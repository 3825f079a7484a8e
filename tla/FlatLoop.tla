------------------------------ MODULE FlatLoop ------------------------------
(***************************************************************************)
(* What the backend emits for a loop over flat Vecs of scalars or structs  *)
(* (runtime/llvm-api-backend.c), and when the generator asks for it        *)
(* (src/ir/expr.psm, src/ir/stmt.psm).  Before the loop the preheader      *)
(* may replace it by a memset or a memcpy; otherwise it computes a push    *)
(* guard, which stands for the capacity test of every push in the loop, and*)
(* a flat guard, which chooses between a copy of the loop with inline      *)
(* accesses and one that calls the runtime.                                *)
(*                                                                         *)
(* Receivers are compared by NAME in the generator and are lists at run    *)
(* time.  An element is its index: the model tells apart where a load or   *)
(* store lands, not what it moves.  The representation is the same for all *)
(* lists: the inline-storage knob belongs to the process.  An access that  *)
(* the range prover covers (ir/ranges.psm) is a checked one here.          *)
(***************************************************************************)
EXTENDS Integers, Sequences, FiniteSets, FiniteSetsExt

CONSTANTS
    Loops,      \* the loops of the source program
    Aliased,    \* whether a caller may pass one list under both names
    StartCaps,  \* capacities the lists may have before the loop
    IntMax,     \* Int.MAX
    FillMin,    \* the least count ir_list_prepare_fill reserves for (64)
    LenBound    \* bound: how long a list grows

Ints == (-IntMax - 1)..IntMax
Plus(i, k) == ((i + k + IntMax + 1) % (2 * IntMax + 2)) - IntMax - 1

\* The loop `while (iv < n)`, `(iv <= n)` or `(iv < list_len(on))`, its statements
\* and last `iv = iv + step`.  A statement appends (a zero, or any value), reads or
\* writes x at `iv` or at another index, moves y's element at iv to x, appends in
\* one of two arms (y may be "none"), may break, or assigns iv.
Ops == {"push", "zero", "get", "set", "copy", "either", "leave", "assign"}
Names == {"a", "b"}
Statements ==
    {s \in [op : Ops, x : Names, y : Names \cup {"none"}, i : {"iv", "any"}] :
        s.op = "copy" => s.y # "none"}

ASSUME FlatLoopAssumption ==
    /\ Loops \subseteq [cond : {"lt", "le", "len"}, on : Names, step : {1, -1},
                        body : Seq(Statements)]
    /\ Aliased \in BOOLEAN
    /\ IntMax \in Nat \ {0, 1} /\ FillMin \in Nat /\ LenBound \in 0..IntMax /\ StartCaps \subseteq Nat

VARIABLES
    loop,
    flat,       \* elem_size is the element's stride, not 0
    cell,       \* name -> the list it is bound to
    header,     \* list -> its len, cap and data, the block's number
    iv, bound,
    at,         \* the preheader's stage, "head", "body", "done" or "stopped"
    pos,        \* the statement of the body
    pushGuard,  \* the push guard's slot, "none" without one
    flatCopy,   \* the copy with inline accesses runs
    hoisted,    \* the receiver whose length and block were loaded once
    start,      \* iv and the lengths before the loop (history)
    astray,     \* history: an access missed its block, or a good index was refused,
    below       \*   but for an unchecked read at an index below zero

loopVars == <<loop, flat, cell, header, iv, bound, at, pos, pushGuard, flatCopy, hoisted, start, astray, below>>

ListIds == {1, 2}
NotHoisted == [name |-> "none", len |-> 0, data |-> 0]

FlatLoopInit ==
    /\ loop \in Loops
    /\ flat \in BOOLEAN
    /\ cell \in {[a |-> 1, b |-> 2]} \cup IF Aliased THEN {[a |-> 1, b |-> 1]} ELSE {}
    /\ iv \in {-1, 0, 1}
    /\ bound \in {0, 2, IntMax}
    /\ \E cap \in [ListIds -> StartCaps] : \E len \in [ListIds -> 0..LenBound] :
          /\ \A l \in ListIds : len[l] <= cap[l]
          /\ header = [l \in ListIds |-> [len |-> len[l], cap |-> cap[l], data |-> l]]
          /\ start = [iv |-> iv, len |-> len]
    /\ at = "fill" /\ pos = 1
    /\ pushGuard = "none"
    /\ flatCopy = FALSE
    /\ hoisted = NotHoisted
    /\ astray = FALSE /\ below = FALSE

----------------------------------------------------------------------------
Body == loop.body
H(x) == header[cell[x]]
Data(l) == header[l].data
NewBlock == Max({Data(l) : l \in ListIds}) + 1

\* flatPushStride, flatGetStride and flatSetScalarStride of a statement.
Appends(s) == (IF s.op \in {"push", "zero"} THEN {s.x} ELSE {})
              \cup (IF s.op = "either" THEN {s.x, s.y} \ {"none"} ELSE {})
Reads(s) == (IF s.op \in {"get", "set", "copy"} THEN {s.x} ELSE {})
            \cup (IF s.op = "copy" THEN {s.y} ELSE {})

\* irCountPushes: an `if` counts the larger of its arms.
CountPushes(x) == Cardinality({k \in DOMAIN Body : x \in Appends(Body[k])})

\* irFillsBefore: the pushes that run in every turn.
Fills(x) == Cardinality({k \in DOMAIN Body : Body[k].op \in {"push", "zero"} /\ Body[k].x = x})
MayLeave == \E k \in DOMAIN Body : Body[k].op = "leave"

\* Counting up by one, with the update as the only assignment of iv; and to a bound
\* that the loop does not change.  generateLoopPushGuard tests the latter,
\* generateLoopHeaderBound neither.
Climbs == loop.step = 1 /\ \A k \in DOMAIN Body : Body[k].op # "assign"
Counted == loop.cond \in {"lt", "le"} /\ Climbs
Lone(op) == Len(Body) = 1 /\ Body[1].op = op /\ Counted /\ loop.cond = "lt"

\* The trip count, in 64 bits; a loop up to Int.MAX inclusive has none.
Trip == bound - iv + IF loop.cond = "le" THEN 1 ELSE 0
Finite == loop.cond = "le" => bound < IntMax

HasRoom(h, need) == h.cap - h.len >= need

\* Mutant: a loop that runs no turn is replaced too.
ZeroFills_AnyTrip ==
    LET h == H(Body[1].x) IN
    Lone("zero") /\ flat /\ HasRoom(h, Trip)

\* ir_list_flat_zero_append: `while (iv < n) x.push(0)` is a memset.
ZeroFills ==
    LET h == H(Body[1].x) IN
    Lone("zero") /\ Trip >= 0 /\ flat /\ HasRoom(h, Trip)

ZeroFill ==
    /\ at = "fill" /\ ZeroFills
    /\ LET l == cell[Body[1].x] IN
          /\ astray' = (astray \/ header[l].len + Trip > header[l].cap)
          /\ header' = [header EXCEPT ![l].len = @ + Trip]
    /\ iv' = bound
    /\ at' = "done"
    /\ UNCHANGED <<loop, flat, cell, bound, pos, pushGuard, flatCopy, hoisted, start, below>>

NoZeroFill ==
    /\ at = "fill" /\ ~ZeroFills
    /\ at' = "push"
    /\ UNCHANGED <<loop, flat, cell, header, iv, bound, pos, pushGuard, flatCopy, hoisted, start, astray, below>>

\* ir_list_prepare_fill: an empty list that the loop fills is reserved at its final
\* size (list_reserve), unless the loop may stop early.
Prepared(l) ==
    LET trip == IF Finite THEN Trip ELSE 0
        needs == {trip * Fills(x) : x \in {y \in Names : cell[y] = l /\ Fills(y) > 0}}
        need == Max(needs \cup {0})
        h == header[l]
    IN IF ~MayLeave /\ flat /\ h.len = 0 /\ need >= FillMin /\ need > h.cap
       THEN [h EXCEPT !.cap = need, !.data = NewBlock + l]
       ELSE h

\* Mutant: room is asked for one append in each turn.
RoomForAll_OneEach(hs) ==
    \A x \in Names : CountPushes(x) > 0 => HasRoom(hs[cell[x]], Trip)

\* generateTripPushGuard: for each receiver, elem_size and ir_list_has_room.
RoomForAll(hs) ==
    \A x \in Names : CountPushes(x) > 0 => HasRoom(hs[cell[x]], Trip * CountPushes(x))

PushGuard ==
    /\ at = "push"
    /\ IF Counted
       THEN LET hs == [l \in ListIds |-> Prepared(l)] IN
            /\ header' = hs
            /\ pushGuard' = IF Finite /\ RoomForAll(hs) /\ (flat \/ \A x \in Names : CountPushes(x) = 0)
                            THEN "true" ELSE "false"
       ELSE UNCHANGED <<header, pushGuard>>
    /\ at' = "copy"
    /\ UNCHANGED <<loop, flat, cell, iv, bound, pos, flatCopy, hoisted, start, astray, below>>

\* ir_list_flat_copy: `while (iv < n) x[iv] = y[iv]` is a memcpy between two blocks.
Transfers ==
    LET d == H(Body[1].x)  s == H(Body[1].y) IN
    /\ Lone("copy") /\ flat
    /\ iv >= 0 /\ iv <= bound
    /\ bound <= d.len /\ bound <= s.len
    /\ d.data # s.data

Transfer ==
    /\ at = "copy" /\ Transfers
    /\ LET d == H(Body[1].x)  s == H(Body[1].y) IN
          astray' = (astray \/ bound > d.len \/ bound > s.len \/ iv < 0 \/ d.data = s.data)
    /\ iv' = bound
    /\ at' = "done"
    /\ UNCHANGED <<loop, flat, cell, header, bound, pos, pushGuard, flatCopy, hoisted, start, below>>

NoTransfer ==
    /\ at = "copy" /\ ~Transfers
    /\ at' = "flat"
    /\ UNCHANGED <<loop, flat, cell, header, iv, bound, pos, pushGuard, flatCopy, hoisted, start, astray, below>>

\* irCaptureStableListBound: the first receiver read that no statement appends to.
Stable(x) == CountPushes(x) = 0
Captured ==
    LET ks == {k \in DOMAIN Body : \E x \in Reads(Body[k]) : Stable(x)}
        s == Body[Min(ks)]
    IN CASE ks = {} -> NotHoisted
         [] ks # {} -> LET x == IF Stable(s.x) THEN s.x ELSE s.y
                       IN [name |-> x, len |-> H(x).len, data |-> H(x).data]

\* generateLoopFlatGuard, with generateLoopHeaderBound's conjunct.
Guarded == \E k \in DOMAIN Body : Reads(Body[k]) # {}
FlatGuard ==
    /\ at = "flat"
    /\ flatCopy' = (Guarded /\ flat /\ (loop.cond = "len" => iv >= 0))
    /\ hoisted' = IF Guarded THEN Captured ELSE NotHoisted
    /\ at' = "head"
    /\ UNCHANGED <<loop, flat, cell, header, iv, bound, pos, pushGuard, start, astray, below>>

----------------------------------------------------------------------------
Goes == CASE loop.cond = "lt" -> iv < bound
          [] loop.cond = "le" -> iv <= bound
          [] loop.cond = "len" -> iv < H(loop.on).len

TestCondition ==
    /\ at = "head"
    /\ at' = IF Goes THEN "body" ELSE "done"
    /\ pos' = 1
    /\ UNCHANGED <<loop, flat, cell, header, iv, bound, pushGuard, flatCopy, hoisted, start, astray, below>>

AtStatement == at = "body" /\ pos <= Len(Body)
Stmt == Body[pos]
Onward == pos' = pos + 1 /\ UNCHANGED at
Stops == at' = "stopped" /\ UNCHANGED pos

\* The fact `iv < list_len(on)` of the condition, until the body assigns iv.
HeaderBound(x, i) ==
    /\ loop.cond = "len" /\ x = loop.on /\ i = "iv"
    /\ \A k \in 1..(pos - 1) : Body[k].op # "assign"

\* list_bounds_or_fail and flat_element_address: which length an inline access is
\* checked against and which block it addresses; the runtime's accessors, in the
\* other copy, read both from the header.
LenUsed(x) == IF flatCopy /\ hoisted.name = x THEN hoisted.len ELSE H(x).len
DataUsed(x) == IF flatCopy /\ hoisted.name = x THEN hoisted.data ELSE H(x).data
Refused(x, i, checked) == checked /\ ~(0 <= i /\ i < LenUsed(x))
Lands(x, i) == i < H(x).len /\ DataUsed(x) = H(x).data

\* An access at or above zero that goes wrong, and one made below zero.
Misses(x, i, checked) ==
    0 <= i /\ IF Refused(x, i, checked) THEN i < H(x).len ELSE ~Lands(x, i)
Under(x, i, checked) == i < 0 /\ ~Refused(x, i, checked)

\* ir_list_flat_scalar_elem, ir_list_flat_scalar_set.
Access(x, i, checked) ==
    /\ IF Refused(x, i, checked) THEN Stops ELSE Onward
    /\ astray' = (astray \/ Misses(x, i, checked))
    /\ below' = (below \/ Under(x, i, checked))

LoadOne ==
    /\ AtStatement /\ Stmt.op = "get"
    /\ \E i \in IF Stmt.i = "iv" THEN {iv} ELSE Ints :
          Access(Stmt.x, i, ~(flatCopy /\ HeaderBound(Stmt.x, Stmt.i)))
    /\ UNCHANGED <<loop, flat, cell, header, iv, bound, pushGuard, flatCopy, hoisted, start>>

StoreOne ==
    /\ AtStatement /\ Stmt.op = "set"
    /\ \E i \in IF Stmt.i = "iv" THEN {iv} ELSE Ints : Access(Stmt.x, i, TRUE)
    /\ UNCHANGED <<loop, flat, cell, header, iv, bound, pushGuard, flatCopy, hoisted, start>>

\* The element is read from y, then written to x.
CopyOne ==
    /\ AtStatement /\ Stmt.op = "copy"
    /\ LET checked == ~(flatCopy /\ HeaderBound(Stmt.y, "iv")) IN
       IF Refused(Stmt.y, iv, checked)
       THEN Access(Stmt.y, iv, checked)
       ELSE /\ IF Refused(Stmt.x, iv, TRUE) THEN Stops ELSE Onward
            /\ astray' = (astray \/ Misses(Stmt.y, iv, checked) \/ Misses(Stmt.x, iv, TRUE))
            /\ below' = (below \/ Under(Stmt.y, iv, checked) \/ Under(Stmt.x, iv, TRUE))
    /\ UNCHANGED <<loop, flat, cell, header, iv, bound, pushGuard, flatCopy, hoisted, start>>

\* list_inline_grow and list_push_grow; the block moves.
AfterGrowth(h) ==
    IF h.len < h.cap THEN h
    ELSE [h EXCEPT !.cap = IF h.cap = 0 THEN 1 ELSE 2 * h.cap, !.data = NewBlock]

\* ir_list_flat_push_scalar: under the push guard the store is made with no test;
\* in the flat copy of a loop without one, when there is room; else
\* list_push_inline_scalar_slow.
Unchecked == pushGuard = "true"
AppendTo(x) ==
    LET h == IF Unchecked THEN H(x) ELSE AfterGrowth(H(x)) IN
    /\ h.len < LenBound
    /\ astray' = (astray \/ h.len >= h.cap)
    /\ header' = [header EXCEPT ![cell[x]] = [h EXCEPT !.len = @ + 1]]

PushOne ==
    /\ AtStatement
    /\ \E x \in Appends(Stmt) : AppendTo(x)
    /\ Onward
    /\ UNCHANGED <<loop, flat, cell, iv, bound, pushGuard, flatCopy, hoisted, start, below>>

\* The arm of an `if` that appends nothing, a break not taken, or one taken.
SkipArm ==
    /\ AtStatement
    /\ \/ Stmt.op = "either" /\ Stmt.y = "none" /\ Onward
       \/ Stmt.op = "leave" /\ (Onward \/ (at' = "done" /\ UNCHANGED pos))
    /\ UNCHANGED <<loop, flat, cell, header, iv, bound, pushGuard, flatCopy, hoisted, start, astray, below>>

AssignIndex ==
    /\ AtStatement /\ Stmt.op = "assign"
    /\ iv' \in Ints
    /\ Onward
    /\ UNCHANGED <<loop, flat, cell, header, bound, pushGuard, flatCopy, hoisted, start, astray, below>>

\* `iv = iv + step`, and back to the condition.
AdvanceIndex ==
    /\ at = "body" /\ pos > Len(Body)
    /\ iv' = Plus(iv, loop.step)
    /\ at' = "head"
    /\ UNCHANGED <<loop, flat, cell, header, bound, pos, pushGuard, flatCopy, hoisted, start, astray, below>>

FlatLoopNext ==
    \/ ZeroFill \/ NoZeroFill \/ PushGuard \/ Transfer \/ NoTransfer \/ FlatGuard
    \/ TestCondition \/ LoadOne \/ StoreOne \/ CopyOne \/ PushOne \/ SkipArm
    \/ AssignIndex \/ AdvanceIndex

FlatLoopSpec == FlatLoopInit /\ [][FlatLoopNext]_loopVars

----------------------------------------------------------------------------
\* Every load and store of an element, the bulk ones included, falls in the block
\* its list has at that moment and on an element that exists (for an append: below
\* the capacity), and an access stops the program only for an index out of range.
\* The guards were computed once, before the loop; growth, other receivers and the
\* loop's own index change while it runs.  One access escapes: the preheader's test
\* of the first index does not cover a read at an index that the loop itself brings
\* below zero, counting down or assigning it (expr.psm 1984-1989).
AccessesInBlock == ~astray /\ (Climbs => ~below)

\* A counted loop without branches leaves its index and its lists as the loop in
\* the source would, whichever of the memset, the memcpy, the reservation and the
\* loop's copies ran.
Straight == Counted /\ Finite /\ \A k \in DOMAIN Body : Body[k].op \notin {"either", "leave"}
LoopIsPlain ==
    at = "done" /\ Straight =>
        LET last == bound + IF loop.cond = "le" THEN 1 ELSE 0
            turns == Max({0, last - start.iv})
        IN /\ iv = Max({start.iv, last})
           /\ \A l \in ListIds :
                 header[l].len = start.len[l]
                     + turns * Cardinality({k \in DOMAIN Body :
                                              \E x \in Appends(Body[k]) : cell[x] = l})
=============================================================================
