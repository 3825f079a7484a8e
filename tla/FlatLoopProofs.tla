--------------------------- MODULE FlatLoopProofs ---------------------------
(***************************************************************************)
(* What a compiled loop over flat Vecs guarantees, for every loop, every   *)
(* capacity and every bound.  The push guard is computed once, as a trip   *)
(* count times the appends of a turn: the proof keeps, at each statement,  *)
(* the room that the rest of the loop still needs.                         *)
(***************************************************************************)
EXTENDS FlatLoop, FiniteSetTheorems, WellFoundedInduction, TLAPS

Headers == [ListIds -> [len : Nat, cap : Nat, data : Int]]

LoopTypeOK ==
    /\ loop \in Loops
    /\ flat \in BOOLEAN
    /\ cell = [a |-> 1, b |-> 2]
    /\ header \in Headers
    /\ iv \in Ints /\ bound \in 0..IntMax /\ pos \in Nat \ {0}
    /\ at \in {"fill", "push", "copy", "flat", "head", "body", "done", "stopped"}
    /\ pushGuard \in {"none", "true", "false"}
    /\ flatCopy \in BOOLEAN
    /\ hoisted \in [name : Names \cup {"none"}, len : Nat, data : Int]
    /\ start \in [iv : Int, len : [ListIds -> Nat]]

Sound(hs) == \A l \in ListIds : hs[l].len <= hs[l].cap
Short == at # "done" => \A l \in ListIds : header[l].len <= LenBound

\* The statements that append to x, and how many of them this turn has left.
Places(x) == {k \in DOMAIN Body : x \in Appends(Body[k])}
Ahead(x) == Cardinality((pos..Len(Body)) \cap Places(x))
Behind(x) == Cardinality((1..(pos - 1)) \cap Places(x))

\* Before the guards are computed; and from then on.
Early == {"fill", "push", "copy", "flat"}
HoistKept ==
    /\ at \in Early => hoisted = NotHoisted /\ flatCopy = FALSE
    /\ hoisted.name # "none" =>
          /\ Stable(hoisted.name)
          /\ hoisted.len = H(hoisted.name).len /\ hoisted.data = H(hoisted.name).data

\* Under the push guard there is room for what the loop has left to append.
RoomKept ==
    /\ at \in {"fill", "push"} => pushGuard = "none"
    /\ pushGuard = "true" =>
        /\ Counted /\ Finite
        /\ at \in {"copy", "flat", "head"} =>
              \A x \in Names : H(x).cap - H(x).len >= Trip * CountPushes(x)
        /\ at = "body" =>
              /\ Trip >= 1
              /\ \A x \in Names :
                    H(x).cap - H(x).len >= (Trip - 1) * CountPushes(x) + Ahead(x)

\* The condition's fact `iv < list_len(on)`, until the body assigns iv; and
\* `0 <= iv`, tested before the loop, where iv only climbs.
Unassigned == \A k \in DOMAIN Body : k < pos => Body[k].op # "assign"
FactKept ==
    loop.cond = "len" /\ flatCopy =>
        /\ at = "body" /\ Unassigned => iv < H(loop.on).len
        /\ Climbs /\ at \in {"head", "body"} => iv >= 0

\* The index and the lengths are those of the loop in the source.
Last == bound + IF loop.cond = "le" THEN 1 ELSE 0
Turns == iv - start.iv
Grown(l, n) == header[l].len = start.len[l] + n
PlainKept ==
    Straight =>
        /\ at \in Early => Turns = 0 /\ \A x \in Names : Grown(cell[x], 0)
        /\ at = "head" => \A x \in Names : Grown(cell[x], Turns * CountPushes(x))
        /\ at = "body" =>
              /\ iv < Last
              /\ \A x \in Names : Grown(cell[x], Turns * CountPushes(x) + Behind(x))
        /\ at \in {"head", "body"} => Turns >= 0 /\ (Turns = 0 \/ iv <= Last)
        /\ at = "done" =>
              /\ Turns >= 0 /\ iv >= Last /\ (Turns = 0 \/ iv = Last)
              /\ \A x \in Names : Grown(cell[x], Turns * CountPushes(x))

LoopInv ==
    /\ LoopTypeOK /\ Sound(header) /\ Short
    /\ HoistKept /\ RoomKept /\ FactKept /\ PlainKept
    /\ AccessesInBlock

----------------------------------------------------------------------------
LEMMA LeastIsOne ==
    ASSUME NEW ks \in SUBSET Nat, ks # {}
    PROVE  Min(ks) \in ks
<1>. DEFINE R == OpToRel(<, Nat)
<1>1. \A k, m \in Nat : k < m => <<k, m>> \in R
  BY DEF OpToRel
<1>2. IsWellFoundedOn(R, Nat)
  BY NatLessThanWellFounded
<1>. HIDE DEF R
<1>3. PICK m \in ks : \A k \in ks : ~(<<k, m>> \in R)
  BY <1>2, WFMin
<1>4. \A k \in ks : ~(k < m)
  BY <1>1, <1>3, Zenon
<1>5. \A k \in ks : m <= k
  BY <1>4
<1>. QED  BY <1>5 DEF Min

LEMMA GreatestIsOne ==
    ASSUME NEW p \in Int, NEW q \in Int, NEW S \in SUBSET {p, q, 0}, 0 \in S
    PROVE  Max(S) \in S /\ Max(S) >= 0
<1>1. \E m \in S : \A k \in S : m >= k
  OBVIOUS
<1>. QED  BY <1>1 DEF Max

\* A turn taken apart at one of its statements.
LEMMA AheadOf ==
    ASSUME NEW A \in SUBSET Nat, NEW n \in Nat, NEW p \in 1..n
    PROVE  /\ Cardinality((p..n) \cap A)
                = Cardinality(((p + 1)..n) \cap A) + (IF p \in A THEN 1 ELSE 0)
           /\ Cardinality((p..n) \cap A) \in Nat
           /\ Cardinality(((p + 1)..n) \cap A) \in Nat
<1>. DEFINE S == ((p + 1)..n) \cap A
<1>0. IsFiniteSet((p + 1)..n)
  BY FS_Interval
<1>1. IsFiniteSet(S) /\ Cardinality(S) \in Nat
  BY <1>0, FS_Subset, FS_CardinalityType, Zenon
<1>2. p \notin S
  OBVIOUS
<1>4. Cardinality(S \cup {p}) = Cardinality(S) + 1
  BY <1>1, <1>2, FS_AddElement, Zenon
<1>3. (p..n) \cap A = IF p \in A THEN S \cup {p} ELSE S
  OBVIOUS
<1>. HIDE DEF S
<1>. QED  BY <1>1, <1>4, <1>3 DEF S

LEMMA BehindOf ==
    ASSUME NEW A \in SUBSET Nat, NEW p \in Nat \ {0}
    PROVE  /\ Cardinality((1..p) \cap A)
                = Cardinality((1..(p - 1)) \cap A) + (IF p \in A THEN 1 ELSE 0)
           /\ Cardinality((1..(p - 1)) \cap A) \in Nat
<1>. DEFINE S == (1..(p - 1)) \cap A
<1>0. IsFiniteSet(1..(p - 1))
  BY FS_Interval
<1>1. IsFiniteSet(S) /\ Cardinality(S) \in Nat
  BY <1>0, FS_Subset, FS_CardinalityType, Zenon
<1>2. p \notin S
  OBVIOUS
<1>4. Cardinality(S \cup {p}) = Cardinality(S) + 1
  BY <1>1, <1>2, FS_AddElement, Zenon
<1>3. (1..p) \cap A = IF p \in A THEN S \cup {p} ELSE S
  OBVIOUS
<1>. HIDE DEF S
<1>5. Cardinality((1..p) \cap A) = Cardinality(S) + (IF p \in A THEN 1 ELSE 0)
  BY <1>1, <1>4, <1>3
<1>. QED  BY <1>1, <1>5, Zenon DEF S

\* An addition that stays in range does not wrap.
LEMMA PlusInRange ==
    ASSUME NEW i \in Int, NEW k \in Int, i + k \in Ints
    PROVE  Plus(i, k) = i + k
<1>1. \A m \in Nat \ {0} : \A a \in 0..(m - 1) : a % m = a
  OBVIOUS
<1>2. i + k + IntMax + 1 \in 0..((2 * IntMax + 2) - 1) /\ 2 * IntMax + 2 \in Nat \ {0}
  BY FlatLoopAssumption DEF Ints
<1>3. (i + k + IntMax + 1) % (2 * IntMax + 2) = i + k + IntMax + 1
  BY <1>1, <1>2
<1>. QED  BY <1>3, FlatLoopAssumption DEF Plus

LEMMA PlusTyped ==
    ASSUME NEW i \in Int, NEW k \in Int
    PROVE  Plus(i, k) \in Ints
<1>1. PICK m \in Nat \ {0} : m = 2 * IntMax + 2
  BY FlatLoopAssumption
<1>2. PICK a \in Int : a = i + k + IntMax + 1
  BY FlatLoopAssumption
<1>3. a % m \in 0..(m - 1)
  OBVIOUS
<1>4. Plus(i, k) = (a % m) - IntMax - 1
  BY <1>1, <1>2 DEF Plus
<1>. QED  BY <1>1, <1>3, <1>4, FlatLoopAssumption DEF Ints

LEMMA Products ==
    ASSUME NEW a \in Int, NEW c \in Int
    PROVE  /\ a * c \in Int
           /\ (a - 1) * c = a * c - c
           /\ (a + 1) * c = a * c + c
           /\ 0 * c = 0
OBVIOUS

----------------------------------------------------------------------------
\* What a statement may be.
LEMMA BodyTyped ==
    ASSUME loop \in Loops
    PROVE  /\ Len(Body) \in Nat /\ DOMAIN Body = 1..Len(Body)
           /\ \A k \in DOMAIN Body : Body[k] \in Statements
           /\ loop.cond \in {"lt", "le", "len"} /\ loop.on \in Names /\ loop.step \in {1, -1}
<1>1. loop \in [cond : {"lt", "le", "len"}, on : Names, step : {1, -1}, body : Seq(Statements)]
  BY FlatLoopAssumption
<1>2. Body \in Seq(Statements)
  BY <1>1 DEF Body
<1>. QED  BY <1>1, <1>2

LEMMA StatementTyped ==
    ASSUME NEW s \in Statements
    PROVE  /\ s.op \in Ops /\ s.x \in Names
           /\ s.op = "copy" => s.y \in Names
           /\ Appends(s) \subseteq Names /\ Reads(s) \subseteq Names
           /\ s.op \in {"push", "zero"} => Appends(s) = {s.x}
           /\ s.op \notin {"push", "zero", "either"} => Appends(s) = {}
BY DEF Statements, Appends, Reads, Names

LEMMA PlacesCounted ==
    ASSUME loop \in Loops, NEW x \in Names
    PROVE  /\ Places(x) \in SUBSET Nat
           /\ (1..Len(Body)) \cap Places(x) = Places(x)
           /\ CountPushes(x) = Cardinality(Places(x))
           /\ CountPushes(x) \in Nat
           /\ Stable(x) => Places(x) = {}
<1>1. Places(x) \subseteq 1..Len(Body) /\ Len(Body) \in Nat
  BY BodyTyped DEF Places
<1>2. CountPushes(x) = Cardinality(Places(x))
  BY DEF CountPushes, Places
<1>3. IsFiniteSet(1..Len(Body))
  BY <1>1, FS_Interval
<1>4. IsFiniteSet(Places(x))
  BY <1>1, <1>3, FS_Subset
<1>. QED  BY <1>1, <1>2, <1>4, FS_CardinalityType, FS_EmptySet DEF Stable

\* What depends on the loop and its names only.
Frame == UNCHANGED <<loop, flat, cell, bound, start>>

LEMMA FrameKept ==
    ASSUME Frame
    PROVE  /\ Body' = Body /\ \A x : Places(x)' = Places(x) /\ CountPushes(x)' = CountPushes(x)
           /\ \A x : Stable(x)' = Stable(x)
           /\ Climbs' = Climbs /\ Counted' = Counted /\ Finite' = Finite /\ Straight' = Straight
           /\ Last' = Last
BY Zenon DEF Frame, Body, Places, CountPushes, Stable, Climbs, Counted, Finite, Straight, Last

LEMMA BlocksKept ==
    ASSUME Frame, ~astray', Climbs => ~below'
    PROVE  AccessesInBlock'
BY FrameKept DEF AccessesInBlock

LEMMA Numbers ==
    ASSUME LoopTypeOK
    PROVE  /\ iv \in Int /\ bound \in Int /\ Last \in Int /\ Turns \in Int
           /\ Trip \in Int /\ Trip = Last - iv
           /\ cell["a"] = 1 /\ cell["b"] = 2
           /\ \A x \in Names : /\ cell[x] \in ListIds
                               /\ H(x).len \in Nat /\ H(x).cap \in Nat /\ H(x).data \in Int
                               /\ start.len[cell[x]] \in Nat
                               /\ \A y \in Names : cell[x] = cell[y] => x = y
<1>1. iv \in Int /\ bound \in Int /\ start.iv \in Int
  BY FlatLoopAssumption DEF LoopTypeOK, Ints
<1>2. cell["a"] = 1 /\ cell["b"] = 2
  BY DEF LoopTypeOK
<1>3. \A x \in Names : cell[x] \in ListIds /\ \A y \in Names : cell[x] = cell[y] => x = y
  BY <1>2 DEF Names, ListIds
<1>4. \A x \in Names : H(x).len \in Nat /\ H(x).cap \in Nat /\ H(x).data \in Int
                       /\ start.len[cell[x]] \in Nat
  BY <1>3 DEF H, LoopTypeOK, Headers
<1>. QED  BY <1>1, <1>2, <1>3, <1>4 DEF Last, Turns, Trip

LEMMA LoopInitInv ==
    ASSUME FlatLoopInit, ~Aliased
    PROVE  LoopInv
<1>. PICK cap \in [ListIds -> StartCaps], len \in [ListIds -> 0..LenBound] :
        /\ \A l \in ListIds : len[l] <= cap[l]
        /\ header = [l \in ListIds |-> [len |-> len[l], cap |-> cap[l], data |-> l]]
        /\ start = [iv |-> iv, len |-> len]
  BY DEF FlatLoopInit
<1>1. LoopTypeOK /\ cell = [a |-> 1, b |-> 2]
  <2>0. \A l \in ListIds : cap[l] \in Nat /\ len[l] \in Nat /\ l \in Int
    <3>1. StartCaps \subseteq Nat /\ 0..LenBound \subseteq Nat
      BY FlatLoopAssumption
    <3>2. \A l \in ListIds : cap[l] \in StartCaps /\ len[l] \in 0..LenBound
      BY Zenon
    <3>3. \A l \in ListIds : l \in Int
      BY DEF ListIds
    <3>. QED  BY <3>1, <3>2, <3>3, Zenon
  <2>1. header \in Headers
    BY <2>0 DEF Headers
  <2>3. cell = [a |-> 1, b |-> 2]
    BY DEF FlatLoopInit
  <2>4. bound \in 0..IntMax /\ iv \in Ints
    BY FlatLoopAssumption DEF FlatLoopInit, Ints
  <2>5. hoisted \in [name : Names \cup {"none"}, len : Nat, data : Int]
    BY DEF FlatLoopInit, NotHoisted
  <2>2. start \in [iv : Int, len : [ListIds -> Nat]]
    BY FlatLoopAssumption DEF FlatLoopInit
  <2>6. pos \in Nat \ {0}
    BY DEF FlatLoopInit
  <2>. QED  BY <2>1, <2>2, <2>3, <2>4, <2>5, <2>6, Zenon DEF FlatLoopInit, LoopTypeOK
<1>2. Sound(header) /\ Short
  BY FlatLoopAssumption DEF Sound, Short, ListIds
<1>3. HoistKept
  BY DEF FlatLoopInit, HoistKept, NotHoisted
<1>4. RoomKept /\ FactKept /\ AccessesInBlock
  BY DEF FlatLoopInit, RoomKept, FactKept, AccessesInBlock
<1>5. PlainKept
  <2>1. Turns = 0 /\ \A x \in Names : Grown(cell[x], 0)
    BY <1>1, FlatLoopAssumption DEF FlatLoopInit, Turns, Grown, Names, ListIds
  <2>. QED  BY <2>1 DEF FlatLoopInit, PlainKept, Early
<1>. QED  BY <1>1, <1>2, <1>3, <1>4, <1>5 DEF LoopInv

----------------------------------------------------------------------------
\* The preheader's tests that change nothing but the stage.
LEMMA StageStep ==
    ASSUME LoopInv, Frame, UNCHANGED <<header, iv, pos, pushGuard, flatCopy, hoisted, astray, below>>,
           \/ at = "fill" /\ at' = "push"
           \/ at = "copy" /\ at' = "flat"
    PROVE  LoopInv'
<1>. USE FrameKept DEF LoopInv, Frame
<1>1. LoopTypeOK'
  BY DEF LoopTypeOK
<1>2. Sound(header)' /\ Short' /\ AccessesInBlock'
  BY DEF Sound, Short, AccessesInBlock
<1>3. HoistKept'
  BY DEF HoistKept, Early, H
<1>4. RoomKept'
  BY DEF RoomKept, H, Trip
<1>5. FactKept'
  BY DEF FactKept
<1>6. PlainKept'
  BY DEF PlainKept, Early, Turns, Grown
<1>. QED  BY <1>1, <1>2, <1>3, <1>4, <1>5, <1>6

\* A statement that appends nothing, a stop and a break.
LEMMA QuietStep ==
    ASSUME LoopInv, Frame, AtStatement, UNCHANGED <<header, iv, pushGuard, flatCopy, hoisted>>,
           \/ Onward /\ (Straight => Appends(Stmt) = {})
           \/ Stops
           \/ at' = "done" /\ pos' = pos /\ ~Straight
    PROVE  LoopTypeOK' /\ Sound(header)' /\ Short' /\ HoistKept' /\ RoomKept' /\ FactKept' /\ PlainKept'
<1>. USE FrameKept DEF LoopInv, Frame
<1>0. /\ at = "body" /\ pos \in 1..Len(Body) /\ Len(Body) \in Nat /\ loop \in Loops
      /\ pos' \in {pos, pos + 1} /\ at' \in {"body", "stopped", "done"}
  BY BodyTyped DEF AtStatement, LoopTypeOK, Onward, Stops
<1>1. LoopTypeOK'
  BY <1>0 DEF LoopTypeOK
<1>2. Sound(header)' /\ Short'
  BY <1>0 DEF Sound, Short
<1>3. HoistKept'
  BY <1>0 DEF HoistKept, Early, H
<1>4. RoomKept'
  <2>1. ASSUME at' = "body", NEW x \in Names
        PROVE  Ahead(x)' <= Ahead(x) /\ Ahead(x) \in Nat /\ Ahead(x)' \in Nat /\ CountPushes(x) \in Nat
    <3>1. pos' = pos + 1
      BY <1>0, <2>1 DEF Onward, Stops
    <3>2. Places(x) \in SUBSET Nat /\ CountPushes(x) \in Nat
      BY <1>0, PlacesCounted
    <3>3. Ahead(x)' = Cardinality(((pos + 1)..Len(Body)) \cap Places(x))
      BY <3>1 DEF Ahead
    <3>4. /\ Cardinality((pos..Len(Body)) \cap Places(x))
                = Cardinality(((pos + 1)..Len(Body)) \cap Places(x)) + (IF pos \in Places(x) THEN 1 ELSE 0)
          /\ Cardinality((pos..Len(Body)) \cap Places(x)) \in Nat
          /\ Cardinality(((pos + 1)..Len(Body)) \cap Places(x)) \in Nat
      BY ONLY <1>0, <3>2, AheadOf, Zenon
    <3>. QED  BY ONLY <3>2, <3>3, <3>4 DEF Ahead
  <2>2. Trip' = Trip
    BY DEF Trip
  <2>3. \A x : H(x)' = H(x)
    BY DEF H
  <2>4. \A x \in Names : H(x).cap \in Nat /\ H(x).len \in Nat
    BY DEF LoopTypeOK, H, Headers, Names, ListIds
  <2>5. Trip \in Int
    BY Numbers
  <2>6. ASSUME at' = "body", pushGuard = "true", NEW x \in Names
        PROVE  H(x).cap - H(x).len >= (Trip - 1) * CountPushes(x) + Ahead(x)'
    <3>1. H(x).cap - H(x).len >= (Trip - 1) * CountPushes(x) + Ahead(x)
      BY <1>0, <2>6 DEF RoomKept
    <3>2. (Trip - 1) * CountPushes(x) \in Int
      BY <2>1, <2>5, <2>6, Products
    <3>. QED  BY <2>1, <2>4, <2>6, <3>1, <3>2
  <2>. QED  BY <1>0, <2>2, <2>3, <2>6 DEF RoomKept
<1>5. FactKept'
  <2>1. Unassigned' => Unassigned
    BY <1>0, BodyTyped DEF Unassigned
  <2>. QED  BY <1>0, <2>1 DEF FactKept, H
<1>6. PlainKept'
  <2>1. Turns' = Turns
    BY DEF Turns
  <2>2. ASSUME at' = "body", Straight, NEW x \in Names
        PROVE  Behind(x)' = Behind(x)
    <3>1. pos' = pos + 1 /\ Appends(Body[pos]) = {}
      BY <1>0, <2>2 DEF Onward, Stops, Stmt
    <3>2. Places(x) \in SUBSET Nat
      BY <1>0, PlacesCounted
    <3>3. pos \notin Places(x)
      BY <3>1 DEF Places
    <3>4. pos' - 1 = pos
      BY <1>0, <3>1
    <3>5. Behind(x)' = Cardinality((1..pos) \cap Places(x))
      BY <3>4 DEF Behind
    <3>. QED  BY <1>0, <3>2, <3>3, <3>5, BehindOf DEF Behind
  <2>. QED  BY <1>0, <2>1, <2>2 DEF PlainKept, Grown, Early, Stops, Onward
<1>. QED  BY <1>1, <1>2, <1>3, <1>4, <1>5, <1>6

----------------------------------------------------------------------------
\* The memset.
LEMMA ZeroFillInv ==
    ASSUME LoopInv, ZeroFill
    PROVE  LoopInv'
<1>. USE DEF LoopInv
<1>0. Frame
  BY DEF ZeroFill, Frame
<1>. DEFINE x0 == Body[1].x
<1>1. /\ Len(Body) = 1 /\ Body[1].op = "zero" /\ loop.cond = "lt" /\ Trip >= 0
      /\ header[cell[x0]].cap - header[cell[x0]].len >= Trip
      /\ at = "fill" /\ at' = "done" /\ iv' = bound
      /\ header' = [header EXCEPT ![cell[x0]].len = @ + Trip]
      /\ astray' = (astray \/ header[cell[x0]].len + Trip > header[cell[x0]].cap)
      /\ UNCHANGED <<pos, pushGuard, flatCopy, hoisted, below>>
  BY DEF ZeroFill, ZeroFills, Lone, HasRoom, H
<1>2. loop \in Loops /\ x0 \in Names /\ Appends(Body[1]) = {x0} /\ DOMAIN Body = {1}
  <2>1. loop \in Loops
    BY DEF LoopTypeOK
  <2>2. DOMAIN Body = {1}
    BY <1>1, <2>1, BodyTyped
  <2>. QED  BY <1>1, <2>1, <2>2, BodyTyped, StatementTyped
<1>. HIDE DEF x0
<1>3. cell[x0] \in ListIds /\ header[cell[x0]] \in [len : Nat, cap : Nat, data : Int] /\ Trip \in Int
  BY <1>2, Numbers DEF LoopTypeOK, Headers
<1>4. \A l \in ListIds :
        /\ header'[l].len = IF l = cell[x0] THEN header[l].len + Trip ELSE header[l].len
        /\ header'[l].cap = header[l].cap
        /\ header[l].len \in Nat /\ header[l].cap \in Nat
  BY <1>1, <1>3 DEF LoopTypeOK, Headers
<1>5. header' \in Headers
  BY <1>1, <1>3 DEF LoopTypeOK, Headers
<1>6. LoopTypeOK'
  <2>1. iv' \in Ints
    BY <1>1, FlatLoopAssumption DEF LoopTypeOK, Ints
  <2>. QED  BY <1>0, <1>1, <1>5, <2>1 DEF LoopTypeOK, Frame
<1>7. Sound(header') /\ Short' /\ AccessesInBlock'
  <2>1. header[cell[x0]].len + Trip <= header[cell[x0]].cap
    BY <1>1, <1>3
  <2>2. \A l \in ListIds : header'[l].len <= header'[l].cap
    BY <1>3, <1>4, <2>1 DEF Sound
  <2>0. ~(header[cell[x0]].len + Trip > header[cell[x0]].cap)
    BY <1>3, <2>1
  <2>3. AccessesInBlock'
    <3>1. ~astray' /\ (Climbs => ~below')
      BY <1>1, <2>0, Zenon DEF AccessesInBlock
    <3>. QED  BY <1>0, <3>1, BlocksKept
  <2>. QED  BY <1>1, <2>2, <2>3 DEF Sound, Short
<1>8. HoistKept' /\ RoomKept' /\ FactKept'
  BY <1>0, <1>1, FrameKept DEF HoistKept, RoomKept, FactKept, Early, NotHoisted, Frame
<1>9. PlainKept'
  <2>. SUFFICES ASSUME Straight  PROVE PlainKept'
    BY <1>0, FrameKept DEF PlainKept
  <2>1. iv = start.iv /\ \A x \in Names : Grown(cell[x], 0)
    BY <1>1, Numbers DEF PlainKept, Early, Turns, LoopTypeOK
  <2>2. Turns' = Trip /\ iv' = Last' /\ Last' = Last
    BY <1>0, <1>1, <2>1, FrameKept, Numbers DEF Turns, Last, Frame
  <2>3. CountPushes(x0) = 1 /\ \A x \in Names : x # x0 => CountPushes(x) = 0
    <3>1. Places(x0) = {1} /\ \A x \in Names : x # x0 => Places(x) = {}
      BY <1>2 DEF Places
    <3>. QED  BY <1>2, <3>1, PlacesCounted, FS_Singleton, FS_EmptySet
  <2>4. ASSUME NEW x \in Names  PROVE Grown(cell[x], Turns * CountPushes(x))'
    <3>1. header[cell[x]].len = start.len[cell[x]]
      BY <2>1, Numbers DEF Grown
    <3>2. header'[cell[x]].len = IF x = x0 THEN header[cell[x]].len + Trip ELSE header[cell[x]].len
      BY <1>2, <1>3, <1>4, Numbers
    <3>3. Turns' * CountPushes(x)' = IF x = x0 THEN Trip ELSE 0
      BY <1>0, <1>3, <2>2, <2>3, FrameKept
    <3>. QED  BY <1>0, <1>3, <3>1, <3>2, <3>3, Numbers DEF Grown, Frame
  <2>. QED  BY <1>1, <2>2, <2>4, Numbers DEF PlainKept, Early
<1>. QED  BY <1>6, <1>7, <1>8, <1>9

LEMMA NewBlockTyped ==
    ASSUME LoopTypeOK
    PROVE  NewBlock \in Int
<1>1. {Data(m) : m \in ListIds} = {Data(1), Data(2)} /\ Data(1) \in Int /\ Data(2) \in Int
  BY DEF Data, ListIds, LoopTypeOK, Headers
<1>2. Max({Data(1), Data(2)}) \in Int
  BY <1>1 DEF Max
<1>. QED  BY <1>1, <1>2 DEF NewBlock

\* A reservation moves an empty list to a larger block.
LEMMA PreparedLists ==
    ASSUME LoopTypeOK, NEW l \in ListIds
    PROVE  /\ Prepared(l) \in [len : Nat, cap : Nat, data : Int]
           /\ Prepared(l).len = header[l].len /\ Prepared(l).cap >= header[l].cap
<1>. DEFINE trip == IF Finite THEN Trip ELSE 0
            needs == {trip * Fills(x) : x \in {y \in Names : cell[y] = l /\ Fills(y) > 0}}
            need == Max(needs \cup {0})
            h == header[l]
<1>1. h \in [len : Nat, cap : Nat, data : Int] /\ l \in Int
  BY DEF LoopTypeOK, Headers, ListIds
<1>2. \A x \in Names : Fills(x) \in Nat
  <2>. TAKE x \in Names
  <2>1. {k \in DOMAIN Body : Body[k].op \in {"push", "zero"} /\ Body[k].x = x} \subseteq 1..Len(Body)
        /\ Len(Body) \in Nat
    BY BodyTyped DEF LoopTypeOK
  <2>2. IsFiniteSet(1..Len(Body))
    BY <2>1, FS_Interval
  <2>. QED  BY <2>1, <2>2, FS_Subset, FS_CardinalityType DEF Fills
<1>3. trip \in Int
  BY Numbers
<1>4. need \in Int
  <2>1. trip * Fills("a") \in Int /\ trip * Fills("b") \in Int
    BY <1>2, <1>3 DEF Names
  <2>2. needs \cup {0} \subseteq {trip * Fills("a"), trip * Fills("b"), 0}
    BY DEF Names
  <2>. HIDE DEF needs, trip
  <2>3. Max(needs \cup {0}) \in needs \cup {0}
    BY <2>1, <2>2, GreatestIsOne
  <2>. QED  BY <2>1, <2>2, <2>3
<1>5. NewBlock \in Int
  BY NewBlockTyped
<1>6. Prepared(l) = IF ~MayLeave /\ flat /\ h.len = 0 /\ need >= FillMin /\ need > h.cap
                    THEN [h EXCEPT !.cap = need, !.data = NewBlock + l] ELSE h
  BY DEF Prepared
<1>. HIDE DEF need, h
<1>7. CASE Prepared(l) = h
  BY <1>1, <1>7 DEF h
<1>8. CASE need > h.cap /\ Prepared(l) = [h EXCEPT !.cap = need, !.data = NewBlock + l]
  <2>1. NewBlock + l \in Int /\ need \in Nat /\ need >= h.cap
    BY <1>1, <1>4, <1>5, <1>8
  <2>2. Prepared(l) = [len |-> h.len, cap |-> need, data |-> NewBlock + l]
    BY <1>1, <1>8
  <2>. QED  BY <1>1, <2>1, <2>2 DEF h
<1>. QED  BY <1>6, <1>7, <1>8

\* The reservations and the push guard.
LEMMA PushGuardInv ==
    ASSUME LoopInv, PushGuard
    PROVE  LoopInv'
<1>. USE DEF LoopInv
<1>0. /\ Frame /\ at = "push" /\ at' = "copy" /\ pushGuard = "none"
      /\ UNCHANGED <<iv, pos, flatCopy, hoisted, astray, below>>
  BY DEF PushGuard, Frame, RoomKept
<1>1. /\ header' \in Headers
      /\ \A l \in ListIds : header'[l].len = header[l].len /\ header'[l].cap >= header[l].cap
  <2>1. CASE header' = [l \in ListIds |-> Prepared(l)]
    BY <2>1, PreparedLists DEF Headers
  <2>2. CASE header' = header
    BY <2>2 DEF LoopTypeOK, Headers
  <2>. QED  BY <2>1, <2>2 DEF PushGuard
<1>2. LoopTypeOK'
  BY <1>0, <1>1 DEF LoopTypeOK, Frame, PushGuard
<1>3. Sound(header') /\ Short' /\ AccessesInBlock'
  <2>1. \A l \in ListIds : header[l].len \in Nat /\ header[l].cap \in Nat /\ header'[l].cap \in Nat
    BY <1>1 DEF LoopTypeOK, Headers
  <2>. QED  BY <1>0, <1>1, <2>1, FrameKept DEF Sound, Short, AccessesInBlock
<1>4. HoistKept' /\ FactKept'
  BY <1>0 DEF HoistKept, FactKept, Early, NotHoisted, Frame
<1>5. RoomKept'
  <2>. SUFFICES ASSUME pushGuard' = "true"
                PROVE  /\ Counted /\ Finite
                       /\ \A x \in Names : H(x)'.cap - H(x)'.len >= Trip * CountPushes(x)
    <3>1. Trip' = Trip
      BY <1>0 DEF Frame, Trip
    <3>. QED  BY <1>0, <3>1, FrameKept DEF RoomKept
  <2>1. Counted /\ Finite /\ header' = [l \in ListIds |-> Prepared(l)]
        /\ RoomForAll([l \in ListIds |-> Prepared(l)])
    BY <1>0 DEF PushGuard
  <2>2. ASSUME NEW x \in Names  PROVE H(x)'.cap - H(x)'.len >= Trip * CountPushes(x)
    <3>1. H(x)' = header'[cell[x]] /\ cell[x] \in ListIds
      BY <1>0, Numbers DEF H, Frame
    <3>2. header'[cell[x]].cap \in Nat /\ header'[cell[x]].len \in Nat
      BY <1>1, <3>1 DEF Headers
    <3>3. CountPushes(x) \in Nat
      BY PlacesCounted DEF LoopTypeOK
    <3>4. CASE CountPushes(x) > 0
      BY <2>1, <3>1, <3>4 DEF RoomForAll, HasRoom
    <3>5. CASE CountPushes(x) = 0
      <4>1. Trip * CountPushes(x) = 0
        BY <3>5, Numbers
      <4>. QED  BY <1>3, <3>1, <3>2, <4>1 DEF Sound
    <3>. QED  BY <3>3, <3>4, <3>5
  <2>. QED  BY <2>1, <2>2
<1>6. PlainKept'
  <2>1. \A x \in Names : header'[cell'[x]].len = header[cell[x]].len
    BY <1>0, <1>1, Numbers DEF Frame
  <2>. QED  BY <1>0, <2>1, FrameKept DEF PlainKept, Early, Turns, Grown, Frame
<1>. QED  BY <1>2, <1>3, <1>4, <1>5, <1>6

\* The memcpy.
LEMMA TransferInv ==
    ASSUME LoopInv, Transfer
    PROVE  LoopInv'
<1>. USE DEF LoopInv
<1>0. /\ Frame /\ at = "copy" /\ at' = "done" /\ iv' = bound /\ iv <= bound
      /\ UNCHANGED <<header, pos, pushGuard, flatCopy, hoisted, below>>
      /\ Len(Body) = 1 /\ Body[1].op = "copy" /\ loop.cond = "lt"
  BY DEF Transfer, Transfers, Lone, Frame
<1>1. LoopTypeOK'
  <2>1. iv' \in Ints
    BY <1>0, FlatLoopAssumption DEF LoopTypeOK, Ints
  <2>. QED  BY <1>0, <2>1 DEF LoopTypeOK, Frame
<1>2. AccessesInBlock'
  <2>. DEFINE d == H(Body[1].x)
              s == H(Body[1].y)
  <2>1. /\ iv >= 0 /\ bound <= d.len /\ bound <= s.len /\ ~(d.data = s.data)
        /\ astray' = (astray \/ bound > d.len \/ bound > s.len \/ iv < 0 \/ d.data = s.data)
    BY DEF Transfer, Transfers
  <2>2. d.len \in Nat /\ s.len \in Nat /\ iv \in Int /\ bound \in Int
    <3>1. Body[1] \in Statements
      BY <1>0, BodyTyped DEF LoopTypeOK
    <3>. QED  BY <1>0, <3>1, StatementTyped, Numbers
  <2>. HIDE DEF d, s
  <2>3. ~(bound > d.len) /\ ~(bound > s.len) /\ ~(iv < 0)
    BY <2>1, <2>2
  <2>4. ~astray' /\ (Climbs => ~below')
    BY <1>0, <2>1, <2>3, Zenon DEF AccessesInBlock
  <2>. QED  BY <1>0, <2>4, BlocksKept
<1>3. Sound(header)' /\ Short'
  BY <1>0 DEF Sound, Short
<1>4. HoistKept' /\ RoomKept' /\ FactKept'
  BY <1>0, FrameKept DEF HoistKept, RoomKept, FactKept, Early, NotHoisted, Frame
<1>5. PlainKept'
  <2>. SUFFICES ASSUME Straight  PROVE PlainKept'
    BY <1>0, FrameKept DEF PlainKept
  <2>1. iv = start.iv /\ \A x \in Names : header[cell[x]].len = start.len[cell[x]]
    BY <1>0, Numbers DEF PlainKept, Early, Turns, LoopTypeOK, Grown
  <2>2. Turns' = bound - iv /\ Turns' \in Nat /\ iv' = Last' /\ Last' = Last
    BY <1>0, <2>1, FrameKept, Numbers DEF Turns, Last, Frame
  <2>3. \A x \in Names : CountPushes(x) = 0
    <3>1. loop \in Loops /\ DOMAIN Body = {1}
      BY <1>0, BodyTyped DEF LoopTypeOK
    <3>2. Appends(Body[1]) = {}
      BY <1>0, <3>1, BodyTyped, StatementTyped
    <3>3. \A x \in Names : Places(x) = {}
      BY <3>1, <3>2 DEF Places
    <3>. QED  BY <3>1, <3>3, PlacesCounted, FS_EmptySet
  <2>4. \A x \in Names : Grown(cell[x], Turns * CountPushes(x))'
    <3>. TAKE x \in Names
    <3>1. Turns' * CountPushes(x)' = 0
      BY <1>0, <2>2, <2>3, FrameKept
    <3>. QED  BY <1>0, <2>1, <3>1, Numbers DEF Grown, Frame
  <2>. QED  BY <1>0, <2>2, <2>4, Numbers DEF PlainKept, Early
<1>. QED  BY <1>1, <1>2, <1>3, <1>4, <1>5

\* The receiver whose length and block are loaded once.
LEMMA CapturedIsStable ==
    ASSUME LoopTypeOK
    PROVE  \/ Captured = NotHoisted
           \/ \E x \in Names : Stable(x) /\ Captured = [name |-> x, len |-> H(x).len, data |-> H(x).data]
<1>. DEFINE ks == {k \in DOMAIN Body : \E x \in Reads(Body[k]) : Stable(x)}
            s == Body[Min(ks)]
            x == IF Stable(s.x) THEN s.x ELSE s.y
<1>1. CASE ks = {}
  BY <1>1 DEF Captured
<1>2. CASE ks # {}
  <2>1. ks \in SUBSET Nat
    BY BodyTyped DEF LoopTypeOK
  <2>2. Min(ks) \in ks
    <3>. HIDE DEF ks
    <3>. QED  BY <1>2, <2>1, LeastIsOne
  <2>3. Captured = [name |-> x, len |-> H(x).len, data |-> H(x).data]
    BY <1>2 DEF Captured
  <2>4. s \in Statements /\ \E y \in Reads(s) : Stable(y)
    BY <2>2, BodyTyped DEF LoopTypeOK
  <2>. HIDE DEF s
  <2>5. Stable(x) /\ x \in Names
    <3>1. Reads(s) \subseteq {s.x, s.y} /\ Reads(s) \subseteq Names
      BY <2>4, StatementTyped DEF Reads
    <3>2. CASE Stable(s.x)
      BY <2>4, <3>2, StatementTyped
    <3>3. CASE ~Stable(s.x)
      BY <2>4, <3>1, <3>3
    <3>. QED  BY <3>2, <3>3
  <2>. QED  BY <2>3, <2>5
<1>. QED  BY <1>1, <1>2

LEMMA FlatGuardInv ==
    ASSUME LoopInv, FlatGuard
    PROVE  LoopInv'
<1>. USE DEF LoopInv
<1>0. /\ Frame /\ at = "flat" /\ at' = "head" /\ UNCHANGED <<header, iv, pos, pushGuard, astray, below>>
      /\ flatCopy' = (Guarded /\ flat /\ (loop.cond = "len" => iv >= 0))
  BY DEF FlatGuard, Frame
<1>1. \/ hoisted' = NotHoisted
      \/ \E x \in Names : Stable(x) /\ hoisted' = [name |-> x, len |-> H(x).len, data |-> H(x).data]
  BY CapturedIsStable DEF FlatGuard
<1>2. hoisted' \in [name : Names \cup {"none"}, len : Nat, data : Int]
  BY <1>1, Numbers DEF NotHoisted
<1>3. flatCopy' \in BOOLEAN
  BY <1>0, Zenon DEF Guarded, LoopTypeOK
<1>4. LoopTypeOK'
  BY <1>0, <1>2, <1>3 DEF LoopTypeOK, Frame
<1>5. Sound(header)' /\ Short' /\ AccessesInBlock'
  BY <1>0, FrameKept DEF Sound, Short, AccessesInBlock
<1>6. \A y : H(y)' = H(y)
  BY <1>0 DEF H, Frame
<1>7. HoistKept'
  BY <1>0, <1>1, <1>6, FrameKept DEF HoistKept, Early, NotHoisted
<1>8. RoomKept'
  <2>1. Trip' = Trip
    BY <1>0 DEF Frame, Trip
  <2>. QED  BY <1>0, <1>6, <2>1, FrameKept DEF RoomKept
<1>9. FactKept'
  BY <1>0, FrameKept DEF FactKept, Frame
<1>10. PlainKept'
  <2>1. Turns' = Turns /\ \A x \in Names : CountPushes(x) \in Nat
    BY <1>0, PlacesCounted DEF Turns, Frame, LoopTypeOK
  <2>. SUFFICES ASSUME Straight  PROVE PlainKept'
    BY <1>0, FrameKept DEF PlainKept
  <2>2. Turns = 0 /\ \A x \in Names : Grown(cell[x], 0)
    BY <1>0 DEF PlainKept, Early
  <2>3. \A x \in Names : Turns' * CountPushes(x)' = 0
    BY <1>0, <2>1, <2>2, FrameKept
  <2>4. \A x \in Names : Grown(cell[x], Turns * CountPushes(x))'
    BY <1>0, <2>2, <2>3 DEF Grown, Frame
  <2>. QED  BY <1>0, <2>1, <2>2, <2>4 DEF PlainKept, Early
<1>. QED  BY <1>4, <1>5, <1>7, <1>8, <1>9, <1>10

\* The loop's condition.
LEMMA TestConditionInv ==
    ASSUME LoopInv, TestCondition
    PROVE  LoopInv'
<1>. USE DEF LoopInv
<1>0. /\ Frame /\ at = "head" /\ at' = IF Goes THEN "body" ELSE "done"
      /\ pos' = 1 /\ UNCHANGED <<header, iv, pushGuard, flatCopy, hoisted, astray, below>>
  BY DEF TestCondition, Frame
<1>1. LoopTypeOK'
  BY <1>0 DEF LoopTypeOK, Frame
<1>2. Sound(header)' /\ Short' /\ AccessesInBlock'
  BY <1>0, FrameKept DEF Sound, Short, AccessesInBlock
<1>3. (\A y : H(y)' = H(y)) /\ Trip' = Trip /\ Turns' = Turns
  BY <1>0 DEF H, Frame, Trip, Turns
<1>4. HoistKept'
  BY <1>0, <1>3, FrameKept DEF HoistKept, Early
<1>5. Counted => (Goes <=> iv < Last)
  <2>1. CASE loop.cond = "lt"
    BY <2>1, Numbers DEF Goes, Last
  <2>2. CASE loop.cond = "le"
    BY <2>2, Numbers DEF Goes, Last
  <2>. QED  BY <2>1, <2>2 DEF Counted
<1>6. \A x \in Names : /\ CountPushes(x) \in Nat
                       /\ Ahead(x)' = CountPushes(x) /\ Behind(x)' = 0
  <2>. TAKE x \in Names
  <2>1. Ahead(x)' = CountPushes(x) /\ CountPushes(x) \in Nat
    BY <1>0, FrameKept, PlacesCounted DEF Ahead, LoopTypeOK
  <2>2. Behind(x)' = Cardinality((1..(1 - 1)) \cap Places(x))
    BY <1>0, FrameKept DEF Behind
  <2>3. (1..(1 - 1)) \cap Places(x) = {}
    OBVIOUS
  <2>. QED  BY <2>1, <2>2, <2>3, FS_EmptySet
<1>7. RoomKept'
  <2>1. ASSUME pushGuard = "true", Goes  PROVE Trip >= 1
    BY <1>5, <2>1, Numbers DEF RoomKept
  <2>2. ASSUME pushGuard = "true", NEW x \in Names
        PROVE  H(x).cap - H(x).len >= (Trip - 1) * CountPushes(x) + CountPushes(x)
    <3>1. H(x).cap - H(x).len >= Trip * CountPushes(x)
      BY <1>0, <2>2 DEF RoomKept
    <3>. QED  BY <1>6, <3>1, Products, Numbers
  <2>. QED  BY <1>0, <1>3, <1>6, <2>1, <2>2, FrameKept DEF RoomKept
<1>8. FactKept'
  BY <1>0, <1>3, FrameKept DEF FactKept, Goes, Frame
<1>9. PlainKept'
  <2>. SUFFICES ASSUME Straight  PROVE PlainKept'
    BY <1>0, FrameKept DEF PlainKept
  <2>1. \A x \in Names : Grown(cell[x], Turns * CountPushes(x))'
    BY <1>0, <1>3, FrameKept DEF PlainKept, Grown, Frame
  <2>2. \A x \in Names : Turns * CountPushes(x) + Behind(x)' = Turns * CountPushes(x)
    BY <1>6, Products, Numbers
  <2>3. at' = "body" => \A x \in Names : Grown(cell[x], Turns * CountPushes(x) + Behind(x))'
    BY <1>0, <1>3, <2>1, <2>2, FrameKept DEF Grown
  <2>4. Turns >= 0 /\ (Turns = 0 \/ iv <= Last) /\ (Goes <=> iv < Last)
    BY <1>0, <1>5 DEF PlainKept, Straight
  <2>. QED  BY <1>0, <1>3, <2>1, <2>3, <2>4, FrameKept, Numbers DEF PlainKept, Early
<1>. QED  BY <1>1, <1>2, <1>4, <1>7, <1>8, <1>9

\* The index's own update.
LEMMA AdvanceIndexInv ==
    ASSUME LoopInv, AdvanceIndex
    PROVE  LoopInv'
<1>. USE DEF LoopInv
<1>0. /\ Frame /\ at = "body" /\ at' = "head" /\ pos > Len(Body) /\ iv' = Plus(iv, loop.step)
      /\ UNCHANGED <<header, pos, pushGuard, flatCopy, hoisted, astray, below>>
  BY DEF AdvanceIndex, Frame
<1>a. loop \in Loops /\ loop.step \in Int /\ Len(Body) \in Nat /\ pos \in Nat
  BY BodyTyped DEF LoopTypeOK
<1>1. LoopTypeOK'
  BY <1>0, <1>a, PlusTyped, Numbers DEF LoopTypeOK, Frame
<1>2. Sound(header)' /\ Short' /\ AccessesInBlock'
  BY <1>0, FrameKept DEF Sound, Short, AccessesInBlock
<1>3. (\A y : H(y)' = H(y)) /\ Last' = Last
  BY <1>0, FrameKept DEF H, Frame
<1>4. HoistKept'
  BY <1>0, <1>3, FrameKept DEF HoistKept, Early
<1>5. ASSUME loop.step = 1, iv < IntMax  PROVE iv' = iv + 1
  <2>1. iv + 1 \in Ints
    BY <1>5, FlatLoopAssumption DEF LoopTypeOK, Ints
  <2>. QED  BY <1>0, <1>5, <2>1, PlusInRange, Numbers
<1>6. ASSUME Counted, Finite, iv < Last  PROVE iv' = iv + 1 /\ Trip' = Trip - 1 /\ Turns' = Turns + 1
  <2>1. iv < IntMax /\ loop.step = 1
    BY <1>6, Numbers, FlatLoopAssumption DEF Counted, Climbs, Finite, Last, LoopTypeOK
  <2>2. iv' = iv + 1
    BY <1>5, <2>1
  <2>3. Turns' = Turns + 1
    BY <1>0, <2>2, Numbers DEF Turns, Frame, LoopTypeOK
  <2>4. Trip' = Last - iv'
    BY <1>1, <1>0, FrameKept, Numbers, <2>2 DEF Trip, Last, Frame
  <2>. QED  BY <2>2, <2>3, <2>4, Numbers
<1>7. \A x \in Names : /\ CountPushes(x) \in Nat
                       /\ Ahead(x) = 0 /\ Behind(x) = CountPushes(x)
  <2>. TAKE x \in Names
  <2>1. (pos..Len(Body)) \cap Places(x) = {}
    BY <1>0, <1>a
  <2>2. (1..(pos - 1)) \cap Places(x) = Places(x)
    BY <1>0, <1>a, BodyTyped DEF Places
  <2>. QED  BY <1>a, <2>1, <2>2, PlacesCounted, FS_EmptySet DEF Ahead, Behind
<1>8. RoomKept'
  <2>. SUFFICES ASSUME pushGuard = "true"  PROVE RoomKept'
    BY <1>0 DEF RoomKept
  <2>1. Counted /\ Finite /\ iv < Last
    BY <1>0, Numbers DEF RoomKept
  <2>2. Trip' = Trip - 1
    BY <1>6, <2>1
  <2>3. ASSUME NEW x \in Names  PROVE H(x).cap - H(x).len >= (Trip - 1) * CountPushes(x)
    <3>1. H(x).cap - H(x).len >= (Trip - 1) * CountPushes(x) + Ahead(x)
      BY <1>0 DEF RoomKept
    <3>. QED  BY <1>7, <3>1, Products, Numbers
  <2>. QED  BY <1>0, <1>3, <2>1, <2>2, <2>3, FrameKept DEF RoomKept
<1>9. FactKept'
  <2>. SUFFICES ASSUME loop.cond = "len", Climbs, flatCopy  PROVE iv' >= 0
    BY <1>0, FrameKept DEF FactKept, Frame
  <2>1. loop.step = 1
    BY DEF Climbs
  <2>2. iv >= 0 /\ iv < H(loop.on).len
    <3>1. Unassigned
      BY DEF Climbs, Unassigned
    <3>. QED  BY <1>0, <3>1 DEF FactKept
  <2>3. H(loop.on).len <= IntMax /\ H(loop.on).len \in Nat
    <3>1. loop.on \in Names /\ cell[loop.on] \in ListIds
      BY <1>a, BodyTyped, Numbers
    <3>2. H(loop.on).len <= LenBound /\ H(loop.on).len \in Nat
      BY <1>0, <3>1, Numbers DEF Short, H
    <3>. QED  BY <3>2, FlatLoopAssumption
  <2>. QED  BY <1>5, <2>1, <2>2, <2>3, Numbers, FlatLoopAssumption
<1>10. PlainKept'
  <2>. SUFFICES ASSUME Straight  PROVE PlainKept'
    BY <1>0, FrameKept DEF PlainKept
  <2>1. iv < Last /\ Turns >= 0 /\ iv' = iv + 1 /\ Turns' = Turns + 1
    BY <1>0, <1>6 DEF PlainKept, Straight
  <2>2. ASSUME NEW x \in Names  PROVE Grown(cell[x], Turns * CountPushes(x))'
    <3>1. header[cell[x]].len = start.len[cell[x]] + (Turns * CountPushes(x) + Behind(x))
      BY <1>0 DEF PlainKept, Grown
    <3>2. Turns' * CountPushes(x) = Turns * CountPushes(x) + CountPushes(x)
      BY <1>7, <2>1, Products, Numbers
    <3>. QED  BY <1>0, <1>7, <3>1, <3>2, FrameKept DEF Grown, Frame
  <2>3. iv' <= Last
    BY <2>1, Numbers
  <2>. QED  BY <1>0, <1>3, <2>1, <2>2, <2>3, Numbers DEF PlainKept, Early
<1>. QED  BY <1>1, <1>2, <1>4, <1>8, <1>9, <1>10

\* An append: under the push guard, or after the capacity test.
LEMMA PushOneInv ==
    ASSUME LoopInv, PushOne
    PROVE  LoopInv'
<1>. USE DEF LoopInv
<1>0. /\ Frame /\ at = "body" /\ at' = "body" /\ pos \in 1..Len(Body) /\ pos' = pos + 1
      /\ Len(Body) \in Nat /\ loop \in Loops /\ Stmt = Body[pos] /\ Stmt \in Statements
      /\ UNCHANGED <<iv, pushGuard, flatCopy, hoisted, below>>
  BY BodyTyped DEF PushOne, AtStatement, Onward, Stmt, LoopTypeOK, Frame
<1>1. PICK x \in Appends(Stmt) : AppendTo(x)
  BY DEF PushOne
<1>2. x \in Names /\ cell[x] \in ListIds /\ pos \in Places(x)
  BY <1>0, <1>1, BodyTyped, StatementTyped, Numbers DEF Places
<1>. DEFINE h == IF Unchecked THEN H(x) ELSE AfterGrowth(H(x))
<1>3. /\ h.len < LenBound /\ astray' = (astray \/ h.len >= h.cap)
      /\ header' = [header EXCEPT ![cell[x]] = [h EXCEPT !.len = @ + 1]]
  BY <1>1 DEF AppendTo
<1>4. H(x) \in [len : Nat, cap : Nat, data : Int] /\ H(x).len <= H(x).cap
  BY <1>2 DEF H, LoopTypeOK, Headers, Sound
<1>5. /\ h \in [len : Nat, cap : Nat, data : Int] /\ h.len = H(x).len /\ h.len < h.cap
      /\ Unchecked => h.cap = H(x).cap
  <2>1. CASE Unchecked
    <3>1. H(x).cap - H(x).len >= (Trip - 1) * CountPushes(x) + Ahead(x) /\ Trip - 1 \in Nat
      BY <1>0, <1>2, <2>1, Numbers DEF RoomKept, Unchecked
    <3>2. Ahead(x) \in Nat /\ Ahead(x) >= 1
      <4>1. Places(x) \in SUBSET Nat
        BY <1>0, <1>2, PlacesCounted
      <4>2. /\ Cardinality((pos..Len(Body)) \cap Places(x))
                  = Cardinality(((pos + 1)..Len(Body)) \cap Places(x)) + (IF pos \in Places(x) THEN 1 ELSE 0)
            /\ Cardinality(((pos + 1)..Len(Body)) \cap Places(x)) \in Nat
        BY ONLY <1>0, <4>1, AheadOf, Zenon
      <4>. QED  BY ONLY <1>2, <4>2 DEF Ahead
    <3>3. (Trip - 1) * CountPushes(x) \in Nat
      <4>1. CountPushes(x) \in Nat
        BY <1>0, <1>2, PlacesCounted
      <4>2. \A m, n \in Nat : m * n \in Nat
        OBVIOUS
      <4>. QED  BY <3>1, <4>1, <4>2
    <3>. QED  BY <1>4, <2>1, <3>1, <3>2, <3>3
  <2>2. CASE ~Unchecked
    <3>1. CASE H(x).len < H(x).cap
      BY <1>4, <2>2, <3>1 DEF AfterGrowth
    <3>2. CASE ~(H(x).len < H(x).cap)
      <4>. DEFINE c == IF H(x).cap = 0 THEN 1 ELSE 2 * H(x).cap
      <4>1. c \in Nat /\ H(x).len < c
        BY <1>4, <3>2
      <4>2. h = [len |-> H(x).len, cap |-> c, data |-> NewBlock]
        BY <1>4, <2>2, <3>2 DEF AfterGrowth
      <4>. QED  BY <1>4, <2>2, <4>1, <4>2, NewBlockTyped
    <3>. QED  BY <3>1, <3>2
  <2>. QED  BY <2>1, <2>2
<1>. HIDE DEF h
<1>6. header' \in Headers
  BY <1>2, <1>3, <1>5 DEF LoopTypeOK, Headers
<1>7. /\ H(x)' = [len |-> h.len + 1, cap |-> h.cap, data |-> h.data]
      /\ \A y \in Names : y # x => H(y)' = H(y)
  <2>1. \A y \in Names : H(y)' = header'[cell[y]]
    BY <1>0 DEF H, Frame
  <2>2. header'[cell[x]] = [len |-> h.len + 1, cap |-> h.cap, data |-> h.data]
    BY <1>2, <1>3, <1>5 DEF LoopTypeOK, Headers
  <2>3. \A y \in Names : y # x => header'[cell[y]] = header[cell[y]]
    BY <1>2, <1>3, Numbers DEF LoopTypeOK, Headers
  <2>. QED  BY <1>2, <2>1, <2>2, <2>3 DEF H
<1>8. LoopTypeOK'
  BY <1>0, <1>6 DEF LoopTypeOK, Frame
<1>9. Sound(header') /\ Short'
  <2>1. \A l \in ListIds : header'[l] = IF l = cell[x] THEN [h EXCEPT !.len = @ + 1] ELSE header[l]
    BY <1>2, <1>3 DEF LoopTypeOK, Headers
  <2>2. \A l \in ListIds : l # cell[x] => header'[l] = header[l]
    BY <2>1
  <2>3. header'[cell[x]].len <= header'[cell[x]].cap /\ header'[cell[x]].len <= LenBound
    BY <1>2, <1>3, <1>5, <2>1, FlatLoopAssumption
  <2>. QED  BY <1>0, <2>2, <2>3 DEF Sound, Short
<1>10. AccessesInBlock'
  <2>1. ~(h.len >= h.cap)
    BY <1>5
  <2>2. ~astray' /\ (Climbs => ~below')
    BY <1>0, <1>3, <2>1, Zenon DEF AccessesInBlock
  <2>. QED  BY <1>0, <2>2, BlocksKept
<1>11. HoistKept'
  <2>1. hoisted.name # "none" => hoisted.name \in Names /\ Stable(hoisted.name)
    BY DEF HoistKept, LoopTypeOK
  <2>2. hoisted.name # x
    <3>1. Stable(x) => Places(x) = {}
      BY <1>0, <1>2, PlacesCounted
    <3>. QED  BY <1>2, <2>1, <3>1 DEF Names
  <2>. QED  BY <1>0, <1>7, <2>1, <2>2, FrameKept DEF HoistKept, Early
<1>12. RoomKept'
  <2>. SUFFICES ASSUME pushGuard = "true"  PROVE RoomKept'
    BY <1>0 DEF RoomKept
  <2>1. Trip' = Trip
    BY <1>0 DEF Trip, Frame
  <2>2. ASSUME NEW y \in Names
        PROVE  H(y)'.cap - H(y)'.len >= (Trip - 1) * CountPushes(y) + Ahead(y)'
    <3>1. H(y).cap - H(y).len >= (Trip - 1) * CountPushes(y) + Ahead(y)
      BY <1>0 DEF RoomKept
    <3>2. Places(y) \in SUBSET Nat /\ CountPushes(y) \in Nat
      BY <1>0, PlacesCounted
    <3>3. (Trip - 1) * CountPushes(y) \in Int
      BY <3>2, Products, Numbers
    <3>4. Ahead(y)' = Cardinality(((pos + 1)..Len(Body)) \cap Places(y))
      BY <1>0, FrameKept DEF Ahead
    <3>5. /\ Cardinality((pos..Len(Body)) \cap Places(y))
                = Cardinality(((pos + 1)..Len(Body)) \cap Places(y)) + (IF pos \in Places(y) THEN 1 ELSE 0)
          /\ Cardinality(((pos + 1)..Len(Body)) \cap Places(y)) \in Nat
      BY ONLY <1>0, <3>2, AheadOf, Zenon
    <3>6. Ahead(y)' \in Nat /\ Ahead(y) = Ahead(y)' + IF pos \in Places(y) THEN 1 ELSE 0
      BY ONLY <3>4, <3>5 DEF Ahead
    <3>7. CASE y = x
      <4>1. H(y)'.cap = H(y).cap /\ H(y)'.len = H(y).len + 1
        BY <1>5, <1>7, <3>7 DEF Unchecked
      <4>. QED  BY <1>2, <3>1, <3>3, <3>6, <3>7, <4>1, Numbers
    <3>8. CASE y # x
      BY <1>7, <3>1, <3>3, <3>6, <3>8, Numbers
    <3>. QED  BY <3>7, <3>8
  <2>. QED  BY <1>0, <2>1, <2>2, FrameKept DEF RoomKept
<1>13. FactKept'
  <2>1. PICK y \in Names : y = loop.on /\ y = loop'.on
    BY <1>0, BodyTyped DEF Frame
  <2>2. H(y)'.len >= H(y).len /\ H(y)'.len \in Nat
    <3>1. CASE y = x
      BY <1>4, <1>5, <1>7, <3>1
    <3>2. CASE y # x
      BY <1>7, <3>2, Numbers
    <3>. QED  BY <3>1, <3>2
  <2>3. Unassigned' => Unassigned
    BY <1>0, BodyTyped, FrameKept DEF Unassigned
  <2>. QED  BY <1>0, <2>1, <2>2, <2>3, Numbers, FrameKept DEF FactKept, Frame
<1>14. PlainKept'
  <2>. SUFFICES ASSUME Straight  PROVE PlainKept'
    BY <1>0, FrameKept DEF PlainKept
  <2>1. Appends(Body[pos]) = {x}
    <3>1. Stmt.op \in {"push", "zero"}
      BY <1>0, <1>1, BodyTyped, StatementTyped DEF Straight
    <3>. QED  BY <1>0, <1>1, <3>1, StatementTyped
  <2>2. ASSUME NEW y \in Names
        PROVE  Grown(cell[y], Turns * CountPushes(y) + Behind(y))'
    <3>1. H(y).len = start.len[cell[y]] + (Turns * CountPushes(y) + Behind(y))
      BY <1>0 DEF PlainKept, Grown, H
    <3>2. Places(y) \in SUBSET Nat /\ CountPushes(y) \in Nat
      BY <1>0, PlacesCounted
    <3>3. pos \in Places(y) <=> y = x
      BY <1>0, <1>2, <2>1, BodyTyped DEF Places
    <3>4. pos' - 1 = pos /\ pos \in Nat \ {0}
      BY <1>0
    <3>5. Behind(y)' = Cardinality((1..pos) \cap Places(y))
      BY <1>0, <3>4, FrameKept DEF Behind
    <3>6. /\ Cardinality((1..pos) \cap Places(y))
                = Cardinality((1..(pos - 1)) \cap Places(y)) + (IF pos \in Places(y) THEN 1 ELSE 0)
          /\ Cardinality((1..(pos - 1)) \cap Places(y)) \in Nat
      BY ONLY <3>2, <3>4, BehindOf, Zenon
    <3>7. Behind(y) \in Nat /\ Behind(y)' = Behind(y) + IF y = x THEN 1 ELSE 0
      BY ONLY <3>3, <3>5, <3>6 DEF Behind
    <3>8. H(y)'.len = H(y).len + IF y = x THEN 1 ELSE 0
      BY <1>5, <1>7, Numbers
    <3>9. H(y)'.len = start.len[cell[y]] + (Turns * CountPushes(y) + Behind(y)')
      BY <3>1, <3>2, <3>7, <3>8, Products, Numbers
    <3>. QED  BY <1>0, <3>9, FrameKept DEF Grown, H, Frame, Turns
  <2>3. Turns' = Turns
    BY <1>0 DEF Turns, Frame
  <2>. QED  BY <1>0, <2>2, <2>3, FrameKept DEF PlainKept, Early
<1>. QED  BY <1>8, <1>9, <1>10, <1>11, <1>12, <1>13, <1>14

\* An assignment of the index in the body: no guard covers such a loop.
LEMMA AssignIndexInv ==
    ASSUME LoopInv, AssignIndex
    PROVE  LoopInv'
<1>. USE DEF LoopInv
<1>0. /\ Frame /\ at = "body" /\ at' = "body" /\ pos \in DOMAIN Body /\ pos' = pos + 1
      /\ Body[pos].op = "assign" /\ iv' \in Ints /\ loop \in Loops
      /\ UNCHANGED <<header, pushGuard, flatCopy, hoisted, astray, below>>
  BY BodyTyped DEF AssignIndex, AtStatement, Onward, Stmt, LoopTypeOK, Frame
<1>1. ~Climbs /\ ~Counted /\ ~Straight /\ ~Unassigned'
  <2>1. pos < pos'
    BY <1>0, BodyTyped
  <2>2. Body' = Body
    BY <1>0, FrameKept
  <2>. QED  BY <1>0, <2>1, <2>2 DEF Climbs, Counted, Straight, Unassigned
<1>2. LoopTypeOK'
  BY <1>0 DEF LoopTypeOK, Frame
<1>3. Sound(header)' /\ Short' /\ AccessesInBlock'
  BY <1>0, FrameKept DEF Sound, Short, AccessesInBlock
<1>4. HoistKept'
  BY <1>0, FrameKept DEF HoistKept, Early, H, Frame
<1>5. RoomKept' /\ FactKept' /\ PlainKept'
  BY <1>0, <1>1, FrameKept DEF RoomKept, FactKept, PlainKept, Frame
<1>. QED  BY <1>2, <1>3, <1>4, <1>5

\* A check against the length in use refuses what is out of range and nothing
\* else, and what it lets through falls in the block.
LEMMA ChecksAreExact ==
    ASSUME LoopInv, NEW x \in Names, NEW i \in Int, NEW checked \in BOOLEAN,
           ~checked => i < H(x).len
    PROVE  ~Misses(x, i, checked) /\ (checked => ~Under(x, i, checked))
<1>1. x # "none"
  BY DEF Names
<1>2. LenUsed(x) = H(x).len /\ DataUsed(x) = H(x).data
  BY <1>1 DEF LoopInv, HoistKept, LenUsed, DataUsed
<1>. QED  BY <1>2 DEF Refused, Lands, Misses, Under

\* A read that goes unchecked has the condition's fact, and the preheader's where
\* the index only climbs.
LEMMA FactSuffices ==
    ASSUME LoopInv, AtStatement, flatCopy, NEW x \in Names, HeaderBound(x, "iv")
    PROVE  iv < H(x).len /\ (Climbs => 0 <= iv)
<1>1. at = "body" /\ loop.cond = "len" /\ x = loop.on /\ pos \in Nat \ {0}
  BY DEF HeaderBound, AtStatement, LoopInv, LoopTypeOK
<1>2. Unassigned
  BY <1>1, BodyTyped DEF HeaderBound, Unassigned, LoopInv, LoopTypeOK
<1>. QED  BY <1>1, <1>2 DEF LoopInv, FactKept

LEMMA AccessInv ==
    ASSUME LoopInv, AtStatement, Frame, UNCHANGED <<header, iv, pushGuard, flatCopy, hoisted>>,
           NEW x \in Names, NEW i \in Int, NEW checked \in BOOLEAN,
           ~checked => i < H(x).len /\ (Climbs => 0 <= i),
           Access(x, i, checked), Appends(Stmt) = {}
    PROVE  LoopInv'
<1>1. ~Misses(x, i, checked) /\ (Climbs => ~Under(x, i, checked))
  <2>1. ~checked => i < H(x).len
    OBVIOUS
  <2>2. ~Misses(x, i, checked) /\ (checked => ~Under(x, i, checked))
    BY <2>1, ChecksAreExact
  <2>3. ~checked /\ Climbs => ~Under(x, i, checked)
    BY DEF Under
  <2>. QED  BY <2>2, <2>3
<1>2. AccessesInBlock'
  <2>1. ~astray' /\ (Climbs => ~below')
    BY <1>1, Zenon DEF Access, AccessesInBlock, LoopInv
  <2>. QED  BY <2>1, BlocksKept
<1>3. Onward \/ Stops
  BY DEF Access
<1>. QED  BY <1>2, <1>3, QuietStep DEF LoopInv

LEMMA LoadsAndStores ==
    ASSUME LoopInv, LoadOne \/ StoreOne \/ CopyOne
    PROVE  LoopInv'
<1>0. /\ AtStatement /\ Frame /\ UNCHANGED <<header, iv, pushGuard, flatCopy, hoisted>>
      /\ Stmt.op \in {"get", "set", "copy"}
  BY DEF LoadOne, StoreOne, CopyOne, Frame
<1>1. Stmt \in Statements /\ Stmt.x \in Names /\ Appends(Stmt) = {}
      /\ (Stmt.op = "copy" => Stmt.y \in Names)
  <2>1. loop \in Loops /\ pos \in DOMAIN Body
    BY <1>0, BodyTyped DEF AtStatement, LoopInv, LoopTypeOK
  <2>2. Stmt \in Statements
    BY <2>1, BodyTyped DEF Stmt
  <2>. QED  BY <1>0, <2>2, StatementTyped
<1>2. iv \in Int /\ (\A n \in Ints : n \in Int) /\ flatCopy \in BOOLEAN
  BY Numbers, FlatLoopAssumption DEF LoopInv, Ints, LoopTypeOK
<1>3. CASE LoadOne
  <2>1. PICK i \in IF Stmt.i = "iv" THEN {iv} ELSE Ints :
            Access(Stmt.x, i, ~(flatCopy /\ HeaderBound(Stmt.x, Stmt.i)))
    BY <1>3 DEF LoadOne
  <2>2. ASSUME flatCopy, HeaderBound(Stmt.x, Stmt.i)
        PROVE  i < H(Stmt.x).len /\ (Climbs => 0 <= i)
    <3>1. Stmt.i = "iv" /\ i = iv
      BY <2>1, <2>2 DEF HeaderBound
    <3>. QED  BY <1>0, <1>1, <2>2, <3>1, FactSuffices
  <2>3. i \in Int
    BY <1>2, <2>1
  <2>. QED  BY <1>0, <1>1, <2>1, <2>2, <2>3, AccessInv
<1>4. CASE StoreOne
  <2>1. PICK i \in IF Stmt.i = "iv" THEN {iv} ELSE Ints : Access(Stmt.x, i, TRUE)
    BY <1>4 DEF StoreOne
  <2>2. i \in Int
    BY <1>2, <2>1
  <2>. QED  BY <1>0, <1>1, <2>1, <2>2, AccessInv
<1>5. CASE CopyOne
  <2>. DEFINE checked == ~(flatCopy /\ HeaderBound(Stmt.y, "iv"))
  <2>0. Stmt.op = "copy" /\ Stmt.y \in Names
    BY <1>1, <1>5 DEF CopyOne
  <2>1. ~checked => iv < H(Stmt.y).len /\ (Climbs => 0 <= iv)
    BY <1>0, <2>0, FactSuffices
  <2>2. checked \in BOOLEAN
    OBVIOUS
  <2>3. \/ Refused(Stmt.y, iv, checked) /\ Access(Stmt.y, iv, checked)
        \/ /\ IF Refused(Stmt.x, iv, TRUE) THEN Stops ELSE Onward
           /\ astray' = (astray \/ Misses(Stmt.y, iv, checked) \/ Misses(Stmt.x, iv, TRUE))
           /\ below' = (below \/ Under(Stmt.y, iv, checked) \/ Under(Stmt.x, iv, TRUE))
    BY <1>5, Zenon DEF CopyOne
  <2>. HIDE DEF checked
  <2>4. CASE Access(Stmt.y, iv, checked)
    BY <1>0, <1>1, <1>2, <2>0, <2>1, <2>2, <2>4, AccessInv
  <2>5. CASE /\ IF Refused(Stmt.x, iv, TRUE) THEN Stops ELSE Onward
             /\ astray' = (astray \/ Misses(Stmt.y, iv, checked) \/ Misses(Stmt.x, iv, TRUE))
             /\ below' = (below \/ Under(Stmt.y, iv, checked) \/ Under(Stmt.x, iv, TRUE))
    <3>1. ~Misses(Stmt.y, iv, checked) /\ (checked => ~Under(Stmt.y, iv, checked))
      <4>1. ~checked => iv < H(Stmt.y).len
        BY <2>1
      <4>. QED  BY <1>2, <2>0, <2>2, <4>1, ChecksAreExact
    <3>2. ~checked /\ Climbs => ~Under(Stmt.y, iv, checked)
      BY <1>2, <2>1 DEF Under
    <3>3. ~Misses(Stmt.x, iv, TRUE) /\ ~Under(Stmt.x, iv, TRUE)
      BY <1>1, <1>2, ChecksAreExact
    <3>4. AccessesInBlock'
      <4>1. ~astray' /\ (Climbs => ~below')
        BY <2>5, <3>1, <3>2, <3>3, Zenon DEF AccessesInBlock, LoopInv
      <4>. QED  BY <1>0, <4>1, BlocksKept
    <3>5. Onward \/ Stops
      BY <2>5
    <3>. QED  BY <1>0, <1>1, <3>4, <3>5, QuietStep DEF LoopInv
  <2>. QED  BY <2>3, <2>4, <2>5
<1>. QED  BY <1>3, <1>4, <1>5

LEMMA SkipArmInv ==
    ASSUME LoopInv, SkipArm
    PROVE  LoopInv'
<1>1. AtStatement /\ Frame /\ UNCHANGED <<header, iv, pushGuard, flatCopy, hoisted, astray, below>>
  BY DEF SkipArm, Frame
<1>2. pos \in DOMAIN Body /\ Stmt = Body[pos]
  BY <1>1, BodyTyped DEF AtStatement, LoopInv, LoopTypeOK, Stmt
<1>3. Stmt.op \in {"either", "leave"} => ~Straight
  BY <1>2 DEF Straight
<1>4. \/ Onward /\ (Straight => Appends(Stmt) = {})
      \/ Stops
      \/ at' = "done" /\ pos' = pos /\ ~Straight
  BY <1>3 DEF SkipArm
<1>5. AccessesInBlock'
  BY <1>1, FrameKept DEF LoopInv, AccessesInBlock
<1>. QED  BY <1>1, <1>4, <1>5, QuietStep DEF LoopInv

----------------------------------------------------------------------------
LEMMA LoopNextInv ==
    ASSUME LoopInv, [FlatLoopNext]_loopVars
    PROVE  LoopInv'
<1>1. CASE NoZeroFill \/ NoTransfer
  BY <1>1, StageStep DEF NoZeroFill, NoTransfer, Frame
<1>2. CASE UNCHANGED loopVars
  <2>. USE <1>2 DEF loopVars
  <2>1. Frame
    BY DEF Frame
  <2>2. LoopTypeOK' /\ Sound(header)' /\ Short' /\ AccessesInBlock'
    BY <2>1, FrameKept DEF LoopInv, LoopTypeOK, Sound, Short, AccessesInBlock
  <2>3. (\A x : H(x)' = H(x) /\ Ahead(x)' = Ahead(x) /\ Behind(x)' = Behind(x))
        /\ Trip' = Trip /\ Turns' = Turns
    BY <2>1, FrameKept DEF H, Ahead, Behind, Trip, Turns
  <2>4. HoistKept' /\ RoomKept' /\ FactKept'
    BY <2>1, <2>3, FrameKept DEF LoopInv, HoistKept, RoomKept, FactKept, Unassigned
  <2>5. PlainKept'
    BY <2>1, <2>3, FrameKept DEF LoopInv, PlainKept, Grown
  <2>. QED  BY <2>2, <2>4, <2>5 DEF LoopInv
<1>. QED  BY <1>1, <1>2, ZeroFillInv, PushGuardInv, TransferInv, FlatGuardInv, TestConditionInv,
             AdvanceIndexInv, PushOneInv, AssignIndexInv, LoadsAndStores, SkipArmInv DEF FlatLoopNext

\* For every set of loops under one name per list, whatever the capacities, the
\* bound and the length of the loop, and however the loop moves its index: every
\* access of the compiled loop is in its list's block (llvm-api-backend.c's inline
\* accesses and bulk fills), but for an unchecked read at an index that a loop
\* counting down or assigning the index has brought below zero.
THEOREM LoopsStayInBlock == ~Aliased /\ FlatLoopSpec => []AccessesInBlock
<1>. SUFFICES ASSUME ~Aliased
              PROVE  FlatLoopSpec => []AccessesInBlock
  OBVIOUS
<1>1. FlatLoopInit => LoopInv
  BY LoopInitInv
<1>2. LoopInv /\ [FlatLoopNext]_loopVars => LoopInv'
  BY LoopNextInv
<1>3. LoopInv => AccessesInBlock
  BY DEF LoopInv
<1>. QED  BY <1>1, <1>2, <1>3, PTL DEF FlatLoopSpec

LEMMA PlainAtTheEnd ==
    ASSUME LoopInv
    PROVE  LoopIsPlain
<1>. SUFFICES ASSUME at = "done", Straight  PROVE LoopIsPlain
  BY DEF LoopIsPlain
<1>. USE DEF LoopInv
<1>1. /\ Turns >= 0 /\ iv >= Last /\ (Turns = 0 \/ iv = Last)
      /\ \A x \in Names : Grown(cell[x], Turns * CountPushes(x))
  BY DEF PlainKept
<1>2. start.iv \in Int /\ Turns = iv - start.iv
  BY DEF LoopTypeOK, Turns
<1>3. Max({start.iv, Last}) = iv
  <2>1. iv \in {start.iv, Last} /\ \A y \in {start.iv, Last} : iv >= y
    BY <1>1, <1>2, Numbers
  <2>2. \A z \in {start.iv, Last} : (\A y \in {start.iv, Last} : z >= y) => z = iv
    BY <1>2, <2>1, Numbers
  <2>. QED  BY <2>1, <2>2 DEF Max
<1>4. Max({0, Last - start.iv}) = Turns
  <2>1. Turns \in {0, Last - start.iv} /\ \A y \in {0, Last - start.iv} : Turns >= y
    BY <1>1, <1>2, Numbers
  <2>2. \A z \in {0, Last - start.iv} : (\A y \in {0, Last - start.iv} : z >= y) => z = Turns
    BY <1>2, <2>1, Numbers
  <2>. QED  BY <2>1, <2>2 DEF Max
<1>5. ASSUME NEW l \in ListIds
      PROVE  header[l].len = start.len[l]
                 + Turns * Cardinality({k \in DOMAIN Body : \E x \in Appends(Body[k]) : cell[x] = l})
  <2>1. PICK x \in Names : cell[x] = l
    BY Numbers DEF ListIds, Names
  <2>2. \A k \in DOMAIN Body : Appends(Body[k]) \subseteq Names
    BY BodyTyped, StatementTyped DEF LoopTypeOK
  <2>3. {k \in DOMAIN Body : \E y \in Appends(Body[k]) : cell[y] = l} = Places(x)
    BY <2>1, <2>2, Numbers DEF Places
  <2>. QED  BY <1>1, <2>1, <2>3 DEF Grown, CountPushes, Places
<1>. QED  BY <1>3, <1>4, <1>5 DEF LoopIsPlain, Last

\* Under one name per list, a counted loop without branches ends with the index and
\* the lengths of the loop in the source.
THEOREM LoopsArePlain == ~Aliased /\ FlatLoopSpec => []LoopIsPlain
<1>. SUFFICES ASSUME ~Aliased
              PROVE  FlatLoopSpec => []LoopIsPlain
  OBVIOUS
<1>1. FlatLoopInit => LoopInv
  BY LoopInitInv
<1>2. LoopInv /\ [FlatLoopNext]_loopVars => LoopInv'
  BY LoopNextInv
<1>3. LoopInv => LoopIsPlain
  BY PlainAtTheEnd
<1>. QED  BY <1>1, <1>2, <1>3, PTL DEF FlatLoopSpec
=============================================================================
