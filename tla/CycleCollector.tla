--------------------------- MODULE CycleCollector ---------------------------
(***************************************************************************)
(* The T4b cycle collector (the cyc functions of runtime/lang_runtime.c):  *)
(* counted objects with a colour, a buffer of candidate roots, and         *)
(* synchronous trial deletion along the cyclic fields, driven by the calls *)
(* that codegen and the list runtime make: a struct literal, a field       *)
(* store, a push, an element overwrite and a list's teardown.              *)
(*                                                                         *)
(* Every runtime call holds cyc_state_lock from its start to its end, so   *)
(* the program takes no step while a collection runs.  The recursive walks *)
(* are a stack of the visits that remain: one step takes the top one and   *)
(* puts the visited object's children on it.  A visit to an object that is *)
(* already freed is recorded in `touched`, and finds what the header held  *)
(* last (the slab overwrites only the word that holds the count).          *)
(***************************************************************************)
EXTENDS Naturals, Sequences, SequencesExt, FiniteSets

CONSTANTS
  Objects,     \* the objects that can be allocated
  Nil,         \* `none`
  Lists,       \* the containers that can hold them
  Fields,      \* how many cyclic fields an object has
  MaxLen,      \* bound: elements of a list
  Theta,       \* CYC_THETA_BUFFER
  KRoots,      \* CYC_K_ROOTS
  Overwrites,  \* v[i] = w[j] happens by itself, not only in an exchange
  FullStores   \* it assigns to a field when one more candidate fills the buffer

ASSUME CollectorAssumption ==
  /\ Fields \in Nat /\ MaxLen \in Nat
  /\ Theta \in Nat \ {0} /\ KRoots \in Nat \ {0}
  /\ Overwrites \in BOOLEAN /\ FullStores \in BOOLEAN
  /\ IsFiniteSet(Objects) /\ IsFiniteSet(Lists)
  /\ Nil \notin Objects /\ Objects \cap Lists = {}

VARIABLES
  mem,       \* "none", "alive" or "freed"
  rc,        \* the headers: count,
  colour,    \*   colour
  buffered,  \*   and whether the object is among the candidates
  cand,      \* the candidate roots
  phase,     \* the loop of cyc_collect that runs, "idle" outside of it
  live,      \* the roots it is about
  walk,      \* the visits that remain, the next one first
  kid,       \* the cyclic fields: kid[x][f]
  store,     \* the field store that waits for the release of the old value
  lists,     \* the elements of each list
  dying,     \* the list that list_release is taking down, Nil for none
  done,      \* the exit handler has run
  touched,   \* freed objects whose header a walk read
  again,     \* objects freed a second time
  direct     \* objects freed without a walk to their children

headers == <<mem, rc, colour, buffered>>
collection == <<phase, live, walk>>
program == <<kid, store, lists, dying, done>>
history == <<touched, again, direct>>
vars == <<headers, cand, collection, program, history>>

FieldNames == 1 .. Fields

Init ==
  /\ mem = [x \in Objects |-> "none"]
  /\ rc = [x \in Objects |-> 0]
  /\ colour = [x \in Objects |-> "black"]
  /\ buffered = [x \in Objects |-> FALSE]
  /\ cand = <<>>
  /\ phase = "idle" /\ live = <<>> /\ walk = <<>>
  /\ kid = [x \in Objects |-> [f \in FieldNames |-> Nil]]
  /\ store = <<>>
  /\ lists = [l \in Lists |-> <<>>]
  /\ dying = Nil
  /\ done = FALSE
  /\ touched = {} /\ again = {} /\ direct = {}

-----------------------------------------------------------------------------
(* A visit is an operation, an object and one of its fields, 0 for the       *)
(* object itself.                                                            *)
Roots(op, xs) == [i \in 1 .. Len(xs) |-> <<op, xs[i], 0>>]
Children(op, x) == [f \in FieldNames |-> <<op, x, f>>]
Target(v) == IF v[3] = 0 THEN v[2] ELSE kid[v[2]][v[3]]

(* The next visit is op, to y; the children in `more` come before the rest.  *)
(* Fields that hold none are passed over.                                    *)
Visit == Head(walk)
Visits(op, y) == walk # <<>> /\ Visit[1] = op /\ Target(Visit) = y
Goes(more) == walk' = more \o Tail(walk)

Freed == {x \in Objects : mem[x] = "freed"}
Touch(x) == touched' = touched \cup ({x} \cap Freed)

PassOver ==
  /\ walk # <<>> /\ Target(Visit) = Nil
  /\ Goes(<<>>)
  /\ UNCHANGED <<headers, cand, phase, live, program, history>>

(* cyc_free_object: the storage goes; cyclic fields are nobody's here.       *)
FreeObject(m, x) ==
  /\ mem' = [m EXCEPT ![x] = "freed"]
  /\ again' = again \cup ({x} \cap Freed)

(* A root whose count reached zero while it waited is freed at once.         *)
VisitRoot(x) ==
  /\ Visits("root", x)
  /\ Goes(<<>>)
  /\ Touch(x)
  /\ IF rc[x] = 0
       THEN FreeObject(mem, x) /\ direct' = direct \cup {x} /\ UNCHANGED live
       ELSE live' = Append(live, x) /\ UNCHANGED <<mem, again, direct>>
  /\ UNCHANGED <<rc, colour, buffered, cand, phase, program>>

(* cyc_mark_grey, with `if (yh->rc > 0) yh->rc--` for a child.               *)
MarkGrey(y) ==
  /\ Visits("grey", y)
  /\ rc' = [rc EXCEPT ![y] = IF Visit[3] # 0 /\ @ > 0 THEN @ - 1 ELSE @]
  /\ colour' = [colour EXCEPT ![y] = "grey"]
  /\ Goes(IF colour[y] = "grey" THEN <<>> ELSE Children("grey", y))
  /\ Touch(y)
  /\ UNCHANGED <<mem, buffered, cand, phase, live, program, again, direct>>

(* Mutant: the counts of a live path are not restored.                       *)
ScanBlack_NoRestore(y) ==
  /\ Visits("black", y)
  /\ colour' = [colour EXCEPT ![y] = "black"]
  /\ Goes(IF colour[y] = "black" THEN <<>> ELSE Children("black", y))
  /\ Touch(y)
  /\ UNCHANGED <<mem, rc, buffered, cand, phase, live, program, again, direct>>

(* cyc_scan_black, on a child of what was found alive.                       *)
ScanBlack(y) ==
  /\ Visits("black", y)
  /\ rc' = [rc EXCEPT ![y] = @ + 1]
  /\ colour' = [colour EXCEPT ![y] = "black"]
  /\ Goes(IF colour[y] = "black" THEN <<>> ELSE Children("black", y))
  /\ Touch(y)
  /\ UNCHANGED <<mem, buffered, cand, phase, live, program, again, direct>>

(* Mutant: an object held from outside is left as it is.                     *)
Scan_LeavesGrey(y) ==
  /\ Visits("scan", y)
  /\ Touch(y)
  /\ IF colour[y] # "grey" \/ rc[y] > 0 THEN Goes(<<>>) /\ UNCHANGED colour
     ELSE /\ colour' = [colour EXCEPT ![y] = "white"]
          /\ Goes(Children("scan", y))
  /\ UNCHANGED <<mem, rc, buffered, cand, phase, live, program, again, direct>>

(* cyc_scan: a grey object with a count is alive, and so is what it leads to *)
Scan(y) ==
  /\ Visits("scan", y)
  /\ Touch(y)
  /\ IF colour[y] # "grey" THEN Goes(<<>>) /\ UNCHANGED colour
     ELSE /\ colour' = [colour EXCEPT ![y] = IF rc[y] > 0 THEN "black" ELSE "white"]
          /\ Goes(Children(IF rc[y] > 0 THEN "black" ELSE "scan", y))
  /\ UNCHANGED <<mem, rc, buffered, cand, phase, live, program, again, direct>>

(* cyc_collect_white: the object is freed first and its children are         *)
(* followed afterwards.                                                      *)
CollectWhite(y) ==
  /\ Visits("white", y)
  /\ Touch(y)
  /\ IF colour[y] # "white" \/ buffered[y]
       THEN Goes(<<>>) /\ UNCHANGED <<mem, colour, again>>
       ELSE /\ colour' = [colour EXCEPT ![y] = "black"]
            /\ FreeObject(mem, y)
            /\ Goes(Children("white", y))
  /\ UNCHANGED <<rc, buffered, cand, phase, live, program, direct>>

(* The loops of cyc_collect over its roots, one after the other.             *)
Following == [root |-> "grey", grey |-> "scan", scan |-> "white"]

NextLoop ==
  /\ phase \in DOMAIN Following /\ walk = <<>>
  /\ phase' = Following[phase]
  /\ walk' = Roots(Following[phase], live)
  /\ UNCHANGED <<headers, cand, live, program, history>>

(* The fields as the program will see them, with the store that waits.       *)
Stored == IF store = <<>> THEN kid ELSE [kid EXCEPT ![store[1]][store[2]] = store[3]]

(* The collection returns to the release that began it, and a field store    *)
(* that waited for that is made.                                             *)
EndCollection ==
  /\ phase = "white" /\ walk = <<>>
  /\ phase' = "idle" /\ live' = <<>>
  /\ kid' = Stored
  /\ store' = <<>>
  /\ UNCHANGED <<headers, cand, walk, lists, dying, done, history>>

WalkStep ==
  \/ PassOver \/ NextLoop \/ EndCollection
  \/ \E x \in Objects : VisitRoot(x) \/ MarkGrey(x) \/ ScanBlack(x) \/ Scan(x) \/ CollectWhite(x)

(* Mutant: the roots stay marked as buffered during their own collection.    *)
Collect_StayBuffered(cands, flags, take) ==
  /\ cand' = SubSeq(cands, take + 1, Len(cands))
  /\ buffered' = flags
  /\ phase' = "root" /\ walk' = Roots("root", SubSeq(cands, 1, take))
  /\ UNCHANGED live

(* cyc_collect on the first `take` candidates.                               *)
Collect(cands, flags, take) ==
  /\ cand' = SubSeq(cands, take + 1, Len(cands))
  /\ buffered' = [x \in Objects |-> flags[x] /\ x \notin ToSet(SubSeq(cands, 1, take))]
  /\ phase' = "root" /\ walk' = Roots("root", SubSeq(cands, 1, take))
  /\ UNCHANGED live

-----------------------------------------------------------------------------
(* A count that did not reach zero: a candidate root is born.                *)
Buffer(x) ==
  /\ colour' = [colour EXCEPT ![x] = "purple"]
  /\ LET cands == Append(cand, x)
         flags == [buffered EXCEPT ![x] = TRUE]
     IN  IF Len(cands) >= Theta
           THEN Collect(cands, flags, IF Len(cands) < KRoots THEN Len(cands) ELSE KRoots)
           ELSE cand' = cands /\ buffered' = flags /\ UNCHANGED collection

(* Mutant: an object that reaches zero is freed although it is buffered.     *)
ReleaseObject_FreesBuffered(m, counts, x) ==
  /\ rc' = [counts EXCEPT ![x] = @ - 1]
  /\ IF counts[x] = 1
       THEN /\ FreeObject(m, x) /\ direct' = direct \cup {x}
            /\ UNCHANGED <<colour, buffered, cand, collection>>
     ELSE IF buffered[x] THEN mem' = m /\ UNCHANGED <<again, direct, colour, buffered, cand, collection>>
     ELSE Buffer(x) /\ mem' = m /\ UNCHANGED <<again, direct>>

(* cyc_release of an object that has a count, when what the program did      *)
(* before it has left the memory `m` and `counts`.                           *)
ReleaseObject(m, counts, x) ==
  /\ rc' = [counts EXCEPT ![x] = @ - 1]
  /\ IF counts[x] = 1
       THEN /\ IF buffered[x]
                 THEN colour' = [colour EXCEPT ![x] = "black"] /\ mem' = m /\ UNCHANGED <<again, direct>>
                 ELSE FreeObject(m, x) /\ direct' = direct \cup {x} /\ UNCHANGED colour
            /\ UNCHANGED <<buffered, cand, collection>>
     ELSE /\ IF buffered[x] THEN UNCHANGED <<colour, buffered, cand, collection>> ELSE Buffer(x)
          /\ mem' = m /\ UNCHANGED <<again, direct>>

(* cyc_release *)
Release(m, counts, x) ==
  IF x # Nil /\ counts[x] > 0 THEN ReleaseObject(m, counts, x) /\ UNCHANGED touched
  ELSE /\ mem' = m /\ rc' = counts
       /\ UNCHANGED <<colour, buffered, cand, collection, history>>

(* cyc_retain of x, and of what the fields of a literal hold.                *)
Retain(counts, x) == IF x = Nil THEN counts ELSE [counts EXCEPT ![x] = @ + 1]
RetainAll(ys) == [x \in Objects |-> rc[x] + Cardinality({f \in FieldNames : ys[f] = x})]

-----------------------------------------------------------------------------
(* What the program can name: the lists' elements and what they lead to.     *)
Elements == UNION {ToSet(lists[l]) : l \in Lists}

Closure(S) ==
  {x \in Objects :
     \A T \in SUBSET Objects :
       S \subseteq T /\ (\A y \in T, f \in FieldNames : Stored[y][f] \in T \cup {Nil}) => x \in T}

Reachable == Closure(Elements)

Idle == phase = "idle"
Running == Idle /\ dying = Nil /\ ~done

(* `l.push(Node { ... })`: cyc_alloc and cyc_set_type, and a retain for every*)
(* field the literal fills.  The object's own count is zero until something  *)
(* holds it.                                                                 *)
New(l, x, ys) ==
  /\ Running /\ mem[x] = "none" /\ Len(lists[l]) < MaxLen
  /\ mem' = [mem EXCEPT ![x] = "alive"]
  /\ rc' = Retain(RetainAll(ys), x)
  /\ kid' = [kid EXCEPT ![x] = ys]
  /\ lists' = [lists EXCEPT ![l] = Append(@, x)]
  /\ UNCHANGED <<colour, buffered, cand, collection, store, dying, done, history>>

(* list_push of an object that the program already has.                      *)
Push(l, x) ==
  /\ Running /\ Len(lists[l]) < MaxLen
  /\ rc' = Retain(rc, x)
  /\ lists' = [lists EXCEPT ![l] = Append(@, x)]
  /\ UNCHANGED <<mem, colour, buffered, cand, collection, kid, store, dying, done, history>>

(* The store of a field follows the release of its old value: a collection   *)
(* that the release sets off still walks the old field.                      *)
StoreAfter(fields, x, f, y) ==
  IF phase' = "idle" THEN kid' = [fields EXCEPT ![x][f] = y] /\ UNCHANGED store
  ELSE kid' = fields /\ store' = <<x, f, y>>

MayStore == FullStores \/ Len(cand) + 1 < Theta

(* Mutant: the store moves no count for the new value.                       *)
Assign_NoRetain(x, f, y) ==
  /\ Running /\ MayStore
  /\ Release(mem, rc, kid[x][f])
  /\ StoreAfter(kid, x, f, y)
  /\ UNCHANGED <<lists, dying, done>>

(* `x.f = y`: retain the new value, release the old one, then store.         *)
Assign(x, f, y) ==
  /\ Running /\ MayStore
  /\ Release(mem, Retain(rc, y), kid[x][f])
  /\ StoreAfter(kid, x, f, y)
  /\ UNCHANGED <<lists, dying, done>>

(* `x.f = Node { ... }` *)
AssignNew(x, f, y, ys) ==
  /\ Running /\ MayStore /\ mem[y] = "none"
  /\ Release([mem EXCEPT ![y] = "alive"], Retain(RetainAll(ys), y), kid[x][f])
  /\ StoreAfter([kid EXCEPT ![y] = ys], x, f, y)
  /\ UNCHANGED <<lists, dying, done>>

(* list_set in a list of mode AIF_ELEM_CYCLE: the slot, and no count.        *)
ListSet(ls, l, i, y) == [ls EXCEPT ![l][i] = y]

(* `v[i] = w[j]`, followed by the assignment of v's old element to w[j] in a *)
(* program that only reorders.                                               *)
Overwrite(l, i, m, j) ==
  /\ Running /\ i <= Len(lists[l]) /\ j <= Len(lists[m])
  /\ LET stored == ListSet(lists, l, i, lists[m][j]) IN
       lists' = IF Overwrites THEN stored ELSE ListSet(stored, m, j, lists[l][i])
  /\ UNCHANGED <<headers, cand, collection, kid, store, dying, done, history>>

(* list_release: every element, from the last to the first.                  *)
BeginRelease(l) ==
  /\ Running /\ lists[l] # <<>>
  /\ dying' = l
  /\ UNCHANGED <<headers, cand, collection, kid, store, lists, done, history>>

ReleaseLast ==
  /\ Idle /\ dying # Nil
  /\ Release(mem, rc, Last(lists[dying]))
  /\ lists' = [lists EXCEPT ![dying] = Front(@)]
  /\ dying' = IF Len(lists[dying]) = 1 THEN Nil ELSE dying
  /\ UNCHANGED <<kid, store, done>>

(* cyc_collect_now, and `while (cyc_cand_count > 0) cyc_collect(1)` of       *)
(* cyc_final, at exit.                                                       *)
CollectNow ==
  /\ Running /\ cand # <<>>
  /\ Collect(cand, buffered, Len(cand))
  /\ UNCHANGED <<mem, rc, colour, program, history>>

Final ==
  /\ Running /\ cand = <<>>
  /\ done' = TRUE
  /\ UNCHANGED <<headers, cand, collection, kid, store, lists, dying, history>>

Program ==
  \/ \E l \in Lists :
       \/ \E x \in Objects, ys \in [FieldNames -> Reachable \cup {Nil}] : New(l, x, ys)
       \/ \E x \in Reachable : Push(l, x)
       \/ \E i, j \in 1 .. MaxLen, m \in Lists : Overwrite(l, i, m, j)
       \/ BeginRelease(l)
  \/ \E x \in Reachable, f \in FieldNames, y \in Reachable \cup {Nil} : Assign(x, f, y)
  \/ \E x \in Reachable, f \in FieldNames, y \in Objects,
        ys \in [FieldNames -> Reachable \cup {Nil}] : AssignNew(x, f, y, ys)
  \/ CollectNow
  \/ Final

Next ==
  \/ Running /\ Program
  \/ ReleaseLast
  \/ WalkStep

Spec == Init /\ [][Next]_vars

-----------------------------------------------------------------------------
(* Nothing is freed while the program can still reach it, whatever the order *)
(* of stores, releases and collections, and at no point of a collection      *)
(* (cyc_release, cyc_collect).                                               *)
NoPrematureFree == \A x \in Reachable : mem[x] = "alive"

(* Between calls, the count of a reachable object covers every list slot and *)
(* every field of a reachable object that holds it: trial deletion can never *)
(* take it to zero on internal edges alone (cyc_scan_black restores what it  *)
(* took).                                                                    *)
Slots(x) == {p \in Lists \X (1 .. MaxLen) : p[2] <= Len(lists[p[1]]) /\ lists[p[1]][p[2]] = x}
Edges(x) == {p \in Reachable \X FieldNames : kid[p[1]][p[2]] = x}

CountsCoverEdges ==
  Idle => \A x \in Reachable : rc[x] >= Cardinality(Slots(x)) + Cardinality(Edges(x))

(* Between calls a reachable object is black, or purple and buffered: no     *)
(* walk leaves its marks on what it found alive.                             *)
ColoursSettle ==
  Idle => \A x \in Reachable :
            colour[x] = "black" \/ (colour[x] = "purple" /\ buffered[x])

(* The buffer and the flags agree, no object is buffered twice, the buffer   *)
(* never stays full, and what is buffered has not been freed: cyc_collect    *)
(* reads every root's header.                                                *)
BufferIsExact ==
  /\ Len(cand) < Theta
  /\ IsInjective(cand)
  /\ {x \in Objects : buffered[x]} = ToSet(cand)
  /\ \A x \in ToSet(cand) : mem[x] = "alive"

(* No object is freed twice ("Freed here, it was freed again by              *)
(* cyc_collect_white", cyc_release).                                         *)
FreedOnce == again = {}

(* What is still allocated after the final pass, though nothing holds it,    *)
(* hangs below an object that was freed on its own count: every garbage      *)
(* cycle that no such object led to has been reclaimed.                      *)
CyclesReclaimed ==
  done /\ Elements = {} =>
    \A x \in Objects : mem[x] = "alive" => x \in Closure(direct)

(* "reading the field afterwards is a use-after-free" (cyc_collect_white);   *)
(* CollectWhite in docs/aif/spec/CYCLES.md frees x after its children: no    *)
(* walk reads the header of an object that has been freed.                   *)
HeaderReadsAreLive == touched = {}
=============================================================================
