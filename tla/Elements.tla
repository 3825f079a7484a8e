------------------------------ MODULE Elements ------------------------------
(***************************************************************************)
(* Who owns the elements of a Vec (runtime/lang_runtime.c).  A list is told*)
(* at construction what its elements are (elem_own, elem_size), and every  *)
(* entry point, the ones codegen inlines included, has to agree on when an *)
(* element is taken, retained, parked or released.                         *)
(*                                                                         *)
(* `let s = v[i]` is a view, not a copy: an element displaced or removed   *)
(* while a view may be read is parked in the list's grave and released with*)
(* the list, unless codegen proved that no view is live (`now`).           *)
(*                                                                         *)
(* A block is a heap allocation an element stands for: the boxed object, or*)
(* the buffer of a long String.  Indices are in range (list_index_fail     *)
(* stops the program otherwise).                                           *)
(***************************************************************************)
EXTENDS Naturals, Sequences, FiniteSets, SequencesExt

CONSTANTS
    Lists, Blocks, None,
    Modes,      \* what the lists of a program may be told of their elements
    Replaceable,\* the modes under which the program calls v.replace(i, x)
    SelfViews,  \* whether it stores a prefix of v[i] into v[i]
    MaxLen      \* bound: elements of a list, parked ones included

\* AIF_ELEM_NONE, OBJECT (and LIST, TYPED: another deallocator), RC (and its
\* atomic form), STRING on 16-byte pairs, and a flat type stored inline.
ElemModes == {"none", "object", "rc", "string", "flat"}

ASSUME ModesAssumption ==
    /\ Modes \subseteq ElemModes
    /\ Replaceable \subseteq {"object", "rc"}
    /\ SelfViews \in BOOLEAN
    /\ IsFiniteSet(Lists)
    /\ None \notin Blocks

VARIABLES
    mode,   \* the lists' elem_own and elem_size, fixed at construction
    block,  \* block -> "unused", "live" or "freed"
    count,  \* block -> the count in its prefix header (rc)
    owned,   \* the blocks the program itself owns
    list,   \* list -> NoList, or its slots and its grave
    views,  \* the <<list, block>> pairs a binding of the program may read
    wild    \* history: a block was released, or read, when it was not live

elementVars == <<mode, block, count, owned, list, views, wild>>

\* How often each block occurs: once for b, or not at all.
Nothing == [c \in Blocks |-> 0]
Once(b) == [c \in Blocks |-> IF c = b THEN 1 ELSE 0]
Added(f, g) == [c \in Blocks |-> f[c] + g[c]]

\* A grave is only ever emptied whole, so that its order is left out.
NoList == [live |-> FALSE, slots |-> <<>>, grave |-> Nothing]

ElementsInit ==
    /\ mode \in Modes
    /\ block = [b \in Blocks |-> "unused"]
    /\ count = [b \in Blocks |-> 0]
    /\ owned = {}
    /\ list = [l \in Lists |-> NoList]
    /\ views = {}
    /\ wild = FALSE

----------------------------------------------------------------------------
\* A slot, or a value on its way into one.  `at` is where a view starts in its
\* block: at 0 it has the block's own address.
Boxed(b) == [b |-> b, cls |-> "owned", at |-> 0]
View(b, at) == [b |-> b, cls |-> "view", at |-> at]
Inline == [b |-> None, cls |-> "inline", at |-> 0]     \* twelve bytes, or a flat body
Literal == [b |-> None, cls |-> "borrowed", at |-> 0]  \* .rodata

Live(l) == list[l].live
Slots(l) == list[l].slots
Room(l) ==
    LET parked(b) == list[l].grave[b]
    IN  Len(Slots(l)) + MapThenSumSet(parked, Blocks) < MaxLen
NoView(l) == \A b \in Blocks : <<l, b>> \notin views

\* The slots that own a block, and the blocks that a sequence of slots owns.
Owns(v, b) == v.cls = "owned" /\ v.b = b
Owners(ss, b) == {i \in DOMAIN ss : Owns(ss[i], b)}
Owned(ss) == [b \in Blocks |-> Cardinality(Owners(ss, b))]

\* list_release_element of the blocks of `dropped`, after rc_retain of those of
\* `kept`.  rc_release does nothing at a count of zero and frees at the step from one.
Account(kept, dropped, takes) ==
    LET had(b) == count[b] + kept[b]
        dies(b) == IF mode = "rc" THEN had(b) > 0 /\ dropped[b] >= had(b)
                   ELSE mode # "none" /\ dropped[b] > 0
        twice(b) == IF mode = "rc" THEN had(b) > 0 /\ dropped[b] > had(b)
                    ELSE mode # "none" /\ dropped[b] > 1
    IN  /\ count' = [b \in Blocks |->
                        IF mode # "rc" THEN count[b]
                        ELSE IF dropped[b] >= had(b) THEN 0 ELSE had(b) - dropped[b]]
        /\ block' = [b \in Blocks |-> IF dies(b) THEN "freed"
                                      ELSE IF b \in takes THEN "live" ELSE block[b]]
        /\ wild' = (wild \/ \E b \in Blocks :
                        \/ twice(b)
                        \/ dropped[b] > 0 /\ mode # "none" /\ block[b] # "live")

Fresh == {b \in Blocks : block[b] = "unused"}

----------------------------------------------------------------------------
\* The values a program can hand to a list.  A value is moved in; a counted one
\* may be in other lists already; a view reads a block that something owns.
Values ==
    CASE mode = "string" ->
            {Boxed(b) : b \in owned} \cup {Inline, Literal}
                \cup {View(b, at) : b \in owned \cup {lb[2] : lb \in views}, at \in {0, 1}}
      [] mode = "rc" -> {Boxed(b) : b \in {c \in Blocks : block[c] = "live"}}
      [] OTHER -> {Boxed(b) : b \in owned} \cup (IF mode = "flat" THEN {Inline} ELSE {})

\* list_push_str and list_set_str copy a view into a block of the list's own
\* (str_clone_n); a flat body is copied out of its box; the rest is stored as is.
Copies(v) == v.cls = "view"
Stored(v, fresh) ==
    CASE Copies(v) -> Boxed(fresh)
      [] mode = "flat" -> Inline
      [] OTHER -> v

\* A list of uncounted elements takes over what it is given; a list that owns
\* nothing leaves it with the program.
Moved(v) == IF mode \in {"object", "string", "flat"} /\ v.cls = "owned" THEN {v.b} ELSE {}

\* list_release_source: the box a flat body was copied from goes at once; an
\* address inside the list's own block is not an allocation.
Source(v) == IF mode = "flat" /\ v.cls = "owned" THEN Once(v.b) ELSE Nothing

\* Mutant: a store into a counted list takes no count.
Retained_Never(v) == Nothing

Retained(v) == IF mode = "rc" THEN Once(v.b) ELSE Nothing

\* Give list l new slots and a new grave.
Put(l, ss, g) == list' = [list EXCEPT ![l] = [live |-> TRUE, slots |-> ss, grave |-> g]]

\* Room is made in the heap for a view's copy: `fresh` is unused when it is needed.
ForCopy(v, fresh) == fresh \in IF Copies(v) THEN Fresh ELSE {None}

----------------------------------------------------------------------------
NewList(l) ==
    /\ ~Live(l)
    /\ Put(l, <<>>, Nothing)
    /\ UNCHANGED <<mode, block, count, owned, views, wild>>

\* The program makes a value, and drops one it still owns.  A counted value has
\* no owner but the containers: a binding never releases it.  The elements of
\* lists that own nothing have owners elsewhere, that outlive the lists.
Make(b) ==
    /\ b \in Fresh
    /\ block' = [block EXCEPT ![b] = "live"]
    /\ owned' = IF mode = "rc" THEN owned ELSE owned \cup {b}
    /\ UNCHANGED <<mode, count, list, views, wild>>

Drop(b) ==
    /\ b \in owned
    /\ mode # "none"
    /\ owned' = owned \ {b}
    /\ block' = [block EXCEPT ![b] = "freed"]
    /\ UNCHANGED <<mode, count, list, views, wild>>

\* `let s = v[i]`, and the end of that binding.
Bind(l, i) ==
    /\ Live(l) /\ i \in DOMAIN Slots(l)
    /\ Slots(l)[i].cls = "owned"
    /\ views' = views \cup {<<l, Slots(l)[i].b>>}
    /\ UNCHANGED <<mode, block, count, owned, list, wild>>

Unbind(l, b) ==
    /\ <<l, b>> \in views
    /\ views' = views \ {<<l, b>>}
    /\ UNCHANGED <<mode, block, count, owned, list, wild>>

\* list_push, list_push_inline, list_push_str (and insert: the push, and the new
\* element moved to its index).
Insert(l, i, v, fresh) ==
    /\ Live(l) /\ Room(l)
    /\ i \in 1..(Len(Slots(l)) + 1)
    /\ ForCopy(v, fresh)
    /\ Put(l, InsertAt(Slots(l), i, Stored(v, fresh)), list[l].grave)
    /\ Account(Retained(v), Source(v), IF Copies(v) THEN {fresh} ELSE {})
    /\ owned' = owned \ Moved(v)
    /\ UNCHANGED <<mode, views>>

\* Mutant: a displaced String's buffer is not looked at.
Discarded_NoStrings(l, i) == IF mode \in {"object", "rc"} THEN Owned(<<Slots(l)[i]>>) ELSE Nothing

\* What slot i owns: list_discard_slot parks it or, under `now`, releases it.
Discarded(l, i) == IF mode \in {"object", "rc", "string"} THEN Owned(<<Slots(l)[i]>>) ELSE Nothing

\* The pointer compare that keeps `v[i] = v[i]` from parking what it stores.
SamePointer(s, v) == s.b # None /\ s.b = v.b /\ v.at = 0

\* list_set, list_set_inline, list_set_str.  Under a count the displaced element
\* is released at once; otherwise it is parked.
Set(l, i, v, fresh) ==
    /\ Live(l) /\ i \in DOMAIN Slots(l)
    /\ Room(l) \/ mode = "rc"
    /\ ForCopy(v, fresh)
    /\ LET s == Slots(l)[i]
           parked == IF mode = "rc" \/ SamePointer(s, v) THEN Nothing ELSE Discarded(l, i)
           dropped == IF mode = "rc" THEN Discarded(l, i) ELSE Source(v)
       IN /\ (Copies(v) /\ SamePointer(s, v)) => SelfViews
          /\ Put(l, [Slots(l) EXCEPT ![i] = Stored(v, fresh)], Added(list[l].grave, parked))
          /\ Account(Retained(v), dropped, IF Copies(v) THEN {fresh} ELSE {})
    /\ owned' = owned \ Moved(v)
    /\ UNCHANGED <<mode, views>>

\* list_set_now, list_set_str_now: no view of the list is live and the value is
\* not one (src/ir/overwrites.psm), so the displaced element is released at once.
SetNow(l, i, v) ==
    /\ mode \in {"object", "string"}
    /\ Live(l) /\ i \in DOMAIN Slots(l)
    /\ NoView(l) /\ ~Copies(v)
    /\ Put(l, [Slots(l) EXCEPT ![i] = v], list[l].grave)
    /\ Account(Nothing, IF SamePointer(Slots(l)[i], v) THEN Nothing ELSE Discarded(l, i), {})
    /\ owned' = owned \ Moved(v)
    /\ UNCHANGED <<mode, views>>

\* list_set_exclusive, `v.replace(i, x)`: the value is stored, then the displaced
\* element is released as teardown would release it.  Sema admits it on a local
\* list none of whose elements has been read: a counted value is new, or was read
\* from another list.
SetExclusive(l, i, v) ==
    /\ mode \in Replaceable
    /\ Live(l) /\ i \in DOMAIN Slots(l)
    /\ NoView(l)
    /\ mode = "rc" => \/ count[v.b] = 0
                      \/ \E m \in Lists \ {l} : Owners(Slots(m), v.b) # {}
    /\ Put(l, [Slots(l) EXCEPT ![i] = v], list[l].grave)
    /\ Account(Nothing, Discarded(l, i), {})
    /\ owned' = owned \ Moved(v)
    /\ UNCHANGED <<mode, views>>

\* list_truncate and list_remove_at.
Truncate(l, n, now) ==
    /\ Live(l) /\ n \in 0..(Len(Slots(l)) - 1)
    /\ now => NoView(l)
    /\ LET out == IF mode \in {"object", "rc", "string"}
                  THEN Owned(SubSeq(Slots(l), n + 1, Len(Slots(l)))) ELSE Nothing
       IN /\ Put(l, SubSeq(Slots(l), 1, n), IF now THEN list[l].grave ELSE Added(list[l].grave, out))
          /\ Account(Nothing, IF now THEN out ELSE Nothing, {})
    /\ UNCHANGED <<mode, owned, views>>

\* Mutant: a removed element is released although a view may be live.
RemoveElement_Releases(l, i, now) ==
    /\ Live(l) /\ i \in DOMAIN Slots(l)
    /\ now => NoView(l)
    /\ Put(l, RemoveAt(Slots(l), i), list[l].grave)
    /\ Account(Nothing, Discarded(l, i), {})
    /\ UNCHANGED <<mode, owned, views>>

RemoveElement(l, i, now) ==
    /\ Live(l) /\ i \in DOMAIN Slots(l)
    /\ now => NoView(l)
    /\ Put(l, RemoveAt(Slots(l), i), IF now THEN list[l].grave ELSE Added(list[l].grave, Discarded(l, i)))
    /\ Account(Nothing, IF now THEN Discarded(l, i) ELSE Nothing, {})
    /\ UNCHANGED <<mode, owned, views>>

\* list_swap exchanges two slots and owns nothing.
Swap(l, i, j) ==
    /\ Live(l) /\ {i, j} \subseteq DOMAIN Slots(l) /\ i < j
    /\ Put(l, [Slots(l) EXCEPT ![i] = Slots(l)[j], ![j] = Slots(l)[i]], list[l].grave)
    /\ UNCHANGED <<mode, block, count, owned, views, wild>>

\* list_release: the elements, then the parked ones.  Every binding that views the
\* list has ended.
Release(l) ==
    /\ Live(l)
    /\ NoView(l)
    /\ Account(Nothing, Added(IF mode = "flat" THEN Nothing ELSE Owned(Slots(l)), list[l].grave), {})
    /\ list' = [list EXCEPT ![l] = NoList]
    /\ UNCHANGED <<mode, owned, views>>

ListOperation(l) ==
    \/ NewList(l) \/ Release(l)
    \/ \E v \in Values :
          \/ \E i \in 1..MaxLen, fresh \in Fresh \cup {None} :
                Insert(l, i, v, fresh) \/ Set(l, i, v, fresh)
          \/ \E i \in 1..MaxLen : SetNow(l, i, v) \/ SetExclusive(l, i, v)
    \/ \E i \in 1..MaxLen, now \in BOOLEAN : RemoveElement(l, i, now) \/ Truncate(l, i - 1, now)
    \/ \E i, j \in 1..MaxLen : Swap(l, i, j)
    \/ \E i \in 1..MaxLen : Bind(l, i)
    \/ \E b \in Blocks : Unbind(l, b)

ElementsNext ==
    \/ \E b \in Blocks : Make(b) \/ Drop(b)
    \/ \E l \in Lists : ListOperation(l)

ElementsSpec == ElementsInit /\ [][ElementsNext]_elementVars

----------------------------------------------------------------------------
(***************************************************************************)
(* Properties                                                              *)
(***************************************************************************)

\* The slots and graves that hold block b, in list l and in all.
Places(l, b) ==
    {<<l, "slot", i>> : i \in Owners(Slots(l), b)} \cup {<<l, "grave", k>> : k \in 1 .. list[l].grave[b]}
Edges(b) == Cardinality(UNION {Places(l, b) : l \in Lists})

\* "One container is one count": a count is the number of slots and graves that
\* hold the object, so that no release lacks its retain (rc_retain, rc_release).
CountsAreContainers == mode = "rc" => \A b \in Blocks : count[b] = Edges(b)

\* An uncounted block has one owner, the program or one slot or grave of one list,
\* from the allocation to its one release: nothing leaks, nothing is freed twice,
\* no slot is left dangling (list_push, list_set, list_discard_slot, list_release).
OneOwner ==
    mode \in {"object", "string"} =>
        \A b \in Blocks :
            Edges(b) + (IF b \in owned THEN 1 ELSE 0) = (IF block[b] = "live" THEN 1 ELSE 0)

\* What a binding, or a store in progress, reads through a view has not been
\* released (list_park).  Under a count, list_set releases at once.
ViewsStayReadable ==
    /\ ~wild
    /\ mode # "rc" => \A lb \in views : block[lb[2]] = "live"
=============================================================================
