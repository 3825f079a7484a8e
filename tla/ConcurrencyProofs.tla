------------------------- MODULE ConcurrencyProofs -------------------------
(***************************************************************************)
(* Proofs about what runs concurrently.  Channel: for every set of threads,*)
(* every message set, every capacity and both kinds of ring.  Tasks: for   *)
(* any set of tasks and any nesting of scopes, the reference counts are    *)
(* exact, a running thread's task is alive, a scope outlives what it       *)
(* started, and a body runs once.  LanguageServer: for any workspace whose *)
(* open documents are of one program at a time, any number of edits and    *)
(* requests and any fault, what the server answers from and shows when     *)
(* nothing is stale is of the texts as they are.                           *)
(***************************************************************************)
EXTENDS Channel, Tasks, LanguageServer, FiniteSetTheorems, TLAPS

(* The capacity chan_new keeps is a positive number. *)
LEMMA CapPositive == Cap \in Nat /\ Cap > 0
BY CapacityAssumption DEF Cap

(* The two spellings of the ring arithmetic agree: for an index below twice  *)
(* the capacity, `%` is at most one subtraction.                             *)
LEMMA WrapOnce ==
  ASSUME NEW n \in Nat, n < 2 * Cap
  PROVE  n % Cap = IF n >= Cap THEN n - Cap ELSE n
<1>1. CASE n < Cap
  BY <1>1, CapPositive
<1>2. CASE n >= Cap
  BY <1>2, CapPositive
<1> QED BY <1>1, <1>2, CapPositive

LEMMA RingIndices ==
  ASSUME TypeOK
  PROVE  /\ len < Cap => TailIndex = IF head + len >= Cap THEN head + len - Cap ELSE head + len
         /\ len < Cap => TailIndex \in 0 .. Cap - 1
         /\ NextHead = IF head + 1 = Cap THEN 0 ELSE head + 1
         /\ NextHead \in 0 .. Cap - 1
<1> USE CapPositive
<1>1. head \in Nat /\ head < Cap /\ len \in Nat
  BY DEF TypeOK
<1>2. len < Cap => (head + len) % Cap = IF head + len >= Cap THEN head + len - Cap ELSE head + len
  BY <1>1, WrapOnce
<1>3. (head + 1) % Cap = IF head + 1 >= Cap THEN head + 1 - Cap ELSE head + 1
  BY <1>1, WrapOnce
<1> QED BY <1>1, <1>2, <1>3 DEF TailIndex, NextHead

(* What every action that ends a call leaves in pc, arg and answer.          *)
LEMMA ReturnsType ==
  ASSUME TypeOK, NEW p, NEW t \in Threads, NEW r,
         p \in [Threads -> {"idle", "send", "recv", "not_full", "not_empty"}],
         r \in Messages \cup {NoMessage, "none", "sent", "dropped", "drained"},
         Returns(p, t, r)
  PROVE  /\ pc' \in [Threads -> {"idle", "send", "recv", "not_full", "not_empty"}]
         /\ arg' \in [Threads -> Messages \cup {NoMessage}]
         /\ answer' \in [Threads -> Messages \cup
                 {NoMessage, "none", "sent", "dropped", "drained"}]
BY DEF TypeOK, Returns

LEMMA SignalType ==
  ASSUME TypeOK, NEW t \in Threads, NEW r, NEW cond \in {"not_full", "not_empty"},
         r \in Messages \cup {NoMessage, "none", "sent", "dropped", "drained"},
         SignalAndReturn(cond, t, r)
  PROVE  /\ pc' \in [Threads -> {"idle", "send", "recv", "not_full", "not_empty"}]
         /\ arg' \in [Threads -> Messages \cup {NoMessage}]
         /\ answer' \in [Threads -> Messages \cup
                 {NoMessage, "none", "sent", "dropped", "drained"}]
<1>1. CASE Returns(pc, t, r)
  BY <1>1, ReturnsType DEF TypeOK
<1>2. ASSUME NEW w \in At(cond), Returns([pc EXCEPT ![w] = Resumed(cond)], t, r)
      PROVE  /\ pc' \in [Threads -> {"idle", "send", "recv", "not_full", "not_empty"}]
             /\ arg' \in [Threads -> Messages \cup {NoMessage}]
             /\ answer' \in [Threads -> Messages \cup
                     {NoMessage, "none", "sent", "dropped", "drained"}]
  <2>1. [pc EXCEPT ![w] = Resumed(cond)] \in
          [Threads -> {"idle", "send", "recv", "not_full", "not_empty"}]
    BY DEF TypeOK, At, Resumed
  <2> QED BY <1>2, <2>1, ReturnsType
<1> QED BY <1>1, <1>2 DEF SignalAndReturn

(* TypeOK is inductive. *)
LEMMA TypeStep == TypeOK /\ [Next]_vars => TypeOK'
<1> SUFFICES ASSUME TypeOK, [Next]_vars PROVE TypeOK'
  OBVIOUS
<1> USE CapPositive
<1>1. CASE UNCHANGED vars
  BY <1>1 DEF TypeOK, vars
<1>2. ASSUME NEW t \in Threads, NEW m \in Messages, CallSend(t, m) PROVE TypeOK'
  BY <1>2 DEF TypeOK, CallSend, chan
<1>3. ASSUME NEW t \in Threads, CallRecv(t) PROVE TypeOK'
  BY <1>3 DEF TypeOK, CallRecv, chan
<1>4. ASSUME NEW t \in Threads, SendWaits(t) PROVE TypeOK'
  BY <1>4 DEF TypeOK, SendWaits, chan
<1>5. ASSUME NEW t \in Threads, SendClosed(t) PROVE TypeOK'
  BY <1>5, ReturnsType DEF TypeOK, SendClosed, chan
<1>6. ASSUME NEW t \in Threads, SendNoRing(t) PROVE TypeOK'
  BY <1>6, ReturnsType DEF TypeOK, SendNoRing, chan
<1>7. ASSUME NEW t \in Threads, SendStores(t) PROVE TypeOK'
  <2>1. /\ pc' \in [Threads -> {"idle", "send", "recv", "not_full", "not_empty"}]
        /\ arg' \in [Threads -> Messages \cup {NoMessage}]
        /\ answer' \in [Threads -> Messages \cup
                {NoMessage, "none", "sent", "dropped", "drained"}]
    BY <1>7, SignalType DEF SendStores
  <2>2. TailIndex \in 0 .. Cap - 1
    BY <1>7, RingIndices DEF TypeOK, SendStores
  <2> QED BY <1>7, <2>1, <2>2 DEF TypeOK, SendStores
<1>8. ASSUME NEW t \in Threads, RecvWaits(t) PROVE TypeOK'
  BY <1>8 DEF TypeOK, RecvWaits, chan
<1>9. ASSUME NEW t \in Threads, RecvEnds(t) PROVE TypeOK'
  BY <1>9, ReturnsType DEF TypeOK, RecvEnds, chan
<1>10. ASSUME NEW t \in Threads, RecvTakes(t) PROVE TypeOK'
  <2>0. slots[head] \in Messages \cup {NoMessage, "none", "sent", "dropped", "drained"}
    BY DEF TypeOK
  <2>1. /\ pc' \in [Threads -> {"idle", "send", "recv", "not_full", "not_empty"}]
        /\ arg' \in [Threads -> Messages \cup {NoMessage}]
        /\ answer' \in [Threads -> Messages \cup
                {NoMessage, "none", "sent", "dropped", "drained"}]
    BY <1>10, <2>0, SignalType DEF RecvTakes
  <2>2. NextHead \in 0 .. Cap - 1
    BY RingIndices
  <2> QED BY <1>10, <2>1, <2>2 DEF TypeOK, RecvTakes
<1>11. ASSUME NEW t \in Threads, CloseChan(t) PROVE TypeOK'
  BY <1>11 DEF TypeOK, CloseChan, Resumed
<1>12. ASSUME NEW t \in Threads, SpuriousWake(t) PROVE TypeOK'
  BY <1>12 DEF TypeOK, SpuriousWake, Resumed, chan
<1> QED
  BY <1>1, <1>2, <1>3, <1>4, <1>5, <1>6, <1>7, <1>8, <1>9, <1>10, <1>11, <1>12
  DEF Next, Locked

(* Type correctness of the channel: `head` stays a ring index and `len`      *)
(* between 0 and the capacity, whatever the interleaving of sends, receives, *)
(* closes and spurious wake-ups.                                             *)
THEOREM TypeCorrect == SafeSpec => []TypeOK
<1>1. Init => TypeOK
  <2> SUFFICES ASSUME Init PROVE TypeOK
    OBVIOUS
  <2>1. ready \in BOOLEAN
    BY CopyAssumption, Zenon DEF Init
  <2>2. /\ slots \in [0 .. Cap - 1 -> Messages \cup {NoMessage}]
        /\ arg \in [Threads -> Messages \cup {NoMessage}]
    BY Zenon DEF Init
  <2>3. /\ pc \in [Threads -> {"idle", "send", "recv", "not_full", "not_empty"}]
        /\ answer \in [Threads -> Messages \cup
                {NoMessage, "none", "sent", "dropped", "drained"}]
    BY Zenon DEF Init
  <2>4. head \in 0 .. Cap - 1 /\ len \in 0 .. Cap
    BY CapPositive DEF Init
  <2> QED BY <2>1, <2>2, <2>3, <2>4 DEF Init, TypeOK
<1> QED BY <1>1, TypeStep, PTL DEF SafeSpec

-----------------------------------------------------------------------------
(* The inductive invariant.  NoLostWakeup alone is not inductive: a sender   *)
(* that gives up because chan_bytes_ready failed would leave a free slot     *)
(* with nobody coming for it, and RingBeforeMessages is what says that no    *)
(* sender sleeps while the ring may still be refused.                        *)
Inv == TypeOK /\ RingBeforeMessages /\ NoLostWakeup

LEMMA AtFinite ==
  ASSUME NEW p
  PROVE  /\ IsFiniteSet(At(p)) /\ Cardinality(At(p)) \in Nat
         /\ IsFiniteSet(At(p)') /\ Cardinality(At(p)') \in Nat
<1>1. At(p) \in SUBSET Threads /\ At(p)' \in SUBSET Threads
  BY DEF At
<1>2. IsFiniteSet(At(p)) /\ IsFiniteSet(At(p)')
  BY <1>1, ThreadsAssumption, FS_Subset
<1> QED BY <1>2, FS_CardinalityType

(* A population that only grows keeps its bound. *)
LEMMA AtGrows ==
  ASSUME NEW p, At(p) \subseteq At(p)'
  PROVE  Cardinality(At(p)') >= Cardinality(At(p))
<1>1. Cardinality(At(p)) <= Cardinality(At(p)')
  BY AtFinite, FS_Subset
<1> QED BY <1>1, AtFinite

LEMMA AtGains ==
  ASSUME NEW p, NEW w, w \notin At(p), At(p)' = At(p) \cup {w}
  PROVE  Cardinality(At(p)') = Cardinality(At(p)) + 1
BY AtFinite, FS_AddElement

LEMMA AtLoses ==
  ASSUME NEW p, NEW w, w \in At(p), At(p)' = At(p) \ {w}
  PROVE  Cardinality(At(p)') = Cardinality(At(p)) - 1
BY AtFinite, FS_RemoveElement

(* The populations after a step that moves thread t alone.                   *)
LEMMA AtMove ==
  ASSUME TypeOK, NEW t \in Threads,
         NEW q \in {"idle", "send", "recv", "not_full", "not_empty"},
         pc' = [pc EXCEPT ![t] = q]
  PROVE  /\ At(q)' = At(q) \cup {t}
         /\ \A p \in {"send", "recv", "not_full", "not_empty"} :
              p # q => At(p)' = At(p) \ {t}
         /\ \A p \in {"send", "recv", "not_full", "not_empty"} :
              p # q /\ pc[t] # p => At(p)' = At(p)
<1>1. \A u \in Threads : pc'[u] = IF u = t THEN q ELSE pc[u]
  BY DEF TypeOK
<1> QED BY <1>1 DEF At

(* The populations after a signal on cond by a thread t that returns.        *)
LEMMA AtSignal ==
  ASSUME TypeOK, NEW t \in Threads, NEW cond \in {"not_full", "not_empty"}, NEW r,
         pc[t] \in {"send", "recv"}, SignalAndReturn(cond, t, r)
  PROVE  \/ /\ At(cond) = {}
            /\ \A p \in {"send", "recv", "not_full", "not_empty"} :
                 /\ At(p)' = At(p) \ {t}
                 /\ pc[t] # p => At(p)' = At(p)
         \/ \E w \in At(cond) :
              /\ w # t
              /\ At(Resumed(cond))' = (At(Resumed(cond)) \ {t}) \cup {w}
              /\ pc[t] # Resumed(cond) =>
                   At(Resumed(cond))' = At(Resumed(cond)) \cup {w}
              /\ At(cond)' = At(cond) \ {w}
              /\ \A p \in {"send", "recv", "not_full", "not_empty"} \ {cond, Resumed(cond)} :
                   /\ At(p)' = At(p) \ {t}
                   /\ pc[t] # p => At(p)' = At(p)
<1>1. CASE At(cond) = {} /\ Returns(pc, t, r)
  BY <1>1 DEF TypeOK, At, Returns
<1>2. ASSUME NEW w \in At(cond), Returns([pc EXCEPT ![w] = Resumed(cond)], t, r)
      PROVE  /\ w # t
             /\ At(Resumed(cond))' = (At(Resumed(cond)) \ {t}) \cup {w}
             /\ pc[t] # Resumed(cond) =>
                  At(Resumed(cond))' = At(Resumed(cond)) \cup {w}
             /\ At(cond)' = At(cond) \ {w}
             /\ \A p \in {"send", "recv", "not_full", "not_empty"} \ {cond, Resumed(cond)} :
                  /\ At(p)' = At(p) \ {t}
                  /\ pc[t] # p => At(p)' = At(p)
  <2>1. w \in Threads /\ pc[w] = cond /\ w # t
    BY DEF At
  <2>2. \A u \in Threads : pc'[u] = IF u = t THEN "idle"
                                     ELSE IF u = w THEN Resumed(cond) ELSE pc[u]
    BY <1>2, <2>1 DEF TypeOK, Returns
  <2> QED BY <2>1, <2>2 DEF At, Resumed
<1> QED BY <1>1, <1>2 DEF SignalAndReturn

(* RingBeforeMessages is inductive relative to TypeOK. *)
LEMMA RingStep == TypeOK /\ RingBeforeMessages /\ [Next]_vars => RingBeforeMessages'
<1> SUFFICES ASSUME TypeOK, RingBeforeMessages, [Next]_vars PROVE RingBeforeMessages'
  OBVIOUS
<1> USE DEF RingBeforeMessages
<1>1. CASE UNCHANGED vars
  BY <1>1 DEF vars, At
<1>2. ASSUME NEW t \in Threads, NEW m \in Messages, CallSend(t, m) PROVE RingBeforeMessages'
  BY <1>2, AtMove DEF CallSend, chan, TypeOK
<1>3. ASSUME NEW t \in Threads, CallRecv(t) PROVE RingBeforeMessages'
  BY <1>3, AtMove DEF CallRecv, chan, TypeOK
<1>4. ASSUME NEW t \in Threads, SendWaits(t) PROVE RingBeforeMessages'
  BY <1>4, CapPositive DEF SendWaits, chan, TypeOK
<1>5. ASSUME NEW t \in Threads, SendClosed(t) PROVE RingBeforeMessages'
  BY <1>5, AtMove DEF SendClosed, Returns, chan, TypeOK
<1>6. ASSUME NEW t \in Threads, SendNoRing(t) PROVE RingBeforeMessages'
  BY <1>6, AtMove DEF SendNoRing, Returns, chan, TypeOK
<1>7. ASSUME NEW t \in Threads, SendStores(t) PROVE RingBeforeMessages'
  BY <1>7 DEF SendStores
<1>8. ASSUME NEW t \in Threads, RecvWaits(t) PROVE RingBeforeMessages'
  BY <1>8, AtMove DEF RecvWaits, chan, TypeOK
<1>9. ASSUME NEW t \in Threads, RecvEnds(t) PROVE RingBeforeMessages'
  BY <1>9, AtMove DEF RecvEnds, Returns, chan, TypeOK
<1>10. ASSUME NEW t \in Threads, RecvTakes(t) PROVE RingBeforeMessages'
  BY <1>10 DEF RecvTakes
<1>11. ASSUME NEW t \in Threads, CloseChan(t) PROVE RingBeforeMessages'
  <2>1. At("not_full")' = {}
    BY <1>11 DEF CloseChan, At, Resumed, TypeOK
  <2> QED BY <1>11, <2>1 DEF CloseChan
<1>12. ASSUME NEW t \in Threads, SpuriousWake(t) PROVE RingBeforeMessages'
  <2>1. At("not_full")' \subseteq At("not_full")
    BY <1>12, AtMove DEF SpuriousWake, Resumed, TypeOK
  <2> QED BY <1>12, <2>1 DEF SpuriousWake, chan
<1> QED
  BY <1>1, <1>2, <1>3, <1>4, <1>5, <1>6, <1>7, <1>8, <1>9, <1>10, <1>11, <1>12
  DEF Next, Locked

(* A step in which no sender or receiver leaves for anywhere but a return    *)
(* made on an open channel with room, and nobody falls asleep.               *)
LEMMA QuietStep ==
  ASSUME Inv, TypeOK', len' = len, closed' = closed,
         At("not_full")' \subseteq At("not_full"),
         At("not_empty")' \subseteq At("not_empty"),
         At("send") \subseteq At("send")',
         At("recv") \subseteq At("recv")'
  PROVE  NoLostWakeup'
<1>1. /\ Cardinality(At("send")') >= Cardinality(At("send"))
      /\ Cardinality(At("recv")') >= Cardinality(At("recv"))
  BY AtGrows
<1> QED BY <1>1, AtFinite, CapPositive DEF Inv, NoLostWakeup, TypeOK

(* NoLostWakeup is inductive relative to TypeOK and RingBeforeMessages.      *)
LEMMA WakeupStep == Inv /\ TypeOK' /\ [Next]_vars => NoLostWakeup'
<1> SUFFICES ASSUME Inv, TypeOK', [Next]_vars PROVE NoLostWakeup'
  OBVIOUS
<1> TypeOK
  BY DEF Inv
<1>1. CASE UNCHANGED vars
  BY <1>1 DEF vars, At, NoLostWakeup, Inv
<1>2. ASSUME NEW t \in Threads, NEW m \in Messages, CallSend(t, m) PROVE NoLostWakeup'
  <2>1. /\ At("send")' = At("send") \cup {t}
        /\ \A p \in {"recv", "not_full", "not_empty"} : At(p)' = At(p)
    BY <1>2, AtMove DEF CallSend
  <2> QED BY <1>2, <2>1, QuietStep DEF CallSend, chan
<1>3. ASSUME NEW t \in Threads, CallRecv(t) PROVE NoLostWakeup'
  <2>1. /\ At("recv")' = At("recv") \cup {t}
        /\ \A p \in {"send", "not_full", "not_empty"} : At(p)' = At(p)
    BY <1>3, AtMove DEF CallRecv
  <2> QED BY <1>3, <2>1, QuietStep DEF CallRecv, chan
<1>4. ASSUME NEW t \in Threads, SendWaits(t) PROVE NoLostWakeup'
  <2>2. At("recv")' = At("recv") /\ At("not_empty")' = At("not_empty")
    BY <1>4, AtMove DEF SendWaits
  <2>3. Cardinality(At("send")') >= Cap - len'
    BY <1>4, AtFinite, CapPositive DEF SendWaits, chan
  <2> QED BY <1>4, <2>2, <2>3 DEF Inv, NoLostWakeup, SendWaits, chan
<1>5. ASSUME NEW t \in Threads, SendClosed(t) PROVE NoLostWakeup'
  <2>1. At("not_full") = {} /\ At("not_empty") = {}
    BY <1>5 DEF SendClosed, Inv, NoLostWakeup
  <2>2. At("not_full")' = {} /\ At("not_empty")' = {}
    BY <1>5, <2>1, AtMove DEF SendClosed, Returns
  <2> QED BY <2>2 DEF NoLostWakeup
<1>6. ASSUME NEW t \in Threads, SendNoRing(t) PROVE NoLostWakeup'
  <2>1. At("not_full") = {}
    BY <1>6 DEF SendNoRing, Inv, RingBeforeMessages
  <2>2. At("not_full")' = {} /\ At("recv")' = At("recv") /\ At("not_empty")' = At("not_empty")
    BY <1>6, <2>1, AtMove DEF SendNoRing, Returns
  <2> QED BY <1>6, <2>2 DEF Inv, NoLostWakeup, SendNoRing, chan
<1>7. ASSUME NEW t \in Threads, SendStores(t) PROVE NoLostWakeup'
  <2>1. t \in At("send") /\ \A p \in {"recv", "not_full", "not_empty"} : t \notin At(p)
    BY <1>7 DEF SendStores, At
  <2>2. At("send")' = At("send") \ {t} /\ At("not_full")' = At("not_full")
    BY <1>7, <2>1, AtSignal DEF SendStores, Resumed
  <2>3. Cardinality(At("send")') = Cardinality(At("send")) - 1
    BY <2>1, <2>2, AtLoses
  <2>4. At("not_full")' # {} => ~closed' /\ Cardinality(At("send")') >= Cap - len'
    BY <1>7, <2>2, <2>3, AtFinite, CapPositive DEF SendStores, Inv, NoLostWakeup, TypeOK
  <2>5. CASE At("not_empty")' = {}
    BY <2>4, <2>5 DEF NoLostWakeup
  <2>6. CASE At("not_empty")' # {}
    <3>1. PICK w \in At("not_empty") : At("recv")' = At("recv") \cup {w}
      BY <1>7, <2>1, <2>6, AtSignal DEF SendStores, Resumed
    <3>2. w \notin At("recv")
      BY DEF At
    <3>3. Cardinality(At("recv")') = Cardinality(At("recv")) + 1
      BY <3>1, <3>2, AtGains
    <3>4. Cardinality(At("recv")) >= len
      BY DEF Inv, NoLostWakeup
    <3>5. Cardinality(At("recv")') >= len' /\ ~closed'
      BY <1>7, <3>3, <3>4, AtFinite DEF SendStores, TypeOK
    <3> QED BY <2>4, <3>5 DEF NoLostWakeup
  <2> QED BY <2>5, <2>6
<1>8. ASSUME NEW t \in Threads, RecvWaits(t) PROVE NoLostWakeup'
  <2>2. At("send")' = At("send") /\ At("not_full")' = At("not_full")
    BY <1>8, AtMove DEF RecvWaits
  <2>3. Cardinality(At("recv")') >= len'
    BY <1>8, AtFinite DEF RecvWaits, chan
  <2> QED BY <1>8, <2>2, <2>3 DEF Inv, NoLostWakeup, RecvWaits, chan
<1>9. ASSUME NEW t \in Threads, RecvEnds(t) PROVE NoLostWakeup'
  <2>1. At("not_full") = {} /\ At("not_empty") = {}
    BY <1>9 DEF RecvEnds, Inv, NoLostWakeup, RingBeforeMessages, TypeOK
  <2>2. At("not_full")' = {} /\ At("not_empty")' = {}
    BY <1>9, <2>1, AtMove DEF RecvEnds, Returns
  <2> QED BY <2>2 DEF NoLostWakeup
<1>10. ASSUME NEW t \in Threads, RecvTakes(t) PROVE NoLostWakeup'
  <2>1. t \in At("recv") /\ \A p \in {"send", "not_full", "not_empty"} : t \notin At(p)
    BY <1>10 DEF RecvTakes, At
  <2>2. At("recv")' = At("recv") \ {t} /\ At("not_empty")' = At("not_empty")
    BY <1>10, <2>1, AtSignal DEF RecvTakes, Resumed
  <2>3. Cardinality(At("recv")') = Cardinality(At("recv")) - 1
    BY <2>1, <2>2, AtLoses
  <2>4. At("not_empty")' # {} => ~closed' /\ Cardinality(At("recv")') >= len'
    BY <1>10, <2>2, <2>3, AtFinite DEF RecvTakes, Inv, NoLostWakeup, TypeOK
  <2>5. CASE At("not_full")' = {}
    BY <2>4, <2>5 DEF NoLostWakeup
  <2>6. CASE At("not_full")' # {}
    <3>1. PICK w \in At("not_full") : At("send")' = At("send") \cup {w}
      BY <1>10, <2>1, <2>6, AtSignal DEF RecvTakes, Resumed
    <3>2. w \notin At("send")
      BY DEF At
    <3>3. Cardinality(At("send")') = Cardinality(At("send")) + 1
      BY <3>1, <3>2, AtGains
    <3>4. Cardinality(At("send")) >= Cap - len /\ ~closed
      BY DEF Inv, NoLostWakeup
    <3>5. Cardinality(At("send")') >= Cap - len' /\ ~closed'
      BY <1>10, <3>3, <3>4, AtFinite, CapPositive DEF RecvTakes, TypeOK
    <3> QED BY <2>4, <3>5 DEF NoLostWakeup
  <2> QED BY <2>5, <2>6
<1>11. ASSUME NEW t \in Threads, CloseChan(t) PROVE NoLostWakeup'
  <2>1. At("not_full")' = {} /\ At("not_empty")' = {}
    BY <1>11 DEF CloseChan, At, Resumed, TypeOK
  <2> QED BY <2>1 DEF NoLostWakeup
<1>12. ASSUME NEW t \in Threads, SpuriousWake(t) PROVE NoLostWakeup'
  <2>1. Resumed(pc[t]) \in {"send", "recv"} /\ pc[t] \notin {"send", "recv"}
    BY <1>12 DEF SpuriousWake, Resumed
  <2>2. At("send") \subseteq At("send")' /\ At("recv") \subseteq At("recv")'
    BY <1>12, <2>1, AtMove DEF SpuriousWake
  <2>3. /\ At("not_full")' \subseteq At("not_full")
        /\ At("not_empty")' \subseteq At("not_empty")
    BY <1>12, <2>1, AtMove DEF SpuriousWake
  <2> QED BY <1>12, <2>2, <2>3, QuietStep DEF SpuriousWake, chan
<1> QED
  BY <1>1, <1>2, <1>3, <1>4, <1>5, <1>6, <1>7, <1>8, <1>9, <1>10, <1>11, <1>12
  DEF Next, Locked

LEMMA InvInductive == SafeSpec => []Inv
<1>1. Init => RingBeforeMessages /\ NoLostWakeup
  <2> SUFFICES ASSUME Init PROVE RingBeforeMessages /\ NoLostWakeup
    OBVIOUS
  <2>1. ~Copy => ready
    BY Zenon DEF Init
  <2>2. len = 0 /\ At("not_full") = {} /\ At("not_empty") = {}
    BY DEF Init, At
  <2> QED BY <2>1, <2>2 DEF RingBeforeMessages, NoLostWakeup
<1>2. Inv /\ [Next]_vars => Inv'
  BY TypeStep, RingStep, WakeupStep DEF Inv
<1> QED BY <1>1, <1>2, TypeCorrect, PTL DEF SafeSpec, Inv

(* No wake-up is lost, for every number of threads and every capacity: while *)
(* a sender sleeps the channel is open and every free slot has a sender on   *)
(* its way to it, and the same for receivers and queued messages (chan_send, *)
(* chan_recv, chan_close).                                                   *)
THEOREM NoWakeupIsLost == SafeSpec => []NoLostWakeup
BY InvInductive, PTL DEF Inv

(* The plain-data ring exists whenever a message is queued or a sender is    *)
(* blocked, so chan_bytes_ready can refuse only before the first message.    *)
THEOREM RingIsReady == SafeSpec => []RingBeforeMessages
BY InvInductive, PTL DEF Inv

-----------------------------------------------------------------------------
(* The ring read as a queue.                                                 *)
Item == Messages \cup {NoMessage}

LEMMA QueueType ==
  TypeOK => Queue \in Seq(Item) /\ Len(Queue) = len
<1> SUFFICES ASSUME TypeOK PROVE Queue \in Seq(Item) /\ Len(Queue) = len
  OBVIOUS
<1>1. \A i \in 1 .. len : slots[(head + i - 1) % Cap] \in Item
  <2> TAKE i \in 1 .. len
  <2>1. (head + i - 1) \in Nat /\ head + i - 1 < 2 * Cap
    BY CapPositive DEF TypeOK
  <2>2. (head + i - 1) % Cap \in 0 .. Cap - 1
    BY <2>1, WrapOnce, CapPositive
  <2> QED BY <2>2 DEF TypeOK, Item
<1> QED BY <1>1, CapPositive DEF Queue, TypeOK

(* Storing at TailIndex appends. *)
LEMMA StoreAppends ==
  ASSUME TypeOK, TypeOK', NEW m \in Item, len < Cap,
         slots' = [slots EXCEPT ![TailIndex] = m], len' = len + 1, head' = head
  PROVE  Queue' = Append(Queue, m)
<1> USE CapPositive
<1>1. head \in Nat /\ head < Cap /\ len \in Nat
  BY DEF TypeOK
<1>2. \A i \in 1 .. len : Queue'[i] = Queue[i]
  <2> TAKE i \in 1 .. len
  <2>1. (head + i - 1) % Cap =
          IF head + i - 1 >= Cap THEN head + i - 1 - Cap ELSE head + i - 1
    BY <1>1, WrapOnce
  <2>2. (head + i - 1) % Cap # TailIndex /\ (head + i - 1) % Cap \in 0 .. Cap - 1
    BY <1>1, <2>1, RingIndices
  <2>3. slots'[(head + i - 1) % Cap] = slots[(head + i - 1) % Cap]
    BY <2>2 DEF TypeOK
  <2> QED BY <1>1, <2>3 DEF Queue
<1>3. Queue'[len + 1] = m
  <2>1. (head + (len + 1) - 1) % Cap = TailIndex
    BY <1>1, RingIndices, WrapOnce
  <2>2. slots'[TailIndex] = m
    BY RingIndices DEF TypeOK
  <2> QED BY <1>1, <2>1, <2>2 DEF Queue
<1>4. Queue' \in Seq(Item) /\ Len(Queue') = len + 1
  <2>1. TypeOK' => (Queue \in Seq(Item) /\ Len(Queue) = len)'
    BY QueueType, PTL
  <2> QED BY <2>1
<1>5. Queue \in Seq(Item) /\ Len(Queue) = len
  BY QueueType
<1> QED BY <1>1, <1>2, <1>3, <1>4, <1>5

(* Advancing the head removes the oldest message. *)
LEMMA TakeRemoves ==
  ASSUME TypeOK, TypeOK', len # 0,
         slots' = slots, len' = len - 1, head' = NextHead
  PROVE  Queue # <<>> /\ slots[head] = Head(Queue) /\ Queue' = Tail(Queue)
<1> USE CapPositive
<1>1. head \in Nat /\ head < Cap /\ len \in Nat /\ len <= Cap
  BY DEF TypeOK
<1>2. Queue \in Seq(Item) /\ Len(Queue) = len
  BY QueueType
<1>3. Queue[1] = slots[head]
  <2>1. (head + 1 - 1) % Cap = head
    BY <1>1, WrapOnce
  <2> QED BY <1>1, <2>1 DEF Queue
<1>4. \A i \in 1 .. len - 1 : Queue'[i] = Queue[i + 1]
  <2> TAKE i \in 1 .. len - 1
  <2>1. (head + (i + 1) - 1) % Cap = IF head + i >= Cap THEN head + i - Cap ELSE head + i
    BY <1>1, WrapOnce
  <2>2. (NextHead + i - 1) % Cap =
          IF NextHead + i - 1 >= Cap THEN NextHead + i - 1 - Cap ELSE NextHead + i - 1
    BY <1>1, RingIndices, WrapOnce
  <2>3. (NextHead + i - 1) % Cap = (head + (i + 1) - 1) % Cap
    BY <1>1, <2>1, <2>2, RingIndices
  <2> QED BY <1>1, <2>3 DEF Queue
<1>5. Queue' \in Seq(Item) /\ Len(Queue') = len - 1
  <2>1. TypeOK' => (Queue \in Seq(Item) /\ Len(Queue) = len)'
    BY QueueType, PTL
  <2> QED BY <2>1
<1> QED BY <1>1, <1>2, <1>3, <1>4, <1>5

(* A sleeping thread is inside its call, so putting a thread to sleep or     *)
(* waking it changes nothing the abstract channel sees.                      *)
LEMMA CallMove ==
  ASSUME TypeOK, NEW t \in Threads,
         NEW q \in {"idle", "send", "recv", "not_full", "not_empty"},
         pc' = [pc EXCEPT ![t] = q]
  PROVE  CallOf' = [CallOf EXCEPT ![t] = Resumed(q)]
BY DEF TypeOK, CallOf, Resumed

LEMMA CallStays ==
  ASSUME TypeOK, NEW t \in Threads,
         NEW q \in {"idle", "send", "recv", "not_full", "not_empty"},
         pc' = [pc EXCEPT ![t] = q], Resumed(pc[t]) = Resumed(q)
  PROVE  CallOf' = CallOf
BY DEF TypeOK, CallOf, Resumed

LEMMA CallReturns ==
  ASSUME TypeOK, NEW t \in Threads, NEW r, NEW cond \in {"not_full", "not_empty"},
         pc[t] \in {"send", "recv"},
         SignalAndReturn(cond, t, r) \/ Returns(pc, t, r)
  PROVE  Abstract!Return(t, r)
<1>1. CASE Returns(pc, t, r)
  BY <1>1, CallMove DEF Returns, Abstract!Return, Resumed
<1>2. ASSUME NEW w \in At(cond), Returns([pc EXCEPT ![w] = Resumed(cond)], t, r)
      PROVE  Abstract!Return(t, r)
  <2>1. w \in Threads /\ pc[w] = cond /\ w # t
    BY DEF At
  <2>2. CallOf' = [CallOf EXCEPT ![t] = "idle"]
    BY <1>2, <2>1 DEF TypeOK, Returns, CallOf, Resumed
  <2> QED BY <1>2, <2>2 DEF Returns, Abstract!Return
<1> QED BY <1>1, <1>2 DEF SignalAndReturn

(* Every step of the ring is a step of the queue or leaves it alone.         *)
LEMMA StepSimulates ==
  Inv /\ TypeOK' /\ [Next]_vars => [Abstract!Next]_(Abstract!vars)
<1> SUFFICES ASSUME Inv, TypeOK', [Next]_vars PROVE [Abstract!Next]_(Abstract!vars)
  OBVIOUS
<1> TypeOK
  BY DEF Inv
<1>0. Queue \in Seq(Item) /\ Len(Queue) = len /\ len \in 0 .. Cap
  BY QueueType DEF TypeOK
<1>1. CASE UNCHANGED vars
  BY <1>1 DEF vars, Abstract!vars, Queue, CallOf
<1>2. ASSUME NEW t \in Threads, NEW m \in Messages, CallSend(t, m)
      PROVE  Abstract!BeginSend(t, m)
  BY <1>2, CallMove DEF CallSend, chan, Abstract!BeginSend, Queue, CallOf, Resumed
<1>3. ASSUME NEW t \in Threads, CallRecv(t) PROVE Abstract!BeginReceive(t)
  BY <1>3, CallMove DEF CallRecv, chan, Abstract!BeginReceive, Queue, CallOf, Resumed
<1>4. ASSUME NEW t \in Threads, SendWaits(t) PROVE UNCHANGED Abstract!vars
  BY <1>4, CallStays DEF SendWaits, chan, Abstract!vars, Queue, Resumed
<1>5. ASSUME NEW t \in Threads, SendClosed(t) PROVE Abstract!Drop(t)
  BY <1>5, CallReturns DEF SendClosed, chan, Abstract!Drop, Queue, CallOf, Resumed
<1>6. ASSUME NEW t \in Threads, SendNoRing(t) PROVE Abstract!Drop(t)
  <2>1. Queue = <<>>
    BY <1>0, <1>6 DEF SendNoRing, Inv, RingBeforeMessages
  <2>2. Copy
    BY <1>6, CopyAssumption DEF SendNoRing, Inv, RingBeforeMessages
  <2> QED BY <1>6, <2>1, <2>2, CallReturns
          DEF SendNoRing, chan, Abstract!Drop, Queue, CallOf, Resumed
<1>7. ASSUME NEW t \in Threads, SendStores(t) PROVE Abstract!Accept(t)
  <2>0. arg[t] \in Item /\ len < Cap
    BY <1>0, <1>7, CapPositive DEF SendStores, TypeOK, Item
  <2>1. Queue' = Append(Queue, arg[t])
    BY <1>7, <2>0, StoreAppends DEF SendStores
  <2>2. Abstract!Return(t, "sent")
    BY <1>7, CallReturns DEF SendStores
  <2>3. CallOf[t] = "send" /\ ~closed /\ Len(Queue) < Cap /\ closed' = closed
    BY <1>0, <1>7, CapPositive DEF SendStores, CallOf, Resumed
  <2> QED BY <2>1, <2>2, <2>3 DEF Abstract!Accept
<1>8. ASSUME NEW t \in Threads, RecvWaits(t) PROVE UNCHANGED Abstract!vars
  BY <1>8, CallStays DEF RecvWaits, chan, Abstract!vars, Queue, Resumed
<1>9. ASSUME NEW t \in Threads, RecvEnds(t) PROVE Abstract!EndOfStream(t)
  <2>1. len = 0 /\ closed
    BY <1>0, <1>9 DEF RecvEnds, Inv, RingBeforeMessages
  <2>2. Queue = <<>> /\ Queue' = Queue
    BY <1>0, <1>9, <2>1 DEF RecvEnds, chan, Queue
  <2> QED BY <1>9, <2>1, <2>2, CallReturns
          DEF RecvEnds, chan, Abstract!EndOfStream, CallOf, Resumed
<1>10. ASSUME NEW t \in Threads, RecvTakes(t) PROVE Abstract!Deliver(t)
  <2>1. Queue # <<>> /\ slots[head] = Head(Queue) /\ Queue' = Tail(Queue)
    BY <1>10, TakeRemoves DEF RecvTakes
  <2>2. Abstract!Return(t, slots[head])
    BY <1>10, CallReturns DEF RecvTakes
  <2>3. CallOf[t] = "recv" /\ closed' = closed
    BY <1>10 DEF RecvTakes, CallOf, Resumed
  <2> QED BY <2>1, <2>2, <2>3 DEF Abstract!Deliver
<1>11. ASSUME NEW t \in Threads, CloseChan(t) PROVE Abstract!Close(t)
  <2>1. CallOf' = CallOf
    BY <1>11 DEF CloseChan, CallOf, Resumed, TypeOK
  <2> QED BY <1>11, <2>1 DEF CloseChan, Abstract!Close, Queue, CallOf, Resumed
<1>12. ASSUME NEW t \in Threads, SpuriousWake(t) PROVE UNCHANGED Abstract!vars
  <2>1. Resumed(pc[t]) \in {"send", "recv"} /\ Resumed(Resumed(pc[t])) = Resumed(pc[t])
    BY <1>12 DEF SpuriousWake, Resumed
  <2> QED BY <1>12, <2>1, CallStays DEF SpuriousWake, chan, Abstract!vars, Queue
<1> QED
  BY <1>1, <1>2, <1>3, <1>4, <1>5, <1>6, <1>7, <1>8, <1>9, <1>10, <1>11, <1>12
  DEF Next, Locked, Abstract!Next, Abstract!Finish

(* The ring with its mutex, its two conditions and its spurious wake-ups     *)
(* implements the bounded closable queue: first in, first out, nothing lost, *)
(* nothing duplicated, nothing accepted once closed, and a receiver told     *)
(* "drained" only when it is.                                                *)
THEOREM RingImplementsQueue == SafeSpec => ImplementsQueue
<1>1. Init => Abstract!Init
  BY DEF Init, Abstract!Init, Queue, CallOf, Resumed
<1> QED BY <1>1, StepSimulates, InvInductive, TypeCorrect, PTL DEF SafeSpec, ImplementsQueue, Abstract!SafeSpec

-----------------------------------------------------------------------------
(* Tasks, futures and scopes.                                                *)

(* A PrismioTask before the bound on its count is known.                     *)
TaskRec == [mem : {"none", "live", "freed"}, refs : Nat,
            started : BOOLEAN, threaded : BOOLEAN, joined : BOOLEAN]

(* The count of k is exact.                                                  *)
Held(k) ==
  /\ task[k].refs = Holders(k)
  /\ task[k].mem = "live" <=> task[k].refs > 0

(* How the flags of k, its thread and its runs go together: the history of   *)
(* one task, from prismio_task_make to its join.                             *)
Life(k) ==
  /\ task[k].mem = "none" => ~task[k].started
  /\ ~task[k].started => runs[k] = 0 /\ ~task[k].joined /\ thread[k] = "none"
  /\ task[k].threaded <=> thread[k] # "none"
  /\ task[k].started /\ thread[k] = "none" => runs[k] = 1
  /\ thread[k] = "ready" => runs[k] = 0
  /\ thread[k] \in {"running", "exited", "reaped"} => runs[k] = 1
  /\ thread[k] \in {"exited", "reaped"} => stored[k]
  /\ task[k].joined => stored[k] /\ thread[k] \in {"none", "reaped"}
  /\ thread[k] = "reaped" => task[k].joined

(* A scope lists only started tasks, and a task whose thread has not been    *)
(* joined is alive and still on the list of the scope it was started in.     *)
Kept(k) ==
  /\ home[k] <= depth
  /\ home[k] > 0 => thread[k] # "none"
  /\ thread[k] # "none" /\ ~task[k].joined =>
       /\ task[k].mem = "live"
       /\ home[k] = born[k]

(* No two tasks share a place in a scope's list, every place is below the    *)
(* list's length, and prismio_scope_end has released what it has passed.     *)
Lists ==
  /\ \A k \in Tasks : home[k] > 0 => place[k] < count[home[k]]
  /\ \A j, k \in Tasks :
       home[j] = home[k] /\ home[k] > 0 /\ place[j] = place[k] => j = k
  /\ owner = "end" =>
       /\ depth > 0
       /\ \A k \in Tasks : home[k] = depth => place[k] >= next

(* What the owner waits for has not been joined yet.                         *)
Waiting ==
  /\ owner = "inline" =>
       /\ task[target].started /\ ~task[target].threaded /\ ~task[target].joined
       /\ task[target].mem = "live"
  /\ owner = "join" => task[target].threaded /\ ~task[target].joined

(* The inductive invariant.                                                  *)
TaskInv ==
  /\ TasksTypeOK
  /\ \A k \in Tasks : Held(k) /\ Life(k) /\ Kept(k)
  /\ Lists
  /\ Waiting

-----------------------------------------------------------------------------
(* What the operations on one PrismioTask return.                            *)
LEMMA MadeFacts ==
  /\ Made \in TaskRec /\ Made.mem = "live" /\ Made.refs = 1
  /\ ~Made.started /\ ~Made.threaded /\ ~Made.joined
BY DEF Made, NoTask, TaskRec

LEMMA BegunFacts ==
  ASSUME NEW t \in TaskRec
  PROVE  /\ Begun(t) \in TaskRec /\ Begun(t).mem = t.mem /\ Begun(t).refs = t.refs
         /\ Begun(t).started /\ Begun(t).threaded /\ (Begun(t).joined <=> t.joined)
BY DEF Begun, TaskRec

LEMMA ListedFacts ==
  ASSUME NEW t \in TaskRec
  PROVE  /\ Listed(t) \in TaskRec /\ Listed(t).mem = t.mem
         /\ Listed(t).refs = IF depth = 0 THEN t.refs ELSE t.refs + 1
         /\ Listed(t).started <=> t.started
         /\ Listed(t).threaded <=> t.threaded
         /\ Listed(t).joined <=> t.joined
BY DEF Listed, TaskRec

LEMMA ReleasedFacts ==
  ASSUME NEW t \in TaskRec, t.refs > 0
  PROVE  /\ Released(t) \in TaskRec /\ Released(t).refs = t.refs - 1
         /\ Released(t).mem = IF t.refs = 1 THEN "freed" ELSE t.mem
         /\ Released(t).started <=> t.started
         /\ Released(t).threaded <=> t.threaded
         /\ Released(t).joined <=> t.joined
<1>1. CASE t.refs = 1
  <2>1. Released(t) = [t EXCEPT !.refs = 0, !.mem = "freed"]
    BY <1>1 DEF Released, TaskRec
  <2>2. Released(t).refs = 0 /\ Released(t).mem = "freed"
    BY <2>1 DEF TaskRec
  <2>3. /\ Released(t).started = t.started /\ Released(t).threaded = t.threaded
        /\ Released(t).joined = t.joined
    BY <2>1 DEF TaskRec
  <2>4. Released(t) \in TaskRec
    <3>1. [t EXCEPT !.refs = 0] \in TaskRec
      BY DEF TaskRec
    <3>2. \A u \in TaskRec : [u EXCEPT !.mem = "freed"] \in TaskRec
      BY DEF TaskRec
    <3>3. Released(t) = [[t EXCEPT !.refs = 0] EXCEPT !.mem = "freed"]
      BY <2>1 DEF TaskRec
    <3> QED
      BY <3>1, <3>2, <3>3
  <2> QED
    BY <1>1, <2>2, <2>3, <2>4
<1>2. CASE t.refs # 1
  <2>1. Released(t) = [t EXCEPT !.refs = @ - 1]
    BY <1>2 DEF Released, TaskRec
  <2> QED
    BY <1>2, <2>1 DEF TaskRec
<1> QED
  BY <1>1, <1>2

LEMMA JoinedFacts ==
  ASSUME NEW t \in TaskRec, NEW u, u = [t EXCEPT !.joined = TRUE]
  PROVE  /\ u \in TaskRec /\ u.mem = t.mem /\ u.refs = t.refs /\ u.joined
         /\ (u.started <=> t.started) /\ (u.threaded <=> t.threaded)
BY DEF TaskRec

LEMMA StartedFacts ==
  ASSUME NEW t \in TaskRec, NEW u, u = [t EXCEPT !.started = TRUE]
  PROVE  /\ u \in TaskRec /\ u.mem = t.mem /\ u.refs = t.refs /\ u.started
         /\ (u.threaded <=> t.threaded) /\ (u.joined <=> t.joined)
BY DEF TaskRec

-----------------------------------------------------------------------------
(* TasksTypeOK bounds the count by 2; the step lemmas work without the bound and  *)
(* get it back from Held.                                                    *)
LEMMA TaskTyped ==
  ASSUME TasksTypeOK PROVE task \in [Tasks -> TaskRec]
<1>1. ASSUME NEW k \in Tasks PROVE task[k] \in TaskRec
  <2>1. task[k] \in [mem : {"none", "live", "freed"}, refs : 0 .. 2,
                     started : BOOLEAN, threaded : BOOLEAN, joined : BOOLEAN]
    BY DEF TasksTypeOK
  <2> QED
    BY <2>1 DEF TaskRec
<1>2. task = [k \in Tasks |-> task[k]]
  BY DEF TasksTypeOK
<1> QED
  BY <1>1, <1>2

LEMMA TaskTypedBack ==
  ASSUME NEW f \in [Tasks -> TaskRec], \A k \in Tasks : f[k].refs \in 0 .. 2
  PROVE  f \in [Tasks -> [mem : {"none", "live", "freed"}, refs : 0 .. 2,
                          started : BOOLEAN, threaded : BOOLEAN, joined : BOOLEAN]]
<1>1. ASSUME NEW k \in Tasks
      PROVE  f[k] \in [mem : {"none", "live", "freed"}, refs : 0 .. 2,
                       started : BOOLEAN, threaded : BOOLEAN, joined : BOOLEAN]
  <2>1. f[k] \in TaskRec
    OBVIOUS
  <2> QED
    BY <2>1 DEF TaskRec
<1> QED
  BY <1>1

(* Nothing about the tasks other than k changes.                             *)
OnlyOf(k) ==
  \A j \in Tasks \ {k} :
    /\ task'[j] = task[j] /\ thread'[j] = thread[j]
    /\ runs'[j] = runs[j] /\ stored'[j] = stored[j]
    /\ binding'[j] = binding[j] /\ home'[j] = home[j] /\ born'[j] = born[j]

LEMMA OneTask ==
  ASSUME TaskInv, NEW k \in Tasks, OnlyOf(k), depth' = depth,
         Held(k)', Life(k)', Kept(k)'
  PROVE  (\A j \in Tasks : Held(j) /\ Life(j) /\ Kept(j))'
<1>1. ASSUME NEW j \in Tasks \ {k} PROVE Held(j)' /\ Life(j)' /\ Kept(j)'
  BY <1>1 DEF TaskInv, OnlyOf, Held, Holders, Life, Kept
<1> QED
  BY <1>1

(* The lists are left alone, or the owner enters a call other than a         *)
(* scope's end.                                                              *)
LEMMA SameLists ==
  ASSUME TaskInv, UNCHANGED <<home, place, count, depth>>,
         owner' # "end" \/ UNCHANGED <<owner, next>>
  PROVE  Lists'
BY DEF TaskInv, Lists

(* prismio_scope_add puts a task that no scope lists behind all the others.  *)
LEMMA AddedLists ==
  ASSUME TaskInv, NEW k \in Tasks, Running, home[k] = 0, ScopeAdd(k),
         UNCHANGED <<depth, owner>>
  PROVE  /\ Lists'
         /\ home' = [home EXCEPT ![k] = depth] /\ born' = [born EXCEPT ![k] = depth]
         /\ place' \in [Tasks -> Nat] /\ count' \in [1 .. MaxDepth -> Nat]
<1>1. /\ home \in [Tasks -> 0 .. MaxDepth] /\ place \in [Tasks -> Nat]
      /\ born \in [Tasks -> 0 .. MaxDepth] /\ depth \in 0 .. MaxDepth
      /\ count \in [1 .. MaxDepth -> Nat]
  BY DEF TaskInv, TasksTypeOK
<1>2. /\ \A j \in Tasks : home[j] > 0 => place[j] < count[home[j]]
      /\ \A i, j \in Tasks :
           home[i] = home[j] /\ home[j] > 0 /\ place[i] = place[j] => i = j
  BY DEF TaskInv, Lists
<1>3. owner' # "end"
  BY DEF Running
<1>4. home' = [home EXCEPT ![k] = depth] /\ born' = [born EXCEPT ![k] = depth]
  BY DEF ScopeAdd
<1>5. CASE depth = 0
  <2>1. home' = home /\ place' = place /\ count' = count
    BY <1>1, <1>5 DEF ScopeAdd
  <2> QED
    BY <1>1, <1>2, <1>3, <1>4, <2>1 DEF Lists
<1>6. CASE depth # 0
  <2>1. /\ place' = [place EXCEPT ![k] = count[depth]]
        /\ count' = [count EXCEPT ![depth] = @ + 1]
    BY <1>6 DEF ScopeAdd
  <2>2. depth \in 1 .. MaxDepth /\ count[depth] \in Nat
    BY <1>1, <1>6, MaxDepthAssumption
  <2>3. home'[k] = depth /\ place'[k] = count[depth] /\ count'[depth] = count[depth] + 1
    BY <1>1, <1>4, <2>1, <2>2
  <2>4. \A j \in Tasks \ {k} : home'[j] = home[j] /\ place'[j] = place[j]
    BY <1>1, <1>4, <2>1
  <2>5. \A d \in 1 .. MaxDepth : count'[d] \in Nat /\ count'[d] >= count[d]
    <3> SUFFICES ASSUME NEW d \in 1 .. MaxDepth
                 PROVE  count'[d] \in Nat /\ count'[d] >= count[d]
      OBVIOUS
    <3>1. count[d] \in Nat /\ count'[d] = IF d = depth THEN count[d] + 1 ELSE count[d]
      BY <1>1, <2>1
    <3> QED
      BY <3>1
  <2>6. \A j \in Tasks \ {k} : home'[j] > 0 =>
          place'[j] < count[home[j]] /\ place'[j] < count'[home'[j]]
    <3> SUFFICES ASSUME NEW j \in Tasks \ {k}, home'[j] > 0
                 PROVE  place'[j] < count[home[j]] /\ place'[j] < count'[home'[j]]
      OBVIOUS
    <3>1. home'[j] = home[j] /\ place'[j] = place[j] /\ place[j] \in Nat
          /\ home[j] \in 1 .. MaxDepth
      BY <1>1, <2>4, MaxDepthAssumption
    <3>2. place[j] < count[home[j]] /\ count[home[j]] \in Nat
      BY <1>1, <1>2, <3>1
    <3>3. count'[home[j]] \in Nat /\ count'[home[j]] >= count[home[j]]
      BY <2>5, <3>1
    <3> QED
      BY <3>1, <3>2, <3>3
  <2>7. \A j \in Tasks : home'[j] > 0 => place'[j] < count'[home'[j]]
    BY <2>2, <2>3, <2>6
  <2>8. \A j \in Tasks \ {k} :
          ~(home'[j] = home'[k] /\ home'[k] > 0 /\ place'[j] = place'[k])
    <3> SUFFICES ASSUME NEW j \in Tasks \ {k}, home'[j] = home'[k],
                        place'[j] = place'[k]
                 PROVE  FALSE
      OBVIOUS
    <3>1. place'[j] < count[depth]
      BY <2>2, <2>3, <2>4, <2>6
    <3> QED
      BY <2>2, <2>3, <3>1
  <2>9. \A i, j \in Tasks :
          home'[i] = home'[j] /\ home'[j] > 0 /\ place'[i] = place'[j] => i = j
    <3> SUFFICES ASSUME NEW i \in Tasks, NEW j \in Tasks,
                        home'[i] = home'[j], home'[j] > 0, place'[i] = place'[j]
                 PROVE  i = j
      OBVIOUS
    <3>1. CASE i # k /\ j # k
      BY <1>2, <2>4, <3>1
    <3>2. CASE i = k \/ j = k
      BY <2>8, <3>2
    <3> QED
      BY <3>1, <3>2
  <2>10. place' \in [Tasks -> Nat]
    BY <1>1, <2>1, <2>2
  <2>11. count' \in [1 .. MaxDepth -> Nat]
    <3>1. count' = [d \in 1 .. MaxDepth |-> count'[d]]
      BY <1>1, <2>1
    <3> QED
      BY <2>5, <3>1
  <2> QED
    BY <1>3, <1>4, <2>7, <2>9, <2>10, <2>11 DEF Lists
<1> QED
  BY <1>5, <1>6

(* The type of everything but the tasks.                                     *)
RestOK ==
  /\ thread \in [Tasks -> {"none", "ready", "running", "exited", "reaped"}]
  /\ runs \in [Tasks -> Nat]
  /\ stored \in [Tasks -> BOOLEAN]
  /\ binding \in [Tasks -> Bindings]
  /\ home \in [Tasks -> 0 .. MaxDepth]
  /\ place \in [Tasks -> Nat]
  /\ born \in [Tasks -> 0 .. MaxDepth]
  /\ depth \in 0 .. MaxDepth
  /\ count \in [1 .. MaxDepth -> Nat]
  /\ owner \in {"run", "join", "inline", "end", "exited"}
  /\ target \in Tasks
  /\ next \in Nat

LEMMA Typed ==
  ASSUME TaskInv PROVE task \in [Tasks -> TaskRec] /\ RestOK
BY TaskTyped DEF TaskInv, TasksTypeOK, RestOK

(* A step on one task preserves the invariant if it does so for that task.   *)
LEMMA OneStep ==
  ASSUME TaskInv, NEW k \in Tasks, OnlyOf(k), depth' = depth,
         Held(k)', Life(k)', Kept(k)',
         task' \in [Tasks -> TaskRec], RestOK', Lists', Waiting'
  PROVE  TaskInv'
<1>1. (\A j \in Tasks : Held(j) /\ Life(j) /\ Kept(j))'
  BY OneTask
<1>2. \A j \in Tasks : task'[j].refs \in 0 .. 2
  BY <1>1 DEF Held, Holders
<1>3. TasksTypeOK'
  BY <1>2, TaskTypedBack DEF TasksTypeOK, RestOK
<1> QED
  BY <1>1, <1>3 DEF TaskInv

-----------------------------------------------------------------------------
(* One lemma per action.                                                     *)

(* A new task: one reference for the binding and one for the scope.          *)
LEMMA SpawnBoundStep ==
  ASSUME TaskInv, NEW k \in Tasks, NEW b \in {"droppable", "kept"}, SpawnBound(k, b)
  PROVE  TaskInv'
<1> DEFINE r == Listed(Begun(Made))
<1>1. task \in [Tasks -> TaskRec] /\ RestOK
  BY Typed
<1>2. Held(k) /\ Life(k) /\ Kept(k)
  BY DEF TaskInv
<1>3. /\ r \in TaskRec /\ r.mem = "live"
      /\ r.refs = IF depth = 0 THEN 1 ELSE 2
      /\ r.started /\ r.threaded /\ ~r.joined
  BY MadeFacts, BegunFacts, ListedFacts
<1>4. task' = [task EXCEPT ![k] = r]
  BY <1>1 DEF SpawnBound
<1> HIDE DEF r
<1>5. OnlyOf(k) /\ depth' = depth /\ task'[k] = r /\ task' \in [Tasks -> TaskRec]
  BY <1>1, <1>3, <1>4 DEF SpawnBound, OnlyOf, RestOK, ScopeAdd
<1>6. Held(k)'
  BY <1>1, <1>2, <1>3, <1>5 DEF SpawnBound, RestOK, ScopeAdd, Held, Holders
<1>7. Life(k)'
  BY <1>1, <1>2, <1>3, <1>5 DEF SpawnBound, RestOK, ScopeAdd, Life
<1>8. Kept(k)'
  BY <1>1, <1>2, <1>3, <1>5 DEF SpawnBound, RestOK, ScopeAdd, Kept
<1>9. Lists' /\ RestOK'
  <2>1. home[k] = 0
    BY <1>1, <1>2 DEF SpawnBound, Held, Holders, Life, Kept, RestOK
  <2>2. Lists' /\ place' \in [Tasks -> Nat] /\ count' \in [1 .. MaxDepth -> Nat]
        /\ home' = [home EXCEPT ![k] = depth] /\ born' = [born EXCEPT ![k] = depth]
    BY <2>1, AddedLists DEF SpawnBound
  <2> QED
    BY <1>1, <2>2 DEF SpawnBound, RestOK, Bindings
<1>10. Waiting'
  BY DEF SpawnBound, Waiting, Running
<1> QED
  BY <1>5, <1>6, <1>7, <1>8, <1>9, <1>10, OneStep

(* A new future: one reference, no thread, no scope.                         *)
LEMMA FutureBoundStep ==
  ASSUME TaskInv, NEW k \in Tasks, NEW b \in {"droppable", "kept"}, FutureBound(k, b)
  PROVE  TaskInv'
<1> DEFINE r == Made
<1>1. task \in [Tasks -> TaskRec] /\ RestOK
  BY Typed
<1>2. Held(k) /\ Life(k) /\ Kept(k)
  BY DEF TaskInv
<1>3. /\ r \in TaskRec /\ r.mem = "live"
      /\ r.refs = 1
      /\ ~r.started /\ ~r.threaded /\ ~r.joined
  BY MadeFacts
<1>4. task' = [task EXCEPT ![k] = r]
  BY <1>1 DEF FutureBound
<1> HIDE DEF r
<1>5. OnlyOf(k) /\ depth' = depth /\ task'[k] = r /\ task' \in [Tasks -> TaskRec]
  BY <1>1, <1>3, <1>4 DEF FutureBound, OnlyOf, RestOK
<1>6. Held(k)'
  BY <1>1, <1>2, <1>3, <1>5 DEF FutureBound, RestOK, Held, Holders
<1>7. Life(k)'
  BY <1>1, <1>2, <1>3, <1>5 DEF FutureBound, RestOK, Life
<1>8. Kept(k)'
  BY <1>1, <1>2, <1>3, <1>5 DEF FutureBound, RestOK, Kept, Life
<1>9. Lists' /\ RestOK'
  <2>1. Lists'
    BY SameLists DEF FutureBound, Running
  <2> QED
    BY <1>1, <2>1 DEF FutureBound, RestOK, Bindings
<1>10. Waiting'
  BY DEF FutureBound, Waiting, Running
<1> QED
  BY <1>5, <1>6, <1>7, <1>8, <1>9, <1>10, OneStep

(* A future that is made and freed at once.                                  *)
LEMMA FutureStatementStep ==
  ASSUME TaskInv, NEW k \in Tasks, FutureStatement(k)
  PROVE  TaskInv'
<1> DEFINE r == Released(Made)
<1>1. task \in [Tasks -> TaskRec] /\ RestOK
  BY Typed
<1>2. Held(k) /\ Life(k) /\ Kept(k)
  BY DEF TaskInv
<1>3. /\ r \in TaskRec /\ r.mem = "freed"
      /\ r.refs = 0
      /\ ~r.started /\ ~r.threaded /\ ~r.joined
  BY MadeFacts, ReleasedFacts
<1>4. task' = [task EXCEPT ![k] = r]
  BY <1>1 DEF FutureStatement
<1> HIDE DEF r
<1>5. OnlyOf(k) /\ depth' = depth /\ task'[k] = r /\ task' \in [Tasks -> TaskRec]
  BY <1>1, <1>3, <1>4 DEF FutureStatement, OnlyOf, RestOK
<1>6. Held(k)'
  BY <1>1, <1>2, <1>3, <1>5 DEF FutureStatement, RestOK, Held, Holders
<1>7. Life(k)'
  BY <1>1, <1>2, <1>3, <1>5 DEF FutureStatement, RestOK, Life
<1>8. Kept(k)'
  BY <1>1, <1>2, <1>3, <1>5 DEF FutureStatement, RestOK, Kept, Life
<1>9. Lists' /\ RestOK'
  <2>1. Lists'
    BY SameLists DEF FutureStatement, Running
  <2> QED
    BY <1>1, <2>1 DEF FutureStatement, RestOK
<1>10. Waiting'
  BY DEF FutureStatement, Waiting, Running
<1> QED
  BY <1>5, <1>6, <1>7, <1>8, <1>9, <1>10, OneStep

(* Only a task that has not started gets a thread and a scope.               *)
LEMMA StartFutureStep ==
  ASSUME TaskInv, NEW k \in Tasks, StartFuture(k)
  PROVE  TaskInv'
<1> DEFINE r == Listed(Begun(task[k]))
<1>1. task \in [Tasks -> TaskRec] /\ RestOK
  BY Typed
<1>2. Held(k) /\ Life(k) /\ Kept(k)
  BY DEF TaskInv
<1>3. /\ task[k] \in TaskRec /\ task[k].mem = "live" /\ task[k].refs = 1 /\ ~task[k].joined
      /\ runs[k] = 0 /\ home[k] = 0 /\ binding[k] # "none"
  BY <1>1, <1>2
    DEF StartFuture, Named, Held, Holders, Life, Kept, RestOK, TaskRec
<1>4. /\ r \in TaskRec /\ r.mem = "live"
      /\ r.refs = IF depth = 0 THEN 1 ELSE 2
      /\ r.started /\ r.threaded /\ ~r.joined
  BY <1>3, BegunFacts, ListedFacts
<1>5. task' = [task EXCEPT ![k] = r]
  BY <1>1 DEF StartFuture
<1> HIDE DEF r
<1>6. OnlyOf(k) /\ depth' = depth /\ task'[k] = r /\ task' \in [Tasks -> TaskRec]
  BY <1>1, <1>4, <1>5 DEF StartFuture, OnlyOf, RestOK, ScopeAdd
<1>7. Held(k)'
  BY <1>1, <1>2, <1>3, <1>4, <1>6
    DEF StartFuture, RestOK, ScopeAdd, Held, Holders
<1>8. Life(k)'
  BY <1>1, <1>2, <1>3, <1>4, <1>6 DEF StartFuture, RestOK, ScopeAdd, Life
<1>9. Kept(k)'
  BY <1>1, <1>2, <1>3, <1>4, <1>6 DEF StartFuture, RestOK, ScopeAdd, Kept
<1>10. Lists' /\ RestOK'
  <2>1. home[k] = 0
    BY <1>1, <1>2 DEF StartFuture, Held, Holders, Life, Kept, RestOK
  <2>2. Lists' /\ place' \in [Tasks -> Nat] /\ count' \in [1 .. MaxDepth -> Nat]
        /\ home' = [home EXCEPT ![k] = depth] /\ born' = [born EXCEPT ![k] = depth]
    BY <2>1, AddedLists DEF StartFuture
  <2> QED
    BY <1>1, <2>2 DEF StartFuture, RestOK
<1>11. Waiting'
  BY DEF StartFuture, Waiting, Running
<1> QED
  BY <1>6, <1>7, <1>8, <1>9, <1>10, <1>11, OneStep

(* The binding's reference goes after the join; the scope may hold its own.  *)
LEMMA DropHandleStep ==
  ASSUME TaskInv, NEW k \in Tasks, DropHandle(k)
  PROVE  TaskInv'
<1> DEFINE r == Released(task[k])
<1>1. task \in [Tasks -> TaskRec] /\ RestOK
  BY Typed
<1>2. Held(k) /\ Life(k) /\ Kept(k)
  BY DEF TaskInv
<1>3. /\ task[k] \in TaskRec /\ task[k].mem = "live" /\ task[k].started /\ task[k].joined
      /\ task[k].refs = IF home[k] = 0 THEN 1 ELSE 2
  BY <1>1, <1>2 DEF DropHandle, Held, Holders, Life, Kept, RestOK, TaskRec
<1>4. /\ r \in TaskRec /\ r.mem = (IF home[k] = 0 THEN "freed" ELSE "live")
      /\ r.refs = (IF home[k] = 0 THEN 0 ELSE 1)
      /\ r.started /\ (r.threaded <=> task[k].threaded) /\ r.joined
  BY <1>3, ReleasedFacts
<1>5. task' = [task EXCEPT ![k] = r]
  BY <1>1 DEF DropHandle
<1> HIDE DEF r
<1>6. OnlyOf(k) /\ depth' = depth /\ task'[k] = r /\ task' \in [Tasks -> TaskRec]
  BY <1>1, <1>4, <1>5 DEF DropHandle, OnlyOf, RestOK
<1>7. Held(k)'
  BY <1>1, <1>2, <1>3, <1>4, <1>6 DEF DropHandle, RestOK, Held, Holders
<1>8. Life(k)'
  BY <1>1, <1>2, <1>3, <1>4, <1>6 DEF DropHandle, RestOK, Life
<1>9. Kept(k)'
  BY <1>1, <1>2, <1>3, <1>4, <1>6 DEF DropHandle, RestOK, Kept
<1>10. Lists' /\ RestOK'
  <2>1. Lists'
    BY SameLists DEF DropHandle, Running
  <2> QED
    BY <1>1, <2>1 DEF DropHandle, RestOK, Bindings
<1>11. Waiting'
  BY DEF DropHandle, Waiting, Running
<1> QED
  BY <1>6, <1>7, <1>8, <1>9, <1>10, <1>11, OneStep

(* The body runs here once; the task has no thread to race with.             *)
LEMMA AwaitInlineStep ==
  ASSUME TaskInv, NEW k \in Tasks, AwaitInline(k)
  PROVE  TaskInv'
<1> DEFINE r == [task[k] EXCEPT !.started = TRUE]
<1>1. task \in [Tasks -> TaskRec] /\ RestOK
  BY Typed
<1>2. Held(k) /\ Life(k) /\ Kept(k)
  BY DEF TaskInv
<1>3. /\ task[k] \in TaskRec /\ task[k].mem = "live" /\ ~task[k].joined /\ ~task[k].threaded
      /\ thread[k] = "none" /\ runs[k] = 0
  BY <1>1, <1>2
    DEF AwaitInline, Named, Held, Holders, Life, Kept, RestOK, TaskRec
<1>4. /\ r \in TaskRec /\ r.mem = "live"
      /\ r.refs = task[k].refs
      /\ r.started /\ ~r.threaded /\ ~r.joined
  BY <1>3, StartedFacts
<1>5. task' = [task EXCEPT ![k] = r]
  BY <1>1 DEF AwaitInline
<1> HIDE DEF r
<1>6. OnlyOf(k) /\ depth' = depth /\ task'[k] = r /\ task' \in [Tasks -> TaskRec]
  BY <1>1, <1>4, <1>5 DEF AwaitInline, OnlyOf, RestOK
<1>7. Held(k)'
  BY <1>1, <1>2, <1>3, <1>4, <1>6 DEF AwaitInline, RestOK, Held, Holders
<1>8. Life(k)'
  BY <1>1, <1>2, <1>3, <1>4, <1>6 DEF AwaitInline, RestOK, Life
<1>9. Kept(k)'
  BY <1>1, <1>2, <1>3, <1>4, <1>6 DEF AwaitInline, RestOK, Kept
<1>10. Lists' /\ RestOK'
  <2>1. Lists'
    BY SameLists DEF AwaitInline, Running
  <2> QED
    BY <1>1, <2>1 DEF AwaitInline, RestOK
<1>11. Waiting'
  BY <1>1, <1>2, <1>3, <1>4, <1>6 DEF AwaitInline, TaskInv, Waiting, OnlyOf, RestOK
<1> QED
  BY <1>6, <1>7, <1>8, <1>9, <1>10, <1>11, OneStep

(* The thread's first access to its task, which nobody has released.         *)
LEMMA ThreadEntersStep ==
  ASSUME TaskInv, NEW k \in Tasks, ThreadEnters(k)
  PROVE  TaskInv'
<1>1. task \in [Tasks -> TaskRec] /\ RestOK
  BY Typed
<1>2. Held(k) /\ Life(k) /\ Kept(k)
  BY DEF TaskInv
<1>3. /\ task[k] \in TaskRec /\ runs[k] = 0 /\ task[k].mem = "live" /\ home[k] = born[k]
      /\ task[k].started /\ task[k].threaded /\ ~task[k].joined
  BY <1>1, <1>2 DEF ThreadEnters, Held, Holders, Life, Kept, RestOK, TaskRec
<1>4. OnlyOf(k) /\ depth' = depth /\ task' = task /\ task' \in [Tasks -> TaskRec]
  BY <1>1 DEF ThreadEnters, OnlyOf, RestOK
<1>5. Held(k)'
  BY <1>1, <1>2, <1>3, <1>4 DEF ThreadEnters, RestOK, Held, Holders
<1>6. Life(k)'
  BY <1>1, <1>2, <1>3, <1>4 DEF ThreadEnters, RestOK, Life
<1>7. Kept(k)'
  BY <1>1, <1>2, <1>3, <1>4 DEF ThreadEnters, RestOK, Kept
<1>8. Lists' /\ RestOK'
  <2>1. Lists'
    BY SameLists DEF ThreadEnters
  <2> QED
    BY <1>1, <2>1 DEF ThreadEnters, RestOK
<1>9. Waiting'
  BY <1>1, <1>2, <1>3, <1>4 DEF ThreadEnters, TaskInv, Waiting, OnlyOf, RestOK
<1> QED
  BY <1>4, <1>5, <1>6, <1>7, <1>8, <1>9, OneStep

(* The thread's last access to its task, which nobody has released.          *)
LEMMA ThreadExitsStep ==
  ASSUME TaskInv, NEW k \in Tasks, ThreadExits(k)
  PROVE  TaskInv'
<1>1. task \in [Tasks -> TaskRec] /\ RestOK
  BY Typed
<1>2. Held(k) /\ Life(k) /\ Kept(k)
  BY DEF TaskInv
<1>3. /\ task[k] \in TaskRec /\ runs[k] = 1 /\ task[k].mem = "live" /\ home[k] = born[k]
      /\ task[k].started /\ task[k].threaded /\ ~task[k].joined
  BY <1>1, <1>2 DEF ThreadExits, Held, Holders, Life, Kept, RestOK, TaskRec
<1>4. OnlyOf(k) /\ depth' = depth /\ task' = task /\ task' \in [Tasks -> TaskRec]
  BY <1>1 DEF ThreadExits, OnlyOf, RestOK
<1>5. Held(k)'
  BY <1>1, <1>2, <1>3, <1>4 DEF ThreadExits, RestOK, Held, Holders
<1>6. Life(k)'
  BY <1>1, <1>2, <1>3, <1>4 DEF ThreadExits, RestOK, Life
<1>7. Kept(k)'
  BY <1>1, <1>2, <1>3, <1>4 DEF ThreadExits, RestOK, Kept
<1>8. Lists' /\ RestOK'
  <2>1. Lists'
    BY SameLists DEF ThreadExits
  <2> QED
    BY <1>1, <2>1 DEF ThreadExits, RestOK
<1>9. Waiting'
  BY <1>1, <1>2, <1>3, <1>4 DEF ThreadExits, TaskInv, Waiting, OnlyOf, RestOK
<1> QED
  BY <1>4, <1>5, <1>6, <1>7, <1>8, <1>9, OneStep

(* A handle that is never released still counts.                             *)
LEMMA LoseHandleStep ==
  ASSUME TaskInv, NEW k \in Tasks, LoseHandle(k)
  PROVE  TaskInv'
<1>1. task \in [Tasks -> TaskRec] /\ RestOK
  BY Typed
<1>2. Held(k) /\ Life(k) /\ Kept(k)
  BY DEF TaskInv
<1>3. task[k] \in TaskRec /\ task[k].refs = 1 + (IF home[k] = 0 THEN 0 ELSE 1)
  BY <1>1, <1>2 DEF LoseHandle, Held, Holders, Life, Kept, RestOK, TaskRec
<1>4. OnlyOf(k) /\ depth' = depth /\ task' = task /\ task' \in [Tasks -> TaskRec]
  BY <1>1 DEF LoseHandle, OnlyOf, RestOK
<1>5. Held(k)'
  BY <1>1, <1>2, <1>3, <1>4 DEF LoseHandle, RestOK, Held, Holders
<1>6. Life(k)'
  BY <1>1, <1>2, <1>3, <1>4 DEF LoseHandle, RestOK, Life
<1>7. Kept(k)'
  BY <1>1, <1>2, <1>3, <1>4 DEF LoseHandle, RestOK, Kept
<1>8. Lists' /\ RestOK'
  <2>1. Lists'
    BY SameLists DEF LoseHandle, Running
  <2> QED
    BY <1>1, <2>1 DEF LoseHandle, RestOK, Bindings
<1>9. Waiting'
  BY DEF LoseHandle, Waiting, Running
<1> QED
  BY <1>4, <1>5, <1>6, <1>7, <1>8, <1>9, OneStep

(* The inline await ends: the owner kept the task alive meanwhile.           *)
LEMMA InlineReturnsStep ==
  ASSUME TaskInv, NEW k \in Tasks, k = target, InlineReturns
  PROVE  TaskInv'
<1> DEFINE r == [task[k] EXCEPT !.joined = TRUE]
<1>1. task \in [Tasks -> TaskRec] /\ RestOK
  BY Typed
<1>2. Held(k) /\ Life(k) /\ Kept(k)
  BY DEF TaskInv
<1>3. /\ task[k] \in TaskRec /\ task[k].started /\ ~task[k].threaded /\ ~task[k].joined
      /\ task[k].mem = "live" /\ thread[k] = "none" /\ runs[k] = 1
  BY <1>1, <1>2
    DEF InlineReturns, TaskInv, Waiting, Held, Holders, Life, Kept, RestOK, TaskRec
<1>4. /\ r \in TaskRec /\ r.mem = "live"
      /\ r.refs = task[k].refs
      /\ r.started /\ ~r.threaded /\ r.joined
  BY <1>3, JoinedFacts
<1>5. task' = [task EXCEPT ![k] = r]
  BY <1>1 DEF InlineReturns
<1> HIDE DEF r
<1>6. OnlyOf(k) /\ depth' = depth /\ task'[k] = r /\ task' \in [Tasks -> TaskRec]
  BY <1>1, <1>4, <1>5 DEF InlineReturns, OnlyOf, RestOK
<1>7. Held(k)'
  BY <1>1, <1>2, <1>3, <1>4, <1>6 DEF InlineReturns, RestOK, Held, Holders
<1>8. Life(k)'
  BY <1>1, <1>2, <1>3, <1>4, <1>6 DEF InlineReturns, RestOK, Life
<1>9. Kept(k)'
  BY <1>1, <1>2, <1>3, <1>4, <1>6 DEF InlineReturns, RestOK, Kept
<1>10. Lists' /\ RestOK'
  <2>1. Lists'
    BY SameLists DEF InlineReturns
  <2> QED
    BY <1>1, <2>1 DEF InlineReturns, RestOK
<1>11. Waiting'
  BY DEF InlineReturns, Waiting
<1> QED
  BY <1>6, <1>7, <1>8, <1>9, <1>10, <1>11, OneStep

(* pthread_join ends: the thread has stored its result.                      *)
LEMMA JoinReturnsStep ==
  ASSUME TaskInv, NEW k \in Tasks, k = target, JoinReturns
  PROVE  TaskInv'
<1> DEFINE r == [task[k] EXCEPT !.joined = TRUE]
<1>1. task \in [Tasks -> TaskRec] /\ RestOK
  BY Typed
<1>2. Held(k) /\ Life(k) /\ Kept(k)
  BY DEF TaskInv
<1>3. /\ task[k] \in TaskRec /\ task[k].started /\ task[k].threaded
      /\ task[k].mem = "live" /\ stored[k] /\ runs[k] = 1
  BY <1>1, <1>2 DEF JoinReturns, Held, Holders, Life, Kept, RestOK, TaskRec
<1>4. /\ r \in TaskRec /\ r.mem = "live"
      /\ r.refs = task[k].refs
      /\ r.started /\ r.threaded /\ r.joined
  BY <1>3, JoinedFacts
<1>5. task' = [task EXCEPT ![k] = r]
  BY <1>1 DEF JoinReturns
<1> HIDE DEF r
<1>6. OnlyOf(k) /\ depth' = depth /\ task'[k] = r /\ task' \in [Tasks -> TaskRec]
  BY <1>1, <1>4, <1>5 DEF JoinReturns, OnlyOf, RestOK
<1>7. Held(k)'
  BY <1>1, <1>2, <1>3, <1>4, <1>6 DEF JoinReturns, RestOK, Held, Holders
<1>8. Life(k)'
  BY <1>1, <1>2, <1>3, <1>4, <1>6 DEF JoinReturns, RestOK, Life
<1>9. Kept(k)'
  BY <1>1, <1>2, <1>3, <1>4, <1>6 DEF JoinReturns, RestOK, Kept
<1>10. Lists' /\ RestOK'
  <2>1. Lists'
    BY SameLists DEF JoinReturns
  <2> QED
    BY <1>1, <2>1 DEF JoinReturns, RestOK
<1>11. Waiting'
  BY DEF JoinReturns, Waiting
<1> QED
  BY <1>6, <1>7, <1>8, <1>9, <1>10, <1>11, OneStep

(* The scope's reference goes after its await; the binding may hold its own. *)
LEMMA EndOneStep ==
  ASSUME TaskInv, NEW k \in Tasks, EndOne(k)
  PROVE  TaskInv'
<1> DEFINE r == Released([task[k] EXCEPT !.joined = TRUE])
<1>1. task \in [Tasks -> TaskRec] /\ RestOK
  BY Typed
<1>2. Held(k) /\ Life(k) /\ Kept(k)
  BY DEF TaskInv
<1>3. /\ task[k] \in TaskRec /\ task[k].started /\ task[k].threaded /\ home[k] > 0
      /\ task[k].mem = "live" /\ stored[k] /\ runs[k] = 1
      /\ task[k].refs = IF binding[k] = "none" THEN 1 ELSE 2
  BY <1>1, <1>2, MaxDepthAssumption
    DEF EndOne, TaskInv, Lists, Held, Holders, Life, Kept, RestOK, TaskRec
<1>4. /\ r \in TaskRec /\ r.mem = (IF binding[k] = "none" THEN "freed" ELSE "live")
      /\ r.refs = (IF binding[k] = "none" THEN 0 ELSE 1)
      /\ r.started /\ r.threaded /\ r.joined
  BY <1>3, JoinedFacts, ReleasedFacts
<1>5. task' = [task EXCEPT ![k] = r]
  BY <1>1 DEF EndOne
<1> HIDE DEF r
<1>6. OnlyOf(k) /\ depth' = depth /\ task'[k] = r /\ task' \in [Tasks -> TaskRec]
  BY <1>1, <1>4, <1>5 DEF EndOne, OnlyOf, RestOK
<1>7. Held(k)'
  BY <1>1, <1>2, <1>3, <1>4, <1>6 DEF EndOne, RestOK, Held, Holders
<1>8. Life(k)'
  BY <1>1, <1>2, <1>3, <1>4, <1>6 DEF EndOne, RestOK, Life
<1>9. Kept(k)'
  BY <1>1, <1>2, <1>3, <1>4, <1>6 DEF EndOne, RestOK, Kept
<1>10. Lists' /\ RestOK'
  <2>1. RestOK'
    BY <1>1, MaxDepthAssumption DEF EndOne, RestOK
  <2>2. \A j \in Tasks \ {k} : home[j] = depth => place[j] >= next + 1
    BY <1>1 DEF EndOne, TaskInv, Lists, RestOK
  <2>3. home'[k] = 0 /\ \A j \in Tasks \ {k} : home'[j] = home[j]
    BY <1>1 DEF EndOne, RestOK
  <2>4. \A j \in Tasks : home'[j] > 0 => place'[j] < count'[home'[j]]
    BY <1>1, <2>3 DEF EndOne, TaskInv, Lists
  <2>5. \A i, j \in Tasks :
          home'[i] = home'[j] /\ home'[j] > 0 /\ place'[i] = place'[j] => i = j
    BY <1>1, <2>3 DEF EndOne, TaskInv, Lists
  <2>6. depth' > 0 /\ \A j \in Tasks : home'[j] = depth' => place'[j] >= next'
    BY <1>1, <2>2, <2>3 DEF EndOne, TaskInv, Lists, RestOK
  <2> QED
    BY <2>1, <2>4, <2>5, <2>6 DEF Lists
<1>11. Waiting'
  BY DEF EndOne, Waiting
<1> QED
  BY <1>6, <1>7, <1>8, <1>9, <1>10, <1>11, OneStep
(* The statement's own reference goes at once; the scope keeps the task.     *)
LEMMA SpawnStatementStep ==
  ASSUME TaskInv, NEW k \in Tasks, SpawnStatement(k)
  PROVE  TaskInv'
<1> DEFINE r == IF depth = 0 THEN Begun(Made) ELSE Released(Listed(Begun(Made)))
<1>1. task \in [Tasks -> TaskRec] /\ RestOK
  BY Typed
<1>2. Held(k) /\ Life(k) /\ Kept(k)
  BY DEF TaskInv
<1>3. /\ r \in TaskRec /\ r.mem = "live" /\ r.refs = 1
      /\ r.started /\ r.threaded /\ ~r.joined
  <2>1. CASE depth = 0
    BY <2>1, MadeFacts, BegunFacts
  <2>2. CASE depth # 0
    BY <2>2, MadeFacts, BegunFacts, ListedFacts, ReleasedFacts
  <2> QED
    BY <2>1, <2>2
<1>4. task' = [task EXCEPT ![k] = r]
  BY DEF SpawnStatement
<1> HIDE DEF r
<1>5. OnlyOf(k) /\ depth' = depth /\ task'[k] = r /\ task' \in [Tasks -> TaskRec]
  BY <1>1, <1>3, <1>4 DEF SpawnStatement, OnlyOf, RestOK, ScopeAdd
<1>6. Held(k)'
  BY <1>1, <1>2, <1>3, <1>5 DEF SpawnStatement, RestOK, ScopeAdd, Held, Holders
<1>7. Life(k)'
  BY <1>1, <1>2, <1>3, <1>5 DEF SpawnStatement, RestOK, Life
<1>8. Kept(k)'
  BY <1>1, <1>2, <1>3, <1>5 DEF SpawnStatement, RestOK, ScopeAdd, Kept
<1>9. Lists' /\ RestOK'
  <2>1. home[k] = 0
    BY <1>1, <1>2 DEF SpawnStatement, Held, Holders
  <2>2. Lists' /\ place' \in [Tasks -> Nat] /\ count' \in [1 .. MaxDepth -> Nat]
        /\ home' = [home EXCEPT ![k] = depth] /\ born' = [born EXCEPT ![k] = depth]
    BY <2>1, AddedLists DEF SpawnStatement
  <2> QED
    BY <1>1, <2>2 DEF SpawnStatement, RestOK, Bindings
<1>10. Waiting'
  BY DEF SpawnStatement, Running, Waiting
<1> QED
  BY <1>5, <1>6, <1>7, <1>8, <1>9, <1>10, OneStep

(* Steps of the owner that change no task.                                   *)
LEMMA OwnerStep ==
  ASSUME TaskInv, UNCHANGED <<task, thread, runs, stored, binding, home, born>>,
         \A k \in Tasks : home[k] <= depth', RestOK', Lists', Waiting'
  PROVE  TaskInv'
<1>1. (\A k \in Tasks : Held(k) /\ Life(k) /\ Kept(k))'
  BY DEF TaskInv, Held, Holders, Life, Kept
<1>2. TasksTypeOK'
  BY DEF TaskInv, TasksTypeOK, RestOK
<1> QED
  BY <1>1, <1>2 DEF TaskInv

(* No thread could be created: the program exits.                            *)
LEMMA StartFailsStep ==
  ASSUME TaskInv, NEW k \in Tasks, StartFails(k)
  PROVE  TaskInv'
<1>1. RestOK
  BY Typed
<1>2. RestOK' /\ \A j \in Tasks : home[j] <= depth'
  BY <1>1 DEF StartFails, RestOK, TaskInv, Kept
<1>3. Lists'
  BY SameLists DEF StartFails
<1>4. Waiting'
  BY DEF StartFails, Waiting
<1> QED
  BY <1>2, <1>3, <1>4, OwnerStep DEF StartFails

(* The owner goes to wait for a task that has a thread and is not joined.    *)
LEMMA AwaitThreadStep ==
  ASSUME TaskInv, NEW k \in Tasks, AwaitThread(k)
  PROVE  TaskInv'
<1>1. RestOK
  BY Typed
<1>2. RestOK' /\ \A j \in Tasks : home[j] <= depth'
  BY <1>1 DEF AwaitThread, RestOK, TaskInv, Kept
<1>3. Lists'
  BY SameLists DEF AwaitThread
<1>4. Waiting'
  BY DEF AwaitThread, Waiting
<1> QED
  BY <1>2, <1>3, <1>4, OwnerStep DEF AwaitThread

(* A new scope's list is empty, and no task claims a place on it.            *)
LEMMA EnterScopeStep ==
  ASSUME TaskInv, EnterScope
  PROVE  TaskInv'
<1>1. RestOK /\ \A k \in Tasks : home[k] <= depth
  BY Typed DEF TaskInv, Kept
<1>2. RestOK' /\ \A k \in Tasks : home[k] <= depth'
  BY <1>1, MaxDepthAssumption DEF EnterScope, RestOK
<1>3. \A d \in 1 .. depth : count'[d] = count[d]
  BY <1>1, MaxDepthAssumption DEF EnterScope, RestOK
<1>4. Lists'
  BY <1>1, <1>3 DEF EnterScope, Running, TaskInv, Lists, RestOK
<1>5. Waiting'
  BY DEF EnterScope, Running, Waiting
<1> QED
  BY <1>2, <1>4, <1>5, OwnerStep DEF EnterScope

(* prismio_scope_end starts at the first place of the list.                  *)
LEMMA LeaveScopeStep ==
  ASSUME TaskInv, LeaveScope
  PROVE  TaskInv'
<1>1. RestOK /\ \A k \in Tasks : home[k] <= depth
  BY Typed DEF TaskInv, Kept
<1>2. RestOK' /\ \A k \in Tasks : home[k] <= depth'
  BY <1>1 DEF LeaveScope, RestOK
<1>3. Lists'
  BY <1>1 DEF LeaveScope, TaskInv, Lists, RestOK
<1>4. Waiting'
  BY DEF LeaveScope, Waiting
<1> QED
  BY <1>2, <1>3, <1>4, OwnerStep DEF LeaveScope

(* When prismio_scope_end has passed the whole list nobody is on it.         *)
LEMMA EndDoneStep ==
  ASSUME TaskInv, EndDone
  PROVE  TaskInv'
<1>1. RestOK /\ depth > 0 /\ \A k \in Tasks : home[k] <= depth
  BY Typed DEF EndDone, TaskInv, Kept, Lists
<1>2. ASSUME NEW k \in Tasks PROVE home[k] # depth
  <2>1. SUFFICES ASSUME home[k] = depth PROVE FALSE
    OBVIOUS
  <2>2. place[k] >= next /\ place[k] < count[depth] /\ next = count[depth]
    BY <1>1, <2>1 DEF EndDone, TaskInv, Lists
  <2>3. place[k] \in Nat /\ next \in Nat
    BY <1>1 DEF RestOK
  <2> QED
    BY <2>2, <2>3
<1>3. \A k \in Tasks : home[k] <= depth'
  BY <1>1, <1>2, MaxDepthAssumption DEF EndDone, RestOK
<1>4. depth' \in 0 .. MaxDepth
  BY <1>1, MaxDepthAssumption DEF EndDone, RestOK
<1>5. RestOK'
  BY <1>1, <1>4 DEF EndDone, RestOK
<1>6. Lists'
  BY DEF EndDone, TaskInv, Lists
<1>7. Waiting'
  BY DEF EndDone, Waiting
<1> QED
  BY <1>3, <1>5, <1>6, <1>7, OwnerStep DEF EndDone

-----------------------------------------------------------------------------
(* The invariant is inductive.                                               *)
LEMMA InitInv == TasksInit => TaskInv
<1> SUFFICES ASSUME TasksInit PROVE TaskInv
  OBVIOUS
<1>1. TasksTypeOK
  BY MaxDepthAssumption DEF TasksInit, NoTask, TasksTypeOK, Bindings
<1>2. \A k \in Tasks : Held(k) /\ Life(k) /\ Kept(k)
  <2> SUFFICES ASSUME NEW k \in Tasks PROVE Held(k) /\ Life(k) /\ Kept(k)
    OBVIOUS
  <2>1. /\ task[k].mem = "none" /\ task[k].refs = 0 /\ ~task[k].started
        /\ ~task[k].threaded /\ ~task[k].joined
    BY DEF TasksInit, NoTask
  <2>2. thread[k] = "none" /\ runs[k] = 0 /\ binding[k] = "none" /\ home[k] = 0 /\ depth = 0
    BY DEF TasksInit
  <2> QED
    BY <2>1, <2>2 DEF Held, Holders, Life, Kept
<1>3. Lists /\ Waiting
  BY DEF TasksInit, Lists, Waiting
<1> QED
  BY <1>1, <1>2, <1>3 DEF TaskInv

LEMMA StutterInv == TaskInv /\ UNCHANGED taskVars => TaskInv'
BY DEF taskVars, TaskInv, TasksTypeOK, Held, Holders, Life, Kept, Lists, Waiting

LEMMA NextInv == TaskInv /\ [TasksNext]_taskVars => TaskInv'
<1> SUFFICES ASSUME TaskInv, [TasksNext]_taskVars PROVE TaskInv'
  OBVIOUS
<1>1. ASSUME NEW k \in Tasks, NEW b \in {"droppable", "kept"},
             SpawnBound(k, b) \/ FutureBound(k, b)
      PROVE  TaskInv'
  BY <1>1, SpawnBoundStep, FutureBoundStep
<1>2. ASSUME NEW k \in Tasks, SpawnStatement(k) \/ FutureStatement(k) PROVE TaskInv'
  BY <1>2, SpawnStatementStep, FutureStatementStep
<1>3. ASSUME NEW k \in Tasks, StartFuture(k) \/ StartFails(k) PROVE TaskInv'
  BY <1>3, StartFutureStep, StartFailsStep
<1>4. ASSUME NEW k \in Tasks, AwaitInline(k) \/ AwaitThread(k) PROVE TaskInv'
  BY <1>4, AwaitInlineStep, AwaitThreadStep
<1>5. ASSUME NEW k \in Tasks, DropHandle(k) \/ LoseHandle(k) PROVE TaskInv'
  BY <1>5, DropHandleStep, LoseHandleStep
<1>6. ASSUME NEW k \in Tasks, Worker(k) PROVE TaskInv'
  BY <1>6, ThreadEntersStep, ThreadExitsStep DEF Worker
<1>7. CASE EnterScope \/ LeaveScope
  BY <1>7, EnterScopeStep, LeaveScopeStep
<1>8. CASE Waits
  <2>1. target \in Tasks
    BY DEF TaskInv, TasksTypeOK
  <2>2. CASE InlineReturns
    BY <2>1, <2>2, InlineReturnsStep
  <2>3. CASE JoinReturns
    BY <2>1, <2>3, JoinReturnsStep
  <2>4. ASSUME NEW k \in Tasks, EndOne(k) PROVE TaskInv'
    BY <2>4, EndOneStep
  <2>5. CASE EndDone
    BY <2>5, EndDoneStep
  <2> QED
    BY <1>8, <2>2, <2>3, <2>4, <2>5 DEF Waits
<1>9. CASE UNCHANGED taskVars
  BY <1>9, StutterInv
<1> QED
  BY <1>1, <1>2, <1>3, <1>4, <1>5, <1>6, <1>7, <1>8, <1>9 DEF TasksNext

LEMMA InvHolds == TasksSafeSpec => []TaskInv
BY InitInv, NextInv, PTL DEF TasksSafeSpec

-----------------------------------------------------------------------------
(* Every variable keeps its type; in particular no PrismioTask ever has more *)
(* than two references.                                                      *)
THEOREM TasksTypeCorrect == TasksSafeSpec => []TasksTypeOK
<1>1. TaskInv => TasksTypeOK
  BY DEF TaskInv
<1> QED
  BY <1>1, InvHolds, PTL

(* The count of a task is the number of its holders and the task is freed    *)
(* with the last of them (prismio_task_release), whatever the order of       *)
(* spawns, awaits, drops and scope ends.                                     *)
THEOREM CountsAreExact == TasksSafeSpec => []RefsAreHolders
<1>1. TaskInv => RefsAreHolders
  BY DEF TaskInv, Held, RefsAreHolders
<1> QED
  BY <1>1, InvHolds, PTL

(* prismio_task_entry never reads or writes a freed PrismioTask.             *)
THEOREM NoUseAfterRelease == TasksSafeSpec => []ThreadOwnsItsTask
<1>1. TaskInv => ThreadOwnsItsTask
  BY DEF TaskInv, Life, Kept, ThreadOwnsItsTask
<1> QED
  BY <1>1, InvHolds, PTL

(* No thread started in a scope is running when prismio_scope_end returns.   *)
THEOREM ScopesWait == TasksSafeSpec => []ScopeOutlivesItsTasks
<1>1. TaskInv => ScopeOutlivesItsTasks
  BY DEF TaskInv, TasksTypeOK, Life, Kept, ScopeOutlivesItsTasks
<1> QED
  BY <1>1, InvHolds, PTL

(* A body runs at most once, inline or on its thread, and a task that        *)
(* prismio_task_await takes for joined has its result.                       *)
THEOREM BodiesRunOnce == TasksSafeSpec => []RunsOnce
<1>1. TaskInv => RunsOnce
  <2> SUFFICES ASSUME TaskInv, NEW k \in Tasks
               PROVE  /\ runs[k] <= 1
                      /\ task[k].joined =>
                           /\ stored[k] /\ runs[k] = 1
                           /\ thread[k] \in {"none", "reaped"}
    BY DEF RunsOnce
  <2>1. Life(k) /\ thread[k] \in {"none", "ready", "running", "exited", "reaped"}
    BY DEF TaskInv, TasksTypeOK
  <2> QED
    BY <2>1 DEF Life
<1> QED
  BY <1>1, InvHolds, PTL
-----------------------------------------------------------------------------
(* A step that leaves the lists, the open scopes and the loop alone.         *)
LEMMA SameDense ==
  ASSUME ScopeListIsDense, UNCHANGED <<home, place, depth, count, next>>,
         owner # "end", owner' # "end"
  PROVE  ScopeListIsDense'
BY DEF ScopeListIsDense

(* prismio_scope_add fills the index it adds.                                *)
LEMMA AddedDense ==
  ASSUME TaskInv, ScopeListIsDense, NEW k \in Tasks, ScopeAdd(k), Running,
         home[k] = 0, UNCHANGED <<depth, owner, next>>
  PROVE  ScopeListIsDense'
<1>1. /\ depth \in Nat /\ depth <= MaxDepth /\ MaxDepth \in Nat
      /\ count \in [1 .. MaxDepth -> Nat]
      /\ home \in [Tasks -> Nat] /\ place \in [Tasks -> Nat]
  BY MaxDepthAssumption DEF TaskInv, TasksTypeOK
<1>2. CASE depth = 0
  BY <1>1, <1>2 DEF ScopeListIsDense
<1>3. CASE depth > 0
  <2> SUFFICES ASSUME NEW d \in 1 .. depth, NEW i \in 0 .. count'[d] - 1
               PROVE  \E j \in Tasks : home'[j] = d /\ place'[j] = i
    BY <1>1 DEF ScopeListIsDense, Running
  <2>1. CASE d = depth /\ i = count[d]
    <3>1. home'[k] = d /\ place'[k] = i
      BY <1>1, <1>3, <2>1 DEF ScopeAdd
    <3> QED
      BY <3>1
  <2>2. CASE ~(d = depth /\ i = count[d])
    <3>1. i \in 0 .. count[d] - 1
      BY <1>1, <1>3, <2>2 DEF ScopeAdd
    <3>2. PICK j \in Tasks : home[j] = d /\ place[j] = i
      BY <1>1, <3>1 DEF ScopeListIsDense, Running
    <3>3. j # k
      BY <1>1, <3>2
    <3>4. home'[j] = d /\ place'[j] = i
      BY <1>1, <1>3, <3>2, <3>3 DEF ScopeAdd
    <3> QED
      BY <3>4
  <2> QED
    BY <2>1, <2>2
<1> QED
  BY <1>1, <1>2, <1>3

(* A task that has not been started is on no list.                           *)
LEMMA UnlistedUntilStarted ==
  ASSUME TaskInv, NEW k \in Tasks, task[k].mem = "none" \/ ~task[k].started
  PROVE  home[k] = 0
<1>1. Held(k) /\ Life(k) /\ Kept(k)
  BY DEF TaskInv
<1>2. home[k] \in Nat
  BY MaxDepthAssumption DEF TaskInv, TasksTypeOK
<1> QED
  BY <1>1, <1>2 DEF Life, Kept

(* One round of prismio_scope_end takes the entry at the index it leaves.    *)
LEMMA EndOneDense ==
  ASSUME TaskInv, ScopeListIsDense, NEW k \in Tasks, EndOne(k)
  PROVE  ScopeListIsDense'
<1>1. /\ depth \in Nat /\ depth <= MaxDepth /\ MaxDepth \in Nat
      /\ count \in [1 .. MaxDepth -> Nat] /\ next \in Nat
      /\ home \in [Tasks -> Nat] /\ place \in [Tasks -> Nat]
  BY MaxDepthAssumption DEF TaskInv, TasksTypeOK
<1> SUFFICES ASSUME NEW d \in 1 .. depth,
                    NEW i \in (IF d = depth THEN next + 1 ELSE 0) .. count[d] - 1
             PROVE  \E j \in Tasks : home'[j] = d /\ place'[j] = i
  BY DEF ScopeListIsDense, EndOne
<1>2. PICK j \in Tasks : home[j] = d /\ place[j] = i
  BY <1>1 DEF ScopeListIsDense, EndOne
<1>3. j # k
  BY <1>1, <1>2 DEF EndOne
<1>4. home'[j] = d /\ place'[j] = i
  BY <1>1, <1>2, <1>3 DEF EndOne
<1> QED
  BY <1>4

LEMMA NextDense == TaskInv /\ ScopeListIsDense /\ [TasksNext]_taskVars => ScopeListIsDense'
<1> SUFFICES ASSUME TaskInv, ScopeListIsDense, [TasksNext]_taskVars PROVE ScopeListIsDense'
  OBVIOUS
<1>1. /\ depth \in Nat /\ depth <= MaxDepth /\ MaxDepth \in Nat
      /\ count \in [1 .. MaxDepth -> Nat] /\ next \in Nat
  BY MaxDepthAssumption DEF TaskInv, TasksTypeOK
<1>2. ASSUME NEW k \in Tasks,
             \/ \E b \in {"droppable", "kept"} : SpawnBound(k, b)
             \/ SpawnStatement(k)
             \/ StartFuture(k)
      PROVE  ScopeListIsDense'
  <2>1. home[k] = 0
    BY <1>2, UnlistedUntilStarted DEF SpawnBound, SpawnStatement, StartFuture
  <2>2. ScopeAdd(k) /\ Running /\ UNCHANGED <<depth, owner, next>>
    BY <1>2 DEF SpawnBound, SpawnStatement, StartFuture
  <2> QED
    BY <2>1, <2>2, AddedDense
<1>3. ASSUME NEW k \in Tasks,
             \/ \E b \in {"droppable", "kept"} : FutureBound(k, b)
             \/ FutureStatement(k) \/ StartFails(k) \/ AwaitInline(k)
             \/ AwaitThread(k) \/ DropHandle(k) \/ LoseHandle(k)
      PROVE  ScopeListIsDense'
  BY <1>3, SameDense DEF FutureBound, FutureStatement, StartFails, AwaitInline,
     AwaitThread, DropHandle, LoseHandle, Running
<1>4. ASSUME NEW k \in Tasks, Worker(k) PROVE ScopeListIsDense'
  BY <1>4 DEF Worker, ThreadEnters, ThreadExits, ScopeListIsDense
<1>5. CASE EnterScope
  <2> SUFFICES ASSUME NEW d \in 1 .. depth + 1, NEW i \in 0 .. count'[d] - 1
               PROVE  \E j \in Tasks : home[j] = d /\ place[j] = i
    BY <1>5 DEF EnterScope, Running, ScopeListIsDense
  <2>1. d \in 1 .. depth /\ i \in 0 .. count[d] - 1
    BY <1>1, <1>5 DEF EnterScope
  <2> QED
    BY <1>5, <2>1 DEF EnterScope, Running, ScopeListIsDense
<1>6. CASE LeaveScope
  BY <1>1, <1>6 DEF LeaveScope, Running, ScopeListIsDense
<1>7. CASE InlineReturns \/ JoinReturns
  BY <1>7, SameDense DEF InlineReturns, JoinReturns
<1>8. ASSUME NEW k \in Tasks, EndOne(k) PROVE ScopeListIsDense'
  BY <1>8, EndOneDense
<1>9. CASE EndDone
  BY <1>1, <1>9 DEF EndDone, ScopeListIsDense
<1>10. CASE UNCHANGED taskVars
  BY <1>10 DEF taskVars, ScopeListIsDense
<1> QED
  BY <1>2, <1>3, <1>4, <1>5, <1>6, <1>7, <1>8, <1>9, <1>10 DEF TasksNext, Waits

(* prismio_scope_end's loop finds a task at every index up to the length, in *)
(* whatever order tasks were started, joined and dropped.                    *)
THEOREM ScopeLoopMeetsNoHole == TasksSafeSpec => []ScopeListIsDense
<1>1. TasksInit => ScopeListIsDense
  BY DEF TasksInit, ScopeListIsDense
<1> QED
  BY <1>1, InvHolds, NextDense, PTL DEF TasksSafeSpec

-----------------------------------------------------------------------------
(* LanguageServer.                                                           *)

ServerTypeOK ==
  /\ layout \in Layouts
  /\ open \subseteq layout.opens
  /\ text \in [Sources -> Texts] /\ disk \in [Sources -> Texts]
  /\ attempts \in [Sources -> Nat]
  /\ DOMAIN index = Programs /\ index = [p \in Programs |-> index[p]]

(* A document whose most likely program reads it never moves on.             *)
FirstTried ==
  \A p \in Programs :
    (\A f \in layout.opens : layout.tries[f][1] = p /\ f \in layout.reads[p])
      => \A f \in layout.opens : attempts[f] = 0

(* Only documents of the workspace are dirty, while the server serves.       *)
DirtyInWorkspace == Serving => dirty \subseteq layout.opens

(* The check in flight is of the program of one of the documents, and read   *)
(* the texts as they are: every edit kills it.                               *)
RunIsCurrent ==
  Active => \E g \in layout.opens :
              run = [program |-> ProgramFor(g), texts |-> Snapshot(ProgramFor(g))]

ServerInv == ServerTypeOK /\ FirstTried /\ DirtyInWorkspace /\ RunIsCurrent /\ SettledIsCurrent

-----------------------------------------------------------------------------
LEMMA LayoutType ==
  ASSUME ServerTypeOK
  PROVE  /\ layout.opens \subseteq Sources
         /\ \A f \in Sources : layout.tries[f] \in Seq(Programs) /\ Len(layout.tries[f]) >= 1
<1>1. layout \in Workspace
  BY LayoutsAssumption DEF ServerTypeOK
<1>2. \A f \in Sources : layout.tries[f] \in Seq(Programs) \ {<<>>}
  BY <1>1 DEF Workspace
<1>3. ASSUME NEW s \in Seq(Programs) \ {<<>>} PROVE Len(s) >= 1
  BY <1>3
<1> QED BY <1>1, <1>2, <1>3 DEF Workspace

(* programFor answers with one of the programs to try.                       *)
LEMMA ProgramTried ==
  ASSUME ServerTypeOK, NEW f \in Sources
  PROVE  /\ ProgramFor(f) \in Programs
         /\ \E i \in DOMAIN layout.tries[f] : ProgramFor(f) = layout.tries[f][i]
<1>1. layout.tries[f] \in Seq(Programs) /\ Len(layout.tries[f]) >= 1
  BY LayoutType
<1>2. attempts[f] \in Nat
  BY DEF ServerTypeOK
<1> DEFINE i == IF attempts[f] < Len(layout.tries[f]) THEN attempts[f] + 1 ELSE Len(layout.tries[f])
<1>3. i \in 1 .. Len(layout.tries[f])
  BY <1>1, <1>2
<1>4. ProgramFor(f) = layout.tries[f][i]
  BY DEF ProgramFor, ProgramOf
<1> HIDE DEF i
<1> QED BY <1>1, <1>3, <1>4

(* So two documents that are open have the same.                             *)
LEMMA SameProgram ==
  ASSUME ServerTypeOK, FirstTried, OneProgramAtATime, NEW f \in layout.opens, NEW g \in layout.opens
  PROVE  ProgramFor(f) = ProgramFor(g)
<1>1. f \in Sources /\ g \in Sources /\ layout \in Layouts
  BY LayoutType DEF ServerTypeOK
<1>2. CASE f = g
  BY <1>2
<1>3. CASE f # g
  <2>1. PICK p \in Programs : \A h \in layout.opens : layout.tries[h][1] = p /\ h \in layout.reads[p]
    BY <1>1, <1>3 DEF OneProgramAtATime
  <2>2. ASSUME NEW h \in layout.opens PROVE ProgramFor(h) = p
    <3>1. attempts[h] = 0 /\ layout.tries[h][1] = p
      BY <2>1 DEF FirstTried
    <3>2. Len(layout.tries[h]) >= 1
      BY LayoutType
    <3>3. Len(layout.tries[h]) \in Nat
      BY LayoutType
    <3> QED BY <3>1, <3>2, <3>3 DEF ProgramFor, ProgramOf
  <2> QED BY <2>2
<1> QED BY <1>2, <1>3

(* What a step that touches neither the layout nor the attempts keeps.       *)
LEMMA SamePrograms ==
  ASSUME UNCHANGED <<layout, attempts>>, NEW f
  PROVE  ProgramFor(f)' = ProgramFor(f)
BY DEF ProgramFor, ProgramOf

LEMMA SameSnapshot ==
  ASSUME UNCHANGED <<layout, text>>, NEW p
  PROVE  [f \in layout'.reads[p] |-> text'[f]] = Snapshot(p)
BY DEF Snapshot

-----------------------------------------------------------------------------
(* An edit, and a request that waits: something is dirty afterwards and no   *)
(* check is in flight.                                                       *)
LEMMA DirtyStep ==
  ASSUME ServerInv, run' = Idle, dirty' # {}, ServerTypeOK', FirstTried', DirtyInWorkspace'
  PROVE  ServerInv'
BY DEF ServerInv, RunIsCurrent, SettledIsCurrent, Stale, Active

LEMMA ServerTypeStep ==
  ASSUME ServerInv, OneProgramAtATime, ServerNext
  PROVE  ServerTypeOK'
<1> USE DEF ServerInv, ServerTypeOK, documentVars, resultVars
<1>0. layout.opens \subseteq Sources
  BY LayoutType
<1>1. ASSUME NEW f \in Sources, NEW t \in Texts, DidChange(f, t) PROVE ServerTypeOK'
  BY <1>1 DEF DidChange
<1>2. ASSUME NEW f \in Sources, DidClose(f) PROVE ServerTypeOK'
  BY <1>2 DEF DidClose
<1>3. ASSUME NEW f \in Sources, DidSave(f) PROVE ServerTypeOK'
  BY <1>3 DEF DidSave
<1>4. ASSUME NEW f \in Sources, NEW r \in Requests, Feature(r, f) PROVE ServerTypeOK'
  BY <1>4 DEF Feature
<1>5. ASSUME NEW r \in Requests, CancelRequest(r) PROVE ServerTypeOK'
  BY <1>5 DEF CancelRequest
<1>6. ASSUME Exit PROVE ServerTypeOK'
  BY <1>6 DEF Exit
<1>7. ASSUME Tick PROVE ServerTypeOK'
  BY <1>7 DEF Tick
<1>8. ASSUME CheckDies PROVE ServerTypeOK'
  BY <1>8 DEF CheckDies
<1>9. ASSUME CheckEnds PROVE ServerTypeOK'
  <2>1. /\ UNCHANGED <<layout, open, text, disk>>
        /\ index' = index \/ index' = [index EXCEPT ![run.program] = run.texts]
    BY <1>9 DEF CheckEnds
  <2>2. attempts' \in [Sources -> Nat]
    BY <1>9 DEF CheckEnds, NextPrograms
  <2>3. DOMAIN index' = Programs /\ index' = [p \in Programs |-> index'[p]]
    BY <2>1
  <2> QED BY <2>1, <2>2, <2>3
<1> QED BY <1>1, <1>2, <1>3, <1>4, <1>5, <1>6, <1>7, <1>8, <1>9 DEF ServerNext

-----------------------------------------------------------------------------
LEMMA FirstTriedStep ==
  ASSUME ServerInv, OneProgramAtATime, ServerNext
  PROVE  FirstTried'
<1>1. layout' = layout /\ layout.opens \subseteq Sources
  BY LayoutType DEF ServerInv, ServerNext, DidChange, DidClose, DidSave, Feature, CancelRequest, Exit, Tick,
     CheckDies, CheckEnds, documentVars
<1> SUFFICES ASSUME NEW p \in Programs, NEW f \in layout.opens,
                    \A g \in layout.opens : layout.tries[g][1] = p /\ g \in layout.reads[p]
             PROVE  attempts'[f] = 0
  BY <1>1 DEF FirstTried
<1>2. \A g \in layout.opens : attempts[g] = 0
  BY DEF ServerInv, FirstTried
<1>3. CASE CheckEnds
  <2>1. attempts' = attempts \/ attempts' = [g \in Sources |-> IF MovesOn(g) THEN attempts[g] + 1 ELSE attempts[g]]
    BY <1>3 DEF CheckEnds, NextPrograms
  <2>2. ~MovesOn(f)
    <3>1. ProgramFor(f) = p
      <4>1. f \in Sources /\ Len(layout.tries[f]) >= 1 /\ Len(layout.tries[f]) \in Nat
        BY <1>1, LayoutType DEF ServerInv
      <4> QED BY <4>1, <1>2 DEF ProgramFor, ProgramOf
    <3> QED BY <3>1 DEF MovesOn
  <2> QED BY <1>1, <1>2, <2>1, <2>2
<1>4. CASE ~CheckEnds
  <2>1. attempts' = attempts \/ \E g \in Sources : attempts' = [attempts EXCEPT ![g] = 0]
    BY <1>4 DEF ServerNext, DidChange, DidClose, DidSave, Feature, CancelRequest, Exit, Tick, CheckDies
  <2>2. attempts \in [Sources -> Nat] /\ f \in Sources
    BY <1>1 DEF ServerInv, ServerTypeOK
  <2> QED BY <1>2, <2>1, <2>2
<1> QED BY <1>3, <1>4

-----------------------------------------------------------------------------
LEMMA EditStep ==
  ASSUME ServerInv, ServerTypeOK', FirstTried', NEW f \in Sources,
         \/ \E t \in Texts : DidChange(f, t)
         \/ DidClose(f)
         \/ DidSave(f)
  PROVE  ServerInv'
<1>1. run' = Idle /\ dirty' # {} /\ layout' = layout /\ Serving /\ dirty' \subseteq dirty \cup open \cup {f}
      /\ f \in layout.opens
  BY DEF DidChange, DidClose, DidSave, MarkDirty, ServerInv, ServerTypeOK
<1>2. DirtyInWorkspace'
  BY <1>1 DEF DirtyInWorkspace, ServerInv, ServerTypeOK
<1> QED BY <1>1, <1>2, DirtyStep

LEMMA FeatureStep ==
  ASSUME ServerInv, ServerTypeOK', FirstTried', NEW f \in Sources, NEW r \in Requests, Feature(r, f)
  PROVE  ServerInv'
<1>1. CASE Stale
  <2>1. UNCHANGED <<layout, text, attempts, dirty, run, server>>
    BY <1>1 DEF Feature, documentVars
  <2>2. Stale' /\ DirtyInWorkspace'
    BY <1>1, <2>1 DEF Stale, Active, DirtyInWorkspace, Serving, ServerInv
  <2>3. RunIsCurrent'
    BY <2>1 DEF RunIsCurrent, ServerInv, Active, ProgramFor, ProgramOf, Snapshot
  <2> QED BY <2>2, <2>3 DEF ServerInv, SettledIsCurrent
<1>2. CASE ~Stale
  <2>1. run' = Idle /\ dirty' = dirty \cup {f} /\ layout' = layout /\ f \in layout.opens /\ server' = server
    BY <1>2 DEF Feature, MarkDirty, documentVars
  <2>2. DirtyInWorkspace'
    BY <2>1 DEF DirtyInWorkspace, Serving, ServerInv
  <2> QED BY <2>1, <2>2, DirtyStep
<1> QED BY <1>1, <1>2

LEMMA TickStep ==
  ASSUME ServerInv, ServerTypeOK', FirstTried', OneProgramAtATime, Tick
  PROVE  ServerInv'
<1>1. PICK first \in dirty, started \in BOOLEAN : StartAnalysis(first, started)
  BY DEF Tick
<1>2. /\ Serving /\ UNCHANGED <<layout, open, text, attempts, index, shown, server>>
      /\ first \in layout.opens /\ first \in Sources /\ dirty \subseteq layout.opens
      /\ open \subseteq layout.opens
  BY <1>1, LayoutType DEF Tick, documentVars, ServerInv, DirtyInWorkspace, ServerTypeOK
<1> DEFINE p == ProgramFor(first)
<1>3. p \in Programs
  BY <1>2, ProgramTried DEF ServerInv
<1>4. dirty' \subseteq dirty
  BY <1>1 DEF StartAnalysis
<1>5. DirtyInWorkspace'
  BY <1>2, <1>4 DEF DirtyInWorkspace
<1>6. CASE started
  <2>1. run' = [program |-> p, texts |-> Snapshot(p)]
    BY <1>1, <1>6 DEF StartAnalysis
  <2>2. Active'
    BY <2>1, <1>3, NoSnapshotAssumption DEF Active, Idle
  <2>3. RunIsCurrent'
    BY <2>1, <1>2 DEF RunIsCurrent, ProgramFor, ProgramOf, Snapshot
  <2>4. SettledIsCurrent'
    BY <2>2 DEF SettledIsCurrent, Stale
  <2> QED BY <2>3, <2>4, <1>5 DEF ServerInv
<1>7. CASE ~started
  <2>1. run' = Idle /\ p \in lost'
    BY <1>1, <1>7 DEF StartAnalysis
  <2>2. \A f \in open' : ProgramFor(f)' \in lost'
    <3>0. ServerTypeOK /\ FirstTried
      BY DEF ServerInv
    <3>1. ASSUME NEW f \in open PROVE ProgramFor(f) = p
      <4>1. f \in layout.opens /\ first \in layout.opens
        BY <1>2
      <4> QED BY <3>0, <4>1, SameProgram
    <3>2. \A f \in open : ProgramFor(f)' = ProgramFor(f)
      BY <1>2, SamePrograms
    <3> QED BY <3>1, <3>2, <2>1, <1>2
  <2>3. SettledIsCurrent'
    BY <2>2 DEF SettledIsCurrent
  <2> QED BY <2>1, <2>3, <1>5 DEF ServerInv, RunIsCurrent, Active
<1> QED BY <1>6, <1>7

(* The program of a check that ends, however it ends, is the program of      *)
(* every open document.                                                      *)
LEMMA RunOfTheOpen ==
  ASSUME ServerInv, OneProgramAtATime, Active
  PROVE  /\ run.program \in Programs
         /\ run.texts = Snapshot(run.program)
         /\ \A f \in open : ProgramFor(f) = run.program
<1>1. PICK g \in layout.opens : run = [program |-> ProgramFor(g), texts |-> Snapshot(ProgramFor(g))]
  BY DEF ServerInv, RunIsCurrent
<1>2. run.program = ProgramFor(g) /\ run.texts = Snapshot(ProgramFor(g))
  BY <1>1
<1>3. g \in Sources /\ open \subseteq layout.opens
  BY LayoutType DEF ServerInv, ServerTypeOK
<1>4. \A f \in open : ProgramFor(f) = ProgramFor(g)
  BY <1>3, SameProgram DEF ServerInv
<1> QED BY <1>2, <1>3, <1>4, ProgramTried DEF ServerInv

(* A flush asks for nothing, or the server spins.                            *)
LEMMA Flushed ==
  ASSUME NEW indexes, FlushPending(indexes)
  PROVE  (dirty' = dirty /\ server' = server) \/ server' = "spinning"
BY DEF FlushPending

LEMMA CheckDiesStep ==
  ASSUME ServerInv, ServerTypeOK', FirstTried', OneProgramAtATime, CheckDies
  PROVE  ServerInv'
<1>1. /\ Serving /\ Active /\ run' = Idle /\ run.program \in lost'
      /\ UNCHANGED <<layout, open, attempts>>
  BY DEF CheckDies, documentVars
<1>2. dirty' = dirty \/ server' = "spinning"
  BY Flushed DEF CheckDies
<1>3. DirtyInWorkspace'
  BY <1>1, <1>2 DEF DirtyInWorkspace, Serving, ServerInv
<1>4. \A f \in open' : ProgramFor(f)' \in lost'
  BY <1>1, RunOfTheOpen, SamePrograms
<1>5. SettledIsCurrent'
  BY <1>4 DEF SettledIsCurrent
<1> QED BY <1>1, <1>3, <1>5 DEF ServerInv, RunIsCurrent, Active

LEMMA CheckEndsStep ==
  ASSUME ServerInv, ServerTypeOK', FirstTried', OneProgramAtATime, CheckEnds
  PROVE  ServerInv'
<1> DEFINE p == run.program
<1>1. /\ Serving /\ Active /\ run' = Idle /\ UNCHANGED <<layout, open, text>>
      /\ index' = [index EXCEPT ![p] = run.texts] \/ p \in lost'
  BY DEF CheckEnds, documentVars
<1>2. /\ p \in Programs
      /\ run.texts = Snapshot(p)
      /\ \A f \in open : ProgramFor(f) = p
  BY <1>1, RunOfTheOpen
<1>3. index'[p] = Snapshot(p) \/ p \in lost'
  BY <1>1, <1>2 DEF ServerInv, ServerTypeOK
<1>4. layout.opens \subseteq Sources /\ open \subseteq layout.opens /\ dirty \subseteq layout.opens
  BY <1>1, LayoutType DEF ServerInv, ServerTypeOK, DirtyInWorkspace
<1>5. CASE dirty = {} /\ \A f \in Sources : ~MovesOn(f)
  <2>1. attempts' = attempts /\ ((dirty' = dirty /\ server' = server) \/ server' = "spinning")
    BY <1>5, Flushed DEF CheckEnds
  <2>2. DirtyInWorkspace'
    BY <1>1, <2>1, <1>4 DEF DirtyInWorkspace, Serving
  <2>3. ASSUME NEW f \in open, f \in layout.reads[p] PROVE shown'[f] = Snapshot(p)
    <3>1. Publish
      BY DEF CheckEnds
    <3>2. shown'[f] = run.texts
      BY <3>1, <2>3, <1>4 DEF Publish
    <3> QED BY <3>2, <1>2
  <2>4. \A f \in open : ProgramFor(f)' = p
    BY <1>1, <1>2, <2>1, SamePrograms
  <2>5. Snapshot(p) = [f \in layout'.reads[p] |-> text'[f]]
    BY <1>1, SameSnapshot
  <2>6. SettledIsCurrent'
    <3> SUFFICES ASSUME NEW f \in open'
                 PROVE  LET q == ProgramFor(f)'
                        IN \/ q \in lost'
                           \/ /\ index'[q] = [g \in layout'.reads[q] |-> text'[g]]
                              /\ f \in layout'.reads[q] => shown'[f] = [g \in layout'.reads[q] |-> text'[g]]
      BY Zenon DEF SettledIsCurrent, Snapshot
    <3>1. f \in open /\ ProgramFor(f)' = p
      BY <1>1, <2>4
    <3>2. CASE p \in lost'
      BY <3>1, <3>2
    <3>3. CASE index'[p] = Snapshot(p)
      BY <3>1, <3>3, <1>1, <2>3, <2>5
    <3> QED BY <1>3, <3>2, <3>3
  <2> QED BY <1>1, <2>2, <2>6 DEF ServerInv, RunIsCurrent, Active
<1>6. CASE ~(dirty = {} /\ \A f \in Sources : ~MovesOn(f))
  <2>1. dirty' = dirty \cup {f \in Sources : MovesOn(f)} /\ server' = server
    BY <1>6 DEF CheckEnds, NextPrograms
  <2>2. dirty' # {}
    BY <2>1, <1>6
  <2>3. DirtyInWorkspace'
    BY <2>1, <1>1, <1>4 DEF DirtyInWorkspace, MovesOn
  <2> QED BY <1>1, <2>2, <2>3, DirtyStep
<1> QED BY <1>5, <1>6

LEMMA ServerQuietStep ==
  ASSUME ServerInv, ServerTypeOK', FirstTried',
         \/ Exit
         \/ \E r \in Requests : CancelRequest(r)
         \/ UNCHANGED serverVars
  PROVE  ServerInv'
<1>1. CASE Exit
  BY <1>1 DEF Exit, ServerInv, DirtyInWorkspace, RunIsCurrent, SettledIsCurrent, Serving, Active
<1>2. CASE (\E r \in Requests : CancelRequest(r)) \/ UNCHANGED serverVars
  <2>1. UNCHANGED <<layout, open, text, attempts, dirty, run, server, index, shown, lost>>
    BY <1>2 DEF CancelRequest, serverVars, documentVars, resultVars
  <2>2. DirtyInWorkspace'
    BY <2>1 DEF ServerInv, DirtyInWorkspace, Serving
  <2>3. RunIsCurrent'
    BY <2>1 DEF ServerInv, RunIsCurrent, Active, ProgramFor, ProgramOf, Snapshot
  <2>4. SettledIsCurrent'
    <3>1. (Serving /\ ~Stale)' = (Serving /\ ~Stale)
      BY <2>1 DEF Serving, Stale, Active
    <3>2. \A f : ProgramFor(f)' = ProgramFor(f) /\ Snapshot(ProgramFor(f))' = Snapshot(ProgramFor(f))
      BY <2>1 DEF ProgramFor, ProgramOf, Snapshot
    <3> QED BY <2>1, <3>1, <3>2 DEF ServerInv, SettledIsCurrent
  <2> QED BY <2>2, <2>3, <2>4 DEF ServerInv
<1> QED BY <1>1, <1>2

LEMMA ServerInvariant == ASSUME OneProgramAtATime PROVE ServerSpec => []ServerInv
<1>1. ServerInit => ServerInv
  <2> SUFFICES ASSUME ServerInit PROVE ServerInv
    OBVIOUS
  <2>1. ServerTypeOK
    BY DEF ServerInit, ServerTypeOK
  <2>2. FirstTried
    BY LayoutType, <2>1 DEF ServerInit, FirstTried
  <2> QED BY <2>1, <2>2 DEF ServerInit, ServerInv, DirtyInWorkspace, RunIsCurrent, SettledIsCurrent, Active
<1>2. ServerInv /\ [ServerNext]_serverVars => ServerInv'
  <2> SUFFICES ASSUME ServerInv, [ServerNext]_serverVars PROVE ServerInv'
    OBVIOUS
  <2>1. CASE UNCHANGED serverVars
    <3>1. ServerTypeOK'
      BY <2>1 DEF serverVars, documentVars, resultVars, ServerInv, ServerTypeOK
    <3>2. FirstTried'
      BY <2>1 DEF serverVars, documentVars, ServerInv, FirstTried
    <3> QED BY <2>1, <3>1, <3>2, ServerQuietStep
  <2>2. CASE ServerNext
    <3>1. ServerTypeOK'
      BY <2>2, ServerTypeStep
    <3>2. FirstTried'
      BY <2>2, FirstTriedStep
    <3> QED BY <2>2, <3>1, <3>2, EditStep, FeatureStep, ServerQuietStep, TickStep, CheckDiesStep, CheckEndsStep
            DEF ServerNext
  <2> QED BY <2>1, <2>2
<1> QED BY <1>1, <1>2, PTL DEF ServerSpec

(* SettledIsCurrent, of startAnalysis, pumpAnalysis and feature: when the    *)
(* client has one document open, whatever programs are tried for it, or      *)
(* several that one program reads and that are tried through it first, a     *)
(* request is answered from the index of the texts as they are, whatever     *)
(* edits, closes, saves and deaths of checks came before.                    *)
THEOREM AnswersAreCurrent ==
  ASSUME OneProgramAtATime
  PROVE  ServerSpec => []SettledIsCurrent
<1>1. ServerInv => SettledIsCurrent
  BY DEF ServerInv
<1> QED BY <1>1, ServerInvariant, PTL
=============================================================================
