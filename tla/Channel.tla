------------------------------ MODULE Channel ------------------------------
(***************************************************************************)
(* The runtime's channel (runtime/program_support.c, PrismioChan): a ring  *)
(* of Cap slots under one mutex with two condition variables.              *)
(*                                                                         *)
(* A section of code that runs with the mutex held is one action.  A       *)
(* thread with pc "send" or "recv" is about to take the mutex, either on   *)
(* entry to the call or because it was woken; its next step tests the      *)
(* predicate of the while loop.  A thread with pc "not_full" or            *)
(* "not_empty" sleeps on that condition variable with the mutex released.  *)
(***************************************************************************)
EXTENDS Integers, Sequences, FiniteSets

CONSTANTS
  Threads,    \* the tasks that share the endpoint (chan_share returns it as is)
  Messages,   \* the values that are sent
  NoMessage,  \* what an unused slot or argument holds
  Capacity,   \* the argument of chan_new
  Copy        \* TRUE: the plain-data ring (chan_send_copy, chan_recv_copy)

ASSUME CapacityAssumption == Capacity \in Int
ASSUME CopyAssumption == Copy \in BOOLEAN
ASSUME ThreadsAssumption == IsFiniteSet(Threads)
ASSUME NoMessageAssumption == NoMessage \notin Messages

(* chan_new: a capacity below one is taken as one. *)
Cap == IF Capacity < 1 THEN 1 ELSE Capacity

VARIABLES
  slots,   \* the ring: `slots`, or `bytes` of a plain-data channel
  ready,   \* the ring is allocated; `bytes` is allocated by the first send
  head,
  len,
  closed,
  pc,
  arg,     \* the message a thread inside a send offers
  answer   \* how each thread's last call returned

chan == <<slots, ready, head, len, closed>>
vars == <<slots, ready, head, len, closed, pc, arg, answer>>

(* The threads at a point of the code, or asleep on a condition.             *)
At(p) == {t \in Threads : pc[t] = p}

(* Where a thread goes on when it is woken: back to its loop's predicate.    *)
Resumed(p) ==
  IF p = "not_full" THEN "send" ELSE IF p = "not_empty" THEN "recv" ELSE p

Init ==
  /\ slots = [i \in 0 .. Cap - 1 |-> NoMessage]
  /\ ready = ~Copy
  /\ head = 0
  /\ len = 0
  /\ closed = FALSE
  /\ pc = [t \in Threads |-> "idle"]
  /\ arg = [t \in Threads |-> NoMessage]
  /\ answer = [t \in Threads |-> "none"]

-----------------------------------------------------------------------------
(* The two spellings of the ring arithmetic: `%` in the pointer channel, a   *)
(* compare and subtract in the plain-data one.                               *)
TailIndex ==
  IF Copy
    THEN IF head + len >= Cap THEN head + len - Cap ELSE head + len
    ELSE (head + len) % Cap

(* Mutant: the wrapped ring's head stays where it is.                        *)
NextHead_Stuck ==
  IF head + 1 = Cap THEN head ELSE head + 1

NextHead ==
  IF Copy
    THEN IF head + 1 = Cap THEN 0 ELSE head + 1
    ELSE (head + 1) % Cap

(* The call that thread t makes returns, with the mutex released.            *)
Returns(p, t, result) ==
  /\ pc' = [p EXCEPT ![t] = "idle"]
  /\ arg' = [arg EXCEPT ![t] = NoMessage]
  /\ answer' = [answer EXCEPT ![t] = result]

(* PRISMIO_COND_SIGNAL(cond) followed by t's return: one sleeper, if there   *)
(* is any, goes back to contend for the mutex and re-test its predicate.     *)
SignalAndReturn(cond, t, result) ==
  \/ /\ At(cond) = {}
     /\ Returns(pc, t, result)
  \/ \E w \in At(cond) :
       Returns([pc EXCEPT ![w] = Resumed(cond)], t, result)

-----------------------------------------------------------------------------
CallSend(t, m) ==
  /\ pc[t] = "idle"
  /\ pc' = [pc EXCEPT ![t] = "send"]
  /\ arg' = [arg EXCEPT ![t] = m]
  /\ answer' = [answer EXCEPT ![t] = "none"]
  /\ UNCHANGED chan

(* `while (len == cap && !closed) COND_WAIT(not_full)`                       *)
SendWaits(t) ==
  /\ pc[t] = "send"
  /\ len = Cap /\ ~closed
  /\ pc' = [pc EXCEPT ![t] = "not_full"]
  /\ UNCHANGED <<chan, arg, answer>>

(* A closed channel drops the message and answers 0.                         *)
SendClosed(t) ==
  /\ pc[t] = "send"
  /\ closed
  /\ Returns(pc, t, "dropped")
  /\ UNCHANGED chan

(* chan_bytes_ready could not allocate the ring: also answered with 0.       *)
SendNoRing(t) ==
  /\ pc[t] = "send"
  /\ len # Cap /\ ~closed /\ ~ready
  /\ Returns(pc, t, "dropped")
  /\ UNCHANGED chan

SendStores_NoFullTest(t) ==
  /\ pc[t] = "send"
  /\ ~closed
  /\ ready' = TRUE
  /\ slots' = [slots EXCEPT ![TailIndex] = arg[t]]
  /\ len' = len + 1
  /\ SignalAndReturn("not_empty", t, "sent")
  /\ UNCHANGED <<head, closed>>

SendStores_RingNotKept(t) ==
  /\ pc[t] = "send"
  /\ len # Cap /\ ~closed
  /\ slots' = [slots EXCEPT ![TailIndex] = arg[t]]
  /\ len' = len + 1
  /\ SignalAndReturn("not_empty", t, "sent")
  /\ UNCHANGED <<ready, head, closed>>

SendStores(t) ==
  /\ pc[t] = "send"
  /\ len # Cap /\ ~closed
  /\ ready' = TRUE
  /\ slots' = [slots EXCEPT ![TailIndex] = arg[t]]
  /\ len' = len + 1
  /\ SignalAndReturn("not_empty", t, "sent")
  /\ UNCHANGED <<head, closed>>

-----------------------------------------------------------------------------
CallRecv(t) ==
  /\ pc[t] = "idle"
  /\ pc' = [pc EXCEPT ![t] = "recv"]
  /\ answer' = [answer EXCEPT ![t] = "none"]
  /\ UNCHANGED <<chan, arg>>

(* `while (len == 0 && !closed) COND_WAIT(not_empty)`                        *)
RecvWaits(t) ==
  /\ pc[t] = "recv"
  /\ len = 0 /\ ~closed
  /\ pc' = [pc EXCEPT ![t] = "not_empty"]
  /\ UNCHANGED <<chan, arg, answer>>

RecvEnds_DropsQueued(t) ==
  /\ pc[t] = "recv"
  /\ closed
  /\ Returns(pc, t, "drained")
  /\ UNCHANGED chan

(* Closed and drained, or a ring that chan_recv_copy could not allocate.     *)
RecvEnds(t) ==
  /\ pc[t] = "recv"
  /\ len = 0 => closed
  /\ ~(len # 0 /\ ready)
  /\ Returns(pc, t, "drained")
  /\ UNCHANGED chan

RecvTakes_WrongSignal(t) ==
  /\ pc[t] = "recv"
  /\ len # 0
  /\ ready' = TRUE
  /\ head' = NextHead
  /\ len' = len - 1
  /\ SignalAndReturn("not_empty", t, slots[head])
  /\ UNCHANGED <<slots, closed>>

RecvTakes(t) ==
  /\ pc[t] = "recv"
  /\ len # 0
  /\ ready' = TRUE
  /\ head' = NextHead
  /\ len' = len - 1
  /\ SignalAndReturn("not_full", t, slots[head])
  /\ UNCHANGED <<slots, closed>>

-----------------------------------------------------------------------------
CloseChan_WakesReceiversOnly(t) ==
  /\ pc[t] = "idle"
  /\ closed' = TRUE
  /\ pc' = [u \in Threads |-> IF pc[u] = "not_empty" THEN "recv" ELSE pc[u]]
  /\ UNCHANGED <<slots, ready, head, len, arg, answer>>

(* chan_close: set the flag and broadcast both conditions.                   *)
CloseChan(t) ==
  /\ pc[t] = "idle"
  /\ closed' = TRUE
  /\ pc' = [u \in Threads |-> Resumed(pc[u])]
  /\ UNCHANGED <<slots, ready, head, len, arg, answer>>

(* A condition wait may return with nobody having signalled.                 *)
SpuriousWake(t) ==
  /\ pc[t] \in {"not_full", "not_empty"}
  /\ pc' = [pc EXCEPT ![t] = Resumed(pc[t])]
  /\ UNCHANGED <<chan, arg, answer>>

(* What thread t does once it has the mutex.                                 *)
Locked(t) ==
  \/ SendWaits(t)
  \/ SendClosed(t)
  \/ SendNoRing(t)
  \/ SendStores(t)
  \/ RecvWaits(t)
  \/ RecvEnds(t)
  \/ RecvTakes(t)

Next ==
  \E t \in Threads :
    \/ \E m \in Messages : CallSend(t, m)
    \/ CallRecv(t)
    \/ Locked(t)
    \/ CloseChan(t)
    \/ SpuriousWake(t)

(* A thread that wants the mutex gets it: every section that holds it ends.  *)
(* Nothing is assumed of signals, of spurious wake-ups or of new calls.      *)
Fairness == \A t \in Threads : WF_vars(Locked(t))

SafeSpec == Init /\ [][Next]_vars
Spec == SafeSpec /\ Fairness

-----------------------------------------------------------------------------
(* Every variable holds what its declaration in PrismioChan allows; `head`   *)
(* is a ring index and `len` never exceeds the capacity (chan_send,          *)
(* chan_recv and their copying forms).                                       *)
TypeOK ==
  /\ slots \in [0 .. Cap - 1 -> Messages \cup {NoMessage}]
  /\ ready \in BOOLEAN
  /\ head \in 0 .. Cap - 1
  /\ len \in 0 .. Cap
  /\ closed \in BOOLEAN
  /\ pc \in [Threads -> {"idle", "send", "recv", "not_full", "not_empty"}]
  /\ arg \in [Threads -> Messages \cup {NoMessage}]
  /\ answer \in [Threads -> Messages \cup
                 {NoMessage, "none", "sent", "dropped", "drained"}]

(* No wake-up is lost (chan_send, chan_recv, chan_close).  A sender sleeps   *)
(* only on an open channel, and while one does, at least as many senders are *)
(* on their way to the mutex as there are free slots; so a free slot always  *)
(* has somebody coming for it.  The same for receivers and queued messages.  *)
NoLostWakeup ==
  /\ At("not_full") # {} =>
       ~closed /\ Cardinality(At("send")) >= Cap - len
  /\ At("not_empty") # {} =>
       ~closed /\ Cardinality(At("recv")) >= len

(* A channel that has a message or a blocked sender has its ring:            *)
(* chan_bytes_ready can fail only before the first message, so no receiver   *)
(* of chan_recv_copy is told "drained" while messages are queued, and no     *)
(* woken sender gives up its turn.                                           *)
RingBeforeMessages ==
  /\ ~Copy => ready
  /\ len > 0 => ready
  /\ At("not_full") # {} => ready

(* Once the channel is closed every call that is inside it returns: "no      *)
(* waiter can be left holding the old predicate" (chan_close).               *)
CloseEndsCalls ==
  \A t \in Threads : (closed /\ pc[t] # "idle") ~> (pc[t] = "idle")

-----------------------------------------------------------------------------
(* The messages in the ring, oldest first.                                   *)
Queue == [i \in 1 .. len |-> slots[(head + i - 1) % Cap]]

(* A sleeping thread is inside its call.                                     *)
CallOf == [t \in Threads |-> Resumed(pc[t])]

Abstract ==
  INSTANCE BoundedChannel
    WITH queue <- Queue, call <- CallOf, MayRefuse <- Copy

(* Safety half: the ring under its mutex and conditions loses, repeats and   *)
(* reorders nothing, accepts nothing once closed, and tells a receiver       *)
(* "drained" only when it is (chan_send, chan_recv and the copying forms).   *)
ImplementsQueue == Abstract!SafeSpec

(* The ring under its mutex and conditions behaves as a bounded closable     *)
(* first-in first-out queue, and a call that stays able to complete does.    *)
ImplementsChannel == Abstract!Spec
=============================================================================
