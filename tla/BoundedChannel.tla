-------------------------- MODULE BoundedChannel --------------------------
(***************************************************************************)
(* What a Prismio Channel<T> promises to the tasks that share it: a        *)
(* bounded, closable first-in first-out queue.  Nothing here knows of a    *)
(* ring, a lock, a condition variable or a wait set; a call that cannot    *)
(* complete is one whose completing actions are disabled.                  *)
(***************************************************************************)
EXTENDS Naturals, Sequences

CONSTANTS
  Threads,    \* the tasks that hold the (shared) endpoint
  Messages,   \* the values that are sent
  NoMessage,  \* the argument of a thread that is not sending
  Cap,        \* how many messages may be queued
  MayRefuse   \* the channel may fail to obtain room for its first message

VARIABLES
  queue,   \* the messages accepted and not yet received, oldest first
  closed,
  call,    \* the operation each thread is inside
  arg,     \* the message a sending thread offers
  answer   \* how each thread's last operation ended

vars == <<queue, closed, call, arg, answer>>

Init ==
  /\ queue = <<>>
  /\ closed = FALSE
  /\ call = [t \in Threads |-> "idle"]
  /\ arg = [t \in Threads |-> NoMessage]
  /\ answer = [t \in Threads |-> "none"]

BeginSend(t, m) ==
  /\ call[t] = "idle"
  /\ call' = [call EXCEPT ![t] = "send"]
  /\ arg' = [arg EXCEPT ![t] = m]
  /\ answer' = [answer EXCEPT ![t] = "none"]
  /\ UNCHANGED <<queue, closed>>

BeginReceive(t) ==
  /\ call[t] = "idle"
  /\ call' = [call EXCEPT ![t] = "recv"]
  /\ answer' = [answer EXCEPT ![t] = "none"]
  /\ UNCHANGED <<queue, closed, arg>>

Return(t, result) ==
  /\ call' = [call EXCEPT ![t] = "idle"]
  /\ arg' = [arg EXCEPT ![t] = NoMessage]
  /\ answer' = [answer EXCEPT ![t] = result]

Accept(t) ==
  /\ call[t] = "send" /\ ~closed /\ Len(queue) < Cap
  /\ queue' = Append(queue, arg[t])
  /\ Return(t, "sent")
  /\ UNCHANGED closed

Drop(t) ==
  /\ call[t] = "send"
  /\ closed \/ (MayRefuse /\ queue = <<>>)
  /\ Return(t, "dropped")
  /\ UNCHANGED <<queue, closed>>

Deliver(t) ==
  /\ call[t] = "recv" /\ queue # <<>>
  /\ queue' = Tail(queue)
  /\ Return(t, Head(queue))
  /\ UNCHANGED closed

EndOfStream(t) ==
  /\ call[t] = "recv" /\ queue = <<>> /\ closed
  /\ Return(t, "drained")
  /\ UNCHANGED <<queue, closed>>

Close(t) ==
  /\ call[t] = "idle"
  /\ closed' = TRUE
  /\ UNCHANGED <<queue, call, arg, answer>>

Finish(t) == Accept(t) \/ Drop(t) \/ Deliver(t) \/ EndOfStream(t)

Next ==
  \E t \in Threads :
    \/ \E m \in Messages : BeginSend(t, m)
    \/ BeginReceive(t)
    \/ Finish(t)
    \/ Close(t)

(***************************************************************************)
(* A call that stays able to complete does complete.                       *)
(***************************************************************************)
Fairness == \A t \in Threads : WF_vars(Finish(t))

SafeSpec == Init /\ [][Next]_vars
Spec == SafeSpec /\ Fairness
=============================================================================
