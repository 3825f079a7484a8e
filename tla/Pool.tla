-------------------------------- MODULE Pool --------------------------------
(***************************************************************************)
(* The worker pool of tests/test_96_channels.psm, the use that channels    *)
(* and tasks are made for: two channels and a set of worker tasks, run by  *)
(* a main thread that follows the contract of chan_share and chan_free:    *)
(* close, join every task it shared with, then free.  Both channels are    *)
(* the Channel module's, step for step.                                    *)
(***************************************************************************)
EXTENDS Integers, FiniteSets

CONSTANTS
  Main,         \* the thread that owns the channels
  Workers,      \* the spawned tasks
  Jobs,         \* the messages main sends; an answer carries its job's name
  None,         \* no message
  JobCap,       \* capacity of the jobs channel
  AnswerCap,    \* capacity of the answers channel
  PoolCopy      \* the kind of ring

ASSUME MainAssumption == Main \notin Workers
ASSUME CapsAssumption == JobCap \in Int /\ AnswerCap \in Int /\ PoolCopy \in BOOLEAN
\* A message is told from the answers of a call that has none to give.
ASSUME JobsAssumption ==
  /\ IsFiniteSet(Jobs)
  /\ Jobs \cap {None, "none", "sent", "dropped", "drained"} = {}

PoolThreads == Workers \cup {Main}

VARIABLES
  jSlots, jReady, jHead, jLen, jClosed, jPc, jArg, jAnswer,
  aSlots, aReady, aHead, aLen, aClosed, aPc, aArg, aAnswer,
  taken,     \* how many answers main has taken
  stage,     \* main's place in pool_round_trip
  toSend,    \* the jobs main has not yet sent
  got,       \* how often each job's answer has reached main
  worker,    \* each worker's place: "unborn", "loop", "receiving", "answering", "exited"
  handled,   \* each worker's count, its task's result
  freed,     \* chan_free has run on both channels
  unsent     \* history: the jobs dropped by a send that had no ring

jobsVars == <<jSlots, jReady, jHead, jLen, jClosed, jPc, jArg, jAnswer>>
answersVars == <<aSlots, aReady, aHead, aLen, aClosed, aPc, aArg, aAnswer>>
progVars == <<stage, taken, toSend, got, worker, handled, freed>>
poolVars == <<jobsVars, answersVars, progVars, unsent>>

JobsChan ==
  INSTANCE Channel
    WITH Messages <- Jobs, NoMessage <- None,
         Threads <- PoolThreads, Copy <- PoolCopy, Capacity <- JobCap,
         slots <- jSlots, ready <- jReady, head <- jHead, len <- jLen,
         closed <- jClosed, pc <- jPc, arg <- jArg, answer <- jAnswer

AnswersChan ==
  INSTANCE Channel
    WITH Messages <- Jobs, NoMessage <- None,
         Threads <- PoolThreads, Copy <- PoolCopy, Capacity <- AnswerCap,
         slots <- aSlots, ready <- aReady, head <- aHead, len <- aLen,
         closed <- aClosed, pc <- aPc, arg <- aArg, answer <- aAnswer

PoolInit ==
  /\ JobsChan!Init
  /\ AnswersChan!Init
  /\ stage = "spawn"
  /\ taken = 0
  /\ toSend = Jobs
  /\ got = [j \in Jobs |-> 0]
  /\ worker = [w \in Workers |-> "unborn"]
  /\ handled = [w \in Workers |-> 0]
  /\ freed = FALSE
  /\ unsent = {}

-----------------------------------------------------------------------------
(* A thread inside a channel call takes its next step there.  A send whose    *)
(* ring could not be allocated drops its job, and the program, which reads no*)
(* send's answer, goes on without it.                                        *)
InJobs(t) ==
  /\ JobsChan!Locked(t)
  /\ unsent' = IF JobsChan!SendNoRing(t) THEN unsent \cup {jArg[t]} ELSE unsent
  /\ UNCHANGED <<answersVars, progVars>>

InAnswers(t) ==
  /\ AnswersChan!Locked(t)
  /\ unsent' = IF AnswersChan!SendNoRing(t) THEN unsent \cup {aArg[t]} ELSE unsent
  /\ UNCHANGED <<jobsVars, progVars>>

(* worker(): `let taken = jobs.receive()`                                    *)
WorkerReceives(w) ==
  /\ worker[w] = "loop"
  /\ JobsChan!CallRecv(w)
  /\ worker' = [worker EXCEPT ![w] = "receiving"]
  /\ UNCHANGED <<answersVars, stage, taken, toSend, got, handled, freed, unsent>>

(* `answers.send(Answer { ... })`                                            *)
WorkerAnswers(w) ==
  /\ worker[w] = "receiving" /\ jPc[w] = "idle" /\ jAnswer[w] # "drained"
  /\ AnswersChan!CallSend(w, jAnswer[w])
  /\ worker' = [worker EXCEPT ![w] = "answering"]
  /\ UNCHANGED <<jobsVars, stage, taken, toSend, got, handled, freed, unsent>>

WorkerCounts(w) ==
  /\ worker[w] = "answering" /\ aPc[w] = "idle"
  /\ handled' = [handled EXCEPT ![w] = @ + 1]
  /\ worker' = [worker EXCEPT ![w] = "loop"]
  /\ UNCHANGED <<jobsVars, answersVars, stage, taken, toSend, got, freed, unsent>>

(* `if (taken == none) { break }`, and the task's body returns.              *)
WorkerExits(w) ==
  /\ worker[w] = "receiving" /\ jPc[w] = "idle" /\ jAnswer[w] = "drained"
  /\ worker' = [worker EXCEPT ![w] = "exited"]
  /\ UNCHANGED <<jobsVars, answersVars, stage, taken, toSend, got, handled, freed, unsent>>

-----------------------------------------------------------------------------
(* pool_round_trip on main's thread.                                         *)
SpawnWorker(w) ==
  /\ stage = "spawn" /\ worker[w] = "unborn"
  /\ worker' = [worker EXCEPT ![w] = "loop"]
  /\ stage' = IF \A v \in Workers \ {w} : worker[v] # "unborn" THEN "send" ELSE "spawn"
  /\ UNCHANGED <<jobsVars, answersVars, taken, toSend, got, handled, freed, unsent>>

MainSends(j) ==
  /\ stage = "send" /\ jPc[Main] = "idle" /\ j \in toSend
  /\ JobsChan!CallSend(Main, j)
  /\ toSend' = toSend \ {j}
  /\ UNCHANGED <<answersVars, stage, taken, got, worker, handled, freed, unsent>>

MainClosesJobs ==
  /\ stage = "send" /\ jPc[Main] = "idle" /\ toSend = {}
  /\ JobsChan!CloseChan(Main)
  /\ stage' = "collect"
  /\ UNCHANGED <<answersVars, taken, toSend, got, worker, handled, freed, unsent>>

MainReceives ==
  /\ stage = "collect"
  /\ AnswersChan!CallRecv(Main)
  /\ stage' = "taking"
  /\ UNCHANGED <<jobsVars, taken, toSend, got, worker, handled, freed, unsent>>

(* One answer taken; the loop ends after as many as there were jobs.         *)
MainTakes ==
  /\ stage = "taking" /\ aPc[Main] = "idle"
  /\ aAnswer[Main] \in Jobs
  /\ got' = [got EXCEPT ![aAnswer[Main]] = @ + 1]
  /\ taken' = taken + 1
  /\ stage' = IF taken + 1 = Cardinality(Jobs) THEN "join" ELSE "collect"
  /\ UNCHANGED <<jobsVars, answersVars, toSend, worker, handled, freed, unsent>>

JoinWorkers_NoWait ==
  /\ stage = "join"
  /\ stage' = "closeAnswers"
  /\ UNCHANGED <<jobsVars, answersVars, taken, toSend, got, worker, handled, freed, unsent>>

(* `join w0`, `join w1`                                                      *)
JoinWorkers ==
  /\ stage = "join"
  /\ \A w \in Workers : worker[w] = "exited"
  /\ stage' = "closeAnswers"
  /\ UNCHANGED <<jobsVars, answersVars, taken, toSend, got, worker, handled, freed, unsent>>

MainClosesAnswers ==
  /\ stage = "closeAnswers"
  /\ AnswersChan!CloseChan(Main)
  /\ stage' = "free"
  /\ UNCHANGED <<jobsVars, taken, toSend, got, worker, handled, freed, unsent>>

(* chan_free of both channels                                                *)
MainFrees ==
  /\ stage = "free"
  /\ freed' = TRUE
  /\ stage' = "done"
  /\ UNCHANGED <<jobsVars, answersVars, taken, toSend, got, worker, handled, unsent>>

(* Main sleeps in a receive that nobody is left to answer.                   *)
Starved ==
  /\ unsent # {}
  /\ aPc[Main] = "not_empty"
  /\ \A w \in Workers : worker[w] = "exited"

(* The program has returned.                                                 *)
Finished == stage = "done" /\ UNCHANGED poolVars

WorkerStep(w) ==
  \/ WorkerReceives(w)
  \/ WorkerAnswers(w)
  \/ WorkerCounts(w)
  \/ WorkerExits(w)

MainStep ==
  \/ \E w \in Workers : SpawnWorker(w)
  \/ \E j \in Jobs : MainSends(j)
  \/ MainClosesJobs
  \/ MainReceives
  \/ MainTakes
  \/ JoinWorkers
  \/ MainClosesAnswers
  \/ MainFrees

PoolNext ==
  \/ MainStep
  \/ \E w \in Workers : WorkerStep(w)
  \/ \E t \in PoolThreads : InJobs(t) \/ InAnswers(t)
  \/ Finished

(* Every thread keeps running, and one that wants a mutex gets it.           *)
PoolFairness ==
  /\ WF_poolVars(MainStep)
  /\ \A w \in Workers : WF_poolVars(WorkerStep(w))
  /\ \A t \in PoolThreads : WF_poolVars(InJobs(t)) /\ WF_poolVars(InAnswers(t))

PoolSpec == PoolInit /\ [][PoolNext]_poolVars /\ PoolFairness

-----------------------------------------------------------------------------
(* chan_free is called on a channel nobody is inside and nobody will enter:  *)
(* "the join is what makes the free safe".                                   *)
FreeIsSafe ==
  freed =>
    /\ \A w \in Workers : worker[w] = "exited"
    /\ \A t \in PoolThreads : jPc[t] = "idle" /\ aPc[t] = "idle"

JobsAnsweredOnce == \A j \in Jobs : got[j] = 1

(* The answers the workers have counted; how many there are is the sum of    *)
(* their results.                                                            *)
Counted == UNION {{w} \X (1 .. handled[w]) : w \in Workers}

(* When main joins the workers every job has been answered exactly once, and *)
(* the workers' results add up to the jobs.                                  *)
EveryJobAnsweredOnce ==
  stage = "free" =>
    /\ JobsAnsweredOnce
    /\ Cardinality(Counted) = Cardinality(Jobs)

(* A round trip that has begun comes to rest: closing lets every receive loop*)
(* end, with every job that no send dropped handled and answered; and when   *)
(* none was dropped every join returns and main frees the channels.  When one*)
(* was, main waits for its answer for ever (Starved).                        *)
PoolFinishes ==
  (stage # "spawn") ~>
    /\ \A w \in Workers : worker[w] = "exited"
    /\ \A j \in Jobs \ unsent : got[j] = 1
    /\ stage = "done" \/ Starved
=============================================================================
