--------------------------- MODULE MCConcurrency ----------------------------
(***************************************************************************)
(* What runs concurrently, for TLC: threads on one channel, tasks in       *)
(* scopes, the worker pool made of both, or the language server's loop     *)
(* with its child.  Each has its own state, so that a behaviour is of one  *)
(* of them while the others rest in their first state.  Liveness is        *)
(* checked, so the model values have no symmetry set.                      *)
(***************************************************************************)
EXTENDS Channel, Tasks, Pool, MCLanguageServer

VARIABLE part

concurrentVars == <<part, vars, taskVars, poolVars, serverVars>>

\* A part that does not run rests in one of its initial states.
TasksRest == target = (CHOOSE k \in Tasks : TRUE) /\ TasksInit
ServerRests == layout = OneProgram /\ disk = [f \in Sources |-> "clean"] /\ ServerInit

ConcurrentInit ==
    /\ Init /\ PoolInit
    /\ \/ part \in {"channel", "pool"} /\ TasksRest /\ ServerRests
       \/ part = "tasks" /\ TasksInit /\ ServerRests
       \/ part = "server" /\ TasksRest /\ ServerInit

\* A program that has exited and a server that has ended do nothing more, and
\* nothing wakes a main thread that waits for a dropped job.
Over ==
    /\ \/ part = "tasks" /\ owner = "exited"
       \/ part = "server" /\ server = "exited"
       \/ part = "pool" /\ Starved
    /\ UNCHANGED concurrentVars

ConcurrentNext ==
    \/ part = "channel" /\ Next /\ UNCHANGED <<part, taskVars, poolVars, serverVars>>
    \/ part = "tasks" /\ TasksNext /\ UNCHANGED <<part, vars, poolVars, serverVars>>
    \/ part = "pool" /\ PoolNext /\ UNCHANGED <<part, vars, taskVars, serverVars>>
    \/ part = "server" /\ ServerNext /\ UNCHANGED <<part, vars, taskVars, poolVars>>
    \/ Over

\* The fairness of each module, of the part that runs.
ConcurrentFairness ==
    /\ \A t \in Threads : WF_vars(part = "channel" /\ Locked(t))
    /\ WF_taskVars(part = "tasks" /\ Waits)
    /\ \A k \in Tasks : WF_taskVars(part = "tasks" /\ Worker(k))
    /\ WF_poolVars(part = "pool" /\ MainStep)
    /\ \A w \in Workers : WF_poolVars(part = "pool" /\ WorkerStep(w))
    /\ \A t \in PoolThreads :
         /\ WF_poolVars(part = "pool" /\ InJobs(t))
         /\ WF_poolVars(part = "pool" /\ InAnswers(t))
    /\ WF_serverVars(part = "server" /\ Tick)
    /\ WF_serverVars(part = "server" /\ (CheckDies \/ CheckEnds))

ConcurrentSpec == ConcurrentInit /\ [][ConcurrentNext]_concurrentVars /\ ConcurrentFairness
=============================================================================
