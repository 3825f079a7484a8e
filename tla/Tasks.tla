------------------------------- MODULE Tasks -------------------------------
(***************************************************************************)
(* Tasks, futures and scopes (runtime/program_support.c, PrismioTask and   *)
(* PrismioScope), driven by the calls the compiler emits for one function: *)
(* `spawn f(x)`, an async call kept as a future, `spawn fut`, `join` or    *)
(* `await`, the drop of a handle's binding, and `scope { }`.               *)
(*                                                                         *)
(* The owner thread runs the function.  A started task runs its body on a  *)
(* thread of its own and touches its PrismioTask when it reads the call it *)
(* is to make and when it stores the result.                               *)
(***************************************************************************)
EXTENDS Naturals

CONSTANTS
  Tasks,    \* the PrismioTask objects that can be created
  MaxDepth  \* bound: how deeply scopes nest

ASSUME MaxDepthAssumption == MaxDepth \in Nat

VARIABLES
  task,     \* the PrismioTask: memory state, reference count and flags
  thread,   \* its OS thread: "none", "ready", "running", "exited", "reaped"
  runs,     \* how often the body has been invoked
  stored,   \* the body has stored its result
  binding,  \* what the owner's code does with the handle, see Bindings
  home,     \* the scope whose list holds the task, 0 for none
  place,    \* its index in that list
  born,     \* the scope it was started in, 0 for none (history)
  depth,    \* how many scopes are open
  count,    \* PrismioScope.len of each scope
  owner,    \* "run", "join", "inline", "end" (in prismio_scope_end), "exited"
  target,   \* the task that the owner joins or runs inline
  next      \* prismio_scope_end's loop index

taskVars == <<task, thread, runs, stored, binding, home, place, born, depth,
              count, owner, target, next>>

(* "droppable": E-SPAWN-J proved that the handle is joined on every path     *)
(* before its block ends, so codegen releases it there.  "kept": it is not   *)
(* released.  "lost": not released, and its block has ended.                 *)
Bindings == {"none", "droppable", "kept", "lost"}

NoTask == [mem |-> "none", refs |-> 0, started |-> FALSE, threaded |-> FALSE,
           joined |-> FALSE]

TasksInit ==
  /\ task = [k \in Tasks |-> NoTask]
  /\ thread = [k \in Tasks |-> "none"]
  /\ runs = [k \in Tasks |-> 0]
  /\ stored = [k \in Tasks |-> FALSE]
  /\ binding = [k \in Tasks |-> "none"]
  /\ home = [k \in Tasks |-> 0]
  /\ place = [k \in Tasks |-> 0]
  /\ born = [k \in Tasks |-> 0]
  /\ depth = 0
  /\ count = [d \in 1 .. MaxDepth |-> 0]
  /\ owner = "run"
  /\ target \in Tasks
  /\ next = 0

-----------------------------------------------------------------------------
(* prismio_task_make *)
Made == [NoTask EXCEPT !.mem = "live", !.refs = 1]

(* prismio_task_begin, when the thread could be created *)
Begun(t) == [t EXCEPT !.started = TRUE, !.threaded = TRUE]

(* prismio_task_release *)
Released(t) ==
  IF t.refs <= 1 THEN [t EXCEPT !.refs = 0, !.mem = "freed"]
                 ELSE [t EXCEPT !.refs = @ - 1]

(* prismio_scope_add on the innermost scope, when there is one *)
Listed(t) == IF depth = 0 THEN t ELSE [t EXCEPT !.refs = @ + 1]

(* Mutant: the index of a new entry is the length after the append.          *)
ScopeAdd_OffByOne(k) ==
  /\ home' = [home EXCEPT ![k] = depth]
  /\ born' = [born EXCEPT ![k] = depth]
  /\ place' = IF depth = 0 THEN place ELSE [place EXCEPT ![k] = count[depth] + 1]
  /\ count' = IF depth = 0 THEN count ELSE [count EXCEPT ![depth] = @ + 1]

ScopeAdd(k) ==
  /\ home' = [home EXCEPT ![k] = depth]
  /\ born' = [born EXCEPT ![k] = depth]
  /\ place' = IF depth = 0 THEN place ELSE [place EXCEPT ![k] = count[depth]]
  /\ count' = IF depth = 0 THEN count ELSE [count EXCEPT ![depth] = @ + 1]

Running == owner = "run"

-----------------------------------------------------------------------------
(* `let k = spawn f(x)`: prismio_scope_spawn in a scope, else                *)
(* prismio_task_spawn.                                                       *)
SpawnBound(k, b) ==
  /\ Running /\ task[k].mem = "none"
  /\ task' = [task EXCEPT ![k] = Listed(Begun(Made))]
  /\ thread' = [thread EXCEPT ![k] = "ready"]
  /\ binding' = [binding EXCEPT ![k] = b]
  /\ ScopeAdd(k)
  /\ UNCHANGED <<runs, stored, depth, owner, target, next>>

(* Mutant: the statement keeps its own reference.                            *)
SpawnStatement_NoRelease(k) ==
  /\ Running /\ task[k].mem = "none"
  /\ task' = [task EXCEPT ![k] = Listed(Begun(Made))]
  /\ thread' = [thread EXCEPT ![k] = "ready"]
  /\ binding' = [binding EXCEPT ![k] = IF depth = 0 THEN "lost" ELSE "none"]
  /\ ScopeAdd(k)
  /\ UNCHANGED <<runs, stored, depth, owner, target, next>>

(* `spawn { ... }` as a statement of a scope lets its own reference go at    *)
(* once; outside a scope nothing releases the handle.                        *)
SpawnStatement(k) ==
  /\ Running /\ task[k].mem = "none"
  /\ task' = [task EXCEPT ![k] = IF depth = 0 THEN Begun(Made)
                                 ELSE Released(Listed(Begun(Made)))]
  /\ thread' = [thread EXCEPT ![k] = "ready"]
  /\ binding' = [binding EXCEPT ![k] = IF depth = 0 THEN "lost" ELSE "none"]
  /\ ScopeAdd(k)
  /\ UNCHANGED <<runs, stored, depth, owner, target, next>>

(* An `async fn` called and not awaited: prismio_future_new.                 *)
FutureBound(k, b) ==
  /\ Running /\ task[k].mem = "none"
  /\ task' = [task EXCEPT ![k] = Made]
  /\ binding' = [binding EXCEPT ![k] = b]
  /\ UNCHANGED <<thread, runs, stored, home, place, born, depth, count,
                 owner, target, next>>

(* The same as a statement of a scope: released where it stands.             *)
FutureStatement(k) ==
  /\ Running /\ task[k].mem = "none" /\ depth > 0
  /\ task' = [task EXCEPT ![k] = Released(Made)]
  /\ UNCHANGED <<thread, runs, stored, binding, home, place, born, depth, count,
                 owner, target, next>>

(* The owner's code can still name the handle.                               *)
Named(k) == binding[k] \in {"droppable", "kept"}

(* Mutant: a task that has started is started again, on a second thread.     *)
StartFuture_Again(k) ==
  /\ Running /\ Named(k) /\ ~task[k].joined
  /\ task' = [task EXCEPT ![k] = Listed(Begun(task[k]))]
  /\ thread' = [thread EXCEPT ![k] = "ready"]
  /\ ScopeAdd(k)
  /\ UNCHANGED <<runs, stored, binding, depth, owner, target, next>>

(* `spawn fut`: prismio_task_start.  The scope takes its reference only if   *)
(* this call starts the task; a task that has started is left alone.         *)
StartFuture(k) ==
  /\ Running /\ Named(k) /\ ~task[k].started
  /\ task' = [task EXCEPT ![k] = Listed(Begun(task[k]))]
  /\ thread' = [thread EXCEPT ![k] = "ready"]
  /\ ScopeAdd(k)
  /\ UNCHANGED <<runs, stored, binding, depth, owner, target, next>>

(* prismio_task_start_failed: the program exits with code 101.               *)
StartFails(k) ==
  /\ Running /\ ~task[k].started
  /\ task[k].mem = "none" \/ Named(k)
  /\ owner' = "exited"
  /\ UNCHANGED <<task, thread, runs, stored, binding, home, place, born, depth,
                 count, target, next>>

-----------------------------------------------------------------------------
(* prismio_task_await on a future nobody started: the body runs here.        *)
AwaitInline(k) ==
  /\ Running /\ Named(k) /\ ~task[k].joined /\ ~task[k].started
  /\ task' = [task EXCEPT ![k].started = TRUE]
  /\ runs' = [runs EXCEPT ![k] = @ + 1]
  /\ owner' = "inline" /\ target' = k
  /\ UNCHANGED <<thread, stored, binding, home, place, born, depth, count, next>>

InlineReturns ==
  /\ owner = "inline"
  /\ stored' = [stored EXCEPT ![target] = TRUE]
  /\ task' = [task EXCEPT ![target].joined = TRUE]
  /\ owner' = "run"
  /\ UNCHANGED <<thread, runs, binding, home, place, born, depth, count, target, next>>

(* Mutant: a second join waits for the thread that the first one reaped.     *)
AwaitThread_Twice(k) ==
  /\ Running /\ Named(k) /\ task[k].threaded
  /\ owner' = "join" /\ target' = k
  /\ UNCHANGED <<task, thread, runs, stored, binding, home, place, born, depth,
                 count, next>>

(* On a task with a thread: pthread_join.                                    *)
AwaitThread(k) ==
  /\ Running /\ Named(k) /\ ~task[k].joined /\ task[k].threaded
  /\ owner' = "join" /\ target' = k
  /\ UNCHANGED <<task, thread, runs, stored, binding, home, place, born, depth,
                 count, next>>

JoinReturns ==
  /\ owner = "join" /\ thread[target] = "exited"
  /\ thread' = [thread EXCEPT ![target] = "reaped"]
  /\ task' = [task EXCEPT ![target].joined = TRUE]
  /\ owner' = "run"
  /\ UNCHANGED <<runs, stored, binding, home, place, born, depth, count, target, next>>

(* Mutant: the drop does not wait for E-SPAWN-J's join.                      *)
DropHandle_Unjoined(k) ==
  /\ Running /\ binding[k] = "droppable"
  /\ task' = [task EXCEPT ![k] = Released(task[k])]
  /\ binding' = [binding EXCEPT ![k] = "none"]
  /\ UNCHANGED <<thread, runs, stored, home, place, born, depth, count,
                 owner, target, next>>

(* The drop of a droppable binding, at the end of its block or on a return.  *)
DropHandle(k) ==
  /\ Running /\ binding[k] = "droppable" /\ task[k].joined
  /\ task' = [task EXCEPT ![k] = Released(task[k])]
  /\ binding' = [binding EXCEPT ![k] = "none"]
  /\ UNCHANGED <<thread, runs, stored, home, place, born, depth, count,
                 owner, target, next>>

(* A block ends over a handle that no drop was emitted for.                  *)
LoseHandle(k) ==
  /\ Running /\ binding[k] = "kept"
  /\ binding' = [binding EXCEPT ![k] = "lost"]
  /\ UNCHANGED <<task, thread, runs, stored, home, place, born, depth, count,
                 owner, target, next>>

-----------------------------------------------------------------------------
(* prismio_scope_new *)
EnterScope ==
  /\ Running /\ depth < MaxDepth
  /\ depth' = depth + 1
  /\ count' = [count EXCEPT ![depth + 1] = 0]
  /\ UNCHANGED <<task, thread, runs, stored, binding, home, place, born,
                 owner, target, next>>

(* prismio_scope_end is reached on every path out of the block.  The drops   *)
(* of the block's handles come in either order with it.                      *)
LeaveScope ==
  /\ Running /\ depth > 0
  /\ owner' = "end" /\ next' = 0
  /\ UNCHANGED <<task, thread, runs, stored, binding, home, place, born, depth,
                 count, target>>

(* Mutant: the scope releases its tasks without awaiting them.               *)
EndOne_NoAwait(k) ==
  /\ owner = "end" /\ next < count[depth]
  /\ home[k] = depth /\ place[k] = next
  /\ task' = [task EXCEPT ![k] = Released(task[k])]
  /\ home' = [home EXCEPT ![k] = 0]
  /\ next' = next + 1
  /\ UNCHANGED <<thread, runs, stored, binding, place, born, depth, count, owner, target>>

(* One round of its loop: await the task at the index, then release it.      *)
EndOne(k) ==
  /\ owner = "end" /\ next < count[depth]
  /\ home[k] = depth /\ place[k] = next
  /\ task[k].joined \/ thread[k] = "exited"
  /\ thread' = [thread EXCEPT ![k] = "reaped"]
  /\ task' = [task EXCEPT ![k] = Released([task[k] EXCEPT !.joined = TRUE])]
  /\ home' = [home EXCEPT ![k] = 0]
  /\ next' = next + 1
  /\ UNCHANGED <<runs, stored, binding, place, born, depth, count, owner, target>>

EndDone ==
  /\ owner = "end" /\ next = count[depth]
  /\ depth' = depth - 1
  /\ owner' = "run"
  /\ UNCHANGED <<task, thread, runs, stored, binding, home, place, born, count,
                 target, next>>

-----------------------------------------------------------------------------
(* prismio_task_entry on the task's own thread.                              *)
ThreadEnters(k) ==
  /\ owner # "exited" /\ thread[k] = "ready"
  /\ thread' = [thread EXCEPT ![k] = "running"]
  /\ runs' = [runs EXCEPT ![k] = @ + 1]
  /\ UNCHANGED <<task, stored, binding, home, place, born, depth, count,
                 owner, target, next>>

ThreadExits(k) ==
  /\ owner # "exited" /\ thread[k] = "running"
  /\ thread' = [thread EXCEPT ![k] = "exited"]
  /\ stored' = [stored EXCEPT ![k] = TRUE]
  /\ UNCHANGED <<task, runs, binding, home, place, born, depth, count,
                 owner, target, next>>

Worker(k) == ThreadEnters(k) \/ ThreadExits(k)

Waits == InlineReturns \/ JoinReturns \/ (\E k \in Tasks : EndOne(k)) \/ EndDone

TasksNext ==
  \/ \E k \in Tasks :
       \/ \E b \in {"droppable", "kept"} : SpawnBound(k, b) \/ FutureBound(k, b)
       \/ SpawnStatement(k)
       \/ FutureStatement(k)
       \/ StartFuture(k)
       \/ StartFails(k)
       \/ AwaitInline(k)
       \/ AwaitThread(k)
       \/ DropHandle(k)
       \/ LoseHandle(k)
       \/ Worker(k)
  \/ EnterScope
  \/ LeaveScope
  \/ Waits

(* Bodies finish, and the owner goes on when what it waits for has happened. *)
TasksFairness == WF_taskVars(Waits) /\ \A k \in Tasks : WF_taskVars(Worker(k))

TasksSafeSpec == TasksInit /\ [][TasksNext]_taskVars
TasksSpec == TasksSafeSpec /\ TasksFairness

-----------------------------------------------------------------------------
(* The variables hold what PrismioTask and PrismioScope can hold.            *)
TasksTypeOK ==
  /\ task \in [Tasks -> [mem : {"none", "live", "freed"}, refs : 0 .. 2,
                         started : BOOLEAN, threaded : BOOLEAN, joined : BOOLEAN]]
  /\ thread \in [Tasks -> {"none", "ready", "running", "exited", "reaped"}]
  /\ runs \in [Tasks -> Nat]
  /\ stored \in [Tasks -> BOOLEAN]
  /\ binding \in [Tasks -> Bindings]
  /\ home \in [Tasks -> 0 .. MaxDepth]
  /\ place \in [Tasks -> Nat]
  /\ born \in [Tasks -> 0 .. MaxDepth]
  /\ depth \in 0 .. MaxDepth
  /\ count \in [1 .. MaxDepth -> Nat]
  /\ owner \in {"run", "join", "inline", "end", "exited"}
  /\ target \in Tasks
  /\ next \in Nat

(* The count of a PrismioTask is exactly the holders that will still release *)
(* or use it, its binding and its scope, and the object is freed with the    *)
(* last of them, in whichever order the drop and the scope's end come.       *)
Holders(k) ==
  (IF binding[k] = "none" THEN 0 ELSE 1) + (IF home[k] = 0 THEN 0 ELSE 1)

RefsAreHolders ==
  \A k \in Tasks :
    /\ task[k].refs = Holders(k)
    /\ task[k].mem = "live" <=> task[k].refs > 0

(* A task's thread never touches a freed PrismioTask: until it has exited    *)
(* the object is live ("freeing a handle a running task still writes its     *)
(* result into is the failure this must not have", ir/stmt.psm).             *)
ThreadOwnsItsTask ==
  \A k \in Tasks : thread[k] \in {"ready", "running"} => task[k].mem = "live"

(* Nothing a scope started runs after the scope has ended: a thread started  *)
(* in a scope is listed by that scope, which is still open.                  *)
ScopeOutlivesItsTasks ==
  \A k \in Tasks :
    thread[k] \in {"ready", "running"} /\ born[k] > 0 =>
      home[k] = born[k] /\ home[k] <= depth

(* A body runs at most once, inline or on a thread, and a task that counts   *)
(* as joined has its result (prismio_task_await).                            *)
RunsOnce ==
  \A k \in Tasks :
    /\ runs[k] <= 1
    /\ task[k].joined => stored[k] /\ runs[k] = 1 /\ thread[k] \in {"none", "reaped"}

(* The list of an open scope has one task at every index that                *)
(* prismio_scope_end has not passed, so its loop never meets a hole.         *)
ScopeListIsDense ==
  \A d \in 1 .. depth :
    \A i \in (IF owner = "end" /\ d = depth THEN next ELSE 0) .. count[d] - 1 :
      \E k \in Tasks : home[k] = d /\ place[k] = i

(* Every join, every inline await and every scope's end comes to an end.     *)
WaitsEnd == (owner \notin {"run", "exited"}) ~> (owner = "run")
=============================================================================
