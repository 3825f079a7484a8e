----------------------------- MODULE Partitions -----------------------------
(***************************************************************************)
(* ir_emit_object (runtime/llvm-api-backend.c): the merged program is      *)
(* internalised and optimised as one module, then split into partitions    *)
(* that are lowered on a thread each, in a context of their own, and linked*)
(* together again.  The split has to be invisible: a local symbol used     *)
(* across it becomes a hidden global, a constant is copied, and a variable *)
(* keeps one storage.                                                      *)
(*                                                                         *)
(* Symbols are numbered in module order, and 1 is `main`.  LLVM's passes   *)
(* are external: what globaldce keeps is modelled, instructions are not.   *)
(* Names of promoted symbols are unique: the program's other objects define*)
(* none of them.                                                           *)
(***************************************************************************)
EXTENDS Integers, FiniteSets

CONSTANTS
    SymbolCount,
    PartitionCount, \* CODEGEN_MAX_PARTITIONS or the thread budget
    Units           \* the modules a program may be merged into

Ids == 1..SymbolCount
Parts == 0..(PartitionCount - 1)

Kinds == {"function", "variable", "constant", "appending", "absent"}
Linkages == {"external", "local", "available"}

ASSUME UnitsAssumption ==
    /\ SymbolCount \in Nat \ {0}
    /\ PartitionCount \in Nat \ {0}
    /\ Units \subseteq [kind : [Ids -> Kinds \ {"absent"}], linkage : [Ids -> Linkages],
                        refs : [Ids -> SUBSET Ids], weight : [Ids -> Nat \ {0}]]

VARIABLES
    unit,       \* the module being emitted
    closed,     \* program_is_closed: no caller outside this module
    emitStage,
    split,      \* the pipeline's second half is left to the partitions
    halves,     \* how often each half of the pipeline ran on the whole module
    owner,      \* function -> its partition, -1 when it has none
    load,       \* partition -> the instructions it was given
    job,        \* partition -> "idle", "thread" (running), "inline", "done" or "failed"
    toolBroke,  \* history: LLVM failed, or an allocation did
    objects,    \* partition -> the object file at its path: what it defines and uses
    extra       \* *extra_objects

emissionVars == <<unit, closed, emitStage, split, halves, owner, load, job, toolBroke,
                  objects, extra>>

NoObject == [there |-> FALSE, defs |-> {}, uses |-> {}, second |-> 0]
Unfinished == [there |-> TRUE, defs |-> {}, uses |-> {}, second |-> 0]

EmissionInit ==
    /\ unit \in Units
    /\ closed \in BOOLEAN
    /\ emitStage = "read"
    /\ split = FALSE
    /\ halves = [first |-> 0, second |-> 0]
    /\ owner = [s \in Ids |-> -1]
    /\ load = [p \in Parts |-> 0]
    /\ job = [p \in Parts |-> "idle"]
    /\ toolBroke = FALSE
    /\ objects = [p \in Parts |-> NoObject]
    /\ extra = 0

----------------------------------------------------------------------------
Kind(s) == unit.kind[s]
IsLocal(s) == unit.linkage[s] = "local"
Functions == {s \in Ids : Kind(s) = "function"}
Globals == {s \in Ids : Kind(s) \in {"variable", "constant", "appending"}}
Users(s) == {t \in Ids : s \in unit.refs[t]}

EmitAt(s) == emitStage = s
EmitTo(s) == emitStage' = s

\* The least set that holds the seed and what Step names of its members.
Closure(universe, seed, Step(_)) ==
    {x \in universe :
        \A S \in SUBSET universe :
            seed \subseteq S /\ (\A y \in S : Step(y) \subseteq S) => x \in S}

\* globaldce (external): a local symbol that no kept symbol uses is dropped.
Alive(present) ==
    Closure(present, {s \in present : ~IsLocal(s)}, LAMBDA s : unit.refs[s] \cap present)

Drop(gone, u) ==
    [u EXCEPT !.kind = [s \in Ids |-> IF s \in gone THEN "absent" ELSE @[s]],
              !.refs = [s \in Ids |-> IF s \in gone THEN {} ELSE @[s]]]

\* A pass of LLVM failed; or, in a split, the memory to place the functions, to
\* hold the bitcode or to describe the jobs was not to be had.
ToolBreaks ==
    /\ toolBroke' = TRUE
    /\ EmitTo("failed")
    /\ UNCHANGED <<unit, closed, split, halves, owner, load, job, objects, extra>>

\* The held module, or the file at ir_path, and its target.
ReadProgram ==
    /\ EmitAt("read")
    /\ EmitTo("internalize")
    /\ UNCHANGED <<unit, closed, split, halves, owner, load, job, toolBroke, objects, extra>>

\* internalize_executable: everything a closed program defines but `main` and
\* the appending globals becomes internal.
Internalize ==
    /\ EmitAt("internalize")
    /\ unit' = IF ~closed THEN unit
               ELSE [unit EXCEPT !.linkage = [s \in Ids |->
                        IF s = 1 \/ @[s] = "available" \/ Kind(s) = "appending"
                        THEN @[s] ELSE "local"]]
    /\ EmitTo("optimize")
    /\ UNCHANGED <<closed, split, halves, owner, load, job, toolBroke, objects, extra>>

\* The pipeline is split when the module is large enough to be partitioned; -O0
\* and PRISMIO_SPLIT_PIPELINE=0 keep it whole.  An optimised module has no
\* unreachable local symbol; one built at -O0 may.
Optimize(halved, dce) ==
    /\ EmitAt("optimize")
    /\ split' = halved
    /\ halves' = [first |-> halves.first + 1,
                  second |-> IF halved THEN halves.second ELSE halves.second + 1]
    /\ LET kept == Alive(Functions \cup Globals)
       IN  unit' = IF dce THEN Drop(Ids \ kept, unit) ELSE unit
    /\ EmitTo("count")
    /\ UNCHANGED <<closed, owner, load, job, toolBroke, objects, extra>>

\* Mutant: a split pipeline is not finished when the module stays whole.
KeepWhole_HalfDone ==
    /\ EmitAt("count")
    /\ EmitTo("whole")
    /\ UNCHANGED <<unit, closed, split, halves, owner, load, job, toolBroke, objects, extra>>

\* codegen_partition_count: too small, one thread, an alias or inline assembly.
\* A split pipeline is then finished here.
KeepWhole ==
    /\ EmitAt("count")
    /\ halves' = [halves EXCEPT !.second = IF split THEN @ + 1 ELSE @]
    /\ EmitTo("whole")
    /\ UNCHANGED <<unit, closed, split, owner, load, job, toolBroke, objects, extra>>

Partition ==
    /\ EmitAt("count")
    /\ PartitionCount > 1
    /\ EmitTo("assign")
    /\ UNCHANGED <<unit, closed, split, halves, owner, load, job, toolBroke, objects, extra>>

EmitWhole ==
    /\ EmitAt("whole")
    /\ objects' = [objects EXCEPT ![0] =
                      [there |-> TRUE, second |-> halves.second, uses |-> {},
                       defs |-> {s \in Functions \cup Globals : unit.linkage[s] # "available"}]]
    /\ EmitTo("emitted")
    /\ UNCHANGED <<unit, closed, split, halves, owner, load, job, toolBroke, extra>>

\* LLVM could not write the object.  What it had written stays at obj_path.
WholeBreaks ==
    /\ EmitAt("whole")
    /\ \E left \in {NoObject, Unfinished} : objects' = [objects EXCEPT ![0] = left]
    /\ toolBroke' = TRUE
    /\ EmitTo("failed")
    /\ UNCHANGED <<unit, closed, split, halves, owner, load, job, extra>>

----------------------------------------------------------------------------
\* assign_partitions: the heaviest function first, the earlier of two equals,
\* onto the lightest partition, the earlier of two equals.
Heavier(s, t) ==
    \/ unit.weight[s] > unit.weight[t]
    \/ unit.weight[s] = unit.weight[t] /\ s < t

Unassigned == {s \in Functions : owner[s] = -1}
IsHeaviest(s) == \A t \in Unassigned \ {s} : Heavier(s, t)
IsLightest(p) == \A q \in Parts \ {p} : load[p] < load[q] \/ (load[p] = load[q] /\ p < q)

AssignOne(s, p) ==
    /\ EmitAt("assign")
    /\ s \in Unassigned /\ IsHeaviest(s)
    /\ IsLightest(p)
    /\ owner' = [owner EXCEPT ![s] = p]
    /\ load' = [load EXCEPT ![p] = @ + unit.weight[s]]
    /\ UNCHANGED <<unit, closed, emitStage, split, halves, job, toolBroke, objects, extra>>

\* users_partition: the one partition whose instructions use s, -1 for none, -2
\* for several or for a user that is not an instruction.
UsersPartition(s) ==
    LET parts == {owner[t] : t \in Users(s)}
    IN  IF Users(s) = {} THEN -1
        ELSE IF Users(s) \subseteq Functions /\ Cardinality(parts) = 1
        THEN CHOOSE p \in parts : TRUE
        ELSE -2

\* Mutant: only functions are promoted.
Promoted_FunctionsOnly ==
    {f \in Functions : IsLocal(f) /\ UsersPartition(f) \notin {-1, owner[f]}}

Promoted ==
    {f \in Functions : IsLocal(f) /\ UsersPartition(f) \notin {-1, owner[f]}}
        \cup {g \in Globals : IsLocal(g) /\ Kind(g) # "constant" /\ UsersPartition(g) = -2}

\* promote_cross_partition_locals makes them hidden globals; then the module is
\* written as the bitcode each partition reads.
PromoteLocals ==
    /\ EmitAt("assign")
    /\ Unassigned = {}
    /\ unit' = [unit EXCEPT !.linkage = [s \in Ids |-> IF s \in Promoted THEN "external" ELSE @[s]]]
    /\ EmitTo("start")
    /\ UNCHANGED <<closed, split, halves, owner, load, job, toolBroke, objects, extra>>

\* Partition 0 runs here; a thread that cannot start has its partition run here
\* after it.
StartThreads(started) ==
    /\ EmitAt("start")
    /\ job' = [p \in Parts |-> IF p \in started THEN "thread" ELSE "inline"]
    /\ EmitTo("lower")
    /\ UNCHANGED <<unit, closed, split, halves, owner, load, toolBroke, objects, extra>>

\* emit_one_partition.  The functions another partition owns lose their bodies;
\* a global with a symbol is defined by partition 0; locals are in every
\* partition, for globaldce to keep what each one uses.
Mine(p) == {f \in Functions : owner[f] = p}
Initialised(p) == {g \in Globals : p = 0 \/ IsLocal(g)}
Present(p) == Mine(p) \cup Initialised(p)

\* A local function whose body went is deleted, unless it is still used here.
StillCalled(p) ==
    \E f \in Functions \ Mine(p) : IsLocal(f) /\ Users(f) \cap Present(p) # {}

Lowered(p) ==
    {s \in Alive(Present(p)) : unit.linkage[s] # "available"}

Turn(p) ==
    \/ job[p] = "thread"
    \/ job[p] = "inline" /\ \A q \in Parts : q < p => job[q] # "inline"

EmitPartition(p) ==
    /\ EmitAt("lower")
    /\ Turn(p)
    /\ IF StillCalled(p)
       THEN job' = [job EXCEPT ![p] = "failed"] /\ UNCHANGED objects
       ELSE /\ job' = [job EXCEPT ![p] = "done"]
            /\ objects' = [objects EXCEPT ![p] =
                  [there |-> TRUE, defs |-> Lowered(p),
                   uses |-> (UNION {unit.refs[s] : s \in Lowered(p)}) \ Lowered(p),
                   second |-> halves.second + IF split THEN 1 ELSE 0]]
    /\ UNCHANGED <<unit, closed, emitStage, split, halves, owner, load, toolBroke, extra>>

\* LLVM could not read a function, run a pass or write the object.
PartitionBreaks(p) ==
    /\ EmitAt("lower")
    /\ Turn(p)
    /\ job' = [job EXCEPT ![p] = "failed"]
    /\ toolBroke' = TRUE
    /\ UNCHANGED <<unit, closed, emitStage, split, halves, owner, load, objects, extra>>

\* All are joined.  One that failed takes every object with it.
Join ==
    /\ EmitAt("lower")
    /\ \A p \in Parts : job[p] \in {"done", "failed"}
    /\ IF \E p \in Parts : job[p] = "failed"
       THEN /\ objects' = [p \in Parts |-> NoObject]
            /\ extra' = 0
            /\ EmitTo("failed")
       ELSE /\ extra' = PartitionCount - 1
            /\ EmitTo("emitted")
            /\ UNCHANGED objects
    /\ UNCHANGED <<unit, closed, split, halves, owner, load, job, toolBroke>>

EmissionNext ==
    \/ ReadProgram \/ Internalize
    \/ \E h, d \in BOOLEAN : Optimize(h, d)
    \/ KeepWhole \/ Partition \/ EmitWhole
    \/ EmitAt("read") /\ ToolBreaks
    \/ EmitAt("optimize") /\ ToolBreaks
    \/ EmitAt("count") /\ split /\ ToolBreaks
    \/ WholeBreaks
    \/ EmitAt("assign") /\ ToolBreaks
    \/ EmitAt("start") /\ ToolBreaks
    \/ \E s \in Ids, p \in Parts : AssignOne(s, p)
    \/ PromoteLocals
    \/ \E started \in SUBSET (Parts \ {0}) : StartThreads(started)
    \/ \E p \in Parts : EmitPartition(p) \/ PartitionBreaks(p)
    \/ Join

EmissionSpec == EmissionInit /\ [][EmissionNext]_emissionVars

----------------------------------------------------------------------------
(***************************************************************************)
(* Properties                                                              *)
(***************************************************************************)

LinkedParts == {p \in Parts : p <= extra}
DefinedIn(s) == {p \in LinkedParts : s \in objects[p].defs}

\* What the program consists of: the symbols reachable from those visible in the
\* whole module.
WholeProgram == Alive(Functions \cup Globals)

\* The objects the driver links make one program: each symbol that is visible to
\* the linker is defined once, so is each variable, whatever its linkage; a name
\* an object uses and does not define is visible and defined by another, or is
\* the runtime's; and all of the program is there.
SplitLinks ==
    EmitAt("emitted") =>
        /\ \A s \in WholeProgram : unit.linkage[s] = "available" \/ DefinedIn(s) # {}
        /\ \A s \in Ids :
              Cardinality(DefinedIn(s)) > 1 => IsLocal(s) /\ Kind(s) = "constant"
        /\ \A p \in LinkedParts : \A s \in objects[p].uses :
              ~IsLocal(s) /\ (unit.linkage[s] = "available" \/ DefinedIn(s) # {})

\* Each half of the optimisation pipeline ran exactly once on every function, and
\* the driver is told of exactly the objects that exist; when it is told of a
\* failure LLVM or an allocation failed, and no partition's object is left: only
\* a module that was lowered whole may leave what was written of its one object.
EmissionIsWhole ==
    /\ EmitAt("emitted") =>
          /\ LinkedParts = {p \in Parts : objects[p].there}
          /\ halves.first = 1 /\ \A p \in LinkedParts : objects[p].second = 1
    /\ EmitAt("failed") =>
          /\ toolBroke
          /\ \A p \in Parts : objects[p].there => p = 0 /\ \A q \in Parts : job[q] = "idle"
=============================================================================
