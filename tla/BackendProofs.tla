--------------------------- MODULE BackendProofs ---------------------------
(***************************************************************************)
(* What the backend's handling of whole modules guarantees: the emission   *)
(* of a module in partitions, for every module and every number of         *)
(* partitions, and the merge of the libraries, for every set of modules.   *)
(***************************************************************************)
EXTENDS Partitions, Linking, FiniteSetTheorems, WellFoundedInduction, TLAPS

Objects == [there : BOOLEAN, defs : SUBSET Ids, uses : SUBSET Ids, second : Nat]

EmissionTypeOK ==
    /\ unit \in [kind : [Ids -> Kinds], linkage : [Ids -> Linkages],
                 refs : [Ids -> SUBSET Ids], weight : [Ids -> Nat \ {0}]]
    /\ split \in BOOLEAN
    /\ owner \in [Ids -> Parts \cup {-1}]
    /\ job \in [Parts -> {"idle", "thread", "inline", "done", "failed"}]
    /\ objects \in [Parts -> Objects]

\* Nothing that is left of the module uses what was dropped.
UsesAreThere == \A s \in Ids : unit.refs[s] \subseteq Functions \cup Globals

\* Each half of the pipeline has run once, or is left to the partitions.
HalvesRun ==
    /\ emitStage \in {"read", "internalize", "optimize"}
          => halves = [first |-> 0, second |-> 0]
    /\ emitStage \in {"count", "assign", "start", "lower"}
          => halves = [first |-> 1, second |-> IF split THEN 0 ELSE 1]
    /\ emitStage = "whole" => halves = [first |-> 1, second |-> 1]
    /\ emitStage = "emitted" => halves.first = 1

\* Every function has a partition; a local one that others use, and a local
\* variable that several partitions use, are local no more.
EveryoneOwned == \A f \in Functions : owner[f] \in Parts
NoneStillCalled == \A p \in Parts : ~StillCalled(p)
VariablesStayHome ==
    \A g \in Globals : IsLocal(g) /\ Kind(g) # "constant" /\ Users(g) # {} =>
        Users(g) \subseteq Functions /\ \E p \in Parts : \A t \in Users(g) : owner[t] = p

SplitReady == EveryoneOwned /\ NoneStillCalled /\ VariablesStayHome

PartObject(p) ==
    [there |-> TRUE, defs |-> Lowered(p),
     uses |-> (UNION {unit.refs[s] : s \in Lowered(p)}) \ Lowered(p),
     second |-> 1]

WholeObject ==
    [there |-> TRUE, second |-> 1, uses |-> {},
     defs |-> {s \in Functions \cup Globals : unit.linkage[s] # "available"}]

\* What a failed emission may leave at its path.
NoPartLeft ==
    \A p \in Parts : objects[p].there => p = 0 /\ \A q \in Parts : job[q] = "idle"

ObjectsMade ==
    /\ emitStage \notin {"lower", "emitted", "failed"} =>
          /\ extra = 0 /\ objects = [p \in Parts |-> NoObject]
          /\ \A p \in Parts : job[p] = "idle"
    /\ emitStage \in {"start", "lower"} => SplitReady
    /\ emitStage = "lower" =>
          /\ extra = 0
          /\ \A p \in Parts :
                /\ job[p] # "idle"
                /\ objects[p] = IF job[p] = "done" THEN PartObject(p) ELSE NoObject
                /\ job[p] = "failed" => toolBroke
    /\ emitStage = "emitted" =>
          \/ /\ extra = 0
             /\ objects = [p \in Parts |-> IF p = 0 THEN WholeObject ELSE NoObject]
          \/ /\ extra = PartitionCount - 1
             /\ SplitReady
             /\ objects = [p \in Parts |-> PartObject(p)]
    /\ emitStage = "failed" => toolBroke /\ NoPartLeft

EmissionInv == EmissionTypeOK /\ UsesAreThere /\ HalvesRun /\ ObjectsMade

----------------------------------------------------------------------------

\* What globaldce keeps: the visible symbols, what a kept symbol uses, no more.
LEMMA AliveKeeps ==
  ASSUME NEW present
  PROVE  /\ Alive(present) \subseteq present
         /\ \A s \in present : ~IsLocal(s) => s \in Alive(present)
         /\ \A s \in Alive(present) : unit.refs[s] \cap present \subseteq Alive(present)
  BY DEF Alive, Closure

LEMMA AliveIsLeast ==
  ASSUME NEW present, NEW S \in SUBSET present,
         \A s \in present : ~IsLocal(s) => s \in S,
         \A s \in S : unit.refs[s] \cap present \subseteq S
  PROVE  Alive(present) \subseteq S
  BY DEF Alive, Closure

\* What the partitions are made of depends on the module and on who owns what.
LEMMA SameModule ==
  ASSUME UNCHANGED <<unit, owner>>
  PROVE  /\ SplitReady' = SplitReady
         /\ \A p \in Parts : PartObject(p)' = PartObject(p)
         /\ WholeObject' = WholeObject
         /\ UsesAreThere' = UsesAreThere
<1>1. /\ Functions' = Functions /\ Globals' = Globals
      /\ \A s : Users(s)' = Users(s) /\ (IsLocal(s)' <=> IsLocal(s)) /\ Kind(s)' = Kind(s)
  BY DEF Functions, Globals, Users, IsLocal, Kind
<1>2. \A p : Mine(p)' = Mine(p) /\ Present(p)' = Present(p)
  BY <1>1 DEF Mine, Present, Initialised
<1>3. \A p : Alive(Present(p))' = Alive(Present(p))
  BY <1>1, <1>2 DEF Alive, Closure
<1>4. \A p : Lowered(p)' = Lowered(p)
  BY <1>3 DEF Lowered
<1>5. \A p : StillCalled(p)' <=> StillCalled(p)
  BY <1>1, <1>2 DEF StillCalled
<1>6. SplitReady' = SplitReady
  BY <1>1, <1>5 DEF SplitReady, EveryoneOwned, NoneStillCalled, VariablesStayHome
<1>7. \A p \in Parts : PartObject(p)' = PartObject(p)
  BY <1>4 DEF PartObject
<1>8. WholeObject' = WholeObject /\ UsesAreThere' = UsesAreThere
  BY <1>1 DEF WholeObject, UsesAreThere
<1> QED BY <1>6, <1>7, <1>8

----------------------------------------------------------------------------

LEMMA EmissionInitInv == EmissionInit => EmissionInv
<1> SUFFICES ASSUME EmissionInit PROVE EmissionInv
  OBVIOUS
<1> USE UnitsAssumption
<1>1. /\ unit \in [kind : [Ids -> Kinds \ {"absent"}], linkage : [Ids -> Linkages],
                   refs : [Ids -> SUBSET Ids], weight : [Ids -> Nat \ {0}]]
  BY DEF EmissionInit
<1>2. EmissionTypeOK
  <2>1. unit \in [kind : [Ids -> Kinds], linkage : [Ids -> Linkages],
                  refs : [Ids -> SUBSET Ids], weight : [Ids -> Nat \ {0}]]
    BY <1>1
  <2>2. objects \in [Parts -> Objects]
    BY DEF EmissionInit, Objects, NoObject
  <2> QED BY <2>1, <2>2 DEF EmissionInit, EmissionTypeOK
<1>3. UsesAreThere
  <2>1. Ids = Functions \cup Globals
    BY <1>1 DEF Functions, Globals, Kind, Kinds
  <2> QED BY <1>1, <2>1 DEF UsesAreThere
<1>4. HalvesRun /\ ObjectsMade
  BY DEF EmissionInit, HalvesRun, ObjectsMade
<1> QED BY <1>2, <1>3, <1>4 DEF EmissionInv

\* The steps before the module is split that leave it as it is.
LEMMA QuietStepsInv ==
  ASSUME EmissionInv,
         \/ ReadProgram \/ KeepWhole \/ Partition
         \/ EmitAt("read") /\ ToolBreaks
         \/ EmitAt("optimize") /\ ToolBreaks
         \/ EmitAt("count") /\ split /\ ToolBreaks
         \/ EmitAt("assign") /\ ToolBreaks
         \/ EmitAt("start") /\ ToolBreaks
         \/ UNCHANGED emissionVars
  PROVE  EmissionInv'
<1> USE DEF EmitAt, EmitTo
<1>t. EmissionTypeOK /\ UsesAreThere /\ HalvesRun /\ ObjectsMade
  BY DEF EmissionInv
<1>1. UNCHANGED <<unit, split, owner, job, objects, extra>>
  BY DEF ReadProgram, KeepWhole, Partition, ToolBreaks, emissionVars
<1>2. EmissionTypeOK' /\ UsesAreThere'
  BY <1>t, <1>1, SameModule DEF EmissionTypeOK
<1>3. HalvesRun'
  BY <1>t DEF ReadProgram, KeepWhole, Partition, ToolBreaks, emissionVars, HalvesRun,
     EmissionTypeOK
<1>4. ObjectsMade'
  <2>1. \/ emitStage' \notin {"start", "lower", "emitted", "failed"}
        \/ emitStage' = "failed" /\ toolBroke'
        \/ UNCHANGED <<emitStage, toolBroke>>
    BY DEF ReadProgram, KeepWhole, Partition, ToolBreaks, emissionVars
  <2>2. emitStage \in {"lower", "emitted", "failed"} => emitStage' = emitStage
    BY DEF ReadProgram, KeepWhole, Partition, ToolBreaks, emissionVars
  <2>3. NoPartLeft' <=> NoPartLeft
    BY <1>1 DEF NoPartLeft
  <2>4. emitStage \notin {"lower", "emitted", "failed"} => NoPartLeft
    BY <1>t DEF ObjectsMade, NoPartLeft, NoObject
  <2> QED BY <1>t, <1>1, <2>1, <2>2, <2>3, <2>4, SameModule DEF ObjectsMade
<1> QED BY <1>2, <1>3, <1>4 DEF EmissionInv

LEMMA InternalizeInv ==
  ASSUME EmissionInv, Internalize
  PROVE  EmissionInv'
<1> USE DEF EmitAt, EmitTo
<1>t. EmissionTypeOK /\ UsesAreThere /\ HalvesRun /\ ObjectsMade
  BY DEF EmissionInv
<1>1. EmissionTypeOK'
  BY <1>t DEF Internalize, EmissionTypeOK, Linkages
<1>2. unit'.kind = unit.kind /\ unit'.refs = unit.refs
  BY <1>t DEF Internalize, EmissionTypeOK
<1>3. UsesAreThere'
  BY <1>t, <1>2 DEF UsesAreThere, Functions, Globals, Kind
<1>4. HalvesRun' /\ ObjectsMade'
  BY <1>t DEF Internalize, HalvesRun, ObjectsMade
<1> QED BY <1>1, <1>3, <1>4 DEF EmissionInv

\* What globaldce drops is used by nothing it keeps.
LEMMA OptimizeInv ==
  ASSUME EmissionInv, NEW h \in BOOLEAN, NEW d \in BOOLEAN, Optimize(h, d)
  PROVE  EmissionInv'
<1> USE DEF EmitAt, EmitTo
<1>t. EmissionTypeOK /\ UsesAreThere /\ HalvesRun /\ ObjectsMade
  BY DEF EmissionInv
<1> DEFINE kept == Alive(Functions \cup Globals)
<1>1. unit' = IF d THEN Drop(Ids \ kept, unit) ELSE unit
  BY DEF Optimize
<1>2. kept \subseteq Functions \cup Globals /\ \A s \in kept : unit.refs[s] \subseteq kept
  BY <1>t, AliveKeeps DEF UsesAreThere, Functions, Globals
<1> HIDE DEF kept
<1>3. ASSUME d
      PROVE  /\ unit' \in [kind : [Ids -> Kinds], linkage : [Ids -> Linkages],
                           refs : [Ids -> SUBSET Ids], weight : [Ids -> Nat \ {0}]]
             /\ \A s \in Ids : unit'.kind[s] = IF s \in kept THEN unit.kind[s] ELSE "absent"
             /\ \A s \in Ids : unit'.refs[s] = IF s \in kept THEN unit.refs[s] ELSE {}
  BY <1>1, <1>3, <1>t DEF Drop, EmissionTypeOK, Kinds
<1>4. EmissionTypeOK'
  BY <1>1, <1>3, <1>t DEF Optimize, EmissionTypeOK
<1>5. UsesAreThere'
  <2>1. CASE d
    BY <2>1, <1>2, <1>3 DEF UsesAreThere, Functions, Globals, Kind
  <2>2. CASE ~d
    BY <2>2, <1>1, <1>t DEF UsesAreThere, Functions, Globals, Kind
  <2> QED BY <2>1, <2>2
<1>6. HalvesRun' /\ ObjectsMade'
  BY <1>t DEF Optimize, HalvesRun, ObjectsMade
<1> QED BY <1>4, <1>5, <1>6 DEF EmissionInv

LEMMA EmitWholeInv ==
  ASSUME EmissionInv, EmitWhole
  PROVE  EmissionInv'
<1> USE DEF EmitAt, EmitTo
<1>t. EmissionTypeOK /\ UsesAreThere /\ HalvesRun /\ ObjectsMade
  BY DEF EmissionInv
<1>0. 0 \in Parts
  BY UnitsAssumption DEF Parts
<1>1. objects' = [p \in Parts |-> IF p = 0 THEN WholeObject ELSE NoObject]
  <2>1. halves.second = 1 /\ objects = [p \in Parts |-> NoObject]
    BY <1>t DEF EmitWhole, HalvesRun, ObjectsMade
  <2>2. objects' = [objects EXCEPT ![0] = WholeObject]
    BY <2>1 DEF EmitWhole, WholeObject
  <2> QED BY <1>0, <2>1, <2>2
<1>2. WholeObject \in Objects /\ NoObject \in Objects
  BY DEF WholeObject, NoObject, Objects, Functions, Globals
<1>3. WholeObject' = WholeObject /\ UsesAreThere' = UsesAreThere
  BY SameModule DEF EmitWhole
<1>4. objects' \in [Parts -> Objects]
  BY <1>1, <1>2
<1>5. EmissionTypeOK'
  BY <1>t, <1>4 DEF EmitWhole, EmissionTypeOK
<1>6. HalvesRun'
  BY <1>t DEF EmitWhole, HalvesRun
<1>7. extra' = 0 /\ emitStage' = "emitted"
  BY <1>t DEF EmitWhole, ObjectsMade
<1>8. ObjectsMade'
  BY <1>1, <1>3, <1>7 DEF ObjectsMade
<1> QED BY <1>t, <1>3, <1>5, <1>6, <1>8 DEF EmissionInv

LEMMA WholeBreaksInv ==
  ASSUME EmissionInv, WholeBreaks
  PROVE  EmissionInv'
<1> USE DEF EmitAt, EmitTo
<1>t. EmissionTypeOK /\ UsesAreThere /\ HalvesRun /\ ObjectsMade
  BY DEF EmissionInv
<1>1. PICK left \in {NoObject, Unfinished} : objects' = [objects EXCEPT ![0] = left]
  BY DEF WholeBreaks
<1>2. left \in Objects
  <2>1. NoObject \in Objects
    BY DEF NoObject, Objects
  <2>2. Unfinished \in Objects
    BY DEF Unfinished, Objects
  <2> QED BY <2>1, <2>2
<1>3. \A p \in Parts : objects'[p] = IF p = 0 THEN left ELSE NoObject
  BY <1>1, <1>t DEF WholeBreaks, ObjectsMade
<1>4. EmissionTypeOK'
  BY <1>1, <1>2, <1>t DEF WholeBreaks, EmissionTypeOK
<1>5. UsesAreThere' /\ HalvesRun'
  BY <1>t, SameModule DEF WholeBreaks, HalvesRun
<1>6. NoPartLeft'
  BY <1>3, <1>t DEF WholeBreaks, ObjectsMade, NoPartLeft, NoObject
<1>7. ObjectsMade'
  BY <1>6 DEF WholeBreaks, ObjectsMade
<1> QED BY <1>4, <1>5, <1>7 DEF EmissionInv

LEMMA AssignOneInv ==
  ASSUME EmissionInv, NEW s \in Ids, NEW p \in Parts, AssignOne(s, p)
  PROVE  EmissionInv'
<1> USE DEF EmitAt, EmitTo
<1>t. EmissionTypeOK /\ UsesAreThere /\ HalvesRun /\ ObjectsMade
  BY DEF EmissionInv
<1>1. EmissionTypeOK'
  BY <1>t DEF AssignOne, EmissionTypeOK
<1>2. UsesAreThere'
  BY <1>t DEF AssignOne, UsesAreThere, Functions, Globals, Kind
<1>3. HalvesRun' /\ ObjectsMade'
  BY <1>t DEF AssignOne, HalvesRun, ObjectsMade
<1> QED BY <1>1, <1>2, <1>3 DEF EmissionInv

\* assign_partitions has placed every function: a local symbol that stays local is
\* then used by one partition only, or by none.
LEMMA PartsAreFinite ==
  ASSUME NEW S \in SUBSET Parts
  PROVE  IsFiniteSet(S) /\ (Cardinality(S) = 1 <=> \E p : S = {p})
<1>1. IsFiniteSet(Parts)
  BY UnitsAssumption, FS_Interval DEF Parts
<1>2. IsFiniteSet(S)
  BY <1>1, FS_Subset
<1> QED BY <1>2, FS_Singleton

LEMMA UsersInOnePartition ==
  ASSUME EmissionTypeOK, EveryoneOwned, NEW s \in Ids, UsersPartition(s) # -2,
         Users(s) # {}
  PROVE  /\ Users(s) \subseteq Functions
         /\ UsersPartition(s) \in Parts
         /\ \A t \in Users(s) : owner[t] = UsersPartition(s)
<1> DEFINE parts == {owner[t] : t \in Users(s)}
<1>1. Users(s) \subseteq Functions /\ Cardinality(parts) = 1
  BY DEF UsersPartition
<1>2. parts \subseteq Parts
  BY <1>1 DEF EveryoneOwned
<1>3. PICK p : parts = {p}
  BY <1>1, <1>2, PartsAreFinite
<1>4. UsersPartition(s) = p
  BY <1>1, <1>3 DEF UsersPartition
<1> QED BY <1>1, <1>2, <1>3, <1>4

LEMMA PromoteLocalsInv ==
  ASSUME EmissionInv, PromoteLocals
  PROVE  EmissionInv'
<1> USE DEF EmitAt, EmitTo
<1>t. EmissionTypeOK /\ UsesAreThere /\ HalvesRun /\ ObjectsMade
  BY DEF EmissionInv
<1>0. EveryoneOwned
  BY <1>t DEF PromoteLocals, Unassigned, EmissionTypeOK, EveryoneOwned, Functions
<1>1. EmissionTypeOK'
  BY <1>t DEF PromoteLocals, EmissionTypeOK, Linkages
<1>2. /\ unit'.kind = unit.kind /\ unit'.refs = unit.refs /\ owner' = owner
      /\ \A s \in Ids : unit'.linkage[s] = IF s \in Promoted THEN "external"
                                           ELSE unit.linkage[s]
  BY <1>t DEF PromoteLocals, EmissionTypeOK
<1>3. /\ Functions' = Functions /\ Globals' = Globals
      /\ \A s : Users(s)' = Users(s) /\ Kind(s)' = Kind(s)
      /\ \A p : Mine(p)' = Mine(p)
      /\ \A s \in Ids : IsLocal(s)' => IsLocal(s) /\ s \notin Promoted
  BY <1>2 DEF Functions, Globals, Users, Kind, Mine, IsLocal
<1>4. UsesAreThere'
  BY <1>t, <1>2, <1>3 DEF UsesAreThere
<1>5. EveryoneOwned'
  BY <1>0, <1>2, <1>3 DEF EveryoneOwned
<1>6. NoneStillCalled'
  <2> SUFFICES ASSUME NEW p \in Parts, NEW f \in Functions \ Mine(p), IsLocal(f)',
                      NEW t \in Users(f), t \in Present(p)'
               PROVE  FALSE
    BY <1>3 DEF NoneStillCalled, StillCalled
  <2>1. f \in Ids /\ IsLocal(f) /\ f \notin Promoted
    BY <1>3 DEF Functions
  <2>2. UsersPartition(f) \in {-1, owner[f]} /\ owner[f] \in Parts
    BY <1>0, <2>1 DEF Promoted, EveryoneOwned
  <2>3. UsersPartition(f) # -2
    BY <2>2 DEF Parts
  <2>4. t \in Functions /\ owner[t] = UsersPartition(f) /\ owner[t] \in Parts
    BY <1>t, <1>0, <2>1, <2>3, UsersInOnePartition
  <2>5. owner[t] = owner[f] /\ owner[f] # p
    BY <2>2, <2>4 DEF Parts, Mine
  <2>6. t \in Functions /\ t \notin Globals
    BY <2>4 DEF Functions, Globals
  <2>7. t \in Mine(p)
    BY <2>6, <1>3 DEF Present, Initialised
  <2> QED BY <2>5, <2>7 DEF Mine
<1>7. VariablesStayHome'
  <2> SUFFICES ASSUME NEW g \in Globals, IsLocal(g)', Kind(g) # "constant",
                      Users(g) # {}
               PROVE  /\ Users(g) \subseteq Functions
                      /\ \E p \in Parts : \A t \in Users(g) : owner[t] = p
    BY <1>2, <1>3 DEF VariablesStayHome
  <2>1. g \in Ids /\ IsLocal(g) /\ g \notin Promoted
    BY <1>3 DEF Globals
  <2>2. UsersPartition(g) # -2
    BY <2>1 DEF Promoted
  <2> QED BY <1>t, <1>0, <2>1, <2>2, UsersInOnePartition
<1>8. HalvesRun' /\ ObjectsMade'
  BY <1>t, <1>5, <1>6, <1>7 DEF PromoteLocals, HalvesRun, ObjectsMade, SplitReady
<1> QED BY <1>1, <1>4, <1>8 DEF EmissionInv

LEMMA StartThreadsInv ==
  ASSUME EmissionInv, NEW started \in SUBSET (Parts \ {0}), StartThreads(started)
  PROVE  EmissionInv'
<1> USE DEF EmitAt, EmitTo
<1>t. EmissionTypeOK /\ UsesAreThere /\ HalvesRun /\ ObjectsMade
  BY DEF EmissionInv
<1>1. EmissionTypeOK'
  BY <1>t DEF StartThreads, EmissionTypeOK
<1>2. SplitReady' /\ UsesAreThere'
  BY <1>t, SameModule DEF StartThreads, ObjectsMade
<1>3. HalvesRun'
  BY <1>t DEF StartThreads, HalvesRun
<1>4. \A p \in Parts : job'[p] \in {"thread", "inline"} /\ objects'[p] = NoObject
  BY <1>t DEF StartThreads, ObjectsMade
<1>5. emitStage' = "lower" /\ extra' = 0
  BY <1>t DEF StartThreads, ObjectsMade
<1>6. ObjectsMade'
  BY <1>2, <1>4, <1>5 DEF ObjectsMade
<1> QED BY <1>1, <1>2, <1>3, <1>6 DEF EmissionInv

\* A partition that is lowered finds nothing another partition kept to itself, so
\* only LLVM can fail it.
LEMMA LowerInv ==
  ASSUME EmissionInv, NEW p \in Parts, EmitPartition(p) \/ PartitionBreaks(p)
  PROVE  EmissionInv'
<1> USE DEF EmitAt, EmitTo
<1>t. EmissionTypeOK /\ UsesAreThere /\ HalvesRun /\ ObjectsMade
  BY DEF EmissionInv
<1>0. /\ emitStage = "lower" /\ emitStage' = "lower" /\ job[p] \in {"thread", "inline"}
      /\ UNCHANGED <<unit, owner, halves, split, extra>>
  BY DEF EmitPartition, PartitionBreaks, Turn
<1>s. /\ SplitReady /\ extra = 0
      /\ \A q \in Parts : /\ job[q] # "idle"
                          /\ objects[q] = IF job[q] = "done" THEN PartObject(q) ELSE NoObject
                          /\ job[q] = "failed" => toolBroke
  BY <1>0, <1>t DEF ObjectsMade
<1>m. /\ SplitReady' /\ UsesAreThere'
      /\ \A q \in Parts : PartObject(q)' = PartObject(q)
  BY <1>0, <1>s, <1>t, SameModule
<1>h. HalvesRun'
  BY <1>0, <1>t DEF HalvesRun
<1>1. CASE EmitPartition(p)
  <2>1. ~StillCalled(p)
    BY <1>s DEF SplitReady, NoneStillCalled
  <2>2. halves.second + (IF split THEN 1 ELSE 0) = 1
    BY <1>0, <1>t DEF HalvesRun, EmissionTypeOK
  <2>3. /\ job' = [job EXCEPT ![p] = "done"]
        /\ objects' = [objects EXCEPT ![p] = PartObject(p)]
        /\ UNCHANGED toolBroke
    BY <1>1, <2>1, <2>2 DEF EmitPartition, PartObject
  <2>4. PartObject(p) \in Objects
    <3>1. Lowered(p) \subseteq Ids
      BY AliveKeeps DEF Lowered, Present, Mine, Initialised, Functions, Globals
    <3>2. UNION {unit.refs[s] : s \in Lowered(p)} \subseteq Ids
      BY <1>t, <3>1 DEF EmissionTypeOK
    <3> QED BY <3>1, <3>2 DEF PartObject, Objects
  <2>5. EmissionTypeOK'
    BY <1>0, <1>t, <2>3, <2>4 DEF EmissionTypeOK
  <2>6. \A q \in Parts : /\ job'[q] # "idle"
                         /\ objects'[q] = IF job'[q] = "done" THEN PartObject(q) ELSE NoObject
                         /\ job'[q] = "failed" => toolBroke'
    BY <1>s, <1>t, <2>3 DEF EmissionTypeOK
  <2>7. ObjectsMade'
    BY <1>0, <1>s, <1>m, <2>6 DEF ObjectsMade
  <2> QED BY <1>m, <1>h, <2>5, <2>7 DEF EmissionInv
<1>2. CASE PartitionBreaks(p)
  <2>1. job' = [job EXCEPT ![p] = "failed"] /\ toolBroke' /\ UNCHANGED objects
    BY <1>2 DEF PartitionBreaks
  <2>2. EmissionTypeOK'
    BY <1>0, <1>t, <2>1 DEF EmissionTypeOK
  <2>3. \A q \in Parts : /\ job'[q] # "idle"
                         /\ objects'[q] = IF job'[q] = "done" THEN PartObject(q) ELSE NoObject
                         /\ job'[q] = "failed" => toolBroke'
    BY <1>0, <1>s, <1>t, <2>1 DEF EmissionTypeOK
  <2>4. ObjectsMade'
    BY <1>0, <1>s, <1>m, <2>3 DEF ObjectsMade
  <2> QED BY <1>m, <1>h, <2>2, <2>4 DEF EmissionInv
<1> QED BY <1>1, <1>2

LEMMA JoinInv ==
  ASSUME EmissionInv, Join
  PROVE  EmissionInv'
<1> USE DEF EmitAt, EmitTo
<1>t. EmissionTypeOK /\ UsesAreThere /\ HalvesRun /\ ObjectsMade
  BY DEF EmissionInv
<1>s. /\ SplitReady /\ extra = 0 /\ emitStage = "lower"
      /\ \A q \in Parts : /\ objects[q] = IF job[q] = "done" THEN PartObject(q) ELSE NoObject
                          /\ job[q] = "failed" => toolBroke
  BY <1>t DEF Join, ObjectsMade
<1>m. /\ SplitReady' /\ UsesAreThere' /\ WholeObject' = WholeObject
      /\ \A q \in Parts : PartObject(q)' = PartObject(q)
  BY <1>s, <1>t, SameModule DEF Join
<1>1. CASE \E p \in Parts : job[p] = "failed"
  <2>1. /\ objects' = [p \in Parts |-> NoObject] /\ extra' = 0 /\ emitStage' = "failed"
        /\ toolBroke'
    BY <1>1, <1>s DEF Join
  <2>2. EmissionTypeOK' /\ HalvesRun' /\ ObjectsMade'
    BY <1>t, <2>1 DEF Join, EmissionTypeOK, HalvesRun, ObjectsMade, NoPartLeft, Objects, NoObject
  <2> QED BY <1>m, <2>2 DEF EmissionInv
<1>2. CASE ~ \E p \in Parts : job[p] = "failed"
  <2>1. extra' = PartitionCount - 1 /\ emitStage' = "emitted" /\ UNCHANGED objects
    BY <1>2 DEF Join
  <2>2. \A p \in Parts : objects[p] = PartObject(p)
    BY <1>2, <1>s DEF Join
  <2>3. objects' = [p \in Parts |-> PartObject(p)']
    BY <1>t, <1>m, <2>1, <2>2 DEF EmissionTypeOK
  <2>4. ObjectsMade'
    BY <1>m, <2>1, <2>3 DEF ObjectsMade
  <2>5. EmissionTypeOK'
    BY <1>t, <2>1 DEF Join, EmissionTypeOK
  <2>6. HalvesRun'
    BY <1>t, <1>s, <2>1 DEF Join, HalvesRun
  <2> QED BY <1>m, <2>4, <2>5, <2>6 DEF EmissionInv
<1> QED BY <1>1, <1>2

LEMMA EmissionInvariant == EmissionSpec => []EmissionInv
<1>1. EmissionInv /\ [EmissionNext]_emissionVars => EmissionInv'
  BY QuietStepsInv, InternalizeInv, OptimizeInv, EmitWholeInv, WholeBreaksInv, AssignOneInv,
     PromoteLocalsInv, StartThreadsInv, LowerInv, JoinInv DEF EmissionNext
<1> QED BY <1>1, EmissionInitInv, PTL DEF EmissionSpec

----------------------------------------------------------------------------

\* Each half of the pipeline ran once on every function, the driver is told of
\* exactly the objects that exist, a split that failed leaves none, and only LLVM
\* and allocations fail an emission: no local symbol is ever found to be used
\* across the split (ir_emit_object, emit_partitioned).
THEOREM EmissionWhole == EmissionSpec => []EmissionIsWhole
<1>1. EmissionInv => EmissionIsWhole
  <2> SUFFICES ASSUME EmissionInv PROVE EmissionIsWhole
    OBVIOUS
  <2>0. 0 \in Parts /\ \A p \in Parts : p \in Nat /\ p <= PartitionCount - 1
    BY UnitsAssumption DEF Parts
  <2>1. ASSUME EmitAt("emitted")
        PROVE  /\ LinkedParts = {p \in Parts : objects[p].there}
               /\ halves.first = 1 /\ \A p \in LinkedParts : objects[p].second = 1
    <3>1. halves.first = 1
      BY <2>1 DEF EmissionInv, HalvesRun, EmitAt
    <3>2. CASE /\ extra = 0
               /\ objects = [p \in Parts |-> IF p = 0 THEN WholeObject ELSE NoObject]
      BY <2>0, <3>1, <3>2 DEF LinkedParts, WholeObject, NoObject
    <3>3. CASE /\ extra = PartitionCount - 1
               /\ objects = [p \in Parts |-> PartObject(p)]
      BY <2>0, <3>1, <3>3 DEF LinkedParts, PartObject
    <3> QED BY <2>1, <3>2, <3>3 DEF EmissionInv, ObjectsMade, EmitAt
  <2>2. EmitAt("failed") => toolBroke /\ NoPartLeft
    BY DEF EmissionInv, ObjectsMade, EmitAt
  <2> QED BY <2>1, <2>2 DEF EmissionIsWhole, NoPartLeft
<1> QED BY <1>1, EmissionInvariant, PTL

----------------------------------------------------------------------------

\* What a partition keeps of what it is given, and what it takes from the others.
LEMMA KeptUsesAreKeptOrVisible ==
  ASSUME EmissionTypeOK, UsesAreThere, SplitReady, NEW p \in Parts,
         NEW s \in Alive(Present(p)), NEW t \in unit.refs[s]
  PROVE  t \in Alive(Present(p)) \/ ~IsLocal(t)
<1>1. s \in Present(p) /\ s \in Ids
  BY AliveKeeps DEF Present, Mine, Initialised, Functions, Globals
<1>2. t \in Functions \cup Globals /\ s \in Users(t)
  BY <1>1 DEF UsesAreThere, Users
<1>3. t \in Present(p) => t \in Alive(Present(p))
  BY AliveKeeps
<1>4. IsLocal(t) => t \in Present(p)
  BY <1>1, <1>2 DEF SplitReady, NoneStillCalled, StillCalled, Present, Initialised
<1> QED BY <1>3, <1>4

\* A visible symbol is kept by the partition it belongs to, and by no other.
LEMMA VisibleHasOneHome ==
  ASSUME EmissionTypeOK, SplitReady, NEW s \in Functions \cup Globals, ~IsLocal(s)
  PROVE  \E p \in Parts : /\ s \in Alive(Present(p))
                          /\ \A q \in Parts : s \in Alive(Present(q)) => q = p
<1>1. CASE s \in Functions
  <2>1. owner[s] \in Parts /\ s \in Present(owner[s])
    BY <1>1 DEF SplitReady, EveryoneOwned, Present, Mine
  <2>2. \A q : s \in Present(q) => q = owner[s]
    BY <1>1 DEF Present, Mine, Initialised, Functions, Globals
  <2> QED BY <2>1, <2>2, AliveKeeps
<1>2. CASE s \in Globals
  <2>1. 0 \in Parts /\ s \in Present(0)
    BY <1>2, UnitsAssumption DEF Parts, Present, Initialised
  <2>2. \A q : s \in Present(q) => q = 0
    BY <1>2 DEF Present, Mine, Initialised, Functions, Globals
  <2> QED BY <2>1, <2>2, AliveKeeps
<1> QED BY <1>1, <1>2

\* A local symbol that is no constant is kept by one partition at most.
LEMMA LocalHasOneHome ==
  ASSUME EmissionTypeOK, SplitReady, NEW s \in Functions \cup Globals, IsLocal(s),
         Kind(s) # "constant", NEW p \in Parts, s \in Alive(Present(p)),
         NEW q \in Parts, s \in Alive(Present(q))
  PROVE  p = q
<1>1. CASE s \in Functions
  BY <1>1, AliveKeeps DEF Present, Mine, Initialised, Functions, Globals
<1>2. CASE s \in Globals
  \* Without a user in the partition the symbol would have been dropped.
  <2>1. ASSUME NEW r \in Parts, s \in Alive(Present(r))
        PROVE  \E t \in Users(s) : t \in Present(r)
    <3> SUFFICES ASSUME \A t \in Users(s) : t \notin Present(r)
                 PROVE  FALSE
      OBVIOUS
    <3>1. \A t \in Present(r) : s \notin unit.refs[t]
      BY DEF Users, Present, Mine, Initialised, Functions, Globals
    <3>2. Alive(Present(r)) \subseteq Present(r) \ {s}
      <4> DEFINE S == Present(r) \ {s}
      <4>1. \A t \in Present(r) : ~IsLocal(t) => t \in S
        OBVIOUS
      <4>2. \A t \in S : unit.refs[t] \cap Present(r) \subseteq S
        BY <3>1
      <4>3. S \in SUBSET Present(r)
        OBVIOUS
      <4> HIDE DEF S
      <4>4. Alive(Present(r)) \subseteq S
        BY <4>1, <4>2, <4>3, AliveIsLeast
      <4> QED BY <4>4 DEF S
    <3> QED BY <2>1, <3>2
  <2>2. PICK t \in Users(s) : t \in Present(p)
    BY <2>1
  <2>3. PICK u \in Users(s) : u \in Present(q)
    BY <2>1
  <2>4. t \in Functions /\ u \in Functions /\ owner[t] = owner[u]
    BY <1>2, <2>2, <2>3 DEF SplitReady, VariablesStayHome
  <2>5. owner[t] = p /\ owner[u] = q
    BY <2>2, <2>3, <2>4 DEF Present, Mine, Initialised, Functions, Globals
  <2> QED BY <2>4, <2>5
<1> QED BY <1>1, <1>2

\* All of the program is in some partition.
LEMMA ProgramIsCovered ==
  ASSUME EmissionTypeOK, UsesAreThere, SplitReady, NEW s \in WholeProgram
  PROVE  \E p \in Parts : s \in Alive(Present(p))
<1> DEFINE all == Functions \cup Globals
           S == {t \in all : \E p \in Parts : t \in Alive(Present(p))}
<1>1. \A t \in all : ~IsLocal(t) => t \in S
  BY VisibleHasOneHome
<1>2. \A t \in S : unit.refs[t] \cap all \subseteq S
  BY <1>1, KeptUsesAreKeptOrVisible
<1>3. S \in SUBSET all
  OBVIOUS
<1>4. s \in Alive(all)
  BY DEF WholeProgram
<1> HIDE DEF S, all
<1>5. s \in S
  BY <1>1, <1>2, <1>3, <1>4, AliveIsLeast
<1> QED BY <1>5 DEF S

LEMMA AtMostOne ==
  ASSUME NEW S \in SUBSET Parts, \A p, q \in S : p = q
  PROVE  ~(Cardinality(S) > 1)
<1>1. CASE S = {}
  BY <1>1, FS_EmptySet
<1>2. CASE S # {}
  <2>1. PICK p \in S : TRUE
    BY <1>2
  <2>2. S = {p}
    OBVIOUS
  <2>3. Cardinality(S) = 1
    BY <2>2, FS_Singleton
  <2> QED BY <2>3
<1> QED BY <1>1, <1>2

LEMMA WholeLinks ==
  ASSUME EmissionTypeOK, extra = 0,
         objects = [p \in Parts |-> IF p = 0 THEN WholeObject ELSE NoObject]
  PROVE  SplitLinks
<1>0. LinkedParts = {0} /\ 0 \in Parts
  BY UnitsAssumption DEF LinkedParts, Parts
<1>1. objects[0].uses = {}
      /\ objects[0].defs = {s \in Functions \cup Globals : unit.linkage[s] # "available"}
  BY <1>0 DEF WholeObject
<1>2. \A s \in WholeProgram : unit.linkage[s] = "available" \/ DefinedIn(s) # {}
  BY <1>0, <1>1, AliveKeeps DEF WholeProgram, DefinedIn
<1>3. \A s \in Ids : ~(Cardinality(DefinedIn(s)) > 1)
  BY <1>0, AtMostOne DEF DefinedIn
<1>4. \A p \in LinkedParts : objects[p].uses = {}
  BY <1>0, <1>1
<1> QED BY <1>2, <1>3, <1>4 DEF SplitLinks

LEMMA PartsLink ==
  ASSUME EmissionTypeOK, UsesAreThere, SplitReady, extra = PartitionCount - 1,
         objects = [p \in Parts |-> PartObject(p)]
  PROVE  SplitLinks
<1>0. LinkedParts = Parts
  BY UnitsAssumption DEF LinkedParts, Parts
<1>1. \A p \in Parts : /\ objects[p].defs = Lowered(p)
                       /\ objects[p].uses =
                             (UNION {unit.refs[s] : s \in Lowered(p)}) \ Lowered(p)
  BY DEF PartObject
<1>2. ASSUME NEW s, unit.linkage[s] # "available"
      PROVE  DefinedIn(s) = {p \in Parts : s \in Alive(Present(p))}
  BY <1>0, <1>1, <1>2 DEF DefinedIn, Lowered
<1>3. \A s \in WholeProgram : unit.linkage[s] = "available" \/ DefinedIn(s) # {}
  BY <1>2, ProgramIsCovered
<1>4. ASSUME NEW s \in Ids, Cardinality(DefinedIn(s)) > 1
      PROVE  IsLocal(s) /\ Kind(s) = "constant"
  <2>1. DefinedIn(s) \subseteq Parts
    BY <1>0 DEF DefinedIn
  <2>2. PICK p \in DefinedIn(s), q \in DefinedIn(s) : p # q
    BY <1>4, <2>1, AtMostOne
  <2>3. s \in Alive(Present(p)) /\ s \in Alive(Present(q)) /\ p \in Parts /\ q \in Parts
    BY <1>0, <1>1, <2>2 DEF DefinedIn, Lowered
  <2>4. s \in Functions \cup Globals
    BY <2>3, AliveKeeps DEF Present, Mine, Initialised
  <2> QED BY <2>2, <2>3, <2>4, VisibleHasOneHome, LocalHasOneHome
<1>5. ASSUME NEW p \in LinkedParts, NEW s \in objects[p].uses
      PROVE  ~IsLocal(s) /\ (unit.linkage[s] = "available" \/ DefinedIn(s) # {})
  <2>0. p \in Parts /\ s \notin Lowered(p) /\ \E t \in Lowered(p) : s \in unit.refs[t]
    <3>1. p \in Parts
      BY <1>0
    <3>2. s \in (UNION {unit.refs[t] : t \in Lowered(p)}) \ Lowered(p)
      BY <1>1, <1>5, <3>1
    <3>3. PICK R \in {unit.refs[t] : t \in Lowered(p)} : s \in R
      BY <3>2, Zenon
    <3>4. \E t \in Lowered(p) : s \in unit.refs[t]
      BY <3>3
    <3>5. s \notin Lowered(p)
      BY <3>2, Zenon
    <3> QED BY <3>1, <3>4, <3>5
  <2>1. PICK t \in Lowered(p) : s \in unit.refs[t]
    BY <2>0
  <2>2. t \in Alive(Present(p)) /\ s \notin Lowered(p) /\ p \in Parts
    BY <2>0 DEF Lowered
  <2>3. t \in Ids
    BY <2>2, AliveKeeps DEF Present, Mine, Initialised, Functions, Globals
  <2>4. s \in Functions \cup Globals
    BY <2>1, <2>3 DEF UsesAreThere
  <2>5. ~IsLocal(s)
    <3>1. IsLocal(s) => s \in Alive(Present(p))
      BY <2>1, <2>2, KeptUsesAreKeptOrVisible
    <3>2. IsLocal(s) => unit.linkage[s] # "available"
      BY DEF IsLocal
    <3> QED BY <2>2, <3>1, <3>2 DEF Lowered
  <2>6. \E q \in Parts : s \in Alive(Present(q))
    BY <2>4, <2>5, VisibleHasOneHome
  <2> QED BY <1>2, <2>5, <2>6
<1> QED BY <1>3, <1>4, <1>5 DEF SplitLinks

\* For every module and every number of partitions: the objects the driver links
\* make one program (assign_partitions, promote_cross_partition_locals,
\* emit_one_partition).
THEOREM PartitionsLink == EmissionSpec => []SplitLinks
<1>1. EmissionInv => SplitLinks
  <2> SUFFICES ASSUME EmissionInv PROVE SplitLinks
    OBVIOUS
  <2>1. CASE EmitAt("emitted")
    BY <2>1, WholeLinks, PartsLink DEF EmissionInv, ObjectsMade, EmitAt
  <2>2. CASE ~EmitAt("emitted")
    BY <2>2 DEF SplitLinks
  <2> QED BY <2>1, <2>2
<1> QED BY <1>1, EmissionInvariant, PTL

----------------------------------------------------------------------------
(***************************************************************************)
(* The merge of the libraries into the program                             *)
(***************************************************************************)
\* A library name that module i exports, and one that is local to it.
Exports(i, n) == n \in Externals(library, i)
LocalTo(i, n) == n \in Locals(library, i)

\* What the merge is given, and what never changes while it runs.
MergeInput ==
    /\ ModuleCount \in Nat \ {0}
    /\ WellFormed(library)
    /\ program \in [Names -> {"absent", "unused", "used", "variable", "stub"}]
    /\ target \in {"installed", "native"}
    /\ linker \in {"lazy", "whole"}
    /\ \A n \in Names, i \in Modules : LocalTo(i, n) => program[n] = "absent"
    /\ bodies \subseteq Kept

LEMMA InputFacts ==
  ASSUME MergeInput
  PROVE  /\ Merged \subseteq Modules /\ Runtime \in Modules /\ 0 \notin Merged
         /\ \A i \in Modules, n \in Names :
               /\ Sym(i, n).here <=> (Exports(i, n) \/ LocalTo(i, n))
               /\ LocalTo(i, n) <=> (Sym(i, n).here /\ Sym(i, n).local)
               /\ Exports(i, n) <=> (Sym(i, n).here /\ ~Sym(i, n).local)
               /\ Sym(i, n).refs \subseteq Names
               /\ LocalTo(i, n) => n \notin Stubs
         /\ Kept \subseteq Names /\ bodies \subseteq Names /\ Used \subseteq Names /\ Stubs \subseteq Names
<1>1. Merged \subseteq Modules /\ Runtime \in Modules /\ 0 \notin Merged
  BY DEF MergeInput, Merged, Modules, Runtime
<1>2. ASSUME NEW i \in Modules, NEW n \in Names
      PROVE  /\ Sym(i, n) \in Symbols
             /\ Sym(i, n).here <=> (Exports(i, n) \/ LocalTo(i, n))
             /\ LocalTo(i, n) <=> (Sym(i, n).here /\ Sym(i, n).local)
             /\ Exports(i, n) <=> (Sym(i, n).here /\ ~Sym(i, n).local)
             /\ Sym(i, n).refs \subseteq Names
             /\ LocalTo(i, n) => n \notin Stubs
  <2>1. Sym(i, n) \in Symbols
    BY DEF MergeInput, WellFormed, Sym
  <2>2. Sym(i, n).here \in BOOLEAN /\ Sym(i, n).local \in BOOLEAN /\ Sym(i, n).refs \subseteq Names
    BY <2>1 DEF Symbols
  <2>3. LocalTo(i, n) => n \notin Stubs
    BY DEF MergeInput, Stubs
  <2>4. /\ LocalTo(i, n) <=> (Sym(i, n).here /\ Sym(i, n).local)
        /\ Exports(i, n) <=> (Sym(i, n).here /\ ~Sym(i, n).local)
    BY DEF LocalTo, Exports, Externals, Locals, Sym
  <2> QED BY <2>1, <2>2, <2>3, <2>4
<1>3. Kept \subseteq Names
  BY <1>1 DEF MergeInput, WellFormed, Kept, Externals, Locals
<1>4. bodies \subseteq Names /\ Stubs \subseteq Names
  BY <1>3 DEF MergeInput, Stubs
<1>5. Used \subseteq Names
  BY <1>1, <1>2, <1>4 DEF Used
<1> QED BY <1>1, <1>2, <1>3, <1>4, <1>5

\* The table's assumptions, name by name.
LEMMA OneExporter ==
  ASSUME MergeInput, NEW i \in Modules, NEW j \in Modules, NEW n \in Names, Exports(i, n), Exports(j, n)
  PROVE  i = j
BY DEF MergeInput, WellFormed, Exports

LEMMA LocalIsNotExported ==
  ASSUME MergeInput, NEW i \in Modules, NEW j \in Modules, NEW n \in Names, LocalTo(i, n)
  PROVE  ~Exports(j, n)
BY DEF MergeInput, WellFormed, Exports, LocalTo

LEMMA LocalIsTheSame ==
  ASSUME MergeInput, NEW i \in Modules, NEW j \in Modules, NEW n \in Names, LocalTo(i, n), LocalTo(j, n)
  PROVE  Sym(i, n) = Sym(j, n)
BY DEF MergeInput, WellFormed, LocalTo, Sym

LEMMA LocalIsUsedAtHome ==
  ASSUME MergeInput, NEW i \in Modules, NEW j \in Modules, NEW n \in Names, LocalTo(i, n),
         NEW m \in Names, n \in Sym(j, m).refs
  PROVE  LocalTo(j, n)
BY DEF MergeInput, WellFormed, LocalTo, Sym

\* The definitions of one name in two modules are one symbol.
LEMMA OneSymbol ==
  ASSUME MergeInput, NEW i \in Modules, NEW j \in Modules, NEW n \in Names,
         Sym(i, n).here, Sym(j, n).here
  PROVE  /\ Sym(i, n) = Sym(j, n)
         /\ LocalTo(i, n) <=> LocalTo(j, n)
         /\ ~LocalTo(i, n) => i = j
<1>1. (Exports(i, n) \/ LocalTo(i, n)) /\ (Exports(j, n) \/ LocalTo(j, n))
  BY InputFacts
<1>2. CASE Exports(i, n)
  BY <1>1, <1>2, OneExporter, LocalIsNotExported
<1>3. CASE LocalTo(i, n)
  BY <1>1, <1>3, LocalIsTheSame, LocalIsNotExported
<1> QED BY <1>1, <1>2, <1>3

LEMMA MeaningIs ==
  ASSUME MergeInput, NEW i, NEW n \in Names, NEW e
  PROVE  e \in Meaning(i, n) <=>
             \/ i \in Merged /\ LocalTo(i, n) /\ e = <<i, n>>
             \/ /\ ~(i \in Merged /\ LocalTo(i, n)) /\ n \notin Stubs
                /\ \E k \in Merged : Exports(k, n) /\ e = <<k, n>>
<1>1. i \in Merged => (LocalTo(i, n) <=> (Sym(i, n).here /\ Sym(i, n).local))
  BY InputFacts
<1> QED BY <1>1 DEF Meaning, Exports

----------------------------------------------------------------------------
AllDefs == {<<i, n>> : i \in Merged, n \in Names}

\* A set of definitions that a program linked with it needs nothing besides.
Closed(S) ==
    /\ \A n \in Used : Meaning(0, n) \subseteq S
    /\ \A i \in Merged : \A n \in library.appending[i] : Meaning(i, n) \subseteq S
    /\ \A d \in S : \A n \in Sym(d[1], d[2]).refs : Meaning(d[1], n) \subseteq S

LEMMA ReachedIs ==
  Reached = {x \in AllDefs : \A S \in SUBSET AllDefs : Closed(S) => x \in S}
<1> DEFINE roots == (UNION {Meaning(0, n) : n \in Used})
                      \cup UNION {UNION {Meaning(i, n) : n \in library.appending[i]} : i \in Merged}
           edge(d) == UNION {Meaning(d[1], n) : n \in Sym(d[1], d[2]).refs}
<1>1. Reached = {x \in AllDefs : \A S \in SUBSET AllDefs :
                    roots \subseteq S /\ (\A y \in S : edge(y) \subseteq S) => x \in S}
  BY DEF Reached, Least, AllDefs
<1>2. ASSUME NEW S PROVE Closed(S) <=> (roots \subseteq S /\ (\A y \in S : edge(y) \subseteq S))
  <2>1. roots \subseteq S <=> /\ \A n \in Used : Meaning(0, n) \subseteq S
                             /\ \A i \in Merged : \A n \in library.appending[i] : Meaning(i, n) \subseteq S
    OBVIOUS
  <2>2. ASSUME NEW d
        PROVE edge(d) \subseteq S <=> \A n \in Sym(d[1], d[2]).refs : Meaning(d[1], n) \subseteq S
    OBVIOUS
  <2> QED BY <2>1, <2>2 DEF Closed
<1> HIDE DEF roots, edge
<1> QED BY <1>1, <1>2

LEMMA ReachedInAllDefs == Reached \subseteq AllDefs
BY ReachedIs

LEMMA ReachedLeast ==
  ASSUME NEW S \in SUBSET AllDefs, Closed(S)
  PROVE  Reached \subseteq S
BY ReachedIs

LEMMA MeaningInAllDefs ==
  ASSUME MergeInput, NEW i, NEW n \in Names
  PROVE  Meaning(i, n) \subseteq AllDefs
BY MeaningIs DEF AllDefs

LEMMA ReachedClosed ==
  ASSUME MergeInput
  PROVE  Closed(Reached)
<1>1. ASSUME NEW n \in Used PROVE Meaning(0, n) \subseteq Reached
  <2>1. Meaning(0, n) \subseteq AllDefs
    BY InputFacts, MeaningInAllDefs
  <2> QED BY <2>1, ReachedIs DEF Closed
<1>2. ASSUME NEW i \in Merged, NEW n \in library.appending[i] PROVE Meaning(i, n) \subseteq Reached
  <2>1. n \in Names
    BY <1>2, InputFacts DEF MergeInput, WellFormed
  <2>2. Meaning(i, n) \subseteq AllDefs
    BY <2>1, MeaningInAllDefs
  <2> QED BY <2>2, ReachedIs DEF Closed
<1>3. ASSUME NEW d \in Reached, NEW n \in Sym(d[1], d[2]).refs PROVE Meaning(d[1], n) \subseteq Reached
  <2>1. PICK j \in Merged, m \in Names : d = <<j, m>>
    BY ReachedIs DEF AllDefs
  <2>2. d[1] = j /\ d[2] = m /\ n \in Names
    BY <2>1, InputFacts
  <2>3. Meaning(d[1], n) \subseteq AllDefs
    BY <2>2, MeaningInAllDefs
  <2> QED BY <2>3, ReachedIs DEF Closed
<1> QED BY <1>1, <1>2, <1>3 DEF Closed

LEMMA ReachedSame ==
  ASSUME library' = library, program' = program, target' = target, bodies' = bodies
  PROVE  Reached' = Reached
BY DEF Reached, Least, Meaning, Merged, Modules, Runtime, Sym, Used, Stubs, Externals

\* What is reached is defined there, and is not a name the program defines.
LEMMA ReachedHere ==
  ASSUME MergeInput, NEW i \in Merged, NEW n \in Names, <<i, n>> \in Reached
  PROVE  Sym(i, n).here /\ n \notin Stubs
<1> DEFINE S == {d \in AllDefs : Sym(d[1], d[2]).here /\ d[2] \notin Stubs}
<1>1. ASSUME NEW j, NEW m \in Names PROVE Meaning(j, m) \subseteq S
  <2>1. ASSUME NEW e \in Meaning(j, m) PROVE e \in S
    <3>1. PICK k \in Merged : e = <<k, m>> /\ (LocalTo(k, m) \/ (Exports(k, m) /\ m \notin Stubs))
      BY <2>1, MeaningIs
    <3>2. Sym(k, m).here /\ m \notin Stubs
      BY <3>1, InputFacts
    <3> QED BY <3>1, <3>2 DEF AllDefs
  <2> QED BY <2>1
<1>2. Closed(S)
  <2>1. \A j \in Merged : library.appending[j] \subseteq Names
    BY InputFacts DEF MergeInput, WellFormed
  <2>2. \A d \in S : Sym(d[1], d[2]).refs \subseteq Names
    BY InputFacts DEF AllDefs
  <2>3. Used \subseteq Names
    BY InputFacts
  <2> HIDE DEF S
  <2> QED BY <1>1, <2>1, <2>2, <2>3 DEF Closed
<1>3. Reached \subseteq S
  BY <1>2, ReachedLeast
<1> QED BY <1>3

\* A use, in module i, of a name that some merged module has.
LEMMA MeaningFound ==
  ASSUME MergeInput, NEW i, NEW k \in Merged, NEW m \in Names, Sym(k, m).here, m \notin Stubs,
         LocalTo(k, m) => (i \in Merged /\ LocalTo(i, m))
  PROVE  /\ LocalTo(k, m) => <<i, m>> \in Meaning(i, m)
         /\ ~LocalTo(k, m) => <<k, m>> \in Meaning(i, m)
<1>1. k \in Modules /\ (Exports(k, m) \/ LocalTo(k, m))
  BY InputFacts
<1>2. CASE LocalTo(k, m)
  BY <1>2, MeaningIs
<1>3. CASE ~LocalTo(k, m)
  <2>1. ~(i \in Merged /\ LocalTo(i, m))
    BY <1>1, <1>3, InputFacts, LocalIsNotExported
  <2> QED BY <1>1, <1>3, <2>1, MeaningIs
<1> QED BY <1>2, <1>3

LEMMA UseReached ==
  ASSUME MergeInput, NEW i \in Merged, NEW n \in Names, <<i, n>> \in Reached,
         NEW k \in Merged, NEW m \in Sym(i, n).refs, Sym(k, m).here, m \notin Stubs
  PROVE  /\ LocalTo(k, m) => <<i, m>> \in Reached
         /\ ~LocalTo(k, m) => <<k, m>> \in Reached
<1>1. i \in Modules /\ k \in Modules /\ m \in Names
  BY InputFacts
<1>2. LocalTo(k, m) => LocalTo(i, m)
  BY <1>1, LocalIsUsedAtHome
<1>3. /\ LocalTo(k, m) => <<i, m>> \in Meaning(i, m)
      /\ ~LocalTo(k, m) => <<k, m>> \in Meaning(i, m)
  BY <1>1, <1>2, MeaningFound
<1>4. Meaning(i, m) \subseteq Reached
  BY ReachedClosed DEF Closed
<1> QED BY <1>3, <1>4

\* Every definition that is reached is used: pruning leaves it.
LEMMA ReachedUsed ==
  ASSUME MergeInput
  PROVE  \A d \in Reached : UsedBy(Reached, d[1], d[2])
<1> DEFINE S == {d \in Reached : UsedBy(Reached, d[1], d[2])}
<1>0. Closed(Reached)
  BY ReachedClosed
<1>1. ASSUME NEW n \in Used PROVE Meaning(0, n) \subseteq S
  <2>1. ASSUME NEW e \in Meaning(0, n) PROVE e \in S
    <3>0. n \in Names
      BY InputFacts
    <3>1. PICK k \in Merged : e = <<k, n>> /\ Exports(k, n)
      BY <2>1, <3>0, MeaningIs, InputFacts
    <3>2. ~Sym(k, n).local
      BY <3>0, <3>1, InputFacts
    <3>3. e \in Reached
      BY <1>0 DEF Closed
    <3> QED BY <3>1, <3>2, <3>3 DEF UsedBy
  <2> QED BY <2>1
<1>2. ASSUME NEW i \in Merged, NEW n \in library.appending[i] PROVE Meaning(i, n) \subseteq S
  <2>1. ASSUME NEW e \in Meaning(i, n) PROVE e \in S
    <3>0. i \in Modules /\ n \in Names /\ (Exports(i, n) \/ LocalTo(i, n))
      BY InputFacts DEF MergeInput, WellFormed, Exports, LocalTo
    <3>1. PICK k \in Merged : e = <<k, n>> /\ (k = i \/ (Exports(k, n) /\ ~LocalTo(i, n)))
      BY <2>1, <3>0, MeaningIs
    <3>2. k = i
      BY <3>0, <3>1, OneExporter, InputFacts
    <3>3. e \in Reached
      BY <1>0 DEF Closed
    <3> QED BY <3>1, <3>2, <3>3 DEF UsedBy
  <2> QED BY <2>1
<1>3. ASSUME NEW d \in S, NEW n \in Sym(d[1], d[2]).refs PROVE Meaning(d[1], n) \subseteq S
  <2>1. ASSUME NEW e \in Meaning(d[1], n) PROVE e \in S
    <3>0. d \in Reached /\ n \in Names /\ d[1] \in Merged
      BY ReachedInAllDefs, InputFacts DEF AllDefs
    <3>1. PICK k \in Merged : e = <<k, n>> /\ (k = d[1] \/ Exports(k, n))
      BY <2>1, <3>0, MeaningIs
    <3>2. Sym(k, n).local => d[1] = k
      BY <3>0, <3>1, InputFacts
    <3>3. e \in Reached
      BY <1>0, <3>0 DEF Closed
    <3> QED BY <3>0, <3>1, <3>2, <3>3 DEF UsedBy
  <2> QED BY <2>1
<1>4. Closed(S)
  <2> HIDE DEF S
  <2> QED BY <1>1, <1>2, <1>3 DEF Closed
<1>5. S \in SUBSET AllDefs
  BY ReachedInAllDefs
<1>6. Reached \subseteq S
  BY <1>4, <1>5, ReachedLeast
<1> QED BY <1>6

LEMMA OwnerHasIt ==
  ASSUME MergeInput, NEW n \in InTable
  PROVE  n \in Names /\ Owner(n) \in Merged /\ Sym(Owner(n), n).here
<1>0. n \in Names /\ Definers(n) # {} /\ Definers(n) \subseteq Merged /\ Definers(n) \subseteq Nat
  BY InputFacts DEF InTable, Definers, Modules, MergeInput
<1> DEFINE R == OpToRel(<, Nat)
           ks == Definers(n)
<1>1. \A k, m \in Nat : k < m => <<k, m>> \in R
  BY DEF OpToRel
<1>2. IsWellFoundedOn(R, Nat)
  BY NatLessThanWellFounded
<1>3. ks # {} /\ ks \subseteq Nat
  BY <1>0
<1> HIDE DEF R, ks
<1>4. PICK m \in ks : \A k \in ks : ~(<<k, m>> \in R)
  BY <1>2, <1>3, WFMin
<1>5. \A k \in ks : ~(k < m)
  BY <1>1, <1>3, <1>4, Zenon
<1>6. \A k \in ks : m <= k
  BY <1>3, <1>5
<1>7. Owner(n) \in Definers(n)
  BY <1>6 DEF Owner, ks
<1> QED BY <1>0, <1>7 DEF Definers

LEMMA TableHasIt ==
  ASSUME NEW i \in Merged, NEW n \in Names, Sym(i, n).here
  PROVE  n \in InTable
BY DEF InTable, Definers

----------------------------------------------------------------------------
NameReached(n) == \E i \in Merged : <<i, n>> \in Reached

\* A reached name is reached in whichever module exports it.
LEMMA ReachedAtExporter ==
  ASSUME MergeInput, NEW i \in Merged, NEW n \in Names, Exports(i, n), NameReached(n)
  PROVE  <<i, n>> \in Reached
<1>1. PICK j \in Merged : <<j, n>> \in Reached
  BY DEF NameReached
<1>2. Sym(j, n).here /\ Sym(i, n).here /\ i \in Modules /\ j \in Modules
  BY <1>1, ReachedHere, InputFacts
<1>3. ~LocalTo(i, n)
  BY <1>2, LocalIsNotExported
<1>4. i = j
  BY <1>2, <1>3, OneSymbol
<1> QED BY <1>1, <1>4

\* While the modules are linked on demand: what the program declares of the
\* libraries is reached, what is reached in the modules to come is declared, and
\* the program has what is reached in the modules linked so far.
OnDemand ==
    /\ \A n \in declared \cap InTable : NameReached(n) \/ n \in Stubs
    /\ \A i \in Merged, n \in Names :
          <<i, n>> \in Reached /\ i >= next /\ ~LocalTo(i, n) => n \in declared
    /\ defined = {d \in Reached : d[1] < next}

\* The seed and the step of LinkOnlyNeeded.
Demand(i) ==
    (({n \in declared : ~Has(n)} \cap Externals(library, i)) \cup library.appending[i]) \cap Offered(i)
Demands(i, n) == {m \in Sym(i, n).refs \cap Offered(i) : Sym(i, m).local \/ ~Has(m)}
Satisfied(i, S) == Demand(i) \subseteq S /\ \A n \in S : Demands(i, n) \subseteq S

LEMMA OnlyNeededIs ==
  ASSUME NEW i
  PROVE  OnlyNeeded(i) = {n \in Offered(i) : \A S \in SUBSET Offered(i) : Satisfied(i, S) => n \in S}
BY DEF OnlyNeeded, Least, Satisfied, Demand, Demands

LEMMA OnlyNeededClosed ==
  ASSUME NEW i
  PROVE  Satisfied(i, OnlyNeeded(i)) /\ OnlyNeeded(i) \subseteq Offered(i)
<1>1. Demand(i) \subseteq OnlyNeeded(i)
  BY OnlyNeededIs DEF Satisfied, Demand
<1>2. ASSUME NEW n \in OnlyNeeded(i) PROVE Demands(i, n) \subseteq OnlyNeeded(i)
  <2>1. Demands(i, n) \subseteq Offered(i)
    BY DEF Demands
  <2> QED BY <2>1, OnlyNeededIs DEF Satisfied
<1> QED BY <1>1, <1>2, OnlyNeededIs DEF Satisfied

LEMMA OnlyNeededLeast ==
  ASSUME NEW i, NEW S \in SUBSET Offered(i), Satisfied(i, S)
  PROVE  OnlyNeeded(i) \subseteq S
BY OnlyNeededIs

\* The definitions that LinkOnlyNeeded takes of the next module are those of its
\* definitions that the program reaches.
LEMMA TakesWhatIsReached ==
  ASSUME MergeInput, next \in Merged, OnDemand
  PROVE  OnlyNeeded(next) = {n \in Names : <<next, n>> \in Reached}
<1> DEFINE i == next
           T == {n \in Names : <<i, n>> \in Reached}
<1>0. i \in Modules /\ i \in Merged /\ i \in Nat
  BY InputFacts DEF Modules, MergeInput
<1>1. Closed(Reached)
  BY ReachedClosed
<1>2. T \subseteq Offered(i)
  BY <1>0, ReachedHere DEF Offered
<1>3. ASSUME NEW n \in Names, Exports(i, n) PROVE n \notin Stubs => ~Has(n)
  <2>1. ASSUME NEW k \in Modules, <<k, n>> \in defined PROVE Sym(k, n).local
    <3>1. <<k, n>> \in Reached /\ k < i
      BY <2>1 DEF OnDemand
    <3>2. k \in Merged
      BY <3>1, ReachedInAllDefs DEF AllDefs
    <3>3. Sym(k, n).here /\ Sym(i, n).here
      BY <1>0, <1>3, <3>1, <3>2, ReachedHere, InputFacts
    <3>4. k # i
      BY <1>0, <3>1 DEF Modules, MergeInput
    <3>5. LocalTo(i, n)
      BY <1>0, <3>3, <3>4, OneSymbol
    <3> QED BY <1>0, <1>3, <3>5, LocalIsNotExported
  <2> QED BY <2>1 DEF Has
<1>4. OnlyNeeded(i) \subseteq T
  <2>1. ASSUME NEW n \in Demand(i) PROVE n \in T
    <3>1. n \in Names /\ n \notin Stubs /\ Sym(i, n).here
      BY DEF Demand, Offered
    <3>2. CASE n \in library.appending[i]
      <4>1. Meaning(i, n) \subseteq Reached
        BY <1>0, <1>1, <3>2 DEF Closed
      <4>2. <<i, n>> \in Meaning(i, n)
        BY <1>0, <3>1, MeaningFound
      <4> QED BY <3>1, <4>1, <4>2
    <3>3. CASE n \in declared /\ Exports(i, n)
      <4>1. n \in InTable
        BY <1>0, <3>1, TableHasIt
      <4>2. NameReached(n)
        BY <3>1, <3>3, <4>1 DEF OnDemand
      <4> QED BY <1>0, <3>1, <3>3, <4>2, ReachedAtExporter
    <3> QED BY <3>2, <3>3 DEF Demand, Exports
  <2>2. ASSUME NEW n \in T, NEW m \in Demands(i, n) PROVE m \in T
    <3>1. m \in Names /\ m \notin Stubs /\ Sym(i, m).here /\ m \in Sym(i, n).refs
      BY DEF Demands, Offered
    <3> QED BY <1>0, <3>1, UseReached
  <2>3. Satisfied(i, T)
    BY <2>1, <2>2 DEF Satisfied
  <2> HIDE DEF T
  <2> QED BY <1>2, <2>3, OnlyNeededLeast
<1>5. T \subseteq OnlyNeeded(i)
  <2> DEFINE S == {d \in Reached : d[1] = i => d[2] \in OnlyNeeded(i)}
  <2>1. Satisfied(i, OnlyNeeded(i))
    BY OnlyNeededClosed
  <2>2. ASSUME NEW n \in Names, <<i, n>> \in Reached, ~LocalTo(i, n) PROVE n \in OnlyNeeded(i)
    <3>1. Sym(i, n).here /\ n \notin Stubs
      BY <1>0, <2>2, ReachedHere
    <3>2. Exports(i, n)
      BY <1>0, <2>2, <3>1, InputFacts
    <3>3. n \in declared
      BY <1>0, <2>2 DEF OnDemand
    <3>4. n \in Demand(i)
      BY <1>3, <3>1, <3>2, <3>3 DEF Demand, Offered, Exports
    <3> QED BY <2>1, <3>4 DEF Satisfied
  <2>3. ASSUME NEW e \in Reached, NEW n \in Names, NEW j, e \in Meaning(j, n),
               j = i /\ LocalTo(i, n) => n \in OnlyNeeded(i)
        PROVE  e \in S
    <3>1. PICK k \in Merged : e = <<k, n>> /\ (k = j \/ Exports(k, n))
      BY <2>3, MeaningIs
    <3>2. CASE k # i
      BY <3>1, <3>2
    <3>3. CASE k = i /\ ~LocalTo(i, n)
      BY <2>2, <3>1, <3>3
    <3>4. CASE k = i /\ LocalTo(i, n)
      <4>1. k = j
        BY <1>0, <3>1, <3>4, LocalIsNotExported
      <4> QED BY <2>3, <3>1, <3>4, <4>1
    <3> QED BY <3>2, <3>3, <3>4
  <2>4. ASSUME NEW n \in Used PROVE Meaning(0, n) \subseteq S
    <3>1. n \in Names /\ 0 # i
      BY <1>0, InputFacts
    <3>2. Meaning(0, n) \subseteq Reached
      BY <1>1 DEF Closed
    <3> HIDE DEF S
    <3> QED BY <2>3, <3>1, <3>2
  <2>5. ASSUME NEW j \in Merged, NEW n \in library.appending[j] PROVE Meaning(j, n) \subseteq S
    <3>1. n \in Names
      BY InputFacts DEF MergeInput, WellFormed
    <3>2. Meaning(j, n) \subseteq Reached
      BY <1>1 DEF Closed
    <3>3. j = i /\ LocalTo(i, n) => n \in OnlyNeeded(i)
      <4>1. j = i /\ LocalTo(i, n) => n \in Demand(i)
        BY <1>0, <3>1, InputFacts DEF Demand, Offered
      <4> QED BY <2>1, <4>1 DEF Satisfied
    <3> HIDE DEF S
    <3> QED BY <2>3, <3>1, <3>2, <3>3
  <2>6. ASSUME NEW d \in S, NEW n \in Sym(d[1], d[2]).refs PROVE Meaning(d[1], n) \subseteq S
    <3>1. d \in Reached /\ d[1] \in Merged /\ d[2] \in Names /\ n \in Names
      BY ReachedInAllDefs, InputFacts DEF AllDefs
    <3>2. Meaning(d[1], n) \subseteq Reached
      BY <1>1, <3>1 DEF Closed
    <3>3. d[1] = i /\ LocalTo(i, n) => n \in OnlyNeeded(i)
      <4>1. ASSUME d[1] = i, LocalTo(i, n) PROVE n \in Demands(i, d[2])
        <5>1. Sym(i, n).here /\ Sym(i, n).local /\ n \notin Stubs
          BY <1>0, <3>1, <4>1, InputFacts
        <5> QED BY <3>1, <4>1, <5>1 DEF Demands, Offered
      <4> QED BY <2>1, <4>1 DEF Satisfied
    <3> HIDE DEF S
    <3> QED BY <2>3, <3>1, <3>2, <3>3
  <2>7. Closed(S)
    <3> HIDE DEF S
    <3> QED BY <2>4, <2>5, <2>6 DEF Closed
  <2>8. S \in SUBSET AllDefs
    BY ReachedInAllDefs
  <2>9. Reached \subseteq S
    BY <2>7, <2>8, ReachedLeast
  <2> QED BY <2>9
<1> QED BY <1>4, <1>5

----------------------------------------------------------------------------
\* While the needed names are closed: each is reached, or is the program's own;
\* the roots are among them; and what a needed name uses is needed, unless the
\* name is still to be read.
ClosingOver ==
    /\ needed \subseteq InTable /\ work \subseteq needed \ Stubs
    /\ \A n \in needed : NameReached(n) \/ n \in Stubs
    /\ declared \cap InTable \subseteq needed
    /\ InTable \cap Stubs \subseteq needed
    /\ \A n \in Used, i \in Merged : Exports(i, n) => n \in needed
    /\ \A i \in Merged : library.appending[i] \subseteq needed
    /\ \A n \in (needed \ Stubs) \ work : Sym(Owner(n), n).refs \cap InTable \subseteq needed

\* The functions that the program's own module declares.  When the libraries are
\* linked whole, nothing removes a declaration but the definition.
DeclaredByProgram(n) == program[n] \in {"unused", "used"}

LinkStages == {"curate", "read", "roots", "close", "link", "merged", "failed"}

LinkingInv ==
    /\ MergeInput
    /\ linkStage \in LinkStages /\ declared \subseteq Names /\ next \in Nat \ {0}
    /\ \A n \in declared, i \in Modules : ~LocalTo(i, n)
    /\ \A b \in bodies : Sym(Runtime, b).refs \cap Locals(library, Runtime) \subseteq bodies
    /\ target # "native" => bodies = {}
    /\ linkStage = "curate" => bodies = {} /\ target = "native"
    /\ linkStage \in {"curate", "read", "roots"} =>
          \A n \in Used, i \in Merged : Exports(i, n) => n \in declared
    /\ contracts \subseteq {n \in Names : DeclaredByProgram(n)}
    /\ \A n \in Names : Stated(n) => n \in contracts
    /\ linkStage \in {"curate", "read", "roots"} =>
          \A n \in Names : DeclaredByProgram(n) => n \in contracts
    /\ linkStage \in {"close", "link", "merged"} /\ linker = "lazy" =>
          contracts \cap InTable \subseteq Used
    /\ linkStage \in {"curate", "read", "roots", "close"} => next = 1 /\ defined = {}
    /\ linkStage \in {"roots", "close"} => linker = "lazy"
    /\ linkStage = "close" => ClosingOver
    /\ linker = "whole" =>
          \A n \in Names : DeclaredByProgram(n) =>
              n \in declared \/ \E j \in Modules : j < next /\ Exports(j, n)
    /\ linkStage = "link" /\ linker = "lazy" => OnDemand
    /\ linkStage = "link" /\ linker = "whole" =>
          defined = {d \in AllDefs : d[1] < next /\ d[2] \in Offered(d[1])}
    /\ MergeIsExact

\* The names that the needed ones reach.
LEMMA NeededIsReached ==
  ASSUME MergeInput, ClosingOver, work = {}
  PROVE  \A d \in Reached : d[2] \in needed
<1> DEFINE S == {d \in Reached : d[2] \in needed}
<1>0. Closed(Reached)
  BY ReachedClosed
<1>1. ASSUME NEW n \in Used PROVE Meaning(0, n) \subseteq S
  <2>1. ASSUME NEW e \in Meaning(0, n) PROVE e \in S
    <3>1. n \in Names /\ e \in Reached
      BY <1>0, InputFacts DEF Closed
    <3>2. PICK k \in Merged : e = <<k, n>> /\ Exports(k, n)
      BY <2>1, <3>1, MeaningIs, InputFacts
    <3> QED BY <3>1, <3>2 DEF ClosingOver
  <2> QED BY <2>1
<1>2. ASSUME NEW i \in Merged, NEW n \in library.appending[i] PROVE Meaning(i, n) \subseteq S
  <2>1. ASSUME NEW e \in Meaning(i, n) PROVE e \in S
    <3>1. n \in Names /\ n \in needed /\ e \in Reached
      BY <1>0, InputFacts DEF ClosingOver, MergeInput, WellFormed, Closed
    <3>2. PICK k \in Merged : e = <<k, n>>
      BY <2>1, <3>1, MeaningIs, InputFacts
    <3> QED BY <3>1, <3>2
  <2> QED BY <2>1
<1>3. ASSUME NEW d \in S, NEW n \in Sym(d[1], d[2]).refs PROVE Meaning(d[1], n) \subseteq S
  <2>1. ASSUME NEW e \in Meaning(d[1], n) PROVE e \in S
    <3>1. PICK i \in Merged, m \in Names : d = <<i, m>>
      BY ReachedInAllDefs DEF AllDefs
    <3>2. i \in Modules /\ <<i, m>> \in Reached /\ m \in needed /\ n \in Sym(i, m).refs /\ n \in Names
      BY <3>1, InputFacts
    <3>3. e \in Reached
      BY <1>0 DEF Closed
    <3>4. PICK k \in Merged : e = <<k, n>>
      BY <2>1, <3>2, MeaningIs
    <3>5. n \in InTable
      BY <3>2, <3>3, <3>4, ReachedHere, TableHasIt
    <3>6. Sym(i, m).here /\ m \notin Stubs /\ m \in InTable
      BY <3>2, ReachedHere, TableHasIt
    <3>7. Sym(Owner(m), m) = Sym(i, m)
      BY <3>2, <3>6, OwnerHasIt, OneSymbol, InputFacts
    <3>8. n \in needed
      BY <3>2, <3>5, <3>6, <3>7 DEF ClosingOver
    <3> QED BY <3>3, <3>4, <3>8
  <2> QED BY <2>1
<1>4. Closed(S)
  <2> HIDE DEF S
  <2> QED BY <1>1, <1>2, <1>3 DEF Closed
<1>5. S \in SUBSET AllDefs
  BY ReachedInAllDefs
<1>6. Reached \subseteq S
  BY <1>4, <1>5, ReachedLeast
<1> QED BY <1>6

\* What a step that leaves the input alone leaves alone.
SameInput == UNCHANGED <<library, program, target, linker, bodies>>

LEMMA InputStays ==
  ASSUME SameInput
  PROVE  /\ MergeInput' <=> MergeInput
         /\ Merged' = Merged /\ AllDefs' = AllDefs /\ InTable' = InTable /\ Stubs' = Stubs
         /\ Used' = Used /\ Reached' = Reached
         /\ \A i, n : Sym(i, n)' = Sym(i, n)
         /\ \A i, n : LocalTo(i, n)' <=> LocalTo(i, n)
         /\ \A i, n : Exports(i, n)' <=> Exports(i, n)
         /\ \A n : Owner(n)' = Owner(n)
         /\ \A n : NameReached(n)' <=> NameReached(n)
         /\ \A n : DeclaredByProgram(n)' <=> DeclaredByProgram(n)
         /\ \A n : Stated(n)' <=> Stated(n)
         /\ \A i : Offered(i)' = Offered(i)
<1>1. Merged' = Merged /\ AllDefs' = AllDefs /\ Stubs' = Stubs /\ Used' = Used
  BY DEF SameInput, Merged, AllDefs, Stubs, Used, Sym
<1>2. InTable' = InTable /\ \A n : Owner(n)' = Owner(n)
  BY <1>1 DEF SameInput, InTable, Owner, Definers, Sym
<1>3. Reached' = Reached
  BY ReachedSame DEF SameInput
<1>4. /\ \A i, n : Sym(i, n)' = Sym(i, n)
      /\ \A i, n : LocalTo(i, n)' <=> LocalTo(i, n)
      /\ \A i, n : Exports(i, n)' <=> Exports(i, n)
      /\ \A n : DeclaredByProgram(n)' <=> DeclaredByProgram(n)
  BY DEF SameInput, Sym, LocalTo, Exports, DeclaredByProgram
<1>5. /\ \A n : NameReached(n)' <=> NameReached(n)
      /\ \A i : Offered(i)' = Offered(i)
  BY <1>1, <1>3, <1>4 DEF NameReached, Offered
<1>6. MergeInput' <=> MergeInput
  BY DEF SameInput, MergeInput, LocalTo, Kept
<1>7. \A n : Stated(n)' <=> Stated(n)
  BY <1>1 DEF SameInput, Stated
<1> QED BY <1>1, <1>2, <1>3, <1>4, <1>5, <1>6, <1>7

LEMMA StatedIsDeclared ==
  ASSUME NEW n \in Names, Stated(n)
  PROVE  DeclaredByProgram(n)
BY DEF Stated, DeclaredByProgram

----------------------------------------------------------------------------
LEMMA LinkingInitially ==
  ASSUME LinkingInit
  PROVE  LinkingInv
<1>1. MergeInput
  BY LibrariesAssumption DEF LinkingInit, MergeInput, LocalTo
<1>2. \A n \in declared, i \in Modules : ~LocalTo(i, n)
  BY <1>1 DEF LinkingInit, MergeInput
<1>3. \A n \in Used : n \in declared
  BY DEF LinkingInit, Used
<1>4. /\ contracts = {n \in Names : DeclaredByProgram(n)}
      /\ \A n \in Names : DeclaredByProgram(n) => n \in declared
      /\ \A n \in Names : Stated(n) => n \in contracts
  BY StatedIsDeclared DEF LinkingInit, DeclaredByProgram
<1>5. MergeIsExact
  BY DEF LinkingInit, MergeIsExact, LinkAt
<1> QED BY <1>1, <1>2, <1>3, <1>4, <1>5 DEF LinkingInit, LinkingInv, LinkStages

LEMMA FailingStep ==
  ASSUME LinkingInv, LinkingFails
  PROVE  LinkingInv'
<1>1. SameInput /\ linkStage' = "failed" /\ UNCHANGED <<declared, defined, contracts, needed, work, next>>
  BY DEF LinkingFails, SameInput, LinkTo
<1>2. MergeIsExact'
  BY <1>1 DEF MergeIsExact, LinkAt
<1> QED BY <1>1, <1>2, InputStays DEF LinkingInv, LinkStages, SameInput

LEMMA CurateStep ==
  ASSUME LinkingInv, Curate
  PROVE  LinkingInv'
<1>0. /\ linkStage = "curate" /\ linkStage' = "read" /\ bodies' = CuratedBodies
      /\ declared' = declared \cup ((UNION {Sym(Runtime, n).refs : n \in CuratedBodies}) \ CuratedBodies)
      /\ UNCHANGED <<library, program, target, linker, defined, contracts, needed, work, next>>
  BY DEF Curate, LinkAt, LinkTo
<1>1. MergeInput /\ bodies = {} /\ target = "native"
  BY <1>0 DEF LinkingInv
<1>2. /\ CuratedBodies \subseteq Kept
      /\ \A n \in CuratedBodies : Sym(Runtime, n).refs \cap Kept \subseteq CuratedBodies
  BY DEF CuratedBodies, Least
<1>3. /\ Kept \subseteq Names /\ Runtime \in Modules
      /\ \A n \in Kept : Sym(Runtime, n).refs \cap Locals(library, Runtime) \subseteq Kept
  BY <1>1, InputFacts DEF MergeInput, WellFormed, Kept, Sym
<1>4. ASSUME NEW b \in CuratedBodies
      PROVE  Sym(Runtime, b).refs \cap Locals(library, Runtime) \subseteq CuratedBodies
  BY <1>2, <1>3
<1>5. /\ Merged' = Merged /\ Runtime \notin Merged
      /\ \A i, n : Sym(i, n)' = Sym(i, n)
      /\ \A i, n : LocalTo(i, n)' <=> LocalTo(i, n)
      /\ \A i, n : Exports(i, n)' <=> Exports(i, n)
      /\ \A n : DeclaredByProgram(n)' <=> DeclaredByProgram(n)
  BY <1>0, <1>1 DEF Merged, Sym, LocalTo, Exports, DeclaredByProgram
<1>6. MergeInput'
  BY <1>0, <1>1, <1>2 DEF MergeInput, LocalTo, Kept
<1>7. declared' \subseteq Names /\ \A n \in declared', i \in Modules : ~LocalTo(i, n)
  <2>1. ASSUME NEW b \in CuratedBodies, NEW n \in Sym(Runtime, b).refs, n \notin CuratedBodies
        PROVE  n \in Names /\ \A i \in Modules : ~LocalTo(i, n)
    <3>1. n \in Names /\ b \in Names
      BY <1>1, <1>2, <1>3, InputFacts
    <3>2. ASSUME NEW i \in Modules, LocalTo(i, n) PROVE FALSE
      <4>1. LocalTo(Runtime, n)
        BY <1>1, <1>3, <3>1, <3>2, LocalIsUsedAtHome
      <4> QED BY <1>4, <2>1, <4>1 DEF LocalTo
    <3> QED BY <3>1, <3>2
  <2> QED BY <1>0, <2>1 DEF LinkingInv
<1>8. ASSUME NEW n \in Used', NEW i \in Merged, Exports(i, n) PROVE n \in declared'
  <2>1. CASE n \in Used
    BY <1>0, <1>8, <2>1 DEF LinkingInv
  <2>2. CASE n \notin Used
    <3>1. PICK b \in CuratedBodies : n \in Sym(Runtime, b).refs
      BY <1>0, <1>1, <1>5, <2>2 DEF Used
    <3>2. i \in Modules /\ i # Runtime /\ n \in Names
      BY <1>1, <1>2, <1>3, <1>5, <3>1, InputFacts
    <3>3. n \notin CuratedBodies
      <4>1. ASSUME n \in Kept PROVE FALSE
        <5>1. Exports(Runtime, n) \/ LocalTo(Runtime, n)
          BY <1>1, <4>1 DEF Kept, MergeInput, WellFormed, Exports, LocalTo
        <5> QED BY <1>1, <1>3, <1>8, <3>2, <5>1, OneExporter, LocalIsNotExported
      <4> QED BY <1>2, <4>1
    <3> QED BY <1>0, <3>1, <3>3
  <2> QED BY <2>1, <2>2
<1>9. MergeIsExact'
  BY <1>0 DEF MergeIsExact, LinkAt
<1>10. /\ \A b \in bodies' : Sym(Runtime, b)'.refs \cap Locals(library', Runtime) \subseteq bodies'
       /\ target' # "native" => bodies' = {}
  BY <1>0, <1>1, <1>4, <1>5
<1>11. /\ next' = 1 /\ defined' = {} /\ next' \in Nat \ {0}
       /\ contracts' = contracts /\ contracts \subseteq {n \in Names : DeclaredByProgram(n)}
       /\ \A n \in Names : DeclaredByProgram(n) => n \in contracts'
       /\ \A n \in Names : Stated(n)' => n \in contracts'
       /\ linker' = "whole" => \A n \in Names : DeclaredByProgram(n) => n \in declared'
  <2>1. next = 1 /\ \A j \in Modules : ~(j < 1)
    BY <1>0 DEF LinkingInv, MergeInput, Modules
  <2>2. \A n \in Names : DeclaredByProgram(n) => n \in contracts'
    BY <1>0 DEF LinkingInv
  <2>3. ASSUME NEW n \in Names, Stated(n)' PROVE n \in contracts'
    <3>1. DeclaredByProgram(n)
      BY <1>0, <2>3 DEF Stated, DeclaredByProgram
    <3> QED BY <2>2, <3>1
  <2> QED BY <1>0, <2>1, <2>2, <2>3 DEF LinkingInv
<1> QED BY <1>0, <1>5, <1>6, <1>7, <1>8, <1>9, <1>10, <1>11 DEF LinkingInv, LinkStages

LEMMA CurationFailsStep ==
  ASSUME LinkingInv, CurationFails
  PROVE  LinkingInv'
<1>1. /\ SameInput /\ linkStage = "curate" /\ linkStage' = "read"
      /\ UNCHANGED <<declared, defined, contracts, needed, work, next>>
  BY DEF CurationFails, SameInput, LinkAt, LinkTo
<1>2. MergeIsExact'
  BY <1>1 DEF MergeIsExact, LinkAt
<1> QED BY <1>1, <1>2, InputStays DEF LinkingInv, LinkStages, SameInput

LEMMA ReadStep ==
  ASSUME LinkingInv, ReadModules
  PROVE  LinkingInv'
<1>1. /\ SameInput /\ linkStage = "read"
      /\ linkStage' = IF linker = "lazy" THEN "roots" ELSE "link"
      /\ UNCHANGED <<declared, defined, contracts, needed, work, next>>
  BY DEF ReadModules, SameInput, LinkAt, LinkTo
<1>2. MergeIsExact'
  BY <1>1 DEF MergeIsExact, LinkAt
<1>3. linker \in {"lazy", "whole"}
  BY DEF LinkingInv, MergeInput
<1>4. linker = "whole" => defined = {d \in AllDefs : d[1] < next /\ d[2] \in Offered(d[1])}
  <2>1. defined = {} /\ next = 1
    BY <1>1 DEF LinkingInv
  <2>2. ASSUME NEW d \in AllDefs PROVE ~(d[1] < 1)
    BY DEF AllDefs, LinkingInv, MergeInput, Merged, Modules
  <2> QED BY <2>1, <2>2
<1> QED BY <1>1, <1>2, <1>3, <1>4, InputStays DEF LinkingInv, LinkStages, SameInput

LEMMA RootsStep ==
  ASSUME LinkingInv, Roots
  PROVE  LinkingInv'
<1> DEFINE kept == (UNION {library.appending[i] : i \in Merged}) \cap InTable
           roots == ((InTable \cap declared \cap Used) \cup kept) \ Stubs
<1>0. /\ SameInput /\ linkStage = "roots" /\ linkStage' = "close"
      /\ declared' = declared \ (InTable \ Used)
      /\ contracts' = contracts \ (InTable \ Used)
      /\ needed' = roots \cup (InTable \cap Stubs) /\ work' = roots
      /\ UNCHANGED <<defined, next>>
  BY DEF Roots, SameInput, LinkAt, LinkTo
<1>1. MergeInput /\ Closed(Reached) /\ linker = "lazy"
  BY <1>0, ReachedClosed DEF LinkingInv
<1>2. MergeIsExact'
  BY <1>0 DEF MergeIsExact, LinkAt
<1>3. ASSUME NEW i \in Merged, NEW n \in library.appending[i]
      PROVE  n \in InTable /\ (n \notin Stubs => NameReached(n))
  <2>1. i \in Modules /\ n \in Names /\ Sym(i, n).here
    BY <1>1, InputFacts DEF MergeInput, WellFormed, Externals, Locals, Sym
  <2>2. n \notin Stubs => <<i, n>> \in Meaning(i, n)
    BY <1>1, <2>1, MeaningFound
  <2>3. Meaning(i, n) \subseteq Reached
    BY <1>1 DEF Closed
  <2> QED BY <2>1, <2>2, <2>3, TableHasIt DEF NameReached
<1>4. ASSUME NEW n \in InTable \cap declared \cap Used, n \notin Stubs PROVE NameReached(n)
  <2>1. n \in Names /\ Owner(n) \in Merged /\ Sym(Owner(n), n).here
    BY <1>1, OwnerHasIt
  <2>2. ~LocalTo(Owner(n), n)
    BY <1>1, <2>1, InputFacts DEF LinkingInv
  <2>3. <<Owner(n), n>> \in Meaning(0, n)
    BY <1>1, <1>4, <2>1, <2>2, MeaningFound
  <2> QED BY <1>1, <2>1, <2>3 DEF Closed, NameReached
<1>5. \A n \in needed' : NameReached(n) \/ n \in Stubs
  BY <1>0, <1>3, <1>4
<1>6. \A i \in Merged : library.appending[i] \subseteq needed'
  BY <1>0, <1>3
<1>7. ASSUME NEW n \in Used, NEW i \in Merged, Exports(i, n) PROVE n \in needed'
  <2>1. n \in declared
    BY <1>0, <1>7 DEF LinkingInv
  <2>2. n \in Names /\ Sym(i, n).here
    BY <1>1, <1>7, InputFacts
  <2> QED BY <1>0, <2>1, <2>2, TableHasIt
<1>8. /\ needed' \subseteq InTable /\ work' \subseteq needed' \ Stubs
      /\ declared' \cap InTable \subseteq needed' /\ InTable \cap Stubs \subseteq needed'
      /\ (needed' \ Stubs) \ work' = {}
  BY <1>0
<1> HIDE DEF roots, kept
<1>9. ClosingOver'
  BY <1>0, <1>5, <1>6, <1>7, <1>8, InputStays DEF ClosingOver, SameInput
<1>10. declared' \subseteq declared
  BY <1>0
<1>11. /\ contracts' \subseteq {n \in Names : DeclaredByProgram(n)}
       /\ contracts' \cap InTable \subseteq Used
  BY <1>0 DEF LinkingInv
<1>12. ASSUME NEW n \in Names, Stated(n) PROVE n \in contracts'
  <2>1. n \in contracts
    BY <1>12 DEF LinkingInv
  <2>2. n \in Used
    BY <1>1, <1>12 DEF Stated, Used
  <2> QED BY <1>0, <2>1, <2>2
<1> QED BY <1>0, <1>1, <1>2, <1>9, <1>10, <1>11, <1>12, InputStays DEF LinkingInv, LinkStages, SameInput

LEMMA CloseStep ==
  ASSUME LinkingInv, NEW n \in Names, CloseOne(n)
  PROVE  LinkingInv'
<1> DEFINE found == (Sym(Owner(n), n).refs \cap InTable) \ needed
<1>0. /\ SameInput /\ linkStage = "close" /\ linkStage' = "close" /\ n \in work
      /\ needed' = needed \cup found /\ work' = (work \ {n}) \cup found
      /\ UNCHANGED <<declared, defined, contracts, next>>
  BY DEF CloseOne, SameInput, LinkAt
<1>1. MergeInput /\ ClosingOver /\ linker = "lazy"
  BY <1>0 DEF LinkingInv
<1>2. MergeIsExact'
  BY <1>0 DEF MergeIsExact, LinkAt
<1>3. n \in InTable /\ n \notin Stubs /\ n \in needed
  BY <1>0, <1>1 DEF ClosingOver
<1>4. PICK i \in Merged : <<i, n>> \in Reached
  BY <1>1, <1>3 DEF ClosingOver, NameReached
<1>5. Sym(Owner(n), n) = Sym(i, n)
  BY <1>1, <1>3, <1>4, OwnerHasIt, OneSymbol, ReachedHere, InputFacts
<1>6. ASSUME NEW m \in found PROVE NameReached(m) /\ m \notin Stubs
  <2>1. m \in InTable /\ m \notin Stubs /\ m \in Sym(i, n).refs
    BY <1>1, <1>5 DEF ClosingOver
  <2>2. Owner(m) \in Merged /\ Sym(Owner(m), m).here
    BY <1>1, <2>1, OwnerHasIt
  <2> QED BY <1>1, <1>4, <2>1, <2>2, UseReached DEF NameReached
<1>7. found \subseteq InTable /\ Sym(Owner(n), n).refs \cap InTable \subseteq needed'
  BY <1>0
<1> HIDE DEF found
<1>8. ASSUME NEW m \in (needed' \ Stubs) \ work' PROVE Sym(Owner(m), m).refs \cap InTable \subseteq needed'
  <2>1. m = n \/ m \in (needed \ Stubs) \ work
    BY <1>0
  <2> QED BY <1>0, <1>1, <1>7, <2>1 DEF ClosingOver
<1>9. /\ needed' \subseteq InTable /\ work' \subseteq needed' \ Stubs
      /\ \A m \in needed' : NameReached(m) \/ m \in Stubs
  BY <1>0, <1>1, <1>6, <1>7 DEF ClosingOver
<1>10. ClosingOver'
  BY <1>0, <1>1, <1>8, <1>9, InputStays DEF ClosingOver, SameInput
<1> QED BY <1>0, <1>1, <1>2, <1>10, InputStays DEF LinkingInv, LinkStages, SameInput

LEMMA DeclareStep ==
  ASSUME LinkingInv, DeclareNeeded
  PROVE  LinkingInv'
<1>0. /\ SameInput /\ linkStage = "close" /\ linkStage' = "link" /\ work = {}
      /\ declared' = declared \cup {n \in needed \ Stubs : ~Sym(Owner(n), n).local}
      /\ UNCHANGED <<defined, contracts, next>>
  BY DEF DeclareNeeded, SameInput, LinkAt, LinkTo
<1>1. MergeInput /\ ClosingOver /\ linker = "lazy" /\ next = 1 /\ defined = {}
  BY <1>0 DEF LinkingInv
<1>2. MergeIsExact'
  BY <1>0 DEF MergeIsExact, LinkAt
<1>3. ASSUME NEW n \in needed \ Stubs
      PROVE  /\ n \in Names /\ Owner(n) \in Modules
             /\ \A i \in Modules : LocalTo(i, n) => Sym(Owner(n), n).local
  <2>1. n \in Names /\ Owner(n) \in Modules /\ Sym(Owner(n), n).here
    BY <1>1, OwnerHasIt, InputFacts DEF ClosingOver
  <2>2. ASSUME NEW i \in Modules, LocalTo(i, n) PROVE Sym(Owner(n), n).local
    <3>1. Sym(i, n).here /\ Sym(i, n).local
      BY <1>1, <2>1, <2>2, InputFacts
    <3>2. Sym(i, n) = Sym(Owner(n), n)
      BY <1>1, <2>1, <3>1, OneSymbol
    <3> QED BY <3>1, <3>2
  <2> QED BY <2>1, <2>2
<1>4. declared' \subseteq Names /\ \A n \in declared', i \in Modules : ~LocalTo(i, n)
  BY <1>0, <1>3 DEF LinkingInv
<1>5. \A n \in declared' \cap InTable : NameReached(n) \/ n \in Stubs
  BY <1>0, <1>1 DEF ClosingOver
<1>6. ASSUME NEW i \in Merged, NEW n \in Names, <<i, n>> \in Reached, ~LocalTo(i, n) PROVE n \in declared'
  <2>1. n \in needed
    BY <1>0, <1>1, <1>6, NeededIsReached
  <2>2. Sym(i, n).here /\ n \notin Stubs /\ i \in Modules
    BY <1>1, <1>6, ReachedHere, InputFacts
  <2>3. Owner(n) \in Modules /\ Sym(Owner(n), n).here
    BY <1>1, <2>1, OwnerHasIt, InputFacts DEF ClosingOver
  <2>4. Sym(Owner(n), n) = Sym(i, n)
    BY <1>1, <2>2, <2>3, OneSymbol
  <2>5. ~Sym(i, n).local
    BY <1>1, <1>6, <2>2, InputFacts
  <2> QED BY <1>0, <2>1, <2>2, <2>4, <2>5
<1>7. defined = {d \in Reached : d[1] < next}
  <2>1. ASSUME NEW d \in Reached PROVE ~(d[1] < 1)
    BY <1>1, ReachedInAllDefs DEF AllDefs, MergeInput, Merged, Modules
  <2> QED BY <1>1, <2>1
<1>8. OnDemand'
  BY <1>0, <1>5, <1>6, <1>7, InputStays DEF OnDemand, SameInput
<1> QED BY <1>0, <1>1, <1>2, <1>4, <1>8, InputStays DEF LinkingInv, LinkStages, SameInput

\* One module linked, on demand or whole: the definitions of it that are taken.
Taken == IF linker = "lazy" THEN OnlyNeeded(next) ELSE Offered(next)

LEMMA LinkStep ==
  ASSUME LinkingInv, LinkModule
  PROVE  LinkingInv'
<1> DEFINE own == {n \in Taken : ~Sym(next, n).local}
           used == (UNION {Sym(next, n).refs : n \in Taken}) \ Locals(library, next)
<1>0. /\ SameInput /\ linkStage = "link" /\ linkStage' = "link" /\ next \in Merged /\ next' = next + 1
      /\ defined' = defined \cup {<<next, n>> : n \in Taken}
      /\ declared' = (declared \cup used) \ own
      /\ contracts' = contracts \ {n \in own : n \notin declared}
  BY DEF LinkModule, Take, SameInput, LinkAt, Taken
<1>1. MergeInput /\ next \in Modules /\ next \in Nat \ {0} /\ linker \in {"lazy", "whole"}
  BY <1>0, InputFacts DEF LinkingInv, MergeInput
<1>2. MergeIsExact'
  BY <1>0 DEF MergeIsExact, LinkAt
<1>3. Taken \subseteq Offered(next) /\ Taken \subseteq Names
  BY OnlyNeededClosed DEF Taken, Offered
<1>4. ASSUME NEW n \in own PROVE Exports(next, n) /\ n \in Names /\ n \notin Stubs
  <2>1. n \in Names /\ Sym(next, n).here /\ ~Sym(next, n).local /\ n \notin Stubs
    BY <1>3 DEF Offered
  <2> QED BY <1>1, <2>1, InputFacts
<1>5. used \subseteq Names
  BY <1>1, <1>3, InputFacts
<1>6. ASSUME NEW n \in used, NEW i \in Modules PROVE ~LocalTo(i, n)
  <2>1. PICK m \in Taken : n \in Sym(next, m).refs
    OBVIOUS
  <2>2. n \notin Locals(library, next) /\ m \in Names /\ n \in Names
    BY <1>3, <1>5
  <2> QED BY <1>1, <2>1, <2>2, LocalIsUsedAtHome DEF LocalTo
<1>7. \A d \in AllDefs : d[1] \in Nat
  BY <1>1 DEF AllDefs, Merged, Modules, MergeInput
<1>8. CASE linker = "lazy"
  <2>1. OnDemand
    BY <1>0, <1>8 DEF LinkingInv
  <2>2. Taken = {n \in Names : <<next, n>> \in Reached}
    BY <1>0, <1>1, <1>8, <2>1, TakesWhatIsReached DEF Taken
  <2>3. ASSUME NEW n \in own PROVE n \in declared
    <3>1. <<next, n>> \in Reached /\ n \in Names
      BY <2>2
    <3>2. ~LocalTo(next, n)
      BY <1>1, <1>4, <3>1, LocalIsNotExported
    <3> QED BY <1>0, <1>1, <2>1, <3>1, <3>2 DEF OnDemand
  <2>4. contracts' = contracts
    BY <1>0, <2>3
  <2>5. ASSUME NEW n \in declared' \cap InTable PROVE NameReached(n) \/ n \in Stubs
    <3>1. CASE n \in declared
      BY <2>1, <3>1 DEF OnDemand
    <3>2. CASE n \in used /\ n \notin Stubs
      <4>1. PICK m \in Taken : n \in Sym(next, m).refs
        BY <3>2
      <4>2. Owner(n) \in Merged /\ Sym(Owner(n), n).here /\ n \in Names
        BY <1>1, OwnerHasIt
      <4>3. m \in Names /\ <<next, m>> \in Reached
        BY <2>2
      <4> QED BY <1>0, <1>1, <3>2, <4>1, <4>2, <4>3, UseReached DEF NameReached
    <3> QED BY <1>0, <3>1, <3>2
  <2>6. ASSUME NEW i \in Merged, NEW n \in Names, <<i, n>> \in Reached, i >= next + 1, ~LocalTo(i, n)
        PROVE  n \in declared'
    <3>1. i \in Nat /\ i \in Modules /\ i # next /\ i >= next
      BY <1>1, <2>6, InputFacts DEF Modules, MergeInput
    <3>2. n \in declared
      BY <2>1, <2>6, <3>1 DEF OnDemand
    <3>3. Exports(i, n)
      BY <1>1, <2>6, <3>1, ReachedHere, InputFacts
    <3>4. n \notin own
      BY <1>1, <1>4, <3>1, <3>3, OneExporter
    <3> QED BY <1>0, <3>2, <3>4
  <2>7. defined' = {d \in Reached : d[1] < next + 1}
    <3>1. ASSUME NEW d \in Reached PROVE d[1] < next + 1 <=> d[1] < next \/ d[1] = next
      BY <1>1, <1>7, ReachedInAllDefs
    <3>2. ASSUME NEW d \in Reached, d[1] = next PROVE d \in {<<next, n>> : n \in Taken}
      BY <2>2, <3>2, ReachedInAllDefs DEF AllDefs
    <3>3. ASSUME NEW n \in Taken PROVE <<next, n>> \in Reached
      BY ONLY <2>2, <3>3
    <3> QED BY <1>0, <2>1, <3>1, <3>2, <3>3 DEF OnDemand
  <2> HIDE DEF own, used
  <2>8. OnDemand'
    BY <1>0, <2>5, <2>6, <2>7, InputStays DEF OnDemand, SameInput
  <2>9. declared' \subseteq Names /\ \A n \in declared', i \in Modules : ~LocalTo(i, n)
    BY <1>0, <1>5, <1>6 DEF LinkingInv
  <2> QED BY <1>0, <1>1, <1>2, <1>8, <2>4, <2>8, <2>9, InputStays DEF LinkingInv, LinkStages, SameInput
<1>9. CASE linker = "whole"
  <2>1. Taken = Offered(next) /\ defined = {d \in AllDefs : d[1] < next /\ d[2] \in Offered(d[1])}
    BY <1>0, <1>9 DEF LinkingInv, Taken
  <2>2. defined' = {d \in AllDefs : d[1] < next + 1 /\ d[2] \in Offered(d[1])}
    <3>1. ASSUME NEW d \in AllDefs PROVE d[1] < next + 1 <=> d[1] < next \/ d[1] = next
      BY <1>1, <1>7
    <3>2. ASSUME NEW d \in AllDefs, d[1] = next, d[2] \in Offered(d[1])
          PROVE  d \in {<<next, n>> : n \in Taken}
      BY <2>1, <3>2 DEF AllDefs
    <3>3. \A d \in {<<next, n>> : n \in Taken} : d \in AllDefs /\ d[1] = next /\ d[2] \in Offered(d[1])
      BY <1>0, <1>3, <2>1 DEF AllDefs
    <3> QED BY <1>0, <2>1, <3>1, <3>2, <3>3
  <2>3. ASSUME NEW n \in Names, DeclaredByProgram(n)
        PROVE  /\ n \in contracts'
               /\ n \in declared' \/ \E j \in Modules : j < next' /\ Exports(j, n)
    <3>1. n \in contracts /\ (n \in declared \/ \E j \in Modules : j < next /\ Exports(j, n))
      BY <1>9, <2>3 DEF LinkingInv, Stated, DeclaredByProgram
    <3>2. CASE n \in own
      <4>1. Exports(next, n)
        BY <1>4, <3>2
      <4>2. n \in declared
        <5>1. ASSUME NEW j \in Modules, j < next, Exports(j, n) PROVE FALSE
          <6>1. j = next
            BY <1>1, <4>1, <5>1, OneExporter
          <6> QED BY <1>1, <5>1, <6>1
        <5> QED BY <3>1, <5>1
      <4> QED BY <1>0, <1>1, <3>1, <4>1, <4>2
    <3>3. CASE n \notin own
      <4>1. \A j \in Modules : j < next => j < next'
        BY <1>0, <1>1 DEF Modules, MergeInput
      <4> QED BY <1>0, <3>1, <3>3, <4>1
    <3> QED BY <3>2, <3>3
  <2> HIDE DEF own, used
  <2>4. declared' \subseteq Names /\ \A n \in declared', i \in Modules : ~LocalTo(i, n)
    BY <1>0, <1>5, <1>6 DEF LinkingInv
  <2>5. next' \in Nat \ {0}
    BY <1>0, <1>1
  <2>6. /\ contracts' \subseteq {n \in Names : DeclaredByProgram(n)}
        /\ \A n \in Names : Stated(n) => n \in contracts'
    BY <1>0, <2>3, StatedIsDeclared DEF LinkingInv
  <2> QED BY <1>0, <1>1, <1>2, <1>9, <2>2, <2>3, <2>4, <2>5, <2>6, InputStays DEF LinkingInv, LinkStages, SameInput
<1> QED BY <1>1, <1>8, <1>9

LEMMA FinishStep ==
  ASSUME LinkingInv, Finish
  PROVE  LinkingInv'
<1>0. /\ SameInput /\ linkStage = "link" /\ linkStage' = "merged" /\ next \notin Merged /\ defined' = Pruned
      /\ UNCHANGED <<declared, contracts, needed, work, next>>
  BY DEF Finish, SameInput, LinkAt, LinkTo
<1>1. MergeInput /\ next \in Nat \ {0} /\ linker \in {"lazy", "whole"}
  BY DEF LinkingInv, MergeInput
<1>2. ASSUME NEW i \in Merged PROVE i < next
  BY <1>0, <1>1 DEF Merged, Modules, Runtime, MergeInput
<1>3. \A d \in AllDefs : d[1] \in Merged /\ d[2] \in Names /\ d = <<d[1], d[2]>>
  BY DEF AllDefs
<1>4. \A d \in Reached : d[2] \in Offered(d[1]) /\ d[1] < next
  <2>1. ASSUME NEW d \in Reached PROVE d[2] \in Offered(d[1]) /\ d[1] < next
    <3>1. d[1] \in Merged /\ d[2] \in Names /\ d = <<d[1], d[2]>>
      BY <1>3, ReachedInAllDefs
    <3>2. <<d[1], d[2]>> \in Reached
      BY <3>1
    <3> QED BY <1>1, <1>2, <3>1, <3>2, ReachedHere DEF Offered
  <2> QED BY <2>1
<1>5. /\ Reached \subseteq defined
      /\ linker = "lazy" => defined = Reached
      /\ \A d \in defined : d[2] \in Names /\ d[2] \notin Stubs
  <2>1. CASE linker = "lazy"
    <3>1. defined = Reached
      BY <1>0, <1>4, <2>1 DEF LinkingInv, OnDemand
    <3> QED BY <1>4, <3>1 DEF Offered
  <2>2. CASE linker = "whole"
    <3>1. defined = {d \in AllDefs : d[1] < next /\ d[2] \in Offered(d[1])}
      BY <1>0, <2>2 DEF LinkingInv
    <3> QED BY <1>4, <2>2, <3>1, ReachedInAllDefs DEF Offered
  <2> QED BY <1>1, <2>1, <2>2
<1>6. Pruned \subseteq defined /\ Reached \subseteq Pruned
  BY <1>1, <1>5, ReachedUsed DEF Pruned
<1>7. ASSUME NEW d \in Pruned PROVE d[2] \in contracts <=> Stated(d[2])
  <2>1. d[2] \in Names
    BY <1>5, <1>6
  <2>2. ASSUME d[2] \in contracts PROVE Stated(d[2])
    <3>1. DeclaredByProgram(d[2])
      BY <2>2 DEF LinkingInv
    <3>2. linker = "lazy" => d[2] \in Used
      <4>1. ASSUME linker = "lazy" PROVE d \in Reached
        BY <1>5, <1>6, <4>1
      <4>2. ASSUME linker = "lazy" PROVE d[2] \in InTable
        BY <1>1, <1>3, <1>4, <4>1, <4>2, TableHasIt, ReachedInAllDefs DEF Offered
      <4> QED BY <1>0, <2>2, <4>2 DEF LinkingInv
    <3> QED BY <1>1, <3>1, <3>2 DEF DeclaredByProgram, Stated
  <2> QED BY <2>1, <2>2 DEF LinkingInv
<1>8. \A b \in bodies : Sym(Runtime, b).refs \cap Locals(library, Runtime) \subseteq bodies
  BY DEF LinkingInv
<1> HIDE DEF Pruned
<1>9. MergeIsExact'
  <2>1. Reached' \subseteq defined' /\ (linker' = "lazy" => defined' = Reached')
    BY <1>0, <1>5, <1>6, InputStays DEF SameInput
  <2>2. \A d \in defined' : d[2] \in contracts' <=> Stated(d[2])'
    BY <1>0, <1>7, InputStays
  <2>3. \A b \in bodies' : Sym(Runtime, b)'.refs \cap Locals(library', Runtime) \subseteq bodies'
    BY <1>0, <1>8, InputStays DEF SameInput
  <2> QED BY <2>1, <2>2, <2>3 DEF MergeIsExact
<1> QED BY <1>0, <1>1, <1>9, InputStays DEF LinkingInv, LinkStages, SameInput

LEMMA LinkingQuietStep ==
  ASSUME LinkingInv, UNCHANGED linkingVars
  PROVE  LinkingInv'
<1>1. /\ SameInput /\ UNCHANGED <<linkStage, declared, defined, contracts, needed, work, next>>
  BY DEF linkingVars, SameInput
<1>2. ClosingOver' <=> ClosingOver
  BY <1>1, InputStays DEF ClosingOver, SameInput
<1>3. OnDemand' <=> OnDemand
  BY <1>1, InputStays DEF OnDemand, SameInput
<1>4. MergeIsExact' <=> MergeIsExact
  BY <1>1, InputStays DEF MergeIsExact, LinkAt, SameInput
<1> QED BY <1>1, <1>2, <1>3, <1>4, InputStays DEF LinkingInv, SameInput

LEMMA LinkingStep ==
  ASSUME LinkingInv, [LinkingNext]_linkingVars
  PROVE  LinkingInv'
BY LinkingQuietStep, CurateStep, CurationFailsStep, ReadStep, RootsStep, CloseStep, DeclareStep,
   LinkStep, FinishStep, FailingStep
   DEF LinkingNext, ReadFails, MaterializeFails, LinkFails, PrintFails

\* The lazy merge is exact, for every set of modules that the table's
\* assumptions admit, in every order, and for every program.
THEOREM MergeTakesWhatIsReached == LinkingSpec => []MergeIsExact
<1>1. LinkingInv => MergeIsExact
  BY DEF LinkingInv
<1> QED BY <1>1, LinkingInitially, LinkingStep, PTL DEF LinkingSpec
=============================================================================
