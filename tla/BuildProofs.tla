---------------------------- MODULE BuildProofs ----------------------------
(***************************************************************************)
(* What the object cache guarantees, and what a build of an executable     *)
(* guarantees while others run beside it, for every number of builds and   *)
(* every set of file contents; and what a project-local toolchain          *)
(* guarantees, for every set of source versions and every number of        *)
(* promotions.                                                             *)
(***************************************************************************)
EXTENDS Build, Toolchain, TLAPS

(* The object cache alone.                                                   *)
LEMMA InitInv == CacheInit => CacheInv
  BY NoFileAssumption
  DEF CacheInit, CacheInv, CacheTypeOK, KeysAreTaken, WaitingObjectsAreCurrent,
      WaitingListsAreCurrent, ListMatchesObject, InFlight, Settled, Compilation

LEMMA EditInv ==
  ASSUME CacheInv, NEW s \in Versions, NEW h \in Versions, Edit(s, h)
  PROVE  CacheInv'
<1> USE NoFileAssumption DEF CacheInv, Edit
<1>1. CacheTypeOK'
  BY DEF CacheTypeOK
<1>2. KeysAreTaken'
  BY DEF KeysAreTaken, InFlight
<1>3. WaitingObjectsAreCurrent' /\ WaitingListsAreCurrent'
  BY DEF WaitingObjectsAreCurrent, WaitingListsAreCurrent, InFlight
<1>4. ListMatchesObject'
  BY DEF ListMatchesObject, Settled
<1> QED BY <1>1, <1>2, <1>3, <1>4

LEMMA StepInv ==
  ASSUME CacheInv, NEW p \in Builds, NativeStep(p)
  PROVE  CacheInv'
<1> USE NoFileAssumption
<1>t. /\ CacheTypeOK /\ KeysAreTaken /\ WaitingObjectsAreCurrent
      /\ WaitingListsAreCurrent /\ ListMatchesObject
  BY DEF CacheInv
<1>n. Now \in Compilation
  BY <1>t DEF Now, Compilation, CacheTypeOK
<1>1. CASE EntryOf(p) \/ NoEntry(p)
  BY <1>1, <1>t DEF EntryOf, NoEntry, CacheInv, CacheTypeOK, KeysAreTaken,
     WaitingObjectsAreCurrent, WaitingListsAreCurrent, ListMatchesObject,
     InFlight, Settled, Now
<1>2. CASE Check(p)
  BY <1>2, <1>t DEF Check, Hit, CacheInv, CacheTypeOK, KeysAreTaken,
     WaitingObjectsAreCurrent, WaitingListsAreCurrent, ListMatchesObject,
     InFlight, Settled, Now
<1>3. CASE Compile(p)
  BY <1>3, <1>t, <1>n DEF Compile, CacheInv, CacheTypeOK, KeysAreTaken,
     WaitingObjectsAreCurrent, WaitingListsAreCurrent, ListMatchesObject,
     InFlight, Settled, Now
<1>4. CASE CompileFails(p) \/ RecordFails(p)
  BY <1>4, <1>t DEF CompileFails, RecordFails, CacheInv, CacheTypeOK,
     KeysAreTaken, WaitingObjectsAreCurrent, WaitingListsAreCurrent,
     ListMatchesObject, InFlight, Settled, Now
<1>5. CASE Record(p)
  <2>1. CacheTypeOK' /\ KeysAreTaken' /\ WaitingObjectsAreCurrent'
    BY <1>5, <1>t, <1>n DEF Record, CacheTypeOK, KeysAreTaken,
       WaitingObjectsAreCurrent, InFlight, Now
  <2>2. WaitingListsAreCurrent'
    BY <1>5, <1>t DEF Record, CacheTypeOK, KeysAreTaken,
       WaitingListsAreCurrent, InFlight, Now
  <2>3. ListMatchesObject'
    BY <1>5, <1>t DEF Record, CacheTypeOK, KeysAreTaken, ListMatchesObject,
       Settled, Now
  <2> QED BY <2>1, <2>2, <2>3 DEF CacheInv
<1>6. CASE RecordKeepsOldList(p) \/ InstallFails(p)
  BY <1>6, <1>t DEF RecordKeepsOldList, InstallFails, CacheInv, CacheTypeOK,
     KeysAreTaken, WaitingObjectsAreCurrent, WaitingListsAreCurrent,
     ListMatchesObject, InFlight, Settled, Now
<1>7. CASE Install(p)
  <2>1. /\ CacheTypeOK' /\ KeysAreTaken' /\ WaitingObjectsAreCurrent'
        /\ WaitingListsAreCurrent'
    BY <1>7, <1>t DEF Install, CacheTypeOK, KeysAreTaken,
       WaitingObjectsAreCurrent, WaitingListsAreCurrent, InFlight, Now
  \* The installed object and the list of its entry are both today's.
  <2>2. key[p] \notin suspect => out[p] = Now /\ deps[key[p]] = Now
    BY <1>7, <1>t DEF Install, WaitingObjectsAreCurrent,
       WaitingListsAreCurrent, InFlight
  <2>3. ListMatchesObject'
    BY <1>7, <1>t, <2>2 DEF Install, CacheTypeOK, KeysAreTaken,
       ListMatchesObject, Settled
  <2> QED BY <2>1, <2>3 DEF CacheInv
<1> QED BY <1>1, <1>2, <1>3, <1>4, <1>5, <1>6, <1>7 DEF NativeStep

LEMMA EndsInv ==
  ASSUME CacheInv, NEW p \in Builds,
         NativeBegin(p) \/ NativeEnd(p) \/ NativeDies(p)
  PROVE  CacheInv'
<1> USE NoFileAssumption
<1>1. CASE NativeBegin(p)
  BY <1>1 DEF NativeBegin, CacheInv, CacheTypeOK,
     KeysAreTaken, WaitingObjectsAreCurrent, WaitingListsAreCurrent,
     ListMatchesObject, InFlight, Settled, Now
<1>3. CASE NativeEnd(p)
  <2>1. CacheTypeOK' /\ KeysAreTaken'
    BY <1>3 DEF NativeEnd, Forget, CacheInv, CacheTypeOK, KeysAreTaken, InFlight
  <2>2. WaitingObjectsAreCurrent' /\ WaitingListsAreCurrent'
    BY <1>3 DEF NativeEnd, Forget, CacheInv, CacheTypeOK,
       WaitingObjectsAreCurrent, WaitingListsAreCurrent, InFlight, Now
  <2>3. ListMatchesObject'
    BY <1>3 DEF NativeEnd, Forget, CacheInv, CacheTypeOK, ListMatchesObject,
       Settled
  <2> QED BY <2>1, <2>2, <2>3 DEF CacheInv
<1>2. CASE NativeDies(p)
  BY <1>2 DEF NativeDies, Forget, CacheInv, CacheTypeOK, KeysAreTaken,
     WaitingObjectsAreCurrent, WaitingListsAreCurrent, ListMatchesObject,
     InFlight, Settled, Now
<1> QED BY <1>1, <1>2, <1>3

LEMMA NextInv == CacheInv /\ [CacheNext]_cacheVars => CacheInv'
<1> SUFFICES ASSUME CacheInv, [CacheNext]_cacheVars PROVE CacheInv'
  OBVIOUS
<1>1. CASE UNCHANGED cacheVars
  BY <1>1 DEF cacheVars, CacheInv, CacheTypeOK, KeysAreTaken,
     WaitingObjectsAreCurrent, WaitingListsAreCurrent, ListMatchesObject,
     InFlight, Settled, Now
<1>2. CASE CacheNext
  BY <1>2, EditInv, StepInv, EndsInv DEF CacheNext
<1> QED BY <1>1, <1>2

\* A hit the list allows and nobody is replacing is the list's object.
LEMMA InvFresh == CacheInv => SettledHitsAreFresh
  BY NoFileAssumption
  DEF CacheInv, CacheTypeOK, KeysAreTaken, ListMatchesObject,
      SettledHitsAreFresh, Hit, DepsCurrent, Now, Compilation

\* For every number of concurrent builds: a hit on a settled entry that no edit,
\* failed rename or killed build caught halfway is an object compiled from the
\* bytes the source and its header have now (compile_native_source).
THEOREM FreshHits == CacheSpec => []SettledHitsAreFresh
<1>1. CacheSpec => []CacheInv
  BY InitInv, NextInv, PTL DEF CacheSpec
<1> QED BY <1>1, InvFresh, PTL

\* For every number of concurrent builds, the state of the cache keeps its type.
THEOREM CacheTypes == CacheSpec => []CacheTypeOK
<1>1. CacheSpec => []CacheInv
  BY InitInv, NextInv, PTL DEF CacheSpec
<1>2. CacheInv => CacheTypeOK
  BY DEF CacheInv
<1> QED BY <1>1, <1>2, PTL

-----------------------------------------------------------------------------
(* The build around it.                                                      *)

Tools == {"none", "merge", "codegen", "native", "driver"}
Stages == {"idle", "curate", "curating", "curated", "inline", "merge", "codegen", "native",
           "plan", "keep", "ld", "driver", "cleanup", "done"}

PipelineTypeOK ==
    /\ kind \in [Builds -> {"plain", "native"}]
    /\ stage \in [Builds -> Stages]
    /\ temps \in [Builds -> SUBSET (Reaped \cup {"curatedTmp"})]
    /\ exe \in [Builds -> Compilation \cup {Program, NoFile}]
    /\ failed \in [Builds -> Tools]

\* compile_native_sources runs in one stage of a native build, and what it
\* answered stays there until the cleanup.
NativeWhere(p) ==
    /\ stage[p] = "native" => kind[p] = "native" /\ pc[p] # "idle"
    /\ stage[p] \in {"plan", "keep", "ld"} => kind[p] = "plain"
    /\ stage[p] = "driver" /\ kind[p] = "native" => pc[p] = "ready"
    /\ pc[p] \notin {"idle", "ready", "failed"} => stage[p] = "native"
    /\ stage[p] \notin {"native", "driver", "cleanup"} => pc[p] = "idle"

\* A build that may link has a whole object, its own or the cache's, and no other
\* build takes it away.
ObjectReady(p) ==
    /\ pc[p] # "ready" => ~cached[p]
    /\ pc[p] = "ready" /\ cached[p] => key[p] \in Versions /\ object[key[p]] \in Compilation
    /\ pc[p] = "ready" /\ ~cached[p] => out[p] \in Compilation

\* The result is decided once, at the link or at the first tool that fails.
ResultDecided(p) ==
    /\ stage[p] \in {"cleanup", "done"} => (exe[p] # NoFile <=> failed[p] = "none")
    /\ stage[p] \notin {"cleanup", "done"} => exe[p] = NoFile /\ failed[p] = "none"
    /\ exe[p] # NoFile /\ kind[p] = "native" => exe[p] \in Compilation

TempsKnown(p) ==
    /\ stage[p] \in {"idle", "curate", "curating"} => temps[p] = {}
    /\ stage[p] \in {"curated", "inline", "merge"} => 
          temps[p] \subseteq {"raw", "merged", "curatedTmp"}
    /\ stage[p] = "done" => temps[p] \subseteq {"curatedTmp"} \cup
                               (IF failed[p] = "merge" THEN {"raw"} ELSE {})

BuildOK(p) == NativeWhere(p) /\ ObjectReady(p) /\ ResultDecided(p) /\ TempsKnown(p)

BuildInv == CacheInv /\ PipelineTypeOK /\ \A p \in Builds : BuildOK(p)

----------------------------------------------------------------------------

\* A step of the whole build is a step of the cache, or leaves the cache alone.
LEMMA BuildStepsAreCacheSteps == [BuildNext]_buildVars => [CacheNext]_cacheVars
<1> SUFFICES ASSUME [BuildNext]_buildVars PROVE [CacheNext]_cacheVars
  OBVIOUS
<1>1. CASE UNCHANGED buildVars
  BY <1>1 DEF buildVars
<1>2. CASE \E v \in Versions : UpdateSdk(v)
  BY <1>2 DEF UpdateSdk
<1>3. CASE \E s, h \in Versions : EditFiles(s, h)
  BY <1>3 DEF EditFiles, CacheNext
<1>4. ASSUME NEW p \in Builds, BuildStep(p)
      PROVE  [CacheNext]_cacheVars
  <2>1. CASE Codegen(p)
    BY <2>1 DEF Codegen, CacheNext
  <2>2. CASE CompileNative(p)
    BY <2>2 DEF CompileNative, CacheNext
  <2>3. CASE Cleanup(p)
    BY <2>3 DEF Cleanup, CacheNext
  <2>4. CASE Die(p)
    BY <2>4 DEF Die, CacheNext
  <2>5. CASE ~(Codegen(p) \/ CompileNative(p) \/ Cleanup(p) \/ Die(p))
    BY <1>4, <2>5 DEF BuildStep, Start, CurateLookup, CurateCompile, CurateInstall,
     CurateKeeps, Inline, CurateFails,
       MergeLibraries, MergeFails, CodegenFails, NativeReady, NativeFailed, PlanLink,
       NoPlan, LdLinks, LdFails, KeepLine, DriverLinks, DriverFails, Exit
  <2> QED BY <2>1, <2>2, <2>3, <2>4, <2>5
<1> QED BY <1>1, <1>2, <1>3, <1>4 DEF BuildNext

\* The composition implements the cache: no stage of a build does to the shared
\* directory what compile_native_source would not.
THEOREM BuildImplementsCache == BuildSpec => CacheSpec
<1>1. BuildInit => CacheInit
  BY DEF BuildInit
<1> QED BY <1>1, BuildStepsAreCacheSteps, PTL DEF BuildSpec, CacheSpec

\* So, however builds are interleaved, fail or are killed, a hit on a settled entry
\* is an object compiled from the bytes of now (native_deps_current).
THEOREM BuildsHitFresh == BuildSpec => []SettledHitsAreFresh
  BY BuildImplementsCache, FreshHits, PTL

----------------------------------------------------------------------------

\* What a step of the cache does to one call of compile_native_source.
LEMMA NativeStepMoves ==
  ASSUME CacheTypeOK, KeysAreTaken, NEW p \in Builds, NativeStep(p),
         ObjectReady(p), pc[p] # "idle"
  PROVE  ObjectReady(p)' /\ pc'[p] # "idle" /\ pc[p] \notin {"ready", "failed"}
<1> USE DEF CacheTypeOK, ObjectReady
<1>1. CASE EntryOf(p) \/ NoEntry(p)
  BY <1>1 DEF EntryOf, NoEntry
<1>2. CASE Check(p)
  <2>1. key[p] \in Versions /\ cached'[p] = Hit(p)
    BY <1>2 DEF Check, KeysAreTaken
  <2>2. Hit(p) => object'[key'[p]] \in Compilation
    BY <1>2, <2>1 DEF Check, Hit
  <2> QED BY <1>2, <2>1, <2>2 DEF Check
<1>3. CASE Compile(p)
  <2>1. Now \in Compilation
    BY DEF Now, Compilation
  <2> QED BY <1>3, <2>1 DEF Compile
<1>4. CASE CompileFails(p) \/ Record(p) \/ RecordKeepsOldList(p)
  BY <1>4 DEF CompileFails, Record, RecordKeepsOldList
<1>5. CASE RecordFails(p) \/ InstallFails(p)
  BY <1>5 DEF RecordFails, InstallFails, KeysAreTaken, InFlight
<1>6. CASE Install(p)
  BY <1>6 DEF Install, KeysAreTaken, InFlight
<1> QED BY <1>1, <1>2, <1>3, <1>4, <1>5, <1>6 DEF NativeStep

\* It concerns nobody else: their calls are as they were, and an object that was
\* whole is replaced by a whole one.
LEMMA CacheStepIsLocal ==
  ASSUME CacheTypeOK, KeysAreTaken, NEW p \in Builds,
         \/ NativeBegin(p) \/ NativeStep(p) \/ NativeEnd(p) \/ NativeDies(p)
         \/ UNCHANGED cacheVars
  PROVE  /\ \A k \in Versions : object[k] \in Compilation => object'[k] \in Compilation
         /\ \A q \in Builds \ {p} :
               UNCHANGED <<pc[q], key[q], out[q], cached[q]>>
<1> USE DEF CacheTypeOK
<1>1. CASE NativeBegin(p) \/ NativeEnd(p) \/ NativeDies(p)
  BY <1>1 DEF NativeBegin, NativeEnd, NativeDies, Forget
<1>2. CASE UNCHANGED cacheVars
  BY <1>2 DEF cacheVars
<1>3. CASE Install(p)
  BY <1>3 DEF Install, KeysAreTaken, InFlight
<1>4. CASE NativeStep(p) /\ ~Install(p)
  BY <1>4 DEF NativeStep, EntryOf, NoEntry, Check, Compile, CompileFails, Record,
     RecordKeepsOldList, RecordFails, InstallFails
<1> QED BY <1>1, <1>2, <1>3, <1>4

LEMMA OtherBuildsOK ==
  ASSUME CacheTypeOK, KeysAreTaken, PipelineTypeOK, NEW p \in Builds, BuildStep(p),
         NEW q \in Builds, q # p, BuildOK(q)
  PROVE  BuildOK(q)'
<1>1. UNCHANGED <<kind[q], stage[q], temps[q], exe[q], failed[q]>>
  BY DEF BuildStep, Start, CurateLookup, CurateCompile, CurateInstall,
     CurateKeeps, Inline, CurateFails, MergeLibraries,
     MergeFails, Codegen, CodegenFails, CompileNative, NativeReady, NativeFailed,
     PlanLink, NoPlan, LdLinks, LdFails, KeepLine, DriverLinks, DriverFails, Cleanup,
     Exit, Die, Reset, GoTo, Makes, ToolFails, pipelineVars, PipelineTypeOK
<1>2. \/ NativeBegin(p) \/ NativeStep(p) \/ NativeEnd(p) \/ NativeDies(p)
      \/ UNCHANGED cacheVars
  BY DEF BuildStep, Start, CurateLookup, CurateCompile, CurateInstall,
     CurateKeeps, Inline, CurateFails, MergeLibraries,
     MergeFails, Codegen, CodegenFails, CompileNative, NativeReady, NativeFailed,
     PlanLink, NoPlan, LdLinks, LdFails, KeepLine, DriverLinks, DriverFails, Cleanup,
     Exit, Die
<1>3. /\ \A k \in Versions : object[k] \in Compilation => object'[k] \in Compilation
      /\ UNCHANGED <<pc[q], key[q], out[q], cached[q]>>
  BY <1>2, CacheStepIsLocal
<1>4. NativeWhere(q)' /\ ResultDecided(q)' /\ TempsKnown(q)'
  BY <1>1, <1>3 DEF BuildOK, NativeWhere, ResultDecided, TempsKnown
<1>5. ObjectReady(q)'
  BY <1>3 DEF BuildOK, ObjectReady
<1> QED BY <1>4, <1>5 DEF BuildOK

\* The stages before the native source is compiled.
LEMMA EarlyStagesOK ==
  ASSUME CacheTypeOK, PipelineTypeOK, NEW p \in Builds, BuildOK(p),
         \/ \E k \in {"plain", "native"} : Start(p, k)
         \/ \E b \in BOOLEAN : CurateLookup(p, b)
         \/ CurateCompile(p) \/ CurateInstall(p) \/ CurateKeeps(p)
         \/ Inline(p) \/ CurateFails(p)
         \/ MergeLibraries(p) \/ MergeFails(p) \/ CodegenFails(p)
  PROVE  BuildOK(p)' /\ PipelineTypeOK'
<1> USE DEF At, GoTo, Makes, ToolFails
<1>u. UNCHANGED <<object, pc, key, out, cached>>
  BY DEF Start, CurateLookup, CurateCompile, CurateInstall,
     CurateKeeps, Inline, CurateFails, MergeLibraries, MergeFails,
     CodegenFails, cacheVars
<1>o. ObjectReady(p)'
  BY <1>u DEF ObjectReady, BuildOK
<1>1. ASSUME NEW k \in {"plain", "native"}, Start(p, k)
      PROVE  BuildOK(p)' /\ PipelineTypeOK'
  <2>1. PipelineTypeOK'
    BY <1>1 DEF Start, PipelineTypeOK, Stages
  <2>2. NativeWhere(p)' /\ ResultDecided(p)' /\ TempsKnown(p)'
    BY <1>1, <1>u DEF Start, PipelineTypeOK, BuildOK, NativeWhere, ResultDecided,
       TempsKnown
  <2> QED BY <2>1, <2>2, <1>o DEF BuildOK
<1>2. CASE \/ \E b \in BOOLEAN : CurateLookup(p, b)
           \/ CurateCompile(p) \/ CurateInstall(p) \/ CurateKeeps(p)
           \/ Inline(p) \/ CurateFails(p)
  <2>1. PipelineTypeOK'
    BY <1>2 DEF CurateLookup, CurateCompile, CurateInstall, CurateKeeps, Inline,
       CurateFails, PipelineTypeOK, Stages, Reaped
  <2>2. NativeWhere(p)' /\ ResultDecided(p)'
    BY <1>2, <1>u DEF CurateLookup, CurateCompile, CurateInstall, CurateKeeps, Inline,
       CurateFails, PipelineTypeOK, BuildOK, NativeWhere, ResultDecided
  <2>3. TempsKnown(p)'
    BY <1>2, <1>u DEF CurateLookup, CurateCompile, CurateInstall, CurateKeeps, Inline,
       CurateFails, PipelineTypeOK, BuildOK, TempsKnown
  <2> QED BY <2>1, <2>2, <2>3, <1>o DEF BuildOK
<1>3. CASE MergeLibraries(p)
  <2>1. PipelineTypeOK'
    BY <1>3 DEF MergeLibraries, PipelineTypeOK, Stages, Reaped
  <2>2. NativeWhere(p)' /\ ResultDecided(p)' /\ TempsKnown(p)'
    BY <1>3, <1>u DEF MergeLibraries, PipelineTypeOK, BuildOK, NativeWhere,
       ResultDecided, TempsKnown
  <2> QED BY <2>1, <2>2, <1>o DEF BuildOK
<1>4. CASE MergeFails(p)
  <2>1. PipelineTypeOK'
    BY <1>4 DEF MergeFails, PipelineTypeOK, Stages, Tools
  <2>2. NativeWhere(p)' /\ ResultDecided(p)' /\ TempsKnown(p)'
    BY <1>4, <1>u DEF MergeFails, PipelineTypeOK, BuildOK, NativeWhere, ResultDecided,
       TempsKnown
  <2> QED BY <2>1, <2>2, <1>o DEF BuildOK
<1>5. CASE CodegenFails(p)
  <2>1. PipelineTypeOK'
    BY <1>5 DEF CodegenFails, PipelineTypeOK, Stages, Tools
  <2>2. NativeWhere(p)' /\ ResultDecided(p)' /\ TempsKnown(p)'
    BY <1>5, <1>u DEF CodegenFails, PipelineTypeOK, BuildOK, NativeWhere, ResultDecided,
       TempsKnown
  <2> QED BY <2>1, <2>2, <1>o DEF BuildOK
<1> QED BY <1>1, <1>2, <1>3, <1>4, <1>5

\* From the program's own object to the answer of compile_native_source.
LEMMA NativeStagesOK ==
  ASSUME CacheTypeOK, KeysAreTaken, PipelineTypeOK, NEW p \in Builds, BuildOK(p),
         Codegen(p) \/ CompileNative(p) \/ NativeReady(p) \/ NativeFailed(p)
  PROVE  BuildOK(p)' /\ PipelineTypeOK'
<1> USE DEF At, GoTo, Makes, ToolFails
<1>1. CASE Codegen(p)
  <2>1. PipelineTypeOK'
    BY <1>1 DEF Codegen, PipelineTypeOK, Stages, Reaped
  <2>2. pc[p] = "idle"
    BY <1>1 DEF Codegen, BuildOK, NativeWhere
  <2>3. NativeWhere(p)' /\ ObjectReady(p)'
    <3>1. CASE kind[p] = "native"
      BY <1>1, <2>2, <3>1 DEF Codegen, NativeBegin, CacheTypeOK, PipelineTypeOK,
         BuildOK, NativeWhere, ObjectReady
    <3>2. CASE kind[p] # "native"
      BY <1>1, <2>2, <3>2 DEF Codegen, cacheVars, CacheTypeOK, PipelineTypeOK,
         BuildOK, NativeWhere, ObjectReady
    <3> QED BY <3>1, <3>2
  <2>4. ResultDecided(p)' /\ TempsKnown(p)'
    BY <1>1 DEF Codegen, PipelineTypeOK, BuildOK, ResultDecided, TempsKnown
  <2> QED BY <2>1, <2>3, <2>4 DEF BuildOK
<1>2. CASE CompileNative(p)
  <2>1. PipelineTypeOK'
    BY <1>2 DEF CompileNative, pipelineVars, PipelineTypeOK
  <2>2. pc[p] # "idle" /\ stage[p] = "native" /\ NativeStep(p) /\ ObjectReady(p)
    BY <1>2 DEF CompileNative, BuildOK, NativeWhere
  <2>3. ObjectReady(p)' /\ pc'[p] # "idle"
    BY <2>2, NativeStepMoves
  <2>4. NativeWhere(p)' /\ ResultDecided(p)' /\ TempsKnown(p)'
    BY <1>2, <2>2, <2>3 DEF CompileNative, pipelineVars, BuildOK, NativeWhere,
       ResultDecided, TempsKnown
  <2> QED BY <2>1, <2>3, <2>4 DEF BuildOK
<1>3. CASE NativeReady(p)
  <2>1. PipelineTypeOK'
    BY <1>3 DEF NativeReady, PipelineTypeOK, Stages, Reaped
  <2>2. NativeWhere(p)' /\ ObjectReady(p)' /\ ResultDecided(p)' /\ TempsKnown(p)'
    BY <1>3 DEF NativeReady, cacheVars, PipelineTypeOK, BuildOK, NativeWhere,
       ObjectReady, ResultDecided, TempsKnown
  <2> QED BY <2>1, <2>2 DEF BuildOK
<1>4. CASE NativeFailed(p)
  <2>1. PipelineTypeOK'
    BY <1>4 DEF NativeFailed, PipelineTypeOK, Stages, Tools, Reaped
  <2>2. NativeWhere(p)' /\ ObjectReady(p)' /\ ResultDecided(p)' /\ TempsKnown(p)'
    BY <1>4 DEF NativeFailed, cacheVars, PipelineTypeOK, BuildOK, NativeWhere,
       ObjectReady, ResultDecided, TempsKnown
  <2> QED BY <2>1, <2>2 DEF BuildOK
<1> QED BY <1>1, <1>2, <1>3, <1>4

\* The link: by a cached line, which can only be given up, or by the driver.
LEMMA LinkStagesOK ==
  ASSUME CacheTypeOK, PipelineTypeOK, NEW p \in Builds, BuildOK(p),
         \/ PlanLink(p) \/ NoPlan(p) \/ LdLinks(p) \/ LdFails(p)
         \/ \E w \in BOOLEAN : KeepLine(p, w)
         \/ DriverLinks(p) \/ DriverFails(p)
  PROVE  BuildOK(p)' /\ PipelineTypeOK'
<1> USE DEF At, GoTo, ToolFails
<1>u. UNCHANGED <<object, pc, key, out, cached>>
  BY DEF PlanLink, NoPlan, LdLinks, LdFails, KeepLine, DriverLinks, DriverFails,
     cacheVars
<1>o. ObjectReady(p)'
  BY <1>u DEF ObjectReady, BuildOK
<1>1. CASE PlanLink(p) \/ NoPlan(p) \/ LdFails(p) \/ \E w \in BOOLEAN : KeepLine(p, w)
  <2>1. /\ stage' = [stage EXCEPT ![p] = stage'[p]]
        /\ stage[p] \in {"plan", "keep", "ld"} /\ stage'[p] \in {"keep", "ld", "driver"}
        /\ UNCHANGED <<kind, temps, exe, failed>>
    BY <1>1 DEF PlanLink, NoPlan, LdFails, KeepLine, PipelineTypeOK
  <2>2. kind[p] = "plain"
    BY <2>1 DEF BuildOK, NativeWhere
  <2>3. PipelineTypeOK'
    BY <2>1 DEF PipelineTypeOK, Stages
  <2>4. NativeWhere(p)' /\ ResultDecided(p)' /\ TempsKnown(p)'
    BY <1>u, <2>1, <2>2 DEF BuildOK, NativeWhere, ResultDecided, TempsKnown
  <2> QED BY <2>3, <2>4, <1>o DEF BuildOK
<1>2. CASE LdLinks(p)
  <2>1. PipelineTypeOK'
    BY <1>2 DEF LdLinks, PipelineTypeOK, Stages
  <2>2. NativeWhere(p)' /\ ResultDecided(p)' /\ TempsKnown(p)'
    BY <1>u, <1>2, NoFileAssumption DEF LdLinks, Program, PipelineTypeOK, BuildOK,
       NativeWhere, ResultDecided, TempsKnown
  <2> QED BY <2>1, <2>2, <1>o DEF BuildOK
<1>3. CASE DriverLinks(p)
  <2>1. kind[p] = "native" => NativeObject(p) \in Compilation
    BY <1>3 DEF DriverLinks, NativeObject, BuildOK, NativeWhere, ObjectReady
  <2>2. exe'[p] # NoFile /\ (kind[p] = "native" => exe'[p] \in Compilation)
    BY <1>3, <2>1, NoFileAssumption
    DEF DriverLinks, Program, Compilation, PipelineTypeOK
  <2>3. PipelineTypeOK'
    BY <1>3, <2>1 DEF DriverLinks, PipelineTypeOK, Stages
  <2>4. NativeWhere(p)' /\ ResultDecided(p)' /\ TempsKnown(p)'
    BY <1>u, <1>3, <2>2 DEF DriverLinks, PipelineTypeOK, BuildOK, NativeWhere,
       ResultDecided, TempsKnown
  <2> QED BY <2>3, <2>4, <1>o DEF BuildOK
<1>4. CASE DriverFails(p)
  <2>1. PipelineTypeOK'
    BY <1>4 DEF DriverFails, PipelineTypeOK, Stages, Tools
  <2>2. NativeWhere(p)' /\ ResultDecided(p)' /\ TempsKnown(p)'
    BY <1>u, <1>4 DEF DriverFails, PipelineTypeOK, BuildOK, NativeWhere,
       ResultDecided, TempsKnown
  <2> QED BY <2>1, <2>2, <1>o DEF BuildOK
<1> QED BY <1>1, <1>2, <1>3, <1>4

LEMMA LastStagesOK ==
  ASSUME CacheTypeOK, PipelineTypeOK, NEW p \in Builds, BuildOK(p),
         Cleanup(p) \/ Exit(p) \/ Die(p)
  PROVE  BuildOK(p)' /\ PipelineTypeOK'
<1> USE DEF At, GoTo
<1>1. CASE Cleanup(p)
  <2>1. PipelineTypeOK'
    BY <1>1 DEF Cleanup, PipelineTypeOK, Stages
  <2>2. pc'[p] = "idle" /\ ~cached'[p]
    BY <1>1 DEF Cleanup, NativeEnd, Forget, cacheVars, CacheTypeOK, BuildOK, ObjectReady
  <2>3. NativeWhere(p)' /\ ObjectReady(p)' /\ ResultDecided(p)'
    BY <1>1, <2>2 DEF Cleanup, PipelineTypeOK, BuildOK, NativeWhere, ObjectReady,
       ResultDecided
  <2>4. temps'[p] \subseteq {"curatedTmp"}
    BY <1>1 DEF Cleanup, PipelineTypeOK
  <2>5. TempsKnown(p)'
    BY <1>1, <2>4 DEF Cleanup, PipelineTypeOK, TempsKnown
  <2> QED BY <2>1, <2>3, <2>5 DEF BuildOK
<1>2. CASE Exit(p) \/ Die(p)
  <2>1. PipelineTypeOK'
    BY <1>2 DEF Exit, Die, Reset, PipelineTypeOK, Stages, Tools
  <2>2. pc'[p] = "idle" /\ ~cached'[p]
    BY <1>2 DEF Exit, Die, NativeDies, Forget, cacheVars, CacheTypeOK, BuildOK,
       NativeWhere, ObjectReady
  <2>3. NativeWhere(p)' /\ ObjectReady(p)' /\ ResultDecided(p)' /\ TempsKnown(p)'
    BY <1>2, <2>2 DEF Exit, Die, Reset, PipelineTypeOK, NativeWhere, ObjectReady,
       ResultDecided, TempsKnown
  <2> QED BY <2>1, <2>3 DEF BuildOK
<1> QED BY <1>1, <1>2

LEMMA BuildNextInv == BuildInv /\ [BuildNext]_buildVars => BuildInv'
<1> SUFFICES ASSUME BuildInv, [BuildNext]_buildVars PROVE BuildInv'
  OBVIOUS
<1>t. /\ CacheInv /\ CacheTypeOK /\ KeysAreTaken /\ PipelineTypeOK
      /\ \A q \in Builds : BuildOK(q)
  BY DEF BuildInv, CacheInv
<1>1. CacheInv'
  BY <1>t, BuildStepsAreCacheSteps, NextInv
<1>2. CASE UNCHANGED buildVars
  BY <1>1, <1>2, <1>t DEF buildVars, cacheVars, pipelineVars, BuildInv, PipelineTypeOK,
     BuildOK, NativeWhere, ObjectReady, ResultDecided, TempsKnown
<1>3. CASE \/ \E s, h \in Versions : EditFiles(s, h)
           \/ \E v \in Versions : UpdateSdk(v)
  BY <1>1, <1>3, <1>t DEF EditFiles, Edit, UpdateSdk, cacheVars, BuildInv,
     PipelineTypeOK, BuildOK, NativeWhere, ObjectReady, ResultDecided, TempsKnown
<1>4. ASSUME NEW p \in Builds, BuildStep(p)
      PROVE  BuildInv'
  <2>1. BuildOK(p)' /\ PipelineTypeOK'
    BY <1>4, <1>t, EarlyStagesOK, NativeStagesOK, LinkStagesOK, LastStagesOK
    DEF BuildStep
  <2>2. \A q \in Builds \ {p} : BuildOK(q)'
    BY <1>4, <1>t, OtherBuildsOK
  <2>3. \A q \in Builds : BuildOK(q)'
    BY <2>1, <2>2
  <2> QED BY <1>1, <2>1, <2>3 DEF BuildInv
<1> QED BY <1>2, <1>3, <1>4 DEF BuildNext

LEMMA BuildInvariant == BuildSpec => []BuildInv
<1>1. BuildInit => BuildInv
  <2> SUFFICES ASSUME BuildInit PROVE BuildInv
    OBVIOUS
  <2>1. CacheInv
    BY InitInv DEF BuildInit
  <2>2. PipelineTypeOK
    BY DEF BuildInit, PipelineTypeOK, Stages, Tools
  <2>3. ASSUME NEW p \in Builds
        PROVE  BuildOK(p)
    BY DEF BuildInit, CacheInit, BuildOK, NativeWhere, ObjectReady, ResultDecided,
       TempsKnown
  <2> QED BY <2>1, <2>2, <2>3 DEF BuildInv
<1> QED BY <1>1, BuildNextInv, PTL DEF BuildSpec

\* For every number of concurrent builds: a build that ends has an executable, made
\* of a whole native object when it has one, exactly when no compiler, merge, code
\* generation or driver run failed it (compiler_build_executable).
THEOREM BuildsDecide == BuildSpec => []CachesNeverDecide
<1>1. BuildInv => CachesNeverDecide
  BY DEF BuildInv, BuildOK, ResultDecided, CachesNeverDecide, At
<1> QED BY <1>1, BuildInvariant, PTL

\* A build that ends by itself leaves none of its temporaries but the two the code
\* keeps (the cleanup of compiler_build_executable).
THEOREM BuildsReapTemps == BuildSpec => []TempsReaped
<1>1. BuildInv => TempsReaped
  BY DEF BuildInv, BuildOK, TempsKnown, NativeWhere, TempsReaped, At
<1> QED BY <1>1, BuildInvariant, PTL

----------------------------------------------------------------------------
(* The project-local toolchain.                                              *)
Emitting == {"runtime", "bitcode", "hash", "modules", "interface", "sections", "stamp"}
Steps == {"off", "check", "check-left", "promote", "promote-left", "trust",
          "trust-left", "emit", "left"} \cup Emitting

SomeBytes == Versions \cup {NoFile}
PlibFile == [src : SomeBytes, code : SomeBytes, by : SomeBytes, imp : SomeBytes,
             clang : SomeBytes]

\* A candidate waits while it is checked and promoted; a host emits while it is
\* the active one or, hosted, while its replacement waits.
ToolchainTypeOK ==
    /\ rtSource \in Versions /\ impSource \in Versions /\ clang \in Versions
    /\ stdSource \in SomeBytes /\ interface \in SomeBytes
    /\ plib # NoFile => plib \in PlibFile
    /\ nextId \in Nat \ {0}
    /\ promoted \subseteq Nat
    /\ trusted \in promoted \cup {NoFile}
    /\ hosted \in BOOLEAN
    /\ hosted => step \in {"check", "emit"} \cup Emitting
    /\ step \in Steps
    /\ active # NoFile => active.ver \in Versions /\ active.id \in Nat
    /\ step \in {"check", "check-left", "promote", "promote-left", "left"}
          => candidate \in Versions
    /\ step \in {"trust", "trust-left"} => active.ver \in Versions
    /\ step \in {"emit"} \cup Emitting => Emitter \in Versions

\* What a launcher may run: identities are handed out once, and one that was
\* promoted was the host's when it was.
IdsAreFresh ==
    /\ \A id \in promoted : id < nextId
    /\ active # NoFile => active.id < nextId
    /\ step \in {"trust", "trust-left"} => active.id \in promoted
    /\ ran # NoFile => ran.id \in promoted

\* Lines name the keyed inputs of artifacts that nothing caught between key and
\* compile.
RuntimeLines(lines) ==
    \A s, c \in Versions :
        (/\ <<"runtime", [src |-> s, clang |-> c]>> \in lines
         /\ bitcode # NoFile /\ "runtime" \notin caught)
            => bitcode = [src |-> s, clang |-> c]

ModuleLines(lines) ==
    \A s, b \in Versions :
        (/\ <<"std", [src |-> s, by |-> b]>> \in lines
         /\ plib # NoFile /\ "std" \notin caught)
            => plib.src = s /\ plib.code = s /\ plib.by = b

\* The artifact being built has its line taken; what is read after it is what the
\* line says, unless an edit came between.
PendingIsTrue ==
    /\ step = "bitcode" /\ "runtime" \notin caught => pending = RuntimeLine
    /\ step = "hash" => pending[1] = "runtime"
    /\ step = "hash" /\ "runtime" \notin caught => pending = <<"runtime", bitcode>>
    /\ step = "bitcode" => pending[1] = "runtime"
    /\ step \in {"interface", "sections"} /\ "std" \notin caught => pending = ModuleLine
    /\ step \in {"interface", "sections"} => pending[1] = "std"
    /\ step = "sections" /\ "std" \notin caught => interface = stdSource

\* No stamp is on disk while the toolchain is built, and the lines that were read
\* and the lines being made stay true of what they will be compared with.
LinesAreTrue ==
    /\ RuntimeLines(stamp) /\ ModuleLines(stamp)
    /\ step \in Emitting => stamp = {}
    /\ step = "runtime" => RuntimeLines(recorded)
    /\ step \in {"runtime", "bitcode", "hash", "modules"} => ModuleLines(recorded)
    /\ step \in {"runtime", "bitcode", "hash"} => entries = {}
    /\ step \in {"modules", "interface", "sections"}
          => \A e \in entries : e[1] = "runtime"
    /\ step \in {"modules", "interface", "sections", "stamp"} => RuntimeLines(entries)
    /\ step = "stamp" => ModuleLines(entries)
    /\ PendingIsTrue

ToolchainInv == ToolchainTypeOK /\ IdsAreFresh /\ LinesAreTrue

----------------------------------------------------------------------------

LEMMA ToolchainInitInv == ToolchainInit => ToolchainInv
<1> SUFFICES ASSUME ToolchainInit PROVE ToolchainInv
  OBVIOUS
<1>1. ToolchainTypeOK
  <2>1. hosted \in BOOLEAN /\ ~hosted /\ step = "off" /\ step \in Steps
    BY DEF ToolchainInit, Steps
  <2> QED BY <2>1 DEF ToolchainInit, ToolchainTypeOK, Emitting, SomeBytes
<1>2. IdsAreFresh
  BY DEF ToolchainInit, IdsAreFresh
<1>3. LinesAreTrue
  BY DEF ToolchainInit, LinesAreTrue, RuntimeLines, ModuleLines, PendingIsTrue, Emitting
<1> QED BY <1>1, <1>2, <1>3 DEF ToolchainInv

\* The shape of the state: one action can only leave the next one its candidate
\* and its host.
LEMMA TypeLinked ==
  ASSUME ToolchainTypeOK, NEW v \in Versions, NEW h \in BOOLEAN, Linked(v, h)
  PROVE  ToolchainTypeOK'
  BY DEF ToolchainTypeOK, Steps, Emitting, Linked, inputs, artifacts, building, SomeBytes,
     PlibFile

LEMMA TypePromoteNext ==
  ASSUME ToolchainTypeOK, IdsAreFresh, PromoteNext
  PROVE  ToolchainTypeOK'
<1> USE DEF ToolchainTypeOK, Steps, Emitting, inputs, host, artifacts, building, AtRest,
    SomeBytes, PlibFile
<1>1. CASE CandidateStarts \/ CandidateFails \/ PromoteLeft
  <2>1. step' \in Steps /\ (hosted' => step' \in {"check", "emit"})
    BY <1>1 DEF CandidateStarts, CandidateFails, PromoteLeft
  <2>2. step' = "emit" => Emitter' \in Versions
    BY <1>1 DEF CandidateStarts, CandidateFails, PromoteLeft, Emitter
  <2> QED BY <1>1, <2>1, <2>2 DEF CandidateStarts, CandidateFails, PromoteLeft
<1>2. CASE Promote
  BY <1>2, NoFileAssumption DEF Promote
<1>3. CASE Forward \/ Clean
  <2>1. step = "off" /\ UNCHANGED <<step, hosted>>
    BY <1>3 DEF Forward, Clean
  <2> QED BY <1>3, <2>1 DEF Forward, Clean
<1>4. ASSUME NEW w \in BOOLEAN, Trust(w)
      PROVE  ToolchainTypeOK'
  <2>1. step' = "emit" => ~hosted'
    BY <1>4 DEF Trust
  <2>2. active.id \in promoted
    BY <1>4 DEF Trust, IdsAreFresh
  <2> QED BY <1>4, <2>1, <2>2 DEF Trust, Emitter
<1>5. ASSUME NEW v \in Versions, NEW id \in promoted \cup {NoFile}, Replace(v, id)
      PROVE  ToolchainTypeOK'
  BY <1>5 DEF Replace
<1> QED BY <1>1, <1>2, <1>3, <1>4, <1>5 DEF PromoteNext

LEMMA TypeEmitNext ==
  ASSUME ToolchainTypeOK, EmitNext
  PROVE  ToolchainTypeOK'
<1> USE DEF ToolchainTypeOK, Steps, Emitting, inputs, host, artifacts, building, SomeBytes
<1>1. CASE \/ ReuseRuntime \/ BeginRuntime \/ BuildRuntime \/ RecordHash
           \/ DropModule \/ ReuseModule \/ BeginModule \/ ReadInterface
  <2>1. /\ step \in Emitting /\ step' \in Emitting
        /\ plib' \in {plib, NoFile} /\ interface' \in {interface, stdSource}
        /\ UNCHANGED <<inputs, host, hosted>>
    BY <1>1 DEF ReuseRuntime, BeginRuntime, BuildRuntime, RecordHash, DropModule,
       ReuseModule, BeginModule, ReadInterface, Reuse, Begin, Made
  <2>2. Emitter' = Emitter
    BY <2>1 DEF Emitter
  <2> QED BY <2>1, <2>2
<1>2. CASE EmitModule
  <2>1. /\ step \in Emitting /\ step' \in Emitting
        /\ plib' = Plib(interface) /\ interface' = NoFile
        /\ UNCHANGED <<inputs, host, hosted>>
    BY <1>2 DEF EmitModule, Made
  <2>2. Emitter' = Emitter
    BY <2>1 DEF Emitter
  <2>3. Plib(interface) \in PlibFile
    BY <2>1 DEF Plib, PlibFile
  <2> QED BY <2>1, <2>2, <2>3
<1>3. CASE EmitFails
  BY <1>3 DEF EmitFails, AtRest
<1>4. ASSUME NEW b \in BOOLEAN, EmitBegin(b)
      PROVE  ToolchainTypeOK'
  <2>1. Emitter' = Emitter
    BY <1>4 DEF EmitBegin, Emitter
  <2> QED BY <1>4, <2>1 DEF EmitBegin
<1>5. ASSUME NEW lines \in SUBSET entries, WriteStamp(lines)
      PROVE  ToolchainTypeOK'
  <2>1. step' = "left" => candidate' \in Versions
    BY <1>5 DEF WriteStamp, Emitter
  <2>2. step' \in {"left", "off"} /\ ~hosted' /\ hosted' \in BOOLEAN
    BY <1>5 DEF WriteStamp
  <2> QED BY <1>5, <2>1, <2>2 DEF WriteStamp
<1> QED BY <1>1, <1>2, <1>3, <1>4, <1>5 DEF EmitNext

LEMMA TypeDisturbed ==
  ASSUME ToolchainTypeOK,
         \/ Killed \/ LoseArtifact
         \/ \E v \in Versions \cup {NoFile} : EditToolchain(v)
         \/ UNCHANGED toolchainVars
  PROVE  ToolchainTypeOK'
<1> USE DEF ToolchainTypeOK, Steps, Emitting, inputs, host, artifacts, building, SomeBytes
<1>1. CASE Killed
  <2>1. TornPlib \in PlibFile
    BY DEF TornPlib, PlibFile
  <2> QED BY <1>1, <2>1 DEF Killed, AtRest
<1>2. CASE LoseArtifact
  BY <1>2 DEF LoseArtifact
<1>3. CASE \E v \in Versions \cup {NoFile} : EditToolchain(v)
  <2>1. /\ UNCHANGED <<host, artifacts, step, hosted, interface>>
        /\ rtSource' \in Versions /\ impSource' \in Versions /\ clang' \in Versions
        /\ stdSource' \in Versions \cup {NoFile}
    BY <1>3 DEF EditToolchain
  <2>2. Emitter' = Emitter
    BY <2>1 DEF Emitter
  <2> QED BY <2>1, <2>2
<1>4. CASE UNCHANGED toolchainVars
  <2>1. Emitter' = Emitter
    BY <1>4 DEF toolchainVars, Emitter
  <2> QED BY <1>4, <2>1 DEF toolchainVars
<1> QED BY <1>1, <1>2, <1>3, <1>4

\* Identities: a promotion and a checkout take the next one, and a host that
\* matches a recorded identity is one that was promoted.
LEMMA IdsPromoteNext ==
  ASSUME ToolchainTypeOK, IdsAreFresh, PromoteNext
  PROVE  IdsAreFresh'
<1> USE DEF IdsAreFresh, inputs, host, artifacts, building, AtRest
<1>1. CASE CandidateStarts \/ CandidateFails \/ PromoteLeft
  BY <1>1 DEF CandidateStarts, CandidateFails, PromoteLeft
<1>2. CASE Promote
  <2>1. /\ active'.id = nextId /\ nextId' = nextId + 1 /\ nextId \in Nat
        /\ promoted' = promoted \cup {nextId} /\ promoted \subseteq Nat
    BY <1>2 DEF Promote, ToolchainTypeOK
  <2> QED BY <1>2, <2>1 DEF Promote
<1>3. CASE Forward \/ Clean
  <2>1. active.id \in promoted
    BY <1>3, NoFileAssumption DEF Forward, Clean, ToolchainTypeOK
  <2> QED BY <1>3, <2>1 DEF Forward, Clean
<1>4. CASE \E w \in BOOLEAN : Trust(w)
  BY <1>4 DEF Trust
<1>5. CASE \E v \in Versions, id \in promoted \cup {NoFile} : Replace(v, id)
  BY <1>5 DEF Replace, ToolchainTypeOK
<1> QED BY <1>1, <1>2, <1>3, <1>4, <1>5 DEF PromoteNext

LEMMA IdsElsewhere ==
  ASSUME IdsAreFresh,
         \/ \E v \in Versions, h \in BOOLEAN : Linked(v, h)
         \/ EmitNext \/ Killed \/ LoseArtifact
         \/ \E v \in Versions \cup {NoFile} : EditToolchain(v)
         \/ UNCHANGED toolchainVars
  PROVE  IdsAreFresh'
<1> USE DEF EmitNext, EmitBegin, ReuseRuntime, BeginRuntime, BuildRuntime, RecordHash,
     DropModule, ReuseModule, BeginModule, ReadInterface, EmitModule, EmitFails,
     WriteStamp, Reuse, Begin, Made, Linked, Killed, LoseArtifact, EditToolchain,
     toolchainVars
<1>1. UNCHANGED <<active, ran, promoted, nextId>>
  BY DEF host
<1>2. step' \notin {"trust", "trust-left"} \/ step' = step
  BY DEF AtRest
<1> QED BY <1>1, <1>2 DEF IdsAreFresh

\* Lines: what makes, promotes and runs hosts leaves them alone.
LEMMA LinesElsewhere ==
  ASSUME LinesAreTrue,
         \/ \E v \in Versions, h \in BOOLEAN : Linked(v, h)
         \/ PromoteNext
         \/ UNCHANGED toolchainVars
  PROVE  LinesAreTrue'
<1>1. UNCHANGED <<bitcode, plib, stamp, caught>>
  BY DEF Linked, PromoteNext, CandidateStarts, CandidateFails, Promote, PromoteLeft,
     Forward, Clean, Trust, Replace, toolchainVars, artifacts, building, AtRest
<1>2. \/ step' \notin Emitting
      \/ UNCHANGED toolchainVars
  BY DEF Linked, PromoteNext, CandidateStarts, CandidateFails, Promote, PromoteLeft,
     Forward, Clean, Trust, Replace, AtRest, Emitting
<1>3. CASE step' \notin Emitting
  BY <1>1, <1>3 DEF LinesAreTrue, RuntimeLines, ModuleLines, PendingIsTrue, Emitting
<1>4. CASE UNCHANGED toolchainVars
  BY <1>4 DEF toolchainVars, LinesAreTrue, RuntimeLines, ModuleLines, PendingIsTrue,
     RuntimeLine, ModuleLine, Emitter
<1> QED BY <1>2, <1>3, <1>4

\* An edit can only make an artifact one that was caught, or leave its keyed inputs
\* as the line has them.
LEMMA LinesEdited ==
  ASSUME LinesAreTrue, NEW v \in Versions \cup {NoFile}, EditToolchain(v)
  PROVE  LinesAreTrue'
<1>1. /\ UNCHANGED <<host, artifacts, step, hosted, recorded, entries, pending, interface>>
      /\ caught \subseteq caught'
      /\ AtBitcode /\ "runtime" \notin caught' => Bitcode' = Bitcode
      /\ AtModule /\ "std" \notin caught' => stdSource' = stdSource
  BY DEF EditToolchain
<1>2. PendingIsTrue'
  BY <1>1 DEF LinesAreTrue, PendingIsTrue, RuntimeLine, ModuleLine, Emitter, Bitcode,
     AtBitcode, AtModule, host, artifacts
<1>3. \A lines : /\ RuntimeLines(lines) => RuntimeLines(lines)'
                 /\ ModuleLines(lines) => ModuleLines(lines)'
  BY <1>1 DEF RuntimeLines, ModuleLines, artifacts
<1> QED BY <1>1, <1>2, <1>3 DEF LinesAreTrue, artifacts

LEMMA LinesBegin ==
  ASSUME LinesAreTrue, NEW b \in BOOLEAN, EmitBegin(b)
  PROVE  LinesAreTrue'
  BY DEF EmitBegin, building, LinesAreTrue, RuntimeLines, ModuleLines, PendingIsTrue,
     Emitting

\* A reused runtime and a reused module are what the lines read from the stamp say.
LEMMA LinesReuse ==
  ASSUME LinesAreTrue, ReuseRuntime \/ ReuseModule
  PROVE  LinesAreTrue'
<1> USE DEF Reuse, LinesAreTrue, RuntimeLines, ModuleLines, PendingIsTrue, Emitting,
     artifacts, building
<1>1. CASE ReuseRuntime
  BY <1>1 DEF ReuseRuntime, RuntimeCurrent, RuntimeLine
<1>2. CASE ReuseModule
  BY <1>2 DEF ReuseModule, ModuleCurrent, ModuleLine
<1> QED BY <1>1, <1>2

\* A rebuild takes its line from the inputs of now, and nothing caught it yet.
LEMMA LinesTaken ==
  ASSUME LinesAreTrue, BeginRuntime \/ BeginModule
  PROVE  LinesAreTrue'
<1> USE DEF Begin, LinesAreTrue, RuntimeLines, ModuleLines, PendingIsTrue, Emitting,
     artifacts, inputs, host
<1>1. CASE BeginRuntime
  BY <1>1 DEF BeginRuntime, RuntimeLine
<1>2. CASE BeginModule
  BY <1>2 DEF BeginModule, ModuleLine, Emitter
<1> QED BY <1>1, <1>2

LEMMA LinesRuntime ==
  ASSUME LinesAreTrue, BuildRuntime \/ RecordHash
  PROVE  LinesAreTrue'
<1> USE DEF LinesAreTrue, RuntimeLines, ModuleLines, PendingIsTrue, Emitting, inputs,
     building
<1>1. CASE BuildRuntime
  BY <1>1 DEF BuildRuntime, RuntimeLine, Bitcode
<1>2. CASE RecordHash
  BY <1>2 DEF RecordHash, Made
<1> QED BY <1>1, <1>2

LEMMA LinesModule ==
  ASSUME LinesAreTrue, DropModule \/ ReadInterface \/ EmitModule
  PROVE  LinesAreTrue'
<1> USE DEF LinesAreTrue, RuntimeLines, ModuleLines, PendingIsTrue, Emitting, inputs,
     building, artifacts, host
<1>1. CASE DropModule
  BY <1>1 DEF DropModule
<1>2. CASE ReadInterface
  BY <1>2 DEF ReadInterface, ModuleLine, Emitter
<1>3. CASE EmitModule
  BY <1>3 DEF EmitModule, Made, ModuleLine, Plib
<1> QED BY <1>1, <1>2, <1>3

LEMMA LinesInterrupted ==
  ASSUME LinesAreTrue, EmitFails \/ Killed \/ LoseArtifact
  PROVE  LinesAreTrue'
<1> USE DEF AtRest, LinesAreTrue, RuntimeLines, ModuleLines, PendingIsTrue, Emitting,
     AtBitcode, AtModule, building
<1>1. CASE EmitFails
  BY <1>1 DEF EmitFails
<1>2. CASE Killed
  BY <1>2 DEF Killed
<1>3. CASE LoseArtifact
  BY <1>3 DEF LoseArtifact
<1> QED BY <1>1, <1>2, <1>3

LEMMA LinesWriteStamp ==
  ASSUME LinesAreTrue, NEW lines \in SUBSET entries, WriteStamp(lines)
  PROVE  LinesAreTrue'
  BY DEF WriteStamp, LinesAreTrue, RuntimeLines, ModuleLines, PendingIsTrue, Emitting,
     building

LEMMA ToolchainStepInv ==
  ASSUME ToolchainInv, [ToolchainNext]_toolchainVars
  PROVE  ToolchainInv'
<1>t. ToolchainTypeOK /\ IdsAreFresh /\ LinesAreTrue
  BY DEF ToolchainInv
<1>1. ToolchainTypeOK'
  BY <1>t, TypeLinked, TypePromoteNext, TypeEmitNext, TypeDisturbed
  DEF ToolchainNext
<1>2. IdsAreFresh'
  BY <1>t, IdsPromoteNext, IdsElsewhere DEF ToolchainNext
<1>3. EmitNext => LinesAreTrue'
  BY <1>t, LinesBegin, LinesReuse, LinesTaken, LinesRuntime, LinesModule,
     LinesInterrupted, LinesWriteStamp DEF EmitNext
<1>4. LinesAreTrue'
  BY <1>t, <1>3, LinesElsewhere, LinesEdited, LinesInterrupted DEF ToolchainNext
<1> QED BY <1>1, <1>2, <1>4 DEF ToolchainInv

LEMMA ToolchainInvariant == ToolchainSpec => []ToolchainInv
<1>1. ToolchainInit => ToolchainInv
  BY ToolchainInitInv
<1>2. ToolchainInv /\ [ToolchainNext]_toolchainVars => ToolchainInv'
  BY ToolchainStepInv
<1> QED BY <1>1, <1>2, PTL DEF ToolchainSpec

\* For every set of source versions and every number of identities and edits:
\* whatever was killed, failed, deleted or edited, what is found current is what a
\* rebuild would make of the keyed inputs, and of the imports and the clang it was
\* made with when they are still the ones, unless a keyed input changed between
\* the key and the compile (compiler_emit_local_toolchain).
THEOREM ReusesAreRebuilds == ToolchainSpec => []ReuseIsARebuild
<1>1. ToolchainInv => ReuseIsARebuild
  <2> SUFFICES ASSUME ToolchainInv PROVE ReuseIsARebuild
    OBVIOUS
  <2>t. ToolchainTypeOK /\ LinesAreTrue
    BY DEF ToolchainInv
  <2>1. step = "runtime" /\ RuntimeCurrent /\ "runtime" \notin caught => bitcode = Bitcode
    BY <2>t DEF ToolchainTypeOK, LinesAreTrue, RuntimeLines, RuntimeCurrent, RuntimeLine,
       Bitcode
  <2>2. ASSUME step = "modules", stdSource # NoFile, ModuleCurrent, "std" \notin caught,
               plib.imp = impSource, plib.clang = clang
        PROVE  plib = Plib(stdSource)
    <3>1. stdSource \in Versions /\ Emitter \in Versions /\ plib \in PlibFile
      BY <2>t, <2>2 DEF ToolchainTypeOK, Emitting, SomeBytes, ModuleCurrent
    <3>2. plib.src = stdSource /\ plib.code = stdSource /\ plib.by = Emitter
      BY <2>t, <2>2, <3>1 DEF LinesAreTrue, ModuleLines, ModuleCurrent, ModuleLine
    <3> QED BY <2>2, <3>1, <3>2 DEF Plib, PlibFile
  <2> QED BY <2>1, <2>2 DEF ReuseIsARebuild
<1> QED BY <1>1, ToolchainInvariant, PTL

\* The launcher only ever runs a host that this machine checked and promoted,
\* whatever file and whatever stamp a checkout put in its place
\* (compiler_host_stamp_matches before compiler_forward_cli).
THEOREM HostTrusted == ToolchainSpec => []HostRunsAreOurs
<1>1. ToolchainInv => HostRunsAreOurs
  BY DEF ToolchainInv, IdsAreFresh, HostRunsAreOurs
<1> QED BY <1>1, ToolchainInvariant, PTL
=============================================================================
