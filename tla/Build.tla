------------------------------- MODULE Build -------------------------------
(***************************************************************************)
(* compiler_build_executable (runtime/build_driver.c): builds that run at  *)
(* the same time, each with an executable of its own, and share the object *)
(* cache (NativeCache), the curated runtime module kept in the same        *)
(* directory, and the cache of linker lines.                               *)
(*                                                                         *)
(* A "plain" target has no native source: it merges the installed runtime  *)
(* and can be linked by a cached `ld` line.  A "native" target compiles    *)
(* lang_runtime.c itself (the source of NativeCache), inlines from the     *)
(* curated module and links through the driver.                            *)
(***************************************************************************)
EXTENDS NativeCache

CONSTANTS
    MaxBuilds,  \* bound: builds started in a behaviour
    MaxChanges  \* bound: edits and updates in a behaviour

VARIABLES
    kind,       \* build -> "plain" or "native"
    stage,      \* build -> where compiler_build_executable is
    temps,      \* build -> its temporary files that exist
    exe,        \* build -> what its executable was linked from, NoFile if not linked
    failed,     \* build -> history: the tool that failed it, or "none"
    curated,    \* source version -> the curated module cached under it
    entry,      \* build -> the curated entry it is to fill, NoFile when none
    module,     \* build -> the curated module it compiled and did not install
    line,       \* the cached linker line: the SDK it is for, the identity recorded
    plan,       \* build -> the SDK the linker line it uses is for
    sdk,        \* the SDK and linker installed now
    started,    \* builds started so far
    changes     \* edits and updates so far

curation == <<curated, entry, module>>
linkLine == <<line, plan, sdk>>
pipelineVars == <<kind, stage, temps, exe, failed, curation, linkLine,
                  started, changes>>
buildVars == <<cacheVars, pipelineVars>>

\* What a plain target is linked from: no native object.
Program == [src |-> NoFile, hdr |-> NoFile]

\* Mutant: the list of exported names is forgotten.
Reaped_NotExports == {"raw", "merged", "libraries", "program", "native"}

\* The last line of the cleanup takes all of a build's temporaries but one: a
\* curated module that could not be installed is merged where it was built.
Reaped == {"raw", "merged", "libraries", "program", "native", "exports"}

BuildInit ==
    /\ CacheInit
    /\ kind = [p \in Builds |-> "plain"]
    /\ stage = [p \in Builds |-> "idle"]
    /\ temps = [p \in Builds |-> {}]
    /\ exe = [p \in Builds |-> NoFile]
    /\ failed = [p \in Builds |-> "none"]
    /\ curated = [v \in Versions |-> NoFile]
    /\ entry = [p \in Builds |-> NoFile]
    /\ module = [p \in Builds |-> NoFile]
    /\ line = NoFile
    /\ plan = [p \in Builds |-> NoFile]
    /\ sdk \in Versions
    /\ started = 0
    /\ changes = 0

----------------------------------------------------------------------------
At(p, s) == stage[p] = s
GoTo(p, s) == stage' = [stage EXCEPT ![p] = s]
Makes(p, fs) == temps' = [temps EXCEPT ![p] = @ \cup fs]
ToolFails(p, tool) == failed' = [failed EXCEPT ![p] = tool]

\* The output directory is made and the link inputs are accepted.
Start(p, k) ==
    /\ At(p, "idle")
    /\ started < MaxBuilds
    /\ started' = started + 1
    /\ kind' = [kind EXCEPT ![p] = k]
    /\ GoTo(p, IF k = "native" THEN "curate" ELSE "merge")
    /\ UNCHANGED <<cacheVars, temps, exe, failed, curation, linkLine, changes>>

\* build_curated_module looks for an entry named by the text lang_runtime.c has
\* now (not by the headers it includes).  PRISMIO_OBJ_CACHE=0 has no entry.
CurateLookup(p, bypass) ==
    /\ At(p, "curate")
    /\ LET hit == ~bypass /\ curated[source] # NoFile IN
          /\ entry' = [entry EXCEPT ![p] = IF hit \/ bypass THEN NoFile ELSE source]
          /\ GoTo(p, IF hit THEN "inline" ELSE "curating")
    /\ UNCHANGED <<cacheVars, kind, temps, exe, failed, curated, module, linkLine, started, changes>>

\* clang reads the files again, later; the operations are extracted beside the
\* entry.  The raw module is kept for the rest of the build.
CurateCompile(p) ==
    /\ At(p, "curating")
    /\ module' = [module EXCEPT ![p] = Now]
    /\ Makes(p, {"raw", "curatedTmp"})
    /\ GoTo(p, "curated")
    /\ UNCHANGED <<cacheVars, kind, exe, failed, curated, entry, linkLine, started, changes>>

\* The rename installs it, over whatever another build installed meanwhile.
CurateInstall(p) ==
    /\ At(p, "curated")
    /\ entry[p] # NoFile
    /\ curated' = [curated EXCEPT ![entry[p]] = module[p]]
    /\ entry' = [entry EXCEPT ![p] = NoFile]
    /\ module' = [module EXCEPT ![p] = NoFile]
    /\ temps' = [temps EXCEPT ![p] = @ \ {"curatedTmp"}]
    /\ GoTo(p, "inline")
    /\ UNCHANGED <<cacheVars, kind, exe, failed, linkLine, started, changes>>

\* A rename that fails, or no entry: the temporary is merged where it is.
CurateKeeps(p) ==
    /\ At(p, "curated")
    /\ entry' = [entry EXCEPT ![p] = NoFile]
    /\ module' = [module EXCEPT ![p] = NoFile]
    /\ GoTo(p, "inline")
    /\ UNCHANGED <<cacheVars, kind, temps, exe, failed, curated, linkLine, started, changes>>

\* ir_link_modules merges it into a temporary.
Inline(p) ==
    /\ At(p, "inline")
    /\ Makes(p, {"merged"})
    /\ GoTo(p, "merge")
    /\ UNCHANGED <<cacheVars, kind, exe, failed, curation, linkLine, started, changes>>

\* Any failure there leaves the program's IR unchanged: it is not the build's.
\* What was being compiled is deleted; a compiled module is not.
CurateFails(p) ==
    /\ At(p, "curate") \/ At(p, "curating") \/ At(p, "inline")
    /\ entry' = [entry EXCEPT ![p] = NoFile]
    /\ GoTo(p, "merge")
    /\ UNCHANGED <<cacheVars, kind, temps, exe, failed, curated, module, linkLine, started, changes>>

\* merge_libraries_into_program: the imported .plib sections are extracted,
\* merged with the runtime modules and deleted again.
MergeLibraries(p) ==
    /\ At(p, "merge")
    /\ temps' = [temps EXCEPT ![p] = (@ \ {"merged"}) \cup {"libraries"}]
    /\ GoTo(p, "codegen")
    /\ UNCHANGED <<cacheVars, kind, exe, failed, curation, linkLine, started, changes>>

\* It returns NULL, and so does the build: before its cleanup.
MergeFails(p) ==
    /\ At(p, "merge")
    /\ temps' = [temps EXCEPT ![p] = @ \ {"merged"}]
    /\ ToolFails(p, "merge")
    /\ GoTo(p, "done")
    /\ UNCHANGED <<cacheVars, kind, exe, curation, linkLine, started, changes>>

\* compile_ir_to_object writes the program's objects (one per partition of a
\* large program); then the native source is compiled.
Codegen(p) ==
    /\ At(p, "codegen")
    /\ Makes(p, {"program"})
    /\ IF kind[p] = "native"
       THEN NativeBegin(p) /\ GoTo(p, "native")
       ELSE UNCHANGED cacheVars /\ GoTo(p, "plan")
    /\ UNCHANGED <<kind, exe, failed, curation, linkLine, started, changes>>

CodegenFails(p) ==
    /\ At(p, "codegen")
    /\ ToolFails(p, "codegen")
    /\ GoTo(p, "cleanup")
    /\ UNCHANGED <<cacheVars, kind, temps, exe, curation, linkLine, started, changes>>

CompileNative(p) ==
    /\ At(p, "native")
    /\ NativeStep(p)
    /\ UNCHANGED pipelineVars

\* The object is this build's to delete unless the cache has it.
NativeReady(p) ==
    /\ At(p, "native")
    /\ pc[p] = "ready"
    /\ Makes(p, (IF cached[p] THEN {} ELSE {"native"}) \cup {"exports"})
    /\ GoTo(p, "driver")
    /\ UNCHANGED <<cacheVars, kind, exe, failed, curation, linkLine, started, changes>>

NativeFailed(p) ==
    /\ At(p, "native")
    /\ pc[p] = "failed"
    /\ Makes(p, {"native"})
    /\ ToolFails(p, "native")
    /\ GoTo(p, "cleanup")
    /\ UNCHANGED <<cacheVars, kind, exe, curation, linkLine, started, changes>>

----------------------------------------------------------------------------
\* link_cache_read: the cached line is used when the identity it records is the
\* one the files have now.  Otherwise the driver is asked for its plan (-###).
PlanLink(p) ==
    /\ At(p, "plan")
    /\ LET hit == line # NoFile /\ line.seen = sdk IN
          /\ plan' = [plan EXCEPT ![p] = IF hit THEN line.made ELSE sdk]
          /\ GoTo(p, IF hit THEN "ld" ELSE "keep")
    /\ UNCHANGED <<cacheVars, kind, temps, exe, failed, curation, line, sdk, started, changes>>

\* PRISMIO_LINK_CACHE=0, or a plan that cannot be parsed or substituted back.
NoPlan(p) ==
    /\ At(p, "plan")
    /\ GoTo(p, "driver")
    /\ UNCHANGED <<cacheVars, kind, temps, exe, failed, curation, linkLine, started, changes>>

\* link_cache_write: the identities are taken now; the write can fail.
KeepLine(p, written) ==
    /\ At(p, "keep")
    /\ line' = IF written THEN [made |-> plan[p], seen |-> sdk] ELSE line
    /\ GoTo(p, "ld")
    /\ UNCHANGED <<cacheVars, kind, temps, exe, failed, curation, plan, sdk, started, changes>>

\* `ld` runs the line.
LdLinks(p) ==
    /\ At(p, "ld")
    /\ plan[p] = sdk
    /\ exe' = [exe EXCEPT ![p] = Program]
    /\ GoTo(p, "cleanup")
    /\ UNCHANGED <<cacheVars, kind, temps, failed, curation, linkLine, started, changes>>

\* Mutant: the build fails with the cached line.
LdFails_FailsBuild(p) ==
    /\ At(p, "ld")
    /\ line' = NoFile
    /\ GoTo(p, "cleanup")
    /\ UNCHANGED <<cacheVars, kind, temps, exe, failed, curation, plan, sdk, started, changes>>

\* A line that failed is not kept, and the driver links.
LdFails(p) ==
    /\ At(p, "ld")
    /\ line' = NoFile
    /\ GoTo(p, "driver")
    /\ UNCHANGED <<cacheVars, kind, temps, exe, failed, curation, plan, sdk, started, changes>>

\* What the native object's path holds when the linker reads it.
NativeObject(p) == IF cached[p] THEN object[key[p]] ELSE out[p]

DriverLinks(p) ==
    /\ At(p, "driver")
    /\ exe' = [exe EXCEPT ![p] = IF kind[p] = "native" THEN NativeObject(p) ELSE Program]
    /\ GoTo(p, "cleanup")
    /\ UNCHANGED <<cacheVars, kind, temps, failed, curation, linkLine, started, changes>>

DriverFails(p) ==
    /\ At(p, "driver")
    /\ ToolFails(p, "driver")
    /\ GoTo(p, "cleanup")
    /\ UNCHANGED <<cacheVars, kind, temps, exe, curation, linkLine, started, changes>>

\* The end of compiler_build_executable, whatever the result.
Cleanup(p) ==
    /\ At(p, "cleanup")
    /\ temps' = [temps EXCEPT ![p] = @ \ Reaped]
    /\ GoTo(p, "done")
    /\ IF pc[p] = "idle" THEN UNCHANGED cacheVars ELSE NativeEnd(p)
    /\ UNCHANGED <<kind, exe, failed, curation, linkLine, started, changes>>

\* The process ends: the next build of this slot is another process, whose
\* temporaries have another pid in their names.
Reset(p) ==
    /\ GoTo(p, "idle")
    /\ kind' = [kind EXCEPT ![p] = "plain"]
    /\ temps' = [temps EXCEPT ![p] = {}]
    /\ exe' = [exe EXCEPT ![p] = NoFile]
    /\ failed' = [failed EXCEPT ![p] = "none"]
    /\ plan' = [plan EXCEPT ![p] = NoFile]
    /\ entry' = [entry EXCEPT ![p] = NoFile]
    /\ module' = [module EXCEPT ![p] = NoFile]
    /\ UNCHANGED <<curated, line, sdk, started, changes>>

Exit(p) ==
    /\ At(p, "done")
    /\ Reset(p)
    /\ UNCHANGED cacheVars

Die(p) ==
    /\ ~At(p, "idle") /\ ~At(p, "done")
    /\ Reset(p)
    /\ NativeDies(p)

\* The environment: an edit of the native source or its header, an update of
\* the SDK.
Changes == changes < MaxChanges /\ changes' = changes + 1

EditFiles(s, h) ==
    /\ Changes
    /\ Edit(s, h)
    /\ UNCHANGED <<kind, stage, temps, exe, failed, curation, linkLine, started>>

UpdateSdk(v) ==
    /\ Changes
    /\ v # sdk
    /\ sdk' = v
    /\ UNCHANGED <<cacheVars, kind, stage, temps, exe, failed, curation, line, plan, started>>

BuildStep(p) ==
    \/ \E k \in {"plain", "native"} : Start(p, k)
    \/ \E b \in BOOLEAN : CurateLookup(p, b)
    \/ CurateCompile(p) \/ CurateInstall(p) \/ CurateKeeps(p)
    \/ Inline(p) \/ CurateFails(p)
    \/ MergeLibraries(p) \/ MergeFails(p)
    \/ Codegen(p) \/ CodegenFails(p)
    \/ CompileNative(p) \/ NativeReady(p) \/ NativeFailed(p)
    \/ PlanLink(p) \/ NoPlan(p) \/ LdLinks(p) \/ LdFails(p)
    \/ \E w \in BOOLEAN : KeepLine(p, w)
    \/ DriverLinks(p) \/ DriverFails(p)
    \/ Cleanup(p) \/ Exit(p) \/ Die(p)

BuildNext ==
    \/ \E p \in Builds : BuildStep(p)
    \/ \E s, h \in Versions : EditFiles(s, h)
    \/ \E v \in Versions : UpdateSdk(v)

BuildSpec == BuildInit /\ [][BuildNext]_buildVars

----------------------------------------------------------------------------
(***************************************************************************)
(* Properties                                                              *)
(***************************************************************************)

\* The caches, the renames and the linker line can only cost time: a build that
\* ends has an executable, linked from a whole native object when it has one,
\* exactly when no compiler, merge, code generation or driver run failed it.
CachesNeverDecide ==
    \A p \in Builds : At(p, "done") =>
        /\ exe[p] # NoFile <=> failed[p] = "none"
        /\ exe[p] # NoFile /\ kind[p] = "native" => exe[p] \in Compilation

\* A build that ends by itself leaves none of its temporaries, except a curated
\* module it could not install and, when the library merge failed, the raw module.
TempsReaped ==
    \A p \in Builds : At(p, "done") =>
        temps[p] \subseteq {"curatedTmp"} \cup
            (IF failed[p] = "merge" THEN {"raw"} ELSE {})
=============================================================================
