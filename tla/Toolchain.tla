----------------------------- MODULE Toolchain -----------------------------
(***************************************************************************)
(* A project-local toolchain (runtime/build_driver.c, driven by            *)
(* src/project/host.psm): a project builds its own compiler, the host; the *)
(* candidate is checked, renamed over the active host and recorded as      *)
(* trusted; the runtime bitcode and the standard library are emitted beside*)
(* it under a stamp that lets the next build reuse them; and a launcher    *)
(* forwards commands to a host this machine promoted.                      *)
(*                                                                         *)
(* One host is built at a time, and any step can be the last of a killed   *)
(* process.  The sources and clang change at any moment, also between the  *)
(* key of an artifact and the compile that makes it.  The modules a module *)
(* imports are read as sources, for the generic bodies it instantiates.    *)
(***************************************************************************)
EXTENDS Naturals, Files

CONSTANTS
    MaxIds,     \* bound: file identities the project's host can take
    MaxEdits    \* bound: changes of the sources and of clang

VARIABLES
    rtSource, stdSource,   \* runtime/*.c, and a module of std/
    impSource,  \* a module of std/ that it imports
    clang,      \* the clang installed
    candidate,  \* <host>.next
    active,     \* the host: its bytes and its identity (inode, mtime)
    trusted,    \* the identity <host>.trusted records
    bitcode,    \* lib/runtime/*.bc, by the sources and the clang they are of
    rtHash,     \* lib/runtime.hash
    plib,       \* the module's stdlib/*.plib, by everything it was made of
    stamp,      \* lib/toolchain.stamp, as a set of <<name, key>> lines
    step,       \* where the host build is
    hosted,     \* whether it is the host building its own replacement
    recorded, entries,     \* the stamp read at the start; the one being made
    pending,    \* the line of the artifact being built, NoFile when none is
    interface,  \* the module's source as it was read for its interface
    caught,     \* history: artifacts of which a keyed input changed between the
                \* key and the compile
    edits,      \* changes so far
    ran,        \* the host the launcher last forwarded to
    promoted,   \* history: the identities promotion gave the host
    nextId      \* the next file identity the file system assigns

toolchainVars == <<rtSource, stdSource, candidate, active, trusted, bitcode,
                   rtHash, plib, stamp, step, hosted, recorded, entries, ran,
                   promoted, nextId, impSource, clang, pending, interface, caught,
                   edits>>

inputs == <<rtSource, stdSource, impSource, clang, edits>>
host == <<candidate, active, trusted, ran, promoted, nextId>>
artifacts == <<bitcode, rtHash, plib, stamp>>
building == <<pending, interface, caught>>

ToolchainInit ==
    /\ rtSource \in Versions /\ stdSource \in Versions
    /\ impSource \in Versions /\ clang \in Versions /\ edits = 0
    /\ candidate = NoFile /\ active = NoFile /\ trusted = NoFile
    /\ bitcode = NoFile /\ rtHash = NoFile /\ plib = NoFile /\ stamp = {}
    /\ step = "off" /\ hosted = FALSE /\ recorded = {} /\ entries = {}
    /\ pending = NoFile /\ interface = NoFile /\ caught = {}
    /\ ran = NoFile /\ promoted = {} /\ nextId = 1

----------------------------------------------------------------------------
\* Bitcode files of different sources.
MixedBitcode == [src |-> NoFile, clang |-> NoFile]

\* A .plib that was not written to its end: the reader refuses its size.
TornPlib == [src |-> NoFile, code |-> NoFile, by |-> NoFile, imp |-> NoFile,
             clang |-> NoFile]

\* No host build runs.
AtRest ==
    /\ step' = "off"
    /\ hosted' = FALSE
    /\ recorded' = {}
    /\ entries' = {}
    /\ pending' = NoFile
    /\ interface' = NoFile
    /\ UNCHANGED caught

(***************************************************************************)
(* Promotion                                                               *)
(***************************************************************************)

\* buildUmsHostTarget has linked <host>.next.  A host building its replacement
\* (hosted) checks it and emits the libraries with it; promotion is left to the
\* launcher that forwarded the command.
Linked(v, isHosted) ==
    /\ step = "off"
    /\ isHosted => ran # NoFile /\ ran = active
    /\ candidate' = v
    /\ hosted' = isHosted
    /\ step' = "check"
    /\ UNCHANGED <<inputs, active, trusted, ran, promoted, nextId, artifacts,
                   recorded, entries, building>>

\* compiler_check_executable starts the candidate; one that does not start is
\* deleted and the active host is kept.
CandidateStarts ==
    /\ step \in {"check", "check-left"}
    /\ step' = IF step = "check-left" THEN "promote-left"
               ELSE IF hosted THEN "emit" ELSE "promote"
    /\ UNCHANGED <<inputs, host, artifacts, hosted, recorded, entries, building>>

CandidateFails ==
    /\ step \in {"check", "check-left", "promote", "promote-left"}
    /\ candidate' = NoFile
    /\ AtRest
    /\ UNCHANGED <<inputs, active, trusted, ran, promoted, nextId, artifacts>>

\* compiler_promote_executable: one rename, and the host has a new identity.
Promote ==
    /\ step \in {"promote", "promote-left"}
    /\ nextId <= MaxIds
    /\ active' = [ver |-> candidate, id |-> nextId]
    /\ candidate' = NoFile
    /\ promoted' = promoted \cup {nextId}
    /\ nextId' = nextId + 1
    /\ step' = IF step = "promote" THEN "trust" ELSE "trust-left"
    /\ UNCHANGED <<inputs, trusted, ran, artifacts, hosted, recorded, entries, building>>

\* compiler_host_stamp_write.  A stamp that cannot be written is a warning, and
\* leaves a file that records no identity.
Trust(written) ==
    /\ step \in {"trust", "trust-left"}
    /\ trusted' = IF written THEN active.id ELSE NoFile
    /\ step' = IF step = "trust" THEN "emit" ELSE "off"
    /\ UNCHANGED <<inputs, candidate, active, ran, promoted, nextId, artifacts,
                   hosted, recorded, entries, building>>

\* Mutant: any recorded identity will do.
Forward_AnyStamp ==
    /\ step = "off"
    /\ active # NoFile
    /\ trusted # NoFile
    /\ ran' = active
    /\ candidate' = NoFile
    /\ UNCHANGED <<inputs, active, trusted, promoted, nextId, artifacts, step,
                   hosted, recorded, entries, building>>

\* dispatchToUmsHost: the launcher forwards to a host whose identity the stamp
\* records and that starts; before it does, it deletes a left-over candidate.
Forward ==
    /\ step = "off"
    /\ active # NoFile
    /\ trusted = active.id
    /\ ran' = active
    /\ candidate' = NoFile
    /\ UNCHANGED <<inputs, active, trusted, promoted, nextId, artifacts, step,
                   hosted, recorded, entries, building>>

\* `clean` is forwarded too; the launcher then removes the host and its stamp.
Clean ==
    /\ step = "off"
    /\ active # NoFile
    /\ trusted = active.id
    /\ ran' = active
    /\ candidate' = NoFile
    /\ active' = NoFile
    /\ trusted' = NoFile
    /\ UNCHANGED <<inputs, promoted, nextId, artifacts, step, hosted, recorded, entries, building>>

\* After a hosted build that ended well, the launcher promotes what it left.
PromoteLeft ==
    /\ step = "left"
    /\ step' = "check-left"
    /\ UNCHANGED <<inputs, host, artifacts, hosted, recorded, entries, building>>

\* A checkout, or an edit, puts another file at the host's path, with whatever
\* stamp the repository carried: one this machine may have written before.
Replace(v, id) ==
    /\ step = "off"
    /\ nextId <= MaxIds
    /\ id \in promoted \cup {NoFile}
    /\ active' = [ver |-> v, id |-> nextId]
    /\ trusted' = id
    /\ nextId' = nextId + 1
    /\ UNCHANGED <<inputs, candidate, ran, promoted, artifacts, step, hosted,
                   recorded, entries, building>>

----------------------------------------------------------------------------
(***************************************************************************)
(* compiler_emit_local_toolchain                                           *)
(***************************************************************************)

\* The compiler whose output a .plib is.
Emitter == IF hosted THEN candidate ELSE active.ver

\* runtime_cache_key hashes runtime/*.c and the identity of clang; plib_cache_key
\* the compiler's bytes and the module's own source, and nothing else.
RuntimeLine == <<"runtime", [src |-> rtSource, clang |-> clang]>>
ModuleLine == <<"std", [src |-> stdSource, by |-> Emitter]>>

\* What a compile reads: the runtime's whole key, and more than the module's.
Bitcode == [src |-> rtSource, clang |-> clang]
Plib(interfaceRead) ==
    [src |-> interfaceRead, code |-> stdSource, by |-> Emitter,
     imp |-> impSource, clang |-> clang]

\* Mutant: the stamp stays on disk while the toolchain is rebuilt.
EmitBegin_KeepsStamp(bypass) ==
    /\ step = "emit"
    /\ recorded' = IF bypass THEN {} ELSE stamp
    /\ entries' = {}
    /\ step' = "runtime"
    /\ UNCHANGED <<inputs, host, artifacts, hosted, building>>

\* The recorded stamp is read, unless PRISMIO_TOOLCHAIN_CACHE=0, and dropped
\* from disk before anything is built.
EmitBegin(bypass) ==
    /\ step = "emit"
    /\ recorded' = IF bypass THEN {} ELSE stamp
    /\ stamp' = {}
    /\ entries' = {}
    /\ step' = "runtime"
    /\ UNCHANGED <<inputs, host, bitcode, rtHash, plib, hosted, building>>

\* An artifact is to be rebuilt: its line is the one of the inputs of now.
Begin(name, newLine, next) ==
    /\ pending' = newLine
    /\ caught' = caught \ {name}
    /\ step' = next
    /\ UNCHANGED <<inputs, host, artifacts, hosted, recorded, entries, interface>>

\* It is there: its line goes into the new stamp.
Made(next) ==
    /\ entries' = entries \cup {pending}
    /\ pending' = NoFile
    /\ step' = next
    /\ UNCHANGED caught

\* It is what the line read from the stamp says.
Reuse(reused, next) ==
    /\ entries' = entries \cup {reused}
    /\ step' = next
    /\ UNCHANGED <<inputs, host, artifacts, hosted, recorded, building>>

RuntimeCurrent == RuntimeLine \in recorded /\ bitcode # NoFile /\ rtHash # NoFile

ReuseRuntime ==
    /\ step = "runtime"
    /\ RuntimeCurrent
    /\ Reuse(RuntimeLine, "modules")

BeginRuntime ==
    /\ step = "runtime"
    /\ ~RuntimeCurrent
    /\ Begin("runtime", RuntimeLine, "bitcode")

\* Eight runs of clang: an edit between two of them leaves files of both sources.
BuildRuntime ==
    /\ step = "bitcode"
    /\ bitcode' \in {Bitcode} \cup (IF "runtime" \in caught THEN {MixedBitcode} ELSE {})
    /\ step' = "hash"
    /\ UNCHANGED <<inputs, host, rtHash, plib, stamp, hosted, recorded, entries, building>>

\* The sources are hashed again for lib/runtime.hash.
RecordHash ==
    /\ step = "hash"
    /\ rtHash' = rtSource
    /\ Made("modules")
    /\ UNCHANGED <<inputs, host, bitcode, plib, stamp, hosted, recorded, interface>>

ModuleCurrent == ModuleLine \in recorded /\ plib # NoFile

\* A .plib whose source is gone is deleted, and has no line.
DropModule ==
    /\ step = "modules"
    /\ stdSource = NoFile
    /\ plib' = NoFile
    /\ step' = "stamp"
    /\ UNCHANGED <<inputs, host, bitcode, rtHash, stamp, hosted, recorded, entries, building>>

ReuseModule ==
    /\ step = "modules"
    /\ stdSource # NoFile /\ ModuleCurrent
    /\ Reuse(ModuleLine, "stamp")

BeginModule ==
    /\ step = "modules"
    /\ stdSource # NoFile /\ ~ModuleCurrent
    /\ Begin("std", ModuleLine, "interface")

\* emit_stdlib_plib reads the source for the interface section ...
ReadInterface ==
    /\ step = "interface"
    /\ stdSource # NoFile
    /\ interface' = stdSource
    /\ step' = "sections"
    /\ UNCHANGED <<inputs, host, artifacts, hosted, recorded, entries, pending, caught>>

\* ... the emitting compiler reads it, and the imported ones, for the code; clang
\* assembles it and the file is written.
EmitModule ==
    /\ step = "sections"
    /\ stdSource # NoFile
    /\ plib' = Plib(interface)
    /\ interface' = NoFile
    /\ Made("stamp")
    /\ UNCHANGED <<inputs, host, bitcode, rtHash, stamp, hosted, recorded>>

\* Where an artifact of the toolchain is being built.
AtBitcode == step = "bitcode"
AtModule == step \in {"interface", "sections"}

\* A tool fails, or a source is gone: the emission ends without a stamp, and the
\* launcher of a hosted build deletes the candidate.  Some of the bitcode files
\* may be new, and a .plib that was being written is deleted.
EmitFails ==
    /\ AtBitcode \/ AtModule \/ step \in {"runtime", "hash", "modules"}
    /\ bitcode' \in IF AtBitcode THEN {bitcode, MixedBitcode} ELSE {bitcode}
    /\ plib' \in IF AtModule THEN {plib, NoFile} ELSE {plib}
    /\ AtRest
    /\ candidate' = NoFile
    /\ UNCHANGED <<inputs, active, trusted, ran, promoted, nextId, rtHash, stamp>>

\* Written last, and only on success.  A write that stops part of the way
\* leaves some of the lines.
WriteStamp(lines) ==
    /\ step = "stamp"
    /\ lines \subseteq entries
    /\ stamp' = lines
    /\ step' = IF hosted THEN "left" ELSE "off"
    /\ recorded' = {}
    /\ entries' = {}
    /\ hosted' = FALSE
    /\ UNCHANGED <<inputs, host, bitcode, rtHash, plib, building>>

----------------------------------------------------------------------------
\* The process is killed, perhaps with some of its files written.
Killed ==
    /\ step # "off"
    /\ bitcode' \in IF AtBitcode THEN {bitcode, MixedBitcode} ELSE {bitcode}
    /\ plib' \in IF AtModule THEN {plib, TornPlib} ELSE {plib}
    /\ AtRest
    /\ UNCHANGED <<inputs, host, rtHash, stamp>>

\* One of the sources, or clang, changes: at any moment, also while the artifact
\* that is being built has its key taken and its inputs still to be read.
EditToolchain(v) ==
    /\ edits < MaxEdits
    /\ edits' = edits + 1
    /\ \/ rtSource' = v /\ UNCHANGED <<stdSource, impSource, clang>>
       \/ stdSource' = v /\ UNCHANGED <<rtSource, impSource, clang>>
       \/ impSource' = v /\ UNCHANGED <<rtSource, stdSource, clang>>
       \/ clang' = v /\ UNCHANGED <<rtSource, stdSource, impSource>>
    /\ {rtSource', impSource', clang'} \subseteq Versions
    /\ <<rtSource, stdSource, impSource, clang>>' # <<rtSource, stdSource, impSource, clang>>
    /\ caught' = caught
          \cup (IF AtBitcode /\ Bitcode' # Bitcode THEN {"runtime"} ELSE {})
          \cup (IF AtModule /\ stdSource' # stdSource THEN {"std"} ELSE {})
    /\ UNCHANGED <<host, artifacts, step, hosted, recorded, entries, pending, interface>>

\* A file of the toolchain is deleted by hand.
LoseArtifact ==
    /\ step = "off"
    /\ \/ bitcode' = NoFile /\ UNCHANGED <<rtHash, plib>>
       \/ plib' = NoFile /\ UNCHANGED <<bitcode, rtHash>>
    /\ UNCHANGED <<inputs, host, stamp, step, hosted, recorded, entries, building>>

EmitNext ==
    \/ \E b \in BOOLEAN : EmitBegin(b)
    \/ ReuseRuntime \/ BeginRuntime \/ BuildRuntime \/ RecordHash
    \/ DropModule \/ ReuseModule \/ BeginModule \/ ReadInterface \/ EmitModule
    \/ EmitFails
    \/ \E lines \in SUBSET entries : WriteStamp(lines)

PromoteNext ==
    \/ CandidateStarts \/ CandidateFails \/ Promote \/ PromoteLeft \/ Forward \/ Clean
    \/ \E w \in BOOLEAN : Trust(w)
    \/ \E v \in Versions, id \in promoted \cup {NoFile} : Replace(v, id)

ToolchainNext ==
    \/ \E v \in Versions, h \in BOOLEAN : Linked(v, h)
    \/ PromoteNext
    \/ EmitNext
    \/ Killed
    \/ LoseArtifact
    \/ \E v \in Versions \cup {NoFile} : EditToolchain(v)

ToolchainSpec == ToolchainInit /\ [][ToolchainNext]_toolchainVars

----------------------------------------------------------------------------
(***************************************************************************)
(* Properties                                                              *)
(***************************************************************************)

\* A reuse gives what a rebuild would, as far as the keys go: whatever was killed,
\* failed, deleted or edited, the runtime's bitcode that is found current is what
\* clang would make of the sources now, and so is each section of a module that is
\* found current while its imports and clang are the ones it was made with, unless
\* a keyed input changed between the key and the compile
\* (compiler_emit_local_toolchain: the key is taken once, and the stamp is dropped
\* first and written last).
ReuseIsARebuild ==
    /\ step = "runtime" /\ RuntimeCurrent /\ "runtime" \notin caught => bitcode = Bitcode
    /\ (/\ step = "modules" /\ stdSource # NoFile /\ ModuleCurrent /\ "std" \notin caught
        /\ plib.imp = impSource /\ plib.clang = clang) => plib = Plib(stdSource)

\* The launcher only ever runs a host that this machine checked and promoted
\* (compiler_host_stamp_matches before compiler_forward_cli).
HostRunsAreOurs == ran # NoFile => ran.id \in promoted
=============================================================================
