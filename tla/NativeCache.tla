---------------------------- MODULE NativeCache ----------------------------
(***************************************************************************)
(* The object cache of the build driver (runtime/build_driver.c): builds   *)
(* that run at the same time compile a native source through one shared    *)
(* directory.                                                              *)
(*                                                                         *)
(* An entry is named by a hash of the source's bytes, the role and the     *)
(* flags.  The headers a source includes are not in the name: the entry's  *)
(* `.deps` file lists them with the hash each had, and a hit needs every   *)
(* hash to match the file of now.  One source and one header are kept; the *)
(* role and the flags are fixed, so an entry's name is the version of the  *)
(* source.                                                                 *)
(***************************************************************************)
EXTENDS Naturals, Files

CONSTANT Builds     \* the builds that may run at the same time

VARIABLES
    source,     \* the bytes of the native source now
    header,     \* the bytes of the header it includes now
    object,     \* entry name -> the object installed there
    deps,       \* entry name -> the hashes its .deps file records
    pc,         \* build -> where compile_native_source is
    key,        \* build -> the entry it looks for, NoFile when it has none
    out,        \* build -> the object in its own temporary file
    cached,     \* build -> whether what it will link is the cache's object
    suspect     \* history: entries an edit, a failure or a death caught between
                \* the two files of an installation

cacheVars == <<source, header, object, deps, pc, key, out, cached, suspect>>

\* An object, and a .deps list, by the bytes of the files it is of.
Compilation == [src : Versions, hdr : Versions]

\* What a compiler, or a hash, reads now.
Now == [src |-> source, hdr |-> header]

CacheInit ==
    /\ source \in Versions
    /\ header \in Versions
    /\ object = [v \in Versions |-> NoFile]
    /\ deps = [v \in Versions |-> NoFile]
    /\ pc = [p \in Builds |-> "idle"]
    /\ key = [p \in Builds |-> NoFile]
    /\ out = [p \in Builds |-> NoFile]
    /\ cached = [p \in Builds |-> FALSE]
    /\ suspect = {}

----------------------------------------------------------------------------
\* A build whose object is compiled and not yet installed.
InFlight(p) == pc[p] \in {"record", "install"}

\* The programmer edits the source or the header, to bytes they may have had
\* before (a checkout of another branch and back).
Edit(s, h) ==
    /\ <<s, h>> # <<source, header>>
    /\ source' = s
    /\ header' = h
    /\ suspect' = suspect \cup {key[p] : p \in {q \in Builds : InFlight(q)}}
    /\ UNCHANGED <<object, deps, pc, key, out, cached>>

\* compile_native_sources reaches the source.
NativeBegin(p) ==
    /\ pc[p] = "idle"
    /\ pc' = [pc EXCEPT ![p] = "lookup"]
    /\ UNCHANGED <<source, header, object, deps, key, out, cached, suspect>>

\* native_object_entry: the source is hashed into the name of the entry.
EntryOf(p) ==
    /\ pc[p] = "lookup"
    /\ key' = [key EXCEPT ![p] = source]
    /\ pc' = [pc EXCEPT ![p] = "check"]
    /\ UNCHANGED <<source, header, object, deps, out, cached, suspect>>

\* PRISMIO_OBJ_CACHE=0, or no cache directory: there is no entry, and the
\* object goes to a temporary beside the executable.
NoEntry(p) ==
    /\ pc[p] = "lookup"
    /\ key' = [key EXCEPT ![p] = NoFile]
    /\ pc' = [pc EXCEPT ![p] = "compile"]
    /\ UNCHANGED <<source, header, object, deps, out, cached, suspect>>

\* Mutant: a list is taken for current when it is there.
DepsCurrent_Exists(k) == deps[k] # NoFile

\* native_deps_current: the list exists and every hash in it is today's.
DepsCurrent(k) == deps[k] = Now

Hit(p) == object[key[p]] # NoFile /\ DepsCurrent(key[p])

\* The lookup of compile_native_source.
Check(p) ==
    /\ pc[p] = "check"
    /\ pc' = [pc EXCEPT ![p] = IF Hit(p) THEN "ready" ELSE "compile"]
    /\ cached' = [cached EXCEPT ![p] = Hit(p)]
    /\ UNCHANGED <<source, header, object, deps, key, out, suspect>>

\* clang reads the files and writes a temporary of this build's own.  Without
\* an entry there is nothing to install.
Compile(p) ==
    /\ pc[p] = "compile"
    /\ out' = [out EXCEPT ![p] = Now]
    /\ pc' = [pc EXCEPT ![p] = IF key[p] = NoFile THEN "ready" ELSE "record"]
    /\ UNCHANGED <<source, header, object, deps, key, cached, suspect>>

CompileFails(p) ==
    /\ pc[p] = "compile"
    /\ pc' = [pc EXCEPT ![p] = "failed"]
    /\ UNCHANGED <<source, header, object, deps, key, out, cached, suspect>>

\* native_deps_record: each prerequisite is hashed now, after the compile, into
\* a temporary that replaces the entry's list.
Record(p) ==
    /\ pc[p] = "record"
    /\ deps' = [deps EXCEPT ![key[p]] = Now]
    /\ pc' = [pc EXCEPT ![p] = "install"]
    /\ UNCHANGED <<source, header, object, key, out, cached, suspect>>

\* Its rename fails: taken for another build's list being there first, and
\* answered as a success.
RecordKeepsOldList(p) ==
    /\ pc[p] = "record"
    /\ pc' = [pc EXCEPT ![p] = "install"]
    /\ suspect' = suspect \cup {key[p]}
    /\ UNCHANGED <<source, header, object, deps, key, out, cached>>

\* Its list cannot be written: nothing is installed and the temporary is linked.
RecordFails(p) ==
    /\ pc[p] = "record"
    /\ pc' = [pc EXCEPT ![p] = "ready"]
    /\ UNCHANGED <<source, header, object, deps, key, out, cached, suspect>>

\* fs_rename moves the object into place.
Install(p) ==
    /\ pc[p] = "install"
    /\ object' = [object EXCEPT ![key[p]] = out[p]]
    /\ cached' = [cached EXCEPT ![p] = TRUE]
    /\ pc' = [pc EXCEPT ![p] = "ready"]
    /\ UNCHANGED <<source, header, deps, key, out, suspect>>

\* "A failed install is not a failed build: the temporary is linked."
InstallFails(p) ==
    /\ pc[p] = "install"
    /\ pc' = [pc EXCEPT ![p] = "ready"]
    /\ suspect' = suspect \cup {key[p]}
    /\ UNCHANGED <<source, header, object, deps, key, out, cached>>

\* The variables of a call are gone with it.
Forget(p) ==
    /\ pc' = [pc EXCEPT ![p] = "idle"]
    /\ key' = [key EXCEPT ![p] = NoFile]
    /\ out' = [out EXCEPT ![p] = NoFile]
    /\ cached' = [cached EXCEPT ![p] = FALSE]

\* The object has been linked, or the build has given up: its own temporary is
\* deleted and the cache's object stays.
NativeEnd(p) ==
    /\ pc[p] \in {"ready", "failed"}
    /\ Forget(p)
    /\ UNCHANGED <<source, header, object, deps, suspect>>

\* The process is killed.  Its files stay as they are.
NativeDies(p) ==
    /\ Forget(p)
    /\ suspect' = IF pc[p] = "install" THEN suspect \cup {key[p]} ELSE suspect
    /\ UNCHANGED <<source, header, object, deps>>

NativeStep(p) ==
    \/ EntryOf(p) \/ NoEntry(p) \/ Check(p)
    \/ Compile(p) \/ CompileFails(p)
    \/ Record(p) \/ RecordKeepsOldList(p) \/ RecordFails(p)
    \/ Install(p) \/ InstallFails(p)

CacheNext ==
    \/ \E s, h \in Versions : Edit(s, h)
    \/ \E p \in Builds :
          NativeBegin(p) \/ NativeStep(p) \/ NativeEnd(p) \/ NativeDies(p)

CacheSpec == CacheInit /\ [][CacheNext]_cacheVars

----------------------------------------------------------------------------
(***************************************************************************)
(* Properties                                                              *)
(***************************************************************************)

\* The type of the cache's state.
CacheTypeOK ==
    /\ source \in Versions
    /\ header \in Versions
    /\ object \in [Versions -> Compilation \cup {NoFile}]
    /\ deps \in [Versions -> Compilation \cup {NoFile}]
    /\ pc \in [Builds -> {"idle", "lookup", "check", "compile", "record",
                          "install", "ready", "failed"}]
    /\ key \in [Builds -> Versions \cup {NoFile}]
    /\ out \in [Builds -> Compilation \cup {NoFile}]
    /\ cached \in [Builds -> BOOLEAN]
    /\ suspect \in SUBSET (Versions \cup {NoFile})

\* No build is between the two renames of entry k.
Settled(k) == \A p \in Builds : ~(pc[p] = "install" /\ key[p] = k)

\* A hit on an entry no build is replacing, and which no edit, failed rename or
\* killed build caught between its list and its object, links an object compiled
\* from the bytes the files have now (compile_native_source, native_deps_current).
SettledHitsAreFresh ==
    \A p \in Builds :
        (pc[p] = "check" /\ Hit(p) /\ Settled(key[p]) /\ key[p] \notin suspect)
            => object[key[p]] = Now

\* Every hit links an object compiled from the bytes the files have now: what
\* native_deps_current is said to decide.
HitsAreFresh ==
    \A p \in Builds : (pc[p] = "check" /\ Hit(p)) => object[key[p]] = Now

----------------------------------------------------------------------------
\* The list and the object agree once settled; while a build is between them the
\* list is already today's, and so is every object waiting to be installed.
ListMatchesObject ==
    \A k \in Versions :
        (k \notin suspect /\ object[k] # NoFile /\ deps[k] # NoFile /\ Settled(k))
            => object[k] = deps[k]

WaitingObjectsAreCurrent ==
    \A p \in Builds : (InFlight(p) /\ key[p] \notin suspect) => out[p] = Now

WaitingListsAreCurrent ==
    \A p \in Builds :
        (pc[p] = "install" /\ key[p] \notin suspect) => deps[key[p]] = Now

KeysAreTaken ==
    \A p \in Builds :
        /\ pc[p] \in {"check", "record", "install"} => key[p] \in Versions
        /\ InFlight(p) => out[p] \in Compilation

CacheInv ==
    /\ CacheTypeOK
    /\ KeysAreTaken
    /\ WaitingObjectsAreCurrent
    /\ WaitingListsAreCurrent
    /\ ListMatchesObject
=============================================================================
