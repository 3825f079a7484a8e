---------------------------- MODULE MCToolchain -----------------------------
(***************************************************************************)
(* The build driver and the backend's module pipeline for TLC: concurrent  *)
(* builds, the making of a host, one merge of libraries or one emission of *)
(* objects.  Each has its own state, so that a behaviour is of one of them *)
(* while the others rest in their first state.                             *)
(***************************************************************************)
EXTENDS Build, Toolchain, Linking, Partitions, TLC

VARIABLE part

pipeline == <<part, buildVars, toolchainVars, linkingVars, emissionVars>>

----------------------------------------------------------------------------
(* Libraries: "a" is exported, "b" and "c" are exported by one module or     *)
(* local to one or both; a body uses at most one name.  The uses make        *)
(* chains, cycles and a name that uses itself.                               *)
Places == {<<TRUE, {1}>>, <<TRUE, {2}>>, <<FALSE, {1}>>, <<FALSE, {2}>>, <<FALSE, {1, 2}>>}
Uses ==
    {r \in [Names -> {{}} \cup {{n} : n \in Names}] :
        r["a"] \in {{"b"}, {"c"}} /\ r["b"] # {"a"} /\ r["c"] # {"c"}}

Lib(place, refs, app) ==
    LET sym(i, n) == IF i \in place[n][2]
                     THEN [here |-> TRUE, local |-> ~place[n][1], refs |-> refs[n]]
                     ELSE NoSymbol
        only(i, x) == {n \in Names : place[n] = <<x, {i}>>}
    IN [defs |-> [i \in Modules |-> [n \in Names |-> sym(i, n)]],
        appending |-> [i \in Modules |-> app \cap {n \in Names : i \in place[n][2]}],
        curated |-> only(2, TRUE), cold |-> only(2, FALSE)]

MCLibraries ==
    {lib \in {Lib(place, refs, app) :
                 place \in {p \in [Names -> Places] : p["a"][1]},
                 refs \in Uses, app \in {{}, {"c"}}} :
        /\ WellFormed(lib)
        /\ (\A i \in Modules : lib.appending[i] = {}) \/ \A i \in Modules : "c" \notin lib.defs[i]["a"].refs}

MCPrograms ==
    {p \in [Names -> {"absent", "unused", "used", "variable", "stub"}] :
        /\ p["a"] = "used" /\ p["b"] # "used" /\ p["c"] # "variable"
        /\ "absent" \in {p["b"], p["c"]} \/ <<p["b"], p["c"]>> = <<"unused", "used">>}

(* Units: `main` uses any of the others, each of which uses at most one.     *)
Shapes == {<<"function", "external">>, <<"function", "local">>, <<"function", "available">>,
           <<"variable", "external">>, <<"variable", "local">>, <<"constant", "local">>,
           <<"appending", "external">>}
Others == 2..SymbolCount

Unit(shape, refs, main, weight) ==
    [kind |-> [i \in Ids |-> IF i = 1 THEN "function" ELSE shape[i][1]],
     linkage |-> [i \in Ids |-> IF i = 1 THEN "external" ELSE shape[i][2]],
     refs |-> [i \in Ids |-> IF i = 1 THEN main ELSE refs[i]],
     weight |-> weight]

\* Nothing names an appending global.
Legal(u) == \A s, t \in Ids : u.kind[s] = "appending" => s \notin u.refs[t]

Even == [i \in Ids |-> 1]
Uneven == [i \in Ids |-> IF i = 1 THEN 3 ELSE 1]

MCUnits ==
    {u \in {Unit(shape, refs, main, weight) :
               shape \in [Others -> Shapes],
               refs \in [Others -> {{}} \cup {{i} : i \in Others}],
               main \in {{}, {2}, Others},
               weight \in {Even, Uneven}} :
        /\ Legal(u)
        /\ u.weight = Even \/ \A i \in Others : u.kind[i] = "function"}

----------------------------------------------------------------------------
\* A part that does not run rests in one of its initial states.
SomeVersion == CHOOSE v \in Versions : TRUE
SomeLibrary == CHOOSE l \in Libraries : TRUE
SomeProgram == [n \in Names |-> IF n = "a" THEN "used" ELSE "absent"]
SomeUnit == CHOOSE u \in Units : TRUE

BuildsRest(v) == source = v /\ header = v /\ sdk = v /\ BuildInit
\* The files of a toolchain are never compared with one another, so the first bytes
\* of all of them may have one name.
HostRests(v) ==
    rtSource = v /\ stdSource = v /\ impSource = v /\ clang = v /\ ToolchainInit
MergeRests ==
    /\ library = SomeLibrary /\ program = SomeProgram /\ target = "native" /\ linker = "lazy"
    /\ LinkingInit
EmissionRests == unit = SomeUnit /\ closed = TRUE /\ EmissionInit

\* Every command, while the files stay; and, with the edits, a host that got its
\* first identity and builds replacements of itself.
ToolchainPart ==
    /\ ToolchainNext
    /\ \/ part = "host" /\ edits' = 0
       \/ part = "stamp" /\ nextId' <= 2 /\ ran' = ran

\* Failures of any stage, while the files stay; and changes of the files at any
\* moment, with no failure but the native compile's.
NothingElseFails ==
    \A p \in Builds :
        /\ failed[p] \in {"none", "native"}
        /\ stage[p] = "merge" /\ kind[p] = "native"
              => "merged" \in temps[p] /\ "curatedTmp" \notin temps[p]

BuildsPart ==
    /\ BuildNext
    /\ \/ part = "failures" /\ changes' = 0
       \/ part = "builds" /\ NothingElseFails'

PipelineInit ==
    \/ part \in {"failures", "builds"} /\ BuildInit /\ HostRests(source) /\ MergeRests /\ EmissionRests
    \/ part \in {"host", "stamp"} /\ (\E v \in Versions : HostRests(v)) /\ BuildsRest(rtSource) /\ MergeRests /\ EmissionRests
    \/ /\ BuildsRest(SomeVersion) /\ HostRests(SomeVersion)
       /\ \/ part = "merge" /\ EmissionRests /\ LinkingInit
          \/ part = "emission" /\ MergeRests /\ EmissionInit

PipelineNext ==
    \/ BuildsPart /\ UNCHANGED <<part, toolchainVars, linkingVars, emissionVars>>
    \/ ToolchainPart /\ UNCHANGED <<part, buildVars, linkingVars, emissionVars>>
    \/ part = "merge" /\ LinkingNext /\ UNCHANGED <<part, buildVars, toolchainVars, emissionVars>>
    \/ part = "emission" /\ EmissionNext /\ UNCHANGED <<part, buildVars, toolchainVars, linkingVars>>

PipelineSpec == PipelineInit /\ [][PipelineNext]_pipeline

Symmetry == Permutations(Builds) \cup Permutations(Versions)
=============================================================================
