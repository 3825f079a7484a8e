------------------------------ MODULE Linking ------------------------------
(***************************************************************************)
(* Merging the imported libraries into a program before it is optimised    *)
(* (runtime/llvm-api-backend.c).  The modules are the imported .plib       *)
(* sections, in order, then the runtime.  With the LLVM bridge only what   *)
(* the program reaches is read and linked: the needed names are closed over*)
(* all modules first, declared in the program, and then each module is     *)
(* linked with LinkOnlyNeeded.  Without the bridge every module is linked  *)
(* whole and the unused functions are deleted afterwards.                  *)
(*                                                                         *)
(* A target that compiles the runtime itself ("native") does not merge it: *)
(* it links the runtime's objects, and the program is given the curated    *)
(* functions' bodies for the inliner (ir_curate_module).                   *)
(*                                                                         *)
(* A body is the set of names it uses.  Two things are LLVM's and external *)
(* here: which definitions LinkOnlyNeeded takes, and materialisation.      *)
(***************************************************************************)
EXTENDS Naturals, FiniteSets

CONSTANTS
    Names,
    ModuleCount,
    Libraries,  \* the sets of library modules a program may be built against
    Programs    \* what its own module may declare of them

Modules == 1..ModuleCount
Runtime == ModuleCount

\* One name in one module.  A local (internal or private) symbol belongs to its
\* module; `refs` are the names its body or initializer uses.
Symbols == [here : BOOLEAN, local : BOOLEAN, refs : SUBSET Names]
NoSymbol == [here |-> FALSE, local |-> FALSE, refs |-> {}]

Externals(lib, i) == {n \in Names : lib.defs[i][n].here /\ ~lib.defs[i][n].local}
Locals(lib, i) == {n \in Names : lib.defs[i][n].here /\ lib.defs[i][n].local}

\* What the table of library symbols, keyed by name, relies on.  One module
\* exports a name; a name that is local to a module is exported by none, is the
\* same symbol in every module that has it (a vtable, a module constant, a
\* string), and is used only in modules that have it.  And what
\* run_curated_closure_test asserts: a curated function uses no local symbol of
\* the runtime but the cold blocks that were split from curated functions.
WellFormed(lib) ==
    /\ lib.defs \in [Modules -> [Names -> Symbols]]
    /\ lib.appending \in [Modules -> SUBSET Names]
    /\ \A i, j \in Modules : i # j => Externals(lib, i) \cap Externals(lib, j) = {}
    /\ \A i, j \in Modules : \A n \in Locals(lib, i) :
          /\ n \notin Externals(lib, j)
          /\ n \in Locals(lib, j) => lib.defs[i][n] = lib.defs[j][n]
          /\ (\E m \in Names : n \in lib.defs[j][m].refs) => n \in Locals(lib, j)
    /\ \A i \in Modules : lib.appending[i] \subseteq Externals(lib, i) \cup Locals(lib, i)
    /\ lib.curated \subseteq Externals(lib, Runtime)
    /\ lib.cold \subseteq Locals(lib, Runtime)
    /\ \A n \in lib.curated \cup lib.cold :
          lib.defs[Runtime][n].refs \cap Locals(lib, Runtime) \subseteq lib.cold

ASSUME LibrariesAssumption ==
    /\ ModuleCount \in Nat \ {0}
    /\ \A lib \in Libraries : WellFormed(lib)
    /\ Programs \subseteq [Names -> {"absent", "unused", "used", "variable", "stub"}]

VARIABLES
    library,    \* the modules on disk
    program,    \* name -> what the program's own module says of it: a function
                \* it declares and uses or does not use, a variable it declares,
                \* or a workload stub, which it defines
    target,     \* "installed": the runtime is merged; "native": it is linked
    linker,     \* "lazy" or "whole"
    linkStage,
    declared,   \* the names the merged module declares
    defined,    \* the <<module, name>> definitions it took
    bodies,     \* the curated bodies it was given
    contracts,  \* the names whose declaration or definition has the contract
                \* attributes the program's module states
    needed,     \* the table's flags
    work,       \* the needed names not yet read
    next        \* the module linked next

linkingVars == <<library, program, target, linker, linkStage, declared, defined,
                 bodies, contracts, needed, work, next>>

\* A program does not declare a name that is local to a library, and the curated
\* names are functions.
LinkingInit ==
    /\ library \in Libraries
    /\ program \in Programs
    /\ \A n \in Names, i \in Modules : n \in Locals(library, i) => program[n] = "absent"
    /\ \A n \in library.curated : program[n] # "variable"
    /\ target \in {"installed", "native"}
    /\ linker \in {"lazy", "whole"}
    /\ linkStage = IF target = "native" THEN "curate" ELSE "read"
    /\ declared = {n \in Names : program[n] \in {"unused", "used", "variable"}}
    /\ contracts = {n \in Names : program[n] \in {"unused", "used"}}
    /\ defined = {}
    /\ bodies = {}
    /\ needed = {}
    /\ work = {}
    /\ next = 1

----------------------------------------------------------------------------
Merged == IF target = "installed" THEN Modules ELSE Modules \ {Runtime}
Sym(i, n) == library.defs[i][n]
Stubs == {n \in Names : program[n] = "stub"}

\* What the program's own bodies use, the curated ones it was given included.  A
\* declared variable counts whether they use it or not: the merge tests the uses
\* of functions only.
Used ==
    {n \in Names : program[n] \in {"used", "variable"}}
        \cup UNION {Sym(Runtime, b).refs : b \in bodies}

\* The least set that holds the seed and what Step names of its members.
Least(universe, seed, Step(_)) ==
    {x \in universe :
        \A S \in SUBSET universe :
            seed \subseteq S /\ (\A y \in S : Step(y) \subseteq S) => x \in S}

LinkAt(s) == linkStage = s
LinkTo(s) == linkStage' = s
LinkingFails ==
    /\ LinkTo("failed")
    /\ UNCHANGED <<library, program, target, linker, declared, defined, bodies,
                   contracts, needed, work, next>>

\* ir_curate_module: a curated function keeps its body, available_externally; a
\* cold block keeps its own, internal; everything else becomes a declaration and
\* goes when nothing uses it.  ir_link_modules then gives the program the bodies
\* it can use.
Kept == library.curated \cup library.cold
CuratedBodies ==
    Least(Kept, Used \cap library.curated, LAMBDA n : Sym(Runtime, n).refs \cap Kept)

Curate ==
    /\ LinkAt("curate")
    /\ bodies' = CuratedBodies
    /\ declared' = declared \cup ((UNION {Sym(Runtime, n).refs : n \in CuratedBodies}) \ CuratedBodies)
    /\ LinkTo("read")
    /\ UNCHANGED <<library, program, target, linker, defined, contracts, needed, work, next>>

\* Without it the program's module is used as it is.
CurationFails ==
    /\ LinkAt("curate")
    /\ LinkTo("read")
    /\ UNCHANGED <<library, program, target, linker, declared, defined, bodies,
                   contracts, needed, work, next>>

\* read_library_module of each; a module that cannot be read fails the merge.
ReadModules ==
    /\ LinkAt("read")
    /\ LinkTo(IF linker = "lazy" THEN "roots" ELSE "link")
    /\ UNCHANGED <<library, program, target, linker, declared, defined, bodies,
                   contracts, needed, work, next>>

ReadFails == LinkAt("read") /\ LinkingFails

\* library_symbol_add: the first module that defines a name, local names too.
Definers(n) == {i \in Merged : Sym(i, n).here}
InTable == {n \in Names : Definers(n) # {}}
Owner(n) == CHOOSE i \in Definers(n) : \A j \in Definers(n) : i <= j

\* A name the program defines is flagged and never read; an unused declaration
\* of a function that a library defines is deleted, and what it states of the
\* function with it; a used one is a root, and so is what an appending global of
\* a library names.
Roots ==
    /\ LinkAt("roots")
    /\ LET used == InTable \cap declared \cap Used
           kept == (UNION {library.appending[i] : i \in Merged}) \cap InTable
           roots == (used \cup kept) \ Stubs
       IN  /\ declared' = declared \ (InTable \ Used)
           /\ contracts' = contracts \ (InTable \ Used)
           /\ needed' = roots \cup (InTable \cap Stubs)
           /\ work' = roots
    /\ LinkTo("close")
    /\ UNCHANGED <<library, program, target, linker, defined, bodies, next>>

\* library_symbols_close: one needed symbol is materialised and what it names
\* joins the needed.  (A name under more than 32 nested constants is not seen;
\* no body here nests any.)
CloseOne(n) ==
    /\ LinkAt("close")
    /\ n \in work
    /\ LET found == (Sym(Owner(n), n).refs \cap InTable) \ needed
       IN  /\ needed' = needed \cup found
           /\ work' = (work \ {n}) \cup found
    /\ UNCHANGED <<library, program, target, linker, linkStage, declared, defined, bodies,
                   contracts, next>>

MaterializeFails == LinkAt("close") /\ work # {} /\ LinkingFails

\* Mutant: what only a library uses is not declared.
DeclareNeeded_Nothing ==
    /\ LinkAt("close")
    /\ work = {}
    /\ LinkTo("link")
    /\ UNCHANGED <<library, program, target, linker, declared, defined, bodies, contracts,
                   needed, work, next>>

\* The needed names that are not declared are, bare, so that LinkOnlyNeeded takes
\* them, except the local ones.
DeclareNeeded ==
    /\ LinkAt("close")
    /\ work = {}
    /\ declared' = declared \cup {n \in needed \ Stubs : ~Sym(Owner(n), n).local}
    /\ LinkTo("link")
    /\ UNCHANGED <<library, program, target, linker, defined, bodies, contracts, needed, work, next>>

----------------------------------------------------------------------------
\* A name has a definition in the merged module.
Has(n) == n \in Stubs \/ \E i \in Modules : <<i, n>> \in defined /\ ~Sym(i, n).local

\* yield_to_workload_stubs makes the library's definition of a stubbed name a
\* copy the linker does not take.
Offered(i) == {n \in Names : Sym(i, n).here} \ Stubs

\* LinkOnlyNeeded (external): what the program declares and does not define, the
\* appending globals, and what those use in the same module.
OnlyNeeded(i) ==
    Least(Offered(i),
          (({n \in declared : ~Has(n)} \cap Externals(library, i)) \cup library.appending[i])
              \cap Offered(i),
          LAMBDA n : {m \in Sym(i, n).refs \cap Offered(i) : Sym(i, m).local \/ ~Has(m)})

\* The definitions of module i enter the program; what they use from elsewhere
\* is declared.  preserve_program_declaration_contracts has put the attributes
\* of the program's declarations on them.
Take(i, taken) ==
    LET own == {n \in taken : ~Sym(i, n).local}
    IN  /\ defined' = defined \cup {<<i, n>> : n \in taken}
        /\ declared' = (declared \cup ((UNION {Sym(i, n).refs : n \in taken}) \ Locals(library, i)))
                          \ own
        /\ contracts' = contracts \ {n \in own : n \notin declared}

LinkModule ==
    /\ LinkAt("link")
    /\ next \in Merged
    /\ Take(next, IF linker = "lazy" THEN OnlyNeeded(next) ELSE Offered(next))
    /\ next' = next + 1
    /\ UNCHANGED <<library, program, target, linker, linkStage, bodies, needed, work>>

LinkFails == LinkAt("link") /\ next \in Merged /\ LinkingFails

\* prune_unused_imported_definitions: an imported function that nothing uses is
\* deleted, again until none is.  One that uses itself stays, and so does a name
\* in an appending global.
UsedBy(S, i, n) ==
    \/ ~Sym(i, n).local /\ n \in Used
    \/ n \in library.appending[i]
    \/ \E d \in S : n \in Sym(d[1], d[2]).refs /\ (Sym(i, n).local => d[1] = i)

Pruned ==
    UNION {S \in SUBSET defined : \A d \in S : UsedBy(S, d[1], d[2])}

\* The merged module is pruned, then held in memory for the code generator, or
\* printed; the printing may fail.
Finish ==
    /\ LinkAt("link")
    /\ next \notin Merged
    /\ defined' = Pruned
    /\ LinkTo("merged")
    /\ UNCHANGED <<library, program, target, linker, declared, bodies, contracts, needed, work, next>>

PrintFails == LinkAt("link") /\ next \notin Merged /\ LinkingFails

LinkingNext ==
    \/ Curate \/ CurationFails
    \/ ReadModules \/ ReadFails
    \/ Roots \/ DeclareNeeded \/ MaterializeFails
    \/ \E n \in Names : CloseOne(n)
    \/ LinkModule \/ LinkFails
    \/ Finish \/ PrintFails

LinkingSpec == LinkingInit /\ [][LinkingNext]_linkingVars

----------------------------------------------------------------------------
(***************************************************************************)
(* Properties                                                              *)
(***************************************************************************)

\* What a use of n in module i means in the program whose libraries are linked
\* whole: a local symbol of that module, else the program's stub, else the
\* exporting module.
Meaning(i, n) ==
    IF i \in Merged /\ Sym(i, n).here /\ Sym(i, n).local THEN {<<i, n>>}
    ELSE IF n \in Stubs THEN {}
    ELSE {<<j, n>> : j \in {k \in Merged : n \in Externals(library, k)}}

Reached ==
    LET all == {<<i, n>> : i \in Merged, n \in Names}
        roots == (UNION {Meaning(0, n) : n \in Used})
                    \cup UNION {UNION {Meaning(i, n) : n \in library.appending[i]} : i \in Merged}
    IN  Least(all, roots, LAMBDA d : UNION {Meaning(d[1], n) : n \in Sym(d[1], d[2]).refs})

\* What the program's module states of a function outlasts the merge: all that
\* it states when modules are linked whole; what it states of the functions it
\* uses when they are linked on demand, since a declaration that it does not use
\* is deleted before the libraries are linked, and the function, when a library
\* needs it, is declared anew without what was stated.
Stated(n) ==
    \/ program[n] = "used"
    \/ program[n] = "unused" /\ (linker = "whole" \/ n \in Used)

\* The lazy merge takes exactly the definitions the program reaches when every
\* module is linked whole, whatever the order of the modules; the whole merge
\* takes at least those; a definition has the contract of the program's
\* declaration if and only if the linker in use leaves it that (Stated); and no
\* body taken from the curated module uses a local symbol of the runtime that was
\* not taken with it, since the runtime's object does not export it.
MergeIsExact ==
    LinkAt("merged") =>
        /\ Reached \subseteq defined
        /\ linker = "lazy" => defined = Reached
        /\ \A d \in defined : ~Sym(d[1], d[2]).local => (d[2] \in contracts <=> Stated(d[2]))
        /\ target = "native" =>
              \A b \in bodies : Sym(Runtime, b).refs \cap Locals(library, Runtime) \subseteq bodies
=============================================================================
