------------------------------ MODULE MCMemory ------------------------------
(***************************************************************************)
(* The runtime's memory for TLC: the slab allocator, the owners of a Vec's *)
(* elements, the blocks of a Vec, or the loops compiled over it.  Each has *)
(* its own state, so that a behaviour is of one of them while the others   *)
(* rest in their first state.                                              *)
(***************************************************************************)
EXTENDS Slab, Elements, Storage, MCFlatLoop, TLC

VARIABLE part

slabVars == vars
memoryVars == <<part, slabVars, elementVars, storageVars, loopVars>>

\* A part that does not run rests in one of its initial states.
ElementsRest == mode = "object" /\ ElementsInit
LoopsRest ==
    /\ loop = CHOOSE l \in Loops : l.step = 1
    /\ flat = FALSE /\ cell = [a |-> 1, b |-> 2]
    /\ iv = 0 /\ bound = 0
    /\ header = [l \in ListIds |-> [len |-> 0, cap |-> 0, data |-> l]]
    /\ FlatLoopInit

MemoryInit ==
    /\ Init /\ StorageInit
    /\ \/ part \in {"slab", "storage"} /\ ElementsRest /\ LoopsRest
       \/ part = "elements" /\ LoopsRest /\ ElementsInit
       \/ part = "loops" /\ ElementsRest /\ FlatLoopInit

MemoryNext ==
    \/ part = "slab" /\ Next /\ UNCHANGED <<part, elementVars, storageVars, loopVars>>
    \/ part = "elements" /\ ElementsNext /\ UNCHANGED <<part, slabVars, storageVars, loopVars>>
    \/ part = "storage" /\ StorageNext /\ UNCHANGED <<part, slabVars, elementVars, loopVars>>
    \/ part = "loops" /\ FlatLoopNext /\ UNCHANGED <<part, slabVars, elementVars, storageVars>>

MemorySpec == MemoryInit /\ [][MemoryNext]_memoryVars

Symmetry == Permutations(Lists) \cup Permutations(Blocks)
=============================================================================
