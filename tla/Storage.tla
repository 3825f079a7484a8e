------------------------------ MODULE Storage ------------------------------
(***************************************************************************)
(* Where a Vec lives (runtime/lang_runtime.c): arenas, and the two blocks  *)
(* of a list, its header and its elements.                                 *)
(*                                                                         *)
(* `region r { ... }` pushes an arena, a list of chunks blocks are cut     *)
(* from, and pops it on every exit.  A producing call that codegen brackets*)
(* with a hint takes its blocks from the innermost arena; a list remembers *)
(* which (`arena`), because its elements move long after, whatever arena is*)
(* innermost by then.  A small heap list has its first elements in the same*)
(* allocation as its header (`fused`).                                     *)
(*                                                                         *)
(* One thread: main and every worker have an ArenaState of their own.      *)
(* Sizes are in units; a default chunk has ChunkUnits.                     *)
(***************************************************************************)
EXTENDS Naturals, Sequences, FiniteSets, SequencesExt

CONSTANTS
    Vecs,       \* the lists
    Chunks,     \* bound: the chunks the C library can provide
    ChunkUnits, \* ARENA_CHUNK_MIN
    PoolMax,    \* ARENA_POOL_MAX
    MaxDepth,   \* ARENA_MAX_DEPTH
    FirstCap,   \* the capacity the first growth gives
    FusedMax,   \* RT_LIST_FUSED_MAX
    MaxCap      \* bound: a list's capacity

ASSUME StorageAssumption ==
    /\ {ChunkUnits, PoolMax, MaxDepth, FirstCap, FusedMax, MaxCap} \subseteq Nat
    /\ FirstCap > 0

VARIABLES
    regions,    \* the arena stack: each region's chunks, newest first
    chunk,      \* chunk -> its capacity and how much of it is cut
    pool,       \* the default chunks kept for the next region, which are all alike
    vec,        \* list -> NoVec, or its fields
    heap,       \* the heap blocks alive: <<list, "header">>, <<list, "data">>
    stray       \* history: rt_free was given something that is not one of them

storageVars == <<regions, chunk, pool, vec, heap, stray>>

NoBlock == [at |-> "none", chunk |-> {}, from |-> 0, units |-> 0]
HeapBlock == [NoBlock EXCEPT !.at = "heap"]
FusedBlock == [NoBlock EXCEPT !.at = "fused"]
NoVec == [arena |-> 0, header |-> NoBlock, data |-> NoBlock, len |-> 0, cap |-> 0]

StorageInit ==
    /\ regions = <<>>
    /\ chunk = [c \in Chunks |-> [cap |-> 0, used |-> 0]]
    /\ pool = {}
    /\ vec = [l \in Vecs |-> NoVec]
    /\ heap = {}
    /\ stray = FALSE

----------------------------------------------------------------------------
\* What serving blocks changes, as one value, so that a call that allocates twice
\* threads it.
Arena == [regions |-> regions, chunk |-> chunk, pool |-> pool, block |-> NoBlock]
Becomes(a) == regions' = a.regions /\ chunk' = a.chunk /\ pool' = a.pool

\* The next block of region k, cut from its newest chunk.
Cut(a, k, n) ==
    LET c == Head(a.regions[k]) IN
    [a EXCEPT !.block = [at |-> "arena", chunk |-> {c}, from |-> a.chunk[c].used, units |-> n],
              !.chunk[c].used = @ + n]

\* arena_chunk_new: c from the pool, or from libc.
FromPool(a, k, c) ==
    [a EXCEPT !.pool = @ \ {c}, !.chunk[c].used = 0, !.regions[k] = <<c>> \o @]

FromLibc(a, k, n, c) ==
    [a EXCEPT !.chunk[c] = [cap |-> IF n > ChunkUnits THEN n ELSE ChunkUnits, used |-> 0],
              !.regions[k] = <<c>> \o @]

\* The chunks libc has still to give.
Unused(a) == {c \in Chunks \ a.pool : \A j \in DOMAIN a.regions : ~Contains(a.regions[j], c)}

Fits(a, k, n) ==
    /\ a.regions[k] # <<>>
    /\ LET c == Head(a.regions[k]) IN a.chunk[c].used + n <= a.chunk[c].cap

\* arena_alloc_slot: a default chunk from the pool when one will do, else one from
\* libc; when there is no chunk to be had the block is the heap's.
Serve(a, k, n) ==
    IF Fits(a, k, n) THEN Cut(a, k, n)
    ELSE IF n <= ChunkUnits /\ a.pool # {} THEN Cut(FromPool(a, k, CHOOSE c \in a.pool : TRUE), k, n)
    ELSE IF Unused(a) # {} THEN Cut(FromLibc(a, k, n, CHOOSE c \in Unused(a) : TRUE), k, n)
    ELSE [a EXCEPT !.block = HeapBlock]

\* Mutant: a growth takes its block from the innermost region.
ServeAt_Innermost(a, slot, n) ==
    IF slot = 0 \/ a.regions = <<>> THEN [a EXCEPT !.block = HeapBlock]
    ELSE Serve(a, Len(a.regions), n)

\* arena_alloc_at: the region the list came from, or the heap once it has exited.
ServeAt(a, slot, n) ==
    IF slot = 0 \/ slot > Len(a.regions) THEN [a EXCEPT !.block = HeapBlock] ELSE Serve(a, slot, n)

----------------------------------------------------------------------------
(***************************************************************************)
(* Regions                                                                 *)
(***************************************************************************)
EnterRegion ==
    /\ Len(regions) < MaxDepth
    /\ regions' = Append(regions, <<>>)
    /\ UNCHANGED <<chunk, pool, vec, heap, stray>>

\* arena_pop keeps default chunks in the pool while it has room, newest first.
Pooled(cs) ==
    LET default(i) == chunk[cs[i]].cap = ChunkUnits
        before(i) == Cardinality({j \in 1 .. i - 1 : default(j)})
    IN  pool \cup {cs[i] : i \in {i \in DOMAIN cs : default(i) /\ Cardinality(pool) + before(i) < PoolMax}}

\* The chunks that are given back to the C library are no one's.
FreeChunks == [c \in Chunks |->
    IF c \in pool' \/ \E k \in DOMAIN regions' : Contains(regions'[k], c)
    THEN chunk[c] ELSE [cap |-> 0, used |-> 0]]

\* The lists of the regions from k on are dead when those exit: obligation 3 of
\* SPEC 5.2.1.1.  What such a list had from the heap, when there was no chunk to be
\* had, is never freed: "the direction that leaks".
ListsGo(k) ==
    LET goes(l) == vec[l].arena >= k
    IN  /\ vec' = [l \in Vecs |-> IF goes(l) THEN NoVec ELSE vec[l]]
        /\ heap' = {lw \in heap : ~goes(lw[1])}

ExitRegion ==
    /\ regions # <<>>
    /\ regions' = Front(regions)
    /\ pool' = Pooled(Last(regions))
    /\ chunk' = FreeChunks
    /\ ListsGo(Len(regions))
    /\ UNCHANGED stray

\* arena_alloc for a struct literal the analysis placed in the innermost region.
PlaceObject(n) ==
    /\ regions # <<>>
    /\ Becomes(Serve(Arena, Len(regions), n))
    /\ UNCHANGED <<vec, heap, stray>>

\* prismio_memory_thread_cleanup: the regions left open, then the pool.
ThreadCleanup ==
    /\ regions # <<>> \/ pool # {}
    /\ regions' = <<>>
    /\ pool' = {}
    /\ chunk' = FreeChunks
    /\ ListsGo(1)
    /\ UNCHANGED stray

----------------------------------------------------------------------------
(***************************************************************************)
(* Lists                                                                   *)
(***************************************************************************)
IsVec(l) == vec[l].header # NoBlock

OnHeap(l, what, b) == IF b.at = "heap" THEN {<<l, what>>} ELSE {}

\* list_new_cap.  `placed` is codegen's bracket: only inside a region.
NewVec(l, cap, placed) ==
    /\ ~IsVec(l)
    /\ placed => regions # <<>>
    /\ LET slot == IF placed THEN Len(regions) ELSE 0
           fused == cap > 0 /\ cap <= FusedMax /\ slot = 0
           h == IF placed THEN Serve(Arena, slot, 1) ELSE [Arena EXCEPT !.block = HeapBlock]
           d == IF fused THEN [h EXCEPT !.block = FusedBlock]
                ELSE IF cap = 0 THEN [h EXCEPT !.block = NoBlock]
                ELSE IF placed THEN Serve(h, slot, cap) ELSE [h EXCEPT !.block = HeapBlock]
       IN /\ vec' = [vec EXCEPT ![l] = [arena |-> slot, header |-> h.block, data |-> d.block,
                                        len |-> 0, cap |-> cap]]
          /\ heap' = heap \cup OnHeap(l, "header", h.block) \cup OnHeap(l, "data", d.block)
          /\ Becomes(d)
    /\ UNCHANGED stray

\* Mutant: the elements inside a fused header are freed.
FreesData_Fused(l) == vec[l].data # NoBlock /\ vec[l].arena = 0

\* What list_free_data gives to rt_free, and what rt_free makes of it.
FreesData(l) == vec[l].data # NoBlock /\ vec[l].arena = 0 /\ vec[l].data.at # "fused"
Freed(l) == IF FreesData(l) THEN {<<l, "data">>} ELSE {}
Stray(frees) == stray' = (stray \/ ~(frees \subseteq heap))

\* The elements move to a block of n elements: list_push_grow, list_inline_grow
\* and list_reserve.  A heap block of the list's own may be resized in place.
Move(l, n) ==
    LET a == IF vec[l].arena > 0 THEN ServeAt(Arena, vec[l].arena, n)
             ELSE [Arena EXCEPT !.block = HeapBlock]
    IN  /\ Becomes(a)
        /\ Stray(Freed(l))
        /\ heap' = (heap \ Freed(l)) \cup OnHeap(l, "data", a.block)
        /\ vec' = [vec EXCEPT ![l].data = a.block, ![l].cap = n]

Grown(l) == IF vec[l].cap = 0 THEN FirstCap ELSE vec[l].cap * 2

Push(l) ==
    /\ IsVec(l)
    /\ vec[l].len < vec[l].cap
    /\ vec' = [vec EXCEPT ![l].len = @ + 1]
    /\ UNCHANGED <<regions, chunk, pool, heap, stray>>

Grow(l) ==
    /\ IsVec(l)
    /\ vec[l].len = vec[l].cap
    /\ Grown(l) <= MaxCap
    /\ Move(l, Grown(l))

Reserve(l, n) ==
    /\ IsVec(l)
    /\ n > vec[l].cap
    /\ Move(l, n)

Shorten(l) ==
    /\ IsVec(l)
    /\ vec[l].len > 0
    /\ vec' = [vec EXCEPT ![l].len = @ - 1]
    /\ UNCHANGED <<regions, chunk, pool, heap, stray>>

\* list_release: nothing for an arena's list, else the elements and the header.
ReleaseVec(l) ==
    /\ IsVec(l)
    /\ vec[l].arena = 0
    /\ LET frees == Freed(l) \cup {<<l, "header">>}
       IN heap' = heap \ frees /\ Stray(frees)
    /\ vec' = [vec EXCEPT ![l] = NoVec]
    /\ UNCHANGED <<regions, chunk, pool>>

StorageNext ==
    \/ EnterRegion \/ ExitRegion \/ ThreadCleanup
    \/ \E n \in {1, ChunkUnits + 1} : PlaceObject(n)
    \/ \E l \in Vecs :
          \/ \E cap \in {0, 1, FusedMax + 1}, placed \in BOOLEAN : NewVec(l, cap, placed)
          \/ Push(l) \/ Grow(l) \/ Shorten(l) \/ ReleaseVec(l)
          \/ \E n \in 1..MaxCap : Reserve(l, n)

StorageSpec == StorageInit /\ [][StorageNext]_storageVars

----------------------------------------------------------------------------
(***************************************************************************)
(* Properties                                                              *)
(***************************************************************************)
BlockOf(lw) == vec[lw[1]][lw[2]]
ArenaBlocks == {lw \in Vecs \X {"header", "data"} : BlockOf(lw).at = "arena"}

\* A list and its elements stay in the region the list came from, in memory that
\* no other block has, for as long as that region is entered: a growth inside an
\* inner region, a pooled chunk or a popped arena never takes them away
\* (list_push_grow, arena_alloc_at, arena_pop).
ListsStayHome ==
    /\ \A lw \in ArenaBlocks :
          LET k == vec[lw[1]].arena
              c == CHOOSE c \in BlockOf(lw).chunk : TRUE
          IN  /\ k \in DOMAIN regions
              /\ Contains(regions[k], c)
              /\ BlockOf(lw).from + BlockOf(lw).units <= chunk[c].used
              /\ chunk[c].used <= chunk[c].cap
    /\ \A x, y \in ArenaBlocks :
          (x # y /\ BlockOf(x).chunk = BlockOf(y).chunk) =>
              \/ BlockOf(x).from + BlockOf(x).units <= BlockOf(y).from
              \/ BlockOf(y).from + BlockOf(y).units <= BlockOf(x).from

\* What is freed is a heap block, once: not the inside of a chunk, nor of a fused
\* header; and a heap list that is gone has freed both of its blocks
\* (list_free_data, list_release).
FreesAreHeapBlocks ==
    /\ ~stray
    /\ \A l \in Vecs : vec[l].arena = 0 =>
          {lw \in heap : lw[1] = l}
              = OnHeap(l, "header", vec[l].header) \cup OnHeap(l, "data", vec[l].data)
=============================================================================
