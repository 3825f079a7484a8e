-------------------------------- MODULE Slab --------------------------------
(***************************************************************************)
(* The small-object allocator (runtime/lang_runtime.c, "slab"): an address *)
(* range cut into spans, each owned by one size class; a cache per thread  *)
(* with a free list and an uncut window per class; and per class a shared  *)
(* list of batches, a list of loose blocks and the uncut rest of the       *)
(* class's current span.                                                   *)
(*                                                                         *)
(* A linked list is a sequence, head first.  What a thread does to its own *)
(* cache, or with a class's spinlock held, is one step; slab_flush_tls     *)
(* takes the lock once for every block, and slab_init takes none.          *)
(***************************************************************************)
EXTENDS Naturals, Sequences

CONSTANTS
  Main, Workers,   \* the threads
  Classes,         \* the size classes in use
  Spans,           \* spans in the reservation
  SpanBlocks,      \* blocks cut from one span
  Window,          \* blocks a cache is given at a time (SLAB_WINDOW_BYTES)
  Batch,           \* SLAB_BATCH
  MainFirst        \* the main thread allocates before it spawns a task

ASSUME SlabAssumption ==
  /\ Main \notin Workers /\ Classes # {} /\ Spans \in Nat
  /\ Window \in Nat \ {0} /\ SpanBlocks \in Nat /\ Window <= SpanBlocks
  /\ Batch \in Nat \ {0}
  /\ MainFirst \in BOOLEAN

Threads == Workers \cup {Main}
High == 2 * Batch

(* One reservation per thread that runs slab_init to its end.                *)
Maps == Threads
Block == Maps \X (1 .. Spans) \X (1 .. SpanBlocks)
MapOf(b) == b[1]
SpanOf(b) == b[2]

VARIABLES
  state,      \* slab_state: "unused", "refused" or "ready"
  base,       \* the reservation that slab_base and slab_span describe
  spanNext,   \* slab_span_next: spans already given to a class
  spanClass,  \* slab_span_class
  bin,        \* the caches: bin[t][c], a free list, its count, a window
  shared,     \* slab_global[c]
  held,       \* the slab blocks the program holds
  misfreed,   \* slab blocks that were passed to libc's free
  pc, class   \* where a thread is, and the class it allocates or flushes

vars == <<state, base, spanNext, spanClass, bin, shared, held, misfreed, pc, class>>

EmptyBin == [list |-> <<>>, count |-> 0, win |-> <<>>]
EmptyShared == [batches |-> <<>>, loose |-> <<>>, looseN |-> 0, rest |-> <<>>]

Init ==
  /\ state = "unused"
  /\ base = "none"
  /\ spanNext = 0
  /\ spanClass = [s \in 1 .. Spans |-> CHOOSE c \in Classes : TRUE]
  /\ bin = [t \in Threads |-> [c \in Classes |-> EmptyBin]]
  /\ shared = [c \in Classes |-> EmptyShared]
  /\ held = {}
  /\ misfreed = {}
  /\ pc = [t \in Threads |-> IF t = Main THEN "idle" ELSE "unborn"]
  /\ class = [t \in Threads |-> CHOOSE c \in Classes : TRUE]

(* prismio_memory_threads_enable has run: some task has been spawned.        *)
ThreadsEnabled == \E w \in Workers : pc[w] # "unborn"

Goto(t, p) == pc' = [pc EXCEPT ![t] = p]
Hand(b) == held' = held \cup {b}

(* One cache of a thread, or one class's shared lists, written.              *)
SetBin(t, c, x) == bin' = [bin EXCEPT ![t][c] = x]
SetShared(c, g) == shared' = [shared EXCEPT ![c] = g]

(* A cache with free list l of n blocks, or with window l; the shared lists  *)
(* with l for the batches, the n loose blocks or the uncut rest.             *)
WithList(x, l, n) == [x EXCEPT !.list = l, !.count = n]
WithWindow(x, l) == [x EXCEPT !.win = l]
WithBatches(g, l) == [g EXCEPT !.batches = l]
WithRest(g, l) == [g EXCEPT !.rest = l]
WithLoose(g, l, n) == [g EXCEPT !.loose = l, !.looseN = n]

-----------------------------------------------------------------------------
(* rt_base_alloc: pop the cache's free list, or go to slab_refill.           *)
AllocHit(t, c) ==
  LET x == bin[t][c] IN
  /\ pc[t] = "idle" /\ x.list # <<>>
  /\ Hand(Head(x.list))
  /\ SetBin(t, c, WithList(x, Tail(x.list), x.count - 1))
  /\ UNCHANGED <<state, base, spanNext, spanClass, shared, misfreed, pc, class>>

(* Mutant: the reservation is made whenever the cache misses.                *)
AllocMiss_AlwaysInits(t, c) ==
  /\ pc[t] = "idle" /\ bin[t][c].list = <<>>
  /\ class' = [class EXCEPT ![t] = c]
  /\ Goto(t, "init")
  /\ UNCHANGED <<state, base, spanNext, spanClass, bin, shared, held, misfreed>>

(* slab_refill: `if (slab_state == 0) slab_init();`                          *)
AllocMiss(t, c) ==
  /\ pc[t] = "idle" /\ bin[t][c].list = <<>>
  /\ class' = [class EXCEPT ![t] = c]
  /\ Goto(t, IF state = "unused" THEN "init" ELSE "refill")
  /\ UNCHANGED <<state, base, spanNext, spanClass, bin, shared, held, misfreed>>

(* slab_init: the state is "refused" until the reservation holds.            *)
InitStarts(t) ==
  /\ pc[t] = "init"
  /\ state' = "refused"
  /\ Goto(t, "map")
  /\ UNCHANGED <<base, spanNext, spanClass, bin, shared, held, misfreed, class>>

(* PRISMIO_SLAB=0, or mmap failed.                                           *)
InitRefused(t) ==
  /\ pc[t] = "map"
  /\ Goto(t, "refill")
  /\ UNCHANGED <<state, base, spanNext, spanClass, bin, shared, held, misfreed, class>>

InitMaps(t) ==
  /\ pc[t] = "map"
  /\ base' = t
  /\ spanNext' = 0
  /\ state' = "ready"
  /\ Goto(t, "refill")
  /\ UNCHANGED <<spanClass, bin, shared, held, misfreed, class>>

(* `if (slab_state < 0) return malloc(sz);`  The block is libc's, as one of  *)
(* more than SLAB_MAX bytes is; what becomes of it changes nothing here.     *)
RefillRefused(t) ==
  /\ pc[t] = "refill" /\ state = "refused"
  /\ Goto(t, "idle")
  /\ UNCHANGED <<state, base, spanNext, spanClass, bin, shared, held, misfreed, class>>

RefillWindow(t) ==
  LET x == bin[t][class[t]] IN
  /\ pc[t] = "refill" /\ state = "ready"
  /\ x.win # <<>>
  /\ Hand(Head(x.win))
  /\ SetBin(t, class[t], WithWindow(x, Tail(x.win)))
  /\ Goto(t, "idle")
  /\ UNCHANGED <<state, base, spanNext, spanClass, shared, misfreed, class>>

NeedsShared(t) ==
  pc[t] = "refill" /\ state = "ready" /\ bin[t][class[t]].win = <<>>

RefillBatch(t) ==
  LET c == class[t] g == shared[c] IN
  /\ NeedsShared(t) /\ g.batches # <<>>
  /\ LET chain == Head(g.batches) IN
       /\ Hand(Head(chain))
       /\ SetBin(t, c, WithList(bin[t][c], Tail(chain), Batch - 1))
  /\ SetShared(c, WithBatches(g, Tail(g.batches)))
  /\ Goto(t, "idle")
  /\ UNCHANGED <<state, base, spanNext, spanClass, misfreed, class>>

RefillLoose(t) ==
  LET c == class[t] g == shared[c] IN
  /\ NeedsShared(t) /\ g.batches = <<>> /\ g.loose # <<>>
  /\ LET n == IF Len(g.loose) < Batch THEN Len(g.loose) ELSE Batch IN
       /\ Hand(Head(g.loose))
       /\ SetBin(t, c, WithList(bin[t][c], SubSeq(g.loose, 2, n), n - 1))
       /\ SetShared(c, WithLoose(g, SubSeq(g.loose, n + 1, Len(g.loose)), g.looseN - n))
  /\ Goto(t, "idle")
  /\ UNCHANGED <<state, base, spanNext, spanClass, misfreed, class>>

(* Mutant: the block that is handed out stays in the window.                 *)
GiveWindow_CurAtStart(t, c, rest) ==
  /\ Hand(rest[1])
  /\ SetBin(t, c, WithWindow(bin[t][c], SubSeq(rest, 1, Window)))
  /\ SetShared(c, WithRest(shared[c], SubSeq(rest, Window + 1, Len(rest))))
  /\ Goto(t, "idle")

(* The class's span has room for a window: give the cache one.               *)
GiveWindow(t, c, rest) ==
  /\ Hand(rest[1])
  /\ SetBin(t, c, WithWindow(bin[t][c], SubSeq(rest, 2, Window)))
  /\ SetShared(c, WithRest(shared[c], SubSeq(rest, Window + 1, Len(rest))))
  /\ Goto(t, "idle")

NothingShared(t) ==
  NeedsShared(t) /\ shared[class[t]].batches = <<>> /\ shared[class[t]].loose = <<>>

RefillBump(t) ==
  /\ NothingShared(t) /\ Len(shared[class[t]].rest) >= Window
  /\ GiveWindow(t, class[t], shared[class[t]].rest)
  /\ UNCHANGED <<state, base, spanNext, spanClass, misfreed, class>>

(* A new span, under slab_span_lock; the tail of the old one is abandoned.   *)
RefillSpan(t) ==
  /\ NothingShared(t) /\ Len(shared[class[t]].rest) < Window
  /\ spanNext < Spans
  /\ spanNext' = spanNext + 1
  /\ spanClass' = [spanClass EXCEPT ![spanNext + 1] = class[t]]
  /\ GiveWindow(t, class[t], [i \in 1 .. SpanBlocks |-> <<base, spanNext + 1, i>>])
  /\ UNCHANGED <<state, base, misfreed, class>>

(* The reservation is used up: libc from here on.                            *)
RefillExhausted(t) ==
  /\ NothingShared(t) /\ Len(shared[class[t]].rest) < Window
  /\ spanNext = Spans
  /\ Goto(t, "idle")
  /\ UNCHANGED <<state, base, spanNext, spanClass, bin, shared, held, misfreed, class>>

-----------------------------------------------------------------------------
(* rt_free.  A full cache gives a batch to the shared list (slab_spill) once *)
(* a thread exists.                                                          *)
Pushed(x, b) == WithList(x, <<b>> \o x.list, x.count + 1)

Spills(x) == x.count >= High /\ ThreadsEnabled

Spilled(x) == WithList(x, SubSeq(x.list, Batch + 1, Len(x.list)), x.count - Batch)

(* A block of the range goes to the freeing thread's cache of its class.     *)
PushFreed(t, b) ==
  LET c == spanClass[SpanOf(b)] g == shared[c]
      x == Pushed(bin[t][c], b) IN
  /\ IF Spills(x)
     THEN /\ SetBin(t, c, Spilled(x))
          /\ SetShared(c, WithBatches(g, <<SubSeq(x.list, 1, Batch)>> \o g.batches))
     ELSE SetBin(t, c, x) /\ UNCHANGED shared
  /\ UNCHANGED misfreed

(* Outside the range it is libc's.                                           *)
FreeToLibc(b) ==
  /\ misfreed' = misfreed \cup {b}
  /\ UNCHANGED <<bin, shared>>

Free(t, b) ==
  /\ pc[t] = "idle" /\ b \in held
  /\ held' = held \ {b}
  /\ IF MapOf(b) = base THEN PushFreed(t, b) ELSE FreeToLibc(b)
  /\ UNCHANGED <<state, base, spanNext, spanClass, pc, class>>

-----------------------------------------------------------------------------
(* A task's thread, which some running thread has spawned:                   *)
(* prismio_memory_thread_enter ... prismio_memory_thread_cleanup.            *)
CanSpawn == \E s \in Threads : pc[s] = "idle"

ThreadEnters(w) ==
  /\ pc[w] = "unborn" /\ CanSpawn
  /\ MainFirst => state # "unused"
  /\ Goto(w, "idle")
  /\ UNCHANGED <<state, base, spanNext, spanClass, bin, shared, held, misfreed, class>>

BeginFlush(w) ==
  /\ w \in Workers /\ pc[w] = "idle"
  /\ Goto(w, "flush")
  /\ UNCHANGED <<state, base, spanNext, spanClass, bin, shared, held, misfreed, class>>

(* slab_flush_tls, one block at a time: the window first, then the list.     *)
FlushOne(w, c) ==
  LET x == bin[w][c] g == shared[c]
      Loosen(b) == SetShared(c, WithLoose(g, <<b>> \o g.loose, g.looseN + 1)) IN
  /\ pc[w] = "flush"
  /\ \/ /\ x.win # <<>>
        /\ Loosen(Head(x.win))
        /\ SetBin(w, c, WithWindow(x, Tail(x.win)))
     \/ /\ x.win = <<>> /\ x.list # <<>>
        /\ Loosen(Head(x.list))
        /\ SetBin(w, c, WithList(x, Tail(x.list), x.count))
  /\ UNCHANGED <<state, base, spanNext, spanClass, held, misfreed, pc, class>>

(* Mutant: the uncut window is forgotten.                                    *)
EndFlush_ListOnly(w) ==
  /\ pc[w] = "flush"
  /\ \A c \in Classes : bin[w][c].list = <<>>
  /\ bin' = [bin EXCEPT ![w] = [c \in Classes |-> [bin[w][c] EXCEPT !.count = 0]]]
  /\ Goto(w, "exited")
  /\ UNCHANGED <<state, base, spanNext, spanClass, shared, held, misfreed, class>>

EndFlush(w) ==
  /\ pc[w] = "flush"
  /\ \A c \in Classes : bin[w][c].win \o bin[w][c].list = <<>>
  /\ bin' = [bin EXCEPT ![w] = [c \in Classes |-> [bin[w][c] EXCEPT !.count = 0]]]
  /\ Goto(w, "exited")
  /\ UNCHANGED <<state, base, spanNext, spanClass, shared, held, misfreed, class>>

(* The next task's thread starts with zeroed thread-local state.             *)
NextThread(w) ==
  /\ pc[w] = "exited" /\ CanSpawn
  /\ Goto(w, "idle")
  /\ UNCHANGED <<state, base, spanNext, spanClass, bin, shared, held, misfreed, class>>

Refill(t) ==
  \/ RefillRefused(t)
  \/ RefillWindow(t)
  \/ RefillBatch(t)
  \/ RefillLoose(t)
  \/ RefillBump(t)
  \/ RefillSpan(t)
  \/ RefillExhausted(t)

Next ==
  \/ \E t \in Threads :
       \/ \E c \in Classes : AllocHit(t, c) \/ AllocMiss(t, c)
       \/ InitStarts(t)
       \/ InitRefused(t)
       \/ InitMaps(t)
       \/ Refill(t)
       \/ \E b \in held : Free(t, b)
  \/ \E w \in Workers :
       \/ ThreadEnters(w)
       \/ BeginFlush(w)
       \/ \E c \in Classes : FlushOne(w, c)
       \/ EndFlush(w)
       \/ NextThread(w)

Spec == Init /\ [][Next]_vars

-----------------------------------------------------------------------------
(* The variables hold what the C declarations allow.                         *)
TypeOK ==
  /\ state \in {"unused", "refused", "ready"}
  /\ base \in Maps \cup {"none"}
  /\ spanNext \in 0 .. Spans
  /\ spanClass \in [1 .. Spans -> Classes]
  /\ bin \in [Threads -> [Classes -> [list : Seq(Block), count : Nat, win : Seq(Block)]]]
  /\ shared \in [Classes -> [batches : Seq(Seq(Block)), loose : Seq(Block), looseN : Nat,
                             rest : Seq(Block)]]
  /\ held \subseteq Block
  /\ misfreed \subseteq Block
  /\ pc \in [Threads -> {"unborn", "idle", "init", "map", "refill", "flush", "exited"}]
  /\ class \in [Threads -> Classes]

(* The lists that blocks can be on: a cache's free list and window, and a    *)
(* class's batches, loose blocks and uncut rest.                             *)
BlockLists ==
  [at : {"list", "win"}, thread : Threads, class : Classes, nth : {0}]
    \cup [at : {"loose", "rest"}, thread : {Main}, class : Classes, nth : {0}]
    \cup UNION {[at : {"batch"}, thread : {Main}, class : {c}, nth : DOMAIN shared[c].batches] :
                  c \in Classes}

ListOf(l) ==
  IF l.at \in {"list", "win"} THEN bin[l.thread][l.class][l.at]
  ELSE IF l.at = "batch" THEN shared[l.class].batches[l.nth]
  ELSE shared[l.class][l.at]

(* No block is handed out twice: no two places of the lists have the same    *)
(* block, and none of them one that the program holds.                       *)
OnePlace ==
  /\ \A l, m \in BlockLists : \A i \in DOMAIN ListOf(l), j \in DOMAIN ListOf(m) :
       ListOf(l)[i] = ListOf(m)[j] => l = m /\ i = j
  /\ \A l \in BlockLists : \A i \in DOMAIN ListOf(l) : ListOf(l)[i] \notin held

(* What a list of class c holds was cut from a span that the table gives to  *)
(* c, so rt_free finds a block's class again whichever thread frees it.      *)
ClassOfSpan ==
  \A l \in BlockLists : \A i \in DOMAIN ListOf(l) : spanClass[SpanOf(ListOf(l)[i])] = l.class

(* The counts agree with the lists: slab_spill and slab_refill walk as many  *)
(* links as there are, a batch is whole, and a cache stays below the mark    *)
(* once it is a worker's.                                                    *)
CountsAgree ==
  /\ \A t \in Threads, c \in Classes :
       pc[t] # "flush" => bin[t][c].count = Len(bin[t][c].list)
  /\ \A w \in Workers, c \in Classes : Len(bin[w][c].list) < High
  /\ \A c \in Classes :
       /\ shared[c].looseN = Len(shared[c].loose)
       /\ \A i \in 1 .. Len(shared[c].batches) : Len(shared[c].batches[i]) = Batch

(* Every list of the allocator is what the code that walks it takes it for,  *)
(* whichever threads allocate, free, spill and exit meanwhile.               *)
SlabIsSound == TypeOK /\ OnePlace /\ ClassOfSpan /\ CountsAgree

(* Block b can still be handed out, or freed: somebody has it, or it is on a *)
(* shared list or in the cache of a thread that runs.                        *)
Reachable(b) ==
  \/ b \in held
  \/ \E l \in BlockLists :
       /\ l.at \in {"list", "win"} => pc[l.thread] \notin {"unborn", "exited"}
       /\ \E i \in DOMAIN ListOf(l) : ListOf(l)[i] = b

(* No block is lost: through spills, refills, frees by other threads,        *)
(* flushes and exits, every block of every span is still to be had; only     *)
(* the end of a span, when it is no window's worth, is given up              *)
(* (slab_refill).                                                            *)
NothingStranded ==
  \A s \in 1 .. spanNext, i \in 1 .. SpanBlocks - Window + 1 : Reachable(<<base, s, i>>)

(* "A block from here must never reach libc `free` or `realloc`."            *)
NeverToLibc == misfreed = {}
=============================================================================
