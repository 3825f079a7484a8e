-------------------------- MODULE AllocationProofs --------------------------
(***************************************************************************)
(* The slab allocator for every number of threads, classes and spans and   *)
(* every size of span, window and batch.  A step of the allocator moves    *)
(* blocks between lists; each kind of move is a relation on Holds (block b *)
(* is at index i of a list, or is held), shown once to keep every block in *)
(* one place, and each action is shown to be one of the moves.             *)
(*                                                                         *)
(* And what libc's free is given for the blocks of a Vec, for every number *)
(* of lists, chunks and regions and every size.                            *)
(***************************************************************************)
EXTENDS Slab, Storage, SequenceTheorems, TLAPS

Bins == [list : Seq(Block), count : Nat, win : Seq(Block)]
Shareds == [batches : Seq(Seq(Block)), loose : Seq(Block), looseN : Nat, rest : Seq(Block)]

(* Block b is at index i of a list, or is held.                              *)
Holds(at, t, c, k, i, b) ==
  \/ /\ at = "list" /\ t \in Threads /\ c \in Classes /\ k = 0
     /\ i \in 1 .. Len(bin[t][c].list) /\ b = bin[t][c].list[i]
  \/ /\ at = "win" /\ t \in Threads /\ c \in Classes /\ k = 0
     /\ i \in 1 .. Len(bin[t][c].win) /\ b = bin[t][c].win[i]
  \/ /\ at = "batch" /\ t = Main /\ c \in Classes /\ k \in 1 .. Len(shared[c].batches)
     /\ i \in 1 .. Len(shared[c].batches[k]) /\ b = shared[c].batches[k][i]
  \/ /\ at = "loose" /\ t = Main /\ c \in Classes /\ k = 0
     /\ i \in 1 .. Len(shared[c].loose) /\ b = shared[c].loose[i]
  \/ /\ at = "rest" /\ t = Main /\ c \in Classes /\ k = 0
     /\ i \in 1 .. Len(shared[c].rest) /\ b = shared[c].rest[i]
  \/ at = "held" /\ t = Main /\ c = Main /\ k = 0 /\ i = 0 /\ b \in held

(* A block is at one place only.                                             *)
Unique ==
  \A x, y, t, u, c, d, k, m, i, j, b :
    Holds(x, t, c, k, i, b) /\ Holds(y, u, d, m, j, b) =>
      x = y /\ t = u /\ c = d /\ k = m /\ i = j

(* It is of the reservation, cut from a span that was given to its class.    *)
Proper ==
  \A x, t, c, k, i, b : Holds(x, t, c, k, i, b) =>
    /\ b \in Block /\ MapOf(b) = base /\ SpanOf(b) <= spanNext
    /\ x # "held" => spanClass[SpanOf(b)] = c

(* slab_init runs once, on main, before anybody else exists; until it is     *)
(* done there is no block.                                                   *)
InitOnce ==
  /\ \A w \in Workers : pc[w] \notin {"init", "map"}
  /\ pc[Main] \notin {"unborn", "flush", "exited"}
  /\ state = "unused" => \A w \in Workers : pc[w] = "unborn"
  /\ pc[Main] = "init" => state = "unused"
  /\ pc[Main] = "map" => state = "refused" /\ \A w \in Workers : pc[w] = "unborn"
  /\ state = "ready" => base = Main
  /\ state # "ready" => \A x, t, c, k, i, b : ~Holds(x, t, c, k, i, b)

(* A thread that has exited has left no block behind in its cache.           *)
GoneCachesEmpty ==
  \A w \in Workers, c \in Classes :
    pc[w] \in {"unborn", "exited"} => bin[w][c] = EmptyBin

SlabInv ==
  /\ MainFirst /\ TypeOK /\ InitOnce /\ Proper /\ Unique
  /\ CountsAgree /\ GoneCachesEmpty /\ NeverToLibc

(* What a sequence of blocks, and a sequence of batches, has on it; and what *)
(* a cache and the shared lists of its class have.                           *)
On(s) == {s[i] : i \in 1 .. Len(s)}
OnAll(s) == UNION {On(s[k]) : k \in 1 .. Len(s)}
Site(x, g) == On(x.list) \cup On(x.win) \cup OnAll(g.batches) \cup On(g.loose) \cup On(g.rest)

Somewhere(b) ==
  b \in held \/ \E t \in Threads, c \in Classes : b \in Site(bin[t][c], shared[c])

(* The uncut rest of a class is the end of a span, so that what RefillSpan   *)
(* gives up is fewer blocks than a window; all others are somewhere.         *)
RestIsTail ==
  \A c \in Classes : \A i \in 1 .. Len(shared[c].rest) :
    shared[c].rest[i][3] = SpanBlocks - Len(shared[c].rest) + i

(* A cache has no free block while its thread looks for one: what            *)
(* slab_refill writes to it takes the place of nothing.                      *)
MissedEmpty ==
  \A t \in Threads : pc[t] \in {"init", "map", "refill"} => bin[t][class[t]].list = <<>>

NoneLost ==
  /\ RestIsTail /\ MissedEmpty
  /\ \A s \in 1 .. spanNext, i \in 1 .. SpanBlocks - Window + 1 : Somewhere(<<base, s, i>>)

-----------------------------------------------------------------------------
(* The caches and the shared lists, one entry changed.                       *)
BinIs(t, c, x) ==
  /\ bin' \in [Threads -> [Classes -> Bins]]
  /\ bin'[t][c] = x
  /\ \A u \in Threads, d \in Classes : ~(u = t /\ d = c) => bin'[u][d] = bin[u][d]

SharedIs(c, x) ==
  /\ shared' \in [Classes -> Shareds]
  /\ shared'[c] = x
  /\ \A d \in Classes : d # c => shared'[d] = shared[d]

LEMMA BinSet ==
  ASSUME TypeOK, NEW t \in Threads, NEW c \in Classes, NEW x \in Bins, SetBin(t, c, x)
  PROVE  BinIs(t, c, x)
<1>1. bin \in [Threads -> [Classes -> Bins]]
  BY DEF TypeOK, Bins
<1>2. bin' = [bin EXCEPT ![t] = [bin[t] EXCEPT ![c] = x]]
  BY DEF SetBin
<1> HIDE DEF TypeOK
<1> QED BY <1>1, <1>2 DEF BinIs

LEMMA SharedSet ==
  ASSUME TypeOK, NEW c \in Classes, NEW g \in Shareds, SetShared(c, g)
  PROVE  SharedIs(c, g)
<1>1. shared \in [Classes -> Shareds]
  BY DEF TypeOK, Shareds
<1> HIDE DEF TypeOK
<1> QED BY <1>1 DEF SharedIs, SetShared

(* Records: the fields that an update changes and those that it keeps.       *)
LEMMA WithListIs ==
  ASSUME NEW x \in Bins, NEW l \in Seq(Block), NEW n, n \in Nat, NEW y, y = WithList(x, l, n)
  PROVE  y \in Bins /\ y.list = l /\ y.count = n /\ y.win = x.win
BY DEF WithList, Bins

LEMMA WithWindowIs ==
  ASSUME NEW x \in Bins, NEW l \in Seq(Block), NEW y, y = WithWindow(x, l)
  PROVE  y \in Bins /\ y.list = x.list /\ y.count = x.count /\ y.win = l
BY DEF WithWindow, Bins

LEMMA WithBatchesIs ==
  ASSUME NEW g \in Shareds, NEW l \in Seq(Seq(Block)), NEW z, z = WithBatches(g, l)
  PROVE  /\ z \in Shareds /\ z.batches = l /\ z.loose = g.loose
         /\ z.looseN = g.looseN /\ z.rest = g.rest
BY DEF WithBatches, Shareds

LEMMA WithRestIs ==
  ASSUME NEW g \in Shareds, NEW l \in Seq(Block), NEW z, z = WithRest(g, l)
  PROVE  /\ z \in Shareds /\ z.batches = g.batches /\ z.loose = g.loose
         /\ z.looseN = g.looseN /\ z.rest = l
BY DEF WithRest, Shareds

LEMMA WithLooseIs ==
  ASSUME NEW g \in Shareds, NEW l \in Seq(Block), NEW n, n \in Nat, NEW z, z = WithLoose(g, l, n)
  PROVE  /\ z \in Shareds /\ z.batches = g.batches /\ z.loose = l
         /\ z.looseN = n /\ z.rest = g.rest
BY DEF WithLoose, Shareds

-----------------------------------------------------------------------------
(* Sequences: what popping, pushing and cutting do to the indices.           *)
LEMMA TailIs ==
  ASSUME NEW S, NEW q \in Seq(S), q # <<>>
  PROVE  /\ Tail(q) \in Seq(S) /\ Len(Tail(q)) = Len(q) - 1 /\ Len(q) \in Nat \ {0}
         /\ \A i \in 1 .. Len(Tail(q)) : Tail(q)[i] = q[i + 1]
         /\ Head(q) = q[1] /\ q[1] \in S
OBVIOUS

LEMMA PushIs ==
  ASSUME NEW S, NEW q \in Seq(S), NEW b \in S
  PROVE  /\ <<b>> \o q \in Seq(S) /\ Len(<<b>> \o q) = Len(q) + 1 /\ Len(q) \in Nat
         /\ (<<b>> \o q)[1] = b
         /\ \A i \in 2 .. Len(q) + 1 : (<<b>> \o q)[i] = q[i - 1]
OBVIOUS

LEMMA CutIs ==
  ASSUME NEW S, NEW q \in Seq(S), NEW m \in Nat \ {0}, NEW n \in Nat, n <= Len(q), m <= n + 1
  PROVE  /\ SubSeq(q, m, n) \in Seq(S) /\ Len(SubSeq(q, m, n)) = n - m + 1
         /\ \A i \in 1 .. Len(SubSeq(q, m, n)) : SubSeq(q, m, n)[i] = q[i + m - 1]
BY SubSeqProperties

(* And to what is on them.                                                   *)
LEMMA TailOn ==
  ASSUME NEW q, NEW r, Len(q) \in Nat \ {0}, Len(r) = Len(q) - 1,
         \A i \in 1 .. Len(r) : r[i] = q[i + 1]
  PROVE  On(q) \subseteq {q[1]} \cup On(r)
<1> SUFFICES ASSUME NEW j \in 1 .. Len(q), j # 1 PROVE q[j] \in On(r)
  BY DEF On
<1>1. j - 1 \in 1 .. Len(r) /\ r[j - 1] = q[j]
  OBVIOUS
<1> QED BY <1>1 DEF On

LEMMA CutOn ==
  ASSUME NEW q, NEW u, NEW v, NEW n \in Nat \ {0}, Len(q) \in Nat, n <= Len(q),
         Len(u) = n - 1, \A i \in 1 .. Len(u) : u[i] = q[i + 1],
         Len(v) = Len(q) - n, \A i \in 1 .. Len(v) : v[i] = q[i + n]
  PROVE  On(q) \subseteq {q[1]} \cup On(u) \cup On(v)
<1> SUFFICES ASSUME NEW j \in 1 .. Len(q), j # 1 PROVE q[j] \in On(u) \cup On(v)
  BY DEF On
<1>1. CASE j <= n
  <2>1. j - 1 \in 1 .. Len(u) /\ u[j - 1] = q[j]
    BY <1>1
  <2> QED BY <2>1 DEF On
<1>2. CASE n < j
  <2>1. j - n \in 1 .. Len(v) /\ v[j - n] = q[j]
    BY <1>2
  <2> QED BY <2>1 DEF On
<1> QED BY <1>1, <1>2

LEMMA PushOn ==
  ASSUME NEW q, NEW l, Len(q) \in Nat, Len(l) = Len(q) + 1,
         \A i \in 2 .. Len(q) + 1 : l[i] = q[i - 1]
  PROVE  {l[1]} \cup On(q) \subseteq On(l)
<1>1. 1 \in 1 .. Len(l)
  OBVIOUS
<1>2. ASSUME NEW j \in 1 .. Len(q) PROVE q[j] \in On(l)
  <2>1. j + 1 \in 1 .. Len(l) /\ l[j + 1] = q[j]
    OBVIOUS
  <2> QED BY <2>1 DEF On
<1> QED BY <1>1, <1>2 DEF On

LEMMA TailOnAll ==
  ASSUME NEW q, NEW r, Len(q) \in Nat \ {0}, Len(r) = Len(q) - 1,
         \A i \in 1 .. Len(r) : r[i] = q[i + 1]
  PROVE  OnAll(q) \subseteq On(q[1]) \cup OnAll(r)
<1> SUFFICES ASSUME NEW j \in 1 .. Len(q), j # 1 PROVE On(q[j]) \subseteq OnAll(r)
  BY DEF OnAll
<1>1. j - 1 \in 1 .. Len(r) /\ r[j - 1] = q[j]
  OBVIOUS
<1> QED BY <1>1 DEF OnAll

LEMMA PushOnAll ==
  ASSUME NEW q, NEW l, Len(q) \in Nat, Len(l) = Len(q) + 1,
         \A i \in 2 .. Len(q) + 1 : l[i] = q[i - 1]
  PROVE  On(l[1]) \cup OnAll(q) \subseteq OnAll(l)
<1>1. 1 \in 1 .. Len(l)
  OBVIOUS
<1>2. ASSUME NEW j \in 1 .. Len(q) PROVE On(q[j]) \subseteq OnAll(l)
  <2>1. j + 1 \in 1 .. Len(l) /\ l[j + 1] = q[j]
    OBVIOUS
  <2> QED BY <2>1 DEF OnAll
<1> QED BY <1>1, <1>2 DEF OnAll

(* A step that changes one cache and the shared lists of its class keeps     *)
(* every block somewhere that it keeps in the two or hands out.              *)
LEMMA SiteMoves ==
  ASSUME NEW t0 \in Threads, NEW c0 \in Classes, NEW y, NEW z, NEW lost,
         BinIs(t0, c0, y), SharedIs(c0, z),
         Site(bin[t0][c0], shared[c0]) \cup held \subseteq Site(y, z) \cup held' \cup lost
  PROVE  \A b : Somewhere(b) => Somewhere(b)' \/ b \in lost
<1> SUFFICES ASSUME NEW b, Somewhere(b) PROVE Somewhere(b)' \/ b \in lost
  OBVIOUS
<1>1. ASSUME b \in Site(y, z) \cup held' PROVE Somewhere(b)'
  BY <1>1 DEF Somewhere, BinIs, SharedIs
<1>2. CASE b \in held
  BY <1>1, <1>2
<1>3. ASSUME NEW t \in Threads, NEW c \in Classes, b \in Site(bin[t][c], shared[c])
      PROVE  Somewhere(b)' \/ b \in lost
  <2>1. CASE c # c0
    <3>1. bin'[t][c] = bin[t][c] /\ shared'[c] = shared[c]
      BY <2>1 DEF BinIs, SharedIs
    <3> QED BY <1>3, <3>1 DEF Somewhere
  <2>2. CASE c = c0 /\ t = t0
    BY <1>1, <1>3, <2>2
  <2>3. CASE c = c0 /\ t # t0
    <3>1. bin'[t][c] = bin[t][c]
      BY <2>3 DEF BinIs
    <3>2. CASE b \in On(bin[t][c].list) \cup On(bin[t][c].win)
      <4>1. b \in Site(bin'[t][c], shared'[c])
        BY <3>1, <3>2 DEF Site
      <4> QED BY <4>1 DEF Somewhere
    <3>3. CASE b \notin On(bin[t][c].list) \cup On(bin[t][c].win)
      <4>1. b \in Site(bin[t0][c0], shared[c0])
        BY <1>3, <2>3, <3>3 DEF Site
      <4> QED BY <1>1, <4>1
    <3> QED BY <3>2, <3>3
  <2> QED BY <2>1, <2>2, <2>3
<1> QED BY <1>2, <1>3 DEF Somewhere

LEMMA MissedNone ==
  ASSUME NoneLost, NEW t \in Threads, pc[t] = "refill"
  PROVE  On(bin[t][class[t]].list) = {}
<1>1. bin[t][class[t]].list = <<>>
  BY DEF NoneLost, MissedEmpty
<1> QED BY <1>1 DEF On

(* Its thread is not, or no longer, looking for a block.                     *)
Settles(t0) ==
  /\ pc \in [Threads -> {"unborn", "idle", "init", "map", "refill", "flush", "exited"}]
  /\ \/ pc' = pc /\ pc[t0] \in {"idle", "flush"}
     \/ pc' = [pc EXCEPT ![t0] = "idle"]

LEMMA MissesOn ==
  ASSUME MissedEmpty, NEW t0 \in Threads, NEW c0, NEW y, BinIs(t0, c0, y), Settles(t0),
         class \in [Threads -> Classes], class' = class
  PROVE  MissedEmpty'
<1> SUFFICES ASSUME NEW t \in Threads, pc'[t] \in {"init", "map", "refill"}
             PROVE  bin'[t][class[t]].list = <<>>
  BY DEF MissedEmpty
<1>1. t # t0 /\ pc'[t] = pc[t]
  BY DEF Settles
<1>2. class[t] \in Classes
  OBVIOUS
<1> QED BY <1>1, <1>2 DEF MissedEmpty, BinIs

LEMMA SiteStays ==
  ASSUME NEW t0 \in Threads, NEW c0 \in Classes, NEW y, NEW z,
         BinIs(t0, c0, y), SharedIs(c0, z),
         Site(bin[t0][c0], shared[c0]) \cup held \subseteq Site(y, z) \cup held'
  PROVE  \A b : Somewhere(b) => Somewhere(b)'
<1>1. PICK lost : lost = {}
  OBVIOUS
<1>2. Site(bin[t0][c0], shared[c0]) \cup held \subseteq Site(y, z) \cup held' \cup lost
  OBVIOUS
<1>3. \A b : Somewhere(b) => Somewhere(b)' \/ b \in lost
  <2>1. BinIs(t0, c0, y) /\ SharedIs(c0, z)
    OBVIOUS
  <2> QED BY ONLY t0 \in Threads, c0 \in Classes, <1>2, <2>1, SiteMoves
<1> QED BY <1>1, <1>3

LEMMA SiteKeeps ==
  ASSUME NEW t0 \in Threads, NEW c0 \in Classes, NEW y, NEW z,
         BinIs(t0, c0, y), SharedIs(c0, z), z.rest = shared[c0].rest,
         Site(bin[t0][c0], shared[c0]) \cup held \subseteq Site(y, z) \cup held',
         UNCHANGED <<base, spanNext, class>>, class \in [Threads -> Classes], Settles(t0)
  PROVE  NoneLost => NoneLost'
<1>1. \A b : Somewhere(b) => Somewhere(b)'
  BY SiteStays
<1>2. \A c \in Classes : shared'[c].rest = shared[c].rest
  BY DEF SharedIs
<1>3. MissedEmpty => MissedEmpty'
  BY MissesOn
<1> QED BY <1>1, <1>2, <1>3 DEF NoneLost, RestIsTail

-----------------------------------------------------------------------------
(* Blocks move: what each kind of move leaves of Unique and Proper.          *)
(* The first block of list `at` of t0's cache is handed out.                 *)
Popped(at, t0, c0) ==
  \A x, t, c, k, i, b : Holds(x, t, c, k, i, b)' =>
    IF x = at /\ t = t0 /\ c = c0 THEN i \in Nat \ {0} /\ Holds(x, t, c, k, i + 1, b)
    ELSE \/ Holds(x, t, c, k, i, b)
         \/ x = "held" /\ t = Main /\ c = Main /\ k = 0 /\ i = 0 /\ Holds(at, t0, c0, 0, 1, b)

LEMMA PoppedKeeps ==
  ASSUME Proper, Unique, NEW at \in {"list", "win"}, NEW t0, NEW c0, Popped(at, t0, c0),
         UNCHANGED <<base, spanNext, spanClass>>
  PROVE  Proper' /\ Unique'
<1>1. Proper'
  BY DEF Proper, Popped, Block, MapOf, SpanOf
<1>2. Unique'
  <2> SUFFICES ASSUME NEW x, NEW y, NEW t, NEW u, NEW c, NEW d, NEW k, NEW m, NEW i, NEW j, NEW b,
                      Holds(x, t, c, k, i, b)', Holds(y, u, d, m, j, b)'
               PROVE  x = y /\ t = u /\ c = d /\ k = m /\ i = j
    BY DEF Unique
  <2> QED BY DEF Unique, Popped
<1> QED BY <1>1, <1>2

(* The first batch of class c0 becomes t0's free list.                       *)
BatchTaken(t0, c0) ==
  \A x, t, c, k, i, b : Holds(x, t, c, k, i, b)' =>
    IF x = "list" /\ t = t0 /\ c = c0 THEN k = 0 /\ i \in Nat \ {0} /\ Holds("batch", Main, c0, 1, i + 1, b)
    ELSE IF x = "batch" /\ c = c0 THEN k \in Nat \ {0} /\ Holds(x, t, c, k + 1, i, b)
    ELSE \/ Holds(x, t, c, k, i, b)
         \/ x = "held" /\ t = Main /\ c = Main /\ k = 0 /\ i = 0 /\ Holds("batch", Main, c0, 1, 1, b)

LEMMA BatchTakenKeeps ==
  ASSUME Proper, Unique, NEW t0, NEW c0, BatchTaken(t0, c0), UNCHANGED <<base, spanNext, spanClass>>
  PROVE  Proper' /\ Unique'
<1>1. Proper'
  BY DEF Proper, BatchTaken, Block, MapOf, SpanOf
<1>2. Unique'
  <2> SUFFICES ASSUME NEW x, NEW y, NEW t, NEW u, NEW c, NEW d, NEW k, NEW m, NEW i, NEW j, NEW b,
                      Holds(x, t, c, k, i, b)', Holds(y, u, d, m, j, b)'
               PROVE  x = y /\ t = u /\ c = d /\ k = m /\ i = j
    BY DEF Unique
  <2> QED BY DEF Unique, BatchTaken
<1> QED BY <1>1, <1>2

(* The first n blocks of a class's list `from` go to t0: one is handed out,  *)
(* the others become the list `to` of its cache.                             *)
Given(from, to, t0, c0, n) ==
  \A x, t, c, k, i, b : Holds(x, t, c, k, i, b)' =>
    IF x = to /\ t = t0 /\ c = c0 THEN k = 0 /\ i \in 1 .. n - 1 /\ Holds(from, Main, c0, 0, i + 1, b)
    ELSE IF x = from /\ c = c0 THEN i \in Nat \ {0} /\ Holds(x, t, c, k, i + n, b)
    ELSE \/ Holds(x, t, c, k, i, b)
         \/ x = "held" /\ t = Main /\ c = Main /\ k = 0 /\ i = 0 /\ Holds(from, Main, c0, 0, 1, b)

LEMMA GivenKeeps ==
  ASSUME Proper, Unique, NEW from \in {"loose", "rest"}, NEW to \in {"list", "win"},
         NEW t0, NEW c0, NEW n \in Nat \ {0}, Given(from, to, t0, c0, n),
         UNCHANGED <<base, spanNext, spanClass>>
  PROVE  Proper' /\ Unique'
<1>1. Proper'
  BY DEF Proper, Given, Block, MapOf, SpanOf
<1>2. Unique'
  <2> SUFFICES ASSUME NEW x, NEW y, NEW t, NEW u, NEW c, NEW d, NEW k, NEW m, NEW i, NEW j, NEW b,
                      Holds(x, t, c, k, i, b)', Holds(y, u, d, m, j, b)'
               PROVE  x = y /\ t = u /\ c = d /\ k = m /\ i = j
    BY DEF Unique
  <2> QED BY DEF Unique, Given
<1> QED BY <1>1, <1>2

(* The held block b0 becomes the first of t0's free list.                    *)
Returned(t0, c0, b0) ==
  \A x, t, c, k, i, b : Holds(x, t, c, k, i, b)' =>
    IF x = "list" /\ t = t0 /\ c = c0
    THEN k = 0 /\ \/ i = 1 /\ b = b0
                  \/ i \in Nat \ {0, 1} /\ Holds(x, t, c, k, i - 1, b)
    ELSE Holds(x, t, c, k, i, b) /\ (x = "held" => b # b0)

LEMMA ReturnedKeeps ==
  ASSUME Proper, Unique, NEW t0, NEW c0, NEW b0, Holds("held", Main, Main, 0, 0, b0),
         Returned(t0, c0, b0), spanClass[SpanOf(b0)] = c0, UNCHANGED <<base, spanNext, spanClass>>
  PROVE  Proper' /\ Unique'
<1>1. Proper'
  BY DEF Proper, Returned, Block, MapOf, SpanOf
<1>2. Unique'
  <2> SUFFICES ASSUME NEW x, NEW y, NEW t, NEW u, NEW c, NEW d, NEW k, NEW m, NEW i, NEW j, NEW b,
                      Holds(x, t, c, k, i, b)', Holds(y, u, d, m, j, b)'
               PROVE  x = y /\ t = u /\ c = d /\ k = m /\ i = j
    BY DEF Unique
  <2> QED BY DEF Unique, Returned
<1> QED BY <1>1, <1>2

(* The same, and the first n of that list become the class's first batch.    *)
Split(t0, c0, b0, n) ==
  \A x, t, c, k, i, b : Holds(x, t, c, k, i, b)' =>
    IF x = "list" /\ t = t0 /\ c = c0
    THEN k = 0 /\ i \in Nat \ {0} /\ Holds(x, t, c, k, i + n - 1, b)
    ELSE IF x = "batch" /\ c = c0
    THEN t = Main /\ \/ k = 1 /\ i = 1 /\ b = b0
                     \/ k = 1 /\ i \in 2 .. n /\ Holds("list", t0, c0, 0, i - 1, b)
                     \/ k \in Nat \ {0, 1} /\ Holds(x, t, c, k - 1, i, b)
    ELSE Holds(x, t, c, k, i, b) /\ (x = "held" => b # b0)

LEMMA SplitKeeps ==
  ASSUME Proper, Unique, NEW t0, NEW c0, NEW b0, Holds("held", Main, Main, 0, 0, b0), NEW n \in Nat \ {0},
         Split(t0, c0, b0, n), spanClass[SpanOf(b0)] = c0, UNCHANGED <<base, spanNext, spanClass>>
  PROVE  Proper' /\ Unique'
<1>1. Proper'
  BY DEF Proper, Split, Block, MapOf, SpanOf
<1>2. Unique'
  <2> SUFFICES ASSUME NEW x, NEW y, NEW t, NEW u, NEW c, NEW d, NEW k, NEW m, NEW i, NEW j, NEW b,
                      Holds(x, t, c, k, i, b)', Holds(y, u, d, m, j, b)'
               PROVE  x = y /\ t = u /\ c = d /\ k = m /\ i = j
    BY DEF Unique
  <2> QED BY DEF Unique, Split
<1> QED BY <1>1, <1>2

(* The first block of list `at` of t0's cache becomes the first loose one.   *)
Flushed(at, t0, c0) ==
  \A x, t, c, k, i, b : Holds(x, t, c, k, i, b)' =>
    IF x = at /\ t = t0 /\ c = c0 THEN i \in Nat \ {0} /\ Holds(x, t, c, k, i + 1, b)
    ELSE IF x = "loose" /\ c = c0
    THEN t = Main /\ k = 0 /\ \/ i = 1 /\ Holds(at, t0, c0, 0, 1, b)
                              \/ i \in Nat \ {0, 1} /\ Holds(x, t, c, k, i - 1, b)
    ELSE Holds(x, t, c, k, i, b)

LEMMA FlushedKeeps ==
  ASSUME Proper, Unique, NEW at \in {"list", "win"}, NEW t0, NEW c0, Flushed(at, t0, c0),
         UNCHANGED <<base, spanNext, spanClass>>
  PROVE  Proper' /\ Unique'
<1>1. Proper'
  BY DEF Proper, Flushed, Block, MapOf, SpanOf
<1>2. Unique'
  <2> SUFFICES ASSUME NEW x, NEW y, NEW t, NEW u, NEW c, NEW d, NEW k, NEW m, NEW i, NEW j, NEW b,
                      Holds(x, t, c, k, i, b)', Holds(y, u, d, m, j, b)'
               PROVE  x = y /\ t = u /\ c = d /\ k = m /\ i = j
    BY DEF Unique
  <2> QED BY DEF Unique, Flushed
<1> QED BY <1>1, <1>2

(* A new span is cut: one block is handed out, n - 1 are t0's window and the *)
(* others the class's uncut rest.                                            *)
SpanCut(t0, c0, n) ==
  \A x, t, c, k, i, b : Holds(x, t, c, k, i, b)' =>
    IF x = "win" /\ t = t0 /\ c = c0
    THEN k = 0 /\ i \in 1 .. n - 1 /\ i + 1 <= SpanBlocks /\ b = <<base, spanNext + 1, i + 1>>
    ELSE IF x = "rest" /\ c = c0
    THEN t = Main /\ k = 0 /\ i \in Nat \ {0} /\ i + n <= SpanBlocks /\ b = <<base, spanNext + 1, i + n>>
    ELSE \/ Holds(x, t, c, k, i, b)
         \/ /\ x = "held" /\ t = Main /\ c = Main /\ k = 0 /\ i = 0
            /\ 1 <= SpanBlocks /\ b = <<base, spanNext + 1, 1>>

LEMMA SpanCutKeeps ==
  ASSUME Proper, Unique, NEW t0, NEW c0, NEW n \in Nat \ {0}, SpanCut(t0, c0, n),
         base \in Maps, spanNext \in 0 .. Spans, spanNext < Spans, spanNext' = spanNext + 1, base' = base,
         spanClass \in [1 .. Spans -> Classes], spanClass' = [spanClass EXCEPT ![spanNext + 1] = c0]
  PROVE  Proper' /\ Unique'
<1> USE SlabAssumption
<1>0. \A i \in 1 .. SpanBlocks : /\ <<base, spanNext + 1, i>> \in Block
                                 /\ MapOf(<<base, spanNext + 1, i>>) = base
                                 /\ SpanOf(<<base, spanNext + 1, i>>) = spanNext + 1
  BY DEF Block, MapOf, SpanOf
<1>1. ASSUME NEW x, NEW t, NEW c, NEW k, NEW i, NEW b, Holds(x, t, c, k, i, b)'
      PROVE  /\ b \in Block /\ MapOf(b) = base /\ SpanOf(b) <= spanNext + 1
             /\ x # "held" => spanClass'[SpanOf(b)] = c
  <2>1. CASE Holds(x, t, c, k, i, b)
    <3>1. /\ b \in Block /\ MapOf(b) = base /\ SpanOf(b) <= spanNext
          /\ x # "held" => spanClass[SpanOf(b)] = c
      BY <2>1 DEF Proper
    <3>2. SpanOf(b) \in 1 .. Spans
      BY <3>1 DEF Block, SpanOf
    <3> QED BY <3>1, <3>2
  <2>2. CASE /\ ~Holds(x, t, c, k, i, b)
    <3>1. (x # "held" => c = c0) /\ \E j \in 1 .. SpanBlocks : b = <<base, spanNext + 1, j>>
      BY <1>1, <2>2 DEF SpanCut
    <3> QED BY <1>0, <3>1
  <2> QED BY <2>1, <2>2
<1>2. Proper'
  BY <1>1 DEF Proper, Block, MapOf, SpanOf
<1>3. ASSUME NEW x, NEW t, NEW c, NEW k, NEW i, NEW j \in 1 .. SpanBlocks
      PROVE  ~Holds(x, t, c, k, i, <<base, spanNext + 1, j>>)
  BY <1>0 DEF Proper
<1>4. Unique'
  <2> SUFFICES ASSUME NEW x, NEW y, NEW t, NEW u, NEW c, NEW d, NEW k, NEW m, NEW i, NEW j, NEW b,
                      Holds(x, t, c, k, i, b)', Holds(y, u, d, m, j, b)'
               PROVE  x = y /\ t = u /\ c = d /\ k = m /\ i = j
    BY DEF Unique
  <2>1. CASE \E z \in 1 .. SpanBlocks : b = <<base, spanNext + 1, z>>
    <3>1. PICK z \in 1 .. SpanBlocks : b = <<base, spanNext + 1, z>>
      BY <2>1
    <3>2. ~Holds(x, t, c, k, i, b) /\ ~Holds(y, u, d, m, j, b)
      BY <1>3, <3>1
    <3>3. \/ x = "win" /\ t = t0 /\ c = c0 /\ k = 0 /\ i \in 1 .. n - 1 /\ z = i + 1
          \/ x = "rest" /\ t = Main /\ c = c0 /\ k = 0 /\ i \in Nat \ {0} /\ z = i + n
          \/ x = "held" /\ t = Main /\ c = Main /\ k = 0 /\ i = 0 /\ z = 1
      BY <3>1, <3>2 DEF SpanCut
    <3>4. \/ y = "win" /\ u = t0 /\ d = c0 /\ m = 0 /\ j \in 1 .. n - 1 /\ z = j + 1
          \/ y = "rest" /\ u = Main /\ d = c0 /\ m = 0 /\ j \in Nat \ {0} /\ z = j + n
          \/ y = "held" /\ u = Main /\ d = Main /\ m = 0 /\ j = 0 /\ z = 1
      BY <3>1, <3>2 DEF SpanCut
    <3> QED BY <3>3, <3>4
  <2>2. CASE ~\E z \in 1 .. SpanBlocks : b = <<base, spanNext + 1, z>>
    <3>1. Holds(x, t, c, k, i, b) /\ Holds(y, u, d, m, j, b)
      BY <2>2 DEF SpanCut
    <3> QED BY <3>1 DEF Unique
  <2> QED BY <2>1, <2>2
<1> QED BY <1>2, <1>4

-----------------------------------------------------------------------------
(* The rest of the invariant, for a step that moves blocks of class c0 to or *)
(* from t0's cache.                                                          *)
LEMMA MoveSteps ==
  ASSUME SlabInv, state = "ready", NEW t0 \in Threads, NEW c0 \in Classes, NEW y \in Bins, NEW z \in Shareds,
         BinIs(t0, c0, y), SharedIs(c0, z),
         \/ pc' = pc /\ pc[t0] \in {"idle", "flush"}
         \/ pc' = [pc EXCEPT ![t0] = "idle"] /\ pc[t0] = "refill",
         pc[t0] # "flush" => y.count = Len(y.list),
         t0 \in Workers => Len(y.list) < High,
         z.looseN = Len(z.loose), \A i \in 1 .. Len(z.batches) : Len(z.batches[i]) = Batch,
         spanNext' \in 0 .. Spans, spanClass' \in [1 .. Spans -> Classes],
         UNCHANGED <<state, base, misfreed, class>>, Proper', Unique'
  PROVE  SlabInv'
<1>1. /\ MainFirst /\ TypeOK /\ InitOnce /\ CountsAgree /\ GoneCachesEmpty /\ NeverToLibc
      /\ Main \notin Workers /\ Main \in Threads /\ Workers \subseteq Threads
  BY SlabAssumption DEF SlabInv, Threads
<1> HIDE DEF SlabInv
<1>2. TypeOK'
  <2>1. held' \subseteq Block
    <3> SUFFICES ASSUME NEW b \in held' PROVE b \in Block
      OBVIOUS
    <3>1. Holds("held", Main, Main, 0, 0, b)'
      BY DEF Holds
    <3> QED BY <3>1 DEF Proper, Block
  <2>2. bin' \in [Threads -> [Classes -> Bins]] /\ shared' \in [Classes -> Shareds]
    BY DEF BinIs, SharedIs
  <2>3. pc' \in [Threads -> {"unborn", "idle", "init", "map", "refill", "flush", "exited"}]
    BY <1>1 DEF TypeOK
  <2> QED BY <1>1, <2>1, <2>2, <2>3 DEF TypeOK, Bins, Shareds, Block, Maps, Threads
<1>3. \A t \in Threads : /\ pc'[t] \in {"unborn", "exited", "init", "map", "flush"} <=> pc[t] \in {"unborn", "exited", "init", "map", "flush"}
                         /\ pc'[t] \in {"unborn", "exited", "init", "map", "flush"} => pc'[t] = pc[t]
  BY <1>1 DEF TypeOK
<1>4. InitOnce'
  BY <1>1, <1>3 DEF InitOnce
<1>5. GoneCachesEmpty'
  <2> SUFFICES ASSUME NEW w \in Workers, NEW c \in Classes, pc'[w] \in {"unborn", "exited"}
               PROVE  bin'[w][c] = EmptyBin
    BY DEF GoneCachesEmpty, EmptyBin
  <2>1. w # t0 /\ pc[w] \in {"unborn", "exited"}
    BY <1>1, <1>3
  <2> QED BY <1>1, <2>1 DEF BinIs, GoneCachesEmpty
<1>6. CountsAgree'
  <2>1. \A t \in Threads, c \in Classes : pc'[t] # "flush" => bin'[t][c].count = Len(bin'[t][c].list)
    BY <1>1, <1>3 DEF BinIs, CountsAgree
  <2>2. \A w \in Workers, c \in Classes : Len(bin'[w][c].list) < High
    BY <1>1 DEF BinIs, CountsAgree
  <2>3. \A c \in Classes :
          /\ shared'[c].looseN = Len(shared'[c].loose)
          /\ \A i \in 1 .. Len(shared'[c].batches) : Len(shared'[c].batches[i]) = Batch
    BY <1>1 DEF SharedIs, CountsAgree
  <2> QED BY <2>1, <2>2, <2>3 DEF CountsAgree, High
<1> QED BY <1>1, <1>2, <1>4, <1>5, <1>6 DEF SlabInv, NeverToLibc

LEMMA Typed ==
  ASSUME SlabInv, NEW t \in Threads, NEW c \in Classes
  PROVE  /\ bin[t][c] \in Bins /\ shared[c] \in Shareds
         /\ shared' = shared => SharedIs(c, shared[c])
         /\ shared[c].looseN = Len(shared[c].loose)
         /\ \A i \in 1 .. Len(shared[c].batches) : Len(shared[c].batches[i]) = Batch
         /\ pc[t] # "flush" => bin[t][c].count = Len(bin[t][c].list)
         /\ t \in Workers => Len(bin[t][c].list) < High
         /\ spanNext \in 0 .. Spans /\ spanClass \in [1 .. Spans -> Classes] /\ class[t] \in Classes
BY DEF SlabInv, TypeOK, CountsAgree, Bins, Shareds, SharedIs

(* A block exists only once the reservation holds.                           *)
LEMMA ReadyWhenHeld ==
  ASSUME SlabInv, NEW x, NEW t, NEW c, NEW k, NEW i, NEW b, Holds(x, t, c, k, i, b)
  PROVE  state = "ready"
BY DEF SlabInv, InitOnce

LEMMA AllocHitKeeps ==
  ASSUME SlabInv, NEW t0 \in Threads, NEW c0 \in Classes, AllocHit(t0, c0)
  PROVE  SlabInv' /\ (NoneLost => NoneLost')
<1> DEFINE q == bin[t0][c0].list
           y == WithList(bin[t0][c0], Tail(q), bin[t0][c0].count - 1)
<1>1. /\ pc[t0] = "idle" /\ q # <<>> /\ held' = held \cup {Head(q)} /\ SetBin(t0, c0, y)
      /\ UNCHANGED <<state, base, spanNext, spanClass, shared, misfreed, pc, class>>
  BY DEF AllocHit, Hand
<1>2. /\ q \in Seq(Block) /\ bin[t0][c0].count = Len(q) /\ bin[t0][c0].win \in Seq(Block)
      /\ bin[t0][c0] \in Bins /\ shared[c0] \in Shareds
  BY <1>1, Typed DEF Bins
<1>3. /\ Tail(q) \in Seq(Block) /\ Len(Tail(q)) = Len(q) - 1 /\ Len(q) \in Nat \ {0}
      /\ \A i \in 1 .. Len(Tail(q)) : Tail(q)[i] = q[i + 1]
      /\ Head(q) = q[1] /\ q[1] \in Block
  BY <1>1, <1>2, TailIs
<1>4. /\ y \in Bins /\ y.list = Tail(q) /\ y.win = bin[t0][c0].win /\ y.count = Len(y.list)
  <2>1. PICK l, n, z : l = Tail(q) /\ n = bin[t0][c0].count - 1 /\ z = y
    OBVIOUS
  <2>2. l \in Seq(Block) /\ n \in Nat /\ n = Len(l)
    BY <1>2, <1>3, <2>1
  <2>3. z = WithList(bin[t0][c0], l, n)
    BY <2>1
  <2>4. z \in Bins /\ z.list = l /\ z.count = n /\ z.win = bin[t0][c0].win
    BY ONLY <1>2, <2>2, <2>3, WithListIs
  <2> HIDE DEF y, q
  <2> QED BY <2>1, <2>2, <2>4
<1>5. BinIs(t0, c0, y)
  <2> HIDE DEF y, q
  <2> QED BY <1>1, <1>4, BinSet DEF SlabInv
<1>6. t0 \in Workers => Len(y.list) < High
  <2>1. t0 \in Workers => Len(q) < High
    BY Typed
  <2>2. Len(q) \in Nat /\ Len(y.list) = Len(q) - 1
    BY <1>3, <1>4
  <2> HIDE DEF y, q
  <2> QED BY <2>1, <2>2, SlabAssumption DEF High
<1> HIDE DEF y
<1>7. Popped("list", t0, c0)
  <2> SUFFICES ASSUME NEW x, NEW t, NEW c, NEW k, NEW i, NEW b, Holds(x, t, c, k, i, b)'
               PROVE  IF x = "list" /\ t = t0 /\ c = c0 THEN i \in Nat \ {0} /\ Holds(x, t, c, k, i + 1, b)
                      ELSE \/ Holds(x, t, c, k, i, b)
                           \/ x = "held" /\ t = Main /\ c = Main /\ k = 0 /\ i = 0 /\ Holds("list", t0, c0, 0, 1, b)
    BY DEF Popped
  <2> HIDE DEF q
  <2>1. CASE x = "list" /\ t = t0 /\ c = c0
    <3>1. k = 0 /\ i \in 1 .. Len(Tail(q)) /\ b = Tail(q)[i]
      BY <1>4, <1>5, <2>1 DEF Holds, BinIs
    <3>2. i \in Nat \ {0} /\ i + 1 \in 1 .. Len(q) /\ b = q[i + 1]
      BY <1>3, <3>1
    <3> QED BY <2>1, <3>1, <3>2 DEF Holds, q
  <2>2. CASE x = "held"
    BY <1>1, <1>3, <2>2 DEF Holds, q
  <2>3. CASE x # "held" /\ ~(x = "list" /\ t = t0 /\ c = c0)
    BY <1>1, <1>4, <1>5, <2>3 DEF Holds, BinIs
  <2> QED BY <2>1, <2>2, <2>3
<1>8. Proper' /\ Unique'
  BY <1>1, <1>7, PoppedKeeps DEF SlabInv
<1>9. state = "ready"
  <2>1. Holds("list", t0, c0, 0, 1, q[1])
    BY <1>3 DEF Holds
  <2> QED BY <2>1, ReadyWhenHeld
<1> HIDE DEF q
<1>10. SlabInv'
  BY <1>1, <1>2, <1>4, <1>5, <1>6, <1>8, <1>9, MoveSteps, Typed
<1>11. NoneLost => NoneLost'
  <2>1. On(q) \subseteq {q[1]} \cup On(Tail(q))
    BY <1>3, TailOn
  <2>2. Site(bin[t0][c0], shared[c0]) \cup held \subseteq Site(y, shared[c0]) \cup held'
    BY <1>1, <1>3, <1>4, <2>1 DEF Site, q
  <2>3. SharedIs(c0, shared[c0])
    BY <1>1, Typed
  <2>4. Settles(t0) /\ class \in [Threads -> Classes]
    BY <1>1 DEF SlabInv, TypeOK, Settles
  <2> QED BY <1>1, <1>5, <2>2, <2>3, <2>4, SiteKeeps
<1> QED BY <1>10, <1>11

LEMMA RefillWindowKeeps ==
  ASSUME SlabInv, NEW t0 \in Threads, RefillWindow(t0)
  PROVE  SlabInv' /\ (NoneLost => NoneLost')
<1> DEFINE c0 == class[t0]
           q == bin[t0][c0].win
           y == WithWindow(bin[t0][c0], Tail(q))
<1>0. c0 \in Classes
  BY Typed DEF SlabInv, TypeOK
<1>1. /\ pc[t0] = "refill" /\ state = "ready" /\ q # <<>> /\ held' = held \cup {Head(q)}
      /\ SetBin(t0, c0, y) /\ pc' = [pc EXCEPT ![t0] = "idle"]
      /\ UNCHANGED <<state, base, spanNext, spanClass, shared, misfreed, class>>
  BY DEF RefillWindow, Hand, Goto
<1> HIDE DEF c0
<1>2. /\ q \in Seq(Block) /\ bin[t0][c0].count = Len(bin[t0][c0].list)
      /\ bin[t0][c0] \in Bins /\ shared[c0] \in Shareds
      /\ t0 \in Workers => Len(bin[t0][c0].list) < High
  BY <1>0, <1>1, Typed DEF Bins
<1>3. /\ Tail(q) \in Seq(Block) /\ Len(Tail(q)) = Len(q) - 1 /\ Len(q) \in Nat \ {0}
      /\ \A i \in 1 .. Len(Tail(q)) : Tail(q)[i] = q[i + 1]
      /\ Head(q) = q[1] /\ q[1] \in Block
  BY <1>1, <1>2, TailIs
<1>4. y \in Bins /\ y.list = bin[t0][c0].list /\ y.win = Tail(q) /\ y.count = bin[t0][c0].count
  <2>1. PICK x, l, z : x = bin[t0][c0] /\ l = Tail(q) /\ z = y
    OBVIOUS
  <2>2. x \in Bins /\ l \in Seq(Block) /\ z = WithWindow(x, l)
    BY <1>2, <1>3, <2>1
  <2>3. z \in Bins /\ z.list = x.list /\ z.count = x.count /\ z.win = l
    BY ONLY <2>2, WithWindowIs
  <2> HIDE DEF y, q
  <2> QED BY <2>1, <2>3
<1>5. BinIs(t0, c0, y)
  <2> HIDE DEF y, q
  <2> QED BY <1>0, <1>1, <1>4, BinSet DEF SlabInv
<1> HIDE DEF y
<1>7. Popped("win", t0, c0)
  <2> SUFFICES ASSUME NEW x, NEW t, NEW c, NEW k, NEW i, NEW b, Holds(x, t, c, k, i, b)'
               PROVE  IF x = "win" /\ t = t0 /\ c = c0 THEN i \in Nat \ {0} /\ Holds(x, t, c, k, i + 1, b)
                      ELSE \/ Holds(x, t, c, k, i, b)
                           \/ x = "held" /\ t = Main /\ c = Main /\ k = 0 /\ i = 0 /\ Holds("win", t0, c0, 0, 1, b)
    BY DEF Popped
  <2> HIDE DEF q
  <2>1. CASE x = "win" /\ t = t0 /\ c = c0
    <3>1. k = 0 /\ i \in 1 .. Len(Tail(q)) /\ b = Tail(q)[i]
      BY <1>0, <1>4, <1>5, <2>1 DEF Holds, BinIs
    <3>2. i \in Nat \ {0} /\ i + 1 \in 1 .. Len(q) /\ b = q[i + 1]
      BY <1>3, <3>1
    <3> QED BY <1>0, <2>1, <3>1, <3>2 DEF Holds, q
  <2>2. CASE x = "held"
    BY <1>0, <1>1, <1>3, <2>2 DEF Holds, q
  <2>3. CASE x # "held" /\ ~(x = "win" /\ t = t0 /\ c = c0)
    BY <1>1, <1>4, <1>5, <2>3 DEF Holds, BinIs
  <2> QED BY <2>1, <2>2, <2>3
<1>8. Proper' /\ Unique'
  BY <1>1, <1>7, PoppedKeeps DEF SlabInv
<1> HIDE DEF q
<1>9. SlabInv'
  BY <1>0, <1>1, <1>2, <1>4, <1>5, <1>8, MoveSteps, Typed
<1>10. NoneLost => NoneLost'
  <2>1. On(q) \subseteq {q[1]} \cup On(Tail(q))
    BY <1>3, TailOn
  <2>2. Site(bin[t0][c0], shared[c0]) \cup held \subseteq Site(y, shared[c0]) \cup held'
    BY <1>1, <1>3, <1>4, <2>1 DEF Site, q
  <2>3. SharedIs(c0, shared[c0])
    BY <1>0, <1>1, Typed
  <2>4. Settles(t0) /\ class \in [Threads -> Classes]
    BY <1>1 DEF SlabInv, TypeOK, Settles
  <2> QED BY <1>0, <1>1, <1>5, <2>2, <2>3, <2>4, SiteKeeps
<1> QED BY <1>9, <1>10

(* What a thread finds when it looks at the shared lists of its class.       *)
LEMMA SharedTyped ==
  ASSUME SlabInv, NEW t0 \in Threads, NEW c0 \in Classes
  PROVE  /\ shared[c0].batches \in Seq(Seq(Block)) /\ shared[c0].loose \in Seq(Block)
         /\ shared[c0].rest \in Seq(Block) /\ shared[c0].looseN \in Nat
         /\ bin[t0][c0].list \in Seq(Block) /\ bin[t0][c0].win \in Seq(Block)
BY Typed DEF Bins, Shareds

LEMMA RefillBatchKeeps ==
  ASSUME SlabInv, NEW t0 \in Threads, RefillBatch(t0)
  PROVE  SlabInv' /\ (NoneLost => NoneLost')
<1> DEFINE c0 == class[t0]
           g == shared[c0]
           q == Head(g.batches)
           y == WithList(bin[t0][c0], Tail(q), Batch - 1)
           z == WithBatches(g, Tail(g.batches))
<1>0. c0 \in Classes
  BY Typed DEF SlabInv, TypeOK
<1>1. /\ pc[t0] = "refill" /\ state = "ready" /\ g.batches # <<>> /\ held' = held \cup {Head(q)}
      /\ SetBin(t0, c0, y) /\ SetShared(c0, z) /\ pc' = [pc EXCEPT ![t0] = "idle"]
      /\ UNCHANGED <<state, base, spanNext, spanClass, misfreed, class>>
  BY DEF RefillBatch, NeedsShared, Hand, Goto
<1> HIDE DEF c0
<1>2. /\ g.batches \in Seq(Seq(Block)) /\ bin[t0][c0] \in Bins /\ g \in Shareds
      /\ \A i \in 1 .. Len(g.batches) : Len(g.batches[i]) = Batch
      /\ g.looseN = Len(g.loose)
  BY <1>0, SharedTyped, Typed
<1>3. /\ Tail(g.batches) \in Seq(Seq(Block)) /\ Len(Tail(g.batches)) = Len(g.batches) - 1
      /\ Len(g.batches) \in Nat \ {0}
      /\ \A i \in 1 .. Len(Tail(g.batches)) : Tail(g.batches)[i] = g.batches[i + 1]
      /\ q = g.batches[1] /\ q \in Seq(Block)
  <2>1. PICK s : s = g.batches
    OBVIOUS
  <2>2. s \in Seq(Seq(Block)) /\ s # <<>>
    BY <1>1, <1>2, <2>1
  <2>3. /\ Tail(s) \in Seq(Seq(Block)) /\ Len(Tail(s)) = Len(s) - 1 /\ Len(s) \in Nat \ {0}
        /\ \A i \in 1 .. Len(Tail(s)) : Tail(s)[i] = s[i + 1]
        /\ Head(s) = s[1] /\ s[1] \in Seq(Block)
    BY ONLY <2>2, TailIs
  <2> HIDE DEF g
  <2> QED BY <2>1, <2>3
<1>4. /\ Len(q) = Batch /\ q # <<>> /\ Batch - 1 \in Nat
      /\ Tail(q) \in Seq(Block) /\ Len(Tail(q)) = Batch - 1
      /\ \A i \in 1 .. Len(Tail(q)) : Tail(q)[i] = q[i + 1]
      /\ Head(q) = q[1]
  <2>1. Len(q) = Batch
    BY <1>2, <1>3
  <2>2. Batch - 1 \in Nat /\ Batch # 0
    BY SlabAssumption
  <2> HIDE DEF q
  <2>3. q # <<>>
    BY <2>1, <2>2
  <2> QED BY <1>3, <2>1, <2>2, <2>3, TailIs
<1>5. y \in Bins /\ y.list = Tail(q) /\ y.count = Batch - 1 /\ y.win = bin[t0][c0].win
  <2>1. PICK x, l, n, v : x = bin[t0][c0] /\ l = Tail(q) /\ n = Batch - 1 /\ v = y
    OBVIOUS
  <2>2. x \in Bins /\ l \in Seq(Block) /\ n \in Nat /\ v = WithList(x, l, n)
    BY <1>2, <1>4, <2>1
  <2>3. v \in Bins /\ v.list = l /\ v.count = n /\ v.win = x.win
    BY ONLY <2>2, WithListIs
  <2> HIDE DEF y, q, g
  <2> QED BY <2>1, <2>3
<1>6. /\ z \in Shareds /\ z.batches = Tail(g.batches) /\ z.loose = g.loose
      /\ z.looseN = g.looseN /\ z.rest = g.rest
  <2>1. PICK x, l, v : x = g /\ l = Tail(g.batches) /\ v = z
    OBVIOUS
  <2>2. x \in Shareds /\ l \in Seq(Seq(Block)) /\ v = WithBatches(x, l)
    BY <1>2, <1>3, <2>1
  <2>3. v \in Shareds /\ v.batches = l /\ v.loose = x.loose /\ v.looseN = x.looseN /\ v.rest = x.rest
    BY ONLY <2>2, WithBatchesIs
  <2> HIDE DEF z, g
  <2> QED BY <2>1, <2>3
<1> HIDE DEF y, z
<1>7. BinIs(t0, c0, y) /\ SharedIs(c0, z)
  <2> HIDE DEF q, g
  <2>1. TypeOK
    BY DEF SlabInv
  <2> QED BY <1>0, <1>1, <1>5, <1>6, <2>1, BinSet, SharedSet
<1>8. BatchTaken(t0, c0)
  <2> SUFFICES ASSUME NEW x, NEW t, NEW c, NEW k, NEW i, NEW b, Holds(x, t, c, k, i, b)'
               PROVE  IF x = "list" /\ t = t0 /\ c = c0 THEN k = 0 /\ i \in Nat \ {0} /\ Holds("batch", Main, c0, 1, i + 1, b)
                      ELSE IF x = "batch" /\ c = c0 THEN k \in Nat \ {0} /\ Holds(x, t, c, k + 1, i, b)
                      ELSE \/ Holds(x, t, c, k, i, b)
                           \/ x = "held" /\ t = Main /\ c = Main /\ k = 0 /\ i = 0 /\ Holds("batch", Main, c0, 1, 1, b)
    BY DEF BatchTaken
  <2> HIDE DEF q, g
  <2>1. CASE x = "list" /\ t = t0 /\ c = c0
    <3>1. k = 0 /\ i \in 1 .. Len(Tail(q)) /\ b = Tail(q)[i]
      BY <1>0, <1>5, <1>7, <2>1 DEF Holds, BinIs
    <3>2. i \in Nat \ {0} /\ i + 1 \in 1 .. Len(q) /\ b = q[i + 1]
      BY <1>4, <3>1
    <3>3. Holds("batch", Main, c0, 1, i + 1, b)
      BY <1>0, <1>3, <3>2 DEF Holds, g
    <3> QED BY <2>1, <3>1, <3>2, <3>3
  <2>2. CASE x = "batch" /\ c = c0
    <3>1. /\ t = Main /\ k \in 1 .. Len(Tail(g.batches))
          /\ i \in 1 .. Len(Tail(g.batches)[k]) /\ b = Tail(g.batches)[k][i]
      BY <1>0, <1>6, <1>7, <2>2 DEF Holds, SharedIs
    <3>2. /\ k \in Nat \ {0} /\ k + 1 \in 1 .. Len(g.batches)
          /\ i \in 1 .. Len(g.batches[k + 1]) /\ b = g.batches[k + 1][i]
      BY <1>3, <3>1
    <3>3. Holds(x, t, c, k + 1, i, b)
      BY <1>0, <2>2, <3>1, <3>2 DEF Holds, g
    <3> QED BY <2>2, <3>2, <3>3
  <2>3. CASE x = "held"
    <3>1. t = Main /\ c = Main /\ k = 0 /\ i = 0 /\ (b \in held \/ b = q[1])
      BY <1>1, <1>4, <2>3 DEF Holds
    <3>2. Holds("batch", Main, c0, 1, 1, q[1])
      <4>1. 1 \in 1 .. Len(g.batches) /\ 1 \in 1 .. Len(q)
        BY <1>3, <1>4, SlabAssumption
      <4> QED BY <1>0, <1>3, <4>1 DEF Holds, g
    <3> QED BY <2>3, <3>1, <3>2 DEF Holds
  <2>4. CASE x # "held" /\ ~(x = "list" /\ t = t0 /\ c = c0) /\ ~(x = "batch" /\ c = c0)
    <3>1. \A d \in Classes : shared'[d].loose = shared[d].loose /\ shared'[d].rest = shared[d].rest
      BY <1>6, <1>7 DEF SharedIs, g
    <3>2. \A d \in Classes : d # c0 => shared'[d].batches = shared[d].batches
      BY <1>7 DEF SharedIs
    <3>4. CASE x = "list"
      BY <1>7, <2>4, <3>4 DEF Holds, BinIs
    <3>5. CASE x = "win"
      BY <1>5, <1>7, <2>4, <3>5 DEF Holds, BinIs
    <3>6. CASE x = "batch"
      BY <2>4, <3>2, <3>6 DEF Holds
    <3>7. CASE x \in {"loose", "rest"}
      BY <2>4, <3>1, <3>7 DEF Holds
    <3>8. x \in {"list", "win", "batch", "loose", "rest"}
      BY <2>4 DEF Holds
    <3> QED BY <3>4, <3>5, <3>6, <3>7, <3>8
  <2> QED BY <2>1, <2>2, <2>3, <2>4
<1>9. Proper' /\ Unique'
  BY <1>1, <1>8, BatchTakenKeeps DEF SlabInv
<1>10. t0 \in Workers => Len(y.list) < High
  <2> HIDE DEF q
  <2> QED BY <1>4, <1>5, SlabAssumption DEF High
<1>11. \A i \in 1 .. Len(z.batches) : Len(z.batches[i]) = Batch
  <2> HIDE DEF g
  <2> QED BY <1>2, <1>3, <1>6
<1>12. y.count = Len(y.list) /\ z.looseN = Len(z.loose)
  <2> HIDE DEF g, q
  <2> QED BY <1>2, <1>4, <1>5, <1>6
<1> HIDE DEF g, q
<1>13. SlabInv'
  BY <1>0, <1>1, <1>5, <1>6, <1>7, <1>9, <1>10, <1>11, <1>12, MoveSteps, Typed
<1>14. NoneLost => NoneLost'
  <2>1. OnAll(g.batches) \subseteq On(q) \cup OnAll(Tail(g.batches))
    BY <1>3, TailOnAll
  <2>2. On(q) \subseteq {q[1]} \cup On(Tail(q))
    BY <1>4, TailOn, SlabAssumption
  <2>3. NoneLost => On(bin[t0][c0].list) = {}
    BY <1>1, MissedNone DEF c0
  <2>4. NoneLost => Site(bin[t0][c0], shared[c0]) \cup held \subseteq Site(y, z) \cup held'
    BY <1>1, <1>4, <1>5, <1>6, <2>1, <2>2, <2>3 DEF Site, g
  <2>5. z.rest = shared[c0].rest
    BY <1>6 DEF g
  <2>6. Settles(t0) /\ class \in [Threads -> Classes]
    BY <1>1 DEF SlabInv, TypeOK, Settles
  <2> QED BY <1>0, <1>1, <1>7, <2>4, <2>5, <2>6, SiteKeeps
<1> QED BY <1>13, <1>14

LEMMA RefillLooseKeeps ==
  ASSUME SlabInv, NEW t0 \in Threads, RefillLoose(t0)
  PROVE  SlabInv' /\ (NoneLost => NoneLost')
<1> DEFINE c0 == class[t0]
           g == shared[c0]
           q == g.loose
           n == IF Len(q) < Batch THEN Len(q) ELSE Batch
           y == WithList(bin[t0][c0], SubSeq(q, 2, n), n - 1)
           z == WithLoose(g, SubSeq(q, n + 1, Len(q)), g.looseN - n)
<1>0. c0 \in Classes
  BY Typed DEF SlabInv, TypeOK
<1>1. /\ pc[t0] = "refill" /\ state = "ready" /\ q # <<>> /\ held' = held \cup {Head(q)}
      /\ SetBin(t0, c0, y) /\ SetShared(c0, z) /\ pc' = [pc EXCEPT ![t0] = "idle"]
      /\ UNCHANGED <<state, base, spanNext, spanClass, misfreed, class>>
  BY DEF RefillLoose, NeedsShared, Hand, Goto
<1> HIDE DEF c0
<1>2. /\ q \in Seq(Block) /\ bin[t0][c0] \in Bins /\ g \in Shareds
      /\ \A i \in 1 .. Len(g.batches) : Len(g.batches[i]) = Batch
      /\ g.looseN = Len(q)
  BY <1>0, SharedTyped, Typed
<1> HIDE DEF g, q
<1>3. /\ Len(q) \in Nat \ {0} /\ Head(q) = q[1] /\ n \in Nat \ {0} /\ n <= Len(q) /\ n <= Batch
  <2>1. Len(q) \in Nat \ {0} /\ Head(q) = q[1]
    BY <1>1, <1>2, TailIs
  <2> QED BY <2>1, SlabAssumption
<1> HIDE DEF n
<1>4. /\ SubSeq(q, 2, n) \in Seq(Block) /\ Len(SubSeq(q, 2, n)) = n - 1
      /\ \A i \in 1 .. Len(SubSeq(q, 2, n)) : SubSeq(q, 2, n)[i] = q[i + 1]
  <2>1. /\ SubSeq(q, 2, n) \in Seq(Block) /\ Len(SubSeq(q, 2, n)) = n - 2 + 1
        /\ \A i \in 1 .. Len(SubSeq(q, 2, n)) : SubSeq(q, 2, n)[i] = q[i + 2 - 1]
    BY <1>2, <1>3, CutIs
  <2> QED BY <1>3, <2>1
<1>5. LET r == SubSeq(q, n + 1, Len(q)) IN
      /\ r \in Seq(Block) /\ Len(r) = Len(q) - n /\ \A i \in 1 .. Len(r) : r[i] = q[i + n]
  <2>1. PICK m : m = n + 1
    OBVIOUS
  <2>2. q \in Seq(Block) /\ m \in Nat \ {0} /\ m <= Len(q) + 1 /\ Len(q) \in Nat /\ Len(q) <= Len(q)
    BY <1>2, <1>3, <2>1
  <2>3. LET r == SubSeq(q, m, Len(q)) IN
        /\ r \in Seq(Block) /\ Len(r) = Len(q) - m + 1 /\ \A i \in 1 .. Len(r) : r[i] = q[i + m - 1]
    BY ONLY <2>2, CutIs, Zenon
  <2> QED BY <1>3, <2>1, <2>3
<1>6. y \in Bins /\ y.list = SubSeq(q, 2, n) /\ y.count = n - 1 /\ y.win = bin[t0][c0].win
  <2>1. PICK x, l, m, v : x = bin[t0][c0] /\ l = SubSeq(q, 2, n) /\ m = n - 1 /\ v = y
    OBVIOUS
  <2>2. x \in Bins /\ l \in Seq(Block) /\ m \in Nat /\ v = WithList(x, l, m)
    BY <1>2, <1>3, <1>4, <2>1
  <2>3. v \in Bins /\ v.list = l /\ v.count = m /\ v.win = x.win
    BY ONLY <2>2, WithListIs
  <2> HIDE DEF y
  <2> QED BY <2>1, <2>3
<1>7. /\ z \in Shareds /\ z.batches = g.batches /\ z.loose = SubSeq(q, n + 1, Len(q))
      /\ z.looseN = Len(z.loose) /\ z.rest = g.rest
  <2>1. PICK x, l, m, v : x = g /\ l = SubSeq(q, n + 1, Len(q)) /\ m = g.looseN - n /\ v = z
    OBVIOUS
  <2>2. x \in Shareds /\ l \in Seq(Block) /\ m \in Nat /\ m = Len(l) /\ v = WithLoose(x, l, m)
    BY <1>2, <1>3, <1>5, <2>1
  <2>3. v \in Shareds /\ v.batches = x.batches /\ v.loose = l /\ v.looseN = m /\ v.rest = x.rest
    BY ONLY <2>2, WithLooseIs
  <2> HIDE DEF z
  <2> QED BY <2>1, <2>2, <2>3
<1> HIDE DEF y, z
<1>8. BinIs(t0, c0, y) /\ SharedIs(c0, z)
  <2>1. TypeOK
    BY DEF SlabInv
  <2> QED BY <1>0, <1>1, <1>6, <1>7, <2>1, BinSet, SharedSet
<1>9. Given("loose", "list", t0, c0, n)
  <2> SUFFICES ASSUME NEW x, NEW t, NEW c, NEW k, NEW i, NEW b, Holds(x, t, c, k, i, b)'
               PROVE  IF x = "list" /\ t = t0 /\ c = c0
                      THEN k = 0 /\ i \in 1 .. n - 1 /\ Holds("loose", Main, c0, 0, i + 1, b)
                      ELSE IF x = "loose" /\ c = c0 THEN i \in Nat \ {0} /\ Holds(x, t, c, k, i + n, b)
                      ELSE \/ Holds(x, t, c, k, i, b)
                           \/ x = "held" /\ t = Main /\ c = Main /\ k = 0 /\ i = 0 /\ Holds("loose", Main, c0, 0, 1, b)
    BY DEF Given
  <2>1. CASE x = "list" /\ t = t0 /\ c = c0
    <3>1. k = 0 /\ i \in 1 .. Len(SubSeq(q, 2, n)) /\ b = SubSeq(q, 2, n)[i]
      BY <1>0, <1>6, <1>8, <2>1 DEF Holds, BinIs
    <3>2. i \in 1 .. n - 1 /\ i + 1 \in 1 .. Len(q) /\ b = q[i + 1]
      BY <1>3, <1>4, <3>1
    <3>3. Holds("loose", Main, c0, 0, i + 1, b)
      BY <1>0, <3>2 DEF Holds, g, q
    <3> QED BY <2>1, <3>1, <3>2, <3>3
  <2>2. CASE x = "loose" /\ c = c0
    <3> DEFINE r == SubSeq(q, n + 1, Len(q))
    <3>1. t = Main /\ k = 0 /\ i \in 1 .. Len(r) /\ b = r[i]
      BY <1>0, <1>7, <1>8, <2>2 DEF Holds, SharedIs
    <3>2. i \in Nat \ {0} /\ i + n \in 1 .. Len(q) /\ b = q[i + n]
      <4>1. Len(r) = Len(q) - n /\ \A j \in 1 .. Len(r) : r[j] = q[j + n]
        BY <1>5
      <4> HIDE DEF r
      <4> QED BY <1>3, <3>1, <4>1
    <3>3. Holds(x, t, c, k, i + n, b)
      BY <1>0, <2>2, <3>1, <3>2 DEF Holds, g, q
    <3> QED BY <2>2, <3>2, <3>3
  <2>3. CASE x = "held"
    <3>1. t = Main /\ c = Main /\ k = 0 /\ i = 0 /\ (b \in held \/ b = q[1])
      BY <1>1, <1>3, <2>3 DEF Holds
    <3>2. Holds("loose", Main, c0, 0, 1, q[1])
      BY <1>0, <1>3 DEF Holds, g, q
    <3> QED BY <2>3, <3>1, <3>2 DEF Holds
  <2>4. CASE x # "held" /\ ~(x = "list" /\ t = t0 /\ c = c0) /\ ~(x = "loose" /\ c = c0)
    <3>1. \A d \in Classes : shared'[d].batches = shared[d].batches /\ shared'[d].rest = shared[d].rest
      BY <1>7, <1>8 DEF SharedIs, g
    <3>4. CASE x = "list"
      BY <1>8, <2>4, <3>4 DEF Holds, BinIs
    <3>5. CASE x = "win"
      BY <1>6, <1>8, <2>4, <3>5 DEF Holds, BinIs
    <3>6. CASE x = "loose"
      BY <1>8, <2>4, <3>6 DEF Holds, SharedIs
    <3>7. CASE x \in {"batch", "rest"}
      BY <2>4, <3>1, <3>7 DEF Holds
    <3>8. x \in {"list", "win", "batch", "loose", "rest"}
      BY <2>4 DEF Holds
    <3> QED BY <3>4, <3>5, <3>6, <3>7, <3>8
  <2> QED BY <2>1, <2>2, <2>3, <2>4
<1>10. Proper' /\ Unique'
  BY <1>1, <1>3, <1>9, GivenKeeps DEF SlabInv
<1>11. (t0 \in Workers => Len(y.list) < High) /\ y.count = Len(y.list)
  BY <1>3, <1>4, <1>6, SlabAssumption DEF High
<1>12. \A i \in 1 .. Len(z.batches) : Len(z.batches[i]) = Batch
  BY <1>2, <1>7
<1>13. SlabInv'
  BY <1>0, <1>1, <1>6, <1>7, <1>8, <1>10, <1>11, <1>12, MoveSteps, Typed
<1>14. NoneLost => NoneLost'
  <2>1. On(q) \subseteq {q[1]} \cup On(y.list) \cup On(z.loose)
    <3>1. PICK u, v : u = y.list /\ v = z.loose
      OBVIOUS
    <3>2. /\ Len(u) = n - 1 /\ \A i \in 1 .. Len(u) : u[i] = q[i + 1]
          /\ Len(v) = Len(q) - n /\ \A i \in 1 .. Len(v) : v[i] = q[i + n]
          /\ n \in Nat \ {0} /\ Len(q) \in Nat /\ n <= Len(q)
      BY <1>3, <1>4, <1>5, <1>6, <1>7, <3>1
    <3>3. On(q) \subseteq {q[1]} \cup On(u) \cup On(v)
      BY ONLY <3>2, CutOn
    <3> QED BY <3>1, <3>3
  <2>2. NoneLost => On(bin[t0][c0].list) = {}
    BY <1>1, MissedNone DEF c0
  <2>3. NoneLost => Site(bin[t0][c0], shared[c0]) \cup held \subseteq Site(y, z) \cup held'
    BY <1>1, <1>3, <1>6, <1>7, <2>1, <2>2 DEF Site, g, q
  <2>4. z.rest = shared[c0].rest
    BY <1>7 DEF g
  <2>5. Settles(t0) /\ class \in [Threads -> Classes]
    BY <1>1 DEF SlabInv, TypeOK, Settles
  <2> QED BY <1>0, <1>1, <1>8, <2>3, <2>4, <2>5, SiteKeeps
<1> QED BY <1>13, <1>14

(* A cache is given a window: what both ways to find one leave in the cache  *)
(* and in the shared lists.                                                  *)
GaveWindow(t0, c0, q, y, z) ==
  /\ BinIs(t0, c0, y) /\ SharedIs(c0, z)
  /\ y.list = bin[t0][c0].list /\ y.count = bin[t0][c0].count
  /\ Len(y.win) = Window - 1 /\ \A i \in 1 .. Len(y.win) : y.win[i] = q[i + 1]
  /\ z.batches = shared[c0].batches /\ z.loose = shared[c0].loose
  /\ z.looseN = shared[c0].looseN
  /\ Len(z.rest) = Len(q) - Window /\ \A i \in 1 .. Len(z.rest) : z.rest[i] = q[i + Window]

LEMMA WindowGiven ==
  ASSUME SlabInv, NEW t0 \in Threads, NEW c0 \in Classes, NEW q, q \in Seq(Block), Window <= Len(q),
         GiveWindow(t0, c0, q)
  PROVE  \E y \in Bins, z \in Shareds : GaveWindow(t0, c0, q, y, z)
<1> DEFINE g == shared[c0]
           l == SubSeq(q, 2, Window)
           r == SubSeq(q, Window + 1, Len(q))
           y == WithWindow(bin[t0][c0], l)
           z == WithRest(g, r)
<1>1. SetBin(t0, c0, y) /\ SetShared(c0, z)
  BY DEF GiveWindow
<1>2. bin[t0][c0] \in Bins /\ g \in Shareds /\ TypeOK /\ Len(q) \in Nat /\ Window \in Nat \ {0}
  BY Typed, SlabAssumption DEF SlabInv
<1>3. l \in Seq(Block) /\ Len(l) = Window - 1 /\ \A i \in 1 .. Len(l) : l[i] = q[i + 1]
  <2>1. /\ l \in Seq(Block) /\ Len(l) = Window - 2 + 1
        /\ \A i \in 1 .. Len(l) : l[i] = q[i + 2 - 1]
    BY <1>2, CutIs
  <2> HIDE DEF l
  <2> QED BY <1>2, <2>1
<1>4. r \in Seq(Block) /\ Len(r) = Len(q) - Window /\ \A i \in 1 .. Len(r) : r[i] = q[i + Window]
  <2>1. PICK m : m = Window + 1
    OBVIOUS
  <2>2. m \in Nat \ {0} /\ m <= Len(q) + 1
    BY <1>2, <2>1
  <2>3. LET s == SubSeq(q, m, Len(q)) IN
        /\ s \in Seq(Block) /\ Len(s) = Len(q) - m + 1 /\ \A i \in 1 .. Len(s) : s[i] = q[i + m - 1]
    BY <1>2, <2>2, CutIs
  <2> QED BY <1>2, <2>1, <2>3
<1>5. y \in Bins /\ y.list = bin[t0][c0].list /\ y.count = bin[t0][c0].count /\ y.win = l
  <2> HIDE DEF l
  <2> QED BY <1>2, <1>3, WithWindowIs
<1>6. /\ z \in Shareds /\ z.batches = g.batches /\ z.loose = g.loose
      /\ z.looseN = g.looseN /\ z.rest = r
  <2> HIDE DEF r
  <2> QED BY <1>2, <1>4, WithRestIs
<1> HIDE DEF l, r, y, z
<1>7. BinIs(t0, c0, y) /\ SharedIs(c0, z)
  BY <1>1, <1>2, <1>5, <1>6, BinSet, SharedSet
<1>8. GaveWindow(t0, c0, q, y, z)
  BY <1>3, <1>4, <1>5, <1>6, <1>7 DEF GaveWindow
<1> QED BY <1>5, <1>6, <1>8, Zenon

LEMMA RefillBumpKeeps ==
  ASSUME SlabInv, NEW t0 \in Threads, RefillBump(t0)
  PROVE  SlabInv' /\ (NoneLost => NoneLost')
<1> DEFINE c0 == class[t0]
           q == shared[c0].rest
<1>0. c0 \in Classes
  BY Typed DEF SlabInv, TypeOK
<1>1. /\ pc[t0] = "refill" /\ state = "ready" /\ Window <= Len(q) /\ held' = held \cup {q[1]}
      /\ GiveWindow(t0, c0, q) /\ pc' = [pc EXCEPT ![t0] = "idle"]
      /\ UNCHANGED <<state, base, spanNext, spanClass, misfreed, class>>
  <2>1. q \in Seq(Block)
    BY <1>0, SharedTyped
  <2> QED BY <2>1, SlabAssumption DEF RefillBump, NothingShared, NeedsShared, GiveWindow, Hand, Goto
<1> HIDE DEF c0
<1>2. q \in Seq(Block) /\ Len(q) \in Nat /\ Window \in Nat \ {0}
  BY <1>0, SharedTyped, SlabAssumption
<1> HIDE DEF q
<1>a. PICK y \in Bins, z \in Shareds : GaveWindow(t0, c0, q, y, z)
  BY <1>0, <1>1, <1>2, WindowGiven
<1>3. /\ BinIs(t0, c0, y) /\ SharedIs(c0, z)
      /\ y.list = bin[t0][c0].list /\ y.count = bin[t0][c0].count
      /\ Len(y.win) = Window - 1 /\ \A i \in 1 .. Len(y.win) : y.win[i] = q[i + 1]
      /\ z.batches = shared[c0].batches /\ z.loose = shared[c0].loose
      /\ z.looseN = shared[c0].looseN
      /\ Len(z.rest) = Len(q) - Window /\ \A i \in 1 .. Len(z.rest) : z.rest[i] = q[i + Window]
  BY <1>a DEF GaveWindow
<1>4. Given("rest", "win", t0, c0, Window)
  <2> SUFFICES ASSUME NEW x, NEW t, NEW c, NEW k, NEW i, NEW b, Holds(x, t, c, k, i, b)'
               PROVE  IF x = "win" /\ t = t0 /\ c = c0
                      THEN k = 0 /\ i \in 1 .. Window - 1 /\ Holds("rest", Main, c0, 0, i + 1, b)
                      ELSE IF x = "rest" /\ c = c0 THEN i \in Nat \ {0} /\ Holds(x, t, c, k, i + Window, b)
                      ELSE \/ Holds(x, t, c, k, i, b)
                           \/ x = "held" /\ t = Main /\ c = Main /\ k = 0 /\ i = 0 /\ Holds("rest", Main, c0, 0, 1, b)
    BY DEF Given
  <2>1. CASE x = "win" /\ t = t0 /\ c = c0
    <3>1. k = 0 /\ i \in 1 .. Len(y.win) /\ b = y.win[i]
      BY <1>0, <1>3, <2>1 DEF Holds, BinIs
    <3>2. i \in 1 .. Window - 1 /\ i + 1 \in 1 .. Len(q) /\ b = q[i + 1]
      BY <1>1, <1>2, <1>3, <3>1
    <3>3. Holds("rest", Main, c0, 0, i + 1, b)
      BY <1>0, <3>2 DEF Holds, q
    <3> QED BY <2>1, <3>1, <3>2, <3>3
  <2>2. CASE x = "rest" /\ c = c0
    <3>1. t = Main /\ k = 0 /\ i \in 1 .. Len(z.rest) /\ b = z.rest[i]
      BY <1>0, <1>3, <2>2 DEF Holds, SharedIs
    <3>2. i \in Nat \ {0} /\ i + Window \in 1 .. Len(q) /\ b = q[i + Window]
      BY <1>1, <1>2, <1>3, <3>1
    <3>3. Holds(x, t, c, k, i + Window, b)
      BY <1>0, <2>2, <3>1, <3>2 DEF Holds, q
    <3> QED BY <2>2, <3>2, <3>3
  <2>3. CASE x = "held"
    <3>1. t = Main /\ c = Main /\ k = 0 /\ i = 0 /\ (b \in held \/ b = q[1])
      BY <1>1, <2>3 DEF Holds
    <3>2. Holds("rest", Main, c0, 0, 1, q[1])
      BY <1>0, <1>1, <1>2 DEF Holds, q
    <3> QED BY <2>3, <3>1, <3>2 DEF Holds
  <2>4. CASE x # "held" /\ ~(x = "win" /\ t = t0 /\ c = c0) /\ ~(x = "rest" /\ c = c0)
    <3>1. \A d \in Classes : shared'[d].batches = shared[d].batches /\ shared'[d].loose = shared[d].loose
      BY <1>3 DEF SharedIs
    <3>2. CASE x = "list"
      BY <1>3, <2>4, <3>2 DEF Holds, BinIs
    <3>3. CASE x = "win"
      BY <1>3, <2>4, <3>3 DEF Holds, BinIs
    <3>4. CASE x = "rest"
      BY <1>3, <2>4, <3>4 DEF Holds, SharedIs
    <3>5. CASE x \in {"batch", "loose"}
      BY <2>4, <3>1, <3>5 DEF Holds
    <3>6. x \in {"list", "win", "batch", "loose", "rest"}
      BY <2>4 DEF Holds
    <3> QED BY <3>2, <3>3, <3>4, <3>5, <3>6
  <2> QED BY <2>1, <2>2, <2>3, <2>4
<1>5. Proper' /\ Unique'
  BY <1>1, <1>2, <1>4, GivenKeeps DEF SlabInv
<1>6. /\ t0 \in Workers => Len(y.list) < High
      /\ y.count = Len(y.list) /\ z.looseN = Len(z.loose)
      /\ \A i \in 1 .. Len(z.batches) : Len(z.batches[i]) = Batch
      /\ spanNext \in 0 .. Spans /\ spanClass \in [1 .. Spans -> Classes]
  BY <1>0, <1>1, <1>3, Typed
<1>7. SlabInv'
  BY <1>0, <1>1, <1>3, <1>5, <1>6, MoveSteps
<1>8. NoneLost => NoneLost'
  <2>1. On(q) \subseteq {q[1]} \cup On(y.win) \cup On(z.rest)
    BY <1>1, <1>2, <1>3, CutOn
  <2>2. On(bin[t0][c0].win) = {}
    <3>1. bin[t0][c0].win = <<>>
      BY DEF RefillBump, NothingShared, NeedsShared, c0
    <3> QED BY <3>1 DEF On
  <2>3. Site(bin[t0][c0], shared[c0]) \cup held \subseteq Site(y, z) \cup held'
    BY <1>1, <1>3, <2>1, <2>2 DEF Site, q
  <2>4. \A b : Somewhere(b) => Somewhere(b)'
    BY <1>0, <1>3, <2>3, SiteStays
  <2>5. Settles(t0) /\ class \in [Threads -> Classes]
    BY <1>1 DEF SlabInv, TypeOK, Settles
  <2>6. MissedEmpty => MissedEmpty'
    BY <1>1, <1>3, <2>5, MissesOn
  <2>7. RestIsTail => RestIsTail'
    <3> SUFFICES ASSUME RestIsTail, NEW c \in Classes, NEW i \in 1 .. Len(shared'[c].rest)
                 PROVE  shared'[c].rest[i][3] = SpanBlocks - Len(shared'[c].rest) + i
      BY DEF RestIsTail
    <3>1. CASE c # c0
      <4>1. shared'[c] = shared[c]
        BY <1>3, <3>1 DEF SharedIs
      <4> QED BY <4>1 DEF RestIsTail
    <3>2. CASE c = c0
      <4>1. shared'[c].rest = z.rest
        BY <1>3, <3>2 DEF SharedIs
      <4>2. i + Window \in 1 .. Len(q) /\ z.rest[i] = q[i + Window]
        BY <1>1, <1>2, <1>3, <4>1
      <4>3. q[i + Window][3] = SpanBlocks - Len(q) + (i + Window)
        BY <1>0, <4>2 DEF RestIsTail, q
      <4>4. shared'[c].rest[i][3] = SpanBlocks - Len(q) + (i + Window)
        BY <4>1, <4>2, <4>3
      <4>5. Len(shared'[c].rest) = Len(q) - Window /\ i \in Nat /\ SpanBlocks \in Nat
        BY <1>3, <4>1, SlabAssumption
      <4>6. SpanBlocks - Len(q) + (i + Window) = SpanBlocks - (Len(q) - Window) + i
        BY ONLY <1>2, <4>5
      <4> QED BY <4>4, <4>5, <4>6
    <3> QED BY <3>1, <3>2
  <2> QED BY <1>1, <2>4, <2>6, <2>7 DEF NoneLost
<1> QED BY <1>7, <1>8

LEMMA RefillSpanKeeps ==
  ASSUME SlabInv, NEW t0 \in Threads, RefillSpan(t0)
  PROVE  SlabInv' /\ (NoneLost => NoneLost')
<1> DEFINE c0 == class[t0]
           q == [i \in 1 .. SpanBlocks |-> <<base, spanNext + 1, i>>]
<1>0. c0 \in Classes
  BY Typed DEF SlabInv, TypeOK
<1>1. /\ pc[t0] = "refill" /\ state = "ready" /\ held' = held \cup {q[1]}
      /\ GiveWindow(t0, c0, q) /\ pc' = [pc EXCEPT ![t0] = "idle"]
      /\ spanNext < Spans /\ spanNext' = spanNext + 1
      /\ spanClass' = [spanClass EXCEPT ![spanNext + 1] = c0]
      /\ UNCHANGED <<state, base, misfreed, class>>
  BY DEF RefillSpan, NothingShared, NeedsShared, GiveWindow, Hand, Goto
<1> HIDE DEF c0
<1>2. /\ SpanBlocks \in Nat /\ Window \in Nat \ {0} /\ Window <= SpanBlocks
      /\ Spans \in Nat /\ spanNext \in 0 .. Spans /\ spanClass \in [1 .. Spans -> Classes]
      /\ base \in Maps
  <2>1. base = Main /\ Main \in Maps
    BY <1>1 DEF SlabInv, InitOnce, Maps, Threads
  <2> QED BY <1>0, <2>1, Typed, SlabAssumption
<1>3. /\ q \in Seq(Block) /\ Len(q) = SpanBlocks
      /\ \A i \in 1 .. SpanBlocks : q[i] = <<base, spanNext + 1, i>>
  <2>1. \A i \in 1 .. SpanBlocks : <<base, spanNext + 1, i>> \in Block
    BY <1>1, <1>2 DEF Block
  <2> QED BY <1>2, <2>1
<1> HIDE DEF q
<1>a. PICK y \in Bins, z \in Shareds : GaveWindow(t0, c0, q, y, z)
  <2>1. q \in Seq(Block) /\ Window <= Len(q) /\ GiveWindow(t0, c0, q)
    BY <1>1, <1>2, <1>3
  <2> QED BY <1>0, <2>1, WindowGiven
<1>4. /\ BinIs(t0, c0, y) /\ SharedIs(c0, z)
      /\ y.list = bin[t0][c0].list /\ y.count = bin[t0][c0].count
      /\ Len(y.win) = Window - 1 /\ \A i \in 1 .. Len(y.win) : y.win[i] = q[i + 1]
      /\ z.batches = shared[c0].batches /\ z.loose = shared[c0].loose
      /\ z.looseN = shared[c0].looseN
      /\ Len(z.rest) = Len(q) - Window /\ \A i \in 1 .. Len(z.rest) : z.rest[i] = q[i + Window]
  BY <1>a DEF GaveWindow
<1>5. SpanCut(t0, c0, Window)
  <2> SUFFICES ASSUME NEW x, NEW t, NEW c, NEW k, NEW i, NEW b, Holds(x, t, c, k, i, b)'
               PROVE  IF x = "win" /\ t = t0 /\ c = c0
                      THEN /\ k = 0 /\ i \in 1 .. Window - 1 /\ i + 1 <= SpanBlocks
                           /\ b = <<base, spanNext + 1, i + 1>>
                      ELSE IF x = "rest" /\ c = c0
                      THEN /\ t = Main /\ k = 0 /\ i \in Nat \ {0} /\ i + Window <= SpanBlocks
                           /\ b = <<base, spanNext + 1, i + Window>>
                      ELSE \/ Holds(x, t, c, k, i, b)
                           \/ /\ x = "held" /\ t = Main /\ c = Main /\ k = 0 /\ i = 0
                              /\ 1 <= SpanBlocks /\ b = <<base, spanNext + 1, 1>>
    BY DEF SpanCut
  <2>1. CASE x = "win" /\ t = t0 /\ c = c0
    <3>1. k = 0 /\ i \in 1 .. Len(y.win) /\ b = y.win[i]
      BY <1>0, <1>4, <2>1 DEF Holds, BinIs
    <3>2. i \in 1 .. Window - 1 /\ i + 1 \in 1 .. SpanBlocks /\ b = q[i + 1]
      BY <1>2, <1>4, <3>1
    <3>3. b = <<base, spanNext + 1, i + 1>>
      BY <1>3, <3>2
    <3> QED BY <1>2, <2>1, <3>1, <3>2, <3>3
  <2>2. CASE x = "rest" /\ c = c0
    <3>1. t = Main /\ k = 0 /\ i \in 1 .. Len(z.rest) /\ b = z.rest[i]
      BY <1>0, <1>4, <2>2 DEF Holds, SharedIs
    <3>2. i \in Nat \ {0} /\ i + Window \in 1 .. SpanBlocks /\ b = q[i + Window]
      BY <1>2, <1>3, <1>4, <3>1
    <3>3. b = <<base, spanNext + 1, i + Window>>
      BY <1>3, <3>2
    <3> QED BY <1>2, <2>2, <3>1, <3>2, <3>3
  <2>3. CASE x = "held"
    <3>1. t = Main /\ c = Main /\ k = 0 /\ i = 0 /\ (b \in held \/ b = q[1])
      BY <1>1, <2>3 DEF Holds
    <3>2. 1 <= SpanBlocks /\ q[1] = <<base, spanNext + 1, 1>>
      BY <1>2, <1>3
    <3> QED BY <2>3, <3>1, <3>2 DEF Holds
  <2>4. CASE x # "held" /\ ~(x = "win" /\ t = t0 /\ c = c0) /\ ~(x = "rest" /\ c = c0)
    <3>1. \A d \in Classes : shared'[d].batches = shared[d].batches /\ shared'[d].loose = shared[d].loose
      BY <1>4 DEF SharedIs
    <3>2. CASE x = "list"
      BY <1>4, <2>4, <3>2 DEF Holds, BinIs
    <3>3. CASE x = "win"
      BY <1>4, <2>4, <3>3 DEF Holds, BinIs
    <3>4. CASE x = "rest"
      BY <1>4, <2>4, <3>4 DEF Holds, SharedIs
    <3>5. CASE x \in {"batch", "loose"}
      BY <2>4, <3>1, <3>5 DEF Holds
    <3>6. x \in {"list", "win", "batch", "loose", "rest"}
      BY <2>4 DEF Holds
    <3> QED BY <3>2, <3>3, <3>4, <3>5, <3>6
  <2> QED BY <2>1, <2>2, <2>3, <2>4
<1>6. Proper' /\ Unique'
  BY <1>1, <1>2, <1>5, SpanCutKeeps DEF SlabInv
<1>7. /\ t0 \in Workers => Len(y.list) < High
      /\ y.count = Len(y.list) /\ z.looseN = Len(z.loose)
      /\ \A i \in 1 .. Len(z.batches) : Len(z.batches[i]) = Batch
  BY <1>0, <1>1, <1>4, Typed
<1>8. spanNext' \in 0 .. Spans /\ spanClass' \in [1 .. Spans -> Classes]
  BY <1>0, <1>1, <1>2
<1>9. SlabInv'
  BY <1>0, <1>1, <1>4, <1>6, <1>7, <1>8, MoveSteps
<1>10. NoneLost => NoneLost'
  <2> SUFFICES ASSUME NoneLost PROVE NoneLost'
    OBVIOUS
  <2> DEFINE old == shared[c0].rest
  <2>0. Len(old) \in Nat /\ Len(old) < Window
    <3>1. old \in Seq(Block)
      BY <1>0, SharedTyped
    <3> QED BY <3>1 DEF RefillSpan, c0
  <2>1. On(q) \subseteq {q[1]} \cup On(y.win) \cup On(z.rest)
    BY <1>2, <1>3, <1>4, CutOn
  <2>2. On(bin[t0][c0].win) = {}
    <3>1. bin[t0][c0].win = <<>>
      BY DEF RefillSpan, NothingShared, NeedsShared, c0
    <3> QED BY <3>1 DEF On
  <2>3. Site(bin[t0][c0], shared[c0]) \cup held \subseteq Site(y, z) \cup held' \cup On(old)
    BY <1>1, <1>4, <2>2 DEF Site
  <2>4. \A b : Somewhere(b) => Somewhere(b)' \/ b \in On(old)
    <3>1. PICK lost : lost = On(old)
      OBVIOUS
    <3>2. Site(bin[t0][c0], shared[c0]) \cup held \subseteq Site(y, z) \cup held' \cup lost
      BY <2>3, <3>1
    <3>3. BinIs(t0, c0, y) /\ SharedIs(c0, z)
      BY <1>4
    <3>4. \A b : Somewhere(b) => Somewhere(b)' \/ b \in lost
      BY ONLY t0 \in Threads, <1>0, <3>2, <3>3, SiteMoves
    <3> QED BY <3>1, <3>4
  <2>5. Settles(t0) /\ class \in [Threads -> Classes]
    BY <1>1 DEF SlabInv, TypeOK, Settles
  <2>6. MissedEmpty'
    BY <1>1, <1>4, <2>5, MissesOn DEF NoneLost
  <2>7. RestIsTail'
    <3> SUFFICES ASSUME NEW c \in Classes, NEW i \in 1 .. Len(shared'[c].rest)
                 PROVE  shared'[c].rest[i][3] = SpanBlocks - Len(shared'[c].rest) + i
      BY DEF RestIsTail
    <3>1. CASE c # c0
      <4>1. shared'[c] = shared[c]
        BY <1>4, <3>1 DEF SharedIs
      <4> QED BY <4>1 DEF NoneLost, RestIsTail
    <3>2. CASE c = c0
      <4>1. shared'[c].rest = z.rest
        BY <1>4, <3>2 DEF SharedIs
      <4>2. i + Window \in 1 .. SpanBlocks /\ z.rest[i] = q[i + Window]
        BY <1>2, <1>3, <1>4, <4>1
      <4>3. q[i + Window] = <<base, spanNext + 1, i + Window>>
        BY <1>3, <4>2
      <4> QED BY <1>2, <1>3, <1>4, <4>1, <4>2, <4>3
    <3> QED BY <3>1, <3>2
  <2>8. ASSUME NEW s \in 1 .. spanNext', NEW i \in 1 .. SpanBlocks - Window + 1
        PROVE  Somewhere(<<base, s, i>>)'
    <3>1. CASE s = spanNext + 1
      <4>1. i \in 1 .. SpanBlocks /\ q[i] = <<base, s, i>>
        BY <1>2, <1>3, <3>1
      <4>2. q[i] \in On(q)
        BY <1>3, <4>1 DEF On
      <4>3. q[i] \in held' \cup Site(y, z)
        BY <1>1, <2>1, <4>2 DEF Site
      <4>4. bin'[t0][c0] = y /\ shared'[c0] = z
        BY <1>4 DEF BinIs, SharedIs
      <4>5. <<base, s, i>>' = q[i]
        BY <1>1, <4>1
      <4> QED BY <1>0, <4>3, <4>4, <4>5 DEF Somewhere
    <3>2. CASE s # spanNext + 1
      <4>1. s \in 1 .. spanNext
        BY <1>1, <1>2, <3>2
      <4>2. Somewhere(<<base, s, i>>)
        BY <4>1 DEF NoneLost
      <4>3. <<base, s, i>> \notin On(old)
        <5> SUFFICES ASSUME NEW j \in 1 .. Len(old), old[j] = <<base, s, i>> PROVE FALSE
          BY DEF On
        <5>1. old[j][3] = SpanBlocks - Len(old) + j
          BY <1>0 DEF NoneLost, RestIsTail
        <5>2. i = SpanBlocks - Len(old) + j
          BY <5>1
        <5> HIDE DEF old
        <5> QED BY <1>2, <2>0, <5>2
      <4>4. PICK b : b = <<base, s, i>>
        OBVIOUS
      <4>5. Somewhere(b)'
        BY <2>4, <4>2, <4>3, <4>4
      <4> QED BY <1>1, <4>4, <4>5
    <3> QED BY <3>1, <3>2
  <2> QED BY <1>1, <2>6, <2>7, <2>8 DEF NoneLost
<1> QED BY <1>9, <1>10

(* A freed block is of the reservation, and goes to a cache of its class.    *)
LEMMA FreePushes ==
  ASSUME SlabInv, NEW t0 \in Threads, NEW b0 \in held, Free(t0, b0)
  PROVE  /\ pc[t0] = "idle" /\ state = "ready" /\ held' = held \ {b0} /\ b0 \in Block
         /\ Holds("held", Main, Main, 0, 0, b0)
         /\ spanClass[SpanOf(b0)] \in Classes /\ PushFreed(t0, b0)
         /\ UNCHANGED <<state, base, spanNext, spanClass, pc, class, misfreed>>
<1>1. Holds("held", Main, Main, 0, 0, b0)
  BY DEF Holds
<1>2. b0 \in Block /\ MapOf(b0) = base
  BY <1>1 DEF SlabInv, Proper
<1>3. SpanOf(b0) \in 1 .. Spans
  BY <1>2 DEF Block, SpanOf
<1>4. spanClass[SpanOf(b0)] \in Classes
  BY <1>3 DEF SlabInv, TypeOK
<1>5. state = "ready"
  BY <1>1, ReadyWhenHeld
<1>6. PushFreed(t0, b0)
  BY <1>2 DEF Free
<1> QED BY <1>1, <1>2, <1>4, <1>5, <1>6 DEF Free, PushFreed

(* The cache behind which b0 was pushed.                                     *)
LEMMA PushedIs ==
  ASSUME NEW x \in Bins, NEW b0 \in Block, x.count = Len(x.list)
  PROVE  /\ Pushed(x, b0) \in Bins /\ Pushed(x, b0).win = x.win
         /\ Pushed(x, b0).count = Len(Pushed(x, b0).list)
         /\ Len(Pushed(x, b0).list) = Len(x.list) + 1 /\ Len(x.list) \in Nat
         /\ Pushed(x, b0).list[1] = b0
         /\ \A i \in 2 .. Len(x.list) + 1 : Pushed(x, b0).list[i] = x.list[i - 1]
<1>1. PICK q, l, n, y : q = x.list /\ l = <<b0>> \o q /\ n = x.count + 1 /\ y = Pushed(x, b0)
  OBVIOUS
<1>2. q \in Seq(Block) /\ x.count \in Nat
  BY <1>1 DEF Bins
<1>3. /\ l \in Seq(Block) /\ Len(l) = Len(q) + 1 /\ Len(q) \in Nat /\ l[1] = b0
      /\ \A i \in 2 .. Len(q) + 1 : l[i] = q[i - 1]
  BY <1>1, <1>2, PushIs
<1>4. n \in Nat /\ n = Len(l)
  BY <1>1, <1>2, <1>3
<1>5. y = WithList(x, l, n)
  BY <1>1 DEF Pushed
<1>6. y \in Bins /\ y.list = l /\ y.count = n /\ y.win = x.win
  BY ONLY x \in Bins, <1>3, <1>4, <1>5, WithListIs
<1> QED BY <1>1, <1>3, <1>4, <1>6

LEMMA FreeKeepsCached ==
  ASSUME SlabInv, NEW t0 \in Threads, NEW b0 \in held, Free(t0, b0),
         ~Spills(Pushed(bin[t0][spanClass[SpanOf(b0)]], b0))
  PROVE  SlabInv' /\ (NoneLost => NoneLost')
<1> DEFINE c0 == spanClass[SpanOf(b0)]
           q == bin[t0][c0].list
           y == Pushed(bin[t0][c0], b0)
<1>1. /\ pc[t0] = "idle" /\ state = "ready" /\ held' = held \ {b0} /\ b0 \in Block
      /\ Holds("held", Main, Main, 0, 0, b0) /\ c0 \in Classes
      /\ UNCHANGED <<state, base, spanNext, spanClass, pc, class, misfreed>>
  BY FreePushes
<1>2. SetBin(t0, c0, y) /\ shared' = shared
  BY FreePushes DEF PushFreed
<1>3. ~Spills(y)
  OBVIOUS
<1>4. spanClass[SpanOf(b0)] = c0
  OBVIOUS
<1> HIDE DEF c0
<1>5. bin[t0][c0] \in Bins /\ bin[t0][c0].count = Len(q)
  BY <1>1, Typed
<1>6. /\ y \in Bins /\ y.win = bin[t0][c0].win /\ y.count = Len(y.list)
      /\ Len(y.list) = Len(q) + 1 /\ Len(q) \in Nat /\ y.list[1] = b0
      /\ \A i \in 2 .. Len(q) + 1 : y.list[i] = q[i - 1]
  <2>1. PICK x : x = bin[t0][c0]
    OBVIOUS
  <2> QED BY <1>1, <1>5, <2>1, PushedIs
<1> HIDE DEF y, q
<1>7. BinIs(t0, c0, y)
  BY <1>1, <1>2, <1>6, BinSet DEF SlabInv
<1>8. Returned(t0, c0, b0)
  <2> SUFFICES ASSUME NEW x, NEW t, NEW c, NEW k, NEW i, NEW b, Holds(x, t, c, k, i, b)'
               PROVE  IF x = "list" /\ t = t0 /\ c = c0
                      THEN k = 0 /\ \/ i = 1 /\ b = b0
                                    \/ i \in Nat \ {0, 1} /\ Holds(x, t, c, k, i - 1, b)
                      ELSE Holds(x, t, c, k, i, b) /\ (x = "held" => b # b0)
    BY DEF Returned
  <2>1. CASE x = "list" /\ t = t0 /\ c = c0
    <3>1. k = 0 /\ i \in 1 .. Len(y.list) /\ b = y.list[i]
      BY <1>1, <1>7, <2>1 DEF Holds, BinIs
    <3>2. CASE i = 1
      BY <1>6, <2>1, <3>1, <3>2
    <3>3. CASE i # 1
      <4>1. i \in Nat \ {0, 1} /\ i - 1 \in 1 .. Len(q) /\ b = q[i - 1]
        BY <1>6, <3>1, <3>3
      <4>2. Holds(x, t, c, k, i - 1, b)
        BY <1>1, <2>1, <3>1, <4>1 DEF Holds, q
      <4> QED BY <2>1, <3>1, <4>1, <4>2
    <3> QED BY <3>2, <3>3
  <2>2. CASE x = "held"
    BY <1>1, <2>2 DEF Holds
  <2>3. CASE x # "held" /\ ~(x = "list" /\ t = t0 /\ c = c0)
    <3>1. CASE x = "list"
      BY <1>7, <2>3, <3>1 DEF Holds, BinIs
    <3>2. CASE x = "win"
      BY <1>6, <1>7, <2>3, <3>2 DEF Holds, BinIs
    <3>3. CASE x \in {"batch", "loose", "rest"}
      BY <1>2, <2>3, <3>3 DEF Holds
    <3>4. x \in {"list", "win", "batch", "loose", "rest"}
      BY <2>3 DEF Holds
    <3> QED BY <2>3, <3>1, <3>2, <3>3, <3>4
  <2> QED BY <2>1, <2>2, <2>3
<1>9. Proper' /\ Unique'
  BY <1>1, <1>4, <1>8, ReturnedKeeps DEF SlabInv
<1>10. t0 \in Workers => Len(y.list) < High
  <2>1. SUFFICES ASSUME t0 \in Workers PROVE Len(y.list) < High
    OBVIOUS
  <2>2. ThreadsEnabled
    BY <1>1, <2>1 DEF ThreadsEnabled
  <2> QED BY <1>3, <1>6, <2>2, SlabAssumption DEF Spills, High
<1>11. SharedIs(c0, shared[c0]) /\ shared[c0] \in Shareds
  BY <1>1, <1>2, Typed
<1>12. SlabInv'
  BY <1>1, <1>6, <1>7, <1>9, <1>10, <1>11, MoveSteps, Typed
<1>13. NoneLost => NoneLost'
  <2>1. {b0} \cup On(q) \subseteq On(y.list)
    BY <1>6, PushOn
  <2>2. Site(bin[t0][c0], shared[c0]) \cup held \subseteq Site(y, shared[c0]) \cup held'
    BY <1>1, <1>6, <2>1 DEF Site, q
  <2>3. Settles(t0) /\ class \in [Threads -> Classes]
    BY <1>1 DEF SlabInv, TypeOK, Settles
  <2> QED BY <1>1, <1>7, <1>11, <2>2, <2>3, SiteKeeps
<1> QED BY <1>12, <1>13

LEMMA FreeKeepsSpilled ==
  ASSUME SlabInv, NEW t0 \in Threads, NEW b0 \in held, Free(t0, b0),
         Spills(Pushed(bin[t0][spanClass[SpanOf(b0)]], b0))
  PROVE  SlabInv' /\ (NoneLost => NoneLost')
<1> DEFINE c0 == spanClass[SpanOf(b0)]
           g == shared[c0]
           q == bin[t0][c0].list
           x0 == Pushed(bin[t0][c0], b0)
           y == Spilled(x0)
           z == WithBatches(g, <<SubSeq(x0.list, 1, Batch)>> \o g.batches)
<1>1. /\ pc[t0] = "idle" /\ state = "ready" /\ held' = held \ {b0} /\ b0 \in Block
      /\ Holds("held", Main, Main, 0, 0, b0) /\ c0 \in Classes
      /\ UNCHANGED <<state, base, spanNext, spanClass, pc, class, misfreed>>
  BY FreePushes
<1>2. SetBin(t0, c0, y) /\ SetShared(c0, z)
  BY FreePushes DEF PushFreed
<1>3. Spills(x0)
  OBVIOUS
<1>4. spanClass[SpanOf(b0)] = c0
  OBVIOUS
<1> HIDE DEF c0
<1>5. /\ bin[t0][c0] \in Bins /\ bin[t0][c0].count = Len(q) /\ g \in Shareds
      /\ g.batches \in Seq(Seq(Block)) /\ g.looseN = Len(g.loose)
      /\ \A i \in 1 .. Len(g.batches) : Len(g.batches[i]) = Batch
      /\ t0 \in Workers => Len(q) < High
  BY <1>1, Typed, SharedTyped
<1>6. /\ x0 \in Bins /\ x0.win = bin[t0][c0].win /\ x0.count = Len(x0.list)
      /\ Len(x0.list) = Len(q) + 1 /\ Len(q) \in Nat /\ x0.list[1] = b0
      /\ \A i \in 2 .. Len(q) + 1 : x0.list[i] = q[i - 1]
  <2>1. PICK x : x = bin[t0][c0]
    OBVIOUS
  <2> QED BY <1>1, <1>5, <2>1, PushedIs
<1> HIDE DEF x0
<1>7. /\ Batch \in Nat \ {0} /\ x0.list \in Seq(Block) /\ 2 * Batch <= Len(q) + 1
  <2>1. x0.list \in Seq(Block)
    BY <1>6 DEF Bins
  <2> QED BY <1>3, <1>6, <2>1, SlabAssumption DEF Spills, High
<1>8. LET r == SubSeq(x0.list, Batch + 1, Len(x0.list)) IN
      /\ r \in Seq(Block) /\ Len(r) = Len(q) + 1 - Batch
      /\ \A i \in 1 .. Len(r) : r[i] = x0.list[i + Batch]
  <2>1. PICK m, l : m = Batch + 1 /\ l = x0.list
    OBVIOUS
  <2>2. m \in Nat \ {0} /\ m <= Len(l) + 1 /\ l \in Seq(Block) /\ Len(l) \in Nat
    BY <1>6, <1>7, <2>1
  <2>3. LET s == SubSeq(l, m, Len(l)) IN
        /\ s \in Seq(Block) /\ Len(s) = Len(l) - m + 1 /\ \A i \in 1 .. Len(s) : s[i] = l[i + m - 1]
    BY ONLY <2>2, CutIs
  <2> QED BY <1>6, <1>7, <2>1, <2>3
<1>9. LET r == SubSeq(x0.list, 1, Batch) IN
      /\ r \in Seq(Block) /\ Len(r) = Batch /\ \A i \in 1 .. Batch : r[i] = x0.list[i]
  <2>1. PICK l : l = x0.list
    OBVIOUS
  <2>2. l \in Seq(Block) /\ Batch <= Len(l) /\ Batch \in Nat
    BY <1>6, <1>7, <2>1
  <2>3. LET s == SubSeq(l, 1, Batch) IN
        /\ s \in Seq(Block) /\ Len(s) = Batch - 1 + 1 /\ \A i \in 1 .. Len(s) : s[i] = l[i + 1 - 1]
    BY ONLY <2>2, CutIs
  <2> QED BY <1>7, <2>1, <2>3
<1> DEFINE chain == SubSeq(x0.list, 1, Batch)
           rest == SubSeq(x0.list, Batch + 1, Len(x0.list))
<1>10. /\ chain \in Seq(Block) /\ Len(chain) = Batch /\ \A i \in 1 .. Batch : chain[i] = x0.list[i]
       /\ rest \in Seq(Block) /\ Len(rest) = Len(q) + 1 - Batch
       /\ \A i \in 1 .. Len(rest) : rest[i] = x0.list[i + Batch]
  BY <1>8, <1>9
<1>11. y = WithList(x0, rest, x0.count - Batch) /\ z = WithBatches(g, <<chain>> \o g.batches)
  BY DEF Spilled
<1> HIDE DEF chain, rest, y, z, g
<1>12. y \in Bins /\ y.list = rest /\ y.count = Len(rest) /\ y.win = bin[t0][c0].win
  <2>1. PICK n : n = x0.count - Batch
    OBVIOUS
  <2>2. n \in Nat /\ n = Len(rest)
    BY <1>6, <1>7, <1>10, <2>1
  <2>3. y \in Bins /\ y.list = rest /\ y.count = n /\ y.win = x0.win
    <3>1. PICK l, v : l = rest /\ v = y
      OBVIOUS
    <3>2. x0 \in Bins /\ l \in Seq(Block) /\ n \in Nat /\ v = WithList(x0, l, n)
      BY <1>6, <1>10, <1>11, <2>1, <2>2, <3>1
    <3>3. v \in Bins /\ v.list = l /\ v.count = n /\ v.win = x0.win
      BY ONLY <3>2, WithListIs
    <3> QED BY <3>1, <3>3
  <2> QED BY <1>6, <2>2, <2>3
<1>13. LET s == <<chain>> \o g.batches IN
       /\ s \in Seq(Seq(Block)) /\ Len(s) = Len(g.batches) + 1 /\ Len(g.batches) \in Nat
       /\ s[1] = chain /\ \A i \in 2 .. Len(g.batches) + 1 : s[i] = g.batches[i - 1]
  <2>1. PICK l : l = g.batches
    OBVIOUS
  <2>2. l \in Seq(Seq(Block)) /\ chain \in Seq(Block)
    BY <1>5, <1>10, <2>1 DEF g
  <2>3. LET s == <<chain>> \o l IN
        /\ s \in Seq(Seq(Block)) /\ Len(s) = Len(l) + 1 /\ Len(l) \in Nat
        /\ s[1] = chain /\ \A i \in 2 .. Len(l) + 1 : s[i] = l[i - 1]
    BY ONLY <2>2, PushIs
  <2> QED BY <2>1, <2>3
<1> DEFINE bs == <<chain>> \o g.batches
<1>14. /\ bs \in Seq(Seq(Block)) /\ Len(bs) = Len(g.batches) + 1 /\ Len(g.batches) \in Nat
       /\ bs[1] = chain /\ \A i \in 2 .. Len(g.batches) + 1 : bs[i] = g.batches[i - 1]
       /\ z = WithBatches(g, bs)
  BY <1>11, <1>13
<1> HIDE DEF bs
<1>15. /\ z \in Shareds /\ z.batches = bs /\ z.loose = g.loose
       /\ z.looseN = g.looseN /\ z.rest = g.rest
  <2>1. PICK x, l, v : x = g /\ l = bs /\ v = z
    OBVIOUS
  <2>2. x \in Shareds /\ l \in Seq(Seq(Block)) /\ v = WithBatches(x, l)
    BY <1>5, <1>14, <2>1 DEF g
  <2>3. v \in Shareds /\ v.batches = l /\ v.loose = x.loose /\ v.looseN = x.looseN /\ v.rest = x.rest
    BY ONLY <2>2, WithBatchesIs
  <2> QED BY <2>1, <2>3
<1> HIDE DEF q
<1>16. BinIs(t0, c0, y) /\ SharedIs(c0, z)
  <2>1. TypeOK
    BY DEF SlabInv
  <2> QED BY <1>1, <1>2, <1>12, <1>15, <2>1, BinSet, SharedSet
<1>17. Split(t0, c0, b0, Batch)
  <2> SUFFICES ASSUME NEW x, NEW t, NEW c, NEW k, NEW i, NEW b, Holds(x, t, c, k, i, b)'
               PROVE  IF x = "list" /\ t = t0 /\ c = c0
                      THEN k = 0 /\ i \in Nat \ {0} /\ Holds(x, t, c, k, i + Batch - 1, b)
                      ELSE IF x = "batch" /\ c = c0
                      THEN t = Main /\ \/ k = 1 /\ i = 1 /\ b = b0
                                       \/ k = 1 /\ i \in 2 .. Batch /\ Holds("list", t0, c0, 0, i - 1, b)
                                       \/ k \in Nat \ {0, 1} /\ Holds(x, t, c, k - 1, i, b)
                      ELSE Holds(x, t, c, k, i, b) /\ (x = "held" => b # b0)
    BY DEF Split
  <2>1. CASE x = "list" /\ t = t0 /\ c = c0
    <3>1. k = 0 /\ i \in 1 .. Len(rest) /\ b = rest[i]
      BY <1>1, <1>12, <1>16, <2>1 DEF Holds, BinIs
    <3>2. i \in Nat \ {0} /\ i + Batch \in 2 .. Len(q) + 1 /\ b = x0.list[i + Batch]
      <4>1. b = rest[i] /\ rest[i] = x0.list[i + Batch]
        BY <1>10, <3>1
      <4>2. Len(rest) = Len(q) + 1 - Batch /\ Len(q) \in Nat /\ Batch \in Nat \ {0}
        BY <1>6, <1>7, <1>10
      <4>3. i \in Nat \ {0} /\ i + Batch \in 2 .. Len(q) + 1
        BY <3>1, <4>2
      <4> QED BY <4>1, <4>3
    <3>3. i + Batch - 1 \in 1 .. Len(q) /\ b = q[i + Batch - 1]
      BY <1>6, <1>7, <3>2
    <3>4. Holds(x, t, c, k, i + Batch - 1, b)
      BY <1>1, <2>1, <3>1, <3>3 DEF Holds, q
    <3> QED BY <2>1, <3>1, <3>2, <3>4
  <2>2. CASE x = "batch" /\ c = c0
    <3>1. t = Main /\ k \in 1 .. Len(bs) /\ i \in 1 .. Len(bs[k]) /\ b = bs[k][i]
      BY <1>1, <1>15, <1>16, <2>2 DEF Holds, SharedIs
    <3>2. CASE k = 1 /\ i = 1
      BY <1>6, <1>7, <1>10, <1>14, <2>2, <3>1, <3>2
    <3>3. CASE k = 1 /\ i # 1
      <4>1. i \in 2 .. Batch /\ b = x0.list[i]
        BY <1>7, <1>10, <1>14, <3>1, <3>3
      <4>2. i - 1 \in 1 .. Len(q) /\ b = q[i - 1]
        BY <1>6, <1>7, <4>1
      <4>3. Holds("list", t0, c0, 0, i - 1, b)
        BY <1>1, <4>2 DEF Holds, q
      <4> QED BY <2>2, <3>1, <3>3, <4>1, <4>3
    <3>4. CASE k # 1
      <4>1. k \in Nat \ {0, 1} /\ k - 1 \in 1 .. Len(g.batches) /\ bs[k] = g.batches[k - 1]
        <5>1. k \in 1 .. Len(g.batches) + 1 /\ Len(g.batches) \in Nat
          BY <1>14, <3>1
        <5>2. k \in 2 .. Len(g.batches) + 1 /\ k \in Nat \ {0, 1} /\ k - 1 \in 1 .. Len(g.batches)
          BY ONLY <3>4, <5>1
        <5> QED BY <1>14, <5>2
      <4>2. Holds(x, t, c, k - 1, i, b)
        BY <1>1, <2>2, <3>1, <4>1 DEF Holds, g
      <4> QED BY <2>2, <3>1, <4>1, <4>2
    <3> QED BY <3>2, <3>3, <3>4
  <2>3. CASE x = "held"
    BY <1>1, <2>3 DEF Holds
  <2>4. CASE x # "held" /\ ~(x = "list" /\ t = t0 /\ c = c0) /\ ~(x = "batch" /\ c = c0)
    <3>1. \A d \in Classes : shared'[d].loose = shared[d].loose /\ shared'[d].rest = shared[d].rest
      BY <1>15, <1>16 DEF SharedIs, g
    <3>2. CASE x = "list"
      BY <1>16, <2>4, <3>2 DEF Holds, BinIs
    <3>3. CASE x = "win"
      BY <1>12, <1>16, <2>4, <3>3 DEF Holds, BinIs
    <3>4. CASE x = "batch"
      BY <1>16, <2>4, <3>4 DEF Holds, SharedIs
    <3>5. CASE x \in {"loose", "rest"}
      BY <2>4, <3>1, <3>5 DEF Holds
    <3>6. x \in {"list", "win", "batch", "loose", "rest"}
      BY <2>4 DEF Holds
    <3> QED BY <2>4, <3>2, <3>3, <3>4, <3>5, <3>6
  <2> QED BY <2>1, <2>2, <2>3, <2>4
<1>18. Proper' /\ Unique'
  BY <1>1, <1>4, <1>7, <1>17, SplitKeeps DEF SlabInv
<1>19. t0 \in Workers => Len(y.list) < High
  BY <1>5, <1>6, <1>7, <1>10, <1>12 DEF High
<1>20. /\ y.count = Len(y.list) /\ z.looseN = Len(z.loose)
       /\ \A i \in 1 .. Len(z.batches) : Len(z.batches[i]) = Batch
  <2>1. y.count = Len(y.list) /\ z.looseN = Len(z.loose)
    BY <1>5, <1>12, <1>15 DEF g
  <2>2. ASSUME NEW i \in 1 .. Len(bs) PROVE Len(bs[i]) = Batch
    <3>1. CASE i = 1
      BY <1>10, <1>14, <3>1
    <3>2. CASE i # 1
      <4>1. i - 1 \in 1 .. Len(g.batches) /\ bs[i] = g.batches[i - 1]
        BY <1>14, <3>2
      <4> QED BY <1>5, <4>1 DEF g
    <3> QED BY <3>1, <3>2
  <2> QED BY <1>15, <2>1, <2>2
<1>21. SlabInv'
  BY <1>1, <1>12, <1>15, <1>16, <1>18, <1>19, <1>20, MoveSteps, Typed
<1>22. NoneLost => NoneLost'
  <2>1. {b0} \cup On(q) \subseteq On(x0.list)
    BY <1>6, PushOn
  <2>2. On(x0.list) \subseteq On(chain) \cup On(rest)
    <3> SUFFICES ASSUME NEW j \in 1 .. Len(x0.list) PROVE x0.list[j] \in On(chain) \cup On(rest)
      BY DEF On
    <3>1. CASE j <= Batch
      <4>1. j \in 1 .. Len(chain) /\ chain[j] = x0.list[j]
        BY <1>7, <1>10, <3>1
      <4> QED BY <4>1 DEF On
    <3>2. CASE Batch < j
      <4>1. PICK i : i = j - Batch
        OBVIOUS
      <4>2. i \in 1 .. Len(rest) /\ i + Batch = j
        BY <1>6, <1>7, <1>10, <3>2, <4>1
      <4>3. rest[i] = x0.list[j]
        BY <1>10, <4>2
      <4> QED BY <4>2, <4>3 DEF On
    <3> QED BY <1>6, <1>7, <3>1, <3>2
  <2>3. On(chain) \cup OnAll(g.batches) \subseteq OnAll(bs)
    BY <1>14, PushOnAll
  <2>4. Site(bin[t0][c0], shared[c0]) \cup held \subseteq Site(y, z) \cup held'
    BY <1>1, <1>12, <1>15, <2>1, <2>2, <2>3 DEF Site, q, g
  <2>5. z.rest = shared[c0].rest
    BY <1>15 DEF g
  <2>6. Settles(t0) /\ class \in [Threads -> Classes]
    BY <1>1 DEF SlabInv, TypeOK, Settles
  <2> QED BY <1>1, <1>16, <2>4, <2>5, <2>6, SiteKeeps
<1> QED BY <1>21, <1>22

(* slab_flush_tls moves the first block of a cache's list `at` to the loose  *)
(* blocks of its class.                                                      *)
LEMMA FlushMoves ==
  ASSUME SlabInv, NEW t0 \in Threads, NEW c0 \in Classes, pc[t0] = "flush",
         NEW at, NEW q, q \in Seq(Block), q # <<>>, NEW y, y \in Bins,
         \/ at = "list" /\ q = bin[t0][c0].list /\ y.list = Tail(q) /\ y.win = bin[t0][c0].win
         \/ at = "win" /\ q = bin[t0][c0].win /\ y.win = Tail(q) /\ y.list = bin[t0][c0].list,
         SetBin(t0, c0, y),
         SetShared(c0, WithLoose(shared[c0], <<Head(q)>> \o shared[c0].loose, shared[c0].looseN + 1)),
         UNCHANGED <<state, base, spanNext, spanClass, held, misfreed, pc, class>>
  PROVE  SlabInv' /\ (NoneLost => NoneLost')
<1> DEFINE g == shared[c0]
           l == <<Head(q)>> \o g.loose
           n == g.looseN + 1
           z == WithLoose(g, l, n)
<1>1. /\ Tail(q) \in Seq(Block) /\ Len(Tail(q)) = Len(q) - 1 /\ Len(q) \in Nat \ {0}
      /\ \A i \in 1 .. Len(Tail(q)) : Tail(q)[i] = q[i + 1]
      /\ Head(q) = q[1] /\ q[1] \in Block
  BY ONLY q \in Seq(Block), q # <<>>, TailIs
<1>2. /\ g \in Shareds /\ g.loose \in Seq(Block) /\ g.looseN = Len(g.loose)
      /\ \A i \in 1 .. Len(g.batches) : Len(g.batches[i]) = Batch
      /\ t0 \in Workers => Len(bin[t0][c0].list) < High
  BY SharedTyped, Typed
<1>3. SetShared(c0, z)
  OBVIOUS
<1> HIDE DEF g
<1>4. /\ l \in Seq(Block) /\ Len(l) = Len(g.loose) + 1 /\ Len(g.loose) \in Nat /\ l[1] = q[1]
      /\ \A i \in 2 .. Len(g.loose) + 1 : l[i] = g.loose[i - 1]
  <2>1. PICK s, b : s = g.loose /\ b = q[1]
    OBVIOUS
  <2>2. s \in Seq(Block) /\ b \in Block
    BY <1>1, <1>2, <2>1
  <2>3. /\ <<b>> \o s \in Seq(Block) /\ Len(<<b>> \o s) = Len(s) + 1 /\ Len(s) \in Nat
        /\ (<<b>> \o s)[1] = b
        /\ \A i \in 2 .. Len(s) + 1 : (<<b>> \o s)[i] = s[i - 1]
    BY ONLY <2>2, PushIs
  <2>4. l = <<b>> \o s
    BY <1>1, <2>1
  <2> HIDE DEF l
  <2> QED BY <2>1, <2>3, <2>4
<1>5. n \in Nat /\ n = Len(l)
  <2> HIDE DEF l
  <2> QED BY <1>2, <1>4
<1>6. z \in Shareds /\ z.batches = g.batches /\ z.loose = l /\ z.looseN = n /\ z.rest = g.rest
  <2>1. PICK x, k, m, v : x = g /\ k = l /\ m = n /\ v = z
    OBVIOUS
  <2>2. x \in Shareds /\ k \in Seq(Block) /\ m \in Nat /\ v = WithLoose(x, k, m)
    BY <1>2, <1>4, <1>5, <2>1
  <2>3. v \in Shareds /\ v.batches = x.batches /\ v.loose = k /\ v.looseN = m /\ v.rest = x.rest
    BY ONLY <2>2, WithLooseIs
  <2> HIDE DEF l, n, z
  <2> QED BY <2>1, <2>3
<1> HIDE DEF l, n, z
<1>7. BinIs(t0, c0, y) /\ SharedIs(c0, z)
  <2>1. TypeOK
    BY DEF SlabInv
  <2> QED BY <1>3, <1>6, <2>1, BinSet, SharedSet
<1>8. \A j \in 1 .. Len(q) : Holds(at, t0, c0, 0, j, q[j])
  BY DEF Holds
<1>9. Flushed(at, t0, c0)
  <2> SUFFICES ASSUME NEW x, NEW t, NEW c, NEW k, NEW i, NEW b, Holds(x, t, c, k, i, b)'
               PROVE  IF x = at /\ t = t0 /\ c = c0 THEN i \in Nat \ {0} /\ Holds(x, t, c, k, i + 1, b)
                      ELSE IF x = "loose" /\ c = c0
                      THEN t = Main /\ k = 0 /\ \/ i = 1 /\ Holds(at, t0, c0, 0, 1, b)
                                                \/ i \in Nat \ {0, 1} /\ Holds(x, t, c, k, i - 1, b)
                      ELSE Holds(x, t, c, k, i, b)
    BY DEF Flushed
  <2>1. CASE x = at /\ t = t0 /\ c = c0
    <3>1. k = 0 /\ i \in 1 .. Len(Tail(q)) /\ b = Tail(q)[i]
      BY <1>7, <2>1 DEF Holds, BinIs
    <3>2. i \in Nat \ {0} /\ i + 1 \in 1 .. Len(q) /\ b = q[i + 1]
      BY <1>1, <3>1
    <3> QED BY <1>8, <2>1, <3>1, <3>2
  <2>2. CASE x = "loose" /\ c = c0
    <3>1. t = Main /\ k = 0 /\ i \in 1 .. Len(l) /\ b = l[i]
      BY <1>6, <1>7, <2>2 DEF Holds, SharedIs
    <3>2. CASE i = 1
      <4>1. b = q[1] /\ 1 \in 1 .. Len(q)
        BY <1>1, <1>4, <3>1, <3>2
      <4>2. Holds(at, t0, c0, 0, 1, b)
        BY <1>8, <4>1
      <4>3. x # at
        BY <2>2
      <4> QED BY <2>2, <3>1, <3>2, <4>2, <4>3
    <3>3. CASE i # 1
      <4>1. i \in Nat \ {0, 1} /\ i - 1 \in 1 .. Len(g.loose) /\ b = g.loose[i - 1]
        BY <1>4, <3>1, <3>3
      <4>2. Holds(x, t, c, k, i - 1, b)
        BY <2>2, <3>1, <4>1 DEF Holds, g
      <4>3. x # at
        BY <2>2
      <4> QED BY <2>2, <3>1, <4>1, <4>2, <4>3
    <3> QED BY <3>2, <3>3
  <2>3. CASE ~(x = at /\ t = t0 /\ c = c0) /\ ~(x = "loose" /\ c = c0)
    <3>1. \A d \in Classes : shared'[d].batches = shared[d].batches /\ shared'[d].rest = shared[d].rest
      BY <1>6, <1>7 DEF SharedIs, g
    <3>2. CASE x = "list"
      BY <1>7, <2>3, <3>2 DEF Holds, BinIs
    <3>3. CASE x = "win"
      BY <1>7, <2>3, <3>3 DEF Holds, BinIs
    <3>4. CASE x = "loose"
      BY <1>7, <2>3, <3>4 DEF Holds, SharedIs
    <3>5. CASE x \in {"batch", "rest"}
      BY <2>3, <3>1, <3>5 DEF Holds
    <3>6. CASE x = "held"
      BY <2>3, <3>6 DEF Holds
    <3>7. x \in {"list", "win", "batch", "loose", "rest", "held"}
      BY <2>3 DEF Holds
    <3> QED BY <2>3, <3>2, <3>3, <3>4, <3>5, <3>6, <3>7
  <2> QED BY <2>1, <2>2, <2>3
<1>10. Proper' /\ Unique'
  <2>1. at \in {"list", "win"}
    OBVIOUS
  <2> QED BY <1>9, <2>1, FlushedKeeps DEF SlabInv
<1>11. state = "ready"
  BY <1>1, <1>8, ReadyWhenHeld
<1>12. t0 \in Workers => Len(y.list) < High
  <2>1. t0 \in Workers => Len(bin[t0][c0].list) < High
    BY <1>2
  <2>2. Len(y.list) = Len(bin[t0][c0].list) \/ Len(y.list) = Len(bin[t0][c0].list) - 1
    BY <1>1
  <2>3. Len(bin[t0][c0].list) \in Nat
    BY SharedTyped
  <2> QED BY <2>1, <2>2, <2>3, SlabAssumption DEF High
<1>13. z.looseN = Len(z.loose) /\ \A i \in 1 .. Len(z.batches) : Len(z.batches[i]) = Batch
  BY <1>2, <1>5, <1>6
<1>14. SlabInv'
  BY <1>6, <1>7, <1>10, <1>11, <1>12, <1>13, MoveSteps, Typed
<1>15. NoneLost => NoneLost'
  <2>1. On(q) \subseteq {q[1]} \cup On(Tail(q))
    BY <1>1, TailOn
  <2>2. {q[1]} \cup On(g.loose) \subseteq On(l)
    BY <1>4, PushOn
  <2>3. Site(bin[t0][c0], shared[c0]) \cup held \subseteq Site(y, z) \cup held'
    BY <1>6, <2>1, <2>2 DEF Site, g
  <2>4. z.rest = shared[c0].rest
    BY <1>6 DEF g
  <2>5. Settles(t0) /\ class \in [Threads -> Classes]
    BY DEF SlabInv, TypeOK, Settles
  <2> QED BY <1>7, <2>3, <2>4, <2>5, SiteKeeps
<1> QED BY <1>14, <1>15

LEMMA FlushOneKeeps ==
  ASSUME SlabInv, NEW t0 \in Threads, NEW c0 \in Classes, FlushOne(t0, c0)
  PROVE  SlabInv' /\ (NoneLost => NoneLost')
<1>1. PICK x : x = bin[t0][c0]
  OBVIOUS
<1>2. /\ x \in Bins /\ x.list \in Seq(Block) /\ x.win \in Seq(Block) /\ x.count \in Nat
      /\ pc[t0] = "flush"
      /\ UNCHANGED <<state, base, spanNext, spanClass, held, misfreed, pc, class>>
  BY <1>1, Typed DEF FlushOne, Bins
<1>3. CASE x.win # <<>>
  <2>1. PICK q, v, y : q = x.win /\ v = Tail(q) /\ y = WithWindow(x, v)
    OBVIOUS
  <2>2. q # <<>> /\ q \in Seq(Block) /\ v \in Seq(Block)
    BY <1>2, <1>3, <2>1, TailIs
  <2>3. y \in Bins /\ y.list = x.list /\ y.win = v
    <3>1. x \in Bins /\ y = WithWindow(x, v)
      BY <1>2, <2>1
    <3> QED BY ONLY <2>2, <3>1, WithWindowIs
  <2>4. /\ SetBin(t0, c0, y)
        /\ SetShared(c0, WithLoose(shared[c0], <<Head(q)>> \o shared[c0].loose, shared[c0].looseN + 1))
    BY <1>1, <1>3, <2>1 DEF FlushOne
  <2> QED BY <1>1, <1>2, <2>1, <2>2, <2>3, <2>4, FlushMoves
<1>4. CASE x.win = <<>>
  <2>1. PICK q, v, n, y : q = x.list /\ v = Tail(q) /\ n = x.count /\ y = WithList(x, v, n)
    OBVIOUS
  <2>2. q # <<>> /\ q \in Seq(Block) /\ v \in Seq(Block) /\ n \in Nat
    <3>1. q # <<>>
      BY <1>1, <1>4, <2>1 DEF FlushOne
    <3> QED BY <1>2, <2>1, <3>1, TailIs
  <2>3. y \in Bins /\ y.list = v /\ y.win = x.win
    <3>1. x \in Bins /\ y = WithList(x, v, n)
      BY <1>2, <2>1
    <3> QED BY ONLY <2>2, <3>1, WithListIs
  <2>4. /\ SetBin(t0, c0, y)
        /\ SetShared(c0, WithLoose(shared[c0], <<Head(q)>> \o shared[c0].loose, shared[c0].looseN + 1))
    BY <1>1, <1>4, <2>1 DEF FlushOne
  <2> QED BY <1>1, <1>2, <2>1, <2>2, <2>3, <2>4, FlushMoves
<1> QED BY <1>3, <1>4

-----------------------------------------------------------------------------
(* The steps that move no block.                                             *)
Still ==
  /\ UNCHANGED <<spanClass, held, misfreed>>
  /\ \A x, t, c, k, i, b : Holds(x, t, c, k, i, b)' => Holds(x, t, c, k, i, b)

LEMMA StillKeeps ==
  ASSUME Proper, Unique, Still,
         \/ UNCHANGED <<base, spanNext>>
         \/ \A x, t, c, k, i, b : ~Holds(x, t, c, k, i, b)
  PROVE  Proper' /\ Unique'
<1>1. Proper'
  BY DEF Proper, Still, Block, MapOf, SpanOf
<1>2. Unique'
  <2> SUFFICES ASSUME NEW x, NEW y, NEW t, NEW u, NEW c, NEW d, NEW k, NEW m, NEW i, NEW j, NEW b,
                      Holds(x, t, c, k, i, b)', Holds(y, u, d, m, j, b)'
               PROVE  x = y /\ t = u /\ c = d /\ k = m /\ i = j
    BY DEF Unique
  <2> QED BY DEF Unique, Still
<1> QED BY <1>1, <1>2

LEMMA UnchangedStill ==
  ASSUME UNCHANGED <<spanClass, held, misfreed, bin, shared>>
  PROVE  Still
BY DEF Still, Holds

(* A step of t0 that moves no block and leaves the reservation alone: what   *)
(* its program counter may do.                                               *)
LEMMA PcSteps ==
  ASSUME SlabInv, NEW t0 \in Threads, NEW p \in {"idle", "init", "map", "refill", "flush"},
         pc' = [pc EXCEPT ![t0] = p], class' \in [Threads -> Classes],
         UNCHANGED <<state, base, spanNext, spanClass, held, misfreed, bin, shared>>,
         pc[t0] # "flush",
         p = "flush" => t0 \in Workers,
         p = "init" => state = "unused",
         p = "map" => FALSE,
         pc[t0] = "unborn" => state # "unused" /\ pc[Main] # "map"
  PROVE  SlabInv'
<1>1. /\ MainFirst /\ TypeOK /\ InitOnce /\ CountsAgree /\ GoneCachesEmpty /\ NeverToLibc
      /\ Proper /\ Unique
      /\ Main \notin Workers /\ Main \in Threads /\ Workers \subseteq Threads
  BY SlabAssumption DEF SlabInv, Threads
<1> HIDE DEF SlabInv
<1>2. pc' \in [Threads -> {"unborn", "idle", "init", "map", "refill", "flush", "exited"}]
  BY <1>1 DEF TypeOK
<1>3. TypeOK'
  BY <1>1, <1>2 DEF TypeOK, Block, Maps, Threads
<1>4. Proper' /\ Unique'
  BY <1>1, UnchangedStill, StillKeeps
<1>5. pc'[t0] = p /\ \A t \in Threads : t # t0 => pc'[t] = pc[t]
  BY <1>1 DEF TypeOK
<1>6. InitOnce'
  <2>1. \A w \in Workers : pc'[w] \notin {"init", "map"}
    BY <1>1, <1>5 DEF InitOnce
  <2>2. pc'[Main] \notin {"unborn", "flush", "exited"}
    BY <1>1, <1>5 DEF InitOnce
  <2>3. state' = "unused" => \A w \in Workers : pc'[w] = "unborn"
    BY <1>1, <1>5 DEF InitOnce
  <2>4. pc'[Main] = "init" => state' = "unused"
    BY <1>1, <1>5 DEF InitOnce
  <2>5. pc'[Main] = "map" => state' = "refused" /\ \A w \in Workers : pc'[w] = "unborn"
    BY <1>1, <1>5 DEF InitOnce
  <2>6. state' = "ready" => base' = Main
    BY <1>1 DEF InitOnce
  <2>7. state' # "ready" => \A x, t, c, k, i, b : ~Holds(x, t, c, k, i, b)'
    BY <1>1, UnchangedStill DEF InitOnce, Still
  <2> QED BY <2>1, <2>2, <2>3, <2>4, <2>5, <2>6, <2>7 DEF InitOnce
<1>7. CountsAgree'
  <2>1. \A t \in Threads, c \in Classes : pc'[t] # "flush" => bin'[t][c].count = Len(bin'[t][c].list)
    BY <1>1, <1>5 DEF CountsAgree
  <2> QED BY <1>1, <2>1 DEF CountsAgree, High
<1>8. GoneCachesEmpty'
  BY <1>1, <1>5 DEF GoneCachesEmpty, EmptyBin
<1> QED BY <1>1, <1>3, <1>4, <1>6, <1>7, <1>8 DEF SlabInv, NeverToLibc

LEMMA PcLoses ==
  ASSUME NoneLost, NEW t0 \in Threads, NEW p,
         pc \in [Threads -> {"unborn", "idle", "init", "map", "refill", "flush", "exited"}],
         pc' = [pc EXCEPT ![t0] = p], \A t \in Threads : t # t0 => class'[t] = class[t],
         p \in {"init", "map", "refill"} => bin[t0][class'[t0]].list = <<>>,
         UNCHANGED <<base, spanNext, held, bin, shared>>
  PROVE  NoneLost'
<1>1. MissedEmpty'
  <2> SUFFICES ASSUME NEW t \in Threads, pc'[t] \in {"init", "map", "refill"}
               PROVE  bin[t][class'[t]].list = <<>>
    BY DEF MissedEmpty
  <2>1. CASE t = t0
    BY <2>1
  <2>2. CASE t # t0
    BY <2>2 DEF NoneLost, MissedEmpty
  <2> QED BY <2>1, <2>2
<1>2. RestIsTail'
  BY DEF NoneLost, RestIsTail
<1>3. \A b : Somewhere(b) => Somewhere(b)'
  BY DEF Somewhere
<1> QED BY <1>1, <1>2, <1>3 DEF NoneLost

(* The place where a thread goes on looking for a block.                     *)
LEMMA PcGoesOn ==
  ASSUME SlabInv, NoneLost, NEW t0 \in Threads, NEW p,
         pc' = [pc EXCEPT ![t0] = p], class' = class,
         p \in {"init", "map", "refill"} => pc[t0] \in {"init", "map", "refill"},
         UNCHANGED <<base, spanNext, held, bin, shared>>
  PROVE  NoneLost'
<1>1. pc \in [Threads -> {"unborn", "idle", "init", "map", "refill", "flush", "exited"}]
  BY DEF SlabInv, TypeOK
<1>2. p \in {"init", "map", "refill"} => bin[t0][class[t0]].list = <<>>
  BY DEF NoneLost, MissedEmpty
<1> QED BY <1>1, <1>2, PcLoses

LEMMA InitStartsKeeps ==
  ASSUME SlabInv, NEW t0 \in Threads, InitStarts(t0)
  PROVE  SlabInv' /\ (NoneLost => NoneLost')
<1>1. /\ MainFirst /\ TypeOK /\ InitOnce /\ CountsAgree /\ GoneCachesEmpty /\ NeverToLibc
      /\ Proper /\ Unique
      /\ Main \notin Workers /\ Main \in Threads /\ Workers \subseteq Threads
  BY SlabAssumption DEF SlabInv, Threads
<1>2. /\ pc[t0] = "init" /\ state' = "refused" /\ pc' = [pc EXCEPT ![t0] = "map"]
      /\ UNCHANGED <<base, spanNext, spanClass, bin, shared, held, misfreed, class>>
  BY DEF InitStarts, Goto
<1>3. t0 = Main /\ state = "unused" /\ \A w \in Workers : pc[w] = "unborn"
  BY <1>1, <1>2 DEF InitOnce, Threads
<1>4. pc'[Main] = "map" /\ \A w \in Workers : pc'[w] = "unborn"
  BY <1>1, <1>2, <1>3 DEF TypeOK
<1> HIDE DEF SlabInv
<1>5. TypeOK'
  <2>1. pc' \in [Threads -> {"unborn", "idle", "init", "map", "refill", "flush", "exited"}]
    BY <1>1, <1>2 DEF TypeOK
  <2> QED BY <1>1, <1>2, <2>1 DEF TypeOK, Block, Maps, Threads
<1>6. Proper' /\ Unique'
  BY <1>1, <1>2, UnchangedStill, StillKeeps
<1>7. InitOnce'
  <2>1. \A x, t, c, k, i, b : ~Holds(x, t, c, k, i, b)'
    BY <1>1, <1>2, <1>3, UnchangedStill DEF InitOnce, Still
  <2> QED BY <1>2, <1>4, <2>1 DEF InitOnce
<1>8. CountsAgree'
  <2>1. \A t \in Threads, c \in Classes : bin[t][c].count = Len(bin[t][c].list)
    <3>1. \A t \in Threads : pc[t] # "flush"
      BY <1>2, <1>3 DEF Threads
    <3> QED BY <1>1, <3>1 DEF CountsAgree
  <2> QED BY <1>1, <1>2, <2>1 DEF CountsAgree, High
<1>9. GoneCachesEmpty'
  BY <1>1, <1>2, <1>3, <1>4 DEF GoneCachesEmpty, EmptyBin
<1>10. NoneLost => NoneLost'
  BY <1>2, PcGoesOn
<1> QED BY <1>1, <1>2, <1>5, <1>6, <1>7, <1>8, <1>9, <1>10 DEF SlabInv, NeverToLibc

LEMMA InitMapsKeeps ==
  ASSUME SlabInv, NEW t0 \in Threads, InitMaps(t0)
  PROVE  SlabInv' /\ (NoneLost => NoneLost')
<1>1. /\ MainFirst /\ TypeOK /\ InitOnce /\ CountsAgree /\ GoneCachesEmpty /\ NeverToLibc
      /\ Proper /\ Unique
      /\ Main \notin Workers /\ Main \in Threads /\ Workers \subseteq Threads
  BY SlabAssumption DEF SlabInv, Threads
<1>2. /\ pc[t0] = "map" /\ base' = t0 /\ spanNext' = 0 /\ state' = "ready"
      /\ pc' = [pc EXCEPT ![t0] = "refill"]
      /\ UNCHANGED <<spanClass, bin, shared, held, misfreed, class>>
  BY DEF InitMaps, Goto
<1>3. t0 = Main /\ state = "refused" /\ \A w \in Workers : pc[w] = "unborn"
  BY <1>1, <1>2 DEF InitOnce, Threads
<1>4. pc'[Main] = "refill" /\ \A w \in Workers : pc'[w] = "unborn"
  BY <1>1, <1>2, <1>3 DEF TypeOK
<1> HIDE DEF SlabInv
<1>5. TypeOK'
  <2>1. pc' \in [Threads -> {"unborn", "idle", "init", "map", "refill", "flush", "exited"}]
    BY <1>1, <1>2 DEF TypeOK
  <2>2. base' \in Maps \cup {"none"} /\ spanNext' \in 0 .. Spans
    BY <1>2, SlabAssumption DEF Maps
  <2> QED BY <1>1, <1>2, <2>1, <2>2 DEF TypeOK, Block, Maps, Threads
<1>6. \A x, t, c, k, i, b : ~Holds(x, t, c, k, i, b)
  BY <1>1, <1>3 DEF InitOnce
<1>7. Proper' /\ Unique'
  <2>1. Still
    BY <1>2, UnchangedStill
  <2> QED BY <1>1, <1>6, <2>1, StillKeeps
<1>8. InitOnce'
  BY <1>2, <1>3, <1>4 DEF InitOnce
<1>9. CountsAgree'
  <2>1. \A t \in Threads, c \in Classes : bin[t][c].count = Len(bin[t][c].list)
    <3>1. \A t \in Threads : pc[t] # "flush"
      BY <1>2, <1>3 DEF Threads
    <3> QED BY <1>1, <3>1 DEF CountsAgree
  <2> QED BY <1>1, <1>2, <2>1 DEF CountsAgree, High
<1>10. GoneCachesEmpty'
  BY <1>1, <1>2, <1>3, <1>4 DEF GoneCachesEmpty, EmptyBin
<1>11. NoneLost => NoneLost'
  <2> SUFFICES ASSUME NoneLost PROVE NoneLost'
    OBVIOUS
  <2>1. RestIsTail'
    BY <1>2 DEF NoneLost, RestIsTail
  <2>2. MissedEmpty'
    <3> SUFFICES ASSUME NEW t \in Threads, pc'[t] \in {"init", "map", "refill"}
                 PROVE  bin[t][class[t]].list = <<>>
      BY <1>2 DEF MissedEmpty
    <3>1. t = Main
      BY <1>4 DEF Threads
    <3> QED BY <1>2, <1>3, <3>1 DEF NoneLost, MissedEmpty
  <2> QED BY <1>2, <2>1, <2>2 DEF NoneLost
<1> QED BY <1>1, <1>2, <1>5, <1>7, <1>8, <1>9, <1>10, <1>11 DEF SlabInv, NeverToLibc

LEMMA EndFlushKeeps ==
  ASSUME SlabInv, NEW w \in Workers, EndFlush(w)
  PROVE  SlabInv' /\ (NoneLost => NoneLost')
<1>1. /\ MainFirst /\ TypeOK /\ InitOnce /\ CountsAgree /\ GoneCachesEmpty /\ NeverToLibc
      /\ Proper /\ Unique
      /\ Main \notin Workers /\ Main \in Threads /\ Workers \subseteq Threads
  BY SlabAssumption DEF SlabInv, Threads
<1>2. /\ pc[w] = "flush" /\ \A c \in Classes : bin[w][c].win \o bin[w][c].list = <<>>
      /\ bin' = [bin EXCEPT ![w] = [c \in Classes |-> [bin[w][c] EXCEPT !.count = 0]]]
      /\ pc' = [pc EXCEPT ![w] = "exited"]
      /\ UNCHANGED <<state, base, spanNext, spanClass, shared, held, misfreed, class>>
  BY DEF EndFlush, Goto
<1> HIDE DEF SlabInv
<1>3. bin \in [Threads -> [Classes -> Bins]]
  BY <1>1 DEF TypeOK, Bins
<1>4. ASSUME NEW c \in Classes
      PROVE  bin[w][c].win = <<>> /\ bin[w][c].list = <<>> /\ [bin[w][c] EXCEPT !.count = 0] = EmptyBin
  <2>1. PICK x, l, m : x = bin[w][c] /\ l = x.list /\ m = x.win
    OBVIOUS
  <2>2. x \in Bins /\ l \in Seq(Block) /\ m \in Seq(Block) /\ m \o l = <<>>
    BY <1>1, <1>2, <1>3, <2>1 DEF Bins
  <2>3. l = <<>> /\ m = <<>>
    BY ONLY <2>2
  <2>4. [x EXCEPT !.count = 0] = EmptyBin
    <3>1. x.list = <<>> /\ x.win = <<>>
      BY <2>1, <2>3
    <3>2. x = [list |-> x.list, count |-> x.count, win |-> x.win]
      BY ONLY <2>2 DEF Bins
    <3> QED BY ONLY <3>1, <3>2 DEF EmptyBin
  <2> QED BY <2>1, <2>3, <2>4
<1>5. /\ \A c \in Classes : bin'[w][c] = EmptyBin
      /\ \A t \in Threads, c \in Classes : t # w => bin'[t][c] = bin[t][c]
      /\ bin' \in [Threads -> [Classes -> Bins]]
  <2>1. EmptyBin \in Bins
    BY DEF EmptyBin, Bins
  <2>2. [c \in Classes |-> [bin[w][c] EXCEPT !.count = 0]] = [c \in Classes |-> EmptyBin]
    BY <1>4
  <2>3. bin' = [bin EXCEPT ![w] = [c \in Classes |-> EmptyBin]]
    BY <1>2, <2>2
  <2> QED BY <1>1, <1>3, <2>1, <2>3
<1>6. pc'[w] = "exited" /\ \A t \in Threads : t # w => pc'[t] = pc[t]
  BY <1>1, <1>2 DEF TypeOK
<1>7. TypeOK'
  <2>1. pc' \in [Threads -> {"unborn", "idle", "init", "map", "refill", "flush", "exited"}]
    BY <1>1, <1>2 DEF TypeOK
  <2>2. bin' \in [Threads -> [Classes -> [list : Seq(Block), count : Nat, win : Seq(Block)]]]
    BY <1>5 DEF Bins
  <2> QED BY <1>1, <1>2, <2>1, <2>2 DEF TypeOK, Block, Maps, Threads
<1>8. Still
  <2> SUFFICES ASSUME NEW x, NEW t, NEW c, NEW k, NEW i, NEW b, Holds(x, t, c, k, i, b)'
               PROVE  Holds(x, t, c, k, i, b)
    BY <1>2 DEF Still
  <2>1. CASE x \in {"list", "win"}
    <3>1. t # w
      BY <1>5, <2>1 DEF Holds, EmptyBin
    <3> QED BY <1>5, <2>1, <3>1 DEF Holds
  <2>2. CASE x \notin {"list", "win"}
    BY <1>2, <2>2 DEF Holds
  <2> QED BY <2>1, <2>2
<1>9. Proper' /\ Unique'
  BY <1>1, <1>2, <1>8, StillKeeps
<1>10. InitOnce'
  <2>1. state' # "ready" => \A x, t, c, k, i, b : ~Holds(x, t, c, k, i, b)'
    BY <1>1, <1>2, <1>8 DEF InitOnce, Still
  <2>2. state # "unused" /\ pc[Main] # "map"
    BY <1>1, <1>2 DEF InitOnce
  <2>3. \A u \in Workers : pc'[u] \notin {"init", "map"}
    BY <1>1, <1>6 DEF InitOnce
  <2>4. pc'[Main] = pc[Main]
    BY <1>1, <1>6
  <2> QED BY <1>1, <1>2, <2>1, <2>2, <2>3, <2>4 DEF InitOnce
<1>11. CountsAgree'
  <2>1. EmptyBin.count = 0 /\ EmptyBin.list = <<>> /\ Len(EmptyBin.list) = 0
    BY DEF EmptyBin
  <2>2. \A t \in Threads, c \in Classes : pc'[t] # "flush" => bin'[t][c].count = Len(bin'[t][c].list)
    BY <1>1, <1>5, <1>6, <2>1 DEF CountsAgree
  <2>3. \A u \in Workers, c \in Classes : Len(bin'[u][c].list) < High
    <3>1. 0 < High
      BY SlabAssumption DEF High
    <3> QED BY <1>1, <1>5, <2>1, <3>1 DEF CountsAgree
  <2> QED BY <1>1, <1>2, <2>2, <2>3 DEF CountsAgree, High
<1>12. GoneCachesEmpty'
  <2> SUFFICES ASSUME NEW u \in Workers, NEW c \in Classes, pc'[u] \in {"unborn", "exited"}
               PROVE  bin'[u][c] = EmptyBin
    BY DEF GoneCachesEmpty, EmptyBin
  <2> QED BY <1>1, <1>5, <1>6 DEF GoneCachesEmpty
<1>13. NoneLost => NoneLost'
  <2> SUFFICES ASSUME NoneLost PROVE NoneLost'
    OBVIOUS
  <2>1. RestIsTail'
    BY <1>2 DEF NoneLost, RestIsTail
  <2>2. MissedEmpty'
    BY <1>1, <1>2, <1>5, <1>6 DEF NoneLost, MissedEmpty
  <2>3. EmptyBin.list = <<>> /\ EmptyBin.win = <<>>
    BY DEF EmptyBin
  <2>4. ASSUME NEW t \in Threads, NEW c \in Classes
        PROVE  bin'[t][c].list = bin[t][c].list /\ bin'[t][c].win = bin[t][c].win
    BY <1>4, <1>5, <2>3
  <2>5. ASSUME NEW t \in Threads, NEW c \in Classes
        PROVE  Site(bin'[t][c], shared'[c]) = Site(bin[t][c], shared[c])
    BY <1>2, <2>4 DEF Site
  <2>6. \A b : Somewhere(b) => Somewhere(b)'
    BY <1>2, <2>5 DEF Somewhere
  <2> QED BY <1>2, <2>1, <2>2, <2>6 DEF NoneLost
<1> QED BY <1>1, <1>2, <1>7, <1>9, <1>10, <1>11, <1>12, <1>13 DEF SlabInv, NeverToLibc

LEMMA SlabInit == MainFirst /\ Init => SlabInv
<1> SUFFICES ASSUME MainFirst, Init PROVE SlabInv
  OBVIOUS
<1>1. Main \notin Workers /\ Main \in Threads /\ Workers \subseteq Threads /\ Classes # {}
  BY SlabAssumption DEF Threads
<1>2. (CHOOSE c \in Classes : TRUE) \in Classes
  BY <1>1
<1>3. EmptyBin \in Bins /\ EmptyShared \in Shareds
  BY DEF EmptyBin, Bins, EmptyShared, Shareds
<1>4. /\ bin \in [Threads -> [Classes -> Bins]] /\ shared \in [Classes -> Shareds]
      /\ \A t \in Threads, c \in Classes : bin[t][c] = EmptyBin
      /\ \A c \in Classes : shared[c] = EmptyShared
  BY <1>3 DEF Init
<1>5. /\ EmptyBin.list = <<>> /\ EmptyBin.win = <<>> /\ EmptyBin.count = 0
      /\ EmptyShared.batches = <<>> /\ EmptyShared.loose = <<>> /\ EmptyShared.looseN = 0
      /\ EmptyShared.rest = <<>>
  BY DEF EmptyBin, EmptyShared
<1>6. TypeOK
  <2>1. pc \in [Threads -> {"unborn", "idle", "init", "map", "refill", "flush", "exited"}]
    BY DEF Init
  <2>2. class \in [Threads -> Classes] /\ spanClass \in [1 .. Spans -> Classes]
    BY <1>2 DEF Init
  <2>3. spanNext \in 0 .. Spans
    BY SlabAssumption DEF Init
  <2> QED BY <1>4, <2>1, <2>2, <2>3 DEF TypeOK, Init, Bins, Shareds
<1>7. \A x, t, c, k, i, b : ~Holds(x, t, c, k, i, b)
  <2>1. held = {}
    BY DEF Init
  <2>2. Len(<<>>) = 0
    OBVIOUS
  <2> QED BY <1>4, <1>5, <2>1, <2>2 DEF Holds
<1>8. Proper /\ Unique
  BY <1>7 DEF Proper, Unique
<1>9. InitOnce
  BY <1>1, <1>7 DEF InitOnce, Init
<1>10. CountsAgree
  <2>1. 0 < High
    BY SlabAssumption DEF High
  <2> QED BY <1>1, <1>4, <1>5, <2>1 DEF CountsAgree
<1>11. GoneCachesEmpty
  BY <1>1, <1>4 DEF GoneCachesEmpty
<1> QED BY <1>6, <1>8, <1>9, <1>10, <1>11 DEF SlabInv, Init, NeverToLibc

LEMMA NoneLostInit == MainFirst /\ Init => NoneLost
<1> SUFFICES ASSUME MainFirst, Init PROVE NoneLost
  OBVIOUS
<1>1. \A c \in Classes : shared[c].rest = <<>>
  BY DEF Init, EmptyShared
<1>2. RestIsTail
  BY <1>1 DEF RestIsTail
<1>3. MissedEmpty
  BY DEF MissedEmpty, Init
<1>4. spanNext = 0
  BY DEF Init
<1> QED BY <1>2, <1>3, <1>4 DEF NoneLost

LEMMA SlabStep == SlabInv /\ [Next]_vars => SlabInv'
<1> SUFFICES ASSUME SlabInv, [Next]_vars PROVE SlabInv'
  OBVIOUS
<1>0. class \in [Threads -> Classes] /\ Workers \subseteq Threads /\ Main \notin Workers
  BY SlabAssumption DEF SlabInv, TypeOK, Threads
<1>1. ASSUME NEW t \in Threads, NEW c \in Classes, AllocHit(t, c) PROVE SlabInv'
  BY <1>1, AllocHitKeeps
<1>2. ASSUME NEW t \in Threads, NEW c \in Classes, AllocMiss(t, c) PROVE SlabInv'
  <2>1. PICK p : p = IF state = "unused" THEN "init" ELSE "refill"
    OBVIOUS
  <2>2. /\ pc[t] = "idle" /\ p \in {"init", "refill"} /\ pc' = [pc EXCEPT ![t] = p]
        /\ p = "init" => state = "unused"
        /\ class' \in [Threads -> Classes]
        /\ UNCHANGED <<state, base, spanNext, spanClass, bin, shared, held, misfreed>>
    BY <1>0, <1>2, <2>1 DEF AllocMiss, Goto
  <2> QED BY <2>2, PcSteps
<1>3. ASSUME NEW t \in Threads, InitStarts(t) PROVE SlabInv'
  BY <1>3, InitStartsKeeps
<1>4. ASSUME NEW t \in Threads, InitRefused(t) PROVE SlabInv'
  <2>1. /\ pc[t] = "map" /\ pc' = [pc EXCEPT ![t] = "refill"]
        /\ UNCHANGED <<state, base, spanNext, spanClass, bin, shared, held, misfreed, class>>
    BY <1>4 DEF InitRefused, Goto
  <2> QED BY <1>0, <2>1, PcSteps
<1>5. ASSUME NEW t \in Threads, InitMaps(t) PROVE SlabInv'
  BY <1>5, InitMapsKeeps
<1>6. ASSUME NEW t \in Threads, Refill(t) PROVE SlabInv'
  <2>1. CASE RefillRefused(t) \/ RefillExhausted(t)
    <3>1. /\ pc[t] = "refill" /\ pc' = [pc EXCEPT ![t] = "idle"]
          /\ UNCHANGED <<state, base, spanNext, spanClass, bin, shared, held, misfreed, class>>
      BY <2>1 DEF RefillRefused, RefillExhausted, NothingShared, NeedsShared, Goto
    <3> QED BY <1>0, <3>1, PcSteps
  <2>2. CASE RefillWindow(t)
    BY <2>2, RefillWindowKeeps
  <2>3. CASE RefillBatch(t)
    BY <2>3, RefillBatchKeeps
  <2>4. CASE RefillLoose(t)
    BY <2>4, RefillLooseKeeps
  <2>5. CASE RefillBump(t)
    BY <2>5, RefillBumpKeeps
  <2>6. CASE RefillSpan(t)
    BY <2>6, RefillSpanKeeps
  <2> QED BY <1>6, <2>1, <2>2, <2>3, <2>4, <2>5, <2>6 DEF Refill
<1>7. ASSUME NEW t \in Threads, NEW b \in held, Free(t, b) PROVE SlabInv'
  BY <1>7, FreeKeepsCached, FreeKeepsSpilled
<1>8. ASSUME NEW w \in Workers, ThreadEnters(w) PROVE SlabInv'
  <2>1. /\ pc[w] = "unborn" /\ pc' = [pc EXCEPT ![w] = "idle"] /\ state # "unused" /\ CanSpawn
        /\ UNCHANGED <<state, base, spanNext, spanClass, bin, shared, held, misfreed, class>>
    BY <1>8 DEF ThreadEnters, Goto, SlabInv
  <2>2. pc[Main] # "map"
    BY <1>0, <2>1 DEF SlabInv, InitOnce, CanSpawn, Threads
  <2> QED BY <1>0, <2>1, <2>2, PcSteps
<1>9. ASSUME NEW w \in Workers, BeginFlush(w) PROVE SlabInv'
  <2>1. /\ pc[w] = "idle" /\ pc' = [pc EXCEPT ![w] = "flush"]
        /\ UNCHANGED <<state, base, spanNext, spanClass, bin, shared, held, misfreed, class>>
    BY <1>9 DEF BeginFlush, Goto
  <2> QED BY <1>0, <2>1, PcSteps
<1>10. ASSUME NEW w \in Workers, NEW c \in Classes, FlushOne(w, c) PROVE SlabInv'
  BY <1>0, <1>10, FlushOneKeeps
<1>11. ASSUME NEW w \in Workers, EndFlush(w) PROVE SlabInv'
  BY <1>11, EndFlushKeeps
<1>12. ASSUME NEW w \in Workers, NextThread(w) PROVE SlabInv'
  <2>1. /\ pc[w] = "exited" /\ pc' = [pc EXCEPT ![w] = "idle"]
        /\ UNCHANGED <<state, base, spanNext, spanClass, bin, shared, held, misfreed, class>>
    BY <1>12 DEF NextThread, Goto
  <2> QED BY <1>0, <2>1, PcSteps
<1>13. ASSUME UNCHANGED vars PROVE SlabInv'
  <2>1. UNCHANGED <<state, base, spanNext, spanClass, bin, shared, held, misfreed, pc, class>>
    BY <1>13 DEF vars
  <2>2. Proper' /\ Unique'
    BY <2>1, UnchangedStill, StillKeeps DEF SlabInv
  <2>3. TypeOK' /\ CountsAgree' /\ GoneCachesEmpty' /\ NeverToLibc'
    BY <2>1 DEF SlabInv, TypeOK, CountsAgree, GoneCachesEmpty, NeverToLibc
  <2>4. InitOnce'
    BY <2>1 DEF SlabInv, InitOnce, Holds
  <2> QED BY <2>2, <2>3, <2>4 DEF SlabInv
<1> QED BY <1>1, <1>2, <1>3, <1>4, <1>5, <1>6, <1>7, <1>8, <1>9, <1>10, <1>11, <1>12, <1>13 DEF Next

LEMMA NoneLostStep == SlabInv /\ NoneLost /\ [Next]_vars => NoneLost'
<1> SUFFICES ASSUME SlabInv, NoneLost, [Next]_vars PROVE NoneLost'
  OBVIOUS
<1>0. /\ class \in [Threads -> Classes] /\ Workers \subseteq Threads
      /\ pc \in [Threads -> {"unborn", "idle", "init", "map", "refill", "flush", "exited"}]
  BY DEF SlabInv, TypeOK, Threads
<1>1. ASSUME NEW t \in Threads, NEW c \in Classes, AllocHit(t, c) PROVE NoneLost'
  BY <1>1, AllocHitKeeps
<1>2. ASSUME NEW t \in Threads, NEW c \in Classes, AllocMiss(t, c) PROVE NoneLost'
  <2>1. PICK p : pc' = [pc EXCEPT ![t] = p]
    BY <1>2 DEF AllocMiss, Goto
  <2>2. /\ bin[t][c].list = <<>> /\ class' = [class EXCEPT ![t] = c]
        /\ UNCHANGED <<base, spanNext, held, bin, shared>>
    BY <1>2 DEF AllocMiss
  <2>3. class'[t] = c /\ \A u \in Threads : u # t => class'[u] = class[u]
    BY <1>0, <2>2
  <2> QED BY <1>0, <2>1, <2>2, <2>3, PcLoses
<1>3. ASSUME NEW t \in Threads, InitStarts(t) PROVE NoneLost'
  BY <1>3, InitStartsKeeps
<1>4. ASSUME NEW t \in Threads, InitRefused(t) PROVE NoneLost'
  BY <1>4, PcGoesOn DEF InitRefused, Goto
<1>5. ASSUME NEW t \in Threads, InitMaps(t) PROVE NoneLost'
  BY <1>5, InitMapsKeeps
<1>6. ASSUME NEW t \in Threads, Refill(t) PROVE NoneLost'
  <2>1. CASE RefillRefused(t) \/ RefillExhausted(t)
    <3>1. /\ pc' = [pc EXCEPT ![t] = "idle"] /\ class' = class
          /\ UNCHANGED <<base, spanNext, held, bin, shared>>
      BY <2>1 DEF RefillRefused, RefillExhausted, Goto
    <3> QED BY <3>1, PcGoesOn
  <2>2. CASE RefillWindow(t)
    BY <2>2, RefillWindowKeeps
  <2>3. CASE RefillBatch(t)
    BY <2>3, RefillBatchKeeps
  <2>4. CASE RefillLoose(t)
    BY <2>4, RefillLooseKeeps
  <2>5. CASE RefillBump(t)
    BY <2>5, RefillBumpKeeps
  <2>6. CASE RefillSpan(t)
    BY <2>6, RefillSpanKeeps
  <2> QED BY <1>6, <2>1, <2>2, <2>3, <2>4, <2>5, <2>6 DEF Refill
<1>7. ASSUME NEW t \in Threads, NEW b \in held, Free(t, b) PROVE NoneLost'
  BY <1>7, FreeKeepsCached, FreeKeepsSpilled
<1>8. ASSUME NEW w \in Workers, ThreadEnters(w) \/ BeginFlush(w) \/ NextThread(w) PROVE NoneLost'
  <2>1. PICK p \in {"idle", "flush"} : pc' = [pc EXCEPT ![w] = p]
    BY <1>8 DEF ThreadEnters, BeginFlush, NextThread, Goto
  <2>2. class' = class /\ UNCHANGED <<base, spanNext, held, bin, shared>>
    BY <1>8 DEF ThreadEnters, BeginFlush, NextThread
  <2> QED BY <1>0, <2>1, <2>2, PcGoesOn
<1>9. ASSUME NEW w \in Workers, NEW c \in Classes, FlushOne(w, c) PROVE NoneLost'
  BY <1>0, <1>9, FlushOneKeeps
<1>10. ASSUME NEW w \in Workers, EndFlush(w) PROVE NoneLost'
  BY <1>10, EndFlushKeeps
<1>11. ASSUME UNCHANGED vars PROVE NoneLost'
  BY <1>11 DEF vars, NoneLost, RestIsTail, MissedEmpty, Somewhere
<1> QED BY <1>1, <1>2, <1>3, <1>4, <1>5, <1>6, <1>7, <1>8, <1>9, <1>10, <1>11 DEF Next

LEMMA SlabInvariant == MainFirst /\ Spec => []SlabInv
BY SlabInit, SlabStep, PTL DEF Spec

(* What a list has at an index is held there.                                *)
LEMMA Listed ==
  ASSUME TypeOK, NEW l \in BlockLists, NEW i \in DOMAIN ListOf(l)
  PROVE  /\ Holds(l.at, l.thread, l.class, l.nth, i, ListOf(l)[i]) /\ l.at # "held"
         /\ l = [at |-> l.at, thread |-> l.thread, class |-> l.class, nth |-> l.nth]
<1>1. bin \in [Threads -> [Classes -> Bins]] /\ shared \in [Classes -> Shareds]
  BY DEF TypeOK, Bins, Shareds
<1> HIDE DEF TypeOK
<1>2. CASE l \in [at : {"list", "win"}, thread : Threads, class : Classes, nth : {0}]
  <2>1. /\ l.at \in {"list", "win"} /\ l.thread \in Threads /\ l.class \in Classes /\ l.nth = 0
        /\ l = [at |-> l.at, thread |-> l.thread, class |-> l.class, nth |-> l.nth]
    BY <1>2
  <2>2. PICK x : x = bin[l.thread][l.class] /\ x \in Bins
    BY <1>1, <2>1
  <2>3. x.list \in Seq(Block) /\ x.win \in Seq(Block)
    BY <2>2 DEF Bins
  <2>4. CASE l.at = "list"
    <3>1. ListOf(l) = x.list
      BY <2>2, <2>4 DEF ListOf
    <3>2. i \in 1 .. Len(x.list)
      BY <2>3, <3>1
    <3> QED BY <2>1, <2>2, <2>4, <3>1, <3>2 DEF Holds
  <2>5. CASE l.at = "win"
    <3>1. ListOf(l) = x.win
      BY <2>2, <2>5 DEF ListOf
    <3>2. i \in 1 .. Len(x.win)
      BY <2>3, <3>1
    <3> QED BY <2>1, <2>2, <2>5, <3>1, <3>2 DEF Holds
  <2> QED BY <2>1, <2>4, <2>5
<1>3. CASE l \in [at : {"loose", "rest"}, thread : {Main}, class : Classes, nth : {0}]
  <2>1. /\ l.at \in {"loose", "rest"} /\ l.thread = Main /\ l.class \in Classes /\ l.nth = 0
        /\ l = [at |-> l.at, thread |-> l.thread, class |-> l.class, nth |-> l.nth]
    BY <1>3
  <2>2. PICK x : x = shared[l.class] /\ x \in Shareds
    BY <1>1, <2>1
  <2>3. x.loose \in Seq(Block) /\ x.rest \in Seq(Block)
    BY <2>2 DEF Shareds
  <2>4. CASE l.at = "loose"
    <3>1. ListOf(l) = x.loose
      BY <2>2, <2>4 DEF ListOf
    <3>2. i \in 1 .. Len(x.loose)
      BY <2>3, <3>1
    <3> QED BY <2>1, <2>2, <2>4, <3>1, <3>2 DEF Holds
  <2>5. CASE l.at = "rest"
    <3>1. ListOf(l) = x.rest
      BY <2>2, <2>5 DEF ListOf
    <3>2. i \in 1 .. Len(x.rest)
      BY <2>3, <3>1
    <3> QED BY <2>1, <2>2, <2>5, <3>1, <3>2 DEF Holds
  <2> QED BY <2>1, <2>4, <2>5
<1>4. ASSUME NEW c \in Classes,
             l \in [at : {"batch"}, thread : {Main}, class : {c}, nth : DOMAIN shared[c].batches]
      PROVE  /\ Holds(l.at, l.thread, l.class, l.nth, i, ListOf(l)[i]) /\ l.at # "held"
             /\ l = [at |-> l.at, thread |-> l.thread, class |-> l.class, nth |-> l.nth]
  <2>1. /\ l.at = "batch" /\ l.thread = Main /\ l.class = c /\ l.nth \in DOMAIN shared[c].batches
        /\ l = [at |-> l.at, thread |-> l.thread, class |-> l.class, nth |-> l.nth]
    BY <1>4
  <2>2. PICK s : s = shared[c].batches /\ s \in Seq(Seq(Block))
    BY <1>1 DEF Shareds
  <2>3. l.nth \in 1 .. Len(s) /\ s[l.nth] \in Seq(Block)
    BY <2>1, <2>2
  <2>4. ListOf(l) = s[l.nth]
    BY <2>1, <2>2 DEF ListOf
  <2>5. i \in 1 .. Len(s[l.nth])
    BY <2>3, <2>4
  <2> QED BY <2>1, <2>2, <2>3, <2>4, <2>5 DEF Holds
<1> QED BY <1>2, <1>3, <1>4 DEF BlockLists

LEMMA SlabInvSound == SlabInv => SlabIsSound
<1> SUFFICES ASSUME SlabInv PROVE SlabIsSound
  OBVIOUS
<1>1. TypeOK /\ Unique /\ Proper /\ CountsAgree
  BY DEF SlabInv
<1>2. ASSUME NEW l \in BlockLists, NEW m \in BlockLists,
             NEW i \in DOMAIN ListOf(l), NEW j \in DOMAIN ListOf(m), ListOf(l)[i] = ListOf(m)[j]
      PROVE  l = m /\ i = j
  <2>1. /\ Holds(l.at, l.thread, l.class, l.nth, i, ListOf(l)[i])
        /\ l = [at |-> l.at, thread |-> l.thread, class |-> l.class, nth |-> l.nth]
    BY <1>1, Listed
  <2>2. /\ Holds(m.at, m.thread, m.class, m.nth, j, ListOf(l)[i])
        /\ m = [at |-> m.at, thread |-> m.thread, class |-> m.class, nth |-> m.nth]
    BY <1>1, <1>2, Listed
  <2>3. l.at = m.at /\ l.thread = m.thread /\ l.class = m.class /\ l.nth = m.nth /\ i = j
    BY <1>1, <2>1, <2>2 DEF Unique
  <2> QED BY ONLY <2>1, <2>2, <2>3
<1>3. ASSUME NEW l \in BlockLists, NEW i \in DOMAIN ListOf(l)
      PROVE  ListOf(l)[i] \notin held /\ spanClass[SpanOf(ListOf(l)[i])] = l.class
  <2>1. Holds(l.at, l.thread, l.class, l.nth, i, ListOf(l)[i]) /\ l.at # "held"
    BY <1>1, Listed
  <2>2. ListOf(l)[i] \in held => Holds("held", Main, Main, 0, 0, ListOf(l)[i])
    BY DEF Holds
  <2>3. ListOf(l)[i] \notin held
    BY <1>1, <2>1, <2>2 DEF Unique
  <2>4. spanClass[SpanOf(ListOf(l)[i])] = l.class
    BY <1>1, <2>1 DEF Proper
  <2> QED BY <2>3, <2>4
<1>4. OnePlace
  BY <1>2, <1>3 DEF OnePlace
<1>5. ClassOfSpan
  BY <1>3 DEF ClassOfSpan
<1> QED BY <1>1, <1>4, <1>5 DEF SlabIsSound

(* When main has allocated before it spawns (MainFirst), every list of the   *)
(* allocator is what the code that walks it takes it for: whichever threads  *)
(* allocate, refill, free, spill and flush, and however many threads,        *)
(* classes and spans there are, a block is in one place, under the class of  *)
(* its span, and slab_refill and slab_spill walk as many links as there are. *)
THEOREM SlabSound == MainFirst /\ Spec => []SlabIsSound
BY SlabInvariant, SlabInvSound, PTL

(* What is on a list of a thread that runs, or on a shared one, can be had.  *)
LEMMA OnListIs ==
  ASSUME TypeOK, NEW b, NEW l \in BlockLists, b \in On(ListOf(l)), DOMAIN ListOf(l) = 1 .. Len(ListOf(l)),
         l.at \in {"list", "win"} => pc[l.thread] \notin {"unborn", "exited"}
  PROVE  Reachable(b)
BY DEF On, Reachable

LEMMA SomewhereReachable ==
  ASSUME SlabInv, NEW b, Somewhere(b)
  PROVE  Reachable(b)
<1>1. /\ TypeOK /\ GoneCachesEmpty /\ InitOnce
      /\ bin \in [Threads -> [Classes -> Bins]] /\ shared \in [Classes -> Shareds]
  BY DEF SlabInv, TypeOK, Bins, Shareds
<1>2. CASE b \in held
  BY <1>2 DEF Reachable
<1>3. ASSUME NEW t \in Threads, NEW c \in Classes, b \in Site(bin[t][c], shared[c])
      PROVE  Reachable(b)
  <2>1. PICK x, g : x = bin[t][c] /\ g = shared[c]
    OBVIOUS
  <2>2. /\ x.list \in Seq(Block) /\ x.win \in Seq(Block) /\ g.batches \in Seq(Seq(Block))
        /\ g.loose \in Seq(Block) /\ g.rest \in Seq(Block)
    BY <1>1, <2>1 DEF Bins, Shareds
  <2>3. b \in On(x.list) \cup On(x.win) \cup OnAll(g.batches) \cup On(g.loose) \cup On(g.rest)
    BY <1>3, <2>1 DEF Site
  <2>4. CASE b \in On(x.list) \cup On(x.win)
    <3>1. x # EmptyBin
      <4>1. On(EmptyBin.list) = {} /\ On(EmptyBin.win) = {}
        BY DEF EmptyBin, On
      <4> QED BY <2>4, <4>1
    <3>2. pc[t] \notin {"unborn", "exited"}
      BY <1>1, <2>1, <3>1 DEF GoneCachesEmpty, InitOnce, Threads
    <3>3. PICK at \in {"list", "win"} : b \in On(x[at]) /\ x[at] \in Seq(Block)
      BY <2>2, <2>4
    <3>4. PICK l : l = [at |-> at, thread |-> t, class |-> c, nth |-> 0]
      OBVIOUS
    <3>5. l \in BlockLists /\ ListOf(l) = x[at] /\ l.thread = t
      BY <2>1, <3>3, <3>4 DEF BlockLists, ListOf
    <3>6. DOMAIN ListOf(l) = 1 .. Len(ListOf(l))
      BY <3>3, <3>5
    <3> QED BY <1>1, <3>2, <3>3, <3>5, <3>6, OnListIs
  <2>5. CASE b \in On(g.loose) \cup On(g.rest)
    <3>1. PICK at \in {"loose", "rest"} : b \in On(g[at]) /\ g[at] \in Seq(Block)
      BY <2>2, <2>5
    <3>2. PICK l : l = [at |-> at, thread |-> Main, class |-> c, nth |-> 0]
      OBVIOUS
    <3>3. l \in BlockLists /\ ListOf(l) = g[at] /\ l.at \notin {"list", "win"}
      BY <2>1, <3>1, <3>2 DEF BlockLists, ListOf
    <3>4. DOMAIN ListOf(l) = 1 .. Len(ListOf(l))
      BY <3>1, <3>3
    <3> QED BY <1>1, <3>1, <3>3, <3>4, OnListIs
  <2>6. CASE b \in OnAll(g.batches)
    <3>1. PICK k \in 1 .. Len(g.batches) : b \in On(g.batches[k])
      BY <2>6 DEF OnAll
    <3>2. g.batches[k] \in Seq(Block) /\ k \in DOMAIN g.batches
      BY <2>2
    <3>3. PICK l : l = [at |-> "batch", thread |-> Main, class |-> c, nth |-> k]
      OBVIOUS
    <3>4. l \in [at : {"batch"}, thread : {Main}, class : {c}, nth : DOMAIN shared[c].batches]
      BY <2>1, <3>2, <3>3
    <3>5. l \in BlockLists
      BY <3>4 DEF BlockLists
    <3>6. ListOf(l) = g.batches[k] /\ l.at \notin {"list", "win"}
      BY <2>1, <3>3 DEF ListOf
    <3>7. DOMAIN ListOf(l) = 1 .. Len(ListOf(l))
      BY <3>2, <3>6
    <3> QED BY <1>1, <3>1, <3>5, <3>6, <3>7, OnListIs
  <2> QED BY <2>3, <2>4, <2>5, <2>6
<1> QED BY <1>2, <1>3 DEF Somewhere

(* No block is lost: whatever is spilled, refilled, freed by another thread  *)
(* or flushed by one that exits, every block that a span has given to a      *)
(* class is held, on a shared list or in the cache of a thread that runs.    *)
THEOREM SlabStrandsNothing == MainFirst /\ Spec => []NothingStranded
<1>1. MainFirst /\ Spec => []NoneLost
  BY NoneLostInit, NoneLostStep, SlabInvariant, PTL DEF Spec
<1>2. SlabInv /\ NoneLost => NothingStranded
  BY SomewhereReachable DEF NoneLost, NothingStranded
<1> QED BY <1>1, <1>2, SlabInvariant, PTL

(* rt_free passes no block of the range to libc's free.                      *)
THEOREM SlabKeepsItsBlocks == MainFirst /\ Spec => []NeverToLibc
<1>1. SlabInv => NeverToLibc
  BY DEF SlabInv
<1> QED BY <1>1, SlabInvariant, PTL

-----------------------------------------------------------------------------
(* Storage: the blocks of a Vec.                                             *)

(* The places a list's blocks can be in when no arena serves it.             *)
HeapShapes ==
  /\ DOMAIN vec = Vecs
  /\ \A l \in Vecs :
       /\ DOMAIN vec[l] = {"arena", "header", "data", "len", "cap"}
       /\ vec[l].arena \in Nat
       /\ vec[l].header = NoBlock => vec[l] = NoVec
       /\ vec[l].arena = 0 => /\ vec[l].header \in {NoBlock, HeapBlock}
                              /\ vec[l].data \in {NoBlock, HeapBlock, FusedBlock}

HeapInv ==
  /\ regions \in Seq(Range(regions))
  /\ HeapShapes
  /\ heap \subseteq Vecs \X {"header", "data"}
  /\ FreesAreHeapBlocks

(* What arena_alloc_slot returns is a piece of a chunk, or the heap's; and   *)
(* the stack of regions keeps its height.                                    *)
IsArena(a) ==
  a = [regions |-> a.regions, chunk |-> a.chunk, pool |-> a.pool, block |-> a.block]

Served(a, b) ==
  /\ IsArena(b)
  /\ b.block = HeapBlock \/ b.block.at = "arena"
  /\ b.regions = a.regions \/ \E k, v : b.regions = [a.regions EXCEPT ![k] = v]

LEMMA Blocks ==
  /\ NoBlock # HeapBlock /\ NoBlock # FusedBlock /\ HeapBlock # FusedBlock
  /\ NoBlock.at = "none" /\ HeapBlock.at = "heap" /\ FusedBlock.at = "fused"
  /\ NoVec.header = NoBlock /\ NoVec.data = NoBlock /\ NoVec.arena = 0
  /\ DOMAIN NoVec = {"arena", "header", "data", "len", "cap"}
BY DEF NoBlock, HeapBlock, FusedBlock, NoVec

LEMMA FieldsOf ==
  ASSUME NEW a, NEW R, NEW C, NEW P, NEW B, a = [regions |-> R, chunk |-> C, pool |-> P, block |-> B]
  PROVE  IsArena(a) /\ a.regions = R /\ a.chunk = C /\ a.pool = P /\ a.block = B
BY DEF IsArena

LEMMA CutServes ==
  ASSUME NEW a, IsArena(a), NEW k, NEW n
  PROVE  IsArena(Cut(a, k, n)) /\ Cut(a, k, n).block.at = "arena" /\ Cut(a, k, n).regions = a.regions
<1> DEFINE c == Head(a.regions[k])
           B == [at |-> "arena", chunk |-> {c}, from |-> a.chunk[c].used, units |-> n]
           C == [a.chunk EXCEPT ![c].used = @ + n]
<1>1. Cut(a, k, n) = [a EXCEPT !.block = B, !.chunk = C]
  BY DEF Cut, IsArena
<1>2. B.at = "arena"
  OBVIOUS
<1> HIDE DEF B, C, c
<1>3. [a EXCEPT !.block = B, !.chunk = C] =
        [regions |-> a.regions, chunk |-> C, pool |-> a.pool, block |-> B]
  <2> DEFINE d == [a EXCEPT !.block = B]
  <2>1. d = [regions |-> a.regions, chunk |-> a.chunk, pool |-> a.pool, block |-> B]
    BY DEF IsArena
  <2> HIDE DEF d
  <2>2. [d EXCEPT !.chunk = C] = [regions |-> a.regions, chunk |-> C, pool |-> a.pool, block |-> B]
    BY <2>1
  <2> QED BY <2>2 DEF d
<1> QED BY <1>1, <1>2, <1>3 DEF IsArena

(* The fields of what arena_chunk_new leaves. *)
LEMMA PoolFields ==
  ASSUME NEW a, IsArena(a), NEW k, NEW c
  PROVE  FromPool(a, k, c)
           = [regions |-> [a.regions EXCEPT ![k] = <<c>> \o @], chunk |-> [a.chunk EXCEPT ![c].used = 0],
              pool |-> a.pool \ {c}, block |-> a.block]
<1> DEFINE P == a.pool \ {c}
           C == [a.chunk EXCEPT ![c].used = 0]
           R == [a.regions EXCEPT ![k] = <<c>> \o @]
           d == [a EXCEPT !.pool = P]
           e == [d EXCEPT !.chunk = C]
<1>1. FromPool(a, k, c) = [e EXCEPT !.regions = R]
  BY DEF FromPool, IsArena
<1> HIDE DEF P, C, R
<1>2. [e EXCEPT !.regions = R] = [regions |-> R, chunk |-> C, pool |-> P, block |-> a.block]
  <2>1. d = [regions |-> a.regions, chunk |-> a.chunk, pool |-> P, block |-> a.block]
    BY DEF IsArena
  <2> HIDE DEF d
  <2>2. e = [regions |-> a.regions, chunk |-> C, pool |-> P, block |-> a.block]
    BY <2>1
  <2> HIDE DEF e
  <2> QED BY <2>2
<1> QED BY <1>1, <1>2 DEF P, C, R

LEMMA LibcFields ==
  ASSUME NEW a, IsArena(a), NEW k, NEW n, NEW c
  PROVE  FromLibc(a, k, n, c)
           = [regions |-> [a.regions EXCEPT ![k] = <<c>> \o @],
              chunk |-> [a.chunk EXCEPT ![c] = [cap |-> IF n > ChunkUnits THEN n ELSE ChunkUnits, used |-> 0]],
              pool |-> a.pool, block |-> a.block]
<1> DEFINE C == [a.chunk EXCEPT ![c] = [cap |-> IF n > ChunkUnits THEN n ELSE ChunkUnits, used |-> 0]]
           R == [a.regions EXCEPT ![k] = <<c>> \o @]
<1>1. FromLibc(a, k, n, c) = [[a EXCEPT !.chunk = C] EXCEPT !.regions = R]
  BY DEF FromLibc, IsArena
<1> HIDE DEF C, R
<1>2. [[a EXCEPT !.chunk = C] EXCEPT !.regions = R] = [regions |-> R, chunk |-> C, pool |-> a.pool, block |-> a.block]
  <2> DEFINE d == [a EXCEPT !.chunk = C]
  <2>1. d = [regions |-> a.regions, chunk |-> C, pool |-> a.pool, block |-> a.block]
    BY DEF IsArena
  <2> HIDE DEF d
  <2>2. [d EXCEPT !.regions = R] = [regions |-> R, chunk |-> C, pool |-> a.pool, block |-> a.block]
    BY <2>1
  <2> QED BY <2>2 DEF d
<1> QED BY <1>1, <1>2 DEF C, R

LEMMA ServeServes ==
  ASSUME NEW a, IsArena(a), NEW k, NEW n
  PROVE  Served(a, Serve(a, k, n))
<1>1. ASSUME NEW w, IsArena(w), \E v : w.regions = [a.regions EXCEPT ![k] = v]
      PROVE  Served(a, Cut(w, k, n))
  <2>1. IsArena(Cut(w, k, n)) /\ Cut(w, k, n).block.at = "arena" /\ Cut(w, k, n).regions = w.regions
    BY <1>1, CutServes
  <2> QED BY <1>1, <2>1 DEF Served
<1>2. ASSUME NEW c
      PROVE  Served(a, Cut(FromPool(a, k, c), k, n)) /\ Served(a, Cut(FromLibc(a, k, n, c), k, n))
  <2> DEFINE R == [a.regions EXCEPT ![k] = <<c>> \o @]
             p == FromPool(a, k, c)
             l == FromLibc(a, k, n, c)
  <2>1. \E v : R = [a.regions EXCEPT ![k] = v]
    OBVIOUS
  <2>2. \E C, P, B : p = [regions |-> R, chunk |-> C, pool |-> P, block |-> B]
    BY PoolFields
  <2>3. \E C, P, B : l = [regions |-> R, chunk |-> C, pool |-> P, block |-> B]
    BY LibcFields
  <2> HIDE DEF R, p, l
  <2>4. IsArena(p) /\ p.regions = R /\ IsArena(l) /\ l.regions = R
    BY <2>2, <2>3, FieldsOf
  <2>5. Served(a, Cut(p, k, n)) /\ Served(a, Cut(l, k, n))
    BY <1>1, <2>1, <2>4
  <2> QED BY <2>5 DEF p, l
<1>3. Served(a, Cut(a, k, n)) /\ Served(a, [a EXCEPT !.block = HeapBlock])
  BY CutServes DEF Served, IsArena
<1> QED BY <1>2, <1>3 DEF Serve

LEMMA ServeAtServes ==
  ASSUME NEW a, IsArena(a), NEW k, NEW n
  PROVE  Served(a, ServeAt(a, k, n))
<1>1. Served(a, [a EXCEPT !.block = HeapBlock])
  BY DEF Served, IsArena
<1>2. Served(a, Serve(a, k, n))
  BY ServeServes
<1> QED BY <1>1, <1>2 DEF ServeAt

LEMMA ArenaIs == IsArena(Arena) /\ Arena.regions = regions
BY DEF IsArena, Arena

(* The height of the stack and whether it is empty survive a service.        *)
LEMMA HeightKept ==
  ASSUME NEW r, r \in Seq(Range(r)), NEW k, NEW v, NEW s, s = [r EXCEPT ![k] = v]
  PROVE  s \in Seq(Range(s))
<1>1. PICK n \in Nat : DOMAIN r = 1 .. n
  OBVIOUS
<1>2. s = [i \in 1 .. n |-> s[i]] /\ \A i \in 1 .. n : s[i] \in Range(s)
  BY <1>1 DEF Range
<1>3. s \in [1 .. n -> Range(s)]
  BY ONLY <1>2
<1> QED BY ONLY <1>3, n \in Nat

LEMMA ServedRegions ==
  ASSUME HeapInv, NEW a, Served(Arena, a)
  PROVE  a.regions \in Seq(Range(a.regions))
<1>1. regions \in Seq(Range(regions))
  BY DEF HeapInv
<1>2. CASE a.regions = regions
  BY <1>1, <1>2
<1>3. ASSUME NEW k, NEW v, a.regions = [regions EXCEPT ![k] = v]
      PROVE  a.regions \in Seq(Range(a.regions))
  BY ONLY <1>1, <1>3, HeightKept
<1> QED BY <1>2, <1>3, ArenaIs DEF Served

LEMMA RegionCount ==
  ASSUME HeapInv
  PROVE  Len(regions) \in Nat /\ (regions # <<>> => Len(regions) > 0)
BY DEF HeapInv

-----------------------------------------------------------------------------
LEMMA RegionsGo ==
  ASSUME HeapInv, NEW k \in Nat, k > 0, ListsGo(k), UNCHANGED stray
  PROVE  HeapShapes' /\ heap' \subseteq Vecs \X {"header", "data"} /\ FreesAreHeapBlocks'
<1>1. /\ vec' = [l \in Vecs |-> IF vec[l].arena >= k THEN NoVec ELSE vec[l]]
      /\ heap' = {lw \in heap : ~(vec[lw[1]].arena >= k)}
  BY DEF ListsGo
<1>2. HeapShapes'
  BY <1>1, Blocks DEF HeapInv, HeapShapes
<1>3. ASSUME NEW l \in Vecs, vec'[l].arena = 0
      PROVE  {lw \in heap' : lw[1] = l}
                = OnHeap(l, "header", vec'[l].header) \cup OnHeap(l, "data", vec'[l].data)
  <2>1. CASE vec[l].arena >= k
    BY <1>1, <2>1, Blocks DEF OnHeap
  <2>2. CASE ~(vec[l].arena >= k)
    <3>1. vec'[l] = vec[l] /\ vec[l].arena = 0
      BY <1>1, <1>3, <2>2
    <3>2. {lw \in heap' : lw[1] = l} = {lw \in heap : lw[1] = l}
      BY <1>1, <2>2
    <3> QED BY <3>1, <3>2 DEF HeapInv, FreesAreHeapBlocks
  <2> QED BY <2>1, <2>2
<1>4. ~stray'
  BY DEF HeapInv, FreesAreHeapBlocks
<1>5. FreesAreHeapBlocks'
  BY <1>3, <1>4 DEF FreesAreHeapBlocks, OnHeap
<1> QED BY <1>1, <1>2, <1>5 DEF HeapInv

(* A step that changes one list only, to one that has its heap blocks.       *)
LEMMA OneListChanges ==
  ASSUME HeapInv, NEW l \in Vecs, NEW v,
         vec' = [vec EXCEPT ![l] = v],
         DOMAIN v = {"arena", "header", "data", "len", "cap"}, v.arena \in Nat,
         v.header = NoBlock => v = NoVec,
         v.arena = 0 => /\ v.header \in {NoBlock, HeapBlock}
                        /\ v.data \in {NoBlock, HeapBlock, FusedBlock},
         heap' \subseteq Vecs \X {"header", "data"},
         \A m \in Vecs \ {l} : {lw \in heap' : lw[1] = m} = {lw \in heap : lw[1] = m},
         v.arena = 0 => {lw \in heap' : lw[1] = l}
                          = OnHeap(l, "header", v.header) \cup OnHeap(l, "data", v.data),
         ~stray'
  PROVE  HeapShapes' /\ heap' \subseteq Vecs \X {"header", "data"} /\ FreesAreHeapBlocks'
<1>1. /\ vec'[l] = v /\ DOMAIN vec' = Vecs
      /\ \A m \in Vecs \ {l} : vec'[m] = vec[m]
  BY DEF HeapInv, HeapShapes
<1>2. HeapShapes'
  BY <1>1 DEF HeapInv, HeapShapes
<1>3. ASSUME NEW m \in Vecs, vec'[m].arena = 0
      PROVE  {lw \in heap' : lw[1] = m}
                = OnHeap(m, "header", vec'[m].header) \cup OnHeap(m, "data", vec'[m].data)
  BY <1>1, <1>3 DEF HeapInv, FreesAreHeapBlocks
<1> QED BY <1>2, <1>3 DEF FreesAreHeapBlocks, OnHeap

(* What list_free_data passes to rt_free is alive.                           *)
LEMMA FreedIsAlive ==
  ASSUME HeapInv, NEW l \in Vecs, IsVec(l)
  PROVE  /\ Freed(l) \subseteq heap
         /\ vec[l].arena = 0 => /\ vec[l].header = HeapBlock
                                /\ <<l, "header">> \in heap
                                /\ {lw \in heap : lw[1] = l} = Freed(l) \cup {<<l, "header">>}
         /\ vec[l].arena # 0 => Freed(l) = {}
<1>1. CASE vec[l].arena = 0
  <2>1. vec[l].header = HeapBlock /\ vec[l].data \in {NoBlock, HeapBlock, FusedBlock}
    BY <1>1 DEF HeapInv, HeapShapes, IsVec
  <2>2. {lw \in heap : lw[1] = l}
           = OnHeap(l, "header", vec[l].header) \cup OnHeap(l, "data", vec[l].data)
    BY <1>1 DEF HeapInv, FreesAreHeapBlocks
  <2>3. OnHeap(l, "header", vec[l].header) = {<<l, "header">>}
    BY <2>1, Blocks DEF OnHeap
  <2>4. Freed(l) = OnHeap(l, "data", vec[l].data)
    BY <1>1, <2>1, Blocks DEF Freed, FreesData, OnHeap
  <2> QED BY <1>1, <2>1, <2>2, <2>3, <2>4
<1>2. CASE vec[l].arena # 0
  BY <1>2 DEF Freed, FreesData
<1> QED BY <1>1, <1>2

(* Two assignments to one entry are one. *)
LEMMA TwoFields ==
  ASSUME NEW f, NEW l \in DOMAIN f, NEW x, NEW n
  PROVE  [f EXCEPT ![l].data = x, ![l].cap = n]
           = [f EXCEPT ![l] = [[f[l] EXCEPT !.data = x] EXCEPT !.cap = n]]
<1> DEFINE A == [f[l] EXCEPT !.data = x]
           g == [f EXCEPT ![l] = A]
           B == [A EXCEPT !.cap = n]
<1>1. g[l] = A
  OBVIOUS
<1>2. [f EXCEPT ![l].data = x, ![l].cap = n] = [g EXCEPT ![l] = [g[l] EXCEPT !.cap = n]]
  OBVIOUS
<1>3. [g EXCEPT ![l] = [g[l] EXCEPT !.cap = n]] = [g EXCEPT ![l] = B]
  BY <1>1
<1> HIDE DEF A, B
<1>4. [g EXCEPT ![l] = B] = [f EXCEPT ![l] = B]
  OBVIOUS
<1> QED BY <1>2, <1>3, <1>4 DEF A, B, g

LEMMA MoveKeeps ==
  ASSUME HeapInv, NEW l \in Vecs, IsVec(l), NEW n, Move(l, n)
  PROVE  HeapInv'
<1> DEFINE a == IF vec[l].arena > 0 THEN ServeAt(Arena, vec[l].arena, n)
                ELSE [Arena EXCEPT !.block = HeapBlock]
           v == [[vec[l] EXCEPT !.data = a.block] EXCEPT !.cap = n]
<1>1. /\ regions' = a.regions /\ Stray(Freed(l))
      /\ heap' = (heap \ Freed(l)) \cup OnHeap(l, "data", a.block)
      /\ vec' = [vec EXCEPT ![l].data = a.block, ![l].cap = n]
  BY DEF Move, Becomes
<1>2. Served(Arena, a) /\ (vec[l].arena = 0 => a.block = HeapBlock)
  <2>1. Served(Arena, [Arena EXCEPT !.block = HeapBlock]) /\ [Arena EXCEPT !.block = HeapBlock].block = HeapBlock
    BY ArenaIs DEF Served, IsArena
  <2>2. Served(Arena, ServeAt(Arena, vec[l].arena, n))
    BY ArenaIs, ServeAtServes
  <2> QED BY <2>1, <2>2 DEF HeapInv, HeapShapes
<1> HIDE DEF a
<1>3. vec' = [vec EXCEPT ![l] = v]
  BY <1>1, TwoFields DEF HeapInv, HeapShapes
<1>4. /\ DOMAIN v = {"arena", "header", "data", "len", "cap"}
      /\ v.arena = vec[l].arena /\ v.header = vec[l].header /\ v.data = a.block
  <2> DEFINE u == [vec[l] EXCEPT !.data = a.block]
  <2>1. /\ DOMAIN u = {"arena", "header", "data", "len", "cap"}
        /\ u.arena = vec[l].arena /\ u.header = vec[l].header /\ u.data = a.block
    BY DEF HeapInv, HeapShapes
  <2> HIDE DEF u
  <2>2. v = [u EXCEPT !.cap = n]
    BY DEF u
  <2> HIDE DEF v
  <2> QED BY <2>1, <2>2
<1> HIDE DEF v
<1>5. regions' \in Seq(Range(regions'))
  BY <1>1, <1>2, ServedRegions
<1>6. ~stray'
  BY <1>1, FreedIsAlive DEF Stray, HeapInv, FreesAreHeapBlocks
<1>7. heap' \subseteq Vecs \X {"header", "data"}
  BY <1>1 DEF OnHeap, HeapInv
<1>8. \A m \in Vecs \ {l} : {lw \in heap' : lw[1] = m} = {lw \in heap : lw[1] = m}
  BY <1>1 DEF OnHeap, Freed
<1>9. vec[l].arena = 0 =>
        {lw \in heap' : lw[1] = l} = OnHeap(l, "header", v.header) \cup OnHeap(l, "data", v.data)
  <2> SUFFICES ASSUME vec[l].arena = 0
               PROVE {lw \in heap' : lw[1] = l}
                        = OnHeap(l, "header", v.header) \cup OnHeap(l, "data", v.data)
    OBVIOUS
  <2>1. v.header = HeapBlock /\ v.data = HeapBlock
        /\ {lw \in heap : lw[1] = l} = Freed(l) \cup {<<l, "header">>}
    BY <1>2, <1>4, FreedIsAlive
  <2>2. <<l, "header">> \notin Freed(l) /\ \A lw \in OnHeap(l, "data", a.block) : lw[1] = l
    BY DEF Freed, OnHeap
  <2>3. OnHeap(l, "header", v.header) = {<<l, "header">>} /\ OnHeap(l, "data", v.data) = OnHeap(l, "data", a.block)
    BY <1>4, <2>1, Blocks DEF OnHeap
  <2> QED BY <1>1, <2>1, <2>2, <2>3
<1>10. /\ v.arena \in Nat
       /\ v.header # NoBlock
       /\ v.arena = 0 => /\ v.header \in {NoBlock, HeapBlock}
                         /\ v.data \in {NoBlock, HeapBlock, FusedBlock}
  BY <1>2, <1>4 DEF HeapInv, HeapShapes, IsVec
<1>11. HeapShapes' /\ heap' \subseteq Vecs \X {"header", "data"} /\ FreesAreHeapBlocks'
  BY <1>3, <1>4, <1>6, <1>7, <1>8, <1>9, <1>10, OneListChanges
<1> QED BY <1>5, <1>11 DEF HeapInv

LEMMA NewVecKeeps ==
  ASSUME HeapInv, NEW l \in Vecs, NEW cap \in Nat, NEW placed \in BOOLEAN, NewVec(l, cap, placed)
  PROVE  HeapInv'
<1> DEFINE slot == IF placed THEN Len(regions) ELSE 0
           fused == cap > 0 /\ cap <= FusedMax /\ slot = 0
           h == IF placed THEN Serve(Arena, slot, 1) ELSE [Arena EXCEPT !.block = HeapBlock]
           d == IF fused THEN [h EXCEPT !.block = FusedBlock]
                ELSE IF cap = 0 THEN [h EXCEPT !.block = NoBlock]
                ELSE IF placed THEN Serve(h, slot, cap) ELSE [h EXCEPT !.block = HeapBlock]
           v == [arena |-> slot, header |-> h.block, data |-> d.block, len |-> 0, cap |-> cap]
<1>1. /\ ~IsVec(l) /\ (placed => regions # <<>>)
      /\ vec' = [vec EXCEPT ![l] = v]
      /\ heap' = heap \cup OnHeap(l, "header", h.block) \cup OnHeap(l, "data", d.block)
      /\ regions' = d.regions /\ UNCHANGED stray
  BY DEF NewVec, Becomes
<1>2. /\ slot \in Nat /\ (placed => slot > 0) /\ (~placed => slot = 0)
  BY <1>1, RegionCount
<1>3. /\ Served(Arena, h)
      /\ ~placed => h.block = HeapBlock /\ h.regions = regions
  <2>1. CASE placed
    BY <2>1, ArenaIs, ServeServes
  <2>2. CASE ~placed
    BY <2>2, ArenaIs DEF Served, IsArena
  <2> QED BY <2>1, <2>2
<1> HIDE DEF h, slot
<1>4. /\ d.regions \in Seq(Range(d.regions))
      /\ slot = 0 => d.block \in {NoBlock, HeapBlock, FusedBlock}
  <2>1. h.regions \in Seq(Range(h.regions)) /\ IsArena(h)
    BY <1>3, ServedRegions DEF Served
  <2>2. ASSUME NEW b
        PROVE  [h EXCEPT !.block = b].regions = h.regions /\ [h EXCEPT !.block = b].block = b
    BY <2>1 DEF IsArena
  <2>3. ASSUME placed
        PROVE  Serve(h, slot, cap).regions \in Seq(Range(Serve(h, slot, cap).regions))
    <3> DEFINE e == Serve(h, slot, cap)
    <3>1. Served(h, e)
      BY <2>1, ServeServes
    <3> HIDE DEF e
    <3>2. ASSUME NEW k, NEW x, e.regions = [h.regions EXCEPT ![k] = x]
          PROVE  e.regions \in Seq(Range(e.regions))
      BY ONLY <2>1, <3>2, HeightKept
    <3>3. e.regions \in Seq(Range(e.regions))
      BY <2>1, <3>1, <3>2 DEF Served
    <3> QED BY <3>3 DEF e
  <2>4. CASE fused
    BY <2>1, <2>2, <2>4
  <2>5. CASE ~fused /\ cap = 0
    BY <2>1, <2>2, <2>5
  <2>6. CASE ~fused /\ cap # 0 /\ placed
    BY <1>2, <2>3, <2>6
  <2>7. CASE ~fused /\ cap # 0 /\ ~placed
    BY <2>1, <2>2, <2>7
  <2> QED BY <2>4, <2>5, <2>6, <2>7
<1> HIDE DEF d
<1>5. /\ DOMAIN v = {"arena", "header", "data", "len", "cap"}
      /\ v.arena = slot /\ v.header = h.block /\ v.data = d.block
  OBVIOUS
<1> HIDE DEF v
<1>6. v.header # NoBlock /\ (v.arena = 0 => v.header = HeapBlock)
  BY <1>2, <1>3, <1>5, Blocks DEF Served
<1>7. heap' \subseteq Vecs \X {"header", "data"}
  BY <1>1 DEF OnHeap, HeapInv
<1>8. \A m \in Vecs \ {l} : {lw \in heap' : lw[1] = m} = {lw \in heap : lw[1] = m}
  BY <1>1 DEF OnHeap
<1>9. {lw \in heap' : lw[1] = l} = OnHeap(l, "header", v.header) \cup OnHeap(l, "data", v.data)
  <2>1. vec[l] = NoVec
    BY <1>1 DEF IsVec, HeapInv, HeapShapes
  <2>2. {lw \in heap : lw[1] = l} = {}
    BY <2>1, Blocks DEF HeapInv, FreesAreHeapBlocks, OnHeap
  <2>3. \A lw \in OnHeap(l, "header", v.header) \cup OnHeap(l, "data", v.data) : lw[1] = l
    BY DEF OnHeap
  <2> QED BY <1>1, <1>5, <2>2, <2>3
<1>10. ~stray'
  BY <1>1 DEF HeapInv, FreesAreHeapBlocks
<1>11. HeapShapes' /\ heap' \subseteq Vecs \X {"header", "data"} /\ FreesAreHeapBlocks'
  BY <1>1, <1>2, <1>4, <1>5, <1>6, <1>7, <1>8, <1>9, <1>10, OneListChanges
<1> QED BY <1>1, <1>4, <1>11 DEF HeapInv

LEMMA LengthChanges ==
  ASSUME HeapInv, NEW l \in Vecs, IsVec(l), NEW n, vec' = [vec EXCEPT ![l].len = n],
         UNCHANGED <<regions, heap, stray>>
  PROVE  HeapInv'
<1> DEFINE v == [vec[l] EXCEPT !.len = n]
<1>1. vec' = [vec EXCEPT ![l] = v]
  OBVIOUS
<1>2. /\ DOMAIN v = {"arena", "header", "data", "len", "cap"}
      /\ v.arena = vec[l].arena /\ v.header = vec[l].header /\ v.data = vec[l].data
  BY DEF HeapInv, HeapShapes
<1> HIDE DEF v
<1>3. HeapShapes' /\ heap' \subseteq Vecs \X {"header", "data"} /\ FreesAreHeapBlocks'
  <2>1. /\ v.arena \in Nat /\ v.header # NoBlock
        /\ v.arena = 0 => /\ v.header \in {NoBlock, HeapBlock}
                          /\ v.data \in {NoBlock, HeapBlock, FusedBlock}
    BY <1>2 DEF HeapInv, HeapShapes, IsVec
  <2>2. /\ heap' = heap /\ heap' \subseteq Vecs \X {"header", "data"} /\ ~stray'
        /\ v.arena = 0 => {lw \in heap : lw[1] = l}
                              = OnHeap(l, "header", v.header) \cup OnHeap(l, "data", v.data)
    BY <1>2 DEF HeapInv, FreesAreHeapBlocks
  <2> QED BY <1>1, <1>2, <2>1, <2>2, OneListChanges
<1> QED BY <1>3 DEF HeapInv

LEMMA ReleaseKeeps ==
  ASSUME HeapInv, NEW l \in Vecs, ReleaseVec(l)
  PROVE  HeapInv'
<1> DEFINE frees == Freed(l) \cup {<<l, "header">>}
<1>1. /\ IsVec(l) /\ vec[l].arena = 0 /\ heap' = heap \ frees /\ Stray(frees)
      /\ vec' = [vec EXCEPT ![l] = NoVec] /\ regions' = regions
  BY DEF ReleaseVec
<1>2. frees \subseteq heap /\ {lw \in heap : lw[1] = l} = frees
  BY <1>1, FreedIsAlive
<1>3. ~stray'
  BY <1>1, <1>2 DEF Stray, HeapInv, FreesAreHeapBlocks
<1>4. /\ \A m \in Vecs \ {l} : {lw \in heap' : lw[1] = m} = {lw \in heap : lw[1] = m}
      /\ {lw \in heap' : lw[1] = l} = {}
      /\ heap' \subseteq Vecs \X {"header", "data"}
  BY <1>1, <1>2 DEF HeapInv
<1>5. OnHeap(l, "header", NoVec.header) \cup OnHeap(l, "data", NoVec.data) = {}
  BY Blocks DEF OnHeap
<1>6. {lw \in heap' : lw[1] = l}
         = OnHeap(l, "header", NoVec.header) \cup OnHeap(l, "data", NoVec.data)
  BY <1>4, <1>5
<1>7. HeapShapes' /\ heap' \subseteq Vecs \X {"header", "data"} /\ FreesAreHeapBlocks'
  <2>1. /\ vec' = [vec EXCEPT ![l] = NoVec]
        /\ NoVec.arena \in Nat /\ NoVec.header \in {NoBlock, HeapBlock}
        /\ NoVec.data \in {NoBlock, HeapBlock, FusedBlock}
    BY <1>1, Blocks
  <2>2. DOMAIN NoVec = {"arena", "header", "data", "len", "cap"}
    BY Blocks
  <2> QED BY ONLY HeapInv, l \in Vecs, <2>1, <2>2, <1>3, <1>4, <1>6, OneListChanges
<1> QED BY <1>1, <1>7 DEF HeapInv

LEMMA SeqHasRange ==
  ASSUME NEW S, NEW r \in Seq(S)
  PROVE  r \in Seq(Range(r))
<1>1. r \in [1 .. Len(r) -> Range(r)] /\ Len(r) \in Nat
  BY DEF Range
<1> QED BY <1>1

LEMMA RegionSteps ==
  ASSUME HeapInv, EnterRegion \/ ExitRegion \/ ThreadCleanup \/ \E n \in Nat : PlaceObject(n)
  PROVE  HeapInv'
<1>0. regions \in Seq(Range(regions)) /\ <<>> \in Seq(Range(<<>>))
  BY SeqHasRange DEF HeapInv
<1>1. CASE EnterRegion
  <2>1. Append(regions, <<>>) \in Seq(Range(regions) \cup {<<>>})
    BY <1>0
  <2>2. regions' \in Seq(Range(regions'))
    BY <1>1, <2>1, SeqHasRange DEF EnterRegion
  <2> QED BY <1>1, <2>2 DEF EnterRegion, HeapInv, HeapShapes, FreesAreHeapBlocks
<1>2. CASE ExitRegion
  <2>1. Front(regions) \in Seq(Range(regions)) /\ Len(regions) \in Nat /\ Len(regions) > 0
    BY <1>0, <1>2 DEF ExitRegion, Front
  <2>2. regions' \in Seq(Range(regions'))
    BY <1>2, <2>1, SeqHasRange DEF ExitRegion
  <2>3. HeapShapes' /\ heap' \subseteq Vecs \X {"header", "data"} /\ FreesAreHeapBlocks'
    BY <1>2, <2>1, RegionsGo DEF ExitRegion
  <2> QED BY <2>2, <2>3 DEF HeapInv
<1>3. CASE ThreadCleanup
  <2>1. HeapShapes' /\ heap' \subseteq Vecs \X {"header", "data"} /\ FreesAreHeapBlocks'
    BY <1>3, RegionsGo DEF ThreadCleanup
  <2> QED BY <1>0, <1>3, <2>1 DEF ThreadCleanup, HeapInv
<1>4. ASSUME NEW n \in Nat, PlaceObject(n) PROVE HeapInv'
  <2> DEFINE a == Serve(Arena, Len(regions), n)
  <2>1. regions' = a.regions /\ UNCHANGED <<vec, heap, stray>> /\ Served(Arena, a)
    BY <1>4, ArenaIs, ServeServes DEF PlaceObject, Becomes
  <2> HIDE DEF a
  <2>2. regions' \in Seq(Range(regions'))
    BY <2>1, ServedRegions
  <2> QED BY <2>1, <2>2 DEF HeapInv, HeapShapes, FreesAreHeapBlocks
<1> QED BY <1>1, <1>2, <1>3, <1>4

LEMMA HeapInitial == StorageInit => HeapInv
<1> SUFFICES ASSUME StorageInit PROVE HeapInv
  OBVIOUS
<1>1. regions = <<>> /\ heap = {} /\ vec = [l \in Vecs |-> NoVec]
  BY DEF StorageInit
<1>2. ~stray
  BY DEF StorageInit
<1>3. regions \in Seq(Range(regions))
  BY <1>1, SeqHasRange
<1>4. HeapShapes
  BY <1>1, Blocks DEF HeapShapes
<1> QED BY <1>1, <1>2, <1>3, <1>4, Blocks DEF HeapInv, FreesAreHeapBlocks, OnHeap

LEMMA HeapStep == HeapInv /\ [StorageNext]_storageVars => HeapInv'
<1> SUFFICES ASSUME HeapInv, [StorageNext]_storageVars PROVE HeapInv'
  OBVIOUS
<1>1. CASE UNCHANGED storageVars
  BY <1>1 DEF storageVars, HeapInv, HeapShapes, FreesAreHeapBlocks
<1>2. CASE EnterRegion \/ ExitRegion \/ ThreadCleanup \/ \E n \in {1, ChunkUnits + 1} : PlaceObject(n)
  BY <1>2, RegionSteps, StorageAssumption
<1>3. ASSUME NEW l \in Vecs, NEW cap \in {0, 1, FusedMax + 1}, NEW placed \in BOOLEAN,
             NewVec(l, cap, placed)
      PROVE  HeapInv'
  BY <1>3, NewVecKeeps, StorageAssumption
<1>4. ASSUME NEW l \in Vecs, Push(l) \/ Shorten(l) PROVE HeapInv'
  BY <1>4, LengthChanges DEF Push, Shorten
<1>5. ASSUME NEW l \in Vecs, Grow(l) \/ \E n \in 1 .. MaxCap : Reserve(l, n) PROVE HeapInv'
  BY <1>5, MoveKeeps DEF Grow, Reserve
<1>6. ASSUME NEW l \in Vecs, ReleaseVec(l) PROVE HeapInv'
  BY <1>6, ReleaseKeeps
<1> QED BY <1>1, <1>2, <1>3, <1>4, <1>5, <1>6 DEF StorageNext

(* rt_free is only ever given a heap block that is alive, never the inside   *)
(* of a chunk or of a fused header, and a heap list that is gone has freed   *)
(* both of its blocks (list_free_data, list_release).                        *)
THEOREM StorageFrees == StorageSpec => []FreesAreHeapBlocks
<1>1. HeapInv => FreesAreHeapBlocks
  BY DEF HeapInv
<1> QED BY <1>1, HeapInitial, HeapStep, PTL DEF StorageSpec

-----------------------------------------------------------------------------
(* Regions R, chunks C and pool P as arena_chunk_new and arena_pop keep them: *)
(* a chunk is cut no further than its capacity, is in one region at most, and *)
(* in none while the pool has it, where only default chunks are.              *)
Sane(R, C, P) ==
  /\ R \in Seq(Seq(Chunks))
  /\ C \in [Chunks -> [cap : Nat, used : Nat]]
  /\ P \subseteq Chunks
  /\ \A c \in Chunks : C[c].used <= C[c].cap
  /\ \A c \in P : C[c].cap = ChunkUnits /\ \A k \in DOMAIN R : ~Contains(R[k], c)
  /\ \A j, k \in DOMAIN R, c \in Chunks : Contains(R[j], c) /\ Contains(R[k], c) => j = k

(* Block b is cut from a chunk of region k.                                  *)
Lies(R, C, k, b) ==
  \E c \in Chunks :
    /\ b.chunk = {c} /\ b.from \in Nat /\ b.units \in Nat
    /\ Contains(R[k], c)
    /\ b.from + b.units <= C[c].used

Apart(x, y) ==
  x.chunk = y.chunk => x.from + x.units <= y.from \/ y.from + y.units <= x.from

(* Serving a block takes no chunk away from a region and uncuts nothing.     *)
Extended(R, C, S, D) ==
  /\ DOMAIN S = DOMAIN R
  /\ \A k \in DOMAIN R, c \in Chunks :
       Contains(R[k], c) => Contains(S[k], c) /\ C[c].used <= D[c].used

(* A new block touches none that lies in a region.                           *)
Clear(R, C, b) ==
  \A j \in DOMAIN R : \A x : Lies(R, C, j, x) => Apart(x, b) /\ Apart(b, x)

LEMMA LiesOn ==
  ASSUME NEW R, NEW C, NEW S, NEW D, Extended(R, C, S, D),
         C \in [Chunks -> [cap : Nat, used : Nat]], D \in [Chunks -> [cap : Nat, used : Nat]],
         NEW k \in DOMAIN R, NEW b, Lies(R, C, k, b)
  PROVE  Lies(S, D, k, b)
<1>1. PICK c \in Chunks : /\ b.chunk = {c} /\ b.from \in Nat /\ b.units \in Nat
                          /\ Contains(R[k], c) /\ b.from + b.units <= C[c].used
  BY DEF Lies
<1>2. Contains(S[k], c) /\ C[c].used <= D[c].used
  BY <1>1 DEF Extended
<1>3. C[c].used \in Nat /\ D[c].used \in Nat
  OBVIOUS
<1>4. b.from + b.units <= D[c].used
  BY <1>1, <1>2, <1>3
<1> QED BY <1>1, <1>2, <1>4 DEF Lies

LEMMA ExtendedTwice ==
  ASSUME NEW R, NEW C, NEW S, NEW D, NEW T, NEW E,
         C \in [Chunks -> [cap : Nat, used : Nat]], D \in [Chunks -> [cap : Nat, used : Nat]],
         E \in [Chunks -> [cap : Nat, used : Nat]],
         Extended(R, C, S, D), Extended(S, D, T, E)
  PROVE  Extended(R, C, T, E)
<1>1. ASSUME NEW c \in Chunks, C[c].used <= D[c].used, D[c].used <= E[c].used
      PROVE  C[c].used <= E[c].used
  BY <1>1
<1> QED BY <1>1 DEF Extended

LEMMA Prepended ==
  ASSUME NEW s \in Seq(Chunks), NEW c \in Chunks
  PROVE  /\ <<c>> \o s \in Seq(Chunks) /\ <<c>> \o s # <<>> /\ Head(<<c>> \o s) = c
         /\ \A x : Contains(<<c>> \o s, x) <=> (x = c \/ Contains(s, x))
<1> DEFINE t == <<c>> \o s
<1>1. t \in Seq(Chunks) /\ Len(t) = Len(s) + 1 /\ t[1] = c /\ \A i \in 1 .. Len(s) : t[i + 1] = s[i]
  OBVIOUS
<1> HIDE DEF t
<1>2. ASSUME NEW x, Contains(t, x) PROVE x = c \/ Contains(s, x)
  <2>1. PICK i \in 1 .. Len(t) : t[i] = x
    BY <1>2 DEF Contains
  <2>2. CASE i = 1
    BY <1>1, <2>1, <2>2
  <2>3. CASE i # 1
    <3>1. i - 1 \in 1 .. Len(s) /\ (i - 1) + 1 = i
      BY <1>1, <2>1, <2>3
    <3>2. s[i - 1] = x
      BY <1>1, <2>1, <3>1
    <3> QED BY <3>1, <3>2 DEF Contains
  <2> QED BY <2>2, <2>3
<1>3. ASSUME NEW x, Contains(s, x) PROVE Contains(t, x)
  <2>1. PICK i \in 1 .. Len(s) : s[i] = x
    BY <1>3 DEF Contains
  <2>2. i + 1 \in 1 .. Len(t) /\ t[i + 1] = x
    BY <1>1, <2>1
  <2> QED BY <2>2 DEF Contains
<1>4. Contains(t, c)
  <2>1. 1 \in 1 .. Len(t)
    BY <1>1
  <2> QED BY <1>1, <2>1 DEF Contains
<1>5. t # <<>> /\ Head(t) = c
  BY <1>1
<1> QED BY <1>1, <1>2, <1>3, <1>4, <1>5 DEF t

(* A chunk c that is in no region is put before the chunks of region k.      *)
Taken(R, C, P, k, c, S, D, Q) ==
  /\ Sane(R, C, P)
  /\ k \in DOMAIN R /\ c \in Chunks /\ \A j \in DOMAIN R : ~Contains(R[j], c)
  /\ S \in Seq(Seq(Chunks)) /\ DOMAIN S = DOMAIN R /\ S[k] = <<c>> \o R[k]
  /\ \A j \in DOMAIN R : j # k => S[j] = R[j]
  /\ D \in [Chunks -> [cap : Nat, used : Nat]] /\ D[c].used = 0
  /\ \A x \in Chunks \ {c} : D[x] = C[x]
  /\ Q = P \ {c}

LEMMA ChunkTaken ==
  ASSUME NEW R, NEW C, NEW P, NEW k, NEW c, NEW S, NEW D, NEW Q, Taken(R, C, P, k, c, S, D, Q)
  PROVE  /\ Sane(S, D, Q) /\ Extended(R, C, S, D)
         /\ S[k] # <<>> /\ Head(S[k]) = c
<1>0. /\ Sane(R, C, P)
      /\ k \in DOMAIN R /\ c \in Chunks /\ \A j \in DOMAIN R : ~Contains(R[j], c)
      /\ D \in [Chunks -> [cap : Nat, used : Nat]] /\ D[c].used = 0
      /\ \A x \in Chunks \ {c} : D[x] = C[x]
      /\ Q = P \ {c}
  BY DEF Taken
<1>1. R \in Seq(Seq(Chunks)) /\ R[k] \in Seq(Chunks)
  BY <1>0 DEF Sane
<1>2. S \in Seq(Seq(Chunks)) /\ DOMAIN S = DOMAIN R /\ S[k] = <<c>> \o R[k]
      /\ \A j \in DOMAIN R : j # k => S[j] = R[j]
  BY DEF Taken
<1>3. /\ S[k] # <<>> /\ Head(S[k]) = c
      /\ \A x : Contains(S[k], x) <=> (x = c \/ Contains(R[k], x))
  BY <1>0, <1>1, <1>2, Prepended
<1>4. \A j \in DOMAIN R, x \in Chunks : Contains(S[j], x) <=> ((j = k /\ x = c) \/ Contains(R[j], x))
  BY <1>2, <1>3
<1>5. \A x \in Chunks : D[x].used <= D[x].cap
  <2>1. D[c].used <= D[c].cap
    BY <1>0
  <2> QED BY <1>0, <2>1 DEF Sane
<1>6. \A x \in Q : D[x].cap = ChunkUnits /\ \A j \in DOMAIN S : ~Contains(S[j], x)
  <2> SUFFICES ASSUME NEW x \in Q PROVE D[x].cap = ChunkUnits /\ \A j \in DOMAIN S : ~Contains(S[j], x)
    BY <1>0
  <2>1. x \in P /\ x \in Chunks \ {c}
    BY <1>0 DEF Sane
  <2>2. D[x] = C[x] /\ C[x].cap = ChunkUnits /\ \A j \in DOMAIN R : ~Contains(R[j], x)
    BY <1>0, <2>1 DEF Sane
  <2> QED BY <1>2, <1>4, <2>1, <2>2
<1>7. \A i, j \in DOMAIN S, x \in Chunks : Contains(S[i], x) /\ Contains(S[j], x) => i = j
  <2>1. ASSUME NEW i \in DOMAIN R, NEW x \in Chunks, Contains(S[i], x)
        PROVE  IF x = c THEN i = k ELSE Contains(R[i], x)
    BY <1>0, <1>4, <2>1
  <2>2. \A i, j \in DOMAIN R, x \in Chunks : Contains(R[i], x) /\ Contains(R[j], x) => i = j
    BY <1>0 DEF Sane
  <2>3. ASSUME NEW i \in DOMAIN R, NEW j \in DOMAIN R, NEW x \in Chunks, Contains(S[i], x), Contains(S[j], x)
        PROVE  i = j
    <3>1. CASE x = c
      BY <2>1, <2>3, <3>1
    <3>2. CASE x # c
      <4>1. Contains(R[i], x) /\ Contains(R[j], x)
        BY <2>1, <2>3, <3>2
      <4> QED BY <4>1, <2>2
    <3> QED BY <3>1, <3>2
  <2> QED BY <1>2, <2>3
<1>8. Extended(R, C, S, D)
  <2> SUFFICES ASSUME NEW j \in DOMAIN R, NEW x \in Chunks, Contains(R[j], x)
               PROVE  Contains(S[j], x) /\ C[x].used <= D[x].used
    BY <1>2 DEF Extended
  <2>1. x # c
    BY <1>0
  <2>2. C[x].used \in Nat
    BY <1>0 DEF Sane
  <2> QED BY <1>0, <1>4, <2>1, <2>2
<1>9. Q \subseteq Chunks
  BY <1>0 DEF Sane
<1> QED BY <1>0, <1>2, <1>3, <1>5, <1>6, <1>7, <1>8, <1>9 DEF Sane

LEMMA CutLies ==
  ASSUME NEW a, IsArena(a), Sane(a.regions, a.chunk, a.pool), NEW k \in DOMAIN a.regions,
         NEW n \in Nat, Fits(a, k, n)
  PROVE  LET e == Cut(a, k, n)
             c == Head(a.regions[k])
         IN  /\ IsArena(e) /\ Sane(e.regions, e.chunk, e.pool)
             /\ Extended(a.regions, a.chunk, e.regions, e.chunk)
             /\ e.block.at = "arena" /\ Lies(e.regions, e.chunk, k, e.block)
             /\ e.block.chunk = {c} /\ e.block.from = a.chunk[c].used /\ e.block.units = n
<1> DEFINE e == Cut(a, k, n)
           c == Head(a.regions[k])
           B == [at |-> "arena", chunk |-> {c}, from |-> a.chunk[c].used, units |-> n]
           D == [a.chunk EXCEPT ![c].used = @ + n]
           R == a.regions
<1>1. /\ R \in Seq(Seq(Chunks)) /\ R[k] \in Seq(Chunks) /\ R[k] # <<>>
      /\ c \in Chunks /\ Contains(R[k], c) /\ a.chunk[c].used + n <= a.chunk[c].cap
  <2>1. R \in Seq(Seq(Chunks)) /\ R[k] \in Seq(Chunks)
    BY DEF Sane
  <2>2. R[k] # <<>> /\ a.chunk[c].used + n <= a.chunk[c].cap
    BY DEF Fits
  <2>3. 1 \in 1 .. Len(R[k]) /\ c = R[k][1] /\ c \in Chunks
    BY <2>1, <2>2
  <2> QED BY <2>1, <2>2, <2>3 DEF Contains
<1>2. e = [regions |-> R, chunk |-> D, pool |-> a.pool, block |-> B]
  <2>1. e = [a EXCEPT !.block = B, !.chunk = D]
    BY DEF Cut, IsArena
  <2> HIDE DEF B, D, c
  <2> DEFINE d == [a EXCEPT !.block = B]
  <2>2. d = [regions |-> a.regions, chunk |-> a.chunk, pool |-> a.pool, block |-> B]
    BY DEF IsArena
  <2> HIDE DEF d
  <2>3. [d EXCEPT !.chunk = D] = [regions |-> a.regions, chunk |-> D, pool |-> a.pool, block |-> B]
    BY <2>2
  <2> QED BY <2>1, <2>3 DEF d
<1>3. B.at = "arena" /\ B.chunk = {c} /\ B.from = a.chunk[c].used /\ B.units = n
  OBVIOUS
<1>4. /\ a.chunk \in [Chunks -> [cap : Nat, used : Nat]]
      /\ \A x \in Chunks : a.chunk[x].used <= a.chunk[x].cap
  BY DEF Sane
<1>5. /\ D \in [Chunks -> [cap : Nat, used : Nat]]
      /\ D[c].used = a.chunk[c].used + n /\ D[c].cap = a.chunk[c].cap
      /\ \A x \in Chunks : x # c => D[x] = a.chunk[x]
  <2> DEFINE r == [a.chunk[c] EXCEPT !.used = a.chunk[c].used + n]
  <2>1. a.chunk[c] \in [cap : Nat, used : Nat]
    BY <1>1, <1>4
  <2>2. r \in [cap : Nat, used : Nat] /\ r.used = a.chunk[c].used + n /\ r.cap = a.chunk[c].cap
    BY <2>1
  <2>3. D = [a.chunk EXCEPT ![c] = r]
    OBVIOUS
  <2> HIDE DEF r, D
  <2> QED BY <1>1, <1>4, <2>2, <2>3
<1> HIDE DEF e, c, B, D
<1>6. IsArena(e) /\ e.regions = R /\ e.chunk = D /\ e.pool = a.pool /\ e.block = B
  BY <1>2, FieldsOf
<1>7. \A x \in Chunks : D[x].cap = a.chunk[x].cap /\ D[x].used <= D[x].cap
                        /\ a.chunk[x].used <= D[x].used
  <2>1. ASSUME NEW x \in Chunks, x = c PROVE D[x].cap = a.chunk[x].cap /\ D[x].used <= D[x].cap
                        /\ a.chunk[x].used <= D[x].used
    BY <1>1, <1>4, <1>5, <2>1
  <2>2. ASSUME NEW x \in Chunks, x # c PROVE D[x].cap = a.chunk[x].cap /\ D[x].used <= D[x].cap
                        /\ a.chunk[x].used <= D[x].used
    BY <1>4, <1>5, <2>2
  <2> QED BY <2>1, <2>2
<1>8. Sane(R, D, a.pool)
  BY <1>5, <1>7 DEF Sane
<1>9. Extended(R, a.chunk, R, D)
  BY <1>7 DEF Extended
<1>10. Lies(R, D, k, B)
  <2>1. a.chunk[c].used \in Nat
    BY <1>1, <1>4
  <2>2. B.from \in Nat /\ B.units \in Nat /\ B.from + B.units <= D[c].used
    BY <1>3, <1>5, <2>1
  <2> QED BY <1>1, <1>3, <2>2 DEF Lies
<1>11. /\ IsArena(e) /\ Sane(e.regions, e.chunk, e.pool)
       /\ Extended(a.regions, a.chunk, e.regions, e.chunk)
       /\ e.block.at = "arena" /\ Lies(e.regions, e.chunk, k, e.block)
       /\ e.block.chunk = {c} /\ e.block.from = a.chunk[c].used /\ e.block.units = n
  BY <1>3, <1>6, <1>8, <1>9, <1>10
<1> QED BY <1>11 DEF e, c

(* arena_alloc_slot in region k: the block it answers with is the heap's, or *)
(* is cut from a chunk of that region and touches no other.                  *)
LEMMA ServeLies ==
  ASSUME NEW a, IsArena(a), Sane(a.regions, a.chunk, a.pool), NEW k \in DOMAIN a.regions,
         NEW n \in Nat
  PROVE  LET e == Serve(a, k, n)
         IN  /\ IsArena(e) /\ Sane(e.regions, e.chunk, e.pool)
             /\ Extended(a.regions, a.chunk, e.regions, e.chunk)
             /\ \/ e.block = HeapBlock
                \/ /\ e.block.at = "arena" /\ Lies(e.regions, e.chunk, k, e.block)
                   /\ Clear(a.regions, a.chunk, e.block)
<1> DEFINE Good(e) == /\ IsArena(e) /\ Sane(e.regions, e.chunk, e.pool)
                      /\ Extended(a.regions, a.chunk, e.regions, e.chunk)
                      /\ \/ e.block = HeapBlock
                         \/ /\ e.block.at = "arena" /\ Lies(e.regions, e.chunk, k, e.block)
                            /\ Clear(a.regions, a.chunk, e.block)
<1>0. a.chunk \in [Chunks -> [cap : Nat, used : Nat]] /\ a.regions \in Seq(Seq(Chunks))
  BY DEF Sane
(* A cut begins where the cutting of its chunk had come to. *)
<1>1. ASSUME NEW w, IsArena(w), Sane(w.regions, w.chunk, w.pool), Fits(w, k, n),
             Extended(a.regions, a.chunk, w.regions, w.chunk)
      PROVE  Good(Cut(w, k, n))
  <2> DEFINE e == Cut(w, k, n)
             c == Head(w.regions[k])
  <2>1. k \in DOMAIN w.regions
    BY <1>1 DEF Extended
  <2>2. /\ IsArena(e) /\ Sane(e.regions, e.chunk, e.pool)
        /\ Extended(w.regions, w.chunk, e.regions, e.chunk)
        /\ e.block.at = "arena" /\ Lies(e.regions, e.chunk, k, e.block)
        /\ e.block.chunk = {c} /\ e.block.from = w.chunk[c].used /\ e.block.units = n
    BY <1>1, <2>1, CutLies
  <2> HIDE DEF e, c
  <2>3. w.chunk \in [Chunks -> [cap : Nat, used : Nat]] /\ e.chunk \in [Chunks -> [cap : Nat, used : Nat]]
    BY <1>1, <2>2 DEF Sane
  <2>4. Extended(a.regions, a.chunk, e.regions, e.chunk)
    BY <1>0, <1>1, <2>2, <2>3, ExtendedTwice
  <2>5. ASSUME NEW j \in DOMAIN a.regions, NEW x, Lies(a.regions, a.chunk, j, x), x.chunk = e.block.chunk
        PROVE  x.from + x.units <= e.block.from
    <3>1. Lies(w.regions, w.chunk, j, x)
      BY <1>0, <1>1, <2>3, <2>5, LiesOn
    <3>2. PICK y \in Chunks : x.chunk = {y} /\ x.from \in Nat /\ x.units \in Nat
                               /\ x.from + x.units <= w.chunk[y].used
      BY <3>1 DEF Lies
    <3>3. y = c
      BY <3>2, <2>5, <2>2
    <3> QED BY <2>2, <3>2, <3>3
  <2>6. Clear(a.regions, a.chunk, e.block)
    BY <2>5 DEF Clear, Apart
  <2>7. Good(e)
    BY <2>2, <2>4, <2>6
  <2> HIDE DEF Good
  <2> QED BY <2>7 DEF e
<1>2. Extended(a.regions, a.chunk, a.regions, a.chunk)
  BY <1>0 DEF Extended
<1>3. CASE Fits(a, k, n)
  <2>1. Good(Cut(a, k, n))
    BY <1>1, <1>2, <1>3
  <2> HIDE DEF Good
  <2>2. Good(Serve(a, k, n))
    BY <1>3, <2>1 DEF Serve
  <2> QED BY <2>2 DEF Good
<1>4. CASE ~Fits(a, k, n) /\ n <= ChunkUnits /\ a.pool # {}
  <2> DEFINE c == CHOOSE c \in a.pool : TRUE
             w == FromPool(a, k, c)
             S == [a.regions EXCEPT ![k] = <<c>> \o @]
             D == [a.chunk EXCEPT ![c].used = 0]
             Q == a.pool \ {c}
  <2>1. c \in a.pool
    BY <1>4
  <2>2. Serve(a, k, n) = Cut(w, k, n)
    BY <1>4 DEF Serve
  <2> HIDE DEF c
  <2>3. c \in Chunks /\ a.chunk[c].cap = ChunkUnits /\ \A j \in DOMAIN a.regions : ~Contains(a.regions[j], c)
    BY <2>1 DEF Sane
  <2>4. w = [regions |-> S, chunk |-> D, pool |-> Q, block |-> a.block]
    BY PoolFields
  <2>5. /\ D \in [Chunks -> [cap : Nat, used : Nat]] /\ D[c].used = 0 /\ D[c].cap = ChunkUnits
        /\ \A x \in Chunks \ {c} : D[x] = a.chunk[x]
    <3> DEFINE r == [a.chunk[c] EXCEPT !.used = 0]
    <3>1. a.chunk[c] \in [cap : Nat, used : Nat]
      BY <1>0, <2>3
    <3>2. r \in [cap : Nat, used : Nat] /\ r.used = 0 /\ r.cap = a.chunk[c].cap
      BY <3>1
    <3>3. D = [a.chunk EXCEPT ![c] = r]
      OBVIOUS
    <3> HIDE DEF r, D
    <3> QED BY <1>0, <2>3, <3>2, <3>3
  <2>6. DOMAIN S = DOMAIN a.regions /\ S[k] = <<c>> \o a.regions[k] /\ S \in Seq(Seq(Chunks))
        /\ (\A j \in DOMAIN a.regions : j # k => S[j] = a.regions[j])
        /\ Q = a.pool \ {c}
    BY <1>0, <2>3, Prepended
  <2> HIDE DEF w, S, D, Q
  <2>7. IsArena(w) /\ w.regions = S /\ w.chunk = D /\ w.pool = Q
    BY <2>4, FieldsOf
  <2>8. Sane(S, D, Q) /\ Extended(a.regions, a.chunk, S, D) /\ S[k] # <<>> /\ Head(S[k]) = c
    <3>1. Taken(a.regions, a.chunk, a.pool, k, c, S, D, Q)
      BY <2>3, <2>5, <2>6 DEF Taken
    <3> QED BY <3>1, ChunkTaken
  <2>9. Fits(w, k, n)
    BY <1>4, <2>5, <2>7, <2>8, StorageAssumption DEF Fits
  <2>10. Good(Cut(w, k, n))
    BY <1>1, <2>7, <2>8, <2>9
  <2> HIDE DEF Good
  <2>11. Good(Serve(a, k, n))
    BY <2>2, <2>10
  <2> QED BY <2>11 DEF Good
<1>5. CASE ~Fits(a, k, n) /\ ~(n <= ChunkUnits /\ a.pool # {}) /\ Unused(a) # {}
  <2> DEFINE c == CHOOSE c \in Unused(a) : TRUE
             w == FromLibc(a, k, n, c)
             S == [a.regions EXCEPT ![k] = <<c>> \o @]
             cap == IF n > ChunkUnits THEN n ELSE ChunkUnits
             D == [a.chunk EXCEPT ![c] = [cap |-> cap, used |-> 0]]
  <2>1. c \in Unused(a)
    BY <1>5
  <2>2. Serve(a, k, n) = Cut(w, k, n)
    BY <1>5 DEF Serve
  <2> HIDE DEF c
  <2>3. c \in Chunks /\ c \notin a.pool /\ \A j \in DOMAIN a.regions : ~Contains(a.regions[j], c)
    BY <2>1 DEF Unused
  <2>4. w = [regions |-> S, chunk |-> D, pool |-> a.pool, block |-> a.block]
    BY LibcFields
  <2>5. cap \in Nat /\ n <= cap
    BY StorageAssumption
  <2>6. /\ D \in [Chunks -> [cap : Nat, used : Nat]] /\ D[c].used = 0 /\ D[c].cap = cap
        /\ \A x \in Chunks \ {c} : D[x] = a.chunk[x]
    <3> HIDE DEF cap
    <3> QED BY <1>0, <2>3, <2>5
  <2>7. DOMAIN S = DOMAIN a.regions /\ S[k] = <<c>> \o a.regions[k] /\ S \in Seq(Seq(Chunks))
        /\ (\A j \in DOMAIN a.regions : j # k => S[j] = a.regions[j])
        /\ a.pool = a.pool \ {c}
    BY <1>0, <2>3, Prepended
  <2> HIDE DEF w, S, D, cap
  <2>8. IsArena(w) /\ w.regions = S /\ w.chunk = D /\ w.pool = a.pool
    BY <2>4, FieldsOf
  <2>9. Sane(S, D, a.pool) /\ Extended(a.regions, a.chunk, S, D) /\ S[k] # <<>> /\ Head(S[k]) = c
    <3>1. Taken(a.regions, a.chunk, a.pool, k, c, S, D, a.pool)
      BY <2>3, <2>6, <2>7 DEF Taken
    <3> QED BY <3>1, ChunkTaken
  <2>10. Fits(w, k, n)
    BY <2>5, <2>6, <2>8, <2>9 DEF Fits
  <2>11. Good(Cut(w, k, n))
    BY <1>1, <2>8, <2>9, <2>10
  <2> HIDE DEF Good
  <2>12. Good(Serve(a, k, n))
    BY <2>2, <2>11
  <2> QED BY <2>12 DEF Good
<1>6. CASE ~Fits(a, k, n) /\ ~(n <= ChunkUnits /\ a.pool # {}) /\ Unused(a) = {}
  <2> DEFINE e == [a EXCEPT !.block = HeapBlock]
  <2>1. e = [regions |-> a.regions, chunk |-> a.chunk, pool |-> a.pool, block |-> HeapBlock]
    BY DEF IsArena
  <2>2. Serve(a, k, n) = e
    BY <1>6 DEF Serve
  <2> HIDE DEF e
  <2>3. Good(e)
    BY <1>2, <2>1, FieldsOf
  <2> HIDE DEF Good
  <2>4. Good(Serve(a, k, n))
    BY <2>2, <2>3
  <2> QED BY <2>4 DEF Good
<1> QED BY <1>3, <1>4, <1>5, <1>6

-----------------------------------------------------------------------------
Parts == {"header", "data"}

(* The blocks of a list v that an arena serves lie in its region.            *)
AtHome(v, R, C) ==
  \A w \in Parts : v[w].at = "arena" => v.arena \in DOMAIN R /\ Lies(R, C, v.arena, v[w])

AllApart ==
  \A l, m \in Vecs, w, u \in Parts :
    vec[l][w].at = "arena" /\ vec[m][u].at = "arena" =>
      (l = m /\ w = u) \/ Apart(vec[l][w], vec[m][u])

HomeInv ==
  /\ HeapInv
  /\ Sane(regions, chunk, pool)
  /\ \A l \in Vecs : vec[l].cap \in Nat /\ AtHome(vec[l], regions, chunk)
  /\ AllApart

LEMMA HomeShows == HomeInv => ListsStayHome
<1> SUFFICES ASSUME HomeInv PROVE ListsStayHome
  OBVIOUS
<1>1. ASSUME NEW lw \in ArenaBlocks
      PROVE  /\ lw[1] \in Vecs /\ lw[2] \in Parts /\ lw = <<lw[1], lw[2]>>
             /\ BlockOf(lw) = vec[lw[1]][lw[2]] /\ BlockOf(lw).at = "arena"
  BY DEF ArenaBlocks, BlockOf, Parts
<1>2. ASSUME NEW lw \in ArenaBlocks
      PROVE  LET k == vec[lw[1]].arena
                 c == CHOOSE c \in BlockOf(lw).chunk : TRUE
             IN  /\ k \in DOMAIN regions
                 /\ Contains(regions[k], c)
                 /\ BlockOf(lw).from + BlockOf(lw).units <= chunk[c].used
                 /\ chunk[c].used <= chunk[c].cap
  <2> DEFINE k == vec[lw[1]].arena
             b == BlockOf(lw)
  <2>1. k \in DOMAIN regions /\ Lies(regions, chunk, k, b)
    BY <1>1 DEF HomeInv, AtHome
  <2>2. PICK c \in Chunks : /\ b.chunk = {c} /\ Contains(regions[k], c)
                            /\ b.from + b.units <= chunk[c].used
    BY <2>1 DEF Lies
  <2>3. (CHOOSE x \in b.chunk : TRUE) = c
    BY <2>2
  <2>4. chunk[c].used <= chunk[c].cap
    BY DEF HomeInv, Sane
  <2> QED BY <2>1, <2>2, <2>3, <2>4
<1>3. ASSUME NEW x \in ArenaBlocks, NEW y \in ArenaBlocks, x # y, BlockOf(x).chunk = BlockOf(y).chunk
      PROVE  \/ BlockOf(x).from + BlockOf(x).units <= BlockOf(y).from
             \/ BlockOf(y).from + BlockOf(y).units <= BlockOf(x).from
  <2>1. ~(x[1] = y[1] /\ x[2] = y[2])
    BY <1>1, <1>3
  <2>2. Apart(BlockOf(x), BlockOf(y))
    BY <1>1, <2>1 DEF HomeInv, AllApart
  <2> QED BY <1>3, <2>2 DEF Apart
<1> QED BY <1>2, <1>3 DEF ListsStayHome

LEMMA AtHomeOn ==
  ASSUME NEW v, NEW R, NEW C, NEW S, NEW D, Extended(R, C, S, D),
         C \in [Chunks -> [cap : Nat, used : Nat]], D \in [Chunks -> [cap : Nat, used : Nat]],
         AtHome(v, R, C)
  PROVE  AtHome(v, S, D)
<1>1. DOMAIN S = DOMAIN R
  BY DEF Extended
<1> QED BY <1>1, LiesOn DEF AtHome

(* A step that changes one list and serves its new blocks.                   *)
LEMMA OneListMoves ==
  ASSUME HomeInv, HeapInv', NEW l \in Vecs, NEW v, vec' = [vec EXCEPT ![l] = v], v.cap \in Nat,
         Sane(regions', chunk', pool'), Extended(regions, chunk, regions', chunk'),
         AtHome(v, regions', chunk'),
         \A w \in Parts : v[w].at = "arena" => v[w] = vec[l][w] \/ Clear(regions, chunk, v[w]),
         v.header.at = "arena" /\ v.data.at = "arena" =>
           Apart(v.header, v.data) /\ Apart(v.data, v.header)
  PROVE  HomeInv'
<1>1. vec'[l] = v /\ \A m \in Vecs : m # l => vec'[m] = vec[m]
  BY DEF HomeInv, HeapInv, HeapShapes
<1>2. chunk \in [Chunks -> [cap : Nat, used : Nat]] /\ chunk' \in [Chunks -> [cap : Nat, used : Nat]]
  BY DEF HomeInv, Sane
<1>3. ASSUME NEW m \in Vecs PROVE vec'[m].cap \in Nat /\ AtHome(vec'[m], regions', chunk')
  <2>1. CASE m = l
    BY <1>1, <2>1
  <2>2. CASE m # l
    <3>1. vec[m].cap \in Nat /\ AtHome(vec[m], regions, chunk)
      BY DEF HomeInv
    <3>2. AtHome(vec[m], regions', chunk')
      BY <3>1, <1>2, AtHomeOn
    <3> QED BY <1>1, <2>2, <3>1, <3>2
  <2> QED BY <2>1, <2>2
<1>4. ASSUME NEW m \in Vecs, m # l, NEW w \in Parts, NEW u \in Parts,
             vec[m][u].at = "arena", v[w].at = "arena"
      PROVE  Apart(vec[m][u], v[w]) /\ Apart(v[w], vec[m][u])
  <2>1. vec[m].arena \in DOMAIN regions /\ Lies(regions, chunk, vec[m].arena, vec[m][u])
    BY <1>4 DEF HomeInv, AtHome
  <2>2. CASE v[w] = vec[l][w]
    BY <1>4, <2>2 DEF HomeInv, AllApart
  <2>3. CASE Clear(regions, chunk, v[w])
    BY <2>1, <2>3 DEF Clear
  <2> QED BY <1>4, <2>2, <2>3
<1>5. ASSUME NEW m \in Vecs, NEW k \in Vecs, NEW w \in Parts, NEW u \in Parts,
             vec'[m][w].at = "arena", vec'[k][u].at = "arena"
      PROVE  (m = k /\ w = u) \/ Apart(vec'[m][w], vec'[k][u])
  <2>1. CASE m # l /\ k # l
    BY <1>1, <1>5, <2>1 DEF HomeInv, AllApart
  <2>2. CASE m = l /\ k # l
    BY <1>1, <1>4, <1>5, <2>2
  <2>3. CASE m # l /\ k = l
    BY <1>1, <1>4, <1>5, <2>3
  <2>4. CASE m = l /\ k = l
    <3>1. w = u \/ (w = "header" /\ u = "data") \/ (w = "data" /\ u = "header")
      BY DEF Parts
    <3> QED BY <1>1, <1>5, <2>4, <3>1
  <2> QED BY <2>1, <2>2, <2>3, <2>4
<1>6. AllApart'
  BY <1>5 DEF AllApart
<1>7. \A m \in Vecs : vec'[m].cap \in Nat /\ AtHome(vec'[m], regions', chunk')
  BY <1>3
<1> QED BY <1>6, <1>7 DEF HomeInv, AtHome

(* The lists of the regions that exit go, and the chunks of the others stay  *)
(* as they are.                                                              *)
LEMMA RegionsExit ==
  ASSUME HomeInv, HeapInv', NEW k \in Nat, k > 0, ListsGo(k),
         Sane(regions', chunk', pool'),
         \A j \in DOMAIN regions : j < k => j \in DOMAIN regions' /\ regions'[j] = regions[j],
         \A j \in DOMAIN regions, c \in Chunks : j < k /\ Contains(regions[j], c) => chunk'[c] = chunk[c]
  PROVE  HomeInv'
<1>1. vec' = [l \in Vecs |-> IF vec[l].arena >= k THEN NoVec ELSE vec[l]]
  BY DEF ListsGo
<1>2. /\ DOMAIN regions \subseteq Nat
      /\ \A l \in Vecs : vec[l].arena \in Nat
  BY DEF HomeInv, Sane, HeapInv, HeapShapes
<1>3. NoVec.header.at # "arena" /\ NoVec.data.at # "arena" /\ NoVec.cap = 0
  BY Blocks DEF NoVec
<1>4. ASSUME NEW l \in Vecs
      PROVE  /\ vec'[l].cap \in Nat /\ AtHome(vec'[l], regions', chunk')
             /\ \A w \in Parts : vec'[l][w].at = "arena" => vec'[l] = vec[l]
  <2>1. CASE vec[l].arena >= k
    <3>1. vec'[l] = NoVec
      BY <1>1, <2>1
    <3> QED BY <3>1, <1>3 DEF AtHome, Parts
  <2>2. CASE ~(vec[l].arena >= k)
    <3>1. vec'[l] = vec[l] /\ vec[l].arena < k
      BY <1>1, <1>2, <2>2
    <3>2. vec[l].cap \in Nat /\ AtHome(vec[l], regions, chunk)
      BY DEF HomeInv
    <3>3. ASSUME NEW w \in Parts, vec[l][w].at = "arena"
          PROVE  vec[l].arena \in DOMAIN regions' /\ Lies(regions', chunk', vec[l].arena, vec[l][w])
      <4>1. vec[l].arena \in DOMAIN regions /\ Lies(regions, chunk, vec[l].arena, vec[l][w])
        BY <3>2, <3>3 DEF AtHome
      <4>2. vec[l].arena \in DOMAIN regions' /\ regions'[vec[l].arena] = regions[vec[l].arena]
        BY <3>1, <4>1
      <4>3. \A c \in Chunks : Contains(regions[vec[l].arena], c) => chunk'[c] = chunk[c]
        BY <3>1, <4>1
      <4> QED BY <4>1, <4>2, <4>3 DEF Lies
    <3>4. AtHome(vec[l], regions', chunk')
      BY <3>3 DEF AtHome
    <3> QED BY <3>1, <3>2, <3>4
  <2> QED BY <2>1, <2>2
<1>5. AllApart'
  <2> SUFFICES ASSUME NEW m \in Vecs, NEW i \in Vecs, NEW w \in Parts, NEW u \in Parts,
                      vec'[m][w].at = "arena", vec'[i][u].at = "arena"
               PROVE  (m = i /\ w = u) \/ Apart(vec'[m][w], vec'[i][u])
    BY DEF AllApart
  <2>1. vec'[m] = vec[m] /\ vec'[i] = vec[i]
    BY <1>4
  <2> QED BY <2>1 DEF HomeInv, AllApart
<1>6. \A l \in Vecs : vec'[l].cap \in Nat /\ AtHome(vec'[l], regions', chunk')
  BY <1>4
<1> QED BY <1>5, <1>6 DEF HomeInv, AtHome

(* What FreeChunks makes of a chunk, given that P and R are what stays.      *)
LEMMA ChunksFreed ==
  ASSUME HomeInv, chunk' = FreeChunks
  PROVE  /\ chunk' \in [Chunks -> [cap : Nat, used : Nat]]
         /\ \A c \in Chunks : chunk'[c].used <= chunk'[c].cap
         /\ \A c \in Chunks : c \in pool' \/ (\E k \in DOMAIN regions' : Contains(regions'[k], c))
                                => chunk'[c] = chunk[c]
<1> DEFINE Z == [cap |-> 0, used |-> 0]
<1>1. /\ chunk \in [Chunks -> [cap : Nat, used : Nat]]
      /\ \A c \in Chunks : chunk[c].used <= chunk[c].cap
  BY DEF HomeInv, Sane
<1>2. Z \in [cap : Nat, used : Nat] /\ Z.used <= Z.cap
  OBVIOUS
<1>3. chunk' = [c \in Chunks |->
         IF c \in pool' \/ \E k \in DOMAIN regions' : Contains(regions'[k], c) THEN chunk[c] ELSE Z]
  BY DEF FreeChunks
<1> HIDE DEF Z
<1>4. \A c \in Chunks : chunk'[c] = chunk[c] \/ chunk'[c] = Z
  BY <1>3
<1>5. chunk' = [c \in Chunks |-> chunk'[c]]
  BY <1>3
<1>6. \A c \in Chunks : chunk'[c] \in [cap : Nat, used : Nat] /\ chunk'[c].used <= chunk'[c].cap
  BY <1>1, <1>2, <1>4
<1>7. chunk' \in [Chunks -> [cap : Nat, used : Nat]]
  BY <1>5, <1>6
<1> QED BY <1>3, <1>6, <1>7

LEMMA ExitKeeps ==
  ASSUME HomeInv, HeapInv', ExitRegion
  PROVE  HomeInv'
<1> DEFINE n == Len(regions)
           cs == Last(regions)
<1>1. regions \in Seq(Seq(Chunks)) /\ regions # <<>> /\ n \in Nat /\ n > 0 /\ DOMAIN regions = 1 .. n
  BY DEF HomeInv, Sane, ExitRegion
<1>2. /\ regions' \in Seq(Seq(Chunks)) /\ DOMAIN regions' = 1 .. n - 1
      /\ \A j \in 1 .. n - 1 : regions'[j] = regions[j]
  <2>1. regions' = SubSeq(regions, 1, n - 1)
    BY DEF ExitRegion, Front
  <2>2. regions' \in Seq(Seq(Chunks)) /\ Len(regions') = n - 1
    BY <1>1, <2>1
  <2>3. \A j \in 1 .. n - 1 : regions'[j] = regions[j]
    BY <1>1, <2>1
  <2> QED BY <2>2, <2>3
<1>3. cs \in Seq(Chunks) /\ cs = regions[n]
  BY <1>1 DEF Last
<1> HIDE DEF cs
<1>4. \A c \in pool' : c \in pool \/ (c \in Chunks /\ Contains(cs, c) /\ chunk[c].cap = ChunkUnits)
  <2>1. pool' \subseteq pool \cup {cs[i] : i \in {i \in DOMAIN cs : chunk[cs[i]].cap = ChunkUnits}}
    BY DEF ExitRegion, Pooled, cs
  <2>2. ASSUME NEW i \in DOMAIN cs PROVE cs[i] \in Chunks /\ Contains(cs, cs[i])
    BY <1>3 DEF Contains
  <2> QED BY <2>1, <2>2
<1>5. /\ chunk' \in [Chunks -> [cap : Nat, used : Nat]]
      /\ \A c \in Chunks : chunk'[c].used <= chunk'[c].cap
      /\ \A c \in Chunks : c \in pool' \/ (\E k \in DOMAIN regions' : Contains(regions'[k], c))
                                => chunk'[c] = chunk[c]
  BY ChunksFreed DEF ExitRegion
<1>6. \A c \in pool : c \in Chunks /\ chunk[c].cap = ChunkUnits /\ \A k \in DOMAIN regions : ~Contains(regions[k], c)
  BY DEF HomeInv, Sane
<1>7. \A j, k \in DOMAIN regions, c \in Chunks : Contains(regions[j], c) /\ Contains(regions[k], c) => j = k
  BY DEF HomeInv, Sane
<1>8. \A j \in 1 .. n - 1 : j \in DOMAIN regions /\ n \in DOMAIN regions /\ j # n
  <2> SUFFICES ASSUME NEW j \in 1 .. n - 1 PROVE j \in 1 .. n /\ n \in 1 .. n /\ j # n
    BY <1>1
  <2> HIDE DEF n
  <2> QED BY <1>1
<1>9. ASSUME NEW c \in pool'
      PROVE  c \in Chunks /\ chunk'[c].cap = ChunkUnits /\ \A k \in DOMAIN regions' : ~Contains(regions'[k], c)
  <2>1. c \in Chunks /\ chunk[c].cap = ChunkUnits
    BY <1>4, <1>6
  <2>2. chunk'[c] = chunk[c]
    BY <1>5, <2>1
  <2>3. ASSUME NEW k \in 1 .. n - 1, Contains(regions[k], c) PROVE FALSE
    BY <1>3, <1>4, <1>6, <1>7, <1>8, <2>1, <2>3
  <2> QED BY <1>2, <2>1, <2>2, <2>3
<1>10. \A j, k \in DOMAIN regions', c \in Chunks : Contains(regions'[j], c) /\ Contains(regions'[k], c) => j = k
  BY <1>2, <1>7, <1>8
<1>11. Sane(regions', chunk', pool')
  BY <1>2, <1>5, <1>9, <1>10 DEF Sane
<1>12. \A j \in DOMAIN regions : j < n => j \in DOMAIN regions' /\ regions'[j] = regions[j]
  BY <1>1, <1>2
<1>13. \A j \in DOMAIN regions, c \in Chunks : j < n /\ Contains(regions[j], c) => chunk'[c] = chunk[c]
  BY <1>5, <1>12
<1>14. ListsGo(n)
  BY DEF ExitRegion
<1> HIDE DEF n
<1> QED BY <1>1, <1>11, <1>12, <1>13, <1>14, RegionsExit

LEMMA CleanupKeeps ==
  ASSUME HomeInv, HeapInv', ThreadCleanup
  PROVE  HomeInv'
<1>1. regions' = <<>> /\ pool' = {} /\ chunk' = FreeChunks /\ ListsGo(1)
  BY DEF ThreadCleanup
<1>2. regions' \in Seq(Seq(Chunks)) /\ DOMAIN regions' = {}
  <2>1. <<>> \in Seq(Seq(Chunks)) /\ Len(<<>>) = 0
    OBVIOUS
  <2>2. DOMAIN regions' = 1 .. 0
    BY <1>1, <2>1
  <2> QED BY <1>1, <2>1, <2>2
<1>3. Sane(regions', chunk', pool')
  BY <1>1, <1>2, ChunksFreed DEF Sane
<1>4. \A j \in DOMAIN regions : ~(j < 1)
  BY DEF HomeInv, Sane
<1>5. 1 \in Nat /\ 1 > 0
  OBVIOUS
<1> QED BY <1>1, <1>3, <1>4, <1>5, RegionsExit

(* A step that leaves the lists alone.                                       *)
LEMMA ListsRest ==
  ASSUME HomeInv, HeapInv', vec' = vec, Sane(regions', chunk', pool'),
         \A j \in DOMAIN regions : j \in DOMAIN regions',
         \A j \in DOMAIN regions, c \in Chunks :
           Contains(regions[j], c) => Contains(regions'[j], c) /\ chunk[c].used <= chunk'[c].used
  PROVE  HomeInv'
<1>1. chunk \in [Chunks -> [cap : Nat, used : Nat]] /\ chunk' \in [Chunks -> [cap : Nat, used : Nat]]
  BY DEF HomeInv, Sane
<1>2. ASSUME NEW l \in Vecs PROVE vec'[l].cap \in Nat /\ AtHome(vec'[l], regions', chunk')
  <2>1. vec[l].cap \in Nat /\ AtHome(vec[l], regions, chunk)
    BY DEF HomeInv
  <2>2. ASSUME NEW w \in Parts, vec[l][w].at = "arena"
        PROVE  vec[l].arena \in DOMAIN regions' /\ Lies(regions', chunk', vec[l].arena, vec[l][w])
    <3>1. vec[l].arena \in DOMAIN regions /\ Lies(regions, chunk, vec[l].arena, vec[l][w])
      BY <2>1, <2>2 DEF AtHome
    <3>2. PICK c \in Chunks : /\ vec[l][w].chunk = {c} /\ vec[l][w].from \in Nat /\ vec[l][w].units \in Nat
                              /\ Contains(regions[vec[l].arena], c)
                              /\ vec[l][w].from + vec[l][w].units <= chunk[c].used
      BY <3>1 DEF Lies
    <3>3. Contains(regions'[vec[l].arena], c) /\ chunk[c].used <= chunk'[c].used
      BY <3>1, <3>2
    <3>4. chunk[c].used \in Nat /\ chunk'[c].used \in Nat
      BY <1>1
    <3>5. vec[l][w].from + vec[l][w].units <= chunk'[c].used
      BY <3>2, <3>3, <3>4
    <3> QED BY <3>1, <3>2, <3>3, <3>5 DEF Lies
  <2> QED BY <2>1, <2>2 DEF AtHome
<1>3. AllApart'
  BY DEF HomeInv, AllApart
<1>4. \A l \in Vecs : vec'[l].cap \in Nat /\ AtHome(vec'[l], regions', chunk')
  BY <1>2
<1> QED BY <1>3, <1>4 DEF HomeInv, AtHome

LEMMA EnterKeeps ==
  ASSUME HomeInv, HeapInv', EnterRegion
  PROVE  HomeInv'
<1> DEFINE n == Len(regions)
<1>1. regions \in Seq(Seq(Chunks)) /\ n \in Nat /\ DOMAIN regions = 1 .. n
  BY DEF HomeInv, Sane
<1>2. /\ regions' \in Seq(Seq(Chunks)) /\ DOMAIN regions' = 1 .. n + 1
      /\ regions'[n + 1] = <<>>
      /\ \A j \in 1 .. n : regions'[j] = regions[j]
      /\ UNCHANGED <<chunk, pool, vec>>
  <2>1. regions' = Append(regions, <<>>) /\ <<>> \in Seq(Chunks)
    BY DEF EnterRegion
  <2>2. regions' \in Seq(Seq(Chunks)) /\ Len(regions') = n + 1
    BY <1>1, <2>1
  <2>3. regions'[n + 1] = <<>> /\ \A j \in 1 .. n : regions'[j] = regions[j]
    BY <1>1, <2>1
  <2> QED BY <2>2, <2>3 DEF EnterRegion
<1>3. \A j \in DOMAIN regions', c \in Chunks :
         Contains(regions'[j], c) => j \in DOMAIN regions /\ Contains(regions[j], c)
  <2> SUFFICES ASSUME NEW j \in 1 .. n + 1, NEW c \in Chunks, Contains(regions'[j], c)
               PROVE  j \in DOMAIN regions /\ Contains(regions[j], c)
    BY <1>2
  <2>1. ~Contains(<<>>, c)
    BY DEF Contains
  <2>2. j # n + 1
    BY <1>2, <2>1
  <2>3. j \in 1 .. n
    BY <1>1, <2>2
  <2> QED BY <1>1, <1>2, <2>3
<1>4. Sane(regions', chunk', pool')
  <2>1. \A c \in pool : c \in Chunks
    BY DEF HomeInv, Sane
  <2> QED BY <1>2, <1>3, <2>1 DEF HomeInv, Sane
<1>5. \A j \in DOMAIN regions : j \in DOMAIN regions'
  BY <1>1, <1>2
<1>6. \A j \in DOMAIN regions, c \in Chunks :
         Contains(regions[j], c) => Contains(regions'[j], c) /\ chunk[c].used <= chunk'[c].used
  <2>1. \A c \in Chunks : chunk[c].used \in Nat
    BY DEF HomeInv, Sane
  <2> QED BY <1>1, <1>2, <2>1
<1> QED BY <1>2, <1>4, <1>5, <1>6, ListsRest

LEMMA PlaceKeeps ==
  ASSUME HomeInv, HeapInv', NEW n \in Nat, PlaceObject(n)
  PROVE  HomeInv'
<1> DEFINE k == Len(regions)
           e == Serve(Arena, k, n)
<1>1. k \in DOMAIN regions /\ IsArena(Arena) /\ Arena.regions = regions /\ Arena.chunk = chunk /\ Arena.pool = pool
  BY ArenaIs DEF PlaceObject, HomeInv, Sane, Arena
<1>2. Sane(Arena.regions, Arena.chunk, Arena.pool) /\ k \in DOMAIN Arena.regions
  BY <1>1 DEF HomeInv
<1>3. Sane(e.regions, e.chunk, e.pool) /\ Extended(regions, chunk, e.regions, e.chunk)
  BY <1>1, <1>2, ServeLies
<1>4. regions' = e.regions /\ chunk' = e.chunk /\ pool' = e.pool /\ vec' = vec
  BY DEF PlaceObject, Becomes
<1> HIDE DEF e, k
<1>5. Sane(regions', chunk', pool') /\ Extended(regions, chunk, regions', chunk')
  BY <1>3, <1>4
<1> QED BY <1>4, <1>5, ListsRest DEF Extended

LEMMA NewVecHome ==
  ASSUME HomeInv, HeapInv', NEW l \in Vecs, NEW cap \in Nat, NEW placed \in BOOLEAN, NewVec(l, cap, placed)
  PROVE  HomeInv'
<1> DEFINE slot == IF placed THEN Len(regions) ELSE 0
           fused == cap > 0 /\ cap <= FusedMax /\ slot = 0
           h == IF placed THEN Serve(Arena, slot, 1) ELSE [Arena EXCEPT !.block = HeapBlock]
           d == IF fused THEN [h EXCEPT !.block = FusedBlock]
                ELSE IF cap = 0 THEN [h EXCEPT !.block = NoBlock]
                ELSE IF placed THEN Serve(h, slot, cap) ELSE [h EXCEPT !.block = HeapBlock]
           v == [arena |-> slot, header |-> h.block, data |-> d.block, len |-> 0, cap |-> cap]
<1>1. /\ placed => regions # <<>>
      /\ vec' = [vec EXCEPT ![l] = v]
      /\ regions' = d.regions /\ chunk' = d.chunk /\ pool' = d.pool
  BY DEF NewVec, Becomes
<1>2. v.arena = slot /\ v.header = h.block /\ v.data = d.block /\ v.cap = cap
  OBVIOUS
<1>3. IsArena(Arena) /\ Arena.regions = regions /\ Arena.chunk = chunk /\ Arena.pool = pool
  BY ArenaIs DEF Arena
<1>4. Sane(regions, chunk, pool) /\ Sane(Arena.regions, Arena.chunk, Arena.pool)
  BY <1>3 DEF HomeInv
<1>5. Extended(regions, chunk, regions, chunk)
  <2>1. \A c \in Chunks : chunk[c].used \in Nat
    BY <1>4 DEF Sane
  <2> QED BY <2>1 DEF Extended
<1>6. placed => slot \in DOMAIN regions
  BY <1>1, <1>4 DEF Sane
<1>7. HeapBlock.at # "arena" /\ NoBlock.at # "arena" /\ FusedBlock.at # "arena"
  BY Blocks
(* The header. *)
<1>8. /\ IsArena(h) /\ Sane(h.regions, h.chunk, h.pool) /\ Extended(regions, chunk, h.regions, h.chunk)
      /\ h.block.at = "arena" => placed /\ Lies(h.regions, h.chunk, slot, h.block)
                                 /\ Clear(regions, chunk, h.block)
  <2>1. CASE placed
    <3> DEFINE e == Serve(Arena, slot, 1)
    <3>1. slot \in DOMAIN Arena.regions /\ 1 \in Nat
      BY <2>1, <1>3, <1>6
    <3> HIDE DEF slot
    <3>2. /\ IsArena(e) /\ Sane(e.regions, e.chunk, e.pool)
          /\ Extended(regions, chunk, e.regions, e.chunk)
          /\ \/ e.block = HeapBlock
             \/ /\ e.block.at = "arena" /\ Lies(e.regions, e.chunk, slot, e.block)
                /\ Clear(regions, chunk, e.block)
      BY <1>3, <1>4, <3>1, ServeLies
    <3>3. h = e
      BY <2>1
    <3> HIDE DEF e, h
    <3> QED BY <2>1, <1>7, <3>2, <3>3
  <2>2. CASE ~placed
    <3>1. h = [regions |-> regions, chunk |-> chunk, pool |-> pool, block |-> HeapBlock]
      BY <2>2 DEF Arena
    <3> HIDE DEF h
    <3> QED BY <3>1, <1>4, <1>5, <1>7, FieldsOf
  <2> QED BY <2>1, <2>2
<1> HIDE DEF h, slot
<1>9. Extended(h.regions, h.chunk, h.regions, h.chunk)
  <2>1. \A c \in Chunks : h.chunk[c].used \in Nat
    BY <1>8 DEF Sane
  <2> QED BY <2>1 DEF Extended
(* The elements. *)
<1>10. /\ IsArena(d) /\ Sane(d.regions, d.chunk, d.pool) /\ Extended(h.regions, h.chunk, d.regions, d.chunk)
       /\ d.block.at = "arena" => placed /\ Lies(d.regions, d.chunk, slot, d.block)
                                  /\ Clear(h.regions, h.chunk, d.block)
  <2>1. ASSUME NEW b, b.at # "arena", d = [h EXCEPT !.block = b]
        PROVE  /\ IsArena(d) /\ Sane(d.regions, d.chunk, d.pool)
               /\ Extended(h.regions, h.chunk, d.regions, d.chunk)
               /\ d.block.at # "arena"
    <3>1. d = [regions |-> h.regions, chunk |-> h.chunk, pool |-> h.pool, block |-> b]
      BY <1>8, <2>1 DEF IsArena
    <3> HIDE DEF d
    <3>2. IsArena(d) /\ d.regions = h.regions /\ d.chunk = h.chunk /\ d.pool = h.pool /\ d.block = b
      BY <3>1, FieldsOf
    <3> QED BY <1>8, <1>9, <2>1, <3>2
  <2>2. CASE fused
    BY <1>7, <2>1, <2>2
  <2>3. CASE ~fused /\ cap = 0
    BY <1>7, <2>1, <2>3
  <2>4. CASE ~fused /\ cap # 0 /\ ~placed
    BY <1>7, <2>1, <2>4
  <2>5. CASE ~fused /\ cap # 0 /\ placed
    <3> DEFINE e == Serve(h, slot, cap)
    <3>1. slot \in DOMAIN h.regions
      BY <1>6, <1>8, <2>5 DEF Extended
    <3>2. /\ IsArena(e) /\ Sane(e.regions, e.chunk, e.pool)
          /\ Extended(h.regions, h.chunk, e.regions, e.chunk)
          /\ \/ e.block = HeapBlock
             \/ /\ e.block.at = "arena" /\ Lies(e.regions, e.chunk, slot, e.block)
                /\ Clear(h.regions, h.chunk, e.block)
      BY <1>8, <3>1, ServeLies
    <3>3. d = e
      BY <2>5
    <3> HIDE DEF e, d
    <3> QED BY <1>7, <2>5, <3>2, <3>3
  <2> QED BY <2>2, <2>3, <2>4, <2>5
<1> HIDE DEF d, v, fused
<1>11. /\ chunk \in [Chunks -> [cap : Nat, used : Nat]] /\ h.chunk \in [Chunks -> [cap : Nat, used : Nat]]
       /\ d.chunk \in [Chunks -> [cap : Nat, used : Nat]]
  BY <1>4, <1>8, <1>10 DEF Sane
<1>12. Extended(regions, chunk, d.regions, d.chunk)
  BY <1>8, <1>10, <1>11, ExtendedTwice
<1>13. placed => slot \in DOMAIN h.regions /\ slot \in DOMAIN d.regions
  BY <1>6, <1>8, <1>12 DEF Extended
<1>14. h.block.at = "arena" => Lies(d.regions, d.chunk, slot, h.block)
  BY <1>8, <1>10, <1>11, <1>13, LiesOn
<1>15. AtHome(v, d.regions, d.chunk)
  BY <1>2, <1>8, <1>10, <1>13, <1>14 DEF AtHome, Parts
<1>16. d.block.at = "arena" => Clear(regions, chunk, d.block)
  <2> SUFFICES ASSUME d.block.at = "arena", NEW j \in DOMAIN regions, NEW x, Lies(regions, chunk, j, x)
               PROVE  Apart(x, d.block) /\ Apart(d.block, x)
    BY DEF Clear
  <2>1. j \in DOMAIN h.regions /\ Lies(h.regions, h.chunk, j, x)
    BY <1>8, <1>11, LiesOn DEF Extended
  <2> QED BY <1>10, <2>1 DEF Clear
<1>17. \A w \in Parts : v[w].at = "arena" => v[w] = vec[l][w] \/ Clear(regions, chunk, v[w])
  BY <1>2, <1>8, <1>16 DEF Parts
<1>18. v.header.at = "arena" /\ v.data.at = "arena" =>
         Apart(v.header, v.data) /\ Apart(v.data, v.header)
  BY <1>2, <1>8, <1>10, <1>13 DEF Clear
<1>19. /\ v.cap \in Nat /\ Sane(regions', chunk', pool') /\ Extended(regions, chunk, regions', chunk')
       /\ AtHome(v, regions', chunk')
  BY <1>1, <1>2, <1>10, <1>12, <1>15
<1> QED BY <1>1, <1>17, <1>18, <1>19, OneListMoves

LEMMA MoveHome ==
  ASSUME HomeInv, HeapInv', NEW l \in Vecs, IsVec(l), NEW n \in Nat, Move(l, n)
  PROVE  HomeInv'
<1> DEFINE k == vec[l].arena
           a == IF k > 0 THEN ServeAt(Arena, k, n) ELSE [Arena EXCEPT !.block = HeapBlock]
           v == [[vec[l] EXCEPT !.data = a.block] EXCEPT !.cap = n]
<1>1. /\ regions' = a.regions /\ chunk' = a.chunk /\ pool' = a.pool
      /\ vec' = [vec EXCEPT ![l].data = a.block, ![l].cap = n]
  BY DEF Move, Becomes
<1>2. IsArena(Arena) /\ Arena.regions = regions /\ Arena.chunk = chunk /\ Arena.pool = pool
  BY ArenaIs DEF Arena
<1>3. Sane(regions, chunk, pool) /\ Sane(Arena.regions, Arena.chunk, Arena.pool)
  BY <1>2 DEF HomeInv
<1>4. Extended(regions, chunk, regions, chunk)
  <2>1. \A c \in Chunks : chunk[c].used \in Nat
    BY <1>3 DEF Sane
  <2> QED BY <2>1 DEF Extended
<1>5. HeapBlock.at # "arena" /\ k \in Nat
  BY Blocks DEF HomeInv, HeapInv, HeapShapes
<1>6. /\ Sane(a.regions, a.chunk, a.pool) /\ Extended(regions, chunk, a.regions, a.chunk)
      /\ a.block.at = "arena" => /\ k \in DOMAIN a.regions
                                 /\ Lies(a.regions, a.chunk, k, a.block)
                                 /\ Clear(regions, chunk, a.block)
  <2>1. CASE k > 0 /\ k <= Len(regions)
    <3> DEFINE e == Serve(Arena, k, n)
    <3>1. k \in DOMAIN Arena.regions
      BY <1>2, <1>3, <1>5, <2>1 DEF Sane
    <3>2. a = e
      BY <1>2, <1>5, <2>1 DEF ServeAt
    <3> HIDE DEF a, k
    <3>3. /\ Sane(e.regions, e.chunk, e.pool)
          /\ Extended(regions, chunk, e.regions, e.chunk)
          /\ \/ e.block = HeapBlock
             \/ /\ e.block.at = "arena" /\ Lies(e.regions, e.chunk, k, e.block)
                /\ Clear(regions, chunk, e.block)
      BY <1>2, <1>3, <3>1, ServeLies
    <3> HIDE DEF e
    <3> QED BY <1>2, <1>5, <3>1, <3>2, <3>3 DEF Extended
  <2>2. CASE ~(k > 0 /\ k <= Len(regions))
    <3>1. a = [Arena EXCEPT !.block = HeapBlock]
      <4>1. regions \in Seq(Seq(Chunks))
        BY <1>3 DEF Sane
      <4>2. k = 0 \/ k > Len(regions)
        BY <1>5, <2>2, <4>1
      <4> QED BY <1>2, <1>5, <4>2 DEF ServeAt
    <3>2. [Arena EXCEPT !.block = HeapBlock]
            = [regions |-> regions, chunk |-> chunk, pool |-> pool, block |-> HeapBlock]
      BY DEF Arena
    <3>3. a = [regions |-> regions, chunk |-> chunk, pool |-> pool, block |-> HeapBlock]
      BY <3>1, <3>2
    <3> HIDE DEF a
    <3>4. a.regions = regions /\ a.chunk = chunk /\ a.pool = pool /\ a.block = HeapBlock
      BY <3>3, FieldsOf
    <3> QED BY <1>3, <1>4, <1>5, <3>4
  <2> QED BY <2>1, <2>2
<1> HIDE DEF a
<1>7. vec' = [vec EXCEPT ![l] = v]
  BY <1>1, TwoFields DEF HomeInv, HeapInv, HeapShapes
<1>8. v.arena = k /\ v.header = vec[l].header /\ v.data = a.block /\ v.cap = n
  <2> DEFINE u == [vec[l] EXCEPT !.data = a.block]
  <2>1. /\ DOMAIN u = {"arena", "header", "data", "len", "cap"}
        /\ u.arena = vec[l].arena /\ u.header = vec[l].header /\ u.data = a.block
    BY DEF HomeInv, HeapInv, HeapShapes
  <2> HIDE DEF u
  <2>2. v = [u EXCEPT !.cap = n]
    BY DEF u
  <2> HIDE DEF v
  <2> QED BY <2>1, <2>2
<1> HIDE DEF v
<1>9. AtHome(vec[l], regions, chunk) /\ chunk \in [Chunks -> [cap : Nat, used : Nat]]
      /\ a.chunk \in [Chunks -> [cap : Nat, used : Nat]]
  BY <1>3, <1>6 DEF HomeInv, Sane
<1>10. AtHome(vec[l], a.regions, a.chunk)
  BY <1>6, <1>9, AtHomeOn
<1>11. AtHome(v, a.regions, a.chunk)
  BY <1>6, <1>8, <1>10 DEF AtHome, Parts
<1>12. \A w \in Parts : v[w].at = "arena" => v[w] = vec[l][w] \/ Clear(regions, chunk, v[w])
  BY <1>6, <1>8 DEF Parts
<1>13. v.header.at = "arena" /\ v.data.at = "arena" =>
         Apart(v.header, v.data) /\ Apart(v.data, v.header)
  <2> SUFFICES ASSUME v.header.at = "arena", v.data.at = "arena"
               PROVE  Apart(v.header, v.data) /\ Apart(v.data, v.header)
    OBVIOUS
  <2>1. k \in DOMAIN regions /\ Lies(regions, chunk, k, v.header)
    BY <1>8, <1>9 DEF AtHome, Parts
  <2>2. Clear(regions, chunk, v.data)
    BY <1>6, <1>8
  <2> QED BY <2>1, <2>2 DEF Clear
<1>14. /\ v.cap \in Nat /\ Sane(regions', chunk', pool') /\ Extended(regions, chunk, regions', chunk')
       /\ AtHome(v, regions', chunk')
  BY <1>1, <1>6, <1>8, <1>11
<1> QED BY <1>7, <1>12, <1>13, <1>14, OneListMoves

(* A step that changes a list's length or ends it, and no arena.             *)
LEMMA ListShrinks ==
  ASSUME HomeInv, HeapInv', NEW l \in Vecs, NEW v, vec' = [vec EXCEPT ![l] = v], v.cap \in Nat,
         UNCHANGED <<regions, chunk, pool>>,
         \/ v.arena = vec[l].arena /\ v.header = vec[l].header /\ v.data = vec[l].data
         \/ v.header.at # "arena" /\ v.data.at # "arena"
  PROVE  HomeInv'
<1>1. Sane(regions, chunk, pool) /\ AtHome(vec[l], regions, chunk)
  BY DEF HomeInv
<1>2. Extended(regions, chunk, regions, chunk)
  <2>1. \A c \in Chunks : chunk[c].used \in Nat
    BY <1>1 DEF Sane
  <2> QED BY <2>1 DEF Extended
<1>3. AtHome(v, regions, chunk)
  BY <1>1 DEF AtHome, Parts
<1>4. \A w \in Parts : v[w].at = "arena" => v[w] = vec[l][w] \/ Clear(regions, chunk, v[w])
  BY DEF Parts
<1>5. v.header.at = "arena" /\ v.data.at = "arena" =>
         Apart(v.header, v.data) /\ Apart(v.data, v.header)
  BY DEF HomeInv, AllApart, Parts
<1>6. Sane(regions', chunk', pool') /\ Extended(regions, chunk, regions', chunk') /\ AtHome(v, regions', chunk')
  BY <1>1, <1>2, <1>3
<1> QED BY <1>4, <1>5, <1>6, OneListMoves

LEMMA LengthHome ==
  ASSUME HomeInv, HeapInv', NEW l \in Vecs, NEW n, vec' = [vec EXCEPT ![l].len = n],
         UNCHANGED <<regions, chunk, pool>>
  PROVE  HomeInv'
<1> DEFINE v == [vec[l] EXCEPT !.len = n]
<1>1. vec' = [vec EXCEPT ![l] = v]
  OBVIOUS
<1>2. /\ v.arena = vec[l].arena /\ v.header = vec[l].header /\ v.data = vec[l].data
      /\ v.cap = vec[l].cap /\ vec[l].cap \in Nat
  BY DEF HomeInv, HeapInv, HeapShapes
<1> HIDE DEF v
<1> QED BY <1>1, <1>2, ListShrinks

LEMMA ReleaseHome ==
  ASSUME HomeInv, HeapInv', NEW l \in Vecs, ReleaseVec(l)
  PROVE  HomeInv'
<1>1. vec' = [vec EXCEPT ![l] = NoVec] /\ UNCHANGED <<regions, chunk, pool>>
  BY DEF ReleaseVec
<1>2. NoVec.header.at # "arena" /\ NoVec.data.at # "arena" /\ NoVec.cap \in Nat
  BY Blocks DEF NoVec
<1> DEFINE v == NoVec
<1> HIDE DEF v
<1>3. vec' = [vec EXCEPT ![l] = v] /\ v.header.at # "arena" /\ v.data.at # "arena" /\ v.cap \in Nat
  BY <1>1, <1>2 DEF v
<1> QED BY <1>1, <1>3, ListShrinks

LEMMA HomeInitial == StorageInit => HomeInv
<1> SUFFICES ASSUME StorageInit PROVE HomeInv
  OBVIOUS
<1>1. /\ regions = <<>> /\ pool = {} /\ vec = [l \in Vecs |-> NoVec]
      /\ chunk = [c \in Chunks |-> [cap |-> 0, used |-> 0]]
  BY DEF StorageInit
<1>2. regions \in Seq(Seq(Chunks)) /\ DOMAIN regions = {}
  <2>1. <<>> \in Seq(Seq(Chunks)) /\ Len(<<>>) = 0
    OBVIOUS
  <2>2. DOMAIN regions = 1 .. 0
    BY <1>1, <2>1
  <2> QED BY <1>1, <2>1, <2>2
<1>3. Sane(regions, chunk, pool)
  BY <1>1, <1>2 DEF Sane
<1>4. NoVec.header.at # "arena" /\ NoVec.data.at # "arena" /\ NoVec.cap \in Nat
  BY Blocks DEF NoVec
<1>5. \A l \in Vecs : vec[l].cap \in Nat /\ AtHome(vec[l], regions, chunk)
  BY <1>1, <1>4 DEF AtHome, Parts
<1>6. AllApart
  BY <1>1, <1>4 DEF AllApart, Parts
<1> QED BY <1>3, <1>5, <1>6, HeapInitial DEF HomeInv

LEMMA HomeStep == HomeInv /\ [StorageNext]_storageVars => HomeInv'
<1> SUFFICES ASSUME HomeInv, [StorageNext]_storageVars PROVE HomeInv'
  OBVIOUS
<1>0. HeapInv' /\ \A l \in Vecs : vec[l].cap \in Nat
  BY HeapStep DEF HomeInv
<1>1. CASE UNCHANGED storageVars
  BY <1>1, <1>0 DEF storageVars, HomeInv, AtHome, AllApart
<1>2. CASE EnterRegion \/ ExitRegion \/ ThreadCleanup
  BY <1>0, <1>2, EnterKeeps, ExitKeeps, CleanupKeeps
<1>3. ASSUME NEW n \in {1, ChunkUnits + 1}, PlaceObject(n) PROVE HomeInv'
  BY <1>0, <1>3, PlaceKeeps, StorageAssumption
<1>4. ASSUME NEW l \in Vecs, NEW cap \in {0, 1, FusedMax + 1}, NEW placed \in BOOLEAN,
             NewVec(l, cap, placed)
      PROVE  HomeInv'
  BY <1>0, <1>4, NewVecHome, StorageAssumption
<1>5. ASSUME NEW l \in Vecs, Push(l) \/ Shorten(l) PROVE HomeInv'
  BY <1>0, <1>5, LengthHome DEF Push, Shorten
<1>6. ASSUME NEW l \in Vecs, Grow(l) PROVE HomeInv'
  <2>1. Grown(l) \in Nat
    BY <1>0, StorageAssumption DEF Grown
  <2> QED BY <1>0, <1>6, <2>1, MoveHome DEF Grow
<1>7. ASSUME NEW l \in Vecs, NEW n \in 1 .. MaxCap, Reserve(l, n) PROVE HomeInv'
  BY <1>0, <1>7, MoveHome DEF Reserve
<1>8. ASSUME NEW l \in Vecs, ReleaseVec(l) PROVE HomeInv'
  BY <1>0, <1>8, ReleaseHome
<1> QED BY <1>1, <1>2, <1>3, <1>4, <1>5, <1>6, <1>7, <1>8 DEF StorageNext

(* A list and its elements stay in the region the list came from, in memory  *)
(* no other list has, however regions nest, chunks are pooled and elements   *)
(* move (arena_alloc_slot, arena_pop, list_push_grow, list_reserve).         *)
THEOREM StorageStaysHome == StorageSpec => []ListsStayHome
BY HomeInitial, HomeStep, HomeShows, PTL DEF StorageSpec
=============================================================================
