-------------------------- MODULE CollectorProofs --------------------------
(***************************************************************************)
(* Safety of the T4b cycle collector, and that garbage cycles do not       *)
(* escape it, for every heap, every number of fields and every size of the *)
(* candidate buffer.                                                       *)
(***************************************************************************)
EXTENDS CycleCollector, FiniteSetTheorems, SequenceTheorems, TLAPS

----------------------------------------------------------------------------
(***************************************************************************)
(* Counts that cover places.  P gives each object the places that hold it. *)
(***************************************************************************)
MemStates == {"none", "alive", "freed"}
AllPlaces == (Lists \X (1 .. MaxLen)) \cup (Objects \X FieldNames)

Covered(m, r, P) ==
    /\ m \in [Objects -> MemStates]
    /\ r \in [Objects -> Nat]
    /\ P \in [Objects -> SUBSET AllPlaces]
    /\ \A x \in Objects : m[x] = "alive" => Cardinality(P[x]) <= r[x]
    /\ \A x \in Objects : m[x] # "alive" => P[x] = {}

LEMMA PlacesAreFinite == \A S \in SUBSET AllPlaces : IsFiniteSet(S) /\ Cardinality(S) \in Nat
<1>1. IsFiniteSet(1 .. MaxLen) /\ IsFiniteSet(FieldNames)
  BY CollectorAssumption, FS_Interval DEF FieldNames
<1>2. IsFiniteSet(Lists \X (1 .. MaxLen)) /\ IsFiniteSet(Objects \X FieldNames)
  BY <1>1, CollectorAssumption, FS_Product
<1>3. IsFiniteSet(AllPlaces)
  BY <1>2, FS_Union DEF AllPlaces
<1> QED BY <1>3, FS_Subset, FS_CardinalityType

\* Places may go, and counts may grow.
LEMMA CoveredLess ==
  ASSUME NEW m, NEW r, NEW P, Covered(m, r, P),
         NEW r2 \in [Objects -> Nat], NEW P2 \in [Objects -> SUBSET AllPlaces],
         \A x \in Objects : P2[x] \subseteq P[x] /\ r2[x] >= r[x]
  PROVE  Covered(m, r2, P2)
<1>1. ASSUME NEW x \in Objects, m[x] = "alive" PROVE Cardinality(P2[x]) <= r2[x]
  <2>1. P[x] \in SUBSET AllPlaces /\ P2[x] \in SUBSET P[x] /\ r[x] \in Nat /\ r2[x] \in Nat
    BY DEF Covered
  <2>2. IsFiniteSet(P[x]) /\ Cardinality(P[x]) \in Nat /\ Cardinality(P2[x]) \in Nat
    BY <2>1, PlacesAreFinite
  <2>3. Cardinality(P2[x]) <= Cardinality(P[x])
    BY <2>1, <2>2, FS_Subset
  <2>4. Cardinality(P[x]) <= r[x] /\ r2[x] >= r[x]
    BY <1>1 DEF Covered
  <2> QED BY <2>1, <2>2, <2>3, <2>4
<1> QED BY <1>1 DEF Covered

\* A retain pays for one more place of y.
LEMMA CoveredRetain ==
  ASSUME NEW m, NEW r, NEW P, Covered(m, r, P), NEW y \in Objects, m[y] = "alive", NEW p,
         NEW P2 \in [Objects -> SUBSET AllPlaces], P2[y] \subseteq P[y] \cup {p},
         \A x \in Objects \ {y} : P2[x] \subseteq P[x],
         NEW r2, r2 = [r EXCEPT ![y] = r[y] + 1]
  PROVE  Covered(m, r2, P2)
<1>0. r2 \in [Objects -> Nat] /\ r[y] \in Nat /\ r2[y] = r[y] + 1 /\ \A x \in Objects \ {y} : r2[x] = r[x]
  BY DEF Covered
<1>1. Cardinality(P2[y]) <= r2[y]
  <2>1. P[y] \in SUBSET AllPlaces
    BY DEF Covered
  <2>2. IsFiniteSet(P[y]) /\ Cardinality(P[y]) \in Nat /\ Cardinality(P2[y]) \in Nat
    BY <2>1, PlacesAreFinite
  <2>3. /\ IsFiniteSet(P[y] \cup {p})
        /\ Cardinality(P[y] \cup {p}) = IF p \in P[y] THEN Cardinality(P[y]) ELSE Cardinality(P[y]) + 1
    BY ONLY <2>2, FS_AddElement
  <2>4. Cardinality(P[y] \cup {p}) <= Cardinality(P[y]) + 1 /\ Cardinality(P[y] \cup {p}) \in Nat
    BY ONLY <2>2, <2>3
  <2>5. Cardinality(P2[y]) <= Cardinality(P[y] \cup {p})
    BY <2>3, FS_Subset
  <2>6. Cardinality(P[y]) <= r[y]
    BY DEF Covered
  <2> QED BY ONLY <1>0, <2>2, <2>4, <2>5, <2>6
<1>2. ASSUME NEW x \in Objects \ {y}, m[x] = "alive" PROVE Cardinality(P2[x]) <= r2[x]
  <2>1. P[x] \in SUBSET AllPlaces /\ P2[x] \in SUBSET P[x] /\ r[x] \in Nat
    BY DEF Covered
  <2>2. IsFiniteSet(P[x]) /\ Cardinality(P[x]) \in Nat /\ Cardinality(P2[x]) \in Nat
    BY <2>1, PlacesAreFinite
  <2>3. Cardinality(P2[x]) <= Cardinality(P[x])
    BY <2>1, <2>2, FS_Subset
  <2>4. Cardinality(P[x]) <= r[x] /\ r2[x] = r[x]
    BY <1>0, <1>2 DEF Covered
  <2> QED BY ONLY <2>1, <2>2, <2>3, <2>4
<1>3. \A x \in Objects : m[x] # "alive" => P2[x] = {}
  BY DEF Covered
<1> QED BY <1>0, <1>1, <1>2, <1>3 DEF Covered

\* What has a place is alive and has a count.
LEMMA HeldIsCounted ==
  ASSUME NEW m, NEW r, NEW P, Covered(m, r, P), NEW y \in Objects, NEW p \in P[y]
  PROVE  m[y] = "alive" /\ r[y] \in Nat /\ r[y] > 0
<1>1. m[y] = "alive" /\ P[y] \in SUBSET AllPlaces /\ r[y] \in Nat
  BY DEF Covered
<1>2. IsFiniteSet(P[y]) /\ Cardinality(P[y]) \in Nat
  BY <1>1, PlacesAreFinite
<1>3. Cardinality(P[y]) # 0
  BY <1>2, FS_EmptySet
<1>4. Cardinality(P[y]) <= r[y]
  BY <1>1 DEF Covered
<1> QED BY ONLY <1>1, <1>2, <1>3, <1>4

\* A place of y is gone, and its count with it.
LEMMA CoveredRelease ==
  ASSUME NEW m, NEW r, NEW P, Covered(m, r, P), NEW y \in Objects, NEW p \in P[y],
         NEW P2 \in [Objects -> SUBSET AllPlaces], P2[y] \subseteq P[y] \ {p},
         \A x \in Objects \ {y} : P2[x] \subseteq P[x],
         NEW r2, r2 = [r EXCEPT ![y] = r[y] - 1]
  PROVE  Covered(m, r2, P2)
<1>0. m[y] = "alive" /\ r[y] \in Nat /\ r[y] > 0
  BY HeldIsCounted
<1>a. r2 \in [Objects -> Nat] /\ r2[y] = r[y] - 1 /\ \A x \in Objects \ {y} : r2[x] = r[x]
  BY <1>0 DEF Covered
<1>1. Cardinality(P2[y]) <= r2[y]
  <2>1. P[y] \in SUBSET AllPlaces
    BY DEF Covered
  <2>2. IsFiniteSet(P[y]) /\ Cardinality(P[y]) \in Nat /\ Cardinality(P2[y]) \in Nat
    BY <2>1, PlacesAreFinite
  <2>3. IsFiniteSet(P[y] \ {p}) /\ Cardinality(P[y] \ {p}) = Cardinality(P[y]) - 1
    BY <2>2, FS_RemoveElement
  <2>5. Cardinality(P2[y]) <= Cardinality(P[y] \ {p})
    BY <2>3, FS_Subset
  <2>6. Cardinality(P[y]) <= r[y]
    BY <1>0 DEF Covered
  <2> QED BY ONLY <1>0, <1>a, <2>2, <2>3, <2>5, <2>6
<1>2. ASSUME NEW x \in Objects \ {y}, m[x] = "alive" PROVE Cardinality(P2[x]) <= r2[x]
  <2>1. P[x] \in SUBSET AllPlaces /\ P2[x] \in SUBSET P[x] /\ r[x] \in Nat
    BY DEF Covered
  <2>2. IsFiniteSet(P[x]) /\ Cardinality(P[x]) \in Nat /\ Cardinality(P2[x]) \in Nat
    BY <2>1, PlacesAreFinite
  <2>3. Cardinality(P2[x]) <= Cardinality(P[x])
    BY <2>1, <2>2, FS_Subset
  <2>4. Cardinality(P[x]) <= r[x] /\ r2[x] = r[x]
    BY <1>a, <1>2 DEF Covered
  <2> QED BY ONLY <2>1, <2>2, <2>3, <2>4
<1>3. \A x \in Objects : m[x] # "alive" => P2[x] = {}
  BY <1>0 DEF Covered
<1> QED BY <1>a, <1>1, <1>2, <1>3 DEF Covered

\* An object without a count has no place, and may be freed.
LEMMA CoveredFree ==
  ASSUME NEW m, NEW r, NEW P, Covered(m, r, P), NEW y \in Objects, r[y] = 0
  PROVE  P[y] = {} /\ Covered([m EXCEPT ![y] = "freed"], r, P)
<1>1. P[y] = {}
  BY HeldIsCounted
<1> QED BY <1>1 DEF Covered, MemStates

\* A literal is born, without places, and pays for what its fields hold.
LEMMA CoveredLiteral ==
  ASSUME NEW m, NEW r, NEW P, Covered(m, r, P), NEW y \in Objects, m[y] # "alive",
         NEW ys \in [FieldNames -> Objects \cup {Nil}],
         \A f \in FieldNames : ys[f] # Nil => m[ys[f]] = "alive",
         NEW P2 \in [Objects -> SUBSET AllPlaces],
         \A x \in Objects : P2[x] \subseteq P[x] \cup {<<y, f>> : f \in {g \in FieldNames : ys[g] = x}},
         NEW r2, r2 = [x \in Objects |-> r[x] + Cardinality({f \in FieldNames : ys[f] = x})]
  PROVE  Covered([m EXCEPT ![y] = "alive"], r2, P2)
<1> DEFINE F(x) == {f \in FieldNames : ys[f] = x}
           G(x) == {<<y, f>> : f \in F(x)}
<1>1. ASSUME NEW x \in Objects
      PROVE  /\ IsFiniteSet(F(x)) /\ Cardinality(F(x)) \in Nat
             /\ IsFiniteSet(G(x)) /\ Cardinality(G(x)) \in Nat /\ Cardinality(G(x)) <= Cardinality(F(x))
  <2>1. IsFiniteSet(FieldNames)
    BY CollectorAssumption, FS_Interval DEF FieldNames
  <2>2. IsFiniteSet(F(x)) /\ Cardinality(F(x)) \in Nat
    BY <2>1, FS_Subset, FS_CardinalityType
  <2>3. [f \in F(x) |-> <<y, f>>] \in Surjection(F(x), G(x))
    BY DEF Surjection
  <2> HIDE DEF F, G
  <2>4. IsFiniteSet(G(x)) /\ Cardinality(G(x)) <= Cardinality(F(x))
    BY <2>2, <2>3, FS_Surjection
  <2> QED BY <2>2, <2>4, FS_CardinalityType
<1>2. ASSUME NEW x \in Objects
      PROVE  /\ r2[x] \in Nat /\ r2[x] = r[x] + Cardinality(F(x))
             /\ P[x] \in SUBSET AllPlaces /\ r[x] \in Nat
             /\ m[x] = "alive" => Cardinality(P[x]) <= r[x]
             /\ m[x] # "alive" => P[x] = {}
             /\ P2[x] \subseteq P[x] \cup G(x)
  <2>1. P[x] \in SUBSET AllPlaces /\ r[x] \in Nat /\ (m[x] = "alive" => Cardinality(P[x]) <= r[x])
        /\ (m[x] # "alive" => P[x] = {})
    BY DEF Covered
  <2>2. r2[x] = r[x] + Cardinality(F(x))
    OBVIOUS
  <2>3. P2[x] \subseteq P[x] \cup G(x)
    OBVIOUS
  <2> HIDE DEF F, G
  <2> QED BY <1>1, <2>1, <2>2, <2>3
<1>3. ASSUME NEW x \in Objects, m[x] = "alive" \/ x = y PROVE Cardinality(P2[x]) <= r2[x]
  <2>0. Cardinality(P[x]) <= r[x]
    <3>1. CASE m[x] = "alive"
      BY <1>2, <3>1
    <3>2. CASE m[x] # "alive"
      <4>1. P[x] = {} /\ r[x] \in Nat
        BY <1>2, <3>2
      <4> QED BY ONLY <4>1, FS_EmptySet
    <3> QED BY <3>1, <3>2
  <2>1. IsFiniteSet(P[x]) /\ Cardinality(P[x]) \in Nat /\ Cardinality(P2[x]) \in Nat
    BY <1>2, PlacesAreFinite
  <2>2. /\ IsFiniteSet(P[x] \cup G(x))
        /\ Cardinality(P[x] \cup G(x)) = Cardinality(P[x]) + Cardinality(G(x)) - Cardinality(P[x] \cap G(x))
    <3> HIDE DEF G
    <3> QED BY <1>1, <2>1, FS_Union
  <2>3. Cardinality(P[x] \cap G(x)) \in Nat /\ Cardinality(P[x] \cup G(x)) \in Nat
    <3> HIDE DEF G
    <3> QED BY <2>1, <2>2, FS_Intersection, FS_CardinalityType
  <2>4. Cardinality(P2[x]) <= Cardinality(P[x] \cup G(x))
    <3> HIDE DEF G
    <3> QED BY <1>2, <2>2, FS_Subset
  <2> HIDE DEF F, G
  <2> QED BY <1>1, <1>2, <2>0, <2>1, <2>2, <2>3, <2>4
<1>4. ASSUME NEW x \in Objects, m[x] # "alive", x # y PROVE P2[x] = {}
  <2>1. F(x) = {}
    BY <1>4, CollectorAssumption
  <2> QED BY <1>2, <1>4, <2>1
<1>5. r2 \in [Objects -> Nat]
  BY <1>2
<1>6. [m EXCEPT ![y] = "alive"] \in [Objects -> MemStates]
  BY DEF Covered, MemStates
<1> QED BY <1>3, <1>4, <1>5, <1>6 DEF Covered

----------------------------------------------------------------------------
(***************************************************************************)
(* The inductive invariant                                                 *)
(***************************************************************************)
Colours == {"black", "purple", "grey", "white"}
Ops == {"root", "grey", "scan", "black", "white"}
VisitSet == Ops \X Objects \X (0 .. Fields)

CollectorTypeOK ==
    /\ colour \in [Objects -> Colours]
    /\ buffered \in [Objects -> BOOLEAN]
    /\ cand \in Seq(Objects)
    /\ phase \in {"idle", "root", "grey", "scan", "white"}
    /\ live \in Seq(Objects)
    /\ walk \in Seq(VisitSet)
    /\ kid \in [Objects -> [FieldNames -> Objects \cup {Nil}]]
    /\ store = <<>>
    /\ lists \in [Lists -> Seq(Objects)]
    /\ \A l \in Lists : Len(lists[l]) <= MaxLen
    /\ dying \in Lists \cup {Nil}
    /\ dying # Nil => lists[dying] # <<>>

Pending == ToSet(walk)
Alive(x) == mem[x] = "alive"

\* The fields whose reference is in the count of what they hold: those of a
\* black or purple object, unless the walk has still to give theirs back, and
\* those of a grey one that the walk has still to take away.
Counted(y, f) ==
    /\ Alive(y)
    /\ \/ colour[y] \in {"black", "purple"} /\ <<"black", y, f>> \notin Pending
       \/ colour[y] = "grey" /\ <<"grey", y, f>> \in Pending
Held(x) == {p \in Objects \X FieldNames : kid[p[1]][p[2]] = x /\ Counted(p[1], p[2])}
Places == [x \in Objects |-> Slots(x) \cup Held(x)]

\* A visit that would count twice if it were made twice is pending once.
Tracked(v) == v[1] = "root" \/ (v[1] \in {"grey", "black"} /\ v[3] # 0)
NoRepeat == \A i, j \in DOMAIN walk : walk[i] = walk[j] /\ Tracked(walk[i]) => i = j

\* Each loop of cyc_collect makes its own visits.
Fits ==
    /\ phase = "idle" => walk = <<>> /\ live = <<>>
    /\ \A v \in Pending :
          /\ v[1] = "root" => phase = "root" /\ v[3] = 0
          /\ v[1] = "grey" => phase = "grey"
          /\ v[1] = "scan" => phase = "scan"
          /\ v[1] = "black" => phase = "scan" /\ v[3] # 0
          /\ v[1] = "white" => phase = "white"

\* What the colours say between two visits.
ColoursOK ==
    /\ \A x \in Objects : colour[x] = "white" => rc[x] = 0
    /\ \A x \in Objects : colour[x] = "grey" => Alive(x) /\ phase \in {"grey", "scan"}
    /\ \A x \in Objects : mem[x] = "none" => colour[x] = "black"
    /\ \A x \in Objects : Alive(x) /\ colour[x] = "purple" =>
          \/ buffered[x]
          \/ <<"root", x, 0>> \in Pending \/ <<"grey", x, 0>> \in Pending
          \/ phase = "root" /\ x \in ToSet(live)

\* The object whose field, or which itself, is to be visited.
SourcesOK ==
    \A v \in Pending :
        /\ v[1] = "root" => Alive(v[2]) /\ ~buffered[v[2]]
        /\ v[1] = "grey" /\ v[3] # 0 => colour[v[2]] = "grey"
        /\ v[1] = "grey" /\ v[3] = 0 => Alive(v[2]) /\ colour[v[2]] # "white"
        /\ v[1] = "black" => Alive(v[2]) /\ colour[v[2]] = "black"

RootsOK ==
    /\ phase = "root" =>
          \A x \in ToSet(live) : Alive(x) /\ rc[x] > 0 /\ <<"root", x, 0>> \notin Pending
    /\ phase = "grey" =>
          /\ \A x \in ToSet(live) : colour[x] = "grey" \/ <<"grey", x, 0>> \in Pending
          /\ \A x \in Objects : <<"grey", x, 0>> \in Pending => x \in ToSet(live)

Kids(x) == {kid[x][f] : f \in FieldNames} \ {Nil}
Grey == {x \in Objects : colour[x] = "grey"}
ClosedUnderGrey(S) == \A x \in S \cap Grey : Kids(x) \subseteq S

\* Marking: what a grey object holds is grey or is to be visited, and the grey
\* objects are found from the roots.
GreyOK ==
    phase = "grey" =>
        /\ \A x \in Grey, f \in FieldNames :
              kid[x][f] = Nil \/ <<"grey", x, f>> \in Pending \/ kid[x][f] \in Grey
        /\ \A S \in SUBSET Objects :
              ToSet(live) \subseteq S /\ ClosedUnderGrey(S) => Grey \subseteq S

\* Scanning: the objects that are still grey are found from the pending visits.
Targets == {Target(v) : v \in Pending} \ {Nil}
ScanOK ==
    phase = "scan" =>
        \A S \in SUBSET Objects :
            Targets \subseteq S /\ ClosedUnderGrey(S) => Grey \subseteq S

\* What earlier collections left white, because it was buffered or hung below
\* something that was, is out of this collection's reach; and what is in its
\* reach has not been freed, but for what it frees itself.
Sound(y) == Alive(y) \/ (phase = "white" /\ mem[y] = "freed" /\ colour[y] = "black")
Apart(Old) ==
    /\ \A x \in Old : colour[x] = "white"
    /\ phase = "root" => \A x \in Objects : colour[x] = "white" => x \in Old
    /\ \A x \in Objects \ Old : Alive(x) => \A y \in Kids(x) : y \notin Old /\ Sound(y)
    /\ phase # "root" => \A y \in Targets : y \notin Old /\ Sound(y)
    /\ \A x \in ToSet(live) : x \notin Old /\ Sound(x)
OldOK == phase # "idle" => \E Old \in SUBSET Objects : Apart(Old)

CollectorInv ==
    /\ CollectorTypeOK /\ Covered(mem, rc, Places)
    /\ NoRepeat /\ Fits /\ ColoursOK /\ SourcesOK /\ RootsOK /\ GreyOK /\ ScanOK /\ OldOK
    /\ BufferIsExact /\ FreedOnce

----------------------------------------------------------------------------
(***************************************************************************)
(* The stack of visits                                                     *)
(***************************************************************************)
Once(w) == \A i, j \in DOMAIN w : w[i] = w[j] /\ Tracked(w[i]) => i = j

Moved(S, w, more, w2) ==
    /\ w2 \in Seq(S) /\ Head(w) \in S
    /\ ToSet(w) = {Head(w)} \cup ToSet(Tail(w))
    /\ ToSet(w2) = ToSet(more) \cup ToSet(Tail(w))
    /\ Once(w) /\ Tracked(Head(w)) => Head(w) \notin ToSet(Tail(w))
    /\ /\ Once(w) /\ Once(more)
       /\ \A v \in ToSet(more) : Tracked(v) => v \notin ToSet(Tail(w))
       => Once(w2)

LEMMA StackMoves ==
  ASSUME NEW S, NEW w \in Seq(S), w # <<>>, NEW more \in Seq(S), NEW w2, w2 = more \o Tail(w)
  PROVE  Moved(S, w, more, w2)
<1>1. /\ Head(w) \in S /\ Tail(w) \in Seq(S) /\ Len(Tail(w)) = Len(w) - 1
      /\ \A i \in 1 .. Len(Tail(w)) : Tail(w)[i] = w[i+1]
      /\ Head(w) = w[1] /\ Len(w) \in Nat /\ Len(w) > 0
  BY HeadTailProperties
<1> DEFINE t == Tail(w)
<1>2. /\ w2 \in Seq(S) /\ Len(w2) = Len(more) + Len(t)
      /\ \A i \in 1 .. Len(more) + Len(t) : w2[i] = IF i <= Len(more) THEN more[i] ELSE t[i - Len(more)]
  BY <1>1, ConcatProperties
<1>3. /\ DOMAIN w = 1 .. Len(w) /\ DOMAIN w2 = 1 .. Len(w2) /\ DOMAIN more = 1 .. Len(more)
      /\ DOMAIN t = 1 .. Len(t) /\ Len(more) \in Nat /\ Len(t) \in Nat /\ Len(t) = Len(w) - 1
      /\ \A i \in 1 .. Len(t) : t[i] = w[i+1]
  BY <1>1, <1>2
<1> HIDE DEF t
<1>4. ToSet(w) = {Head(w)} \cup ToSet(t)
  <2>1. ASSUME NEW i \in 1 .. Len(w) PROVE w[i] = Head(w) \/ w[i] \in ToSet(t)
    <3>1. CASE i # 1
      <4>1. i - 1 \in 1 .. Len(t) /\ t[i-1] = w[i]
        BY <1>1, <1>3, <3>1
      <4> QED BY <1>3, <4>1 DEF ToSet
    <3> QED BY <1>1, <3>1
  <2>2. ASSUME NEW i \in 1 .. Len(t) PROVE t[i] \in ToSet(w)
    <3>1. i + 1 \in 1 .. Len(w) /\ t[i] = w[i+1]
      BY <1>1, <1>3
    <3> QED BY <1>3, <3>1 DEF ToSet
  <2>3. Head(w) \in ToSet(w)
    BY <1>1, <1>3 DEF ToSet
  <2> QED BY <1>3, <2>1, <2>2, <2>3 DEF ToSet
<1>5. ToSet(w2) = ToSet(more) \cup ToSet(t)
  <2>1. ASSUME NEW i \in 1 .. Len(w2) PROVE w2[i] \in ToSet(more) \cup ToSet(t)
    <3>1. CASE i <= Len(more)
      BY <1>2, <1>3, <3>1 DEF ToSet
    <3>2. CASE ~(i <= Len(more))
      <4>1. i - Len(more) \in 1 .. Len(t) /\ w2[i] = t[i - Len(more)]
        BY <1>2, <1>3, <3>2
      <4> QED BY <1>3, <4>1 DEF ToSet
    <3> QED BY <3>1, <3>2
  <2>2. ASSUME NEW i \in 1 .. Len(more) PROVE more[i] \in ToSet(w2)
    BY <1>2, <1>3 DEF ToSet
  <2>3. ASSUME NEW i \in 1 .. Len(t) PROVE t[i] \in ToSet(w2)
    <3>1. i + Len(more) \in 1 .. Len(w2) /\ w2[i + Len(more)] = t[i]
      BY <1>2, <1>3
    <3> QED BY <1>3, <3>1 DEF ToSet
  <2>4. ASSUME NEW v \in ToSet(w2) PROVE v \in ToSet(more) \cup ToSet(t)
    BY <1>3, <2>1 DEF ToSet
  <2>5. ASSUME NEW v \in ToSet(more) PROVE v \in ToSet(w2)
    <3>1. PICK i \in 1 .. Len(more) : v = more[i]
      BY <1>3 DEF ToSet
    <3> QED BY <2>2, <3>1
  <2>6. ASSUME NEW v \in ToSet(t) PROVE v \in ToSet(w2)
    <3>1. PICK i \in 1 .. Len(t) : v = t[i]
      BY <1>3 DEF ToSet
    <3> QED BY <2>3, <3>1
  <2> QED BY <2>4, <2>5, <2>6
<1>6. ASSUME Once(w), Tracked(Head(w)) PROVE Head(w) \notin ToSet(t)
  <2> SUFFICES ASSUME NEW i \in 1 .. Len(t), t[i] = Head(w) PROVE FALSE
    BY <1>3 DEF ToSet
  <2>1. i + 1 \in 1 .. Len(w) /\ 1 \in 1 .. Len(w) /\ w[i+1] = w[1] /\ Tracked(w[1])
    BY <1>1, <1>3, <1>6
  <2>2. i + 1 = 1
    BY <1>3, <1>6, <2>1 DEF Once
  <2> QED BY <2>2
<1>7. ASSUME Once(w), Once(more), \A v \in ToSet(more) : Tracked(v) => v \notin ToSet(t)
      PROVE  Once(w2)
  <2> SUFFICES ASSUME NEW i \in 1 .. Len(w2), NEW j \in 1 .. Len(w2), w2[i] = w2[j], Tracked(w2[i])
               PROVE  i = j
    BY <1>3 DEF Once
  <2>1. CASE i <= Len(more) /\ j <= Len(more)
    <3>1. i \in DOMAIN more /\ j \in DOMAIN more /\ w2[i] = more[i] /\ w2[j] = more[j]
      BY <1>2, <1>3, <2>1
    <3> QED BY <1>7, <3>1 DEF Once
  <2>2. CASE ~(i <= Len(more)) /\ ~(j <= Len(more))
    <3>1. /\ i - Len(more) + 1 \in 1 .. Len(w) /\ w2[i] = w[i - Len(more) + 1]
          /\ j - Len(more) + 1 \in 1 .. Len(w) /\ w2[j] = w[j - Len(more) + 1]
      <4>1. i - Len(more) \in 1 .. Len(t) /\ w2[i] = t[i - Len(more)]
        BY <1>2, <1>3, <2>2
      <4>2. j - Len(more) \in 1 .. Len(t) /\ w2[j] = t[j - Len(more)]
        BY <1>2, <1>3, <2>2
      <4> QED BY <1>1, <1>3, <4>1, <4>2
    <3>2. i - Len(more) + 1 = j - Len(more) + 1
      BY <1>3, <1>7, <3>1 DEF Once
    <3> QED BY <1>3, <3>2
  <2>3. ASSUME NEW a \in 1 .. Len(w2), NEW b \in 1 .. Len(w2), a <= Len(more), ~(b <= Len(more)),
               w2[a] = w2[b], Tracked(w2[a])
        PROVE  FALSE
    <3>1. b - Len(more) \in 1 .. Len(t) /\ w2[b] = t[b - Len(more)]
      BY <1>2, <1>3, <2>3
    <3>2. w2[a] = more[a] /\ a \in 1 .. Len(more)
      BY <1>2, <1>3, <2>3
    <3> QED BY <1>3, <1>7, <2>3, <3>1, <3>2 DEF ToSet
  <2> QED BY <2>1, <2>2, <2>3
<1> QED BY <1>1, <1>2, <1>4, <1>5, <1>6, <1>7 DEF t, Moved

LEMMA EmptyStack == ToSet(<<>>) = {} /\ Once(<<>>) /\ <<>> \in Seq(VisitSet)
BY DEF ToSet, Once

LEMMA ChildrenVisits ==
  ASSUME NEW op \in Ops, NEW x \in Objects
  PROVE  /\ Children(op, x) \in Seq(VisitSet)
         /\ ToSet(Children(op, x)) = {<<op, x, f>> : f \in FieldNames}
         /\ Once(Children(op, x))
<1>1. Fields \in Nat
  BY CollectorAssumption
<1>2. Children(op, x) \in [1 .. Fields -> VisitSet]
  BY <1>1 DEF Children, FieldNames, VisitSet
<1>3. DOMAIN Children(op, x) = FieldNames /\ \A f \in FieldNames : Children(op, x)[f] = <<op, x, f>>
  BY DEF Children
<1>4. Children(op, x) \in Seq(VisitSet)
  BY <1>1, <1>2
<1>5. ToSet(Children(op, x)) = {<<op, x, f>> : f \in FieldNames}
  BY <1>3 DEF ToSet
<1>6. Once(Children(op, x))
  BY <1>3 DEF Once
<1> QED BY <1>4, <1>5, <1>6

LEMMA RootsVisits ==
  ASSUME NEW op \in Ops, NEW xs \in Seq(Objects)
  PROVE  /\ Roots(op, xs) \in Seq(VisitSet)
         /\ ToSet(Roots(op, xs)) = {<<op, x, 0>> : x \in ToSet(xs)}
         /\ op # "root" \/ IsInjective(xs) => Once(Roots(op, xs))
<1>1. Fields \in Nat /\ Len(xs) \in Nat /\ DOMAIN xs = 1 .. Len(xs) /\ \A i \in 1 .. Len(xs) : xs[i] \in Objects
  BY CollectorAssumption
<1>2. /\ Roots(op, xs) \in [1 .. Len(xs) -> VisitSet] /\ DOMAIN Roots(op, xs) = 1 .. Len(xs)
      /\ \A i \in 1 .. Len(xs) : Roots(op, xs)[i] = <<op, xs[i], 0>>
  BY <1>1 DEF Roots, VisitSet
<1>3. Roots(op, xs) \in Seq(VisitSet)
  BY <1>1, <1>2
<1>4. op # "root" => \A i \in 1 .. Len(xs) : ~Tracked(Roots(op, xs)[i])
  BY <1>2 DEF Tracked
<1>5. IsInjective(xs) => \A i, j \in 1 .. Len(xs) : Roots(op, xs)[i] = Roots(op, xs)[j] => i = j
  BY <1>1, <1>2 DEF IsInjective
<1>6. op # "root" \/ IsInjective(xs) => Once(Roots(op, xs))
  BY <1>2, <1>4, <1>5 DEF Once
<1>7. ASSUME NEW v \in ToSet(Roots(op, xs)) PROVE v \in {<<op, x, 0>> : x \in ToSet(xs)}
  BY <1>1, <1>2 DEF ToSet
<1>8. ASSUME NEW x \in ToSet(xs) PROVE <<op, x, 0>> \in ToSet(Roots(op, xs))
  <2>1. PICK i \in 1 .. Len(xs) : x = xs[i]
    BY <1>1 DEF ToSet
  <2> QED BY <1>2, <2>1 DEF ToSet
<1> QED BY <1>3, <1>6, <1>7, <1>8
(***************************************************************************)
(* A visit                                                                 *)
(***************************************************************************)
LEMMA PlacesTyped ==
  Places \in [Objects -> SUBSET AllPlaces] /\ Places' \in [Objects -> SUBSET AllPlaces]
BY DEF Places, Slots, Held, AllPlaces

\* Fewer fields count, and the lists and the fields are what they were.
LEMMA FewerPlaces ==
  ASSUME UNCHANGED <<kid, lists>>,
         \A a \in Objects, g \in FieldNames : Counted(a, g)' => Counted(a, g)
  PROVE  \A z \in Objects : Places'[z] \subseteq Places[z]
<1> TAKE z \in Objects
<1>1. Slots(z)' = Slots(z)
  BY DEF Slots
<1>2. Held(z)' \subseteq Held(z)
  BY DEF Held
<1> QED BY <1>1, <1>2 DEF Places

Rest == ToSet(Tail(walk))

LEMMA VisitMoves ==
  ASSUME CollectorTypeOK, NoRepeat, NEW op, NEW y \in Objects, Visits(op, y),
         NEW more \in Seq(VisitSet), Goes(more)
  PROVE  /\ walk' \in Seq(VisitSet)
         /\ \E x \in Objects, f \in 0 .. Fields :
              /\ Visit = <<op, x, f>>
              /\ (f = 0 /\ x = y) \/ (f # 0 /\ f \in FieldNames /\ kid[x][f] = y)
         /\ Visit \in Pending /\ Pending = {Visit} \cup Rest
         /\ Pending' = ToSet(more) \cup Rest
         /\ Tracked(Visit) => Visit \notin Rest
         /\ Once(more) /\ (\A v \in ToSet(more) : Tracked(v) => v \notin Rest) => NoRepeat'
<1>1. walk \in Seq(VisitSet) /\ walk # <<>> /\ walk' = more \o Tail(walk) /\ Once(walk)
  BY DEF CollectorTypeOK, Visits, Goes, NoRepeat, Once
<1>2. /\ walk' \in Seq(VisitSet) /\ Head(walk) \in VisitSet
      /\ ToSet(walk) = {Head(walk)} \cup ToSet(Tail(walk))
      /\ ToSet(walk') = ToSet(more) \cup ToSet(Tail(walk))
      /\ Once(walk) /\ Tracked(Head(walk)) => Head(walk) \notin ToSet(Tail(walk))
      /\ /\ Once(walk) /\ Once(more)
         /\ \A v \in ToSet(more) : Tracked(v) => v \notin ToSet(Tail(walk))
         => Once(walk')
  <2>1. Moved(VisitSet, walk, more, walk')
    BY <1>1, StackMoves
  <2> QED BY <2>1 DEF Moved
<1>3. Once(walk') => NoRepeat'
  BY DEF Once, NoRepeat, Tracked
<1>4. Pending' = ToSet(walk')
  BY DEF Pending
<1>5. PICK o \in Ops, x \in Objects, f \in 0 .. Fields : Visit = <<o, x, f>>
  BY <1>2 DEF Visit, VisitSet
<1>6. o = op /\ Target(Visit) = y
  BY <1>5 DEF Visits
<1>7. (f = 0 /\ x = y) \/ (f # 0 /\ f \in FieldNames /\ kid[x][f] = y)
  BY <1>5, <1>6, CollectorAssumption DEF Target, FieldNames
<1> QED BY <1>1, <1>2, <1>3, <1>4, <1>5, <1>6, <1>7 DEF Pending, Rest, Visit

LEMMA MarkGreyKeeps ==
  ASSUME CollectorInv, NEW y \in Objects, MarkGrey(y)
  PROVE  CollectorInv'
<1> DEFINE more == IF colour[y] = "grey" THEN <<>> ELSE Children("grey", y)
           Added == IF colour[y] = "grey" THEN {} ELSE {<<"grey", y, g>> : g \in FieldNames}
<1>1. CollectorTypeOK /\ NoRepeat /\ Covered(mem, rc, Places)
  BY DEF CollectorInv
<1>2. more \in Seq(VisitSet) /\ ToSet(more) = Added /\ Once(more)
  BY EmptyStack, ChildrenVisits DEF Ops
<1>3. Visits("grey", y) /\ Goes(more)
  BY DEF MarkGrey
<1> HIDE DEF more
<1>4. PICK x \in Objects, f \in 0 .. Fields :
         /\ Visit = <<"grey", x, f>>
         /\ (f = 0 /\ x = y) \/ (f # 0 /\ f \in FieldNames /\ kid[x][f] = y)
  BY <1>1, <1>2, <1>3, VisitMoves
<1> DEFINE v == <<"grey", x, f>>
<1>5. /\ walk' \in Seq(VisitSet)
      /\ v \in Pending /\ Pending = {v} \cup Rest /\ Pending' = Added \cup Rest
      /\ Tracked(v) => v \notin Rest
      /\ (\A u \in Added : Tracked(u) => u \notin Rest) => NoRepeat'
  BY <1>1, <1>2, <1>3, <1>4, VisitMoves
<1>6. phase = "grey" /\ (f # 0 => v \notin Rest)
  BY <1>5 DEF CollectorInv, Fits, Tracked
<1>7. f # 0 => colour[x] = "grey" /\ Alive(x) /\ <<x, f>> \in Places[y]
  <2> HAVE f # 0
  <2>1. colour[x] = "grey" /\ Alive(x)
    BY <1>5 DEF CollectorInv, SourcesOK, ColoursOK
  <2>2. <<x, f>> \in Held(y)
    BY <1>4, <1>5, <2>1 DEF Held, Counted
  <2> QED BY <2>1, <2>2 DEF Places
<1>8. colour[y] # "white"
  <2>1. CASE f = 0
    BY <1>4, <1>5, <2>1 DEF CollectorInv, SourcesOK
  <2>2. CASE f # 0
    <3>1. rc[y] > 0 /\ rc[y] \in Nat
      BY <1>1, <1>7, <2>2, HeldIsCounted
    <3> QED BY <3>1 DEF CollectorInv, ColoursOK
  <2> QED BY <2>1, <2>2
<1>9. PICK Old \in SUBSET Objects : Apart(Old)
  BY <1>6 DEF CollectorInv, OldOK
<1>10. y \notin Old /\ Alive(y)
  <2>1. Target(v) = y /\ y # Nil
    BY <1>4, CollectorAssumption DEF Target
  <2> QED BY <1>5, <1>6, <1>9, <2>1 DEF Apart, Targets, Sound
<1>11. /\ colour' = [colour EXCEPT ![y] = "grey"]
       /\ UNCHANGED <<mem, buffered, cand, phase, live, kid, store, lists, dying, again>>
  BY DEF MarkGrey, program
<1>12. colour \in [Objects -> Colours]
  BY <1>1 DEF CollectorTypeOK
<1>13. /\ colour'[y] = "grey" /\ \A z \in Objects \ {y} : colour'[z] = colour[z]
  BY <1>11, <1>12
<1>14. CollectorTypeOK'
  <2>1. colour' \in [Objects -> Colours]
    BY <1>11, <1>12 DEF Colours
  <2> QED BY <1>1, <1>5, <1>11, <2>1 DEF CollectorTypeOK
<1>15. \A z \in Objects, g \in FieldNames : <<"grey", z, g>> \in Added <=> z = y /\ colour[y] # "grey"
  OBVIOUS
<1>16. \A u \in Added : u[1] = "grey" /\ u[2] = y /\ u[3] \in FieldNames /\ u[3] # 0 /\ colour[y] # "grey"
  BY CollectorAssumption DEF FieldNames
<1>16a. \A u \in Added : \E g \in FieldNames : u = <<"grey", y, g>>
  OBVIOUS
<1> HIDE DEF Added
<1>17. NoRepeat'
  <2>1. ASSUME NEW u \in Added, u \in Pending PROVE FALSE
    BY <1>16, <2>1 DEF CollectorInv, SourcesOK
  <2> QED BY <1>5, <2>1
<1>18. \A z \in Objects, g \in FieldNames : <<"black", z, g>> \notin Pending /\ <<"black", z, g>> \notin Pending'
  <2>1. \A u \in Pending : u[1] # "black"
    BY <1>6 DEF CollectorInv, Fits
  <2> QED BY <1>5, <1>16, <2>1
<1>19. \A z \in Objects, g \in FieldNames :
          Counted(z, g)' => Counted(z, g) /\ (f # 0 => <<z, g>> # <<x, f>>)
  <2> SUFFICES ASSUME NEW z \in Objects, NEW g \in FieldNames, Counted(z, g)'
               PROVE  Counted(z, g) /\ (f # 0 => <<z, g>> # <<x, f>>)
    OBVIOUS
  <2>1. Alive(z) /\ mem' = mem
    BY <1>11 DEF Counted, Alive
  <2>2. CASE z = y /\ colour[y] # "grey"
    <3>1. Counted(z, g)
      BY <1>8, <1>12, <1>18, <2>1, <2>2 DEF Counted, Colours
    <3> QED BY <1>7, <2>2, <3>1
  <2>3. CASE z # y \/ colour[y] = "grey"
    <3>1. colour'[z] = colour[z]
      BY <1>13, <2>3
    <3>2. colour[z] = "grey" => <<"grey", z, g>> \in Rest
      BY <1>5, <1>15, <2>3, <3>1 DEF Counted
    <3>3. Counted(z, g)
      BY <1>5, <1>18, <2>1, <3>1, <3>2 DEF Counted
    <3>4. ASSUME f # 0, <<z, g>> = <<x, f>> PROVE FALSE
      BY <1>6, <1>7, <3>2, <3>4
    <3> QED BY <3>3, <3>4
  <2> QED BY <2>2, <2>3
<1>20. \A z \in Objects : Places'[z] \subseteq Places[z]
  BY <1>11, <1>19, FewerPlaces
<1>21. Covered(mem, rc', Places')
  <2>1. CASE f = 0
    <3>1. rc' = rc
      BY <1>1, <1>4, <2>1 DEF MarkGrey, Covered
    <3> QED BY <1>1, <1>20, <3>1, PlacesTyped, CoveredLess DEF Covered
  <2>2. CASE f # 0
    <3>1. rc[y] \in Nat /\ rc[y] > 0
      BY <1>1, <1>7, <2>2, HeldIsCounted
    <3>2. rc' = [rc EXCEPT ![y] = rc[y] - 1]
      BY <1>4, <2>2, <3>1 DEF MarkGrey
    <3>3. <<x, f>> \notin Places'[y]
      <4>1. <<x, f>> \notin Slots(y)'
        BY CollectorAssumption DEF Slots
      <4>2. <<x, f>> \notin Held(y)'
        BY <1>19, <2>2 DEF Held
      <4> QED BY <4>1, <4>2 DEF Places
    <3>4. Places'[y] \subseteq Places[y] \ {<<x, f>>}
      BY <1>20, <3>3
    <3> QED BY ONLY <1>1, <1>7, <1>20, <2>2, <3>2, <3>4, PlacesTyped, CoveredRelease
  <2> QED BY <2>1, <2>2
<1>22. \A z \in Objects \ {y} : rc'[z] = rc[z]
  BY <1>1 DEF MarkGrey, Covered
<1>23. ColoursOK'
  <2>1. \A z \in Objects : (colour[z] = "white" => rc[z] = 0)'
    BY <1>13, <1>22 DEF CollectorInv, ColoursOK
  <2>2. \A z \in Objects : (colour[z] = "grey" => Alive(z) /\ phase \in {"grey", "scan"})'
    BY <1>6, <1>10, <1>11, <1>13 DEF CollectorInv, ColoursOK, Alive
  <2>3. \A z \in Objects : (mem[z] = "none" => colour[z] = "black")'
    BY <1>10, <1>11, <1>13 DEF CollectorInv, ColoursOK, Alive
  <2>4. ASSUME NEW z \in Objects, Alive(z)', colour'[z] = "purple"
        PROVE  buffered'[z] \/ <<"grey", z, 0>> \in Pending'
    <3>1. z # y /\ Alive(z) /\ colour[z] = "purple"
      BY <1>11, <1>13, <2>4 DEF Alive
    <3>2. <<"root", z, 0>> \notin Pending
      BY <1>6 DEF CollectorInv, Fits
    <3>3. buffered[z] \/ <<"grey", z, 0>> \in Pending
      BY <1>6, <3>1, <3>2 DEF CollectorInv, ColoursOK
    <3>4. <<"grey", z, 0>> # v
      BY <1>4, <3>1
    <3> QED BY <1>5, <1>11, <3>3, <3>4
  <2> QED BY <2>1, <2>2, <2>3, <2>4 DEF ColoursOK
<1>24. Fits'
  BY <1>5, <1>6, <1>11, <1>16 DEF CollectorInv, Fits
<1>25. SourcesOK'
  <2>1. ASSUME NEW u \in Added
        PROVE  u[1] = "grey" /\ u[3] # 0 /\ colour'[u[2]] = "grey"
    BY <1>13, <1>16
  <2>2. ASSUME NEW u \in Rest
        PROVE  /\ u[1] \notin {"root", "black"} /\ u[2] \in Objects
               /\ u[1] = "grey" /\ u[3] # 0 => colour[u[2]] = "grey"
               /\ u[1] = "grey" /\ u[3] = 0 => Alive(u[2]) /\ colour[u[2]] # "white"
    <3>1. u \in Pending
      BY <1>5
    <3>2. u \in VisitSet
      BY <1>1, <3>1 DEF CollectorTypeOK, Pending, ToSet
    <3> QED BY <1>6, <3>1, <3>2 DEF CollectorInv, SourcesOK, Fits, VisitSet
  <2> QED BY <1>5, <1>11, <1>13, <2>1, <2>2 DEF SourcesOK, Alive
<1>26. RootsOK'
  <2>1. ASSUME NEW z \in ToSet(live) PROVE colour'[z] = "grey" \/ <<"grey", z, 0>> \in Pending'
    <3>1. z \in Objects
      BY <1>1 DEF CollectorTypeOK, ToSet
    <3>2. colour[z] = "grey" \/ <<"grey", z, 0>> \in Pending
      BY <1>6 DEF CollectorInv, RootsOK
    <3> QED BY <1>4, <1>5, <1>13, <3>1, <3>2
  <2>2. ASSUME NEW z \in Objects, <<"grey", z, 0>> \in Pending' PROVE z \in ToSet(live)
    <3>1. <<"grey", z, 0>> \in Pending
      BY <1>5, <1>16, <2>2
    <3> QED BY <1>6, <3>1 DEF CollectorInv, RootsOK
  <2> QED BY <1>6, <1>11, <2>1, <2>2 DEF RootsOK
<1>27. Grey' = Grey \cup {y} /\ y \notin Old
  BY <1>10, <1>13 DEF Grey
<1>28. GreyOK'
  <2>1. ASSUME NEW z \in Grey', NEW g \in FieldNames
        PROVE  kid[z][g] = Nil \/ <<"grey", z, g>> \in Pending' \/ kid[z][g] \in Grey'
    <3>1. CASE z \in Grey
      <4>1. kid[z][g] = Nil \/ <<"grey", z, g>> \in Pending \/ kid[z][g] \in Grey
        BY <1>6, <3>1 DEF CollectorInv, GreyOK
      <4>2. ASSUME <<"grey", z, g>> = v PROVE kid[z][g] = y
        BY <1>4, <4>2, CollectorAssumption DEF FieldNames
      <4> QED BY <1>5, <1>27, <4>1, <4>2
    <3>2. CASE z \notin Grey
      BY <1>5, <1>15, <1>27, <3>2 DEF Grey
    <3> QED BY <3>1, <3>2
  <2>2. ASSUME NEW S \in SUBSET Objects, ToSet(live) \subseteq S, ClosedUnderGrey(S)'
        PROVE  Grey' \subseteq S
    <3>1. ClosedUnderGrey(S)
      BY <1>11, <1>27, <2>2 DEF ClosedUnderGrey, Kids
    <3>2. Grey \subseteq S
      BY <1>6, <2>2, <3>1 DEF CollectorInv, GreyOK
    <3>3. CASE f = 0
      BY <1>4, <1>5, <1>6, <1>27, <2>2, <3>2, <3>3 DEF CollectorInv, RootsOK
    <3>4. CASE f # 0
      <4>1. x \in S \cap Grey /\ y \in Kids(x)
        BY <1>4, <1>7, <3>2, <3>4, CollectorAssumption DEF Grey, Kids
      <4> QED BY <1>27, <3>1, <3>2, <4>1 DEF ClosedUnderGrey
    <3> QED BY <3>3, <3>4
  <2> QED BY <1>6, <1>11, <2>1, <2>2 DEF GreyOK
<1>29. ScanOK'
  BY <1>6, <1>11 DEF ScanOK
<1>30. Apart(Old)'
  <2>1. \A z \in Old : colour'[z] = "white"
    BY <1>9, <1>10, <1>13 DEF Apart
  <2>2. \A z \in Objects : Sound(z)' <=> Sound(z)
    BY <1>6, <1>11 DEF Sound, Alive
  <2>3. \A z \in Objects \ Old : Alive(z) => \A k \in Kids(z) : k \notin Old /\ Sound(k)
    BY <1>9 DEF Apart
  <2>4. ASSUME NEW k \in Targets' PROVE k \notin Old /\ Sound(k) /\ k \in Objects
    <3>1. PICK u \in Pending' : k = Target(u) /\ k # Nil
      BY <1>11 DEF Targets, Target
    <3>2. CASE u \in Rest
      <4>1. u \in Pending /\ u \in VisitSet
        BY <1>1, <1>5, <3>2 DEF CollectorTypeOK, Pending, ToSet
      <4>2. k \in Targets
        BY <3>1, <4>1 DEF Targets
      <4>3. k \in Objects
        BY <1>1, <3>1, <4>1, CollectorAssumption DEF CollectorTypeOK, VisitSet, Target, FieldNames
      <4> QED BY <1>6, <1>9, <4>2, <4>3 DEF Apart
    <3>3. CASE u \in Added
      <4>1. PICK g \in FieldNames : u = <<"grey", y, g>>
        BY <1>16a, <3>3
      <4>2. k \in Kids(y) /\ k \in Objects
        BY <1>1, <3>1, <4>1, CollectorAssumption DEF Kids, Target, FieldNames, CollectorTypeOK
      <4> QED BY <1>10, <2>3, <4>2
    <3> QED BY <1>5, <3>1, <3>2, <3>3
  <2>5. \A z \in Objects : Kids(z) \subseteq Objects
    BY <1>1 DEF Kids, CollectorTypeOK
  <2>6. \A z \in ToSet(live) : z \notin Old /\ Sound(z) /\ z \in Objects
    BY <1>1, <1>9 DEF Apart, CollectorTypeOK, ToSet
  <2> QED BY <1>6, <1>11, <2>1, <2>2, <2>3, <2>4, <2>5, <2>6 DEF Apart, Kids, Alive
<1>31. OldOK' /\ BufferIsExact' /\ FreedOnce'
  BY <1>11, <1>30 DEF OldOK, CollectorInv, BufferIsExact, FreedOnce
<1> QED BY <1>11, <1>14, <1>17, <1>21, <1>23, <1>24, <1>25, <1>26, <1>28, <1>29, <1>31 DEF CollectorInv

ChildVisits(op, y) == {<<op, y, g>> : g \in FieldNames}

\* What there is to visit next, when y's children are put on the stack or not.
LEMMA TargetsMove ==
  ASSUME CollectorTypeOK, UNCHANGED kid, NEW y \in Objects, NEW op, NEW v, NEW R,
         Pending = {v} \cup R, NEW Added, Added \in {{}, ChildVisits(op, y)}, Pending' = Added \cup R
  PROVE  /\ Targets \subseteq Objects
         /\ Targets' \subseteq Targets \cup Kids(y)
         /\ Added = {} => Targets' \subseteq Targets
         /\ Targets \subseteq Targets' \cup {Target(v)}
         /\ Added = ChildVisits(op, y) => Kids(y) \subseteq Targets'
<1>1. \A u : Target(u)' = Target(u)
  BY DEF Target
<1>2. Targets' = {Target(u) : u \in Pending'} \ {Nil}
  BY <1>1 DEF Targets
<1>3. \A g \in FieldNames : Target(<<op, y, g>>) = kid[y][g]
  BY CollectorAssumption DEF Target, FieldNames
<1>4. Targets \subseteq Objects
  <2>1. ASSUME NEW u \in Pending, Target(u) # Nil PROVE Target(u) \in Objects
    <3>1. u \in VisitSet
      BY DEF CollectorTypeOK, Pending, ToSet
    <3> QED BY <2>1, <3>1, CollectorAssumption DEF CollectorTypeOK, VisitSet, Target, FieldNames
  <2> QED BY <2>1 DEF Targets
<1>5. ASSUME NEW k \in Targets' PROVE k \in Targets \/ (k \in Kids(y) /\ Added # {})
  <2>1. PICK u \in Pending' : k = Target(u) /\ k # Nil
    BY <1>2
  <2>2. CASE u \in R
    BY <2>1, <2>2 DEF Targets
  <2>3. CASE u \in Added
    BY <1>3, <2>1, <2>3 DEF ChildVisits, Kids
  <2> QED BY <2>1, <2>2, <2>3
<1>6. ASSUME NEW k \in Targets PROVE k \in Targets' \cup {Target(v)}
  <2>1. PICK u \in Pending : k = Target(u) /\ k # Nil
    BY DEF Targets
  <2> QED BY <1>2, <2>1
<1>7. ASSUME Added = ChildVisits(op, y), NEW k \in Kids(y) PROVE k \in Targets'
  <2>1. PICK g \in FieldNames : k = kid[y][g] /\ k # Nil
    BY DEF Kids
  <2>2. <<op, y, g>> \in Pending'
    BY <1>7 DEF ChildVisits
  <2> QED BY <1>2, <1>3, <2>1, <2>2
<1> QED BY <1>4, <1>5, <1>6, <1>7

LEMMA ApartMoves ==
  ASSUME CollectorTypeOK, NEW Old \in SUBSET Objects, Apart(Old), phase \notin {"idle", "root"},
         UNCHANGED <<kid, live, phase>>,
         NEW y \in Objects, y \notin Old, Alive(y), Targets \subseteq Objects,
         Targets' \subseteq Targets \cup Kids(y),
         \A z \in Objects \ {y} : colour'[z] = colour[z] /\ mem'[z] = mem[z],
         \/ UNCHANGED mem
         \/ phase = "white" /\ mem'[y] = "freed" /\ colour'[y] = "black"
  PROVE  Apart(Old)'
<1>1. ASSUME NEW z \in Objects, Sound(z) PROVE Sound(z)'
  BY <1>1 DEF Sound, Alive
<1>2. \A z \in Objects : Kids(z) \subseteq Objects /\ Kids(z)' = Kids(z)
  BY DEF Kids, CollectorTypeOK
<1>3. \A z \in Objects : Alive(z)' => Alive(z)
  BY DEF Alive
<1>4. ASSUME NEW z \in Objects \ Old, Alive(z), NEW k \in Kids(z) PROVE k \notin Old /\ Sound(k)' /\ Sound(k)
  BY <1>1, <1>2, <1>4 DEF Apart
<1>5. ASSUME NEW k \in Targets' PROVE k \notin Old /\ Sound(k)'
  BY <1>1, <1>4 DEF Apart
<1>6. ASSUME NEW z \in ToSet(live) PROVE z \notin Old /\ Sound(z)'
  BY <1>1 DEF Apart, CollectorTypeOK, ToSet
<1>7. \A z \in Old : colour'[z] = "white"
  BY DEF Apart
<1> QED BY <1>2, <1>3, <1>4, <1>5, <1>6, <1>7 DEF Apart

LEMMA ScanMoves ==
  ASSUME ScanOK, phase = "scan", UNCHANGED <<kid, phase>>, NEW y \in Objects,
         Grey' = Grey \ {y}, Targets \subseteq Targets' \cup {y},
         y \in Grey => Kids(y) \subseteq Targets'
  PROVE  ScanOK'
<1> SUFFICES ASSUME NEW S \in SUBSET Objects, Targets' \subseteq S, ClosedUnderGrey(S)'
             PROVE  Grey' \subseteq S
  BY DEF ScanOK
<1>1. S \cup {y} \in SUBSET Objects /\ Targets \subseteq S \cup {y}
  OBVIOUS
<1>2. \A z \in Objects : Kids(z)' = Kids(z)
  BY DEF Kids
<1>3. ClosedUnderGrey(S \cup {y})
  BY <1>2 DEF ClosedUnderGrey
<1>4. Grey \subseteq S \cup {y}
  BY <1>1, <1>3 DEF ScanOK
<1> QED BY <1>4

LEMMA ScanKeeps ==
  ASSUME CollectorInv, NEW y \in Objects, Scan(y)
  PROVE  CollectorInv'
<1> DEFINE op == IF rc[y] > 0 THEN "black" ELSE "scan"
           more == IF colour[y] = "grey" THEN Children(op, y) ELSE <<>>
           Added == IF colour[y] = "grey" THEN ChildVisits(op, y) ELSE {}
<1>1. CollectorTypeOK /\ NoRepeat /\ Covered(mem, rc, Places)
  BY DEF CollectorInv
<1>2. more \in Seq(VisitSet) /\ ToSet(more) = Added /\ Once(more)
  BY EmptyStack, ChildrenVisits DEF Ops, ChildVisits
<1>3. Visits("scan", y) /\ Goes(more)
  BY DEF Scan
<1> HIDE DEF more
<1>4. PICK x \in Objects, f \in 0 .. Fields :
         /\ Visit = <<"scan", x, f>>
         /\ (f = 0 /\ x = y) \/ (f # 0 /\ f \in FieldNames /\ kid[x][f] = y)
  BY <1>1, <1>2, <1>3, VisitMoves
<1> DEFINE v == <<"scan", x, f>>
<1>5. /\ walk' \in Seq(VisitSet)
      /\ v \in Pending /\ Pending = {v} \cup Rest /\ Pending' = Added \cup Rest
      /\ (\A u \in Added : Tracked(u) => u \notin Rest) => NoRepeat'
  BY <1>1, <1>2, <1>3, <1>4, VisitMoves
<1>6. phase = "scan" /\ Target(v) = y /\ y # Nil
  BY <1>4, <1>5, CollectorAssumption DEF CollectorInv, Fits, Target
<1>9. PICK Old \in SUBSET Objects : Apart(Old)
  BY <1>6 DEF CollectorInv, OldOK
<1>10. y \notin Old /\ Alive(y)
  BY <1>5, <1>6, <1>9 DEF Apart, Targets, Sound
<1>11. /\ colour' = [colour EXCEPT ![y] = IF colour[y] # "grey" THEN @ ELSE IF rc[y] > 0 THEN "black" ELSE "white"]
       /\ UNCHANGED <<mem, rc, buffered, cand, phase, live, kid, store, lists, dying, again>>
  BY <1>1 DEF Scan, program, CollectorTypeOK
<1>12. colour \in [Objects -> Colours] /\ rc \in [Objects -> Nat]
  BY <1>1 DEF CollectorTypeOK, Covered
<1>13. /\ colour'[y] # "grey" /\ (colour'[y] = "white" => colour[y] = "white" \/ (colour[y] = "grey" /\ rc[y] = 0))
       /\ colour[y] = "grey" /\ rc[y] > 0 => colour'[y] = "black"
       /\ colour[y] # "grey" => colour'[y] = colour[y]
       /\ \A z \in Objects \ {y} : colour'[z] = colour[z]
       /\ colour'[y] = "purple" => colour[y] = "purple"
       /\ colour'[y] \in Colours
       /\ colour[y] = "grey" /\ ~(rc[y] > 0) => colour'[y] = "white"
  BY <1>11, <1>12 DEF Colours
<1>14. CollectorTypeOK'
  <2>1. colour' \in [Objects -> Colours]
    BY <1>11, <1>12 DEF Colours
  <2> QED BY <1>1, <1>5, <1>11, <2>1 DEF CollectorTypeOK
<1>16. \A u \in Added : /\ colour[y] = "grey" /\ u[2] = y /\ u[3] # 0
                      /\ u[1] = IF rc[y] > 0 THEN "black" ELSE "scan"
  BY CollectorAssumption DEF FieldNames, ChildVisits
<1>15. \A g \in FieldNames : <<"black", y, g>> \in Added <=> colour[y] = "grey" /\ rc[y] > 0
  BY DEF ChildVisits
<1>16a. Added \in {{}, ChildVisits(op, y)} /\ (colour[y] = "grey" => Added = ChildVisits(op, y))
  OBVIOUS
<1> HIDE DEF Added, op
<1>17. NoRepeat'
  <2>1. ASSUME NEW u \in Added, Tracked(u), u \in Pending PROVE FALSE
    <3>1. u[1] = "black" /\ u[2] = y /\ colour[y] = "grey"
      BY <1>16, <2>1 DEF Tracked
    <3> QED BY <2>1, <3>1 DEF CollectorInv, SourcesOK
  <2> QED BY <1>5, <2>1
<1>18. \A u \in Pending : u[1] \in {"scan", "black"} /\ u \in VisitSet
  <2>1. \A u \in Pending : u \in VisitSet
    BY <1>1 DEF CollectorTypeOK, Pending, ToSet
  <2> QED BY <1>6, <2>1 DEF CollectorInv, Fits, VisitSet, Ops
<1>19. \A z \in Objects, g \in FieldNames : Counted(z, g)' => Counted(z, g)
  <2> SUFFICES ASSUME NEW z \in Objects, NEW g \in FieldNames, Counted(z, g)'
               PROVE  Counted(z, g)
    OBVIOUS
  <2>1. Alive(z) /\ mem' = mem
    BY <1>11 DEF Counted, Alive
  <2>2. <<"grey", z, g>> \notin Pending'
    BY <1>5, <1>16, <1>18
  <2>3. colour'[z] \in {"black", "purple"} /\ <<"black", z, g>> \notin Pending'
    BY <2>2 DEF Counted
  <2>4. <<"black", z, g>> \notin Pending
    BY <1>5, <2>3
  <2>5. colour[z] \in {"black", "purple"}
    <3>1. CASE z = y /\ colour[y] = "grey"
      BY <1>5, <1>12, <1>13, <1>15, <2>3, <3>1
    <3> QED BY <1>13, <2>3, <3>1
  <2> QED BY <2>1, <2>4, <2>5 DEF Counted
<1>20. \A z \in Objects : Places'[z] \subseteq Places[z]
  BY <1>11, <1>19, FewerPlaces
<1>21. Covered(mem, rc, Places')
  BY <1>1, <1>12, <1>20, PlacesTyped, CoveredLess
<1>23. ColoursOK'
  <2>1. \A z \in Objects : (colour[z] = "white" => rc[z] = 0)'
    BY <1>11, <1>13 DEF CollectorInv, ColoursOK
  <2>2. \A z \in Objects : (colour[z] = "grey" => Alive(z) /\ phase \in {"grey", "scan"})'
    BY <1>6, <1>11, <1>13 DEF CollectorInv, ColoursOK, Alive
  <2>3. \A z \in Objects : (mem[z] = "none" => colour[z] = "black")'
    BY <1>10, <1>11, <1>13 DEF CollectorInv, ColoursOK, Alive
  <2>4. ASSUME NEW z \in Objects, Alive(z)', colour'[z] = "purple"
        PROVE  buffered'[z]
    <3>1. Alive(z) /\ colour[z] = "purple"
      BY <1>11, <1>13, <2>4 DEF Alive
    <3> QED BY <1>6, <1>11, <1>18, <3>1 DEF CollectorInv, ColoursOK
  <2> QED BY <2>1, <2>2, <2>3, <2>4 DEF ColoursOK
<1>24. Fits'
  BY <1>5, <1>6, <1>11, <1>12, <1>16 DEF CollectorInv, Fits
<1>25. SourcesOK'
  <2>1. ASSUME NEW u \in Added, u[1] = "black"
        PROVE  Alive(u[2]) /\ colour'[u[2]] = "black"
    BY <1>10, <1>13, <1>16, <2>1
  <2>2. ASSUME NEW u \in Rest, u[1] = "black"
        PROVE  Alive(u[2]) /\ colour'[u[2]] = "black"
    <3>1. u \in Pending /\ u[2] \in Objects
      BY <1>5, <1>18 DEF VisitSet
    <3>2. Alive(u[2]) /\ colour[u[2]] = "black"
      BY <2>2, <3>1 DEF CollectorInv, SourcesOK
    <3> QED BY <1>13, <3>1, <3>2
  <2>3. \A u \in Pending' : u[1] \in {"scan", "black"}
    BY <1>5, <1>16, <1>18
  <2> QED BY <1>5, <1>11, <2>1, <2>2, <2>3 DEF SourcesOK, Alive
<1>27. Grey' = Grey \ {y} /\ (y \in Grey => colour[y] = "grey")
  BY <1>13 DEF Grey
<1>28. RootsOK' /\ GreyOK'
  BY <1>6, <1>11 DEF RootsOK, GreyOK
<1>29. /\ Targets \subseteq Objects /\ Targets' \subseteq Targets \cup Kids(y)
       /\ Targets \subseteq Targets' \cup {y}
       /\ y \in Grey => Kids(y) \subseteq Targets'
  BY <1>1, <1>5, <1>6, <1>11, <1>16a, <1>27, TargetsMove
<1>30. ScanOK'
  BY <1>6, <1>11, <1>27, <1>29, ScanMoves DEF CollectorInv
<1>31. Apart(Old)'
  BY <1>1, <1>6, <1>9, <1>10, <1>11, <1>13, <1>29, ApartMoves
<1>32. OldOK' /\ BufferIsExact' /\ FreedOnce'
  BY <1>11, <1>31 DEF OldOK, CollectorInv, BufferIsExact, FreedOnce
<1> QED BY <1>11, <1>14, <1>17, <1>21, <1>23, <1>24, <1>25, <1>28, <1>30, <1>32 DEF CollectorInv

LEMMA ScanBlackKeeps ==
  ASSUME CollectorInv, NEW y \in Objects, ScanBlack(y)
  PROVE  CollectorInv'
<1> DEFINE more == IF colour[y] = "black" THEN <<>> ELSE Children("black", y)
           Added == IF colour[y] = "black" THEN {} ELSE ChildVisits("black", y)
<1>1. CollectorTypeOK /\ NoRepeat /\ Covered(mem, rc, Places)
  BY DEF CollectorInv
<1>2. more \in Seq(VisitSet) /\ ToSet(more) = Added /\ Once(more)
  BY EmptyStack, ChildrenVisits DEF Ops, ChildVisits
<1>3. Visits("black", y) /\ Goes(more)
  BY DEF ScanBlack
<1> HIDE DEF more
<1>4. PICK x \in Objects, f \in 0 .. Fields :
         /\ Visit = <<"black", x, f>>
         /\ (f = 0 /\ x = y) \/ (f # 0 /\ f \in FieldNames /\ kid[x][f] = y)
  BY <1>1, <1>2, <1>3, VisitMoves
<1> DEFINE v == <<"black", x, f>>
<1>5. /\ walk' \in Seq(VisitSet)
      /\ v \in Pending /\ Pending = {v} \cup Rest /\ Pending' = Added \cup Rest
      /\ (\A u \in Added : Tracked(u) => u \notin Rest) => NoRepeat'
  BY <1>1, <1>2, <1>3, <1>4, VisitMoves
<1>6. /\ phase = "scan" /\ Target(v) = y /\ y # Nil /\ f # 0
      /\ f \in FieldNames /\ kid[x][f] = y /\ Alive(x) /\ colour[x] = "black"
  BY <1>4, <1>5, CollectorAssumption DEF CollectorInv, Fits, Target, SourcesOK
<1>9. PICK Old \in SUBSET Objects : Apart(Old)
  BY <1>6 DEF CollectorInv, OldOK
<1>10. y \notin Old /\ Alive(y)
  BY <1>5, <1>6, <1>9 DEF Apart, Targets, Sound
<1>12. colour \in [Objects -> Colours] /\ rc \in [Objects -> Nat]
  BY <1>1 DEF CollectorTypeOK, Covered
<1>11. /\ colour' = [colour EXCEPT ![y] = "black"] /\ rc' = [rc EXCEPT ![y] = rc[y] + 1]
       /\ UNCHANGED <<mem, buffered, cand, phase, live, kid, store, lists, dying, again>>
  BY DEF ScanBlack, program
<1>13. /\ colour'[y] = "black" /\ \A z \in Objects \ {y} : colour'[z] = colour[z] /\ rc'[z] = rc[z]
  BY <1>11, <1>12
<1>14. CollectorTypeOK'
  <2>1. colour' \in [Objects -> Colours]
    BY <1>11, <1>12 DEF Colours
  <2> QED BY <1>1, <1>5, <1>11, <2>1 DEF CollectorTypeOK
<1>15. \A g \in FieldNames : <<"black", y, g>> \in Added <=> colour[y] # "black"
  BY DEF ChildVisits
<1>16. \A u \in Added : colour[y] # "black" /\ u[1] = "black" /\ u[2] = y /\ u[3] # 0
  BY CollectorAssumption DEF FieldNames, ChildVisits
<1>16a. Added \in {{}, ChildVisits("black", y)} /\ (colour[y] # "black" => Added = ChildVisits("black", y))
  OBVIOUS
<1> HIDE DEF Added
<1>17. NoRepeat'
  <2>1. ASSUME NEW u \in Added, u \in Pending PROVE FALSE
    BY <1>16, <2>1 DEF CollectorInv, SourcesOK
  <2> QED BY <1>5, <2>1
<1>18. \A u \in Pending : u[1] \in {"scan", "black"} /\ u \in VisitSet
  <2>1. \A u \in Pending : u \in VisitSet
    BY <1>1 DEF CollectorTypeOK, Pending, ToSet
  <2> QED BY <1>6, <2>1 DEF CollectorInv, Fits, VisitSet, Ops
<1>19. \A z \in Objects, g \in FieldNames : Counted(z, g)' => Counted(z, g) \/ <<z, g>> = <<x, f>>
  <2> SUFFICES ASSUME NEW z \in Objects, NEW g \in FieldNames, Counted(z, g)', <<z, g>> # <<x, f>>
               PROVE  Counted(z, g)
    OBVIOUS
  <2>1. Alive(z) /\ mem' = mem
    BY <1>11 DEF Counted, Alive
  <2>2. <<"grey", z, g>> \notin Pending'
    BY <1>5, <1>16, <1>18
  <2>3. colour'[z] \in {"black", "purple"} /\ <<"black", z, g>> \notin Pending'
    BY <2>2 DEF Counted
  <2>4. <<"black", z, g>> \notin Pending
    BY <1>5, <2>3
  <2>5. colour[z] \in {"black", "purple"}
    <3>1. CASE z = y
      BY <1>5, <1>15, <2>3, <3>1
    <3> QED BY <1>13, <2>3, <3>1
  <2> QED BY <2>1, <2>4, <2>5 DEF Counted
<1>20. ASSUME NEW z \in Objects
       PROVE  Places'[z] \subseteq Places[z] \cup (IF z = y THEN {<<x, f>>} ELSE {})
  <2>1. Slots(z)' = Slots(z)
    BY <1>11 DEF Slots
  <2>2. ASSUME NEW p \in Held(z)' PROVE p \in Held(z) \/ (z = y /\ p = <<x, f>>)
    <3>1. PICK a \in Objects, g \in FieldNames : p = <<a, g>> /\ kid[a][g] = z /\ Counted(a, g)'
      BY <1>11 DEF Held
    <3>2. CASE Counted(a, g)
      BY <3>1, <3>2 DEF Held
    <3>3. CASE <<a, g>> = <<x, f>>
      BY <1>6, <3>1, <3>3
    <3> QED BY <1>19, <3>1, <3>2, <3>3
  <2> QED BY <2>1, <2>2 DEF Places
<1>21. Covered(mem, rc', Places')
  <2>1. Places'[y] \subseteq Places[y] \cup {<<x, f>>} /\ \A z \in Objects \ {y} : Places'[z] \subseteq Places[z]
    BY <1>20
  <2> QED BY <1>1, <1>10, <1>11, <2>1, PlacesTyped, CoveredRetain DEF Alive
<1>23. ColoursOK'
  <2>1. \A z \in Objects : (colour[z] = "white" => rc[z] = 0)'
    BY <1>13 DEF CollectorInv, ColoursOK
  <2>2. \A z \in Objects : (colour[z] = "grey" => Alive(z) /\ phase \in {"grey", "scan"})'
    BY <1>6, <1>11, <1>13 DEF CollectorInv, ColoursOK, Alive
  <2>3. \A z \in Objects : (mem[z] = "none" => colour[z] = "black")'
    BY <1>10, <1>11, <1>13 DEF CollectorInv, ColoursOK, Alive
  <2>4. ASSUME NEW z \in Objects, Alive(z)', colour'[z] = "purple"
        PROVE  buffered'[z]
    <3>1. Alive(z) /\ colour[z] = "purple"
      BY <1>11, <1>13, <2>4 DEF Alive
    <3> QED BY <1>6, <1>11, <1>18, <3>1 DEF CollectorInv, ColoursOK
  <2> QED BY <2>1, <2>2, <2>3, <2>4 DEF ColoursOK
<1>24. Fits'
  BY <1>5, <1>6, <1>11, <1>16 DEF CollectorInv, Fits
<1>25. SourcesOK'
  <2>2. ASSUME NEW u \in Pending', u[1] = "black"
        PROVE  Alive(u[2]) /\ colour'[u[2]] = "black"
    <3>1. CASE u \in Added
      BY <1>10, <1>13, <1>16, <3>1
    <3>2. CASE u \in Rest
      <4>1. u \in Pending /\ u[2] \in Objects
        BY <1>5, <1>18, <3>2 DEF VisitSet
      <4>2. Alive(u[2]) /\ colour[u[2]] = "black"
        BY <2>2, <4>1 DEF CollectorInv, SourcesOK
      <4> QED BY <1>13, <4>1, <4>2
    <3> QED BY <1>5, <3>1, <3>2
  <2>3. \A u \in Pending' : u[1] \in {"scan", "black"}
    BY <1>5, <1>16, <1>18
  <2> QED BY <1>11, <2>2, <2>3 DEF SourcesOK, Alive
<1>27. Grey' = Grey \ {y} /\ (y \in Grey => colour[y] # "black")
  BY <1>13 DEF Grey
<1>28. RootsOK' /\ GreyOK'
  BY <1>6, <1>11 DEF RootsOK, GreyOK
<1>29. /\ Targets \subseteq Objects /\ Targets' \subseteq Targets \cup Kids(y)
       /\ Targets \subseteq Targets' \cup {y}
       /\ y \in Grey => Kids(y) \subseteq Targets'
  BY <1>1, <1>5, <1>6, <1>11, <1>16a, <1>27, TargetsMove
<1>30. ScanOK'
  BY <1>6, <1>11, <1>27, <1>29, ScanMoves DEF CollectorInv
<1>31. Apart(Old)'
  BY <1>1, <1>6, <1>9, <1>10, <1>11, <1>13, <1>29, ApartMoves
<1>32. OldOK' /\ BufferIsExact' /\ FreedOnce'
  BY <1>11, <1>31 DEF OldOK, CollectorInv, BufferIsExact, FreedOnce
<1> QED BY <1>11, <1>14, <1>17, <1>21, <1>23, <1>24, <1>25, <1>28, <1>30, <1>32 DEF CollectorInv

LEMMA CollectWhiteKeeps ==
  ASSUME CollectorInv, NEW y \in Objects, CollectWhite(y)
  PROVE  CollectorInv'
<1> DEFINE dead == colour[y] = "white" /\ ~buffered[y]
           more == IF dead THEN Children("white", y) ELSE <<>>
           Added == IF dead THEN ChildVisits("white", y) ELSE {}
<1>1. CollectorTypeOK /\ NoRepeat /\ Covered(mem, rc, Places)
  BY DEF CollectorInv
<1>2. more \in Seq(VisitSet) /\ ToSet(more) = Added /\ Once(more)
  BY EmptyStack, ChildrenVisits DEF Ops, ChildVisits
<1>3. Visits("white", y) /\ Goes(more)
  BY DEF CollectWhite
<1> HIDE DEF more
<1>4. PICK x \in Objects, f \in 0 .. Fields :
         /\ Visit = <<"white", x, f>>
         /\ (f = 0 /\ x = y) \/ (f # 0 /\ f \in FieldNames /\ kid[x][f] = y)
  BY <1>1, <1>2, <1>3, VisitMoves
<1> DEFINE v == <<"white", x, f>>
<1>5. /\ walk' \in Seq(VisitSet)
      /\ v \in Pending /\ Pending = {v} \cup Rest /\ Pending' = Added \cup Rest
      /\ (\A u \in Added : Tracked(u) => u \notin Rest) => NoRepeat'
  BY <1>1, <1>2, <1>3, <1>4, VisitMoves
<1>6. phase = "white" /\ Target(v) = y /\ y # Nil
  BY <1>4, <1>5, CollectorAssumption DEF CollectorInv, Fits, Target
<1>9. PICK Old \in SUBSET Objects : Apart(Old)
  BY <1>6 DEF CollectorInv, OldOK
<1>10. y \notin Old /\ (Alive(y) \/ colour[y] = "black")
  BY <1>5, <1>6, <1>9 DEF Apart, Targets, Sound
<1>11. UNCHANGED <<rc, buffered, cand, phase, live, kid, store, lists, dying>>
  BY DEF CollectWhite, program
<1>12. /\ colour \in [Objects -> Colours] /\ rc \in [Objects -> Nat] /\ mem \in [Objects -> MemStates]
       /\ buffered \in [Objects -> BOOLEAN]
  BY <1>1 DEF CollectorTypeOK, Covered
<1>13. /\ ~dead => UNCHANGED <<mem, colour, again>>
       /\ dead => /\ colour' = [colour EXCEPT ![y] = "black"] /\ mem' = [mem EXCEPT ![y] = "freed"]
                  /\ again' = again \cup ({y} \cap Freed)
  BY <1>12 DEF CollectWhite, FreeObject
<1>14. dead => Alive(y) /\ rc[y] = 0
  BY <1>10 DEF CollectorInv, ColoursOK
<1>15. /\ \A z \in Objects \ {y} : colour'[z] = colour[z] /\ mem'[z] = mem[z]
       /\ UNCHANGED mem \/ (mem'[y] = "freed" /\ colour'[y] = "black" /\ dead)
       /\ \A z \in Objects : Alive(z)' => Alive(z) /\ colour'[z] = colour[z]
  BY <1>12, <1>13 DEF Alive
<1>15a. \A z \in Objects : \/ colour'[z] = colour[z] /\ mem'[z] = mem[z]
                           \/ colour'[z] = "black" /\ mem'[z] = "freed"
  <2>1. CASE dead
    <3> HIDE DEF dead
    <3> QED BY <1>12, <1>13, <2>1
  <2>2. CASE ~dead
    <3> HIDE DEF dead
    <3> QED BY <1>13, <2>2
  <2> QED BY <2>1, <2>2
<1>16. \A u \in Added : u[1] = "white"
  BY DEF ChildVisits
<1>16a. Added \in {{}, ChildVisits("white", y)} /\ (Added = {} \/ dead)
  OBVIOUS
<1>16b. colour[y] = "white" => ~buffered[y] \/ ~dead
  OBVIOUS
<1>16c. dead => ~buffered[y] /\ colour[y] = "white"
  OBVIOUS
<1> HIDE DEF Added, dead
<1>17. NoRepeat'
  BY <1>5, <1>16 DEF Tracked
<1>18. \A u \in Pending \cup Pending' : u[1] = "white"
  <2>1. \A u \in Pending : u \in VisitSet
    BY <1>1 DEF CollectorTypeOK, Pending, ToSet
  <2>2. \A u \in Pending : u[1] = "white"
    BY <1>6, <2>1 DEF CollectorInv, Fits, VisitSet, Ops
  <2> QED BY <1>5, <1>16, <2>2
<1>19. CollectorTypeOK'
  <2>1. colour' \in [Objects -> Colours]
    BY <1>12, <1>13 DEF Colours
  <2> QED BY <1>1, <1>5, <1>11, <2>1 DEF CollectorTypeOK
<1>20. \A z \in Objects, g \in FieldNames : Counted(z, g)' => Counted(z, g)
  <2>1. \A z, g : <<"black", z, g>> \notin Pending /\ <<"grey", z, g>> \notin Pending'
    BY <1>18
  <2> QED BY <1>15, <2>1 DEF Counted
<1>21. \A z \in Objects : Places'[z] \subseteq Places[z]
  BY <1>11, <1>20, FewerPlaces
<1>22. Covered(mem', rc, Places')
  <2>1. Covered(mem, rc, Places')
    BY <1>1, <1>12, <1>21, PlacesTyped, CoveredLess
  <2>2. CASE dead
    BY <1>13, <1>14, <2>1, <2>2, CoveredFree
  <2> QED BY <1>13, <2>1, <2>2
<1>23. ColoursOK'
  <2>1. \A z \in Objects : (colour[z] = "white" => rc[z] = 0)'
    <3>1. \A z \in Objects : colour[z] = "white" => rc[z] = 0
      BY DEF CollectorInv, ColoursOK
    <3> QED BY <1>11, <1>15a, <3>1
  <2>2. \A z \in Objects : (colour[z] # "grey")'
    <3>1. \A z \in Objects : colour[z] # "grey"
      BY <1>6 DEF CollectorInv, ColoursOK
    <3> QED BY <1>15a, <3>1
  <2>3. \A z \in Objects : (mem[z] = "none" => colour[z] = "black")'
    <3>1. \A z \in Objects : mem[z] = "none" => colour[z] = "black"
      BY DEF CollectorInv, ColoursOK
    <3> QED BY <1>15a, <3>1
  <2>4. ASSUME NEW z \in Objects, Alive(z)', colour'[z] = "purple"
        PROVE  buffered'[z]
    <3>1. Alive(z) /\ colour[z] = "purple"
      BY <1>15, <2>4
    <3>2. <<"root", z, 0>> \notin Pending /\ <<"grey", z, 0>> \notin Pending
      BY <1>18
    <3>3. buffered[z]
      BY <1>6, <3>1, <3>2 DEF CollectorInv, ColoursOK
    <3> QED BY <1>11, <3>3
  <2> QED BY <2>1, <2>2, <2>3, <2>4 DEF ColoursOK
<1>24. Fits' /\ SourcesOK'
  BY <1>6, <1>11, <1>18 DEF Fits, SourcesOK
<1>28. RootsOK' /\ GreyOK' /\ ScanOK'
  BY <1>6, <1>11 DEF RootsOK, GreyOK, ScanOK
<1>29. Targets \subseteq Objects /\ Targets' \subseteq Targets \cup Kids(y) /\ (Added = {} => Targets' \subseteq Targets)
  BY <1>1, <1>5, <1>6, <1>11, <1>16a, TargetsMove
<1>31. Apart(Old)'
  <2>1. CASE dead
    BY <1>1, <1>6, <1>9, <1>10, <1>11, <1>14, <1>15, <1>29, <2>1, ApartMoves
  <2>2. CASE ~dead
    <3>1. UNCHANGED <<mem, colour, phase, kid, live>> /\ Targets' \subseteq Targets
      BY <1>11, <1>13, <1>16a, <1>29, <2>2
    <3> QED BY <1>6, <1>9, <3>1 DEF Apart, Sound, Alive, Kids
  <2> QED BY <2>1, <2>2
<1>32. BufferIsExact'
  <2>1. ASSUME NEW z \in ToSet(cand) PROVE mem'[z] = "alive"
    <3>1. z \in Objects /\ mem[z] = "alive" /\ buffered[z]
      BY <1>1 DEF CollectorInv, BufferIsExact, CollectorTypeOK, ToSet
    <3> QED BY <1>13, <1>15, <1>16c, <3>1
  <2> QED BY <1>11, <2>1 DEF CollectorInv, BufferIsExact
<1>33. FreedOnce'
  BY <1>13, <1>14 DEF CollectorInv, FreedOnce, Freed, Alive
<1>34. OldOK'
  BY <1>31 DEF OldOK
<1> QED BY <1>11, <1>17, <1>19, <1>22, <1>23, <1>24, <1>28, <1>32, <1>33, <1>34 DEF CollectorInv

LEMMA PassOverKeeps ==
  ASSUME CollectorInv, PassOver
  PROVE  CollectorInv'
<1>1. CollectorTypeOK /\ NoRepeat /\ Covered(mem, rc, Places)
  BY DEF CollectorInv
<1>2. walk \in Seq(VisitSet) /\ walk # <<>> /\ walk' = <<>> \o Tail(walk) /\ Once(walk)
  BY <1>1 DEF CollectorTypeOK, PassOver, Goes, NoRepeat, Once
<1>3. Moved(VisitSet, walk, <<>>, walk')
  BY <1>2, EmptyStack, StackMoves
<1>4. /\ walk' \in Seq(VisitSet) /\ Visit \in VisitSet
      /\ Pending = {Visit} \cup Rest /\ Pending' = Rest /\ Once(walk')
  BY <1>2, <1>3, EmptyStack DEF Moved, Pending, Rest, Visit
<1>5. NoRepeat'
  BY <1>4 DEF Once, NoRepeat, Tracked
<1>6. PICK op \in Ops, x \in Objects, f \in 0 .. Fields : Visit = <<op, x, f>>
  BY <1>4 DEF VisitSet
<1>7. f # 0 /\ f \in FieldNames /\ kid[x][f] = Nil
  BY <1>6, CollectorAssumption DEF PassOver, Target, FieldNames
<1>8. UNCHANGED <<mem, rc, colour, buffered, cand, phase, live, kid, store, lists, dying, again>>
  BY DEF PassOver, headers, program, history
<1>9. Pending' \subseteq Pending /\ \A u \in Pending : u = <<op, x, f>> \/ u \in Pending'
  BY <1>4, <1>6
<1>10. CollectorTypeOK'
  BY <1>1, <1>4, <1>8 DEF CollectorTypeOK
<1>11. ASSUME NEW z \in Objects PROVE Places'[z] \subseteq Places[z]
  <2>1. Slots(z)' = Slots(z)
    BY <1>8 DEF Slots
  <2>2. ASSUME NEW p \in Held(z)' PROVE p \in Held(z)
    <3>1. PICK a \in Objects, g \in FieldNames : p = <<a, g>> /\ kid[a][g] = z /\ Counted(a, g)'
      BY <1>8 DEF Held
    <3>2. <<a, g>> # <<x, f>>
      BY <1>7, <3>1, CollectorAssumption
    <3>3. <<"black", a, g>> \in Pending => <<"black", a, g>> \in Pending'
      BY <1>9, <3>2
    <3>4. Counted(a, g)
      BY <1>8, <1>9, <3>1, <3>3 DEF Counted, Alive
    <3> QED BY <3>1, <3>4 DEF Held
  <2> QED BY <2>1, <2>2 DEF Places
<1>12. Covered(mem', rc', Places')
  BY <1>1, <1>8, <1>11, PlacesTyped, CoveredLess DEF Covered
<1>13. Fits'
  <2>1. walk # <<>> => phase # "idle"
    BY DEF CollectorInv, Fits
  <2> QED BY <1>2, <1>8, <1>9, <2>1 DEF CollectorInv, Fits
<1>14. \A o, z : <<o, z, 0>> \in Pending <=> <<o, z, 0>> \in Pending'
  BY <1>7, <1>9
<1>15. ColoursOK'
  BY <1>8, <1>14 DEF CollectorInv, ColoursOK, Alive
<1>16. SourcesOK'
  BY <1>8, <1>9 DEF CollectorInv, SourcesOK, Alive
<1>17. RootsOK'
  BY <1>8, <1>14 DEF CollectorInv, RootsOK, Alive
<1>18. Grey' = Grey /\ (\A S : ClosedUnderGrey(S)' <=> ClosedUnderGrey(S))
  BY <1>8 DEF Grey, ClosedUnderGrey, Kids
<1>19. GreyOK'
  <2>1. ASSUME phase = "grey", NEW z \in Grey, NEW g \in FieldNames
        PROVE  kid[z][g] = Nil \/ <<"grey", z, g>> \in Pending' \/ kid[z][g] \in Grey
    <3>1. kid[z][g] = Nil \/ <<"grey", z, g>> \in Pending \/ kid[z][g] \in Grey
      BY <2>1 DEF CollectorInv, GreyOK
    <3> QED BY <1>7, <1>9, <3>1
  <2> QED BY <1>8, <1>18, <2>1 DEF CollectorInv, GreyOK
<1>20. Targets' = Targets
  <2>1. \A u : Target(u)' = Target(u)
    BY <1>8 DEF Target
  <2>2. Target(<<op, x, f>>) = Nil
    BY <1>7 DEF Target
  <2> QED BY <1>9, <2>1, <2>2 DEF Targets
<1>21. ScanOK'
  BY <1>8, <1>18, <1>20 DEF CollectorInv, ScanOK
<1>22. OldOK'
  BY <1>8, <1>20 DEF CollectorInv, OldOK, Apart, Sound, Alive, Kids
<1>23. BufferIsExact' /\ FreedOnce'
  BY <1>8 DEF CollectorInv, BufferIsExact, FreedOnce
<1> QED BY <1>5, <1>10, <1>12, <1>13, <1>15, <1>16, <1>17, <1>19, <1>21, <1>22, <1>23 DEF CollectorInv

\* Before the marking, what is not white counts the fields it holds.
LEMMA RootLoopCounts ==
  ASSUME CollectorInv, phase = "root", NEW z \in Objects, Alive(z), colour[z] # "white",
         NEW k \in Kids(z)
  PROVE  k \in Objects /\ Alive(k) /\ rc[k] > 0 /\ rc[k] \in Nat
<1>1. CollectorTypeOK /\ Covered(mem, rc, Places)
  BY DEF CollectorInv
<1>2. PICK g \in FieldNames : k = kid[z][g] /\ k # Nil
  BY DEF Kids
<1>3. k \in Objects /\ colour[z] \in Colours
  BY <1>1, <1>2 DEF CollectorTypeOK
<1>4. colour[z] # "grey" /\ <<"black", z, g>> \notin Pending
  BY DEF CollectorInv, ColoursOK, Fits
<1>5. <<z, g>> \in Held(k)
  BY <1>2, <1>3, <1>4 DEF Held, Counted, Colours
<1>6. <<z, g>> \in Places[k]
  BY <1>3, <1>5 DEF Places
<1> QED BY <1>1, <1>3, <1>6, HeldIsCounted DEF Alive

LEMMA VisitRootKeeps ==
  ASSUME CollectorInv, NEW y \in Objects, VisitRoot(y)
  PROVE  CollectorInv'
<1>1. CollectorTypeOK /\ NoRepeat /\ Covered(mem, rc, Places)
  BY DEF CollectorInv
<1>2. <<>> \in Seq(VisitSet) /\ ToSet(<<>>) = {} /\ Once(<<>>)
  BY EmptyStack
<1>3. Visits("root", y) /\ Goes(<<>>)
  BY DEF VisitRoot
<1>4. PICK x \in Objects, f \in 0 .. Fields :
         /\ Visit = <<"root", x, f>>
         /\ (f = 0 /\ x = y) \/ (f # 0 /\ f \in FieldNames /\ kid[x][f] = y)
  BY <1>1, <1>2, <1>3, VisitMoves
<1>5. /\ walk' \in Seq(VisitSet) /\ Visit \in Pending
      /\ Pending = {Visit} \cup Rest /\ Pending' = Rest /\ (Tracked(Visit) => Visit \notin Rest)
      /\ NoRepeat'
  <2>1. /\ walk' \in Seq(VisitSet) /\ Visit \in Pending
        /\ Pending = {Visit} \cup Rest /\ Pending' = ToSet(<<>>) \cup Rest
        /\ (Tracked(Visit) => Visit \notin Rest)
        /\ Once(<<>>) /\ (\A v \in ToSet(<<>>) : Tracked(v) => v \notin Rest) => NoRepeat'
    BY <1>1, <1>2, <1>3, VisitMoves
  <2> QED BY <1>2, <2>1
<1>6. Visit = <<"root", y, 0>> /\ phase = "root" /\ Alive(y) /\ ~buffered[y]
  BY <1>4, <1>5 DEF CollectorInv, Fits, SourcesOK
<1>7. /\ <<"root", y, 0>> \notin Pending' /\ Pending' \subseteq Pending
      /\ \A u \in Pending : u = <<"root", y, 0>> \/ u \in Pending'
  BY <1>5, <1>6 DEF Tracked
<1>8. UNCHANGED <<rc, colour, buffered, cand, phase, kid, store, lists, dying>>
  BY DEF VisitRoot, program
<1>9. /\ rc \in [Objects -> Nat] /\ mem \in [Objects -> MemStates] /\ live \in Seq(Objects)
      /\ colour \in [Objects -> Colours]
  BY <1>1 DEF CollectorTypeOK, Covered
<1>10. \/ rc[y] = 0 /\ mem' = [mem EXCEPT ![y] = "freed"] /\ live' = live
       \/ rc[y] > 0 /\ UNCHANGED <<mem, again>> /\ live' = Append(live, y)
  BY <1>9 DEF VisitRoot, FreeObject
<1>11. /\ live' \in Seq(Objects)
       /\ \A z \in ToSet(live') : z \in ToSet(live) \/ (z = y /\ rc[y] > 0)
       /\ \A z \in ToSet(live) : z \in ToSet(live') /\ z \in Objects
       /\ rc[y] > 0 => y \in ToSet(live')
  <2>1. CASE live' = live /\ rc[y] = 0
    BY <1>9, <2>1 DEF ToSet
  <2>2. CASE rc[y] > 0 /\ live' = Append(live, y)
    <3>1. /\ Append(live, y) \in Seq(Objects) /\ Len(Append(live, y)) = Len(live) + 1
          /\ \A i \in 1 .. Len(live) : Append(live, y)[i] = live[i]
          /\ Append(live, y)[Len(live) + 1] = y
      BY <1>9, AppendProperties
    <3>2. /\ DOMAIN live = 1 .. Len(live) /\ DOMAIN Append(live, y) = 1 .. (Len(live) + 1) /\ Len(live) \in Nat
      BY <1>9, <3>1
    <3>3. ToSet(Append(live, y)) = ToSet(live) \cup {y}
      <4>1. \A i \in 1 .. (Len(live) + 1) : i \in 1 .. Len(live) \/ i = Len(live) + 1
        BY <3>2
      <4>2. \A i \in 1 .. Len(live) : i \in 1 .. (Len(live) + 1)
        BY <3>2
      <4>3. Len(live) + 1 \in 1 .. (Len(live) + 1)
        BY <3>2
      <4> QED BY <3>1, <3>2, <4>1, <4>2, <4>3 DEF ToSet
    <3>4. ToSet(live) \subseteq Objects
      BY <1>9, <3>2 DEF ToSet
    <3> QED BY <2>2, <3>1, <3>3, <3>4
  <2> QED BY <1>10, <2>1, <2>2
<1>12. \A z \in Objects \ {y} : mem'[z] = mem[z]
  BY <1>9, <1>10
<1>13. \A z \in Objects : (Alive(z)' => Alive(z)) /\ (Alive(z) /\ (z # y \/ rc[y] > 0) => Alive(z)')
  BY <1>6, <1>9, <1>10 DEF Alive
<1>14. \A u \in Pending : u[1] = "root" /\ u \in VisitSet
  <2>1. \A u \in Pending : u \in VisitSet
    BY <1>1 DEF CollectorTypeOK, Pending, ToSet
  <2> QED BY <1>6, <2>1 DEF CollectorInv, Fits, VisitSet, Ops
<1>15. CollectorTypeOK'
  BY <1>1, <1>5, <1>8, <1>11 DEF CollectorTypeOK
<1>16. Covered(mem', rc', Places')
  <2>1. \A z \in Objects, g \in FieldNames : Counted(z, g)' => Counted(z, g)
    <3>1. \A z, g : <<"black", z, g>> \notin Pending /\ <<"grey", z, g>> \notin Pending'
      BY <1>7, <1>14
    <3> QED BY <1>8, <1>13, <3>1 DEF Counted
  <2>2. \A z \in Objects : Places'[z] \subseteq Places[z]
    BY <1>8, <2>1, FewerPlaces
  <2>3. Covered(mem, rc, Places')
    <3>1. \A z \in Objects : Places'[z] \subseteq Places[z] /\ rc[z] >= rc[z]
      BY <1>9, <2>2
    <3> QED BY ONLY <1>1, <1>9, <3>1, PlacesTyped, CoveredLess
  <2>4. CASE rc[y] = 0 /\ mem' = [mem EXCEPT ![y] = "freed"]
    BY <1>8, <2>3, <2>4, CoveredFree
  <2> QED BY <1>8, <1>10, <2>3, <2>4
<1>17. Fits'
  BY <1>6, <1>7, <1>8 DEF CollectorInv, Fits
<1>18. ColoursOK'
  <2>1. \A z \in Objects : (colour[z] = "white" => rc[z] = 0)'
    BY <1>8 DEF CollectorInv, ColoursOK
  <2>2. \A z \in Objects : (colour[z] # "grey")'
    BY <1>6, <1>8 DEF CollectorInv, ColoursOK
  <2>3. \A z \in Objects : (mem[z] = "none" => colour[z] = "black")'
    BY <1>8, <1>9, <1>10 DEF CollectorInv, ColoursOK
  <2>4. ASSUME NEW z \in Objects, Alive(z)', colour'[z] = "purple"
        PROVE  buffered'[z] \/ <<"root", z, 0>> \in Pending' \/ z \in ToSet(live')
    <3>1. Alive(z) /\ colour[z] = "purple" /\ <<"grey", z, 0>> \notin Pending
      BY <1>8, <1>13, <1>14, <2>4
    <3>2. buffered[z] \/ <<"root", z, 0>> \in Pending \/ z \in ToSet(live)
      BY <1>6, <3>1 DEF CollectorInv, ColoursOK
    <3>3. z = y => rc[y] > 0
      BY <1>9, <1>10, <2>4 DEF Alive
    <3> QED BY <1>7, <1>8, <1>11, <3>2, <3>3
  <2> QED BY <1>6, <1>8, <2>1, <2>2, <2>3, <2>4 DEF ColoursOK
<1>19. SourcesOK'
  <2>1. ASSUME NEW u \in Pending' PROVE u[1] = "root" /\ Alive(u[2])' /\ ~buffered'[u[2]]
    <3>1. u \in Pending /\ u[1] = "root" /\ u \in VisitSet /\ u[3] = 0 /\ u # <<"root", y, 0>>
      BY <1>7, <1>14 DEF CollectorInv, Fits
    <3>2. u[2] # y /\ u[2] \in Objects
      BY <3>1 DEF VisitSet
    <3>3. Alive(u[2]) /\ ~buffered[u[2]]
      BY <3>1 DEF CollectorInv, SourcesOK
    <3> QED BY <1>8, <1>13, <3>1, <3>2, <3>3
  <2> QED BY <2>1 DEF SourcesOK
<1>20. RootsOK'
  <2>1. ASSUME NEW z \in ToSet(live') PROVE Alive(z)' /\ rc[z] > 0 /\ <<"root", z, 0>> \notin Pending'
    <3>1. CASE z \in ToSet(live)
      <4>1. Alive(z) /\ rc[z] > 0 /\ <<"root", z, 0>> \notin Pending /\ z \in Objects
        BY <1>6, <1>11, <3>1 DEF CollectorInv, RootsOK
      <4> QED BY <1>7, <1>13, <4>1
    <3>2. CASE z = y /\ rc[y] > 0
      BY <1>6, <1>7, <1>13, <3>2
    <3> QED BY <1>11, <3>1, <3>2
  <2> QED BY <1>6, <1>8, <2>1 DEF RootsOK
<1>21. GreyOK' /\ ScanOK'
  BY <1>6, <1>8 DEF GreyOK, ScanOK
<1>22. OldOK'
  <2>1. PICK Old \in SUBSET Objects : Apart(Old)
    BY <1>6 DEF CollectorInv, OldOK
  <2>2. /\ \A z \in Old : colour[z] = "white"
        /\ \A z \in Objects : colour[z] = "white" => z \in Old
    BY <1>6, <2>1 DEF Apart
  <2>3. ASSUME NEW z \in Objects \ Old, Alive(z)', NEW k \in Kids(z) PROVE k \notin Old /\ Alive(k)'
    <3>1. Alive(z) /\ colour[z] # "white"
      BY <1>13, <2>2, <2>3
    <3>2. k \in Objects /\ Alive(k) /\ rc[k] > 0 /\ rc[k] \in Nat
      BY <1>6, <3>1, RootLoopCounts
    <3>3. colour[k] # "white"
      BY <3>2 DEF CollectorInv, ColoursOK
    <3> QED BY <1>13, <2>2, <3>2, <3>3
  <2>4. ASSUME NEW z \in ToSet(live') PROVE z \notin Old /\ Alive(z)'
    <3>1. z \in Objects /\ Alive(z)' /\ rc[z] > 0
      BY <1>6, <1>8, <1>11, <1>20, <2>4 DEF RootsOK
    <3> QED BY <1>9, <2>2, <3>1 DEF CollectorInv, ColoursOK
  <2>5. Apart(Old)'
    <3>1. \A z \in Objects : Kids(z)' = Kids(z)
      BY <1>8 DEF Kids
    <3> QED BY <1>6, <1>8, <2>2, <2>3, <2>4, <3>1 DEF Apart, Sound
  <2> QED BY <2>5 DEF OldOK
<1>23. BufferIsExact'
  <2>1. ASSUME NEW z \in ToSet(cand) PROVE mem'[z] = "alive"
    <3>1. z \in Objects /\ mem[z] = "alive" /\ buffered[z]
      BY <1>1 DEF CollectorInv, BufferIsExact, CollectorTypeOK, ToSet
    <3> QED BY <1>6, <1>12, <3>1
  <2> QED BY <1>8, <2>1 DEF CollectorInv, BufferIsExact
<1>24. FreedOnce'
  <2>1. again' = again \cup ({y} \cap Freed) \/ again' = again
    BY DEF VisitRoot, FreeObject
  <2> QED BY <1>6, <2>1 DEF CollectorInv, FreedOnce, Freed, Alive
<1> QED BY <1>5, <1>15, <1>16, <1>17, <1>18, <1>19, <1>20, <1>21, <1>22, <1>23, <1>24 DEF CollectorInv

LEMMA NextLoopKeeps ==
  ASSUME CollectorInv, NextLoop
  PROVE  CollectorInv'
<1>0. PICK op : op = Following[phase]
  OBVIOUS
<1>1. CollectorTypeOK /\ Covered(mem, rc, Places)
  BY DEF CollectorInv
<1>2. /\ \/ phase = "root" /\ op = "grey"
         \/ phase = "grey" /\ op = "scan"
         \/ phase = "scan" /\ op = "white"
      /\ phase' = op /\ walk = <<>>
      /\ UNCHANGED <<mem, rc, colour, buffered, cand, live, kid, store, lists, dying, again>>
  <2>1. /\ phase \in DOMAIN Following /\ phase' = op /\ walk = <<>>
        /\ UNCHANGED <<mem, rc, colour, buffered, cand, live, kid, store, lists, dying, again>>
    BY <1>0 DEF NextLoop, headers, program, history
  <2>2. DOMAIN Following = {"root", "grey", "scan"}
    BY DEF Following
  <2>3. Following["root"] = "grey" /\ Following["grey"] = "scan" /\ Following["scan"] = "white"
    BY DEF Following
  <2> QED BY <1>0, <2>1, <2>2, <2>3
<1>3. walk' = Roots(op, live) /\ op \in Ops /\ op # "root" /\ live \in Seq(Objects)
  BY <1>0, <1>1, <1>2 DEF NextLoop, Ops, CollectorTypeOK
<1>4. /\ walk' \in Seq(VisitSet) /\ Once(walk') /\ Pending = {}
      /\ Pending' = {<<op, x, 0>> : x \in ToSet(live)}
  <2>1. Roots(op, live) \in Seq(VisitSet) /\ ToSet(Roots(op, live)) = {<<op, x, 0>> : x \in ToSet(live)} /\ Once(Roots(op, live))
    BY <1>3, RootsVisits
  <2> QED BY <1>2, <1>3, <2>1, EmptyStack DEF Pending
<1>5. ToSet(live) \subseteq Objects
  BY <1>3 DEF ToSet
<1>6. \A u \in Pending' : u[1] = op /\ u[2] \in ToSet(live) /\ u[3] = 0
  BY <1>4
<1>7. NoRepeat'
  BY <1>4 DEF Once, NoRepeat, Tracked
<1>8. CollectorTypeOK'
  BY <1>1, <1>2, <1>4 DEF CollectorTypeOK
<1>9. \A z, g : <<"black", z, g>> \notin Pending /\ (g # 0 => <<"grey", z, g>> \notin Pending')
  BY <1>4
<1>10. Covered(mem', rc', Places')
  <2>1. \A z \in Objects, g \in FieldNames : Counted(z, g)' => Counted(z, g)
    <3>1. \A g \in FieldNames : g # 0
      BY CollectorAssumption DEF FieldNames
    <3> QED BY <1>2, <1>9, <3>1 DEF Counted, Alive
  <2>2. \A z \in Objects : Places'[z] \subseteq Places[z] /\ rc[z] >= rc[z]
    BY <1>1, <1>2, <2>1, FewerPlaces DEF Covered
  <2>3. Covered(mem, rc, Places')
    BY <1>1, <2>2, PlacesTyped, CoveredLess DEF Covered
  <2> QED BY <1>2, <2>3
<1>11. Fits'
  BY <1>2, <1>6 DEF Fits
<1>12. phase = "scan" => Grey = {}
  <2> HAVE phase = "scan"
  <2>1. Targets = {} /\ ClosedUnderGrey({})
    BY <1>4 DEF Targets, ClosedUnderGrey
  <2> QED BY <2>1 DEF CollectorInv, ScanOK
<1>13. phase = "root" => Grey = {}
  BY DEF CollectorInv, ColoursOK, Grey
<1>14. ColoursOK'
  <2>1. \A z \in Objects : (colour[z] = "white" => rc[z] = 0)'
    BY <1>2 DEF CollectorInv, ColoursOK
  <2>2. \A z \in Objects : (colour[z] = "grey" => Alive(z) /\ phase \in {"grey", "scan"})'
    BY <1>2, <1>12 DEF CollectorInv, ColoursOK, Alive, Grey
  <2>3. \A z \in Objects : (mem[z] = "none" => colour[z] = "black")'
    BY <1>2 DEF CollectorInv, ColoursOK
  <2>4. ASSUME NEW z \in Objects, Alive(z)', colour'[z] = "purple"
        PROVE  buffered'[z] \/ <<"grey", z, 0>> \in Pending'
    <3>1. buffered[z] \/ (phase = "root" /\ z \in ToSet(live))
      BY <1>2, <1>4, <2>4 DEF CollectorInv, ColoursOK, Alive
    <3> QED BY <1>2, <1>4, <3>1
  <2> QED BY <2>1, <2>2, <2>3, <2>4 DEF ColoursOK
<1>15. SourcesOK'
  <2>1. ASSUME NEW u \in Pending', u[1] = "grey" PROVE Alive(u[2]) /\ colour[u[2]] # "white"
    <3>1. phase = "root" /\ u[2] \in ToSet(live) /\ u[2] \in Objects
      BY <1>2, <1>5, <1>6, <2>1
    <3>2. Alive(u[2]) /\ rc[u[2]] > 0 /\ rc[u[2]] \in Nat
      BY <1>1, <3>1 DEF CollectorInv, RootsOK, Covered
    <3> QED BY <3>1, <3>2 DEF CollectorInv, ColoursOK
  <2>2. \A u \in Pending' : u[1] \notin {"root", "black"} /\ u[3] = 0
    BY <1>2, <1>6
  <2> QED BY <1>2, <2>1, <2>2 DEF SourcesOK, Alive
<1>16. RootsOK'
  <2>1. ASSUME op = "grey" PROVE \A x \in Objects : x \in ToSet(live) <=> <<"grey", x, 0>> \in Pending'
    BY <1>4, <2>1
  <2> QED BY <1>2, <1>5, <2>1 DEF RootsOK
<1>17. Grey' = Grey /\ (\A S : ClosedUnderGrey(S)' <=> ClosedUnderGrey(S)) /\ \A z \in Objects : Kids(z)' = Kids(z)
  BY <1>2 DEF Grey, ClosedUnderGrey, Kids
<1>18. GreyOK'
  BY <1>2, <1>13, <1>17 DEF GreyOK
<1>19. Targets' = ToSet(live)
  <2>1. \A x \in ToSet(live) : Target(<<op, x, 0>>)' = x /\ x # Nil
    BY <1>5, CollectorAssumption DEF Target
  <2>2. \A u \in Pending' : \E x \in ToSet(live) : u = <<op, x, 0>>
    BY <1>4
  <2>3. \A x \in ToSet(live) : <<op, x, 0>> \in Pending'
    BY <1>4
  <2>4. Targets' = {Target(u)' : u \in Pending'} \ {Nil}
    BY DEF Targets
  <2>5. ASSUME NEW z \in Targets' PROVE z \in ToSet(live)
    <3>1. PICK u \in Pending' : z = Target(u)'
      BY <2>4
    <3>2. PICK x \in ToSet(live) : u = <<op, x, 0>>
      BY <2>2
    <3> QED BY <2>1, <3>1, <3>2
  <2>6. ASSUME NEW x \in ToSet(live) PROVE x \in Targets'
    BY <2>1, <2>3, <2>4
  <2> QED BY <2>5, <2>6
<1>20. ScanOK'
  <2>1. ASSUME phase = "grey", NEW S \in SUBSET Objects, ToSet(live) \subseteq S, ClosedUnderGrey(S)
        PROVE  Grey \subseteq S
    BY <2>1 DEF CollectorInv, GreyOK
  <2> QED BY <1>2, <1>17, <1>19, <2>1 DEF ScanOK
<1>21. OldOK'
  <2>1. PICK Old \in SUBSET Objects : Apart(Old)
    BY <1>2 DEF CollectorInv, OldOK
  <2>2. \A z \in Objects : Sound(z) => Sound(z)'
    BY <1>2 DEF Sound, Alive
  <2>3. \A z \in Objects : Kids(z) \subseteq Objects
    BY <1>1 DEF Kids, CollectorTypeOK
  <2>4. Apart(Old)'
    <3>1. \A z \in Objects \ Old : Alive(z) => \A k \in Kids(z) : k \notin Old /\ Sound(k)'
      BY <2>1, <2>2, <2>3 DEF Apart
    <3>2. \A z \in ToSet(live) : z \notin Old /\ Sound(z)'
      BY <1>5, <2>1, <2>2 DEF Apart
    <3>3. \A z \in Old : colour'[z] = "white"
      BY <1>2, <2>1 DEF Apart
    <3> QED BY <1>2, <1>17, <1>19, <3>1, <3>2, <3>3 DEF Apart, Alive
  <2> QED BY <2>4 DEF OldOK
<1>22. BufferIsExact' /\ FreedOnce'
  BY <1>2 DEF CollectorInv, BufferIsExact, FreedOnce
<1> QED BY <1>7, <1>8, <1>10, <1>11, <1>14, <1>15, <1>16, <1>18, <1>20, <1>21, <1>22 DEF CollectorInv

----------------------------------------------------------------------------
(***************************************************************************)
(* Between two collections                                                 *)
(***************************************************************************)
SlotsIn(ls, x) == {p \in Lists \X (1 .. MaxLen) : p[2] <= Len(ls[p[1]]) /\ ls[p[1]][p[2]] = x}
HeldIn(m, c, k, x) ==
    {p \in Objects \X FieldNames : k[p[1]][p[2]] = x /\ m[p[1]] = "alive" /\ c[p[1]] \in {"black", "purple"}}
PlacesIn(m, c, k, ls) == [x \in Objects |-> SlotsIn(ls, x) \cup HeldIn(m, c, k, x)]

Headers(m, r, c) ==
    /\ c \in [Objects -> Colours \ {"grey"}]
    /\ \A x \in Objects : c[x] = "white" => r[x] = 0
    /\ \A x \in Objects : m[x] = "none" => c[x] = "black"

Candidates(m, c, b, cd) ==
    /\ b \in [Objects -> BOOLEAN] /\ cd \in Seq(Objects) /\ IsInjective(cd)
    /\ {x \in Objects : b[x]} = ToSet(cd)
    /\ \A x \in ToSet(cd) : m[x] = "alive"
    /\ \A x \in Objects : m[x] = "alive" /\ c[x] = "purple" => b[x]

Shape(k, ls, d) ==
    /\ k \in [Objects -> [FieldNames -> Objects \cup {Nil}]]
    /\ ls \in [Lists -> Seq(Objects)]
    /\ \A l \in Lists : Len(ls[l]) <= MaxLen
    /\ d \in Lists \cup {Nil} /\ (d # Nil => ls[d] # <<>>)

AtRest(m, r, c, b, cd, k, ls, d) ==
    /\ Headers(m, r, c) /\ Candidates(m, c, b, cd) /\ Shape(k, ls, d)
    /\ Covered(m, r, PlacesIn(m, c, k, ls))

Resting == AtRest(mem, rc, colour, buffered, cand, kid, lists, dying)

LEMMA PlacesInTyped ==
  ASSUME NEW m, NEW c, NEW k, NEW ls
  PROVE  PlacesIn(m, c, k, ls) \in [Objects -> SUBSET AllPlaces]
BY DEF PlacesIn, SlotsIn, HeldIn, AllPlaces

LEMMA IdleRests ==
  ASSUME CollectorInv, Idle
  PROVE  Resting /\ walk = <<>> /\ live = <<>> /\ Len(cand) < Theta /\ store = <<>> /\ again = {}
<1>1. CollectorTypeOK /\ Covered(mem, rc, Places)
  BY DEF CollectorInv
<1>2. walk = <<>> /\ live = <<>> /\ Pending = {}
  BY EmptyStack DEF CollectorInv, Idle, Fits, Pending
<1>3. \A x \in Objects : colour[x] # "grey"
  BY DEF CollectorInv, Idle, ColoursOK
<1>4. Headers(mem, rc, colour)
  BY <1>1, <1>3 DEF CollectorInv, ColoursOK, CollectorTypeOK, Headers
<1>5. \A x \in Objects : Alive(x) /\ colour[x] = "purple" => buffered[x]
  BY <1>2 DEF CollectorInv, ColoursOK, Idle
<1>6. Candidates(mem, colour, buffered, cand)
  BY <1>1, <1>5 DEF CollectorInv, CollectorTypeOK, BufferIsExact, Candidates, Alive
<1>7. Shape(kid, lists, dying)
  BY <1>1 DEF CollectorTypeOK, Shape
<1>8. Places = PlacesIn(mem, colour, kid, lists)
  <2>1. \A z, g : Counted(z, g) <=> mem[z] = "alive" /\ colour[z] \in {"black", "purple"}
    BY <1>2 DEF Counted, Alive
  <2> QED BY <2>1 DEF Places, PlacesIn, Slots, SlotsIn, Held, HeldIn
<1> QED BY <1>1, <1>2, <1>4, <1>6, <1>7, <1>8
    DEF Resting, AtRest, CollectorInv, BufferIsExact, CollectorTypeOK, FreedOnce

LEMMA RestIsIdle ==
  ASSUME Resting', (Idle /\ walk = <<>> /\ live = <<>> /\ Len(cand) < Theta /\ store = <<>> /\ again = {})'
  PROVE  CollectorInv'
<1>1. /\ Headers(mem', rc', colour') /\ Candidates(mem', colour', buffered', cand')
      /\ Shape(kid', lists', dying') /\ Covered(mem', rc', PlacesIn(mem', colour', kid', lists'))
  BY DEF Resting, AtRest
<1>2. Pending' = {} /\ walk' \in Seq(VisitSet) /\ NoRepeat' /\ live' \in Seq(Objects) /\ phase' = "idle"
  BY EmptyStack DEF Pending, Idle, NoRepeat
<1>3. \A x \in Objects : colour'[x] # "grey"
  BY <1>1 DEF Headers
<1>4. CollectorTypeOK'
  BY <1>1, <1>2 DEF CollectorTypeOK, Headers, Candidates, Shape
<1>5. Fits' /\ SourcesOK' /\ RootsOK' /\ GreyOK' /\ ScanOK' /\ OldOK'
  BY <1>2 DEF Fits, SourcesOK, RootsOK, GreyOK, ScanOK, OldOK
<1>6. ColoursOK'
  BY <1>1, <1>3 DEF ColoursOK, Headers, Candidates, Alive
<1>7. BufferIsExact' /\ FreedOnce'
  BY <1>1 DEF BufferIsExact, FreedOnce, Candidates
<1>8. Places' = PlacesIn(mem', colour', kid', lists')
  <2>1. \A z, g : Counted(z, g)' <=> mem'[z] = "alive" /\ colour'[z] \in {"black", "purple"}
    BY <1>2 DEF Counted, Alive
  <2> QED BY <2>1 DEF Places, PlacesIn, Slots, SlotsIn, Held, HeldIn
<1> QED BY <1>1, <1>2, <1>4, <1>5, <1>6, <1>7, <1>8 DEF CollectorInv

LEMMA EndCollectionKeeps ==
  ASSUME CollectorInv, EndCollection
  PROVE  CollectorInv'
<1>1. CollectorTypeOK /\ Covered(mem, rc, Places)
  BY DEF CollectorInv
<1>2. /\ phase = "white" /\ walk = <<>> /\ phase' = "idle" /\ walk' = <<>> /\ live' = <<>> /\ store' = <<>>
      /\ UNCHANGED <<mem, rc, colour, buffered, cand, kid, lists, dying, again>>
  BY <1>1 DEF EndCollection, Stored, CollectorTypeOK, headers, history
<1>3. Pending = {}
  BY <1>2, EmptyStack DEF Pending
<1>4. Headers(mem, rc, colour)
  BY <1>1, <1>2 DEF CollectorInv, ColoursOK, CollectorTypeOK, Headers
<1>5. \A x \in Objects : Alive(x) /\ colour[x] = "purple" => buffered[x]
  BY <1>2, <1>3 DEF CollectorInv, ColoursOK
<1>6. Candidates(mem, colour, buffered, cand)
  BY <1>1, <1>5 DEF CollectorInv, CollectorTypeOK, BufferIsExact, Candidates, Alive
<1>7. Shape(kid, lists, dying)
  BY <1>1 DEF CollectorTypeOK, Shape
<1>8. Places = PlacesIn(mem, colour, kid, lists)
  <2>1. \A z \in Objects, g \in FieldNames : Counted(z, g) <=> mem[z] = "alive" /\ colour[z] \in {"black", "purple"}
    BY <1>3 DEF Counted, Alive
  <2> QED BY <2>1 DEF Places, PlacesIn, Slots, SlotsIn, Held, HeldIn
<1>9. Resting'
  BY <1>1, <1>2, <1>4, <1>6, <1>7, <1>8 DEF Resting, AtRest
<1>10. Len(cand) < Theta /\ again = {}
  BY DEF CollectorInv, BufferIsExact, FreedOnce
<1> QED BY <1>2, <1>9, <1>10, RestIsIdle DEF Idle

Split(s, n, a, b) ==
    /\ a \in Seq(Objects) /\ b \in Seq(Objects) /\ IsInjective(a) /\ IsInjective(b)
    /\ ToSet(s) = ToSet(a) \cup ToSet(b) /\ ToSet(a) \cap ToSet(b) = {}
    /\ Len(b) = Len(s) - n

LEMMA SplitSeq ==
  ASSUME NEW s \in Seq(Objects), IsInjective(s), NEW n \in Nat, n <= Len(s), NEW a, NEW b,
         a = SubSeq(s, 1, n), b = SubSeq(s, n + 1, Len(s))
  PROVE  Split(s, n, a, b)
<1>0. PICK N \in Nat : N = Len(s)
  OBVIOUS
<1>1. N \in Nat /\ n <= N /\ DOMAIN s = 1 .. N /\ \A i \in 1 .. N : s[i] \in Objects
  BY <1>0
<1>2. a \in Seq(Objects) /\ Len(a) = n /\ \A i \in 1 .. n : a[i] = s[i]
  <2>1. \A i \in 1 .. n : s[i] \in Objects
    BY <1>1
  <2>2. /\ SubSeq(s, 1, n) \in Seq(Objects)
        /\ Len(SubSeq(s, 1, n)) = (IF 1 <= n THEN n - 1 + 1 ELSE 0)
        /\ \A i \in 1 .. (n - 1 + 1) : SubSeq(s, 1, n)[i] = s[1 + i - 1]
    BY <2>1, SubSeqProperties
  <2>3. n - 1 + 1 = n /\ (IF 1 <= n THEN n - 1 + 1 ELSE 0) = n
    OBVIOUS
  <2>4. \A i \in 1 .. n : 1 + i - 1 = i
    OBVIOUS
  <2> QED BY <2>2, <2>3, <2>4
<1>3. b \in Seq(Objects) /\ Len(b) = N - n /\ \A i \in 1 .. (N - n) : b[i] = s[n + i]
  <2>1. \A i \in (n + 1) .. N : s[i] \in Objects
    BY <1>1
  <2>2. n + 1 \in Int /\ N \in Int
    BY <1>1
  <2>3. /\ b \in Seq(Objects) /\ Len(b) = (IF n + 1 <= N THEN N - (n + 1) + 1 ELSE 0)
        /\ \A i \in 1 .. (N - (n + 1) + 1) : b[i] = s[n + 1 + i - 1]
    BY <1>0, <2>1, <2>2, SubSeqProperties
  <2>4. N - (n + 1) + 1 = N - n /\ (IF n + 1 <= N THEN N - (n + 1) + 1 ELSE 0) = N - n
    BY ONLY <1>1, n \in Nat
  <2>5. \A i \in 1 .. (N - n) : n + 1 + i - 1 = n + i
    BY ONLY <1>1, n \in Nat
  <2> QED BY <2>3, <2>4, <2>5
<1>4. DOMAIN a = 1 .. n /\ DOMAIN b = 1 .. (N - n)
  BY ONLY <1>2, <1>3
<1>4a. ASSUME NEW i \in 1 .. (N - n) PROVE n + i \in 1 .. N
  BY ONLY <1>1, n \in Nat, i \in 1 .. (N - n)
<1>5. IsInjective(a) /\ IsInjective(b)
  <2>1. IsInjective(a)
    BY <1>1, <1>2, <1>4 DEF IsInjective
  <2>2. ASSUME NEW i \in 1 .. (N - n), NEW j \in 1 .. (N - n), b[i] = b[j] PROVE i = j
    <3>1. n + i \in 1 .. N /\ n + j \in 1 .. N /\ s[n + i] = s[n + j]
      BY <1>3, <1>4a, <2>2
    <3>2. n + i = n + j
      BY <1>1, <3>1 DEF IsInjective
    <3> QED BY <3>2
  <2> QED BY <1>4, <2>1, <2>2 DEF IsInjective
<1>6. ASSUME NEW z \in ToSet(s) PROVE z \in ToSet(a) \cup ToSet(b)
  <2>1. PICK i \in 1 .. N : z = s[i]
    BY <1>1 DEF ToSet
  <2>2. CASE i <= n
    <3>1. i \in 1 .. n /\ a[i] = z
      BY <1>2, <2>1, <2>2
    <3> QED BY <1>4, <3>1 DEF ToSet
  <2>3. CASE ~(i <= n)
    <3>1. i - n \in 1 .. (N - n) /\ n + (i - n) = i
      BY ONLY <1>1, <2>3, n \in Nat, i \in 1 .. N
    <3>2. b[i - n] = z
      BY <1>3, <2>1, <3>1
    <3> QED BY <1>4, <3>1, <3>2 DEF ToSet
  <2> QED BY <2>2, <2>3
<1>7. ASSUME NEW z \in ToSet(a) PROVE z \in ToSet(s) /\ z \notin ToSet(b)
  <2>1. PICK i \in 1 .. n : z = a[i]
    BY <1>4 DEF ToSet
  <2>2. z = s[i] /\ i \in 1 .. N
    BY <1>1, <1>2, <2>1
  <2>3. ASSUME NEW j \in 1 .. (N - n), z = b[j] PROVE FALSE
    <3>1. n + j \in 1 .. N /\ s[n + j] = s[i]
      BY <1>3, <1>4a, <2>2, <2>3
    <3>2. n + j = i
      BY <1>1, <2>2, <3>1 DEF IsInjective
    <3> QED BY <3>2
  <2> QED BY <1>1, <1>4, <2>2, <2>3 DEF ToSet
<1>8. ASSUME NEW z \in ToSet(b) PROVE z \in ToSet(s)
  <2>1. PICK j \in 1 .. (N - n) : z = b[j]
    BY <1>4 DEF ToSet
  <2>2. z = s[n + j] /\ n + j \in 1 .. N
    BY <1>3, <1>4a, <2>1
  <2> QED BY <1>1, <2>2 DEF ToSet
<1> QED BY <1>0, <1>2, <1>3, <1>5, <1>6, <1>7, <1>8 DEF Split

LEMMA AppendSet ==
  ASSUME NEW S, NEW s \in Seq(S), NEW e \in S
  PROVE  /\ Append(s, e) \in Seq(S) /\ Len(Append(s, e)) = Len(s) + 1 /\ Len(s) \in Nat
         /\ \A i \in 1 .. Len(s) : Append(s, e)[i] = s[i]
         /\ Append(s, e)[Len(s) + 1] = e
         /\ ToSet(Append(s, e)) = ToSet(s) \cup {e}
         /\ IsInjective(s) /\ e \notin ToSet(s) => IsInjective(Append(s, e))
<1>1. PICK t : t = Append(s, e)
  OBVIOUS
<1>2. /\ t \in Seq(S) /\ Len(t) = Len(s) + 1
      /\ \A i \in 1 .. Len(s) : t[i] = s[i]
      /\ t[Len(s) + 1] = e
  BY <1>1, AppendProperties
<1>3. DOMAIN s = 1 .. Len(s) /\ DOMAIN t = 1 .. (Len(s) + 1) /\ Len(s) \in Nat
  BY <1>2
<1>4. /\ \A i \in 1 .. (Len(s) + 1) : i \in 1 .. Len(s) \/ i = Len(s) + 1
      /\ \A i \in 1 .. Len(s) : i \in 1 .. (Len(s) + 1) /\ i # Len(s) + 1
      /\ Len(s) + 1 \in 1 .. (Len(s) + 1)
  BY <1>3
<1>5. ToSet(t) = ToSet(s) \cup {e}
  BY <1>2, <1>3, <1>4 DEF ToSet
<1>6. ASSUME IsInjective(s), e \notin ToSet(s) PROVE IsInjective(t)
  <2>1. \A i \in 1 .. Len(s) : t[i] # e
    BY <1>2, <1>3, <1>6 DEF ToSet
  <2>2. ASSUME NEW i \in 1 .. (Len(s) + 1), NEW j \in 1 .. (Len(s) + 1), t[i] = t[j] PROVE i = j
    BY <1>2, <1>3, <1>4, <1>6, <2>1, <2>2 DEF IsInjective
  <2> QED BY <1>3, <2>2 DEF IsInjective
<1> QED BY <1>1, <1>2, <1>3, <1>5, <1>6

\* What is alive and not white holds what is alive and has a count.
LEMMA RestingCounts ==
  ASSUME NEW m, NEW r, NEW c, NEW k, NEW ls, NEW d, Headers(m, r, c), Shape(k, ls, d),
         Covered(m, r, PlacesIn(m, c, k, ls)),
         NEW z \in Objects, m[z] = "alive", c[z] # "white", NEW g \in FieldNames, k[z][g] # Nil
  PROVE  k[z][g] \in Objects /\ m[k[z][g]] = "alive" /\ c[k[z][g]] \in {"black", "purple"} /\ r[k[z][g]] > 0
<1>1. k[z][g] \in Objects /\ c[z] \in {"black", "purple"}
  BY DEF Shape, Headers, Colours
<1>2. <<z, g>> \in PlacesIn(m, c, k, ls)[k[z][g]]
  BY <1>1 DEF PlacesIn, HeldIn
<1>3. m[k[z][g]] = "alive" /\ r[k[z][g]] \in Nat /\ r[k[z][g]] > 0
  BY <1>1, <1>2, HeldIsCounted
<1> QED BY <1>1, <1>3 DEF Headers, Colours

LEMMA CollectStarts ==
  ASSUME NEW cands, NEW flags, NEW take \in Nat, take <= Len(cands), Len(cands) - take < Theta,
         Headers(mem', rc', colour'), Candidates(mem', colour', flags, cands),
         Shape(kid', lists', dying'), Covered(mem', rc', PlacesIn(mem', colour', kid', lists')),
         Collect(cands, flags, take), live = <<>>, store' = <<>>, again' = {}
  PROVE  CollectorInv'
<1>1. PICK a, b : a = SubSeq(cands, 1, take) /\ b = SubSeq(cands, take + 1, Len(cands))
  OBVIOUS
<1>2. /\ cands \in Seq(Objects) /\ IsInjective(cands) /\ {x \in Objects : flags[x]} = ToSet(cands)
      /\ \A x \in ToSet(cands) : mem'[x] = "alive"
      /\ \A x \in Objects : mem'[x] = "alive" /\ colour'[x] = "purple" => flags[x]
      /\ flags \in [Objects -> BOOLEAN]
  BY DEF Candidates
<1>3. /\ a \in Seq(Objects) /\ b \in Seq(Objects) /\ IsInjective(a) /\ IsInjective(b)
      /\ ToSet(cands) = ToSet(a) \cup ToSet(b) /\ ToSet(a) \cap ToSet(b) = {}
      /\ Len(b) = Len(cands) - take
  <2>1. Split(cands, take, a, b)
    BY ONLY <1>1, <1>2, take \in Nat, take <= Len(cands), SplitSeq
  <2> QED BY <2>1 DEF Split
<1>4. /\ cand' = b /\ buffered' = [x \in Objects |-> flags[x] /\ x \notin ToSet(a)]
      /\ phase' = "root" /\ walk' = Roots("root", a) /\ live' = <<>>
  BY <1>1 DEF Collect
<1>5. walk' \in Seq(VisitSet) /\ Pending' = {<<"root", x, 0>> : x \in ToSet(a)} /\ Once(walk')
  <2>1. /\ Roots("root", a) \in Seq(VisitSet) /\ ToSet(Roots("root", a)) = {<<"root", x, 0>> : x \in ToSet(a)}
        /\ Once(Roots("root", a))
    BY <1>3, RootsVisits DEF Ops
  <2> QED BY <1>4, <2>1 DEF Pending
<1>6. NoRepeat'
  BY <1>5 DEF Once, NoRepeat, Tracked
<1>7. buffered' \in [Objects -> BOOLEAN] /\ {x \in Objects : buffered'[x]} = ToSet(b)
  BY <1>2, <1>3, <1>4
<1>8. \A u \in Pending' : u[1] = "root" /\ u[2] \in ToSet(a) /\ u[3] = 0
  BY <1>5
<1>9. \A x \in Objects : colour'[x] # "grey" /\ (colour'[x] = "white" => rc'[x] = 0)
                         /\ (mem'[x] = "none" => colour'[x] = "black")
  BY DEF Headers
<1>10. CollectorTypeOK'
  BY <1>3, <1>4, <1>5, <1>7 DEF CollectorTypeOK, Headers, Shape
<1>11. Places' = PlacesIn(mem', colour', kid', lists')
  <2>1. \A z \in Objects, g \in FieldNames : Counted(z, g)' <=> mem'[z] = "alive" /\ colour'[z] \in {"black", "purple"}
    BY <1>8, <1>9 DEF Counted, Alive
  <2> QED BY <2>1 DEF Places, PlacesIn, Slots, SlotsIn, Held, HeldIn
<1>12. Fits'
  BY <1>4, <1>8 DEF Fits
<1>13. ColoursOK'
  <2>1. ASSUME NEW z \in Objects, mem'[z] = "alive", colour'[z] = "purple"
        PROVE  buffered'[z] \/ <<"root", z, 0>> \in Pending'
    BY <1>2, <1>4, <1>5, <2>1
  <2> QED BY <1>9, <2>1 DEF ColoursOK, Alive
<1>14. SourcesOK'
  <2>1. ASSUME NEW u \in Pending' PROVE u[1] = "root" /\ mem'[u[2]] = "alive" /\ ~buffered'[u[2]]
    <3>1. u[1] = "root" /\ u[2] \in ToSet(a) /\ u[2] \in Objects
      BY <1>3, <1>8 DEF ToSet
    <3> QED BY <1>2, <1>3, <1>4, <3>1
  <2> QED BY <2>1 DEF SourcesOK, Alive
<1>15. ToSet(live') = {}
  BY <1>4, EmptyStack
<1>16. RootsOK' /\ GreyOK' /\ ScanOK'
  BY <1>4, <1>15 DEF RootsOK, GreyOK, ScanOK
<1>17. OldOK'
  <2>1. PICK Old : Old = {x \in Objects : colour'[x] = "white"}
    OBVIOUS
  <2>2. ASSUME NEW z \in Objects \ Old, mem'[z] = "alive", NEW k \in Kids(z)'
        PROVE  k \notin Old /\ mem'[k] = "alive"
    <3>1. PICK g \in FieldNames : k = kid'[z][g] /\ k # Nil
      BY DEF Kids
    <3>2. /\ kid'[z][g] \in Objects /\ mem'[kid'[z][g]] = "alive"
          /\ colour'[kid'[z][g]] \in {"black", "purple"} /\ rc'[kid'[z][g]] > 0
      BY <2>1, <2>2, <3>1, RestingCounts
    <3> QED BY <2>1, <3>1, <3>2
  <2>3. Apart(Old)'
    BY <1>4, <1>15, <2>1, <2>2 DEF Apart, Sound, Alive
  <2> QED BY <2>1, <2>3 DEF OldOK
<1>18. BufferIsExact' /\ FreedOnce'
  BY <1>2, <1>3, <1>4, <1>7 DEF BufferIsExact, FreedOnce
<1> QED BY <1>6, <1>10, <1>11, <1>12, <1>13, <1>14, <1>16, <1>17, <1>18 DEF CollectorInv

LEMMA ReleaseKeeps ==
  ASSUME CollectorInv, Idle, NEW m, NEW counts \in [Objects -> Nat], NEW x \in Objects,
         Release(m, counts, x), counts[x] > 0, m[x] = "alive", mem[x] = "alive",
         colour[x] \in {"black", "purple"},
         Headers(m, counts, colour), Candidates(m, colour, buffered, cand), Shape(kid', lists', dying'),
         Covered(m, [counts EXCEPT ![x] = counts[x] - 1], PlacesIn(m, colour, kid', lists')),
         store' = <<>>
  PROVE  CollectorInv'
<1>1. walk = <<>> /\ live = <<>> /\ Len(cand) < Theta /\ again = {} /\ phase = "idle"
  BY IdleRests DEF Idle
<1>2. rc' = [counts EXCEPT ![x] = counts[x] - 1] /\ ReleaseObject(m, counts, x)
  BY CollectorAssumption DEF Release, ReleaseObject
<1>3. /\ colour \in [Objects -> Colours] /\ m \in [Objects -> MemStates] /\ counts[x] \in Nat
      /\ buffered \in [Objects -> BOOLEAN] /\ cand \in Seq(Objects)
  BY DEF Headers, Covered, Candidates
<1>4. rc'[x] = counts[x] - 1 /\ \A z \in Objects \ {x} : rc'[z] = counts[z]
  BY <1>2, <1>3
<1>5. Headers(m, rc', colour)
  BY <1>4 DEF Headers
<1>6. Covered(m, rc', PlacesIn(m, colour, kid', lists'))
  BY <1>2
<1>7. CASE counts[x] = 1 /\ buffered[x]
  <2>1. /\ colour' = [colour EXCEPT ![x] = "black"] /\ mem' = m
        /\ UNCHANGED <<again, buffered, cand, phase, live, walk>>
    BY <1>2, <1>7 DEF ReleaseObject, collection
  <2>2. PlacesIn(m, colour', kid', lists') = PlacesIn(m, colour, kid', lists')
    <3>1. \A z \in Objects : colour'[z] \in {"black", "purple"} <=> colour[z] \in {"black", "purple"}
      BY <1>3, <2>1
    <3> QED BY <3>1 DEF PlacesIn, HeldIn
  <2>3. Headers(m, rc', colour')
    BY <1>5, <2>1 DEF Headers, Colours
  <2>4. Candidates(m, colour', buffered, cand)
    BY <1>3, <2>1 DEF Candidates
  <2>5. Resting'
    BY <1>6, <2>1, <2>2, <2>3, <2>4 DEF Resting, AtRest
  <2> QED BY <1>1, <2>1, <2>5, RestIsIdle DEF Idle
<1>8. CASE counts[x] = 1 /\ ~buffered[x]
  <2>1. /\ mem' = [m EXCEPT ![x] = "freed"] /\ again' = again \cup ({x} \cap Freed)
        /\ UNCHANGED <<colour, buffered, cand, phase, live, walk>>
    BY <1>2, <1>8 DEF ReleaseObject, FreeObject, collection
  <2>2. again' = {}
    BY <1>1, <2>1 DEF Freed
  <2>3. rc'[x] = 0
    BY <1>4, <1>8
  <2>4. Covered(mem', rc', PlacesIn(m, colour, kid', lists'))
    BY <1>6, <2>1, <2>3, CoveredFree
  <2>5. \A z \in Objects : PlacesIn(mem', colour', kid', lists')[z] \subseteq PlacesIn(m, colour, kid', lists')[z]
    <3>1. \A z \in Objects : mem'[z] = "alive" => m[z] = "alive"
      BY <1>3, <2>1
    <3> QED BY <2>1, <3>1 DEF PlacesIn, HeldIn
  <2>6. rc' \in [Objects -> Nat] /\ \A z \in Objects : rc'[z] >= rc'[z]
    BY <1>6 DEF Covered
  <2>7. Covered(mem', rc', PlacesIn(mem', colour', kid', lists'))
    BY ONLY <2>4, <2>5, <2>6, PlacesInTyped, CoveredLess
  <2>8. Headers(mem', rc', colour')
    BY <1>3, <1>5, <2>1 DEF Headers
  <2>9. Candidates(mem', colour', buffered', cand')
    <3>1. x \notin ToSet(cand)
      BY <1>8 DEF Candidates
    <3>2. \A z \in ToSet(cand) : z \in Objects /\ m[z] = "alive"
      BY <1>3 DEF Candidates, ToSet
    <3>3. \A z \in Objects : mem'[z] = "alive" => m[z] = "alive"
      BY <1>3, <2>1
    <3>4. \A z \in ToSet(cand) : mem'[z] = "alive"
      BY <1>3, <2>1, <3>1, <3>2
    <3> QED BY <2>1, <3>3, <3>4 DEF Candidates
  <2>10. Resting'
    BY <2>7, <2>8, <2>9 DEF Resting, AtRest
  <2> QED BY <1>1, <2>1, <2>2, <2>10, RestIsIdle DEF Idle
<1>9. CASE counts[x] # 1 /\ buffered[x]
  <2>1. mem' = m /\ UNCHANGED <<again, colour, buffered, cand, phase, live, walk>>
    BY <1>2, <1>9 DEF ReleaseObject, collection
  <2>2. Resting'
    BY <1>5, <1>6, <2>1 DEF Resting, AtRest
  <2> QED BY <1>1, <2>1, <2>2, RestIsIdle DEF Idle
<1>10. CASE counts[x] # 1 /\ ~buffered[x]
  <2>1. Buffer(x) /\ mem' = m /\ again' = again
    BY <1>2, <1>10 DEF ReleaseObject
  <2>2. PICK cands, flags : cands = Append(cand, x) /\ flags = [buffered EXCEPT ![x] = TRUE]
    OBVIOUS
  <2>3. colour' = [colour EXCEPT ![x] = "purple"]
    BY <2>1 DEF Buffer
  <2>4. PlacesIn(m, colour', kid', lists') = PlacesIn(m, colour, kid', lists')
    <3>1. \A z \in Objects : colour'[z] \in {"black", "purple"} <=> colour[z] \in {"black", "purple"}
      BY <1>3, <2>3
    <3> QED BY <3>1 DEF PlacesIn, HeldIn
  <2>5. Headers(m, rc', colour')
    BY <1>5, <2>3 DEF Headers, Colours
  <2>6. /\ cands \in Seq(Objects) /\ Len(cands) = Len(cand) + 1 /\ Len(cand) \in Nat
        /\ ToSet(cands) = ToSet(cand) \cup {x}
        /\ IsInjective(cand) /\ x \notin ToSet(cand) => IsInjective(cands)
    BY <1>3, <2>2, AppendSet
  <2>7. Candidates(m, colour', flags, cands)
    <3>1. x \notin ToSet(cand) /\ IsInjective(cand)
      BY <1>10 DEF Candidates
    <3>2. flags \in [Objects -> BOOLEAN] /\ \A z \in Objects : flags[z] <=> buffered[z] \/ z = x
      BY <1>3, <2>2
    <3>3. {z \in Objects : flags[z]} = ToSet(cands)
      BY <2>6, <3>2 DEF Candidates
    <3>4. \A z \in Objects : m[z] = "alive" /\ colour'[z] = "purple" => flags[z]
      BY <1>3, <2>3, <3>2 DEF Candidates
    <3>5. \A z \in ToSet(cands) : m[z] = "alive"
      BY <2>6 DEF Candidates
    <3> QED BY <2>6, <3>1, <3>2, <3>3, <3>4, <3>5 DEF Candidates
  <2>8. CASE Len(cands) >= Theta
    <3>1. PICK take : take = IF Len(cands) < KRoots THEN Len(cands) ELSE KRoots
      OBVIOUS
    <3>2. Collect(cands, flags, take)
      BY <2>1, <2>2, <2>8, <3>1 DEF Buffer
    <3>3. take \in Nat /\ take <= Len(cands) /\ Len(cands) - take < Theta
      <4>1. KRoots \in Nat /\ KRoots > 0 /\ Theta \in Nat /\ Theta > 0
        BY CollectorAssumption
      <4>2. Len(cands) \in Nat /\ Len(cands) > 0 /\ Len(cands) <= Theta
        BY <1>1, <2>6, <4>1
      <4> QED BY ONLY <3>1, <4>1, <4>2
    <3>4. Covered(mem', rc', PlacesIn(mem', colour', kid', lists')) /\ Headers(mem', rc', colour')
          /\ Candidates(mem', colour', flags, cands) /\ again' = {}
      BY <1>1, <1>6, <2>1, <2>4, <2>5, <2>7
    <3> QED BY <1>1, <3>2, <3>3, <3>4, CollectStarts
  <2>9. CASE ~(Len(cands) >= Theta)
    <3>1. cand' = cands /\ buffered' = flags /\ UNCHANGED <<phase, live, walk>>
      BY <2>1, <2>2, <2>9 DEF Buffer, collection
    <3>2. Resting'
      BY <1>6, <2>1, <2>4, <2>5, <2>7, <3>1 DEF Resting, AtRest
    <3>3. Len(cand') < Theta
      BY <2>6, <2>9, <3>1, CollectorAssumption
    <3> QED BY <1>1, <2>1, <3>1, <3>2, <3>3, RestIsIdle DEF Idle
  <2> QED BY <2>8, <2>9
<1> QED BY <1>7, <1>8, <1>9, <1>10

----------------------------------------------------------------------------
(***************************************************************************)
(* What the program does                                                   *)
(***************************************************************************)
LEMMA ElementIsHeld ==
  ASSUME NEW k, NEW ls, NEW d, Shape(k, ls, d), NEW l \in Lists, NEW x \in ToSet(ls[l])
  PROVE  x \in Objects /\ SlotsIn(ls, x) # {}
<1>1. ls[l] \in Seq(Objects) /\ Len(ls[l]) <= MaxLen /\ Len(ls[l]) \in Nat /\ DOMAIN ls[l] = 1 .. Len(ls[l])
  BY DEF Shape
<1>2. PICK i \in 1 .. Len(ls[l]) : x = ls[l][i]
  BY <1>1 DEF ToSet
<1>3. i \in 1 .. MaxLen
  BY <1>1, CollectorAssumption
<1>4. <<l, i>> \in SlotsIn(ls, x)
  BY <1>2, <1>3 DEF SlotsIn
<1> QED BY <1>1, <1>2, <1>4

\* Between two collections the program holds only what is alive and neither
\* grey nor white.
LEMMA ReachableRests ==
  ASSUME CollectorInv, Idle
  PROVE  /\ Reachable \subseteq Objects
         /\ \A x \in Reachable : mem[x] = "alive" /\ colour[x] \in {"black", "purple"}
         /\ Elements \subseteq Reachable
<1>1. /\ Headers(mem, rc, colour) /\ Shape(kid, lists, dying)
      /\ Covered(mem, rc, PlacesIn(mem, colour, kid, lists)) /\ store = <<>>
  BY IdleRests DEF Resting, AtRest
<1>2. PICK T : T = {x \in Objects : mem[x] = "alive" /\ colour[x] \in {"black", "purple"}}
  OBVIOUS
<1>3. ASSUME NEW l \in Lists, NEW x \in ToSet(lists[l]) PROVE x \in T
  <2>1. x \in Objects /\ SlotsIn(lists, x) # {}
    BY <1>1, ElementIsHeld
  <2>2. PICK p \in PlacesIn(mem, colour, kid, lists)[x] : TRUE
    BY <2>1 DEF PlacesIn
  <2>3. mem[x] = "alive" /\ rc[x] > 0 /\ rc[x] \in Nat
    BY <1>1, <2>1, <2>2, HeldIsCounted
  <2> QED BY <1>1, <1>2, <2>1, <2>3 DEF Headers, Colours
<1>4. Elements \subseteq T
  BY <1>3 DEF Elements
<1>5. ASSUME NEW z \in T, NEW g \in FieldNames PROVE Stored[z][g] \in T \cup {Nil}
  <2>1. CASE kid[z][g] # Nil
    <3>1. z \in Objects /\ mem[z] = "alive" /\ colour[z] # "white"
      BY <1>2
    <3>2. kid[z][g] \in Objects /\ mem[kid[z][g]] = "alive" /\ colour[kid[z][g]] \in {"black", "purple"}
      BY <1>1, <2>1, <3>1, RestingCounts
    <3> QED BY <1>1, <1>2, <3>2 DEF Stored
  <2> QED BY <1>1, <2>1 DEF Stored
<1>6. Reachable \subseteq T
  BY <1>2, <1>4, <1>5 DEF Reachable, Closure
<1>7. Elements \subseteq Reachable
  BY <1>2, <1>4 DEF Reachable, Closure
<1> QED BY <1>2, <1>6, <1>7

Appended(k, ls, d, l, x, ls2) ==
    /\ Shape(k, ls2, d)
    /\ SlotsIn(ls2, x) \subseteq SlotsIn(ls, x) \cup {<<l, Len(ls[l]) + 1>>}
    /\ \A z \in Objects \ {x} : SlotsIn(ls2, z) \subseteq SlotsIn(ls, z)

LEMMA AppendSlots ==
  ASSUME NEW k, NEW ls, NEW d, Shape(k, ls, d), NEW l \in Lists, Len(ls[l]) < MaxLen, NEW x \in Objects,
         NEW ls2, ls2 = [ls EXCEPT ![l] = Append(ls[l], x)]
  PROVE  Appended(k, ls, d, l, x, ls2)
<1>1. ls[l] \in Seq(Objects) /\ ls \in [Lists -> Seq(Objects)]
  BY DEF Shape
<1>2. PICK s, t, n : s = ls[l] /\ t = Append(s, x) /\ n = Len(s)
  OBVIOUS
<1>3. /\ t \in Seq(Objects) /\ Len(t) = n + 1 /\ n \in Nat
      /\ (\A i \in 1 .. n : t[i] = s[i]) /\ t[n + 1] = x
  BY <1>1, <1>2, AppendSet
<1>4. ls2 \in [Lists -> Seq(Objects)] /\ ls2[l] = t /\ \A a \in Lists \ {l} : ls2[a] = ls[a]
  BY <1>1, <1>2, <1>3
<1>5. n + 1 <= MaxLen /\ t # <<>>
  BY <1>2, <1>3, CollectorAssumption
<1>6. Shape(k, ls2, d)
  <2>1. \A a \in Lists : Len(ls2[a]) <= MaxLen
    BY <1>3, <1>4, <1>5 DEF Shape
  <2>2. d # Nil => ls2[d] # <<>>
    BY <1>4, <1>5 DEF Shape
  <2> QED BY <1>4, <2>1, <2>2 DEF Shape
<1>7. ASSUME NEW z \in Objects, NEW p \in SlotsIn(ls2, z)
      PROVE  p \in SlotsIn(ls, z) \/ (z = x /\ p = <<l, n + 1>>)
  <2>1. PICK a \in Lists, i \in 1 .. MaxLen : p = <<a, i>> /\ i <= Len(ls2[a]) /\ ls2[a][i] = z
    BY DEF SlotsIn
  <2>2. CASE a # l
    BY <1>4, <2>1, <2>2 DEF SlotsIn
  <2>3. CASE a = l /\ i <= n
    <3>1. i \in 1 .. n
      BY <1>3, <2>3
    <3> QED BY <1>2, <1>3, <1>4, <2>1, <2>3, <3>1 DEF SlotsIn
  <2>4. CASE a = l /\ ~(i <= n)
    <3>1. i = n + 1
      BY <1>3, <1>4, <2>1, <2>4
    <3> QED BY <1>3, <1>4, <2>1, <2>4, <3>1
  <2> QED BY <2>2, <2>3, <2>4
<1> QED BY <1>2, <1>6, <1>7 DEF Appended

Shortened(k, ls, l, ls2, d2) ==
    /\ Shape(k, ls2, d2) /\ Last(ls[l]) \in Objects
    /\ <<l, Len(ls[l])>> \in SlotsIn(ls, Last(ls[l]))
    /\ \A z \in Objects : SlotsIn(ls2, z) \subseteq SlotsIn(ls, z) \ {<<l, Len(ls[l])>>}

LEMMA FrontSlots ==
  ASSUME NEW k, NEW ls, NEW l \in Lists, Shape(k, ls, l), l # Nil,
         NEW ls2, ls2 = [ls EXCEPT ![l] = Front(ls[l])],
         NEW d2, d2 = IF Len(ls[l]) = 1 THEN Nil ELSE l
  PROVE  Shortened(k, ls, l, ls2, d2)
<1>1. ls[l] \in Seq(Objects) /\ ls \in [Lists -> Seq(Objects)] /\ ls[l] # <<>> /\ Len(ls[l]) <= MaxLen
  BY DEF Shape
<1>2. PICK s, t, n : s = ls[l] /\ t = Front(s) /\ n = Len(s)
  OBVIOUS
<1>3. n \in Nat /\ n > 0 /\ n <= MaxLen /\ n \in 1 .. MaxLen /\ s \in Seq(Objects) /\ s[n] \in Objects
  BY <1>1, <1>2, CollectorAssumption
<1>4. t \in Seq(Objects) /\ Len(t) = n - 1 /\ \A i \in 1 .. (n - 1) : t[i] = s[i]
  <2>1. \A i \in 1 .. (n - 1) : s[i] \in Objects
    BY <1>2, <1>3
  <2>2. n - 1 \in Int /\ 1 \in Int
    BY <1>3
  <2>3. /\ SubSeq(s, 1, n - 1) \in Seq(Objects)
        /\ Len(SubSeq(s, 1, n - 1)) = (IF 1 <= n - 1 THEN (n - 1) - 1 + 1 ELSE 0)
        /\ \A i \in 1 .. ((n - 1) - 1 + 1) : SubSeq(s, 1, n - 1)[i] = s[1 + i - 1]
    BY <2>1, <2>2, SubSeqProperties
  <2>4. (IF 1 <= n - 1 THEN (n - 1) - 1 + 1 ELSE 0) = n - 1 /\ (n - 1) - 1 + 1 = n - 1
    BY <1>3
  <2>5. \A i \in 1 .. (n - 1) : 1 + i - 1 = i
    BY <1>3
  <2> QED BY <1>2, <2>3, <2>4, <2>5 DEF Front
<1>5. ls2 \in [Lists -> Seq(Objects)] /\ ls2[l] = t /\ \A a \in Lists \ {l} : ls2[a] = ls[a]
  BY <1>1, <1>2, <1>4
<1>6. Shape(k, ls2, d2)
  <2>0. n - 1 <= MaxLen /\ Len(ls2[l]) = n - 1
    BY <1>3, <1>4, <1>5, CollectorAssumption
  <2>1. \A a \in Lists : Len(ls2[a]) <= MaxLen
    BY <1>5, <2>0 DEF Shape
  <2>2. d2 # Nil => t # <<>> /\ d2 = l
    <3>1. Len(<<>>) = 0
      OBVIOUS
    <3>2. n # 1 => n - 1 # 0
      BY <1>3
    <3> QED BY <1>2, <1>4, <3>1, <3>2
  <2> QED BY <1>5, <2>1, <2>2 DEF Shape
<1>7. ASSUME NEW z \in Objects, NEW p \in SlotsIn(ls2, z)
      PROVE  p \in SlotsIn(ls, z) /\ p # <<l, n>>
  <2>1. PICK a \in Lists, i \in 1 .. MaxLen : p = <<a, i>> /\ i <= Len(ls2[a]) /\ ls2[a][i] = z
    BY DEF SlotsIn
  <2>2. CASE a # l
    BY <1>5, <2>1, <2>2 DEF SlotsIn
  <2>3. CASE a = l
    <3>1. i \in 1 .. (n - 1) /\ i <= n /\ i # n
      BY <1>3, <1>4, <1>5, <2>1, <2>3
    <3> QED BY <1>2, <1>4, <1>5, <2>1, <2>3, <3>1 DEF SlotsIn
  <2> QED BY <2>2, <2>3
<1>8. Last(s) = s[n]
  BY <1>2 DEF Last
<1>9. <<l, n>> \in SlotsIn(ls, s[n])
  BY <1>2, <1>3 DEF SlotsIn
<1> QED BY <1>2, <1>3, <1>6, <1>7, <1>8, <1>9 DEF Shortened

LEMMA PushKeeps ==
  ASSUME CollectorInv, NEW l \in Lists, NEW x \in Reachable, Push(l, x)
  PROVE  CollectorInv'
<1>1. /\ Idle /\ Len(lists[l]) < MaxLen /\ rc' = Retain(rc, x)
      /\ lists' = [lists EXCEPT ![l] = Append(lists[l], x)]
      /\ UNCHANGED <<mem, colour, buffered, cand, phase, live, walk, kid, store, dying, again>>
  BY DEF Push, Running, collection, history
<1>2. /\ Headers(mem, rc, colour) /\ Shape(kid, lists, dying) /\ Candidates(mem, colour, buffered, cand)
      /\ Covered(mem, rc, PlacesIn(mem, colour, kid, lists))
      /\ walk = <<>> /\ live = <<>> /\ Len(cand) < Theta /\ store = <<>> /\ again = {}
  BY <1>1, IdleRests DEF Resting, AtRest
<1>3. x \in Objects /\ mem[x] = "alive" /\ colour[x] # "white"
  BY <1>1, ReachableRests
<1>4. rc' = [rc EXCEPT ![x] = rc[x] + 1] /\ rc \in [Objects -> Nat]
  BY <1>1, <1>2, <1>3, CollectorAssumption DEF Retain, Covered
<1>5. /\ Shape(kid', lists', dying')
      /\ SlotsIn(lists', x) \subseteq SlotsIn(lists, x) \cup {<<l, Len(lists[l]) + 1>>}
      /\ \A z \in Objects \ {x} : SlotsIn(lists', z) \subseteq SlotsIn(lists, z)
  <2>1. Appended(kid, lists, dying, l, x, lists')
    BY ONLY <1>1, <1>2, <1>3, l \in Lists, AppendSlots
  <2> QED BY <1>1, <2>1 DEF Appended
<1>6. PICK P, P2 : P = PlacesIn(mem, colour, kid, lists) /\ P2 = PlacesIn(mem, colour, kid, lists')
  OBVIOUS
<1>7. /\ P2[x] \subseteq P[x] \cup {<<l, Len(lists[l]) + 1>>} /\ \A z \in Objects \ {x} : P2[z] \subseteq P[z]
      /\ P2 \in [Objects -> SUBSET AllPlaces] /\ Covered(mem, rc, P)
  <2>1. P2 \in [Objects -> SUBSET AllPlaces] /\ Covered(mem, rc, P)
    BY <1>2, <1>6, PlacesInTyped
  <2> QED BY <1>3, <1>5, <1>6, <2>1 DEF PlacesIn
<1>8. Covered(mem, rc', P2)
  BY ONLY <1>3, <1>4, <1>7, CoveredRetain
<1>9. Headers(mem', rc', colour')
  BY <1>1, <1>2, <1>3, <1>4 DEF Headers
<1>10. Resting'
  BY <1>1, <1>2, <1>5, <1>6, <1>8, <1>9 DEF Resting, AtRest
<1> QED BY <1>1, <1>2, <1>10, RestIsIdle DEF Idle

LEMMA StaysIdle ==
  ASSUME CollectorInv, Idle, UNCHANGED <<mem, rc, colour, buffered, cand, phase, live, walk, store, again>>,
         UNCHANGED <<kid, lists>>, Shape(kid, lists, dying')
  PROVE  CollectorInv'
<1>1. /\ Resting /\ walk = <<>> /\ live = <<>> /\ Len(cand) < Theta /\ store = <<>> /\ again = {}
  BY IdleRests
<1>2. Resting'
  BY <1>1 DEF Resting, AtRest
<1> QED BY <1>1, <1>2, RestIsIdle DEF Idle

LEMMA BeginReleaseKeeps ==
  ASSUME CollectorInv, NEW l \in Lists, BeginRelease(l)
  PROVE  CollectorInv'
<1>1. /\ Idle /\ lists[l] # <<>> /\ dying' = l
      /\ UNCHANGED <<mem, rc, colour, buffered, cand, phase, live, walk, store, again>> /\ UNCHANGED <<kid, lists>>
  BY DEF BeginRelease, Running, headers, collection, history
<1>2. Shape(kid, lists, dying')
  BY <1>1, IdleRests DEF Resting, AtRest, Shape
<1> QED BY <1>1, <1>2, StaysIdle

LEMMA FinalKeeps ==
  ASSUME CollectorInv, Final
  PROVE  CollectorInv'
<1>1. /\ Idle /\ dying' = dying
      /\ UNCHANGED <<mem, rc, colour, buffered, cand, phase, live, walk, store, again>> /\ UNCHANGED <<kid, lists>>
  BY DEF Final, Running, headers, collection, history
<1>2. Shape(kid, lists, dying')
  BY <1>1, IdleRests DEF Resting, AtRest
<1> QED BY <1>1, <1>2, StaysIdle

LEMMA CollectNowKeeps ==
  ASSUME CollectorInv, CollectNow
  PROVE  CollectorInv'
<1>1. /\ Idle /\ Collect(cand, buffered, Len(cand))
      /\ UNCHANGED <<mem, rc, colour, kid, store, lists, dying, again>>
  BY DEF CollectNow, Running, program, history
<1>2. /\ Headers(mem, rc, colour) /\ Shape(kid, lists, dying) /\ Candidates(mem, colour, buffered, cand)
      /\ Covered(mem, rc, PlacesIn(mem, colour, kid, lists))
      /\ live = <<>> /\ store = <<>> /\ again = {}
  BY <1>1, IdleRests DEF Resting, AtRest
<1>3. PICK cands, flags, take : cands = cand /\ flags = buffered /\ take = Len(cand)
  OBVIOUS
<1>4. take \in Nat /\ take <= Len(cands) /\ Len(cands) - take < Theta
  BY <1>2, <1>3, CollectorAssumption DEF Candidates
<1> QED BY <1>1, <1>2, <1>3, <1>4, CollectStarts

LEMMA ReleaseLastKeeps ==
  ASSUME CollectorInv, ReleaseLast
  PROVE  CollectorInv'
<1>1. /\ Idle /\ dying # Nil /\ Release(mem, rc, Last(lists[dying]))
      /\ lists' = [lists EXCEPT ![dying] = Front(lists[dying])]
      /\ dying' = IF Len(lists[dying]) = 1 THEN Nil ELSE dying
      /\ UNCHANGED <<kid, store>>
  BY DEF ReleaseLast
<1>2. /\ Headers(mem, rc, colour) /\ Shape(kid, lists, dying) /\ Candidates(mem, colour, buffered, cand)
      /\ Covered(mem, rc, PlacesIn(mem, colour, kid, lists)) /\ store = <<>>
  BY <1>1, IdleRests DEF Resting, AtRest
<1>3. PICK l, x, n : l = dying /\ x = Last(lists[l]) /\ n = Len(lists[l])
  OBVIOUS
<1>4. l \in Lists
  BY <1>1, <1>2, <1>3 DEF Shape
<1>5. /\ Shape(kid, lists', dying') /\ x \in Objects /\ <<l, n>> \in SlotsIn(lists, x)
      /\ \A z \in Objects : SlotsIn(lists', z) \subseteq SlotsIn(lists, z) \ {<<l, n>>}
  <2>1. Shortened(kid, lists, l, lists', dying')
    BY <1>1, <1>2, <1>3, <1>4, FrontSlots
  <2> QED BY <1>3, <2>1 DEF Shortened
<1>6. PICK P, P2 : P = PlacesIn(mem, colour, kid, lists) /\ P2 = PlacesIn(mem, colour, kid', lists')
  OBVIOUS
<1>7. /\ <<l, n>> \in P[x] /\ P2[x] \subseteq P[x] \ {<<l, n>>} /\ \A z \in Objects \ {x} : P2[z] \subseteq P[z]
      /\ P2 \in [Objects -> SUBSET AllPlaces] /\ Covered(mem, rc, P)
  <2>1. P2 \in [Objects -> SUBSET AllPlaces] /\ Covered(mem, rc, P)
    BY <1>2, <1>6, PlacesInTyped
  <2>2. <<l, n>> \notin HeldIn(mem, colour, kid, x)
    BY <1>4, CollectorAssumption DEF HeldIn
  <2> QED BY <1>1, <1>5, <1>6, <2>1, <2>2 DEF PlacesIn
<1>8. mem[x] = "alive" /\ rc[x] \in Nat /\ rc[x] > 0
  BY ONLY <1>5, <1>7, HeldIsCounted
<1>9. PICK r2 : r2 = [rc EXCEPT ![x] = rc[x] - 1]
  OBVIOUS
<1>10. Covered(mem, r2, P2)
  BY ONLY <1>5, <1>7, <1>9, CoveredRelease
<1>11. colour[x] \in {"black", "purple"} /\ rc \in [Objects -> Nat]
  BY <1>2, <1>5, <1>8 DEF Headers, Covered, Colours
<1>12. Covered(mem, [rc EXCEPT ![x] = rc[x] - 1], PlacesIn(mem, colour, kid', lists'))
  BY <1>6, <1>9, <1>10
<1> QED BY <1>1, <1>2, <1>3, <1>5, <1>8, <1>11, <1>12, ReleaseKeeps

\* A literal: the object is there, its fields are paid for, and it has no
\* place yet.
Born(y, m2, k2, r1) ==
    /\ Headers(m2, Retain(r1, y), colour) /\ Candidates(m2, colour, buffered, cand)
    /\ k2 \in [Objects -> [FieldNames -> Objects \cup {Nil}]]
    /\ Covered(m2, r1, PlacesIn(m2, colour, k2, lists))
    /\ Retain(r1, y) = [r1 EXCEPT ![y] = r1[y] + 1]

LEMMA LiteralIsBorn ==
  ASSUME CollectorInv, Idle, NEW y \in Objects, mem[y] = "none",
         NEW ys \in [FieldNames -> Reachable \cup {Nil}],
         NEW m2, m2 = [mem EXCEPT ![y] = "alive"], NEW k2, k2 = [kid EXCEPT ![y] = ys],
         NEW r1, r1 = RetainAll(ys)
  PROVE  Born(y, m2, k2, r1)
<1>1. /\ Headers(mem, rc, colour) /\ Shape(kid, lists, dying) /\ Candidates(mem, colour, buffered, cand)
      /\ Covered(mem, rc, PlacesIn(mem, colour, kid, lists))
  BY IdleRests DEF Resting, AtRest
<1>2. /\ Reachable \subseteq Objects
      /\ \A x \in Reachable : mem[x] = "alive" /\ colour[x] \in {"black", "purple"}
  BY ReachableRests
<1>3. /\ mem \in [Objects -> MemStates] /\ rc \in [Objects -> Nat] /\ colour \in [Objects -> Colours]
      /\ kid \in [Objects -> [FieldNames -> Objects \cup {Nil}]]
  BY <1>1 DEF Covered, Headers, Shape
<1>4. /\ ys \in [FieldNames -> Objects \cup {Nil}] /\ \A f \in FieldNames : ys[f] # Nil => mem[ys[f]] = "alive"
      /\ \A f \in FieldNames : ys[f] # Nil => colour[ys[f]] # "white"
  BY <1>2
<1>5. k2 \in [Objects -> [FieldNames -> Objects \cup {Nil}]] /\ k2[y] = ys /\ \A a \in Objects \ {y} : k2[a] = kid[a]
  BY <1>3, <1>4
<1>6. m2[y] = "alive" /\ \A a \in Objects \ {y} : m2[a] = mem[a]
  BY <1>3
<1>7. PICK P, P1 : P = PlacesIn(mem, colour, kid, lists) /\ P1 = PlacesIn(m2, colour, k2, lists)
  OBVIOUS
<1>8. Covered(mem, rc, P) /\ P1 \in [Objects -> SUBSET AllPlaces]
  BY <1>1, <1>7, PlacesInTyped
<1>9. ASSUME NEW z \in Objects
      PROVE  P1[z] \subseteq P[z] \cup {<<y, f>> : f \in {g \in FieldNames : ys[g] = z}}
  <2>1. ASSUME NEW p \in HeldIn(m2, colour, k2, z)
        PROVE  p \in HeldIn(mem, colour, kid, z) \/ p \in {<<y, f>> : f \in {g \in FieldNames : ys[g] = z}}
    <3>1. PICK a \in Objects, g \in FieldNames :
             p = <<a, g>> /\ k2[a][g] = z /\ m2[a] = "alive" /\ colour[a] \in {"black", "purple"}
      BY DEF HeldIn
    <3>2. CASE a = y
      BY <1>5, <3>1, <3>2
    <3>3. CASE a # y
      BY <1>5, <1>6, <3>1, <3>3 DEF HeldIn
    <3> QED BY <3>2, <3>3
  <2> QED BY <1>7, <2>1 DEF PlacesIn
<1>10. r1 = [x \in Objects |-> rc[x] + Cardinality({f \in FieldNames : ys[f] = x})]
  BY DEF RetainAll
<1>11. Covered(m2, r1, P1)
  <2>1. mem[y] # "alive"
    OBVIOUS
  <2>2. \A z \in Objects : P1[z] \subseteq P[z] \cup {<<y, f>> : f \in {g \in FieldNames : ys[g] = z}}
    BY <1>9
  <2>3. Covered([mem EXCEPT ![y] = "alive"], r1, P1)
    BY ONLY <1>4, <1>8, <1>10, <2>1, <2>2, y \in Objects, CoveredLiteral
  <2> QED BY <2>3
<1>12. Retain(r1, y) = [r1 EXCEPT ![y] = r1[y] + 1] /\ r1 \in [Objects -> Nat]
  BY <1>11, CollectorAssumption DEF Retain, Covered
<1>13. Headers(m2, Retain(r1, y), colour)
  <2>1. colour[y] = "black"
    BY <1>1 DEF Headers
  <2>2. ASSUME NEW z \in Objects, colour[z] = "white" PROVE Retain(r1, y)[z] = 0
    <3>1. z # y /\ rc[z] = 0
      BY <1>1, <2>1, <2>2 DEF Headers
    <3>2. {f \in FieldNames : ys[f] = z} = {}
      BY <1>4, <2>2, CollectorAssumption
    <3>3. Cardinality({f \in FieldNames : ys[f] = z}) = 0
      BY <3>2, FS_EmptySet
    <3>4. r1[z] = rc[z] + Cardinality({f \in FieldNames : ys[f] = z})
      BY <1>10
    <3>5. r1[z] = 0
      BY ONLY <3>1, <3>3, <3>4
    <3> QED BY <1>12, <3>1, <3>5
  <2>3. \A z \in Objects : m2[z] = "none" => colour[z] = "black"
    BY <1>1, <1>6 DEF Headers
  <2> QED BY <1>1, <2>2, <2>3 DEF Headers
<1>14. Candidates(m2, colour, buffered, cand)
  <2>1. colour[y] = "black"
    BY <1>1 DEF Headers
  <2>2. \A z \in ToSet(cand) : z \in Objects /\ mem[z] = "alive"
    BY <1>1 DEF Candidates, ToSet
  <2>3. \A z \in ToSet(cand) : m2[z] = "alive"
    BY <1>6, <2>2
  <2>4. \A z \in Objects : m2[z] = "alive" /\ colour[z] = "purple" => buffered[z]
    BY <1>1, <1>6, <2>1 DEF Candidates
  <2> QED BY <1>1, <2>3, <2>4 DEF Candidates
<1> QED BY <1>5, <1>7, <1>11, <1>12, <1>13, <1>14 DEF Born

LEMMA NewKeeps ==
  ASSUME CollectorInv, NEW l \in Lists, NEW x \in Objects,
         NEW ys \in [FieldNames -> Reachable \cup {Nil}], New(l, x, ys)
  PROVE  CollectorInv'
<1>1. /\ Idle /\ mem[x] = "none" /\ Len(lists[l]) < MaxLen
      /\ mem' = [mem EXCEPT ![x] = "alive"] /\ rc' = Retain(RetainAll(ys), x)
      /\ kid' = [kid EXCEPT ![x] = ys] /\ lists' = [lists EXCEPT ![l] = Append(lists[l], x)]
      /\ UNCHANGED <<colour, buffered, cand, phase, live, walk, store, dying, again>>
  BY DEF New, Running, collection, history
<1>2. /\ Shape(kid, lists, dying) /\ walk = <<>> /\ live = <<>> /\ Len(cand) < Theta /\ store = <<>> /\ again = {}
      /\ mem \in [Objects -> MemStates]
  BY <1>1, IdleRests DEF Resting, AtRest, Covered
<1>3. PICK r1 : r1 = RetainAll(ys)
  OBVIOUS
<1>4. Born(x, mem', kid', r1)
  BY <1>1, <1>3, LiteralIsBorn
<1>5. /\ Headers(mem', rc', colour') /\ Candidates(mem', colour', buffered', cand')
      /\ kid' \in [Objects -> [FieldNames -> Objects \cup {Nil}]]
      /\ Covered(mem', r1, PlacesIn(mem', colour, kid', lists))
      /\ rc' = [r1 EXCEPT ![x] = r1[x] + 1]
  BY <1>1, <1>3, <1>4 DEF Born
<1>6. Appended(kid, lists, dying, l, x, lists')
  BY ONLY <1>1, <1>2, l \in Lists, x \in Objects, AppendSlots
<1>7. Shape(kid', lists', dying')
  BY <1>1, <1>5, <1>6 DEF Appended, Shape
<1>8. PICK P, P2 : P = PlacesIn(mem', colour, kid', lists) /\ P2 = PlacesIn(mem', colour', kid', lists')
  OBVIOUS
<1>9. /\ P2[x] \subseteq P[x] \cup {<<l, Len(lists[l]) + 1>>} /\ \A z \in Objects \ {x} : P2[z] \subseteq P[z]
      /\ P2 \in [Objects -> SUBSET AllPlaces] /\ Covered(mem', r1, P)
  <2>1. P2 \in [Objects -> SUBSET AllPlaces] /\ Covered(mem', r1, P)
    BY <1>5, <1>8, PlacesInTyped
  <2> QED BY <1>1, <1>6, <1>8, <2>1 DEF PlacesIn, Appended
<1>10. mem'[x] = "alive"
  BY <1>1, <1>2
<1>11. Covered(mem', rc', P2)
  BY ONLY <1>5, <1>9, <1>10, x \in Objects, CoveredRetain
<1>12. Resting'
  BY <1>5, <1>7, <1>8, <1>11 DEF Resting, AtRest
<1> QED BY <1>1, <1>2, <1>12, RestIsIdle DEF Idle

\* The counts after a field store: one more for the new value, one less for
\* the old one.
StoreCounted(m, r, c, k, ls, x, f, y, k2) ==
    /\ k[x][f] = Nil => Covered(m, Retain(r, y), PlacesIn(m, c, k2, ls))
    /\ k[x][f] # Nil =>
         /\ m[k[x][f]] = "alive" /\ r[k[x][f]] > 0 /\ Retain(r, y)[k[x][f]] > 0
         /\ Covered(m, [Retain(r, y) EXCEPT ![k[x][f]] = Retain(r, y)[k[x][f]] - 1], PlacesIn(m, c, k2, ls))

LEMMA StoreIsCounted ==
  ASSUME NEW m, NEW r, NEW c, NEW ls,
         NEW k \in [Objects -> [FieldNames -> Objects \cup {Nil}]],
         NEW x \in Objects, NEW f \in FieldNames, NEW y \in Objects \cup {Nil},
         m[x] = "alive", c[x] \in {"black", "purple"}, y # Nil => m[y] = "alive",
         Covered(m, r, PlacesIn(m, c, k, ls)),
         NEW k2, k2 = [k EXCEPT ![x][f] = y]
  PROVE  StoreCounted(m, r, c, k, ls, x, f, y, k2)
<1>1. PICK old, P, P2, counts :
         old = k[x][f] /\ P = PlacesIn(m, c, k, ls) /\ P2 = PlacesIn(m, c, k2, ls) /\ counts = Retain(r, y)
  OBVIOUS
<1>2. Covered(m, r, P) /\ P2 \in [Objects -> SUBSET AllPlaces] /\ P \in [Objects -> SUBSET AllPlaces]
      /\ r \in [Objects -> Nat] /\ old \in Objects \cup {Nil}
  BY <1>1, PlacesInTyped DEF Covered
<1>3. \A a \in Objects, g \in FieldNames : k2[a][g] = IF a = x /\ g = f THEN y ELSE k[a][g]
  OBVIOUS
<1>4. ASSUME NEW z \in Objects
      PROVE  /\ P2[z] \subseteq P[z] \cup {<<x, f>>}
             /\ z # y => <<x, f>> \notin P2[z]
  <2>1. \A g \in FieldNames : <<x, f>> \notin SlotsIn(ls, z)
    BY CollectorAssumption DEF SlotsIn
  <2>2. ASSUME NEW p \in HeldIn(m, c, k2, z)
        PROVE  p \in HeldIn(m, c, k, z) \/ p = <<x, f>>
    <3>1. PICK a \in Objects, g \in FieldNames :
             p = <<a, g>> /\ k2[a][g] = z /\ m[a] = "alive" /\ c[a] \in {"black", "purple"}
      BY DEF HeldIn
    <3> QED BY <1>3, <3>1 DEF HeldIn
  <2>3. z # y => <<x, f>> \notin HeldIn(m, c, k2, z)
    BY <1>3 DEF HeldIn
  <2> QED BY <1>1, <2>1, <2>2, <2>3 DEF PlacesIn
<1>5. old # Nil => <<x, f>> \in P[old]
  BY <1>1, <1>2 DEF PlacesIn, HeldIn
<1>6. old # Nil => m[old] = "alive" /\ r[old] \in Nat /\ r[old] > 0
  BY <1>2, <1>5, HeldIsCounted
<1>7. /\ y = Nil => counts = r
      /\ y # Nil => counts = [r EXCEPT ![y] = r[y] + 1]
  BY <1>1 DEF Retain
<1>8. ASSUME old = Nil PROVE Covered(m, counts, P2)
  <2>1. CASE y = Nil
    <3>0. \A z \in Objects : P2[z] \subseteq P[z] /\ r[z] \in Nat
      BY <1>2, <1>4, <2>1, CollectorAssumption
    <3>1. \A z \in Objects : P2[z] \subseteq P[z] /\ r[z] >= r[z]
      BY ONLY <3>0
    <3> QED BY <1>2, <1>7, <2>1, <3>1, CoveredLess
  <2>2. CASE y # Nil
    <3>1. P2[y] \subseteq P[y] \cup {<<x, f>>} /\ \A z \in Objects \ {y} : P2[z] \subseteq P[z]
      BY <1>4, <2>2
    <3>2. y \in Objects /\ m[y] = "alive" /\ counts = [r EXCEPT ![y] = r[y] + 1]
      BY <1>7, <2>2
    <3> QED BY ONLY <1>2, <3>1, <3>2, CoveredRetain
  <2> QED BY <2>1, <2>2
<1>9. ASSUME old # Nil
      PROVE  counts[old] > 0 /\ Covered(m, [counts EXCEPT ![old] = counts[old] - 1], P2)
  <2>0. old \in Objects
    BY <1>2, <1>9
  <2>1. CASE y = Nil
    <3>1. P2[old] \subseteq P[old] \ {<<x, f>>} /\ \A z \in Objects \ {old} : P2[z] \subseteq P[z]
      BY <1>4, <2>0, <2>1, CollectorAssumption
    <3>2. PICK r2 : r2 = [r EXCEPT ![old] = r[old] - 1]
      OBVIOUS
    <3>3. <<x, f>> \in P[old]
      BY <1>5, <1>9
    <3>4. Covered(m, r2, P2)
      BY ONLY <1>2, <2>0, <3>1, <3>2, <3>3, CoveredRelease
    <3> QED BY <1>6, <1>7, <1>9, <2>1, <3>2, <3>4
  <2>2. CASE y = old
    <3>1. counts = [r EXCEPT ![y] = r[y] + 1] /\ r[y] \in Nat
      BY <1>7, <1>9, <1>2, <2>0, <2>2
    <3>2. counts[old] = r[old] + 1 /\ [counts EXCEPT ![old] = counts[old] - 1] = r
      <4>1. counts[old] = r[old] + 1 /\ counts \in [Objects -> Nat]
        BY <1>2, <2>0, <2>2, <3>1
      <4>2. PICK r2 : r2 = [counts EXCEPT ![old] = counts[old] - 1]
        OBVIOUS
      <4>a. DOMAIN counts = Objects
        BY <4>1
      <4>b. DOMAIN r2 = Objects /\ r2 = [z \in Objects |-> r2[z]]
        BY <4>2, <4>a
      <4>c. r2[old] = counts[old] - 1 /\ \A z \in Objects \ {old} : r2[z] = counts[z]
        BY <2>0, <4>2, <4>a
      <4>3. r2[old] = r[old] + 1 - 1
        <5>1. r[old] \in Nat /\ counts[old] = r[old] + 1 /\ r2[old] = counts[old] - 1
          BY <2>2, <3>1, <4>1, <4>c
        <5> QED BY ONLY <5>1
      <4>4. \A z \in Objects \ {old} : counts[z] = r[z]
        BY <1>2, <2>2, <3>1
      <4>5. r[old] + 1 - 1 = r[old]
        BY <2>2, <3>1
      <4>6. r2 = r
        <5>1. \A z \in Objects : r2[z] = r[z]
          BY <4>3, <4>4, <4>5, <4>c
        <5>2. r = [z \in Objects |-> r[z]]
          BY <1>2
        <5> QED BY ONLY <4>b, <5>1, <5>2
      <4> QED BY <4>1, <4>2, <4>6
    <3>a. \A z \in Objects : z # old => P2[z] \subseteq P[z]
      BY <1>4, <2>2
    <3>b. P2[old] \subseteq P[old]
      BY <1>4, <1>5, <1>9, <2>0
    <3>c. \A z \in Objects : P2[z] \subseteq P[z] /\ r[z] \in Nat
      BY <1>2, <3>a, <3>b
    <3>3. \A z \in Objects : P2[z] \subseteq P[z] /\ r[z] >= r[z]
      BY ONLY <3>c
    <3>4. Covered(m, r, P2)
      BY <1>2, <3>3, CoveredLess
    <3> QED BY <2>2, <3>1, <3>2, <3>4
  <2>3. CASE y # Nil /\ y # old
    <3>1. y \in Objects /\ m[y] = "alive" /\ counts = [r EXCEPT ![y] = r[y] + 1]
      BY <1>7, <2>3
    <3>2. PICK P1 : P1 = [P EXCEPT ![y] = P[y] \cup {<<x, f>>}]
      OBVIOUS
    <3>3. <<x, f>> \in AllPlaces
      BY DEF AllPlaces
    <3>4. /\ P1 \in [Objects -> SUBSET AllPlaces] /\ P1[y] = P[y] \cup {<<x, f>>}
          /\ \A z \in Objects \ {y} : P1[z] = P[z]
      BY <1>2, <3>1, <3>2, <3>3
    <3>5. P1[y] \subseteq P[y] \cup {<<x, f>>} /\ \A z \in Objects \ {y} : P1[z] \subseteq P[z]
      BY ONLY <3>4
    <3>6. Covered(m, counts, P1)
      BY ONLY <1>2, <3>1, <3>4, <3>5, CoveredRetain
    <3>7. /\ <<x, f>> \in P1[old] /\ P2[old] \subseteq P1[old] \ {<<x, f>>}
          /\ \A z \in Objects \ {old} : P2[z] \subseteq P1[z]
      BY <1>4, <1>5, <1>9, <2>0, <2>3, <3>1, <3>4
    <3>8. PICK r2 : r2 = [counts EXCEPT ![old] = counts[old] - 1]
      OBVIOUS
    <3>9. Covered(m, r2, P2)
      BY ONLY <1>2, <2>0, <3>6, <3>7, <3>8, CoveredRelease
    <3>10. counts[old] = r[old]
      BY <1>2, <2>0, <2>3, <3>1
    <3> QED BY <1>6, <1>9, <3>8, <3>9, <3>10
  <2> QED BY <2>1, <2>2, <2>3
<1> QED BY <1>1, <1>6, <1>8, <1>9 DEF StoreCounted

LEMMA NoCollection ==
  ASSUME Idle, NEW m, NEW counts, NEW x, Release(m, counts, x), cand \in Seq(Objects), x \in Objects \cup {Nil},
         Len(cand) + 1 < Theta
  PROVE  phase' = "idle"
<1>1. CASE x # Nil /\ counts[x] > 0
  <2>1. x \in Objects
    BY <1>1
  <2>2. Len(Append(cand, x)) = Len(cand) + 1 /\ Len(cand) \in Nat
    BY <2>1, AppendProperties
  <2>3. ~(Len(Append(cand, x)) >= Theta)
    BY <2>2, CollectorAssumption
  <2> QED BY <1>1, <2>3 DEF Release, ReleaseObject, Buffer, collection, Idle
<1>2. CASE ~(x # Nil /\ counts[x] > 0)
  BY <1>2 DEF Release, collection, Idle
<1> QED BY <1>1, <1>2

LEMMA StoreKeeps ==
  ASSUME CollectorInv, Idle, NEW m, NEW r, NEW x \in Objects, NEW f \in FieldNames, NEW y \in Objects \cup {Nil},
         NEW k \in [Objects -> [FieldNames -> Objects \cup {Nil}]],
         m[x] = "alive", colour[x] \in {"black", "purple"}, y # Nil => m[y] = "alive",
         Headers(m, Retain(r, y), colour), Candidates(m, colour, buffered, cand),
         Covered(m, r, PlacesIn(m, colour, k, lists)),
         k[x][f] # Nil => mem[k[x][f]] = "alive" /\ colour[k[x][f]] \in {"black", "purple"},
         Len(cand) + 1 < Theta,
         Release(m, Retain(r, y), k[x][f]), StoreAfter(k, x, f, y), UNCHANGED <<lists, dying>>
  PROVE  CollectorInv'
<1>1. /\ Shape(kid, lists, dying) /\ walk = <<>> /\ live = <<>> /\ Len(cand) < Theta /\ store = <<>> /\ again = {}
  BY IdleRests DEF Resting, AtRest
<1>2. k[x][f] \in Objects \cup {Nil} /\ cand \in Seq(Objects) /\ r \in [Objects -> Nat]
  BY DEF Candidates, Covered
<1>3. phase' = "idle"
  BY <1>2, NoCollection
<1>4. kid' = [k EXCEPT ![x][f] = y] /\ store' = <<>>
  BY <1>1, <1>3 DEF StoreAfter
<1>5. StoreCounted(m, r, colour, k, lists, x, f, y, kid')
  BY <1>4, StoreIsCounted
<1>6. Shape(kid', lists', dying')
  <2>1. kid' \in [Objects -> [FieldNames -> Objects \cup {Nil}]]
    BY <1>4
  <2> QED BY <1>1, <2>1 DEF Shape
<1>7. PICK counts, old : counts = Retain(r, y) /\ old = k[x][f]
  OBVIOUS
<1>8. counts \in [Objects -> Nat]
  BY <1>2, <1>7 DEF Retain
<1>9. CASE old = Nil
  <2>1. mem' = m /\ rc' = counts /\ UNCHANGED <<colour, buffered, cand, phase, live, walk, again>>
    BY <1>7, <1>9 DEF Release, collection, history
  <2>2. Covered(mem', rc', PlacesIn(mem', colour', kid', lists'))
    BY <1>5, <1>7, <1>9, <2>1 DEF StoreCounted
  <2>3. Resting'
    BY <1>6, <1>7, <2>1, <2>2 DEF Resting, AtRest
  <2> QED BY <1>1, <1>3, <1>4, <2>1, <2>3, RestIsIdle DEF Idle
<1>10. CASE old # Nil
  <2>1. /\ old \in Objects /\ counts[old] > 0 /\ m[old] = "alive" /\ mem[old] = "alive"
        /\ colour[old] \in {"black", "purple"}
        /\ Covered(m, [counts EXCEPT ![old] = counts[old] - 1], PlacesIn(m, colour, kid', lists'))
    BY <1>2, <1>5, <1>7, <1>10 DEF StoreCounted
  <2>2. Release(m, counts, old) /\ Headers(m, counts, colour)
    BY <1>7
  <2> QED BY <1>4, <1>6, <1>8, <2>1, <2>2, ReleaseKeeps
<1> QED BY <1>9, <1>10

\* The program of CycleSafe: elements move only in exchanges, and a field is
\* not assigned when one more candidate fills the buffer.
OrderlyProgram == ~Overwrites /\ ~FullStores

LEMMA AssignKeeps ==
  ASSUME OrderlyProgram, CollectorInv, NEW x \in Reachable, NEW f \in FieldNames, NEW y \in Reachable \cup {Nil},
         Assign(x, f, y)
  PROVE  CollectorInv'
<1>1. /\ Idle /\ Len(cand) + 1 < Theta /\ Release(mem, Retain(rc, y), kid[x][f])
      /\ StoreAfter(kid, x, f, y) /\ UNCHANGED <<lists, dying>>
  BY DEF Assign, Running, MayStore, OrderlyProgram
<1>2. /\ Headers(mem, rc, colour) /\ Shape(kid, lists, dying) /\ Candidates(mem, colour, buffered, cand)
      /\ Covered(mem, rc, PlacesIn(mem, colour, kid, lists))
  BY <1>1, IdleRests DEF Resting, AtRest
<1>3. /\ x \in Objects /\ mem[x] = "alive" /\ colour[x] \in {"black", "purple"} /\ y \in Objects \cup {Nil}
      /\ y # Nil => mem[y] = "alive" /\ colour[y] # "white"
  BY <1>1, ReachableRests
<1>4. kid \in [Objects -> [FieldNames -> Objects \cup {Nil}]] /\ rc \in [Objects -> Nat]
  BY <1>2 DEF Shape, Covered
<1>5. Headers(mem, Retain(rc, y), colour)
  BY <1>2, <1>3, <1>4 DEF Headers, Retain
<1>6. kid[x][f] # Nil => mem[kid[x][f]] = "alive" /\ colour[kid[x][f]] \in {"black", "purple"}
  BY <1>2, <1>3, RestingCounts
<1> QED BY <1>1, <1>2, <1>3, <1>4, <1>5, <1>6, StoreKeeps

LEMMA AssignNewKeeps ==
  ASSUME OrderlyProgram, CollectorInv, NEW x \in Reachable, NEW f \in FieldNames, NEW y \in Objects,
         NEW ys \in [FieldNames -> Reachable \cup {Nil}], AssignNew(x, f, y, ys)
  PROVE  CollectorInv'
<1>0. PICK m, r, k : m = [mem EXCEPT ![y] = "alive"] /\ r = RetainAll(ys) /\ k = [kid EXCEPT ![y] = ys]
  OBVIOUS
<1>1. /\ Idle /\ Len(cand) + 1 < Theta /\ mem[y] = "none" /\ Release(m, Retain(r, y), kid[x][f])
      /\ StoreAfter(k, x, f, y) /\ UNCHANGED <<lists, dying>>
  BY <1>0 DEF AssignNew, Running, MayStore, OrderlyProgram
<1>2. /\ Headers(mem, rc, colour) /\ Shape(kid, lists, dying) /\ Candidates(mem, colour, buffered, cand)
      /\ Covered(mem, rc, PlacesIn(mem, colour, kid, lists))
  BY <1>1, IdleRests DEF Resting, AtRest
<1>3. x \in Objects /\ mem[x] = "alive" /\ colour[x] \in {"black", "purple"} /\ x # y
  BY <1>1, ReachableRests
<1>4. kid \in [Objects -> [FieldNames -> Objects \cup {Nil}]] /\ mem \in [Objects -> MemStates]
  BY <1>2 DEF Shape, Covered
<1>5. Born(y, m, k, r)
  BY <1>0, <1>1, LiteralIsBorn
<1>6. /\ Headers(m, Retain(r, y), colour) /\ Candidates(m, colour, buffered, cand)
      /\ k \in [Objects -> [FieldNames -> Objects \cup {Nil}]]
      /\ Covered(m, r, PlacesIn(m, colour, k, lists))
  BY <1>5 DEF Born
<1>7. kid[x][f] # Nil => mem[kid[x][f]] = "alive" /\ colour[kid[x][f]] \in {"black", "purple"}
  BY <1>2, <1>3, RestingCounts
<1>8. k[x][f] = kid[x][f] /\ m[x] = "alive" /\ m[y] = "alive"
  BY <1>0, <1>3, <1>4
<1>9. Release(m, Retain(r, y), k[x][f])
  BY <1>1, <1>8
<1>10. k[x][f] # Nil => mem[k[x][f]] = "alive" /\ colour[k[x][f]] \in {"black", "purple"}
  BY <1>7, <1>8
<1>11. y \in Objects \cup {Nil} /\ (y # Nil => m[y] = "alive")
  BY <1>8
<1> QED BY ONLY CollectorInv, f \in FieldNames, <1>1, <1>3, <1>6, <1>8, <1>9, <1>10, <1>11, StoreKeeps

LEMMA SetSeq ==
  ASSUME NEW S, NEW s \in Seq(S), NEW i \in 1 .. Len(s), NEW e \in S, NEW t, t = [s EXCEPT ![i] = e]
  PROVE  t \in Seq(S) /\ Len(t) = Len(s)
<1>1. PICK n \in Nat : n = Len(s) /\ DOMAIN s = 1 .. n /\ \A b \in 1 .. n : s[b] \in S
  OBVIOUS
<1>2. t \in [1 .. n -> S]
  BY <1>1
<1>3. t \in Seq(S) /\ DOMAIN t = 1 .. n
  BY <1>2
<1> QED BY <1>1, <1>3

\* Two elements change places.
Exchanged(ls, l, i, m, j, ls2) ==
    /\ ls2 \in [Lists -> Seq(Objects)]
    /\ \A a \in Lists : Len(ls2[a]) = Len(ls[a])
    /\ \A a \in Lists, b \in 1 .. MaxLen :
         b <= Len(ls[a]) => ls2[a][b] = IF <<a, b>> = <<m, j>> THEN ls[l][i]
                                        ELSE IF <<a, b>> = <<l, i>> THEN ls[m][j] ELSE ls[a][b]

LEMMA ExchangeSeqs ==
  ASSUME NEW before \in [Lists -> Seq(Objects)], NEW l \in Lists, NEW m \in Lists,
         NEW i \in 1 .. Len(before[l]), NEW j \in 1 .. Len(before[m]),
         NEW after, after = [[before EXCEPT ![l][i] = before[m][j]] EXCEPT ![m][j] = before[l][i]]
  PROVE  Exchanged(before, l, i, m, j, after)
<1>3. \A a \in Lists : Len(before[a]) \in Nat
  OBVIOUS
<1>4. i \in DOMAIN before[l] /\ j \in DOMAIN before[m]
  OBVIOUS
<1>5. before[m][j] \in Objects /\ before[l][i] \in Objects
  BY <1>4
<1>6. PICK ls : ls = [before EXCEPT ![l] = [before[l] EXCEPT ![i] = before[m][j]]]
  OBVIOUS
<1>7. /\ ls \in [Lists -> Seq(Objects)]
      /\ \A a \in Lists : Len(ls[a]) = Len(before[a])
      /\ \A a \in Lists, b \in 1 .. MaxLen :
           b <= Len(before[a]) => ls[a][b] = IF <<a, b>> = <<l, i>> THEN before[m][j] ELSE before[a][b]
  <2>1. PICK s : s = [before[l] EXCEPT ![i] = before[m][j]]
    OBVIOUS
  <2>2. s \in Seq(Objects) /\ Len(s) = Len(before[l])
    BY <1>3, <1>4, <1>5, <2>1, SetSeq
  <2>3. \A b \in 1 .. Len(before[l]) : s[b] = IF b = i THEN before[m][j] ELSE before[l][b]
    BY <1>3, <2>1
  <2>4. ls \in [Lists -> Seq(Objects)] /\ ls[l] = s /\ \A a \in Lists \ {l} : ls[a] = before[a]
    BY <1>3, <1>6, <2>1, <2>2
  <2>5. ASSUME NEW a \in Lists, NEW b \in 1 .. MaxLen, b <= Len(before[a])
        PROVE  ls[a][b] = IF <<a, b>> = <<l, i>> THEN before[m][j] ELSE before[a][b]
    <3>1. b \in 1 .. Len(before[a])
      BY <1>3, <2>5
    <3>2. CASE a = l
      BY <2>3, <2>4, <3>1, <3>2
    <3>3. CASE a # l
      BY <2>4, <3>3
    <3> QED BY <3>2, <3>3
  <2> QED BY <2>2, <2>4, <2>5
<1>8. /\ after \in [Lists -> Seq(Objects)]
      /\ \A a \in Lists : Len(after[a]) = Len(before[a])
      /\ \A a \in Lists, b \in 1 .. MaxLen :
           b <= Len(before[a]) => after[a][b] = IF <<a, b>> = <<m, j>> THEN before[l][i] ELSE ls[a][b]
  <2>1. PICK s : s = [ls[m] EXCEPT ![j] = before[l][i]]
    OBVIOUS
  <2>2. after = [ls EXCEPT ![m] = s]
    BY <1>6, <2>1
  <2>3. s \in Seq(Objects) /\ Len(s) = Len(before[m])
    <3>1. ls[m] \in Seq(Objects) /\ j \in 1 .. Len(ls[m]) /\ Len(ls[m]) = Len(before[m])
      BY <1>4, <1>7
    <3>2. s \in Seq(Objects) /\ Len(s) = Len(ls[m])
      BY ONLY <1>5, <2>1, <3>1, SetSeq
    <3> QED BY <3>1, <3>2
  <2>4. \A b \in 1 .. Len(before[m]) : s[b] = IF b = j THEN before[l][i] ELSE ls[m][b]
    <3>1. DOMAIN ls[m] = 1 .. Len(before[m])
      BY <1>7
    <3> QED BY <2>1, <3>1
  <2>5. after \in [Lists -> Seq(Objects)] /\ after[m] = s /\ \A a \in Lists \ {m} : after[a] = ls[a]
    BY <1>7, <2>2, <2>3
  <2>6. ASSUME NEW a \in Lists, NEW b \in 1 .. MaxLen, b <= Len(before[a])
        PROVE  after[a][b] = IF <<a, b>> = <<m, j>> THEN before[l][i] ELSE ls[a][b]
    <3>1. b \in 1 .. Len(before[a])
      BY <1>3, <2>6
    <3>2. CASE a = m
      BY <2>4, <2>5, <3>1, <3>2
    <3>3. CASE a # m
      <4>1. after[a] = ls[a] /\ <<a, b>> # <<m, j>>
        BY <2>5, <3>3
      <4> QED BY <4>1
    <3> QED BY <3>2, <3>3
  <2>7. \A a \in Lists : Len(after[a]) = Len(before[a])
    BY <1>7, <2>3, <2>5
  <2> QED BY <2>5, <2>6, <2>7
<1>9. ASSUME NEW a \in Lists, NEW b \in 1 .. MaxLen, b <= Len(before[a])
      PROVE  after[a][b] = IF <<a, b>> = <<m, j>> THEN before[l][i]
                           ELSE IF <<a, b>> = <<l, i>> THEN before[m][j] ELSE before[a][b]
  <2>1. after[a][b] = IF <<a, b>> = <<m, j>> THEN before[l][i] ELSE ls[a][b]
    BY <1>8, <1>9
  <2>2. ls[a][b] = IF <<a, b>> = <<l, i>> THEN before[m][j] ELSE before[a][b]
    BY <1>7, <1>9
  <2> QED BY ONLY <2>1, <2>2
<1> QED BY <1>8, <1>9 DEF Exchanged

\* Every object has as many places as before.
LEMMA OverwriteKeeps ==
  ASSUME OrderlyProgram, CollectorInv, NEW l \in Lists, NEW m \in Lists,
         NEW i \in 1 .. MaxLen, NEW j \in 1 .. MaxLen, Overwrite(l, i, m, j)
  PROVE  CollectorInv'
<1>1. /\ Idle /\ i <= Len(lists[l]) /\ j <= Len(lists[m])
      /\ lists' = [[lists EXCEPT ![l][i] = lists[m][j]] EXCEPT ![m][j] = lists[l][i]]
      /\ UNCHANGED <<mem, rc, colour, buffered, cand, phase, live, walk, kid, store, dying, again>>
  BY DEF Overwrite, OrderlyProgram, ListSet, Running, headers, collection, history
<1>2. /\ Headers(mem, rc, colour) /\ Shape(kid, lists, dying) /\ Candidates(mem, colour, buffered, cand)
      /\ Covered(mem, rc, PlacesIn(mem, colour, kid, lists))
      /\ walk = <<>> /\ live = <<>> /\ Len(cand) < Theta /\ store = <<>> /\ again = {}
  BY <1>1, IdleRests DEF Resting, AtRest
<1>3. lists \in [Lists -> Seq(Objects)] /\ \A a \in Lists : Len(lists[a]) \in Nat /\ Len(lists[a]) <= MaxLen
  BY <1>2 DEF Shape
<1>4. i \in 1 .. Len(lists[l]) /\ j \in 1 .. Len(lists[m]) /\ i \in DOMAIN lists[l] /\ j \in DOMAIN lists[m]
  BY <1>1, <1>3
<1>5. lists[m][j] \in Objects /\ lists[l][i] \in Objects
  BY <1>3, <1>4
<1>6. Exchanged(lists, l, i, m, j, lists')
  BY ONLY <1>1, <1>3, <1>4, l \in Lists, m \in Lists, ExchangeSeqs
<1>8. /\ lists' \in [Lists -> Seq(Objects)]
      /\ \A a \in Lists : Len(lists'[a]) = Len(lists[a])
      /\ \A a \in Lists, b \in 1 .. MaxLen :
           b <= Len(lists[a]) => lists'[a][b] = IF <<a, b>> = <<m, j>> THEN lists[l][i]
                                                ELSE IF <<a, b>> = <<l, i>> THEN lists[m][j] ELSE lists[a][b]
  BY <1>6 DEF Exchanged
<1>9. Shape(kid', lists', dying')
  <2>1. \A a \in Lists : Len(lists'[a]) <= MaxLen
    BY <1>3, <1>8
  <2>2. dying # Nil => lists'[dying] # <<>>
    <3> HAVE dying # Nil
    <3>1. dying \in Lists /\ lists[dying] # <<>> /\ lists[dying] \in Seq(Objects)
      BY <1>2 DEF Shape
    <3>2. Len(lists[dying]) # 0
      BY <3>1
    <3> QED BY <1>8, <3>1, <3>2
  <2> QED BY <1>1, <1>2, <1>8, <2>1, <2>2 DEF Shape
<1>10. PICK P, P2 : P = PlacesIn(mem, colour, kid, lists) /\ P2 = PlacesIn(mem, colour, kid, lists')
  OBVIOUS
<1>11. Covered(mem, rc, P) /\ P \in [Objects -> SUBSET AllPlaces] /\ P2 \in [Objects -> SUBSET AllPlaces]
  BY <1>2, <1>10, PlacesInTyped
<1> DEFINE g(p) == IF p = <<l, i>> THEN <<m, j>> ELSE IF p = <<m, j>> THEN <<l, i>> ELSE p
<1>12. ASSUME NEW z \in Objects, NEW p \in P2[z] PROVE g(p) \in P[z]
  <2>1. CASE p \in SlotsIn(lists', z)
    <3>1. PICK a \in Lists, b \in 1 .. MaxLen : p = <<a, b>> /\ b <= Len(lists[a]) /\ lists'[a][b] = z
      <4>1. PICK a \in Lists, b \in 1 .. MaxLen : p = <<a, b>> /\ b <= Len(lists'[a]) /\ lists'[a][b] = z
        BY <2>1 DEF SlotsIn
      <4>2. Len(lists'[a]) = Len(lists[a])
        BY <1>8
      <4> QED BY <4>1, <4>2
    <3>2. lists'[a][b] = IF <<a, b>> = <<m, j>> THEN lists[l][i]
                         ELSE IF <<a, b>> = <<l, i>> THEN lists[m][j] ELSE lists[a][b]
      BY <1>8, <3>1
    <3>4. g(p) \in SlotsIn(lists, z)
      <4>1. CASE <<a, b>> = <<m, j>>
        <5>1. lists[l][i] = z /\ <<l, i>> \in SlotsIn(lists, z)
          BY <1>1, <3>1, <3>2, <4>1 DEF SlotsIn
        <5> QED BY <3>1, <4>1, <5>1
      <4>2. CASE <<a, b>> # <<m, j>> /\ <<a, b>> = <<l, i>>
        <5>1. lists[m][j] = z /\ <<m, j>> \in SlotsIn(lists, z)
          BY <1>1, <3>1, <3>2, <4>2 DEF SlotsIn
        <5> QED BY <3>1, <4>2, <5>1
      <4>3. CASE <<a, b>> # <<m, j>> /\ <<a, b>> # <<l, i>>
        <5>1. lists[a][b] = z /\ <<a, b>> \in SlotsIn(lists, z)
          BY <3>1, <3>2, <4>3 DEF SlotsIn
        <5> QED BY <3>1, <4>3, <5>1
      <4> QED BY <4>1, <4>2, <4>3
    <3> HIDE DEF g
    <3> QED BY <1>10, <3>4 DEF PlacesIn
  <2>2. CASE p \in HeldIn(mem, colour, kid, z)
    <3>1. p # <<l, i>> /\ p # <<m, j>>
      BY <2>2, CollectorAssumption DEF HeldIn
    <3> QED BY <1>10, <2>2, <3>1 DEF PlacesIn
  <2> HIDE DEF g
  <2> QED BY <1>10, <2>1, <2>2 DEF PlacesIn
<1>13. \A p, q : g(p) = g(q) => p = q
  OBVIOUS
<1> HIDE DEF g
<1>14. ASSUME NEW z \in Objects PROVE Cardinality(P2[z]) <= Cardinality(P[z]) /\ (P[z] = {} => P2[z] = {})
  <2>1. PICK h : h = [p \in P2[z] |-> g(p)]
    OBVIOUS
  <2>2. h \in Injection(P2[z], P[z])
    BY <1>12, <1>13, <2>1 DEF Injection, IsInjective
  <2>3. P[z] \in SUBSET AllPlaces
    BY <1>11
  <2>4. IsFiniteSet(P[z])
    BY <2>3, PlacesAreFinite
  <2> QED BY <1>12, <2>2, <2>4, FS_Injection
<1>15. Covered(mem, rc, P2)
  <2>1. ASSUME NEW z \in Objects, mem[z] = "alive" PROVE Cardinality(P2[z]) <= rc[z]
    <3>1. Cardinality(P[z]) <= rc[z] /\ rc[z] \in Nat /\ P[z] \in SUBSET AllPlaces /\ P2[z] \in SUBSET AllPlaces
      BY <1>11, <2>1 DEF Covered
    <3>2. Cardinality(P[z]) \in Nat /\ Cardinality(P2[z]) \in Nat
      BY <3>1, PlacesAreFinite
    <3> QED BY <1>14, <3>1, <3>2
  <2>2. \A z \in Objects : mem[z] # "alive" => P2[z] = {}
    BY <1>11, <1>14 DEF Covered
  <2> QED BY <1>11, <2>1, <2>2 DEF Covered
<1>16. Resting'
  BY <1>1, <1>2, <1>9, <1>10, <1>15 DEF Resting, AtRest
<1> QED BY <1>1, <1>2, <1>16, RestIsIdle DEF Idle

----------------------------------------------------------------------------
(***************************************************************************)
(* The theorems                                                            *)
(***************************************************************************)
LEMMA CollectorStarts == Init => CollectorInv
<1> SUFFICES ASSUME Init PROVE CollectorInv
  OBVIOUS
<1>1. Pending = {} /\ ToSet(cand) = {} /\ ToSet(live) = {} /\ walk \in Seq(VisitSet)
      /\ cand \in Seq(Objects) /\ live \in Seq(Objects) /\ phase = "idle"
  BY DEF Init, Pending, ToSet
<1>2. CollectorTypeOK
  <2>1. \A l \in Lists : lists[l] = <<>> /\ Len(lists[l]) <= MaxLen
    BY CollectorAssumption DEF Init
  <2>2. lists \in [Lists -> Seq(Objects)] /\ colour \in [Objects -> Colours] /\ buffered \in [Objects -> BOOLEAN]
        /\ kid \in [Objects -> [FieldNames -> Objects \cup {Nil}]] /\ dying \in Lists \cup {Nil}
        /\ (dying # Nil => lists[dying] # <<>>) /\ store = <<>>
    BY DEF Init, Colours
  <2> QED BY <1>1, <2>1, <2>2 DEF CollectorTypeOK
<1>3. \A x \in Objects : Places[x] = {}
  <2> TAKE x \in Objects
  <2>1. Slots(x) = {}
    <3>1. \A l \in Lists : Len(lists[l]) = 0
      BY DEF Init
    <3> QED BY <3>1 DEF Slots
  <2>2. Held(x) = {}
    BY CollectorAssumption DEF Init, Held
  <2> QED BY <2>1, <2>2 DEF Places
<1>4. Covered(mem, rc, Places)
  <2>1. mem \in [Objects -> MemStates] /\ rc \in [Objects -> Nat] /\ \A x \in Objects : mem[x] # "alive"
    BY DEF Init, MemStates
  <2> QED BY <1>3, <2>1, PlacesTyped DEF Covered
<1>5. NoRepeat /\ Fits /\ SourcesOK /\ RootsOK /\ GreyOK /\ ScanOK /\ OldOK
  BY <1>1 DEF Init, NoRepeat, Fits, SourcesOK, RootsOK, GreyOK, ScanOK, OldOK
<1>6. ColoursOK
  BY DEF Init, ColoursOK
<1>7. BufferIsExact /\ FreedOnce
  <2>1. Len(cand) < Theta /\ IsInjective(cand)
    BY CollectorAssumption DEF Init, IsInjective
  <2> QED BY <1>1, <2>1 DEF Init, BufferIsExact, FreedOnce
<1> QED BY <1>2, <1>4, <1>5, <1>6, <1>7 DEF CollectorInv

LEMMA CollectorStutters ==
  ASSUME CollectorInv, UNCHANGED vars
  PROVE  CollectorInv'
<1>1. UNCHANGED <<mem, rc, colour, buffered, cand, phase, live, walk, kid, store, lists, dying, again>>
  BY DEF vars, headers, collection, program, history
<1>2. Pending' = Pending /\ \A x : Alive(x)' = Alive(x) /\ Slots(x)' = Slots(x) /\ Kids(x)' = Kids(x)
  BY <1>1 DEF Pending, Alive, Slots, Kids
<1>3. \A x, f : Counted(x, f)' <=> Counted(x, f)
  BY <1>1, <1>2 DEF Counted
<1>4. Places' = Places
  BY <1>1, <1>2, <1>3 DEF Places, Held
<1>5. CollectorTypeOK' /\ Covered(mem', rc', Places') /\ NoRepeat' /\ BufferIsExact' /\ FreedOnce'
  BY <1>1, <1>4 DEF CollectorInv, CollectorTypeOK, NoRepeat, BufferIsExact, FreedOnce
<1>6. Fits' /\ ColoursOK' /\ SourcesOK' /\ RootsOK'
  BY <1>1, <1>2 DEF CollectorInv, Fits, ColoursOK, SourcesOK, RootsOK
<1>7. Grey' = Grey /\ Targets' = Targets /\ \A S : ClosedUnderGrey(S)' <=> ClosedUnderGrey(S)
  BY <1>1, <1>2 DEF Grey, Targets, Target, ClosedUnderGrey
<1>8. GreyOK' /\ ScanOK'
  BY <1>1, <1>2, <1>7 DEF CollectorInv, GreyOK, ScanOK
<1>9. OldOK'
  BY <1>1, <1>2, <1>7 DEF CollectorInv, OldOK, Apart, Sound
<1> QED BY <1>5, <1>6, <1>8, <1>9 DEF CollectorInv

LEMMA CollectorSteps ==
  ASSUME OrderlyProgram, CollectorInv, [Next]_vars
  PROVE  CollectorInv'
<1>1. CASE UNCHANGED vars
  BY <1>1, CollectorStutters
<1>2. CASE ReleaseLast
  BY <1>2, ReleaseLastKeeps
<1>3. CASE WalkStep
  <2>1. CASE PassOver
    BY <2>1, PassOverKeeps
  <2>2. CASE NextLoop
    BY <2>2, NextLoopKeeps
  <2>3. CASE EndCollection
    BY <2>3, EndCollectionKeeps
  <2>4. CASE \E x \in Objects : VisitRoot(x) \/ MarkGrey(x) \/ ScanBlack(x) \/ Scan(x) \/ CollectWhite(x)
    <3>1. PICK x \in Objects : VisitRoot(x) \/ MarkGrey(x) \/ ScanBlack(x) \/ Scan(x) \/ CollectWhite(x)
      BY <2>4
    <3> QED BY <3>1, VisitRootKeeps, MarkGreyKeeps, ScanBlackKeeps, ScanKeeps, CollectWhiteKeeps
  <2> QED BY <1>3, <2>1, <2>2, <2>3, <2>4 DEF WalkStep
<1>4. CASE Program
  <2>1. CASE \E l \in Lists, x \in Objects, ys \in [FieldNames -> Reachable \cup {Nil}] : New(l, x, ys)
    BY <2>1, NewKeeps
  <2>2. CASE \E l \in Lists, x \in Reachable : Push(l, x)
    BY <2>2, PushKeeps
  <2>3. CASE \E l \in Lists, i, j \in 1 .. MaxLen, m \in Lists : Overwrite(l, i, m, j)
    BY <2>3, OverwriteKeeps
  <2>4. CASE \E l \in Lists : BeginRelease(l)
    BY <2>4, BeginReleaseKeeps
  <2>5. CASE \E x \in Reachable, f \in FieldNames, y \in Reachable \cup {Nil} : Assign(x, f, y)
    BY <2>5, AssignKeeps
  <2>6. CASE \E x \in Reachable, f \in FieldNames, y \in Objects,
               ys \in [FieldNames -> Reachable \cup {Nil}] : AssignNew(x, f, y, ys)
    BY <2>6, AssignNewKeeps
  <2>7. CASE CollectNow
    BY <2>7, CollectNowKeeps
  <2>8. CASE Final
    BY <2>8, FinalKeeps
  <2> QED BY <1>4, <2>1, <2>2, <2>3, <2>4, <2>5, <2>6, <2>7, <2>8 DEF Program
<1> QED BY <1>1, <1>2, <1>3, <1>4 DEF Next

\* The strengthening is an invariant of every program that moves elements
\* only in exchanges and makes no field store that could set off a
\* collection (cyc_collect and its walks, cyc_release, cyc_retain).
THEOREM CollectorIsInvariant ==
  ASSUME OrderlyProgram
  PROVE  Spec => []CollectorInv
<1>1. Init => CollectorInv
  BY CollectorStarts
<1>2. CollectorInv /\ [Next]_vars => CollectorInv'
  BY CollectorSteps
<1> QED BY <1>1, <1>2, PTL DEF Spec

LEMMA ReachableIsAlive == CollectorInv => NoPrematureFree
<1> SUFFICES ASSUME CollectorInv PROVE \A x \in Reachable : mem[x] = "alive"
  BY DEF NoPrematureFree
<1>1. CollectorTypeOK /\ Covered(mem, rc, Places)
  BY DEF CollectorInv
<1>2. Stored = kid
  BY <1>1 DEF CollectorTypeOK, Stored
<1>3. ASSUME NEW x \in Elements PROVE x \in Objects /\ Alive(x) /\ colour[x] # "white"
  <2>1. PICK l \in Lists : x \in ToSet(lists[l])
    BY DEF Elements
  <2>2. Shape(kid, lists, dying)
    BY <1>1 DEF CollectorTypeOK, Shape
  <2>3. x \in Objects /\ SlotsIn(lists, x) # {}
    BY <2>1, <2>2, ElementIsHeld
  <2>4. PICK p \in Places[x] : TRUE
    BY <2>3 DEF Places, Slots, SlotsIn
  <2>5. mem[x] = "alive" /\ rc[x] \in Nat /\ rc[x] > 0
    BY <1>1, <2>3, <2>4, HeldIsCounted
  <2> QED BY <2>3, <2>5 DEF Alive, CollectorInv, ColoursOK
<1>4. \A z \in Objects, g \in FieldNames : kid[z][g] \in Objects \cup {Nil}
  BY <1>1 DEF CollectorTypeOK
<1>5. CASE phase \in {"grey", "scan"}
  <2>1. PICK Old \in SUBSET Objects : Apart(Old)
    BY <1>5 DEF CollectorInv, OldOK
  <2>2. PICK T : T = {x \in Objects : Alive(x) /\ x \notin Old}
    OBVIOUS
  <2>3. Elements \subseteq T
    BY <1>3, <2>1, <2>2 DEF Apart
  <2>4. ASSUME NEW z \in T, NEW g \in FieldNames PROVE Stored[z][g] \in T \cup {Nil}
    <3>1. CASE kid[z][g] # Nil
      <4>1. z \in Objects \ Old /\ Alive(z) /\ kid[z][g] \in Kids(z) /\ kid[z][g] \in Objects
        BY <1>4, <2>2, <3>1 DEF Kids
      <4>2. kid[z][g] \notin Old /\ Sound(kid[z][g])
        BY <2>1, <4>1 DEF Apart
      <4> QED BY <1>2, <1>5, <2>2, <4>1, <4>2 DEF Sound
    <3> QED BY <1>2, <3>1
  <2>5. Reachable \subseteq T
    BY <2>2, <2>3, <2>4 DEF Reachable, Closure
  <2> QED BY <2>2, <2>5 DEF Alive
<1>6. CASE phase \notin {"grey", "scan"}
  <2>2. PICK T : T = {x \in Objects : Alive(x) /\ colour[x] # "white"}
    OBVIOUS
  <2>3. Elements \subseteq T
    BY <1>3, <2>2
  <2>4. ASSUME NEW z \in T, NEW g \in FieldNames PROVE Stored[z][g] \in T \cup {Nil}
    <3>1. CASE kid[z][g] # Nil
      <4>1. z \in Objects /\ Alive(z) /\ colour[z] # "white" /\ kid[z][g] \in Objects /\ colour[z] \in Colours
        BY <1>1, <1>4, <2>2, <3>1 DEF CollectorTypeOK
      <4>2. colour[z] # "grey" /\ <<"black", z, g>> \notin Pending
        BY <1>6, <4>1 DEF CollectorInv, ColoursOK, Fits
      <4>3. <<z, g>> \in Places[kid[z][g]]
        BY <4>1, <4>2 DEF Places, Held, Counted, Colours
      <4>4. mem[kid[z][g]] = "alive" /\ rc[kid[z][g]] \in Nat /\ rc[kid[z][g]] > 0
        BY <1>1, <4>1, <4>3, HeldIsCounted
      <4> QED BY <1>2, <2>2, <4>1, <4>4 DEF Alive, CollectorInv, ColoursOK
    <3> QED BY <1>2, <3>1
  <2>5. Reachable \subseteq T
    BY <2>2, <2>3, <2>4 DEF Reachable, Closure
  <2> QED BY <2>2, <2>5 DEF Alive
<1> QED BY <1>5, <1>6

\* At every point of every collection, what the program can reach has not
\* been freed (cyc_release, cyc_collect and the walks it makes).
THEOREM ReachableIsKept ==
  ASSUME OrderlyProgram
  PROVE  Spec => []NoPrematureFree
BY CollectorIsInvariant, ReachableIsAlive, PTL

LEMMA RestingCountsCover == CollectorInv => CountsCoverEdges
<1> SUFFICES ASSUME CollectorInv, Idle, NEW x \in Reachable
             PROVE  rc[x] >= Cardinality(Slots(x)) + Cardinality(Edges(x))
  BY DEF CountsCoverEdges
<1>1. Covered(mem, rc, PlacesIn(mem, colour, kid, lists))
  BY IdleRests DEF Resting, AtRest
<1>2. /\ Reachable \subseteq Objects
      /\ \A z \in Reachable : mem[z] = "alive" /\ colour[z] \in {"black", "purple"}
  BY ReachableRests
<1>3. PICK P, A, B : P = PlacesIn(mem, colour, kid, lists)[x] /\ A = Slots(x) /\ B = Edges(x)
  OBVIOUS
<1>4. A \subseteq P /\ B \subseteq P /\ A \cap B = {}
  <2>1. A \subseteq P
    BY <1>2, <1>3 DEF PlacesIn, Slots, SlotsIn
  <2>2. B \subseteq P
    <3>1. B \subseteq HeldIn(mem, colour, kid, x)
      BY <1>2, <1>3 DEF Edges, HeldIn
    <3> QED BY <1>2, <1>3, <3>1 DEF PlacesIn
  <2>3. A \cap B = {}
    BY <1>2, <1>3, CollectorAssumption DEF Slots, Edges
  <2> QED BY <2>1, <2>2, <2>3
<1>5. x \in Objects /\ P \in SUBSET AllPlaces /\ Cardinality(P) <= rc[x] /\ rc[x] \in Nat
  BY <1>1, <1>2, <1>3 DEF Covered
<1>6. IsFiniteSet(P) /\ Cardinality(P) \in Nat
  BY <1>5, PlacesAreFinite
<1>7. IsFiniteSet(A) /\ IsFiniteSet(B) /\ Cardinality(A) \in Nat /\ Cardinality(B) \in Nat
  BY <1>4, <1>5, PlacesAreFinite
<1>8. /\ IsFiniteSet(A \cup B)
      /\ Cardinality(A \cup B) = Cardinality(A) + Cardinality(B) - Cardinality(A \cap B)
  BY <1>7, FS_Union
<1>9. Cardinality(A \cap B) = 0
  BY <1>4, FS_EmptySet
<1>10. Cardinality(A \cup B) <= Cardinality(P)
  <2>1. A \cup B \in SUBSET P
    BY <1>4
  <2> QED BY <1>6, <2>1, FS_Subset
<1>11. rc[x] >= Cardinality(A) + Cardinality(B)
  BY ONLY <1>5, <1>6, <1>7, <1>8, <1>9, <1>10
<1> QED BY <1>3, <1>11

\* Between calls the count of a reachable object covers its list slots and
\* the fields of reachable objects that hold it: what the walks take away
\* they give back (cyc_mark_grey, cyc_scan_black).
THEOREM CountsAreRestored ==
  ASSUME OrderlyProgram
  PROVE  Spec => []CountsCoverEdges
BY CollectorIsInvariant, RestingCountsCover, PTL

LEMMA RestingColours == CollectorInv => ColoursSettle
<1> SUFFICES ASSUME CollectorInv, Idle, NEW x \in Reachable
             PROVE  colour[x] = "black" \/ (colour[x] = "purple" /\ buffered[x])
  BY DEF ColoursSettle
<1>1. x \in Objects /\ mem[x] = "alive" /\ colour[x] \in {"black", "purple"}
  BY ReachableRests
<1>2. Candidates(mem, colour, buffered, cand)
  BY IdleRests DEF Resting, AtRest
<1> QED BY <1>1, <1>2 DEF Candidates

\* Between calls no walk has left its marks on a reachable object.
THEOREM ColoursAreSettled ==
  ASSUME OrderlyProgram
  PROVE  Spec => []ColoursSettle
BY CollectorIsInvariant, RestingColours, PTL

\* The buffer and the flags agree, nothing is buffered twice, the buffer is
\* never left full, and what it holds has not been freed (cyc_collect reads
\* the header of every root).
THEOREM BufferAgrees ==
  ASSUME OrderlyProgram
  PROVE  Spec => []BufferIsExact
<1>1. CollectorInv => BufferIsExact
  BY DEF CollectorInv
<1> QED BY <1>1, CollectorIsInvariant, PTL

\* No object is freed twice (cyc_free_object).
THEOREM NothingIsFreedTwice ==
  ASSUME OrderlyProgram
  PROVE  Spec => []FreedOnce
<1>1. CollectorInv => FreedOnce
  BY DEF CollectorInv
<1> QED BY <1>1, CollectorIsInvariant, PTL

----------------------------------------------------------------------------
(***************************************************************************)
(* Reclamation.  Counts are covered from above as well: every count of a   *)
(* live object is for a list slot, for a field that is Counted, or for a   *)
(* field of an object that was freed on its own count and never gave its   *)
(* references back.                                                        *)
(***************************************************************************)
Backed(m, r, P) ==
    /\ P \in [Objects -> SUBSET AllPlaces]
    /\ \A x \in Objects : m[x] = "alive" => r[x] <= Cardinality(P[x])

Feeds(y, f) == Counted(y, f) \/ y \in direct
Fed(x) == {p \in Objects \X FieldNames : kid[p[1]][p[2]] = x /\ Feeds(p[1], p[2])}
Backers == [x \in Objects |-> Slots(x) \cup Fed(x)]

\* What a collection to come starts from, or the program holds, or nothing
\* will ever follow; and what the collection that runs started from.
Seeds == Elements \cup ToSet(cand) \cup direct
Taken == ToSet(live) \cup {x \in Objects : <<"root", x, 0>> \in Pending}

\* What hangs below S along the fields k.
Leads(k, T) == \A y \in T, f \in FieldNames : k[y][f] \in T \cup {Nil}
Below(k, S) == {x \in Objects : \A T \in SUBSET Objects : S \subseteq T /\ Leads(k, T) => x \in T}

\* Nothing that is alive is lost: it hangs below one of these.
Anchored == \A x \in Objects : Alive(x) => x \in Below(kid, Seeds \cup Taken)

\* From the scan on, what is black again is so for a reason that outlives the
\* collection.
Justified ==
    phase \in {"scan", "white"} =>
        \A x \in Objects : Alive(x) /\ colour[x] \in {"black", "purple"} => x \in Below(kid, Seeds)

\* The scan stays within what cyc_mark_grey has marked, where nothing is purple.
Within(G) ==
    /\ \A x \in G : colour[x] # "purple" /\ Kids(x) \subseteq G
    /\ \A v \in Pending : v[2] \in G
MarksOK == phase = "scan" => \E G \in SUBSET Objects : Within(G)

\* Below the roots (in A), what cyc_collect_white has freed leads to what stays
\* with a reason, to what is freed, or to a visit that is still to be made.
Stays(x) == x \in Below(kid, Seeds) \/ ~Alive(x)
Followed(A) ==
    /\ ToSet(live) \subseteq A
    /\ \A x \in A : Kids(x) \subseteq A
    /\ \A v \in Pending : v[2] \in A
    /\ \A x \in ToSet(live) : Stays(x) \/ <<"white", x, 0>> \in Pending
    /\ \A x \in A, f \in FieldNames :
          ~Alive(x) => kid[x][f] = Nil \/ Stays(kid[x][f]) \/ <<"white", x, f>> \in Pending
FreesOK == phase = "white" => \E A \in SUBSET Objects : Followed(A)

\* An object that has not been allocated has no count and no field.
Unborn == \A x \in Objects : mem[x] = "none" => rc[x] = 0 /\ \A f \in FieldNames : kid[x][f] = Nil

ReclaimInv ==
    /\ Backed(mem, rc, Backers) /\ Anchored /\ Justified /\ MarksOK /\ FreesOK /\ Unborn
    /\ direct \subseteq Freed
    /\ done => Idle /\ cand = <<>> /\ dying = Nil

----------------------------------------------------------------------------
LEMMA BackersTyped ==
  Backers \in [Objects -> SUBSET AllPlaces] /\ Backers' \in [Objects -> SUBSET AllPlaces]
BY DEF Backers, Slots, Fed, AllPlaces

LEMMA MoreIsMore ==
  ASSUME NEW S, NEW T \in SUBSET AllPlaces, S \subseteq T
  PROVE  Cardinality(S) <= Cardinality(T) /\ Cardinality(S) \in Nat /\ Cardinality(T) \in Nat
<1>1. IsFiniteSet(T) /\ Cardinality(T) \in Nat /\ Cardinality(S) \in Nat
  BY PlacesAreFinite
<1> QED BY <1>1, FS_Subset

\* Places may come, and counts may shrink.
LEMMA BackedMore ==
  ASSUME NEW m, NEW r \in [Objects -> Nat], NEW P, Backed(m, r, P),
         NEW m2, \A x \in Objects : m2[x] = "alive" => m[x] = "alive",
         NEW r2 \in [Objects -> Nat], NEW P2 \in [Objects -> SUBSET AllPlaces],
         \A x \in Objects : m2[x] = "alive" => P[x] \subseteq P2[x] /\ r2[x] <= r[x]
  PROVE  Backed(m2, r2, P2)
<1>1. ASSUME NEW x \in Objects, m2[x] = "alive" PROVE r2[x] <= Cardinality(P2[x])
  <2>1. P[x] \subseteq P2[x] /\ P2[x] \in SUBSET AllPlaces /\ r[x] \in Nat /\ r2[x] \in Nat /\ r2[x] <= r[x]
    BY <1>1
  <2>2. Cardinality(P[x]) <= Cardinality(P2[x]) /\ Cardinality(P[x]) \in Nat /\ Cardinality(P2[x]) \in Nat
    BY <2>1, MoreIsMore
  <2>3. r[x] <= Cardinality(P[x])
    BY <1>1 DEF Backed
  <2> QED BY ONLY <2>1, <2>2, <2>3
<1> QED BY <1>1 DEF Backed

\* A retain of y for a new place.
LEMMA BackedRetain ==
  ASSUME NEW m, NEW r \in [Objects -> Nat], NEW P, Backed(m, r, P), NEW y \in Objects, NEW p, p \notin P[y],
         NEW P2 \in [Objects -> SUBSET AllPlaces], P[y] \cup {p} \subseteq P2[y],
         \A x \in Objects \ {y} : P[x] \subseteq P2[x],
         NEW r2, r2 = [r EXCEPT ![y] = r[y] + 1]
  PROVE  Backed(m, r2, P2)
<1>1. ASSUME NEW x \in Objects, m[x] = "alive" PROVE r2[x] <= Cardinality(P2[x])
  <2>1. P[x] \subseteq P2[x] /\ P2[x] \in SUBSET AllPlaces /\ r[x] \in Nat
    OBVIOUS
  <2>2. Cardinality(P[x]) <= Cardinality(P2[x]) /\ Cardinality(P[x]) \in Nat /\ Cardinality(P2[x]) \in Nat
    BY <2>1, MoreIsMore
  <2>3. r[x] <= Cardinality(P[x])
    BY <1>1 DEF Backed
  <2>4. CASE x # y
    BY <2>1, <2>2, <2>3, <2>4
  <2>5. CASE x = y
    <3>1. IsFiniteSet(P[y])
      BY <2>1, <2>5, PlacesAreFinite
    <3>2. Cardinality(P[y] \cup {p}) = Cardinality(P[y]) + 1
      BY <3>1, FS_AddElement
    <3>3. Cardinality(P[y] \cup {p}) <= Cardinality(P2[y])
      BY MoreIsMore
    <3>4. r2[y] = r[y] + 1
      OBVIOUS
    <3> QED BY ONLY <2>1, <2>2, <2>3, <2>5, <3>2, <3>3, <3>4
  <2> QED BY <2>4, <2>5
<1> QED BY <1>1 DEF Backed

\* A release of y, and one place gone.
LEMMA BackedRelease ==
  ASSUME NEW m, NEW r \in [Objects -> Nat], NEW P, Backed(m, r, P), NEW y \in Objects, r[y] > 0, NEW p,
         NEW P2 \in [Objects -> SUBSET AllPlaces], P[y] \ {p} \subseteq P2[y],
         \A x \in Objects \ {y} : P[x] \subseteq P2[x],
         NEW r2, r2 = [r EXCEPT ![y] = r[y] - 1]
  PROVE  Backed(m, r2, P2)
<1>1. ASSUME NEW x \in Objects \ {y}, m[x] = "alive" PROVE r2[x] <= Cardinality(P2[x])
  <2>1. P[x] \subseteq P2[x] /\ P2[x] \in SUBSET AllPlaces /\ r[x] \in Nat /\ r2[x] = r[x]
    OBVIOUS
  <2>2. Cardinality(P[x]) <= Cardinality(P2[x]) /\ Cardinality(P[x]) \in Nat /\ Cardinality(P2[x]) \in Nat
    BY <2>1, MoreIsMore
  <2>3. r[x] <= Cardinality(P[x])
    BY <1>1 DEF Backed
  <2> QED BY <2>1, <2>2, <2>3
<1>2. ASSUME m[y] = "alive" PROVE r2[y] <= Cardinality(P2[y])
  <2>1. P[y] \in SUBSET AllPlaces /\ r[y] <= Cardinality(P[y]) /\ r[y] \in Nat /\ r2[y] = r[y] - 1
    BY <1>2 DEF Backed
  <2>2. IsFiniteSet(P[y]) /\ Cardinality(P[y]) \in Nat
    BY <2>1, PlacesAreFinite
  <2>3. Cardinality(P[y] \ {p}) = IF p \in P[y] THEN Cardinality(P[y]) - 1 ELSE Cardinality(P[y])
    <3>1. CASE p \in P[y]
      BY <2>2, <3>1, FS_RemoveElement
    <3>2. CASE p \notin P[y]
      <4>1. P[y] \ {p} = P[y]
        BY <3>2
      <4> QED BY <3>2, <4>1
    <3> QED BY <3>1, <3>2
  <2>4. /\ Cardinality(P[y] \ {p}) <= Cardinality(P2[y])
        /\ Cardinality(P[y] \ {p}) \in Nat /\ Cardinality(P2[y]) \in Nat
    BY MoreIsMore
  <2> QED BY ONLY <2>1, <2>2, <2>3, <2>4
<1> QED BY <1>1, <1>2 DEF Backed

\* A literal y with the fields ys.
Uses(ys, x) == {f \in FieldNames : ys[f] = x}
Filled(y, ys, x) == {<<y, f>> : f \in Uses(ys, x)}

LiteralFits(m, r, P, y, ys, m2, r2, P2) ==
    /\ m \in [Objects -> MemStates] /\ r \in [Objects -> Nat] /\ Backed(m, r, P)
    /\ y \in Objects /\ r[y] = 0 /\ ys \in [FieldNames -> Objects \cup {Nil}]
    /\ \A x \in Objects, f \in FieldNames : <<y, f>> \notin P[x]
    /\ P2 \in [Objects -> SUBSET AllPlaces]
    /\ \A x \in Objects : P[x] \cup Filled(y, ys, x) \subseteq P2[x]
    /\ \A x \in Objects : r2[x] = r[x] + Cardinality(Uses(ys, x))
    /\ m2 = [m EXCEPT ![y] = "alive"]

LEMMA BackedLiteral ==
  ASSUME NEW m, NEW r, NEW P, NEW y, NEW ys, NEW m2, NEW r2, NEW P2,
         LiteralFits(m, r, P, y, ys, m2, r2, P2)
  PROVE  Backed(m2, r2, P2)
<1> USE DEF LiteralFits
<1>1. ASSUME NEW x \in Objects, m2[x] = "alive" PROVE r2[x] <= Cardinality(P2[x])
  <2> DEFINE F == Uses(ys, x)
             N == Filled(y, ys, x)
  <2>1. P[x] \cup N \subseteq P2[x] /\ P2[x] \in SUBSET AllPlaces /\ P[x] \in SUBSET AllPlaces /\ N \in SUBSET AllPlaces
    BY DEF Backed, Filled, Uses, AllPlaces
  <2>2. /\ IsFiniteSet(P[x]) /\ IsFiniteSet(N) /\ Cardinality(P[x]) \in Nat /\ Cardinality(N) \in Nat
        /\ Cardinality(P2[x]) \in Nat
    BY <2>1, PlacesAreFinite
  <2>3. Cardinality(N) = Cardinality(F)
    <3> DEFINE h == [f \in F |-> <<y, f>>]
    <3>1. h \in Bijection(F, N)
      BY DEF Bijection, Injection, Surjection, IsInjective, Filled, Uses
    <3>2. ExistsBijection(F, N)
      BY <3>1 DEF ExistsBijection
    <3>3. IsFiniteSet(F)
      <4>1. IsFiniteSet(FieldNames)
        BY CollectorAssumption, FS_Interval DEF FieldNames
      <4> QED BY <4>1, FS_Subset DEF Uses
    <3> QED BY <3>2, <3>3, FS_Bijection
  <2>4. P[x] \cap N = {}
    BY DEF Filled, Uses
  <2>5. Cardinality(P[x] \cup N) = Cardinality(P[x]) + Cardinality(N) - Cardinality(P[x] \cap N)
    BY <2>2, FS_Union
  <2>6. Cardinality(P[x] \cap N) = 0
    BY <2>4, FS_EmptySet
  <2>7. Cardinality(P[x] \cup N) <= Cardinality(P2[x])
    BY <2>1, MoreIsMore
  <2>8. r[x] <= Cardinality(P[x]) /\ r[x] \in Nat
    <3>1. CASE x = y
      BY <2>2, <3>1
    <3>2. CASE x # y
      BY <1>1, <3>2 DEF Backed
    <3> QED BY <3>1, <3>2
  <2>9. r2[x] = r[x] + Cardinality(F)
    OBVIOUS
  <2> HIDE DEF N, F
  <2> QED BY ONLY <2>2, <2>3, <2>5, <2>6, <2>7, <2>8, <2>9
<1> QED BY <1>1 DEF Backed

----------------------------------------------------------------------------
(***************************************************************************)
(* What hangs below a set: the least set that has it and that the fields   *)
(* do not leave.                                                           *)
(***************************************************************************)
FieldMaps == [Objects -> [FieldNames -> Objects \cup {Nil}]]

LEMMA BelowFacts ==
  ASSUME NEW k \in FieldMaps, NEW S \in SUBSET Objects
  PROVE  /\ S \subseteq Below(k, S) /\ Below(k, S) \in SUBSET Objects
         /\ \A y \in Below(k, S), f \in FieldNames : k[y][f] # Nil => k[y][f] \in Below(k, S)
         /\ \A T \in SUBSET Objects : S \subseteq T /\ Leads(k, T) => Below(k, S) \subseteq T
<1>1. S \subseteq Below(k, S) /\ Below(k, S) \in SUBSET Objects
  BY DEF Below
<1>2. ASSUME NEW y \in Below(k, S), NEW f \in FieldNames, k[y][f] # Nil PROVE k[y][f] \in Below(k, S)
  <2>1. y \in Objects /\ k[y][f] \in Objects
    BY <1>1, <1>2 DEF FieldMaps
  <2>2. ASSUME NEW T \in SUBSET Objects, S \subseteq T, Leads(k, T) PROVE k[y][f] \in T
    <3>1. y \in T
      BY <2>2 DEF Below
    <3> QED BY <1>2, <2>2, <3>1 DEF Leads
  <2> QED BY <2>1, <2>2 DEF Below
<1>3. \A T \in SUBSET Objects : S \subseteq T /\ Leads(k, T) => Below(k, S) \subseteq T
  BY DEF Below
<1> QED BY <1>1, <1>2, <1>3

\* A field may change when what it led to is a seed afterwards.
LEMMA BelowMoves ==
  ASSUME NEW k \in FieldMaps, NEW S \in SUBSET Objects, NEW k2 \in FieldMaps, NEW S2 \in SUBSET Objects,
         S \subseteq Below(k2, S2),
         \A y \in Objects, f \in FieldNames : k2[y][f] = k[y][f] \/ k[y][f] \in S2 \cup {Nil}
  PROVE  Below(k, S) \subseteq Below(k2, S2)
<1>1. /\ S2 \subseteq Below(k2, S2) /\ Below(k2, S2) \in SUBSET Objects
      /\ \A y \in Below(k2, S2), f \in FieldNames : k2[y][f] # Nil => k2[y][f] \in Below(k2, S2)
  BY BelowFacts
<1>2. Leads(k, Below(k2, S2))
  BY <1>1 DEF Leads
<1> QED BY <1>1, <1>2, BelowFacts

LEMMA SeedsTyped ==
  /\ CollectorTypeOK /\ direct \subseteq Freed => Seeds \in SUBSET Objects /\ Taken \in SUBSET Objects /\ kid \in FieldMaps
  /\ (CollectorTypeOK /\ direct \subseteq Freed => Seeds \in SUBSET Objects /\ Taken \in SUBSET Objects /\ kid \in FieldMaps)'
<1>1. CollectorTypeOK /\ direct \subseteq Freed => Seeds \in SUBSET Objects /\ Taken \in SUBSET Objects /\ kid \in FieldMaps
  <2> SUFFICES ASSUME CollectorTypeOK, direct \subseteq Freed
               PROVE  Seeds \in SUBSET Objects /\ Taken \in SUBSET Objects /\ kid \in FieldMaps
    OBVIOUS
  <2>1. ASSUME NEW s \in Seq(Objects) PROVE ToSet(s) \subseteq Objects
    BY DEF ToSet
  <2>2. ToSet(cand) \subseteq Objects /\ ToSet(live) \subseteq Objects /\ \A l \in Lists : ToSet(lists[l]) \subseteq Objects
    BY <2>1 DEF CollectorTypeOK
  <2> QED BY <2>2 DEF Seeds, Taken, Elements, Freed, CollectorTypeOK, FieldMaps
<1>2. (CollectorTypeOK /\ direct \subseteq Freed => Seeds \in SUBSET Objects /\ Taken \in SUBSET Objects /\ kid \in FieldMaps)'
  <2> SUFFICES ASSUME CollectorTypeOK', (direct \subseteq Freed)'
               PROVE  Seeds' \in SUBSET Objects /\ Taken' \in SUBSET Objects /\ kid' \in FieldMaps
    OBVIOUS
  <2>1. ASSUME NEW s \in Seq(Objects) PROVE ToSet(s) \subseteq Objects
    BY DEF ToSet
  <2>2. ToSet(cand') \subseteq Objects /\ ToSet(live') \subseteq Objects /\ \A l \in Lists : ToSet(lists'[l]) \subseteq Objects
    BY <2>1 DEF CollectorTypeOK
  <2> QED BY <2>2 DEF Seeds, Taken, Elements, Freed, CollectorTypeOK, FieldMaps
<1> QED BY <1>1, <1>2

----------------------------------------------------------------------------
(***************************************************************************)
(* The walks.                                                              *)
(***************************************************************************)
LEMMA FedStays ==
  ASSUME UNCHANGED <<kid, lists>>, NEW q,
         \A a \in Objects, g \in FieldNames : Feeds(a, g) /\ <<a, g>> # q => Feeds(a, g)'
  PROVE  \A z \in Objects : Backers[z] \ {q} \subseteq Backers'[z]
<1> SUFFICES ASSUME NEW z \in Objects, NEW p \in Backers[z], p # q PROVE p \in Backers'[z]
  OBVIOUS
<1>1. Slots(z)' = Slots(z)
  BY DEF Slots
<1>2. CASE p \in Slots(z)
  BY <1>1, <1>2 DEF Backers
<1>3. CASE p \in Fed(z)
  <2>1. PICK a \in Objects, g \in FieldNames : p = <<a, g>> /\ kid[a][g] = z /\ Feeds(a, g)
    BY <1>3 DEF Fed
  <2>2. Feeds(a, g)' /\ kid'[a][g] = z
    BY <2>1
  <2> QED BY <2>1, <2>2 DEF Backers, Fed
<1> QED BY <1>2, <1>3 DEF Backers

LEMMA FieldBacks ==
  ASSUME NEW x \in Objects, NEW f \in FieldNames, NEW z \in Objects, <<x, f>> \in Backers[z]
  PROVE  kid[x][f] = z /\ Feeds(x, f)
<1>1. <<x, f>> \notin Slots(z)
  BY CollectorAssumption DEF Slots
<1>2. <<x, f>> \in Fed(z)
  BY <1>1 DEF Backers
<1> QED BY <1>2 DEF Fed

LEMMA WalkReclaims ==
  ASSUME CollectorInv, CollectorInv', ReclaimInv, phase \in {"grey", "scan", "white"},
         UNCHANGED <<kid, lists, cand, live, direct, done, dying, phase>>,
         \A x \in Objects : Alive(x)' => Alive(x),
         \A x \in Objects : mem[x] = "freed" => mem'[x] = "freed",
         Backed(mem', rc', Backers'), Unborn', Justified', MarksOK', FreesOK'
  PROVE  ReclaimInv'
<1>1. Seeds' = Seeds
  BY DEF Seeds, Elements
<1>2. Taken' = ToSet(live) /\ Taken = ToSet(live)
  <2>1. \A x \in Objects : <<"root", x, 0>> \notin Pending
    BY DEF CollectorInv, Fits
  <2>2. \A x \in Objects : <<"root", x, 0>> \notin Pending'
    BY DEF CollectorInv, Fits
  <2> QED BY <2>1, <2>2 DEF Taken
<1>3. Anchored'
  BY <1>1, <1>2 DEF ReclaimInv, Anchored
<1>4. (direct \subseteq Freed)'
  BY DEF ReclaimInv, Freed
<1>5. ~done'
  BY DEF ReclaimInv, Idle
<1> QED BY <1>3, <1>4, <1>5 DEF ReclaimInv

LEMMA MarkGreyReclaims ==
  ASSUME CollectorInv, ReclaimInv, NEW y \in Objects, MarkGrey(y)
  PROVE  ReclaimInv'
<1> DEFINE more == IF colour[y] = "grey" THEN <<>> ELSE Children("grey", y)
           Added == IF colour[y] = "grey" THEN {} ELSE {<<"grey", y, g>> : g \in FieldNames}
<1>1. CollectorTypeOK /\ NoRepeat /\ Covered(mem, rc, Places) /\ CollectorInv'
  BY MarkGreyKeeps DEF CollectorInv
<1>2. more \in Seq(VisitSet) /\ ToSet(more) = Added /\ Once(more)
  BY EmptyStack, ChildrenVisits DEF Ops
<1>3. Visits("grey", y) /\ Goes(more)
  BY DEF MarkGrey
<1> HIDE DEF more
<1>4. PICK x \in Objects, f \in 0 .. Fields :
         /\ Visit = <<"grey", x, f>>
         /\ (f = 0 /\ x = y) \/ (f # 0 /\ f \in FieldNames /\ kid[x][f] = y)
  BY <1>1, <1>2, <1>3, VisitMoves
<1> DEFINE v == <<"grey", x, f>>
<1>5. v \in Pending /\ Pending = {v} \cup Rest /\ Pending' = Added \cup Rest
  BY <1>1, <1>2, <1>3, <1>4, VisitMoves
<1>6. phase = "grey"
  BY <1>5 DEF CollectorInv, Fits, Tracked
<1>7. f # 0 => <<x, f>> \in Places[y]
  <2> HAVE f # 0
  <2>1. colour[x] = "grey" /\ Alive(x)
    BY <1>5 DEF CollectorInv, SourcesOK, ColoursOK
  <2>2. <<x, f>> \in Held(y)
    BY <1>4, <1>5, <2>1 DEF Held, Counted
  <2> QED BY <2>2 DEF Places
<1>8. Alive(y)
  <2>1. CASE f = 0
    BY <1>4, <1>5, <2>1 DEF CollectorInv, SourcesOK
  <2>2. CASE f # 0
    BY <1>1, <1>7, <2>2, HeldIsCounted DEF Alive
  <2> QED BY <2>1, <2>2
<1>9. f # 0 => rc[y] > 0
  BY <1>1, <1>7, HeldIsCounted
<1>10. /\ colour' = [colour EXCEPT ![y] = "grey"]
       /\ UNCHANGED <<mem, buffered, cand, phase, live, kid, store, lists, dying, done, direct>>
  BY DEF MarkGrey, program
<1>11. colour \in [Objects -> Colours] /\ rc \in [Objects -> Nat]
  BY <1>1 DEF CollectorTypeOK, Covered
<1>12. colour'[y] = "grey" /\ \A z \in Objects \ {y} : colour'[z] = colour[z]
  BY <1>10, <1>11
<1>13. \A u \in Pending' : u[1] # "black"
  BY <1>1, <1>6, <1>10 DEF CollectorInv, Fits
<1>14. \A g \in FieldNames : colour[y] # "grey" => <<"grey", y, g>> \in Added
  OBVIOUS
<1> HIDE DEF Added
<1>15. ASSUME NEW z \in Objects, NEW g \in FieldNames, Feeds(z, g), <<z, g>> # <<x, f>>
       PROVE  Feeds(z, g)'
  <2>1. CASE z \in direct
    BY <1>10, <2>1 DEF Feeds
  <2>2. CASE Counted(z, g)
    <3>1. Alive(z) /\ Alive(z)'
      BY <1>10, <2>2 DEF Counted, Alive
    <3>2. CASE z = y /\ colour[y] # "grey"
      BY <1>5, <1>12, <1>14, <3>1, <3>2 DEF Feeds, Counted
    <3>3. CASE z # y \/ colour[y] = "grey"
      <4>1. colour'[z] = colour[z]
        BY <1>12, <3>3
      <4>2. CASE colour[z] = "grey"
        <5>1. <<"grey", z, g>> \in Pending
          BY <2>2, <4>2 DEF Counted
        <5>2. <<"grey", z, g>> # v
          BY <1>15
        <5>3. <<"grey", z, g>> \in Pending'
          BY <1>5, <5>1, <5>2
        <5> QED BY <3>1, <4>1, <4>2, <5>3 DEF Feeds, Counted
      <4>3. CASE colour[z] # "grey"
        BY <1>13, <2>2, <3>1, <4>1, <4>3 DEF Feeds, Counted
      <4> QED BY <4>2, <4>3
    <3> QED BY <3>2, <3>3
  <2> QED BY <1>15, <2>1, <2>2 DEF Feeds
<1>16. \A z \in Objects : Backers[z] \ {<<x, f>>} \subseteq Backers'[z]
  BY <1>10, <1>15, FedStays
<1>17. ASSUME NEW z \in Objects \ {y}, f # 0 PROVE Backers[z] \subseteq Backers'[z]
  <2>1. <<x, f>> \notin Backers[z]
    BY <1>4, <1>17, FieldBacks
  <2> QED BY <1>16, <2>1
<1>18. Backed(mem, rc', Backers')
  <2>1. CASE f = 0
    <3>1. rc' = rc
      BY <1>4, <1>11, <2>1 DEF MarkGrey
    <3>2. \A z \in Objects : <<x, f>> \notin Backers[z]
      <4>1. f \notin FieldNames
        BY <2>1, CollectorAssumption DEF FieldNames
      <4> QED BY <4>1, CollectorAssumption DEF Backers, Slots, Fed
    <3>3. \A z \in Objects : Backers[z] \subseteq Backers'[z]
      BY <1>16, <3>2
    <3>4. \A z \in Objects : rc[z] <= rc[z]
      BY <1>11
    <3> QED BY <1>11, <3>1, <3>3, <3>4, BackersTyped, BackedMore DEF ReclaimInv
  <2>2. CASE f # 0
    <3>1. rc' = [rc EXCEPT ![y] = rc[y] - 1]
      BY <1>4, <1>9, <2>2 DEF MarkGrey
    <3>2. Backers[y] \ {<<x, f>>} \subseteq Backers'[y]
      BY <1>16
    <3> QED BY <1>9, <1>11, <1>17, <2>2, <3>1, <3>2, BackersTyped, BackedRelease DEF ReclaimInv
  <2> QED BY <2>1, <2>2
<1>19. Unborn'
  <2>1. \A z \in Objects \ {y} : rc'[z] = rc[z]
    BY <1>11 DEF MarkGrey
  <2> QED BY <1>8, <1>10, <2>1 DEF ReclaimInv, Unborn, Alive
<1>20. Justified' /\ MarksOK' /\ FreesOK'
  BY <1>6, <1>10 DEF Justified, MarksOK, FreesOK
<1>21. /\ \A z \in Objects : Alive(z)' => Alive(z)
       /\ \A z \in Objects : mem[z] = "freed" => mem'[z] = "freed"
       /\ Backed(mem', rc', Backers')
  BY <1>10, <1>18 DEF Alive
<1> QED BY <1>1, <1>6, <1>10, <1>19, <1>20, <1>21, WalkReclaims

\* In the scan, an object is Counted or not as a whole but for the visits of
\* cyc_scan_black.
LEMMA ScanCounts ==
  ASSUME CollectorInv, phase = "scan", NEW a \in Objects, NEW g \in FieldNames
  PROVE  Counted(a, g) <=> Alive(a) /\ colour[a] \in {"black", "purple"} /\ <<"black", a, g>> \notin Pending
<1>1. <<"grey", a, g>> \notin Pending
  BY DEF CollectorInv, Fits
<1> QED BY <1>1 DEF Counted

LEMMA ScanCountsNext ==
  ASSUME CollectorInv', phase' = "scan", NEW a \in Objects, NEW g \in FieldNames
  PROVE  Counted(a, g)' <=> Alive(a)' /\ colour'[a] \in {"black", "purple"} /\ <<"black", a, g>> \notin Pending'
<1>1. <<"grey", a, g>> \notin Pending'
  BY DEF CollectorInv, Fits
<1> QED BY <1>1 DEF Counted

\* The marks stay where they were: the scan goes on below what it visits.
LEMMA MarksStay ==
  ASSUME CollectorTypeOK, MarksOK, phase = "scan", UNCHANGED <<kid, phase>>, NEW y \in Objects,
         NEW v \in Pending, v[2] \in Objects, Target(v) = y, y # Nil, v[3] = 0 \/ v[3] \in FieldNames,
         \A u \in Pending' : u \in Pending \/ u[2] = y,
         \A z \in Objects : colour'[z] = "purple" => colour[z] = "purple"
  PROVE  MarksOK' /\ colour[y] # "purple"
<1>1. PICK G \in SUBSET Objects : Within(G)
  BY DEF MarksOK
<1>2. y \in G
  <2>1. v[2] \in G
    BY <1>1 DEF Within
  <2>2. CASE v[3] = 0
    BY <2>1, <2>2 DEF Target
  <2>3. CASE v[3] # 0
    <3>1. kid[v[2]][v[3]] = y
      BY <2>3 DEF Target
    <3>2. y \in Kids(v[2])
      BY <2>3, <3>1 DEF Kids
    <3> QED BY <1>1, <2>1, <3>2 DEF Within
  <2> QED BY <2>2, <2>3
<1>3. Within(G)'
  <2>1. \A z \in G : Kids(z)' = Kids(z)
    BY DEF Kids
  <2> QED BY <1>1, <1>2, <2>1 DEF Within
<1> QED BY <1>1, <1>2, <1>3 DEF Within, MarksOK

\* What has a count is held by an element, by what was freed on its own count,
\* or by what is black again.
LEMMA CountIsAnchored ==
  ASSUME CollectorInv, ReclaimInv, phase = "scan", NEW y \in Objects, Alive(y), rc[y] > 0
  PROVE  y \in Below(kid, Seeds)
<1>1. CollectorTypeOK /\ Covered(mem, rc, Places) /\ direct \subseteq Freed
  BY DEF CollectorInv, ReclaimInv
<1>2. /\ Seeds \subseteq Below(kid, Seeds)
      /\ \A z \in Below(kid, Seeds), f \in FieldNames : kid[z][f] # Nil => kid[z][f] \in Below(kid, Seeds)
  BY <1>1, SeedsTyped, BelowFacts
<1>3. PICK p : p \in Backers[y]
  <2>1. rc[y] <= Cardinality(Backers[y]) /\ rc[y] \in Nat
    BY <1>1 DEF ReclaimInv, Backed, Alive, Covered
  <2>2. ASSUME Backers[y] = {} PROVE FALSE
    BY <2>1, <2>2, FS_EmptySet
  <2> QED BY <2>2
<1>4. CASE p \in Slots(y)
  <2>1. PICK l \in Lists, i \in 1 .. MaxLen : i <= Len(lists[l]) /\ lists[l][i] = y
    BY <1>4 DEF Slots
  <2>2. i \in DOMAIN lists[l]
    BY <1>1, <2>1, CollectorAssumption DEF CollectorTypeOK
  <2>3. y \in Elements
    BY <2>1, <2>2 DEF Elements, ToSet
  <2> QED BY <1>2, <2>3 DEF Seeds
<1>5. CASE p \in Fed(y)
  <2>1. PICK a \in Objects, g \in FieldNames : kid[a][g] = y /\ Feeds(a, g)
    BY <1>5 DEF Fed
  <2>2. a \in Below(kid, Seeds)
    <3>1. CASE a \in direct
      BY <1>2, <3>1 DEF Seeds
    <3>2. CASE Counted(a, g)
      BY <3>2, ScanCounts DEF ReclaimInv, Justified
    <3> QED BY <2>1, <3>1, <3>2 DEF Feeds
  <2> QED BY <1>2, <2>1, <2>2, CollectorAssumption
<1> QED BY <1>3, <1>4, <1>5 DEF Backers

LEMMA ScanReclaims ==
  ASSUME CollectorInv, ReclaimInv, NEW y \in Objects, Scan(y)
  PROVE  ReclaimInv'
<1> DEFINE op == IF rc[y] > 0 THEN "black" ELSE "scan"
           more == IF colour[y] = "grey" THEN Children(op, y) ELSE <<>>
           Added == IF colour[y] = "grey" THEN ChildVisits(op, y) ELSE {}
<1>1. CollectorTypeOK /\ NoRepeat /\ Covered(mem, rc, Places) /\ CollectorInv'
  BY ScanKeeps DEF CollectorInv
<1>2. more \in Seq(VisitSet) /\ ToSet(more) = Added /\ Once(more)
  BY EmptyStack, ChildrenVisits DEF Ops, ChildVisits
<1>3. Visits("scan", y) /\ Goes(more)
  BY DEF Scan
<1> HIDE DEF more
<1>4. PICK x \in Objects, f \in 0 .. Fields :
         /\ Visit = <<"scan", x, f>>
         /\ (f = 0 /\ x = y) \/ (f # 0 /\ f \in FieldNames /\ kid[x][f] = y)
  BY <1>1, <1>2, <1>3, VisitMoves
<1> DEFINE v == <<"scan", x, f>>
<1>5. v \in Pending /\ Pending = {v} \cup Rest /\ Pending' = Added \cup Rest
  BY <1>1, <1>2, <1>3, <1>4, VisitMoves
<1>6. phase = "scan" /\ Target(v) = y /\ y # Nil
  BY <1>4, <1>5, CollectorAssumption DEF CollectorInv, Fits, Target
<1>7. /\ colour' = [colour EXCEPT ![y] = IF colour[y] # "grey" THEN @ ELSE IF rc[y] > 0 THEN "black" ELSE "white"]
      /\ UNCHANGED <<mem, rc, buffered, cand, phase, live, kid, store, lists, dying, done, direct>>
  BY <1>1 DEF Scan, program, CollectorTypeOK
<1>8. colour \in [Objects -> Colours] /\ rc \in [Objects -> Nat]
  BY <1>1 DEF CollectorTypeOK, Covered
<1>9. /\ \A z \in Objects \ {y} : colour'[z] = colour[z]
      /\ colour[y] # "grey" => colour'[y] = colour[y]
      /\ colour[y] = "grey" => colour'[y] \in {"black", "white"} /\ (colour'[y] = "black" => rc[y] > 0)
  BY <1>7, <1>8 DEF Colours
<1>10. \A u \in Added : u[2] = y /\ colour[y] = "grey"
  BY DEF ChildVisits
<1> HIDE DEF Added
<1>11. ASSUME NEW a \in Objects, NEW g \in FieldNames, Feeds(a, g) PROVE Feeds(a, g)'
  <2>1. CASE a \in direct
    BY <1>7, <2>1 DEF Feeds
  <2>2. CASE Counted(a, g)
    <3>1. Alive(a) /\ colour[a] \in {"black", "purple"} /\ <<"black", a, g>> \notin Pending
      BY <1>6, <2>2, ScanCounts
    <3>2. colour'[a] = colour[a] /\ Alive(a)'
      BY <1>7, <1>9, <3>1 DEF Alive
    <3>3. <<"black", a, g>> \notin Pending'
      BY <1>5, <1>10, <3>1
    <3> QED BY <1>1, <1>6, <1>7, <3>1, <3>2, <3>3, ScanCountsNext DEF Feeds
  <2> QED BY <1>11, <2>1, <2>2 DEF Feeds
<1>12. Backed(mem, rc', Backers')
  <2>1. \A z \in Objects : Backers[z] \subseteq Backers'[z]
    <3>1. \A z \in Objects : Backers[z] \ {<<>>} \subseteq Backers'[z]
      BY <1>7, <1>11, FedStays
    <3>2. \A z \in Objects : <<>> \notin Backers[z]
      BY DEF Backers, Slots, Fed
    <3> QED BY <3>1, <3>2
  <2>2. \A z \in Objects : rc[z] <= rc[z]
    BY <1>8
  <2> QED BY <1>7, <1>8, <2>1, <2>2, BackersTyped, BackedMore DEF ReclaimInv
<1>13. Unborn'
  BY <1>7 DEF ReclaimInv, Unborn
<1>14. MarksOK'
  <2>1. \A u \in Pending' : u \in Pending \/ u[2] = y
    BY <1>5, <1>10
  <2>2. \A z \in Objects : colour'[z] = "purple" => colour[z] = "purple"
    BY <1>9
  <2>3. v[2] \in Objects /\ (v[3] = 0 \/ v[3] \in FieldNames)
    BY <1>4
  <2> QED BY <1>1, <1>5, <1>6, <1>7, <2>1, <2>2, <2>3, MarksStay DEF ReclaimInv
<1>15. Justified'
  <2>1. Seeds' = Seeds
    BY <1>7 DEF Seeds, Elements
  <2>2. ASSUME NEW z \in Objects, Alive(z)', colour'[z] \in {"black", "purple"} PROVE z \in Below(kid, Seeds)
    <3>1. Alive(z)
      BY <1>7, <2>2 DEF Alive
    <3>2. CASE z = y /\ colour[y] = "grey"
      BY <1>6, <1>9, <2>2, <3>1, <3>2, CountIsAnchored
    <3>3. CASE z # y \/ colour[y] # "grey"
      BY <1>6, <1>9, <2>2, <3>1, <3>3 DEF ReclaimInv, Justified
    <3> QED BY <3>2, <3>3
  <2> QED BY <1>7, <2>1, <2>2 DEF Justified
<1>16. FreesOK'
  BY <1>6, <1>7 DEF FreesOK
<1>17. /\ \A z \in Objects : Alive(z)' => Alive(z)
       /\ \A z \in Objects : mem[z] = "freed" => mem'[z] = "freed"
       /\ Backed(mem', rc', Backers')
  BY <1>7, <1>12 DEF Alive
<1> QED BY <1>1, <1>6, <1>7, <1>13, <1>14, <1>15, <1>16, <1>17, WalkReclaims

LEMMA ScanBlackReclaims ==
  ASSUME CollectorInv, ReclaimInv, NEW y \in Objects, ScanBlack(y)
  PROVE  ReclaimInv'
<1> DEFINE more == IF colour[y] = "black" THEN <<>> ELSE Children("black", y)
           Added == IF colour[y] = "black" THEN {} ELSE ChildVisits("black", y)
<1>1. CollectorTypeOK /\ NoRepeat /\ Covered(mem, rc, Places) /\ CollectorInv'
  BY ScanBlackKeeps DEF CollectorInv
<1>2. more \in Seq(VisitSet) /\ ToSet(more) = Added /\ Once(more)
  BY EmptyStack, ChildrenVisits DEF Ops, ChildVisits
<1>3. Visits("black", y) /\ Goes(more)
  BY DEF ScanBlack
<1> HIDE DEF more
<1>4. PICK x \in Objects, f \in 0 .. Fields :
         /\ Visit = <<"black", x, f>>
         /\ (f = 0 /\ x = y) \/ (f # 0 /\ f \in FieldNames /\ kid[x][f] = y)
  BY <1>1, <1>2, <1>3, VisitMoves
<1> DEFINE v == <<"black", x, f>>
<1>5. /\ v \in Pending /\ Pending = {v} \cup Rest /\ Pending' = Added \cup Rest
      /\ Tracked(v) => v \notin Rest
  BY <1>1, <1>2, <1>3, <1>4, VisitMoves
<1>6. /\ phase = "scan" /\ Target(v) = y /\ y # Nil /\ f # 0
      /\ f \in FieldNames /\ kid[x][f] = y /\ Alive(x) /\ colour[x] = "black"
  BY <1>4, <1>5, CollectorAssumption DEF CollectorInv, Fits, Target, SourcesOK
<1>7. v \notin Rest
  BY <1>5, <1>6 DEF Tracked
<1>8. colour \in [Objects -> Colours] /\ rc \in [Objects -> Nat]
  BY <1>1 DEF CollectorTypeOK, Covered
<1>9. /\ colour' = [colour EXCEPT ![y] = "black"] /\ rc' = [rc EXCEPT ![y] = rc[y] + 1]
      /\ UNCHANGED <<mem, buffered, cand, phase, live, kid, store, lists, dying, done, direct>>
  BY DEF ScanBlack, program
<1>10. /\ colour'[y] = "black" /\ \A z \in Objects \ {y} : colour'[z] = colour[z]
  BY <1>8, <1>9
<1>11. \A u \in Added : u[2] = y /\ colour[y] # "black"
  BY DEF ChildVisits
<1> HIDE DEF Added
<1>12. MarksOK' /\ colour[y] # "purple"
  <2>1. \A u \in Pending' : u \in Pending \/ u[2] = y
    BY <1>5, <1>11
  <2>2. \A z \in Objects : colour'[z] = "purple" => colour[z] = "purple"
    BY <1>10
  <2>3. v[2] \in Objects /\ (v[3] = 0 \/ v[3] \in FieldNames)
    BY <1>4
  <2> QED BY <1>1, <1>5, <1>6, <1>9, <2>1, <2>2, <2>3, MarksStay DEF ReclaimInv
<1>13. ASSUME NEW a \in Objects, NEW g \in FieldNames, Feeds(a, g) PROVE Feeds(a, g)'
  <2>1. CASE a \in direct
    BY <1>9, <2>1 DEF Feeds
  <2>2. CASE Counted(a, g)
    <3>1. Alive(a) /\ colour[a] \in {"black", "purple"} /\ <<"black", a, g>> \notin Pending
      BY <1>6, <2>2, ScanCounts
    <3>2. colour'[a] = colour[a] /\ Alive(a)' /\ (a = y => colour[y] = "black")
      BY <1>9, <1>10, <1>12, <3>1 DEF Alive
    <3>3. <<"black", a, g>> \notin Pending'
      BY <1>5, <1>11, <3>1, <3>2
    <3> QED BY <1>1, <1>6, <1>9, <3>1, <3>2, <3>3, ScanCountsNext DEF Feeds
  <2> QED BY <1>13, <2>1, <2>2 DEF Feeds
<1>14. \A z \in Objects : Backers[z] \subseteq Backers'[z]
  <2>1. \A z \in Objects : Backers[z] \ {<<>>} \subseteq Backers'[z]
    BY <1>9, <1>13, FedStays
  <2>2. \A z \in Objects : <<>> \notin Backers[z]
    BY DEF Backers, Slots, Fed
  <2> QED BY <2>1, <2>2
<1>15. <<x, f>> \notin Backers[y]
  <2>1. ASSUME <<x, f>> \in Backers[y] PROVE FALSE
    <3>1. Feeds(x, f)
      BY <1>6, <2>1, FieldBacks
    <3>2. x \notin direct
      BY <1>6 DEF ReclaimInv, Freed, Alive
    <3> QED BY <1>5, <1>6, <3>1, <3>2, ScanCounts DEF Feeds
  <2> QED BY <2>1
<1>16. <<x, f>> \in Backers'[y]
  <2>1. <<"black", x, f>> \notin Pending'
    BY <1>5, <1>6, <1>7, <1>11
  <2>2. Alive(x)' /\ colour'[x] = "black"
    BY <1>6, <1>9, <1>10 DEF Alive
  <2>3. Counted(x, f)'
    BY <1>1, <1>6, <1>9, <2>1, <2>2, ScanCountsNext
  <2> QED BY <1>6, <1>9, <2>3 DEF Backers, Fed, Feeds
<1>17. Backed(mem, rc', Backers')
  <2>1. Backers[y] \cup {<<x, f>>} \subseteq Backers'[y] /\ \A z \in Objects \ {y} : Backers[z] \subseteq Backers'[z]
    BY <1>14, <1>16
  <2>2. Backed(mem, rc, Backers) /\ Backers' \in [Objects -> SUBSET AllPlaces]
    BY BackersTyped DEF ReclaimInv
  <2>3. rc' = [rc EXCEPT ![y] = rc[y] + 1] /\ rc \in [Objects -> Nat]
    BY <1>8, <1>9
  <2> QED BY ONLY <1>15, <2>1, <2>2, <2>3, BackedRetain, y \in Objects
<1>18. Unborn'
  <2>1. PICK Old \in SUBSET Objects : Apart(Old)
    BY <1>6 DEF CollectorInv, OldOK
  <2>2. Alive(y)
    BY <1>5, <1>6, <2>1 DEF Apart, Targets, Sound
  <2>3. \A z \in Objects \ {y} : rc'[z] = rc[z]
    BY <1>8, <1>9
  <2> QED BY <1>9, <2>2, <2>3 DEF ReclaimInv, Unborn, Alive
<1>19. Justified'
  <2>1. Seeds' = Seeds
    BY <1>9 DEF Seeds, Elements
  <2>2. /\ direct \subseteq Freed
        /\ \A z \in Below(kid, Seeds), g \in FieldNames : kid[z][g] # Nil => kid[z][g] \in Below(kid, Seeds)
    BY <1>1, SeedsTyped, BelowFacts DEF ReclaimInv
  <2>3. y \in Below(kid, Seeds)
    <3>1. x \in Below(kid, Seeds)
      BY <1>6 DEF ReclaimInv, Justified
    <3> QED BY <1>6, <2>2, <3>1
  <2>4. ASSUME NEW z \in Objects, Alive(z)', colour'[z] \in {"black", "purple"} PROVE z \in Below(kid, Seeds)
    <3>1. Alive(z)
      BY <1>9, <2>4 DEF Alive
    <3> QED BY <1>6, <1>10, <2>3, <2>4, <3>1 DEF ReclaimInv, Justified
  <2> QED BY <1>9, <2>1, <2>4 DEF Justified
<1>20. FreesOK'
  BY <1>6, <1>9 DEF FreesOK
<1>21. /\ \A z \in Objects : Alive(z)' => Alive(z)
       /\ \A z \in Objects : mem[z] = "freed" => mem'[z] = "freed"
       /\ Backed(mem', rc', Backers')
  BY <1>9, <1>17 DEF Alive
<1> QED BY <1>1, <1>6, <1>9, <1>12, <1>18, <1>19, <1>20, <1>21, WalkReclaims

LEMMA CollectWhiteReclaims ==
  ASSUME CollectorInv, ReclaimInv, NEW y \in Objects, CollectWhite(y)
  PROVE  ReclaimInv'
<1> DEFINE dead == colour[y] = "white" /\ ~buffered[y]
           more == IF dead THEN Children("white", y) ELSE <<>>
           Added == IF dead THEN ChildVisits("white", y) ELSE {}
<1>1. CollectorTypeOK /\ NoRepeat /\ Covered(mem, rc, Places) /\ CollectorInv'
  BY CollectWhiteKeeps DEF CollectorInv
<1>2. more \in Seq(VisitSet) /\ ToSet(more) = Added /\ Once(more)
  BY EmptyStack, ChildrenVisits DEF Ops, ChildVisits
<1>3. Visits("white", y) /\ Goes(more)
  BY DEF CollectWhite
<1> HIDE DEF more
<1>4. PICK x \in Objects, f \in 0 .. Fields :
         /\ Visit = <<"white", x, f>>
         /\ (f = 0 /\ x = y) \/ (f # 0 /\ f \in FieldNames /\ kid[x][f] = y)
  BY <1>1, <1>2, <1>3, VisitMoves
<1> DEFINE v == <<"white", x, f>>
<1>5. v \in Pending /\ Pending = {v} \cup Rest /\ Pending' = Added \cup Rest
  BY <1>1, <1>2, <1>3, <1>4, VisitMoves
<1>6. phase = "white"
  BY <1>4, <1>5 DEF CollectorInv, Fits
<1>7. UNCHANGED <<rc, buffered, cand, phase, live, kid, store, lists, dying, done, direct>>
  BY DEF CollectWhite, program
<1>8. colour \in [Objects -> Colours] /\ rc \in [Objects -> Nat] /\ mem \in [Objects -> MemStates]
  BY <1>1 DEF CollectorTypeOK, Covered
<1>9. /\ ~dead => UNCHANGED <<mem, colour>>
      /\ dead => colour' = [colour EXCEPT ![y] = "black"] /\ mem' = [mem EXCEPT ![y] = "freed"]
  BY <1>8 DEF CollectWhite, FreeObject
<1>10. \A g \in FieldNames : dead => <<"white", y, g>> \in Added
  BY DEF ChildVisits
<1>11. \A u \in Added : u[2] = y
  BY DEF ChildVisits
<1>12. dead => colour[y] = "white"
  OBVIOUS
<1>13. ~dead => colour[y] # "white" \/ buffered[y] \in {TRUE}
  BY <1>1 DEF CollectorTypeOK
<1> HIDE DEF Added, dead
<1>14. /\ \A z \in Objects \ {y} : colour'[z] = colour[z] /\ mem'[z] = mem[z]
       /\ ~dead => colour'[y] = colour[y] /\ mem'[y] = mem[y]
       /\ dead => mem'[y] = "freed"
       /\ \A z \in Objects : Alive(z)' => Alive(z) /\ colour'[z] = colour[z]
       /\ \A z \in Objects : mem[z] = "freed" => mem'[z] = "freed"
       /\ \A z \in Objects : mem'[z] = "none" => mem[z] = "none"
  BY <1>8, <1>9 DEF Alive
<1>15. \A u \in Pending \cup Pending' : u[1] = "white"
  <2>1. \A u \in Pending : u[1] = "white"
    <3>1. \A u \in Pending : u \in VisitSet
      BY <1>1 DEF CollectorTypeOK, Pending, ToSet
    <3> QED BY <1>6, <3>1 DEF CollectorInv, Fits, VisitSet, Ops
  <2>2. \A u \in Pending' : u[1] = "white"
    BY <1>5, <2>1 DEF ChildVisits, Added
  <2> QED BY <2>1, <2>2
<1>16. ASSUME NEW a \in Objects, NEW g \in FieldNames, Feeds(a, g) PROVE Feeds(a, g)'
  <2>1. CASE a \in direct
    BY <1>7, <2>1 DEF Feeds
  <2>2. CASE Counted(a, g)
    <3>1. Alive(a) /\ colour[a] \in {"black", "purple"}
      BY <1>15, <2>2 DEF Counted
    <3>2. colour'[a] = colour[a] /\ Alive(a)'
      BY <1>12, <1>14, <3>1 DEF Alive
    <3> QED BY <1>15, <3>1, <3>2 DEF Feeds, Counted
  <2> QED BY <1>16, <2>1, <2>2 DEF Feeds
<1>17. Backed(mem', rc', Backers')
  <2>1. \A z \in Objects : Backers[z] \ {<<>>} \subseteq Backers'[z]
    BY <1>7, <1>16, FedStays
  <2>2. \A z \in Objects : <<>> \notin Backers[z]
    BY DEF Backers, Slots, Fed
  <2>3. \A z \in Objects : mem'[z] = "alive" => mem[z] = "alive"
    BY <1>14 DEF Alive
  <2>4. \A z \in Objects : Backers[z] \subseteq Backers'[z] /\ rc[z] <= rc[z]
    BY <1>8, <2>1, <2>2
  <2>5. Backed(mem, rc, Backers) /\ Backers' \in [Objects -> SUBSET AllPlaces]
    BY BackersTyped DEF ReclaimInv
  <2> QED BY <1>7, <1>8, <2>3, <2>4, <2>5, BackedMore
<1>18. Unborn'
  BY <1>7, <1>14 DEF ReclaimInv, Unborn
<1>19. Seeds' = Seeds
  BY <1>7 DEF Seeds, Elements
<1>20. Justified'
  BY <1>6, <1>7, <1>14, <1>19 DEF ReclaimInv, Justified
<1>21. \A z \in Objects : Stays(z) => Stays(z)'
  BY <1>7, <1>14, <1>19 DEF Stays
<1>22. Stays(y)' \/ dead
  <2>1. CASE colour[y] # "white"
    <3>1. colour[y] # "grey"
      BY <1>6 DEF CollectorInv, ColoursOK
    <3>2. colour[y] \in {"black", "purple"}
      BY <1>8, <2>1, <3>1 DEF Colours
    <3>3. Stays(y)
      BY <1>6, <3>2 DEF ReclaimInv, Justified, Stays
    <3> QED BY <1>21, <3>3
  <2>2. CASE ~dead /\ colour[y] = "white"
    <3>1. y \in ToSet(cand)
      BY <1>1, <1>13, <2>2 DEF CollectorInv, BufferIsExact
    <3>2. Seeds \subseteq Below(kid, Seeds)
      BY <1>1, SeedsTyped, BelowFacts DEF ReclaimInv
    <3>3. Stays(y)
      BY <3>1, <3>2 DEF Stays, Seeds
    <3> QED BY <1>21, <3>3
  <2> QED BY <1>12, <2>1, <2>2
<1>23. Stays(y)'
  BY <1>14, <1>22 DEF Stays, Alive
<1>24. FreesOK'
  <2>1. PICK A \in SUBSET Objects : Followed(A)
    BY <1>6 DEF ReclaimInv, FreesOK
  <2>2. y \in A
    <3>1. x \in A
      BY <1>5, <2>1 DEF Followed
    <3>2. f # 0 => y \in Kids(x)
      BY <1>4, CollectorAssumption DEF Kids
    <3> QED BY <1>4, <2>1, <3>1, <3>2 DEF Followed
  <2>3. /\ ToSet(live') \subseteq A /\ (\A z \in A : Kids(z)' \subseteq A) /\ (\A u \in Pending' : u[2] \in A)
    <3>1. \A z \in A : Kids(z)' = Kids(z)
      BY <1>7 DEF Kids
    <3> QED BY <1>5, <1>7, <1>11, <2>1, <2>2, <3>1 DEF Followed
  <2>4. ASSUME NEW z \in ToSet(live) PROVE Stays(z)' \/ <<"white", z, 0>> \in Pending'
    <3>1. z \in Objects
      BY <2>1 DEF Followed
    <3>2. CASE <<"white", z, 0>> = v
      BY <1>4, <1>23, <3>2
    <3>3. CASE <<"white", z, 0>> # v
      BY <1>5, <1>21, <2>1, <2>4, <3>1, <3>3 DEF Followed
    <3> QED BY <3>2, <3>3
  <2>5. ASSUME NEW z \in A, NEW g \in FieldNames, ~Alive(z)', NEW w \in Objects, w = kid[z][g]
        PROVE  Stays(w)' \/ <<"white", z, g>> \in Pending'
    <3>1. z \in Objects /\ w # Nil
      BY CollectorAssumption
    <3>2. CASE z = y /\ dead
      BY <1>5, <1>10, <3>2
    <3>3. CASE ~Alive(z)
      <4>1. Stays(w) \/ <<"white", z, g>> \in Pending
        BY <2>1, <2>5, <3>1, <3>3 DEF Followed, Stays
      <4>2. CASE <<"white", z, g>> = v
        <5>1. w = y
          BY <1>4, <2>5, <4>2, CollectorAssumption DEF FieldNames
        <5> QED BY <1>23, <5>1
      <4>3. CASE <<"white", z, g>> # v
        BY <1>5, <1>21, <4>1, <4>3
      <4> QED BY <4>2, <4>3
    <3>4. ~Alive(z) \/ (z = y /\ dead)
      BY <1>14, <2>5, <3>1 DEF Alive
    <3> QED BY <3>2, <3>3, <3>4
  <2>5a. ASSUME NEW z \in A, NEW g \in FieldNames, ~Alive(z)', kid'[z][g] # Nil
         PROVE  Stays(kid[z][g])' \/ <<"white", z, g>> \in Pending'
    <3>1. PICK w \in Objects : w = kid[z][g]
      BY <1>1, <1>7, <2>5a DEF CollectorTypeOK
    <3>2. Stays(w)' \/ <<"white", z, g>> \in Pending'
      BY <2>5, <2>5a, <3>1
    <3>3. kid'[z][g] = w
      BY <1>7, <3>1
    <3> QED BY <3>2, <3>3 DEF Stays
  <2>6. Followed(A)'
    BY <1>7, <2>3, <2>4, <2>5a DEF Followed
  <2> QED BY <2>6 DEF FreesOK
<1>25. MarksOK'
  BY <1>6, <1>7 DEF MarksOK
<1>26. \A z \in Objects : Alive(z)' => Alive(z)
  BY <1>14
<1> QED BY <1>1, <1>6, <1>7, <1>14, <1>17, <1>18, <1>20, <1>24, <1>25, <1>26, WalkReclaims

LEMMA PassOverReclaims ==
  ASSUME CollectorInv, ReclaimInv, PassOver
  PROVE  ReclaimInv'
<1>1. CollectorTypeOK /\ NoRepeat /\ Covered(mem, rc, Places) /\ CollectorInv'
  BY PassOverKeeps DEF CollectorInv
<1>2. walk \in Seq(VisitSet) /\ walk # <<>> /\ walk' = <<>> \o Tail(walk)
  BY <1>1 DEF CollectorTypeOK, PassOver, Goes
<1>3. Moved(VisitSet, walk, <<>>, walk')
  BY <1>2, EmptyStack, StackMoves
<1>4. Visit \in VisitSet /\ Pending = {Visit} \cup Rest /\ Pending' = Rest
  BY <1>2, <1>3, EmptyStack DEF Moved, Pending, Rest, Visit
<1>5. PICK op \in Ops, x \in Objects, f \in 0 .. Fields : Visit = <<op, x, f>>
  BY <1>4 DEF VisitSet
<1>6. f # 0 /\ f \in FieldNames /\ kid[x][f] = Nil
  BY <1>5, CollectorAssumption DEF PassOver, Target, FieldNames
<1>7. UNCHANGED <<mem, rc, colour, buffered, cand, phase, live, kid, store, lists, dying, done, direct>>
  BY DEF PassOver, headers, program, history
<1>8. Pending' \subseteq Pending /\ \A u \in Pending : u = <<op, x, f>> \/ u \in Pending'
  BY <1>4, <1>5
<1>9. phase \in {"grey", "scan", "white"}
  BY <1>4, <1>5, <1>6 DEF CollectorInv, Fits, Ops
<1>10. ASSUME NEW a \in Objects, NEW g \in FieldNames, Feeds(a, g), <<a, g>> # <<x, f>> PROVE Feeds(a, g)'
  <2>1. <<"grey", a, g>> \in Pending => <<"grey", a, g>> \in Pending'
    BY <1>8, <1>10
  <2>2. <<"black", a, g>> \notin Pending => <<"black", a, g>> \notin Pending'
    BY <1>8
  <2> QED BY <1>7, <1>10, <2>1, <2>2 DEF Feeds, Counted, Alive
<1>11. Backed(mem', rc', Backers')
  <2>1. \A z \in Objects : Backers[z] \ {<<x, f>>} \subseteq Backers'[z]
    BY <1>7, <1>10, FedStays
  <2>2. \A z \in Objects : <<x, f>> \notin Backers[z]
    BY <1>6, FieldBacks, CollectorAssumption
  <2>3. rc \in [Objects -> Nat]
    BY <1>1 DEF Covered
  <2>4. \A z \in Objects : Backers[z] \subseteq Backers'[z] /\ rc[z] <= rc[z]
    BY <2>1, <2>2, <2>3
  <2>5. Backed(mem, rc, Backers) /\ Backers' \in [Objects -> SUBSET AllPlaces]
    BY BackersTyped DEF ReclaimInv
  <2> QED BY <1>7, <2>3, <2>4, <2>5, BackedMore
<1>12. Seeds' = Seeds
  BY <1>7 DEF Seeds, Elements
<1>13. Unborn' /\ Justified'
  BY <1>7, <1>12 DEF ReclaimInv, Unborn, Justified, Alive
<1>14. MarksOK'
  <2>1. \A z \in Objects : Kids(z)' = Kids(z)
    BY <1>7 DEF Kids
  <2>2. ASSUME NEW G \in SUBSET Objects, Within(G) PROVE Within(G)'
    BY <1>7, <1>8, <2>1, <2>2 DEF Within
  <2> QED BY <1>7, <2>2 DEF ReclaimInv, MarksOK
<1>15. FreesOK'
  <2>1. \A z \in Objects : Kids(z)' = Kids(z)
    BY <1>7 DEF Kids
  <2>2. ASSUME NEW A \in SUBSET Objects, Followed(A) PROVE Followed(A)'
    <3>1. /\ ToSet(live') \subseteq A /\ (\A z \in A : Kids(z)' \subseteq A) /\ (\A u \in Pending' : u[2] \in A)
      BY <1>7, <1>8, <2>1, <2>2 DEF Followed
    <3>2. ASSUME NEW z \in ToSet(live') PROVE Stays(z)' \/ <<"white", z, 0>> \in Pending'
      BY <1>6, <1>7, <1>8, <1>12, <2>2, <3>2 DEF Followed, Stays, Alive
    <3>3. ASSUME NEW z \in A, NEW g \in FieldNames, ~Alive(z)', kid'[z][g] # Nil
          PROVE  Stays(kid[z][g])' \/ <<"white", z, g>> \in Pending'
      <4>1. Stays(kid[z][g]) \/ <<"white", z, g>> \in Pending
        BY <1>7, <2>2, <3>3 DEF Followed, Alive
      <4>2. <<"white", z, g>> # <<op, x, f>>
        BY <1>6, <1>7, <3>3
      <4> QED BY <1>7, <1>8, <1>12, <4>1, <4>2 DEF Stays, Alive
    <3> QED BY <3>1, <3>2, <3>3 DEF Followed
  <2> QED BY <1>7, <2>2 DEF ReclaimInv, FreesOK
<1>16. /\ \A z \in Objects : Alive(z)' => Alive(z)
       /\ \A z \in Objects : mem[z] = "freed" => mem'[z] = "freed"
  BY <1>7 DEF Alive
<1> QED BY <1>1, <1>7, <1>9, <1>11, <1>13, <1>14, <1>15, <1>16, WalkReclaims

----------------------------------------------------------------------------
(***************************************************************************)
(* Between collections, and in the loop that looks over the roots, an      *)
(* object counts its fields or none of them.                               *)
(***************************************************************************)
Holds(m, c, D, a) == (m[a] = "alive" /\ c[a] \in {"black", "purple"}) \/ a \in D
FedIn(m, c, k, D, x) == {p \in Objects \X FieldNames : k[p[1]][p[2]] = x /\ Holds(m, c, D, p[1])}
BackersIn(m, c, k, ls, D) == [x \in Objects |-> SlotsIn(ls, x) \cup FedIn(m, c, k, D, x)]

LEMMA BackersInTyped ==
  ASSUME NEW m, NEW c, NEW k, NEW ls, NEW D
  PROVE  BackersIn(m, c, k, ls, D) \in [Objects -> SUBSET AllPlaces]
BY DEF BackersIn, SlotsIn, FedIn, AllPlaces

LEMMA BackersRest ==
  /\ CollectorInv /\ (phase \in {"idle", "root"} \/ walk = <<>>) /\ (\A x \in Objects : colour[x] # "grey")
     => Backers = BackersIn(mem, colour, kid, lists, direct)
  /\ (CollectorInv /\ (phase \in {"idle", "root"} \/ walk = <<>>) /\ (\A x \in Objects : colour[x] # "grey")
      => Backers = BackersIn(mem, colour, kid, lists, direct))'
<1>1. ASSUME CollectorInv, phase \in {"idle", "root"} \/ walk = <<>>, \A x \in Objects : colour[x] # "grey"
      PROVE  Backers = BackersIn(mem, colour, kid, lists, direct)
  <2>1. \A z \in Objects, g \in FieldNames : <<"black", z, g>> \notin Pending
    BY <1>1, EmptyStack DEF CollectorInv, Fits, Pending
  <2>2. \A z \in Objects, g \in FieldNames : Feeds(z, g) <=> Holds(mem, colour, direct, z)
    BY <1>1, <2>1 DEF Feeds, Counted, Alive, Holds
  <2> QED BY <2>2 DEF Backers, BackersIn, Slots, SlotsIn, Fed, FedIn
<1>2. ASSUME CollectorInv', (phase \in {"idle", "root"} \/ walk = <<>>)', (\A x \in Objects : colour[x] # "grey")'
      PROVE  Backers' = BackersIn(mem', colour', kid', lists', direct')
  <2>1. \A z \in Objects, g \in FieldNames : <<"black", z, g>> \notin Pending'
    BY <1>2, EmptyStack DEF CollectorInv, Fits, Pending
  <2>2. \A z \in Objects, g \in FieldNames : Feeds(z, g)' <=> Holds(mem', colour', direct', z)
    BY <1>2, <2>1 DEF Feeds, Counted, Alive, Holds
  <2> QED BY <2>2 DEF Backers, BackersIn, Slots, SlotsIn, Fed, FedIn
<1> QED BY <1>1, <1>2

LEMMA RestReclaims ==
  ASSUME CollectorInv', phase' \in {"idle", "root"},
         Backed(mem', rc', BackersIn(mem', colour', kid', lists', direct')),
         Anchored', Unborn', (direct \subseteq Freed)', (done => Idle /\ cand = <<>> /\ dying = Nil)'
  PROVE  ReclaimInv'
<1>1. \A x \in Objects : colour'[x] # "grey"
  BY DEF CollectorInv, ColoursOK
<1>2. Backers' = BackersIn(mem', colour', kid', lists', direct')
  BY <1>1, BackersRest
<1>3. (Justified /\ MarksOK /\ FreesOK)'
  BY DEF Justified, MarksOK, FreesOK
<1>4. Backed(mem, rc, Backers)'
  BY <1>2
<1> QED BY <1>3, <1>4 DEF ReclaimInv

LEMMA RestIsBacked ==
  ASSUME CollectorInv, ReclaimInv, phase \in {"idle", "root"} \/ (phase = "white" /\ walk = <<>>)
  PROVE  Backed(mem, rc, BackersIn(mem, colour, kid, lists, direct))
<1>1. \A x \in Objects : colour[x] # "grey"
  BY DEF CollectorInv, ColoursOK
<1>2. Backers = BackersIn(mem, colour, kid, lists, direct)
  BY <1>1, BackersRest
<1> QED BY <1>2 DEF ReclaimInv

LEMMA VisitRootReclaims ==
  ASSUME CollectorInv, ReclaimInv, NEW y \in Objects, VisitRoot(y)
  PROVE  ReclaimInv'
<1>1. CollectorTypeOK /\ NoRepeat /\ Covered(mem, rc, Places) /\ CollectorInv'
  BY VisitRootKeeps DEF CollectorInv
<1>2. <<>> \in Seq(VisitSet) /\ ToSet(<<>>) = {} /\ Once(<<>>)
  BY EmptyStack
<1>3. Visits("root", y) /\ Goes(<<>>)
  BY DEF VisitRoot
<1>4. PICK x \in Objects, f \in 0 .. Fields :
         /\ Visit = <<"root", x, f>>
         /\ (f = 0 /\ x = y) \/ (f # 0 /\ f \in FieldNames /\ kid[x][f] = y)
  BY <1>1, <1>2, <1>3, VisitMoves
<1>5. Visit \in Pending /\ Pending = {Visit} \cup Rest /\ Pending' = Rest
  <2>1. Visit \in Pending /\ Pending = {Visit} \cup Rest /\ Pending' = ToSet(<<>>) \cup Rest
    BY <1>1, <1>2, <1>3, VisitMoves
  <2> QED BY <1>2, <2>1
<1>6. Visit = <<"root", y, 0>> /\ phase = "root" /\ Alive(y)
  BY <1>4, <1>5 DEF CollectorInv, Fits, SourcesOK
<1>7. UNCHANGED <<rc, colour, buffered, cand, phase, kid, store, lists, dying, done>>
  BY DEF VisitRoot, program
<1>8. rc \in [Objects -> Nat] /\ mem \in [Objects -> MemStates] /\ live \in Seq(Objects)
  BY <1>1 DEF CollectorTypeOK, Covered
<1>9. \/ rc[y] = 0 /\ mem' = [mem EXCEPT ![y] = "freed"] /\ direct' = direct \cup {y} /\ live' = live
      \/ UNCHANGED <<mem, direct>> /\ live' = Append(live, y)
  BY <1>8 DEF VisitRoot, FreeObject
<1>10. /\ \A z \in Objects \ {y} : mem'[z] = mem[z]
       /\ mem'[y] = mem[y] \/ (mem'[y] = "freed" /\ y \in direct')
       /\ \A z \in Objects : Alive(z)' => Alive(z)
       /\ direct \subseteq direct' /\ \A z \in direct' : z \in direct \/ (z = y /\ mem'[y] = "freed")
       /\ y \in direct' \/ live' = Append(live, y)
       /\ live' = live \/ live' = Append(live, y)
  BY <1>8, <1>9 DEF Alive
<1>11. ToSet(live) \subseteq ToSet(live') /\ (y \in direct' \/ y \in ToSet(live'))
  <2>1. ToSet(Append(live, y)) = ToSet(live) \cup {y}
    BY <1>8, AppendSet
  <2> QED BY <1>10, <2>1
<1>12. (direct \subseteq Freed)'
  BY <1>6, <1>10 DEF ReclaimInv, Freed, Alive
<1>13. /\ Seeds \in SUBSET Objects /\ Taken \in SUBSET Objects /\ kid \in FieldMaps
       /\ Seeds' \in SUBSET Objects /\ Taken' \in SUBSET Objects
  BY <1>1, <1>12, SeedsTyped DEF ReclaimInv, CollectorInv
<1>14. Anchored'
  <2>1. Seeds \cup Taken \subseteq Seeds' \cup Taken'
    <3>1. Elements' = Elements
      BY <1>7 DEF Elements
    <3>2. Seeds \subseteq Seeds'
      BY <1>7, <1>10, <3>1 DEF Seeds
    <3>3. ASSUME NEW z \in Objects, <<"root", z, 0>> \in Pending PROVE z \in Seeds' \cup Taken'
      <4>1. CASE z = y
        BY <1>11, <4>1 DEF Seeds, Taken
      <4>2. CASE z # y
        <5>1. <<"root", z, 0>> \in Pending'
          BY <1>5, <1>6, <3>3, <4>2
        <5> QED BY <5>1 DEF Taken
      <4> QED BY <4>1, <4>2
    <3> QED BY <1>11, <3>2, <3>3 DEF Taken
  <2>2. Seeds' \cup Taken' \subseteq Below(kid, Seeds' \cup Taken')
    BY <1>13, BelowFacts
  <2>3. Below(kid, Seeds \cup Taken) \subseteq Below(kid, Seeds' \cup Taken')
    <3>1. Seeds \cup Taken \subseteq Below(kid, Seeds' \cup Taken')
      BY <2>1, <2>2
    <3>2. Seeds \cup Taken \in SUBSET Objects /\ Seeds' \cup Taken' \in SUBSET Objects /\ kid \in FieldMaps
      BY <1>13
    <3> HIDE DEF Seeds
    <3> QED BY ONLY <3>1, <3>2, BelowMoves
  <2> QED BY <1>7, <1>10, <2>3 DEF ReclaimInv, Anchored
<1>15. Backed(mem', rc', BackersIn(mem', colour', kid', lists', direct'))
  <2> DEFINE P == BackersIn(mem, colour, kid, lists, direct)
             Q == BackersIn(mem', colour', kid', lists', direct')
  <2>1. \A z \in Objects : Holds(mem, colour, direct, z) => Holds(mem', colour', direct', z)
    <3> SUFFICES ASSUME NEW z \in Objects, Holds(mem, colour, direct, z) PROVE Holds(mem', colour', direct', z)
      OBVIOUS
    <3>1. CASE z = y
      BY <1>7, <1>10, <3>1 DEF Holds
    <3>2. CASE z # y
      BY <1>7, <1>10, <3>2 DEF Holds
    <3> QED BY <3>1, <3>2
  <2>2. \A z \in Objects : P[z] \subseteq Q[z]
    BY <1>7, <2>1 DEF BackersIn, SlotsIn, FedIn
  <2>3. Backed(mem, rc, P) /\ Q \in [Objects -> SUBSET AllPlaces]
    BY <1>6, RestIsBacked, BackersInTyped
  <2>4. \A z \in Objects : mem'[z] = "alive" => mem[z] = "alive"
    BY <1>10 DEF Alive
  <2> HIDE DEF P, Q
  <2>5. \A z \in Objects : rc[z] <= rc[z]
    BY <1>8
  <2>6. Backed(mem', rc, Q)
    BY <1>8, <2>2, <2>3, <2>4, <2>5, BackedMore
  <2> QED BY <1>7, <2>6 DEF Q
<1>16. Unborn'
  <2>1. \A z \in Objects : mem'[z] = "none" => mem[z] = "none"
    BY <1>10
  <2> QED BY <1>7, <2>1 DEF ReclaimInv, Unborn
<1>17. ~done'
  BY <1>6, <1>7 DEF ReclaimInv, Idle
<1> QED BY <1>1, <1>6, <1>7, <1>12, <1>14, <1>15, <1>16, <1>17, RestReclaims

\* What the scan leaves dark is below its roots, and what hangs there is alive.
LEMMA NextLoopReclaims ==
  ASSUME CollectorInv, ReclaimInv, NextLoop
  PROVE  ReclaimInv'
<1>0. PICK op : op = Following[phase]
  OBVIOUS
<1>1. CollectorTypeOK /\ Covered(mem, rc, Places) /\ CollectorInv'
  BY NextLoopKeeps DEF CollectorInv
<1>2. /\ \/ phase = "root" /\ op = "grey"
         \/ phase = "grey" /\ op = "scan"
         \/ phase = "scan" /\ op = "white"
      /\ phase' = op /\ walk = <<>>
      /\ UNCHANGED <<mem, rc, colour, buffered, cand, live, kid, store, lists, dying, done, direct>>
  <2>1. /\ phase \in DOMAIN Following /\ phase' = op /\ walk = <<>>
        /\ UNCHANGED <<mem, rc, colour, buffered, cand, live, kid, store, lists, dying, done, direct>>
    BY <1>0 DEF NextLoop, headers, program, history
  <2>2. DOMAIN Following = {"root", "grey", "scan"}
    BY DEF Following
  <2>3. Following["root"] = "grey" /\ Following["grey"] = "scan" /\ Following["scan"] = "white"
    BY DEF Following
  <2> QED BY <1>0, <2>1, <2>2, <2>3
<1>3. walk' = Roots(op, live) /\ op \in Ops /\ op # "root" /\ live \in Seq(Objects)
  BY <1>0, <1>1, <1>2 DEF NextLoop, Ops, CollectorTypeOK
<1>4. Pending = {} /\ Pending' = {<<op, x, 0>> : x \in ToSet(live)}
  <2>1. ToSet(Roots(op, live)) = {<<op, x, 0>> : x \in ToSet(live)}
    BY <1>3, RootsVisits
  <2> QED BY <1>2, <1>3, <2>1, EmptyStack DEF Pending
<1>5. \A u \in Pending' : u[1] # "root" /\ u[2] \in ToSet(live) /\ u[3] = 0
  BY <1>3, <1>4
<1>6. ToSet(live) \subseteq Objects
  BY <1>3 DEF ToSet
<1>7. Taken = ToSet(live) /\ Taken' = ToSet(live)
  BY <1>2, <1>4, <1>5 DEF Taken
<1>8. Seeds' = Seeds /\ Seeds \in SUBSET Objects /\ kid \in FieldMaps
  BY <1>1, <1>2, SeedsTyped DEF Seeds, Elements, ReclaimInv
<1>9. /\ Seeds \subseteq Below(kid, Seeds) /\ Below(kid, Seeds) \in SUBSET Objects
      /\ \A z \in Below(kid, Seeds), g \in FieldNames : kid[z][g] # Nil => kid[z][g] \in Below(kid, Seeds)
  BY <1>8, BelowFacts
<1>10. Anchored' /\ Unborn' /\ (direct \subseteq Freed)' /\ ~done'
  BY <1>2, <1>7, <1>8 DEF ReclaimInv, Anchored, Unborn, Alive, Freed, Idle
<1>11. Backed(mem', rc', Backers')
  <2>1. ASSUME NEW a \in Objects, NEW g \in FieldNames, Feeds(a, g) PROVE Feeds(a, g)'
    <3>1. <<"black", a, g>> \notin Pending'
      BY <1>5, CollectorAssumption DEF FieldNames
    <3> QED BY <1>2, <1>4, <2>1, <3>1 DEF Feeds, Counted, Alive
  <2>2. \A z \in Objects : Backers[z] \ {<<>>} \subseteq Backers'[z]
    BY <1>2, <2>1, FedStays
  <2>3. \A z \in Objects : <<>> \notin Backers[z]
    BY DEF Backers, Slots, Fed
  <2>4. rc \in [Objects -> Nat]
    BY <1>1 DEF Covered
  <2>5. \A z \in Objects : Backers[z] \subseteq Backers'[z] /\ rc[z] <= rc[z]
    BY <2>2, <2>3, <2>4
  <2>6. Backed(mem, rc, Backers) /\ Backers' \in [Objects -> SUBSET AllPlaces]
    BY BackersTyped DEF ReclaimInv
  <2> QED BY <1>2, <2>4, <2>5, <2>6, BackedMore
<1>12. CASE phase = "root"
  BY <1>2, <1>10, <1>11, <1>12 DEF ReclaimInv, Justified, MarksOK, FreesOK
<1>13. CASE phase = "grey"
  <2>1. \A z \in Grey, g \in FieldNames : kid[z][g] = Nil \/ kid[z][g] \in Grey
    BY <1>4, <1>13 DEF CollectorInv, GreyOK
  <2>2. ToSet(live) \subseteq Grey
    BY <1>4, <1>6, <1>13 DEF CollectorInv, RootsOK, Grey
  <2>3. Justified'
    <3> DEFINE T == Below(kid, Seeds) \cup Grey
    <3>1. Leads(kid, T) /\ Seeds \cup ToSet(live) \subseteq T /\ T \in SUBSET Objects
      BY <1>9, <2>1, <2>2 DEF Leads, Grey
    <3>2. Seeds \cup ToSet(live) \in SUBSET Objects
      BY <1>6, <1>8
    <3>3. Below(kid, Seeds \cup ToSet(live)) \subseteq T
      BY <1>8, <3>1, <3>2, BelowFacts
    <3>4. ASSUME NEW z \in Objects, Alive(z)', colour'[z] \in {"black", "purple"} PROVE z \in Below(kid, Seeds)
      <4>1. z \in Below(kid, Seeds \cup ToSet(live))
        BY <1>2, <1>7, <3>4 DEF ReclaimInv, Anchored, Alive
      <4>2. z \notin Grey
        BY <1>2, <3>4 DEF Grey
      <4> QED BY <3>3, <4>1, <4>2
    <3> QED BY <1>2, <1>8, <3>4 DEF Justified
  <2>4. MarksOK'
    <3>1. \A z \in Grey : Kids(z)' \subseteq Grey
      BY <1>2, <2>1 DEF Kids
    <3>2. \A z \in Grey : colour'[z] = "grey"
      BY <1>2 DEF Grey
    <3>3. Grey \in SUBSET Objects
      BY DEF Grey
    <3>4. PICK G \in SUBSET Objects : G = Grey
      BY <3>3
    <3>5. Within(G)'
      BY <1>5, <2>2, <3>1, <3>2, <3>4 DEF Within
    <3> QED BY <3>5 DEF MarksOK
  <2> QED BY <1>2, <1>10, <1>11, <1>13, <2>3, <2>4 DEF ReclaimInv, FreesOK
<1>14. CASE phase = "scan"
  <2>1. PICK Old \in SUBSET Objects : Apart(Old)
    BY <1>14 DEF CollectorInv, OldOK
  <2>2. PICK A \in SUBSET Objects : A = {z \in Objects \ Old : Alive(z)}
    OBVIOUS
  <2>3. ToSet(live) \subseteq A
    BY <1>6, <1>14, <2>1, <2>2 DEF Apart, Sound
  <2>4. \A z \in A : Kids(z)' \subseteq A /\ Alive(z)'
    <3>1. \A z \in A : Kids(z)' = Kids(z) /\ Kids(z) \subseteq Objects
      BY <1>1, <1>2, <2>2 DEF Kids, CollectorTypeOK
    <3> QED BY <1>2, <1>14, <2>1, <2>2, <3>1 DEF Apart, Sound, Alive
  <2>5. Followed(A)'
    <3>1. \A z \in ToSet(live) : <<"white", z, 0>> \in Pending'
      BY <1>2, <1>4, <1>14
    <3> QED BY <1>2, <1>5, <2>3, <2>4, <3>1 DEF Followed
  <2>6. FreesOK' /\ Justified'
    BY <1>2, <1>8, <1>14, <2>5 DEF FreesOK, Justified, ReclaimInv, Alive
  <2> QED BY <1>2, <1>10, <1>11, <1>14, <2>6 DEF ReclaimInv, MarksOK
<1> QED BY <1>2, <1>12, <1>13, <1>14

\* Everything below the roots that is still alive has a reason of its own.
LEMMA EndCollectionReclaims ==
  ASSUME CollectorInv, ReclaimInv, EndCollection
  PROVE  ReclaimInv'
<1>1. CollectorTypeOK /\ Covered(mem, rc, Places) /\ CollectorInv'
  BY EndCollectionKeeps DEF CollectorInv
<1>2. /\ phase = "white" /\ walk = <<>> /\ phase' = "idle" /\ walk' = <<>> /\ live' = <<>>
      /\ UNCHANGED <<mem, rc, colour, buffered, cand, kid, lists, dying, done, direct>>
  BY <1>1 DEF EndCollection, Stored, CollectorTypeOK, headers, history
<1>3. Pending = {} /\ Pending' = {} /\ ToSet(live') = {}
  BY <1>2, EmptyStack DEF Pending
<1>4. Taken = ToSet(live) /\ Taken' = {}
  BY <1>3 DEF Taken
<1>5. /\ Seeds' = Seeds /\ Seeds \in SUBSET Objects /\ Taken \in SUBSET Objects /\ kid \in FieldMaps
  BY <1>1, <1>2, SeedsTyped DEF Seeds, Elements, ReclaimInv
<1>6. /\ Seeds \subseteq Below(kid, Seeds) /\ Below(kid, Seeds) \in SUBSET Objects
      /\ \A z \in Below(kid, Seeds), g \in FieldNames : kid[z][g] # Nil => kid[z][g] \in Below(kid, Seeds)
  BY <1>5, BelowFacts
<1>7. PICK A \in SUBSET Objects : Followed(A)
  BY <1>2 DEF ReclaimInv, FreesOK
<1> DEFINE T == Below(kid, Seeds) \cup {z \in A : ~Alive(z)}
<1>8. T \in SUBSET Objects /\ Seeds \cup Taken \subseteq T
  <2>1. ToSet(live) \subseteq T
    BY <1>3, <1>7 DEF Followed, Stays
  <2> QED BY <1>4, <1>6, <2>1
<1>9. Leads(kid, T)
  <2>1. ASSUME NEW z \in A, ~Alive(z), NEW g \in FieldNames, kid[z][g] # Nil PROVE kid[z][g] \in T
    <3>1. Stays(kid[z][g])
      BY <1>3, <1>7, <2>1 DEF Followed
    <3>2. kid[z][g] \in A
      BY <1>7, <2>1 DEF Followed, Kids
    <3> QED BY <3>1, <3>2 DEF Stays
  <2> QED BY <1>6, <2>1 DEF Leads
<1>10. Below(kid, Seeds \cup Taken) \subseteq T
  BY <1>5, <1>8, <1>9, BelowFacts
<1>11. Anchored'
  <2>1. \A z \in Objects : Alive(z) => z \in Below(kid, Seeds)
    BY <1>10 DEF ReclaimInv, Anchored
  <2>2. Seeds' \cup Taken' = Seeds
    BY <1>4, <1>5
  <2> QED BY <1>2, <2>1, <2>2 DEF Anchored, Alive
<1>12. Unborn' /\ (direct \subseteq Freed)' /\ ~done'
  BY <1>2 DEF ReclaimInv, Unborn, Freed, Idle
<1>13. Backed(mem', rc', BackersIn(mem', colour', kid', lists', direct'))
  BY <1>2, RestIsBacked
<1> QED BY <1>1, <1>2, <1>11, <1>12, <1>13, RestReclaims

----------------------------------------------------------------------------
(***************************************************************************)
(* What the program does.                                                  *)
(***************************************************************************)
AtEase ==
    /\ Backed(mem, rc, BackersIn(mem, colour, kid, lists, direct))
    /\ \A z \in Objects : mem[z] = "alive" => z \in Below(kid, Seeds)
    /\ Seeds \in SUBSET Objects /\ kid \in FieldMaps
    /\ mem \in [Objects -> MemStates] /\ rc \in [Objects -> Nat] /\ lists \in [Lists -> Seq(Objects)]
    /\ \A z \in direct : mem[z] = "freed"
    /\ direct \subseteq Objects
    /\ walk = <<>> /\ live = <<>> /\ store = <<>>

LEMMA IdleIsAtEase ==
  ASSUME CollectorInv, ReclaimInv, Idle
  PROVE  AtEase
<1>1. CollectorTypeOK /\ walk = <<>> /\ live = <<>> /\ store = <<>> /\ direct \subseteq Freed
      /\ mem \in [Objects -> MemStates] /\ rc \in [Objects -> Nat] /\ lists \in [Lists -> Seq(Objects)]
  BY DEF CollectorInv, Fits, CollectorTypeOK, ReclaimInv, Idle, Covered
<1>2. Taken = {}
  BY <1>1, EmptyStack DEF Taken, Pending
<1>3. Seeds \in SUBSET Objects /\ kid \in FieldMaps /\ Seeds \cup Taken = Seeds
  BY <1>1, <1>2, SeedsTyped
<1>4. \A z \in Objects : mem[z] = "alive" => z \in Below(kid, Seeds)
  BY <1>3 DEF ReclaimInv, Anchored, Alive
<1>5. Backed(mem, rc, BackersIn(mem, colour, kid, lists, direct))
  BY RestIsBacked DEF Idle
<1> QED BY <1>1, <1>3, <1>4, <1>5 DEF AtEase, Freed

\* Nothing is released.
LEMMA QuietReclaims ==
  ASSUME CollectorInv, ReclaimInv, CollectorInv', Idle,
         UNCHANGED <<cand, phase, live, walk, direct>>,
         Backed(mem', rc', BackersIn(mem', colour', kid', lists', direct')),
         \A z \in Objects : mem'[z] = "alive" => z \in Below(kid', Seeds'),
         Unborn', \A z \in direct : mem'[z] = "freed",
         done' => cand = <<>> /\ dying' = Nil
  PROVE  ReclaimInv'
<1>1. walk' = <<>> /\ live' = <<>> /\ phase' = "idle" /\ direct \subseteq Objects
  BY IdleIsAtEase DEF AtEase, Idle
<1>2. Taken' = {}
  BY <1>1, EmptyStack DEF Taken, Pending
<1>3. Anchored'
  <2>1. Seeds' \cup Taken' = Seeds'
    BY <1>2
  <2> QED BY <2>1 DEF Anchored, Alive
<1>4. (direct \subseteq Freed)'
  BY <1>1 DEF Freed
<1> QED BY <1>1, <1>3, <1>4, RestReclaims DEF Idle

LEMMA CollectTakes ==
  ASSUME NEW cands \in Seq(Objects), IsInjective(cands), NEW flags, NEW take \in Nat, take <= Len(cands),
         Collect(cands, flags, take)
  PROVE  ToSet(cands) \subseteq ToSet(cand') \cup Taken' /\ phase' = "root"
<1>1. PICK a, b : a = SubSeq(cands, 1, take) /\ b = SubSeq(cands, take + 1, Len(cands))
  OBVIOUS
<1>2. Split(cands, take, a, b)
  BY <1>1, SplitSeq
<1>3. cand' = b /\ walk' = Roots("root", a) /\ phase' = "root"
  BY <1>1 DEF Collect
<1>4. ToSet(Roots("root", a)) = {<<"root", x, 0>> : x \in ToSet(a)}
  BY <1>2, RootsVisits DEF Split, Ops
<1>5. ToSet(a) \subseteq Objects
  BY <1>2 DEF Split, ToSet
<1>6. ToSet(a) \subseteq Taken'
  BY <1>3, <1>4, <1>5 DEF Taken, Pending
<1> QED BY <1>2, <1>3, <1>6 DEF Split

\* What a release of x does to the memory m that it finds.
Released(m, x) ==
    /\ phase' \in {"idle", "root"}
    /\ \A z \in Objects : Holds(m, colour, direct, z) => Holds(mem', colour', direct', z)
    /\ \A z \in Objects : mem'[z] = "alive" => m[z] = "alive"
    /\ \A z \in Objects : mem'[z] = "none" => m[z] = "none"
    /\ \A z \in direct' : mem'[z] = "freed"
    /\ direct' \subseteq Objects
    /\ {x} \cup ToSet(cand) \cup direct \subseteq ToSet(cand') \cup direct' \cup Taken'

LEMMA ReleaseIsMade ==
  ASSUME CollectorInv, ReclaimInv, Idle, NEW m \in [Objects -> MemStates], NEW counts \in [Objects -> Nat],
         NEW x \in Objects, Release(m, counts, x), counts[x] > 0, m[x] = "alive", colour[x] \in {"black", "purple"},
         \A z \in direct : m[z] = "freed"
  PROVE  Released(m, x) /\ rc' = [counts EXCEPT ![x] = counts[x] - 1]
<1>1. /\ direct \subseteq Objects /\ walk = <<>> /\ live = <<>> /\ phase = "idle"
      /\ colour \in [Objects -> Colours] /\ cand \in Seq(Objects) /\ IsInjective(cand)
      /\ \A z \in Objects : buffered[z] <=> z \in ToSet(cand)
  <2>1. /\ colour \in [Objects -> Colours] /\ cand \in Seq(Objects) /\ IsInjective(cand)
        /\ \A z \in Objects : buffered[z] <=> z \in ToSet(cand)
    BY DEF CollectorInv, CollectorTypeOK, BufferIsExact
  <2> QED BY <2>1, IdleIsAtEase DEF AtEase, Idle
<1>2. rc' = [counts EXCEPT ![x] = counts[x] - 1] /\ ReleaseObject(m, counts, x)
  BY CollectorAssumption DEF Release, ReleaseObject
<1>3. CASE counts[x] = 1 /\ buffered[x]
  <2>1. colour' = [colour EXCEPT ![x] = "black"] /\ mem' = m /\ UNCHANGED <<direct, cand, phase>>
    BY <1>2, <1>3 DEF ReleaseObject, collection
  <2> QED BY <1>1, <1>2, <1>3, <2>1 DEF Released, Holds
<1>4. CASE counts[x] = 1 /\ ~buffered[x]
  <2>1. mem' = [m EXCEPT ![x] = "freed"] /\ direct' = direct \cup {x} /\ UNCHANGED <<colour, cand, phase>>
    BY <1>2, <1>4 DEF ReleaseObject, FreeObject, collection
  <2> QED BY <1>1, <1>2, <2>1 DEF Released, Holds
<1>5. CASE counts[x] # 1 /\ buffered[x]
  <2>1. mem' = m /\ UNCHANGED <<direct, colour, cand, phase>>
    BY <1>2, <1>5 DEF ReleaseObject, collection
  <2> QED BY <1>1, <1>2, <1>5, <2>1 DEF Released, Holds
<1>6. CASE counts[x] # 1 /\ ~buffered[x]
  <2>1. Buffer(x) /\ mem' = m /\ direct' = direct
    BY <1>2, <1>6 DEF ReleaseObject
  <2>2. PICK cands, flags : cands = Append(cand, x) /\ flags = [buffered EXCEPT ![x] = TRUE]
    OBVIOUS
  <2>3. colour' = [colour EXCEPT ![x] = "purple"]
    BY <2>1 DEF Buffer
  <2>4. /\ cands \in Seq(Objects) /\ Len(cands) \in Nat
        /\ ToSet(cands) = ToSet(cand) \cup {x} /\ IsInjective(cands)
    BY <1>1, <1>6, <2>2, AppendSet
  <2>5. ToSet(cands) \subseteq ToSet(cand') \cup Taken' /\ phase' \in {"idle", "root"}
    <3>1. CASE Len(cands) >= Theta
      <4>1. PICK take : take = IF Len(cands) < KRoots THEN Len(cands) ELSE KRoots
        OBVIOUS
      <4>2. Collect(cands, flags, take)
        BY <2>1, <2>2, <3>1, <4>1 DEF Buffer
      <4>3. take \in Nat /\ take <= Len(cands)
        BY <2>4, <4>1, CollectorAssumption
      <4> QED BY <2>4, <4>2, <4>3, CollectTakes
    <3>2. CASE ~(Len(cands) >= Theta)
      BY <1>1, <2>1, <2>2, <3>2 DEF Buffer, collection
    <3> QED BY <3>1, <3>2
  <2>6. \A z \in Objects : Holds(m, colour, direct, z) => Holds(mem', colour', direct', z)
    BY <1>1, <2>1, <2>3 DEF Holds
  <2>7. {x} \cup ToSet(cand) \cup direct \subseteq ToSet(cand') \cup direct' \cup Taken'
    BY <2>1, <2>4, <2>5
  <2> QED BY <1>1, <1>2, <2>1, <2>5, <2>6, <2>7 DEF Released
<1> QED BY <1>3, <1>4, <1>5, <1>6

LEMMA ReleaseReclaims ==
  ASSUME CollectorInv, ReclaimInv, CollectorInv', Idle, ~done', NEW m \in [Objects -> MemStates],
         NEW counts \in [Objects -> Nat],
         NEW x \in Objects, Release(m, counts, x), counts[x] > 0, m[x] = "alive", colour[x] \in {"black", "purple"},
         Backed(m, [counts EXCEPT ![x] = counts[x] - 1], BackersIn(m, colour, kid', lists', direct)),
         \A z \in Objects : m[z] = "alive" => z \in Below(kid', {x} \cup Elements' \cup ToSet(cand) \cup direct),
         \A z \in Objects : m[z] = "none" => counts[z] = 0 /\ \A f \in FieldNames : kid'[z][f] = Nil,
         \A z \in direct : m[z] = "freed"
  PROVE  ReclaimInv'
<1>1. Released(m, x) /\ rc' = [counts EXCEPT ![x] = counts[x] - 1]
  BY ReleaseIsMade
<1>2. /\ (direct \subseteq Freed)' /\ phase' \in {"idle", "root"}
  BY <1>1 DEF Released, Freed
<1>3. Backed(mem', rc', BackersIn(mem', colour', kid', lists', direct'))
  <2> DEFINE P == BackersIn(m, colour, kid', lists', direct)
             Q == BackersIn(mem', colour', kid', lists', direct')
  <2>1. \A z \in Objects : Holds(m, colour, direct, z) => Holds(mem', colour', direct', z)
    BY <1>1 DEF Released
  <2>2. \A z \in Objects : P[z] \subseteq Q[z]
    BY <2>1 DEF BackersIn, FedIn
  <2>3. Backed(m, rc', P) /\ Q \in [Objects -> SUBSET AllPlaces]
    BY <1>1, BackersInTyped
  <2>4. (\A z \in Objects : mem'[z] = "alive" => m[z] = "alive") /\ rc' \in [Objects -> Nat]
    BY <1>1 DEF Released
  <2> HIDE DEF P, Q
  <2>5. \A z \in Objects : rc'[z] <= rc'[z]
    BY <2>4
  <2>6. Backed(mem', rc', Q)
    BY <2>2, <2>3, <2>4, <2>5, BackedMore
  <2> QED BY <2>6 DEF Q
<1>4. Anchored'
  <2> DEFINE S == {x} \cup Elements' \cup ToSet(cand) \cup direct
             S2 == Seeds' \cup Taken'
  <2>1. S2 \in SUBSET Objects /\ kid' \in FieldMaps
    BY <1>2, SeedsTyped DEF CollectorInv
  <2>2. S \subseteq S2
    BY <1>1 DEF Released, Seeds
  <2>3. S \in SUBSET Objects
    BY <2>1, <2>2
  <2> HIDE DEF S, S2
  <2>4. S2 \subseteq Below(kid', S2)
    BY <2>1, BelowFacts
  <2>5. S \subseteq Below(kid', S2)
    BY <2>2, <2>4
  <2>6. Below(kid', S) \subseteq Below(kid', S2)
    BY ONLY <2>1, <2>3, <2>5, BelowMoves
  <2>7. \A z \in Objects : mem'[z] = "alive" => z \in Below(kid', S)
    BY <1>1 DEF Released, S
  <2> QED BY <2>6, <2>7 DEF Anchored, Alive, S2
<1>5. Unborn'
  <2> SUFFICES ASSUME NEW z \in Objects, mem'[z] = "none"
               PROVE  rc'[z] = 0 /\ \A f \in FieldNames : kid'[z][f] = Nil
    BY DEF Unborn
  <2>1. m[z] = "none"
    BY <1>1 DEF Released
  <2>2. z # x
    BY <2>1
  <2> QED BY <1>1, <2>1, <2>2
<1> QED BY <1>2, <1>3, <1>4, <1>5, RestReclaims

\* What a push adds, and what a list's teardown takes away.
Extended(ls, l, x, ls2) ==
    /\ \A z \in Objects : SlotsIn(ls, z) \subseteq SlotsIn(ls2, z) /\ <<l, Len(ls[l]) + 1>> \notin SlotsIn(ls, z)
    /\ <<l, Len(ls[l]) + 1>> \in SlotsIn(ls2, x)
    /\ \A a \in Lists : ToSet(ls[a]) \subseteq ToSet(ls2[a])
    /\ x \in ToSet(ls2[l])

LEMMA AppendExtends ==
  ASSUME NEW ls \in [Lists -> Seq(Objects)], NEW l \in Lists, Len(ls[l]) < MaxLen, NEW x \in Objects,
         NEW ls2, ls2 = [ls EXCEPT ![l] = Append(ls[l], x)]
  PROVE  Extended(ls, l, x, ls2)
<1>2. PICK s, t, n : s = ls[l] /\ t = Append(s, x) /\ n = Len(s)
  OBVIOUS
<1>3. /\ s \in Seq(Objects) /\ t \in Seq(Objects) /\ Len(t) = n + 1 /\ n \in Nat
      /\ (\A i \in 1 .. n : t[i] = s[i]) /\ t[n + 1] = x /\ ToSet(t) = ToSet(s) \cup {x}
  BY <1>2, AppendSet
<1>4. ls2 \in [Lists -> Seq(Objects)] /\ ls2[l] = t /\ \A a \in Lists \ {l} : ls2[a] = ls[a]
  BY <1>2, <1>3
<1>5. n + 1 \in 1 .. MaxLen /\ ~(n + 1 <= n)
  BY <1>2, <1>3, CollectorAssumption
<1>6. ASSUME NEW z \in Objects, NEW p \in SlotsIn(ls, z)
      PROVE  p \in SlotsIn(ls2, z) /\ p # <<l, n + 1>>
  <2>1. PICK a \in Lists, i \in 1 .. MaxLen : p = <<a, i>> /\ i <= Len(ls[a]) /\ ls[a][i] = z
    BY DEF SlotsIn
  <2>2. CASE a # l
    BY <1>4, <2>1, <2>2 DEF SlotsIn
  <2>3. CASE a = l
    <3>1. i \in 1 .. n /\ i <= n + 1
      BY <1>2, <1>3, <2>1, <2>3
    <3> QED BY <1>2, <1>3, <1>4, <1>5, <2>1, <2>3, <3>1 DEF SlotsIn
  <2> QED BY <2>2, <2>3
<1>7. <<l, n + 1>> \in SlotsIn(ls2, x)
  BY <1>3, <1>4, <1>5 DEF SlotsIn
<1>8. \A a \in Lists : ToSet(ls[a]) \subseteq ToSet(ls2[a])
  BY <1>2, <1>3, <1>4
<1> QED BY <1>2, <1>3, <1>4, <1>6, <1>7, <1>8 DEF Extended

Cut(ls, l, x, ls2) ==
    /\ \A z \in Objects : SlotsIn(ls, z) \ {<<l, Len(ls[l])>>} \subseteq SlotsIn(ls2, z)
    /\ \A z \in Objects \ {x} : <<l, Len(ls[l])>> \notin SlotsIn(ls, z)
    /\ \A a \in Lists : ToSet(ls[a]) \subseteq ToSet(ls2[a]) \cup {x}

LEMMA FrontCuts ==
  ASSUME NEW ls \in [Lists -> Seq(Objects)], NEW l \in Lists, ls[l] # <<>>,
         NEW ls2, ls2 = [ls EXCEPT ![l] = Front(ls[l])]
  PROVE  Cut(ls, l, Last(ls[l]), ls2)
<1>2. PICK s, t, n : s = ls[l] /\ t = Front(s) /\ n = Len(s)
  OBVIOUS
<1>3. n \in Nat /\ n > 0 /\ s \in Seq(Objects) /\ s[n] \in Objects
  BY <1>2
<1>4. t \in Seq(Objects) /\ Len(t) = n - 1 /\ \A i \in 1 .. (n - 1) : t[i] = s[i]
  <2>1. \A i \in 1 .. (n - 1) : s[i] \in Objects
    BY <1>2, <1>3
  <2>2. n - 1 \in Int /\ 1 \in Int
    BY <1>3
  <2>3. /\ SubSeq(s, 1, n - 1) \in Seq(Objects)
        /\ Len(SubSeq(s, 1, n - 1)) = (IF 1 <= n - 1 THEN (n - 1) - 1 + 1 ELSE 0)
        /\ \A i \in 1 .. ((n - 1) - 1 + 1) : SubSeq(s, 1, n - 1)[i] = s[1 + i - 1]
    BY <2>1, <2>2, SubSeqProperties
  <2>4. (IF 1 <= n - 1 THEN (n - 1) - 1 + 1 ELSE 0) = n - 1 /\ (n - 1) - 1 + 1 = n - 1
    BY <1>3
  <2>5. \A i \in 1 .. (n - 1) : 1 + i - 1 = i
    BY <1>3
  <2> QED BY <1>2, <2>3, <2>4, <2>5 DEF Front
<1>5. ls2[l] = t /\ \A a \in Lists \ {l} : ls2[a] = ls[a]
  BY <1>2, <1>4
<1>6. Last(s) = s[n]
  BY <1>2 DEF Last
<1>7. ASSUME NEW z \in Objects, NEW p \in SlotsIn(ls, z), p # <<l, n>>
      PROVE  p \in SlotsIn(ls2, z)
  <2>1. PICK a \in Lists, i \in 1 .. MaxLen : p = <<a, i>> /\ i <= Len(ls[a]) /\ ls[a][i] = z
    BY DEF SlotsIn
  <2>2. CASE a # l
    BY <1>5, <2>1, <2>2 DEF SlotsIn
  <2>3. CASE a = l
    <3>1. i \in 1 .. (n - 1) /\ i <= n - 1
      BY <1>2, <1>3, <1>7, <2>1, <2>3
    <3> QED BY <1>2, <1>4, <1>5, <2>1, <2>3, <3>1 DEF SlotsIn
  <2> QED BY <2>2, <2>3
<1>8. \A z \in Objects \ {s[n]} : <<l, n>> \notin SlotsIn(ls, z)
  BY <1>2 DEF SlotsIn
<1>9. ToSet(s) \subseteq ToSet(t) \cup {s[n]}
  <2>1. DOMAIN s = 1 .. n /\ DOMAIN t = 1 .. (n - 1)
    BY <1>2, <1>3, <1>4
  <2>2. \A i \in 1 .. n : i = n \/ i \in 1 .. (n - 1)
    BY <1>3
  <2> QED BY <1>4, <2>1, <2>2 DEF ToSet
<1> QED BY <1>2, <1>5, <1>6, <1>7, <1>8, <1>9 DEF Cut

\* What hung below the seeds still does when there are more of them.
LEMMA MoreSeeds ==
  ASSUME NEW k \in FieldMaps, NEW S, NEW S2 \in SUBSET Objects, S \subseteq S2
  PROVE  Below(k, S) \subseteq Below(k, S2)
<1>1. S \in SUBSET Objects /\ S2 \subseteq Below(k, S2)
  BY BelowFacts
<1> QED BY <1>1, BelowMoves

LEMMA PushReclaims ==
  ASSUME CollectorInv, ReclaimInv, NEW l \in Lists, NEW x \in Reachable, Push(l, x)
  PROVE  ReclaimInv'
<1>1. /\ Idle /\ ~done /\ Len(lists[l]) < MaxLen /\ rc' = Retain(rc, x)
      /\ lists' = [lists EXCEPT ![l] = Append(lists[l], x)]
      /\ UNCHANGED <<mem, colour, buffered, cand, phase, live, walk, kid, store, dying, done, direct>>
  BY DEF Push, Running, collection, history
<1>2. AtEase /\ CollectorInv' /\ x \in Objects /\ mem[x] = "alive"
  BY <1>1, IdleIsAtEase, PushKeeps, ReachableRests
<1>3. Extended(lists, l, x, lists')
  BY <1>1, <1>2, AppendExtends DEF AtEase
<1>4. rc' = [rc EXCEPT ![x] = rc[x] + 1] /\ rc \in [Objects -> Nat]
  BY <1>1, <1>2, CollectorAssumption DEF Retain, AtEase
<1>5. PICK P, P2 : P = BackersIn(mem, colour, kid, lists, direct) /\ P2 = BackersIn(mem, colour, kid, lists', direct)
  OBVIOUS
<1>6. Backed(mem, rc, P) /\ P2 \in [Objects -> SUBSET AllPlaces]
  BY <1>2, <1>5, BackersInTyped DEF AtEase
<1>7. PICK p : p = <<l, Len(lists[l]) + 1>>
  OBVIOUS
<1>8. p \notin P[x] /\ P[x] \cup {p} \subseteq P2[x] /\ \A z \in Objects \ {x} : P[z] \subseteq P2[z]
  <2>1. p \notin FedIn(mem, colour, kid, direct, x)
    BY <1>7, CollectorAssumption DEF FedIn
  <2> QED BY <1>2, <1>3, <1>5, <1>7, <2>1 DEF BackersIn, Extended
<1>9. Backed(mem, rc', P2)
  BY ONLY <1>2, <1>4, <1>6, <1>8, BackedRetain
<1>10. (direct \subseteq Freed)'
  BY <1>1, <1>2 DEF AtEase, Freed
<1>11. Seeds \subseteq Seeds' /\ Seeds' \in SUBSET Objects
  <2>1. Elements \subseteq Elements'
    BY <1>3 DEF Elements, Extended
  <2> QED BY <1>1, <1>2, <1>10, <2>1, SeedsTyped DEF Seeds, CollectorInv
<1>12. \A z \in Objects : mem'[z] = "alive" => z \in Below(kid', Seeds')
  BY <1>1, <1>2, <1>11, MoreSeeds DEF AtEase
<1>13. Unborn'
  <2>1. \A z \in Objects \ {x} : rc'[z] = rc[z]
    BY <1>4
  <2> QED BY <1>1, <1>2, <2>1 DEF ReclaimInv, Unborn
<1>14. Backed(mem', rc', BackersIn(mem', colour', kid', lists', direct')) /\ ~done'
       /\ \A z \in direct : mem'[z] = "freed"
  BY <1>1, <1>2, <1>5, <1>9 DEF AtEase
<1> QED BY <1>1, <1>2, <1>12, <1>13, <1>14, QuietReclaims

\* The steps that leave the objects and the lists alone.
LEMMA StillReclaims ==
  ASSUME CollectorInv, ReclaimInv, CollectorInv', Idle,
         UNCHANGED <<mem, rc, colour, cand, phase, live, walk, kid, lists, direct>>,
         done' => cand = <<>> /\ dying' = Nil
  PROVE  ReclaimInv'
<1>1. AtEase
  BY IdleIsAtEase
<1>2. Seeds' = Seeds
  BY DEF Seeds, Elements
<1>3. /\ Unborn'
      /\ \A z \in Objects : mem'[z] = "alive" => z \in Below(kid', Seeds')
      /\ Backed(mem', rc', BackersIn(mem', colour', kid', lists', direct'))
      /\ \A z \in direct : mem'[z] = "freed"
  BY <1>1, <1>2 DEF AtEase, ReclaimInv, Unborn
<1> QED BY <1>3, QuietReclaims

LEMMA BeginReleaseReclaims ==
  ASSUME CollectorInv, ReclaimInv, NEW l \in Lists, BeginRelease(l)
  PROVE  ReclaimInv'
<1>1. /\ Idle /\ ~done' /\ UNCHANGED <<mem, rc, colour, cand, phase, live, walk, kid, lists, direct>>
  BY DEF BeginRelease, Running, headers, collection, history
<1> QED BY <1>1, BeginReleaseKeeps, StillReclaims

LEMMA FinalReclaims ==
  ASSUME CollectorInv, ReclaimInv, Final
  PROVE  ReclaimInv'
<1>1. /\ Idle /\ cand = <<>> /\ dying' = Nil
      /\ UNCHANGED <<mem, rc, colour, cand, phase, live, walk, kid, lists, direct>>
  BY DEF Final, Running, headers, collection, history
<1> QED BY <1>1, FinalKeeps, StillReclaims

LEMMA CollectNowReclaims ==
  ASSUME CollectorInv, ReclaimInv, CollectNow
  PROVE  ReclaimInv'
<1>1. /\ Idle /\ ~done /\ Collect(cand, buffered, Len(cand))
      /\ UNCHANGED <<mem, rc, colour, kid, store, lists, dying, done, direct>>
  BY DEF CollectNow, Running, program, history
<1>2. AtEase /\ CollectorInv'
  BY <1>1, IdleIsAtEase, CollectNowKeeps
<1>3. cand \in Seq(Objects) /\ IsInjective(cand)
  BY DEF CollectorInv, CollectorTypeOK, BufferIsExact
<1>4. ToSet(cand) \subseteq ToSet(cand') \cup Taken' /\ phase' = "root"
  <2>1. PICK cands, take : cands = cand /\ take = Len(cand)
    OBVIOUS
  <2>2. take \in Nat /\ take <= Len(cands)
    BY <1>3, <2>1
  <2> QED BY <1>1, <1>3, <2>1, <2>2, CollectTakes
<1>5. (direct \subseteq Freed)'
  BY <1>1, <1>2 DEF AtEase, Freed
<1>6. Anchored'
  <2>1. Seeds \subseteq Seeds' \cup Taken'
    BY <1>1, <1>4 DEF Seeds, Elements
  <2>2. Seeds' \cup Taken' \in SUBSET Objects
    BY <1>2, <1>5, SeedsTyped DEF CollectorInv
  <2>3. Below(kid, Seeds) \subseteq Below(kid, Seeds' \cup Taken')
    BY <1>2, <2>1, <2>2, MoreSeeds DEF AtEase
  <2> QED BY <1>1, <1>2, <2>3 DEF AtEase, Anchored, Alive
<1>7. Unborn' /\ Backed(mem', rc', BackersIn(mem', colour', kid', lists', direct')) /\ ~done'
  BY <1>1, <1>2 DEF AtEase, ReclaimInv, Unborn
<1> QED BY <1>2, <1>4, <1>5, <1>6, <1>7, RestReclaims

LEMMA ReleaseLastReclaims ==
  ASSUME CollectorInv, ReclaimInv, ReleaseLast
  PROVE  ReclaimInv'
<1>1. /\ Idle /\ dying # Nil /\ Release(mem, rc, Last(lists[dying]))
      /\ lists' = [lists EXCEPT ![dying] = Front(lists[dying])]
      /\ UNCHANGED <<kid, store, done>>
  BY DEF ReleaseLast
<1>2. AtEase /\ CollectorInv' /\ ~done'
  BY <1>1, IdleIsAtEase, ReleaseLastKeeps DEF ReclaimInv
<1>3. PICK l, x, n : l = dying /\ x = Last(lists[l]) /\ n = Len(lists[l])
  OBVIOUS
<1>4. /\ Shape(kid, lists, dying) /\ Covered(mem, rc, PlacesIn(mem, colour, kid, lists)) /\ Headers(mem, rc, colour)
  BY <1>1, IdleRests DEF Resting, AtRest
<1>5. l \in Lists /\ lists[l] # <<>>
  BY <1>1, <1>3, <1>4 DEF Shape
<1>6. x \in Objects /\ <<l, n>> \in SlotsIn(lists, x)
  <2>1. PICK d2 : d2 = IF Len(lists[l]) = 1 THEN Nil ELSE l
    OBVIOUS
  <2>2. Shortened(kid, lists, l, lists', d2)
    BY <1>1, <1>3, <1>4, <1>5, <2>1, FrontSlots
  <2> QED BY <1>3, <2>2 DEF Shortened
<1>7. Cut(lists, l, x, lists')
  BY <1>1, <1>2, <1>3, <1>5, FrontCuts DEF AtEase
<1>8. mem[x] = "alive" /\ rc[x] \in Nat /\ rc[x] > 0 /\ colour[x] \in {"black", "purple"}
  <2>1. <<l, n>> \in PlacesIn(mem, colour, kid, lists)[x]
    BY <1>6 DEF PlacesIn
  <2>2. mem[x] = "alive" /\ rc[x] \in Nat /\ rc[x] > 0
    BY <1>4, <1>6, <2>1, HeldIsCounted
  <2> QED BY <1>4, <1>6, <2>2 DEF Headers, Colours
<1>9. PICK P, P2, r2 : /\ P = BackersIn(mem, colour, kid, lists, direct)
                       /\ P2 = BackersIn(mem, colour, kid', lists', direct)
                       /\ r2 = [rc EXCEPT ![x] = rc[x] - 1]
  OBVIOUS
<1>10. Backed(mem, rc, P) /\ P2 \in [Objects -> SUBSET AllPlaces] /\ rc \in [Objects -> Nat]
  BY <1>2, <1>9, BackersInTyped DEF AtEase
<1>11. P[x] \ {<<l, n>>} \subseteq P2[x] /\ \A z \in Objects \ {x} : P[z] \subseteq P2[z]
  <2>1. \A z \in Objects : /\ P[z] = SlotsIn(lists, z) \cup FedIn(mem, colour, kid, direct, z)
                          /\ P2[z] = SlotsIn(lists', z) \cup FedIn(mem, colour, kid, direct, z)
    BY <1>1, <1>9 DEF BackersIn
  <2>2. \A z \in Objects : SlotsIn(lists, z) \ {<<l, n>>} \subseteq SlotsIn(lists', z)
    BY <1>3, <1>7 DEF Cut
  <2>3. \A z \in Objects \ {x} : <<l, n>> \notin SlotsIn(lists, z)
    BY <1>3, <1>7 DEF Cut
  <2> QED BY <1>6, <2>1, <2>2, <2>3
<1>12. Backed(mem, r2, P2)
  BY ONLY <1>6, <1>8, <1>9, <1>10, <1>11, BackedRelease
<1>13. \A z \in Objects : mem[z] = "alive" => z \in Below(kid', {x} \cup Elements' \cup ToSet(cand) \cup direct)
  <2>1. PICK S2 : S2 = {x} \cup Elements' \cup ToSet(cand) \cup direct
    OBVIOUS
  <2>2. Seeds \subseteq S2
    BY <1>7, <2>1 DEF Seeds, Elements, Cut
  <2>3. S2 \in SUBSET Objects
    <3>1. Elements' \subseteq Objects
      <4>1. lists' \in [Lists -> Seq(Objects)]
        BY <1>2 DEF CollectorInv, CollectorTypeOK
      <4> QED BY <4>1 DEF Elements, ToSet
    <3> QED BY <1>2, <1>6, <2>1, <3>1 DEF AtEase, Seeds
  <2>4. Below(kid, Seeds) \subseteq Below(kid, S2)
    BY <1>2, <2>2, <2>3, MoreSeeds DEF AtEase
  <2> QED BY <1>1, <1>2, <2>1, <2>4 DEF AtEase
<1>14. \A z \in Objects : mem[z] = "none" => rc[z] = 0 /\ \A f \in FieldNames : kid'[z][f] = Nil
  BY <1>1 DEF ReclaimInv, Unborn
<1>15. Release(mem, rc, x) /\ Backed(mem, [rc EXCEPT ![x] = rc[x] - 1], BackersIn(mem, colour, kid', lists', direct))
  BY <1>1, <1>3, <1>9, <1>12
<1>16. mem \in [Objects -> MemStates] /\ \A z \in direct : mem[z] = "freed"
  BY <1>2 DEF AtEase
<1> QED BY <1>1, <1>2, <1>6, <1>8, <1>10, <1>13, <1>14, <1>15, <1>16, ReleaseReclaims

\* A literal: its fields are paid for, and what hung below the seeds still does.
Paid(y, m2, k2, r1) ==
    /\ Backed(m2, r1, BackersIn(m2, colour, k2, lists, direct))
    /\ k2 \in FieldMaps /\ r1 \in [Objects -> Nat] /\ m2 \in [Objects -> MemStates]
    /\ \A z \in Objects : m2[z] = "none" => r1[z] = 0 /\ \A f \in FieldNames : k2[z][f] = Nil
    /\ \A z \in direct : m2[z] = "freed"
    /\ \A f \in FieldNames : kid[y][f] = Nil

LEMMA LiteralIsBacked ==
  ASSUME CollectorInv, ReclaimInv, Idle, NEW y \in Objects, mem[y] = "none",
         NEW ys \in [FieldNames -> Reachable \cup {Nil}],
         NEW m2, m2 = [mem EXCEPT ![y] = "alive"], NEW k2, k2 = [kid EXCEPT ![y] = ys],
         NEW r1, r1 = RetainAll(ys)
  PROVE  Paid(y, m2, k2, r1)
<1>1. /\ Reachable \subseteq Objects
      /\ \A x \in Reachable : mem[x] = "alive" /\ colour[x] \in {"black", "purple"}
      /\ AtEase
  BY ReachableRests, IdleIsAtEase
<1>2. /\ mem \in [Objects -> MemStates] /\ rc \in [Objects -> Nat] /\ kid \in FieldMaps
      /\ \A z \in direct : mem[z] = "freed"
  BY <1>1 DEF AtEase
<1>3. ys \in [FieldNames -> Objects \cup {Nil}] /\ \A f \in FieldNames : ys[f] # Nil => mem[ys[f]] = "alive"
  BY <1>1
<1>4. k2 \in FieldMaps /\ k2[y] = ys /\ \A a \in Objects \ {y} : k2[a] = kid[a]
  BY <1>2, <1>3 DEF FieldMaps
<1>5. m2 \in [Objects -> MemStates] /\ m2[y] = "alive" /\ \A a \in Objects \ {y} : m2[a] = mem[a]
  BY <1>2 DEF MemStates
<1>6. rc[y] = 0 /\ \A f \in FieldNames : kid[y][f] = Nil
  BY DEF ReclaimInv, Unborn
<1>7. y \notin direct /\ colour[y] = "black"
  BY <1>2 DEF CollectorInv, ColoursOK
<1>8. PICK P, P1 : P = BackersIn(mem, colour, kid, lists, direct) /\ P1 = BackersIn(m2, colour, k2, lists, direct)
  OBVIOUS
<1>9. Backed(mem, rc, P) /\ P1 \in [Objects -> SUBSET AllPlaces]
  BY <1>1, <1>8, BackersInTyped DEF AtEase
<1>10. \A z \in Objects : /\ P[z] = SlotsIn(lists, z) \cup FedIn(mem, colour, kid, direct, z)
                          /\ P1[z] = SlotsIn(lists, z) \cup FedIn(m2, colour, k2, direct, z)
  BY <1>8 DEF BackersIn
<1>11. ASSUME NEW z \in Objects, NEW f \in FieldNames PROVE <<y, f>> \notin P[z]
  <2>1. <<y, f>> \notin SlotsIn(lists, z)
    BY CollectorAssumption DEF SlotsIn
  <2>2. <<y, f>> \notin FedIn(mem, colour, kid, direct, z)
    BY <1>7 DEF FedIn, Holds
  <2> QED BY <1>10, <2>1, <2>2
<1>12. ASSUME NEW z \in Objects
       PROVE  P[z] \cup Filled(y, ys, z) \subseteq P1[z]
  <2>1. ASSUME NEW p \in FedIn(mem, colour, kid, direct, z) PROVE p \in FedIn(m2, colour, k2, direct, z)
    <3>1. PICK a \in Objects, g \in FieldNames :
             p = <<a, g>> /\ kid[a][g] = z /\ Holds(mem, colour, direct, a)
      BY DEF FedIn
    <3>2. a # y
      BY <1>7, <3>1 DEF Holds
    <3>3. Holds(m2, colour, direct, a) /\ k2[a][g] = z
      BY <1>4, <1>5, <3>1, <3>2 DEF Holds
    <3> QED BY <3>1, <3>3 DEF FedIn
  <2>2. ASSUME NEW f \in FieldNames, ys[f] = z PROVE <<y, f>> \in FedIn(m2, colour, k2, direct, z)
    BY <1>4, <1>5, <1>7, <2>2 DEF FedIn, Holds
  <2>3. Filled(y, ys, z) \subseteq FedIn(m2, colour, k2, direct, z)
    BY <2>2 DEF Filled, Uses
  <2> QED BY <1>10, <2>1, <2>3
<1>13. r1 = [x \in Objects |-> rc[x] + Cardinality({f \in FieldNames : ys[f] = x})]
  BY DEF RetainAll
<1>14. Backed(m2, r1, P1)
  <2>1. \A x \in Objects, f \in FieldNames : <<y, f>> \notin P[x]
    BY <1>11
  <2>2. \A x \in Objects : P[x] \cup Filled(y, ys, x) \subseteq P1[x]
    BY <1>12
  <2>3. \A x \in Objects : r1[x] = rc[x] + Cardinality(Uses(ys, x))
    BY <1>13 DEF Uses
  <2>4. mem \in [Objects -> MemStates] /\ rc \in [Objects -> Nat] /\ rc[y] = 0
    BY <1>2, <1>6
  <2>5. ys \in [FieldNames -> Objects \cup {Nil}] /\ m2 = [mem EXCEPT ![y] = "alive"]
    BY <1>3
  <2>6. LiteralFits(mem, rc, P, y, ys, m2, r1, P1)
    BY ONLY <1>9, <2>1, <2>2, <2>3, <2>4, <2>5, y \in Objects DEF LiteralFits
  <2> QED BY <2>6, BackedLiteral
<1>15. r1 \in [Objects -> Nat]
  <2>1. ASSUME NEW z \in Objects PROVE Cardinality({f \in FieldNames : ys[f] = z}) \in Nat
    <3>1. IsFiniteSet(FieldNames)
      BY CollectorAssumption, FS_Interval DEF FieldNames
    <3>2. IsFiniteSet({f \in FieldNames : ys[f] = z})
      BY <3>1, FS_Subset
    <3> QED BY <3>2, FS_CardinalityType
  <2> QED BY <1>2, <1>13, <2>1
<1>16. ASSUME NEW z \in Objects, m2[z] = "none" PROVE r1[z] = 0 /\ \A f \in FieldNames : k2[z][f] = Nil
  <2>1. z # y /\ mem[z] = "none"
    BY <1>5, <1>16
  <2>2. rc[z] = 0 /\ \A f \in FieldNames : kid[z][f] = Nil
    BY <2>1 DEF ReclaimInv, Unborn
  <2>3. {f \in FieldNames : ys[f] = z} = {}
    BY <1>3, <2>1, CollectorAssumption
  <2>4. Cardinality({f \in FieldNames : ys[f] = z}) = 0
    BY <2>3, FS_EmptySet
  <2>5. r1[z] = 0
    BY <1>13, <2>2, <2>4
  <2> QED BY <1>4, <2>1, <2>2, <2>5
<1>17. \A z \in direct : m2[z] = "freed"
  BY <1>1, <1>2, <1>5, <1>7 DEF AtEase
<1> QED BY <1>4, <1>5, <1>6, <1>8, <1>14, <1>15, <1>16, <1>17 DEF Paid

LEMMA NewReclaims ==
  ASSUME CollectorInv, ReclaimInv, NEW l \in Lists, NEW x \in Objects,
         NEW ys \in [FieldNames -> Reachable \cup {Nil}], New(l, x, ys)
  PROVE  ReclaimInv'
<1>1. /\ Idle /\ ~done /\ mem[x] = "none" /\ Len(lists[l]) < MaxLen
      /\ mem' = [mem EXCEPT ![x] = "alive"] /\ rc' = Retain(RetainAll(ys), x)
      /\ kid' = [kid EXCEPT ![x] = ys] /\ lists' = [lists EXCEPT ![l] = Append(lists[l], x)]
      /\ UNCHANGED <<colour, buffered, cand, phase, live, walk, store, dying, done, direct>>
  BY DEF New, Running, collection, history
<1>2. AtEase /\ CollectorInv'
  BY <1>1, IdleIsAtEase, NewKeeps
<1>3. PICK r1 : r1 = RetainAll(ys)
  OBVIOUS
<1>4. /\ Backed(mem', r1, BackersIn(mem', colour, kid', lists, direct))
      /\ kid' \in FieldMaps /\ r1 \in [Objects -> Nat]
      /\ \A z \in Objects : mem'[z] = "none" => r1[z] = 0 /\ \A f \in FieldNames : kid'[z][f] = Nil
      /\ \A z \in direct : mem'[z] = "freed"
      /\ \A f \in FieldNames : kid[x][f] = Nil
  <2>1. Paid(x, mem', kid', r1)
    BY <1>1, <1>3, LiteralIsBacked
  <2> QED BY <2>1 DEF Paid
<1>5. Extended(lists, l, x, lists')
  BY <1>1, <1>2, AppendExtends DEF AtEase
<1>6. rc' = [r1 EXCEPT ![x] = r1[x] + 1]
  BY <1>1, <1>3, <1>4, CollectorAssumption DEF Retain
<1>7. PICK P, P2, p : /\ P = BackersIn(mem', colour, kid', lists, direct)
                      /\ P2 = BackersIn(mem', colour', kid', lists', direct')
                      /\ p = <<l, Len(lists[l]) + 1>>
  OBVIOUS
<1>8. Backed(mem', r1, P) /\ P2 \in [Objects -> SUBSET AllPlaces]
  BY <1>4, <1>7, BackersInTyped
<1>9. p \notin P[x] /\ P[x] \cup {p} \subseteq P2[x] /\ \A z \in Objects \ {x} : P[z] \subseteq P2[z]
  <2>1. p \notin FedIn(mem', colour, kid', direct, x)
    BY <1>7, CollectorAssumption DEF FedIn
  <2>2. \A z \in Objects : /\ P[z] = SlotsIn(lists, z) \cup FedIn(mem', colour, kid', direct, z)
                           /\ P2[z] = SlotsIn(lists', z) \cup FedIn(mem', colour, kid', direct, z)
    BY <1>1, <1>7 DEF BackersIn
  <2> QED BY <1>5, <1>7, <2>1, <2>2 DEF Extended
<1>10. Backed(mem', rc', P2)
  BY ONLY <1>4, <1>6, <1>8, <1>9, x \in Objects, BackedRetain
<1>11. (direct \subseteq Freed)'
  BY <1>1, <1>2, <1>4 DEF AtEase, Freed
<1>12. Seeds \subseteq Seeds' /\ Seeds' \in SUBSET Objects /\ x \in Seeds'
  <2>1. Elements \subseteq Elements' /\ x \in Elements'
    BY <1>5 DEF Elements, Extended
  <2> QED BY <1>1, <1>2, <1>11, <2>1, SeedsTyped DEF Seeds, CollectorInv
<1>13. Seeds' \subseteq Below(kid', Seeds')
  BY <1>4, <1>12, BelowFacts
<1>14. Below(kid, Seeds) \subseteq Below(kid', Seeds')
  <2>1. \A z \in Objects, f \in FieldNames : kid'[z][f] = kid[z][f] \/ kid[z][f] \in Seeds' \cup {Nil}
    <3> TAKE z \in Objects, f \in FieldNames
    <3>1. CASE z = x
      BY <1>4, <3>1
    <3>2. CASE z # x
      BY <1>1, <1>2, <3>2 DEF AtEase, FieldMaps
    <3> QED BY <3>1, <3>2
  <2>2. kid \in FieldMaps /\ Seeds \in SUBSET Objects /\ Seeds \subseteq Below(kid', Seeds')
    BY <1>2, <1>12, <1>13 DEF AtEase
  <2> QED BY <1>4, <1>12, <2>1, <2>2, BelowMoves
<1>15. \A z \in Objects : mem'[z] = "alive" => z \in Below(kid', Seeds')
  <2> TAKE z \in Objects
  <2>1. CASE z = x
    BY <1>12, <1>13, <2>1
  <2>2. CASE z # x
    <3>1. mem'[z] = mem[z]
      BY <1>1, <1>2, <2>2 DEF AtEase
    <3> QED BY <1>2, <1>14, <3>1 DEF AtEase
  <2> QED BY <2>1, <2>2
<1>16. Unborn'
  <2>1. ASSUME NEW z \in Objects, mem'[z] = "none" PROVE rc'[z] = 0 /\ \A f \in FieldNames : kid'[z][f] = Nil
    <3>1. z # x
      BY <1>1, <1>2, <2>1 DEF AtEase
    <3> QED BY <1>4, <1>6, <2>1, <3>1
  <2> QED BY <2>1 DEF Unborn
<1>17. Backed(mem', rc', BackersIn(mem', colour', kid', lists', direct')) /\ ~done'
  BY <1>1, <1>7, <1>10
<1> QED BY <1>1, <1>2, <1>4, <1>15, <1>16, <1>17, QuietReclaims

\* The counts after a field store, from above.
StoreBacked(m, r, c, k, ls, D, x, f, y, k2) ==
    /\ k[x][f] = Nil => Backed(m, Retain(r, y), BackersIn(m, c, k2, ls, D))
    /\ k[x][f] # Nil =>
         Backed(m, [Retain(r, y) EXCEPT ![k[x][f]] = Retain(r, y)[k[x][f]] - 1], BackersIn(m, c, k2, ls, D))

LEMMA StoreIsBacked ==
  ASSUME NEW m, NEW r \in [Objects -> Nat], NEW c, NEW ls, NEW D, NEW k \in FieldMaps,
         NEW x \in Objects, NEW f \in FieldNames, NEW y \in Objects \cup {Nil},
         Holds(m, c, D, x), k[x][f] # Nil => r[k[x][f]] > 0,
         Backed(m, r, BackersIn(m, c, k, ls, D)),
         NEW k2, k2 = [k EXCEPT ![x][f] = y]
  PROVE  StoreBacked(m, r, c, k, ls, D, x, f, y, k2)
<1>1. PICK old, P, P2, counts, p :
         /\ old = k[x][f] /\ P = BackersIn(m, c, k, ls, D) /\ P2 = BackersIn(m, c, k2, ls, D)
         /\ counts = Retain(r, y) /\ p = <<x, f>>
  OBVIOUS
<1>2. Backed(m, r, P) /\ P2 \in [Objects -> SUBSET AllPlaces] /\ P \in [Objects -> SUBSET AllPlaces]
      /\ old \in Objects \cup {Nil}
  BY <1>1, BackersInTyped DEF FieldMaps
<1>3. \A a \in Objects, g \in FieldNames : k2[a][g] = IF a = x /\ g = f THEN y ELSE k[a][g]
  BY DEF FieldMaps
<1>4. \A z \in Objects : /\ P[z] = SlotsIn(ls, z) \cup FedIn(m, c, k, D, z)
                         /\ P2[z] = SlotsIn(ls, z) \cup FedIn(m, c, k2, D, z)
                         /\ p \notin SlotsIn(ls, z)
  BY <1>1, CollectorAssumption DEF BackersIn, SlotsIn
<1>5. ASSUME NEW z \in Objects PROVE P[z] \ {p} \subseteq P2[z] /\ (p \in P[z] => z = old)
  <2>1. ASSUME NEW q \in FedIn(m, c, k, D, z), q # p PROVE q \in FedIn(m, c, k2, D, z)
    <3>1. PICK a \in Objects, g \in FieldNames : q = <<a, g>> /\ k[a][g] = z /\ Holds(m, c, D, a)
      BY DEF FedIn
    <3>2. k2[a][g] = z
      BY <1>1, <1>3, <2>1, <3>1
    <3> QED BY <3>1, <3>2 DEF FedIn
  <2>2. p \in FedIn(m, c, k, D, z) => z = old
    BY <1>1 DEF FedIn
  <2> QED BY <1>4, <2>1, <2>2
<1>6. y # Nil => p \in P2[y]
  <2> HAVE y # Nil
  <2>1. p \in FedIn(m, c, k2, D, y)
    BY <1>1, <1>3 DEF FedIn
  <2> QED BY <1>4, <2>1
<1>7. /\ y = Nil => counts = r
      /\ y # Nil => counts = [r EXCEPT ![y] = r[y] + 1]
  BY <1>1 DEF Retain
<1>8. ASSUME old = Nil PROVE Backed(m, counts, P2)
  <2>1. \A z \in Objects : P[z] \subseteq P2[z] /\ p \notin P[z]
    BY <1>5, <1>8, CollectorAssumption
  <2>2. CASE y = Nil
    <3>1. \A z \in Objects : P[z] \subseteq P2[z] /\ r[z] <= r[z]
      BY <2>1
    <3> QED BY <1>2, <1>7, <2>2, <3>1, BackedMore
  <2>3. CASE y # Nil
    <3>1. y \in Objects /\ counts = [r EXCEPT ![y] = r[y] + 1]
      BY <1>7, <2>3
    <3>2. p \notin P[y] /\ P[y] \cup {p} \subseteq P2[y] /\ \A z \in Objects \ {y} : P[z] \subseteq P2[z]
      BY <1>6, <2>1, <2>3, <3>1
    <3> QED BY ONLY <1>2, r \in [Objects -> Nat], <3>1, <3>2, BackedRetain
  <2> QED BY <2>2, <2>3
<1>9. ASSUME old # Nil PROVE Backed(m, [counts EXCEPT ![old] = counts[old] - 1], P2)
  <2>0. old \in Objects /\ r[old] > 0
    BY <1>1, <1>2, <1>9
  <2>1. PICK r2 : r2 = [counts EXCEPT ![old] = counts[old] - 1]
    OBVIOUS
  <2>2. CASE y = Nil
    <3>1. P[old] \ {p} \subseteq P2[old] /\ \A z \in Objects \ {old} : P[z] \subseteq P2[z]
      BY <1>5, <2>0
    <3>2. r2 = [r EXCEPT ![old] = r[old] - 1]
      BY <1>7, <2>1, <2>2
    <3>3. Backed(m, r2, P2)
      BY ONLY <1>2, <2>0, <3>1, <3>2, r \in [Objects -> Nat], BackedRelease
    <3> QED BY <2>1, <3>3
  <2>3. CASE y = old
    <3>1. P[old] \subseteq P2[old]
      BY <1>5, <1>6, <1>9, <2>0, <2>3
    <3>2. \A z \in Objects : P[z] \subseteq P2[z]
      BY <1>5, <3>1
    <3>3. counts = [r EXCEPT ![old] = r[old] + 1] /\ r[old] \in Nat
      BY <1>7, <1>9, <2>0, <2>3
    <3>4. counts \in [Objects -> Nat] /\ counts[old] = r[old] + 1 /\ \A z \in Objects \ {old} : counts[z] = r[z]
      BY <2>0, <3>3
    <3>5. r2[old] = r[old] + 1 - 1 /\ DOMAIN r2 = Objects /\ \A z \in Objects \ {old} : r2[z] = counts[z]
      BY <2>0, <2>1, <3>4
    <3>6. \A z \in Objects : r2[z] = r[z]
      BY <3>3, <3>4, <3>5
    <3>7. r2 = [z \in Objects |-> r2[z]]
      BY <2>1, <3>4
    <3>8. r2 \in [Objects -> Nat] /\ \A z \in Objects : r2[z] <= r[z]
      BY <3>6, <3>7
    <3>9. Backed(m, r2, P2)
      BY <1>2, <3>2, <3>8, BackedMore
    <3> QED BY <2>1, <3>9
  <2>4. CASE y # Nil /\ y # old
    <3>1. y \in Objects /\ counts = [r EXCEPT ![y] = r[y] + 1]
      BY <1>7, <2>4
    <3>2. PICK P1 : P1 = [P EXCEPT ![y] = P[y] \cup {p}]
      OBVIOUS
    <3>3. p \in AllPlaces
      BY <1>1 DEF AllPlaces
    <3>4. /\ P1 \in [Objects -> SUBSET AllPlaces] /\ P1[y] = P[y] \cup {p}
          /\ \A z \in Objects \ {y} : P1[z] = P[z]
      BY <1>2, <3>1, <3>2, <3>3
    <3>5. p \notin P[y] /\ P[y] \cup {p} \subseteq P1[y] /\ \A z \in Objects \ {y} : P[z] \subseteq P1[z]
      BY <1>5, <2>4, <3>1, <3>4
    <3>6. Backed(m, counts, P1)
      BY ONLY <1>2, <3>1, <3>4, <3>5, r \in [Objects -> Nat], BackedRetain
    <3>7. P1[old] \ {p} \subseteq P2[old]
      BY <1>5, <2>0, <2>4, <3>4
    <3>8. ASSUME NEW z \in Objects \ {old} PROVE P1[z] \subseteq P2[z]
      <4>1. P[z] \subseteq P2[z]
        BY <1>5
      <4> QED BY <1>6, <2>4, <3>1, <3>4, <4>1
    <3>9. counts[old] = r[old] /\ counts \in [Objects -> Nat]
      BY <2>0, <2>4, <3>1
    <3>10. counts[old] > 0 /\ \A z \in Objects \ {old} : P1[z] \subseteq P2[z]
      BY <2>0, <3>8, <3>9
    <3>11. Backed(m, r2, P2)
      BY ONLY <1>2, <2>0, <2>1, <3>6, <3>7, <3>9, <3>10, BackedRelease
    <3> QED BY <2>1, <3>11
  <2> QED BY <2>2, <2>3, <2>4
<1> QED BY <1>1, <1>8, <1>9 DEF StoreBacked

\* What a field store finds: every count is backed, and all that is alive
\* hangs below the seeds, except the new value it is about to store.
Storable(m, r, k, x, f, y) ==
    /\ m \in [Objects -> MemStates] /\ r \in [Objects -> Nat] /\ k \in FieldMaps
    /\ m[x] = "alive" /\ colour[x] \in {"black", "purple"} /\ (y # Nil => m[y] = "alive")
    /\ x \in Below(k, Seeds)
    /\ \A z \in Objects : m[z] = "alive" => z \in Below(k, Seeds) \cup {y}
    /\ Backed(m, r, BackersIn(m, colour, k, lists, direct))
    /\ k[x][f] # Nil => m[k[x][f]] = "alive" /\ r[k[x][f]] > 0 /\ colour[k[x][f]] \in {"black", "purple"}
    /\ \A z \in Objects : m[z] = "none" => r[z] = 0 /\ \A g \in FieldNames : k[z][g] = Nil
    /\ \A z \in direct : m[z] = "freed"

LEMMA StoreReclaims ==
  ASSUME CollectorInv, ReclaimInv, CollectorInv', Idle, ~done', NEW m, NEW r, NEW k,
         NEW x \in Objects, NEW f \in FieldNames, NEW y \in Objects \cup {Nil}, Storable(m, r, k, x, f, y),
         Len(cand) + 1 < Theta, Release(m, Retain(r, y), k[x][f]), StoreAfter(k, x, f, y), UNCHANGED lists
  PROVE  ReclaimInv'
<1> USE DEF Storable
<1>1. AtEase /\ cand \in Seq(Objects)
  BY IdleIsAtEase DEF CollectorInv, CollectorTypeOK
<1>2. PICK old, counts : old = k[x][f] /\ counts = Retain(r, y)
  OBVIOUS
<1>3. old \in Objects \cup {Nil} /\ counts \in [Objects -> Nat]
  BY <1>2 DEF FieldMaps, Retain
<1>4. phase' = "idle"
  BY <1>1, <1>2, <1>3, NoCollection
<1>5. kid' = [k EXCEPT ![x][f] = y]
  BY <1>4 DEF StoreAfter
<1>6. /\ kid' \in FieldMaps
      /\ \A a \in Objects, g \in FieldNames : kid'[a][g] = IF a = x /\ g = f THEN y ELSE k[a][g]
  BY <1>5 DEF FieldMaps
<1>7. StoreBacked(m, r, colour, k, lists, direct, x, f, y, kid')
  <2>1. Holds(m, colour, direct, x) /\ (k[x][f] # Nil => r[k[x][f]] > 0)
    BY DEF Holds
  <2> QED BY <1>5, <2>1, StoreIsBacked
<1>8. Elements' = Elements
  BY DEF Elements
<1>9. PICK S2 : S2 = Seeds \cup ({old} \ {Nil})
  OBVIOUS
<1>10. S2 \in SUBSET Objects /\ Seeds \in SUBSET Objects
  BY <1>1, <1>3, <1>9 DEF AtEase
<1>11. /\ S2 \subseteq Below(kid', S2)
       /\ \A a \in Below(kid', S2), g \in FieldNames : kid'[a][g] # Nil => kid'[a][g] \in Below(kid', S2)
  BY <1>6, <1>10, BelowFacts
<1>12. Below(k, Seeds) \subseteq Below(kid', S2)
  <2>1. \A a \in Objects, g \in FieldNames : kid'[a][g] = k[a][g] \/ k[a][g] \in S2 \cup {Nil}
    BY <1>2, <1>3, <1>6, <1>9
  <2>2. Seeds \subseteq Below(kid', S2)
    BY <1>9, <1>11
  <2>3. k \in FieldMaps
    OBVIOUS
  <2> QED BY ONLY <1>6, <1>10, <2>1, <2>2, <2>3, BelowMoves
<1>13. \A z \in Objects : m[z] = "alive" => z \in Below(kid', S2)
  <2>1. y # Nil => y \in Below(kid', S2)
    BY <1>6, <1>11, <1>12
  <2> QED BY <1>12, <2>1, CollectorAssumption
<1>14. \A z \in Objects : m[z] = "none" => counts[z] = 0 /\ \A g \in FieldNames : kid'[z][g] = Nil
  <2> TAKE z \in Objects
  <2> HAVE m[z] = "none"
  <2>1. z # x /\ z # y
    <3>1. CASE z = y
      BY <3>1, CollectorAssumption
    <3> QED BY <3>1
  <2>2. counts[z] = r[z]
    BY <1>2, <2>1 DEF Retain
  <2> QED BY <1>6, <2>1, <2>2
<1>15. CASE old = Nil
  <2>1. mem' = m /\ rc' = counts /\ UNCHANGED <<colour, cand, phase, live, walk, direct>>
    BY <1>2, <1>15 DEF Release, collection, history
  <2>2. Backed(mem', rc', BackersIn(mem', colour', kid', lists', direct'))
    BY <1>2, <1>7, <1>15, <2>1 DEF StoreBacked
  <2>3. Seeds' = S2
    BY <1>8, <1>9, <1>15, <2>1 DEF Seeds
  <2>4. Unborn' /\ \A z \in direct : mem'[z] = "freed"
    BY <1>14, <2>1 DEF Unborn
  <2>5. \A z \in Objects : mem'[z] = "alive" => z \in Below(kid', Seeds')
    BY <1>13, <2>1, <2>3
  <2> QED BY ONLY CollectorInv, ReclaimInv, CollectorInv', Idle, ~done', <2>1, <2>2, <2>4, <2>5, QuietReclaims
<1>16. CASE old # Nil
  <2>1. old \in Objects /\ m[old] = "alive" /\ colour[old] \in {"black", "purple"} /\ counts[old] > 0
    <3>1. old \in Objects /\ m[old] = "alive" /\ colour[old] \in {"black", "purple"} /\ r[old] > 0
      BY <1>2, <1>3, <1>16
    <3>2. counts[old] = r[old] \/ counts[old] = r[old] + 1
      BY <1>2, <3>1 DEF Retain
    <3> QED BY <3>1, <3>2
  <2>2. Backed(m, [counts EXCEPT ![old] = counts[old] - 1], BackersIn(m, colour, kid', lists', direct))
    BY <1>2, <1>7, <1>16 DEF StoreBacked
  <2>3. S2 = {old} \cup Elements' \cup ToSet(cand) \cup direct
    BY <1>8, <1>9, <1>16 DEF Seeds
  <2>4. \A z \in Objects : m[z] = "alive" => z \in Below(kid', {old} \cup Elements' \cup ToSet(cand) \cup direct)
    BY <1>13, <2>3
  <2>5. Release(m, counts, old)
    BY <1>2
  <2> QED BY <1>3, <1>14, <2>1, <2>2, <2>4, <2>5, ReleaseReclaims
<1> QED BY <1>15, <1>16

LEMMA AssignReclaims ==
  ASSUME OrderlyProgram, CollectorInv, ReclaimInv, NEW x \in Reachable, NEW f \in FieldNames,
         NEW y \in Reachable \cup {Nil}, Assign(x, f, y)
  PROVE  ReclaimInv'
<1>1. /\ Idle /\ ~done' /\ Len(cand) + 1 < Theta /\ Release(mem, Retain(rc, y), kid[x][f])
      /\ StoreAfter(kid, x, f, y) /\ UNCHANGED lists
  BY DEF Assign, Running, MayStore, OrderlyProgram
<1>2. AtEase /\ CollectorInv'
  BY <1>1, IdleIsAtEase, AssignKeeps
<1>3. /\ Headers(mem, rc, colour) /\ Shape(kid, lists, dying)
      /\ Covered(mem, rc, PlacesIn(mem, colour, kid, lists))
  BY <1>1, IdleRests DEF Resting, AtRest
<1>4. /\ x \in Objects /\ mem[x] = "alive" /\ colour[x] \in {"black", "purple"} /\ y \in Objects \cup {Nil}
      /\ y # Nil => mem[y] = "alive"
  BY <1>1, ReachableRests
<1>5. kid[x][f] # Nil => mem[kid[x][f]] = "alive" /\ rc[kid[x][f]] > 0 /\ colour[kid[x][f]] \in {"black", "purple"}
  BY <1>3, <1>4, RestingCounts
<1>6. Storable(mem, rc, kid, x, f, y)
  BY <1>2, <1>4, <1>5 DEF Storable, AtEase, ReclaimInv, Unborn
<1> QED BY <1>1, <1>2, <1>4, <1>6, StoreReclaims

LEMMA AssignNewReclaims ==
  ASSUME OrderlyProgram, CollectorInv, ReclaimInv, NEW x \in Reachable, NEW f \in FieldNames, NEW y \in Objects,
         NEW ys \in [FieldNames -> Reachable \cup {Nil}], AssignNew(x, f, y, ys)
  PROVE  ReclaimInv'
<1>0. PICK m, r, k : m = [mem EXCEPT ![y] = "alive"] /\ r = RetainAll(ys) /\ k = [kid EXCEPT ![y] = ys]
  OBVIOUS
<1>1. /\ Idle /\ ~done' /\ Len(cand) + 1 < Theta /\ mem[y] = "none" /\ Release(m, Retain(r, y), kid[x][f])
      /\ StoreAfter(k, x, f, y) /\ UNCHANGED lists
  BY <1>0 DEF AssignNew, Running, MayStore, OrderlyProgram
<1>2. AtEase /\ CollectorInv'
  BY <1>1, IdleIsAtEase, AssignNewKeeps
<1>3. /\ Headers(mem, rc, colour) /\ Shape(kid, lists, dying)
      /\ Covered(mem, rc, PlacesIn(mem, colour, kid, lists))
  BY <1>1, IdleRests DEF Resting, AtRest
<1>4. x \in Objects /\ mem[x] = "alive" /\ colour[x] \in {"black", "purple"} /\ x # y
  BY <1>1, ReachableRests
<1>5. Paid(y, m, k, r)
  BY <1>0, <1>1, LiteralIsBacked
<1>6. /\ Backed(m, r, BackersIn(m, colour, k, lists, direct))
      /\ k \in FieldMaps /\ r \in [Objects -> Nat] /\ m \in [Objects -> MemStates]
      /\ \A z \in Objects : m[z] = "none" => r[z] = 0 /\ \A g \in FieldNames : k[z][g] = Nil
      /\ \A z \in direct : m[z] = "freed"
      /\ \A g \in FieldNames : kid[y][g] = Nil
  BY <1>5 DEF Paid
<1>7. /\ kid \in FieldMaps /\ mem \in [Objects -> MemStates] /\ Seeds \in SUBSET Objects
      /\ \A z \in Objects : mem[z] = "alive" => z \in Below(kid, Seeds)
  BY <1>2 DEF AtEase
<1>8. k[x] = kid[x] /\ m[y] = "alive" /\ \A z \in Objects \ {y} : k[z] = kid[z] /\ m[z] = mem[z]
  BY <1>0, <1>4, <1>7 DEF FieldMaps
<1>9. Below(kid, Seeds) \subseteq Below(k, Seeds)
  <2>1. \A a \in Objects, g \in FieldNames : k[a][g] = kid[a][g] \/ kid[a][g] \in Seeds \cup {Nil}
    BY <1>6, <1>8
  <2>2. Seeds \subseteq Below(k, Seeds)
    BY <1>6, <1>7, BelowFacts
  <2> QED BY ONLY <1>6, <1>7, <2>1, <2>2, BelowMoves
<1>10. kid[x][f] # Nil =>
         /\ kid[x][f] \in Objects \ {y} /\ mem[kid[x][f]] = "alive" /\ rc[kid[x][f]] > 0
         /\ colour[kid[x][f]] \in {"black", "purple"}
  BY <1>1, <1>3, <1>4, RestingCounts
<1>11. ASSUME k[x][f] # Nil
       PROVE  m[k[x][f]] = "alive" /\ r[k[x][f]] > 0 /\ colour[k[x][f]] \in {"black", "purple"}
  <2>1. PICK old \in Objects \ {y} : old = kid[x][f]
    BY <1>8, <1>10, <1>11
  <2>2. m[old] = "alive" /\ colour[old] \in {"black", "purple"}
    BY <1>8, <1>10, <1>11, <2>1
  <2>3. /\ Cardinality({g \in FieldNames : ys[g] = old}) \in Nat
        /\ r[old] = rc[old] + Cardinality({g \in FieldNames : ys[g] = old})
    <3>1. IsFiniteSet(FieldNames)
      BY CollectorAssumption, FS_Interval DEF FieldNames
    <3>2. IsFiniteSet({g \in FieldNames : ys[g] = old})
      BY <3>1, FS_Subset
    <3> QED BY <1>0, <3>2, FS_CardinalityType DEF RetainAll
  <2>4. rc[old] \in Nat /\ rc[old] > 0
    BY <1>2, <1>8, <1>10, <1>11, <2>1 DEF AtEase
  <2> QED BY <1>8, <2>1, <2>2, <2>3, <2>4
<1>12. \A z \in Objects : m[z] = "alive" => z \in Below(k, Seeds) \cup {y}
  BY <1>7, <1>8, <1>9
<1>13. x \in Below(k, Seeds) /\ m[x] = "alive"
  BY <1>4, <1>7, <1>8, <1>9
<1>14. Storable(m, r, k, x, f, y)
  BY <1>4, <1>6, <1>8, <1>11, <1>12, <1>13 DEF Storable
<1>15. Release(m, Retain(r, y), k[x][f])
  BY <1>1, <1>8
<1> QED BY <1>1, <1>2, <1>4, <1>14, <1>15, StoreReclaims

\* The slots of an object change places with the elements.
Mate(l, i, m, j, p) == IF p = <<l, i>> THEN <<m, j>> ELSE IF p = <<m, j>> THEN <<l, i>> ELSE p

LEMMA SlotsExchange ==
  ASSUME NEW ls \in [Lists -> Seq(Objects)], NEW l \in Lists, NEW m \in Lists,
         NEW i \in 1 .. MaxLen, NEW j \in 1 .. MaxLen, i <= Len(ls[l]), j <= Len(ls[m]),
         NEW ls2, Exchanged(ls, l, i, m, j, ls2), NEW z \in Objects, NEW p \in SlotsIn(ls, z)
  PROVE  Mate(l, i, m, j, p) \in SlotsIn(ls2, z)
<1> USE DEF Mate
<1>1. /\ \A a \in Lists : Len(ls2[a]) = Len(ls[a])
      /\ \A a \in Lists, b \in 1 .. MaxLen :
           b <= Len(ls[a]) => ls2[a][b] = IF <<a, b>> = <<m, j>> THEN ls[l][i]
                                          ELSE IF <<a, b>> = <<l, i>> THEN ls[m][j] ELSE ls[a][b]
  BY DEF Exchanged
<1>2. PICK a \in Lists, b \in 1 .. MaxLen : p = <<a, b>> /\ b <= Len(ls[a]) /\ ls[a][b] = z
  BY DEF SlotsIn
<1>3. CASE p = <<l, i>>
  <2>1. ls2[m][j] = z
    BY <1>1, <1>2, <1>3
  <2>2. <<m, j>> \in SlotsIn(ls2, z)
    BY <1>1, <2>1 DEF SlotsIn
  <2> QED BY <1>3, <2>2
<1>4. CASE p # <<l, i>> /\ p = <<m, j>>
  <2>1. ls2[l][i] = z
    BY <1>1, <1>2, <1>4
  <2>2. <<l, i>> \in SlotsIn(ls2, z)
    BY <1>1, <2>1 DEF SlotsIn
  <2> QED BY <1>4, <2>2
<1>5. CASE p # <<l, i>> /\ p # <<m, j>>
  <2>1. ls2[a][b] = z
    BY <1>1, <1>2, <1>5
  <2>2. <<a, b>> \in SlotsIn(ls2, z)
    BY <1>1, <1>2, <2>1 DEF SlotsIn
  <2> QED BY <1>2, <1>5, <2>2
<1> QED BY <1>3, <1>4, <1>5

LEMMA OverwriteReclaims ==
  ASSUME OrderlyProgram, CollectorInv, ReclaimInv, NEW l \in Lists, NEW m \in Lists,
         NEW i \in 1 .. MaxLen, NEW j \in 1 .. MaxLen, Overwrite(l, i, m, j)
  PROVE  ReclaimInv'
<1>1. /\ Idle /\ ~done' /\ i <= Len(lists[l]) /\ j <= Len(lists[m])
      /\ lists' = [[lists EXCEPT ![l][i] = lists[m][j]] EXCEPT ![m][j] = lists[l][i]]
      /\ UNCHANGED <<mem, rc, colour, cand, phase, live, walk, kid, direct>>
  BY DEF Overwrite, OrderlyProgram, ListSet, Running, headers, collection, history
<1>2. AtEase /\ CollectorInv'
  BY <1>1, IdleIsAtEase, OverwriteKeeps
<1>3. lists \in [Lists -> Seq(Objects)] /\ lists' \in [Lists -> Seq(Objects)] /\ Shape(kid, lists, dying)
  BY <1>1, <1>2, IdleRests DEF AtEase, CollectorInv, CollectorTypeOK, Resting, AtRest
<1>4. Exchanged(lists, l, i, m, j, lists')
  <2>1. i \in 1 .. Len(lists[l]) /\ j \in 1 .. Len(lists[m])
    BY <1>1, <1>3
  <2> QED BY ONLY <1>1, <1>3, <2>1, l \in Lists, m \in Lists, ExchangeSeqs
<1> DEFINE g(p) == Mate(l, i, m, j, p)
<1>5. ASSUME NEW z \in Objects, NEW p \in SlotsIn(lists, z) PROVE g(p) \in SlotsIn(lists', z)
  BY <1>1, <1>3, <1>4, SlotsExchange
<1>6. \A p, q : g(p) = g(q) => p = q
  BY DEF Mate
<1>7. \A p \in Objects \X FieldNames : g(p) = p
  BY CollectorAssumption DEF Mate
<1> HIDE DEF g
<1>8. PICK P, P2 : P = BackersIn(mem, colour, kid, lists, direct) /\ P2 = BackersIn(mem, colour, kid, lists', direct)
  OBVIOUS
<1>9. Backed(mem, rc, P) /\ P2 \in [Objects -> SUBSET AllPlaces] /\ rc \in [Objects -> Nat]
  BY <1>2, <1>8, BackersInTyped DEF AtEase
<1>10. ASSUME NEW z \in Objects, NEW p \in P[z] PROVE g(p) \in P2[z]
  <2>1. /\ P[z] = SlotsIn(lists, z) \cup FedIn(mem, colour, kid, direct, z)
        /\ P2[z] = SlotsIn(lists', z) \cup FedIn(mem, colour, kid, direct, z)
    BY <1>8 DEF BackersIn
  <2>2. CASE p \in SlotsIn(lists, z)
    BY <1>5, <2>1, <2>2
  <2>3. CASE p \in FedIn(mem, colour, kid, direct, z)
    <3>1. p \in Objects \X FieldNames
      BY <2>3 DEF FedIn
    <3> QED BY <1>7, <2>1, <2>3, <3>1
  <2> QED BY <1>10, <2>1, <2>2, <2>3
<1>11. Backed(mem, rc, P2)
  <2>1. ASSUME NEW z \in Objects, mem[z] = "alive" PROVE rc[z] <= Cardinality(P2[z])
    <3>1. PICK h : h = [p \in P[z] |-> g(p)]
      OBVIOUS
    <3>2. h \in Injection(P[z], P2[z])
      BY <1>6, <1>10, <3>1 DEF Injection, IsInjective
    <3>3. P[z] \in SUBSET AllPlaces /\ P2[z] \in SUBSET AllPlaces
      BY <1>9 DEF Backed
    <3>4. IsFiniteSet(P2[z]) /\ Cardinality(P[z]) \in Nat /\ Cardinality(P2[z]) \in Nat
      BY <3>3, PlacesAreFinite
    <3>5. Cardinality(P[z]) <= Cardinality(P2[z])
      BY <3>2, <3>4, FS_Injection
    <3>6. rc[z] <= Cardinality(P[z]) /\ rc[z] \in Nat
      BY <1>9, <2>1 DEF Backed
    <3> QED BY <3>4, <3>5, <3>6
  <2> QED BY <1>9, <2>1 DEF Backed
<1>12. Elements \subseteq Elements'
  <2>1. ASSUME NEW a \in Lists, NEW z \in ToSet(lists[a]) PROVE z \in Elements'
    <3>1. z \in Objects /\ SlotsIn(lists, z) # {}
      BY <1>3, ElementIsHeld
    <3>2. PICK q : q \in SlotsIn(lists', z)
      BY <1>5, <3>1
    <3>3. PICK c \in Lists, b \in 1 .. MaxLen : b <= Len(lists'[c]) /\ lists'[c][b] = z
      BY <3>2 DEF SlotsIn
    <3>4. b \in 1 .. Len(lists'[c])
      BY <1>3, <3>3
    <3>5. z \in ToSet(lists'[c])
      BY <1>3, <3>3, <3>4 DEF ToSet
    <3> QED BY <3>5 DEF Elements
  <2> QED BY <2>1 DEF Elements
<1>13. \A z \in Objects : mem'[z] = "alive" => z \in Below(kid', Seeds')
  <2>1. Seeds \subseteq Seeds'
    BY <1>1, <1>12 DEF Seeds
  <2>2. Seeds' \in SUBSET Objects
    <3>1. Elements' \subseteq Objects
      BY <1>3 DEF Elements, ToSet
    <3> QED BY <1>1, <1>2, <3>1 DEF AtEase, Seeds
  <2>3. Below(kid, Seeds) \subseteq Below(kid, Seeds')
    BY <1>2, <2>1, <2>2, MoreSeeds DEF AtEase
  <2> QED BY <1>1, <1>2, <2>3 DEF AtEase
<1>14. Unborn' /\ \A z \in direct : mem'[z] = "freed"
  BY <1>1, <1>2 DEF ReclaimInv, Unborn, AtEase
<1>15. Backed(mem', rc', BackersIn(mem', colour', kid', lists', direct'))
  BY <1>1, <1>8, <1>11
<1> QED BY <1>1, <1>2, <1>13, <1>14, <1>15, QuietReclaims

LEMMA ReclaimStarts == Init => ReclaimInv
<1> SUFFICES ASSUME Init PROVE ReclaimInv
  OBVIOUS
<1>1. \A x \in Objects : mem[x] = "none" /\ rc[x] = 0 /\ \A f \in FieldNames : kid[x][f] = Nil
  BY DEF Init
<1>2. Backed(mem, rc, Backers) /\ Anchored /\ Unborn
  BY <1>1, BackersTyped DEF Backed, Anchored, Alive, Unborn
<1>3. Justified /\ MarksOK /\ FreesOK /\ direct \subseteq Freed /\ ~done
  BY DEF Init, Justified, MarksOK, FreesOK
<1> QED BY <1>2, <1>3 DEF ReclaimInv

LEMMA ReclaimStutters ==
  ASSUME ReclaimInv, UNCHANGED vars
  PROVE  ReclaimInv'
<1>1. UNCHANGED <<mem, rc, colour, buffered, cand, phase, live, walk, kid, store, lists, dying, done, direct>>
  BY DEF vars, headers, collection, program, history
<1>2. /\ Pending' = Pending /\ Freed' = Freed
      /\ \A x : Alive(x)' = Alive(x) /\ Slots(x)' = Slots(x) /\ Kids(x)' = Kids(x)
  BY <1>1 DEF Pending, Freed, Alive, Slots, Kids
<1>3. Seeds' = Seeds /\ Taken' = Taken
  BY <1>1, <1>2 DEF Seeds, Taken, Elements
<1>4. \A x, f : Feeds(x, f)' <=> Feeds(x, f)
  BY <1>1, <1>2 DEF Feeds, Counted
<1>5. Backers' = Backers
  BY <1>1, <1>2, <1>4 DEF Backers, Fed
<1>6. Backed(mem', rc', Backers') /\ Anchored' /\ Justified' /\ Unborn' /\ (direct \subseteq Freed)'
      /\ (done => Idle /\ cand = <<>> /\ dying = Nil)'
  BY <1>1, <1>2, <1>3, <1>5 DEF ReclaimInv, Anchored, Justified, Unborn, Idle
<1>7. MarksOK'
  BY <1>1, <1>2 DEF ReclaimInv, MarksOK, Within
<1>8. FreesOK'
  <2>1. \A x : Stays(x)' <=> Stays(x)
    BY <1>1, <1>2, <1>3 DEF Stays
  <2> QED BY <1>1, <1>2, <2>1 DEF ReclaimInv, FreesOK, Followed
<1> QED BY <1>6, <1>7, <1>8 DEF ReclaimInv

LEMMA ReclaimSteps ==
  ASSUME OrderlyProgram, CollectorInv, ReclaimInv, [Next]_vars
  PROVE  ReclaimInv'
<1>1. CASE UNCHANGED vars
  BY <1>1, ReclaimStutters
<1>2. CASE ReleaseLast
  BY <1>2, ReleaseLastReclaims
<1>3. CASE WalkStep
  <2>1. CASE PassOver
    BY <2>1, PassOverReclaims
  <2>2. CASE NextLoop
    BY <2>2, NextLoopReclaims
  <2>3. CASE EndCollection
    BY <2>3, EndCollectionReclaims
  <2>4. CASE \E x \in Objects : VisitRoot(x) \/ MarkGrey(x) \/ ScanBlack(x) \/ Scan(x) \/ CollectWhite(x)
    <3>1. PICK x \in Objects : VisitRoot(x) \/ MarkGrey(x) \/ ScanBlack(x) \/ Scan(x) \/ CollectWhite(x)
      BY <2>4
    <3> QED BY <3>1, VisitRootReclaims, MarkGreyReclaims, ScanBlackReclaims, ScanReclaims, CollectWhiteReclaims
  <2> QED BY <1>3, <2>1, <2>2, <2>3, <2>4 DEF WalkStep
<1>4. CASE Program
  <2>1. CASE \E l \in Lists, x \in Objects, ys \in [FieldNames -> Reachable \cup {Nil}] : New(l, x, ys)
    BY <2>1, NewReclaims
  <2>2. CASE \E l \in Lists, x \in Reachable : Push(l, x)
    BY <2>2, PushReclaims
  <2>3. CASE \E l \in Lists, i, j \in 1 .. MaxLen, m \in Lists : Overwrite(l, i, m, j)
    BY <2>3, OverwriteReclaims
  <2>4. CASE \E l \in Lists : BeginRelease(l)
    BY <2>4, BeginReleaseReclaims
  <2>5. CASE \E x \in Reachable, f \in FieldNames, y \in Reachable \cup {Nil} : Assign(x, f, y)
    BY <2>5, AssignReclaims
  <2>6. CASE \E x \in Reachable, f \in FieldNames, y \in Objects,
               ys \in [FieldNames -> Reachable \cup {Nil}] : AssignNew(x, f, y, ys)
    BY <2>6, AssignNewReclaims
  <2>7. CASE CollectNow
    BY <2>7, CollectNowReclaims
  <2>8. CASE Final
    BY <2>8, FinalReclaims
  <2> QED BY <1>4, <2>1, <2>2, <2>3, <2>4, <2>5, <2>6, <2>7, <2>8 DEF Program
<1> QED BY <1>1, <1>2, <1>3, <1>4 DEF Next

LEMMA NothingIsLost == CollectorInv /\ ReclaimInv => CyclesReclaimed
<1> SUFFICES ASSUME CollectorInv, ReclaimInv, done, Elements = {}, NEW x \in Objects, mem[x] = "alive"
             PROVE  x \in Closure(direct)
  BY DEF CyclesReclaimed
<1>1. Idle /\ cand = <<>>
  BY DEF ReclaimInv
<1>2. AtEase
  BY <1>1, IdleIsAtEase
<1>3. Seeds = direct
  BY <1>1, EmptyStack DEF Seeds
<1>4. x \in Below(kid, direct) /\ Stored = kid
  BY <1>2, <1>3 DEF AtEase, Stored
<1> QED BY <1>4 DEF Below, Leads, Closure

\* After the final pass of a program that has let go of everything, what is
\* still allocated hangs below an object that was freed on its own count: no
\* garbage cycle that only the collector could find escapes it, over every
\* order of literals, stores, exchanges, teardowns and collections
\* (cyc_collect and its walks, cyc_release, cyc_final).
THEOREM CyclesAreReclaimed ==
  ASSUME OrderlyProgram
  PROVE  Spec => []CyclesReclaimed
<1>1. Init => CollectorInv /\ ReclaimInv
  BY CollectorStarts, ReclaimStarts
<1>2. CollectorInv /\ ReclaimInv /\ [Next]_vars => CollectorInv' /\ ReclaimInv'
  BY CollectorSteps, ReclaimSteps
<1>3. CollectorInv /\ ReclaimInv => CyclesReclaimed
  BY NothingIsLost
<1> QED BY <1>1, <1>2, <1>3, PTL DEF Spec
=============================================================================
