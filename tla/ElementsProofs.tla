--------------------------- MODULE ElementsProofs ---------------------------
(***************************************************************************)
(* Who owns the elements of a Vec, for every number of lists, blocks and   *)
(* elements: counts are exact, an uncounted block has one owner, and what  *)
(* a view reads is alive.                                                  *)
(***************************************************************************)
EXTENDS Elements, FiniteSetTheorems, SequenceTheorems, TLAPS

-----------------------------------------------------------------------------
(* Counting.                                                                 *)

LEMMA Renamed ==
  ASSUME NEW S, NEW T, NEW f \in [S -> T], IsFiniteSet(S),
         \A x, y \in S : f[x] = f[y] => x = y,
         \A z \in T : \E x \in S : f[x] = z
  PROVE  IsFiniteSet(T) /\ Cardinality(T) = Cardinality(S)
<1>1. f \in Bijection(S, T)
  BY DEF Bijection, Injection, Surjection, IsInjective
<1>2. ExistsBijection(S, T)
  BY <1>1 DEF ExistsBijection
<1> QED BY <1>2, FS_Bijection

LEMMA Disjoint ==
  ASSUME NEW S, NEW T, IsFiniteSet(S), IsFiniteSet(T), S \cap T = {}
  PROVE  IsFiniteSet(S \cup T) /\ Cardinality(S \cup T) = Cardinality(S) + Cardinality(T)
<1>1. Cardinality(S \cap T) = 0
  BY FS_EmptySet
<1>2. Cardinality(S) \in Nat /\ Cardinality(T) \in Nat
  BY FS_CardinalityType
<1>3. /\ IsFiniteSet(S \cup T)
      /\ Cardinality(S \cup T) = Cardinality(S) + Cardinality(T) - Cardinality(S \cap T)
  BY FS_Union
<1> QED BY <1>1, <1>2, <1>3

LEMMA OwnersFinite ==
  ASSUME NEW V, NEW ss \in Seq(V), NEW b
  PROVE  /\ Owners(ss, b) \subseteq 1 .. Len(ss)
         /\ IsFiniteSet(Owners(ss, b)) /\ Cardinality(Owners(ss, b)) \in Nat
<1>1. Owners(ss, b) \in SUBSET (1 .. Len(ss)) /\ Len(ss) \in Nat
  BY DEF Owners
<1>2. IsFiniteSet(1 .. Len(ss))
  BY <1>1, FS_Interval
<1> QED BY <1>1, <1>2, FS_Subset, FS_CardinalityType

LEMMA OwnedType ==
  ASSUME NEW V, NEW ss \in Seq(V)
  PROVE  Owned(ss) \in [Blocks -> Nat]
BY OwnersFinite DEF Owned

LEMMA OwnedConcat ==
  ASSUME NEW V, NEW s \in Seq(V), NEW t \in Seq(V), NEW b \in Blocks
  PROVE  Owned(s \o t)[b] = Owned(s)[b] + Owned(t)[b]
<1> DEFINE A == Owners(s, b)
           B == Owners(t, b)
           n == Len(s)
           C == {n + i : i \in B}
           u == s \o t
           f == [i \in B |-> n + i]
<1>1. /\ n \in Nat /\ A \subseteq 1 .. n /\ B \subseteq 1 .. Len(t)
      /\ IsFiniteSet(A) /\ IsFiniteSet(B) /\ Len(t) \in Nat
  BY OwnersFinite
<1>2. /\ DOMAIN u = 1 .. n + Len(t)
      /\ \A i \in 1 .. n : u[i] = s[i]
      /\ \A i \in 1 .. Len(t) : u[n + i] = t[i]
  BY ConcatProperties
<1> HIDE DEF u
<1>3. Owners(u, b) = A \cup C
  <2>1. ASSUME NEW i \in Owners(u, b) PROVE i \in A \cup C
    <3>1. i \in 1 .. n + Len(t) /\ Owns(u[i], b)
      BY <1>2, <2>1 DEF Owners
    <3>2. CASE i <= n
      BY <1>1, <1>2, <3>1, <3>2 DEF Owners
    <3>3. CASE i > n
      <4>1. i - n \in 1 .. Len(t) /\ n + (i - n) = i
        BY <1>1, <3>1, <3>3
      <4>2. i - n \in B
        BY <1>2, <3>1, <4>1 DEF Owners
      <4> QED BY <4>1, <4>2
    <3> QED BY <1>1, <3>1, <3>2, <3>3
  <2>2. ASSUME NEW i \in A PROVE i \in Owners(u, b)
    BY <1>1, <1>2, <2>2 DEF Owners
  <2>3. ASSUME NEW j \in B PROVE n + j \in Owners(u, b)
    <3>1. j \in 1 .. Len(t) /\ Owns(t[j], b)
      BY <1>1, <2>3 DEF Owners
    <3>2. n + j \in 1 .. n + Len(t)
      BY <1>1, <3>1
    <3> QED BY <1>2, <3>1, <3>2 DEF Owners
  <2> QED BY <2>1, <2>2, <2>3
<1>4. IsFiniteSet(C) /\ Cardinality(C) = Cardinality(B)
  <2>1. f \in [B -> C] /\ \A z \in C : \E x \in B : f[x] = z
    OBVIOUS
  <2>2. \A x, y \in B : f[x] = f[y] => x = y
    BY <1>1
  <2> HIDE DEF f, B, C
  <2> QED BY <1>1, <2>1, <2>2, Renamed
<1>5. A \cap C = {}
  BY <1>1
<1> HIDE DEF A, B, C, n
<1>6. Cardinality(A \cup C) = Cardinality(A) + Cardinality(C)
  BY <1>1, <1>4, <1>5, Disjoint
<1>7. Cardinality(Owners(u, b)) = Cardinality(A) + Cardinality(B)
  BY <1>3, <1>4, <1>6
<1> QED BY <1>7 DEF Owned, A, B, u

(* What one slot owns.                                                       *)
Own(v, b) == IF Owns(v, b) THEN 1 ELSE 0

LEMMA OwnedFew ==
  ASSUME NEW v, NEW b \in Blocks
  PROVE  Owned(<<>>)[b] = 0 /\ Owned(<<v>>)[b] = Own(v, b)
<1>1. Owners(<<>>, b) = {} /\ Cardinality({}) = 0
  BY FS_EmptySet DEF Owners
<1>2. CASE Owns(v, b)
  <2>1. Owners(<<v>>, b) = {1}
    BY <1>2 DEF Owners
  <2>2. Cardinality({1}) = 1
    BY FS_Singleton
  <2> QED BY <1>1, <1>2, <2>1, <2>2 DEF Owned, Own
<1>3. CASE ~Owns(v, b)
  <2>1. Owners(<<v>>, b) = {}
    BY <1>3 DEF Owners
  <2> QED BY <1>1, <1>3, <2>1 DEF Owned, Own
<1> QED BY <1>2, <1>3

LEMMA OwnedSplit ==
  ASSUME NEW V, NEW ss \in Seq(V), NEW n \in 0 .. Len(ss), NEW b \in Blocks
  PROVE  Owned(ss)[b] = Owned(SubSeq(ss, 1, n))[b] + Owned(SubSeq(ss, n + 1, Len(ss)))[b]
<1>1. SubSeq(ss, 1, n) \in Seq(V) /\ SubSeq(ss, n + 1, Len(ss)) \in Seq(V)
  OBVIOUS
<1>2. ss = SubSeq(ss, 1, n) \o SubSeq(ss, n + 1, Len(ss))
  <2>1. 1 \in 1 .. (Len(ss) + 1) /\ n \in (1 - 1) .. Len(ss) /\ Len(ss) \in n .. Len(ss)
    OBVIOUS
  <2>2. SubSeq(ss, 1, n) \o SubSeq(ss, n + 1, Len(ss)) = SubSeq(ss, 1, Len(ss))
    BY <2>1, ConcatAdjacentSubSeq
  <2>3. SubSeq(ss, 1, Len(ss)) = ss
    BY SubSeqFull
  <2> QED BY <2>2, <2>3
<1> QED BY <1>1, <1>2, OwnedConcat

LEMMA OwnedInsert ==
  ASSUME NEW V, NEW ss \in Seq(V), NEW v \in V, NEW i \in 1 .. Len(ss) + 1, NEW b \in Blocks
  PROVE  /\ InsertAt(ss, i, v) \in Seq(V)
         /\ Owned(InsertAt(ss, i, v))[b] = Owned(ss)[b] + Own(v, b)
<1> DEFINE s == SubSeq(ss, 1, i - 1)
           t == SubSeq(ss, i, Len(ss))
<1>1. s \in Seq(V) /\ t \in Seq(V) /\ <<v>> \in Seq(V) /\ s \o <<v>> \in Seq(V)
  OBVIOUS
<1>2. Owned(ss)[b] = Owned(s)[b] + Owned(t)[b]
  <2>1. i - 1 \in 0 .. Len(ss) /\ (i - 1) + 1 = i
    OBVIOUS
  <2> QED BY <2>1, OwnedSplit
<1>3. InsertAt(ss, i, v) = (s \o <<v>>) \o t
  BY DEF InsertAt
<1> HIDE DEF s, t
<1>4. Owned((s \o <<v>>) \o t)[b] = Owned(s \o <<v>>)[b] + Owned(t)[b]
  BY <1>1, OwnedConcat
<1>5. Owned(s \o <<v>>)[b] = Owned(s)[b] + Own(v, b)
  <2>1. Owned(s \o <<v>>)[b] = Owned(s)[b] + Owned(<<v>>)[b]
    BY <1>1, OwnedConcat
  <2> QED BY <2>1, OwnedFew
<1>6. Owned(s)[b] \in Nat /\ Owned(t)[b] \in Nat /\ Own(v, b) \in Nat
  BY <1>1, OwnedType DEF Own
<1> QED BY <1>1, <1>2, <1>3, <1>4, <1>5, <1>6

LEMMA OwnedRemove ==
  ASSUME NEW V, NEW ss \in Seq(V), NEW i \in 1 .. Len(ss), NEW b \in Blocks
  PROVE  /\ RemoveAt(ss, i) \in Seq(V)
         /\ Owned(RemoveAt(ss, i))[b] + Own(ss[i], b) = Owned(ss)[b]
<1> DEFINE s == SubSeq(ss, 1, i - 1)
           t == SubSeq(ss, i + 1, Len(ss))
           x == SubSeq(ss, 1, i)
<1>1. s \in Seq(V) /\ t \in Seq(V) /\ x \in Seq(V) /\ ss[i] \in V /\ <<ss[i]>> \in Seq(V)
  OBVIOUS
<1>2. Owned(ss)[b] = Owned(x)[b] + Owned(t)[b]
  BY OwnedSplit
<1>3. x = s \o <<ss[i]>>
  OBVIOUS
<1>4. RemoveAt(ss, i) = s \o t
  BY DEF RemoveAt
<1> HIDE DEF s, t, x
<1>5. Owned(s \o t)[b] = Owned(s)[b] + Owned(t)[b]
  BY <1>1, OwnedConcat
<1>6. Owned(s \o <<ss[i]>>)[b] = Owned(s)[b] + Own(ss[i], b)
  <2>1. Owned(s \o <<ss[i]>>)[b] = Owned(s)[b] + Owned(<<ss[i]>>)[b]
    BY <1>1, OwnedConcat
  <2>2. Owned(<<ss[i]>>)[b] = Own(ss[i], b)
    BY OwnedFew
  <2> QED BY <2>1, <2>2
<1>7. Owned(s)[b] \in Nat /\ Owned(t)[b] \in Nat /\ Own(ss[i], b) \in Nat
  BY <1>1, OwnedType DEF Own
<1> QED BY <1>1, <1>2, <1>3, <1>4, <1>5, <1>6, <1>7

(* tt is ss with v at i.                                                     *)
Replaced(ss, i, v, tt) ==
    /\ Len(tt) = Len(ss) /\ i \in 1 .. Len(ss)
    /\ tt[i] = v
    /\ \A j \in 1 .. Len(ss) : j # i => tt[j] = ss[j]

LEMMA OwnedReplace ==
  ASSUME NEW V, NEW ss \in Seq(V), NEW tt \in Seq(V), NEW v, NEW i, Replaced(ss, i, v, tt),
         NEW b \in Blocks
  PROVE  Owned(tt)[b] + Own(ss[i], b) = Owned(ss)[b] + Own(v, b)
<1> DEFINE A == Owners(ss, b) \ {i}
<1>1. DOMAIN tt = DOMAIN ss /\ tt[i] = v /\ i \in DOMAIN ss
      /\ \A j \in DOMAIN ss : j # i => tt[j] = ss[j]
  BY DEF Replaced
<1>2. /\ Owners(ss, b) = IF Owns(ss[i], b) THEN A \cup {i} ELSE A
      /\ Owners(tt, b) = IF Owns(v, b) THEN A \cup {i} ELSE A
      /\ i \notin A
  BY <1>1 DEF Owners
<1>3. IsFiniteSet(A)
  BY OwnersFinite, FS_Subset
<1> HIDE DEF A
<1>4. Cardinality(A) \in Nat /\ Cardinality(A \cup {i}) = Cardinality(A) + 1
  BY <1>2, <1>3, FS_AddElement, FS_CardinalityType
<1>5. Cardinality(Owners(tt, b)) + Own(ss[i], b) = Cardinality(Owners(ss, b)) + Own(v, b)
  BY <1>2, <1>4 DEF Own
<1> QED BY <1>1, <1>5 DEF Owned

(* list_swap moves nothing in or out.                                        *)
LEMMA OwnedSwap ==
  ASSUME NEW V, NEW ss \in Seq(V), NEW i \in 1 .. Len(ss), NEW j \in 1 .. Len(ss), i # j, NEW b \in Blocks,
         NEW tt, tt = [ss EXCEPT ![i] = ss[j], ![j] = ss[i]]
  PROVE  tt \in Seq(V) /\ Owned(tt)[b] = Owned(ss)[b]
<1>1. PICK x \in V, y \in V : x = ss[i] /\ y = ss[j]
  OBVIOUS
<1>2. PICK s : s = [ss EXCEPT ![i] = y]
  OBVIOUS
<1>3. s \in Seq(V) /\ s[j] = y /\ Replaced(ss, i, y, s)
  BY <1>1, <1>2 DEF Replaced
<1>4. Owned(s)[b] + Own(ss[i], b) = Owned(ss)[b] + Own(y, b)
  BY ONLY ss \in Seq(V), b \in Blocks, <1>3, OwnedReplace
<1>5. tt \in Seq(V) /\ Replaced(s, j, x, tt)
  BY <1>1, <1>2 DEF Replaced
<1>6. Owned(tt)[b] + Own(s[j], b) = Owned(s)[b] + Own(x, b)
  BY ONLY b \in Blocks, <1>3, <1>5, OwnedReplace
<1>7. Owned(ss)[b] \in Nat /\ Owned(s)[b] \in Nat /\ Owned(tt)[b] \in Nat /\ Own(x, b) \in Nat /\ Own(y, b) \in Nat
  BY <1>3, <1>5, OwnedType DEF Own
<1> QED BY <1>1, <1>3, <1>4, <1>5, <1>6, <1>7

-----------------------------------------------------------------------------
(* The places of a block, list by list.                                      *)

Slot == {Boxed(b) : b \in Blocks} \cup {Inline, Literal}
ListRec == [live : BOOLEAN, slots : Seq(Slot), grave : [Blocks -> Nat]]

(* How often list value r holds b, the places of b in it, and in all lists.  *)
Of(r, b) == Owned(r.slots)[b] + r.grave[b]
PlacesOf(l, r, b) ==
    {<<l, "slot", i>> : i \in Owners(r.slots, b)} \cup {<<l, "grave", k>> : k \in 1 .. r.grave[b]}
EdgesOf(ll, b) == Cardinality(UNION {PlacesOf(m, ll[m], b) : m \in Lists})
RestOf(ll, l, b) == UNION {PlacesOf(m, ll[m], b) : m \in Lists \ {l}}

LEMMA PlacesCounted ==
  ASSUME NEW l, NEW r \in ListRec, NEW b \in Blocks
  PROVE  /\ IsFiniteSet(PlacesOf(l, r, b))
         /\ Of(r, b) \in Nat
         /\ Cardinality(PlacesOf(l, r, b)) = Of(r, b)
<1> DEFINE A == Owners(r.slots, b)
           n == r.grave[b]
           B == 1 .. n
           SA == {<<l, "slot", i>> : i \in A}
           SB == {<<l, "grave", k>> : k \in B}
           f == [i \in A |-> <<l, "slot", i>>]
           g == [k \in B |-> <<l, "grave", k>>]
<1>1. r.slots \in Seq(Slot) /\ n \in Nat
  BY DEF ListRec
<1>2. IsFiniteSet(A) /\ Cardinality(A) \in Nat /\ Cardinality(A) = Owned(r.slots)[b]
  BY <1>1, OwnersFinite DEF Owned
<1>3. IsFiniteSet(B) /\ Cardinality(B) = n
  <2>1. 1 \in Int /\ n \in Int /\ n >= 0
    BY <1>1
  <2> HIDE DEF n
  <2>2. IsFiniteSet(1 .. n) /\ Cardinality(1 .. n) = IF 1 > n THEN 0 ELSE n - 1 + 1
    BY <2>1, FS_Interval
  <2> QED BY <2>1, <2>2
<1>4. IsFiniteSet(SA) /\ Cardinality(SA) = Cardinality(A)
  <2>1. f \in [A -> SA] /\ (\A x, y \in A : f[x] = f[y] => x = y) /\ \A z \in SA : \E x \in A : f[x] = z
    OBVIOUS
  <2> HIDE DEF f, A, SA
  <2> QED BY ONLY <2>1, <1>2, Renamed
<1>5. IsFiniteSet(SB) /\ Cardinality(SB) = Cardinality(B)
  <2>1. g \in [B -> SB] /\ (\A x, y \in B : g[x] = g[y] => x = y) /\ \A z \in SB : \E x \in B : g[x] = z
    OBVIOUS
  <2> HIDE DEF g, B, SB
  <2> QED BY ONLY <2>1, <1>3, Renamed
<1>6. SA \cap SB = {}
  OBVIOUS
<1>7. PlacesOf(l, r, b) = SA \cup SB /\ Of(r, b) = Owned(r.slots)[b] + n
  BY DEF PlacesOf, Of
<1> HIDE DEF A, SA, SB, B, n
<1> QED BY <1>1, <1>2, <1>3, <1>4, <1>5, <1>6, <1>7, Disjoint

LEMMA EdgesSplit ==
  ASSUME NEW ll \in [Lists -> ListRec], NEW l \in Lists, NEW b \in Blocks
  PROVE  /\ EdgesOf(ll, b) = Cardinality(RestOf(ll, l, b)) + Of(ll[l], b)
         /\ Cardinality(RestOf(ll, l, b)) \in Nat /\ Of(ll[l], b) \in Nat
<1> DEFINE P == PlacesOf(l, ll[l], b)
           R == RestOf(ll, l, b)
           SS == {PlacesOf(m, ll[m], b) : m \in Lists \ {l}}
<1>1. UNION {PlacesOf(m, ll[m], b) : m \in Lists} = R \cup P
  BY DEF RestOf
<1>2. R \cap P = {}
  <2>1. \A m \in Lists : \A x \in PlacesOf(m, ll[m], b) : x[1] = m
    BY DEF PlacesOf
  <2> QED BY <2>1 DEF RestOf
<1>3. IsFiniteSet(P) /\ Of(ll[l], b) \in Nat /\ Cardinality(P) = Of(ll[l], b)
  BY PlacesCounted
<1>4. IsFiniteSet(R)
  <2>1. IsFiniteSet(Lists \ {l})
    BY ModesAssumption, FS_Subset
  <2>2. IsFiniteSet(SS)
    <3>1. PICK f : f = [m \in Lists \ {l} |-> PlacesOf(m, ll[m], b)]
      OBVIOUS
    <3>2. f \in [Lists \ {l} -> SS] /\ \A z \in SS : \E x \in Lists \ {l} : f[x] = z
      BY <3>1
    <3> HIDE DEF SS
    <3>3. f \in Surjection(Lists \ {l}, SS)
      BY <3>2 DEF Surjection
    <3> QED BY ONLY <2>1, <3>3, FS_Surjection
  <2>3. \A x \in SS : IsFiniteSet(x)
    BY PlacesCounted
  <2> HIDE DEF SS
  <2>4. IsFiniteSet(UNION SS)
    BY ONLY <2>2, <2>3, FS_UNION
  <2> QED BY <2>4 DEF SS, RestOf
<1> HIDE DEF P, R
<1>5. Cardinality(R \cup P) = Cardinality(R) + Cardinality(P) /\ Cardinality(R) \in Nat
  BY ONLY <1>2, <1>3, <1>4, Disjoint, FS_CardinalityType
<1>6. EdgesOf(ll, b) = Cardinality(R \cup P)
  BY <1>1 DEF EdgesOf
<1> QED BY <1>3, <1>5, <1>6 DEF R

(* A store into one list changes the places by what it changes there.        *)
Stores(ll, l, r, mm) ==
    /\ ll \in [Lists -> ListRec] /\ mm \in [Lists -> ListRec] /\ l \in Lists
    /\ mm[l] = r /\ \A m \in Lists \ {l} : mm[m] = ll[m]

LEMMA EdgesMove ==
  ASSUME NEW ll, NEW l, NEW r, NEW mm, Stores(ll, l, r, mm), NEW b \in Blocks
  PROVE  /\ EdgesOf(mm, b) + Of(ll[l], b) = EdgesOf(ll, b) + Of(r, b)
         /\ Of(ll[l], b) <= EdgesOf(ll, b)
         /\ EdgesOf(ll, b) \in Nat /\ EdgesOf(mm, b) \in Nat /\ Of(ll[l], b) \in Nat /\ Of(r, b) \in Nat
<1>1. /\ ll \in [Lists -> ListRec] /\ mm \in [Lists -> ListRec] /\ l \in Lists
      /\ mm[l] = r /\ \A m \in Lists \ {l} : mm[m] = ll[m]
  BY DEF Stores
<1>2. RestOf(mm, l, b) = RestOf(ll, l, b)
  BY <1>1 DEF RestOf
<1>3. EdgesOf(ll, b) = Cardinality(RestOf(ll, l, b)) + Of(ll[l], b)
      /\ Cardinality(RestOf(ll, l, b)) \in Nat /\ Of(ll[l], b) \in Nat
  BY <1>1, EdgesSplit
<1>4. EdgesOf(mm, b) = Cardinality(RestOf(mm, l, b)) + Of(mm[l], b) /\ Of(mm[l], b) \in Nat
  BY <1>1, EdgesSplit
<1> QED BY <1>1, <1>2, <1>3, <1>4

-----------------------------------------------------------------------------
(* The inductive invariant.                                                  *)

Ind(p) == IF p THEN 1 ELSE 0

ElementsTypeOK ==
    /\ mode \in ElemModes
    /\ block \in [Blocks -> {"unused", "live", "freed"}]
    /\ count \in [Blocks -> Nat]
    /\ owned \subseteq Blocks
    /\ list \in [Lists -> ListRec]
    /\ views \subseteq Lists \X Blocks
    /\ \A l \in Lists : ~list[l].live => list[l] = NoList

(* What the places of block b say of it, mode by mode.                       *)
BlockOK(b) ==
    /\ b \in owned => block[b] = "live"
    /\ EdgesOf(list, b) > 0 => block[b] = "live"
    /\ mode = "rc" => b \notin owned /\ count[b] = EdgesOf(list, b)
    /\ mode \in {"object", "string"} =>
          EdgesOf(list, b) + Ind(b \in owned) = Ind(block[b] = "live")
    /\ mode = "flat" => EdgesOf(list, b) = 0

(* A list holds what a binding views in it, in a slot or in its grave.       *)
ViewOK(l, b) ==
    <<l, b>> \in views =>
        /\ mode \in {"object", "string", "flat"} => Of(list[l], b) > 0
        /\ mode = "none" => block[b] = "live"

ElementsInv ==
    /\ ElementsTypeOK
    /\ wild = FALSE
    /\ \A b \in Blocks : BlockOK(b)
    /\ \A l \in Lists : \A b \in Blocks : ViewOK(l, b)

(* A step on list l leaves it the value r, retains `kept`, releases `dropped`, *)
(* allocates `takes` and takes `moved` from the program.                     *)
BalancedAt(l, r, kept, dropped, takes, moved, b) ==
    /\ mode = "rc" =>
          /\ b \notin takes /\ b \notin moved
          /\ Of(r, b) + dropped[b] = Of(list[l], b) + kept[b]
          /\ kept[b] > 0 => block[b] = "live"
    /\ mode \in {"object", "string"} =>
          /\ b \in moved => b \in owned
          /\ b \in takes => block[b] = "unused"
          /\ Of(r, b) + dropped[b] = Of(list[l], b) + Ind(b \in moved) + Ind(b \in takes)
          /\ dropped[b] <= Of(list[l], b)
          /\ <<l, b>> \in views => Of(r, b) > 0
    /\ mode = "none" =>
          /\ b \notin takes /\ b \notin moved
          /\ Of(r, b) > 0 => block[b] = "live"
    /\ mode = "flat" =>
          /\ b \notin takes
          /\ b \in moved => b \in owned
          /\ Of(r, b) = 0
          /\ dropped[b] = Ind(b \in moved)

Balanced(l, r, kept, dropped, takes, moved) ==
    /\ l \in Lists /\ r \in ListRec
    /\ ~r.live => r = NoList
    /\ kept \in [Blocks -> Nat] /\ dropped \in [Blocks -> Nat]
    /\ \A b \in Blocks : BalancedAt(l, r, kept, dropped, takes, moved, b)

ListStep(l, r, kept, dropped, takes, moved) ==
    /\ list' = [list EXCEPT ![l] = r]
    /\ Account(kept, dropped, takes)
    /\ owned' = owned \ moved
    /\ UNCHANGED <<mode, views>>

LEMMA AccountAt ==
  ASSUME ElementsTypeOK, NEW kept \in [Blocks -> Nat], NEW dropped \in [Blocks -> Nat], NEW takes,
         Account(kept, dropped, takes)
  PROVE  /\ count' \in [Blocks -> Nat]
         /\ block' \in [Blocks -> {"unused", "live", "freed"}]
         /\ \A b \in Blocks :
               /\ mode # "rc" => count'[b] = count[b]
               /\ mode = "rc" => count'[b] = IF dropped[b] >= count[b] + kept[b] THEN 0
                                             ELSE count[b] + kept[b] - dropped[b]
               /\ block'[b] = IF IF mode = "rc" THEN count[b] + kept[b] > 0 /\ dropped[b] >= count[b] + kept[b]
                                 ELSE mode # "none" /\ dropped[b] > 0
                              THEN "freed" ELSE IF b \in takes THEN "live" ELSE block[b]
BY DEF Account, ElementsTypeOK

(* Nothing is released twice, or when it is not live.                        *)
LEMMA AccountTame ==
  ASSUME ElementsTypeOK, wild = FALSE, NEW kept \in [Blocks -> Nat], NEW dropped \in [Blocks -> Nat], NEW takes,
         Account(kept, dropped, takes),
         \A b \in Blocks :
            /\ mode = "rc" => dropped[b] <= count[b] + kept[b]
            /\ mode \notin {"rc", "none"} => dropped[b] <= 1
            /\ dropped[b] > 0 /\ mode # "none" => block[b] = "live"
  PROVE  wild' = FALSE
<1> DEFINE Bad(b) ==
      \/ IF mode = "rc" THEN count[b] + kept[b] > 0 /\ dropped[b] > count[b] + kept[b]
         ELSE mode # "none" /\ dropped[b] > 1
      \/ dropped[b] > 0 /\ mode # "none" /\ block[b] # "live"
<1>1. \A b \in Blocks : ~Bad(b)
  BY DEF ElementsTypeOK
<1>2. wild' = (wild \/ \E b \in Blocks : Bad(b))
  BY DEF Account
<1> HIDE DEF Bad
<1> QED BY <1>1, <1>2, Zenon

LEMMA BalancedStep ==
  ASSUME ElementsInv,
         NEW l, NEW r, NEW kept, NEW dropped, NEW takes, NEW moved,
         Balanced(l, r, kept, dropped, takes, moved),
         ListStep(l, r, kept, dropped, takes, moved)
  PROVE  ElementsInv'
<1>1. /\ ElementsTypeOK /\ wild = FALSE /\ l \in Lists /\ r \in ListRec
      /\ kept \in [Blocks -> Nat] /\ dropped \in [Blocks -> Nat]
      /\ list \in [Lists -> ListRec] /\ list' = [list EXCEPT ![l] = r] /\ list' \in [Lists -> ListRec]
      /\ mode' = mode /\ views' = views /\ owned' = owned \ moved
      /\ Account(kept, dropped, takes)
      /\ mode \in ElemModes /\ count \in [Blocks -> Nat]
  BY DEF ElementsInv, ElementsTypeOK, Balanced, ListStep
<1>2. /\ count' \in [Blocks -> Nat]
      /\ block' \in [Blocks -> {"unused", "live", "freed"}]
      /\ \A b \in Blocks :
            /\ mode # "rc" => count'[b] = count[b]
            /\ mode = "rc" => count'[b] = IF dropped[b] >= count[b] + kept[b] THEN 0
                                          ELSE count[b] + kept[b] - dropped[b]
            /\ block'[b] = IF IF mode = "rc" THEN count[b] + kept[b] > 0 /\ dropped[b] >= count[b] + kept[b]
                              ELSE mode # "none" /\ dropped[b] > 0
                           THEN "freed" ELSE IF b \in takes THEN "live" ELSE block[b]
  BY ONLY <1>1, AccountAt
<1>3. \A b \in Blocks :
         /\ EdgesOf(list', b) + Of(list[l], b) = EdgesOf(list, b) + Of(r, b)
         /\ Of(list[l], b) <= EdgesOf(list, b)
         /\ EdgesOf(list, b) \in Nat /\ EdgesOf(list', b) \in Nat /\ Of(list[l], b) \in Nat /\ Of(r, b) \in Nat
  <2>1. Stores(list, l, r, list')
    BY <1>1 DEF Stores
  <2> QED BY ONLY <2>1, EdgesMove
<1>4. \A b \in Blocks : BlockOK(b) /\ BalancedAt(l, r, kept, dropped, takes, moved, b)
  BY DEF ElementsInv, Balanced
<1>5. ElementsTypeOK'
  <2>1. \A m \in Lists : ~list'[m].live => list'[m] = NoList
    BY <1>1 DEF ElementsTypeOK, Balanced
  <2> QED BY <1>1, <1>2, <2>1 DEF ElementsTypeOK
<1>6. wild' = FALSE
  <2>1. ASSUME NEW b \in Blocks
        PROVE  /\ mode = "rc" => dropped[b] <= count[b] + kept[b]
               /\ mode \notin {"rc", "none"} => dropped[b] <= 1
               /\ dropped[b] > 0 /\ mode # "none" => block[b] = "live"
    <3>1. dropped[b] \in Nat /\ kept[b] \in Nat /\ count[b] \in Nat
      BY <1>1
    <3>2. PICK O \in Nat, E \in Nat, R \in Nat :
             O = Of(list[l], b) /\ E = EdgesOf(list, b) /\ R = Of(r, b) /\ O <= E
      BY <1>3
    <3>3. CASE mode = "rc"
      <4>1. /\ E > 0 => block[b] = "live"
            /\ count[b] = E /\ R + dropped[b] = O + kept[b]
            /\ kept[b] > 0 => block[b] = "live"
        BY <1>4, <3>2, <3>3 DEF BlockOK, BalancedAt
      <4> QED BY <3>1, <3>2, <3>3, <4>1
    <3>4. CASE mode \in {"object", "string"}
      <4>1. dropped[b] <= O /\ E + Ind(b \in owned) = Ind(block[b] = "live")
        BY <1>4, <3>2, <3>4 DEF BlockOK, BalancedAt
      <4> QED BY <3>1, <3>2, <3>4, <4>1 DEF Ind
    <3>5. CASE mode = "flat"
      <4>1. dropped[b] = Ind(b \in moved) /\ (b \in moved => block[b] = "live")
        BY <1>4, <3>5 DEF BlockOK, BalancedAt
      <4> QED BY <3>5, <4>1 DEF Ind
    <3> QED BY <1>1, <3>3, <3>4, <3>5 DEF ElemModes
  <2> QED BY ONLY <1>1, <2>1, AccountTame
<1>7. ASSUME NEW b \in Blocks PROVE BlockOK(b)'
  <2>1. PICK d \in Nat, k \in Nat, c \in Nat, E \in Nat, F \in Nat, O \in Nat, R \in Nat :
            /\ d = dropped[b] /\ k = kept[b] /\ c = count[b]
            /\ E = EdgesOf(list, b) /\ F = EdgesOf(list', b) /\ O = Of(list[l], b) /\ R = Of(r, b)
    BY <1>1, <1>3
  <2>2. F + O = E + R /\ O <= E
    BY <1>3, <2>1
  <2>3. CASE mode = "rc"
    <3>1. /\ E > 0 => block[b] = "live"
          /\ b \notin owned /\ c = E /\ b \notin takes /\ b \notin moved /\ R + d = O + k
          /\ k > 0 => block[b] = "live"
      BY <1>4, <2>1, <2>3 DEF BlockOK, BalancedAt
    <3>2. F = E + k - d /\ d <= E + k
      BY <2>2, <3>1
    <3>3. /\ count'[b] = F
          /\ block'[b] = IF c + k > 0 /\ d >= c + k THEN "freed" ELSE block[b]
      <4>1. /\ count'[b] = IF d >= c + k THEN 0 ELSE c + k - d
            /\ block'[b] = IF c + k > 0 /\ d >= c + k THEN "freed" ELSE IF b \in takes THEN "live" ELSE block[b]
        BY <1>2, <2>1, <2>3
      <4> QED BY <3>1, <3>2, <4>1
    <3>4. F > 0 => block'[b] = "live"
      BY <3>1, <3>2, <3>3
    <3> QED BY <1>1, <2>1, <2>3, <3>1, <3>3, <3>4 DEF BlockOK
  <2>4. CASE mode \in {"object", "string"}
    <3>1. /\ b \in owned => block[b] = "live"
          /\ E + Ind(b \in owned) = Ind(block[b] = "live")
          /\ b \in moved => b \in owned
          /\ b \in takes => block[b] = "unused"
          /\ R + d = O + Ind(b \in moved) + Ind(b \in takes)
          /\ d <= O
      BY <1>4, <2>1, <2>4 DEF BlockOK, BalancedAt
    <3>2. block'[b] = IF d > 0 THEN "freed" ELSE IF b \in takes THEN "live" ELSE block[b]
      BY <1>2, <2>1, <2>4
    <3>3. (b \in owned)' <=> b \in owned /\ b \notin moved
      BY <1>1
    <3>4. F + Ind((b \in owned)') = Ind(block'[b] = "live")
      BY <2>2, <3>1, <3>2, <3>3 DEF Ind
    <3>5. ((b \in owned)' => block'[b] = "live") /\ (F > 0 => block'[b] = "live")
      BY <3>4 DEF Ind
    <3> QED BY <1>1, <2>1, <2>4, <3>4, <3>5 DEF BlockOK
  <2>5. CASE mode = "none"
    <3>1. /\ b \in owned => block[b] = "live"
          /\ E > 0 => block[b] = "live"
          /\ b \notin takes /\ b \notin moved /\ (R > 0 => block[b] = "live")
      BY <1>4, <2>1, <2>5 DEF BlockOK, BalancedAt
    <3>2. block'[b] = block[b]
      BY <1>2, <2>5, <3>1
    <3> QED BY <1>1, <2>1, <2>2, <2>5, <3>1, <3>2 DEF BlockOK
  <2>6. CASE mode = "flat"
    <3>1. /\ b \in owned => block[b] = "live"
          /\ E = 0 /\ b \notin takes /\ (b \in moved => b \in owned) /\ R = 0 /\ d = Ind(b \in moved)
      BY <1>4, <2>1, <2>6 DEF BlockOK, BalancedAt
    <3>2. block'[b] = IF d > 0 THEN "freed" ELSE block[b]
      BY <1>2, <2>1, <2>6, <3>1
    <3>3. F = 0
      BY <2>2, <3>1
    <3>4. (b \in owned)' => block'[b] = "live"
      BY <1>1, <3>1, <3>2 DEF Ind
    <3> QED BY <1>1, <2>1, <2>6, <3>3, <3>4 DEF BlockOK
  <2> QED BY <1>1, <2>3, <2>4, <2>5, <2>6 DEF ElemModes
<1>8. ASSUME NEW m \in Lists, NEW b \in Blocks PROVE ViewOK(m, b)'
  <2>1. ViewOK(m, b) /\ BalancedAt(l, r, kept, dropped, takes, moved, b) /\ BlockOK(b)
    BY <1>4 DEF ElementsInv
  <2>2. SUFFICES ASSUME <<m, b>> \in views
                 PROVE  /\ mode \in {"object", "string", "flat"} => Of(list'[m], b) > 0
                        /\ mode = "none" => block'[b] = "live"
    BY <1>1 DEF ViewOK
  <2>3. mode = "none" => block'[b] = "live"
    BY <1>2, <2>1, <2>2 DEF ViewOK, BalancedAt
  <2>4. CASE mode = "flat"
    <3>1. Of(list[m], b) > 0 /\ EdgesOf(list, b) = 0
      BY <2>1, <2>2, <2>4 DEF ViewOK, BlockOK
    <3>2. Of(list[m], b) <= EdgesOf(list, b) /\ Of(list[m], b) \in Nat
      <4>1. Stores(list, m, list[m], list)
        BY <1>1 DEF Stores
      <4> QED BY ONLY <4>1, b \in Blocks, EdgesMove
    <3> QED BY <3>1, <3>2
  <2>5. CASE mode \in {"object", "string"} /\ m # l
    BY <1>1, <2>1, <2>2, <2>5 DEF ViewOK
  <2>6. CASE mode \in {"object", "string"} /\ m = l
    BY <1>1, <2>1, <2>2, <2>6 DEF BalancedAt
  <2> QED BY <2>3, <2>4, <2>5, <2>6
<1> QED BY <1>5, <1>6, <1>7, <1>8 DEF ElementsInv

-----------------------------------------------------------------------------
(* The programs sema and codegen admit: no replace in a counted list, no store *)
(* of a prefix of v[i] into v[i].                                            *)
AdmittedPrograms == "rc" \notin Replaceable /\ SelfViews = FALSE

(* What a value v brings to block b when w is stored for it.                 *)
FlowAt(w, kept, source, takes, moved, b) ==
    /\ mode = "rc" =>
          /\ b \notin takes /\ b \notin moved
          /\ Own(w, b) = kept[b] /\ (kept[b] > 0 => block[b] = "live") /\ source[b] = 0
    /\ mode \in {"object", "string"} =>
          /\ b \in moved => b \in owned
          /\ b \in takes => block[b] = "unused"
          /\ Own(w, b) = Ind(b \in moved) + Ind(b \in takes) /\ source[b] = 0
    /\ mode = "none" =>
          /\ b \notin takes /\ b \notin moved
          /\ Own(w, b) > 0 => block[b] = "live"
    /\ mode = "flat" =>
          /\ b \notin takes
          /\ b \in moved => b \in owned
          /\ Own(w, b) = 0 /\ source[b] = Ind(b \in moved)

Flow(w, kept, source, takes, moved) ==
    /\ w \in Slot /\ kept \in [Blocks -> Nat] /\ source \in [Blocks -> Nat]
    /\ \A b \in Blocks : FlowAt(w, kept, source, takes, moved, b)

LEMMA Bags ==
  /\ Nothing \in [Blocks -> Nat] /\ \A b \in Blocks : Nothing[b] = 0
  /\ \A c : Once(c) \in [Blocks -> Nat] /\ \A b \in Blocks : Once(c)[b] = Ind(b = c)
  /\ \A f, g \in [Blocks -> Nat] : Added(f, g) \in [Blocks -> Nat] /\ \A b \in Blocks : Added(f, g)[b] = f[b] + g[b]
BY DEF Nothing, Once, Added, Ind

LEMMA SlotShape ==
  ASSUME NEW s \in Slot
  PROVE  /\ s.cls \in {"owned", "inline", "borrowed"}
         /\ s.cls = "owned" => s.b \in Blocks /\ s = Boxed(s.b)
         /\ s.b # None => s.cls = "owned"
BY DEF Slot, Boxed, Inline, Literal

LEMMA OwnValue ==
  ASSUME NEW b
  PROVE  /\ \A c : Own(Boxed(c), b) = Ind(b = c)
         /\ Own(Inline, b) = 0 /\ Own(Literal, b) = 0
BY DEF Own, Owns, Boxed, Inline, Literal, Ind

(* The values a program can hand to a list.                                  *)
LEMMA ValueShape ==
  ASSUME ElementsInv, NEW v \in Values
  PROVE  \/ v.cls = "view" /\ mode = "string" /\ v.b \in Blocks
         \/ v.cls = "owned" /\ v.b \in Blocks /\ v = Boxed(v.b) /\ block[v.b] = "live" /\ (mode # "rc" => v.b \in owned)
         \/ v = Inline /\ mode \in {"string", "flat"}
         \/ v = Literal /\ mode = "string"
<1>1. owned \subseteq Blocks /\ views \subseteq Lists \X Blocks /\ \A b \in owned : block[b] = "live"
  BY DEF ElementsInv, ElementsTypeOK, BlockOK
<1>2. \A lb \in views : lb[2] \in Blocks
  BY <1>1
<1>3. CASE mode = "string"
  <2>1. \/ \E b \in owned : v = Boxed(b)
        \/ v = Inline \/ v = Literal
        \/ \E b \in owned \cup {lb[2] : lb \in views}, at \in {0, 1} : v = View(b, at)
    BY <1>3 DEF Values
  <2> QED BY <1>1, <1>2, <1>3, <2>1 DEF Boxed, View
<1>4. CASE mode = "rc"
  BY <1>4 DEF Values, Boxed
<1>5. CASE mode \notin {"string", "rc"}
  <2>1. (\E b \in owned : v = Boxed(b)) \/ (mode = "flat" /\ v = Inline)
    BY <1>5 DEF Values
  <2> QED BY <1>1, <1>5, <2>1 DEF Boxed
<1> QED BY <1>3, <1>4, <1>5

LEMMA ValueFlow ==
  ASSUME ElementsInv, NEW v \in Values, NEW fresh, ForCopy(v, fresh)
  PROVE  Flow(Stored(v, fresh), Retained(v), Source(v), IF Copies(v) THEN {fresh} ELSE {}, Moved(v))
<1> DEFINE T == IF Copies(v) THEN {fresh} ELSE {}
<1>1. mode \in ElemModes /\ owned \subseteq Blocks
  BY DEF ElementsInv, ElementsTypeOK
<1>2. CASE v.cls = "view" /\ mode = "string" /\ v.b \in Blocks
  <2>1. /\ Stored(v, fresh) = Boxed(fresh) /\ Retained(v) = Nothing /\ Source(v) = Nothing
        /\ T = {fresh} /\ Moved(v) = {} /\ fresh \in Blocks /\ block[fresh] = "unused"
    BY <1>2 DEF Stored, Copies, Retained, Source, Moved, ForCopy, Fresh
  <2>2. Boxed(fresh) \in Slot
    BY <2>1 DEF Slot
  <2>3. ASSUME NEW b \in Blocks PROVE FlowAt(Boxed(fresh), Nothing, Nothing, {fresh}, {}, b)
    <3>1. Own(Boxed(fresh), b) = Ind(b = fresh) /\ Nothing[b] = 0
      BY OwnValue, Bags
    <3> QED BY <1>2, <2>1, <3>1 DEF FlowAt, Ind
  <2> QED BY <2>1, <2>2, <2>3, Bags DEF Flow
<1>3. CASE v.cls = "owned" /\ v.b \in Blocks /\ v = Boxed(v.b) /\ block[v.b] = "live" /\ (mode # "rc" => v.b \in owned)
  <2>1. PICK c \in Blocks : c = v.b
    BY <1>3
  <2>2. /\ T = {} /\ Stored(v, fresh) = (IF mode = "flat" THEN Inline ELSE Boxed(c))
        /\ Retained(v) = (IF mode = "rc" THEN Once(c) ELSE Nothing)
        /\ Source(v) = (IF mode = "flat" THEN Once(c) ELSE Nothing)
        /\ Moved(v) = (IF mode \in {"object", "string", "flat"} THEN {c} ELSE {})
    BY <1>3, <2>1 DEF Stored, Copies, Retained, Source, Moved
  <2>3. Stored(v, fresh) \in Slot
    BY <2>2 DEF Slot
  <2>4. ASSUME NEW b \in Blocks PROVE FlowAt(Stored(v, fresh), Retained(v), Source(v), T, Moved(v), b)
    <3>1. Own(Boxed(c), b) = Ind(b = c) /\ Own(Inline, b) = 0 /\ Nothing[b] = 0 /\ Once(c)[b] = Ind(b = c)
      BY OwnValue, Bags
    <3>2. Own(Stored(v, fresh), b) = (IF mode = "flat" THEN 0 ELSE Ind(b = c))
      BY <2>2, <3>1
    <3>3. Retained(v)[b] = (IF mode = "rc" THEN Ind(b = c) ELSE 0) /\ Source(v)[b] = (IF mode = "flat" THEN Ind(b = c) ELSE 0)
      BY <2>2, <3>1
    <3> HIDE DEF T
    <3> QED BY <1>3, <2>1, <2>2, <3>2, <3>3 DEF FlowAt, Ind
  <2>5. Retained(v) \in [Blocks -> Nat] /\ Source(v) \in [Blocks -> Nat]
    BY <2>2, Bags
  <2> QED BY <2>3, <2>4, <2>5 DEF Flow
<1>4. CASE v \in {Inline, Literal} /\ mode \in {"string", "flat"}
  <2>1. v.cls \notin {"view", "owned"}
    BY <1>4 DEF Inline, Literal
  <2>2. /\ T = {} /\ Stored(v, fresh) \in {Inline, Literal} /\ Retained(v) = Nothing
        /\ Source(v) = Nothing /\ Moved(v) = {}
    BY <1>4, <2>1 DEF Stored, Copies, Retained, Source, Moved
  <2>3. Stored(v, fresh) \in Slot
    BY <2>2 DEF Slot
  <2>4. ASSUME NEW b \in Blocks PROVE FlowAt(Stored(v, fresh), Nothing, Nothing, {}, {}, b)
    <3>1. Own(Stored(v, fresh), b) = 0 /\ Nothing[b] = 0
      BY <2>2, OwnValue, Bags
    <3> QED BY <1>4, <3>1 DEF FlowAt, Ind
  <2> QED BY <2>2, <2>3, <2>4, Bags DEF Flow
<1> QED BY <1>2, <1>3, <1>4, ValueShape

-----------------------------------------------------------------------------
(* The operations.                                                           *)

LEMMA ListAt ==
  ASSUME ElementsInv, NEW l \in Lists
  PROVE  /\ list[l] \in ListRec /\ list[l].slots \in Seq(Slot) /\ list[l].grave \in [Blocks -> Nat]
         /\ \A b \in Blocks :
               /\ Of(list[l], b) = Owned(list[l].slots)[b] + list[l].grave[b]
               /\ Owned(list[l].slots)[b] \in Nat /\ list[l].grave[b] \in Nat
               /\ mode = "flat" => Of(list[l], b) = 0
               /\ Of(list[l], b) > 0 => block[b] = "live"
               /\ mode \in {"object", "string"} /\ Of(list[l], b) > 0 => b \notin owned
<1>1. list \in [Lists -> ListRec] /\ list[l] \in ListRec
  BY DEF ElementsInv, ElementsTypeOK
<1>2. list[l].slots \in Seq(Slot) /\ list[l].grave \in [Blocks -> Nat]
  BY <1>1 DEF ListRec
<1>3. Owned(list[l].slots) \in [Blocks -> Nat]
  BY <1>2, OwnedType
<1>4. ASSUME NEW b \in Blocks
      PROVE  /\ mode = "flat" => Of(list[l], b) = 0
             /\ Of(list[l], b) > 0 => block[b] = "live"
             /\ mode \in {"object", "string"} /\ Of(list[l], b) > 0 => b \notin owned
  <2>1. Stores(list, l, list[l], list)
    BY <1>1 DEF Stores
  <2>2. Of(list[l], b) <= EdgesOf(list, b) /\ EdgesOf(list, b) \in Nat /\ Of(list[l], b) \in Nat
    BY ONLY <2>1, b \in Blocks, EdgesMove
  <2>3. BlockOK(b)
    BY DEF ElementsInv
  <2> QED BY <2>2, <2>3 DEF BlockOK, Ind
<1> QED BY <1>1, <1>2, <1>3, <1>4 DEF Of

LEMMA PutOf ==
  ASSUME NEW ss \in Seq(Slot), NEW g \in [Blocks -> Nat],
         NEW r, r = [live |-> TRUE, slots |-> ss, grave |-> g]
  PROVE  /\ r \in ListRec /\ r.live
         /\ \A b \in Blocks : Of(r, b) = Owned(ss)[b] + g[b] /\ Owned(ss)[b] \in Nat /\ g[b] \in Nat
<1>1. Owned(ss) \in [Blocks -> Nat]
  BY OwnedType
<1> QED BY <1>1 DEF ListRec, Of

LEMMA InsertStep ==
  ASSUME ElementsInv, NEW l \in Lists, NEW i, NEW v \in Values, NEW fresh, Insert(l, i, v, fresh)
  PROVE  ElementsInv'
<1>1. PICK w, kept, source, takes, moved, ss, g, r :
         /\ w = Stored(v, fresh) /\ kept = Retained(v) /\ source = Source(v) /\ moved = Moved(v)
         /\ takes = (IF Copies(v) THEN {fresh} ELSE {})
         /\ ss = list[l].slots /\ g = list[l].grave
         /\ r = [live |-> TRUE, slots |-> InsertAt(ss, i, w), grave |-> g]
  OBVIOUS
<1>2. Flow(w, kept, source, takes, moved)
  BY <1>1, ValueFlow DEF Insert
<1>3. ListStep(l, r, kept, source, takes, moved)
  BY <1>1 DEF Insert, ListStep, Put, Slots
<1>4. i \in 1 .. Len(ss) + 1 /\ ss \in Seq(Slot) /\ g \in [Blocks -> Nat] /\ w \in Slot
  BY <1>1, <1>2, ListAt DEF Insert, Slots, Flow
<1>5. PICK tt : tt = InsertAt(ss, i, w)
  OBVIOUS
<1>6. tt \in Seq(Slot) /\ \A b \in Blocks : Owned(tt)[b] = Owned(ss)[b] + Own(w, b)
  <2>1. CASE Blocks = {}
    <3>1. InsertAt(ss, i, w) \in Seq(Slot)
      BY <1>4 DEF InsertAt
    <3> QED BY <1>5, <2>1, <3>1
  <2>2. CASE Blocks # {}
    <3>1. \A b \in Blocks : InsertAt(ss, i, w) \in Seq(Slot) /\ Owned(InsertAt(ss, i, w))[b] = Owned(ss)[b] + Own(w, b)
      BY <1>4, OwnedInsert
    <3> QED BY <1>5, <2>2, <3>1
  <2> QED BY <2>1, <2>2
<1>7. /\ r \in ListRec /\ r.live
      /\ \A b \in Blocks : Of(r, b) = Owned(tt)[b] + g[b] /\ Owned(tt)[b] \in Nat /\ g[b] \in Nat
  <2>1. r = [live |-> TRUE, slots |-> tt, grave |-> g]
    BY <1>1, <1>5
  <2> QED BY ONLY <1>4, <1>6, <2>1, PutOf
<1>8. ASSUME NEW b \in Blocks PROVE BalancedAt(l, r, kept, source, takes, moved, b)
  <2>1. PICK O \in Nat, R \in Nat, x \in Nat :
           O = Of(list[l], b) /\ R = Of(r, b) /\ x = Own(w, b) /\ R = O + x
    <3>1. Of(list[l], b) = Owned(ss)[b] + g[b] /\ Owned(ss)[b] \in Nat
      BY <1>1, ListAt
    <3>2. Own(w, b) \in Nat
      BY DEF Own
    <3> QED BY <1>6, <1>7, <3>1, <3>2
  <2>2. /\ mode = "flat" => O = 0
        /\ O > 0 => block[b] = "live"
        /\ <<l, b>> \in views /\ mode \in {"object", "string"} => O > 0
    BY <2>1, ListAt DEF ElementsInv, ViewOK
  <2>3. FlowAt(w, kept, source, takes, moved, b) /\ kept[b] \in Nat /\ source[b] \in Nat
    BY <1>2 DEF Flow
  <2>4. Ind(b \in moved) \in Nat /\ Ind(b \in takes) \in Nat
    BY DEF Ind
  <2> QED BY <2>1, <2>2, <2>3, <2>4 DEF BalancedAt, FlowAt
<1>9. Balanced(l, r, kept, source, takes, moved)
  BY <1>2, <1>7, <1>8 DEF Balanced, Flow
<1> QED BY ONLY ElementsInv, <1>3, <1>9, BalancedStep

(* What slot i owns.                                                         *)
LEMMA DiscardedOf ==
  ASSUME ElementsInv, NEW l \in Lists, NEW i \in DOMAIN Slots(l)
  PROVE  /\ i \in 1 .. Len(list[l].slots) /\ list[l].slots[i] \in Slot
         /\ Discarded(l, i) \in [Blocks -> Nat]
         /\ \A b \in Blocks :
               /\ Discarded(l, i)[b] = IF mode \in {"object", "rc", "string"} THEN Own(list[l].slots[i], b) ELSE 0
               /\ Own(list[l].slots[i], b) <= Owned(list[l].slots)[b]
               /\ Own(list[l].slots[i], b) \in Nat
<1>1. PICK ss, s : ss = list[l].slots /\ s = ss[i]
  OBVIOUS
<1>2. ss \in Seq(Slot) /\ i \in 1 .. Len(ss) /\ s \in Slot
  BY <1>1, ListAt DEF Slots
<1>3. \A b \in Blocks : Owned(<<s>>)[b] = Own(s, b) /\ Own(s, b) \in Nat
  BY OwnedFew DEF Own
<1>4. \A b \in Blocks : Own(s, b) <= Owned(ss)[b]
  <2>1. ASSUME NEW b \in Blocks PROVE Own(s, b) <= Owned(ss)[b]
    <3>1. RemoveAt(ss, i) \in Seq(Slot) /\ Owned(RemoveAt(ss, i))[b] + Own(ss[i], b) = Owned(ss)[b]
      BY ONLY <1>2, b \in Blocks, OwnedRemove
    <3>2. Owned(RemoveAt(ss, i))[b] \in Nat
      BY <3>1, OwnedType
    <3> QED BY <1>1, <1>3, <3>1, <3>2
  <2> QED BY <2>1
<1>5. Discarded(l, i) = (IF mode \in {"object", "rc", "string"} THEN Owned(<<s>>) ELSE Nothing)
  BY <1>1 DEF Discarded, Slots
<1>6. Owned(<<s>>) \in [Blocks -> Nat]
  <2>1. <<s>> \in Seq(Slot)
    BY <1>2
  <2> QED BY <2>1, OwnedType
<1> QED BY <1>1, <1>2, <1>3, <1>4, <1>5, <1>6, Bags

(* A value that is moved into a list is not in one: the pointer compare of a *)
(* store never holds.                                                        *)
LEMMA NeverSame ==
  ASSUME ElementsInv, NEW l \in Lists, NEW i \in DOMAIN Slots(l), NEW v \in Values,
         mode \in {"object", "string"}, SamePointer(Slots(l)[i], v)
  PROVE  Copies(v)
<1>1. PICK s : s = list[l].slots[i]
  OBVIOUS
<1>2. s \in Slot /\ s.b # None /\ s.b = v.b
  BY <1>1, DiscardedOf DEF SamePointer, Slots
<1>3. s.b \in Blocks /\ s.cls = "owned"
  BY <1>2, SlotShape
<1>4. Own(s, s.b) = 1
  BY <1>3 DEF Own, Owns
<1>5. Own(s, s.b) <= Owned(list[l].slots)[s.b]
  BY <1>1, <1>3, DiscardedOf
<1>6. s.b \notin owned
  BY <1>3, <1>4, <1>5, ListAt
<1>7. ~(v = Inline) /\ ~(v = Literal)
  BY <1>2 DEF Inline, Literal
<1> QED BY <1>2, <1>6, <1>7, ValueShape DEF Copies

(* A store over slot i: `parked` goes to the grave and `released` is released. *)
LEMMA ReplaceStep ==
  ASSUME ElementsInv, NEW l \in Lists, NEW i \in DOMAIN Slots(l),
         NEW w, NEW kept, NEW source, NEW takes, NEW moved, Flow(w, kept, source, takes, moved),
         NEW parked \in [Blocks -> Nat], NEW released \in [Blocks -> Nat], NEW r,
         r = [live |-> TRUE, slots |-> [list[l].slots EXCEPT ![i] = w], grave |-> Added(list[l].grave, parked)],
         ListStep(l, r, kept, released, takes, moved),
         \A b \in Blocks :
            /\ mode = "rc" => parked[b] = 0 /\ released[b] = Own(list[l].slots[i], b)
            /\ mode \in {"object", "string"} =>
                  /\ parked[b] + released[b] = Own(list[l].slots[i], b)
                  /\ released[b] = 0 \/ NoView(l)
            /\ mode \in {"none", "flat"} => parked[b] = 0
            /\ mode = "flat" => released[b] = source[b]
  PROVE  ElementsInv'
<1>1. PICK ss, s, g, h, tt :
         /\ ss = list[l].slots /\ s = ss[i] /\ g = list[l].grave /\ h = Added(g, parked)
         /\ tt = [ss EXCEPT ![i] = w]
  OBVIOUS
<1>2. /\ ss \in Seq(Slot) /\ i \in 1 .. Len(ss) /\ s \in Slot /\ g \in [Blocks -> Nat] /\ w \in Slot
      /\ h \in [Blocks -> Nat] /\ \A b \in Blocks : h[b] = g[b] + parked[b]
  <2>1. ss \in Seq(Slot) /\ i \in 1 .. Len(ss) /\ s \in Slot /\ g \in [Blocks -> Nat]
    BY <1>1, ListAt, DiscardedOf
  <2>2. w \in Slot
    BY DEF Flow
  <2>3. Added(g, parked) \in [Blocks -> Nat] /\ \A b \in Blocks : Added(g, parked)[b] = g[b] + parked[b]
    BY <2>1 DEF Added
  <2> QED BY ONLY <1>1, <2>1, <2>2, <2>3
<1>3. tt \in Seq(Slot) /\ Replaced(ss, i, w, tt)
  BY <1>1, <1>2 DEF Replaced
<1>4. \A b \in Blocks : Owned(tt)[b] + Own(s, b) = Owned(ss)[b] + Own(w, b)
  <2>1. \A b \in Blocks : Owned(tt)[b] + Own(ss[i], b) = Owned(ss)[b] + Own(w, b)
    BY ONLY <1>2, <1>3, OwnedReplace
  <2> QED BY <1>1, <2>1
<1>5. /\ r \in ListRec /\ r.live
      /\ \A b \in Blocks : Of(r, b) = Owned(tt)[b] + h[b] /\ Owned(tt)[b] \in Nat /\ h[b] \in Nat
  <2>1. r = [live |-> TRUE, slots |-> tt, grave |-> h]
    BY <1>1
  <2> QED BY ONLY <1>2, <1>3, <2>1, PutOf
<1>6. ASSUME NEW b \in Blocks PROVE BalancedAt(l, r, kept, released, takes, moved, b)
  <2>1. PICK O \in Nat, R \in Nat, x \in Nat, y \in Nat, p \in Nat, q \in Nat :
           /\ O = Of(list[l], b) /\ R = Of(r, b) /\ x = Own(w, b) /\ y = Own(s, b)
           /\ p = parked[b] /\ q = released[b] /\ y <= O
           /\ R + y = O + x + p
    <3>1. Of(list[l], b) = Owned(ss)[b] + g[b] /\ Owned(ss)[b] \in Nat /\ g[b] \in Nat
      BY <1>1, ListAt
    <3>2. Own(w, b) \in Nat /\ Own(s, b) \in Nat /\ Own(s, b) <= Owned(ss)[b]
      BY <1>1, DiscardedOf DEF Own
    <3>3. parked[b] \in Nat /\ released[b] \in Nat
      OBVIOUS
    <3>4. /\ Of(r, b) = Owned(tt)[b] + (g[b] + parked[b]) /\ Owned(tt)[b] \in Nat
          /\ Owned(tt)[b] + Own(s, b) = Owned(ss)[b] + Own(w, b)
      BY <1>2, <1>4, <1>5
    <3>5. Of(r, b) \in Nat /\ Of(list[l], b) \in Nat /\ Own(s, b) <= Of(list[l], b)
      BY ONLY <3>1, <3>2, <3>3, <3>4
    <3>6. Of(r, b) + Own(s, b) = Of(list[l], b) + Own(w, b) + parked[b]
      BY ONLY <3>1, <3>2, <3>3, <3>4
    <3>7. \E O, R, x, y, p, q \in Nat :
             /\ O = Of(list[l], b) /\ R = Of(r, b) /\ x = Own(w, b) /\ y = Own(s, b)
             /\ p = parked[b] /\ q = released[b] /\ y <= O
             /\ R + y = O + x + p
      <4> USE <3>2, <3>3, <3>5
      <4> WITNESS Of(list[l], b) \in Nat, Of(r, b) \in Nat, Own(w, b) \in Nat, Own(s, b) \in Nat,
                  parked[b] \in Nat, released[b] \in Nat
      <4> QED BY <3>5, <3>6
    <3> QED BY <3>7
  <2>2. /\ mode = "flat" => O = 0
        /\ O > 0 => block[b] = "live"
        /\ <<l, b>> \in views /\ mode \in {"object", "string"} => O > 0
    BY <2>1, ListAt DEF ElementsInv, ViewOK
  <2>3. FlowAt(w, kept, source, takes, moved, b) /\ kept[b] \in Nat /\ source[b] \in Nat
    BY <1>2 DEF Flow
  <2>4. Ind(b \in moved) \in Nat /\ Ind(b \in takes) \in Nat
    BY DEF Ind
  <2>5. /\ mode = "rc" => p = 0 /\ q = y
        /\ mode \in {"object", "string"} => p + q = y /\ (q = 0 \/ <<l, b>> \notin views)
        /\ mode \in {"none", "flat"} => p = 0
        /\ mode = "flat" => q = source[b]
    BY <1>1, <2>1 DEF NoView
  <2>6. CASE mode = "rc"
    BY <2>1, <2>2, <2>3, <2>5, <2>6 DEF BalancedAt, FlowAt
  <2>7. CASE mode \in {"object", "string"}
    <3>1. /\ b \in moved => b \in owned
          /\ b \in takes => block[b] = "unused"
          /\ x = Ind(b \in moved) + Ind(b \in takes)
      BY <2>1, <2>3, <2>7 DEF FlowAt
    <3>2. R + q = O + Ind(b \in moved) + Ind(b \in takes) /\ q <= O
      BY <2>1, <2>4, <2>5, <2>7, <3>1
    <3>3. <<l, b>> \in views => R > 0
      BY <2>1, <2>2, <2>5, <2>7
    <3> QED BY <2>1, <2>7, <3>1, <3>2, <3>3 DEF BalancedAt
  <2>8. CASE mode = "none"
    <3>1. b \notin takes /\ b \notin moved /\ (x > 0 => block[b] = "live")
      BY <2>1, <2>3, <2>8 DEF FlowAt
    <3>2. R > 0 => O > 0 \/ x > 0
      BY <2>1, <2>5, <2>8
    <3> QED BY <2>1, <2>2, <2>8, <3>1, <3>2 DEF BalancedAt
  <2>9. CASE mode = "flat"
    <3>1. b \notin takes /\ (b \in moved => b \in owned) /\ x = 0 /\ source[b] = Ind(b \in moved)
      BY <2>1, <2>3, <2>9 DEF FlowAt
    <3>2. R = 0 /\ q = Ind(b \in moved)
      BY <2>1, <2>2, <2>5, <2>9, <3>1
    <3> QED BY <2>1, <2>9, <3>1, <3>2 DEF BalancedAt
  <2> QED BY <2>6, <2>7, <2>8, <2>9 DEF ElementsInv, ElementsTypeOK, ElemModes
<1>7. Balanced(l, r, kept, released, takes, moved)
  BY <1>5, <1>6 DEF Balanced, Flow
<1> QED BY ONLY ElementsInv, <1>7, ListStep(l, r, kept, released, takes, moved), BalancedStep

LEMMA SetStep ==
  ASSUME AdmittedPrograms, ElementsInv, NEW l \in Lists, NEW i, NEW v \in Values, NEW fresh, Set(l, i, v, fresh)
  PROVE  ElementsInv'
<1>1. PICK w, kept, source, takes, moved :
         /\ w = Stored(v, fresh) /\ kept = Retained(v) /\ source = Source(v) /\ moved = Moved(v)
         /\ takes = (IF Copies(v) THEN {fresh} ELSE {})
  OBVIOUS
<1>2. Flow(w, kept, source, takes, moved)
  BY <1>1, ValueFlow DEF Set
<1>3. i \in DOMAIN Slots(l)
  BY DEF Set
<1>4. PICK parked, released, r :
         /\ parked = (IF mode = "rc" \/ SamePointer(Slots(l)[i], v) THEN Nothing ELSE Discarded(l, i))
         /\ released = (IF mode = "rc" THEN Discarded(l, i) ELSE source)
         /\ r = [live |-> TRUE, slots |-> [list[l].slots EXCEPT ![i] = w], grave |-> Added(list[l].grave, parked)]
  OBVIOUS
<1>5. ListStep(l, r, kept, released, takes, moved)
  BY <1>1, <1>4 DEF Set, ListStep, Put, Slots
<1>6. mode \in {"object", "string"} => ~SamePointer(Slots(l)[i], v)
  BY <1>3, NeverSame DEF Set, AdmittedPrograms
<1>7. parked \in [Blocks -> Nat] /\ released \in [Blocks -> Nat]
  BY <1>2, <1>3, <1>4, DiscardedOf, Bags DEF Flow
<1>8. ASSUME NEW b \in Blocks
      PROVE  /\ mode = "rc" => parked[b] = 0 /\ released[b] = Own(list[l].slots[i], b)
             /\ mode \in {"object", "string"} =>
                   /\ parked[b] + released[b] = Own(list[l].slots[i], b)
                   /\ released[b] = 0 \/ NoView(l)
             /\ mode \in {"none", "flat"} => parked[b] = 0
             /\ mode = "flat" => released[b] = source[b]
  <2>1. /\ Discarded(l, i)[b] = IF mode \in {"object", "rc", "string"} THEN Own(list[l].slots[i], b) ELSE 0
        /\ Own(list[l].slots[i], b) \in Nat /\ Nothing[b] = 0
    BY <1>3, DiscardedOf, Bags
  <2>2. mode \in {"object", "string"} => source[b] = 0
    BY <1>2 DEF Flow, FlowAt
  <2> QED BY <1>4, <1>6, <2>1, <2>2
<1> QED BY ONLY ElementsInv, l \in Lists, <1>2, <1>3, <1>4, <1>5, <1>7, <1>8, ReplaceStep

LEMMA SetNowStep ==
  ASSUME AdmittedPrograms, ElementsInv, NEW l \in Lists, NEW i, NEW v \in Values,
         SetNow(l, i, v) \/ SetExclusive(l, i, v)
  PROVE  ElementsInv'
<1>1. mode \in {"object", "string"} /\ i \in DOMAIN Slots(l) /\ NoView(l) /\ ~Copies(v)
  <2>1. CASE SetNow(l, i, v)
    BY <2>1 DEF SetNow
  <2>2. CASE SetExclusive(l, i, v)
    <3>1. mode = "object" /\ i \in DOMAIN Slots(l) /\ NoView(l)
      BY <2>2, ModesAssumption DEF SetExclusive, AdmittedPrograms
    <3> QED BY <3>1, ValueShape DEF Copies, Inline, Literal
  <2> QED BY <2>1, <2>2
<1>2. PICK kept, source, takes, moved, fresh :
         /\ kept = Retained(v) /\ source = Source(v) /\ moved = Moved(v)
         /\ takes = {} /\ fresh = None
  OBVIOUS
<1>3. ForCopy(v, fresh) /\ Stored(v, fresh) = v /\ kept = Nothing
  BY <1>1, <1>2 DEF ForCopy, Stored, Retained
<1>4. Flow(v, kept, source, takes, moved)
  <2>1. Flow(Stored(v, fresh), Retained(v), Source(v), IF Copies(v) THEN {fresh} ELSE {}, Moved(v))
    BY <1>3, ValueFlow
  <2> QED BY <1>1, <1>2, <1>3, <2>1
<1>5. ~SamePointer(Slots(l)[i], v)
  BY <1>1, NeverSame
<1>6. PICK parked, released, r :
         /\ parked = Nothing /\ released = Discarded(l, i)
         /\ r = [live |-> TRUE, slots |-> [list[l].slots EXCEPT ![i] = v], grave |-> Added(list[l].grave, parked)]
  OBVIOUS
<1>7. Added(list[l].grave, Nothing) = list[l].grave
  <2>1. list[l].grave \in [Blocks -> Nat]
    BY ListAt
  <2> QED BY <2>1 DEF Added, Nothing
<1>8. ListStep(l, r, kept, released, takes, moved)
  BY <1>2, <1>3, <1>5, <1>6, <1>7 DEF SetNow, SetExclusive, ListStep, Put, Slots
<1>9. parked \in [Blocks -> Nat] /\ released \in [Blocks -> Nat]
  BY <1>1, <1>6, DiscardedOf, Bags
<1>10. ASSUME NEW b \in Blocks
      PROVE  /\ mode = "rc" => parked[b] = 0 /\ released[b] = Own(list[l].slots[i], b)
             /\ mode \in {"object", "string"} =>
                   /\ parked[b] + released[b] = Own(list[l].slots[i], b)
                   /\ released[b] = 0 \/ NoView(l)
             /\ mode \in {"none", "flat"} => parked[b] = 0
             /\ mode = "flat" => released[b] = source[b]
  BY <1>1, <1>6, DiscardedOf, Bags
<1> QED BY ONLY ElementsInv, l \in Lists, <1>1, <1>4, <1>6, <1>8, <1>9, <1>10, ReplaceStep

(* What a list loses is parked, or released when nothing views the list.     *)
LEMMA ShrinkStep ==
  ASSUME ElementsInv, NEW l \in Lists, NEW tt \in Seq(Slot), NEW out \in [Blocks -> Nat], NEW now \in BOOLEAN,
         now => NoView(l), NEW r, NEW dropped,
         r = [live |-> TRUE, slots |-> tt, grave |-> IF now THEN list[l].grave ELSE Added(list[l].grave, out)],
         dropped = (IF now THEN out ELSE Nothing),
         ListStep(l, r, Nothing, dropped, {}, {}),
         \A b \in Blocks :
            /\ Owned(tt)[b] <= Owned(list[l].slots)[b]
            /\ mode \in {"object", "rc", "string"} => Owned(tt)[b] + out[b] = Owned(list[l].slots)[b]
            /\ mode \in {"none", "flat"} => out[b] = 0
  PROVE  ElementsInv'
<1>1. PICK ss, g, h : ss = list[l].slots /\ g = list[l].grave /\ h = (IF now THEN g ELSE Added(g, out))
  OBVIOUS
<1>2. g \in [Blocks -> Nat] /\ dropped \in [Blocks -> Nat]
  BY <1>1, ListAt, Bags
<1>3. h \in [Blocks -> Nat] /\ \A b \in Blocks : h[b] = IF now THEN g[b] ELSE g[b] + out[b]
  <2>1. CASE now
    BY <1>1, <1>2, <2>1
  <2>2. CASE ~now
    BY <1>1, <1>2, <2>2 DEF Added
  <2> QED BY <2>1, <2>2
<1>4. /\ r \in ListRec /\ r.live
      /\ \A b \in Blocks : Of(r, b) = Owned(tt)[b] + h[b] /\ Owned(tt)[b] \in Nat /\ h[b] \in Nat
  <2>1. r = [live |-> TRUE, slots |-> tt, grave |-> h]
    BY <1>1
  <2> QED BY ONLY tt \in Seq(Slot), <1>3, <2>1, PutOf
<1>5. ASSUME NEW b \in Blocks PROVE BalancedAt(l, r, Nothing, dropped, {}, {}, b)
  <2>1. /\ Of(list[l], b) = Owned(ss)[b] + g[b] /\ Owned(ss)[b] \in Nat /\ g[b] \in Nat
        /\ mode = "flat" => Of(list[l], b) = 0
        /\ Of(list[l], b) > 0 => block[b] = "live"
    BY <1>1, ListAt
  <2>2. out[b] \in Nat /\ Nothing[b] = 0 /\ dropped[b] = IF now THEN out[b] ELSE 0
    BY Bags
  <2>3. /\ Owned(tt)[b] <= Owned(ss)[b] /\ Owned(tt)[b] \in Nat
        /\ mode \in {"object", "rc", "string"} => Owned(tt)[b] + out[b] = Owned(ss)[b]
        /\ mode \in {"none", "flat"} => out[b] = 0
        /\ Of(r, b) = Owned(tt)[b] + IF now THEN g[b] ELSE g[b] + out[b]
    BY <1>1, <1>3, <1>4
  <2>4. /\ mode \in {"object", "string"} /\ <<l, b>> \in views => Of(list[l], b) > 0
        /\ now => <<l, b>> \notin views
    BY DEF ElementsInv, ViewOK, NoView
  <2>5. mode \in {"object", "rc", "string"} =>
           Of(r, b) + dropped[b] = Of(list[l], b) /\ dropped[b] <= Of(list[l], b) /\ Of(list[l], b) \in Nat
    BY <2>1, <2>2, <2>3
  <2>6. mode \in {"none", "flat"} => Of(r, b) <= Of(list[l], b) /\ dropped[b] = 0 /\ Of(r, b) \in Nat /\ Of(list[l], b) \in Nat
    BY <2>1, <2>2, <2>3
  <2>7. Of(r, b) \in Nat
    BY <2>1, <2>2, <2>3
  <2>8. mode \in {"object", "string"} /\ <<l, b>> \in views => Of(r, b) > 0
    <3>1. SUFFICES ASSUME mode \in {"object", "string"}, <<l, b>> \in views PROVE Of(r, b) > 0
      OBVIOUS
    <3>2. dropped[b] = 0 /\ Of(list[l], b) > 0
      BY <2>2, <2>4, <3>1
    <3> QED BY <2>5, <2>7, <3>1, <3>2
  <2> QED BY <2>1, <2>2, <2>5, <2>6, <2>7, <2>8 DEF BalancedAt, Ind
<1>6. Balanced(l, r, Nothing, dropped, {}, {})
  BY <1>2, <1>4, <1>5, Bags DEF Balanced
<1> QED BY ONLY ElementsInv, <1>6, ListStep(l, r, Nothing, dropped, {}, {}), BalancedStep

LEMMA RemoveStep ==
  ASSUME ElementsInv, NEW l \in Lists, NEW i, NEW now \in BOOLEAN, RemoveElement(l, i, now)
  PROVE  ElementsInv'
<1>1. i \in DOMAIN Slots(l) /\ (now => NoView(l))
  BY DEF RemoveElement
<1>2. PICK tt, out, r, dropped :
         /\ tt = RemoveAt(list[l].slots, i) /\ out = Discarded(l, i)
         /\ r = [live |-> TRUE, slots |-> tt, grave |-> IF now THEN list[l].grave ELSE Added(list[l].grave, out)]
         /\ dropped = (IF now THEN out ELSE Nothing)
  OBVIOUS
<1>3. ListStep(l, r, Nothing, dropped, {}, {})
  BY <1>2 DEF RemoveElement, ListStep, Put, Slots
<1>4. /\ out \in [Blocks -> Nat] /\ i \in 1 .. Len(list[l].slots) /\ list[l].slots \in Seq(Slot)
      /\ \A b \in Blocks : out[b] = IF mode \in {"object", "rc", "string"} THEN Own(list[l].slots[i], b) ELSE 0
      /\ \A b \in Blocks : Own(list[l].slots[i], b) \in Nat
  BY <1>1, <1>2, DiscardedOf, ListAt
<1>5. tt \in Seq(Slot)
  BY <1>2, <1>4 DEF RemoveAt
<1>6. ASSUME NEW b \in Blocks
      PROVE  /\ Owned(tt)[b] <= Owned(list[l].slots)[b]
             /\ mode \in {"object", "rc", "string"} => Owned(tt)[b] + out[b] = Owned(list[l].slots)[b]
             /\ mode \in {"none", "flat"} => out[b] = 0
  <2>1. Owned(tt)[b] + Own(list[l].slots[i], b) = Owned(list[l].slots)[b]
    BY <1>2, <1>4, OwnedRemove
  <2>2. Owned(tt)[b] \in Nat
    BY <1>5, OwnedType
  <2> QED BY <1>4, <2>1, <2>2
<1> QED BY ONLY ElementsInv, l \in Lists, now \in BOOLEAN, <1>1, <1>2, <1>3, <1>4, <1>5, <1>6, ShrinkStep

LEMMA TruncateStep ==
  ASSUME ElementsInv, NEW l \in Lists, NEW n, NEW now \in BOOLEAN, Truncate(l, n, now)
  PROVE  ElementsInv'
<1>1. n \in 0 .. (Len(list[l].slots) - 1) /\ (now => NoView(l)) /\ list[l].slots \in Seq(Slot)
  BY ListAt DEF Truncate, Slots
<1>2. PICK ss, tt, uu, out, r, dropped :
         /\ ss = list[l].slots /\ tt = SubSeq(ss, 1, n) /\ uu = SubSeq(ss, n + 1, Len(ss))
         /\ out = (IF mode \in {"object", "rc", "string"} THEN Owned(uu) ELSE Nothing)
         /\ r = [live |-> TRUE, slots |-> tt, grave |-> IF now THEN list[l].grave ELSE Added(list[l].grave, out)]
         /\ dropped = (IF now THEN out ELSE Nothing)
  OBVIOUS
<1>3. ListStep(l, r, Nothing, dropped, {}, {})
  BY <1>2 DEF Truncate, ListStep, Put, Slots
<1>4. ss \in Seq(Slot) /\ tt \in Seq(Slot) /\ uu \in Seq(Slot) /\ n \in 0 .. Len(ss)
  BY <1>1, <1>2
<1>5. Owned(tt) \in [Blocks -> Nat] /\ Owned(uu) \in [Blocks -> Nat]
  BY <1>4, OwnedType
<1>6. out \in [Blocks -> Nat]
  BY <1>2, <1>5, Bags
<1>7. ASSUME NEW b \in Blocks
      PROVE  /\ Owned(tt)[b] <= Owned(list[l].slots)[b]
             /\ mode \in {"object", "rc", "string"} => Owned(tt)[b] + out[b] = Owned(list[l].slots)[b]
             /\ mode \in {"none", "flat"} => out[b] = 0
  <2>1. Owned(ss)[b] = Owned(tt)[b] + Owned(uu)[b]
    BY <1>2, <1>4, OwnedSplit
  <2>2. Owned(tt)[b] \in Nat /\ Owned(uu)[b] \in Nat /\ Nothing[b] = 0
    BY <1>5, Bags
  <2> QED BY <1>2, <2>1, <2>2
<1>8. /\ r = [live |-> TRUE, slots |-> tt, grave |-> IF now THEN list[l].grave ELSE Added(list[l].grave, out)]
      /\ dropped = (IF now THEN out ELSE Nothing) /\ tt \in Seq(Slot) /\ (now => NoView(l))
  BY <1>1, <1>2, <1>4
<1> QED BY ONLY ElementsInv, l \in Lists, now \in BOOLEAN, <1>3, <1>6, <1>7, <1>8, ShrinkStep

LEMMA ReleaseStep ==
  ASSUME ElementsInv, NEW l \in Lists, Release(l)
  PROVE  ElementsInv'
<1>1. PICK ss, g, dropped :
         /\ ss = list[l].slots /\ g = list[l].grave
         /\ dropped = Added(IF mode = "flat" THEN Nothing ELSE Owned(ss), g)
  OBVIOUS
<1>2. /\ g \in [Blocks -> Nat] /\ Owned(ss) \in [Blocks -> Nat] /\ dropped \in [Blocks -> Nat]
      /\ \A b \in Blocks : dropped[b] = (IF mode = "flat" THEN 0 ELSE Owned(ss)[b]) + g[b]
  <2>1. g \in [Blocks -> Nat] /\ ss \in Seq(Slot)
    BY <1>1, ListAt
  <2>2. Owned(ss) \in [Blocks -> Nat]
    BY <2>1, OwnedType
  <2> QED BY <1>1, <2>1, <2>2, Bags DEF Added
<1>3. ListStep(l, NoList, Nothing, dropped, {}, {})
  BY <1>1 DEF Release, ListStep, Slots
<1>4. NoList \in ListRec /\ \A b \in Blocks : Of(NoList, b) = 0
  <2>1. <<>> \in Seq(Slot)
    OBVIOUS
  <2>2. \A b \in Blocks : Owned(<<>>)[b] = 0
    BY OwnedFew
  <2> QED BY <2>1, <2>2, Bags DEF NoList, ListRec, Of
<1>5. ASSUME NEW b \in Blocks PROVE BalancedAt(l, NoList, Nothing, dropped, {}, {}, b)
  <2>1. /\ Of(list[l], b) = Owned(ss)[b] + g[b] /\ Owned(ss)[b] \in Nat /\ g[b] \in Nat
        /\ mode = "flat" => Of(list[l], b) = 0
    BY <1>1, ListAt
  <2>2. <<l, b>> \notin views /\ Nothing[b] = 0 /\ Of(NoList, b) = 0
    BY <1>4, Bags DEF Release, NoView
  <2>3. dropped[b] = (IF mode = "flat" THEN 0 ELSE Owned(ss)[b]) + g[b]
    BY <1>2
  <2> QED BY <2>1, <2>2, <2>3 DEF BalancedAt, Ind
<1>6. Balanced(l, NoList, Nothing, dropped, {}, {})
  BY <1>2, <1>4, <1>5, Bags DEF Balanced
<1> QED BY ONLY ElementsInv, <1>3, <1>6, BalancedStep

(* list_swap and list_new leave every block where it is.                     *)
LEMMA QuietStep ==
  ASSUME ElementsInv, NEW l \in Lists, NEW r \in ListRec, r.live,
         list' = [list EXCEPT ![l] = r], UNCHANGED <<mode, block, count, owned, views, wild>>,
         \A b \in Blocks : Of(r, b) = Of(list[l], b)
  PROVE  ElementsInv'
<1>1. list \in [Lists -> ListRec] /\ list' \in [Lists -> ListRec]
  BY DEF ElementsInv, ElementsTypeOK
<1>2. Stores(list, l, r, list')
  BY <1>1 DEF Stores
<1>3. ASSUME NEW b \in Blocks PROVE EdgesOf(list', b) = EdgesOf(list, b)
  <2>1. /\ EdgesOf(list', b) + Of(list[l], b) = EdgesOf(list, b) + Of(r, b)
        /\ EdgesOf(list, b) \in Nat /\ EdgesOf(list', b) \in Nat /\ Of(list[l], b) \in Nat
    BY ONLY <1>2, b \in Blocks, EdgesMove
  <2>2. Of(r, b) = Of(list[l], b)
    OBVIOUS
  <2> QED BY ONLY <2>1, <2>2
<1>4. \A m \in Lists : \A b \in Blocks : Of(list'[m], b) = Of(list[m], b)
  BY <1>1
<1>5. ElementsTypeOK'
  BY <1>1 DEF ElementsInv, ElementsTypeOK
<1>6. ASSUME NEW b \in Blocks PROVE BlockOK(b)'
  BY <1>3 DEF ElementsInv, BlockOK
<1>7. ASSUME NEW m \in Lists, NEW b \in Blocks PROVE ViewOK(m, b)'
  BY <1>4 DEF ElementsInv, ViewOK
<1>8. wild' = FALSE
  BY DEF ElementsInv
<1> QED BY <1>5, <1>6, <1>7, <1>8 DEF ElementsInv

LEMMA SwapStep ==
  ASSUME ElementsInv, NEW l \in Lists, NEW i, NEW j, i \in Nat, j \in Nat, Swap(l, i, j)
  PROVE  ElementsInv'
<1>1. PICK ss, g, tt, r :
         /\ ss = list[l].slots /\ g = list[l].grave
         /\ tt = [ss EXCEPT ![i] = ss[j], ![j] = ss[i]]
         /\ r = [live |-> TRUE, slots |-> tt, grave |-> g]
  OBVIOUS
<1>2. ss \in Seq(Slot) /\ g \in [Blocks -> Nat] /\ i \in 1 .. Len(ss) /\ j \in 1 .. Len(ss) /\ i # j
  BY <1>1, ListAt DEF Swap, Slots
<1>3. tt \in Seq(Slot)
  BY <1>1, <1>2
<1>4. \A b \in Blocks : Owned(tt)[b] = Owned(ss)[b]
  BY <1>1, <1>2, OwnedSwap
<1>5. r \in ListRec /\ r.live /\ \A b \in Blocks : Of(r, b) = Owned(tt)[b] + g[b]
  <2>1. r = [live |-> TRUE, slots |-> tt, grave |-> g]
    BY <1>1
  <2> QED BY ONLY <1>2, <1>3, <2>1, PutOf
<1>6. \A b \in Blocks : Of(r, b) = Of(list[l], b)
  <2>1. \A b \in Blocks : Of(list[l], b) = Owned(ss)[b] + g[b]
    BY <1>1, ListAt
  <2> QED BY <1>4, <1>5, <2>1
<1>7. list' = [list EXCEPT ![l] = r] /\ UNCHANGED <<mode, block, count, owned, views, wild>>
  BY <1>1 DEF Swap, Put, Slots
<1> QED BY ONLY ElementsInv, l \in Lists, <1>5, <1>6, <1>7, QuietStep

LEMMA NewListStep ==
  ASSUME ElementsInv, NEW l \in Lists, NewList(l)
  PROVE  ElementsInv'
<1>1. list[l] = NoList
  BY DEF ElementsInv, ElementsTypeOK, NewList, Live
<1>2. PICK r : r = [live |-> TRUE, slots |-> <<>>, grave |-> Nothing]
  OBVIOUS
<1>3. r \in ListRec /\ r.live
  BY <1>2, Bags DEF ListRec
<1>4. \A b \in Blocks : Of(r, b) = Of(list[l], b)
  BY <1>1, <1>2 DEF NoList, Of
<1>5. list' = [list EXCEPT ![l] = r] /\ UNCHANGED <<mode, block, count, owned, views, wild>>
  BY <1>2 DEF NewList, Put
<1> QED BY ONLY ElementsInv, l \in Lists, <1>3, <1>4, <1>5, QuietStep

(* The program's own steps leave the lists alone.                            *)
LEMMA NoEdges ==
  ASSUME ElementsInv, NEW b \in Blocks
  PROVE  /\ EdgesOf(list, b) \in Nat
         /\ \A l \in Lists : Of(list[l], b) \in Nat /\ Of(list[l], b) <= EdgesOf(list, b)
<1>1. list \in [Lists -> ListRec]
  BY DEF ElementsInv, ElementsTypeOK
<1>2. ASSUME NEW l \in Lists
      PROVE  Of(list[l], b) \in Nat /\ Of(list[l], b) <= EdgesOf(list, b) /\ EdgesOf(list, b) \in Nat
  <2>1. Stores(list, l, list[l], list)
    BY <1>1 DEF Stores
  <2> QED BY ONLY <2>1, b \in Blocks, EdgesMove
<1>3. CASE Lists = {}
  <2>1. UNION {PlacesOf(m, list[m], b) : m \in Lists} = {}
    BY <1>3
  <2>2. EdgesOf(list, b) = 0
    BY <2>1, FS_EmptySet DEF EdgesOf
  <2> QED BY <1>2, <2>2
<1> QED BY <1>2, <1>3

LEMMA MakeStep ==
  ASSUME ElementsInv, NEW b \in Blocks, Make(b)
  PROVE  ElementsInv'
<1>1. /\ block[b] = "unused" /\ block' = [block EXCEPT ![b] = "live"]
      /\ owned' = (IF mode = "rc" THEN owned ELSE owned \cup {b})
      /\ mode' = mode /\ count' = count /\ list' = list /\ views' = views /\ wild' = wild
  BY DEF Make, Fresh
<1>2. ElementsTypeOK'
  BY <1>1 DEF ElementsInv, ElementsTypeOK
<1>3. ASSUME NEW c \in Blocks PROVE BlockOK(c)'
  <2>1. BlockOK(c) /\ EdgesOf(list, c) \in Nat
    BY NoEdges DEF ElementsInv
  <2>2. block'[c] = IF c = b THEN "live" ELSE block[c]
    BY <1>1 DEF ElementsInv, ElementsTypeOK
  <2>3. CASE c = b
    <3>1. c \notin owned /\ EdgesOf(list, c) = 0
      BY <1>1, <2>1, <2>3 DEF BlockOK
    <3> QED BY <1>1, <2>1, <2>2, <2>3, <3>1 DEF BlockOK, Ind
  <2>4. CASE c # b
    <3>1. (c \in owned)' <=> c \in owned
      BY <1>1, <2>4
    <3> QED BY <1>1, <2>1, <2>2, <2>4, <3>1 DEF BlockOK, Ind
  <2> QED BY <2>3, <2>4
<1>4. ASSUME NEW m \in Lists, NEW c \in Blocks PROVE ViewOK(m, c)'
  <2>1. ViewOK(m, c)
    BY DEF ElementsInv
  <2>2. block'[c] = IF c = b THEN "live" ELSE block[c]
    BY <1>1 DEF ElementsInv, ElementsTypeOK
  <2> QED BY <1>1, <2>1, <2>2 DEF ViewOK
<1> QED BY <1>1, <1>2, <1>3, <1>4 DEF ElementsInv

LEMMA DropStep ==
  ASSUME ElementsInv, NEW b \in Blocks, Drop(b)
  PROVE  ElementsInv'
<1>1. /\ b \in owned /\ mode # "none" /\ block' = [block EXCEPT ![b] = "freed"]
      /\ owned' = owned \ {b}
      /\ mode' = mode /\ count' = count /\ list' = list /\ views' = views /\ wild' = wild
  BY DEF Drop
<1>2. ElementsTypeOK'
  BY <1>1 DEF ElementsInv, ElementsTypeOK
<1>3. ASSUME NEW c \in Blocks PROVE BlockOK(c)'
  <2>1. BlockOK(c) /\ EdgesOf(list, c) \in Nat
    BY NoEdges DEF ElementsInv
  <2>2. block'[c] = IF c = b THEN "freed" ELSE block[c]
    BY <1>1 DEF ElementsInv, ElementsTypeOK
  <2>3. (c \in owned)' <=> c \in owned /\ c # b
    BY <1>1
  <2>4. CASE c = b
    <3>1. mode # "rc" /\ EdgesOf(list, c) = 0 /\ ~(c \in owned)'
      <4>1. mode \in {"object", "string", "flat"}
        BY <1>1, <2>1, <2>4 DEF BlockOK, ElementsInv, ElementsTypeOK, ElemModes
      <4> QED BY <1>1, <2>1, <2>3, <2>4, <4>1 DEF BlockOK, Ind
    <3> QED BY <1>1, <2>1, <2>2, <2>4, <3>1 DEF BlockOK, Ind
  <2>5. CASE c # b
    <3>1. (c \in owned)' <=> c \in owned
      BY <2>3, <2>5
    <3> QED BY <1>1, <2>1, <2>2, <2>5, <3>1 DEF BlockOK, Ind
  <2> QED BY <2>4, <2>5
<1>4. ASSUME NEW m \in Lists, NEW c \in Blocks PROVE ViewOK(m, c)'
  <2>1. ViewOK(m, c)
    BY DEF ElementsInv
  <2> QED BY <1>1, <2>1 DEF ViewOK
<1> QED BY <1>1, <1>2, <1>3, <1>4 DEF ElementsInv

LEMMA BindStep ==
  ASSUME ElementsInv, NEW l \in Lists, NEW i, Bind(l, i)
  PROVE  ElementsInv'
<1>1. PICK s : s = list[l].slots[i]
  OBVIOUS
<1>2. /\ i \in DOMAIN Slots(l) /\ s.cls = "owned" /\ views' = views \cup {<<l, s.b>>}
      /\ mode' = mode /\ block' = block /\ count' = count /\ list' = list /\ owned' = owned /\ wild' = wild
  BY <1>1 DEF Bind, Slots
<1>3. s.b \in Blocks
  BY <1>1, <1>2, DiscardedOf, SlotShape
<1>4. Of(list[l], s.b) > 0 /\ block[s.b] = "live"
  <2>1. Own(s, s.b) = 1
    BY <1>2 DEF Own, Owns
  <2>2. Own(s, s.b) <= Owned(list[l].slots)[s.b]
    BY <1>1, <1>2, <1>3, DiscardedOf
  <2>3. /\ Of(list[l], s.b) = Owned(list[l].slots)[s.b] + list[l].grave[s.b]
        /\ Owned(list[l].slots)[s.b] \in Nat /\ list[l].grave[s.b] \in Nat
        /\ Of(list[l], s.b) > 0 => block[s.b] = "live"
    BY <1>3, ListAt
  <2> QED BY <2>1, <2>2, <2>3
<1>5. ElementsTypeOK'
  BY <1>2, <1>3 DEF ElementsInv, ElementsTypeOK
<1>6. ASSUME NEW c \in Blocks PROVE BlockOK(c)'
  BY <1>2 DEF ElementsInv, BlockOK
<1>7. ASSUME NEW m \in Lists, NEW c \in Blocks PROVE ViewOK(m, c)'
  <2>1. ViewOK(m, c)
    BY DEF ElementsInv
  <2>2. <<m, c>> \in views' => <<m, c>> \in views \/ (m = l /\ c = s.b)
    BY <1>2
  <2> QED BY <1>2, <1>4, <2>1, <2>2 DEF ViewOK
<1> QED BY <1>2, <1>5, <1>6, <1>7 DEF ElementsInv

LEMMA UnbindStep ==
  ASSUME ElementsInv, NEW l \in Lists, NEW b \in Blocks, Unbind(l, b)
  PROVE  ElementsInv'
<1>1. /\ views' \subseteq views
      /\ mode' = mode /\ block' = block /\ count' = count /\ list' = list /\ owned' = owned /\ wild' = wild
  BY DEF Unbind
<1>2. ElementsTypeOK'
  BY <1>1 DEF ElementsInv, ElementsTypeOK
<1>3. ASSUME NEW c \in Blocks PROVE BlockOK(c)'
  BY <1>1 DEF ElementsInv, BlockOK
<1>4. ASSUME NEW m \in Lists, NEW c \in Blocks PROVE ViewOK(m, c)'
  BY <1>1 DEF ElementsInv, ViewOK
<1> QED BY <1>1, <1>2, <1>3, <1>4 DEF ElementsInv

LEMMA ElementsStart == ElementsInit => ElementsInv
<1> SUFFICES ASSUME ElementsInit PROVE ElementsInv
  OBVIOUS
<1>1. NoList \in ListRec /\ \A b \in Blocks : Of(NoList, b) = 0
  <2>1. \A b \in Blocks : Owned(<<>>)[b] = 0
    BY OwnedFew
  <2> QED BY <2>1, Bags DEF NoList, ListRec, Of
<1>2. ElementsTypeOK
  BY <1>1, ModesAssumption DEF ElementsInit, ElementsTypeOK
<1>3. ASSUME NEW b \in Blocks PROVE EdgesOf(list, b) = 0
  <2>1. \A m \in Lists : PlacesOf(m, list[m], b) = {}
    <3>1. Owners(<<>>, b) = {}
      BY DEF Owners
    <3>2. NoList.slots = <<>> /\ NoList.grave[b] = 0
      BY Bags DEF NoList
    <3>3. \A m \in Lists : PlacesOf(m, NoList, b) = {}
      BY <3>1, <3>2 DEF PlacesOf
    <3> QED BY <3>3 DEF ElementsInit
  <2>2. UNION {PlacesOf(m, list[m], b) : m \in Lists} = {}
    BY <2>1
  <2> QED BY <2>2, FS_EmptySet DEF EdgesOf
<1>4. ASSUME NEW b \in Blocks PROVE BlockOK(b)
  BY <1>3 DEF ElementsInit, BlockOK, Ind
<1>5. ASSUME NEW l \in Lists, NEW b \in Blocks PROVE ViewOK(l, b)
  BY DEF ElementsInit, ViewOK
<1> QED BY <1>2, <1>4, <1>5 DEF ElementsInit, ElementsInv

LEMMA ElementsStep ==
  ASSUME AdmittedPrograms, ElementsInv, [ElementsNext]_elementVars
  PROVE  ElementsInv'
<1>1. ASSUME NEW b \in Blocks, Make(b) \/ Drop(b) PROVE ElementsInv'
  BY <1>1, MakeStep, DropStep
<1>2. ASSUME NEW l \in Lists, ListOperation(l) PROVE ElementsInv'
  <2>1. CASE NewList(l) \/ Release(l)
    BY <2>1, NewListStep, ReleaseStep
  <2>2. ASSUME NEW v \in Values, NEW i \in 1 .. MaxLen, NEW fresh \in Fresh \cup {None},
               Insert(l, i, v, fresh) \/ Set(l, i, v, fresh)
        PROVE  ElementsInv'
    BY <2>2, InsertStep, SetStep
  <2>3. ASSUME NEW v \in Values, NEW i \in 1 .. MaxLen, SetNow(l, i, v) \/ SetExclusive(l, i, v)
        PROVE  ElementsInv'
    BY <2>3, SetNowStep
  <2>4. ASSUME NEW i \in 1 .. MaxLen, NEW now \in BOOLEAN, RemoveElement(l, i, now) \/ Truncate(l, i - 1, now)
        PROVE  ElementsInv'
    BY <2>4, RemoveStep, TruncateStep
  <2>5. ASSUME NEW i \in 1 .. MaxLen, NEW j \in 1 .. MaxLen, Swap(l, i, j)
        PROVE  ElementsInv'
    BY <2>5, SwapStep
  <2>6. ASSUME NEW i \in 1 .. MaxLen, Bind(l, i) PROVE ElementsInv'
    BY <2>6, BindStep
  <2>7. ASSUME NEW b \in Blocks, Unbind(l, b) PROVE ElementsInv'
    BY <2>7, UnbindStep
  <2> QED BY ONLY <1>2, <2>1, <2>2, <2>3, <2>4, <2>5, <2>6, <2>7, Zenon DEF ListOperation
<1>3. CASE UNCHANGED elementVars
  <2>1. ElementsTypeOK' /\ wild' = FALSE
    BY <1>3 DEF elementVars, ElementsInv, ElementsTypeOK
  <2>2. ASSUME NEW c \in Blocks PROVE BlockOK(c)'
    BY <1>3 DEF elementVars, ElementsInv, BlockOK
  <2>3. ASSUME NEW m \in Lists, NEW c \in Blocks PROVE ViewOK(m, c)'
    BY <1>3 DEF elementVars, ElementsInv, ViewOK
  <2> QED BY <2>1, <2>2, <2>3 DEF ElementsInv
<1> QED BY <1>1, <1>2, <1>3 DEF ElementsNext

LEMMA ElementsSafe ==
  ASSUME AdmittedPrograms PROVE ElementsSpec => []ElementsInv
<1>1. ElementsInit => ElementsInv
  BY ElementsStart
<1>2. ElementsInv /\ [ElementsNext]_elementVars => ElementsInv'
  BY ElementsStep
<1> QED BY <1>1, <1>2, PTL DEF ElementsSpec

LEMMA EdgesArePlaces == \A b : Edges(b) = EdgesOf(list, b)
BY DEF Edges, Places, EdgesOf, PlacesOf, Slots

-----------------------------------------------------------------------------
(* For any lists, blocks and elements, in a list of counted elements rc_retain *)
(* and rc_release keep each block's count equal to the slots that hold it.   *)
THEOREM ContainersAreCounted ==
  ASSUME AdmittedPrograms PROVE ElementsSpec => []CountsAreContainers
<1>1. ElementsInv => CountsAreContainers
  BY EdgesArePlaces DEF ElementsInv, BlockOK, CountsAreContainers
<1> QED BY <1>1, ElementsSafe, PTL

(* An object or a String's buffer has exactly one owner from its allocation to *)
(* its release: the program, or one slot or grave of one list, through every  *)
(* push, set, removal, truncation, swap and list_release.                    *)
THEOREM ElementsHaveOneOwner ==
  ASSUME AdmittedPrograms PROVE ElementsSpec => []OneOwner
<1>1. ElementsInv => OneOwner
  <2> SUFFICES ASSUME ElementsInv, mode \in {"object", "string"}, NEW b \in Blocks
               PROVE  Edges(b) + (IF b \in owned THEN 1 ELSE 0) = (IF block[b] = "live" THEN 1 ELSE 0)
    BY DEF OneOwner
  <2> QED BY EdgesArePlaces DEF ElementsInv, BlockOK, Ind
<1> QED BY <1>1, ElementsSafe, PTL

(* Nothing is released twice or when it is not live, and what `let s = v[i]`  *)
(* reads is alive as long as the binding: list_park keeps it, and codegen's   *)
(* immediate releases happen only where nothing views the list.              *)
THEOREM ViewsAreReadable ==
  ASSUME AdmittedPrograms PROVE ElementsSpec => []ViewsStayReadable
<1>1. ElementsInv => ViewsStayReadable
  <2> SUFFICES ASSUME ElementsInv PROVE ViewsStayReadable
    OBVIOUS
  <2>1. ASSUME NEW lb \in views, mode # "rc" PROVE block[lb[2]] = "live"
    <3>1. PICK l \in Lists, b \in Blocks : lb = <<l, b>>
      BY DEF ElementsInv, ElementsTypeOK
    <3>2. ViewOK(l, b) /\ <<l, b>> \in views /\ mode \in ElemModes
      BY <2>1, <3>1 DEF ElementsInv, ElementsTypeOK
    <3>3. Of(list[l], b) > 0 => block[b] = "live"
      BY ListAt
    <3> QED BY <2>1, <3>1, <3>2, <3>3 DEF ViewOK, ElemModes
  <2>2. ~wild
    BY DEF ElementsInv
  <2> QED BY <2>1, <2>2 DEF ViewsStayReadable
<1> QED BY <1>1, ElementsSafe, PTL
=============================================================================
