---------------------------- MODULE BuilderProofs ---------------------------
(***************************************************************************)
(* Proofs about AnimationBuilder, for any animations, documents and bounds *)
(* on offsets: whatever is authored or imported and however many keys are  *)
(* injected, the keys of a channel stay in order and linked, and what is   *)
(* built of them is read back, from memory and from an archive.            *)
(***************************************************************************)
EXTENDS AnimationBuilder, SkeletonProofs

-----------------------------------------------------------------------------
(* The order of keys.                                                      *)

SomeKey == [track : Nat, prev : Int, time : Int]

\* Two keys neither of which comes first.
SamePlace(a, b) == a.prev = b.prev /\ a.track = b.track

LEMMA Ordering ==
  ASSUME NEW a \in SomeKey, NEW b \in SomeKey
  PROVE  /\ SortingKeyLess(a, b) \/ SortingKeyLess(b, a) \/ SamePlace(a, b)
         /\ ~(SortingKeyLess(a, b) /\ SortingKeyLess(b, a))
         /\ ~(SortingKeyLess(a, b) /\ SamePlace(a, b))
         /\ \A c \in SomeKey : SortingKeyLess(a, b) /\ SortingKeyLess(b, c) => SortingKeyLess(a, c)
BY DEF SomeKey, SortingKeyLess, SamePlace

\* Every key, not just the next one, comes after those before it.
FullyInOrder(keys) ==
    \A m, n \in DOMAIN keys : m < n => SortingKeyLess(keys[m], keys[n])

LEMMA FullyMeansInOrder ==
  ASSUME NEW keys \in Seq(SomeKey), FullyInOrder(keys)
  PROVE  InOrder(keys)
BY DEF InOrder, FullyInOrder

\* A sequence without the key at place p.
IsWithout(less, keys, p) ==
    /\ less \in Seq(SomeKey) /\ Len(less) = Len(keys) - 1
    /\ \A n \in 1 .. Len(less) : less[n] = IF n < p THEN keys[n] ELSE keys[n + 1]

LEMMA RemoveIs ==
  ASSUME NEW keys \in Seq(SomeKey), NEW p \in 1 .. Len(keys)
  PROVE  IsWithout(RemoveAt(keys, p), keys, p)
<1> DEFINE s == SubSeq(keys, 1, p - 1)
           t == SubSeq(keys, p + 1, Len(keys))
<1>1. /\ s \in Seq(SomeKey) /\ Len(s) = p - 1
      /\ \A n \in 1 .. p - 1 : s[n] = keys[n]
  <2>1. \A n \in 1 .. p - 1 : keys[n] \in SomeKey
    OBVIOUS
  <2>2. /\ s \in Seq(SomeKey) /\ Len(s) = IF 1 <= p - 1 THEN p - 1 - 1 + 1 ELSE 0
        /\ \A n \in 1 .. p - 1 - 1 + 1 : s[n] = keys[1 + n - 1]
    BY <2>1, SubSeqProperties
  <2> QED BY <2>2
<1>2. /\ t \in Seq(SomeKey) /\ Len(t) = Len(keys) - p
      /\ \A n \in 1 .. Len(keys) - p : t[n] = keys[p + n]
  <2>1. \A n \in p + 1 .. Len(keys) : keys[n] \in SomeKey
    OBVIOUS
  <2>2. /\ t \in Seq(SomeKey) /\ Len(t) = IF p + 1 <= Len(keys) THEN Len(keys) - (p + 1) + 1 ELSE 0
        /\ \A n \in 1 .. Len(keys) - (p + 1) + 1 : t[n] = keys[(p + 1) + n - 1]
    BY <2>1, SubSeqProperties
  <2> QED BY <2>2
<1> HIDE DEF s, t
<1>3. /\ s \o t \in Seq(SomeKey) /\ Len(s \o t) = Len(s) + Len(t)
      /\ \A n \in 1 .. Len(s) + Len(t) : (s \o t)[n] = IF n <= Len(s) THEN s[n] ELSE t[n - Len(s)]
  BY <1>1, <1>2, ConcatProperties
<1>4. RemoveAt(keys, p) = s \o t
  BY DEF RemoveAt, s, t
<1>5. Len(s \o t) = Len(keys) - 1
  BY <1>1, <1>2, <1>3
<1>6. \A n \in 1 .. Len(s \o t) : (s \o t)[n] = IF n < p THEN keys[n] ELSE keys[n + 1]
  <2> SUFFICES ASSUME NEW n \in 1 .. Len(s \o t)
               PROVE  (s \o t)[n] = IF n < p THEN keys[n] ELSE keys[n + 1]
    OBVIOUS
  <2>1. CASE n < p
    BY <2>1, <1>1, <1>2, <1>3
  <2>2. CASE ~(n < p)
    <3>1. n - (p - 1) \in 1 .. Len(keys) - p /\ p + (n - (p - 1)) = n + 1
      BY <2>2, <1>5
    <3>2. (s \o t)[n] = t[n - (p - 1)]
      BY <2>2, <1>1, <1>2, <1>3
    <3> QED BY <3>1, <3>2, <2>2, <1>2
  <2> QED BY <2>1, <2>2
<1> QED BY <1>3, <1>4, <1>5, <1>6 DEF IsWithout

LEMMA WithoutKeepsOrder ==
  ASSUME NEW keys \in Seq(SomeKey), FullyInOrder(keys), NEW p \in 1 .. Len(keys),
         NEW less, IsWithout(less, keys, p)
  PROVE  FullyInOrder(less) /\ ToSet(less) = ToSet(keys) \ {keys[p]}
<1> USE DEF IsWithout
<1>1. FullyInOrder(less)
  <2> SUFFICES ASSUME NEW m \in 1 .. Len(less), NEW n \in 1 .. Len(less), m < n
               PROVE  SortingKeyLess(less[m], less[n])
    BY DEF FullyInOrder
  <2> DEFINE At(k) == IF k < p THEN k ELSE k + 1
  <2>1. /\ At(m) \in DOMAIN keys /\ At(n) \in DOMAIN keys /\ At(m) < At(n)
        /\ less[m] = keys[At(m)] /\ less[n] = keys[At(n)]
    OBVIOUS
  <2> HIDE DEF At
  <2> QED BY <2>1 DEF FullyInOrder
<1>2. \A n \in 1 .. Len(less) : less[n] \in ToSet(keys) \ {keys[p]}
  <2> SUFFICES ASSUME NEW n \in 1 .. Len(less) PROVE less[n] \in ToSet(keys) \ {keys[p]}
    OBVIOUS
  <2> DEFINE at == IF n < p THEN n ELSE n + 1
  <2>1. at \in DOMAIN keys /\ p \in DOMAIN keys /\ (at < p \/ p < at) /\ less[n] = keys[at]
    OBVIOUS
  <2> HIDE DEF at
  <2>2. SortingKeyLess(keys[at], keys[p]) \/ SortingKeyLess(keys[p], keys[at])
    BY <2>1 DEF FullyInOrder
  <2>3. ~SortingKeyLess(keys[p], keys[p])
    <3>1. keys[p] \in SomeKey
      BY <2>1
    <3> QED BY <3>1, Ordering
  <2> QED BY <2>1, <2>2, <2>3 DEF ToSet
<1>3. \A n \in 1 .. Len(keys) : n # p => keys[n] \in ToSet(less)
  <2> SUFFICES ASSUME NEW n \in 1 .. Len(keys), n # p PROVE keys[n] \in ToSet(less)
    OBVIOUS
  <2> DEFINE at == IF n < p THEN n ELSE n - 1
  <2>1. at \in DOMAIN less /\ less[at] = keys[n]
    OBVIOUS
  <2> QED BY <2>1 DEF ToSet
<1> QED BY <1>1, <1>2, <1>3 DEF ToSet

\* A sequence with a key at place p.
IsWith(more, keys, p, key) ==
    /\ more \in Seq(SomeKey) /\ Len(more) = Len(keys) + 1
    /\ \A n \in 1 .. Len(more) :
          more[n] = IF n < p THEN keys[n] ELSE IF n = p THEN key ELSE keys[n - 1]

LEMMA InsertIs ==
  ASSUME NEW keys \in Seq(SomeKey), NEW p \in 1 .. Len(keys) + 1, NEW key \in SomeKey
  PROVE  IsWith(InsertAt(keys, p, key), keys, p, key)
<1> DEFINE s == SubSeq(keys, 1, p - 1)
           t == SubSeq(keys, p, Len(keys))
           one == <<key>>
<1>1. /\ s \in Seq(SomeKey) /\ Len(s) = p - 1
      /\ \A n \in 1 .. p - 1 : s[n] = keys[n]
  <2>1. \A n \in 1 .. p - 1 : keys[n] \in SomeKey
    OBVIOUS
  <2>2. /\ s \in Seq(SomeKey) /\ Len(s) = IF 1 <= p - 1 THEN p - 1 - 1 + 1 ELSE 0
        /\ \A n \in 1 .. p - 1 - 1 + 1 : s[n] = keys[1 + n - 1]
    BY <2>1, SubSeqProperties
  <2> QED BY <2>2
<1>2. /\ t \in Seq(SomeKey) /\ Len(t) = Len(keys) - (p - 1)
      /\ \A n \in 1 .. Len(keys) - (p - 1) : t[n] = keys[(p - 1) + n]
  <2>1. \A n \in p .. Len(keys) : keys[n] \in SomeKey
    OBVIOUS
  <2>2. /\ t \in Seq(SomeKey) /\ Len(t) = IF p <= Len(keys) THEN Len(keys) - p + 1 ELSE 0
        /\ \A n \in 1 .. Len(keys) - p + 1 : t[n] = keys[p + n - 1]
    BY <2>1, SubSeqProperties
  <2> QED BY <2>2
<1>3. one \in Seq(SomeKey) /\ Len(one) = 1 /\ one[1] = key
  OBVIOUS
<1> HIDE DEF s, t, one
<1>4. /\ s \o one \in Seq(SomeKey) /\ Len(s \o one) = p
      /\ \A n \in 1 .. p : (s \o one)[n] = IF n < p THEN keys[n] ELSE key
  <2>1. /\ s \o one \in Seq(SomeKey) /\ Len(s \o one) = Len(s) + Len(one)
        /\ \A n \in 1 .. Len(s) + Len(one) :
              (s \o one)[n] = IF n <= Len(s) THEN s[n] ELSE one[n - Len(s)]
    BY <1>1, <1>3, ConcatProperties
  <2>2. Len(s) + Len(one) = p
    BY <1>1, <1>3
  <2>3. ASSUME NEW n \in 1 .. p PROVE (s \o one)[n] = IF n < p THEN keys[n] ELSE key
    <3>1. CASE n < p
      BY <3>1, <2>1, <2>2, <1>1
    <3>2. CASE ~(n < p)
      <4>1. ~(n <= Len(s)) /\ n - Len(s) = 1
        BY <3>2, <1>1
      <4> QED BY <4>1, <2>1, <2>2, <1>3, <3>2
    <3> QED BY <3>1, <3>2
  <2> QED BY <2>1, <2>2, <2>3
<1> DEFINE r == s \o one
<1> HIDE DEF r
<1>5. /\ r \in Seq(SomeKey) /\ Len(r) = p
      /\ \A n \in 1 .. p : r[n] = IF n < p THEN keys[n] ELSE key
  BY <1>4 DEF r
<1>6. /\ r \o t \in Seq(SomeKey) /\ Len(r \o t) = Len(r) + Len(t)
      /\ \A n \in 1 .. Len(r) + Len(t) : (r \o t)[n] = IF n <= Len(r) THEN r[n] ELSE t[n - Len(r)]
  BY <1>2, <1>5, ConcatProperties
<1>7. InsertAt(keys, p, key) = r \o t
  BY DEF InsertAt, r, s, t, one
<1>8. Len(r) + Len(t) = Len(keys) + 1
  BY <1>2, <1>5
<1>9. ASSUME NEW n \in 1 .. Len(keys) + 1
      PROVE  (r \o t)[n] = IF n < p THEN keys[n] ELSE IF n = p THEN key ELSE keys[n - 1]
  <2>1. CASE n <= p
    BY <2>1, <1>5, <1>6, <1>8
  <2>2. CASE ~(n <= p)
    <3>1. n - p \in 1 .. Len(keys) - (p - 1) /\ (p - 1) + (n - p) = n - 1
      BY <2>2
    <3>2. (r \o t)[n] = t[n - p]
      BY <2>2, <1>5, <1>6, <1>8
    <3> QED BY <3>1, <3>2, <2>2, <1>2
  <2> QED BY <2>1, <2>2
<1> QED BY <1>6, <1>7, <1>8, <1>9 DEF IsWith

LEMMA Prefix1 ==
  ASSUME NEW L \in Nat, NEW S, S \subseteq 1 .. L,
         \A m \in 1 .. L, n \in S : m < n => m \in S
  PROVE  S = 1 .. Cardinality(S) /\ Cardinality(S) \in 0 .. L
<1> DEFINE T == {m \in Nat : m + 1 \notin S}
<1>1. L \in T
  OBVIOUS
<1>2. PICK m \in T : \A k \in T : m <= k
  <2>1. T \subseteq Nat /\ T # {}
    BY <1>1
  <2> HIDE DEF T
  <2> QED BY <2>1, LeastNatural
<1>3. m \in Nat /\ m <= L /\ m + 1 \notin S
  BY <1>1, <1>2
<1>4. \A k \in Nat : k < m => k + 1 \in S
  BY <1>2
<1>5. S = 1 .. m
  <2>1. ASSUME NEW k \in 1 .. m PROVE k \in S
    <3>1. k - 1 \in Nat /\ k - 1 < m /\ (k - 1) + 1 = k
      BY <1>3
    <3> QED BY <3>1, <1>4
  <2>2. ASSUME NEW k \in S PROVE k \in 1 .. m
    <3>0. k \in 1 .. L
      OBVIOUS
    <3>1. CASE k > m
      <4>1. m + 1 < k \/ m + 1 = k
        BY <3>1, <1>3
      <4>2. m + 1 \in 1 .. L
        BY <3>1, <1>3
      <4> QED BY <4>1, <4>2, <1>3
    <3> QED BY <3>0, <3>1, <1>3
  <2> HIDE DEF T
  <2> QED BY <2>1, <2>2
<1>6. Cardinality(1 .. m) = m
  BY <1>3, FS_Interval
<1> QED BY <1>3, <1>5, <1>6

LEMMA PlaceKeepsOrder ==
  ASSUME NEW keys \in Seq(SomeKey), FullyInOrder(keys), NEW key \in SomeKey,
         \A n \in DOMAIN keys : ~SamePlace(key, keys[n])
  PROVE  /\ Place(keys, key) \in Seq(SomeKey)
         /\ FullyInOrder(Place(keys, key))
         /\ ToSet(Place(keys, key)) = ToSet(keys) \cup {key}
         /\ Len(Place(keys, key)) = Len(keys) + 1
<1> DEFINE S == {n \in DOMAIN keys : ~SortingKeyLess(key, keys[n])}
           p == 1 + Cardinality(S)
<1>0. \A n \in DOMAIN keys : keys[n] \in SomeKey
  OBVIOUS
<1>1. \A n \in DOMAIN keys : n \in S <=> SortingKeyLess(keys[n], key)
  BY <1>0, Ordering
<1>2. S = 1 .. Cardinality(S) /\ Cardinality(S) \in 0 .. Len(keys)
  <2>1. S \subseteq 1 .. Len(keys)
    OBVIOUS
  <2>2. ASSUME NEW m \in 1 .. Len(keys), NEW n \in S, m < n PROVE m \in S
    <3>1. SortingKeyLess(keys[m], keys[n]) /\ SortingKeyLess(keys[n], key)
      BY <1>1, <2>2 DEF FullyInOrder
    <3>2. SortingKeyLess(keys[m], key)
      BY <3>1, <1>0, Ordering
    <3> QED BY <3>2, <1>1
  <2> HIDE DEF S
  <2>3. Len(keys) \in Nat
    OBVIOUS
  <2> QED BY ONLY <2>1, <2>2, <2>3, Prefix1
<1> HIDE DEF S
<1>3. p \in 1 .. Len(keys) + 1
  BY <1>2
<1>4. \A n \in DOMAIN keys : IF n < p THEN SortingKeyLess(keys[n], key)
                                      ELSE SortingKeyLess(key, keys[n])
  <2> SUFFICES ASSUME NEW n \in DOMAIN keys
               PROVE  IF n < p THEN SortingKeyLess(keys[n], key) ELSE SortingKeyLess(key, keys[n])
    OBVIOUS
  <2>1. n < p <=> n \in S
    BY <1>2
  <2>2. n \notin S => SortingKeyLess(key, keys[n])
    BY DEF S
  <2> QED BY <2>1, <2>2, <1>1
<1>5. Place(keys, key) = InsertAt(keys, p, key)
  BY DEF Place, S
<1> HIDE DEF p
<1> DEFINE more == InsertAt(keys, p, key)
<1>6. IsWith(more, keys, p, key)
  BY <1>3, InsertIs
<1> HIDE DEF more
<1>7. FullyInOrder(more)
  <2> SUFFICES ASSUME NEW m \in 1 .. Len(more), NEW n \in 1 .. Len(more), m < n
               PROVE  SortingKeyLess(more[m], more[n])
    BY <1>6 DEF FullyInOrder, IsWith
  <2>0. Len(more) = Len(keys) + 1 /\ Len(keys) \in Nat
    BY <1>6 DEF IsWith
  <2>1. /\ more[m] = IF m < p THEN keys[m] ELSE IF m = p THEN key ELSE keys[m - 1]
        /\ more[n] = IF n < p THEN keys[n] ELSE IF n = p THEN key ELSE keys[n - 1]
    BY <1>6 DEF IsWith
  <2>2. CASE m = p
    <3>1. n - 1 \in DOMAIN keys /\ ~(n - 1 < p) /\ ~(n < p) /\ n # p
      BY <2>0, <2>2, <1>3
    <3> QED BY <3>1, <2>1, <2>2, <1>4, <1>3
  <2>3. CASE n = p
    <3>1. m \in DOMAIN keys /\ m < p
      BY <2>0, <2>3, <1>3
    <3> QED BY <3>1, <2>1, <2>3, <1>4, <1>3
  <2>4. CASE m # p /\ n # p
    <3> DEFINE At(k) == IF k < p THEN k ELSE k - 1
    <3>1. At(m) \in DOMAIN keys /\ At(n) \in DOMAIN keys /\ At(m) < At(n)
      BY <2>0, <2>4, <1>3
    <3>2. more[m] = keys[At(m)] /\ more[n] = keys[At(n)]
      BY <2>1, <2>4
    <3> HIDE DEF At
    <3> QED BY <3>1, <3>2 DEF FullyInOrder
  <2> QED BY <2>2, <2>3, <2>4
<1>8. ToSet(more) = ToSet(keys) \cup {key}
  <2>0. Len(more) = Len(keys) + 1 /\ Len(keys) \in Nat /\ DOMAIN more = 1 .. Len(more)
    BY <1>6 DEF IsWith
  <2>1. ASSUME NEW n \in 1 .. Len(more) PROVE more[n] \in ToSet(keys) \cup {key}
    <3>1. n = p \/ (n < p /\ n \in DOMAIN keys) \/ (n > p /\ (n - 1) \in DOMAIN keys)
      BY <2>0, <1>3
    <3>2. more[n] = IF n < p THEN keys[n] ELSE IF n = p THEN key ELSE keys[n - 1]
      BY <1>6 DEF IsWith
    <3> QED BY <3>1, <3>2, <1>3 DEF ToSet
  <2>2. key \in ToSet(more)
    <3>1. p \in DOMAIN more /\ more[p] = key
      BY <1>6, <2>0, <1>3 DEF IsWith
    <3> QED BY <3>1 DEF ToSet
  <2>3. ASSUME NEW n \in DOMAIN keys PROVE keys[n] \in ToSet(more)
    <3> DEFINE at == IF n < p THEN n ELSE n + 1
    <3>1. at \in DOMAIN more /\ more[at] = keys[n]
      BY <1>6, <2>0, <1>3 DEF IsWith
    <3> QED BY <3>1 DEF ToSet
  <2> QED BY <2>0, <2>1, <2>2, <2>3 DEF ToSet
<1>9. more \in Seq(SomeKey) /\ Len(more) = Len(keys) + 1
  BY <1>6 DEF IsWith
<1> QED BY <1>5, <1>7, <1>8, <1>9 DEF more

-----------------------------------------------------------------------------
(* Sorting: the rank of a key is the number of keys before it.             *)

Before(K, k) == {j \in K : SortingKeyLess(j, k)}

\* A set of keys no two of which are at the same place.
Apart(K) == K \subseteq SomeKey /\ \A a, b \in K : SamePlace(a, b) => a = b

LEMMA RankGrows ==
  ASSUME NEW K, IsFiniteSet(K), Apart(K), NEW a \in K, NEW b \in K, SortingKeyLess(a, b)
  PROVE  Cardinality(Before(K, a)) < Cardinality(Before(K, b))
<1>0. a \in SomeKey /\ b \in SomeKey
  BY DEF Apart
<1>1. IsFiniteSet(Before(K, b))
  <2>1. Before(K, b) \in SUBSET K
    BY DEF Before
  <2> QED BY <2>1, FS_Subset
<1>2. Before(K, a) \in SUBSET Before(K, b)
  <2> SUFFICES ASSUME NEW j \in Before(K, a) PROVE j \in Before(K, b)
    OBVIOUS
  <2>1. j \in K /\ j \in SomeKey /\ SortingKeyLess(j, a)
    BY DEF Before, Apart
  <2>2. SortingKeyLess(j, b)
    BY <2>1, <1>0, Ordering
  <2> QED BY <2>1, <2>2 DEF Before
<1>3. Before(K, a) # Before(K, b)
  <2>1. a \in Before(K, b)
    BY DEF Before
  <2>2. a \notin Before(K, a)
    <3>1. ~SortingKeyLess(a, a)
      BY <1>0, Ordering
    <3> QED BY <3>1 DEF Before
  <2> QED BY <2>1, <2>2
<1>4. /\ Cardinality(Before(K, a)) <= Cardinality(Before(K, b))
      /\ Cardinality(Before(K, b)) = Cardinality(Before(K, a)) => Before(K, b) = Before(K, a)
      /\ IsFiniteSet(Before(K, a))
  BY <1>1, <1>2, FS_Subset
<1>5. Cardinality(Before(K, a)) \in Nat /\ Cardinality(Before(K, b)) \in Nat
  BY <1>1, <1>4, FS_CardinalityType
<1> QED BY <1>3, <1>4, <1>5

LEMMA RankIsAPlace ==
  ASSUME NEW K, IsFiniteSet(K), Apart(K)
  PROVE  /\ \A k \in K : Cardinality(Before(K, k)) \in 0 .. Cardinality(K) - 1
         /\ \A n \in 0 .. Cardinality(K) - 1 : \E k \in K : Cardinality(Before(K, k)) = n
<1>0. Cardinality(K) \in Nat
  BY FS_CardinalityType
<1>1. ASSUME NEW k \in K PROVE Cardinality(Before(K, k)) \in 0 .. Cardinality(K) - 1
  <2>0. k \in SomeKey
    BY DEF Apart
  <2>1. Before(K, k) \in SUBSET K /\ k \notin Before(K, k)
    <3>1. ~SortingKeyLess(k, k)
      BY <2>0, Ordering
    <3> QED BY <3>1 DEF Before
  <2>2. /\ IsFiniteSet(Before(K, k)) /\ Cardinality(Before(K, k)) <= Cardinality(K)
        /\ Cardinality(K) = Cardinality(Before(K, k)) => K = Before(K, k)
    BY <2>1, FS_Subset
  <2>3. Cardinality(Before(K, k)) \in Nat
    BY <2>2, FS_CardinalityType
  <2> QED BY <1>0, <2>1, <2>2, <2>3
<1> DEFINE r == [k \in K |-> Cardinality(Before(K, k))]
           N == 0 .. Cardinality(K) - 1
<1>2. r \in [K -> N]
  BY <1>1
<1>3. \A a, b \in K : r[a] = r[b] => a = b
  <2> SUFFICES ASSUME NEW a \in K, NEW b \in K, a # b PROVE r[a] # r[b]
    OBVIOUS
  <2>1. a \in SomeKey /\ b \in SomeKey /\ ~SamePlace(a, b)
    BY DEF Apart
  <2>2. SortingKeyLess(a, b) \/ SortingKeyLess(b, a)
    BY <2>1, Ordering
  <2>3. /\ Cardinality(Before(K, a)) \in Int /\ Cardinality(Before(K, b)) \in Int
    BY <1>1
  <2>4. Cardinality(Before(K, a)) # Cardinality(Before(K, b))
    BY <2>2, <2>3, RankGrows
  <2> QED BY <2>4
<1>4. r \in Injection(K, N)
  BY <1>2, <1>3 DEF Injection, IsInjective
<1>5. IsFiniteSet(N) /\ Cardinality(N) = Cardinality(K)
  BY <1>0, FS_Interval
<1> HIDE DEF r, N
<1>6. r \in Surjection(K, N)
  BY <1>4, <1>5, FS_Injection
<1>7. \A n \in N : \E k \in K : r[k] = n
  BY <1>6 DEF Surjection
<1> QED BY <1>1, <1>7 DEF r, N

LEMMA SortedIs ==
  ASSUME NEW K, IsFiniteSet(K), Apart(K)
  PROVE  /\ Sorted(K) \in Seq(SomeKey) /\ FullyInOrder(Sorted(K))
         /\ ToSet(Sorted(K)) = K
<1> DEFINE N == Cardinality(K)
           s == Sorted(K)
           At(n) == CHOOSE k \in K : Cardinality(Before(K, k)) = n - 1
<1>0. N \in Nat
  BY FS_CardinalityType
<1>1. s = [n \in 1 .. N |-> At(n)]
  BY DEF Sorted, Before
<1>2. ASSUME NEW n \in 1 .. N PROVE At(n) \in K /\ Cardinality(Before(K, At(n))) = n - 1
  <2>1. n - 1 \in 0 .. N - 1
    BY <1>0
  <2>2. \E k \in K : Cardinality(Before(K, k)) = n - 1
    BY <2>1, RankIsAPlace
  <2> QED BY <2>2
<1> HIDE DEF At, s
<1>3. s \in Seq(SomeKey) /\ Len(s) = N /\ \A n \in 1 .. N : s[n] = At(n)
  <2>1. \A n \in 1 .. N : At(n) \in SomeKey
    BY <1>2 DEF Apart
  <2> HIDE DEF N
  <2> QED BY <1>0, <1>1, <2>1
<1>4. FullyInOrder(s)
  <2> SUFFICES ASSUME NEW m \in 1 .. N, NEW n \in 1 .. N, m < n
               PROVE  SortingKeyLess(At(m), At(n))
    BY <1>3 DEF FullyInOrder
  <2>1. /\ At(m) \in K /\ Cardinality(Before(K, At(m))) = m - 1
        /\ At(n) \in K /\ Cardinality(Before(K, At(n))) = n - 1
    BY <1>2
  <2>2. At(m) \in SomeKey /\ At(n) \in SomeKey
    BY <2>1 DEF Apart
  <2>3. ~SortingKeyLess(At(n), At(m))
    <3>1. SortingKeyLess(At(n), At(m)) => Cardinality(Before(K, At(n))) < Cardinality(Before(K, At(m)))
      BY <2>1, RankGrows
    <3> QED BY <3>1, <2>1
  <2>4. ~SamePlace(At(n), At(m))
    <3>1. SamePlace(At(n), At(m)) => At(n) = At(m)
      BY <2>1 DEF Apart
    <3> QED BY <3>1, <2>1
  <2> QED BY <2>2, <2>3, <2>4, Ordering
<1>5. ToSet(s) = K
  <2>1. ASSUME NEW n \in 1 .. N PROVE s[n] \in K
    BY <1>2, <1>3
  <2>2. ASSUME NEW k \in K PROVE \E n \in 1 .. N : s[n] = k
    <3> DEFINE n == Cardinality(Before(K, k)) + 1
    <3>1. n \in 1 .. N /\ Cardinality(Before(K, k)) = n - 1
      <4>1. Cardinality(Before(K, k)) \in 0 .. N - 1
        BY RankIsAPlace
      <4> QED BY <4>1, <1>0
    <3> HIDE DEF n
    <3>2. At(n) \in K /\ Cardinality(Before(K, At(n))) = n - 1
      BY <1>2, <3>1
    <3>3. At(n) = k
      <4>1. At(n) \in SomeKey /\ k \in SomeKey
        BY <3>2 DEF Apart
      <4>2. ~SortingKeyLess(At(n), k) /\ ~SortingKeyLess(k, At(n))
        <5>1. SortingKeyLess(At(n), k) => Cardinality(Before(K, At(n))) < Cardinality(Before(K, k))
          BY <3>2, RankGrows
        <5>2. SortingKeyLess(k, At(n)) => Cardinality(Before(K, k)) < Cardinality(Before(K, At(n)))
          BY <3>2, RankGrows
        <5> QED BY <5>1, <5>2, <3>1, <3>2
      <4> QED BY <4>1, <4>2, <3>2, Ordering DEF Apart
    <3> QED BY <3>1, <3>3, <1>3
  <2> QED BY <2>1, <2>2, <1>3 DEF ToSet
<1> QED BY <1>3, <1>4, <1>5 DEF s

-----------------------------------------------------------------------------
(* Division.                                                               *)

LEMMA Divided ==
  ASSUME NEW W \in Nat \ {0}, NEW k \in Nat
  PROVE  \E r \in 0 .. W - 1 : k \div W \in Nat /\ k = (k \div W) * W + r
<1>1. k \div W \in Nat /\ k % W \in 0 .. W - 1 /\ k = (k \div W) * W + (k % W)
  OBVIOUS
<1> QED BY <1>1

LEMMA DivisionGrows ==
  ASSUME NEW W \in Nat \ {0}, NEW k \in Nat, NEW m \in Nat, k <= m
  PROVE  k \div W <= m \div W
<1> DEFINE q == k \div W
           p == m \div W
<1>1. PICK a \in 0 .. W - 1 : q \in Nat /\ k = q * W + a
  BY Divided
<1>2. PICK b \in 0 .. W - 1 : p \in Nat /\ m = p * W + b
  BY Divided
<1> HIDE DEF q, p
<1>3. ASSUME q > p PROVE FALSE
  <2>1. PICK d \in Nat : q = p + 1 + d
    BY <1>1, <1>2, <1>3, q - p - 1 \in Nat
  <2>2. q * W = p * W + W + d * W /\ d * W \in Nat /\ p * W \in Nat
    BY <2>1, <1>2
  <2> QED BY <1>1, <1>2, <2>2
<1>4. q <= p
  BY <1>1, <1>2, <1>3
<1> QED BY <1>4 DEF q, p

LEMMA AlignedIs ==
  ASSUME NEW n \in Nat
  PROVE  AlignedTracks(n) \in Nat /\ n <= AlignedTracks(n)
<1> DEFINE W == SoaWidth
           q == (n + W - 1) \div W
<1>0. W \in Nat \ {0} /\ (n + W - 1) \in Nat
  BY KeyStreamAssumption
<1>1. PICK r \in 0 .. W - 1 : q \in Nat /\ (n + W - 1) = q * W + r
  BY <1>0, Divided
<1>2. AlignedTracks(n) = W * q
  BY DEF AlignedTracks
<1> HIDE DEF q, W
<1>3. W * q = q * W /\ q * W \in Nat
  BY <1>0, <1>1
<1> QED BY <1>0, <1>1, <1>2, <1>3

LEMMA AlignedGrows ==
  ASSUME NEW n \in Nat, NEW m \in Nat, n <= m
  PROVE  AlignedTracks(n) <= AlignedTracks(m)
<1> DEFINE W == SoaWidth
           q == (n + W - 1) \div W
           p == (m + W - 1) \div W
<1>0. W \in Nat \ {0} /\ (n + W - 1) \in Nat /\ (m + W - 1) \in Nat /\ (n + W - 1) <= (m + W - 1)
  BY KeyStreamAssumption
<1>1. q <= p
  BY <1>0, DivisionGrows
<1>2. q \in Nat /\ p \in Nat
  BY <1>0, Divided
<1>3. AlignedTracks(n) = W * q /\ AlignedTracks(m) = W * p
  BY DEF AlignedTracks
<1> HIDE DEF q, p, W
<1>4. PICK d \in Nat : p = q + d
  BY <1>1, <1>2, p - q \in Nat
<1>5. W * p = W * q + W * d /\ W * d \in Nat /\ W * q \in Nat
  BY <1>0, <1>2, <1>4
<1> QED BY <1>3, <1>5

-----------------------------------------------------------------------------
(* The keys of one track.                                                  *)

Ascending(times) == \A m, n \in DOMAIN times : m < n => times[m] < times[n]

LEMMA ValidAscends ==
  ASSUME NEW times \in Seq(Int), NEW duration \in Int, ValidateTrack(times, duration)
  PROVE  Ascending(times) /\ \A n \in DOMAIN times : times[n] \in 0 .. duration
<1>1. \A n \in DOMAIN times : times[n] \in 0 .. duration
  BY DEF ValidateTrack
<1>2. ASSUME NEW m \in DOMAIN times, NEW n \in DOMAIN times, m < n, ~(times[m] < times[n])
      PROVE  FALSE
  <2> DEFINE T == {p \in Nat : p \in DOMAIN times /\ m < p /\ ~(times[m] < times[p])}
  <2>1. T \subseteq Nat /\ n \in T
    BY <1>2
  <2>2. PICK p \in T : \A k \in T : p <= k
    <3> HIDE DEF T
    <3> QED BY <2>1, LeastNatural
  <2>3. p \in DOMAIN times /\ m < p /\ ~(times[m] < times[p]) /\ p - 1 \notin T
    BY <2>2
  <2>4. p > 1 /\ (p - 1) \in DOMAIN times /\ times[p - 1] < times[p]
    BY <2>3 DEF ValidateTrack
  <2>5. times[m] \in Int /\ times[p - 1] \in Int /\ times[p] \in Int
    BY <2>3, <2>4
  <2>6. CASE p - 1 = m
    BY <2>3, <2>4, <2>6
  <2>7. CASE p - 1 > m
    <3>1. times[m] < times[p - 1]
      BY <2>3, <2>4, <2>7
    <3> QED BY <3>1, <2>3, <2>4, <2>5
  <2> QED BY <2>3, <2>4, <2>6, <2>7
<1> QED BY <1>1, <1>2 DEF Ascending

\* From the beginning of an animation to its end.
Spans(times, duration) ==
    /\ times \in Seq(0 .. duration) /\ Len(times) >= 2
    /\ times[1] = 0 /\ times[Len(times)] = duration
    /\ Ascending(times)

LEMMA CopyRawSpans ==
  ASSUME NEW times \in Seq(Int), NEW duration \in Int, duration > 0, ValidateTrack(times, duration)
  PROVE  Spans(CopyRaw(times, duration), duration)
<1> DEFINE D == 0 .. duration
<1>1. CASE Len(times) < 2
  <2>1. CopyRaw(times, duration) = <<0, duration>>
    BY <1>1 DEF CopyRaw
  <2> QED BY <2>1 DEF Spans, Ascending
<1>2. CASE ~(Len(times) < 2)
  <2> DEFINE before == IF Head(times) # 0 THEN <<0>> ELSE <<>>
             after  == IF Last(times) # duration THEN <<duration>> ELSE <<>>
             two    == before \o times
             whole  == two \o after
             a      == Len(before)
  <2>1. CopyRaw(times, duration) = whole
    BY <1>2 DEF CopyRaw
  <2>2. Ascending(times) /\ times \in Seq(D) /\ \A n \in 1 .. Len(times) : times[n] \in D
    <3>1. Ascending(times) /\ \A n \in DOMAIN times : times[n] \in D
      BY ValidAscends
    <3> HIDE DEF D
    <3> QED BY <3>1
  <2>3. Len(times) \in Nat /\ Len(times) >= 2 /\ Head(times) = times[1] /\ Last(times) = times[Len(times)]
    BY <1>2 DEF Last
  <2>4. /\ before \in Seq(D) /\ a \in {0, 1}
        /\ a = 1 => before[1] = 0 /\ times[1] > 0
        /\ a = 0 => times[1] = 0
    <3>1. times[1] \in D /\ 0 \in D /\ times[1] \in Int /\ 0 <= times[1]
      BY <2>2, <2>3
    <3>2. CASE times[1] = 0
      <4>1. before = <<>>
        BY <2>3, <3>2
      <4> HIDE DEF before, D
      <4> QED BY <4>1, <3>2
    <3>3. CASE times[1] # 0
      <4>1. before = <<0>>
        BY <2>3, <3>3
      <4> HIDE DEF before, D
      <4> QED BY <4>1, <3>1, <3>3
    <3> QED BY <3>2, <3>3
  <2>5. /\ after \in Seq(D) /\ Len(after) \in {0, 1}
        /\ Len(after) = 1 => after[1] = duration /\ times[Len(times)] < duration
        /\ Len(after) = 0 => times[Len(times)] = duration
    <3>1. /\ times[Len(times)] \in D /\ duration \in D
          /\ times[Len(times)] \in Int /\ times[Len(times)] <= duration
      BY <2>2, <2>3
    <3>2. CASE times[Len(times)] = duration
      <4>1. after = <<>>
        BY <2>3, <3>2
      <4> HIDE DEF after, D
      <4> QED BY <4>1, <3>2
    <3>3. CASE times[Len(times)] # duration
      <4>1. after = <<duration>>
        BY <2>3, <3>3
      <4> HIDE DEF after, D
      <4> QED BY <4>1, <3>1, <3>3
    <3> QED BY <3>2, <3>3
  <2> HIDE DEF before, after, D
  <2>6. /\ two \in Seq(D) /\ Len(two) = a + Len(times)
        /\ \A n \in 1 .. a + Len(times) : two[n] = IF n <= a THEN before[n] ELSE times[n - a]
    BY <2>2, <2>4, ConcatProperties
  <2> HIDE DEF two
  <2>7. /\ whole \in Seq(D) /\ Len(whole) = Len(two) + Len(after)
        /\ \A n \in 1 .. Len(two) + Len(after) :
              whole[n] = IF n <= Len(two) THEN two[n] ELSE after[n - Len(two)]
    <3>1. two \in Seq(D) /\ after \in Seq(D)
      BY <2>5, <2>6
    <3> QED BY ONLY <3>1, ConcatProperties
  <2> HIDE DEF whole, a
  <2> DEFINE L == Len(times)
             N == a + L + Len(after)
  <2>8. Len(whole) = N /\ L \in Nat /\ L >= 2 /\ a \in Nat /\ N \in Nat /\ Len(two) = a + L
    BY <2>3, <2>4, <2>5, <2>6, <2>7
  <2>9. ASSUME NEW n \in 1 .. N
        PROVE  whole[n] = IF n <= a THEN 0 ELSE IF n <= a + L THEN times[n - a] ELSE duration
    <3>1. CASE n <= a
      <4>1. n = 1 /\ a = 1 /\ n \in 1 .. a + Len(times) /\ n <= Len(two)
        BY <3>1, <2>4, <2>8
      <4>2. whole[n] = two[n] /\ two[n] = before[n]
        BY <4>1, <2>6, <2>7, <2>8, <3>1
      <4> QED BY <4>1, <4>2, <2>4, <3>1
    <3>2. CASE ~(n <= a) /\ n <= a + L
      <4>1. whole[n] = two[n] /\ two[n] = times[n - a]
        BY <3>2, <2>6, <2>7, <2>8
      <4> QED BY <4>1, <3>2
    <3>3. CASE ~(n <= a + L)
      <4>1. n - Len(two) = 1 /\ Len(after) = 1 /\ ~(n <= Len(two))
        <5>1. n <= a + L + Len(after) /\ n > a + L /\ Len(after) \in {0, 1}
          BY <3>3, <2>5, <2>8
        <5>2. Len(after) = 1
          BY <5>1, <2>8
        <5> QED BY <5>1, <5>2, <2>8
      <4>2. whole[n] = after[n - Len(two)]
        BY <4>1, <2>7, <2>8
      <4>3. ~(n <= a)
        BY <3>3, <2>8
      <4> QED BY <4>1, <4>2, <4>3, <2>5, <3>3
    <3> QED BY <3>1, <3>2, <3>3
  <2> HIDE DEF L, N
  <2>10. whole[1] = 0 /\ whole[N] = duration /\ N >= 2
    <3>1. N >= 2 /\ 1 \in 1 .. N /\ N \in 1 .. N
      BY <2>4, <2>5, <2>8 DEF N
    <3>2. whole[1] = 0
      <4>1. CASE a = 1
        BY <4>1, <3>1, <2>9
      <4>2. CASE a = 0
        <5>1. whole[1] = times[1 - a] /\ 1 - a = 1
          BY <4>2, <3>1, <2>8, <2>9
        <5> QED BY <5>1, <4>2, <2>4
      <4> QED BY <4>1, <4>2, <2>4
    <3>3. whole[N] = duration
      <4>1. CASE Len(after) = 1
        <5>1. ~(N <= a) /\ ~(N <= a + L)
          BY <4>1, <2>8 DEF N
        <5> QED BY <5>1, <3>1, <2>9
      <4>2. CASE Len(after) = 0
        <5>1. ~(N <= a) /\ N <= a + L /\ N - a = L
          BY <4>2, <2>8 DEF N
        <5> QED BY <5>1, <3>1, <2>9, <4>2, <2>5 DEF L
      <4> QED BY <4>1, <4>2, <2>5
    <3> QED BY <3>1, <3>2, <3>3
  <2>11. ASSUME NEW m \in 1 .. N, NEW n \in 1 .. N, m < n PROVE whole[m] < whole[n]
    <3>0. \A k \in 1 .. L : times[k] \in Int /\ 0 <= times[k] /\ times[k] <= duration
      BY <2>2 DEF D, L
    <3>1. ASSUME NEW k \in 1 .. L, a = 1 PROVE times[k] > 0
      <4>1. k = 1 \/ times[1] < times[k]
        BY <2>2, <2>8 DEF Ascending, L
      <4>2. 1 \in 1 .. L
        BY <2>8
      <4> QED BY <4>1, <4>2, <3>0, <3>1, <2>4
    <3>2. ASSUME NEW k \in 1 .. L, Len(after) = 1 PROVE times[k] < duration
      <4>1. k = L \/ times[k] < times[L]
        BY <2>2, <2>8 DEF Ascending, L
      <4>2. L \in 1 .. L
        BY <2>8
      <4> QED BY <4>1, <4>2, <3>0, <3>2, <2>5 DEF L
    <3>3. CASE m <= a
      <4>1. m = 1 /\ a = 1 /\ ~(n <= a)
        BY <3>3, <2>4, <2>8, <2>11
      <4>2. whole[m] = 0
        BY <2>9, <3>3
      <4>3. CASE n <= a + L
        <5>1. (n - a) \in 1 .. L /\ whole[n] = times[n - a]
          BY <4>1, <4>3, <2>8, <2>9
        <5> QED BY <5>1, <4>1, <4>2, <3>1
      <4>4. CASE ~(n <= a + L)
        BY <4>1, <4>4, <4>2, <2>9
      <4> QED BY <4>3, <4>4
    <3>4. CASE ~(m <= a)
      <4>1. m <= a + L /\ ~(n <= a)
        <5>0. N = (a + L) + Len(after) /\ n <= N
          BY DEF N
        <5>1. n <= (a + L) + 1
          <6>1. Len(after) \in {0, 1}
            BY <2>5
          <6>2. a \in Nat /\ L \in Nat /\ n \in Nat
            BY <2>8
          <6>3. CASE Len(after) = 0
            BY ONLY <5>0, <6>2, <6>3
          <6>4. CASE Len(after) = 1
            BY ONLY <5>0, <6>2, <6>4
          <6> QED BY ONLY <6>1, <6>3, <6>4
        <5>2. m \in Nat /\ n \in Nat /\ m < n /\ m > a
          BY <2>8, <2>11, <3>4
        <5> QED BY <5>1, <5>2, <2>8
      <4>2. (m - a) \in 1 .. L /\ whole[m] = times[m - a]
        BY <3>4, <4>1, <2>8, <2>9
      <4>3. CASE n <= a + L
        <5>1. (n - a) \in 1 .. L /\ whole[n] = times[n - a] /\ m - a < n - a
          BY <4>1, <4>3, <2>8, <2>9, <2>11
        <5> QED BY <5>1, <4>2, <2>2 DEF Ascending, L
      <4>4. CASE ~(n <= a + L)
        <5>1. whole[n] = duration /\ Len(after) = 1
          BY <4>1, <4>4, <2>5, <2>8, <2>9 DEF N
        <5> QED BY <5>1, <4>2, <3>2
      <4> QED BY <4>3, <4>4
    <3> QED BY <3>3, <3>4
  <2>12. DOMAIN whole = 1 .. N
    BY <2>7, <2>8
  <2> QED BY <2>1, <2>7, <2>8, <2>10, <2>11, <2>12 DEF Spans, Ascending, D
<1> QED BY <1>1, <1>2

ChannelKey(T, D) == [track : 0 .. T - 1, prev : -1 .. D - 1, time : 0 .. D]

TimesOn(K, t) == {k.time : k \in {j \in K : j.track = t}}

\* The previous time of a key is the time of the key before it on its track, -1 if it
\* is the first.
FollowsIn(K, k) ==
    /\ k.prev < k.time
    /\ k.prev = -1 \/ k.prev \in TimesOn(K, k.track)
    /\ \A u \in TimesOn(K, k.track) : u < k.time => u <= k.prev

Follow(K) == \A k \in K : FollowsIn(K, k)

\* The keys of a track as they are copied.
Copied(tracks, D, t) == CopyRaw(IF t \in DOMAIN tracks THEN tracks[t] ELSE <<>>, D)

LEMMA TrackKeys ==
  ASSUME NEW T \in Nat, NEW D \in Int, NEW t \in 0 .. T - 1, NEW tracks, Spans(Copied(tracks, D, t), D)
  PROVE  LET K == SortingKeys(tracks, D, t)
         IN  /\ IsFiniteSet(K) /\ K \subseteq ChannelKey(T, D) /\ Apart(K)
             /\ \A k \in K : k.track = t
             /\ TimesOn(K, t) = ToSet(Copied(tracks, D, t))
             /\ Follow(K)
<1> DEFINE u == Copied(tracks, D, t)
           PrevAt(n) == IF n = 1 THEN -1 ELSE u[n - 1]
           key(n) == [track |-> t, prev |-> PrevAt(n), time |-> u[n]]
           K == SortingKeys(tracks, D, t)
<1>1. K = {key(n) : n \in DOMAIN u}
  BY DEF SortingKeys, Copied
<1>2. /\ Len(u) \in Nat /\ DOMAIN u = 1 .. Len(u)
      /\ \A n \in DOMAIN u : u[n] \in 0 .. D
      /\ \A m, n \in DOMAIN u : m < n => u[m] < u[n]
  <2>1. Spans(u, D)
    OBVIOUS
  <2> HIDE DEF u
  <2> QED BY <2>1 DEF Spans, Ascending
<1> HIDE DEF u, K
<1>3. ASSUME NEW n \in DOMAIN u PROVE PrevAt(n) \in -1 .. D - 1 /\ PrevAt(n) < u[n] /\ u[n] \in 0 .. D
  <2>1. CASE n = 1
    BY <1>2, <2>1
  <2>2. CASE n # 1
    <3>1. (n - 1) \in DOMAIN u /\ n - 1 < n
      BY <1>2, <2>2
    <3> QED BY <1>2, <2>2, <3>1
  <2> QED BY <2>1, <2>2
<1>4. ASSUME NEW m \in DOMAIN u, NEW n \in DOMAIN u, PrevAt(m) = PrevAt(n) PROVE m = n
  <2>1. ASSUME NEW p \in DOMAIN u, NEW q \in DOMAIN u, p < q PROVE PrevAt(p) # PrevAt(q)
    <3>1. (q - 1) \in DOMAIN u /\ q # 1 /\ PrevAt(q) = u[q - 1] /\ u[q - 1] \in 0 .. D
      BY <1>2, <2>1
    <3>2. CASE p = 1
      BY <3>1, <3>2
    <3>3. CASE p # 1
      <4>1. (p - 1) \in DOMAIN u /\ p - 1 < q - 1 /\ PrevAt(p) = u[p - 1] /\ u[p - 1] \in 0 .. D
        BY <1>2, <2>1, <3>3
      <4> QED BY <1>2, <3>1, <4>1
    <3> QED BY <3>2, <3>3
  <2> HIDE DEF PrevAt
  <2> QED BY <1>2, <1>4, <2>1
<1>5. IsFiniteSet(K)
  <2> DEFINE f == [n \in 1 .. Len(u) |-> key(n)]
  <2>1. f \in Surjection(1 .. Len(u), K)
    <3> HIDE DEF PrevAt
    <3> QED BY <1>1, <1>2 DEF Surjection
  <2>2. IsFiniteSet(1 .. Len(u))
    BY <1>2, FS_Interval
  <2> HIDE DEF f
  <2> QED BY <2>1, <2>2, FS_Surjection
<1> HIDE DEF PrevAt
<1>6. \A n \in DOMAIN u : key(n) \in ChannelKey(T, D) /\ key(n) \in SomeKey
  <2> SUFFICES ASSUME NEW n \in DOMAIN u PROVE key(n) \in ChannelKey(T, D) /\ key(n) \in SomeKey
    OBVIOUS
  <2>1. PrevAt(n) \in -1 .. D - 1 /\ u[n] \in 0 .. D /\ PrevAt(n) \in Int /\ u[n] \in Int /\ t \in Nat
    BY <1>3
  <2> QED BY <2>1 DEF ChannelKey, SomeKey
<1>7. K \subseteq ChannelKey(T, D) /\ Apart(K)
  <2>1. K \subseteq ChannelKey(T, D) /\ K \subseteq SomeKey
    <3> HIDE DEF key
    <3> QED BY <1>1, <1>6
  <2>2. ASSUME NEW m \in DOMAIN u, NEW n \in DOMAIN u, SamePlace(key(m), key(n)) PROVE key(m) = key(n)
    <3>1. PrevAt(m) = PrevAt(n)
      BY <2>2 DEF SamePlace
    <3>2. m = n
      BY <3>1, <1>4
    <3> QED BY <3>2
  <2>3. ASSUME NEW a \in K, NEW b \in K, SamePlace(a, b) PROVE a = b
    <3> HIDE DEF key
    <3>1. PICK m \in DOMAIN u : a = key(m)
      BY <1>1
    <3>2. PICK n \in DOMAIN u : b = key(n)
      BY <1>1
    <3> QED BY <2>3, <3>1, <3>2, <2>2
  <2> QED BY <2>1, <2>3 DEF Apart
<1>8. \A k \in K : k.track = t
  BY <1>1
<1>9. TimesOn(K, t) = ToSet(u)
  <2>1. ASSUME NEW k \in K PROVE k.time \in ToSet(u)
    <3>1. PICK n \in DOMAIN u : k = key(n)
      BY <1>1
    <3> QED BY <3>1 DEF ToSet
  <2>2. ASSUME NEW n \in DOMAIN u PROVE \E k \in K : k.track = t /\ k.time = u[n]
    <3>1. key(n) \in K /\ key(n).track = t /\ key(n).time = u[n]
      BY <1>1
    <3> QED BY <3>1
  <2> QED BY <2>1, <2>2, <1>8 DEF TimesOn, ToSet
<1>10. ASSUME NEW k \in K PROVE FollowsIn(K, k)
  <2>1. PICK n \in DOMAIN u : k = key(n)
    BY <1>1
  <2>2. k.prev = PrevAt(n) /\ k.time = u[n] /\ k.track = t
    BY <2>1
  <2>3. PrevAt(n) = -1 \/ PrevAt(n) \in ToSet(u)
    BY <1>2 DEF PrevAt, ToSet
  <2>4. ASSUME NEW v \in ToSet(u), v < u[n] PROVE v <= PrevAt(n)
    <3>1. PICK m \in DOMAIN u : v = u[m]
      BY DEF ToSet
    <3>2. m < n
      BY <1>2, <2>4, <3>1
    <3>3. n # 1 /\ (n - 1) \in DOMAIN u /\ (m = n - 1 \/ m < n - 1)
      BY <3>2, <1>2
    <3>4. PrevAt(n) = u[n - 1]
      BY <3>3 DEF PrevAt
    <3> QED BY <1>2, <3>1, <3>3, <3>4
  <2>5. PrevAt(n) < u[n]
    BY <1>3
  <2> QED BY <1>9, <2>2, <2>3, <2>4, <2>5 DEF FollowsIn
<1> QED BY <1>5, <1>7, <1>8, <1>9, <1>10 DEF K, u, Follow

-----------------------------------------------------------------------------
(* The keys of a channel.                                                  *)

\* What the keys of a channel are at any time: in order and linked, and those that
\* were authored are among them.
Serves(keys, tracks, T, D) ==
    /\ keys \in Seq(SomeKey) /\ FullyInOrder(keys)
    /\ ToSet(keys) \subseteq ChannelKey(T, D)
    /\ Follow(ToSet(keys))
    /\ \A t \in 0 .. T - 1 :
          /\ ToSet(Copied(tracks, D, t)) \subseteq TimesOn(ToSet(keys), t)
          /\ {0, D} \subseteq TimesOn(ToSet(keys), t)

AreValid(tracks, D) ==
    \A t \in DOMAIN tracks : tracks[t] \in Seq(Int) /\ ValidateTrack(tracks[t], D)

LEMMA CopiesSpan ==
  ASSUME NEW D \in Int, D > 0, NEW tracks, AreValid(tracks, D), NEW t
  PROVE  Spans(Copied(tracks, D, t), D)
<1> DEFINE times == IF t \in DOMAIN tracks THEN tracks[t] ELSE <<>>
<1>1. times \in Seq(Int) /\ ValidateTrack(times, D)
  <2>1. <<>> \in Seq(Int) /\ ValidateTrack(<<>>, D)
    BY DEF ValidateTrack
  <2> QED BY <2>1 DEF AreValid
<1> HIDE DEF times
<1>2. Spans(CopyRaw(times, D), D)
  BY <1>1, CopyRawSpans
<1> QED BY <1>2 DEF Copied, times

LEMMA SortedKeysServe ==
  ASSUME NEW D \in Int, D > 0, NEW tracks, AreValid(tracks, D), IsFiniteSet(DOMAIN tracks)
  PROVE  Serves(SortedKeys(tracks, D), tracks, AlignedTracks(Cardinality(DOMAIN tracks)), D)
<1> DEFINE T == AlignedTracks(Cardinality(DOMAIN tracks))
           On(t) == SortingKeys(tracks, D, t)
           All == {On(t) : t \in 0 .. T - 1}
           K == UNION All
<1>0. T \in Nat
  <2>1. Cardinality(DOMAIN tracks) \in Nat
    BY FS_CardinalityType
  <2> QED BY <2>1, AlignedIs
<1>1. SortedKeys(tracks, D) = Sorted(K)
  BY DEF SortedKeys
<1> HIDE DEF T
<1>2. ASSUME NEW t \in 0 .. T - 1
      PROVE  /\ IsFiniteSet(On(t)) /\ On(t) \subseteq ChannelKey(T, D) /\ Apart(On(t))
             /\ \A k \in On(t) : k.track = t
             /\ TimesOn(On(t), t) = ToSet(Copied(tracks, D, t))
             /\ Follow(On(t))
  <2>1. Spans(Copied(tracks, D, t), D)
    BY CopiesSpan
  <2> QED BY <1>0, <2>1, TrackKeys
<1> HIDE DEF On
<1>3. IsFiniteSet(K)
  <2> DEFINE f == [t \in 0 .. T - 1 |-> On(t)]
  <2>1. f \in Surjection(0 .. T - 1, All)
    BY DEF Surjection
  <2>2. IsFiniteSet(0 .. T - 1)
    BY <1>0, FS_Interval
  <2> HIDE DEF f
  <2>3. IsFiniteSet(All)
    <3> HIDE DEF All
    <3> QED BY <2>1, <2>2, FS_Surjection
  <2>4. \A S \in All : IsFiniteSet(S)
    BY <1>2
  <2> HIDE DEF All
  <2> QED BY <2>3, <2>4, FS_UNION
<1>4. \A k \in K : k \in ChannelKey(T, D) /\ k.track \in 0 .. T - 1 /\ k \in On(k.track)
  BY <1>2
<1>5. \A t \in 0 .. T - 1 : On(t) \subseteq K
  OBVIOUS
<1> HIDE DEF K, All
<1>6. Apart(K)
  <2>1. K \subseteq SomeKey
    <3> SUFFICES ASSUME NEW k \in K PROVE k \in SomeKey
      OBVIOUS
    <3>1. Apart(On(k.track)) /\ k \in On(k.track)
      BY <1>2, <1>4
    <3> QED BY <3>1 DEF Apart
  <2>2. ASSUME NEW a \in K, NEW b \in K, SamePlace(a, b) PROVE a = b
    <3>1. a.track = b.track
      BY <2>2 DEF SamePlace
    <3>2. Apart(On(a.track)) /\ a \in On(a.track) /\ b \in On(a.track)
      BY <1>2, <1>4, <3>1
    <3> QED BY <2>2, <3>2 DEF Apart
  <2> QED BY <2>1, <2>2 DEF Apart
<1>7. \A t \in 0 .. T - 1 : TimesOn(K, t) = TimesOn(On(t), t)
  <2> SUFFICES ASSUME NEW t \in 0 .. T - 1 PROVE TimesOn(K, t) = TimesOn(On(t), t)
    OBVIOUS
  <2>1. {j \in K : j.track = t} = {j \in On(t) : j.track = t}
    BY <1>4, <1>5
  <2> QED BY <2>1 DEF TimesOn
<1>8. Follow(K)
  <2> SUFFICES ASSUME NEW k \in K PROVE FollowsIn(K, k)
    BY DEF Follow
  <2>1. k.track \in 0 .. T - 1 /\ FollowsIn(On(k.track), k)
    BY <1>2, <1>4 DEF Follow
  <2> QED BY <2>1, <1>7 DEF FollowsIn
<1>9. ASSUME NEW t \in 0 .. T - 1
      PROVE  /\ ToSet(Copied(tracks, D, t)) \subseteq TimesOn(K, t)
             /\ {0, D} \subseteq TimesOn(K, t)
  <2>1. TimesOn(K, t) = ToSet(Copied(tracks, D, t))
    BY <1>2, <1>7
  <2>2. Spans(Copied(tracks, D, t), D)
    BY CopiesSpan
  <2>3. {0, D} \subseteq ToSet(Copied(tracks, D, t))
    BY <2>2 DEF Spans, ToSet
  <2> QED BY <2>1, <2>3
<1> DEFINE s == Sorted(K)
<1>10. s \in Seq(SomeKey) /\ FullyInOrder(s) /\ ToSet(s) = K
  BY <1>3, <1>6, SortedIs
<1> HIDE DEF s
<1>11. K \subseteq ChannelKey(T, D)
  BY <1>4
<1>12. Serves(s, tracks, T, D)
  BY <1>8, <1>9, <1>10, <1>11 DEF Serves
<1> QED BY <1>1, <1>12 DEF s, T

-----------------------------------------------------------------------------
(* Cutting a segment in two.                                               *)

\* Two keys of a track with a key between them instead of the segment.
Halves(K, key, mid) ==
    (K \ {key})
    \cup {[track |-> key.track, prev |-> key.prev, time |-> mid],
          [track |-> key.track, prev |-> mid, time |-> key.time]}

\* Keys of a track with the same time are the same.
LEMMA OneKeyPerTime ==
  ASSUME NEW K, Apart(K), Follow(K), \A j \in K : j.time >= 0 /\ j.prev >= -1,
         NEW a \in K, NEW b \in K, a.track = b.track, a.time = b.time
  PROVE  a = b
<1>1. FollowsIn(K, a) /\ FollowsIn(K, b) /\ a \in SomeKey /\ b \in SomeKey
  BY DEF Follow, Apart
<1>2. ASSUME NEW p \in K, NEW q \in K, p.track = q.track, p.time = q.time PROVE p.prev <= q.prev
  <2>1. FollowsIn(K, p) /\ FollowsIn(K, q) /\ p \in SomeKey /\ q \in SomeKey
    BY DEF Follow, Apart
  <2>2. p.prev \in Int /\ q.prev \in Int /\ p.time \in Int /\ q.prev >= -1
    BY <2>1 DEF SomeKey
  <2>3. CASE p.prev = -1
    BY <2>2, <2>3
  <2>4. CASE p.prev # -1
    <3>1. p.prev \in TimesOn(K, q.track) /\ p.prev < q.time
      BY <2>1, <2>4, <1>2 DEF FollowsIn
    <3> QED BY <2>1, <3>1 DEF FollowsIn
  <2> QED BY <2>3, <2>4
<1>3. a.prev \in Int /\ b.prev \in Int
  BY <1>1 DEF SomeKey
<1>4. a.prev <= b.prev /\ b.prev <= a.prev
  BY <1>2
<1>5. a.prev = b.prev
  BY <1>3, <1>4
<1>6. SamePlace(a, b)
  BY <1>5 DEF SamePlace
<1> QED BY <1>6 DEF Apart

LEMMA HalvesFollow ==
  ASSUME NEW T \in Nat, NEW D \in Int, NEW K, K \subseteq ChannelKey(T, D), Apart(K), Follow(K),
         NEW key \in K, key.prev # -1,
         NEW mid \in Int, key.prev < mid, mid < key.time
  PROVE  /\ Halves(K, key, mid) \subseteq ChannelKey(T, D)
         /\ Follow(Halves(K, key, mid))
         /\ \A t \in 0 .. T - 1 : TimesOn(K, t) \subseteq TimesOn(Halves(K, key, mid), t)
<1> DEFINE ins  == [track |-> key.track, prev |-> key.prev, time |-> mid]
           last == [track |-> key.track, prev |-> mid, time |-> key.time]
           H == Halves(K, key, mid)
           t0 == key.track
<1>0. /\ H = (K \ {key}) \cup {ins, last}
      /\ ins.track = t0 /\ ins.prev = key.prev /\ ins.time = mid
      /\ last.track = t0 /\ last.prev = mid /\ last.time = key.time
  BY DEF Halves
<1>1. /\ \A k \in K : k \in SomeKey /\ k.prev \in -1 .. D - 1 /\ k.time \in 0 .. D /\ k.track \in 0 .. T - 1
      /\ \A k \in K : k.prev \in Int /\ k.time \in Int /\ k.time >= 0 /\ k.prev >= -1
      /\ key.prev \in 0 .. D - 1 /\ key.time \in 0 .. D /\ t0 \in 0 .. T - 1
  <2>1. \A k \in K : k \in SomeKey /\ k \in ChannelKey(T, D)
    BY DEF Apart
  <2> QED BY <2>1 DEF ChannelKey
<1>2. ins \in ChannelKey(T, D) /\ last \in ChannelKey(T, D)
  BY <1>1 DEF ChannelKey
<1> HIDE DEF ins, last, H
<1>3. H \subseteq ChannelKey(T, D)
  BY <1>0, <1>2
<1>4. \A t : TimesOn(H, t) = TimesOn(K, t) \cup (IF t = t0 THEN {mid} ELSE {})
  <2> SUFFICES ASSUME NEW t PROVE TimesOn(H, t) = TimesOn(K, t) \cup (IF t = t0 THEN {mid} ELSE {})
    OBVIOUS
  <2>1. ASSUME NEW k \in H, k.track = t PROVE k.time \in TimesOn(K, t) \cup (IF t = t0 THEN {mid} ELSE {})
    BY <1>0, <2>1 DEF TimesOn
  <2>2. ASSUME NEW k \in K, k.track = t PROVE \E h \in H : h.track = t /\ h.time = k.time
    BY <1>0, <2>2
  <2>3. t = t0 => \E h \in H : h.track = t /\ h.time = mid
    BY <1>0
  <2> QED BY <2>1, <2>2, <2>3 DEF TimesOn
<1>5. FollowsIn(K, key)
  BY DEF Follow
<1>6. /\ key.prev \in TimesOn(K, t0)
      /\ \A u \in TimesOn(K, t0) : u < key.time => u <= key.prev
      /\ \A u \in TimesOn(K, t0) : u \in Int
  <2>1. \A u \in TimesOn(K, t0) : u \in Int
    BY <1>1 DEF TimesOn
  <2> QED BY <1>5, <2>1 DEF FollowsIn
<1>7. TimesOn(H, t0) = TimesOn(K, t0) \cup {mid}
  BY <1>4
<1>8. FollowsIn(H, ins)
  <2>1. ASSUME NEW u \in TimesOn(H, t0), u < mid PROVE u <= key.prev
    <3>1. u \in TimesOn(K, t0) /\ u \in Int
      BY <1>6, <1>7, <2>1
    <3>2. u < key.time
      BY <3>1, <2>1, <1>1
    <3> QED BY <3>1, <3>2, <1>6
  <2> QED BY <1>0, <1>6, <1>7, <2>1 DEF FollowsIn
<1>9. FollowsIn(H, last)
  <2>1. ASSUME NEW u \in TimesOn(H, t0), u < key.time PROVE u <= mid
    <3>1. CASE u = mid
      BY <3>1
    <3>2. CASE u # mid
      <4>1. u \in TimesOn(K, t0) /\ u \in Int
        BY <1>6, <1>7, <3>2
      <4>2. u <= key.prev
        BY <4>1, <2>1, <1>6
      <4> QED BY <4>1, <4>2, <1>1
    <3> QED BY <3>1, <3>2
  <2> QED BY <1>0, <1>7, <2>1 DEF FollowsIn
<1>10. ASSUME NEW k \in K, k # key PROVE FollowsIn(H, k)
  <2>1. FollowsIn(K, k)
    BY DEF Follow
  <2>2. CASE k.track # t0
    <3>1. TimesOn(H, k.track) = TimesOn(K, k.track)
      BY <1>4, <2>2
    <3> QED BY <2>1, <3>1 DEF FollowsIn
  <2>3. CASE k.track = t0
    <3>0. k.prev \in Int /\ k.time \in Int /\ key.time \in Int /\ key.prev \in Int
      BY <1>1
    <3>1. k.time # key.time
      <4>1. \A j \in K : j.time >= 0 /\ j.prev >= -1
        BY <1>1
      <4> QED BY <4>1, <1>10, <2>3, OneKeyPerTime
    <3>2. mid < k.time => mid <= k.prev
      <4>1. CASE k.time < key.time
        <5>1. k.time \in TimesOn(K, t0)
          BY <2>3 DEF TimesOn
        <5>2. k.time <= key.prev
          BY <4>1, <5>1, <1>6
        <5> QED BY <5>2, <3>0
      <4>2. CASE key.time < k.time
        <5>1. key.time \in TimesOn(K, k.track)
          BY <2>3 DEF TimesOn
        <5>2. key.time <= k.prev
          BY <4>2, <5>1, <2>1 DEF FollowsIn
        <5> QED BY <5>2, <3>0
      <4> QED BY <3>0, <3>1, <4>1, <4>2
    <3>3. TimesOn(H, k.track) = TimesOn(K, k.track) \cup {mid}
      BY <1>7, <2>3
    <3> QED BY <2>1, <3>2, <3>3 DEF FollowsIn
  <2> QED BY <2>2, <2>3
<1>11. Follow(H)
  BY <1>0, <1>8, <1>9, <1>10 DEF Follow
<1>12. \A t \in 0 .. T - 1 : TimesOn(K, t) \subseteq TimesOn(H, t)
  BY <1>4
<1> QED BY <1>3, <1>11, <1>12 DEF H

LEMMA OrderedApart ==
  ASSUME NEW keys \in Seq(SomeKey), FullyInOrder(keys)
  PROVE  /\ Apart(ToSet(keys))
         /\ \A m, n \in DOMAIN keys : SamePlace(keys[m], keys[n]) => m = n
<1>1. \A n \in DOMAIN keys : keys[n] \in SomeKey
  OBVIOUS
<1>2. ASSUME NEW m \in DOMAIN keys, NEW n \in DOMAIN keys, SamePlace(keys[m], keys[n]) PROVE m = n
  <2>1. ~SortingKeyLess(keys[m], keys[n]) /\ ~SortingKeyLess(keys[n], keys[m])
    <3>1. keys[m] \in SomeKey /\ keys[n] \in SomeKey
      BY <1>1
    <3>2. SamePlace(keys[n], keys[m])
      BY <1>2 DEF SamePlace
    <3> QED BY <1>2, <3>1, <3>2, Ordering
  <2>2. m \in Nat /\ n \in Nat
    OBVIOUS
  <2> QED BY <2>1, <2>2 DEF FullyInOrder
<1> QED BY <1>1, <1>2 DEF Apart, ToSet

\* The keys after an injection between the keys at places s and f.
Cut(keys, f, s) ==
    LET insert == InsertedKey(keys[s], keys[f])
    IN  Place(Place(RemoveAt(keys, f), insert), [keys[f] EXCEPT !.prev = insert.time])

LEMMA CutServes ==
  ASSUME NEW T \in Nat, NEW D \in Int, NEW tracks, NEW keys, Serves(keys, tracks, T, D),
         NEW f \in DOMAIN keys, NEW s \in DOMAIN keys,
         keys[s].track = keys[f].track, keys[f].prev = keys[s].time,
         keys[f].time - keys[s].time >= 2
  PROVE  Serves(Cut(keys, f, s), tracks, T, D) /\ Len(Cut(keys, f, s)) = Len(keys) + 1
<1> DEFINE K == ToSet(keys)
           key == keys[f]
           mid == (keys[s].time + key.time) \div 2
           ins == [track |-> key.track, prev |-> key.prev, time |-> mid]
           last == [track |-> key.track, prev |-> mid, time |-> key.time]
           less == RemoveAt(keys, f)
           more == Place(less, ins)
           cut == Place(more, last)
<1>1. /\ keys \in Seq(SomeKey) /\ FullyInOrder(keys) /\ K \subseteq ChannelKey(T, D) /\ Follow(K)
      /\ key \in K /\ keys[s] \in K
  BY DEF Serves, ToSet
<1>2. /\ Apart(K)
      /\ \A m, n \in DOMAIN keys : SamePlace(keys[m], keys[n]) => m = n
  BY <1>1, OrderedApart
<1>3. /\ \A k \in K : k \in SomeKey
      /\ key \in SomeKey /\ key \in ChannelKey(T, D) /\ keys[s] \in ChannelKey(T, D)
  BY <1>1, <1>2 DEF Apart
<1>4. /\ key.track \in Nat /\ key.prev \in Int /\ key.time \in Int /\ keys[s].time \in Int
      /\ keys[s].time >= 0 /\ key.prev # -1 /\ key.prev >= 0
      /\ key = [track |-> key.track, prev |-> key.prev, time |-> key.time]
  BY <1>3 DEF ChannelKey, SomeKey
<1>5. mid \in Int /\ key.prev < mid /\ mid < key.time
  <2> DEFINE a == keys[s].time
             b == key.time
  <2>1. a \in Int /\ b \in Int /\ b - a >= 2 /\ key.prev = a
    BY <1>4
  <2> HIDE DEF a, b
  <2>2. (a + b) \div 2 \in Int /\ a < (a + b) \div 2 /\ (a + b) \div 2 < b
    BY <2>1
  <2> QED BY <2>1, <2>2 DEF a, b
<1>6. Cut(keys, f, s) = cut
  <2>1. InsertedKey(keys[s], keys[f]) = ins
    BY DEF InsertedKey
  <2>2. [keys[f] EXCEPT !.prev = mid] = last
    BY <1>4
  <2>3. ins.time = mid
    OBVIOUS
  <2> HIDE DEF ins, last, mid
  <2> QED BY <2>1, <2>2, <2>3 DEF Cut
<1>7. ins \in SomeKey /\ last \in SomeKey
  BY <1>4, <1>5 DEF SomeKey
<1>8. /\ ins.prev = key.prev /\ ins.track = key.track /\ ins.time = mid
      /\ last.prev = mid /\ last.track = key.track /\ last.time = key.time
  OBVIOUS
<1>9. Halves(K, key, mid) = (K \ {key}) \cup {ins, last}
  BY DEF Halves
<1> HIDE DEF K, key, mid, ins, last, less, more, cut
<1>10. /\ less \in Seq(SomeKey) /\ Len(less) = Len(keys) - 1
       /\ FullyInOrder(less) /\ ToSet(less) = K \ {key}
  <2>1. f \in 1 .. Len(keys)
    BY <1>1
  <2>2. IsWithout(less, keys, f)
    BY <1>1, <2>1, RemoveIs DEF less
  <2>3. FullyInOrder(less) /\ ToSet(less) = ToSet(keys) \ {keys[f]}
    BY <1>1, <2>1, <2>2, WithoutKeepsOrder
  <2> QED BY <2>2, <2>3 DEF IsWithout, K, key
<1>11. \A n \in DOMAIN less : ~SamePlace(ins, less[n])
  <2> SUFFICES ASSUME NEW n \in DOMAIN less, SamePlace(ins, less[n]) PROVE FALSE
    OBVIOUS
  <2>1. less[n] \in K /\ less[n] # key
    BY <1>10 DEF ToSet
  <2>2. SamePlace(key, less[n])
    BY <1>8 DEF SamePlace
  <2> QED BY <1>1, <1>2, <2>1, <2>2 DEF Apart
<1>12. /\ more \in Seq(SomeKey) /\ FullyInOrder(more) /\ Len(more) = Len(less) + 1
       /\ ToSet(more) = ToSet(less) \cup {ins}
  BY <1>7, <1>10, <1>11, PlaceKeepsOrder DEF more
<1>13. FollowsIn(K, key)
  BY <1>1 DEF Follow
<1>14. \A n \in DOMAIN more : ~SamePlace(last, more[n])
  <2> SUFFICES ASSUME NEW n \in DOMAIN more, SamePlace(last, more[n]) PROVE FALSE
    OBVIOUS
  <2>1. more[n] \in (K \ {key}) \cup {ins}
    BY <1>10, <1>12 DEF ToSet
  <2>2. more[n].prev = mid /\ more[n].track = key.track
    BY <1>8 DEF SamePlace
  <2>3. more[n] # ins
    BY <1>4, <1>5, <1>8, <2>2
  <2>4. more[n] \in K /\ FollowsIn(K, more[n]) /\ mid # -1
    <3>1. mid # -1
      BY <1>4, <1>5
    <3> QED BY <1>1, <2>1, <2>3, <3>1 DEF Follow
  <2>5. mid \in TimesOn(K, key.track)
    BY <2>2, <2>4 DEF FollowsIn
  <2>6. mid <= key.prev
    BY <1>5, <1>13, <2>5 DEF FollowsIn
  <2> QED BY <1>4, <1>5, <2>6
<1>15. /\ cut \in Seq(SomeKey) /\ FullyInOrder(cut) /\ Len(cut) = Len(more) + 1
       /\ ToSet(cut) = ToSet(more) \cup {last}
  BY <1>7, <1>12, <1>14, PlaceKeepsOrder DEF cut
<1>16. ToSet(cut) = Halves(K, key, mid)
  BY <1>9, <1>10, <1>12, <1>15
<1>17. /\ Halves(K, key, mid) \subseteq ChannelKey(T, D)
       /\ Follow(Halves(K, key, mid))
       /\ \A t \in 0 .. T - 1 : TimesOn(K, t) \subseteq TimesOn(Halves(K, key, mid), t)
  BY <1>1, <1>2, <1>4, <1>5, HalvesFollow
<1>18. \A t \in 0 .. T - 1 :
          /\ ToSet(Copied(tracks, D, t)) \subseteq TimesOn(ToSet(cut), t)
          /\ {0, D} \subseteq TimesOn(ToSet(cut), t)
  <2> SUFFICES ASSUME NEW t \in 0 .. T - 1
               PROVE  /\ ToSet(Copied(tracks, D, t)) \subseteq TimesOn(ToSet(cut), t)
                      /\ {0, D} \subseteq TimesOn(ToSet(cut), t)
    OBVIOUS
  <2>1. /\ ToSet(Copied(tracks, D, t)) \subseteq TimesOn(K, t)
        /\ {0, D} \subseteq TimesOn(K, t)
    BY DEF Serves, K
  <2>2. TimesOn(K, t) \subseteq TimesOn(ToSet(cut), t)
    BY <1>16, <1>17
  <2> QED BY <2>1, <2>2
<1>19. Serves(cut, tracks, T, D)
  BY <1>15, <1>16, <1>17, <1>18 DEF Serves
<1>20. Len(cut) = Len(keys) + 1
  <2>1. Len(keys) \in Nat
    BY <1>1
  <2> QED BY <2>1, <1>10, <1>12, <1>15
<1> QED BY <1>6, <1>19, <1>20

-----------------------------------------------------------------------------
(* The key before a key on its track.                                      *)

\* Place p, counted from 0, is that of the last key of track t among the first n; -1 if
\* there is none.
LastAt(keys, t, n, p) ==
    /\ p \in -1 .. n - 1
    /\ p # -1 => keys[p + 1].track = t
    /\ \A m \in p + 1 .. n - 1 : keys[m + 1].track # t

LEMMA TimesGrow ==
  ASSUME NEW K, K \subseteq SomeKey, Follow(K), NEW a \in K, NEW b \in K, a.track = b.track,
         -1 <= a.prev, a.prev < b.prev
  PROVE  a.time <= b.prev
<1>1. FollowsIn(K, a) /\ FollowsIn(K, b) /\ a \in SomeKey /\ b \in SomeKey
  BY DEF Follow
<1>2. a.prev \in Int /\ b.prev \in Int /\ a.time \in Int
  BY <1>1 DEF SomeKey
<1>3. b.prev \in TimesOn(K, a.track)
  BY <1>1, <1>2 DEF FollowsIn
<1>4. b.prev < a.time => b.prev <= a.prev
  BY <1>1, <1>3 DEF FollowsIn
<1> QED BY <1>2, <1>4

\* The key at place k follows the one at place p.
IsLink(keys, k, p) ==
    /\ p = -1 => keys[k + 1].prev = -1
    /\ p # -1 => keys[k + 1].prev = keys[p + 1].time

LEMMA LinkedBack ==
  ASSUME NEW T \in Nat, NEW D \in Int, NEW tracks, NEW keys, Serves(keys, tracks, T, D),
         NEW k \in 0 .. Len(keys) - 1, NEW p, LastAt(keys, keys[k + 1].track, k, p)
  PROVE  IsLink(keys, k, p)
<1> DEFINE K == ToSet(keys)
           key == keys[k + 1]
<1>1. /\ keys \in Seq(SomeKey) /\ FullyInOrder(keys) /\ Follow(K)
      /\ K \subseteq SomeKey /\ \A n \in DOMAIN keys : keys[n] \in K
      /\ \A j \in K : j.prev \in Int /\ j.time \in Int /\ -1 <= j.prev /\ j.track \in Nat
  <2>1. /\ keys \in Seq(SomeKey) /\ FullyInOrder(keys) /\ Follow(K) /\ K \subseteq ChannelKey(T, D)
    BY DEF Serves
  <2>2. \A n \in DOMAIN keys : keys[n] \in K
    BY DEF ToSet
  <2> HIDE DEF K
  <2>3. ASSUME NEW j \in K PROVE j.prev \in Int /\ j.time \in Int /\ -1 <= j.prev /\ j.track \in Nat
    <3>1. j \in ChannelKey(T, D)
      BY <2>1
    <3> QED BY <3>1 DEF ChannelKey
  <2>4. ASSUME NEW j \in K PROVE j \in SomeKey
    <3>1. j \in ChannelKey(T, D)
      BY <2>1
    <3> QED BY <3>1 DEF ChannelKey, SomeKey
  <2> QED BY <2>1, <2>2, <2>3, <2>4
<1>2. k + 1 \in DOMAIN keys /\ Len(keys) \in Nat /\ k \in Nat
  BY <1>1
<1>3. key \in K /\ FollowsIn(K, key)
  BY <1>1, <1>2 DEF Follow
<1> HIDE DEF K
<1>4. ASSUME key.prev # -1
      PROVE  \E m \in 0 .. k - 1 : keys[m + 1].track = key.track /\ keys[m + 1].time = key.prev
  <2>1. PICK j \in K : j.track = key.track /\ j.time = key.prev
    BY <1>3, <1>4 DEF FollowsIn, TimesOn
  <2>2. PICK n \in DOMAIN keys : keys[n] = j
    BY <2>1 DEF K, ToSet
  <2>3. j.prev < j.time
    BY <1>1, <2>1 DEF Follow, FollowsIn
  <2>4. SortingKeyLess(j, key)
    BY <2>1, <2>3 DEF SortingKeyLess
  <2>5. ~SortingKeyLess(key, j)
    <3>1. key \in SomeKey /\ j \in SomeKey
      BY <1>1, <1>3, <2>1
    <3> QED BY <2>4, <3>1, Ordering
  <2>6. n # k + 1
    <3>1. ~SortingKeyLess(key, key)
      BY <1>1, <1>3, Ordering
    <3> QED BY <2>2, <2>4, <3>1
  <2>7. ~(k + 1 < n)
    BY <1>1, <1>2, <2>2, <2>5 DEF FullyInOrder
  <2>8. n \in 1 .. Len(keys)
    BY <1>1, <2>2
  <2>9. (n - 1) \in 0 .. k - 1 /\ (n - 1) + 1 = n
    BY <1>2, <2>6, <2>7, <2>8
  <2> QED BY <2>1, <2>2, <2>9
<1>5. CASE p = -1
  <2>1. \A m \in 0 .. k - 1 : keys[m + 1].track # key.track
    BY <1>5 DEF LastAt
  <2> QED BY <1>4, <1>5, <2>1 DEF IsLink
<1>6. CASE p # -1
  <2>1. /\ p \in 0 .. k - 1 /\ keys[p + 1].track = key.track
        /\ \A m \in p + 1 .. k - 1 : keys[m + 1].track # key.track
    BY <1>2, <1>6 DEF LastAt
  <2> DEFINE a == keys[p + 1]
  <2>2. a \in K /\ p + 1 \in DOMAIN keys
    BY <1>1, <1>2, <2>1
  <2>3. ASSUME NEW m \in DOMAIN keys, NEW n \in DOMAIN keys, m < n, keys[m].track = keys[n].track
        PROVE  keys[m].prev < keys[n].prev
    BY <1>1, <2>3 DEF FullyInOrder, SortingKeyLess
  <2>4. a.prev < key.prev /\ -1 <= a.prev
    BY <1>1, <1>2, <2>1, <2>2, <2>3
  <2>5. a.time <= key.prev
    BY <1>1, <1>3, <2>1, <2>2, <2>4, TimesGrow
  <2>6. PICK m \in 0 .. k - 1 : keys[m + 1].track = key.track /\ keys[m + 1].time = key.prev
    BY <1>1, <1>3, <1>4, <2>2, <2>4
  <2>7. ~(p < m)
    BY <2>1, <2>6
  <2>8. ~(m < p)
    <3> SUFFICES ASSUME m < p PROVE FALSE
      OBVIOUS
    <3> DEFINE j == keys[m + 1]
    <3>1. j \in K /\ m + 1 \in DOMAIN keys
      BY <1>1, <1>2, <2>6
    <3>2. j.prev < a.prev /\ -1 <= j.prev
      BY <1>1, <2>1, <2>2, <2>3, <2>6, <3>1
    <3>3. j.time <= a.prev
      BY <1>1, <2>1, <2>2, <2>6, <3>1, <3>2, TimesGrow
    <3>4. a.prev < a.time
      BY <1>1, <2>2 DEF Follow, FollowsIn
    <3> QED BY <1>1, <2>2, <2>5, <2>6, <3>1, <3>3, <3>4
  <2>9. m = p
    BY <2>1, <2>7, <2>8
  <2> QED BY <1>6, <2>6, <2>9 DEF IsLink
<1> QED BY <1>5, <1>6 DEF IsLink

\* The second key of a track is not far from the first, since the first two keys of all
\* tracks come first: an injection always has a segment to cut.
LEMMA SecondIsNear ==
  ASSUME NEW T \in Nat, NEW D \in Int, NEW tracks, NEW keys, Serves(keys, tracks, T, D),
         NEW k \in 0 .. Len(keys) - 1, NEW f \in 0 .. k - 1,
         LastAt(keys, keys[k + 1].track, k, f), LastAt(keys, keys[k + 1].track, f, -1)
  PROVE  k - f <= T
<1> DEFINE K == ToSet(keys)
           t == keys[k + 1].track
<1>1. /\ keys \in Seq(SomeKey) /\ FullyInOrder(keys) /\ Follow(K) /\ K \subseteq ChannelKey(T, D)
      /\ \A n \in DOMAIN keys : keys[n] \in K
      /\ \A u \in 0 .. T - 1 : {0, D} \subseteq TimesOn(K, u)
  BY DEF Serves, ToSet
<1> HIDE DEF K
<1>2. \A j \in K : j.prev \in Int /\ j.time \in Int /\ -1 <= j.prev /\ 0 <= j.time /\ j.track \in 0 .. T - 1
  <2> SUFFICES ASSUME NEW j \in K
               PROVE  j.prev \in Int /\ j.time \in Int /\ -1 <= j.prev /\ 0 <= j.time /\ j.track \in 0 .. T - 1
    OBVIOUS
  <2>1. j \in ChannelKey(T, D)
    BY <1>1
  <2> QED BY <2>1 DEF ChannelKey
<1>3. /\ k + 1 \in DOMAIN keys /\ f + 1 \in DOMAIN keys /\ f + 1 < k + 1
      /\ \A m \in f .. k - 1 : m + 1 \in DOMAIN keys
  BY <1>1
<1>4. keys[f + 1].track = t
  BY DEF LastAt
<1>5. keys[f + 1].prev = -1
  <2>1. LastAt(keys, keys[f + 1].track, f, -1)
    BY <1>4
  <2>2. f \in 0 .. Len(keys) - 1
    BY <1>1
  <2>3. IsLink(keys, f, -1)
    BY <2>1, <2>2, LinkedBack
  <2> QED BY <2>3 DEF IsLink
<1>6. keys[f + 1].time = 0
  <2>1. 0 \in TimesOn(K, t)
    BY <1>1, <1>2, <1>3
  <2>2. keys[f + 1] \in K
    BY <1>1, <1>3
  <2>3. FollowsIn(K, keys[f + 1])
    BY <1>1, <2>2 DEF Follow
  <2>4. 0 < keys[f + 1].time => 0 <= -1
    BY <1>4, <1>5, <2>1, <2>3 DEF FollowsIn
  <2> QED BY <1>2, <2>2, <2>4
<1>7. keys[k + 1].prev = 0
  <2>1. f # -1
    OBVIOUS
  <2>2. keys[k + 1].prev = keys[f + 1].time
    <3>1. LastAt(keys, keys[k + 1].track, k, f) /\ Serves(keys, tracks, T, D)
      OBVIOUS
    <3> HIDE DEF t
    <3>2. IsLink(keys, k, f)
      BY <3>1, LinkedBack
    <3> QED BY <2>1, <3>2 DEF IsLink
  <2> QED BY <2>2, <1>6
<1>8. ASSUME NEW m \in f .. k - 1
      PROVE  /\ keys[m + 1].track \in 0 .. T - 1
             /\ \/ keys[m + 1].prev = -1 /\ t <= keys[m + 1].track
                \/ keys[m + 1].prev = 0 /\ keys[m + 1].track < t
  <2> DEFINE a == keys[m + 1]
             b == keys[k + 1]
             c == keys[f + 1]
  <2>1. m + 1 \in DOMAIN keys /\ m + 1 < k + 1 /\ (m = f \/ f + 1 < m + 1)
    BY <1>3
  <2>2. a \in K /\ b \in K /\ c \in K /\ SortingKeyLess(a, b) /\ (m = f \/ SortingKeyLess(c, a))
    BY <1>1, <1>3, <2>1 DEF FullyInOrder
  <2>3. /\ a.prev \in Int /\ -1 <= a.prev /\ a.track \in 0 .. T - 1 /\ t \in Nat
        /\ c.prev = -1 /\ c.track = t /\ b.prev = 0 /\ b.track = t
    BY <1>2, <1>4, <1>5, <1>7, <2>2
  <2>4. a.prev < 0 \/ (a.prev = 0 /\ a.track < t)
    BY <2>2, <2>3 DEF SortingKeyLess
  <2>5. -1 < a.prev \/ (a.prev = -1 /\ t <= a.track)
    <3>1. CASE m = f
      BY <3>1, <2>3
    <3>2. CASE SortingKeyLess(c, a)
      BY <3>2, <2>3 DEF SortingKeyLess
    <3> QED BY <3>1, <3>2, <2>2
  <2>6. (a.prev = -1 /\ t <= a.track) \/ (a.prev = 0 /\ a.track < t)
    <3>1. a.prev \in Int
      BY <2>3
    <3> HIDE DEF a, b, c, t
    <3> QED BY <3>1, <2>4, <2>5
  <2> HIDE DEF a, b, c, t
  <2> QED BY <2>3, <2>6 DEF a
<1> DEFINE g == [m \in f .. k - 1 |-> keys[m + 1].track]
<1>9. g \in Injection(f .. k - 1, 0 .. T - 1)
  <2>1. g \in [f .. k - 1 -> 0 .. T - 1]
    BY <1>8
  <2>2. ASSUME NEW m \in f .. k - 1, NEW n \in f .. k - 1, g[m] = g[n] PROVE m = n
    <3>1. keys[m + 1].track = keys[n + 1].track
      BY <2>2
    <3>2. keys[m + 1].prev = keys[n + 1].prev
      <4> DEFINE a == keys[m + 1]
                 b == keys[n + 1]
      <4>1. /\ a.track \in Int /\ b.track \in Int /\ t \in Int
            /\ (a.prev = -1 /\ t <= a.track) \/ (a.prev = 0 /\ a.track < t)
            /\ (b.prev = -1 /\ t <= b.track) \/ (b.prev = 0 /\ b.track < t)
        BY <1>1, <1>2, <1>3, <1>8
      <4> HIDE DEF a, b, t
      <4>2. a.track = b.track
        BY <3>1 DEF a, b
      <4>3. a.prev = b.prev
        BY <4>1, <4>2
      <4> QED BY <4>3 DEF a, b
    <3>3. SamePlace(keys[m + 1], keys[n + 1])
      BY <3>1, <3>2 DEF SamePlace
    <3>4. m + 1 = n + 1
      BY <1>1, <1>3, <3>3, OrderedApart
    <3> QED BY <3>4
  <2> HIDE DEF g
  <2>3. DOMAIN g = f .. k - 1
    BY <2>1
  <2> QED BY <2>1, <2>2, <2>3 DEF Injection, IsInjective
<1> HIDE DEF g
<1>10. IsFiniteSet(0 .. T - 1) /\ Cardinality(0 .. T - 1) = T
  <2>1. 0 \in Int /\ T - 1 \in Int /\ (IF 0 > T - 1 THEN 0 ELSE (T - 1) - 0 + 1) = T
    OBVIOUS
  <2> QED BY <2>1, FS_Interval
<1>11. Cardinality(f .. k - 1) <= Cardinality(0 .. T - 1)
  BY <1>9, <1>10, FS_Injection
<1>12. Cardinality(f .. k - 1) = k - f
  <2>1. f \in Int /\ k - 1 \in Int /\ ~(f > k - 1) /\ ((k - 1) - f) + 1 = k - f
    OBVIOUS
  <2> QED BY <2>1, FS_Interval
<1> QED BY <1>10, <1>11, <1>12

-----------------------------------------------------------------------------
(* Imported keys.                                                          *)

KeyOf(V) == [time : Int, value : V]

\* FirstOfEach, key by key.
KeptAt(keys, n, kept) ==
    IF n = 1 \/ keys[n - 1].time # keys[n].time THEN Append(kept, keys[n]) ELSE kept

KeepsFirsts(f, keys) == f = [n \in 0 .. Len(keys) |-> IF n = 0 THEN <<>> ELSE KeptAt(keys, n, f[n - 1])]

LEMMA FirstsAreKeys ==
  ASSUME NEW T, NEW keys \in Seq(T)
  PROVE  FirstOfEach(keys) \in Seq(T)
<1> DEFINE L == Len(keys)
           V == Seq(T)
           step == [x \in (1 .. L) \X V |-> KeptAt(keys, x[1], x[2])]
           f == CHOOSE f : KeepsFirsts(f, keys)
           S == {n \in 0 .. L : f[n] \in V}
<1>1. L \in Nat /\ <<>> \in V /\ \A n \in 1 .. L : keys[n] \in T
  OBVIOUS
<1>2. \A n \in 1 .. L, kept \in V : KeptAt(keys, n, kept) \in V
  BY <1>1 DEF KeptAt
<1>3. step \in [(1 .. L) \X V -> V]
  <2> SUFFICES ASSUME NEW x \in (1 .. L) \X V PROVE KeptAt(keys, x[1], x[2]) \in V
    OBVIOUS
  <2> QED BY <1>2
<1>4. \A n \in 1 .. L, kept \in V : step[<<n, kept>>] = KeptAt(keys, n, kept)
  <2>1. \A n \in 1 .. L, kept \in V : <<n, kept>> \in (1 .. L) \X V
    OBVIOUS
  <2> QED BY <2>1
<1> HIDE DEF step, V, L
<1>5. PICK g : GoesOn(g, L, V, <<>>, step)
  BY <1>1, <1>3, CountedRecursion
<1>6. g \in [0 .. L -> V] /\ g = [n \in 0 .. L |-> IF n = 0 THEN <<>> ELSE step[<<n, g[n - 1]>>]]
  BY <1>5 DEF GoesOn
<1>7. \A n \in 0 .. L : n # 0 => n \in 1 .. L /\ n - 1 \in 0 .. L
  BY <1>1
<1>8. \A n \in 0 .. L : n # 0 => step[<<n, g[n - 1]>>] = KeptAt(keys, n, g[n - 1])
  BY <1>4, <1>6, <1>7
<1>9. g = [n \in 0 .. L |-> IF n = 0 THEN <<>> ELSE KeptAt(keys, n, g[n - 1])]
  BY <1>6, <1>8
<1>10. KeepsFirsts(f, keys)
  <2>1. KeepsFirsts(g, keys)
    BY <1>9 DEF KeepsFirsts, L
  <2> QED BY <2>1
<1>11. FirstOfEach(keys) = f[L]
  BY DEF FirstOfEach, KeepsFirsts, KeptAt, L
<1> HIDE DEF f
<1>12. f = [n \in 0 .. L |-> IF n = 0 THEN <<>> ELSE KeptAt(keys, n, f[n - 1])]
  BY <1>10 DEF KeepsFirsts, L
<1>13. 0 \in S
  BY <1>1, <1>12
<1>14. \A n \in 1 .. L : n - 1 \in S => n \in S
  <2> SUFFICES ASSUME NEW n \in 1 .. L, n - 1 \in S PROVE n \in S
    OBVIOUS
  <2>1. n \in 0 .. L /\ n # 0 /\ f[n - 1] \in V
    BY <1>1
  <2>2. f[n] = KeptAt(keys, n, f[n - 1])
    BY <1>12, <2>1
  <2> QED BY <1>2, <2>1, <2>2
<1> HIDE DEF S
<1>15. 0 .. L \subseteq S
  BY <1>1, <1>13, <1>14, ByNumber
<1> QED BY <1>1, <1>11, <1>15 DEF S, V

LEMMA StepsAreKeys ==
  ASSUME NEW ch, ch.times \in Seq(Int)
  PROVE  \E V : SampleStepChannel(ch) \in Seq(KeyOf(V))
<1> DEFINE L == Len(ch.times)
           V == {Exact(ch.values[k]) : k \in 1 .. L}
           T == KeyOf(V)
           subs == [k \in 1 .. L |-> StepKeys(ch, k)]
<1>1. L \in Nat /\ DOMAIN ch.times = 1 .. L /\ \A k \in 1 .. L : ch.times[k] \in Int
  OBVIOUS
<1>2. ASSUME NEW k \in 1 .. L PROVE StepKeys(ch, k) \in Seq(T)
  <2> DEFINE At(t) == [time |-> t, value |-> Exact(ch.values[k])]
  <2>1. \A t \in Int : <<At(t)>> \in Seq(T)
    BY DEF KeyOf
  <2>2. k < L => NextToZero(ch.times[k + 1]) \in Int
    BY <1>1 DEF NextToZero
  <2> HIDE DEF T
  <2>3. StepKeys(ch, k) = <<At(ch.times[k])>> \o (IF k < L THEN <<At(NextToZero(ch.times[k + 1]))>> ELSE <<>>)
    BY DEF StepKeys
  <2> HIDE DEF At, L
  <2>4. <<At(ch.times[k])>> \in Seq(T)
    BY <1>1, <2>1
  <2>5. (IF k < L THEN <<At(NextToZero(ch.times[k + 1]))>> ELSE <<>>) \in Seq(T)
    BY <2>1, <2>2
  <2> QED BY <2>3, <2>4, <2>5
<1>3. SampleStepChannel(ch) = FlattenSeq(subs)
  BY <1>1 DEF SampleStepChannel
<1> HIDE DEF T, L
<1>4. subs \in Seq(Seq(T)) /\ Len(subs) = L
  <2> DEFINE W == Seq(T)
  <2>1. subs \in [1 .. L -> W]
    BY <1>2
  <2> HIDE DEF W, subs
  <2>2. subs \in Seq(W) /\ Len(subs) = L
    BY <1>1, <2>1
  <2> QED BY <2>2 DEF W
<1> HIDE DEF subs
<1>5. PICK g : Gathers(g, subs, T) /\ FlattenSeq(subs) = g[Len(subs)]
  BY <1>4, FlattenIs
<1>6. g[L] \in Seq(T)
  BY <1>1, <1>4, <1>5 DEF Gathers
<1> QED BY <1>3, <1>4, <1>5, <1>6 DEF T

LEMMA SplinesAreKeys ==
  ASSUME NEW ch, ch.times \in Seq(Int), ch.times # <<>>, NEW period \in Nat \ {0}
  PROVE  \E V : SampleCubicSplineChannel(ch, period) \in Seq(KeyOf(V))
<1> DEFINE ts == ch.times
           keys == SampleCubicSplineChannel(ch, period)
           duration == Last(ts) - Head(ts)
           num == 1 + (duration + period - 1) \div period
           fixed == FixedRateTimes(duration, period)
           V == {keys[n].value : n \in 1 .. num}
<1>1. Head(ts) \in Int /\ Last(ts) \in Int /\ duration \in Int
  <2>1. Len(ts) \in 1 .. Len(ts) /\ 1 \in 1 .. Len(ts)
    OBVIOUS
  <2> QED BY <2>1 DEF Last
<1> HIDE DEF duration
<1>2. num \in Int
  BY <1>1
<1>3. fixed = [k \in 1 .. num |-> Min({(k - 1) * period, duration})]
  BY DEF FixedRateTimes
<1> HIDE DEF num
<1>4. \A k \in 1 .. num : fixed[k] \in Int
  <2> SUFFICES ASSUME NEW k \in 1 .. num PROVE Min({(k - 1) * period, duration}) \in Int
    BY <1>3
  <2> DEFINE at == (k - 1) * period
  <2>1. at \in Int
    BY <1>2
  <2> HIDE DEF at
  <2>2. \E m \in {at, duration} : \A y \in {at, duration} : m <= y
    BY <1>1, <2>1
  <2>3. Min({at, duration}) \in {at, duration}
    BY <2>2 DEF Min
  <2> QED BY <1>1, <2>1, <2>3 DEF at
<1>5. DOMAIN fixed = 1 .. num
  BY <1>3
<1> HIDE DEF fixed
<1>6. /\ DOMAIN keys = 1 .. num /\ keys = [n \in 1 .. num |-> keys[n]]
      /\ \A n \in 1 .. num : \E v : keys[n] = [time |-> fixed[n] + Head(ts), value |-> v]
  BY <1>5 DEF SampleCubicSplineChannel, duration, fixed
<1> HIDE DEF keys, V
<1>7. \A n \in 1 .. num : keys[n] \in KeyOf(V)
  <2> SUFFICES ASSUME NEW n \in 1 .. num PROVE keys[n] \in KeyOf(V)
    OBVIOUS
  <2>1. PICK v : keys[n] = [time |-> fixed[n] + Head(ts), value |-> v]
    BY <1>6
  <2>2. v \in V /\ fixed[n] + Head(ts) \in Int
    BY <1>1, <1>4, <2>1 DEF V
  <2> QED BY <2>1, <2>2 DEF KeyOf
<1>8. \E m \in Nat : 1 .. num = 1 .. m
  <2>1. CASE num >= 0
    BY <1>2, <2>1
  <2>2. CASE num < 0
    <3>1. 1 .. num = 1 .. 0
      BY <1>2, <2>2
    <3> QED BY <3>1
  <2> QED BY <1>2, <2>1, <2>2
<1>9. keys \in Seq(KeyOf(V))
  <2>1. PICK m \in Nat : 1 .. num = 1 .. m
    BY <1>8
  <2>2. keys \in [1 .. m -> KeyOf(V)]
    BY <1>6, <1>7, <2>1
  <2> QED BY <2>2
<1> QED BY <1>9 DEF keys

\* Keys have times, whatever the curve.
LEMMA SampledAreKeys ==
  ASSUME NEW ch, ch.times \in Seq(Int), ch.times # <<>>, ch.interpolation \in Interpolations,
         NEW period \in Nat \ {0}
  PROVE  \E V : SampledKeys(ch, period) \in Seq(KeyOf(V))
<1>1. CASE ch.values = <<>>
  <2>1. SampledKeys(ch, period) = <<>>
    BY <1>1 DEF SampledKeys
  <2> DEFINE V == {}
  <2>2. SampledKeys(ch, period) \in Seq(KeyOf(V))
    BY <2>1
  <2> HIDE DEF V
  <2> QED BY <2>2
<1>2. CASE ch.values # <<>> /\ ch.interpolation = "LINEAR"
  <2> DEFINE V == {Exact(ch.values[k]) : k \in DOMAIN ch.times}
  <2>1. SampledKeys(ch, period) = SampleLinearChannel(ch)
    BY <1>2 DEF SampledKeys
  <2>2. SampleLinearChannel(ch) \in [1 .. Len(ch.times) -> KeyOf(V)]
    BY DEF SampleLinearChannel, KeyOf
  <2>3. SampledKeys(ch, period) \in Seq(KeyOf(V))
    BY <2>1, <2>2
  <2> HIDE DEF V
  <2> QED BY <2>3
<1>3. CASE ch.values # <<>> /\ ch.interpolation = "STEP"
  <2>1. SampledKeys(ch, period) = SampleStepChannel(ch)
    BY <1>3 DEF SampledKeys
  <2> QED BY <2>1, StepsAreKeys
<1>4. CASE ch.values # <<>> /\ ch.interpolation = "CUBICSPLINE"
  <2>1. SampledKeys(ch, period) = SampleCubicSplineChannel(ch, period)
    BY <1>4 DEF SampledKeys
  <2> QED BY <2>1, SplinesAreKeys
<1> QED BY <1>1, <1>2, <1>3, <1>4 DEF Interpolations

\* The times of a track of an import.
LEMMA TracksHaveTimes ==
  ASSUME NEW d, NEW name, NEW path, NEW period \in Nat \ {0},
         \A ch \in ChannelsOf(d, name) : ch.times \in Seq(Int) /\ Samples(ch, period)
  PROVE  \E V : TrackOf(d, name, path, period) \in Seq(KeyOf(V))
<1> DEFINE readable == {ch \in ChannelsOf(d, name) : ch.path = path /\ ch.times # <<>>}
           ch == CHOOSE ch \in readable : TRUE
           keys == IF readable = {} THEN <<>> ELSE FirstOfEach(SampledKeys(ch, period))
           rest == RestPoseKey(d, name, path)
<1>1. TrackOf(d, name, path, period) = IF keys = <<>> THEN <<rest>> ELSE keys
  BY DEF TrackOf
<1>2. \E V : rest \in KeyOf(V)
  <2> DEFINE v == Exact(d.nodes[CHOOSE n \in Nodes(d) : NameOf(d, n) = name].rest[path])
  <2>1. rest = [time |-> 0, value |-> v]
    BY DEF RestPoseKey
  <2> HIDE DEF v, rest
  <2>2. rest \in KeyOf({v})
    BY <2>1 DEF KeyOf
  <2> QED BY <2>2
<1> HIDE DEF rest
<1>3. CASE keys = <<>>
  <2>1. PICK V : rest \in KeyOf(V)
    BY <1>2
  <2>2. <<rest>> \in Seq(KeyOf(V))
    BY <2>1
  <2> QED BY <1>1, <1>3, <2>2
<1>4. CASE keys # <<>>
  <2>1. ch \in ChannelsOf(d, name) /\ ch.times # <<>> /\ readable # {}
    BY <1>4
  <2>2. keys = FirstOfEach(SampledKeys(ch, period))
    BY <2>1
  <2> HIDE DEF ch, keys, readable
  <2>3. ch.times \in Seq(Int) /\ ch.interpolation \in Interpolations
    BY <2>1 DEF Samples
  <2>4. PICK V : SampledKeys(ch, period) \in Seq(KeyOf(V))
    BY <2>1, <2>3, SampledAreKeys
  <2>5. keys \in Seq(KeyOf(V))
    BY <2>2, <2>4, FirstsAreKeys
  <2> QED BY <1>1, <1>4, <2>5
<1> QED BY <1>3, <1>4

-----------------------------------------------------------------------------
(* Imported nodes.                                                         *)

\* depth grows from a node to its children, and a node is the child of one at one place only.
Forest(d, N, depth) ==
    /\ Len(d.nodes) \in Nat /\ N = 1 .. Len(d.nodes) /\ Nodes(d) = N
    /\ depth \in [N -> N]
    /\ \A n \in N : /\ ChildrenOf(d, n) \in Seq(N)
                   /\ \A k \in 1 .. Len(ChildrenOf(d, n)) :
                        /\ depth[n] < depth[ChildrenOf(d, n)[k]]
                        /\ ParentNode(d)[ChildrenOf(d, n)[k]] = n
                        /\ \A j \in 1 .. Len(ChildrenOf(d, n)) :
                             ChildrenOf(d, n)[j] = ChildrenOf(d, n)[k] => j = k

LEMMA DocumentsAreForests ==
  ASSUME NEW d, IsDocument(d)
  PROVE  \E depth : Forest(d, Nodes(d), depth)
<1> DEFINE N == Nodes(d)
<1>1. Len(d.nodes) \in Nat /\ N = 1 .. Len(d.nodes) /\ \A n \in N : ChildrenOf(d, n) \in Seq(N)
  <2>1. d.nodes \in Seq(ToSet(d.nodes))
    BY DEF IsDocument
  <2>2. Len(d.nodes) \in Nat /\ DOMAIN d.nodes = 1 .. Len(d.nodes)
    BY <2>1
  <2> QED BY <2>2 DEF IsDocument, Nodes
<1> HIDE DEF N
<1>2. \A p, q \in N : \A j \in 1 .. Len(ChildrenOf(d, p)), k \in 1 .. Len(ChildrenOf(d, q)) :
         ChildrenOf(d, p)[j] = ChildrenOf(d, q)[k] => p = q /\ j = k
  <2>1. \A p \in N : DOMAIN ChildrenOf(d, p) = 1 .. Len(ChildrenOf(d, p))
    BY <1>1
  <2>2. \A p, q \in N : \A j \in DOMAIN ChildrenOf(d, p), k \in DOMAIN ChildrenOf(d, q) :
          ChildrenOf(d, p)[j] = ChildrenOf(d, q)[k] => p = q /\ j = k
    BY DEF IsDocument, NodesFormTrees, N
  <2> QED BY <2>1, <2>2
<1>3. PICK depth \in [N -> N] : \A n \in N : \A c \in ToSet(ChildrenOf(d, n)) : depth[n] < depth[c]
  BY DEF IsDocument, NodesFormTrees, N
<1>4. ASSUME NEW n \in N, NEW k \in 1 .. Len(ChildrenOf(d, n))
      PROVE  /\ depth[n] < depth[ChildrenOf(d, n)[k]]
             /\ ParentNode(d)[ChildrenOf(d, n)[k]] = n
  <2> DEFINE c == ChildrenOf(d, n)[k]
             above == {p \in N : c \in ToSet(ChildrenOf(d, p))}
  <2>1. c \in N /\ k \in DOMAIN ChildrenOf(d, n)
    BY <1>1
  <2>2. c \in ToSet(ChildrenOf(d, n))
    BY <2>1 DEF ToSet
  <2>3. \A p \in N : c \in ToSet(ChildrenOf(d, p)) => p = n
    <3> SUFFICES ASSUME NEW p \in N, c \in ToSet(ChildrenOf(d, p)) PROVE p = n
      OBVIOUS
    <3>1. PICK j \in DOMAIN ChildrenOf(d, p) : ChildrenOf(d, p)[j] = c
      BY DEF ToSet
    <3>2. j \in 1 .. Len(ChildrenOf(d, p))
      BY <1>1, <3>1
    <3> QED BY <1>2, <3>1, <3>2
  <2>4. above = {n}
    BY <2>2, <2>3
  <2>5. ParentNode(d)[c] = IF above = {} THEN NoNode ELSE Max(above)
    BY <2>1 DEF ParentNode, N
  <2>6. Max({n}) = n
    <3>1. n \in Int
      BY <1>1
    <3> QED BY <3>1 DEF Max
  <2> HIDE DEF c, above
  <2>7. depth[n] < depth[c] /\ ParentNode(d)[c] = n
    BY <1>3, <2>2, <2>4, <2>5, <2>6
  <2> QED BY <2>7 DEF c
<1>5. \A n \in N : \A k, j \in 1 .. Len(ChildrenOf(d, n)) :
         ChildrenOf(d, n)[j] = ChildrenOf(d, n)[k] => j = k
  BY <1>2
<1>6. Forest(d, N, depth)
  BY <1>1, <1>3, <1>4, <1>5 DEF Forest, N
<1> QED BY <1>6 DEF N

\* s is n and the subtrees of its children in D: each joint but the first comes after its parent,
\* and once.
Hung(d, N, depth, n, s, D) ==
    /\ s \in Seq(N) /\ Len(s) >= 1 /\ s[1] = n
    /\ OneEach(s)
    /\ \A k \in 2 .. Len(s) :
          /\ depth[n] < depth[s[k]]
          /\ \E m \in 1 .. k - 1 : s[m] = ParentNode(d)[s[k]]
          /\ ParentNode(d)[s[k]] = n => s[k] \in D

LEMMA DepthsAreNumbers ==
  ASSUME NEW d, NEW N, NEW depth, Forest(d, N, depth)
  PROVE  \A n \in N : depth[n] \in Int
BY DEF Forest

LEMMA SubtreesShareNothing ==
  ASSUME NEW d, NEW N, NEW depth, Forest(d, N, depth), NEW n \in N, NEW c \in N, ParentNode(d)[c] = n,
         depth[n] < depth[c], NEW D, c \notin D, NEW s, NEW t, NEW E,
         Hung(d, N, depth, n, s, D), Hung(d, N, depth, c, t, E)
  PROVE  \A k \in 1 .. Len(s), m \in 1 .. Len(t) : s[k] # t[m]
<1> DEFINE X == {m \in 1 .. Len(t) : \E k \in 1 .. Len(s) : s[k] = t[m]}
<1> SUFFICES ASSUME X # {} PROVE FALSE
  OBVIOUS
<1>1. X \subseteq Nat
  OBVIOUS
<1> HIDE DEF X
<1>2. PICK m \in X : \A q \in X : m <= q
  BY <1>1, LeastNatural
<1>3. PICK k \in 1 .. Len(s) : s[k] = t[m] /\ m \in 1 .. Len(t)
  BY <1>2 DEF X
<1>4. /\ Len(s) \in Nat /\ Len(t) \in Nat /\ s[1] = n /\ t[1] = c
      /\ depth[n] \in Int /\ depth[c] \in Int /\ \A j \in 1 .. Len(t) : depth[t[j]] \in Int
  <2>1. s \in Seq(N) /\ t \in Seq(N) /\ s[1] = n /\ t[1] = c
    BY DEF Hung
  <2>2. \A j \in 1 .. Len(t) : t[j] \in N
    BY <2>1
  <2> QED BY <2>1, <2>2, DepthsAreNumbers
<1>5. /\ \A j \in 2 .. Len(s) : \E r \in 1 .. j - 1 : s[r] = ParentNode(d)[s[j]]
      /\ \A j \in 2 .. Len(s) : ParentNode(d)[s[j]] = n => s[j] \in D
      /\ \A j \in 2 .. Len(t) : depth[c] < depth[t[j]] /\ \E r \in 1 .. j - 1 : t[r] = ParentNode(d)[t[j]]
  BY DEF Hung
<1>6. k # 1
  <2> SUFFICES ASSUME k = 1 PROVE FALSE
    OBVIOUS
  <2>1. t[m] = n
    BY <1>3, <1>4
  <2>2. CASE m = 1
    BY <1>4, <2>1, <2>2
  <2>3. CASE m # 1
    <3>1. m \in 2 .. Len(t)
      BY <1>3, <1>4, <2>3
    <3>2. depth[c] < depth[n]
      BY <1>5, <2>1, <3>1
    <3> QED BY <1>4, <3>2
  <2> QED BY <2>2, <2>3
<1>7. k \in 2 .. Len(s)
  BY <1>3, <1>4, <1>6
<1>8. CASE m = 1
  BY <1>3, <1>4, <1>5, <1>7, <1>8
<1>9. CASE m # 1
  <2>1. m \in 2 .. Len(t)
    BY <1>3, <1>4, <1>9
  <2>2. PICK q \in 1 .. m - 1 : t[q] = ParentNode(d)[t[m]]
    BY <1>5, <2>1
  <2>3. PICK r \in 1 .. k - 1 : s[r] = ParentNode(d)[s[k]]
    BY <1>5, <1>7
  <2>4. q \in 1 .. Len(t) /\ r \in 1 .. Len(s) /\ ~(m <= q)
    BY <1>3, <1>4, <1>7, <2>1, <2>2, <2>3
  <2>5. q \in X
    BY <1>3, <2>2, <2>3, <2>4 DEF X
  <2> QED BY <1>2, <2>4, <2>5
<1> QED BY <1>8, <1>9

LEMMA HungAppended ==
  ASSUME NEW d, NEW N, NEW depth, Forest(d, N, depth), NEW n \in N, NEW c \in N, ParentNode(d)[c] = n,
         depth[n] < depth[c], NEW D, c \notin D, NEW s, NEW t, NEW E,
         Hung(d, N, depth, n, s, D), Hung(d, N, depth, c, t, E)
  PROVE  Hung(d, N, depth, n, s \o t, D \cup {c})
<1> DEFINE u == s \o t
           a == Len(s)
           b == Len(t)
           P == ParentNode(d)
<1>1. /\ s \in Seq(N) /\ a >= 1 /\ s[1] = n /\ t \in Seq(N) /\ b >= 1 /\ t[1] = c
      /\ a \in Nat /\ b \in Nat /\ OneEach(s) /\ OneEach(t)
  BY DEF Hung
<1>2. \A k \in 1 .. a, m \in 1 .. b : s[k] # t[m]
  BY SubtreesShareNothing
<1>3. u \in Seq(N) /\ IsConcat(u, s, t)
  BY <1>1, ConcatParts
<1>4. /\ \A k \in 2 .. a : /\ depth[n] < depth[s[k]] /\ \E m \in 1 .. k - 1 : s[m] = P[s[k]]
                           /\ P[s[k]] = n => s[k] \in D
      /\ \A k \in 2 .. b : depth[c] < depth[t[k]] /\ \E m \in 1 .. k - 1 : t[m] = P[t[k]]
  BY DEF Hung
<1>5. depth[n] \in Int /\ depth[c] \in Int /\ depth[n] < depth[c] /\ P[c] = n
      /\ \A k \in 1 .. b : depth[t[k]] \in Int
  <2>1. \A k \in 1 .. b : t[k] \in N
    BY <1>1
  <2> QED BY <2>1, DepthsAreNumbers
<1> HIDE DEF u, P
<1>6. /\ Len(u) = a + b
      /\ \A k \in 1 .. a : k \in 1 .. Len(u) /\ u[k] = s[k]
      /\ \A k \in 1 .. b : a + k \in 1 .. Len(u) /\ u[a + k] = t[k]
      /\ \A k \in 1 .. Len(u) : k \in 1 .. a \/ \E j \in 1 .. b : k = a + j
  BY <1>3 DEF IsConcat
<1> HIDE DEF a, b
<1>7. Len(u) >= 1 /\ u[1] = n
  <2>1. 1 \in 1 .. a
    BY <1>1
  <2> QED BY <1>1, <1>6, <2>1
<1>8. OneEach(u)
  <2> SUFFICES ASSUME NEW k \in 1 .. Len(u), NEW m \in 1 .. Len(u), u[k] = u[m] PROVE k = m
    BY DEF OneEach
  <2>1. CASE k \in 1 .. a /\ m \in 1 .. a
    BY <1>1, <1>6, <2>1 DEF OneEach, a
  <2>2. ASSUME NEW j \in 1 .. b, NEW l \in 1 .. b, k = a + j, m = a + l PROVE k = m
    <3>1. t[j] = t[l]
      BY <1>6, <2>2
    <3> QED BY <1>1, <2>2, <3>1 DEF OneEach, b
  <2>3. ASSUME NEW j \in 1 .. b, k \in 1 .. a, m = a + j PROVE FALSE
    <3>1. s[k] = t[j]
      BY <1>6, <2>3
    <3> QED BY <1>2, <2>3, <3>1
  <2>4. ASSUME NEW j \in 1 .. b, m \in 1 .. a, k = a + j PROVE FALSE
    <3>1. s[m] = t[j]
      BY <1>6, <2>4
    <3> QED BY <1>2, <2>4, <3>1
  <2> QED BY <1>6, <2>1, <2>2, <2>3, <2>4
<1>9. ASSUME NEW k \in 2 .. Len(u)
      PROVE  /\ depth[n] < depth[u[k]]
             /\ \E m \in 1 .. k - 1 : u[m] = P[u[k]]
             /\ P[u[k]] = n => u[k] \in D \cup {c}
  <2>1. CASE k \in 1 .. a
    <3>1. k \in 2 .. a
      BY <1>1, <2>1
    <3>2. u[k] = s[k]
      BY <1>6, <2>1
    <3>3. depth[n] < depth[s[k]] /\ (P[s[k]] = n => s[k] \in D)
      BY <1>4, <3>1
    <3>4. PICK m \in 1 .. k - 1 : s[m] = P[s[k]]
      BY <1>4, <3>1
    <3>5. m \in 1 .. a
      BY <1>1, <2>1, <3>4
    <3>6. u[m] = P[u[k]]
      BY <1>6, <3>2, <3>4, <3>5
    <3> QED BY <3>2, <3>3, <3>6
  <2>2. ASSUME NEW j \in 1 .. b, k = a + j
        PROVE  /\ depth[n] < depth[u[k]]
               /\ \E m \in 1 .. k - 1 : u[m] = P[u[k]]
               /\ P[u[k]] = n => u[k] \in D \cup {c}
    <3>1. u[k] = t[j]
      BY <1>6, <2>2
    <3>2. CASE j = 1
      <4>1. 1 \in 1 .. k - 1 /\ u[1] = n /\ u[k] = c
        BY <1>1, <1>7, <2>2, <3>1, <3>2
      <4> QED BY <1>5, <4>1
    <3>3. CASE j # 1
      <4>1. j \in 2 .. b
        BY <1>1, <3>3
      <4>2. PICK m \in 1 .. j - 1 : t[m] = P[t[j]]
        BY <1>4, <4>1
      <4>3. m \in 1 .. b /\ a + m \in 1 .. k - 1
        BY <1>1, <2>2, <4>1, <4>2
      <4>4. u[a + m] = P[u[k]]
        BY <1>6, <3>1, <4>2, <4>3
      <4>5. depth[n] < depth[u[k]]
        <5>1. depth[c] < depth[t[j]] /\ depth[t[j]] \in Int
          BY <1>4, <1>5, <4>1
        <5> QED BY <1>5, <3>1, <5>1
      <4>6. P[u[k]] # n
        <5>1. t[m] # s[1]
          <6>1. 1 \in 1 .. a
            BY <1>1
          <6> QED BY <1>2, <4>3, <6>1
        <5> QED BY <1>1, <3>1, <4>2, <5>1
      <4> QED BY <4>3, <4>4, <4>5, <4>6
    <3> QED BY <3>2, <3>3
  <2>3. k \in 1 .. Len(u)
    BY <1>1, <1>6
  <2> QED BY <1>6, <2>1, <2>2, <2>3
<1>10. Hung(d, N, depth, n, u, D \cup {c})
  BY <1>3, <1>7, <1>8, <1>9 DEF Hung, P
<1> QED BY <1>10 DEF u

\* What f has for the children of a node.
OfNodes(f, d, n) == [k \in DOMAIN ChildrenOf(d, n) |-> f[ChildrenOf(d, n)[k]]]

\* ImportNode, for all nodes.
Imported(f, d) == f = [n \in Nodes(d) |-> <<n>> \o FlattenSeq(OfNodes(f, d, n))]

LEMMA OnlyTheNode ==
  ASSUME NEW d, NEW N, NEW depth, NEW n \in N
  PROVE  Hung(d, N, depth, n, <<n>>, {})
<1> DEFINE s == <<n>>
<1>1. s \in Seq(N) /\ Len(s) = 1 /\ s[1] = n
  OBVIOUS
<1> HIDE DEF s
<1>2. (\A k \in 2 .. 1 : FALSE) /\ \A k \in 1 .. 1 : k = 1
  OBVIOUS
<1>3. Hung(d, N, depth, n, s, {})
  BY <1>1, <1>2 DEF Hung, OneEach
<1> QED BY <1>3 DEF s

LEMMA ChildrenHung ==
  ASSUME NEW d, NEW N, NEW depth, Forest(d, N, depth), NEW n \in N, NEW f,
         \A k \in 1 .. Len(ChildrenOf(d, n)) :
            \E E : Hung(d, N, depth, ChildrenOf(d, n)[k], f[ChildrenOf(d, n)[k]], E)
  PROVE  \E D : Hung(d, N, depth, n, <<n>> \o FlattenSeq(OfNodes(f, d, n)), D)
<1> DEFINE kids == ChildrenOf(d, n)
           L == Len(kids)
           subs == OfNodes(f, d, n)
           D(k) == {kids[m] : m \in 1 .. k}
<1>1. /\ kids \in Seq(N) /\ L \in Nat /\ DOMAIN kids = 1 .. L
      /\ \A k \in 1 .. L : kids[k] \in N /\ depth[n] < depth[kids[k]] /\ ParentNode(d)[kids[k]] = n
      /\ \A k, m \in 1 .. L : kids[m] = kids[k] => m = k
  <2>1. kids \in Seq(N)
    BY DEF Forest
  <2>2. /\ \A k \in 1 .. L : depth[n] < depth[kids[k]] /\ ParentNode(d)[kids[k]] = n
        /\ \A k, m \in 1 .. L : kids[m] = kids[k] => m = k
    BY DEF Forest
  <2> HIDE DEF kids
  <2> QED BY <2>1, <2>2
<1>2. \A k \in 1 .. L : f[kids[k]] \in Seq(N)
  BY DEF Hung
<1>3. subs = [k \in 1 .. L |-> f[kids[k]]]
  BY <1>1 DEF OfNodes
<1>4. \A k \in 1 .. L : \E E : Hung(d, N, depth, kids[k], f[kids[k]], E)
  OBVIOUS
<1> HIDE DEF kids, L, subs
<1>5. subs \in Seq(Seq(N)) /\ Len(subs) = L /\ \A k \in 1 .. L : subs[k] = f[kids[k]]
  <2> DEFINE W == Seq(N)
  <2>1. subs \in [1 .. L -> W] /\ \A k \in 1 .. L : subs[k] = f[kids[k]]
    BY <1>2, <1>3
  <2> HIDE DEF W
  <2>2. subs \in Seq(W) /\ Len(subs) = L
    BY <1>1, <2>1
  <2> QED BY <2>1, <2>2 DEF W
<1>6. PICK g : Gathers(g, subs, N) /\ FlattenSeq(subs) = g[Len(subs)]
  BY <1>5, FlattenIs
<1>7. g \in [0 .. L -> Seq(N)] /\ g[0] = <<>> /\ \A k \in 1 .. L : g[k] = g[k - 1] \o subs[k]
  BY <1>5, <1>6 DEF Gathers
<1>8. <<n>> \in Seq(N)
  OBVIOUS
<1> DEFINE S == {k \in 0 .. L : Hung(d, N, depth, n, <<n>> \o g[k], D(k))}
<1>9. 0 \in S
  <2>1. <<n>> \o g[0] = <<n>>
    BY <1>7, <1>8, ConcatEmptySeq
  <2>2. D(0) = {}
    OBVIOUS
  <2>3. Hung(d, N, depth, n, <<n>> \o g[0], D(0))
    BY <2>1, <2>2, OnlyTheNode
  <2> QED BY <1>1, <2>3
<1>10. ASSUME NEW k \in 1 .. L, k - 1 \in S PROVE k \in S
  <2> DEFINE c == kids[k]
             t == <<n>> \o g[k - 1]
  <2>1. k - 1 \in 0 .. L /\ k \in 0 .. L /\ k \in Nat
    BY <1>1
  <2>2. c \in N /\ depth[n] < depth[c] /\ ParentNode(d)[c] = n
    BY <1>1
  <2>3. PICK E : Hung(d, N, depth, c, f[c], E)
    BY <1>4
  <2>4. c \notin D(k - 1)
    <3> SUFFICES ASSUME NEW m \in 1 .. k - 1, kids[m] = kids[k] PROVE FALSE
      OBVIOUS
    <3>1. m \in 1 .. L /\ m # k
      BY <1>1
    <3> QED BY <1>1, <3>1
  <2>5. D(k) = D(k - 1) \cup {c}
    <3>1. \A m : m \in 1 .. k <=> m \in 1 .. k - 1 \/ m = k
      BY <2>1
    <3> QED BY <3>1
  <2>6. Hung(d, N, depth, n, t, D(k - 1))
    BY <1>10
  <2>7. <<n>> \o g[k] = t \o f[c]
    <3>1. g[k] = g[k - 1] \o f[c] /\ g[k - 1] \in Seq(N) /\ f[c] \in Seq(N)
      BY <1>2, <1>5, <1>7, <2>1
    <3>2. \A x, y, z \in Seq(N) : x \o (y \o z) = (x \o y) \o z
      BY Regrouped
    <3>3. <<n>> \o (g[k - 1] \o f[c]) = (<<n>> \o g[k - 1]) \o f[c]
      BY ONLY <1>8, <3>1, <3>2
    <3> QED BY <3>1, <3>3
  <2> HIDE DEF c, t, D
  <2>8. Hung(d, N, depth, n, t \o f[c], D(k - 1) \cup {c})
    BY <2>2, <2>3, <2>4, <2>6, HungAppended
  <2> QED BY <2>1, <2>5, <2>7, <2>8
<1>11. \A k \in 1 .. L : k - 1 \in S => k \in S
  BY <1>10
<1> HIDE DEF S, D
<1>12. 0 .. L \subseteq S
  BY <1>1, <1>9, <1>11, ByNumber
<1>13. Hung(d, N, depth, n, <<n>> \o g[L], D(L))
  BY <1>1, <1>12 DEF S
<1> QED BY <1>5, <1>6, <1>13 DEF subs

LEMMA ImportedExists ==
  ASSUME NEW d, NEW N, NEW depth, Forest(d, N, depth)
  PROVE  \E f : Imported(f, d)
<1> DEFINE V == Seq(N)
           L == Len(d.nodes)
           h == [n \in N |-> L - depth[n]]
           step == [x \in N \X [N -> V] |-> <<x[1]>> \o FlattenSeq(OfNodes(x[2], d, x[1]))]
<1>1. L \in Nat /\ N = 1 .. L /\ depth \in [N -> N] /\ Nodes(d) = N
  BY DEF Forest
<1>2. \A n \in N : ChildrenOf(d, n) \in Seq(N) /\ \A k \in DOMAIN ChildrenOf(d, n) :
         ChildrenOf(d, n)[k] \in N /\ depth[n] < depth[ChildrenOf(d, n)[k]]
  <2>1. \A n \in N : ChildrenOf(d, n) \in Seq(N) /\ \A k \in 1 .. Len(ChildrenOf(d, n)) :
           depth[n] < depth[ChildrenOf(d, n)[k]]
    BY DEF Forest
  <2> SUFFICES ASSUME NEW n \in N
               PROVE  /\ ChildrenOf(d, n) \in Seq(N)
                      /\ \A k \in DOMAIN ChildrenOf(d, n) :
                           ChildrenOf(d, n)[k] \in N /\ depth[n] < depth[ChildrenOf(d, n)[k]]
    OBVIOUS
  <2> DEFINE kids == ChildrenOf(d, n)
  <2>2. kids \in Seq(N) /\ \A k \in 1 .. Len(kids) : depth[n] < depth[kids[k]]
    BY <2>1
  <2> HIDE DEF kids
  <2>3. DOMAIN kids = 1 .. Len(kids) /\ \A k \in 1 .. Len(kids) : kids[k] \in N
    BY <2>2
  <2>4. \A k \in DOMAIN kids : kids[k] \in N /\ depth[n] < depth[kids[k]]
    BY <2>2, <2>3
  <2> QED BY <2>2, <2>4 DEF kids
<1>3. V # {}
  <2>1. <<>> \in V
    OBVIOUS
  <2> QED BY <2>1
<1>4. h \in [N -> 0 .. L] /\ \A n \in N : h[n] = L - depth[n] /\ depth[n] \in 1 .. L
  BY <1>1
<1>5. \A n \in N, f \in [N -> V] : <<n>> \o FlattenSeq(OfNodes(f, d, n)) \in V
  <2> SUFFICES ASSUME NEW n \in N, NEW f \in [N -> V] PROVE <<n>> \o FlattenSeq(OfNodes(f, d, n)) \in V
    OBVIOUS
  <2> DEFINE kids == ChildrenOf(d, n)
             subs == OfNodes(f, d, n)
  <2>1. kids \in Seq(N)
    BY <1>2
  <2> HIDE DEF kids, V, L
  <2>2. subs \in [1 .. Len(kids) -> V] /\ Len(kids) \in Nat
    BY <2>1 DEF OfNodes, kids
  <2> HIDE DEF subs
  <2>3. subs \in Seq(V) /\ Len(subs) \in Nat
    BY <2>2
  <2>4. PICK g : Gathers(g, subs, N) /\ FlattenSeq(subs) = g[Len(subs)]
    BY <2>3, FlattenIs DEF V
  <2>5. FlattenSeq(subs) \in V
    <3>1. g \in [0 .. Len(subs) -> Seq(N)]
      BY <2>4 DEF Gathers
    <3>2. Len(subs) \in 0 .. Len(subs)
      BY <2>3
    <3>3. g[Len(subs)] \in Seq(N)
      BY <3>1, <3>2
    <3> QED BY <2>4, <3>3 DEF V
  <2>6. <<n>> \in Seq(N)
    OBVIOUS
  <2> QED BY <2>5, <2>6 DEF V, subs
<1>6. \A n \in N, f \in [N -> V] : step[<<n, f>>] = <<n>> \o FlattenSeq(OfNodes(f, d, n))
  OBVIOUS
<1>7. step \in [N \X [N -> V] -> V]
  <2> SUFFICES ASSUME NEW n \in N, NEW f \in [N -> V] PROVE <<n>> \o FlattenSeq(OfNodes(f, d, n)) \in V
    OBVIOUS
  <2> QED BY <1>5
<1> HIDE DEF step, h
<1>8. ASSUME NEW n \in N, NEW f \in [N -> V], NEW g \in [N -> V], \A y \in N : h[y] < h[n] => f[y] = g[y]
      PROVE  step[<<n, f>>] = step[<<n, g>>]
  <2>1. \A k \in DOMAIN ChildrenOf(d, n) : f[ChildrenOf(d, n)[k]] = g[ChildrenOf(d, n)[k]]
    <3> SUFFICES ASSUME NEW k \in DOMAIN ChildrenOf(d, n)
                 PROVE  f[ChildrenOf(d, n)[k]] = g[ChildrenOf(d, n)[k]]
      OBVIOUS
    <3> DEFINE c == ChildrenOf(d, n)[k]
    <3>1. c \in N /\ depth[n] < depth[c]
      BY <1>2
    <3> HIDE DEF c, L
    <3>2. h[c] < h[n]
      BY <1>1, <1>4, <3>1
    <3>3. f[c] = g[c]
      BY <1>8, <3>1, <3>2
    <3> QED BY <3>3 DEF c
  <2>2. OfNodes(f, d, n) = OfNodes(g, d, n)
    BY <2>1 DEF OfNodes
  <2> QED BY <1>6, <2>2
<1>9. LooksDown(step, N, h, L, V)
  BY <1>1, <1>3, <1>4, <1>7, <1>8 DEF LooksDown
<1>10. PICK f \in [N -> V] : \A n \in N : f[n] = step[<<n, f>>]
  <2> HIDE DEF V, L
  <2> QED BY <1>9, RecursionEnds
<1>11. f = [n \in N |-> <<n>> \o FlattenSeq(OfNodes(f, d, n))]
  <2>1. \A n \in N : f[n] = <<n>> \o FlattenSeq(OfNodes(f, d, n))
    BY <1>6, <1>10
  <2>2. f = [n \in N |-> f[n]]
    OBVIOUS
  <2> QED BY <2>1, <2>2
<1> QED BY <1>1, <1>11 DEF Imported

LEMMA BelowNodeIs ==
  ASSUME NEW d, NEW N, NEW depth, Forest(d, N, depth)
  PROVE  \A n \in N : \E D : Hung(d, N, depth, n, BelowNode(d)[n], D)
<1> DEFINE f == CHOOSE f : Imported(f, d)
           L == Len(d.nodes)
           h == [n \in N |-> L - depth[n]]
           S == {n \in N : \E D : Hung(d, N, depth, n, f[n], D)}
<1>1. Imported(f, d)
  BY ImportedExists
<1>2. BelowNode(d) = f
  BY DEF BelowNode, Imported, OfNodes
<1> HIDE DEF f
<1>3. L \in Nat /\ N = 1 .. L /\ depth \in [N -> N] /\ Nodes(d) = N
  BY DEF Forest
<1>4. \A n \in N : f[n] = <<n>> \o FlattenSeq(OfNodes(f, d, n))
  BY <1>1, <1>3 DEF Imported
<1>5. h \in [N -> Nat] /\ \A n \in N : h[n] = L - depth[n] /\ depth[n] \in 1 .. L
  BY <1>3
<1> HIDE DEF h
<1>6. ASSUME NEW n \in N, \A y \in N : h[y] < h[n] => y \in S PROVE n \in S
  <2>1. ASSUME NEW k \in 1 .. Len(ChildrenOf(d, n)) PROVE ChildrenOf(d, n)[k] \in S
    <3> DEFINE c == ChildrenOf(d, n)[k]
    <3>1. c \in N /\ depth[n] < depth[c]
      <4>1. ChildrenOf(d, n) \in Seq(N)
        BY DEF Forest
      <4>2. c \in N
        BY <4>1
      <4> QED BY <4>2 DEF Forest
    <3> HIDE DEF c, L
    <3>2. h[c] < h[n]
      BY <1>3, <1>5, <3>1
    <3>3. c \in S
      BY <1>6, <3>1, <3>2
    <3> QED BY <3>3 DEF c
  <2>2. \E D : Hung(d, N, depth, n, <<n>> \o FlattenSeq(OfNodes(f, d, n)), D)
    <3>1. \A k \in 1 .. Len(ChildrenOf(d, n)) :
             \E E : Hung(d, N, depth, ChildrenOf(d, n)[k], f[ChildrenOf(d, n)[k]], E)
      BY <2>1
    <3> QED BY <3>1, ChildrenHung
  <2> QED BY <1>4, <2>2
<1>7. \A n \in N : (\A y \in N : h[y] < h[n] => y \in S) => n \in S
  BY <1>6
<1> HIDE DEF S
<1>8. N \subseteq S
  BY <1>5, <1>7, ByHeight
<1> QED BY <1>2, <1>8 DEF S

-----------------------------------------------------------------------------
(* The imported skeleton.                                                  *)

NamedJoint(d) == [name : {NameOf(d, n) : n \in Nodes(d)}, parent : Int]

\* A list of joints that names nodes and parents before their children.
ListsJoints(d, listed) == listed \in Seq(NamedJoint(d)) /\ ParentsFirst(listed)

LEMMA RootAdded ==
  ASSUME NEW d, IsDocument(d), NEW listed, ListsJoints(d, listed), NEW n \in Nodes(d)
  PROVE  ListsJoints(d, AddRoot(d, listed, n))
<1> DEFINE N == Nodes(d)
           P == ParentNode(d)
           below == BelowNode(d)[n]
           a == Len(listed)
           b == Len(below)
           Up(k) == IF k = 1 THEN NoParent ELSE a + PlaceIn(below, P[below[k]])
           joints == [k \in DOMAIN below |-> [name |-> NameOf(d, below[k]), parent |-> Up(k)]]
           u == listed \o joints
           J == NamedJoint(d)
<1>1. PICK depth : Forest(d, N, depth)
  BY DocumentsAreForests
<1>2. PICK D : Hung(d, N, depth, n, below, D)
  BY <1>1, BelowNodeIs
<1>3. /\ below \in Seq(N) /\ OneEach(below) /\ b \in Nat /\ DOMAIN below = 1 .. b
      /\ \A k \in 2 .. b : \E m \in 1 .. k - 1 : below[m] = P[below[k]]
      /\ \A k \in 1 .. b : below[k] \in N
  <2> HIDE DEF N, P, below
  <2>1. below \in Seq(N) /\ OneEach(below) /\ \A k \in 2 .. b : \E m \in 1 .. k - 1 : below[m] = P[below[k]]
    BY <1>2 DEF Hung, P
  <2> QED BY <2>1
<1>4. listed \in Seq(J) /\ a \in Nat /\ \A k \in Indices(listed) : ParentOf(listed, k) \in NoParent .. k - 1
  BY DEF ListsJoints, ParentsFirst
<1>5. AddRoot(d, listed, n) = u
  BY DEF AddRoot
<1> HIDE DEF N, P, below
<1>6. ASSUME NEW k \in 1 .. b PROVE Up(k) \in NoParent .. a + k - 2 /\ Up(k) \in Int
  <2>1. CASE k = 1
    <3>1. Up(k) = NoParent
      BY <2>1
    <3> QED BY <1>4, <2>1, <3>1 DEF NoParent
  <2>2. CASE k # 1
    <3>1. k \in 2 .. b
      BY <1>3, <2>2
    <3>2. PICK m \in 1 .. k - 1 : below[m] = P[below[k]]
      BY <1>3, <3>1
    <3>3. m \in 1 .. b
      BY <1>3, <3>1, <3>2
    <3>4. PlaceIn(below, below[m]) = m - 1
      BY <1>3, <3>3, PlaceIs
    <3>5. Up(k) = a + (m - 1)
      BY <2>2, <3>2, <3>4
    <3> HIDE DEF Up
    <3> QED BY <1>4, <3>1, <3>2, <3>5 DEF NoParent
  <2> QED BY <2>1, <2>2
<1> HIDE DEF Up
<1>7. joints \in [1 .. b -> J]
  <2>1. \A k \in 1 .. b : NameOf(d, below[k]) \in {NameOf(d, q) : q \in Nodes(d)}
    BY <1>3 DEF N
  <2> QED BY <1>3, <1>6, <2>1 DEF NamedJoint
<1>8. \A k \in 1 .. b : joints[k].parent = Up(k)
  BY <1>3
<1> HIDE DEF joints, J, a, b
<1>9. joints \in Seq(J) /\ Len(joints) = b
  BY <1>3, <1>7
<1>10. u \in Seq(J) /\ IsConcat(u, listed, joints)
  BY <1>4, <1>9, ConcatParts
<1> HIDE DEF u
<1>11. /\ Len(u) = a + b
       /\ \A k \in 1 .. a : u[k] = listed[k]
       /\ \A k \in 1 .. b : u[a + k] = joints[k]
       /\ \A k \in 1 .. Len(u) : k \in 1 .. a \/ \E j \in 1 .. b : k = a + j
  BY <1>9, <1>10 DEF IsConcat, a
<1>12. ASSUME NEW k \in Indices(u) PROVE ParentOf(u, k) \in NoParent .. k - 1
  <2>1. k \in 0 .. (a + b) - 1 /\ k \in Int /\ k + 1 \in 1 .. Len(u)
    BY <1>3, <1>4, <1>11 DEF Indices
  <2>2. CASE k + 1 \in 1 .. a
    <3>1. k \in Indices(listed) /\ u[k + 1] = listed[k + 1]
      BY <1>4, <1>11, <2>1, <2>2 DEF Indices, a
    <3> QED BY <1>4, <3>1 DEF ParentOf
  <2>3. ASSUME NEW j \in 1 .. b, k + 1 = a + j PROVE ParentOf(u, k) \in NoParent .. k - 1
    <3>1. ParentOf(u, k) = Up(j)
      BY <1>8, <1>11, <2>3 DEF ParentOf
    <3>2. a + j - 2 = k - 1
      BY <1>3, <1>4, <2>1, <2>3
    <3> QED BY <1>6, <3>1, <3>2
  <2> QED BY <1>11, <2>1, <2>2, <2>3
<1>13. ListsJoints(d, u)
  <2>1. Len(u) \in Nat
    BY <1>3, <1>4, <1>11
  <2> QED BY <1>10, <1>12, <2>1 DEF ListsJoints, ParentsFirst, J
<1> QED BY <1>5, <1>13

\* Import, node by node.
ListedAt(d, n, listed) == IF n \in Roots(d) THEN AddRoot(d, listed, n) ELSE listed

ListsRoots(f, d) == f = [n \in 0 .. Len(d.nodes) |-> IF n = 0 THEN <<>> ELSE ListedAt(d, n, f[n - 1])]

LEMMA SkeletonsListJoints ==
  ASSUME NEW d, IsDocument(d)
  PROVE  ListsJoints(d, ImportedSkeleton(d))
<1> DEFINE L == Len(d.nodes)
           V == {listed \in Seq(NamedJoint(d)) : ListsJoints(d, listed)}
           step == [x \in (1 .. L) \X V |-> ListedAt(d, x[1], x[2])]
           f == CHOOSE f : ListsRoots(f, d)
           S == {n \in 0 .. L : f[n] \in V}
<1>1. L \in Nat /\ Nodes(d) = 1 .. L
  <2>1. PICK depth : Forest(d, Nodes(d), depth)
    BY DocumentsAreForests
  <2> QED BY <2>1 DEF Forest
<1>2. <<>> \in V
  <2> DEFINE none == <<>>
             J == NamedJoint(d)
  <2> HIDE DEF J
  <2>1. none \in Seq(J) /\ Len(none) = 0
    OBVIOUS
  <2> HIDE DEF none
  <2>2. ParentsFirst(none)
    BY <2>1 DEF ParentsFirst, Indices
  <2> QED BY <2>1, <2>2 DEF ListsJoints, none, J
<1>3. \A n \in 1 .. L, listed \in V : ListedAt(d, n, listed) \in V
  <2> SUFFICES ASSUME NEW n \in 1 .. L, NEW listed \in V PROVE ListedAt(d, n, listed) \in V
    OBVIOUS
  <2>1. ListsJoints(d, AddRoot(d, listed, n))
    BY <1>1, RootAdded
  <2> QED BY <2>1 DEF ListedAt, ListsJoints
<1> HIDE DEF V, L
<1>4. step \in [(1 .. L) \X V -> V]
  <2> SUFFICES ASSUME NEW x \in (1 .. L) \X V PROVE ListedAt(d, x[1], x[2]) \in V
    OBVIOUS
  <2> QED BY <1>3
<1>5. \A n \in 1 .. L, listed \in V : step[<<n, listed>>] = ListedAt(d, n, listed)
  <2>1. \A n \in 1 .. L, listed \in V : <<n, listed>> \in (1 .. L) \X V
    OBVIOUS
  <2> QED BY <2>1
<1> HIDE DEF step
<1>6. PICK g : GoesOn(g, L, V, <<>>, step)
  BY <1>1, <1>2, <1>4, CountedRecursion
<1>7. g \in [0 .. L -> V] /\ g = [n \in 0 .. L |-> IF n = 0 THEN <<>> ELSE step[<<n, g[n - 1]>>]]
  BY <1>6 DEF GoesOn
<1>8. \A n \in 0 .. L : n # 0 => n \in 1 .. L /\ n - 1 \in 0 .. L
  BY <1>1
<1>9. \A n \in 0 .. L : n # 0 => step[<<n, g[n - 1]>>] = ListedAt(d, n, g[n - 1])
  BY <1>5, <1>7, <1>8
<1>10. g = [n \in 0 .. L |-> IF n = 0 THEN <<>> ELSE ListedAt(d, n, g[n - 1])]
  BY <1>7, <1>9
<1>11. ListsRoots(f, d)
  <2>1. ListsRoots(g, d)
    BY <1>10 DEF ListsRoots, L
  <2> QED BY <2>1
<1>12. ImportedSkeleton(d) = f[L]
  BY DEF ImportedSkeleton, ListsRoots, ListedAt, L
<1> HIDE DEF f
<1>13. f = [n \in 0 .. L |-> IF n = 0 THEN <<>> ELSE ListedAt(d, n, f[n - 1])]
  BY <1>11 DEF ListsRoots, L
<1>14. 0 \in S
  BY <1>1, <1>2, <1>13
<1>15. \A n \in 1 .. L : n - 1 \in S => n \in S
  <2> SUFFICES ASSUME NEW n \in 1 .. L, n - 1 \in S PROVE n \in S
    OBVIOUS
  <2>1. n \in 0 .. L /\ n # 0 /\ f[n - 1] \in V
    BY <1>1
  <2>2. f[n] = ListedAt(d, n, f[n - 1])
    BY <1>13, <2>1
  <2> QED BY <1>3, <2>1, <2>2
<1> HIDE DEF S
<1>16. 0 .. L \subseteq S
  BY <1>1, <1>14, <1>15, ByNumber
<1>17. L \in S
  BY <1>1, <1>16
<1> QED BY <1>12, <1>17 DEF S, V

LEMMA JointsAreNumbered ==
  ASSUME IsDocument(document)
  PROVE  IsFiniteSet(DOMAIN JointNames) /\ DOMAIN JointNames = 0 .. Cardinality(DOMAIN JointNames) - 1
<1> DEFINE flat == ImportedSkeleton(document)
           listed == Flatten(flat)
           twice == Flatten(listed)
<1>1. ParentsFirst(flat)
  BY SkeletonsListJoints DEF ListsJoints
<1> HIDE DEF flat
<1>2. PICK at : Arranges(flat, at) /\ Arranged(listed, flat, at)
  BY <1>1, FlattenArranges
<1> HIDE DEF listed
<1>3. ParentsFirst(listed)
  BY <1>1, <1>2, ArrangedBasics
<1>4. PICK to : Arranges(listed, to) /\ Arranged(twice, listed, to)
  BY <1>3, FlattenArranges
<1>5. Len(twice) \in Nat
  BY <1>3, <1>4, ArrangedBasics DEF ParentsFirst
<1>6. DOMAIN JointNames = 0 .. Len(twice) - 1
  BY DEF JointNames, Built, Indices, listed, flat
<1> HIDE DEF twice
<1>7. IsFiniteSet(0 .. Len(twice) - 1) /\ Cardinality(0 .. Len(twice) - 1) = Len(twice)
  <2> DEFINE n == Len(twice)
  <2>1. n \in Nat /\ 0 \in Int /\ n - 1 \in Int
    BY <1>5
  <2> HIDE DEF n
  <2>2. Cardinality(0 .. n - 1) = n
    BY <2>1, FirstNumbers
  <2>3. IsFiniteSet(0 .. n - 1)
    BY <2>1, FS_Interval
  <2> QED BY <2>2, <2>3 DEF n
<1> QED BY <1>6, <1>7

\* Some of finitely many numbers are at most one of them.
LEMMA GreatestOfList ==
  ASSUME NEW n \in Nat, NEW c, \A k \in 1 .. n : c[k] \in Int,
         NEW T, T # {}, T \subseteq {0} \cup {c[k] : k \in 1 .. n}
  PROVE  Max(T) \in T /\ Max(T) \in Int
<1> DEFINE S == {m \in 0 .. n : \E B \in Int : B >= 0 /\ \A k \in 1 .. m : c[k] <= B}
<1>1. 0 \in S
  OBVIOUS
<1>2. \A m \in 1 .. n : m - 1 \in S => m \in S
  <2> SUFFICES ASSUME NEW m \in 1 .. n, m - 1 \in S PROVE m \in S
    OBVIOUS
  <2>1. PICK B \in Int : B >= 0 /\ \A k \in 1 .. m - 1 : c[k] <= B
    OBVIOUS
  <2> DEFINE C == IF c[m] <= B THEN B ELSE c[m]
  <2>2. C \in Int /\ B <= C /\ c[m] <= C
    BY <2>1
  <2> HIDE DEF C
  <2>3. \A k \in 1 .. m : c[k] <= C
    <3> SUFFICES ASSUME NEW k \in 1 .. m PROVE c[k] <= C
      OBVIOUS
    <3>1. c[k] \in Int
      OBVIOUS
    <3>2. k = m \/ k \in 1 .. m - 1
      OBVIOUS
    <3> QED BY <2>1, <2>2, <3>1, <3>2
  <2>4. C >= 0 /\ m \in 0 .. n
    BY <2>1, <2>2
  <2> QED BY <2>2, <2>3, <2>4
<1> HIDE DEF S
<1>3. 0 .. n \subseteq S
  BY <1>1, <1>2, ByNumber
<1>4. PICK B \in Int : B >= 0 /\ \A k \in 1 .. n : c[k] <= B
  <2>1. n \in S
    BY <1>3
  <2> QED BY <2>1 DEF S
<1>5. \A x \in T : x \in Int /\ x <= B
  BY <1>4
<1> DEFINE R == {B - x : x \in T}
<1>6. R \subseteq Nat /\ R # {}
  <2>1. \A x \in T : B - x \in Nat
    BY <1>5
  <2> QED BY <2>1
<1> HIDE DEF R
<1>7. PICK r \in R : \A q \in R : r <= q
  BY <1>6, LeastNatural
<1>8. PICK x \in T : r = B - x
  BY <1>7 DEF R
<1>9. \A y \in T : y <= x
  <2> SUFFICES ASSUME NEW y \in T PROVE y <= x
    OBVIOUS
  <2>1. B - x <= B - y
    BY <1>7, <1>8 DEF R
  <2> QED BY <1>5, <2>1
<1>10. Max(T) \in T
  BY <1>9 DEF Max
<1> QED BY <1>5, <1>10

\* What is imported is a raw animation.
LEMMA ImportsAreRaw ==
  ASSUME IsDocument(document), NEW period \in Periods, Imports(period)
  PROVE  IsRaw(TimesOf(ImportedAnimation(document, JointNames, period)))
<1> DEFINE names == JointNames
           joints == DOMAIN names
           lengths == UNION {{ch.max : ch \in ChannelsOf(document, names[j])} : j \in joints}
           imported == ImportedAnimation(document, names, period)
           K == Len(document.channels)
           Track(j, path) == TrackOf(document, names[j], path, period)
           tracks == [j \in joints |-> [path \in Paths |-> [k \in DOMAIN Track(j, path) |-> Track(j, path)[k].time]]]
<1>1. period \in Nat \ {0} /\ Paths = 1 .. Channels
  BY BuilderAssumption
<1>2. K \in Nat /\ DOMAIN document.channels = 1 .. K
      /\ \A k \in 1 .. K : document.channels[k].times \in Seq(Int) /\ document.channels[k].max \in Int
  <2>1. document.channels \in Seq(ToSet(document.channels))
    BY DEF IsDocument
  <2>2. K \in Nat /\ DOMAIN document.channels = 1 .. K
    BY <2>1
  <2>3. \A ch \in ToSet(document.channels) : ch.times \in Seq(Int) /\ ch.max \in Int
    BY DEF IsDocument
  <2> QED BY <2>2, <2>3 DEF ToSet
<1>3. \A j \in joints : \A ch \in ChannelsOf(document, names[j]) :
         \E k \in 1 .. K : ch = document.channels[k]
  <2>1. \A j \in joints : ChannelsOf(document, names[j]) \subseteq ToSet(document.channels)
    BY DEF ChannelsOf
  <2> QED BY <1>2, <2>1 DEF ToSet
<1>4. \A j \in joints : \A ch \in ChannelsOf(document, names[j]) : Samples(ch, period)
  BY DEF Imports, ImportsChannels
<1>5. IsFiniteSet(joints) /\ joints = 0 .. Cardinality(joints) - 1
  BY JointsAreNumbered
<1>6. /\ imported.duration = Max({0} \cup lengths)
      /\ imported.tracks = [j \in joints |-> [path \in Paths |-> Track(j, path)]]
  BY DEF ImportedAnimation
<1> HIDE DEF names, joints, K
<1>7. Max({0} \cup lengths) \in Int
  <2> DEFINE c == [k \in 1 .. K |-> document.channels[k].max]
             T == {0} \cup lengths
  <2>1. \A k \in 1 .. K : c[k] \in Int
    BY <1>2
  <2>2. T \subseteq {0} \cup {c[k] : k \in 1 .. K} /\ T # {}
    BY <1>3
  <2> HIDE DEF c, T
  <2>3. Max(T) \in Int
    BY <1>2, <2>1, <2>2, GreatestOfList
  <2> QED BY <2>3 DEF T
<1>8. ASSUME NEW j \in joints, NEW path \in Paths
      PROVE  [k \in DOMAIN Track(j, path) |-> Track(j, path)[k].time] \in Seq(Int)
  <2> DEFINE track == Track(j, path)
             times == [k \in DOMAIN track |-> track[k].time]
  <2>1. \A ch \in ChannelsOf(document, names[j]) : ch.times \in Seq(Int) /\ Samples(ch, period)
    BY <1>2, <1>3, <1>4
  <2>2. PICK V : track \in Seq(KeyOf(V))
    BY <1>1, <2>1, TracksHaveTimes
  <2> HIDE DEF track
  <2>3. Len(track) \in Nat /\ DOMAIN track = 1 .. Len(track) /\ \A k \in 1 .. Len(track) : track[k] \in KeyOf(V)
    BY <2>2
  <2>4. \A k \in 1 .. Len(track) : track[k].time \in Int
    BY <2>3 DEF KeyOf
  <2>5. times \in [1 .. Len(track) -> Int]
    BY <2>3, <2>4
  <2> HIDE DEF times
  <2>6. times \in Seq(Int)
    BY <2>3, <2>5
  <2> QED BY <2>6 DEF times, track
<1> HIDE DEF Track
<1>9. tracks \in [joints -> [1 .. Channels -> Seq(Int)]]
  BY <1>1, <1>8
<1> HIDE DEF lengths, imported, tracks
<1>10. TimesOf(imported) = [duration |-> Max({0} \cup lengths), name |-> document.name, tracks |-> tracks]
  <2>1. DOMAIN imported.tracks = joints
    BY <1>6
  <2>2. \A j \in joints : imported.tracks[j] = [path \in Paths |-> Track(j, path)]
    BY <1>6
  <2>3. tracks = [j \in joints |-> [path \in Paths |->
                    LET keys == imported.tracks[j][path]
                    IN  [k \in DOMAIN keys |-> keys[k].time]]]
    <3>1. \A j \in joints, path \in Paths : imported.tracks[j][path] = Track(j, path)
      BY <2>2
    <3> QED BY <3>1 DEF tracks
  <2> QED BY <1>6, <2>1, <2>3 DEF TimesOf
<1>11. DOMAIN tracks = joints
  BY <1>9
<1>12. IsRaw([duration |-> Max({0} \cup lengths), name |-> document.name, tracks |-> tracks])
  <2> DEFINE n == document.name
             m == Max({0} \cup lengths)
             r == [duration |-> m, name |-> n, tracks |-> tracks]
  <2>0. n \in Seq(ToSet(n))
    BY DEF IsDocument
  <2> HIDE DEF m, n
  <2>1. r.duration = m /\ r.tracks = tracks /\ r.name = n
    OBVIOUS
  <2>2. m \in Int
    BY <1>7 DEF m
  <2>3. r = [duration |-> r.duration, name |-> r.name, tracks |-> r.tracks]
    BY <2>1
  <2> HIDE DEF r
  <2>4. IsRaw(r)
    BY <1>5, <1>9, <1>11, <2>0, <2>1, <2>2, <2>3 DEF IsRaw
  <2> QED BY <2>4 DEF r, m, n
<1> QED BY <1>10, <1>12 DEF imported, names

-----------------------------------------------------------------------------
(* The invariant.                                                          *)

\* Where the builder cuts a segment there is a time between its keys.
CutsAreWide ==
    pc = "sort" /\ i < Len(sorted[channel]) /\ TooFar =>
        LET previous == previouses[Key(i).track]
        IN  Key(previous.first).time - Key(previous.second).time >= 2

Unsorted == {"load", "import", "refused", "author"}

\* The last two keys of a track among the first n.
LastTwo(keys, t, n, previous) ==
    /\ LastAt(keys, t, n, previous.first)
    /\ previous.first = -1 => previous.second = -1
    /\ previous.first # -1 => LastAt(keys, t, previous.first, previous.second)

\* What has no bearing on the keys.
Kept ==
    /\ IsRaw(raw)
    /\ edits \in 0 .. MaxEdits /\ divs \in IFrameDivs
    /\ pc \in Unsorted \cup {"sort", "frame", "write", "built", "failed"}
    /\ pc \in {"load", "import"} \/ motion # <<>> => IsDocument(document)
    /\ pc \notin {"load", "import", "refused"} => DOMAIN raw.tracks # {}
    /\ pc # "built" <=> animation = Unbuilt
    /\ pc \in {"write", "built"} <=> streams # <<>>

\* The keys of every channel, and the last two keys of each track before the next one.
Linking ==
    IF pc \in Unsorted THEN sorted = <<>> /\ channel = 1 /\ i = 0
    ELSE /\ Validate(raw)
         /\ DOMAIN sorted = 1 .. Channels /\ channel \in 1 .. Channels
         /\ \A c \in 1 .. Channels : Serves(sorted[c], ChannelOf(c), NumTracks, raw.duration)
         /\ i \in 0 .. Len(sorted[channel])
         /\ previouses \in [0 .. NumTracks - 1 -> [first : Int, second : Int]]
         /\ \A t \in 0 .. NumTracks - 1 : LastTwo(sorted[channel], t, i, previouses[t])

IInv == Kept /\ Linking

LEMMA RawIs ==
  ASSUME IsRaw(raw), Validate(raw)
  PROVE  /\ raw.duration \in Int /\ raw.duration > 0
         /\ NumTracks \in Nat /\ NumTracks <= MaxPreviousOffset
         /\ Cardinality(DOMAIN raw.tracks) <= NumTracks
         /\ IsFiniteSet(DOMAIN raw.tracks)
         /\ \A c \in 1 .. Channels :
               AreValid(ChannelOf(c), raw.duration) /\ DOMAIN ChannelOf(c) = DOMAIN raw.tracks
<1>1. raw.duration \in Int /\ raw.duration > 0 /\ IsFiniteSet(DOMAIN raw.tracks)
  BY DEF IsRaw, Validate
<1>2. Cardinality(DOMAIN raw.tracks) \in Nat /\ Cardinality(DOMAIN raw.tracks) <= MaxJoints
  BY <1>1, FS_CardinalityType DEF Validate
<1>3. /\ NumTracks \in Nat /\ Cardinality(DOMAIN raw.tracks) <= NumTracks
      /\ NumTracks <= AlignedTracks(MaxJoints)
      /\ AlignedTracks(MaxJoints) \in Nat
  BY <1>2, AuthoringAssumption, AlignedIs, AlignedGrows DEF NumTracks
<1>4. NumTracks <= MaxPreviousOffset
  <2>1. MaxPreviousOffset >= AlignedTracks(MaxJoints) /\ MaxPreviousOffset \in Nat
    BY BuilderAssumption
  <2> QED BY <1>3, <2>1
<1>5. ASSUME NEW c \in 1 .. Channels
      PROVE  AreValid(ChannelOf(c), raw.duration) /\ DOMAIN ChannelOf(c) = DOMAIN raw.tracks
  <2>1. ASSUME NEW t \in DOMAIN raw.tracks
        PROVE  raw.tracks[t][c] \in Seq(Int) /\ ValidateTrack(raw.tracks[t][c], raw.duration)
    BY DEF IsRaw, Validate
  <2> QED BY <2>1 DEF AreValid, ChannelOf
<1> QED BY <1>1, <1>3, <1>4, <1>5

LEMMA NothingMet ==
  ASSUME NEW keys, NEW t \in 0 .. NumTracks - 1
  PROVE  LastTwo(keys, t, 0, NoPrevious[t])
<1>1. NoPrevious[t].first = -1 /\ NoPrevious[t].second = -1
  BY DEF NoPrevious
<1>2. LastAt(keys, t, 0, -1)
  BY DEF LastAt
<1> QED BY <1>1, <1>2 DEF LastTwo

LEMMA NoPreviousTyped == NoPrevious \in [0 .. NumTracks - 1 -> [first : Int, second : Int]]
BY DEF NoPrevious

\* A step that leaves the keys and the scan alone.
LEMMA LinkingStays ==
  ASSUME Linking, pc \notin Unsorted, pc' \notin Unsorted,
         UNCHANGED <<raw, sorted, channel, previouses, i>>
  PROVE  Linking'
<1>1. NumTracks' = NumTracks /\ \A c : ChannelOf(c)' = ChannelOf(c)
  BY DEF NumTracks, ChannelOf
<1> QED BY <1>1 DEF Linking, Validate

LEMMA InitHolds == Init => IInv
<1> SUFFICES ASSUME Init PROVE IInv
  OBVIOUS
<1>0. MaxEdits \in Nat
  BY AuthoringAssumption
<1>1. CASE document = <<>> /\ pc = "author"
  <2>1. raw \in Raws /\ edits \in {MaxEdits, 0}
    BY <1>1 DEF Init
  <2>2. IsRaw(raw) /\ DOMAIN raw.tracks # {}
    BY <2>1, BuilderAssumption
  <2> QED BY <1>0, <1>1, <2>1, <2>2 DEF Init, IInv, Kept, Linking, Unsorted, Unbuilt
<1>2. CASE raw = NothingImported /\ edits = 0 /\ document \in Documents /\ pc = "load"
  <2>1. IsRaw(raw)
    <3>1. Cardinality({}) = 0 /\ IsFiniteSet({}) /\ 0 .. 0 - 1 = {} /\ Full \in Int
      BY FS_EmptySet, KeyStreamAssumption
    <3>2. DOMAIN raw.tracks = {}
      BY <1>2 DEF NothingImported
    <3>3. raw.tracks \in [{} -> [1 .. Channels -> Seq(Int)]]
      BY <1>2 DEF NothingImported
    <3>4. raw = [duration |-> raw.duration, name |-> raw.name, tracks |-> raw.tracks] /\ raw.duration = Full
      BY <1>2 DEF NothingImported
    <3>5. raw.name \in Seq(ToSet(raw.name))
      <4> DEFINE X == ToSet(raw.name)
      <4>1. raw.name = <<>>
        BY <1>2 DEF NothingImported
      <4> HIDE DEF X
      <4>2. <<>> \in Seq(X)
        OBVIOUS
      <4> QED BY <4>1, <4>2 DEF X
    <3> QED BY <3>1, <3>2, <3>3, <3>4, <3>5 DEF IsRaw
  <2>2. IsDocument(document)
    BY <1>2, BuilderAssumption
  <2> QED BY <1>0, <1>2, <2>1, <2>2 DEF Init, IInv, Kept, Linking, Unsorted, Unbuilt
<1> QED BY <1>1, <1>2 DEF Init

-----------------------------------------------------------------------------
(* Every step keeps it.                                                    *)

LEMMA FixedUpIsDocument ==
  ASSUME NEW d, IsDocument(d)
  PROVE  IsDocument(FixupNames(d))
<1> DEFINE L == Len(d.nodes)
           name == (CHOOSE names : names = [n \in 0 .. L |->
                       IF n = 0 THEN <<>>
                       ELSE Append(names[n - 1],
                                   Renamed(ToSet(names[n - 1]),
                                           IF NameOf(d, n) = <<>> THEN <<Prefix, n - 1>> ELSE NameOf(d, n),
                                           n - 1))])[L]
           Node(n) == [name |-> name[n], children |-> ChildrenOf(d, n), rest |-> d.nodes[n].rest]
           nodes == [n \in Nodes(d) |-> Node(n)]
           e == [nodes |-> nodes, scene |-> d.scene, skins |-> d.skins, channels |-> d.channels, name |-> d.name]
<1>1. L \in Nat /\ Nodes(d) = 1 .. L /\ DOMAIN d.nodes = Nodes(d)
  <2>1. d.nodes \in Seq(ToSet(d.nodes))
    BY DEF IsDocument
  <2> QED BY <2>1 DEF Nodes
<1>2. FixupNames(d) = [d EXCEPT !.nodes = [n \in Nodes(d) |-> [d.nodes[n] EXCEPT !.name = name[n]]]]
  BY DEF FixupNames, Nodes
<1> HIDE DEF name
<1>3. \A n \in Nodes(d) : [d.nodes[n] EXCEPT !.name = name[n]] = Node(n)
  <2> SUFFICES ASSUME NEW n \in Nodes(d) PROVE [d.nodes[n] EXCEPT !.name = name[n]] = Node(n)
    OBVIOUS
  <2>1. d.nodes[n] = [name |-> NameOf(d, n), children |-> ChildrenOf(d, n), rest |-> d.nodes[n].rest]
    BY DEF IsDocument
  <2> DEFINE r == d.nodes[n].rest
             c == ChildrenOf(d, n)
             o == NameOf(d, n)
  <2> HIDE DEF r, c, o
  <2>2. [[name |-> o, children |-> c, rest |-> r] EXCEPT !.name = name[n]]
           = [name |-> name[n], children |-> c, rest |-> r]
    OBVIOUS
  <2> QED BY <2>1, <2>2 DEF r, c, o
<1>4. FixupNames(d) = e
  <2> DEFINE s == d.scene
             k == d.skins
             c == d.channels
             m == d.name
             old == d.nodes
             fixed == [n \in Nodes(d) |-> [d.nodes[n] EXCEPT !.name = name[n]]]
  <2>1. d = [nodes |-> old, scene |-> s, skins |-> k, channels |-> c, name |-> m]
    BY DEF IsDocument
  <2>2. fixed = nodes
    BY <1>3
  <2> HIDE DEF s, k, c, m, old, nodes, fixed
  <2>3. [[nodes |-> old, scene |-> s, skins |-> k, channels |-> c, name |-> m] EXCEPT !.nodes = nodes]
           = [nodes |-> nodes, scene |-> s, skins |-> k, channels |-> c, name |-> m]
    OBVIOUS
  <2>4. FixupNames(d) = [d EXCEPT !.nodes = nodes]
    BY <1>2, <2>2 DEF fixed
  <2> QED BY <2>1, <2>3, <2>4 DEF s, k, c, m, old
<1> HIDE DEF nodes
<1>5. DOMAIN nodes = 1 .. L /\ \A n \in Nodes(d) : nodes[n] = Node(n)
  BY <1>1 DEF nodes
<1>6. nodes \in Seq(ToSet(nodes))
  <2>1. nodes = [n \in 1 .. L |-> nodes[n]]
    BY <1>1 DEF nodes
  <2>2. \A n \in 1 .. L : nodes[n] \in ToSet(nodes)
    BY <1>5 DEF ToSet
  <2>3. nodes \in [1 .. L -> ToSet(nodes)]
    BY <2>1, <2>2
  <2> QED BY <1>1, <2>3
<1>7. e.nodes = nodes /\ e.scene = d.scene /\ e.skins = d.skins /\ e.channels = d.channels /\ e.name = d.name
  OBVIOUS
<1> HIDE DEF e
<1>8. Nodes(e) = Nodes(d)
  BY <1>1, <1>5, <1>7 DEF Nodes
<1>9. \A n \in Nodes(d) : ChildrenOf(e, n) = ChildrenOf(d, n) /\ e.nodes[n].rest = d.nodes[n].rest
                          /\ NameOf(e, n) = name[n] /\ e.nodes[n] = Node(n)
  BY <1>5, <1>7 DEF ChildrenOf, NameOf
<1>10. NodesFormTrees(e)
  <2>1. NodesFormTrees(d)
    BY DEF IsDocument
  <2>2. \A p, q \in Nodes(e) : \A j \in DOMAIN ChildrenOf(e, p), k \in DOMAIN ChildrenOf(e, q) :
           ChildrenOf(e, p)[j] = ChildrenOf(e, q)[k] => p = q /\ j = k
    <3> SUFFICES ASSUME NEW p \in Nodes(e), NEW q \in Nodes(e),
                        NEW j \in DOMAIN ChildrenOf(e, p), NEW k \in DOMAIN ChildrenOf(e, q),
                        ChildrenOf(e, p)[j] = ChildrenOf(e, q)[k]
                 PROVE  p = q /\ j = k
      OBVIOUS
    <3>1. p \in Nodes(d) /\ q \in Nodes(d)
      BY <1>8
    <3>2. ChildrenOf(e, p) = ChildrenOf(d, p) /\ ChildrenOf(e, q) = ChildrenOf(d, q)
      BY <1>9, <3>1
    <3> QED BY <2>1, <3>1, <3>2 DEF NodesFormTrees
  <2>3. PICK depth \in [Nodes(d) -> Nodes(d)] :
           \A n \in Nodes(d) : \A c \in ToSet(ChildrenOf(d, n)) : depth[n] < depth[c]
    BY <2>1 DEF NodesFormTrees
  <2>4. \A n \in Nodes(e) : \A c \in ToSet(ChildrenOf(e, n)) : depth[n] < depth[c]
    BY <1>8, <1>9, <2>3
  <2> QED BY <1>8, <2>2, <2>3, <2>4 DEF NodesFormTrees
<1>11. \A n \in Nodes(e) :
          /\ e.nodes[n] = [name |-> NameOf(e, n), children |-> ChildrenOf(e, n), rest |-> e.nodes[n].rest]
          /\ ChildrenOf(e, n) \in Seq(Nodes(e))
  <2> SUFFICES ASSUME NEW n \in Nodes(d)
               PROVE  /\ e.nodes[n] = [name |-> NameOf(e, n), children |-> ChildrenOf(e, n),
                                       rest |-> e.nodes[n].rest]
                      /\ ChildrenOf(e, n) \in Seq(Nodes(d))
    BY <1>8
  <2>1. ChildrenOf(d, n) \in Seq(Nodes(d))
    BY DEF IsDocument
  <2> QED BY <1>9, <2>1
<1>12. e = [nodes |-> e.nodes, scene |-> e.scene, skins |-> e.skins, channels |-> e.channels, name |-> e.name]
  BY <1>7 DEF e
<1>13. /\ e.channels \in Seq(ToSet(e.channels))
       /\ \A ch \in ToSet(e.channels) : ch.times \in Seq(Int) /\ ch.max \in Int
  BY <1>7 DEF IsDocument
<1>14. IsDocument(e)
  BY <1>6, <1>7, <1>10, <1>11, <1>12, <1>13 DEF IsDocument
<1> QED BY <1>4, <1>14

LEMMA GltfLoadKeeps ==
  ASSUME IInv, GltfLoad
  PROVE  IInv'
<1>1. IsDocument(document)'
  <2>1. IsDocument(document) /\ document' = FixupNames(document)
    BY DEF IInv, Kept, GltfLoad
  <2> QED BY <2>1, FixedUpIsDocument
<1>2. Kept'
  BY <1>1 DEF IInv, Kept, GltfLoad, authoringVars, Unsorted, IsRaw
<1>3. Linking'
  BY DEF IInv, Linking, GltfLoad, authoringVars, Unsorted
<1> QED BY <1>2, <1>3 DEF IInv

\* An animation without joints has no duration, which is not valid.
LEMMA ImportsHaveJoints ==
  ASSUME NEW period, Imports(period)
  PROVE  DOMAIN TimesOf(ImportedAnimation(document, JointNames, period)).tracks # {}
<1> DEFINE names == JointNames
           imported == ImportedAnimation(document, names, period)
           lengths == UNION {{c.max : c \in ChannelsOf(document, names[j])} : j \in DOMAIN names}
<1>1. TimesOf(imported).duration > 0
  BY DEF Imports, Validate
<1>2. TimesOf(imported).duration = Max({0} \cup lengths)
  BY DEF TimesOf, ImportedAnimation
<1>3. DOMAIN TimesOf(imported).tracks = DOMAIN names
  BY DEF TimesOf, ImportedAnimation
<1>4. ASSUME DOMAIN names = {} PROVE FALSE
  <2>1. {0} \cup lengths = {0}
    BY <1>4
  <2> HIDE DEF lengths
  <2>2. Max({0} \cup lengths) = 0
    BY <2>1 DEF Max
  <2> QED BY <1>1, <1>2, <2>2
<1> QED BY <1>3, <1>4

LEMMA GltfImportKeeps ==
  ASSUME IInv, NEW period \in Periods, GltfImportAnimation(period)
  PROVE  IInv'
<1> DEFINE imported == ImportedAnimation(document, JointNames, period)
<1>1. CASE Imports(period)
  <2>1. /\ motion' = imported /\ raw' = TimesOf(motion') /\ pc = "import" /\ pc' = "author"
        /\ UNCHANGED <<edits, document, divs, sorted, channel, previouses, i, animation, streams>>
    BY <1>1 DEF GltfImportAnimation
  <2>2. raw' = TimesOf(imported)
    BY <2>1 DEF TimesOf
  <2>3. IsRaw(TimesOf(imported)) /\ DOMAIN TimesOf(imported).tracks # {}
    <3>1. IsDocument(document)
      BY <2>1 DEF IInv, Kept
    <3> QED BY <1>1, <3>1, ImportsAreRaw, ImportsHaveJoints
  <2> HIDE DEF imported
  <2>4. IsRaw(raw)' /\ DOMAIN raw'.tracks # {}
    BY <2>2, <2>3
  <2>5. Kept'
    BY <2>1, <2>4 DEF IInv, Kept, Unsorted
  <2>6. Linking'
    BY <2>1 DEF IInv, Linking, Unsorted
  <2> QED BY <2>5, <2>6 DEF IInv
<1>2. CASE ~Imports(period)
  <2>1. /\ pc = "import" /\ pc' = "refused"
        /\ UNCHANGED <<raw, motion, edits, document, divs, sorted, channel, previouses, i, animation, streams>>
    BY <1>2 DEF GltfImportAnimation
  <2>2. Kept'
    BY <2>1 DEF IInv, Kept, Unsorted, IsRaw
  <2>3. Linking'
    BY <2>1 DEF IInv, Linking, Unsorted
  <2> QED BY <2>2, <2>3 DEF IInv
<1> QED BY <1>1, <1>2

\* A raw animation with other keys.
LEMMA RawStays ==
  ASSUME IsRaw(raw), NEW tracks, DOMAIN tracks = DOMAIN raw.tracks,
         \A joint \in DOMAIN tracks : tracks[joint] \in [1 .. Channels -> Seq(Int)],
         tracks = [joint \in DOMAIN tracks |-> tracks[joint]],
         NEW duration \in Int, NEW name, name \in Seq(ToSet(name)),
         raw' = [duration |-> duration, name |-> name, tracks |-> tracks]
  PROVE  IsRaw(raw)' /\ DOMAIN raw'.tracks = DOMAIN raw.tracks
<1>1. tracks \in [DOMAIN tracks -> [1 .. Channels -> Seq(Int)]]
  OBVIOUS
<1>2. raw'.duration = duration /\ raw'.name = name /\ raw'.tracks = tracks
  OBVIOUS
<1> QED BY <1>1, <1>2 DEF IsRaw

LEMMA AuthorKeepsRaw ==
  ASSUME IsRaw(raw), edits \in 0 .. MaxEdits, Author
  PROVE  IsRaw(raw)' /\ DOMAIN raw'.tracks = DOMAIN raw.tracks /\ edits' \in 0 .. MaxEdits
<1>0. /\ raw = [duration |-> raw.duration, name |-> raw.name, tracks |-> raw.tracks]
      /\ raw.duration \in Int
      /\ raw.tracks \in [DOMAIN raw.tracks -> [1 .. Channels -> Seq(Int)]]
  BY DEF IsRaw
<1>a. \A joint \in DOMAIN raw.tracks : raw.tracks[joint] \in [1 .. Channels -> Seq(Int)]
  BY <1>0
<1>c. raw.name \in Seq(ToSet(raw.name))
  BY DEF IsRaw
<1>b. MaxEdits \in Nat
  BY AuthoringAssumption
<1>1. ASSUME NEW joint \in DOMAIN raw.tracks, NEW c \in 1 .. Channels, NEW time \in Times,
             Push(joint, c, time)
      PROVE  IsRaw(raw)' /\ DOMAIN raw'.tracks = DOMAIN raw.tracks /\ edits' \in 0 .. MaxEdits
  <2> DEFINE tracks == [raw.tracks EXCEPT ![joint][c] = Append(@, time)]
  <2>1. raw' = [duration |-> raw.duration, name |-> raw.name, tracks |-> tracks]
    BY <1>0, <1>1 DEF Push
  <2>2. /\ DOMAIN tracks = DOMAIN raw.tracks
        /\ tracks = [j \in DOMAIN tracks |-> tracks[j]]
        /\ \A j \in DOMAIN tracks : tracks[j] \in [1 .. Channels -> Seq(Int)]
    <3>1. time \in Int
      BY AuthoringAssumption
    <3>2. raw.tracks[joint][c] \in Seq(Int)
      BY <1>a
    <3>3. Append(raw.tracks[joint][c], time) \in Seq(Int)
      BY <3>1, <3>2
    <3> QED BY <1>0, <1>a, <3>3
  <2> HIDE DEF tracks
  <2>3. IsRaw(raw)' /\ DOMAIN raw'.tracks = DOMAIN raw.tracks
    BY <1>0, <1>c, <2>1, <2>2, RawStays
  <2> QED BY <1>1, <1>b, <2>3 DEF Push, Edit
<1>2. ASSUME NEW duration \in Durations, SetDuration(duration)
      PROVE  IsRaw(raw)' /\ DOMAIN raw'.tracks = DOMAIN raw.tracks /\ edits' \in 0 .. MaxEdits
  <2>1. raw' = [duration |-> duration, name |-> raw.name, tracks |-> raw.tracks]
    BY <1>0, <1>2 DEF SetDuration
  <2>2. duration \in Int
    BY AuthoringAssumption
  <2>3. IsRaw(raw)' /\ DOMAIN raw'.tracks = DOMAIN raw.tracks
    BY <1>0, <1>a, <1>c, <2>1, <2>2, RawStays
  <2> QED BY <1>2, <1>b, <2>3 DEF SetDuration, Edit
<1>3. ASSUME NEW name \in Names, SetName(name)
      PROVE  IsRaw(raw)' /\ DOMAIN raw'.tracks = DOMAIN raw.tracks /\ edits' \in 0 .. MaxEdits
  <2>1. raw' = [duration |-> raw.duration, name |-> name, tracks |-> raw.tracks]
    BY <1>0, <1>3 DEF SetName
  <2>2. name \in Seq(ToSet(name))
    BY AuthoringAssumption
  <2>3. IsRaw(raw)' /\ DOMAIN raw'.tracks = DOMAIN raw.tracks
    BY <1>0, <1>a, <2>1, <2>2, RawStays
  <2> QED BY <1>3, <1>b, <2>3 DEF SetName, Edit
<1>4. ASSUME NEW joint \in DOMAIN raw.tracks, NEW cs, Clear(joint, cs)
      PROVE  IsRaw(raw)' /\ DOMAIN raw'.tracks = DOMAIN raw.tracks /\ edits' \in 0 .. MaxEdits
  <2> DEFINE cleared == [c \in 1 .. Channels |-> IF c \in cs THEN <<>> ELSE raw.tracks[joint][c]]
             tracks == [raw.tracks EXCEPT ![joint] = cleared]
  <2>1. raw' = [duration |-> raw.duration, name |-> raw.name, tracks |-> tracks]
    BY <1>0, <1>4 DEF Clear
  <2>2. cleared \in [1 .. Channels -> Seq(Int)]
    <3>1. \A c \in 1 .. Channels : raw.tracks[joint][c] \in Seq(Int)
      BY <1>a
    <3>2. <<>> \in Seq(Int)
      OBVIOUS
    <3> QED BY <3>1, <3>2
  <2> HIDE DEF cleared
  <2>3. /\ DOMAIN tracks = DOMAIN raw.tracks
        /\ tracks = [j \in DOMAIN tracks |-> tracks[j]]
        /\ \A j \in DOMAIN tracks : tracks[j] \in [1 .. Channels -> Seq(Int)]
    BY <1>0, <1>a, <2>2
  <2> HIDE DEF tracks
  <2>4. IsRaw(raw)' /\ DOMAIN raw'.tracks = DOMAIN raw.tracks
    BY <1>0, <1>c, <2>1, <2>3, RawStays
  <2> QED BY <1>4, <1>b, <2>4 DEF Clear, Edit
<1> QED BY <1>1, <1>2, <1>3, <1>4 DEF Author

LEMMA AuthorKeeps ==
  ASSUME IInv, pc = "author", Author, UNCHANGED <<builderVars, importVars>>
  PROVE  IInv'
<1>1. UNCHANGED <<divs, sorted, channel, previouses, i, pc, animation, streams, document, motion>>
  BY DEF builderVars, importVars
<1>2. IsRaw(raw)' /\ DOMAIN raw'.tracks = DOMAIN raw.tracks /\ edits' \in 0 .. MaxEdits
  BY AuthorKeepsRaw DEF IInv, Kept
<1>3. Kept'
  BY <1>1, <1>2 DEF IInv, Kept, Unsorted
<1>4. Linking'
  BY <1>1 DEF IInv, Linking, Unsorted
<1> QED BY <1>3, <1>4 DEF IInv

LEMMA BuildKeeps ==
  ASSUME IInv, AnimationBuild
  PROVE  IInv'
<1> USE DEF IInv
<1>1. /\ pc = "author" /\ Validate(raw) /\ pc' = "sort" /\ previouses' = NoPrevious
      /\ sorted' = [c \in 1 .. Channels |-> SortedKeys(ChannelOf(c), raw.duration)]
      /\ UNCHANGED <<raw, edits, document, motion, divs, channel, i, animation, streams>>
  BY DEF AnimationBuild, authoringVars, importVars
<1>2. IsRaw(raw) /\ channel = 1 /\ i = 0
  BY <1>1 DEF Kept, Linking, Unsorted
<1>3. 1 \in 1 .. Channels
  BY KeyStreamAssumption
<1>4. ASSUME NEW c \in 1 .. Channels
      PROVE  Serves(SortedKeys(ChannelOf(c), raw.duration), ChannelOf(c), NumTracks, raw.duration)
  <2>1. /\ AreValid(ChannelOf(c), raw.duration) /\ DOMAIN ChannelOf(c) = DOMAIN raw.tracks
        /\ raw.duration \in Int /\ raw.duration > 0 /\ IsFiniteSet(DOMAIN raw.tracks)
    BY <1>1, <1>2, RawIs
  <2>2. NumTracks = AlignedTracks(Cardinality(DOMAIN ChannelOf(c)))
    BY <2>1 DEF NumTracks
  <2> DEFINE tracks == ChannelOf(c)
             D == raw.duration
  <2> HIDE DEF tracks, D
  <2>3. Serves(SortedKeys(tracks, D), tracks, AlignedTracks(Cardinality(DOMAIN tracks)), D)
    BY <2>1, SortedKeysServe DEF tracks, D
  <2> QED BY <2>2, <2>3 DEF tracks, D
<1>5. Kept'
  BY <1>1 DEF Kept, Unsorted, IsRaw
<1>6. Linking'
  <2>1. pc' \notin Unsorted
    BY <1>1 DEF Unsorted
  <2>2. NumTracks' = NumTracks /\ \A c : ChannelOf(c)' = ChannelOf(c)
    BY <1>1 DEF NumTracks, ChannelOf
  <2>3. Validate(raw)'
    BY <1>1 DEF Validate
  <2>4. DOMAIN sorted' = 1 .. Channels /\ channel' \in 1 .. Channels
    BY <1>1, <1>2, <1>3
  <2>5. \A c \in 1 .. Channels : Serves(sorted'[c], ChannelOf(c), NumTracks, raw.duration)
    BY <1>1, <1>4
  <2>6. i' \in 0 .. Len(sorted'[channel'])
    <3>1. sorted'[channel'] \in Seq(SomeKey)
      BY <1>1, <1>2, <1>3, <2>5 DEF Serves
    <3> QED BY <3>1, <1>1, <1>2
  <2>7. previouses' \in [0 .. NumTracks - 1 -> [first : Int, second : Int]]
    BY <1>1, NoPreviousTyped
  <2>8. \A t \in 0 .. NumTracks - 1 : LastTwo(sorted'[channel'], t, i', previouses'[t])
    BY <1>1, <1>2, NothingMet
  <2> QED BY <1>1, <2>1, <2>2, <2>3, <2>4, <2>5, <2>6, <2>7, <2>8 DEF Linking
<1> QED BY <1>5, <1>6

\* What is known while a channel is scanned.
LEMMA WhileSorting ==
  ASSUME IInv, pc = "sort"
  PROVE  /\ IsRaw(raw) /\ Validate(raw)
         /\ NumTracks \in Nat /\ NumTracks <= MaxPreviousOffset
         /\ raw.duration \in Int /\ raw.duration > 0
         /\ DOMAIN sorted = 1 .. Channels /\ channel \in 1 .. Channels
         /\ \A c \in 1 .. Channels : Serves(sorted[c], ChannelOf(c), NumTracks, raw.duration)
         /\ sorted[channel] \in Seq(SomeKey)
         /\ i \in 0 .. Len(sorted[channel])
         /\ previouses \in [0 .. NumTracks - 1 -> [first : Int, second : Int]]
         /\ \A t \in 0 .. NumTracks - 1 : LastTwo(sorted[channel], t, i, previouses[t])
         /\ \A n \in DOMAIN sorted[channel] : sorted[channel][n].track \in 0 .. NumTracks - 1
<1>1. Linking /\ IsRaw(raw) /\ pc \notin Unsorted
  BY DEF IInv, Kept, Unsorted
<1>2. Validate(raw)
  BY <1>1 DEF Linking
<1>3. /\ NumTracks \in Nat /\ NumTracks <= MaxPreviousOffset
      /\ raw.duration \in Int /\ raw.duration > 0
  BY <1>1, <1>2, RawIs
<1>4. Serves(sorted[channel], ChannelOf(channel), NumTracks, raw.duration)
  BY <1>1 DEF Linking
<1>5. sorted[channel] \in Seq(SomeKey)
  BY <1>4 DEF Serves
<1>6. ASSUME NEW n \in DOMAIN sorted[channel] PROVE sorted[channel][n].track \in 0 .. NumTracks - 1
  <2>1. sorted[channel][n] \in ChannelKey(NumTracks, raw.duration)
    BY <1>4 DEF Serves, ToSet
  <2> QED BY <2>1 DEF ChannelKey
<1> QED BY <1>1, <1>2, <1>3, <1>5, <1>6 DEF Linking

\* One more key of a track, or of another.
LEMMA OneMore ==
  ASSUME NEW keys, NEW t, NEW n \in Nat, NEW p, LastAt(keys, t, n, p)
  PROVE  /\ keys[n + 1].track = t => LastAt(keys, t, n + 1, n)
         /\ keys[n + 1].track # t => LastAt(keys, t, n + 1, p)
<1>1. n + 1 - 1 = n /\ n # -1 /\ n \in -1 .. n + 1 - 1 /\ n + 1 .. n + 1 - 1 = {}
  OBVIOUS
<1>2. CASE keys[n + 1].track = t
  BY <1>1, <1>2 DEF LastAt
<1>3. CASE keys[n + 1].track # t
  <2>1. p \in -1 .. n - 1 /\ p \in -1 .. n + 1 - 1
    BY DEF LastAt
  <2>2. ASSUME NEW m \in p + 1 .. n + 1 - 1 PROVE keys[m + 1].track # t
    <3>1. m = n \/ m \in p + 1 .. n - 1
      BY <2>1
    <3> QED BY <1>3, <3>1 DEF LastAt
  <2> QED BY <1>3, <2>1, <2>2 DEF LastAt
<1> QED BY <1>2, <1>3

LEMMA ScanKeeps ==
  ASSUME IInv, Scan
  PROVE  IInv'
<1> DEFINE keys == sorted[channel]
           met == keys[i + 1].track
<1>1. /\ pc = "sort" /\ i < Len(keys) /\ i' = i + 1
      /\ previouses' = [previouses EXCEPT ![met] = [first |-> i, second |-> @.first]]
      /\ UNCHANGED <<raw, edits, document, motion, divs, sorted, channel, pc, animation, streams>>
  BY DEF Scan, Key, authoringVars, importVars
<1>2. /\ keys \in Seq(SomeKey) /\ i \in 0 .. Len(keys) /\ i \in Nat
      /\ previouses \in [0 .. NumTracks - 1 -> [first : Int, second : Int]]
      /\ \A t \in 0 .. NumTracks - 1 : LastTwo(keys, t, i, previouses[t])
      /\ i + 1 \in DOMAIN keys /\ met \in 0 .. NumTracks - 1
  <2>1. /\ keys \in Seq(SomeKey) /\ i \in 0 .. Len(keys)
        /\ previouses \in [0 .. NumTracks - 1 -> [first : Int, second : Int]]
        /\ \A t \in 0 .. NumTracks - 1 : LastTwo(keys, t, i, previouses[t])
        /\ \A n \in DOMAIN keys : keys[n].track \in 0 .. NumTracks - 1
    BY <1>1, WhileSorting
  <2> HIDE DEF keys
  <2>2. i + 1 \in DOMAIN keys /\ i \in Nat
    BY <1>1, <2>1
  <2> QED BY <2>1, <2>2
<1> HIDE DEF keys
<1>3. previouses' \in [0 .. NumTracks - 1 -> [first : Int, second : Int]]
  <2>1. previouses[met].first \in Int /\ i \in Int
    BY <1>2
  <2>2. [first |-> i, second |-> previouses[met].first] \in [first : Int, second : Int]
    BY <2>1
  <2> HIDE DEF met
  <2> QED BY <1>1, <1>2, <2>2
<1>4. ASSUME NEW t \in 0 .. NumTracks - 1 PROVE LastTwo(keys, t, i + 1, previouses'[t])
  <2>0. LastTwo(keys, t, i, previouses[t])
    BY <1>2
  <2>1. CASE t = met
    <3>1. previouses'[t].first = i /\ previouses'[t].second = previouses[t].first
      BY <1>1, <1>2, <2>1
    <3>2. LastAt(keys, t, i, previouses[t].first)
      BY <2>0 DEF LastTwo
    <3>3. LastAt(keys, t, i + 1, i)
      BY <1>2, <2>1, <3>2, OneMore
    <3>4. i # -1
      BY <1>2
    <3> HIDE DEF met
    <3> QED BY <3>1, <3>2, <3>3, <3>4 DEF LastTwo
  <2>2. CASE t # met
    <3>1. previouses'[t] = previouses[t]
      BY <1>1, <1>2, <2>2
    <3>2. LastAt(keys, t, i, previouses[t].first)
      BY <2>0 DEF LastTwo
    <3>3. LastAt(keys, t, i + 1, previouses[t].first)
      BY <1>2, <2>2, <3>2, OneMore
    <3> QED BY <2>0, <3>1, <3>3 DEF LastTwo
  <2> QED BY <2>1, <2>2
<1>5. Kept'
  BY <1>1 DEF IInv, Kept, Unsorted, IsRaw
<1>6. Linking'
  <2>1. NumTracks' = NumTracks /\ \A c : ChannelOf(c)' = ChannelOf(c)
    BY <1>1 DEF NumTracks, ChannelOf
  <2>2. i' \in 0 .. Len(keys)
    <3>1. Len(keys) \in Nat
      BY <1>2
    <3> QED BY <3>1, <1>1, <1>2
  <2>3. pc \notin Unsorted /\ pc' \notin Unsorted
    BY <1>1 DEF Unsorted
  <2>4. Validate(raw)' /\ DOMAIN sorted' = 1 .. Channels /\ channel' \in 1 .. Channels
    BY <1>1, <2>3 DEF IInv, Linking, Validate
  <2>5. \A c \in 1 .. Channels : Serves(sorted[c], ChannelOf(c), NumTracks, raw.duration)
    BY <2>3 DEF IInv, Linking
  <2>6. sorted'[channel'] = keys
    BY <1>1 DEF keys
  <2> QED BY <1>1, <1>3, <1>4, <2>1, <2>2, <2>3, <2>4, <2>5, <2>6 DEF Linking
<1> QED BY <1>5, <1>6 DEF IInv

\* The segment that is cut is that of the last two keys of a track.
LEMMA InjectionCuts ==
  ASSUME IInv, CutsAreWide, Inject
  PROVE  LET previous == previouses[Key(i).track]
             keys == sorted[channel]
         IN  /\ Injected(previous.first, previous.second)
                = Cut(keys, previous.first + 1, previous.second + 1)
             /\ Serves(Cut(keys, previous.first + 1, previous.second + 1),
                       ChannelOf(channel), NumTracks, raw.duration)
<1> DEFINE keys == sorted[channel]
           t == keys[i + 1].track
           first == previouses[t].first
           second == previouses[t].second
<1>1. /\ pc = "sort" /\ i < Len(keys) /\ first # -1 /\ i - first > MaxPreviousOffset
      /\ keys[first + 1].time - keys[second + 1].time >= 2
  BY DEF Inject, TooFar, Key, CutsAreWide
<1>2. Serves(keys, ChannelOf(channel), NumTracks, raw.duration)
  BY <1>1, WhileSorting
<1>3. /\ keys \in Seq(SomeKey) /\ i \in Nat /\ i \in 0 .. Len(keys) - 1 /\ t \in 0 .. NumTracks - 1
      /\ NumTracks \in Nat /\ NumTracks <= MaxPreviousOffset /\ raw.duration \in Int
      /\ first \in Int /\ second \in Int /\ LastTwo(keys, t, i, previouses[t])
  <2>1. /\ keys \in Seq(SomeKey) /\ i \in 0 .. Len(keys) /\ raw.duration \in Int
        /\ previouses \in [0 .. NumTracks - 1 -> [first : Int, second : Int]]
        /\ \A u \in 0 .. NumTracks - 1 : LastTwo(keys, u, i, previouses[u])
        /\ \A n \in DOMAIN keys : keys[n].track \in 0 .. NumTracks - 1
        /\ NumTracks \in Nat /\ NumTracks <= MaxPreviousOffset
    BY <1>1, WhileSorting
  <2>2. i + 1 \in DOMAIN keys /\ i \in Nat /\ i \in 0 .. Len(keys) - 1
    <3> HIDE DEF keys
    <3> QED BY <1>1, <2>1
  <2>3. t \in 0 .. NumTracks - 1
    BY <2>1, <2>2
  <2> HIDE DEF keys, t
  <2>4. previouses[t] \in [first : Int, second : Int] /\ LastTwo(keys, t, i, previouses[t])
    BY <2>1, <2>3
  <2> QED BY <2>1, <2>2, <2>3, <2>4
<1>4. /\ LastAt(keys, t, i, first) /\ LastAt(keys, t, first, second)
      /\ first \in 0 .. i - 1 /\ keys[first + 1].track = t
  <2>1. LastAt(keys, t, i, first) /\ LastAt(keys, t, first, second)
    BY <1>1, <1>3 DEF LastTwo
  <2> HIDE DEF first, second, t, keys
  <2> QED BY <1>1, <1>3, <2>1 DEF LastAt
<1>5. second # -1
  <2> SUFFICES ASSUME second = -1 PROVE FALSE
    OBVIOUS
  <2>1. LastAt(keys, keys[i + 1].track, i, first) /\ LastAt(keys, keys[i + 1].track, first, -1)
    BY <1>4
  <2> DEFINE D == raw.duration
             T == NumTracks
             tracks == ChannelOf(channel)
  <2>2. Serves(keys, tracks, T, D) /\ T \in Nat /\ D \in Int
    BY <1>2, <1>3
  <2> HIDE DEF first, second, t, keys, D, T, tracks
  <2>3. i - first <= T
    BY <1>3, <1>4, <2>1, <2>2, SecondIsNear
  <2>4. MaxPreviousOffset \in Nat
    BY BuilderAssumption
  <2> QED BY <1>1, <1>3, <2>3, <2>4 DEF T
<1>6. second \in 0 .. first - 1 /\ keys[second + 1].track = t
  <2> HIDE DEF first, second, t, keys
  <2> QED BY <1>3, <1>4, <1>5 DEF LastAt
<1>7. keys[first + 1].prev = keys[second + 1].time
  <2>1. LastAt(keys, keys[first + 1].track, first, second) /\ first \in 0 .. Len(keys) - 1
    <3> HIDE DEF first, second, t, keys
    <3> QED BY <1>3, <1>4
  <2> DEFINE D == raw.duration
             T == NumTracks
             tracks == ChannelOf(channel)
  <2>2. Serves(keys, tracks, T, D) /\ T \in Nat /\ D \in Int
    BY <1>2, <1>3
  <2> HIDE DEF first, second, t, keys, D, T, tracks
  <2>3. IsLink(keys, first, second)
    BY <2>1, <2>2, LinkedBack
  <2> QED BY <1>5, <2>3 DEF IsLink
<1>8. Injected(first, second) = Cut(keys, first + 1, second + 1)
  BY DEF Injected, Cut, Key
<1>9. Serves(Cut(keys, first + 1, second + 1), ChannelOf(channel), NumTracks, raw.duration)
  <2> DEFINE D == raw.duration
             T == NumTracks
             tracks == ChannelOf(channel)
  <2>1. Serves(keys, tracks, T, D) /\ T \in Nat /\ D \in Int
    BY <1>2, <1>3
  <2> HIDE DEF first, second, t, keys, D, T, tracks
  <2>2. first + 1 \in DOMAIN keys /\ second + 1 \in DOMAIN keys
    BY <1>3, <1>4, <1>6
  <2>3. keys[second + 1].track = keys[first + 1].track
    BY <1>4, <1>6
  <2>4. Serves(Cut(keys, first + 1, second + 1), tracks, T, D)
    BY <1>1, <1>7, <2>1, <2>2, <2>3, CutServes
  <2> QED BY <2>4 DEF D, T, tracks
<1> QED BY <1>8, <1>9 DEF Key

LEMMA InjectKeeps ==
  ASSUME IInv, CutsAreWide, Inject
  PROVE  IInv'
<1> DEFINE previous == previouses[Key(i).track]
           cut == Injected(previous.first, previous.second)
<1>1. /\ pc = "sort" /\ i' = 0 /\ previouses' = NoPrevious
      /\ sorted' = [sorted EXCEPT ![channel] = cut]
      /\ UNCHANGED <<raw, edits, document, motion, divs, channel, pc, animation, streams>>
  BY DEF Inject, authoringVars, importVars
<1>2. Serves(cut, ChannelOf(channel), NumTracks, raw.duration)
  BY InjectionCuts
<1> HIDE DEF cut
<1>3. /\ DOMAIN sorted = 1 .. Channels /\ channel \in 1 .. Channels
      /\ \A c \in 1 .. Channels : Serves(sorted[c], ChannelOf(c), NumTracks, raw.duration)
  BY <1>1, WhileSorting
<1>4. Kept'
  BY <1>1 DEF IInv, Kept, Unsorted, IsRaw
<1>5. Linking'
  <2>1. NumTracks' = NumTracks /\ \A c : ChannelOf(c)' = ChannelOf(c)
    BY <1>1 DEF NumTracks, ChannelOf
  <2>2. DOMAIN sorted' = 1 .. Channels /\ sorted'[channel] = cut
    BY <1>1, <1>3
  <2>3. \A c \in 1 .. Channels : Serves(sorted'[c], ChannelOf(c), NumTracks, raw.duration)
    BY <1>1, <1>2, <1>3
  <2>4. i' \in 0 .. Len(sorted'[channel'])
    <3>1. cut \in Seq(SomeKey)
      BY <1>2 DEF Serves
    <3> QED BY <1>1, <2>2, <3>1
  <2>5. pc \notin Unsorted /\ pc' \notin Unsorted
    BY <1>1 DEF Unsorted
  <2>6. Validate(raw)'
    BY <1>1, <2>5 DEF IInv, Linking, Validate
  <2>7. \A t \in 0 .. NumTracks - 1 : LastTwo(sorted'[channel'], t, i', previouses'[t])
    BY <1>1, NothingMet
  <2> QED BY <1>1, <1>3, <2>1, <2>2, <2>3, <2>4, <2>5, <2>6, <2>7, NoPreviousTyped DEF Linking
<1> QED BY <1>4, <1>5 DEF IInv

LEMMA NextChannelKeeps ==
  ASSUME IInv, NextChannel
  PROVE  IInv'
<1>1. /\ pc = "sort" /\ i' = 0 /\ previouses' = NoPrevious /\ channel < Channels /\ channel' = channel + 1
      /\ UNCHANGED <<raw, edits, document, motion, divs, sorted, pc, animation, streams>>
  BY DEF NextChannel, authoringVars, importVars
<1>2. /\ DOMAIN sorted = 1 .. Channels /\ channel \in 1 .. Channels
      /\ \A c \in 1 .. Channels : Serves(sorted[c], ChannelOf(c), NumTracks, raw.duration)
  BY <1>1, WhileSorting
<1>3. channel' \in 1 .. Channels
  BY <1>1, <1>2, KeyStreamAssumption
<1>4. Kept'
  BY <1>1 DEF IInv, Kept, Unsorted, IsRaw
<1>5. Linking'
  <2>1. NumTracks' = NumTracks /\ \A c : ChannelOf(c)' = ChannelOf(c)
    BY <1>1 DEF NumTracks, ChannelOf
  <2>2. i' \in 0 .. Len(sorted'[channel'])
    <3>1. sorted[channel'] \in Seq(SomeKey)
      BY <1>2, <1>3 DEF Serves
    <3> QED BY <1>1, <3>1
  <2>3. pc \notin Unsorted /\ pc' \notin Unsorted
    BY <1>1 DEF Unsorted
  <2>4. Validate(raw)'
    BY <1>1, <2>3 DEF IInv, Linking, Validate
  <2>5. \A t \in 0 .. NumTracks - 1 : LastTwo(sorted'[channel'], t, i', previouses'[t])
    BY <1>1, NothingMet
  <2> QED BY <1>1, <1>2, <1>3, <2>1, <2>2, <2>3, <2>4, <2>5, NoPreviousTyped DEF Linking
<1> QED BY <1>4, <1>5 DEF IInv

\* What follows the sorting leaves the keys alone.
LEMMA AfterSortingKeeps ==
  ASSUME IInv, TakeTimePoints \/ TakeIFrames \/ Write
  PROVE  IInv'
<1>1. /\ UNCHANGED <<raw, edits, document, motion, divs, sorted, channel, previouses, i>>
      /\ pc \in {"sort", "frame", "write"} /\ pc' \in {"frame", "failed", "write", "built"}
  BY DEF TakeTimePoints, TakeIFrames, Write, authoringVars, importVars
<1>2. Linking'
  <2>1. pc \notin Unsorted /\ pc' \notin Unsorted
    BY <1>1 DEF Unsorted
  <2> QED BY <1>1, <2>1, LinkingStays DEF IInv
<1>3. /\ pc' # "built" <=> animation' = Unbuilt
      /\ pc' \in {"write", "built"} <=> streams' # <<>>
  <2>0. /\ pc # "built" <=> animation = Unbuilt
        /\ pc \in {"write", "built"} <=> streams # <<>>
    BY DEF IInv, Kept
  <2>1. CASE TakeTimePoints
    BY <2>0, <2>1 DEF TakeTimePoints
  <2>2. CASE TakeIFrames
    <3>1. DOMAIN streams' = 1 .. Channels /\ 1 \in 1 .. Channels
      BY <2>2, KeyStreamAssumption DEF TakeIFrames
    <3>2. streams' # <<>>
      <4> DEFINE s == streams'
      <4>1. DOMAIN s # {}
        BY <3>1
      <4> HIDE DEF s
      <4>2. s # <<>>
        BY <4>1
      <4> QED BY <4>2 DEF s
    <3> QED BY <2>0, <2>2, <3>2 DEF TakeIFrames
  <2>3. CASE Write
    <3>1. animation' # Unbuilt
      <4>1. "duration" \in DOMAIN animation'
        BY <2>3 DEF Write, Written
      <4>2. DOMAIN Unbuilt = {}
        BY DEF Unbuilt
      <4> QED BY <4>1, <4>2
    <3> QED BY <2>0, <2>3, <3>1 DEF Write
  <2> QED BY <2>1, <2>2, <2>3
<1>4. Kept'
  BY <1>1, <1>3 DEF IInv, Kept, Unsorted, IsRaw
<1> QED BY <1>2, <1>4 DEF IInv

LEMMA StepKeeps ==
  ASSUME IInv, CutsAreWide, [Next]_vars
  PROVE  IInv'
<1>1. CASE GltfLoad
  BY <1>1, GltfLoadKeeps
<1>2. ASSUME NEW period \in Periods, GltfImportAnimation(period)
      PROVE  IInv'
  BY <1>2, GltfImportKeeps
<1>3. CASE pc = "author" /\ Author /\ UNCHANGED <<builderVars, importVars>>
  BY <1>3, AuthorKeeps
<1>4. CASE AnimationBuild
  BY <1>4, BuildKeeps
<1>5. CASE Scan
  BY <1>5, ScanKeeps
<1>6. CASE Inject
  BY <1>6, InjectKeeps
<1>7. CASE NextChannel
  BY <1>7, NextChannelKeeps
<1>8. CASE TakeTimePoints \/ TakeIFrames \/ Write
  BY <1>8, AfterSortingKeeps
<1>9. CASE UNCHANGED vars
  <2>1. UNCHANGED <<raw, edits, divs, sorted, channel, previouses, i, pc, animation, streams, document, motion>>
    BY <1>9 DEF vars, authoringVars, builderVars, importVars
  <2>2. Kept'
    BY <2>1 DEF IInv, Kept, Unsorted, IsRaw
  <2>3. CASE pc \in Unsorted
    BY <2>1, <2>2, <2>3 DEF IInv, Linking, Unsorted
  <2>4. CASE pc \notin Unsorted
    <3>1. pc' \notin Unsorted
      BY <2>1, <2>4 DEF Unsorted
    <3> QED BY <2>1, <2>2, <2>4, <3>1, LinkingStays DEF IInv
  <2> QED BY <2>3, <2>4
<1> QED BY <1>1, <1>2, <1>3, <1>4, <1>5, <1>6, <1>7, <1>8, <1>9 DEF Next, Sorting

-----------------------------------------------------------------------------
(* What the invariant says of the keys.                                    *)

\* The previous time of a key is the greatest of those before it.
LEMMA FollowingIsGreatest ==
  ASSUME NEW times, times \subseteq Nat, NEW time \in Int, NEW prev \in Int, prev < time,
         prev = -1 \/ prev \in times, \A u \in times : u < time => u <= prev
  PROVE  Max({-1} \cup {u \in times : u < time}) = prev
<1> DEFINE S == {-1} \cup {u \in times : u < time}
<1>1. prev \in S /\ \A u \in S : u \in Int /\ prev >= u
  <2>1. prev # -1 => prev \in times
    OBVIOUS
  <2>2. ASSUME NEW u \in S PROVE u \in Int /\ prev >= u
    <3>1. CASE u \in times /\ u < time
      <4>1. u \in Nat /\ u <= prev
        BY <3>1
      <4> QED BY <4>1
    <3>2. CASE u = -1
      <4>1. prev = -1 \/ prev \in Nat
        OBVIOUS
      <4> QED BY <3>2, <4>1
    <3> QED BY <3>1, <3>2
  <2> QED BY <2>1, <2>2
<1> HIDE DEF S
<1>2. \A x \in S : (\A u \in S : x >= u) => x = prev
  BY <1>1
<1>3. Max(S) = prev
  BY <1>1, <1>2 DEF Max
<1> QED BY <1>3 DEF S

LEMMA TimesAre ==
  ASSUME NEW keys \in Seq(SomeKey), NEW t
  PROVE  {keys[n].time : n \in {m \in DOMAIN keys : keys[m].track = t}} = TimesOn(ToSet(keys), t)
BY DEF TimesOn, ToSet

LEMMA ServesIsIntact ==
  ASSUME NEW T \in Nat, NEW D \in Int, NEW tracks, NEW keys, Serves(keys, tracks, T, D)
  PROVE  /\ InOrder(keys)
         /\ \A t \in 0 .. T - 1 :
               LET places == {n \in DOMAIN keys : keys[n].track = t}
                   times  == {keys[n].time : n \in places}
                   Previous(time) == Max({-1} \cup {u \in times : u < time})
               IN  /\ ToSet(Copied(tracks, D, t)) \subseteq times
                   /\ \A n \in places : keys[n].prev = Previous(keys[n].time)
<1> DEFINE K == ToSet(keys)
<1>1. /\ keys \in Seq(SomeKey) /\ FullyInOrder(keys) /\ Follow(K) /\ K \subseteq ChannelKey(T, D)
      /\ \A t \in 0 .. T - 1 : ToSet(Copied(tracks, D, t)) \subseteq TimesOn(K, t)
      /\ \A n \in DOMAIN keys : keys[n] \in K
  BY DEF Serves, ToSet
<1>2. InOrder(keys)
  BY <1>1, FullyMeansInOrder
<1> HIDE DEF K
<1>3. ASSUME NEW t \in 0 .. T - 1, NEW n \in DOMAIN keys, keys[n].track = t
      PROVE  keys[n].prev = Max({-1} \cup {u \in TimesOn(K, t) : u < keys[n].time})
  <2>1. FollowsIn(K, keys[n])
    BY <1>1 DEF Follow
  <2>2. \A k \in K : k.prev \in Int /\ k.time \in Nat
    BY <1>1 DEF ChannelKey
  <2> DEFINE times == TimesOn(K, t)
             time == keys[n].time
             prev == keys[n].prev
  <2>3. times \subseteq Nat /\ time \in Int /\ prev \in Int
    BY <1>1, <2>2 DEF TimesOn
  <2>4. prev < time /\ (prev = -1 \/ prev \in times) /\ \A u \in times : u < time => u <= prev
    BY <1>3, <2>1 DEF FollowsIn
  <2> HIDE DEF times, time, prev
  <2>5. Max({-1} \cup {u \in times : u < time}) = prev
    BY <2>3, <2>4, FollowingIsGreatest
  <2> QED BY <2>5 DEF times, time, prev
<1>4. ASSUME NEW t \in 0 .. T - 1
      PROVE  LET places == {n \in DOMAIN keys : keys[n].track = t}
                 times  == {keys[n].time : n \in places}
                 Previous(time) == Max({-1} \cup {u \in times : u < time})
             IN  /\ ToSet(Copied(tracks, D, t)) \subseteq times
                 /\ \A n \in places : keys[n].prev = Previous(keys[n].time)
  <2> DEFINE times == {keys[n].time : n \in {m \in DOMAIN keys : keys[m].track = t}}
  <2>1. times = TimesOn(K, t)
    BY <1>1, TimesAre DEF K
  <2> HIDE DEF times
  <2>2. ToSet(Copied(tracks, D, t)) \subseteq times
    BY <1>1, <2>1
  <2>3. \A n \in {m \in DOMAIN keys : keys[m].track = t} :
           keys[n].prev = Max({-1} \cup {u \in times : u < keys[n].time})
    BY <1>3, <2>1
  <2> QED BY <2>2, <2>3 DEF times
<1> QED BY <1>2, <1>4

LEMMA IInvMeansChainIntact == IInv => ChainIntact
<1> SUFFICES ASSUME IInv, sorted # <<>>, NEW c \in 1 .. Channels
             PROVE  /\ InOrder(sorted[c])
                    /\ \A t \in 0 .. NumTracks - 1 :
                        LET keys  == {n \in DOMAIN sorted[c] : sorted[c][n].track = t}
                            times == {sorted[c][n].time : n \in keys}
                            Previous(time) == Max({-1} \cup {u \in times : u < time})
                        IN  /\ ToSet(CopyRaw(IF t \in DOMAIN raw.tracks THEN raw.tracks[t][c] ELSE <<>>,
                                             raw.duration)) \subseteq times
                            /\ \A n \in keys : sorted[c][n].prev = Previous(sorted[c][n].time)
  BY DEF ChainIntact
<1>1. pc \notin Unsorted /\ Linking /\ IsRaw(raw) /\ Validate(raw)
  BY DEF IInv, Kept, Linking
<1>2. NumTracks \in Nat /\ raw.duration \in Int /\ DOMAIN ChannelOf(c) = DOMAIN raw.tracks
  BY <1>1, RawIs
<1>3. Serves(sorted[c], ChannelOf(c), NumTracks, raw.duration)
  BY <1>1 DEF Linking
<1>4. \A t : Copied(ChannelOf(c), raw.duration, t)
             = CopyRaw(IF t \in DOMAIN raw.tracks THEN raw.tracks[t][c] ELSE <<>>, raw.duration)
  BY <1>2 DEF Copied, ChannelOf
<1> DEFINE keys == sorted[c]
           T == NumTracks
           D == raw.duration
           tracks == ChannelOf(c)
<1>5. T \in Nat /\ D \in Int /\ Serves(keys, tracks, T, D)
  BY <1>2, <1>3
<1> HIDE DEF keys, T, D, tracks
<1>6. /\ InOrder(keys)
      /\ \A t \in 0 .. T - 1 :
            LET places == {n \in DOMAIN keys : keys[n].track = t}
                times  == {keys[n].time : n \in places}
                Previous(time) == Max({-1} \cup {u \in times : u < time})
            IN  /\ ToSet(Copied(tracks, D, t)) \subseteq times
                /\ \A n \in places : keys[n].prev = Previous(keys[n].time)
  BY <1>5, ServesIsIntact
<1> QED BY <1>4, <1>6 DEF keys, T, D, tracks

LEMMA IInvMeansTypeOK == IInv => TypeOK
<1> SUFFICES ASSUME IInv PROVE TypeOK
  OBVIOUS
<1>1. /\ IsRaw(raw) /\ edits \in 0 .. MaxEdits /\ divs \in IFrameDivs
      /\ pc \in {"load", "import", "refused", "author", "sort", "frame", "write", "built", "failed"}
      /\ motion # <<>> => document # <<>>
      /\ pc # "built" <=> animation = Unbuilt
      /\ pc \in {"write", "built"} <=> streams # <<>>
  <2>1. motion # <<>> => document # <<>>
    <3>1. motion # <<>> => IsDocument(document)
      BY DEF IInv, Kept
    <3>2. IsDocument(document) => DOMAIN document # {}
      <4> DEFINE d == [nodes |-> document.nodes, scene |-> document.scene, skins |-> document.skins,
                       channels |-> document.channels, name |-> document.name]
      <4>1. DOMAIN d # {}
        <5>1. "nodes" \in DOMAIN d
          OBVIOUS
        <5> QED BY <5>1
      <4>2. IsDocument(document) => document = d
        BY DEF IsDocument
      <4> HIDE DEF d
      <4> QED BY <4>1, <4>2
    <3> QED BY <3>1, <3>2
  <2> QED BY <2>1 DEF IInv, Kept, Unsorted
<1>2. CASE pc \in Unsorted
  <2>1. sorted = <<>> /\ channel = 1
    BY <1>2 DEF IInv, Linking
  <2>2. channel \in 1 .. Channels
    BY <2>1, KeyStreamAssumption
  <2> QED BY <1>1, <1>2, <2>1, <2>2 DEF TypeOK, Unsorted
<1>3. CASE pc \notin Unsorted
  <2>1. /\ Linking /\ IsRaw(raw) /\ Validate(raw)
    BY <1>3 DEF IInv, Kept, Linking
  <2>2. NumTracks \in Nat /\ raw.duration \in Int
    BY <2>1, RawIs
  <2>3. /\ DOMAIN sorted = 1 .. Channels /\ channel \in 1 .. Channels
        /\ \A c \in 1 .. Channels : Serves(sorted[c], ChannelOf(c), NumTracks, raw.duration)
        /\ i \in 0 .. Len(sorted[channel])
        /\ previouses \in [0 .. NumTracks - 1 -> [first : Int, second : Int]]
        /\ \A t \in 0 .. NumTracks - 1 : LastTwo(sorted[channel], t, i, previouses[t])
    BY <1>3, <2>1 DEF Linking
  <2>4. sorted # <<>>
    <3> DEFINE s == sorted
    <3>1. DOMAIN s # {}
      BY <2>3
    <3> HIDE DEF s
    <3>2. s # <<>>
      BY <3>1
    <3> QED BY <3>2 DEF s
  <2>5. \A c \in 1 .. Channels : \A n \in DOMAIN sorted[c] : sorted[c][n] \in SortingKey
    BY <2>3 DEF Serves, ToSet, ChannelKey, SortingKey
  <2>6. ASSUME NEW t \in 0 .. NumTracks - 1
        PROVE  previouses[t] \in [first : -1 .. Len(sorted[channel]) - 1,
                                  second : -1 .. Len(sorted[channel]) - 1]
    <3> DEFINE previous == previouses[t]
               L == Len(sorted[channel])
    <3>1. L \in Nat
      <4>1. sorted[channel] \in Seq(SomeKey)
        BY <2>3 DEF Serves
      <4> QED BY <4>1
    <3>2. previous \in [first : Int, second : Int] /\ LastTwo(sorted[channel], t, i, previous)
      BY <2>3
    <3>3. i \in 0 .. L
      BY <2>3
    <3> HIDE DEF previous, L
    <3>4. previous.first \in -1 .. i - 1 /\ previous.first \in Int /\ previous.second \in Int
      BY <3>2 DEF LastTwo, LastAt
    <3>5. previous.second \in -1 .. previous.first - 1 \/ previous.second = -1
      BY <3>2 DEF LastTwo, LastAt
    <3>6. previous.first \in -1 .. L - 1 /\ previous.second \in -1 .. L - 1
      BY <3>1, <3>3, <3>4, <3>5
    <3>7. previous \in [first : -1 .. L - 1, second : -1 .. L - 1]
      BY <3>2, <3>6
    <3> QED BY <3>7 DEF previous, L
  <2>7. pc \notin {"load", "import", "refused", "author"}
    BY <1>3 DEF Unsorted
  <2> QED BY <1>1, <2>3, <2>4, <2>5, <2>6, <2>7 DEF TypeOK
<1> QED BY <1>2, <1>3

\* No key is ever outside its animation, no index outside its array: whatever is
\* authored or imported and however many keys are injected.
THEOREM BuilderTypeCorrect == Spec /\ []CutsAreWide => []TypeOK
<1>1. IInv /\ CutsAreWide /\ [Next]_vars => IInv'
  BY StepKeeps
<1> QED BY InitHolds, IInvMeansTypeOK, <1>1, PTL DEF Spec

\* However many keys are injected the chain of every track stays whole: the keys are in
\* order, no authored key is lost, and every key names the one before it.
THEOREM ChainsStayIntact == Spec /\ []CutsAreWide => []ChainIntact
<1>1. IInv /\ CutsAreWide /\ [Next]_vars => IInv'
  BY StepKeeps
<1> QED BY InitHolds, IInvMeansChainIntact, <1>1, PTL DEF Spec

-----------------------------------------------------------------------------
(* Ratios.                                                                 *)

LEMMA DivisionIs ==
  ASSUME NEW W \in Nat \ {0}, NEW q \in Nat, NEW r \in 0 .. W - 1
  PROVE  (q * W + r) \div W = q
<1> DEFINE k == q * W + r
           p == k \div W
<1>0. q * W \in Nat /\ k \in Nat
  OBVIOUS
<1>1. PICK a \in 0 .. W - 1 : p \in Nat /\ k = p * W + a
  BY <1>0, Divided
<1>2. q * W + r = p * W + a
  BY <1>1
<1> HIDE DEF k, p
<1>3. ASSUME NEW x \in Nat, NEW y \in Nat, NEW b \in 0 .. W - 1, NEW c \in 0 .. W - 1,
             x * W + b = y * W + c, x < y
      PROVE  FALSE
  <2>1. PICK d \in Nat : y = x + 1 + d
    BY <1>3, y - x - 1 \in Nat
  <2>2. y * W = x * W + W + d * W /\ d * W \in Nat /\ x * W \in Nat
    BY <2>1
  <2> QED BY <1>3, <2>2
<1>4. ~(q < p)
  BY <1>1, <1>2, <1>3
<1>5. ~(p < q)
  BY <1>1, <1>2, <1>3
<1> QED BY <1>1, <1>4, <1>5 DEF p, k

LEMMA RatioIs ==
  ASSUME NEW D \in Nat \ {0}
  PROVE  /\ \A time \in 0 .. D : RatioOf(time, D) \in 0 .. Full
         /\ RatioOf(0, D) = 0
         /\ \A t, u \in 0 .. D : t <= u => RatioOf(t, D) <= RatioOf(u, D)
<1> DEFINE W == 2 * D
           up(time) == 2 * time * Full + D
<1>0. W \in Nat \ {0} /\ D \in 0 .. W - 1 /\ Full \in Nat
  BY KeyStreamAssumption
<1>1. \A time : RatioOf(time, D) = up(time) \div W
  BY DEF RatioOf
<1>2. ASSUME NEW t \in 0 .. D, NEW u \in 0 .. D, t <= u
      PROVE  up(t) \in Nat /\ up(u) \in Nat /\ up(t) <= up(u)
  <2>1. PICK d \in Nat : u = t + d
    BY <1>2, u - t \in Nat
  <2>2. u * Full = t * Full + d * Full /\ d * Full \in Nat /\ t * Full \in Nat
    BY <1>0, <2>1
  <2>3. 2 * t * Full = 2 * (t * Full) /\ 2 * u * Full = 2 * (u * Full)
    BY <1>0
  <2> QED BY <2>2, <2>3
<1>3. up(0) = 0 * W + D /\ up(D) = Full * W + D
  <2>1. 0 * W = 0 /\ 2 * 0 * Full = 0
    BY <1>0
  <2>2. 2 * D * Full = Full * W
    BY <1>0
  <2> QED BY <2>1, <2>2
<1> HIDE DEF W, up
<1>4. up(0) \div W = 0 /\ up(D) \div W = Full
  <2>1. (0 * W + D) \div W = 0
    BY <1>0, 0 \in Nat, DivisionIs
  <2>2. (Full * W + D) \div W = Full
    BY <1>0, DivisionIs
  <2> QED BY <1>3, <2>1, <2>2
<1>5. ASSUME NEW t \in 0 .. D, NEW u \in 0 .. D, t <= u
      PROVE  up(t) \div W <= up(u) \div W
  BY <1>0, <1>2, <1>5, DivisionGrows
<1>6. ASSUME NEW time \in 0 .. D PROVE up(time) \div W \in 0 .. Full
  <2>1. up(time) \in Nat
    BY <1>2
  <2>2. up(time) \div W \in Nat
    BY <1>0, <2>1, Divided
  <2>3. up(time) \div W <= up(D) \div W
    BY <1>5
  <2> QED BY <1>0, <1>4, <2>2, <2>3
<1> QED BY <1>1, <1>4, <1>5, <1>6

-----------------------------------------------------------------------------
(* The last key of a track, and the keys that come first.                  *)

LEMMA LastExists ==
  ASSUME NEW keys, NEW t, NEW n \in Nat
  PROVE  \E p \in -1 .. n - 1 : LastAt(keys, t, n, p)
<1> DEFINE U == {m \in Nat : \A p \in -1 .. m - 1 : ~LastAt(keys, t, m, p)}
<1> SUFFICES ASSUME U # {} PROVE FALSE
  OBVIOUS
<1>1. PICK m \in U : \A k \in U : m <= k
  <2>1. U \subseteq Nat
    OBVIOUS
  <2> HIDE DEF U
  <2> QED BY <2>1, LeastNatural
<1>2. m \in Nat /\ \A p \in -1 .. m - 1 : ~LastAt(keys, t, m, p)
  OBVIOUS
<1>3. m # 0
  <2>1. LastAt(keys, t, 0, -1)
    BY DEF LastAt
  <2> QED BY <1>2, <2>1
<1> DEFINE k == m - 1
<1>4. k \in Nat /\ k + 1 = m /\ k \notin U
  BY <1>1, <1>2, <1>3
<1>5. PICK p \in -1 .. k - 1 : LastAt(keys, t, k, p)
  BY <1>4
<1> HIDE DEF U, k
<1>6. LastAt(keys, t, m, k) \/ LastAt(keys, t, m, p)
  BY <1>4, <1>5, OneMore
<1>7. k \in -1 .. m - 1 /\ p \in -1 .. m - 1
  BY <1>4
<1> QED BY <1>2, <1>6, <1>7

LEMMA LastOfIs ==
  ASSUME NEW keys, NEW t, NEW n \in Nat, NEW p, LastAt(keys, t, n, p)
  PROVE  LastOf(keys, t, n) = p
<1> DEFINE S == {-1} \cup {m - 1 : m \in {j \in 1 .. n : keys[j].track = t}}
<1>1. /\ p \in -1 .. n - 1 /\ p \in Int
      /\ p # -1 => keys[p + 1].track = t
      /\ \A m \in p + 1 .. n - 1 : keys[m + 1].track # t
  BY DEF LastAt
<1>2. p \in S
  <2>1. CASE p # -1
    <3>1. p + 1 \in 1 .. n /\ (p + 1) - 1 = p /\ keys[p + 1].track = t
      BY <1>1, <2>1
    <3> QED BY <3>1
  <2> QED BY <2>1
<1>3. ASSUME NEW u \in S PROVE u \in Int /\ p >= u
  <2>1. CASE u = -1
    BY <1>1, <2>1
  <2>2. CASE u # -1
    <3>1. PICK j \in 1 .. n : keys[j].track = t /\ u = j - 1
      BY <2>2
    <3>2. u \in 0 .. n - 1 /\ keys[u + 1].track = t
      <4>1. u + 1 = j
        BY <3>1
      <4> QED BY <3>1, <4>1
    <3>3. u \notin p + 1 .. n - 1
      BY <1>1, <3>2
    <3> QED BY <1>1, <3>2, <3>3
  <2> QED BY <2>1, <2>2
<1> HIDE DEF S
<1>4. \A x \in S : (\A u \in S : x >= u) => x = p
  BY <1>1, <1>2, <1>3
<1>5. Max(S) = p
  BY <1>2, <1>3, <1>4 DEF Max
<1>6. LastOf(keys, t, n) = Max(S)
  BY DEF LastOf, S
<1> QED BY <1>5, <1>6

\* In a sequence that is in order a key's place is the number of keys before it.
LEMMA PlaceIsRank ==
  ASSUME NEW keys \in Seq(SomeKey), FullyInOrder(keys), NEW n \in DOMAIN keys
  PROVE  /\ IsFiniteSet(Before(ToSet(keys), keys[n]))
         /\ Cardinality(Before(ToSet(keys), keys[n])) = n - 1
<1> DEFINE B == Before(ToSet(keys), keys[n])
           f == [m \in 1 .. n - 1 |-> keys[m]]
<1>0. n \in Nat /\ n >= 1 /\ n <= Len(keys) /\ \A m \in 1 .. n - 1 : m \in DOMAIN keys /\ m < n
  OBVIOUS
<1>1. \A m \in DOMAIN keys : keys[m] \in SomeKey
  OBVIOUS
<1>2. \A m \in 1 .. n - 1 : keys[m] \in B
  BY <1>0 DEF Before, ToSet, FullyInOrder
<1>3. ASSUME NEW k \in B PROVE \E m \in 1 .. n - 1 : keys[m] = k
  <2>1. PICK m \in DOMAIN keys : keys[m] = k /\ SortingKeyLess(keys[m], keys[n])
    BY DEF Before, ToSet
  <2>2. ~SortingKeyLess(keys[n], keys[m])
    BY <1>1, <2>1, Ordering
  <2>3. m # n
    BY <2>1, <2>2
  <2>4. ~(n < m)
    BY <2>2 DEF FullyInOrder
  <2>5. m \in 1 .. n - 1
    BY <2>3, <2>4
  <2> QED BY <2>1, <2>5
<1>4. \A a, b \in 1 .. n - 1 : keys[a] = keys[b] => a = b
  <2> SUFFICES ASSUME NEW a \in 1 .. n - 1, NEW b \in 1 .. n - 1, keys[a] = keys[b] PROVE a = b
    OBVIOUS
  <2>1. SamePlace(keys[a], keys[b])
    BY DEF SamePlace
  <2> QED BY <1>0, <2>1, OrderedApart
<1> HIDE DEF B
<1>5. f \in Surjection(1 .. n - 1, B) /\ f \in Injection(1 .. n - 1, B)
  BY <1>2, <1>3, <1>4 DEF Surjection, Injection, IsInjective
<1>6. IsFiniteSet(1 .. n - 1) /\ Cardinality(1 .. n - 1) = n - 1
  <2>1. 1 \in Int /\ n - 1 \in Int /\ (IF 1 > n - 1 THEN 0 ELSE ((n - 1) - 1) + 1) = n - 1
    BY <1>0
  <2> QED BY <2>1, FS_Interval
<1> HIDE DEF f
<1>7. IsFiniteSet(B)
  BY <1>5, <1>6, FS_Surjection
<1>8. Cardinality(B) <= n - 1 /\ n - 1 <= Cardinality(B)
  BY <1>5, <1>6, <1>7, FS_Surjection, FS_Injection
<1>9. Cardinality(B) \in Nat
  BY <1>7, FS_CardinalityType
<1>10. Cardinality(B) = n - 1
  BY <1>0, <1>8, <1>9
<1> QED BY <1>7, <1>10 DEF B

\* Keys with none between them and none before them are where they are counted.
LEMMA FirstPlaces ==
  ASSUME NEW keys \in Seq(SomeKey), FullyInOrder(keys), NEW N \in Nat,
         NEW o \in [0 .. N - 1 -> ToSet(keys)],
         \A a, b \in 0 .. N - 1 : o[a] = o[b] => a = b,
         \A m \in 0 .. N - 1 : Before(ToSet(keys), o[m]) = {o[j] : j \in 0 .. m - 1}
  PROVE  \A m \in 0 .. N - 1 : m + 1 \in DOMAIN keys /\ keys[m + 1] = o[m]
<1> SUFFICES ASSUME NEW m \in 0 .. N - 1
             PROVE  m + 1 \in DOMAIN keys /\ keys[m + 1] = o[m]
  OBVIOUS
<1> DEFINE B == {o[j] : j \in 0 .. m - 1}
           f == [j \in 0 .. m - 1 |-> o[j]]
<1>1. PICK n \in DOMAIN keys : keys[n] = o[m]
  BY DEF ToSet
<1>2. IsFiniteSet(B) /\ Cardinality(B) = n - 1
  BY <1>1, PlaceIsRank
<1>3. \A j \in 0 .. m - 1 : j \in 0 .. N - 1
  OBVIOUS
<1>4. f \in Surjection(0 .. m - 1, B) /\ f \in Injection(0 .. m - 1, B)
  BY <1>3 DEF Surjection, Injection, IsInjective
<1>5. IsFiniteSet(0 .. m - 1) /\ Cardinality(0 .. m - 1) = m
  <2>1. 0 \in Int /\ m - 1 \in Int /\ (IF 0 > m - 1 THEN 0 ELSE ((m - 1) - 0) + 1) = m
    OBVIOUS
  <2> QED BY <2>1, FS_Interval
<1> HIDE DEF f, B
<1>6. Cardinality(B) <= m /\ m <= Cardinality(B)
  BY <1>2, <1>4, <1>5, FS_Surjection, FS_Injection
<1>7. n \in Nat /\ n = m + 1
  BY <1>2, <1>6
<1> QED BY <1>1, <1>7

\* The first two keys of track t.
Opens(keys, T, t) ==
    /\ t + 1 \in DOMAIN keys /\ T + t + 1 \in DOMAIN keys
    /\ keys[t + 1].track = t /\ keys[t + 1].prev = -1 /\ keys[t + 1].time = 0
    /\ keys[T + t + 1].track = t /\ keys[T + t + 1].prev = 0

LEMMA FirstKey ==
  ASSUME NEW T \in Nat, NEW D \in Int, D > 0, NEW K, K \subseteq ChannelKey(T, D), Follow(K),
         NEW t \in 0 .. T - 1, {0, D} \subseteq TimesOn(K, t)
  PROVE  /\ \E k \in K : k.track = t /\ k.prev = -1
         /\ \E k \in K : k.track = t /\ k.prev = 0
         /\ \A k \in K : k.track = t /\ k.prev = -1 => k.time = 0
<1>0. \A k \in K : k.prev \in Int /\ -1 <= k.prev /\ k.time \in Nat /\ k.track \in 0 .. T - 1
  BY DEF ChannelKey
<1>1. \E k \in K : k.track = t /\ k.prev = -1
  <2>1. PICK k \in K : k.track = t /\ k.time = 0
    BY DEF TimesOn
  <2>2. k.prev < 0
    BY <2>1 DEF Follow, FollowsIn
  <2>3. k.prev = -1
    BY <1>0, <2>2
  <2> QED BY <2>1, <2>3
<1>2. \E k \in K : k.track = t /\ k.prev = 0
  <2> DEFINE U == {u \in Nat : u > 0 /\ u \in TimesOn(K, t)}
  <2>1. PICK u \in U : \A v \in U : u <= v
    <3>1. U \subseteq Nat /\ D \in U
      OBVIOUS
    <3> HIDE DEF U
    <3> QED BY <3>1, LeastNatural
  <2>2. PICK k \in K : k.track = t /\ k.time = u
    BY DEF TimesOn
  <2>3. FollowsIn(K, k) /\ u \in Nat /\ u > 0
    BY DEF Follow
  <2>4. 0 <= k.prev /\ k.prev < u
    BY <2>2, <2>3 DEF FollowsIn
  <2>5. k.prev \in Nat /\ k.prev # -1
    BY <1>0, <2>4
  <2>6. k.prev \in TimesOn(K, t)
    BY <2>2, <2>3, <2>5 DEF FollowsIn
  <2>7. k.prev > 0 => k.prev \in U
    BY <2>5, <2>6
  <2> HIDE DEF U
  <2>8. k.prev > 0 => u <= k.prev
    BY <2>1, <2>7
  <2>9. k.prev = 0
    BY <2>3, <2>4, <2>5, <2>8
  <2> QED BY <2>2, <2>9
<1>3. ASSUME NEW k \in K, k.track = t, k.prev = -1 PROVE k.time = 0
  <2>1. FollowsIn(K, k) /\ 0 \in TimesOn(K, t)
    BY DEF Follow
  <2>2. 0 < k.time => 0 <= -1
    BY <1>3, <2>1 DEF FollowsIn
  <2> QED BY <1>0, <2>2
<1> QED BY <1>1, <1>2, <1>3

LEMMA OpeningKeys ==
  ASSUME NEW T \in Nat, NEW D \in Int, D > 0, NEW tracks, NEW keys, Serves(keys, tracks, T, D)
  PROVE  \A t \in 0 .. T - 1 : Opens(keys, T, t)
<1> DEFINE K == ToSet(keys)
           Track(m) == IF m < T THEN m ELSE m - T
           Prev(m) == IF m < T THEN -1 ELSE 0
           At(m) == CHOOSE k \in K : k.track = Track(m) /\ k.prev = Prev(m)
           N == 2 * T
           o == [m \in 0 .. N - 1 |-> At(m)]
<1>1. /\ keys \in Seq(SomeKey) /\ FullyInOrder(keys) /\ Follow(K) /\ K \subseteq ChannelKey(T, D)
      /\ \A t \in 0 .. T - 1 : {0, D} \subseteq TimesOn(K, t)
  BY DEF Serves
<1>2. Apart(K)
  BY <1>1, OrderedApart
<1> HIDE DEF K
<1>3. \A k \in K : k.prev \in Int /\ -1 <= k.prev /\ k.track \in 0 .. T - 1
  BY <1>1 DEF ChannelKey
<1>4. ASSUME NEW m \in 0 .. N - 1
      PROVE  /\ Track(m) \in 0 .. T - 1 /\ Prev(m) \in {-1, 0}
             /\ At(m) \in K /\ At(m).track = Track(m) /\ At(m).prev = Prev(m)
  <2>1. Track(m) \in 0 .. T - 1 /\ Prev(m) \in {-1, 0}
    OBVIOUS
  <2>2. \E k \in K : k.track = Track(m) /\ k.prev = Prev(m)
    <3> DEFINE t == Track(m)
    <3>1. t \in 0 .. T - 1 /\ {0, D} \subseteq TimesOn(K, t)
      BY <1>1, <2>1
    <3> HIDE DEF t
    <3>2. /\ \E k \in K : k.track = t /\ k.prev = -1
          /\ \E k \in K : k.track = t /\ k.prev = 0
      BY <1>1, <3>1, FirstKey
    <3> QED BY <3>2, <2>1 DEF t
  <2> HIDE DEF Track, Prev
  <2> QED BY <2>1, <2>2
<1>5. \A m \in 0 .. N - 1 : o[m] = At(m)
  OBVIOUS
<1>6. o \in [0 .. N - 1 -> K]
  <2> HIDE DEF At
  <2> QED BY <1>4
<1> HIDE DEF o, At
<1>7. ASSUME NEW a \in 0 .. N - 1, NEW b \in 0 .. N - 1, o[a] = o[b] PROVE a = b
  <2>1. Track(a) = Track(b) /\ Prev(a) = Prev(b)
    BY <1>4, <1>5, <1>7
  <2> QED BY <2>1
<1>8. ASSUME NEW m \in 0 .. N - 1 PROVE Before(K, o[m]) = {o[j] : j \in 0 .. m - 1}
  <2>0. o[m] \in K /\ o[m].track = Track(m) /\ o[m].prev = Prev(m)
    BY <1>4, <1>5
  <2>1. ASSUME NEW j \in 0 .. m - 1 PROVE o[j] \in Before(K, o[m])
    <3>1. j \in 0 .. N - 1 /\ j < m
      OBVIOUS
    <3>2. o[j] \in K /\ o[j].track = Track(j) /\ o[j].prev = Prev(j)
      BY <1>4, <1>5, <3>1
    <3>3. Prev(j) < Prev(m) \/ (Prev(j) = Prev(m) /\ Track(j) < Track(m))
      BY <3>1
    <3> HIDE DEF Track, Prev
    <3> QED BY <2>0, <3>2, <3>3 DEF Before, SortingKeyLess
  <2>2. ASSUME NEW k \in Before(K, o[m]) PROVE \E j \in 0 .. m - 1 : k = o[j]
    <3>1. k \in K /\ (k.prev < Prev(m) \/ (k.prev = Prev(m) /\ k.track < Track(m)))
      BY <2>0 DEF Before, SortingKeyLess
    <3>2. k.prev \in Int /\ -1 <= k.prev /\ k.track \in 0 .. T - 1
      BY <1>3, <3>1
    <3> DEFINE j == IF k.prev = -1 THEN k.track ELSE T + k.track
    <3>3. j \in 0 .. m - 1 /\ k.track = Track(j) /\ k.prev = Prev(j)
      <4> DEFINE x == k.prev
                 y == k.track
      <4>1. x \in Int /\ -1 <= x /\ y \in 0 .. T - 1 /\ (x < Prev(m) \/ (x = Prev(m) /\ y < Track(m)))
        BY <3>1, <3>2
      <4> HIDE DEF x, y
      <4>2. CASE x = -1
        <5>1. y \in 0 .. m - 1 /\ y = Track(y) /\ x = Prev(y)
          BY <4>1, <4>2
        <5> QED BY <4>2, <5>1 DEF x, y
      <4>3. CASE x # -1
        <5>1. x = 0 /\ ~(m < T) /\ y < m - T
          BY <4>1, <4>3
        <5>2. T + y \in 0 .. m - 1 /\ y = Track(T + y) /\ x = Prev(T + y)
          BY <4>1, <5>1
        <5> QED BY <4>3, <5>2 DEF x, y
      <4> QED BY <4>2, <4>3
    <3> HIDE DEF j, Track, Prev
    <3>4. j \in 0 .. N - 1
      BY <3>3
    <3>5. o[j] \in K /\ SamePlace(k, o[j])
      BY <1>4, <1>5, <3>3, <3>4 DEF SamePlace
    <3>6. k = o[j]
      BY <1>2, <3>1, <3>5 DEF Apart
    <3> QED BY <3>3, <3>6
  <2> QED BY <2>1, <2>2
<1>9. N \in Nat
  OBVIOUS
<1>10. \A m \in 0 .. N - 1 : m + 1 \in DOMAIN keys /\ keys[m + 1] = o[m]
  <2> HIDE DEF N
  <2> QED BY <1>1, <1>6, <1>7, <1>8, <1>9, FirstPlaces DEF K
<1>11. ASSUME NEW t \in 0 .. T - 1 PROVE Opens(keys, T, t)
  <2>1. t \in 0 .. N - 1 /\ T + t \in 0 .. N - 1
    OBVIOUS
  <2>2. Track(t) = t /\ Prev(t) = -1 /\ Track(T + t) = t /\ Prev(T + t) = 0
    OBVIOUS
  <2>3. /\ t + 1 \in DOMAIN keys /\ T + t + 1 \in DOMAIN keys
        /\ keys[t + 1] = o[t] /\ keys[T + t + 1] = o[T + t]
    BY <1>10, <2>1
  <2> HIDE DEF Track, Prev
  <2>4. /\ o[t] \in K /\ o[t].track = t /\ o[t].prev = -1
        /\ o[T + t].track = t /\ o[T + t].prev = 0
    BY <1>4, <1>5, <2>1, <2>2
  <2>5. o[t].time = 0
    <3>1. {0, D} \subseteq TimesOn(K, t)
      BY <1>1
    <3> QED BY <1>1, <2>4, <3>1, FirstKey
  <2> QED BY <2>3, <2>4, <2>5 DEF Opens
<1> QED BY <1>11

\* The key at place k follows the one at place p of its track.
FollowsAt(keys, k, p) ==
    /\ p \in 0 .. k - 1 /\ keys[p + 1].track = keys[k + 1].track
    /\ keys[k + 1].prev = keys[p + 1].time

\* All keys but the first of each track follow one.
LEMMA LaterFollow ==
  ASSUME NEW T \in Nat \ {0}, NEW D \in Int, D > 0, NEW tracks, NEW keys, Serves(keys, tracks, T, D),
         NEW k \in T .. Len(keys) - 1, NEW p, LastAt(keys, keys[k + 1].track, k, p)
  PROVE  FollowsAt(keys, k, p)
<1>1. /\ keys \in Seq(SomeKey) /\ FullyInOrder(keys)
      /\ k \in 0 .. Len(keys) - 1 /\ k + 1 \in DOMAIN keys /\ k + 1 > T /\ k \in Nat
  BY DEF Serves
<1>2. keys[k + 1].track \in 0 .. T - 1
  <2>1. keys[k + 1] \in ChannelKey(T, D)
    BY <1>1 DEF Serves, ToSet
  <2> QED BY <2>1 DEF ChannelKey
<1>3. Opens(keys, T, T - 1)
  <2>1. T - 1 \in 0 .. T - 1
    OBVIOUS
  <2> QED BY <2>1, OpeningKeys
<1>4. T \in DOMAIN keys /\ keys[T].prev = -1 /\ keys[T].track = T - 1
  <2>1. (T - 1) + 1 = T
    OBVIOUS
  <2> QED BY <1>3, <2>1 DEF Opens
<1>5. SortingKeyLess(keys[T], keys[k + 1])
  BY <1>1, <1>4 DEF FullyInOrder
<1>6. keys[k + 1].prev # -1
  BY <1>2, <1>4, <1>5 DEF SortingKeyLess
<1>7. IsLink(keys, k, p)
  BY <1>1, LinkedBack
<1>8. p # -1
  BY <1>6, <1>7 DEF IsLink
<1>9. p \in 0 .. k - 1 /\ keys[p + 1].track = keys[k + 1].track
  BY <1>1, <1>8 DEF LastAt
<1> QED BY <1>7, <1>8, <1>9 DEF IsLink, FollowsAt

-----------------------------------------------------------------------------
(* Iframes.                                                                *)

\* The caches of a sampler that has read the opening keys, and maybe more.
Frames(keys, T) ==
    {frame \in [entries : [0 .. T - 1 -> 0 .. Len(keys) - 1], last : 0 .. Len(keys) - 1] :
        /\ frame.last >= 2 * T - 1
        /\ \A t \in 0 .. T - 1 : LastAt(keys, t, frame.last + 1, frame.entries[t])}

LEMMA FrameIs ==
  ASSUME NEW T \in Nat \ {0}, NEW D \in Int, D > 0, NEW tracks, NEW keys, Serves(keys, tracks, T, D),
         NEW time, NEW parts, ~(BuildIFrame(keys, T, time, parts).last <= OpeningLast(T))
  PROVE  BuildIFrame(keys, T, time, parts) \in Frames(keys, T)
<1> DEFINE S == {m \in DOMAIN keys : keys[m].prev * parts <= time}
           n == Cardinality(S)
           entries == [t \in 0 .. T - 1 |-> LastOf(keys, t, n)]
           frame == [entries |-> entries, last |-> n - 1]
<1>1. BuildIFrame(keys, T, time, parts) = frame
  BY DEF BuildIFrame
<1>2. keys \in Seq(SomeKey) /\ Len(keys) \in Nat /\ DOMAIN keys = 1 .. Len(keys)
  BY DEF Serves
<1>3. n \in 0 .. Len(keys)
  <2>1. S \in SUBSET (1 .. Len(keys))
    BY <1>2
  <2>2. IsFiniteSet(1 .. Len(keys)) /\ Cardinality(1 .. Len(keys)) = Len(keys)
    <3> DEFINE L == Len(keys)
    <3>1. L \in Nat
      BY <1>2
    <3> HIDE DEF L
    <3>2. 1 \in Int /\ L \in Int /\ (IF 1 > L THEN 0 ELSE (L - 1) + 1) = L
      BY <3>1
    <3>3. IsFiniteSet(1 .. L) /\ Cardinality(1 .. L) = L
      BY <3>2, FS_Interval
    <3> QED BY <3>3 DEF L
  <2> HIDE DEF S
  <2>3. IsFiniteSet(S) /\ n <= Len(keys)
    BY <2>1, <2>2, FS_Subset
  <2>4. n \in Nat
    BY <2>3, FS_CardinalityType
  <2> QED BY <1>2, <2>3, <2>4
<1> HIDE DEF S, n
<1>4. n \in Nat /\ n - 1 >= 2 * T /\ n - 1 \in 0 .. Len(keys) - 1
  <2>1. ~(n - 1 <= T * 2 - 1)
    BY <1>1 DEF OpeningLast
  <2>2. n \in Nat /\ n <= Len(keys)
    BY <1>2, <1>3
  <2> QED BY <1>2, <2>1, <2>2
<1>5. ASSUME NEW t \in 0 .. T - 1
      PROVE  LastAt(keys, t, n, LastOf(keys, t, n)) /\ LastOf(keys, t, n) \in 0 .. Len(keys) - 1
  <2>1. PICK p \in -1 .. n - 1 : LastAt(keys, t, n, p)
    BY <1>4, LastExists
  <2>2. LastOf(keys, t, n) = p
    BY <1>4, <2>1, LastOfIs
  <2>3. p # -1
    <3>1. keys[t + 1].track = t
      BY OpeningKeys DEF Opens
    <3>2. p = -1 => t \in p + 1 .. n - 1
      BY <1>4
    <3> QED BY <2>1, <3>1, <3>2 DEF LastAt
  <2>4. p \in 0 .. Len(keys) - 1
    BY <1>4, <2>1, <2>3
  <2> QED BY <2>1, <2>2, <2>4
<1>6. entries \in [0 .. T - 1 -> 0 .. Len(keys) - 1]
  BY <1>5
<1>7. \A t \in 0 .. T - 1 : LastAt(keys, t, n, entries[t])
  BY <1>5
<1> HIDE DEF entries
<1>8. n - 1 + 1 = n /\ n - 1 >= 2 * T - 1
  BY <1>4
<1>9. frame \in Frames(keys, T)
  <2>1. frame.entries = entries /\ frame.last = n - 1
    OBVIOUS
  <2>2. frame \in [entries : [0 .. T - 1 -> 0 .. Len(keys) - 1], last : 0 .. Len(keys) - 1]
    BY <1>4, <1>6
  <2> HIDE DEF frame
  <2> QED BY <1>7, <1>8, <2>1, <2>2 DEF Frames
<1> QED BY <1>1, <1>9

\* One more part of the animation.
TakenAt(keys, T, D, parts, n, taken) ==
    LET iframe == BuildIFrame(keys, T, D * n, parts)
    IN  IF \/ iframe.last <= OpeningLast(T)
           \/ taken # <<>> /\ iframe.last <= Last(taken).last
        THEN taken ELSE Append(taken, iframe)

Takes(f, keys, T, D, parts, m) ==
    f = [n \in 0 .. m |-> IF n = 0 THEN <<>> ELSE TakenAt(keys, T, D, parts, n, f[n - 1])]

LEMMA TakesExists ==
  ASSUME NEW keys, NEW T, NEW D, NEW parts, NEW m \in Nat
  PROVE  \E f : Takes(f, keys, T, D, parts, m)
<1> DEFINE U == {n \in Nat : \A f : ~Takes(f, keys, T, D, parts, n)}
<1> SUFFICES ASSUME U # {} PROVE FALSE
  OBVIOUS
<1>1. PICK n \in U : \A k \in U : n <= k
  <2>1. U \subseteq Nat
    OBVIOUS
  <2> HIDE DEF U
  <2> QED BY <2>1, LeastNatural
<1>2. n \in Nat /\ \A f : ~Takes(f, keys, T, D, parts, n)
  OBVIOUS
<1>3. n # 0
  <2> DEFINE f == [k \in 0 .. 0 |-> <<>>]
  <2>1. f = [k \in 0 .. 0 |-> IF k = 0 THEN <<>> ELSE TakenAt(keys, T, D, parts, k, f[k - 1])]
    OBVIOUS
  <2> HIDE DEF f
  <2>2. Takes(f, keys, T, D, parts, 0)
    BY <2>1 DEF Takes
  <2> QED BY <1>2, <2>2
<1>4. n - 1 \in Nat /\ n - 1 \notin U
  BY <1>1, <1>2, <1>3
<1>5. PICK f : Takes(f, keys, T, D, parts, n - 1)
  BY <1>4
<1> HIDE DEF U
<1>6. \A k \in 0 .. n - 1 :
         f[k] = IF k = 0 THEN <<>> ELSE TakenAt(keys, T, D, parts, k, f[k - 1])
  BY <1>5 DEF Takes
<1> DEFINE g == [k \in 0 .. n |-> IF k < n THEN f[k] ELSE TakenAt(keys, T, D, parts, n, f[n - 1])]
<1>7. ASSUME NEW k \in 0 .. n
      PROVE  g[k] = IF k = 0 THEN <<>> ELSE TakenAt(keys, T, D, parts, k, g[k - 1])
  <2>1. k # 0 => k - 1 \in 0 .. n /\ k - 1 < n /\ g[k - 1] = f[k - 1]
    BY <1>2
  <2>2. CASE k < n
    <3>1. g[k] = f[k] /\ k \in 0 .. n - 1
      BY <1>2, <2>2
    <3> HIDE DEF g
    <3> QED BY <1>6, <2>1, <3>1
  <2>3. CASE ~(k < n)
    <3>1. k = n /\ g[k] = TakenAt(keys, T, D, parts, n, f[n - 1])
      BY <1>2, <2>3
    <3> HIDE DEF g
    <3> QED BY <1>3, <2>1, <3>1
  <2> QED BY <2>2, <2>3
<1>8. g = [k \in 0 .. n |-> g[k]]
  OBVIOUS
<1> HIDE DEF g
<1>9. Takes(g, keys, T, D, parts, n)
  BY <1>7, <1>8 DEF Takes
<1> QED BY <1>2, <1>9

LEMMA TakenAre ==
  ASSUME NEW T \in Nat \ {0}, NEW D \in Int, D > 0, NEW tracks, NEW keys, Serves(keys, tracks, T, D),
         NEW parts, NEW m \in Nat, NEW f, Takes(f, keys, T, D, parts, m)
  PROVE  \A n \in 0 .. m : f[n] \in Seq(Frames(keys, T))
<1> DEFINE U == {n \in Nat : n <= m /\ f[n] \notin Seq(Frames(keys, T))}
<1> SUFFICES ASSUME U # {} PROVE FALSE
  OBVIOUS
<1>1. PICK n \in U : \A k \in U : n <= k
  <2>1. U \subseteq Nat
    OBVIOUS
  <2> HIDE DEF U
  <2> QED BY <2>1, LeastNatural
<1>2. n \in Nat /\ n <= m /\ f[n] \notin Seq(Frames(keys, T)) /\ n \in 0 .. m
  OBVIOUS
<1>3. \A k \in 0 .. m : f[k] = IF k = 0 THEN <<>> ELSE TakenAt(keys, T, D, parts, k, f[k - 1])
  BY DEF Takes
<1>4. n # 0
  <2> SUFFICES ASSUME n = 0 PROVE FALSE
    OBVIOUS
  <2> DEFINE F == Frames(keys, T)
  <2>1. f[n] = <<>> /\ f[n] \notin Seq(F)
    BY <1>2, <1>3
  <2> HIDE DEF F
  <2> QED BY <2>1
<1> DEFINE taken == f[n - 1]
           iframe == BuildIFrame(keys, T, D * n, parts)
<1>5. taken \in Seq(Frames(keys, T))
  <2>1. n - 1 \in Nat /\ n - 1 <= m /\ n - 1 \notin U
    BY <1>1, <1>2, <1>4
  <2> QED BY <2>1
<1>6. f[n] = TakenAt(keys, T, D, parts, n, taken)
  BY <1>2, <1>3, <1>4
<1> HIDE DEF U, taken
<1>7. f[n] = taken \/ (~(iframe.last <= OpeningLast(T)) /\ f[n] = Append(taken, iframe))
  BY <1>6 DEF TakenAt
<1>8. ~(iframe.last <= OpeningLast(T)) => iframe \in Frames(keys, T)
  BY FrameIs
<1> HIDE DEF iframe
<1>9. f[n] \in Seq(Frames(keys, T))
  <2> DEFINE F == Frames(keys, T)
  <2>1. iframe \in F => Append(taken, iframe) \in Seq(F)
    <3> HIDE DEF F
    <3> QED BY <1>5 DEF F
  <2> QED BY <1>5, <1>7, <1>8, <2>1
<1> QED BY <1>2, <1>9

LEMMA FramesAre ==
  ASSUME NEW T \in Nat \ {0}, NEW D \in Int, D > 0, NEW tracks, NEW keys, Serves(keys, tracks, T, D),
         NEW parts \in Nat
  PROVE  BuildIFrames(keys, T, D, parts) \in Seq(Frames(keys, T))
<1> DEFINE f == CHOOSE f : Takes(f, keys, T, D, parts, parts)
<1>1. Takes(f, keys, T, D, parts, parts)
  BY TakesExists
<1>2. BuildIFrames(keys, T, D, parts) = f[parts]
  BY DEF BuildIFrames, Takes, TakenAt
<1> HIDE DEF f
<1>3. \A n \in 0 .. parts : f[n] \in Seq(Frames(keys, T))
  BY <1>1, TakenAre
<1>4. parts \in 0 .. parts
  OBVIOUS
<1> QED BY <1>2, <1>3, <1>4

-----------------------------------------------------------------------------
(* What the keys are compressed to.                                        *)

\* Times that are apart stay apart as ratios.
StayApart(keys, D) ==
    \A m, n \in DOMAIN keys :
        keys[m].time # keys[n].time => RatioOf(keys[m].time, D) # RatioOf(keys[n].time, D)

\* The runtime arrays of a channel are what the sampler relies on.
LEMMA CompressedIsWellFormed ==
  ASSUME NEW T \in Nat \ {0}, NEW D \in Int, D > 0, NEW tracks, NEW keys, Serves(keys, tracks, T, D),
         NEW iframes \in Seq(Frames(keys, T)), StayApart(keys, D)
  PROVE  WellFormed(Compress(keys, T, D, iframes))
<1> DEFINE s == Compress(keys, T, D, iframes)
           N == Len(keys)
           PreviousOf(k) == LET before == LastOf(keys, keys[k + 1].track, k)
                            IN  IF before = -1 THEN 0 ELSE k - before
<1>1. /\ s.tracks = T /\ s.keys = N /\ s.iframes = iframes
      /\ s.ratio = [k \in 0 .. N - 1 |-> RatioOf(keys[k + 1].time, D)]
      /\ s.track = [k \in 0 .. N - 1 |-> keys[k + 1].track]
      /\ s.previous = [k \in 0 .. N - 1 |-> PreviousOf(k)]
  BY DEF Compress
<1> HIDE DEF s
<1>2. /\ keys \in Seq(SomeKey) /\ FullyInOrder(keys) /\ N \in Nat
      /\ ToSet(keys) \subseteq ChannelKey(T, D) /\ Follow(ToSet(keys))
      /\ \A k \in 0 .. N - 1 : k + 1 \in DOMAIN keys /\ keys[k + 1] \in ToSet(keys)
  BY DEF Serves, ToSet
<1>3. \A k \in 0 .. N - 1 :
         /\ keys[k + 1].track \in 0 .. T - 1 /\ keys[k + 1].time \in 0 .. D
         /\ keys[k + 1].prev \in -1 .. D - 1 /\ keys[k + 1].prev < keys[k + 1].time
  BY <1>2 DEF ChannelKey, Follow, FollowsIn
<1>4. \A t \in 0 .. T - 1 : Opens(keys, T, t)
  BY OpeningKeys
<1> HIDE DEF N, PreviousOf
<1>5. N >= 2 * T
  <2>1. T + (T - 1) + 1 \in DOMAIN keys /\ T + (T - 1) + 1 = 2 * T
    <3>1. T - 1 \in 0 .. T - 1
      OBVIOUS
    <3>2. Opens(keys, T, T - 1)
      BY <1>4, <3>1
    <3>3. T + (T - 1) + 1 \in DOMAIN keys
      BY <3>2 DEF Opens
    <3>4. T + (T - 1) + 1 = 2 * T
      OBVIOUS
    <3> QED BY <3>3, <3>4
  <2>2. 2 * T \in DOMAIN keys
    BY <2>1
  <2> QED BY <1>2, <2>2 DEF N
\* The last key of its track before k, and how far it is.
<1>6. ASSUME NEW k \in 0 .. N - 1
      PROVE  \E p \in -1 .. k - 1 :
                /\ LastAt(keys, keys[k + 1].track, k, p)
                /\ PreviousOf(k) = IF p = -1 THEN 0 ELSE k - p
  <2>1. k \in Nat
    BY <1>2
  <2>2. PICK p \in -1 .. k - 1 : LastAt(keys, keys[k + 1].track, k, p)
    BY <2>1, LastExists
  <2>3. LastOf(keys, keys[k + 1].track, k) = p
    BY <2>1, <2>2, LastOfIs
  <2> QED BY <2>2, <2>3 DEF PreviousOf
<1>7. ASSUME NEW k \in 0 .. N - 1 PROVE PreviousOf(k) \in Nat /\ PreviousOf(k) <= k
  <2>1. PICK p \in -1 .. k - 1 : PreviousOf(k) = IF p = -1 THEN 0 ELSE k - p
    BY <1>6
  <2> QED BY <1>2, <2>1
\* All keys but the first of each track have one before them.
<1>8. ASSUME NEW k \in T .. N - 1
      PROVE  /\ PreviousOf(k) > 0 /\ k - PreviousOf(k) \in 0 .. k - 1
             /\ LastAt(keys, keys[k + 1].track, k, k - PreviousOf(k))
             /\ keys[k - PreviousOf(k) + 1].track = keys[k + 1].track
             /\ keys[k + 1].prev = keys[k - PreviousOf(k) + 1].time
  <2>0. k \in 0 .. N - 1 /\ k \in Nat
    BY <1>2
  <2>1. PICK p \in -1 .. k - 1 :
           /\ LastAt(keys, keys[k + 1].track, k, p)
           /\ PreviousOf(k) = IF p = -1 THEN 0 ELSE k - p
    BY <1>6, <2>0
  <2>2. k \in T .. Len(keys) - 1 /\ LastAt(keys, keys[k + 1].track, k, p)
    BY <2>1 DEF N
  <2>3. /\ p \in 0 .. k - 1 /\ keys[p + 1].track = keys[k + 1].track
        /\ keys[k + 1].prev = keys[p + 1].time
    <3>1. FollowsAt(keys, k, p)
      BY <2>2, LaterFollow
    <3> QED BY <3>1 DEF FollowsAt
  <2>4. PreviousOf(k) > 0 /\ k - PreviousOf(k) = p
    BY <2>0, <2>1, <2>3
  <2> QED BY <2>1, <2>3, <2>4
<1>9. /\ \A time \in 0 .. D : RatioOf(time, D) \in 0 .. Full
      /\ RatioOf(0, D) = 0
      /\ \A t, u \in 0 .. D : t <= u => RatioOf(t, D) <= RatioOf(u, D)
  <2>1. D \in Nat \ {0}
    OBVIOUS
  <2> QED BY <2>1, RatioIs
<1>10. Keys(s) = 0 .. N - 1 /\ Tracks(s) = 0 .. T - 1
  BY <1>1 DEF Keys, Tracks
<1>11. IsStream(s)
  <2>1. s.ratio \in [0 .. N - 1 -> 0 .. Full]
    BY <1>1, <1>3, <1>9
  <2>2. s.previous \in [0 .. N - 1 -> Nat]
    BY <1>1, <1>7
  <2>3. s.track \in [0 .. N - 1 -> 0 .. T - 1]
    BY <1>1, <1>3
  <2>4. ASSUME NEW f \in DOMAIN iframes
        PROVE  /\ iframes[f].entries \in [0 .. T - 1 -> 0 .. N - 1]
               /\ iframes[f].last \in 0 .. N - 1
    <3>1. iframes[f] \in Frames(keys, T)
      <4> DEFINE F == Frames(keys, T)
      <4>1. iframes \in Seq(F)
        OBVIOUS
      <4> HIDE DEF F
      <4>2. iframes[f] \in F
        BY <4>1
      <4> QED BY <4>2 DEF F
    <3> QED BY <3>1 DEF Frames, N
  <2>5. Len(iframes) \in Nat /\ DOMAIN iframes = 1 .. Len(iframes)
    OBVIOUS
  <2> QED BY <1>1, <1>2, <1>5, <1>10, <2>1, <2>2, <2>3, <2>4, <2>5 DEF IsStream
<1>12. Opening(s)
  <2> SUFFICES ASSUME NEW t \in 0 .. T - 1
               PROVE  /\ s.track[t] = t /\ s.previous[t] = 0 /\ s.ratio[t] = 0
                      /\ s.track[t + T] = t /\ s.previous[t + T] = T
    BY <1>1, <1>10 DEF Opening
  <2>0. /\ t \in 0 .. N - 1 /\ t + T \in 0 .. N - 1 /\ t + T \in T .. N - 1 /\ t \in Nat
        /\ T + t + 1 = t + T + 1
    BY <1>2, <1>5
  <2>1. /\ keys[t + 1].track = t /\ keys[t + 1].prev = -1 /\ keys[t + 1].time = 0
        /\ keys[t + T + 1].track = t /\ keys[t + T + 1].prev = 0
    BY <1>4, <2>0 DEF Opens
  <2>2. PreviousOf(t) = 0
    <3>1. PICK p \in -1 .. t - 1 :
             LastAt(keys, t, t, p) /\ PreviousOf(t) = IF p = -1 THEN 0 ELSE t - p
      BY <1>6, <2>0, <2>1
    <3>2. p # -1 => p \in 0 .. T - 1 /\ keys[p + 1].track = t /\ p # t
      BY <3>1, <2>0 DEF LastAt
    <3>3. p # -1 => keys[p + 1].track = p
      BY <1>4, <3>2 DEF Opens
    <3> QED BY <3>1, <3>2, <3>3
  <2>3. PreviousOf(t + T) = T
    <3> DEFINE p == (t + T) - PreviousOf(t + T)
    <3>1. p \in 0 .. t + T - 1 /\ LastAt(keys, t, t + T, p) /\ keys[p + 1].track = t
      BY <1>8, <2>0, <2>1
    <3>2. PreviousOf(t + T) \in Nat
      BY <1>7, <2>0
    <3>3. ~(p < t)
      <4>1. p < t => t \in p + 1 .. t + T - 1
        BY <2>0, <3>1
      <4>2. \A m \in p + 1 .. t + T - 1 : keys[m + 1].track # t
        BY <3>1 DEF LastAt
      <4> HIDE DEF p
      <4> QED BY <2>1, <4>1, <4>2
    <3>4. CASE p < T
      <4>1. p \in 0 .. T - 1
        BY <3>1, <3>4
      <4>2. keys[p + 1].track = p
        BY <1>4, <4>1 DEF Opens
      <4>3. p = t
        BY <3>1, <4>2
      <4> QED BY <2>0, <3>2, <4>3
    <3>5. CASE ~(p < T)
      <4> DEFINE u == p - T
      <4>1. u \in 0 .. T - 1 /\ u # t /\ T + u + 1 = p + 1
        BY <2>0, <3>1, <3>5
      <4>2. keys[T + u + 1].track = u
        BY <1>4, <4>1 DEF Opens
      <4> HIDE DEF p, u
      <4> QED BY <3>1, <4>1, <4>2
    <3> QED BY <3>4, <3>5
  <2> QED BY <1>1, <1>9, <2>0, <2>1, <2>2, <2>3
<1>13. ASSUME NEW k \in T .. N - 1
       PROVE  /\ Left(s, k) \in 0 .. N - 1 /\ Left(s, k) < k
              /\ s.previous[k] > 0 /\ s.previous[k] <= k
              /\ LastAt(keys, s.track[k], k, Left(s, k))
              /\ s.track[Left(s, k)] = s.track[k]
              /\ s.ratio[Left(s, k)] = RatioOf(keys[k + 1].prev, D)
              /\ keys[k + 1].prev = keys[Left(s, k) + 1].time
  <2>1. k \in 0 .. N - 1 /\ k \in Nat
    BY <1>2
  <2>2. s.previous[k] = PreviousOf(k) /\ Left(s, k) = k - PreviousOf(k) /\ s.track[k] = keys[k + 1].track
    BY <1>1, <2>1 DEF Left
  <2>3. k - PreviousOf(k) \in 0 .. N - 1 /\ k - PreviousOf(k) < k
    <3>1. k - PreviousOf(k) \in 0 .. k - 1
      BY <1>8
    <3> QED BY <1>2, <2>1, <3>1
  <2>4. PreviousOf(k) <= k
    BY <1>7, <2>1
  <2> QED BY <1>1, <1>8, <2>2, <2>3, <2>4
<1>14. Linked(s)
  <2> SUFFICES ASSUME NEW k \in T .. N - 1
               PROVE  /\ s.previous[k] > 0 /\ s.previous[k] <= k
                      /\ IsLast(s, s.track[k], Left(s, k), k)
                      /\ s.ratio[Left(s, k)] < s.ratio[k]
    <3>1. \A k \in 0 .. N - 1 : k >= T => k \in T .. N - 1
      BY <1>2
    <3> QED BY <1>1, <1>10, <3>1 DEF Linked
  <2>0. k \in 0 .. N - 1 /\ k \in Nat
    BY <1>2
  <2>1. IsLast(s, s.track[k], Left(s, k), k)
    <3>1. ASSUME NEW j \in 0 .. N - 1, Left(s, k) < j, j < k PROVE s.track[j] # s.track[k]
      <4>1. j \in Left(s, k) + 1 .. k - 1
        BY <1>13, <2>0, <3>1
      <4>2. keys[j + 1].track # s.track[k]
        BY <1>13, <4>1 DEF LastAt
      <4> QED BY <1>1, <4>2
    <3> QED BY <1>10, <1>13, <3>1 DEF IsLast
  <2>2. s.ratio[Left(s, k)] < s.ratio[k]
    <3> DEFINE l == Left(s, k)
               a == keys[l + 1].time
               b == keys[k + 1].time
    <3>1. l \in 0 .. N - 1 /\ a \in 0 .. D /\ b \in 0 .. D /\ a < b
      BY <1>3, <1>13, <2>0
    <3>2. l + 1 \in DOMAIN keys /\ k + 1 \in DOMAIN keys
      BY <1>2, <2>0, <3>1
    <3>3. RatioOf(a, D) # RatioOf(b, D)
      BY <3>1, <3>2 DEF StayApart
    <3>4. s.ratio[l] = RatioOf(a, D) /\ s.ratio[k] = RatioOf(b, D)
      BY <1>1, <2>0, <3>1
    <3> HIDE DEF l, a, b
    <3>5. RatioOf(a, D) <= RatioOf(b, D) /\ RatioOf(a, D) \in Int /\ RatioOf(b, D) \in Int
      BY <1>9, <3>1
    <3>6. RatioOf(a, D) < RatioOf(b, D)
      BY <3>3, <3>5
    <3> QED BY <3>4, <3>6 DEF l
  <2> QED BY <1>13, <2>1, <2>2
<1>15. Ordered(s)
  <2> SUFFICES ASSUME NEW j \in T .. N - 1, NEW k \in T .. N - 1, j < k
               PROVE  s.ratio[Left(s, j)] <= s.ratio[Left(s, k)]
    <3>1. \A j, k \in 0 .. N - 1 : T <= j /\ j < k => j \in T .. N - 1 /\ k \in T .. N - 1
      BY <1>2
    <3> QED BY <1>1, <1>10, <3>1 DEF Ordered
  <2>0. j \in 0 .. N - 1 /\ k \in 0 .. N - 1
    BY <1>2
  <2>1. SortingKeyLess(keys[j + 1], keys[k + 1])
    BY <1>2, <2>0 DEF FullyInOrder
  <2> DEFINE a == keys[j + 1].prev
             b == keys[k + 1].prev
  <2>2. a <= b
    BY <1>3, <2>0, <2>1 DEF SortingKeyLess
  <2>3. a \in 0 .. D /\ b \in 0 .. D
    BY <1>3, <1>13
  <2>4. s.ratio[Left(s, j)] = RatioOf(a, D) /\ s.ratio[Left(s, k)] = RatioOf(b, D)
    BY <1>13
  <2> HIDE DEF a, b
  <2> QED BY <1>9, <2>2, <2>3, <2>4
<1>16. Snapshots(s)
  <2> SUFFICES ASSUME NEW f \in DOMAIN iframes
               PROVE  /\ iframes[f].last >= 2 * T - 1
                      /\ \A t \in 0 .. T - 1 : IsLast(s, t, iframes[f].entries[t], iframes[f].last + 1)
    BY <1>1, <1>10 DEF Snapshots
  <2>1. iframes[f] \in Frames(keys, T)
    <3> DEFINE F == Frames(keys, T)
    <3>1. iframes \in Seq(F)
      OBVIOUS
    <3> HIDE DEF F
    <3>2. iframes[f] \in F
      BY <3>1
    <3> QED BY <3>2 DEF F
  <2> DEFINE frame == iframes[f]
  <2>2. /\ frame.entries \in [0 .. T - 1 -> 0 .. N - 1] /\ frame.last \in 0 .. N - 1
        /\ frame.last >= 2 * T - 1
        /\ \A t \in 0 .. T - 1 : LastAt(keys, t, frame.last + 1, frame.entries[t])
    BY <2>1 DEF Frames, N
  <2> HIDE DEF frame
  <2>3. ASSUME NEW t \in 0 .. T - 1 PROVE IsLast(s, t, frame.entries[t], frame.last + 1)
    <3> DEFINE e == frame.entries[t]
               n == frame.last + 1
    <3>1. e \in 0 .. N - 1 /\ n \in Nat /\ LastAt(keys, t, n, e)
      BY <2>2
    <3> HIDE DEF e, n
    <3>2. e < n /\ keys[e + 1].track = t
      BY <3>1 DEF LastAt
    <3>3. ASSUME NEW j \in 0 .. N - 1, e < j, j < n PROVE s.track[j] # t
      <4>1. j \in e + 1 .. n - 1
        BY <3>1, <3>3
      <4> QED BY <1>1, <3>1, <4>1 DEF LastAt
    <3>4. IsLast(s, t, e, n)
      BY <1>1, <1>10, <3>1, <3>2, <3>3 DEF IsLast
    <3> QED BY <3>4 DEF e, n
  <2> QED BY <2>2, <2>3 DEF frame
<1> QED BY <1>11, <1>12, <1>14, <1>15, <1>16 DEF WellFormed, s

\* The streams that are written are those of the keys.
BuiltFrom == pc = "write" => streams = [c \in 1 .. Channels |-> StreamOf(c)]

LEMMA BuiltFromStays ==
  ASSUME BuiltFrom, [Next]_vars
  PROVE  BuiltFrom'
<1> SUFFICES ASSUME pc' = "write"
             PROVE  streams' = [c \in 1 .. Channels |-> StreamOf(c)]'
  BY DEF BuiltFrom
<1>1. ASSUME UNCHANGED <<raw, sorted, divs>>
      PROVE  [c \in 1 .. Channels |-> StreamOf(c)]' = [c \in 1 .. Channels |-> StreamOf(c)]
  BY <1>1 DEF StreamOf, NumTracks
<1>2. CASE TakeIFrames
  <2>1. UNCHANGED <<raw, sorted, divs>>
    BY <1>2 DEF TakeIFrames, authoringVars
  <2>2. streams' = [c \in 1 .. Channels |-> StreamOf(c)]
    BY <1>2 DEF TakeIFrames
  <2> QED BY <1>1, <2>1, <2>2
<1>3. CASE pc = "author" /\ Author /\ UNCHANGED <<builderVars, importVars>>
  BY <1>3 DEF builderVars
<1>4. CASE UNCHANGED vars
  <2>1. UNCHANGED <<raw, sorted, divs, streams, pc>>
    BY <1>4 DEF vars, authoringVars, builderVars
  <2> QED BY <1>1, <2>1 DEF BuiltFrom
<1>5. CASE GltfLoad \/ (\E period \in Periods : GltfImportAnimation(period)) \/ AnimationBuild \/ Write
  BY <1>5 DEF GltfLoad, GltfImportAnimation, AnimationBuild, Write
<1>6. CASE Sorting
  BY <1>6 DEF Sorting, Scan, Inject, NextChannel, TakeTimePoints
<1> QED BY <1>2, <1>3, <1>4, <1>5, <1>6 DEF Next

LEMMA IInvMeansWellFormed ==
  ASSUME IInv, BuiltFrom
  PROVE  BuiltWellFormed
<1> SUFFICES ASSUME pc = "write", RatiosApart, NEW c \in 1 .. Channels
             PROVE  WellFormed(StreamOf(c))
  BY DEF BuiltWellFormed, BuiltFrom
<1>1. pc \notin Unsorted
  BY DEF Unsorted
<1>2. Linking /\ IsRaw(raw) /\ Validate(raw) /\ divs \in Nat
  BY <1>1, BuilderAssumption DEF IInv, Kept, Linking
<1>3. /\ raw.duration \in Int /\ raw.duration > 0 /\ NumTracks \in Nat
      /\ Cardinality(DOMAIN raw.tracks) <= NumTracks /\ IsFiniteSet(DOMAIN raw.tracks)
  BY <1>2, RawIs
<1>4. NumTracks \in Nat \ {0}
  <2>1. DOMAIN raw.tracks # {}
    BY DEF IInv, Kept
  <2>2. Cardinality(DOMAIN raw.tracks) \in Nat /\ Cardinality(DOMAIN raw.tracks) # 0
    BY <1>3, <2>1, FS_CardinalityType, FS_EmptySet
  <2> QED BY <1>3, <2>2
<1>5. Serves(sorted[c], ChannelOf(c), NumTracks, raw.duration)
  BY <1>1, <1>2 DEF Linking
<1>6. StayApart(sorted[c], raw.duration)
  BY DEF StayApart, RatiosApart, AllTimes
<1> DEFINE T == NumTracks
           D == raw.duration
           keys == sorted[c]
           tracks == ChannelOf(c)
           iframes == BuildIFrames(keys, T, D, divs)
<1>7. StreamOf(c) = Compress(keys, T, D, iframes)
  BY DEF StreamOf
<1>8. T \in Nat \ {0} /\ D \in Int /\ D > 0 /\ Serves(keys, tracks, T, D) /\ StayApart(keys, D)
  BY <1>3, <1>4, <1>5, <1>6
<1> HIDE DEF T, D, keys, tracks
<1>9. iframes \in Seq(Frames(keys, T))
  BY <1>2, <1>8, FramesAre
<1> HIDE DEF iframes
<1>10. WellFormed(Compress(keys, T, D, iframes))
  BY <1>8, <1>9, CompressedIsWellFormed
<1> QED BY <1>7, <1>10

\* What an animation is written from are streams the sampler can rely on: whatever was
\* authored or imported, however many keys were injected and iframes taken.
THEOREM BuildsAreWellFormed == Spec /\ []CutsAreWide => []BuiltWellFormed
<1>1. IInv /\ CutsAreWide /\ [Next]_vars => IInv'
  BY StepKeeps
<1>2. BuiltFrom /\ [Next]_vars => BuiltFrom'
  BY BuiltFromStays
<1>3. Init => BuiltFrom
  BY DEF Init, BuiltFrom
<1> QED BY InitHolds, IInvMeansWellFormed, <1>1, <1>2, <1>3, PTL DEF Spec

\* A channel that needs no injection is sorted and compressed to one the sampler can
\* rely on, whatever its keys and iframes.
THEOREM BuiltStreamsServe ==
  ASSUME NEW D \in Int, D > 0, NEW tracks, AreValid(tracks, D),
         IsFiniteSet(DOMAIN tracks), DOMAIN tracks # {}, NEW parts \in Nat,
         StayApart(SortedKeys(tracks, D), D)
  PROVE  WellFormed(BuiltStream(tracks, D, parts))
<1> DEFINE keys == SortedKeys(tracks, D)
           T == AlignedTracks(Cardinality(DOMAIN tracks))
           iframes == BuildIFrames(keys, T, D, parts)
<1>1. Serves(keys, tracks, T, D)
  BY SortedKeysServe
<1>2. T \in Nat \ {0}
  <2>1. Cardinality(DOMAIN tracks) \in Nat /\ Cardinality(DOMAIN tracks) # 0
    BY FS_CardinalityType, FS_EmptySet
  <2>2. T \in Nat /\ Cardinality(DOMAIN tracks) <= T
    BY <2>1, AlignedIs
  <2> QED BY <2>1, <2>2
<1>3. BuiltStream(tracks, D, parts) = Compress(keys, T, D, iframes)
  BY DEF BuiltStream
<1>4. StayApart(keys, D)
  OBVIOUS
<1> HIDE DEF keys, T
<1>5. iframes \in Seq(Frames(keys, T))
  BY <1>1, <1>2, FramesAre
<1> HIDE DEF iframes
<1> QED BY <1>1, <1>2, <1>3, <1>4, <1>5, CompressedIsWellFormed

-----------------------------------------------------------------------------
(* Sums, and sequences one after the other.                                *)

Sums(f, numbers) ==
    f = [k \in 0 .. Len(numbers) |-> IF k = 0 THEN 0 ELSE f[k - 1] + numbers[k]]

SumsUp(numbers) ==
    /\ SumOf(numbers, 0) = 0
    /\ \A n \in 0 .. Len(numbers) : SumOf(numbers, n) \in Nat
    /\ \A n \in 1 .. Len(numbers) : SumOf(numbers, n) = SumOf(numbers, n - 1) + numbers[n]

LEMMA SumsAre ==
  ASSUME NEW numbers \in Seq(Nat)
  PROVE  SumsUp(numbers)
<1> DEFINE L == Len(numbers)
           step == [x \in (1 .. L) \X Nat |-> x[2] + numbers[x[1]]]
           f == CHOOSE f : Sums(f, numbers)
<1>1. L \in Nat /\ \A k \in 1 .. L : numbers[k] \in Nat
  OBVIOUS
<1>2. step \in [(1 .. L) \X Nat -> Nat]
  <2> SUFFICES ASSUME NEW x \in (1 .. L) \X Nat PROVE x[2] + numbers[x[1]] \in Nat
    OBVIOUS
  <2>1. x[2] \in Nat /\ numbers[x[1]] \in Nat
    BY <1>1
  <2> QED BY <2>1
<1>3. \A k \in 1 .. L, s \in Nat : step[<<k, s>>] = s + numbers[k]
  <2>1. \A k \in 1 .. L, s \in Nat : <<k, s>> \in (1 .. L) \X Nat
    OBVIOUS
  <2> QED BY <2>1
<1>4. \A n : SumOf(numbers, n) = f[n]
  BY DEF SumOf, Sums
<1>5. Sums(f, numbers)
  <2> HIDE DEF L, step
  <2>1. PICK g : GoesOn(g, L, Nat, 0, step)
    BY <1>1, <1>2, CountedRecursion
  <2>2. g \in [0 .. L -> Nat] /\ g = [k \in 0 .. L |-> IF k = 0 THEN 0 ELSE step[<<k, g[k - 1]>>]]
    BY <2>1 DEF GoesOn
  <2>3. \A k \in 0 .. L : k # 0 => k \in 1 .. L /\ k - 1 \in 0 .. L
    BY <1>1
  <2>4. \A k \in 0 .. L : k # 0 => step[<<k, g[k - 1]>>] = g[k - 1] + numbers[k]
    BY <1>3, <2>2, <2>3
  <2>5. g = [k \in 0 .. L |-> IF k = 0 THEN 0 ELSE g[k - 1] + numbers[k]]
    BY <2>2, <2>4
  <2>6. Sums(g, numbers)
    BY <2>5 DEF Sums, L
  <2> QED BY <2>6
<1> HIDE DEF f, step
<1>6. f = [k \in 0 .. L |-> IF k = 0 THEN 0 ELSE f[k - 1] + numbers[k]]
  BY <1>5 DEF Sums
<1> HIDE DEF L
<1>7. f[0] = 0 /\ \A k \in 1 .. L : f[k] = f[k - 1] + numbers[k]
  <2>1. 0 \in 0 .. L /\ \A k \in 1 .. L : k \in 0 .. L /\ k # 0
    BY <1>1
  <2> QED BY <1>6, <2>1
<1> DEFINE S == {k \in 0 .. L : f[k] \in Nat}
<1>8. 0 \in S
  BY <1>1, <1>7
<1>9. \A k \in 1 .. L : k - 1 \in S => k \in S
  BY <1>1, <1>7
<1> HIDE DEF S
<1>10. 0 .. L \subseteq S
  BY <1>1, <1>8, <1>9, ByNumber
<1>11. \A k \in 0 .. L : f[k] \in Nat
  BY <1>10 DEF S
<1> QED BY <1>4, <1>7, <1>11 DEF SumsUp, L

\* Sums depend only on what they sum.
LEMMA SameSums ==
  ASSUME NEW a \in Seq(Nat), NEW b \in Seq(Nat), NEW n \in Nat, n <= Len(a), n <= Len(b),
         \A k \in 1 .. n : a[k] = b[k]
  PROVE  SumOf(a, n) = SumOf(b, n)
<1>1. SumsUp(a) /\ SumsUp(b)
  BY SumsAre
<1> DEFINE S == {k \in 0 .. n : SumOf(a, k) = SumOf(b, k)}
<1>2. 0 \in S
  BY <1>1 DEF SumsUp
<1>3. ASSUME NEW k \in 1 .. n, k - 1 \in S PROVE k \in S
  <2>1. k \in 1 .. Len(a) /\ k \in 1 .. Len(b) /\ a[k] = b[k] /\ k \in 0 .. n
    <3>1. Len(a) \in Nat /\ Len(b) \in Nat /\ n <= Len(a) /\ n <= Len(b)
      OBVIOUS
    <3> QED BY <3>1
  <2>2. SumOf(a, k) = SumOf(a, k - 1) + a[k] /\ SumOf(b, k) = SumOf(b, k - 1) + b[k]
    BY <1>1, <2>1 DEF SumsUp
  <2> QED BY <1>3, <2>1, <2>2
<1>3a. \A k \in 1 .. n : k - 1 \in S => k \in S
  BY <1>3
<1> HIDE DEF S
<1>4. 0 .. n \subseteq S
  BY <1>2, <1>3a, ByNumber
<1> QED BY <1>4 DEF S

LEMMA SumsJoin ==
  ASSUME NEW a \in Seq(Nat), NEW b \in Seq(Nat)
  PROVE  /\ \A n \in 0 .. Len(a) : SumOf(a \o b, n) = SumOf(a, n)
         /\ \A n \in 0 .. Len(b) : SumOf(a \o b, Len(a) + n) = SumOf(a, Len(a)) + SumOf(b, n)
<1> DEFINE c == a \o b
           A == Len(a)
           B == Len(b)
<1>1. /\ c \in Seq(Nat) /\ A \in Nat /\ B \in Nat /\ Len(c) = A + B
      /\ \A k \in 1 .. A : c[k] = a[k]
      /\ \A k \in 1 .. B : c[A + k] = b[k]
  OBVIOUS
<1> HIDE DEF c, A, B
<1>2. \A n \in 0 .. A : SumOf(c, n) = SumOf(a, n)
  <2> SUFFICES ASSUME NEW n \in 0 .. A PROVE SumOf(c, n) = SumOf(a, n)
    OBVIOUS
  <2>1. \A k \in 1 .. n : c[k] = a[k]
    BY <1>1
  <2>2. n \in Nat /\ n <= Len(c) /\ n <= Len(a)
    BY <1>1 DEF A
  <2> QED BY <1>1, <2>1, <2>2, SameSums
<1>3. SumsUp(a) /\ SumsUp(b) /\ SumsUp(c)
  BY <1>1, SumsAre
<1> DEFINE S == {k \in 0 .. B : SumOf(c, A + k) = SumOf(a, A) + SumOf(b, k)}
<1>4. 0 \in S
  <2>1. SumOf(c, A) = SumOf(a, A) /\ SumOf(a, A) \in Nat /\ SumOf(b, 0) = 0
    BY <1>1, <1>2, <1>3 DEF SumsUp, A
  <2> QED BY <1>1, <2>1
<1>5. ASSUME NEW k \in 1 .. B, k - 1 \in S PROVE k \in S
  <2>1. A + k \in 1 .. Len(c) /\ (A + k) - 1 = A + (k - 1) /\ k \in 1 .. Len(b) /\ k - 1 \in 0 .. Len(b)
    BY <1>1 DEF B
  <2>2. SumOf(c, A + k) = SumOf(c, (A + k) - 1) + c[A + k]
    BY <1>3, <2>1 DEF SumsUp
  <2>3. SumOf(b, k) = SumOf(b, k - 1) + b[k] /\ c[A + k] = b[k]
    BY <1>1, <1>3, <2>1 DEF SumsUp
  <2>4. SumOf(c, A + (k - 1)) = SumOf(a, A) + SumOf(b, k - 1)
    BY <1>5
  <2>5. SumOf(a, A) \in Nat /\ SumOf(b, k - 1) \in Nat /\ b[k] \in Nat
    <3>1. A \in 0 .. Len(a)
      BY <1>1 DEF A
    <3>2. b[k] \in Nat
      BY <2>1
    <3> QED BY <1>3, <2>1, <3>1, <3>2 DEF SumsUp
  <2> QED BY <2>1, <2>2, <2>3, <2>4, <2>5
<1>6. \A k \in 1 .. B : k - 1 \in S => k \in S
  BY <1>5
<1> HIDE DEF S
<1>7. 0 .. B \subseteq S
  BY <1>1, <1>4, <1>6, ByNumber
<1>8. \A n \in 0 .. B : SumOf(c, A + n) = SumOf(a, A) + SumOf(b, n)
  BY <1>7 DEF S
<1> QED BY <1>2, <1>8 DEF A, B, c

Lengths(subs) == [k \in 1 .. Len(subs) |-> Len(subs[k])]

\* Where sequence j starts among all of them, less one.
StartOf(subs, j) == SumOf(Lengths(subs), j - 1)

Sliced(flat, subs, T) ==
    /\ flat \in Seq(T) /\ Len(flat) = SumOf(Lengths(subs), Len(subs))
    /\ \A j \in 1 .. Len(subs) : \A m \in 1 .. Len(subs[j]) :
          StartOf(subs, j) + m \in 1 .. Len(flat) /\ flat[StartOf(subs, j) + m] = subs[j][m]

LEMMA LengthsAre ==
  ASSUME NEW T, NEW subs \in Seq(Seq(T))
  PROVE  Lengths(subs) \in Seq(Nat) /\ Len(Lengths(subs)) = Len(subs)
<1>1. Len(subs) \in Nat /\ \A k \in 1 .. Len(subs) : subs[k] \in Seq(T)
  OBVIOUS
<1>2. \A k \in 1 .. Len(subs) : Len(subs[k]) \in Nat
  BY <1>1
<1> DEFINE lens == Lengths(subs)
           L == Len(subs)
<1>3. lens \in [1 .. L -> Nat] /\ L \in Nat
  BY <1>1, <1>2 DEF Lengths
<1> HIDE DEF lens, L
<1>4. lens \in Seq(Nat) /\ Len(lens) = L
  BY <1>3
<1> QED BY <1>4 DEF lens, L

LEMMA FlattenSlices ==
  ASSUME NEW T, NEW subs \in Seq(Seq(T))
  PROVE  Sliced(FlattenSeq(subs), subs, T)
<1> DEFINE L == Len(subs)
           lens == Lengths(subs)
<1>1. L \in Nat /\ \A k \in 1 .. L : subs[k] \in Seq(T) /\ Len(subs[k]) \in Nat
  <2>1. L \in Nat /\ \A k \in 1 .. L : subs[k] \in Seq(T)
    OBVIOUS
  <2> QED BY <2>1
<1>2. lens \in Seq(Nat) /\ Len(lens) = L /\ \A k \in 1 .. L : lens[k] = Len(subs[k])
  <2>1. \A k \in 1 .. L : lens[k] = Len(subs[k])
    BY DEF Lengths
  <2> QED BY <2>1, LengthsAre
<1>3. PICK g : Gathers(g, subs, T) /\ FlattenSeq(subs) = g[L]
  BY FlattenIs
<1>4. /\ g \in [0 .. L -> Seq(T)] /\ g[0] = <<>>
      /\ \A k \in 1 .. L : g[k] = g[k - 1] \o subs[k]
  BY <1>3 DEF Gathers
<1> HIDE DEF lens, L
<1>5. SumsUp(lens)
  BY <1>2, SumsAre
<1> DEFINE At(j) == SumOf(lens, j - 1)
           Holds(k) == /\ Len(g[k]) = SumOf(lens, k)
                       /\ \A j \in 1 .. k : \A m \in 1 .. Len(subs[j]) :
                             At(j) + m \in 1 .. Len(g[k]) /\ g[k][At(j) + m] = subs[j][m]
           S == {k \in 0 .. L : Holds(k)}
<1>6. 0 \in S
  BY <1>1, <1>4, <1>5 DEF SumsUp
<1>7. ASSUME NEW k \in 1 .. L, k - 1 \in S PROVE k \in S
  <2> DEFINE u == g[k - 1]
             w == subs[k]
  <2>1. k - 1 \in 0 .. L /\ k \in 0 .. L /\ g[k] = u \o w /\ u \in Seq(T) /\ w \in Seq(T)
    <3>1. k - 1 \in 0 .. L /\ k \in 0 .. L
      BY <1>1
    <3> QED BY <1>1, <1>4, <3>1
  <2>2. Len(u) = SumOf(lens, k - 1) /\ Len(u) \in Nat /\ Len(w) \in Nat
    BY <1>7, <2>1
  <2>3. SumOf(lens, k) = SumOf(lens, k - 1) + Len(w)
    BY <1>2, <1>5 DEF SumsUp
  <2> HIDE DEF u, w
  <2>4. /\ Len(u \o w) = Len(u) + Len(w)
        /\ \A n \in 1 .. Len(u) : (u \o w)[n] = u[n]
        /\ \A n \in 1 .. Len(w) : (u \o w)[Len(u) + n] = w[n]
    BY <2>1
  <2>5. Len(g[k]) = SumOf(lens, k)
    BY <2>1, <2>2, <2>3, <2>4
  <2>6. ASSUME NEW j \in 1 .. k, NEW m \in 1 .. Len(subs[j])
        PROVE  At(j) + m \in 1 .. Len(g[k]) /\ g[k][At(j) + m] = subs[j][m]
    <3>1. CASE j = k
      <4>1. At(j) = Len(u) /\ m \in 1 .. Len(w) /\ subs[j] = w
        BY <2>2, <3>1 DEF w
      <4>2. Len(u) + m \in 1 .. Len(u) + Len(w)
        BY <2>2, <4>1
      <4> QED BY <2>1, <2>4, <4>1, <4>2
    <3>2. CASE j # k
      <4>1. j \in 1 .. k - 1
        BY <3>2
      <4>2. At(j) + m \in 1 .. Len(u) /\ u[At(j) + m] = subs[j][m]
        BY <1>7, <4>1 DEF u
      <4>3. At(j) + m \in 1 .. Len(u) + Len(w)
        BY <2>2, <4>2
      <4> QED BY <2>1, <2>4, <4>2, <4>3
    <3> QED BY <3>1, <3>2
  <2>7. Holds(k)
    BY <2>5, <2>6
  <2> QED BY <2>1, <2>7
<1>8. \A k \in 1 .. L : k - 1 \in S => k \in S
  BY <1>7
<1> HIDE DEF S
<1>9. 0 .. L \subseteq S
  BY <1>1, <1>6, <1>8, ByNumber
<1>10. L \in 0 .. L
  BY <1>1
<1>11. Holds(L)
  BY <1>9, <1>10 DEF S
<1>12. g[L] \in Seq(T)
  BY <1>4, <1>10
<1>13. Sliced(g[L], subs, T)
  BY <1>11, <1>12 DEF Sliced, StartOf, lens, L
<1> QED BY <1>3, <1>13

\* Sequences of the same length one after the other.
EvenlySliced(flat, subs, w, T) ==
    /\ flat \in Seq(T) /\ Len(flat) = w * Len(subs)
    /\ \A j \in 1 .. Len(subs) : \A m \in 1 .. w :
          w * (j - 1) + m \in 1 .. w * Len(subs) /\ flat[w * (j - 1) + m] = subs[j][m]

LEMMA EqualSlices ==
  ASSUME NEW T, NEW subs \in Seq(Seq(T)), NEW w \in Nat,
         \A k \in 1 .. Len(subs) : Len(subs[k]) = w
  PROVE  EvenlySliced(FlattenSeq(subs), subs, w, T)
<1> DEFINE L == Len(subs)
           lens == Lengths(subs)
<1>1. lens \in Seq(Nat) /\ Len(lens) = L /\ L \in Nat /\ \A k \in 1 .. L : lens[k] = w
  <2>1. \A k \in 1 .. L : lens[k] = w
    BY DEF Lengths
  <2> QED BY <2>1, LengthsAre
<1>2. Sliced(FlattenSeq(subs), subs, T)
  BY FlattenSlices
<1> HIDE DEF lens, L
<1>3. SumsUp(lens)
  BY <1>1, SumsAre
<1> DEFINE S == {k \in 0 .. L : SumOf(lens, k) = w * k}
<1>4. 0 \in S
  BY <1>1, <1>3 DEF SumsUp
<1>5. ASSUME NEW k \in 1 .. L, k - 1 \in S PROVE k \in S
  <2>1. SumOf(lens, k) = SumOf(lens, k - 1) + w
    BY <1>1, <1>3 DEF SumsUp
  <2>2. w * (k - 1) + w = w * k
    BY <1>1
  <2> QED BY <1>5, <2>1, <2>2
<1>6. \A k \in 1 .. L : k - 1 \in S => k \in S
  BY <1>5
<1> HIDE DEF S
<1>7. 0 .. L \subseteq S
  BY <1>1, <1>4, <1>6, ByNumber
<1>8. \A k \in 0 .. L : SumOf(lens, k) = w * k
  BY <1>7 DEF S
<1>9. L \in 0 .. L /\ \A j \in 1 .. L : j - 1 \in 0 .. L
  BY <1>1
<1>10. SumOf(lens, L) = w * L /\ \A j \in 1 .. L : StartOf(subs, j) = w * (j - 1)
  BY <1>8, <1>9 DEF StartOf, lens
<1>11. FlattenSeq(subs) \in Seq(T) /\ Len(FlattenSeq(subs)) = w * L
  BY <1>2, <1>10 DEF Sliced, lens, L
<1>12. ASSUME NEW j \in 1 .. L, NEW m \in 1 .. w
       PROVE  w * (j - 1) + m \in 1 .. w * L /\ FlattenSeq(subs)[w * (j - 1) + m] = subs[j][m]
  <2>1. j \in 1 .. Len(subs) /\ m \in 1 .. Len(subs[j])
    BY DEF L
  <2>2. /\ StartOf(subs, j) + m \in 1 .. Len(FlattenSeq(subs))
        /\ FlattenSeq(subs)[StartOf(subs, j) + m] = subs[j][m]
    BY <1>2, <2>1 DEF Sliced
  <2> QED BY <1>10, <1>11, <2>2
<1> QED BY <1>11, <1>12 DEF EvenlySliced, L

-----------------------------------------------------------------------------
(* Group varint.                                                           *)

LEMMA Remainder ==
  ASSUME NEW v \in Nat, NEW b \in Nat \ {0}
  PROVE  v \div b \in Nat /\ v % b \in 0 .. b - 1 /\ v = b * (v \div b) + (v % b)
OBVIOUS

LEMMA DividedTwice ==
  ASSUME NEW v \in Nat, NEW b \in Nat \ {0}, NEW c \in Nat \ {0}
  PROVE  (v \div b) \div c = v \div (b * c)
OBVIOUS

LEMMA BelowTimes ==
  ASSUME NEW v \in Nat, NEW b \in Nat \ {0}, NEW c \in Nat \ {0}, v < b * c
  PROVE  (v \div b) < c /\ (v \div b) % c = v \div b
<1>1. v \div b < c /\ v \div b \in Nat
  OBVIOUS
<1> QED BY <1>1

LEMMA MultipleAdded ==
  ASSUME NEW v \in Nat, NEW b \in Nat \ {0}, NEW x \in Nat, v < b
  PROVE  (v + b * x) % b = v
OBVIOUS

LEMMA WeightIs ==
  /\ ByteBase \in Nat /\ ByteBase >= 2
  /\ Weight[1] = 1 /\ Weight[2] = ByteBase /\ Weight[3] = ByteBase * ByteBase
  /\ Weight[4] = ByteBase * ByteBase * ByteBase
BY StorageAssumption DEF Weight

Digit(v, n) == (v \div Weight[n]) % ByteBase

\* A value is its digits, and those that store leaves out are nought.
LEMMA ValueOfDigits ==
  ASSUME NEW v \in UInt32
  PROVE  /\ v \in Nat /\ tag(v) \in 0 .. 3 /\ v < Weight[tag(v) + 1] * ByteBase
         /\ \A n \in 1 .. 4 : Digit(v, n) \in 0 .. ByteBase - 1
         /\ tag(v) = 0 => v = Digit(v, 1)
         /\ tag(v) = 1 => v = Digit(v, 1) + Digit(v, 2) * Weight[2]
         /\ tag(v) = 2 => v = Digit(v, 1) + Digit(v, 2) * Weight[2] + Digit(v, 3) * Weight[3]
         /\ tag(v) = 3 => v = Digit(v, 1) + Digit(v, 2) * Weight[2] + Digit(v, 3) * Weight[3]
                              + Digit(v, 4) * Weight[4]
<1> DEFINE b == ByteBase
           q1 == v \div b
           q2 == q1 \div b
           q3 == q2 \div b
<1>1. b \in Nat /\ b >= 2 /\ b \in Nat \ {0}
  BY WeightIs
<1>2. v \in Nat /\ v < b * b * b * b
  BY <1>1, WeightIs DEF UInt32
<1>3. q1 \in Nat /\ q2 \in Nat /\ q3 \in Nat
  BY <1>1, <1>2, Remainder
<1>4. q2 = v \div (b * b) /\ q3 = v \div (b * b * b)
  <2>1. q2 = v \div (b * b)
    BY <1>1, <1>2, DividedTwice
  <2>2. b * b \in Nat \ {0}
    BY <1>1
  <2>3. (v \div (b * b)) \div b = v \div (b * b * b)
    BY <1>1, <1>2
  <2> QED BY <2>1, <2>3
<1>5. Digit(v, 1) = v % b /\ Digit(v, 2) = q1 % b /\ Digit(v, 3) = q2 % b /\ Digit(v, 4) = q3 % b
  <2>1. v \div 1 = v
    BY <1>2
  <2> QED BY <1>4, <2>1, WeightIs DEF Digit
<1> DEFINE d1 == v % b
           d2 == q1 % b
           d3 == q2 % b
           d4 == q3 % b
<1>6. d1 \in 0 .. b - 1 /\ d2 \in 0 .. b - 1 /\ d3 \in 0 .. b - 1 /\ d4 \in 0 .. b - 1
  BY <1>1, <1>2, <1>3, Remainder
<1>7. v = b * q1 + d1 /\ q1 = b * q2 + d2 /\ q2 = b * q3 + d3
  BY <1>1, <1>2, <1>3, Remainder
<1>8. q3 < b /\ d4 = q3
  <2>1. b * b * b \in Nat \ {0} /\ b \in Nat \ {0} /\ v < (b * b * b) * b
    BY <1>1, <1>2
  <2>2. v \div (b * b * b) < b /\ (v \div (b * b * b)) % b = v \div (b * b * b)
    BY <1>2, <2>1, BelowTimes
  <2> QED BY <1>4, <2>2
<1>9. tag(v) = IF v >= b * b * b THEN 3 ELSE IF v >= b * b THEN 2 ELSE IF v >= b THEN 1 ELSE 0
  BY WeightIs DEF tag
<1> HIDE DEF b, q1, q2, q3, d1, d2, d3, d4
<1>10. CASE v >= b * b * b
  <2>1. tag(v) = 3 /\ Weight[tag(v) + 1] = b * b * b
    BY <1>9, <1>10, WeightIs DEF b
  <2>2. v = d1 + d2 * b + d3 * (b * b) + d4 * (b * b * b)
    <3>1. b * q1 = b * (b * q2) + b * d2
      BY <1>1, <1>3, <1>6, <1>7
    <3>2. b * (b * q2) = b * (b * (b * q3)) + b * (b * d3)
      BY <1>1, <1>3, <1>6, <1>7
    <3>3. v = d1 + b * d2 + b * (b * d3) + b * (b * (b * q3))
      BY <1>1, <1>3, <1>6, <1>7, <3>1, <3>2
    <3> QED BY <1>1, <1>3, <1>6, <1>8, <3>3
  <2> QED BY <1>2, <1>5, <1>6, <2>1, <2>2, WeightIs DEF b, d1, d2, d3, d4
<1>11. CASE v < b * b * b /\ v >= b * b
  <2>1. tag(v) = 2 /\ Weight[tag(v) + 1] = b * b
    BY <1>1, <1>2, <1>9, <1>11, WeightIs DEF b
  <2>2. d3 = q2
    <3>1. b * b \in Nat \ {0} /\ b \in Nat \ {0} /\ v < (b * b) * b
      BY <1>1, <1>2, <1>11
    <3>2. (v \div (b * b)) % b = v \div (b * b)
      BY <1>2, <3>1, BelowTimes
    <3> QED BY <1>4, <3>2 DEF d3
  <2>3. v = d1 + d2 * b + d3 * (b * b)
    <3>1. b * q1 = b * (b * q2) + b * d2
      BY <1>1, <1>3, <1>6, <1>7
    <3> QED BY <1>1, <1>3, <1>6, <1>7, <2>2, <3>1
  <2> QED BY <1>2, <1>5, <1>6, <1>11, <2>1, <2>3, WeightIs DEF b, d1, d2, d3, d4
<1>12. CASE v < b * b * b /\ v < b * b /\ v >= b
  <2>1. tag(v) = 1 /\ Weight[tag(v) + 1] = b
    BY <1>1, <1>2, <1>9, <1>12, WeightIs DEF b
  <2>2. d2 = q1
    <3>2. (v \div b) % b = v \div b
      BY <1>1, <1>2, <1>12, BelowTimes
    <3> QED BY <3>2 DEF d2, q1
  <2>3. v = d1 + d2 * b
    BY <1>1, <1>3, <1>6, <1>7, <2>2
  <2> QED BY <1>2, <1>5, <1>6, <1>12, <2>1, <2>3, WeightIs DEF b, d1, d2, d3, d4
<1>13. CASE v < b * b * b /\ v < b * b /\ v < b
  <2>1. tag(v) = 0 /\ Weight[tag(v) + 1] = 1
    BY <1>1, <1>2, <1>9, <1>13, WeightIs DEF b
  <2>2. d1 = v
    BY <1>1, <1>2, <1>13 DEF d1
  <2> QED BY <1>2, <1>5, <1>6, <1>13, <2>1, <2>2, WeightIs DEF b, d1, d2, d3, d4
<1> QED BY <1>1, <1>2, <1>10, <1>11, <1>12, <1>13

LEMMA StoreIs ==
  ASSUME NEW v \in UInt32
  PROVE  /\ store(v) \in Seq(Nat) /\ Len(store(v)) = tag(v) + 1
         /\ \A n \in 1 .. tag(v) + 1 : store(v)[n] = Digit(v, n)
<1>1. tag(v) \in 0 .. 3 /\ ByteBase \in Nat /\ \A n \in 1 .. 4 : Digit(v, n) \in 0 .. ByteBase - 1
  BY ValueOfDigits, WeightIs
<1>2. store(v) \in [1 .. tag(v) + 1 -> Nat] /\ \A n \in 1 .. tag(v) + 1 : store(v)[n] = Digit(v, n)
  <2>1. \A n \in 1 .. tag(v) + 1 : Digit(v, n) \in Nat
    BY <1>1
  <2> QED BY <2>1 DEF store, Digit
<1> DEFINE t == tag(v) + 1
           s == store(v)
<1>3. t \in Nat /\ s \in [1 .. t -> Nat]
  BY <1>1, <1>2
<1> HIDE DEF t, s
<1>4. s \in Seq(Nat) /\ Len(s) = t
  BY <1>3
<1> QED BY <1>2, <1>4 DEF t, s

\* What is loaded from where a value is stored is the value, whatever bytes follow.
LEMMA LoadIsStore ==
  ASSUME NEW v \in UInt32, NEW buffer, NEW at \in Nat,
         \A n \in 1 .. 4 : buffer[at + n] \in Nat,
         \A n \in 1 .. tag(v) + 1 : buffer[at + n] = store(v)[n]
  PROVE  Masked(load(buffer, at), tag(v)) = v
<1> DEFINE b == ByteBase
           x1 == buffer[at + 1]
           x2 == buffer[at + 2]
           x3 == buffer[at + 3]
           x4 == buffer[at + 4]
<1>1. x1 \in Nat /\ x2 \in Nat /\ x3 \in Nat /\ x4 \in Nat /\ b \in Nat /\ b >= 2
  BY WeightIs
<1>2. load(buffer, at) = x1 + x2 * b + x3 * (b * b) + x4 * (b * b * b)
  BY WeightIs DEF load
<1>3. tag(v) \in 0 .. 3 /\ v \in Nat /\ v < Weight[tag(v) + 1] * b
  BY ValueOfDigits
<1>4. \A n \in 1 .. tag(v) + 1 : buffer[at + n] = Digit(v, n)
  BY StoreIs
<1>5. x1 = Digit(v, 1)
  BY <1>3, <1>4
<1>6. ASSUME NEW w \in Nat \ {0}, NEW x \in Nat, w = Weight[tag(v) + 1] * b, load(buffer, at) = v + w * x
      PROVE  Masked(load(buffer, at), tag(v)) = v
  <2>1. (v + w * x) % w = v
    BY <1>3, <1>6, MultipleAdded
  <2> QED BY <1>6, <2>1 DEF Masked, b
<1> HIDE DEF b, x1, x2, x3, x4
<1>7. CASE tag(v) = 0
  <2>1. v = x1 /\ Weight[tag(v) + 1] * b = b
    BY <1>1, <1>5, <1>7, ValueOfDigits, WeightIs
  <2> DEFINE x == x2 + x3 * b + x4 * (b * b)
  <2>2. load(buffer, at) = v + b * x
    BY <1>1, <1>2, <2>1
  <2>3. x \in Nat /\ b \in Nat \ {0}
    BY <1>1
  <2> HIDE DEF x
  <2> QED BY <1>6, <2>1, <2>2, <2>3
<1>8. CASE tag(v) = 1
  <2>1. x2 = Digit(v, 2)
    BY <1>4, <1>8 DEF x2
  <2>2. v = x1 + x2 * b /\ Weight[tag(v) + 1] * b = b * b
    BY <1>5, <1>8, <2>1, ValueOfDigits, WeightIs DEF b
  <2>3. load(buffer, at) = v + (b * b) * (x3 + x4 * b)
    BY <1>1, <1>2, <2>2
  <2>4. b * b \in Nat \ {0} /\ x3 + x4 * b \in Nat
    BY <1>1
  <2> QED BY <1>6, <2>2, <2>3, <2>4
<1>9. CASE tag(v) = 2
  <2>1. x2 = Digit(v, 2) /\ x3 = Digit(v, 3)
    BY <1>4, <1>9 DEF x2, x3
  <2>2. v = x1 + x2 * b + x3 * (b * b) /\ Weight[tag(v) + 1] * b = b * b * b
    BY <1>5, <1>9, <2>1, ValueOfDigits, WeightIs DEF b
  <2>3. load(buffer, at) = v + (b * b * b) * x4
    BY <1>1, <1>2, <2>2
  <2>4. b * b * b \in Nat \ {0}
    BY <1>1
  <2> QED BY <1>1, <1>6, <2>2, <2>3, <2>4
<1>10. CASE tag(v) = 3
  <2>1. x2 = Digit(v, 2) /\ x3 = Digit(v, 3) /\ x4 = Digit(v, 4)
    BY <1>4, <1>10 DEF x2, x3, x4
  <2>2. v = x1 + x2 * b + x3 * (b * b) + x4 * (b * b * b) /\ Weight[tag(v) + 1] * b = b * b * b * b
    BY <1>5, <1>10, <2>1, ValueOfDigits, WeightIs DEF b
  <2>3. load(buffer, at) = v
    BY <1>2, <2>2
  <2> DEFINE w == b * b * b * b
  <2>4. w \in Nat \ {0}
    BY <1>1
  <2>5. w = Weight[tag(v) + 1] * b
    BY <2>2
  <2> HIDE DEF w
  <2>6. v = v + w * 0
    BY <1>3, <2>4
  <2> QED BY <1>6, <2>3, <2>4, <2>5, <2>6
<1> QED BY <1>3, <1>7, <1>8, <1>9, <1>10

IsGroup(w) == DOMAIN w = 1 .. 4 /\ \A n \in 1 .. 4 : w[n] \in UInt32

PrefixOf(w) == tag(w[4]) * 64 + tag(w[3]) * 16 + tag(w[2]) * 4 + tag(w[1])

\* How many bytes of an encoded group come before value n; n = 5 for all of them.
Behind(w, n) ==
    n + (CASE n = 1 -> 0 [] n = 2 -> tag(w[1]) [] n = 3 -> tag(w[1]) + tag(w[2])
           [] n = 4 -> tag(w[1]) + tag(w[2]) + tag(w[3])
           [] n = 5 -> tag(w[1]) + tag(w[2]) + tag(w[3]) + tag(w[4]))

LEMMA BehindIs ==
  ASSUME NEW w, IsGroup(w)
  PROVE  /\ \A n \in 1 .. 4 : tag(w[n]) \in 0 .. 3 /\ Behind(w, n + 1) = Behind(w, n) + tag(w[n]) + 1
         /\ Behind(w, 1) = 1
         /\ \A n \in 1 .. 5 : Behind(w, n) \in Nat /\ Behind(w, n) <= Behind(w, 5)
         /\ \A n \in 1 .. 4 : Behind(w, n) < Behind(w, 5)
         /\ Behind(w, 5) <= 17 /\ Behind(w, 5) + 3 - tag(w[4]) <= 17
         /\ tag(w[1]) \in 0 .. 3 /\ tag(w[2]) \in 0 .. 3 /\ tag(w[3]) \in 0 .. 3 /\ tag(w[4]) \in 0 .. 3
         /\ Behind(w, 2) = 1 + (tag(w[1]) + 1) /\ Behind(w, 3) = Behind(w, 2) + (tag(w[2]) + 1)
         /\ Behind(w, 4) = Behind(w, 3) + (tag(w[3]) + 1)
         /\ Behind(w, 5) = Behind(w, 4) + (tag(w[4]) + 1)
<1>1. \A n \in 1 .. 4 : tag(w[n]) \in 0 .. 3
  BY ValueOfDigits DEF IsGroup
<1>2. tag(w[1]) \in 0 .. 3 /\ tag(w[2]) \in 0 .. 3 /\ tag(w[3]) \in 0 .. 3 /\ tag(w[4]) \in 0 .. 3
  BY <1>1
<1>3. /\ Behind(w, 1) = 1 /\ Behind(w, 2) = 2 + tag(w[1])
      /\ Behind(w, 3) = 3 + (tag(w[1]) + tag(w[2]))
      /\ Behind(w, 4) = 4 + (tag(w[1]) + tag(w[2]) + tag(w[3]))
      /\ Behind(w, 5) = 5 + (tag(w[1]) + tag(w[2]) + tag(w[3]) + tag(w[4]))
  BY <1>2 DEF Behind
<1>4. ASSUME NEW n \in 1 .. 4 PROVE Behind(w, n + 1) = Behind(w, n) + tag(w[n]) + 1
  <2>1. n = 1 \/ n = 2 \/ n = 3 \/ n = 4
    OBVIOUS
  <2> QED BY <1>2, <1>3, <2>1
<1>5. ASSUME NEW n \in 1 .. 5 PROVE Behind(w, n) \in Nat /\ Behind(w, n) <= Behind(w, 5)
  <2>1. n = 1 \/ n = 2 \/ n = 3 \/ n = 4 \/ n = 5
    OBVIOUS
  <2> QED BY <1>2, <1>3, <2>1
<1>6. ASSUME NEW n \in 1 .. 4 PROVE Behind(w, n) < Behind(w, 5)
  <2>1. n = 1 \/ n = 2 \/ n = 3 \/ n = 4
    OBVIOUS
  <2> QED BY <1>2, <1>3, <2>1
<1> QED BY <1>1, <1>2, <1>3, <1>4, <1>5, <1>6

LEMMA PrefixReadsBack ==
  ASSUME NEW w, IsGroup(w)
  PROVE  /\ PrefixOf(w) \in Nat
         /\ \A n \in 1 .. 4 : DecodePrefix(PrefixOf(w))[n] = tag(w[n])
<1> DEFINE a == tag(w[1])
           b == tag(w[2])
           c == tag(w[3])
           d == tag(w[4])
           p == PrefixOf(w)
<1>1. a \in 0 .. 3 /\ b \in 0 .. 3 /\ c \in 0 .. 3 /\ d \in 0 .. 3
  BY BehindIs
<1>2. p = d * 64 + c * 16 + b * 4 + a
  BY DEF PrefixOf
<1> HIDE DEF a, b, c, d, p
<1>3. p % 4 = a /\ (p \div 4) % 4 = b
  BY <1>1, <1>2
<1>4. (p \div 16) % 4 = c /\ p \div 64 = d
  BY <1>1, <1>2
<1>5. DecodePrefix(p) = <<a, b, c, d>>
  BY <1>3, <1>4 DEF DecodePrefix
<1>6. p \in Nat
  BY <1>1, <1>2
<1>7. ASSUME NEW n \in 1 .. 4 PROVE DecodePrefix(p)[n] = tag(w[n])
  <2>1. n = 1 \/ n = 2 \/ n = 3 \/ n = 4
    OBVIOUS
  <2> QED BY <1>5, <2>1 DEF a, b, c, d
<1> QED BY <1>6, <1>7 DEF p

\* f is e, of length n, and then s, of length l.
Continues(f, e, n, s, l, T) ==
    /\ f \in Seq(T) /\ Len(f) = n + l
    /\ \A m \in 1 .. n : f[m] = e[m]
    /\ \A m \in 1 .. l : f[n + m] = s[m]

LEMMA Joined ==
  ASSUME NEW T, NEW a \in Seq(T), NEW b \in Seq(T)
  PROVE  Continues(a \o b, a, Len(a), b, Len(b), T)
BY DEF Continues

LEMMA BytesAppended ==
  ASSUME NEW T, NEW e \in Seq(T), NEW n \in Nat, Len(e) = n, NEW s \in Seq(T), NEW l \in Nat, Len(s) = l
  PROVE  Continues(e \o s, e, n, s, l, T)
<1>1. Continues(e \o s, e, Len(e), s, Len(s), T)
  BY Joined
<1> QED BY <1>1

Four(e, p, s1, s2, s3, s4, l1, l2, l3, l4, T) ==
    /\ e \in Seq(T) /\ Len(e) = 1 + l1 + l2 + l3 + l4 /\ e[1] = p
    /\ \A m \in 1 .. l1 : e[1 + m] = s1[m]
    /\ \A m \in 1 .. l2 : e[(1 + l1) + m] = s2[m]
    /\ \A m \in 1 .. l3 : e[(1 + l1 + l2) + m] = s3[m]
    /\ \A m \in 1 .. l4 : e[(1 + l1 + l2 + l3) + m] = s4[m]

LEMMA FourAppended ==
  ASSUME NEW T, NEW p \in T, NEW s1 \in Seq(T), NEW s2 \in Seq(T), NEW s3 \in Seq(T), NEW s4 \in Seq(T),
         NEW l1 \in Nat, Len(s1) = l1, NEW l2 \in Nat, Len(s2) = l2,
         NEW l3 \in Nat, Len(s3) = l3, NEW l4 \in Nat, Len(s4) = l4
  PROVE  Four(<<p>> \o s1 \o s2 \o s3 \o s4, p, s1, s2, s3, s4, l1, l2, l3, l4, T)
<1> DEFINE e0 == <<p>>
           e1 == e0 \o s1
           e2 == e1 \o s2
           e3 == e2 \o s3
           e4 == e3 \o s4
           n1 == 1 + l1
           n2 == n1 + l2
           n3 == n2 + l3
<1>1. e0 \in Seq(T) /\ Len(e0) = 1 /\ e0[1] = p
  OBVIOUS
<1>2. n1 \in Nat /\ n2 \in Nat /\ n3 \in Nat /\ 1 <= n1 /\ n1 <= n2 /\ n2 <= n3
  OBVIOUS
<1> HIDE DEF e0
<1>3. /\ e1 \in Seq(T) /\ Len(e1) = n1
      /\ \A m \in 1 .. 1 : e1[m] = e0[m]
      /\ \A m \in 1 .. l1 : e1[1 + m] = s1[m]
  <2>1. Continues(e1, e0, 1, s1, l1, T)
    BY <1>1, BytesAppended
  <2> QED BY <2>1 DEF Continues, n1
<1> HIDE DEF e1, n1
<1>4. /\ e2 \in Seq(T) /\ Len(e2) = n2
      /\ \A m \in 1 .. n1 : e2[m] = e1[m]
      /\ \A m \in 1 .. l2 : e2[n1 + m] = s2[m]
  <2>1. Continues(e2, e1, n1, s2, l2, T)
    BY <1>2, <1>3, BytesAppended
  <2> QED BY <2>1 DEF Continues, n2
<1> HIDE DEF e2, n2
<1>5. /\ e3 \in Seq(T) /\ Len(e3) = n3
      /\ \A m \in 1 .. n2 : e3[m] = e2[m]
      /\ \A m \in 1 .. l3 : e3[n2 + m] = s3[m]
  <2>1. Continues(e3, e2, n2, s3, l3, T)
    BY <1>2, <1>4, BytesAppended
  <2> QED BY <2>1 DEF Continues, n3
<1> HIDE DEF e3, n3
<1>6. /\ e4 \in Seq(T) /\ Len(e4) = n3 + l4
      /\ \A m \in 1 .. n3 : e4[m] = e3[m]
      /\ \A m \in 1 .. l4 : e4[n3 + m] = s4[m]
  <2>1. Continues(e4, e3, n3, s4, l4, T)
    BY <1>2, <1>5, BytesAppended
  <2> QED BY <2>1 DEF Continues
<1> HIDE DEF e4
<1>7. n1 = 1 + l1 /\ n2 = n1 + l2 /\ n3 = n2 + l3
  BY DEF n1, n2, n3
<1>8. e4[1] = p
  <2>1. 1 \in 1 .. 1 /\ 1 \in 1 .. n1 /\ 1 \in 1 .. n2 /\ 1 \in 1 .. n3
    BY <1>2
  <2>2. e1[1] = e0[1] /\ e2[1] = e1[1]
    BY <1>3, <1>4, <2>1
  <2>3. e3[1] = e2[1] /\ e4[1] = e3[1]
    BY <1>5, <1>6, <2>1
  <2> QED BY <1>1, <2>2, <2>3
<1>9. ASSUME NEW m \in 1 .. l1 PROVE e4[1 + m] = s1[m]
  <2>1. 1 + m \in 1 .. n1 /\ 1 + m \in 1 .. n2 /\ 1 + m \in 1 .. n3
    BY <1>2, <1>7
  <2> QED BY <1>3, <1>4, <1>5, <1>6, <2>1
<1>10. ASSUME NEW m \in 1 .. l2 PROVE e4[n1 + m] = s2[m]
  <2>1. n1 + m \in 1 .. n2 /\ n1 + m \in 1 .. n3
    BY <1>2, <1>7
  <2> QED BY <1>4, <1>5, <1>6, <2>1
<1>11. ASSUME NEW m \in 1 .. l3 PROVE e4[n2 + m] = s3[m]
  <2>1. n2 + m \in 1 .. n3
    BY <1>2, <1>7
  <2> QED BY <1>5, <1>6, <2>1
<1> QED BY <1>6, <1>8, <1>9, <1>10, <1>11 DEF Four, e0, e1, e2, e3, e4, n1, n2, n3

LEMMA GroupIs ==
  ASSUME NEW w, IsGroup(w)
  PROVE  /\ EncodeGV4(w) \in Seq(Nat) /\ Len(EncodeGV4(w)) = Behind(w, 5)
         /\ EncodeGV4(w)[1] = PrefixOf(w)
         /\ \A n \in 1 .. 4 : \A m \in 1 .. tag(w[n]) + 1 :
               EncodeGV4(w)[Behind(w, n) + m] = store(w[n])[m]
<1> DEFINE s1 == store(w[1])
           s2 == store(w[2])
           s3 == store(w[3])
           s4 == store(w[4])
           l1 == tag(w[1]) + 1
           l2 == tag(w[2]) + 1
           l3 == tag(w[3]) + 1
           l4 == tag(w[4]) + 1
           p == PrefixOf(w)
           e == <<p>> \o s1 \o s2 \o s3 \o s4
<1>1. EncodeGV4(w) = e
  BY DEF EncodeGV4, PrefixOf
<1>2. p \in Nat
  BY PrefixReadsBack
<1>3. s1 \in Seq(Nat) /\ s2 \in Seq(Nat) /\ s3 \in Seq(Nat) /\ s4 \in Seq(Nat)
  BY StoreIs DEF IsGroup
<1>4. Len(s1) = l1 /\ Len(s2) = l2 /\ Len(s3) = l3 /\ Len(s4) = l4
  BY StoreIs DEF IsGroup
<1>5. l1 \in Nat /\ l2 \in Nat /\ l3 \in Nat /\ l4 \in Nat
  BY BehindIs
<1>6. /\ Behind(w, 1) = 1 /\ Behind(w, 2) = 1 + l1 /\ Behind(w, 3) = Behind(w, 2) + l2
      /\ Behind(w, 4) = Behind(w, 3) + l3 /\ Behind(w, 5) = Behind(w, 4) + l4
  BY BehindIs
<1> HIDE DEF s1, s2, s3, s4, p, l1, l2, l3, l4
<1>7. /\ e \in Seq(Nat) /\ Len(e) = 1 + l1 + l2 + l3 + l4 /\ e[1] = p
      /\ \A m \in 1 .. l1 : e[1 + m] = s1[m]
      /\ \A m \in 1 .. l2 : e[(1 + l1) + m] = s2[m]
      /\ \A m \in 1 .. l3 : e[(1 + l1 + l2) + m] = s3[m]
      /\ \A m \in 1 .. l4 : e[(1 + l1 + l2 + l3) + m] = s4[m]
  <2> DEFINE N == Nat
  <2>1. p \in N /\ s1 \in Seq(N) /\ s2 \in Seq(N) /\ s3 \in Seq(N) /\ s4 \in Seq(N)
    BY <1>2, <1>3
  <2> HIDE DEF N
  <2>2. Four(e, p, s1, s2, s3, s4, l1, l2, l3, l4, N)
    BY <1>4, <1>5, <2>1, FourAppended
  <2> HIDE DEF e
  <2> QED BY <2>2 DEF Four, N
<1> HIDE DEF e
<1>8. ASSUME NEW n \in 1 .. 4, NEW m \in 1 .. tag(w[n]) + 1
      PROVE  e[Behind(w, n) + m] = store(w[n])[m]
  <2>1. CASE n = 1
    <3>1. m \in 1 .. l1 /\ store(w[n]) = s1
      BY <2>1 DEF s1, l1
    <3> QED BY <1>6, <1>7, <2>1, <3>1
  <2>2. CASE n = 2
    <3>1. m \in 1 .. l2 /\ store(w[n]) = s2
      BY <2>2 DEF s2, l2
    <3> QED BY <1>6, <1>7, <2>2, <3>1
  <2>3. CASE n = 3
    <3>1. m \in 1 .. l3 /\ store(w[n]) = s3
      BY <2>3 DEF s3, l3
    <3> QED BY <1>6, <1>7, <2>3, <3>1
  <2>4. CASE n = 4
    <3>1. m \in 1 .. l4 /\ store(w[n]) = s4
      BY <2>4 DEF s4, l4
    <3> QED BY <1>6, <1>7, <2>4, <3>1
  <2> QED BY <2>1, <2>2, <2>3, <2>4
<1>9. Len(e) = Behind(w, 5)
  BY <1>6, <1>7
<1> QED BY <1>1, <1>7, <1>8, <1>9 DEF p

\* A group that is in a buffer with three more bytes is read back from there.
LEMMA GroupReadsBack ==
  ASSUME NEW w, IsGroup(w), NEW buffer, NEW at \in Nat,
         \A m \in 1 .. Behind(w, 5) : buffer[at + m] = EncodeGV4(w)[m],
         \A m \in 1 .. Behind(w, 5) + 3 : buffer[at + m] \in Nat
  PROVE  /\ DecodeGV4(buffer, at) = [n \in 1 .. 4 |-> w[n]]
         /\ Place4(buffer, at, 5) = at + Behind(w, 5)
<1>1. /\ \A n \in 1 .. 4 : tag(w[n]) \in 0 .. 3 /\ Behind(w, n + 1) = Behind(w, n) + tag(w[n]) + 1
      /\ \A n \in 1 .. 5 : Behind(w, n) \in Nat /\ Behind(w, n) <= Behind(w, 5)
      /\ \A n \in 1 .. 4 : Behind(w, n) < Behind(w, 5)
      /\ Behind(w, 1) = 1
  BY BehindIs
<1>2. buffer[at + 1] = PrefixOf(w)
  <2>1. 1 \in 1 .. Behind(w, 5)
    BY <1>1
  <2> QED BY <2>1, GroupIs
<1>3. \A n \in 1 .. 4 : DecodePrefix(buffer[at + 1])[n] = tag(w[n])
  BY <1>2, PrefixReadsBack
<1>4. \A n \in 1 .. 5 : Place4(buffer, at, n) = at + Behind(w, n)
  <2> DEFINE k == DecodePrefix(buffer[at + 1])
  <2>1. k[1] = tag(w[1]) /\ k[2] = tag(w[2]) /\ k[3] = tag(w[3]) /\ k[4] = tag(w[4])
    BY <1>3
  <2>2. tag(w[1]) \in Nat /\ tag(w[2]) \in Nat /\ tag(w[3]) \in Nat /\ tag(w[4]) \in Nat
    BY <1>1
  <2> SUFFICES ASSUME NEW n \in 1 .. 5 PROVE Place4(buffer, at, n) = at + Behind(w, n)
    OBVIOUS
  <2>3. Place4(buffer, at, n) =
          at + n + (CASE n = 1 -> 0 [] n = 2 -> k[1] [] n = 3 -> k[1] + k[2]
                      [] n = 4 -> k[1] + k[2] + k[3] [] n = 5 -> k[1] + k[2] + k[3] + k[4])
    BY DEF Place4
  <2> HIDE DEF k
  <2>4. n = 1 \/ n = 2 \/ n = 3 \/ n = 4 \/ n = 5
    OBVIOUS
  <2> QED BY <2>1, <2>2, <2>3, <2>4 DEF Behind
<1>5. ASSUME NEW n \in 1 .. 4
      PROVE  Masked(load(buffer, Place4(buffer, at, n)), DecodePrefix(buffer[at + 1])[n]) = w[n]
  <2> DEFINE v == w[n]
             place == at + Behind(w, n)
  <2>1. v \in UInt32 /\ tag(v) \in 0 .. 3 /\ Behind(w, n) \in Nat /\ place \in Nat
    BY <1>1 DEF IsGroup
  <2>2. \A m \in 1 .. 4 : Behind(w, n) + m \in 1 .. Behind(w, 5) + 3
    BY <1>1, <2>1
  <2>3. \A m \in 1 .. 4 : buffer[at + (Behind(w, n) + m)] \in Nat
    BY <2>2
  <2>4. \A m \in 1 .. 4 : at + (Behind(w, n) + m) = place + m
    BY <2>1
  <2>5. \A m \in 1 .. 4 : buffer[place + m] \in Nat
    BY <2>3, <2>4
  <2>6. ASSUME NEW m \in 1 .. tag(v) + 1 PROVE buffer[place + m] = store(v)[m]
    <3>1. n + 1 \in 1 .. 5 /\ Behind(w, n + 1) <= Behind(w, 5) /\ Behind(w, n + 1) = Behind(w, n) + tag(v) + 1
      BY <1>1
    <3>2. Behind(w, n) + m \in 1 .. Behind(w, 5) /\ at + (Behind(w, n) + m) = place + m
      BY <1>1, <2>1, <3>1
    <3>3. buffer[at + (Behind(w, n) + m)] = EncodeGV4(w)[Behind(w, n) + m]
      BY <3>2
    <3>4. EncodeGV4(w)[Behind(w, n) + m] = store(v)[m]
      BY GroupIs
    <3> QED BY <3>2, <3>3, <3>4
  <2>7. Place4(buffer, at, n) = place /\ DecodePrefix(buffer[at + 1])[n] = tag(v)
    BY <1>3, <1>4
  <2> HIDE DEF v, place
  <2>8. Masked(load(buffer, place), tag(v)) = v
    BY <2>1, <2>5, <2>6, LoadIsStore
  <2> QED BY <2>7, <2>8 DEF v
<1>6. DecodeGV4(buffer, at) = [n \in 1 .. 4 |-> w[n]]
  BY <1>5 DEF DecodeGV4
<1> QED BY <1>4, <1>6

\* Values that are encoded as whole groups.
IsCoded(stream) == stream \in Seq(UInt32) /\ Len(stream) % 4 = 0

Groups(stream) == [g \in 1 .. Len(stream) \div 4 |-> Group(stream, g)]

LEMMA GroupsAre ==
  ASSUME NEW stream, IsCoded(stream), NEW g \in 1 .. Len(stream) \div 4
  PROVE  /\ Group(stream, g) \in Seq(UInt32) /\ Len(Group(stream, g)) = 4 /\ IsGroup(Group(stream, g))
         /\ Group(stream, g) = [m \in 1 .. 4 |-> Group(stream, g)[m]]
         /\ \A m \in 1 .. 4 : 4 * (g - 1) + m \in 1 .. Len(stream)
                              /\ Group(stream, g)[m] = stream[4 * (g - 1) + m]
<1> DEFINE L == Len(stream)
           w == Group(stream, g)
           a == 4 * g - 3
           z == 4 * g
<1>1. stream \in Seq(UInt32) /\ L \in Nat /\ L % 4 = 0 /\ g \in 1 .. L \div 4
  BY DEF IsCoded
<1>2. a \in 1 .. L /\ z \in 1 .. L /\ a \in Int /\ z \in Int /\ z - a + 1 = 4
  <2> HIDE DEF L
  <2> QED BY <1>1
<1>3. w = SubSeq(stream, a, z)
  BY DEF Group
<1> HIDE DEF w
<1>4. w \in Seq(UInt32) /\ Len(w) = 4 /\ \A m \in 1 .. 4 : w[m] = stream[a + m - 1]
  <2> DEFINE U == UInt32
  <2>1. stream \in Seq(U)
    BY <1>1
  <2> HIDE DEF U, a, z
  <2>2. SubSeq(stream, a, z) \in Seq(U) /\ Len(SubSeq(stream, a, z)) = 4
    BY <1>1, <1>2, <2>1
  <2>3. \A m \in 1 .. 4 : SubSeq(stream, a, z)[m] = stream[a + m - 1]
    BY <1>1, <1>2, <2>1
  <2> QED BY <1>3, <2>2, <2>3 DEF U
<1>5. \A m \in 1 .. 4 : a + m - 1 = 4 * (g - 1) + m /\ 4 * (g - 1) + m \in 1 .. L
  <2> HIDE DEF L
  <2> QED BY <1>1
<1>6. \A m \in 1 .. 4 : w[m] = stream[4 * (g - 1) + m] /\ w[m] \in UInt32
  <2>1. \A m \in 1 .. L : stream[m] \in UInt32
    BY <1>1
  <2> HIDE DEF L, a
  <2> QED BY <1>4, <1>5, <2>1
<1>7. DOMAIN w = 1 .. 4 /\ w = [m \in 1 .. 4 |-> w[m]]
  <2> DEFINE U == UInt32
  <2>1. w \in Seq(U) /\ Len(w) = 4
    BY <1>4
  <2> HIDE DEF U
  <2>2. DOMAIN w = 1 .. 4
    BY <2>1
  <2>3. w = [m \in DOMAIN w |-> w[m]]
    BY <2>1
  <2> QED BY <2>2, <2>3
<1>8. IsGroup(w)
  BY <1>6, <1>7 DEF IsGroup
<1> QED BY <1>4, <1>5, <1>6, <1>7, <1>8 DEF w, L

Codes(stream) == [g \in 1 .. Len(stream) \div 4 |-> EncodeGV4(Group(stream, g))]

LEMMA CodesAre ==
  ASSUME NEW stream, IsCoded(stream)
  PROVE  /\ Codes(stream) \in Seq(Seq(Nat)) /\ Len(Codes(stream)) = Len(stream) \div 4
         /\ \A g \in 1 .. Len(stream) \div 4 :
               Codes(stream)[g] = EncodeGV4(Group(stream, g))
               /\ Len(Codes(stream)[g]) = Behind(Group(stream, g), 5)
         /\ EncodeGV4Stream(stream) = FlattenSeq(Codes(stream))
<1> DEFINE G == Len(stream) \div 4
           subs == Codes(stream)
           N == Seq(Nat)
<1>1. G \in Nat
  <2>1. Len(stream) \in Nat
    BY DEF IsCoded
  <2> QED BY <2>1
<1> HIDE DEF G
<1>2. subs = [g \in 1 .. G |-> EncodeGV4(Group(stream, g))]
  BY DEF Codes, G
<1>3. ASSUME NEW g \in 1 .. G PROVE EncodeGV4(Group(stream, g)) \in N /\ Len(EncodeGV4(Group(stream, g))) = Behind(Group(stream, g), 5)
  <2>1. IsGroup(Group(stream, g))
    BY <1>3, GroupsAre DEF G
  <2> QED BY <2>1, GroupIs
<1> HIDE DEF N, subs
<1>4. subs \in [1 .. G -> N]
  BY <1>2, <1>3
<1>5. subs \in Seq(N) /\ Len(subs) = G
  BY <1>1, <1>4
<1>6. \A g \in 1 .. G : subs[g] = EncodeGV4(Group(stream, g))
                        /\ Len(subs[g]) = Behind(Group(stream, g), 5)
  BY <1>2, <1>3
<1> QED BY <1>5, <1>6 DEF G, N, subs, EncodeGV4Stream, Codes

\* A sequence is its groups of four one after the other.
LEMMA GroupsFlattened ==
  ASSUME NEW stream, IsCoded(stream)
  PROVE  FlattenSeq(Groups(stream)) = stream
<1> DEFINE U == UInt32
           L == Len(stream)
           G == L \div 4
           subs == Groups(stream)
           flat == FlattenSeq(subs)
<1>1. stream \in Seq(U) /\ L \in Nat /\ L % 4 = 0
  BY DEF IsCoded
<1>2. \A g \in 1 .. G : /\ Group(stream, g) \in Seq(U) /\ Len(Group(stream, g)) = 4
                        /\ \A m \in 1 .. 4 : Group(stream, g)[m] = stream[4 * (g - 1) + m]
  BY GroupsAre
<1>3. subs = [g \in 1 .. G |-> Group(stream, g)]
  BY DEF Groups
<1> HIDE DEF U, L, subs
<1>4. G \in Nat /\ 4 * G = L
  BY <1>1
<1> HIDE DEF G
<1>5. subs \in Seq(Seq(U)) /\ Len(subs) = G
  <2> DEFINE W == Seq(U)
  <2>1. subs \in [1 .. G -> W]
    BY <1>2, <1>3
  <2> HIDE DEF W
  <2>2. subs \in Seq(W) /\ Len(subs) = G
    BY <1>4, <2>1
  <2> QED BY <2>2 DEF W
<1>6. \A g \in 1 .. G : subs[g] = Group(stream, g) /\ Len(subs[g]) = 4
  BY <1>2, <1>3
<1>7. /\ flat \in Seq(U) /\ Len(flat) = 4 * Len(subs)
      /\ \A j \in 1 .. Len(subs) : \A m \in 1 .. 4 :
            4 * (j - 1) + m \in 1 .. 4 * Len(subs) /\ flat[4 * (j - 1) + m] = subs[j][m]
  <2>1. 4 \in Nat /\ \A k \in 1 .. Len(subs) : Len(subs[k]) = 4
    BY <1>5, <1>6
  <2>2. EvenlySliced(FlattenSeq(subs), subs, 4, U)
    BY <1>5, <2>1, EqualSlices
  <2> HIDE DEF flat
  <2> QED BY <2>2 DEF EvenlySliced, flat
<1> HIDE DEF flat
<1>8. ASSUME NEW n \in 1 .. L PROVE flat[n] = stream[n]
  <2> DEFINE j == (n + 3) \div 4
             m == n - 4 * (j - 1)
  <2>1. j \in 1 .. G /\ m \in 1 .. 4 /\ 4 * (j - 1) + m = n
    BY <1>1, <1>4
  <2> HIDE DEF j, m
  <2>2. flat[4 * (j - 1) + m] = subs[j][m] /\ subs[j][m] = stream[4 * (j - 1) + m]
    BY <1>2, <1>5, <1>6, <1>7, <2>1
  <2> QED BY <2>1, <2>2
<1>9. Len(flat) = L
  BY <1>4, <1>5, <1>7
<1>10. flat = stream
  <2>1. Len(stream) = L
    BY DEF L
  <2> QED BY <1>1, <1>7, <1>8, <1>9, <2>1, SeqEqual
<1> QED BY <1>10 DEF flat, subs

Starts(f, buffer, at, n) ==
    f = [g \in 1 .. n |-> IF g = 1 THEN at ELSE Place4(buffer, f[g - 1], 5)]

\* The bytes of a stream are in a buffer, and three more.
Holds(buffer, at, bytes) ==
    /\ \A m \in 1 .. Len(bytes) : buffer[at + m] = bytes[m]
    /\ \A m \in 1 .. Len(bytes) + 3 : buffer[at + m] \in Nat

LEMMA GroupsReadBack ==
  ASSUME NEW stream, IsCoded(stream), NEW buffer, NEW at \in Nat,
         Holds(buffer, at, EncodeGV4Stream(stream)), NEW g \in 1 .. Len(stream) \div 4
  PROVE  LET start == at + StartOf(Codes(stream), g)
         IN  /\ DecodeGV4(buffer, start) = Group(stream, g)
             /\ Place4(buffer, start, 5) = at + StartOf(Codes(stream), g + 1)
<1> DEFINE G == Len(stream) \div 4
           subs == Codes(stream)
           lens == Lengths(subs)
           bytes == EncodeGV4Stream(stream)
           w == Group(stream, g)
           here == StartOf(subs, g)
           start == at + here
<1>1. subs \in Seq(Seq(Nat)) /\ Len(subs) = G /\ bytes = FlattenSeq(subs)
  BY CodesAre
<1>2. subs[g] = EncodeGV4(w) /\ Len(subs[g]) = Behind(w, 5)
  BY CodesAre
<1>3. IsGroup(w) /\ w = [m \in 1 .. 4 |-> w[m]]
  BY GroupsAre
<1>4. Sliced(bytes, subs, Nat)
  <2> DEFINE N == Nat
  <2>1. subs \in Seq(Seq(N))
    BY <1>1
  <2> HIDE DEF N, subs
  <2>2. Sliced(FlattenSeq(subs), subs, N)
    BY <2>1, FlattenSlices
  <2> QED BY <1>1, <2>2 DEF N
<1>5. lens \in Seq(Nat) /\ Len(lens) = G /\ lens[g] = Len(subs[g])
  <2>1. lens \in Seq(Nat) /\ Len(lens) = Len(subs)
    <3> DEFINE N == Nat
    <3>1. subs \in Seq(Seq(N))
      BY <1>1
    <3> HIDE DEF N, subs
    <3> QED BY <3>1, LengthsAre
  <2>2. lens[g] = Len(subs[g])
    BY <1>1 DEF Lengths
  <2> QED BY <1>1, <2>1, <2>2
<1>6. G \in Nat /\ g \in 1 .. G
  <2>1. Len(stream) \in Nat
    BY DEF IsCoded
  <2> QED BY <2>1
<1> HIDE DEF G, lens
<1>7. SumsUp(lens)
  BY <1>5, SumsAre
<1>8. here \in Nat /\ StartOf(subs, g + 1) = here + Behind(w, 5)
  <2>1. g - 1 \in 0 .. G /\ (g + 1) - 1 = g
    BY <1>6
  <2>2. SumOf(lens, g - 1) \in Nat /\ SumOf(lens, g) = SumOf(lens, g - 1) + lens[g]
    BY <1>5, <1>6, <1>7, <2>1 DEF SumsUp
  <2> QED BY <1>2, <1>5, <2>1, <2>2 DEF StartOf, lens
<1>9. Behind(w, 5) \in Nat
  BY <1>3, BehindIs
<1>10. \A m \in 1 .. Behind(w, 5) : here + m \in 1 .. Len(bytes) /\ bytes[here + m] = EncodeGV4(w)[m]
  <2>1. g \in 1 .. Len(subs)
    BY <1>1, <1>6
  <2> QED BY <1>2, <1>4, <2>1 DEF Sliced
<1>11. Len(bytes) \in Nat
  BY <1>4 DEF Sliced
<1> HIDE DEF bytes, here, w, subs
<1>12. \A m \in 1 .. Len(bytes) : buffer[at + m] = bytes[m]
  BY DEF Holds, bytes
<1>13. \A m \in 1 .. Len(bytes) + 3 : buffer[at + m] \in Nat
  BY DEF Holds, bytes
<1>14. ASSUME NEW m \in 1 .. Behind(w, 5) PROVE buffer[start + m] = EncodeGV4(w)[m]
  <2>1. buffer[at + (here + m)] = EncodeGV4(w)[m]
    BY <1>10, <1>12
  <2>2. at + (here + m) = start + m
    BY <1>8, <1>9
  <2> QED BY <2>1, <2>2
<1>15. ASSUME NEW m \in 1 .. Behind(w, 5) + 3 PROVE buffer[start + m] \in Nat
  <2>1. here + Behind(w, 5) <= Len(bytes)
    <3>1. Behind(w, 5) \in 1 .. Behind(w, 5)
      BY <1>3, BehindIs
    <3> QED BY <1>10, <3>1
  <2>2. here + m \in 1 .. Len(bytes) + 3
    BY <1>8, <1>9, <1>11, <2>1
  <2>3. at + (here + m) = start + m
    BY <1>8, <1>9
  <2> QED BY <1>13, <2>2, <2>3
<1>16. start \in Nat
  BY <1>8
<1> HIDE DEF start
<1>17. DecodeGV4(buffer, start) = [n \in 1 .. 4 |-> w[n]] /\ Place4(buffer, start, 5) = start + Behind(w, 5)
  BY <1>3, <1>14, <1>15, <1>16, GroupReadsBack
<1>18. start + Behind(w, 5) = at + StartOf(subs, g + 1)
  BY <1>8, <1>9 DEF start
<1> QED BY <1>3, <1>17, <1>18 DEF start, here, w, subs

\* A stream that is in a buffer with three more bytes is read back from there.
LEMMA StreamReadsBack ==
  ASSUME NEW stream, IsCoded(stream), NEW buffer, NEW at \in Nat,
         Holds(buffer, at, EncodeGV4Stream(stream))
  PROVE  DecodeGV4Stream(buffer, at, Len(stream)) = stream
<1> DEFINE G == Len(stream) \div 4
           subs == Codes(stream)
           d == [g \in 1 .. G |-> at + StartOf(subs, g)]
           f == CHOOSE f : Starts(f, buffer, at, G)
<1>1. G \in Nat
  <2>1. Len(stream) \in Nat
    BY DEF IsCoded
  <2> QED BY <2>1
<1>2. \A g \in 1 .. G : /\ DecodeGV4(buffer, at + StartOf(subs, g)) = Group(stream, g)
                        /\ Place4(buffer, at + StartOf(subs, g), 5) = at + StartOf(subs, g + 1)
  BY GroupsReadBack
<1>3. DecodeGV4Stream(buffer, at, Len(stream)) = FlattenSeq([g \in 1 .. G |-> DecodeGV4(buffer, f[g])])
  BY DEF DecodeGV4Stream, Starts
<1>4. Groups(stream) = [g \in 1 .. G |-> Group(stream, g)]
  BY DEF Groups
<1>5. StartOf(subs, 1) = 0
  <2>1. Lengths(subs) \in Seq(Nat)
    <3> DEFINE N == Nat
    <3>1. subs \in Seq(Seq(N))
      BY CodesAre
    <3> HIDE DEF N, subs
    <3> QED BY <3>1, LengthsAre
  <2>2. SumOf(Lengths(subs), 0) = 0
    BY <2>1, SumsAre DEF SumsUp
  <2> QED BY <2>2 DEF StartOf
<1> HIDE DEF G, subs
<1>6. \A g \in 1 .. G : d[g] = IF g = 1 THEN at ELSE Place4(buffer, d[g - 1], 5)
  <2> SUFFICES ASSUME NEW g \in 1 .. G PROVE d[g] = IF g = 1 THEN at ELSE Place4(buffer, d[g - 1], 5)
    OBVIOUS
  <2>1. d[g] = at + StartOf(subs, g)
    OBVIOUS
  <2>2. CASE g = 1
    BY <1>5, <2>1, <2>2
  <2>3. CASE g # 1
    <3>1. g - 1 \in 1 .. G /\ (g - 1) + 1 = g
      BY <1>1, <2>3
    <3>2. d[g - 1] = at + StartOf(subs, g - 1)
      BY <3>1
    <3>3. Place4(buffer, at + StartOf(subs, g - 1), 5) = at + StartOf(subs, g)
      BY <1>2, <3>1
    <3> QED BY <2>1, <2>3, <3>2, <3>3
  <2> QED BY <2>2, <2>3
<1>7. Starts(f, buffer, at, G)
  <2> DEFINE e == [g \in 1 .. G |-> IF g = 1 THEN at ELSE Place4(buffer, d[g - 1], 5)]
  <2>1. d = e
    BY <1>6
  <2>2. Starts(d, buffer, at, G)
    BY <2>1 DEF Starts
  <2> QED BY <2>2
<1>8. \A g \in 1 .. G : d[g] = at + StartOf(subs, g)
  OBVIOUS
<1> HIDE DEF d, f
<1>9. \A g \in 1 .. G : f[g] = IF g = 1 THEN at ELSE Place4(buffer, f[g - 1], 5)
  <2>1. f = [g \in 1 .. G |-> IF g = 1 THEN at ELSE Place4(buffer, f[g - 1], 5)]
    BY <1>7 DEF Starts
  <2> QED BY <2>1
<1> DEFINE S == {k \in 0 .. G : k # 0 => f[k] = d[k]}
<1>10. 0 \in S
  BY <1>1
<1>11. ASSUME NEW k \in 1 .. G, k - 1 \in S PROVE k \in S
  <2>1. CASE k = 1
    BY <1>6, <1>9, <2>1
  <2>2. CASE k # 1
    <3>1. f[k - 1] = d[k - 1]
      BY <1>11, <2>2
    <3>2. f[k] = d[k]
      BY <1>6, <1>9, <2>2, <3>1
    <3> QED BY <3>2
  <2> QED BY <2>1, <2>2
<1>12. \A k \in 1 .. G : k - 1 \in S => k \in S
  BY <1>11
<1> HIDE DEF S
<1>13. 0 .. G \subseteq S
  BY <1>1, <1>10, <1>12, ByNumber
<1>14. \A g \in 1 .. G : f[g] = d[g]
  <2>1. \A g \in 1 .. G : g \in 0 .. G /\ g # 0
    OBVIOUS
  <2> QED BY <1>13, <2>1 DEF S
<1>15. \A g \in 1 .. G : DecodeGV4(buffer, f[g]) = Group(stream, g)
  BY <1>2, <1>8, <1>14
<1>16. [g \in 1 .. G |-> DecodeGV4(buffer, f[g])] = Groups(stream)
  BY <1>4, <1>15
<1> QED BY <1>3, <1>16, GroupsFlattened

\* The encoder keeps to the buffer it is given.
LEMMA EncodedFits ==
  ASSUME NEW stream, IsCoded(stream), stream # <<>>
  PROVE  EncodedInside(stream)
<1> DEFINE L == Len(stream)
           G == L \div 4
           subs == Codes(stream)
           lens == Lengths(subs)
           last == Group(stream, G)
<1>1. L \in Nat /\ L % 4 = 0 /\ L # 0
  BY DEF IsCoded
<1>2. G \in Nat /\ 1 <= G /\ L = 4 * G /\ G \in 1 .. G
  <2> HIDE DEF L
  <2> QED BY <1>1
<1>3. /\ subs \in Seq(Seq(Nat)) /\ Len(subs) = G /\ EncodeGV4Stream(stream) = FlattenSeq(subs)
      /\ \A g \in 1 .. G : Len(subs[g]) = Behind(Group(stream, g), 5)
  BY CodesAre
<1>4. /\ \A g \in 1 .. G : Behind(Group(stream, g), 5) <= 17
      /\ Behind(last, 5) + 3 - tag(last[4]) <= 17 /\ tag(last[4]) \in 0 .. 3 /\ Behind(last, 5) \in Nat
  <2>1. \A g \in 1 .. G : IsGroup(Group(stream, g))
    BY GroupsAre
  <2>2. IsGroup(last)
    BY <1>2, <2>1
  <2> QED BY <2>1, <2>2, BehindIs
<1>5. Last(stream) = last[4]
  <2>1. last[4] = stream[4 * (G - 1) + 4]
    <3>1. G \in 1 .. Len(stream) \div 4
      BY <1>2
    <3>2. \A m \in 1 .. 4 : Group(stream, G)[m] = stream[4 * (G - 1) + m]
      <4> HIDE DEF G
      <4> QED BY <3>1, GroupsAre
    <3>3. 4 \in 1 .. 4
      OBVIOUS
    <3> QED BY <3>2, <3>3
  <2>2. 4 * (G - 1) + 4 = L
    BY <1>2
  <2> QED BY <2>1, <2>2 DEF Last
<1>6. lens \in Seq(Nat) /\ Len(lens) = G /\ Len(FlattenSeq(subs)) = SumOf(lens, G)
  <2> DEFINE N == Nat
  <2>1. subs \in Seq(Seq(N))
    BY <1>3
  <2> HIDE DEF N, subs
  <2>2. Sliced(FlattenSeq(subs), subs, N) /\ Lengths(subs) \in Seq(Nat) /\ Len(Lengths(subs)) = Len(subs)
    BY <2>1, FlattenSlices, LengthsAre
  <2> QED BY <1>3, <2>2 DEF Sliced
<1>7. \A g \in 1 .. G : lens[g] = Behind(Group(stream, g), 5)
  BY <1>3 DEF Lengths
<1>8. SumsUp(lens)
  BY <1>6, SumsAre
<1> HIDE DEF lens, G, L, last
<1> DEFINE S == {k \in 0 .. G : SumOf(lens, k) <= 17 * k}
<1>9. 0 \in S
  BY <1>2, <1>8 DEF SumsUp
<1>10. ASSUME NEW k \in 1 .. G, k - 1 \in S PROVE k \in S
  <2>1. SumOf(lens, k) = SumOf(lens, k - 1) + lens[k] /\ SumOf(lens, k - 1) \in Nat /\ SumOf(lens, k) \in Nat
    BY <1>2, <1>6, <1>8 DEF SumsUp
  <2>2. lens[k] <= 17 /\ lens[k] \in Nat
    BY <1>4, <1>6, <1>7
  <2> QED BY <1>10, <2>1, <2>2
<1>11. \A k \in 1 .. G : k - 1 \in S => k \in S
  BY <1>10
<1> HIDE DEF S
<1>12. 0 .. G \subseteq S
  BY <1>2, <1>9, <1>11, ByNumber
<1>13. SumOf(lens, G - 1) <= 17 * (G - 1)
  <2>1. G - 1 \in 0 .. G
    BY <1>2
  <2> QED BY <1>12, <2>1 DEF S
<1>14. SumOf(lens, G) = SumOf(lens, G - 1) + Behind(last, 5) /\ SumOf(lens, G - 1) \in Nat
  <2>1. lens[G] = Behind(last, 5)
    BY <1>2, <1>7 DEF last
  <2>2. G \in 1 .. Len(lens) /\ G - 1 \in 0 .. Len(lens)
    BY <1>2, <1>6
  <2> QED BY <1>8, <2>1, <2>2 DEF SumsUp
<1>15. SumOf(lens, G) + 3 - tag(last[4]) <= 17 * G
  BY <1>2, <1>4, <1>13, <1>14
<1>16. ComputeGV4WorstBufferSize(stream) = 17 * G
  <2>1. ComputeGV4WorstBufferSize(stream) = L * 4 + G
    BY DEF ComputeGV4WorstBufferSize, L, G
  <2> QED BY <1>2, <2>1
<1> QED BY <1>3, <1>5, <1>6, <1>15, <1>16 DEF EncodedInside

-----------------------------------------------------------------------------
(* Iframes.                                                                *)

StoredFrame(T) == [entries : [0 .. T - 1 -> UInt32], last : Nat]

\* Tracks come in groups of four.
WholeBlocks(T) == T \in Nat \ {0} /\ T % 4 = 0

LEMMA RowIs ==
  ASSUME NEW T, WholeBlocks(T), NEW entries \in [0 .. T - 1 -> UInt32]
  PROVE  /\ IsCoded(Row(entries)) /\ Len(Row(entries)) = T /\ Row(entries) # <<>>
         /\ \A t \in 0 .. T - 1 : Row(entries)[t + 1] = entries[t]
<1> DEFINE U == UInt32
           row == Row(entries)
<1>1. T \in Nat /\ T # 0 /\ T % 4 = 0
  BY DEF WholeBlocks
<1>2. Cardinality(DOMAIN entries) = T
  <2>1. DOMAIN entries = 0 .. T - 1
    OBVIOUS
  <2> QED BY <1>1, <2>1, FirstNumbers
<1>3. row = [n \in 1 .. T |-> entries[n - 1]]
  BY <1>2 DEF Row
<1>4. \A n \in 1 .. T : n - 1 \in 0 .. T - 1
  BY <1>1
<1>5. \A t \in 0 .. T - 1 : t + 1 \in 1 .. T /\ (t + 1) - 1 = t
  BY <1>1
<1> HIDE DEF U, row
<1>6. row \in [1 .. T -> U]
  BY <1>3, <1>4 DEF U
<1>7. row \in Seq(U) /\ Len(row) = T
  BY <1>1, <1>6
<1>8. \A t \in 0 .. T - 1 : row[t + 1] = entries[t]
  BY <1>3, <1>5
<1>9. row # <<>>
  BY <1>1, <1>7
<1> QED BY <1>1, <1>7, <1>8, <1>9 DEF IsCoded, U, row

LEMMA EncodedFrames ==
  ASSUME NEW T, WholeBlocks(T), NEW iframes \in Seq(StoredFrame(T))
  PROVE  /\ Encoded(iframes) \in Seq(Seq(Nat)) /\ Len(Encoded(iframes)) = Len(iframes)
         /\ \A n \in 1 .. Len(iframes) :
               /\ iframes[n].entries \in [0 .. T - 1 -> UInt32] /\ iframes[n].last \in Nat
               /\ iframes[n] = [entries |-> iframes[n].entries, last |-> iframes[n].last]
               /\ Encoded(iframes)[n] = EncodeGV4Stream(Row(iframes[n].entries))
<1> DEFINE L == Len(iframes)
           e == Encoded(iframes)
           N == Nat
<1>1. L \in Nat /\ DOMAIN iframes = 1 .. L /\ \A n \in 1 .. L : iframes[n] \in StoredFrame(T)
  OBVIOUS
<1>2. ASSUME NEW n \in 1 .. L
      PROVE  /\ iframes[n].entries \in [0 .. T - 1 -> UInt32] /\ iframes[n].last \in Nat
             /\ iframes[n] = [entries |-> iframes[n].entries, last |-> iframes[n].last]
  <2>1. iframes[n] \in StoredFrame(T)
    BY <1>1
  <2> QED BY <2>1 DEF StoredFrame
<1>3. e = [n \in 1 .. L |-> EncodeGV4Stream(Row(iframes[n].entries))]
  BY <1>1 DEF Encoded
<1>4. ASSUME NEW n \in 1 .. L PROVE EncodeGV4Stream(Row(iframes[n].entries)) \in Seq(N)
  <2> DEFINE row == Row(iframes[n].entries)
             subs == Codes(row)
  <2>1. IsCoded(row)
    BY <1>2, RowIs
  <2> HIDE DEF row
  <2>2. subs \in Seq(Seq(N)) /\ EncodeGV4Stream(row) = FlattenSeq(subs)
    BY <2>1, CodesAre
  <2> HIDE DEF N, subs
  <2>3. FlattenSeq(subs) \in Seq(N)
    BY <2>2, FlattenSlices DEF Sliced
  <2> QED BY <2>2, <2>3 DEF row
<1> HIDE DEF e, L
<1>5. e \in Seq(Seq(N)) /\ Len(e) = L
  <2> DEFINE W == Seq(N)
  <2>1. e \in [1 .. L -> W]
    BY <1>3, <1>4
  <2> HIDE DEF W
  <2>2. e \in Seq(W) /\ Len(e) = L
    BY <1>1, <2>1
  <2> QED BY <2>2 DEF W
<1>6. \A n \in 1 .. L : e[n] = EncodeGV4Stream(Row(iframes[n].entries))
  BY <1>3
<1> QED BY <1>2, <1>5, <1>6 DEF e, L

\* Offsets are of the iframes before.
LEMMA DescIs ==
  ASSUME NEW T, WholeBlocks(T), NEW iframes \in Seq(StoredFrame(T))
  PROVE  /\ IFrameDesc(iframes) \in Seq(Nat) /\ Len(IFrameDesc(iframes)) = 2 * Len(iframes)
         /\ \A n \in 1 .. Len(iframes) :
               /\ IFrameDesc(iframes)[2 * n - 1] = StartOf(Encoded(iframes), n)
               /\ IFrameDesc(iframes)[2 * n] = iframes[n].last
<1> DEFINE L == Len(iframes)
           e == Encoded(iframes)
           before == [n \in 1 .. L |-> Len(FlattenSeq(SubSeq(e, 1, n - 1)))]
           pairs == [n \in 1 .. L |-> <<before[n], iframes[n].last>>]
           N == Nat
<1>1. L \in Nat /\ DOMAIN iframes = 1 .. L
  OBVIOUS
<1>2. e \in Seq(Seq(N)) /\ Len(e) = L /\ \A n \in 1 .. L : iframes[n].last \in N
  BY EncodedFrames
<1>3. IFrameDesc(iframes) = FlattenSeq(pairs)
  <2>1. \A n \in 1 .. L : pairs[n] = <<Len(FlattenSeq(SubSeq(e, 1, n - 1))), iframes[n].last>>
    OBVIOUS
  <2>2. pairs = [n \in 1 .. L |-> <<Len(FlattenSeq(SubSeq(e, 1, n - 1))), iframes[n].last>>]
    OBVIOUS
  <2> HIDE DEF pairs
  <2> QED BY <1>1, <2>2 DEF IFrameDesc
<1> HIDE DEF e, L
<1>4. ASSUME NEW n \in 1 .. L PROVE before[n] = StartOf(e, n) /\ before[n] \in Nat
  <2> DEFINE cut == SubSeq(e, 1, n - 1)
  <2> HIDE DEF N
  <2>1. n - 1 \in Nat /\ n - 1 <= L
    BY <1>1
  <2>2. cut \in Seq(Seq(N)) /\ Len(cut) = n - 1 /\ \A k \in 1 .. n - 1 : cut[k] = e[k]
    <3> DEFINE W == Seq(N)
    <3>1. e \in Seq(W)
      BY <1>2
    <3> HIDE DEF W
    <3>2. cut \in Seq(W) /\ Len(cut) = n - 1 /\ \A k \in 1 .. n - 1 : cut[k] = e[k]
      BY <1>1, <1>2, <2>1, <3>1
    <3> QED BY <3>2 DEF W
  <2> HIDE DEF cut
  <2>3. Lengths(cut) \in Seq(Nat) /\ Len(Lengths(cut)) = n - 1 /\ Lengths(e) \in Seq(Nat) /\ Len(Lengths(e)) = L
    BY <1>2, <2>2, LengthsAre
  <2>4. \A k \in 1 .. n - 1 : Lengths(cut)[k] = Lengths(e)[k]
    <3>1. \A k \in 1 .. n - 1 : k \in 1 .. Len(cut) /\ k \in 1 .. Len(e)
      BY <1>1, <1>2, <2>1, <2>2
    <3> QED BY <2>2, <3>1 DEF Lengths
  <2>5. SumOf(Lengths(cut), n - 1) = SumOf(Lengths(e), n - 1)
    <3> DEFINE a == Lengths(cut)
               b == Lengths(e)
               k == n - 1
    <3>1. a \in Seq(Nat) /\ b \in Seq(Nat) /\ k \in Nat /\ k <= Len(a) /\ k <= Len(b)
      BY <2>1, <2>3
    <3>2. \A j \in 1 .. k : a[j] = b[j]
      BY <2>4
    <3> HIDE DEF a, b, k
    <3>3. SumOf(a, k) = SumOf(b, k)
      BY <3>1, <3>2, SameSums
    <3> QED BY <3>3 DEF a, b, k
  <2>6. Len(FlattenSeq(cut)) = SumOf(Lengths(cut), n - 1)
    BY <2>2, FlattenSlices DEF Sliced
  <2>7. SumOf(Lengths(cut), n - 1) \in Nat
    <3>1. n - 1 \in 0 .. n - 1
      BY <2>1
    <3> QED BY <2>3, <3>1, SumsAre DEF SumsUp
  <2> QED BY <2>5, <2>6, <2>7 DEF StartOf, cut
<1> HIDE DEF before
<1>5. \A n \in 1 .. L : pairs[n] \in Seq(Nat) /\ Len(pairs[n]) = 2 /\ pairs[n][1] = before[n] /\ pairs[n][2] = iframes[n].last
  <2> SUFFICES ASSUME NEW n \in 1 .. L
               PROVE  pairs[n] \in Seq(Nat) /\ Len(pairs[n]) = 2 /\ pairs[n][1] = before[n] /\ pairs[n][2] = iframes[n].last
    OBVIOUS
  <2>1. pairs[n] = <<before[n], iframes[n].last>>
    OBVIOUS
  <2>2. before[n] \in Nat /\ iframes[n].last \in Nat
    BY <1>2, <1>4
  <2> HIDE DEF pairs
  <2> QED BY <2>1, <2>2
<1>6. pairs \in Seq(Seq(N)) /\ Len(pairs) = L
  <2> DEFINE W == Seq(N)
  <2>1. \A n \in 1 .. L : pairs[n] \in W
    BY <1>5
  <2>2. pairs \in [1 .. L -> W]
    <3>1. pairs = [n \in 1 .. L |-> pairs[n]]
      OBVIOUS
    <3> HIDE DEF pairs, W
    <3> QED BY <2>1, <3>1
  <2> HIDE DEF W, pairs
  <2>3. pairs \in Seq(W) /\ Len(pairs) = L
    BY <1>1, <2>2
  <2> QED BY <2>3 DEF W
<1> HIDE DEF pairs
<1>7. EvenlySliced(FlattenSeq(pairs), pairs, 2, N)
  <2>1. 2 \in Nat /\ \A k \in 1 .. Len(pairs) : Len(pairs[k]) = 2
    BY <1>5, <1>6
  <2> HIDE DEF N
  <2> QED BY <1>6, <2>1, EqualSlices
<1> DEFINE flat == FlattenSeq(pairs)
<1> HIDE DEF flat
<1>8. /\ flat \in Seq(Nat) /\ Len(flat) = 2 * L
      /\ \A j \in 1 .. L : \A m \in 1 .. 2 : flat[2 * (j - 1) + m] = pairs[j][m]
  BY <1>6, <1>7 DEF EvenlySliced, flat
<1>9. ASSUME NEW n \in 1 .. L
      PROVE  flat[2 * n - 1] = StartOf(e, n) /\ flat[2 * n] = iframes[n].last
  <2>1. flat[2 * (n - 1) + 1] = pairs[n][1] /\ flat[2 * (n - 1) + 2] = pairs[n][2]
    BY <1>8
  <2>2. 2 * (n - 1) + 1 = 2 * n - 1 /\ 2 * (n - 1) + 2 = 2 * n
    BY <1>1
  <2> QED BY <1>4, <1>5, <2>1, <2>2
<1> QED BY <1>3, <1>8, <1>9 DEF flat, e, L

LEMMA IsSequence ==
  ASSUME NEW T, NEW n \in Nat, NEW f \in [1 .. n -> T]
  PROVE  f \in Seq(T) /\ Len(f) = n
OBVIOUS

LEMMA SumsGrow ==
  ASSUME NEW numbers \in Seq(Nat), NEW n \in 0 .. Len(numbers)
  PROVE  SumOf(numbers, n) <= SumOf(numbers, Len(numbers))
<1> DEFINE L == Len(numbers)
           M == L - n
           S == {k \in 0 .. M : SumOf(numbers, n) <= SumOf(numbers, n + k)}
<1>1. L \in Nat /\ n \in Nat /\ M \in Nat /\ n + M = L
  OBVIOUS
<1>2. SumsUp(numbers)
  BY SumsAre
<1>3. 0 \in S
  <2>1. SumOf(numbers, n) \in Nat /\ n + 0 = n
    BY <1>1, <1>2 DEF SumsUp
  <2> QED BY <1>1, <2>1
<1>4. ASSUME NEW k \in 1 .. M, k - 1 \in S PROVE k \in S
  <2>1. n + k \in 1 .. Len(numbers) /\ (n + k) - 1 = n + (k - 1) /\ n + (k - 1) \in 0 .. Len(numbers)
    BY <1>1
  <2>2. SumOf(numbers, n + k) = SumOf(numbers, (n + k) - 1) + numbers[n + k]
    BY <1>2, <2>1 DEF SumsUp
  <2>3. numbers[n + k] \in Nat /\ SumOf(numbers, n + (k - 1)) \in Nat /\ SumOf(numbers, n) \in Nat
    BY <1>2, <2>1 DEF SumsUp
  <2>4. SumOf(numbers, n) <= SumOf(numbers, n + (k - 1))
    BY <1>4
  <2> QED BY <2>1, <2>2, <2>3, <2>4
<1>5. \A k \in 1 .. M : k - 1 \in S => k \in S
  BY <1>4
<1> HIDE DEF S, M, L
<1>6. 0 .. M \subseteq S
  BY <1>1, <1>3, <1>5, ByNumber
<1>7. M \in S
  BY <1>1, <1>6
<1> QED BY <1>1, <1>7 DEF S, L

\* The entries of every iframe are among the bytes of all, and whatever three bytes follow.
LEMMA FramesHeld ==
  ASSUME NEW T, WholeBlocks(T), NEW iframes \in Seq(StoredFrame(T)), NEW after \in [1 .. 3 -> Nat],
         NEW n \in 1 .. Len(iframes)
  PROVE  /\ StartOf(Encoded(iframes), n) \in Nat
         /\ Holds(FlattenSeq(Encoded(iframes)) \o after, StartOf(Encoded(iframes), n), Encoded(iframes)[n])
<1> DEFINE e == Encoded(iframes)
           L == Len(iframes)
           N == Nat
           flat == FlattenSeq(e)
           lens == Lengths(e)
           F == Len(flat)
           at == StartOf(e, n)
           l == Len(e[n])
           bytes == flat \o after
<1>1. e \in Seq(Seq(N)) /\ Len(e) = L /\ L \in Nat /\ n \in 1 .. L
  BY EncodedFrames
<1> HIDE DEF e, L
<1>2. Sliced(flat, e, N) /\ lens \in Seq(Nat) /\ Len(lens) = L
  <2> HIDE DEF N
  <2> QED BY <1>1, FlattenSlices, LengthsAre
<1>3. e[n] \in Seq(Nat) /\ l \in Nat /\ lens[n] = l
  <2> DEFINE W == Seq(N)
  <2>1. e \in Seq(W)
    BY <1>1
  <2> HIDE DEF W
  <2>2. e[n] \in W
    BY <1>1, <2>1
  <2>3. e[n] \in Seq(Nat)
    BY <2>2 DEF W
  <2>4. lens[n] = l
    BY <1>1 DEF Lengths
  <2> QED BY <2>3, <2>4
<1>4. flat \in Seq(Nat) /\ F \in Nat /\ F = SumOf(lens, L)
  BY <1>1, <1>2 DEF Sliced
<1>5. \A m \in 1 .. l : at + m \in 1 .. F /\ flat[at + m] = e[n][m]
  BY <1>1, <1>2 DEF Sliced
<1> HIDE DEF flat, lens
<1>6. at \in Nat /\ at + l <= F
  <2>1. SumsUp(lens) /\ SumOf(lens, n) <= SumOf(lens, L)
    <3>1. n \in 0 .. Len(lens)
      BY <1>1, <1>2
    <3> QED BY <1>2, <3>1, SumsAre, SumsGrow
  <2>2. at = SumOf(lens, n - 1) /\ n - 1 \in 0 .. Len(lens) /\ n \in 1 .. Len(lens)
    BY <1>1, <1>2 DEF StartOf, lens
  <2>3. at \in Nat /\ SumOf(lens, n) = at + lens[n]
    BY <2>1, <2>2 DEF SumsUp
  <2> QED BY <1>3, <1>4, <2>1, <2>3
<1> HIDE DEF at, F
<1> HIDE DEF l
<1>7. after \in Seq(Nat) /\ Len(after) = 3
  <2> DEFINE X == Nat
  <2>1. 3 \in Nat /\ after \in [1 .. 3 -> X]
    OBVIOUS
  <2> HIDE DEF X
  <2>2. after \in Seq(X) /\ Len(after) = 3
    BY <2>1, IsSequence
  <2> QED BY <2>2 DEF X
<1>8. /\ \A k \in 1 .. F : bytes[k] = flat[k] /\ bytes[k] \in Nat
      /\ \A k \in 1 .. 3 : bytes[F + k] \in Nat
  <2>1. Continues(flat \o after, flat, F, after, 3, Nat)
    <3> DEFINE X == Nat
    <3>1. flat \in Seq(X) /\ after \in Seq(X) /\ Len(flat) = F /\ 3 \in Nat
      BY <1>4, <1>7 DEF F
    <3> HIDE DEF X
    <3>2. Continues(flat \o after, flat, F, after, 3, X)
      BY <1>4, <1>7, <3>1, BytesAppended
    <3> QED BY <3>2 DEF X
  <2>2. \A k \in 1 .. F : bytes[k] = flat[k]
    BY <2>1 DEF Continues
  <2>3. \A k \in 1 .. 3 : bytes[F + k] = after[k]
    BY <2>1 DEF Continues
  <2>4. \A k \in 1 .. F : flat[k] \in Nat
    BY <1>4 DEF F
  <2> QED BY <2>2, <2>3, <2>4
<1> HIDE DEF bytes
<1>9. \A m \in 1 .. l : bytes[at + m] = e[n][m]
  BY <1>5, <1>8
<1>10. ASSUME NEW m \in 1 .. l + 3 PROVE bytes[at + m] \in Nat
  <2>1. at + m \in 1 .. F + 3
    BY <1>3, <1>4, <1>6
  <2>2. CASE at + m <= F
    <3>1. at + m \in 1 .. F
      BY <1>4, <2>1, <2>2
    <3> QED BY <1>8, <3>1
  <2>3. CASE at + m > F
    <3> DEFINE k == (at + m) - F
    <3>1. k \in 1 .. 3 /\ F + k = at + m
      <4>1. at + m \in Int /\ F \in Int /\ at + m <= F + 3 /\ at + m > F
        BY <1>4, <2>1, <2>3
      <4> QED BY <4>1
    <3> HIDE DEF k
    <3>2. bytes[F + k] \in Nat
      BY <1>8, <3>1
    <3> QED BY <3>1, <3>2
  <2> QED BY <1>3, <1>4, <1>6, <2>1, <2>2, <2>3
<1>11. Holds(bytes, at, e[n])
  BY <1>9, <1>10 DEF Holds, l
<1> QED BY <1>6, <1>11 DEF bytes, flat, at, e, l

FrameIn(bytes, desc, n, T) ==
    [entries |-> [t \in 0 .. T - 1 |-> DecodeGV4Stream(bytes, desc[2 * n - 1], T)[t + 1]],
     last |-> desc[2 * n]]

LEMMA FrameReadsBack ==
  ASSUME NEW T, WholeBlocks(T), NEW iframes \in Seq(StoredFrame(T)), NEW after \in [1 .. 3 -> Nat],
         NEW n \in 1 .. Len(iframes)
  PROVE  FrameIn(FlattenSeq(Encoded(iframes)) \o after, IFrameDesc(iframes), n, T) = iframes[n]
<1> DEFINE entries == iframes[n].entries
           bytes == FlattenSeq(Encoded(iframes)) \o after
           at == StartOf(Encoded(iframes), n)
           stream == Row(entries)
<1>1. /\ entries \in [0 .. T - 1 -> UInt32]
      /\ iframes[n] = [entries |-> entries, last |-> iframes[n].last]
      /\ Encoded(iframes)[n] = EncodeGV4Stream(stream)
  BY EncodedFrames
<1>2. IFrameDesc(iframes)[2 * n - 1] = at /\ IFrameDesc(iframes)[2 * n] = iframes[n].last
  BY DescIs
<1>3. at \in Nat /\ Holds(bytes, at, EncodeGV4Stream(stream))
  BY <1>1, FramesHeld
<1> HIDE DEF bytes, at, entries
<1>4. /\ IsCoded(stream) /\ Len(stream) = T
      /\ \A t \in 0 .. T - 1 : stream[t + 1] = entries[t]
  BY <1>1, RowIs
<1> HIDE DEF stream
<1>5. DecodeGV4Stream(bytes, at, T) = stream
  BY <1>3, <1>4, StreamReadsBack
<1>6. [t \in 0 .. T - 1 |-> stream[t + 1]] = entries
  BY <1>1, <1>4
<1>7. [entries |-> [t \in 0 .. T - 1 |-> DecodeGV4Stream(bytes, at, T)[t + 1]], last |-> IFrameDesc(iframes)[2 * n]] = iframes[n]
  BY <1>1, <1>2, <1>5, <1>6
<1> QED BY <1>2, <1>7 DEF bytes, FrameIn

-----------------------------------------------------------------------------
(* Ratios are stored as indices of one byte or of two.                     *)

RatiosOf(points, index, K) == FlattenSeq([n \in 1 .. K |-> RatioBytes(points, index[n])])

RatiosServe(ratios, points, index, K) ==
    /\ ratios \in Seq(Nat) /\ Len(ratios) = SizeofRatio(points) * K
    /\ \A k \in 0 .. K - 1 : KeyRatio(points, ratios, k) = points[index[k + 1] + 1]

LEMMA RatiosReadBack ==
  ASSUME NEW points, Len(points) \in Nat, Len(points) <= MaxTimePoints,
         NEW K \in Nat, NEW index \in [1 .. K -> 0 .. Len(points) - 1]
  PROVE  RatiosServe(RatiosOf(points, index, K), points, index, K)
<1> DEFINE B == ByteBase
           w == SizeofRatio(points)
           N == Nat
           parts == [n \in 1 .. K |-> RatioBytes(points, index[n])]
           ratios == FlattenSeq(parts)
           P == Len(points)
<1>1. B \in Nat /\ B >= 2 /\ P \in Nat /\ P <= B * B - 1
  BY WeightIs DEF MaxTimePoints
<1> HIDE DEF P
<1>2. \A n \in 1 .. K : index[n] \in Nat /\ index[n] < P
  BY <1>1 DEF P
<1>3. (w = 1 /\ P <= B - 1) \/ (w = 2 /\ ~(P <= B - 1))
  BY DEF SizeofRatio, P
<1>4. ASSUME NEW n \in 1 .. K
      PROVE  /\ index[n] % B \in Nat /\ (index[n] \div B) % B \in Nat
             /\ w = 1 => index[n] % B = index[n]
             /\ (index[n] % B) + ((index[n] \div B) % B) * B = index[n]
  <2> DEFINE v == index[n]
  <2>1. v \in Nat /\ v < P /\ v < B * B
    BY <1>1, <1>2
  <2> HIDE DEF v
  <2>2. B \in Nat \ {0}
    BY <1>1
  <2>3. v \div B \in Nat /\ v % B \in 0 .. B - 1 /\ v = B * (v \div B) + (v % B)
    <3> HIDE DEF B
    <3> QED BY <2>1, <2>2, Remainder
  <2>4. (v \div B) % B = v \div B
    <3> HIDE DEF B
    <3> QED BY <2>1, <2>2, BelowTimes
  <2>5. w = 1 => v % B = v
    <3>1. w = 1 => v < B
      BY <1>1, <1>3, <2>1
    <3> HIDE DEF B
    <3>2. v < B => v % B = v
      BY <2>1, <2>2
    <3> QED BY <3>1, <3>2
  <2>6. (v \div B) * B = B * (v \div B)
    <3> DEFINE q == v \div B
    <3>1. q \in Nat
      BY <2>3
    <3> HIDE DEF q
    <3>2. q * B = B * q
      BY <3>1, <2>2
    <3> QED BY <3>2 DEF q
  <2>7. (v % B) + (v \div B) * B = v
    <3> DEFINE q == B * (v \div B)
               r == v % B
    <3>1. r \in Nat /\ v = q + r /\ v \in Nat /\ q \in Nat
      <4>1. v \div B \in Nat /\ B \in Nat
        BY <2>2, <2>3
      <4> QED BY <2>1, <2>3, <4>1
    <3> HIDE DEF q, r
    <3>2. r + q = v
      BY <3>1
    <3> QED BY <2>6, <3>2 DEF q, r
  <2> QED BY <2>3, <2>4, <2>5, <2>7 DEF v
<1> HIDE DEF w, B
<1>5. ASSUME NEW n \in 1 .. K
      PROVE  /\ parts[n] \in Seq(Nat) /\ Len(parts[n]) = w
             /\ w = 1 => parts[n][1] = index[n]
             /\ w = 2 => parts[n][1] = index[n] % B /\ parts[n][2] = (index[n] \div B) % B
  <2>1. parts[n] = RatioBytes(points, index[n])
    OBVIOUS
  <2>2. CASE w = 1
    <3>1. parts[n] = <<index[n]>>
      BY <1>4, <2>1, <2>2 DEF RatioBytes, w, B
    <3> HIDE DEF parts
    <3> QED BY <1>2, <2>2, <3>1
  <2>3. CASE w = 2
    <3>1. parts[n] = <<index[n] % B, (index[n] \div B) % B>>
      BY <2>1, <2>3 DEF RatioBytes, w, B
    <3>2. index[n] % B \in Nat /\ (index[n] \div B) % B \in Nat
      BY <1>4
    <3> HIDE DEF parts
    <3> DEFINE x == index[n] % B
               y == (index[n] \div B) % B
    <3> HIDE DEF x, y
    <3>3. parts[n] = <<x, y>> /\ x \in Nat /\ y \in Nat
      BY <3>1, <3>2 DEF x, y
    <3>4. parts[n] \in Seq(Nat) /\ Len(parts[n]) = 2 /\ parts[n][1] = x /\ parts[n][2] = y
      BY <3>3
    <3> QED BY <2>3, <3>4 DEF x, y
  <2> QED BY <1>3, <2>2, <2>3
<1>6. parts \in Seq(Seq(N)) /\ Len(parts) = K
  <2> DEFINE W == Seq(N)
  <2>1. \A n \in 1 .. K : parts[n] \in W
    BY <1>5
  <2>2. parts \in [1 .. K -> W]
    <3>1. parts = [n \in 1 .. K |-> parts[n]]
      OBVIOUS
    <3> HIDE DEF parts, W
    <3> QED BY <2>1, <3>1
  <2> HIDE DEF W, parts
  <2>3. parts \in Seq(W) /\ Len(parts) = K
    BY <2>2, IsSequence
  <2> QED BY <2>3 DEF W
<1> HIDE DEF parts
<1>7. EvenlySliced(ratios, parts, w, N)
  <2>1. w \in Nat
    BY <1>3
  <2> HIDE DEF N
  <2> QED BY <1>5, <1>6, <2>1, EqualSlices
<1> HIDE DEF ratios
<1>8. /\ ratios \in Seq(Nat) /\ Len(ratios) = w * K
      /\ \A j \in 1 .. K : \A m \in 1 .. w : ratios[w * (j - 1) + m] = parts[j][m]
  BY <1>6, <1>7 DEF EvenlySliced
<1>9. ASSUME NEW k \in 0 .. K - 1
      PROVE  KeyRatio(points, ratios, k) = points[index[k + 1] + 1]
  <2>1. k + 1 \in 1 .. K /\ (k + 1) - 1 = k /\ k \in Nat
    OBVIOUS
  <2>2. CASE w = 1
    <3>1. 1 * k + 1 = k + 1 /\ 1 \in 1 .. w /\ w * ((k + 1) - 1) + 1 = k + 1
      BY <2>1, <2>2
    <3>2. ratios[k + 1] = parts[k + 1][1]
      BY <1>8, <2>1, <3>1
    <3>3. ratios[k + 1] = index[k + 1]
      BY <1>5, <2>1, <2>2, <3>2
    <3> QED BY <1>3, <2>2, <3>3 DEF KeyRatio, P, B
  <2>3. CASE w = 2
    <3>1. 1 \in 1 .. w /\ 2 \in 1 .. w /\ w * ((k + 1) - 1) = 2 * k
      BY <2>1, <2>3
    <3>2. ratios[2 * k + 1] = parts[k + 1][1] /\ ratios[2 * k + 2] = parts[k + 1][2]
      BY <1>8, <2>1, <3>1
    <3>3. ratios[2 * k + 1] + ratios[2 * k + 2] * B = index[k + 1]
      BY <1>4, <1>5, <2>1, <2>3, <3>2
    <3> QED BY <1>3, <2>3, <3>3 DEF KeyRatio, P, B
  <2> QED BY <1>3, <2>2, <2>3
<1> QED BY <1>8, <1>9 DEF RatiosServe, RatiosOf, ratios, parts, w

-----------------------------------------------------------------------------
(* Streams.                                                                *)

\* A stream that fits the runtime format: `times` are the time points, `points` their
\* ratios, and `at` the times of the keys.
Storable(s, at, times, points, most) ==
    /\ s = [tracks |-> s.tracks, keys |-> s.keys, ratio |-> s.ratio, track |-> s.track,
            previous |-> s.previous, iframes |-> s.iframes]
    /\ WholeBlocks(s.tracks) /\ s.keys \in Nat /\ most \in Nat
    /\ s.track \in [0 .. s.keys - 1 -> Nat]
    /\ s.previous \in [0 .. s.keys - 1 -> 0 .. most]
    /\ s.iframes \in Seq(StoredFrame(s.tracks))
    /\ Len(times) \in Nat /\ Len(times) <= MaxTimePoints /\ Len(points) = Len(times)
    /\ s.ratio = [k \in 0 .. s.keys - 1 |-> s.ratio[k]]
    /\ \A n \in 1 .. s.keys :
          /\ TimePointToIndex(times, at[n]) \in 0 .. Len(times) - 1
          /\ points[TimePointToIndex(times, at[n]) + 1] = s.ratio[n - 1]

\* What is stored of it.
StoredParts(ctrl, s, points) ==
    /\ ctrl.ratios \in Seq(Nat) /\ Len(ctrl.ratios) = SizeofRatio(points) * s.keys
    /\ \A k \in 0 .. s.keys - 1 : KeyRatio(points, ctrl.ratios, k) = s.ratio[k]
    /\ ctrl.previouses \in Seq(Nat) /\ Len(ctrl.previouses) = s.keys
    /\ \A k \in 0 .. s.keys - 1 : ctrl.previouses[k + 1] = s.previous[k]
    /\ ctrl.iframe_entries = FlattenSeq(Encoded(s.iframes))
    /\ ctrl.iframe_desc = IFrameDesc(s.iframes)
    /\ ctrl.iframe_interval \in Nat

LEMMA StoredPartsAre ==
  ASSUME NEW s, NEW at, NEW times, NEW points, NEW most, Storable(s, at, times, points, most)
  PROVE  StoredParts(StoredCtrl(s, at, times, most), s, points)
<1> DEFINE K == s.keys
           index == [n \in 1 .. K |-> TimePointToIndex(times, at[n])]
           ratios == RatiosOf(times, index, K)
           ctrl == StoredCtrl(s, at, times, most)
           previouses1 == [n \in 1 .. K |-> s.previous[n - 1] % (most + 1)]
<1>1. /\ ctrl.ratios = FlattenSeq([n \in 1 .. K |-> RatioBytes(times, TimePointToIndex(times, at[n]))])
      /\ ctrl.previouses = previouses1
      /\ ctrl.iframe_entries = FlattenSeq(Encoded(s.iframes))
      /\ ctrl.iframe_desc = IFrameDesc(s.iframes)
      /\ ctrl.iframe_interval = IF s.iframes = <<>> THEN 1 ELSE Len(s.iframes)
  BY DEF StoredCtrl
<1> HIDE DEF ctrl
<1>2. [n \in 1 .. K |-> RatioBytes(times, TimePointToIndex(times, at[n]))]
      = [n \in 1 .. K |-> RatioBytes(times, index[n])]
  OBVIOUS
<1>3. ctrl.ratios = ratios
  BY <1>1, <1>2 DEF RatiosOf
<1>4. /\ index \in [1 .. K -> 0 .. Len(times) - 1] /\ K \in Nat
      /\ Len(times) \in Nat /\ Len(times) <= MaxTimePoints /\ Len(points) = Len(times)
      /\ \A n \in 1 .. K : points[index[n] + 1] = s.ratio[n - 1]
  BY DEF Storable
<1> HIDE DEF index
<1>5. /\ ratios \in Seq(Nat) /\ Len(ratios) = SizeofRatio(points) * K
      /\ \A k \in 0 .. K - 1 : KeyRatio(points, ratios, k) = points[index[k + 1] + 1]
  <2>1. Len(points) \in Nat /\ Len(points) <= MaxTimePoints /\ index \in [1 .. K -> 0 .. Len(points) - 1]
    BY <1>4
  <2>2. \A v : RatioBytes(times, v) = RatioBytes(points, v)
    BY <1>4 DEF RatioBytes, SizeofRatio
  <2>3. ratios = RatiosOf(points, index, K)
    BY <2>2 DEF RatiosOf
  <2> HIDE DEF ratios, K
  <2>4. RatiosServe(RatiosOf(points, index, K), points, index, K)
    BY <1>4, <2>1, RatiosReadBack
  <2> QED BY <2>3, <2>4 DEF RatiosServe
<1> HIDE DEF ratios
<1>6. \A k \in 0 .. K - 1 : KeyRatio(points, ratios, k) = s.ratio[k]
  <2>1. \A k \in 0 .. K - 1 : k + 1 \in 1 .. K /\ (k + 1) - 1 = k
    BY <1>4
  <2> QED BY <1>4, <1>5, <2>1
<1>7. ASSUME NEW n \in 1 .. K
      PROVE  previouses1[n] = s.previous[n - 1] /\ s.previous[n - 1] \in Nat
  <2>1. n - 1 \in 0 .. K - 1 /\ most \in Nat
    BY <1>4 DEF Storable
  <2>2. s.previous[n - 1] \in 0 .. most
    BY <2>1 DEF Storable
  <2> DEFINE v == s.previous[n - 1]
             b == most + 1
  <2>3. v \in Nat /\ b \in Nat \ {0} /\ v < b /\ previouses1[n] = v % b
    BY <2>1, <2>2
  <2> HIDE DEF v, b, previouses1
  <2>4. v % b = v
    BY <2>3
  <2> QED BY <2>3, <2>4 DEF v
<1>8. /\ previouses1 \in Seq(Nat) /\ Len(previouses1) = K
      /\ \A k \in 0 .. K - 1 : previouses1[k + 1] = s.previous[k]
  <2>1. previouses1 = [n \in 1 .. K |-> previouses1[n]]
    OBVIOUS
  <2> DEFINE X == Nat
  <2>2. previouses1 \in [1 .. K -> X]
    <3> HIDE DEF previouses1
    <3> QED BY <1>7, <2>1
  <2> HIDE DEF X
  <2>3. previouses1 \in Seq(X) /\ Len(previouses1) = K
    <3> HIDE DEF previouses1, K
    <3> QED BY <1>4, <2>2, IsSequence
  <2>4. \A k \in 0 .. K - 1 : previouses1[k + 1] = s.previous[k]
    <3>1. \A k \in 0 .. K - 1 : k + 1 \in 1 .. K /\ (k + 1) - 1 = k
      BY <1>4
    <3> HIDE DEF previouses1
    <3> QED BY <1>7, <3>1
  <2> QED BY <2>3, <2>4 DEF X
<1> HIDE DEF previouses1
<1>9. ctrl.iframe_interval \in Nat
  <2> DEFINE X == StoredFrame(s.tracks)
  <2>1. s.iframes \in Seq(X)
    BY DEF Storable
  <2> HIDE DEF X
  <2>2. Len(s.iframes) \in Nat
    BY <2>1
  <2> QED BY <1>1, <2>2
<1> QED BY <1>1, <1>3, <1>5, <1>6, <1>8, <1>9 DEF StoredParts, ctrl

\* What is read back of a stream is the stream.
LEMMA StoredReadsBack ==
  ASSUME NEW s, NEW at, NEW times, NEW points, NEW most, Storable(s, at, times, points, most),
         NEW stored, NEW c, stored.ctrl[c] = StoredCtrl(s, at, times, most),
         stored.values[c] = StoredValues(s), stored.timepoints = points,
         SoaWidth * ((stored.num_tracks + SoaWidth - 1) \div SoaWidth) = s.tracks,
         NEW after \in [1 .. 3 -> Nat]
  PROVE  ReadBack(stored, c, after) = s
<1> DEFINE K == s.keys
           T == s.tracks
           ctrl == stored.ctrl[c]
           iframes == s.iframes
           frame(n) == FrameIn(ctrl.iframe_entries \o after, ctrl.iframe_desc, n, T)
<1>1. /\ K \in Nat /\ WholeBlocks(T) /\ iframes \in Seq(StoredFrame(T))
      /\ s = [tracks |-> T, keys |-> K, ratio |-> s.ratio, track |-> s.track,
              previous |-> s.previous, iframes |-> iframes]
      /\ s.track \in [0 .. K - 1 -> Nat] /\ s.previous \in [0 .. K - 1 -> 0 .. most]
      /\ s.ratio = [k \in 0 .. K - 1 |-> s.ratio[k]]
  BY DEF Storable
<1>2. StoredParts(ctrl, s, points)
  BY StoredPartsAre
<1>3. Len(ctrl.previouses) = K
  BY <1>2 DEF StoredParts
<1>4. [k \in 0 .. K - 1 |-> KeyRatio(stored.timepoints, ctrl.ratios, k)] = s.ratio
  <2>1. \A k \in 0 .. K - 1 : KeyRatio(stored.timepoints, ctrl.ratios, k) = s.ratio[k]
    BY <1>2 DEF StoredParts
  <2> HIDE DEF ctrl, K
  <2> QED BY <1>1, <2>1
<1>5. [k \in 0 .. K - 1 |-> stored.values[c][k + 1]] = s.track
  <2>1. stored.values[c] = [n \in 1 .. K |-> s.track[n - 1]]
    BY DEF StoredValues
  <2>2. \A k \in 0 .. K - 1 : k + 1 \in 1 .. K /\ (k + 1) - 1 = k
    BY <1>1
  <2>3. \A k \in 0 .. K - 1 : stored.values[c][k + 1] = s.track[k]
    BY <2>1, <2>2
  <2> HIDE DEF K
  <2> QED BY <1>1, <2>3
<1>6. [k \in 0 .. K - 1 |-> ctrl.previouses[k + 1]] = s.previous
  <2>1. \A k \in 0 .. K - 1 : ctrl.previouses[k + 1] = s.previous[k]
    BY <1>2 DEF StoredParts
  <2> HIDE DEF ctrl, K
  <2> QED BY <1>1, <2>1
<1>7. ASSUME NEW n \in 1 .. Len(iframes) PROVE frame(n) = iframes[n]
  <2>1. ctrl.iframe_entries = FlattenSeq(Encoded(iframes)) /\ ctrl.iframe_desc = IFrameDesc(iframes)
    BY <1>2 DEF StoredParts
  <2> HIDE DEF ctrl, iframes, T
  <2>2. FrameIn(FlattenSeq(Encoded(iframes)) \o after, IFrameDesc(iframes), n, T) = iframes[n]
    BY <1>1, FrameReadsBack
  <2> QED BY <2>1, <2>2
<1>8. Len(ctrl.iframe_desc) \div 2 = Len(iframes) /\ Len(iframes) \in Nat
  <2>1. ctrl.iframe_desc = IFrameDesc(iframes)
    BY <1>2 DEF StoredParts
  <2> DEFINE X == StoredFrame(T)
             L == Len(iframes)
  <2>2. iframes \in Seq(X)
    BY <1>1
  <2> HIDE DEF X
  <2>3. L \in Nat
    BY <2>2
  <2>4. Len(ctrl.iframe_desc) = 2 * L
    <3> HIDE DEF iframes, T
    <3>1. Len(IFrameDesc(iframes)) = 2 * Len(iframes)
      BY <1>1, DescIs
    <3> QED BY <2>1, <3>1
  <2> HIDE DEF L, ctrl
  <2>5. (2 * L) \div 2 = L
    BY <2>3
  <2> QED BY <2>3, <2>4, <2>5 DEF L
<1>9. [n \in 1 .. Len(ctrl.iframe_desc) \div 2 |-> frame(n)] = iframes
  <2> DEFINE X == StoredFrame(T)
  <2>1. iframes \in Seq(X)
    BY <1>1
  <2>2. iframes = [n \in 1 .. Len(iframes) |-> iframes[n]]
    <3> HIDE DEF X, iframes
    <3> QED BY <2>1
  <2>3. \A n \in 1 .. Len(iframes) : frame(n) = iframes[n]
    BY <1>7
  <2> HIDE DEF frame, iframes, ctrl
  <2> QED BY <1>8, <2>2, <2>3
<1>10. ReadBack(stored, c, after)
       = [tracks   |-> T,
          keys     |-> K,
          ratio    |-> [k \in 0 .. K - 1 |-> KeyRatio(stored.timepoints, ctrl.ratios, k)],
          track    |-> [k \in 0 .. K - 1 |-> stored.values[c][k + 1]],
          previous |-> [k \in 0 .. K - 1 |-> ctrl.previouses[k + 1]],
          iframes  |-> [n \in 1 .. Len(ctrl.iframe_desc) \div 2 |-> frame(n)]]
  BY <1>3 DEF ReadBack, FrameIn
<1> HIDE DEF frame, ctrl, K, T, iframes
<1> QED BY <1>1, <1>4, <1>5, <1>6, <1>9, <1>10

-----------------------------------------------------------------------------
(* Archives.                                                               *)

\* A sequence is cut out of all of them where it starts and the next one does.
LEMMA SliceIs ==
  ASSUME NEW T, NEW subs \in Seq(Seq(T)), NEW flat, Sliced(flat, subs, T), NEW n \in 1 .. Len(subs)
  PROVE  SubSeq(flat, SumOf(Lengths(subs), n - 1) + 1, SumOf(Lengths(subs), n)) = subs[n]
<1> DEFINE lens == Lengths(subs)
           from == SumOf(lens, n - 1)
           l == Len(subs[n])
           cut == SubSeq(flat, from + 1, from + l)
<1>1. lens \in Seq(Nat) /\ Len(lens) = Len(subs)
  BY LengthsAre
<1>2. subs[n] \in Seq(T) /\ l \in Nat /\ lens[n] = l
  <2> DEFINE W == Seq(T)
  <2>1. subs \in Seq(W)
    OBVIOUS
  <2> HIDE DEF W
  <2>2. subs[n] \in W
    BY <2>1
  <2> QED BY <2>2 DEF W, Lengths
<1>3. /\ flat \in Seq(T) /\ \A m \in 1 .. l : from + m \in 1 .. Len(flat) /\ flat[from + m] = subs[n][m]
  BY DEF Sliced, StartOf
<1>4. from \in Nat /\ SumOf(lens, n) = from + l
  <2>1. SumsUp(lens) /\ n \in 1 .. Len(lens) /\ n - 1 \in 0 .. Len(lens)
    <3>1. Len(lens) \in Nat
      BY <1>1
    <3> QED BY <1>1, <3>1, SumsAre
  <2> QED BY <1>2, <2>1 DEF SumsUp
<1> HIDE DEF from, l, lens
<1>5. /\ cut \in Seq(T) /\ Len(cut) = l
      /\ \A m \in 1 .. l : cut[m] = flat[from + m]
  <2>1. from + l <= Len(flat) \/ l = 0
    <3>1. l # 0 => l \in 1 .. l
      BY <1>2
    <3> QED BY <1>2, <1>3, <1>4, <3>1
  <2>2. CASE l = 0
    <3>1. cut = <<>>
      BY <1>3, <1>4, <2>2
    <3> HIDE DEF cut
    <3> QED BY <2>2, <3>1
  <2>3. CASE l # 0
    <3>1. from + 1 \in 1 .. Len(flat) + 1 /\ from + l \in 0 .. Len(flat) /\ (from + l) - (from + 1) + 1 = l
      BY <1>2, <1>3, <1>4, <2>1, <2>3
    <3>2. Len(cut) = l /\ \A m \in 1 .. l : cut[m] = flat[from + m]
      BY <1>2, <1>3, <1>4, <3>1
    <3>3. cut \in Seq(T)
      BY <1>2, <1>3, <1>4, <3>1
    <3> QED BY <3>2, <3>3
  <2> QED BY <2>2, <2>3
<1> HIDE DEF cut
<1>6. cut = subs[n]
  <2> DEFINE w == subs[n]
  <2>1. w \in Seq(T) /\ Len(w) = l /\ cut \in Seq(T) /\ Len(cut) = l /\ \A m \in 1 .. l : cut[m] = w[m]
    BY <1>2, <1>3, <1>5 DEF l
  <2> HIDE DEF w
  <2>2. cut = w
    BY <2>1
  <2> QED BY <2>2 DEF w
<1> QED BY <1>4, <1>6 DEF cut, from, lens

\* An animation as the builder writes it.
IsStored(stored) ==
    /\ stored = [duration |-> stored.duration, num_tracks |-> stored.num_tracks, name |-> stored.name,
                 timepoints |-> stored.timepoints,
                 ctrl |-> [c \in 1 .. Channels |-> stored.ctrl[c]],
                 values |-> [c \in 1 .. Channels |-> stored.values[c]]]
    /\ stored.duration \in Nat /\ stored.num_tracks \in Nat
    /\ stored.name \in Seq(ToSet(stored.name)) /\ stored.timepoints \in Seq(Nat)
    /\ \A c \in 1 .. Channels :
          /\ stored.ctrl[c] = [ratios |-> stored.ctrl[c].ratios, previouses |-> stored.ctrl[c].previouses,
                               iframe_entries |-> stored.ctrl[c].iframe_entries,
                               iframe_desc |-> stored.ctrl[c].iframe_desc,
                               iframe_interval |-> stored.ctrl[c].iframe_interval]
          /\ stored.ctrl[c].ratios \in Seq(Nat) /\ stored.ctrl[c].previouses \in Seq(Nat)
          /\ stored.ctrl[c].iframe_entries \in Seq(Nat) /\ stored.ctrl[c].iframe_desc \in Seq(Nat)
          /\ stored.ctrl[c].iframe_interval \in Nat /\ stored.values[c] \in Seq(Nat)
          /\ Len(stored.ctrl[c].previouses) = Len(stored.values[c])
          /\ Len(stored.ctrl[c].ratios) = SizeofRatio(stored.timepoints) * Len(stored.values[c])

Stored(stored) == Nat \cup ToSet(stored.name)

LEMMA NumbersAreStored ==
  ASSUME NEW stored, NEW w \in Seq(Nat)
  PROVE  w \in Seq(Stored(stored))
<1> DEFINE L == Len(w)
           V == Stored(stored)
<1>1. L \in Nat /\ w = [k \in 1 .. L |-> w[k]] /\ \A k \in 1 .. L : w[k] \in Nat
  OBVIOUS
<1>2. \A k \in 1 .. L : w[k] \in V
  BY <1>1 DEF Stored
<1> HIDE DEF V, L
<1>3. w \in [1 .. L -> V]
  BY <1>1, <1>2
<1> QED BY <1>1, <1>3, IsSequence DEF V

LEMMA NameIsStored ==
  ASSUME NEW stored, stored.name \in Seq(ToSet(stored.name))
  PROVE  stored.name \in Seq(Stored(stored))
<1> DEFINE w == stored.name
           L == Len(w)
           V == Stored(stored)
           X == ToSet(stored.name)
<1>1. w \in Seq(X)
  OBVIOUS
<1>2. \A x \in X : x \in V
  BY DEF Stored
<1> HIDE DEF w, X, V
<1>3. L \in Nat /\ w = [k \in 1 .. L |-> w[k]] /\ \A k \in 1 .. L : w[k] \in X
  BY <1>1
<1> HIDE DEF L
<1>4. w \in [1 .. L -> V]
  BY <1>2, <1>3
<1>5. w \in Seq(V)
  BY <1>3, <1>4, IsSequence
<1> QED BY <1>5 DEF w, V

PerChannel(stored) ==
    [c \in 1 .. Channels |-> <<Len(stored.ctrl[c].iframe_entries), Len(stored.ctrl[c].iframe_desc)>>]

CountsServe(counts, stored) ==
    /\ counts \in Seq(Nat) /\ Len(counts) = 4 + 3 * Channels
    /\ counts[1] = stored.duration /\ counts[2] = stored.num_tracks
    /\ counts[3] = Len(stored.name) /\ counts[4] = Len(stored.timepoints)
    /\ \A c \in 1 .. Channels :
          /\ counts[4 + c] = Len(stored.values[c])
          /\ counts[3 + Channels + 2 * c] = Len(stored.ctrl[c].iframe_entries)
          /\ counts[4 + Channels + 2 * c] = Len(stored.ctrl[c].iframe_desc)

LEMMA CountsAre ==
  ASSUME NEW stored, IsStored(stored)
  PROVE  CountsServe(Counts(stored), stored)
<1> DEFINE C == Channels
           a == <<stored.duration, stored.num_tracks, Len(stored.name), Len(stored.timepoints)>>
           b == [c \in 1 .. C |-> Len(stored.values[c])]
           pairs == PerChannel(stored)
           d == FlattenSeq(pairs)
           N == Nat
<1>0. C \in Nat
  BY KeyStreamAssumption
<1>1. /\ a \in Seq(Nat) /\ Len(a) = 4 /\ a[1] = stored.duration /\ a[2] = stored.num_tracks
      /\ a[3] = Len(stored.name) /\ a[4] = Len(stored.timepoints)
  <2> DEFINE p == stored.duration
             q == stored.num_tracks
             r == Len(stored.name)
             s == Len(stored.timepoints)
             X == ToSet(stored.name)
  <2>1. p \in Nat /\ q \in Nat /\ stored.timepoints \in Seq(Nat) /\ stored.name \in Seq(X)
    BY DEF IsStored
  <2> HIDE DEF X
  <2>2. p \in Nat /\ q \in Nat /\ r \in Nat /\ s \in Nat
    BY <2>1
  <2> HIDE DEF p, q, r, s
  <2>3. /\ <<p, q, r, s>> \in Seq(Nat) /\ Len(<<p, q, r, s>>) = 4 /\ <<p, q, r, s>>[1] = p
        /\ <<p, q, r, s>>[2] = q /\ <<p, q, r, s>>[3] = r /\ <<p, q, r, s>>[4] = s
    BY <2>2
  <2> QED BY <2>3 DEF p, q, r, s
<1>2. /\ b \in Seq(N) /\ Len(b) = C /\ \A c \in 1 .. C : b[c] = Len(stored.values[c])
  <2>1. \A c \in 1 .. C : stored.values[c] \in Seq(Nat)
    BY DEF IsStored
  <2>2. b \in [1 .. C -> N]
    BY <2>1
  <2>3. \A c \in 1 .. C : b[c] = Len(stored.values[c])
    OBVIOUS
  <2> HIDE DEF b, N
  <2> QED BY <1>0, <2>2, <2>3, IsSequence
<1>3. ASSUME NEW c \in 1 .. C
      PROVE  /\ pairs[c] \in Seq(N) /\ Len(pairs[c]) = 2
             /\ pairs[c][1] = Len(stored.ctrl[c].iframe_entries)
             /\ pairs[c][2] = Len(stored.ctrl[c].iframe_desc)
  <2> DEFINE x == Len(stored.ctrl[c].iframe_entries)
             y == Len(stored.ctrl[c].iframe_desc)
  <2>1. pairs[c] = <<x, y>>
    BY DEF PerChannel
  <2>2. stored.ctrl[c].iframe_entries \in Seq(Nat) /\ stored.ctrl[c].iframe_desc \in Seq(Nat)
    BY DEF IsStored
  <2>3. x \in N /\ y \in N
    BY <2>2
  <2> HIDE DEF x, y, pairs, N
  <2>4. pairs[c] \in Seq(N) /\ Len(pairs[c]) = 2 /\ pairs[c][1] = x /\ pairs[c][2] = y
    BY <2>1, <2>3
  <2> QED BY <2>4 DEF x, y
<1>4. pairs \in Seq(Seq(N)) /\ Len(pairs) = C
  <2> DEFINE W == Seq(N)
  <2>1. pairs = [c \in 1 .. C |-> pairs[c]]
    BY DEF PerChannel
  <2>2. \A c \in 1 .. C : pairs[c] \in W
    BY <1>3
  <2> HIDE DEF pairs, W
  <2>3. pairs \in [1 .. C -> W]
    BY <2>1, <2>2
  <2>4. pairs \in Seq(W) /\ Len(pairs) = C
    BY <1>0, <2>3, IsSequence
  <2> QED BY <2>4 DEF W
<1>5. /\ d \in Seq(Nat) /\ Len(d) = 2 * C
      /\ \A c \in 1 .. C : \A m \in 1 .. 2 : d[2 * (c - 1) + m] = pairs[c][m]
  <2>1. 2 \in Nat /\ \A c \in 1 .. Len(pairs) : Len(pairs[c]) = 2
    BY <1>3, <1>4
  <2>2. EvenlySliced(d, pairs, 2, N)
    <3> HIDE DEF N, pairs
    <3> QED BY <1>4, <2>1, EqualSlices
  <2> HIDE DEF d, pairs
  <2> QED BY <1>4, <2>2 DEF EvenlySliced
<1>6. Counts(stored) = (a \o b) \o d
  BY DEF Counts, PerChannel
<1> HIDE DEF a, b, d, pairs
<1> DEFINE ab == a \o b
           abd == ab \o d
<1>7. /\ ab \in Seq(Nat) /\ Len(ab) = 4 + C
      /\ \A k \in 1 .. 4 : ab[k] = a[k]
      /\ \A k \in 1 .. C : ab[4 + k] = b[k]
  <2>1. a \in Seq(N) /\ Len(a) = 4 /\ 4 \in Nat /\ b \in Seq(N) /\ Len(b) = C
    BY <1>1, <1>2
  <2> HIDE DEF N
  <2>2. Continues(a \o b, a, 4, b, C, N)
    BY <1>0, <2>1, BytesAppended
  <2> QED BY <2>2 DEF Continues, N
<1> HIDE DEF ab
<1>8. /\ abd \in Seq(Nat) /\ Len(abd) = 4 + C + 2 * C
      /\ \A k \in 1 .. 4 + C : abd[k] = ab[k]
      /\ \A k \in 1 .. 2 * C : abd[4 + C + k] = d[k]
  <2>1. ab \in Seq(N) /\ Len(ab) = 4 + C /\ 4 + C \in Nat /\ d \in Seq(N) /\ Len(d) = 2 * C /\ 2 * C \in Nat
    BY <1>0, <1>5, <1>7
  <2> HIDE DEF N
  <2>2. Continues(ab \o d, ab, 4 + C, d, 2 * C, N)
    BY <2>1, BytesAppended
  <2> QED BY <2>2 DEF Continues, N
<1> HIDE DEF abd
<1>9. \A k \in 1 .. 4 : abd[k] = a[k]
  BY <1>0, <1>7, <1>8
<1>10. ASSUME NEW c \in 1 .. C
       PROVE  /\ abd[4 + c] = Len(stored.values[c])
              /\ abd[3 + C + 2 * c] = Len(stored.ctrl[c].iframe_entries)
              /\ abd[4 + C + 2 * c] = Len(stored.ctrl[c].iframe_desc)
  <2>1. 4 + c \in 1 .. 4 + C
    BY <1>0
  <2>2. abd[4 + c] = b[c]
    BY <1>7, <1>8, <2>1
  <2>3. /\ 2 * (c - 1) + 1 \in 1 .. 2 * C /\ 2 * (c - 1) + 2 \in 1 .. 2 * C
        /\ 4 + C + (2 * (c - 1) + 1) = 3 + C + 2 * c /\ 4 + C + (2 * (c - 1) + 2) = 4 + C + 2 * c
    BY <1>0
  <2>4. abd[3 + C + 2 * c] = d[2 * (c - 1) + 1] /\ abd[4 + C + 2 * c] = d[2 * (c - 1) + 2]
    BY <1>8, <2>3
  <2>5. d[2 * (c - 1) + 1] = pairs[c][1] /\ d[2 * (c - 1) + 2] = pairs[c][2]
    BY <1>5
  <2> QED BY <1>2, <1>3, <2>2, <2>4, <2>5
<1>11. Len(abd) = 4 + 3 * C
  BY <1>0, <1>8
<1>12. Counts(stored) = abd
  BY <1>6 DEF abd, ab
<1>13. abd[1] = a[1] /\ abd[2] = a[2] /\ abd[3] = a[3] /\ abd[4] = a[4]
  BY <1>9
<1> QED BY <1>1, <1>8, <1>10, <1>11, <1>12, <1>13 DEF CountsServe

\* Six for every channel, one channel after the other.
SixesOf(six) == FlattenSeq([c \in 1 .. Channels |-> six[c]])

\* The three that come first, and then the six of every channel.
ServeSixes(w, p1, p2, p3, six, T) ==
    /\ w \in Seq(T) /\ Len(w) = 3 + 6 * Channels
    /\ w[1] = p1 /\ w[2] = p2 /\ w[3] = p3
    /\ \A c \in 1 .. Channels : \A m \in 1 .. 6 :
          3 + 6 * (c - 1) + m \in 1 .. 3 + 6 * Channels /\ w[3 + 6 * (c - 1) + m] = six[c][m]

LEMMA SixesServe ==
  ASSUME NEW T, NEW p1 \in T, NEW p2 \in T, NEW p3 \in T, NEW six \in [1 .. Channels -> Seq(T)],
         \A c \in 1 .. Channels : Len(six[c]) = 6
  PROVE  ServeSixes(<<p1, p2, p3>> \o SixesOf(six), p1, p2, p3, six, T)
<1> DEFINE C == Channels
           a == <<p1, p2, p3>>
           f == SixesOf(six)
           w == a \o f
<1>0. C \in Nat
  BY KeyStreamAssumption
<1>1. a \in Seq(T) /\ Len(a) = 3 /\ a[1] = p1 /\ a[2] = p2 /\ a[3] = p3
  OBVIOUS
<1>2. six \in Seq(Seq(T)) /\ Len(six) = C
  <2> DEFINE W == Seq(T)
  <2>1. six \in [1 .. C -> W]
    OBVIOUS
  <2> HIDE DEF W
  <2>2. six \in Seq(W) /\ Len(six) = C
    BY <1>0, <2>1, IsSequence
  <2> QED BY <2>2 DEF W
<1>3. f = FlattenSeq(six)
  <2>1. six = [c \in 1 .. C |-> six[c]]
    OBVIOUS
  <2> QED BY <2>1 DEF SixesOf
<1>4. EvenlySliced(f, six, 6, T)
  <2>1. 6 \in Nat /\ \A k \in 1 .. Len(six) : Len(six[k]) = 6
    BY <1>2
  <2>2. EvenlySliced(FlattenSeq(six), six, 6, T)
    BY <1>2, <2>1, EqualSlices
  <2> QED BY <1>3, <2>2
<1> HIDE DEF a, f
<1>5. /\ f \in Seq(T) /\ Len(f) = 6 * C
      /\ \A c \in 1 .. C : \A m \in 1 .. 6 :
            6 * (c - 1) + m \in 1 .. 6 * C /\ f[6 * (c - 1) + m] = six[c][m]
  BY <1>2, <1>4 DEF EvenlySliced
<1>6. Continues(w, a, 3, f, 6 * C, T)
  <2>1. 3 \in Nat /\ 6 * C \in Nat
    BY <1>0
  <2> QED BY <1>1, <1>5, <2>1, BytesAppended
<1> HIDE DEF w
<1>7. /\ w \in Seq(T) /\ Len(w) = 3 + 6 * C
      /\ \A m \in 1 .. 3 : w[m] = a[m]
      /\ \A m \in 1 .. 6 * C : w[3 + m] = f[m]
  BY <1>6 DEF Continues
<1>8. w[1] = p1 /\ w[2] = p2 /\ w[3] = p3
  BY <1>1, <1>7
<1>9. ASSUME NEW c \in 1 .. C, NEW m \in 1 .. 6
      PROVE  3 + 6 * (c - 1) + m \in 1 .. 3 + 6 * C /\ w[3 + 6 * (c - 1) + m] = six[c][m]
  <2> DEFINE k == 6 * (c - 1) + m
  <2>1. k \in 1 .. 6 * C /\ f[k] = six[c][m]
    BY <1>5
  <2>2. 3 + 6 * (c - 1) + m = 3 + k
    BY <1>0
  <2> HIDE DEF k
  <2>3. w[3 + k] = f[k] /\ 3 + k \in 1 .. 3 + 6 * C
    BY <1>0, <1>7, <2>1
  <2> QED BY <2>1, <2>2, <2>3
<1> QED BY <1>7, <1>8, <1>9 DEF ServeSixes, w, a, f

\* Every place is one of the three or one of the six of a channel.
LEMMA PlacesAre ==
  ASSUME NEW n \in 1 .. 3 + 6 * Channels
  PROVE  n \in 1 .. 3 \/ \E c \in 1 .. Channels : \E m \in 1 .. 6 : n = 3 + 6 * (c - 1) + m
<1> DEFINE C == Channels
           v == n - 4
<1>0. C \in Nat /\ n \in 1 .. 3 + 6 * C
  BY KeyStreamAssumption
<1> SUFFICES ASSUME n > 3 PROVE \E c \in 1 .. C : \E m \in 1 .. 6 : n = 3 + 6 * (c - 1) + m
  BY <1>0
<1>1. v \in Nat /\ v < 6 * C
  BY <1>0
<1> DEFINE q == v \div 6
           r == v % 6
<1>2. q \in Nat /\ r \in 0 .. 5 /\ v = 6 * q + r
  BY <1>1
<1> HIDE DEF q, r
<1>3. q + 1 \in 1 .. C /\ r + 1 \in 1 .. 6 /\ n = 3 + 6 * ((q + 1) - 1) + (r + 1)
  BY <1>0, <1>1, <1>2
<1> QED BY <1>3

\* Two that agree at all places are the same.
LEMMA SixesAgree ==
  ASSUME NEW T, NEW p1, NEW p2, NEW p3, NEW six, NEW u, NEW w,
         ServeSixes(u, p1, p2, p3, six, T), ServeSixes(w, p1, p2, p3, six, T)
  PROVE  u = w
<1> DEFINE L == 3 + 6 * Channels
<1>1. L \in Nat
  BY KeyStreamAssumption
<1>2. u \in Seq(T) /\ Len(u) = L
  BY DEF ServeSixes
<1>3. ASSUME NEW n \in 1 .. L PROVE u[n] = w[n]
  <2>1. CASE n \in 1 .. 3
    <3>1. n = 1 \/ n = 2 \/ n = 3
      BY <2>1
    <3> QED BY <3>1 DEF ServeSixes
  <2>2. ASSUME NEW c \in 1 .. Channels, NEW m \in 1 .. 6, n = 3 + 6 * (c - 1) + m PROVE u[n] = w[n]
    BY <2>2 DEF ServeSixes
  <2> QED BY <2>1, <2>2, PlacesAre
<1>4. w \in Seq(T) /\ Len(w) = L
  BY DEF ServeSixes
<1> HIDE DEF L
<1> QED BY <1>1, <1>2, <1>3, <1>4

Arrays(stored) == [c \in 1 .. Channels |-> ArraysOf(stored, c)]

PartsOf(stored) == <<Counts(stored), stored.name, stored.timepoints>> \o SixesOf(Arrays(stored))

LEMMA SixArrays ==
  ASSUME NEW stored, IsStored(stored), NEW c \in 1 .. Channels
  PROVE  LET w == ArraysOf(stored, c)
             ctrl == stored.ctrl[c]
         IN  /\ w \in Seq(Seq(Stored(stored))) /\ Len(w) = 6
             /\ w[1] = ctrl.ratios /\ w[2] = ctrl.previouses /\ w[3] = ctrl.iframe_entries
             /\ w[4] = ctrl.iframe_desc /\ w[5] = <<ctrl.iframe_interval>> /\ w[6] = stored.values[c]
<1> DEFINE ctrl == stored.ctrl[c]
           W == Seq(Stored(stored))
           a1 == ctrl.ratios
           a2 == ctrl.previouses
           a3 == ctrl.iframe_entries
           a4 == ctrl.iframe_desc
           a5 == <<ctrl.iframe_interval>>
           a6 == stored.values[c]
<1>1. /\ a1 \in Seq(Nat) /\ a2 \in Seq(Nat) /\ a3 \in Seq(Nat) /\ a4 \in Seq(Nat)
      /\ ctrl.iframe_interval \in Nat /\ a6 \in Seq(Nat)
  BY DEF IsStored
<1>2. a5 \in Seq(Nat)
  BY <1>1
<1>3. ArraysOf(stored, c) = <<a1, a2, a3, a4, a5, a6>>
  BY DEF ArraysOf
<1> HIDE DEF a1, a2, a3, a4, a5, a6
<1>4. a1 \in W /\ a2 \in W /\ a3 \in W /\ a4 \in W /\ a5 \in W /\ a6 \in W
  BY <1>1, <1>2, NumbersAreStored
<1> HIDE DEF W
<1> DEFINE w == <<a1, a2, a3, a4, a5, a6>>
<1>5. /\ w \in Seq(W) /\ Len(w) = 6 /\ w[1] = a1 /\ w[2] = a2 /\ w[3] = a3 /\ w[4] = a4
      /\ w[5] = a5 /\ w[6] = a6
  BY <1>4
<1> QED BY <1>3, <1>5 DEF W, a1, a2, a3, a4, a5, a6

LEMMA PartsServe ==
  ASSUME NEW stored, IsStored(stored)
  PROVE  /\ Save(stored) = FlattenSeq(PartsOf(stored))
         /\ ServeSixes(PartsOf(stored), Counts(stored), stored.name, stored.timepoints, Arrays(stored),
                       Seq(Stored(stored)))
<1> DEFINE W == Seq(Stored(stored))
           six == Arrays(stored)
           p1 == Counts(stored)
           p2 == stored.name
           p3 == stored.timepoints
<1>1. p1 \in W /\ p2 \in W /\ p3 \in W
  <2>1. p1 \in Seq(Nat)
    BY CountsAre DEF CountsServe
  <2>2. p3 \in Seq(Nat) /\ stored.name \in Seq(ToSet(stored.name))
    BY DEF IsStored
  <2> HIDE DEF p1, p3
  <2> QED BY <2>1, <2>2, NumbersAreStored, NameIsStored
<1>2. \A c \in 1 .. Channels : ArraysOf(stored, c) \in Seq(W) /\ Len(ArraysOf(stored, c)) = 6
  BY SixArrays
<1> HIDE DEF W
<1>3. six \in [1 .. Channels -> Seq(W)] /\ \A c \in 1 .. Channels : Len(six[c]) = 6
  BY <1>2 DEF Arrays
<1>4. Save(stored) = FlattenSeq(PartsOf(stored))
  <2>1. [c \in 1 .. Channels |-> six[c]] = six
    BY <1>3
  <2> QED BY <2>1 DEF Save, PartsOf, SixesOf, Arrays
<1> HIDE DEF six, p1, p2, p3
<1>5. ServeSixes(<<p1, p2, p3>> \o SixesOf(six), p1, p2, p3, six, W)
  BY <1>1, <1>3, SixesServe
<1> QED BY <1>4, <1>5 DEF PartsOf, six, p1, p2, p3, W

\* The counts are read back from where they are written.
LEMMA CountsReadBack ==
  ASSUME NEW stored, IsStored(stored)
  PROVE  /\ CountsServe([k \in 1 .. 4 + 3 * Channels |-> Save(stored)[k]], stored)
         /\ Sliced(Save(stored), PartsOf(stored), Stored(stored))
<1> DEFINE V == Stored(stored)
           parts == PartsOf(stored)
           file == Save(stored)
           counts == Counts(stored)
           L == 4 + 3 * Channels
<1>1. Sliced(file, parts, V)
  <2>1. file = FlattenSeq(parts) /\ parts \in Seq(Seq(V))
    BY PartsServe DEF ServeSixes
  <2> HIDE DEF file, parts, V
  <2> QED BY <2>1, FlattenSlices
<1>2. parts[1] = counts /\ 1 \in 1 .. Len(parts) /\ parts \in Seq(Seq(V))
  <2>1. parts[1] = counts /\ Len(parts) = 3 + 6 * Channels /\ parts \in Seq(Seq(V))
    BY PartsServe DEF ServeSixes
  <2> HIDE DEF parts, counts, V
  <2> QED BY <2>1, KeyStreamAssumption
<1>3. CountsServe(counts, stored)
  BY CountsAre
<1> HIDE DEF counts, parts, file, V
<1>4. StartOf(parts, 1) = 0
  <2>1. SumsUp(Lengths(parts))
    BY <1>2, LengthsAre, SumsAre
  <2> QED BY <2>1 DEF StartOf, SumsUp
<1>5. ASSUME NEW k \in 1 .. L PROVE file[k] = counts[k]
  <2>1. k \in 1 .. Len(parts[1])
    BY <1>2, <1>3 DEF CountsServe
  <2>2. file[StartOf(parts, 1) + k] = parts[1][k]
    BY <1>1, <1>2, <2>1 DEF Sliced
  <2>3. StartOf(parts, 1) + k = k
    BY <1>4
  <2> QED BY <1>2, <2>2, <2>3
<1>6. [k \in 1 .. L |-> file[k]] = counts
  <2>1. L \in Nat
    BY KeyStreamAssumption
  <2>2. counts \in Seq(Nat) /\ Len(counts) = L
    BY <1>3 DEF CountsServe
  <2> HIDE DEF L
  <2>3. counts = [k \in 1 .. L |-> counts[k]]
    BY <2>2
  <2> QED BY <1>5, <2>3
<1> QED BY <1>1, <1>3, <1>6 DEF file, parts, V

\* What Load reads first.
FileServes(file, stored) ==
    /\ file[1] = stored.duration /\ file[2] = stored.num_tracks
    /\ file[3] = Len(stored.name) /\ file[4] = Len(stored.timepoints)
    /\ \A c \in 1 .. Channels :
          /\ file[4 + c] = Len(stored.values[c])
          /\ file[3 + Channels + 2 * c] = Len(stored.ctrl[c].iframe_entries)
          /\ file[4 + Channels + 2 * c] = Len(stored.ctrl[c].iframe_desc)

LEMMA FileReadsBack ==
  ASSUME NEW stored, IsStored(stored)
  PROVE  FileServes(Save(stored), stored)
<1> DEFINE file == Save(stored)
           C == Channels
           L == 4 + 3 * C
           read == [k \in 1 .. L |-> file[k]]
<1>0. C \in Nat
  BY KeyStreamAssumption
<1>1. CountsServe(read, stored)
  BY CountsReadBack
<1>2. \A k \in 1 .. L : read[k] = file[k]
  OBVIOUS
<1> HIDE DEF read, file
<1>3. 1 \in 1 .. L /\ 2 \in 1 .. L /\ 3 \in 1 .. L /\ 4 \in 1 .. L
  BY <1>0
<1>4. \A c \in 1 .. C : 4 + c \in 1 .. L /\ 3 + C + 2 * c \in 1 .. L /\ 4 + C + 2 * c \in 1 .. L
  BY <1>0
<1>5. file[1] = read[1] /\ file[2] = read[2] /\ file[3] = read[3] /\ file[4] = read[4]
  BY <1>2, <1>3
<1>6. \A c \in 1 .. C : /\ file[4 + c] = read[4 + c]
                        /\ file[3 + C + 2 * c] = read[3 + C + 2 * c]
                        /\ file[4 + C + 2 * c] = read[4 + C + 2 * c]
  BY <1>2, <1>4
<1> QED BY <1>1, <1>5, <1>6 DEF CountsServe, FileServes, file

\* The sizes of what was written.
SizesOf(file) ==
    <<4 + 3 * Channels, file[3], file[4]>> \o SixesOf([c \in 1 .. Channels |-> LoadedSizes(file, c)])

LEMMA SizesAre ==
  ASSUME NEW stored, IsStored(stored)
  PROVE  SizesOf(Save(stored)) = Lengths(PartsOf(stored))
<1> DEFINE V == Stored(stored)
           parts == PartsOf(stored)
           file == Save(stored)
           lens == Lengths(parts)
           six == [c \in 1 .. Channels |-> LoadedSizes(file, c)]
           L == 3 + 6 * Channels
           counts == Counts(stored)
           N == Nat
<1>0. L \in Nat /\ Channels \in Nat
  BY KeyStreamAssumption
<1>1. FileServes(file, stored)
  BY FileReadsBack
<1>2. ServeSixes(parts, counts, stored.name, stored.timepoints, Arrays(stored), Seq(V))
  BY PartsServe
<1>3. /\ parts \in Seq(Seq(V)) /\ Len(parts) = L
      /\ parts[1] = counts /\ parts[2] = stored.name /\ parts[3] = stored.timepoints
      /\ \A c \in 1 .. Channels : \A m \in 1 .. 6 :
            3 + 6 * (c - 1) + m \in 1 .. L /\ parts[3 + 6 * (c - 1) + m] = ArraysOf(stored, c)[m]
  BY <1>2 DEF ServeSixes, Arrays
<1> HIDE DEF file, parts
<1>4. lens \in Seq(Nat) /\ Len(lens) = L
  <2> HIDE DEF V, L
  <2> QED BY <1>3, LengthsAre
<1>5. \A k \in 1 .. L : lens[k] = Len(parts[k])
  BY <1>3 DEF Lengths
<1> HIDE DEF lens
<1>6. Len(counts) = 4 + 3 * Channels
  BY CountsAre DEF CountsServe
<1> HIDE DEF counts
<1>7. lens[1] = 4 + 3 * Channels /\ lens[2] = file[3] /\ lens[3] = file[4]
  <2>1. 1 \in 1 .. L /\ 2 \in 1 .. L /\ 3 \in 1 .. L
    BY <1>0
  <2> QED BY <1>1, <1>3, <1>5, <1>6, <2>1 DEF FileServes
<1>8. ASSUME NEW c \in 1 .. Channels
      PROVE  /\ LoadedSizes(file, c) \in Seq(N) /\ Len(LoadedSizes(file, c)) = 6
             /\ \A m \in 1 .. 6 : lens[3 + 6 * (c - 1) + m] = LoadedSizes(file, c)[m]
  <2> DEFINE w == ArraysOf(stored, c)
             ctrl == stored.ctrl[c]
             K == Len(stored.values[c])
             R == SizeofRatio(stored.timepoints)
             sizeof_ratio == IF file[4] <= ByteBase - 1 THEN 1 ELSE 2
             E == Len(ctrl.iframe_entries)
             D == Len(ctrl.iframe_desc)
             z == LoadedSizes(file, c)
  <2>1. /\ w[1] = ctrl.ratios /\ w[2] = ctrl.previouses /\ w[3] = ctrl.iframe_entries
        /\ w[4] = ctrl.iframe_desc /\ w[5] = <<ctrl.iframe_interval>> /\ w[6] = stored.values[c]
    BY SixArrays
  <2>2. /\ Len(ctrl.previouses) = K /\ Len(ctrl.ratios) = R * K
        /\ stored.values[c] \in Seq(Nat)
        /\ ctrl.iframe_entries \in Seq(Nat) /\ ctrl.iframe_desc \in Seq(Nat)
    BY DEF IsStored
  <2>3. K \in Nat /\ E \in Nat /\ D \in Nat
    BY <2>2
  <2>4. sizeof_ratio = R /\ R \in Nat
    BY <1>1 DEF FileServes, SizeofRatio
  <2>5. z = <<K * R, K, E, D, 1, K>>
    BY <1>1, <2>4 DEF LoadedSizes, FileServes
  <2>6. Len(w[1]) = K * R
    <3> HIDE DEF K, R
    <3>1. R * K = K * R
      BY <2>3, <2>4
    <3> QED BY <2>1, <2>2, <3>1
  <2>7. Len(w[2]) = K /\ Len(w[3]) = E /\ Len(w[4]) = D /\ Len(w[6]) = K
    BY <2>1, <2>2
  <2>8. Len(w[5]) = 1
    BY <2>1
  <2> DEFINE KR == K * R
  <2>9. KR \in N /\ K \in N /\ E \in N /\ D \in N /\ 1 \in N
    <3>1. \A x, y \in Nat : x * y \in Nat
      OBVIOUS
    <3> QED BY <2>3, <2>4, <3>1
  <2>10. z = <<KR, K, E, D, 1, K>>
    BY <2>5
  <2>11. \A m \in 1 .. 6 : lens[3 + 6 * (c - 1) + m] = Len(w[m])
    BY <1>3, <1>5
  <2>12. Len(w[1]) = KR
    BY <2>6
  <2> HIDE DEF K, R, E, D, w, z, KR, ctrl, N
  <2>13. /\ z \in Seq(N) /\ Len(z) = 6 /\ z[1] = KR /\ z[2] = K /\ z[3] = E /\ z[4] = D /\ z[5] = 1 /\ z[6] = K
    BY <2>9, <2>10
  <2>14. \A m \in 1 .. 6 : m = 1 \/ m = 2 \/ m = 3 \/ m = 4 \/ m = 5 \/ m = 6
    OBVIOUS
  <2>15. \A m \in 1 .. 6 : Len(w[m]) = z[m]
    BY <2>7, <2>8, <2>12, <2>13, <2>14
  <2> QED BY <2>11, <2>13, <2>15 DEF z
<1> HIDE DEF six
<1>9. six \in [1 .. Channels -> Seq(N)] /\ \A c \in 1 .. Channels : Len(six[c]) = 6 /\ six[c] = LoadedSizes(file, c)
  <2> DEFINE W == Seq(N)
  <2>1. \A c \in 1 .. Channels : LoadedSizes(file, c) \in W
    BY <1>8
  <2> HIDE DEF W
  <2> QED BY <1>8, <2>1 DEF six, W
<1>10. 4 + 3 * Channels \in N /\ file[3] \in N /\ file[4] \in N
  <2> DEFINE X == ToSet(stored.name)
  <2>1. stored.name \in Seq(X) /\ stored.timepoints \in Seq(Nat)
    BY DEF IsStored
  <2> HIDE DEF X
  <2>2. Len(stored.name) \in Nat /\ Len(stored.timepoints) \in Nat
    BY <2>1
  <2> QED BY <1>0, <1>1, <2>2 DEF FileServes
<1> DEFINE p1 == 4 + 3 * Channels
           p2 == file[3]
           p3 == file[4]
<1>11. p1 \in N /\ p2 \in N /\ p3 \in N /\ lens[1] = p1 /\ lens[2] = p2 /\ lens[3] = p3 /\ lens \in Seq(N)
  BY <1>4, <1>7, <1>10
<1>12. SizesOf(file) = <<p1, p2, p3>> \o SixesOf(six)
  BY DEF SizesOf, six
<1>13. \A c \in 1 .. Channels : \A m \in 1 .. 6 : lens[3 + 6 * (c - 1) + m] = six[c][m]
  BY <1>8, <1>9
<1> HIDE DEF N, p1, p2, p3
<1>14. ServeSixes(<<p1, p2, p3>> \o SixesOf(six), p1, p2, p3, six, N)
  BY <1>9, <1>11, SixesServe
<1>15. <<p1, p2, p3>> \o SixesOf(six) = lens
  <2> DEFINE u == <<p1, p2, p3>> \o SixesOf(six)
  <2>1. ServeSixes(u, p1, p2, p3, six, N)
    BY <1>14
  <2>2. ServeSixes(lens, p1, p2, p3, six, N)
    BY <1>3, <1>4, <1>11, <1>13 DEF ServeSixes
  <2> HIDE DEF u
  <2>3. u = lens
    BY <2>1, <2>2, SixesAgree
  <2> QED BY <2>3 DEF u
<1> QED BY <1>12, <1>15 DEF lens, parts, file

LEMMA LoadsAsSaved ==
  ASSUME NEW stored, IsStored(stored)
  PROVE  Load(Save(stored)) = stored
<1> DEFINE V == Stored(stored)
           parts == PartsOf(stored)
           file == Save(stored)
           lens == Lengths(parts)
           Part(n) == SubSeq(file, SumOf(lens, n - 1) + 1, SumOf(lens, n))
           Of(c, n) == Part(3 + 6 * (c - 1) + n)
           L == 3 + 6 * Channels
<1>0. L \in Nat /\ 2 \in 1 .. L /\ 3 \in 1 .. L
  BY KeyStreamAssumption
<1>1. Sliced(file, parts, V)
  BY CountsReadBack
<1>2. /\ parts \in Seq(Seq(V)) /\ Len(parts) = L
      /\ parts[2] = stored.name /\ parts[3] = stored.timepoints
      /\ \A c \in 1 .. Channels : \A m \in 1 .. 6 :
            3 + 6 * (c - 1) + m \in 1 .. L /\ parts[3 + 6 * (c - 1) + m] = ArraysOf(stored, c)[m]
  BY PartsServe DEF ServeSixes, Arrays
<1>3. ASSUME NEW n \in 1 .. L PROVE Part(n) = parts[n]
  <2> HIDE DEF file, parts, V, L
  <2>1. n \in 1 .. Len(parts)
    BY <1>2
  <2> QED BY <1>1, <1>2, <2>1, SliceIs
<1>4. FileServes(file, stored) /\ SizesOf(file) = lens
  BY FileReadsBack, SizesAre
<1>5. Load(file)
      = [duration   |-> file[1],
         num_tracks |-> file[2],
         name       |-> Part(2),
         timepoints |-> Part(3),
         ctrl       |-> [c \in 1 .. Channels |->
                            [ratios |-> Of(c, 1), previouses |-> Of(c, 2), iframe_entries |-> Of(c, 3),
                             iframe_desc |-> Of(c, 4), iframe_interval |-> Of(c, 5)[1]]],
         values     |-> [c \in 1 .. Channels |-> Of(c, 6)]]
  <2>1. SixesOf([c \in 1 .. Channels |-> LoadedSizes(file, c)])
        = FlattenSeq([c \in 1 .. Channels |-> LoadedSizes(file, c)])
    BY DEF SixesOf
  <2>2. <<4 + 3 * Channels, file[3], file[4]>> \o FlattenSeq([c \in 1 .. Channels |-> LoadedSizes(file, c)])
        = lens
    BY <1>4, <2>1 DEF SizesOf
  <2> HIDE DEF lens, file
  <2> QED BY <2>2 DEF Load
<1>6. ASSUME NEW c \in 1 .. Channels
      PROVE  /\ Of(c, 1) = stored.ctrl[c].ratios /\ Of(c, 2) = stored.ctrl[c].previouses
             /\ Of(c, 3) = stored.ctrl[c].iframe_entries /\ Of(c, 4) = stored.ctrl[c].iframe_desc
             /\ Of(c, 5) = <<stored.ctrl[c].iframe_interval>> /\ Of(c, 6) = stored.values[c]
  <2> DEFINE w == ArraysOf(stored, c)
  <2>1. ASSUME NEW m \in 1 .. 6 PROVE Of(c, m) = w[m]
    <3>1. 3 + 6 * (c - 1) + m \in 1 .. L /\ parts[3 + 6 * (c - 1) + m] = w[m]
      BY <1>2
    <3> DEFINE n == 3 + 6 * (c - 1) + m
    <3> HIDE DEF Part
    <3>2. Part(n) = parts[n]
      BY <1>3, <3>1
    <3> QED BY <3>1, <3>2
  <2>2. /\ w[1] = stored.ctrl[c].ratios /\ w[2] = stored.ctrl[c].previouses
        /\ w[3] = stored.ctrl[c].iframe_entries /\ w[4] = stored.ctrl[c].iframe_desc
        /\ w[5] = <<stored.ctrl[c].iframe_interval>> /\ w[6] = stored.values[c]
    BY SixArrays
  <2> HIDE DEF w, Of
  <2> QED BY <2>1, <2>2
<1>7. Part(2) = stored.name /\ Part(3) = stored.timepoints
  <2>1. Part(2) = parts[2] /\ Part(3) = parts[3]
    <3> HIDE DEF Part, L, parts
    <3> QED BY <1>0, <1>3
  <2> QED BY <1>2, <2>1
<1>8. [c \in 1 .. Channels |->
          [ratios |-> Of(c, 1), previouses |-> Of(c, 2), iframe_entries |-> Of(c, 3),
           iframe_desc |-> Of(c, 4), iframe_interval |-> Of(c, 5)[1]]]
      = [c \in 1 .. Channels |-> stored.ctrl[c]]
  <2> SUFFICES ASSUME NEW c \in 1 .. Channels
               PROVE  [ratios |-> Of(c, 1), previouses |-> Of(c, 2), iframe_entries |-> Of(c, 3),
                       iframe_desc |-> Of(c, 4), iframe_interval |-> Of(c, 5)[1]] = stored.ctrl[c]
    OBVIOUS
  <2>1. Of(c, 5)[1] = stored.ctrl[c].iframe_interval
    <3> HIDE DEF Of
    <3> QED BY <1>6
  <2>2. stored.ctrl[c] = [ratios |-> stored.ctrl[c].ratios, previouses |-> stored.ctrl[c].previouses,
                          iframe_entries |-> stored.ctrl[c].iframe_entries,
                          iframe_desc |-> stored.ctrl[c].iframe_desc,
                          iframe_interval |-> stored.ctrl[c].iframe_interval]
    BY DEF IsStored
  <2> HIDE DEF Of
  <2> QED BY <1>6, <2>1, <2>2
<1>9. [c \in 1 .. Channels |-> Of(c, 6)] = [c \in 1 .. Channels |-> stored.values[c]]
  <2> HIDE DEF Of
  <2> QED BY <1>6
<1>10. stored = [duration |-> stored.duration, num_tracks |-> stored.num_tracks, name |-> stored.name,
                 timepoints |-> stored.timepoints,
                 ctrl |-> [c \in 1 .. Channels |-> stored.ctrl[c]],
                 values |-> [c \in 1 .. Channels |-> stored.values[c]]]
  BY DEF IsStored
<1>11. file[1] = stored.duration /\ file[2] = stored.num_tracks
  BY <1>4 DEF FileServes
<1> HIDE DEF Of, Part, file
<1>12. Load(file) = stored
  BY <1>5, <1>7, <1>8, <1>9, <1>10, <1>11
<1> QED BY <1>12 DEF file

-----------------------------------------------------------------------------
(* Allocation.                                                             *)

\* The spans of a buffer, group by group.
LEMMA SpansAre ==
  ASSUME NEW stored
  PROVE  SpansOf(stored)
         = <<Span(Len(stored.timepoints), 4, 4)>>
           \o [c \in 1 .. Channels |-> Span(Len(stored.ctrl[c].iframe_desc), 4, 4)]
           \o [c \in 1 .. Channels |-> Span(Len(stored.ctrl[c].previouses), 2, 2)]
           \o [c \in 1 .. Channels |-> Span(Len(stored.ctrl[c].previouses), 6, 2)]
           \o [c \in 1 .. Channels |->
                 Span(Len(stored.ctrl[c].previouses) * SizeofRatio(stored.timepoints), 1,
                      SizeofRatio(stored.timepoints))]
           \o [c \in 1 .. Channels |-> Span(Len(stored.ctrl[c].iframe_entries), 1, 1)]
           \o IF Len(stored.name) > 0 THEN <<Span(Len(stored.name) + 1, 1, 1)>> ELSE <<>>
BY DEF SpansOf

MultipleOf(x, a) == \E q \in Nat : x = a * q

LEMMA MultiplesAre ==
  ASSUME NEW a \in Nat \ {0}, NEW x, NEW y, MultipleOf(x, a), MultipleOf(y, a)
  PROVE  x \in Nat /\ y \in Nat /\ MultipleOf(x + y, a) /\ x % a = 0
<1>1. PICK p \in Nat, q \in Nat : x = a * p /\ y = a * q
  BY DEF MultipleOf
<1>2. a * p + a * q = a * (p + q) /\ p + q \in Nat /\ a * p \in Nat /\ a * q \in Nat
  OBVIOUS
<1>3. (0 + a * p) % a = 0
  <2>1. 0 \in Nat /\ 0 < a
    OBVIOUS
  <2> QED BY <2>1, MultipleAdded
<1>4. 0 + a * p = a * p
  BY <1>2
<1>5. (a * p) % a = 0
  BY <1>3, <1>4
<1>6. MultipleOf(x + y, a)
  BY <1>1, <1>2 DEF MultipleOf
<1> QED BY <1>1, <1>2, <1>5, <1>6

LEMMA MultiplesSum ==
  ASSUME NEW a \in Nat \ {0}, NEW numbers \in Seq(Nat),
         \A k \in 1 .. Len(numbers) : MultipleOf(numbers[k], a)
  PROVE  \A n \in 0 .. Len(numbers) : MultipleOf(SumOf(numbers, n), a)
<1> DEFINE L == Len(numbers)
           S == {n \in 0 .. L : MultipleOf(SumOf(numbers, n), a)}
<1>1. SumsUp(numbers) /\ L \in Nat
  BY SumsAre
<1>2. 0 \in S
  <2>1. a * 0 = 0 /\ 0 \in Nat
    OBVIOUS
  <2>2. MultipleOf(0, a)
    BY <2>1 DEF MultipleOf
  <2> QED BY <1>1, <2>2 DEF SumsUp
<1>3. ASSUME NEW n \in 1 .. L, n - 1 \in S PROVE n \in S
  <2>1. MultipleOf(SumOf(numbers, n - 1), a) /\ MultipleOf(numbers[n], a)
    BY <1>3
  <2>2. SumOf(numbers, n) = SumOf(numbers, n - 1) + numbers[n]
    BY <1>1 DEF SumsUp
  <2>3. MultipleOf(SumOf(numbers, n - 1) + numbers[n], a)
    BY <2>1, MultiplesAre
  <2>4. n \in 0 .. L
    BY <1>1
  <2> QED BY <2>2, <2>3, <2>4
<1>4. \A n \in 1 .. L : n - 1 \in S => n \in S
  BY <1>3
<1> HIDE DEF S, L
<1>5. 0 .. L \subseteq S
  BY <1>1, <1>2, <1>4, ByNumber
<1> QED BY <1>5 DEF S, L

\* The sum of two rows of numbers.
LEMMA SumsAdd ==
  ASSUME NEW C \in Nat, NEW f \in [1 .. C -> Nat], NEW g \in [1 .. C -> Nat]
  PROVE  /\ SumOf([c \in 1 .. C |-> f[c] + g[c]], C) = SumOf(f, C) + SumOf(g, C)
         /\ SumOf(f, C) \in Nat /\ SumOf(g, C) \in Nat
<1> DEFINE h == [c \in 1 .. C |-> f[c] + g[c]]
           N == Nat
           S == {n \in 0 .. C : SumOf(h, n) = SumOf(f, n) + SumOf(g, n)}
<1>1. h \in [1 .. C -> N] /\ \A c \in 1 .. C : h[c] = f[c] + g[c]
  OBVIOUS
<1> HIDE DEF h
<1>2. /\ f \in Seq(Nat) /\ Len(f) = C /\ g \in Seq(Nat) /\ Len(g) = C
      /\ h \in Seq(Nat) /\ Len(h) = C
  <2>1. f \in [1 .. C -> N] /\ g \in [1 .. C -> N]
    OBVIOUS
  <2> HIDE DEF N
  <2>2. f \in Seq(N) /\ Len(f) = C /\ g \in Seq(N) /\ Len(g) = C /\ h \in Seq(N) /\ Len(h) = C
    BY <1>1, <2>1, IsSequence
  <2> QED BY <2>2 DEF N
<1>3. SumsUp(f) /\ SumsUp(g) /\ SumsUp(h)
  BY <1>2, SumsAre
<1>4. /\ \A n \in 0 .. C : SumOf(f, n) \in Nat /\ SumOf(g, n) \in Nat
      /\ \A n \in 1 .. C : /\ SumOf(f, n) = SumOf(f, n - 1) + f[n]
                           /\ SumOf(g, n) = SumOf(g, n - 1) + g[n]
                           /\ SumOf(h, n) = SumOf(h, n - 1) + h[n]
      /\ SumOf(f, 0) = 0 /\ SumOf(g, 0) = 0 /\ SumOf(h, 0) = 0
  BY <1>2, <1>3 DEF SumsUp
<1>5. 0 \in S
  BY <1>4
<1>6. ASSUME NEW n \in 1 .. C, n - 1 \in S PROVE n \in S
  <2>1. n - 1 \in 0 .. C /\ n \in 0 .. C /\ f[n] \in Nat /\ g[n] \in Nat
    OBVIOUS
  <2>2. SumOf(h, n - 1) = SumOf(f, n - 1) + SumOf(g, n - 1)
    BY <1>6
  <2>3. SumOf(f, n - 1) \in Nat /\ SumOf(g, n - 1) \in Nat
    BY <1>4, <2>1
  <2> QED BY <1>1, <1>4, <2>1, <2>2, <2>3
<1>7. \A n \in 1 .. C : n - 1 \in S => n \in S
  BY <1>6
<1> HIDE DEF S
<1>8. 0 .. C \subseteq S
  BY <1>5, <1>7, ByNumber
<1>9. C \in 0 .. C
  OBVIOUS
<1> QED BY <1>4, <1>8, <1>9 DEF S, h

-----------------------------------------------------------------------------
(* Spans, one after the other.                                             *)

ASpan == [bytes : Nat, align : Nat \ {0}]

BytesOf(w) == [k \in DOMAIN w |-> w[k].bytes]

\* All spans start at a multiple of their alignment, and `total` bytes are used.
Packed(w, total) ==
    /\ w \in Seq(ASpan) /\ total \in Nat /\ SumOf(BytesOf(w), Len(w)) = total
    /\ \A n \in 1 .. Len(w) : MultipleOf(SumOf(BytesOf(w), n - 1), w[n].align)

LEMMA BytesAre ==
  ASSUME NEW w \in Seq(ASpan)
  PROVE  BytesOf(w) \in Seq(Nat) /\ Len(BytesOf(w)) = Len(w) /\ \A k \in 1 .. Len(w) : BytesOf(w)[k] = w[k].bytes
<1> DEFINE X == ASpan
           L == Len(w)
           b == BytesOf(w)
           N == Nat
<1>1. \A x \in X : x.bytes \in N
  BY DEF ASpan
<1>2. w \in Seq(X)
  OBVIOUS
<1> HIDE DEF X, N
<1>3. L \in Nat /\ DOMAIN w = 1 .. L /\ \A k \in 1 .. L : w[k] \in X
  BY <1>2
<1>4. b = [k \in 1 .. L |-> w[k].bytes]
  BY <1>3 DEF BytesOf
<1> HIDE DEF b, L
<1>5. b \in [1 .. L -> N] /\ \A k \in 1 .. L : b[k] = w[k].bytes
  BY <1>1, <1>3, <1>4
<1>6. b \in Seq(N) /\ Len(b) = L
  BY <1>3, <1>5, IsSequence
<1> QED BY <1>5, <1>6 DEF b, L, N

LEMMA PackedOn ==
  ASSUME NEW w, NEW total, Packed(w, total), NEW a \in Nat \ {0}, MultipleOf(total, a),
         NEW g \in Seq(ASpan),
         \A k \in 1 .. Len(g) : g[k].align = a /\ MultipleOf(g[k].bytes, a)
  PROVE  /\ Packed(w \o g, total + SumOf(BytesOf(g), Len(g)))
         /\ MultipleOf(total + SumOf(BytesOf(g), Len(g)), a)
         /\ SumOf(BytesOf(g), Len(g)) \in Nat
<1> DEFINE W == Len(w)
           G == Len(g)
           u == w \o g
           bw == BytesOf(w)
           bg == BytesOf(g)
           bu == BytesOf(u)
           X == ASpan
<1>1. /\ w \in Seq(X) /\ total \in Nat /\ SumOf(bw, W) = total
      /\ \A n \in 1 .. W : MultipleOf(SumOf(bw, n - 1), w[n].align)
      /\ g \in Seq(X)
  BY DEF Packed
<1>2. /\ bw \in Seq(Nat) /\ Len(bw) = W /\ bg \in Seq(Nat) /\ Len(bg) = G
      /\ \A k \in 1 .. G : bg[k] = g[k].bytes
      /\ \A k \in 1 .. W : bw[k] = w[k].bytes
  BY <1>1, BytesAre
<1> HIDE DEF X, bw, bg
<1>3. /\ u \in Seq(X) /\ W \in Nat /\ G \in Nat /\ Len(u) = W + G
      /\ \A k \in 1 .. W : u[k] = w[k]
      /\ \A k \in 1 .. G : u[W + k] = g[k]
  BY <1>1
<1> HIDE DEF u
<1>4. bu \in Seq(Nat) /\ Len(bu) = W + G /\ \A k \in 1 .. W + G : bu[k] = u[k].bytes
  BY <1>3, BytesAre DEF X
<1> HIDE DEF bu, W, G
<1>5. bu = bw \o bg
  <2> DEFINE j == bw \o bg
  <2>1. /\ j \in Seq(Nat) /\ Len(j) = W + G
        /\ \A k \in 1 .. W : j[k] = bw[k]
        /\ \A k \in 1 .. G : j[W + k] = bg[k]
    <3> DEFINE N == Nat
    <3>1. bw \in Seq(N) /\ bg \in Seq(N)
      BY <1>2
    <3> HIDE DEF N
    <3>2. Continues(bw \o bg, bw, W, bg, G, N)
      BY <1>2, <1>3, <3>1, BytesAppended
    <3> QED BY <3>2 DEF Continues, N
  <2> HIDE DEF j
  <2>2. ASSUME NEW n \in 1 .. W + G PROVE bu[n] = j[n]
    <3>1. CASE n <= W
      <4>1. n \in 1 .. W
        BY <1>3, <3>1
      <4>2. bu[n] = u[n].bytes
        BY <1>4
      <4>3. u[n] = w[n] /\ j[n] = bw[n] /\ bw[n] = w[n].bytes
        BY <1>2, <1>3, <2>1, <4>1
      <4> QED BY <4>2, <4>3
    <3>2. CASE n > W
      <4> DEFINE k == n - W
      <4>1. k \in 1 .. G /\ n = W + k
        BY <1>3, <3>2
      <4> HIDE DEF k
      <4>2. bu[n] = u[n].bytes
        BY <1>4
      <4>3. u[W + k] = g[k] /\ j[W + k] = bg[k] /\ bg[k] = g[k].bytes
        BY <1>2, <1>3, <2>1, <4>1
      <4> QED BY <4>1, <4>2, <4>3
    <3> QED BY <1>3, <3>1, <3>2
  <2>3. bu = j
    BY <1>3, <1>4, <2>1, <2>2
  <2> QED BY <2>3 DEF j
<1>6. /\ \A n \in 0 .. W : SumOf(bu, n) = SumOf(bw, n)
      /\ \A n \in 0 .. G : SumOf(bu, W + n) = total + SumOf(bg, n)
  <2>1. /\ \A n \in 0 .. Len(bw) : SumOf(bw \o bg, n) = SumOf(bw, n)
        /\ \A n \in 0 .. Len(bg) : SumOf(bw \o bg, Len(bw) + n) = SumOf(bw, Len(bw)) + SumOf(bg, n)
    BY <1>2, SumsJoin
  <2> QED BY <1>1, <1>2, <1>5, <2>1
<1>7. \A n \in 0 .. G : MultipleOf(SumOf(bg, n), a) /\ SumOf(bg, n) \in Nat
  <2>1. \A k \in 1 .. Len(bg) : MultipleOf(bg[k], a)
    BY <1>2 DEF G
  <2>2. \A n \in 0 .. Len(bg) : MultipleOf(SumOf(bg, n), a)
    BY <1>2, <2>1, MultiplesSum
  <2>3. SumsUp(bg)
    BY <1>2, SumsAre
  <2> QED BY <1>2, <2>2, <2>3 DEF SumsUp
<1>8. \A n \in 0 .. G : MultipleOf(SumOf(bu, W + n), a) /\ SumOf(bu, W + n) = total + SumOf(bg, n)
  BY <1>6, <1>7, MultiplesAre
<1>9. ASSUME NEW n \in 1 .. W + G PROVE MultipleOf(SumOf(bu, n - 1), u[n].align)
  <2>1. CASE n <= W
    <3>1. n \in 1 .. W /\ n - 1 \in 0 .. W
      BY <1>3, <2>1
    <3> QED BY <1>1, <1>3, <1>6, <3>1
  <2>2. CASE n > W
    <3> DEFINE k == n - W
    <3>1. k \in 1 .. G /\ n = W + k /\ k - 1 \in 0 .. G /\ n - 1 = W + (k - 1)
      BY <1>3, <2>2
    <3> HIDE DEF k
    <3>2. u[n].align = a
      <4>1. u[n] = g[k]
        BY <1>3, <3>1
      <4>2. g[k].align = a
        BY <3>1 DEF G
      <4> QED BY <4>1, <4>2
    <3>3. MultipleOf(SumOf(bu, W + (k - 1)), a)
      BY <1>8, <3>1
    <3> QED BY <3>1, <3>2, <3>3
  <2> QED BY <1>3, <2>1, <2>2
<1>10. G \in 0 .. G
  BY <1>3
<1>11. SumOf(bu, W + G) = total + SumOf(bg, G) /\ SumOf(bg, G) \in Nat /\ MultipleOf(total + SumOf(bg, G), a)
  BY <1>7, <1>8, <1>10
<1>12. Packed(u, total + SumOf(bg, G))
  <2>1. total + SumOf(bg, G) \in Nat
    BY <1>1, <1>11
  <2> QED BY <1>3, <1>9, <1>11, <2>1 DEF Packed, bu, X
<1> QED BY <1>11, <1>12 DEF u, bg, G

LEMMA SpanPacked ==
  ASSUME NEW w, NEW total, Packed(w, total), NEW a \in Nat \ {0}, MultipleOf(total, a),
         NEW b \in Nat, MultipleOf(b, a)
  PROVE  /\ Packed(w \o <<[bytes |-> b, align |-> a]>>, total + b)
         /\ MultipleOf(total + b, a)
<1> DEFINE s == [bytes |-> b, align |-> a]
           g == <<s>>
           X == ASpan
<1>1. s \in X /\ s.bytes = b /\ s.align = a
  BY DEF ASpan
<1> HIDE DEF s, X
<1>2. g \in Seq(X) /\ Len(g) = 1 /\ g[1] = s
  BY <1>1
<1> HIDE DEF g
<1>3. \A k \in 1 .. Len(g) : g[k].align = a /\ MultipleOf(g[k].bytes, a)
  <2>1. \A k \in 1 .. Len(g) : k = 1
    BY <1>2
  <2> QED BY <1>1, <1>2, <2>1
<1>4. /\ Packed(w \o g, total + SumOf(BytesOf(g), Len(g)))
      /\ MultipleOf(total + SumOf(BytesOf(g), Len(g)), a)
  BY <1>2, <1>3, PackedOn DEF X
<1>5. SumOf(BytesOf(g), Len(g)) = b
  <2> DEFINE bg == BytesOf(g)
  <2>1. bg \in Seq(Nat) /\ Len(bg) = Len(g) /\ \A k \in 1 .. Len(g) : bg[k] = g[k].bytes
    BY <1>2, BytesAre DEF X
  <2> HIDE DEF bg
  <2>2. SumsUp(bg) /\ Len(bg) = 1 /\ 1 \in 1 .. 1
    BY <1>2, <2>1, SumsAre
  <2>3. SumOf(bg, 0) = 0 /\ SumOf(bg, 1) = SumOf(bg, 1 - 1) + bg[1]
    BY <2>2 DEF SumsUp
  <2>4. bg[1] = b
    BY <1>1, <1>2, <2>1, <2>2
  <2>5. 1 - 1 = 0 /\ 0 + b = b
    OBVIOUS
  <2>6. SumOf(bg, 1) = b
    BY <2>3, <2>4, <2>5
  <2> QED BY <1>2, <2>6 DEF bg
<1> QED BY <1>4, <1>5 DEF g, s

LEMMA ChannelsPacked ==
  ASSUME NEW w, NEW total, Packed(w, total), NEW a \in Nat \ {0}, MultipleOf(total, a),
         NEW f \in [1 .. Channels -> Nat], \A c \in 1 .. Channels : MultipleOf(f[c], a),
         NEW g, g = [c \in 1 .. Channels |-> [bytes |-> f[c], align |-> a]]
  PROVE  /\ Packed(w \o g, total + SumOf(f, Channels))
         /\ MultipleOf(total + SumOf(f, Channels), a)
<1> DEFINE C == Channels
           X == ASpan
<1>0. C \in Nat
  BY KeyStreamAssumption
<1>1. \A c \in 1 .. C : g[c] \in X /\ g[c].bytes = f[c] /\ g[c].align = a
  BY DEF ASpan
<1> HIDE DEF X
<1>2. g \in [1 .. C -> X]
  BY <1>1
<1>3. g \in Seq(X) /\ Len(g) = C
  BY <1>0, <1>2, IsSequence
<1>4. \A k \in 1 .. Len(g) : g[k].align = a /\ MultipleOf(g[k].bytes, a)
  BY <1>1, <1>3
<1>5. BytesOf(g) = f
  <2>1. BytesOf(g) = [k \in 1 .. C |-> g[k].bytes]
    BY <1>2 DEF BytesOf
  <2> QED BY <1>1, <2>1
<1>6. /\ Packed(w \o g, total + SumOf(BytesOf(g), Len(g)))
      /\ MultipleOf(total + SumOf(BytesOf(g), Len(g)), a)
  BY <1>3, <1>4, PackedOn DEF X
<1> QED BY <1>3, <1>5, <1>6

LEMMA MultiplesHalve ==
  ASSUME NEW x \in Nat
  PROVE  /\ MultipleOf(x, 4) => MultipleOf(x, 2)
         /\ MultipleOf(x, 1)
         /\ MultipleOf(x * 4, 4) /\ MultipleOf(x * 2, 2) /\ MultipleOf(x * 6, 2)
<1>1. ASSUME MultipleOf(x, 4) PROVE MultipleOf(x, 2)
  <2>1. PICK q \in Nat : x = 4 * q
    BY <1>1 DEF MultipleOf
  <2>2. x = 2 * (2 * q) /\ 2 * q \in Nat
    BY <2>1
  <2> QED BY <2>2 DEF MultipleOf
<1>2. x = 1 * x /\ x * 4 = 4 * x /\ x * 2 = 2 * x /\ x * 6 = 2 * (3 * x) /\ 3 * x \in Nat
  OBVIOUS
<1>3. MultipleOf(x, 1) /\ MultipleOf(x * 4, 4) /\ MultipleOf(x * 2, 2) /\ MultipleOf(x * 6, 2)
  BY <1>2 DEF MultipleOf
<1> QED BY <1>1, <1>3

LEMMA NothingPacked == Packed(<<>>, 0)
<1> DEFINE X == ASpan
           w == <<>>
<1> HIDE DEF X
<1>1. w \in Seq(X) /\ Len(w) = 0
  OBVIOUS
<1> HIDE DEF w
<1>2. BytesOf(w) \in Seq(Nat) /\ Len(BytesOf(w)) = 0
  BY <1>1, BytesAre DEF X
<1>3. SumOf(BytesOf(w), 0) = 0
  BY <1>2, SumsAre DEF SumsUp
<1>4. Packed(w, 0)
  BY <1>1, <1>3 DEF Packed, X
<1> QED BY <1>4 DEF w

\* Every span starts at its alignment and the spans use up the buffer.
LEMMA StoredIsAllocated ==
  ASSUME NEW stored, IsStored(stored)
  PROVE  Allocated(stored)
<1> DEFINE C == Channels
           D == 1 .. C
           R == SizeofRatio(stored.timepoints)
           P == Len(stored.timepoints)
           name == Len(stored.name)
           keys(c) == Len(stored.ctrl[c].previouses)
           entries(c) == Len(stored.ctrl[c].iframe_entries)
           desc(c) == Len(stored.ctrl[c].iframe_desc)
           f1 == [c \in D |-> desc(c) * 4]
           f2 == [c \in D |-> keys(c) * 2]
           f3 == [c \in D |-> keys(c) * 6]
           f4 == [c \in D |-> (keys(c) * R) * 1]
           f5 == [c \in D |-> entries(c) * 1]
           g1 == [c \in D |-> Span(desc(c), 4, 4)]
           g2 == [c \in D |-> Span(keys(c), 2, 2)]
           g3 == [c \in D |-> Span(keys(c), 6, 2)]
           g4 == [c \in D |-> Span(keys(c) * R, 1, R)]
           g5 == [c \in D |-> Span(entries(c), 1, 1)]
<1>0. C \in Nat
  BY KeyStreamAssumption
<1>1. P \in Nat /\ name \in Nat /\ (R = 1 \/ R = 2) /\ R \in Nat \ {0}
  <2> DEFINE X == ToSet(stored.name)
  <2>1. stored.name \in Seq(X) /\ stored.timepoints \in Seq(Nat)
    BY DEF IsStored
  <2> HIDE DEF X
  <2> QED BY <2>1 DEF SizeofRatio
<1>2. \A c \in D : keys(c) \in Nat /\ entries(c) \in Nat /\ desc(c) \in Nat
  <2>1. \A c \in D : /\ stored.ctrl[c].previouses \in Seq(Nat) /\ stored.ctrl[c].iframe_entries \in Seq(Nat)
                     /\ stored.ctrl[c].iframe_desc \in Seq(Nat)
    BY DEF IsStored
  <2>2. \A w \in Seq(Nat) : Len(w) \in Nat
    OBVIOUS
  <2>3. \A c \in D : /\ Len(stored.ctrl[c].previouses) \in Nat /\ Len(stored.ctrl[c].iframe_entries) \in Nat
                     /\ Len(stored.ctrl[c].iframe_desc) \in Nat
    BY <2>1, <2>2
  <2> QED BY <2>3
<1> HIDE DEF R, P, name, keys, entries, desc
<1>3. \A x, y \in Nat : x * y \in Nat
  OBVIOUS
<1>4. /\ f1 \in [D -> Nat] /\ f2 \in [D -> Nat] /\ f3 \in [D -> Nat]
      /\ f4 \in [D -> Nat] /\ f5 \in [D -> Nat]
  BY <1>1, <1>2, <1>3
<1>5. /\ \A c \in D : MultipleOf(f1[c], 4) /\ MultipleOf(f2[c], 2) /\ MultipleOf(f3[c], 2)
      /\ \A c \in D : MultipleOf(f4[c], R) /\ MultipleOf(f5[c], 1)
  <2> SUFFICES ASSUME NEW c \in D
               PROVE  /\ MultipleOf(f1[c], 4) /\ MultipleOf(f2[c], 2) /\ MultipleOf(f3[c], 2)
                      /\ MultipleOf(f4[c], R) /\ MultipleOf(f5[c], 1)
    OBVIOUS
  <2>1. MultipleOf(f1[c], 4) /\ MultipleOf(f2[c], 2) /\ MultipleOf(f3[c], 2)
    BY <1>2, MultiplesHalve
  <2>2. MultipleOf(f5[c], 1)
    <3>1. f5[c] \in Nat
      BY <1>4
    <3> HIDE DEF f5
    <3> QED BY <3>1, MultiplesHalve
  <2>3. MultipleOf(f4[c], R)
    <3> DEFINE k == keys(c)
    <3>1. k \in Nat /\ f4[c] = (k * R) * 1
      BY <1>2
    <3> HIDE DEF k, f4
    <3>2. (k * R) * 1 = R * k
      BY <1>1, <3>1
    <3> QED BY <3>1, <3>2 DEF MultipleOf
  <2> QED BY <2>1, <2>2, <2>3
<1>6. /\ g1 = [c \in D |-> [bytes |-> f1[c], align |-> 4]]
      /\ g2 = [c \in D |-> [bytes |-> f2[c], align |-> 2]]
      /\ g3 = [c \in D |-> [bytes |-> f3[c], align |-> 2]]
      /\ g4 = [c \in D |-> [bytes |-> f4[c], align |-> R]]
      /\ g5 = [c \in D |-> [bytes |-> f5[c], align |-> 1]]
  BY DEF Span
<1> DEFINE p0 == <<>> \o <<[bytes |-> P * 4, align |-> 4]>>
           p1 == p0 \o g1
           p2 == p1 \o g2
           p3 == p2 \o g3
           p4 == p3 \o g4
           p5 == p4 \o g5
           p6 == p5 \o <<[bytes |-> (name + 1) * 1, align |-> 1]>>
           t0 == 0 + P * 4
           t1 == t0 + SumOf(f1, C)
           t2 == t1 + SumOf(f2, C)
           t3 == t2 + SumOf(f3, C)
           t4 == t3 + SumOf(f4, C)
           t5 == t4 + SumOf(f5, C)
           t6 == t5 + (name + 1) * 1
<1>70. Packed(p0, t0) /\ MultipleOf(t0, 4)
  <2>0. 4 \in Nat \ {0}
    OBVIOUS
  <2>1. P * 4 \in Nat /\ MultipleOf(P * 4, 4) /\ 4 \in Nat \ {0}
    <3>1. P * 4 \in Nat
      BY <1>1
    <3>2. MultipleOf(P * 4, 4)
      BY <1>1, MultiplesHalve
    <3> QED BY <2>0, <3>1, <3>2
  <2>2. MultipleOf(0, 4)
    <3>1. 0 = 4 * 0 /\ 0 \in Nat
      OBVIOUS
    <3> QED BY <3>1 DEF MultipleOf
  <2> DEFINE b == P * 4
             e == <<>>
  <2>3. Packed(e, 0) /\ b \in Nat /\ MultipleOf(b, 4)
    BY <2>1, NothingPacked
  <2> HIDE DEF b, e
  <2>4. Packed(e \o <<[bytes |-> b, align |-> 4]>>, 0 + b) /\ MultipleOf(0 + b, 4)
    BY <2>1, <2>2, <2>3, SpanPacked
  <2> QED BY <2>4 DEF b, e
<1> HIDE DEF f1, f2, f3, f4, f5, g1, g2, g3, g4, g5, p0, t0
<1>71. Packed(p1, t1) /\ MultipleOf(t1, 4)
  <2>1. 4 \in Nat \ {0}
    OBVIOUS
  <2> QED BY <1>4, <1>5, <1>6, <1>70, <2>1, ChannelsPacked
<1> HIDE DEF p1, t1
<1>72. Packed(p2, t2) /\ MultipleOf(t2, 2)
  <2>1. 2 \in Nat \ {0} /\ MultipleOf(t1, 2)
    BY <1>71, MultiplesHalve DEF Packed
  <2> QED BY <1>4, <1>5, <1>6, <1>71, <2>1, ChannelsPacked
<1> HIDE DEF p2, t2
<1>73. Packed(p3, t3) /\ MultipleOf(t3, 2)
  <2>1. 2 \in Nat \ {0}
    OBVIOUS
  <2> QED BY <1>4, <1>5, <1>6, <1>72, <2>1, ChannelsPacked
<1> HIDE DEF p3, t3
<1>74. Packed(p4, t4) /\ MultipleOf(t4, R)
  <2>1. MultipleOf(t3, R)
    <3>1. MultipleOf(t3, 1)
      BY <1>73, MultiplesHalve DEF Packed
    <3> QED BY <1>1, <1>73, <3>1
  <2> QED BY <1>1, <1>4, <1>5, <1>6, <1>73, <2>1, ChannelsPacked
<1> HIDE DEF p4, t4
<1>75. Packed(p5, t5) /\ MultipleOf(t5, 1)
  <2>1. 1 \in Nat \ {0} /\ MultipleOf(t4, 1)
    BY <1>74, MultiplesHalve DEF Packed
  <2> QED BY <1>4, <1>5, <1>6, <1>74, <2>1, ChannelsPacked
<1> HIDE DEF p5, t5
<1>76. Packed(p6, t6)
  <2> DEFINE b == (name + 1) * 1
  <2>1. 1 \in Nat \ {0} /\ b \in Nat
    BY <1>1
  <2> HIDE DEF b
  <2>2. MultipleOf(b, 1)
    BY <2>1, MultiplesHalve
  <2>3. Packed(p5 \o <<[bytes |-> b, align |-> 1]>>, t5 + b)
    BY <1>75, <2>1, <2>2, SpanPacked
  <2> QED BY <2>3 DEF b
<1>7. SpansOf(stored) = IF name > 0 THEN p6 ELSE p5
  <2>1. SpansOf(stored)
        = <<Span(P, 4, 4)>> \o g1 \o g2 \o g3 \o g4 \o g5
          \o IF name > 0 THEN <<Span(name + 1, 1, 1)>> ELSE <<>>
    BY SpansAre DEF P, name, R, keys, entries, desc, g1, g2, g3, g4, g5
  <2> DEFINE z == [bytes |-> P * 4, align |-> 4]
             s == <<z>>
  <2>2. <<Span(P, 4, 4)>> = s /\ <<Span(name + 1, 1, 1)>> = <<[bytes |-> (name + 1) * 1, align |-> 1]>>
    BY DEF Span
  <2>3. <<>> \o s = s
    <3> HIDE DEF z
    <3> QED OBVIOUS
  <2> HIDE DEF s
  <2>4. p0 = s
    BY <2>3 DEF s, p0
  <2>5. SpansOf(stored) = p5 \o IF name > 0 THEN <<[bytes |-> (name + 1) * 1, align |-> 1]>> ELSE <<>>
    BY <2>1, <2>2, <2>4 DEF p1, p2, p3, p4, p5
  <2>6. p5 \in Seq(ASpan) => p5 \o <<>> = p5
    <3> DEFINE X == ASpan
    <3> HIDE DEF X
    <3>1. p5 \in Seq(X) => p5 \o <<>> = p5
      OBVIOUS
    <3> QED BY <3>1 DEF X
  <2>7. p5 \in Seq(ASpan)
    BY <1>75 DEF Packed
  <2> QED BY <2>5, <2>6, <2>7
<1> HIDE DEF p6, t6
<1> DEFINE spans == SpansOf(stored)
           total == IF name > 0 THEN t6 ELSE t5
<1>8. Packed(spans, total)
  BY <1>7, <1>75, <1>76
<1>9. total = BufferSize(stored)
  <2> DEFINE of(c) == keys(c) * (6 + R + 2) + entries(c) + desc(c) * 4
             h2 == [c \in D |-> f1[c] + f2[c]]
             h3 == [c \in D |-> h2[c] + f3[c]]
             h4 == [c \in D |-> h3[c] + f4[c]]
             h5 == [c \in D |-> h4[c] + f5[c]]
  <2>1. BufferSize(stored)
        = (IF name > 0 THEN name + 1 ELSE 0) + P * 4 + SumOf([c \in D |-> of(c)], C)
    BY DEF BufferSize, P, name, R, keys, entries, desc
  <2>2. h2 \in [D -> Nat] /\ h3 \in [D -> Nat] /\ h4 \in [D -> Nat]
    BY <1>4
  <2>3. [c \in D |-> of(c)] = h5
    <3> SUFFICES ASSUME NEW c \in D PROVE of(c) = h5[c]
      OBVIOUS
    <3> DEFINE k == keys(c)
               e == entries(c)
               d == desc(c)
    <3>1. k \in Nat /\ e \in Nat /\ d \in Nat
      BY <1>2
    <3>2. h5[c] = (((d * 4 + k * 2) + k * 6) + (k * R) * 1) + e * 1
      BY DEF f1, f2, f3, f4, f5
    <3>3. of(c) = k * (6 + R + 2) + e + d * 4
      OBVIOUS
    <3> HIDE DEF k, e, d, of, h5
    <3>4. k * (6 + R + 2) = k * 6 + k * R + k * 2 /\ k * R \in Nat
      BY <1>1, <3>1
    <3> QED BY <3>1, <3>2, <3>3, <3>4
  <2>4. /\ SumOf(h2, C) = SumOf(f1, C) + SumOf(f2, C)
        /\ SumOf(f1, C) \in Nat /\ SumOf(f2, C) \in Nat
    BY <1>0, <1>4, SumsAdd
  <2> HIDE DEF h2
  <2>5. SumOf(h3, C) = SumOf(h2, C) + SumOf(f3, C) /\ SumOf(f3, C) \in Nat
    BY <1>0, <1>4, <2>2, SumsAdd
  <2> HIDE DEF h3
  <2>6. SumOf(h4, C) = SumOf(h3, C) + SumOf(f4, C) /\ SumOf(f4, C) \in Nat
    BY <1>0, <1>4, <2>2, SumsAdd
  <2> HIDE DEF h4
  <2>7. SumOf(h5, C) = SumOf(h4, C) + SumOf(f5, C) /\ SumOf(f5, C) \in Nat
    BY <1>0, <1>4, <2>2, SumsAdd
  <2> HIDE DEF h5, of
  <2>8. BufferSize(stored) = (IF name > 0 THEN name + 1 ELSE 0) + P * 4 + SumOf(h5, C)
    BY <2>1, <2>3
  <2> DEFINE F1 == SumOf(f1, C)
             F2 == SumOf(f2, C)
             F3 == SumOf(f3, C)
             F4 == SumOf(f4, C)
             F5 == SumOf(f5, C)
  <2>9. /\ SumOf(h5, C) = (((F1 + F2) + F3) + F4) + F5
        /\ F1 \in Nat /\ F2 \in Nat /\ F3 \in Nat /\ F4 \in Nat /\ F5 \in Nat
    BY <2>4, <2>5, <2>6, <2>7
  <2>10. t5 = ((((0 + P * 4) + F1) + F2) + F3) + F4 + F5 /\ t6 = t5 + (name + 1) * 1
    BY DEF t0, t1, t2, t3, t4, t5, t6
  <2> HIDE DEF F1, F2, F3, F4, F5
  <2> QED BY <1>1, <2>8, <2>9, <2>10
<1> HIDE DEF spans, total
<1>10. ASSUME NEW n \in DOMAIN spans PROVE Start(spans, n) % spans[n].align = 0
  <2> DEFINE X == ASpan
  <2>1. spans \in Seq(X)
    BY <1>8 DEF Packed
  <2>2. \A x \in X : x.align \in Nat \ {0}
    BY DEF ASpan
  <2> HIDE DEF X
  <2>3. n \in 1 .. Len(spans) /\ spans[n].align \in Nat \ {0}
    BY <2>1, <2>2
  <2>4. MultipleOf(SumOf(BytesOf(spans), n - 1), spans[n].align)
    BY <1>8, <2>3 DEF Packed
  <2>5. SumOf(BytesOf(spans), n - 1) % spans[n].align = 0
    BY <2>3, <2>4, MultiplesAre
  <2> QED BY <2>5 DEF Start, BytesOf
<1>11. Start(spans, Len(spans) + 1) = total
  <2> DEFINE X == ASpan
  <2>1. spans \in Seq(X)
    BY <1>8 DEF Packed
  <2> HIDE DEF X
  <2>2. Len(spans) + 1 - 1 = Len(spans)
    BY <2>1
  <2>3. SumOf(BytesOf(spans), Len(spans)) = total
    BY <1>8 DEF Packed
  <2> QED BY <2>2, <2>3 DEF Start, BytesOf
<1> QED BY <1>9, <1>10, <1>11 DEF Allocated, spans

-----------------------------------------------------------------------------
(* Time points.                                                            *)

Earlier(S, time) == {u \in S : u < time}

\* The times of a set, ascending, as BuildTimePoints lists them.
Listing(S) ==
    [n \in 1 .. Cardinality(S) |-> CHOOSE time \in S : Cardinality(Earlier(S, time)) = n - 1]

LEMMA EarlierGrows ==
  ASSUME NEW S, S \subseteq Nat, IsFiniteSet(S), NEW a \in S, NEW b \in S, a < b
  PROVE  Cardinality(Earlier(S, a)) < Cardinality(Earlier(S, b))
<1>1. IsFiniteSet(Earlier(S, b))
  <2>1. Earlier(S, b) \in SUBSET S
    BY DEF Earlier
  <2> QED BY <2>1, FS_Subset
<1>2. Earlier(S, a) \in SUBSET Earlier(S, b)
  <2> SUFFICES ASSUME NEW u \in Earlier(S, a) PROVE u \in Earlier(S, b)
    OBVIOUS
  <2>1. u \in S /\ u < a
    BY DEF Earlier
  <2>2. u \in Nat /\ a \in Nat /\ b \in Nat
    BY <2>1
  <2>3. u < b
    BY <2>1, <2>2
  <2> QED BY <2>1, <2>3 DEF Earlier
<1>3. Earlier(S, a) # Earlier(S, b)
  <2>1. a \in Earlier(S, b) /\ a \notin Earlier(S, a)
    BY a \in Nat DEF Earlier
  <2> QED BY <2>1
<1>4. /\ Cardinality(Earlier(S, a)) <= Cardinality(Earlier(S, b))
      /\ Cardinality(Earlier(S, b)) = Cardinality(Earlier(S, a)) => Earlier(S, b) = Earlier(S, a)
      /\ IsFiniteSet(Earlier(S, a))
  BY <1>1, <1>2, FS_Subset
<1>5. Cardinality(Earlier(S, a)) \in Nat /\ Cardinality(Earlier(S, b)) \in Nat
  BY <1>1, <1>4, FS_CardinalityType
<1> QED BY <1>3, <1>4, <1>5

LEMMA EveryPlaceTaken ==
  ASSUME NEW S, S \subseteq Nat, IsFiniteSet(S)
  PROVE  /\ Cardinality(S) \in Nat
         /\ \A t \in S : Cardinality(Earlier(S, t)) \in 0 .. Cardinality(S) - 1
         /\ \A n \in 0 .. Cardinality(S) - 1 : \E t \in S : Cardinality(Earlier(S, t)) = n
<1>0. Cardinality(S) \in Nat
  BY FS_CardinalityType
<1>1. ASSUME NEW t \in S PROVE Cardinality(Earlier(S, t)) \in 0 .. Cardinality(S) - 1
  <2>1. Earlier(S, t) \in SUBSET S /\ t \notin Earlier(S, t)
    BY t \in Nat DEF Earlier
  <2>2. /\ IsFiniteSet(Earlier(S, t)) /\ Cardinality(Earlier(S, t)) <= Cardinality(S)
        /\ Cardinality(S) = Cardinality(Earlier(S, t)) => S = Earlier(S, t)
    BY <2>1, FS_Subset
  <2>3. Cardinality(Earlier(S, t)) \in Nat
    BY <2>2, FS_CardinalityType
  <2> QED BY <1>0, <2>1, <2>2, <2>3
<1> DEFINE r == [t \in S |-> Cardinality(Earlier(S, t))]
           N == 0 .. Cardinality(S) - 1
<1>2. r \in [S -> N]
  BY <1>1
<1>3. \A a, b \in S : r[a] = r[b] => a = b
  <2> SUFFICES ASSUME NEW a \in S, NEW b \in S, a # b PROVE r[a] # r[b]
    OBVIOUS
  <2>1. a < b \/ b < a
    BY a \in Nat, b \in Nat
  <2> DEFINE x == Cardinality(Earlier(S, a))
             y == Cardinality(Earlier(S, b))
  <2>2. x \in Int /\ y \in Int
    BY <1>1
  <2>3. (a < b => x < y) /\ (b < a => y < x)
    BY EarlierGrows
  <2> HIDE DEF x, y
  <2>4. x # y
    BY <2>1, <2>2, <2>3
  <2> QED BY <2>4 DEF x, y
<1>4. r \in Injection(S, N)
  BY <1>2, <1>3 DEF Injection, IsInjective
<1>5. IsFiniteSet(N) /\ Cardinality(N) = Cardinality(S)
  <2> DEFINE P == Cardinality(S)
  <2>1. P \in Nat
    BY <1>0
  <2> HIDE DEF P
  <2>2. 0 \in Int /\ P - 1 \in Int /\ (IF 0 > P - 1 THEN 0 ELSE ((P - 1) - 0) + 1) = P
    BY <2>1
  <2>3. IsFiniteSet(0 .. P - 1) /\ Cardinality(0 .. P - 1) = P
    BY <2>2, FS_Interval
  <2> QED BY <2>3 DEF P
<1> HIDE DEF r, N
<1>6. r \in Surjection(S, N)
  BY <1>4, <1>5, FS_Injection
<1>7. \A n \in N : \E t \in S : r[t] = n
  BY <1>6 DEF Surjection
<1> QED BY <1>0, <1>1, <1>7 DEF r, N

\* Every time is found where it is listed.
LEMMA TimesAreFound ==
  ASSUME NEW S, S \subseteq Nat, IsFiniteSet(S)
  PROVE  /\ Len(Listing(S)) = Cardinality(S) /\ Cardinality(S) \in Nat
         /\ \A n \in 1 .. Cardinality(S) : Listing(S)[n] \in S
         /\ \A t \in S :
               /\ TimePointToIndex(Listing(S), t) \in 0 .. Cardinality(S) - 1
               /\ Listing(S)[TimePointToIndex(Listing(S), t) + 1] = t
<1> DEFINE P == Cardinality(S)
           list == Listing(S)
           Rank(t) == Cardinality(Earlier(S, t))
<1>1. /\ P \in Nat
      /\ \A t \in S : Rank(t) \in 0 .. P - 1
      /\ \A n \in 0 .. P - 1 : \E t \in S : Rank(t) = n
  BY EveryPlaceTaken
<1>2. list = [n \in 1 .. P |-> CHOOSE t \in S : Rank(t) = n - 1]
  BY DEF Listing
<1>3. ASSUME NEW a \in S, NEW b \in S PROVE a < b <=> Rank(a) < Rank(b)
  <2>1. a \in Nat /\ b \in Nat /\ Rank(a) \in Int /\ Rank(b) \in Int
    BY <1>1
  <2>2. (a < b => Rank(a) < Rank(b)) /\ (b < a => Rank(b) < Rank(a))
    BY EarlierGrows
  <2> HIDE DEF Rank
  <2>3. a = b => Rank(a) = Rank(b)
    OBVIOUS
  <2> QED BY <2>1, <2>2, <2>3
<1> HIDE DEF Rank, list, P
<1>4. ASSUME NEW n \in 1 .. P PROVE list[n] \in S /\ Rank(list[n]) = n - 1
  <2>1. n - 1 \in 0 .. P - 1
    BY <1>1
  <2>2. \E t \in S : Rank(t) = n - 1
    BY <1>1, <2>1
  <2> QED BY <1>2, <2>2
<1>5. ASSUME NEW t \in S PROVE TimePointToIndex(list, t) = Rank(t) /\ list[Rank(t) + 1] = t
  <2>0. Rank(t) \in 0 .. P - 1 /\ Rank(t) + 1 \in 1 .. P /\ (Rank(t) + 1) - 1 = Rank(t)
    BY <1>1
  <2>1. {n \in DOMAIN list : list[n] < t} = 1 .. Rank(t)
    <3> DEFINE r == Rank(t)
    <3>1. ASSUME NEW n \in 1 .. P PROVE list[n] < t <=> n - 1 < r
      <4>1. list[n] \in S /\ Rank(list[n]) = n - 1
        BY <1>4
      <4>2. list[n] < t <=> Rank(list[n]) < Rank(t)
        BY <1>3, <4>1
      <4> QED BY <4>1, <4>2
    <3>2. DOMAIN list = 1 .. P /\ P \in Nat /\ r \in 0 .. P - 1
      BY <1>1, <1>2, <2>0
    <3> HIDE DEF r
    <3>3. \A n \in 1 .. P : n - 1 < r <=> n \in 1 .. r
      BY <3>2
    <3>4. 1 .. r \subseteq 1 .. P
      BY <3>2
    <3>5. {n \in 1 .. P : list[n] < t} = {n \in 1 .. P : n \in 1 .. r}
      BY <3>1, <3>3
    <3>6. {n \in 1 .. P : n \in 1 .. r} = 1 .. r
      BY <3>4
    <3> QED BY <3>2, <3>5, <3>6 DEF r
  <2>2. Cardinality(1 .. Rank(t)) = Rank(t)
    <3> DEFINE r == Rank(t)
    <3>1. r \in Nat
      BY <2>0
    <3> HIDE DEF r
    <3>2. 1 \in Int /\ r \in Int /\ (IF 1 > r THEN 0 ELSE (r - 1) + 1) = r
      BY <3>1
    <3>3. Cardinality(1 .. r) = r
      BY <3>2, FS_Interval
    <3> QED BY <3>3 DEF r
  <2>3. list[Rank(t) + 1] = t
    <3> DEFINE u == list[Rank(t) + 1]
    <3>1. u \in S /\ Rank(u) = Rank(t)
      BY <1>4, <2>0
    <3> HIDE DEF u
    <3>2. u \in Nat /\ t \in Nat /\ Rank(u) \in Int
      BY <2>0, <3>1
    <3>3. ~(u < t) /\ ~(t < u)
      BY <1>3, <3>1, <3>2
    <3>4. u = t
      BY <3>2, <3>3
    <3> QED BY <3>4 DEF u
  <2> QED BY <2>1, <2>2, <2>3 DEF TimePointToIndex
<1>6. Len(list) = P
  BY <1>1, <1>2
<1> QED BY <1>1, <1>4, <1>5, <1>6 DEF list, P

-----------------------------------------------------------------------------
(* What is stored fits the runtime format.                                 *)

\* The first n keys are close enough to the one before them on their track.
AreNear(keys, n) ==
    \A k \in 0 .. n - 1 : \A p \in 0 .. k - 1 :
        LastAt(keys, keys[k + 1].track, k, p) => k - p <= MaxPreviousOffset

\* Channels that are sorted have all their keys near, the present one those that have
\* been looked at.
Near ==
    /\ pc = "sort" => /\ AreNear(sorted[channel], i)
                      /\ \A c \in 1 .. channel - 1 : AreNear(sorted[c], Len(sorted[c]))
    /\ pc \in {"frame", "write", "built"} =>
          \A c \in 1 .. Channels : AreNear(sorted[c], Len(sorted[c]))

\* What an animation is written from.
WrittenFrom ==
    /\ pc \in {"frame", "write", "built"} => ~(Len(BuildTimePoints) > MaxTimePoints)
    /\ pc \in {"write", "built"} => streams = [c \in 1 .. Channels |-> StreamOf(c)]
    /\ pc = "built" => animation = Written(streams, BuildTimePoints)

Fitting == Near /\ WrittenFrom

LEMMA LastIsOne ==
  ASSUME NEW keys, NEW t, NEW n \in Nat, NEW p, NEW q, LastAt(keys, t, n, p), LastAt(keys, t, n, q)
  PROVE  p = q
<1>1. LastOf(keys, t, n) = p /\ LastOf(keys, t, n) = q
  BY LastOfIs
<1> QED BY <1>1

LEMMA ScanFits ==
  ASSUME IInv, Fitting, Scan
  PROVE  Fitting'
<1> DEFINE keys == sorted[channel]
           met == keys[i + 1].track
           first == previouses[met].first
<1>1. /\ pc = "sort" /\ pc' = "sort" /\ i < Len(keys) /\ i' = i + 1
      /\ sorted' = sorted /\ channel' = channel
      /\ first = -1 \/ ~(i - first > MaxPreviousOffset)
  BY DEF Scan, TooFar, Key
<1>2. /\ i \in Nat /\ LastTwo(keys, met, i, previouses[met])
  <2>1. /\ keys \in Seq(SomeKey) /\ i \in 0 .. Len(keys)
        /\ \A t \in 0 .. NumTracks - 1 : LastTwo(keys, t, i, previouses[t])
        /\ \A n \in DOMAIN keys : keys[n].track \in 0 .. NumTracks - 1
    BY <1>1, WhileSorting
  <2> HIDE DEF keys
  <2>2. i + 1 \in DOMAIN keys /\ i \in Nat
    BY <1>1, <2>1
  <2>3. met \in 0 .. NumTracks - 1
    BY <2>1, <2>2
  <2> QED BY <2>1, <2>2, <2>3
<1>3. LastAt(keys, met, i, first)
  BY <1>2 DEF LastTwo
<1>4. AreNear(keys, i) /\ \A c \in 1 .. channel - 1 : AreNear(sorted[c], Len(sorted[c]))
  BY <1>1 DEF Fitting, Near
<1> HIDE DEF first
<1>5. AreNear(keys, i + 1)
  <2> SUFFICES ASSUME NEW k \in 0 .. i, NEW p \in 0 .. k - 1, LastAt(keys, keys[k + 1].track, k, p)
               PROVE  k - p <= MaxPreviousOffset
    BY <1>2 DEF AreNear
  <2>1. CASE k = i
    <3>1. p = first
      BY <1>2, <1>3, <2>1, LastIsOne
    <3>2. MaxPreviousOffset \in Nat
      BY BuilderAssumption
    <3> QED BY <1>1, <1>2, <2>1, <3>1, <3>2
  <2>2. CASE k # i
    <3>1. k \in 0 .. i - 1
      BY <1>2, <2>2
    <3> HIDE DEF keys
    <3> QED BY <1>4, <3>1 DEF AreNear
  <2> QED BY <2>1, <2>2
<1> HIDE DEF keys
<1>6. Near'
  <2>1. sorted[channel]' = keys
    BY <1>1 DEF keys
  <2>2. \A k, n : AreNear(k, n)' = AreNear(k, n)
    BY DEF AreNear, LastAt
  <2> QED BY <1>1, <1>4, <1>5, <2>1 DEF Near, AreNear, LastAt
<1>7. WrittenFrom'
  BY <1>1 DEF WrittenFrom
<1> QED BY <1>6, <1>7 DEF Fitting

\* A scan that restarts has looked at nothing yet.
LEMMA RestartFits ==
  ASSUME IInv, Fitting, Inject \/ NextChannel
  PROVE  Fitting'
<1>1. pc = "sort" /\ pc' = "sort" /\ i' = 0
  BY DEF Inject, NextChannel
<1>2. /\ DOMAIN sorted = 1 .. Channels /\ channel \in 1 .. Channels /\ channel \in Int
      /\ Channels \in Nat
  BY <1>1, WhileSorting, KeyStreamAssumption
<1>3. AreNear(sorted[channel], i) /\ \A c \in 1 .. channel - 1 : AreNear(sorted[c], Len(sorted[c]))
  BY <1>1 DEF Fitting, Near
<1>4. AreNear(sorted'[channel'], 0)
  BY DEF AreNear
<1>5. \A c \in 1 .. channel' - 1 : AreNear(sorted'[c], Len(sorted'[c]))
  <2>1. CASE Inject
    <3>1. channel' = channel /\ \A c \in 1 .. channel - 1 : sorted'[c] = sorted[c]
      BY <1>2, <2>1 DEF Inject
    <3> QED BY <1>3, <3>1
  <2>2. CASE NextChannel
    <3>1. channel' = channel + 1 /\ sorted' = sorted /\ i = Len(sorted[channel])
      BY <2>2 DEF NextChannel
    <3>2. \A c \in 1 .. channel' - 1 : c = channel \/ c \in 1 .. channel - 1
      BY <1>2, <3>1
    <3> QED BY <1>3, <3>1, <3>2
  <2> QED BY <2>1, <2>2
<1>6. Near'
  BY <1>1, <1>4, <1>5 DEF Near, AreNear, LastAt
<1>7. WrittenFrom'
  BY <1>1 DEF WrittenFrom
<1> QED BY <1>6, <1>7 DEF Fitting

LEMMA TakenTimesFit ==
  ASSUME IInv, Fitting, TakeTimePoints
  PROVE  Fitting'
<1>1. /\ pc = "sort" /\ i = Len(sorted[channel]) /\ channel = Channels
      /\ pc' = IF Len(BuildTimePoints) > MaxTimePoints THEN "failed" ELSE "frame"
      /\ UNCHANGED <<raw, sorted, channel, i>>
  BY DEF TakeTimePoints, authoringVars
<1>2. AreNear(sorted[channel], i) /\ \A c \in 1 .. channel - 1 : AreNear(sorted[c], Len(sorted[c]))
  BY <1>1 DEF Fitting, Near
<1>3. \A c \in 1 .. Channels : c = channel \/ c \in 1 .. channel - 1
  BY <1>1, KeyStreamAssumption
<1>4. \A c \in 1 .. Channels : AreNear(sorted[c], Len(sorted[c]))
  BY <1>1, <1>2, <1>3
<1>5. pc' \in {"failed", "frame"}
  BY <1>1
<1>6. Near'
  BY <1>1, <1>4, <1>5 DEF Near, AreNear, LastAt
<1>7. BuildTimePoints' = BuildTimePoints
  BY <1>1 DEF BuildTimePoints, AllTimes
<1>8. pc' = "frame" => ~(Len(BuildTimePoints) > MaxTimePoints)
  BY <1>1
<1>9. WrittenFrom'
  BY <1>5, <1>7, <1>8 DEF WrittenFrom, MaxTimePoints
<1> QED BY <1>6, <1>9 DEF Fitting

\* What follows the sorting, and a step that does nothing, leave the keys alone.
LEMMA KeysStayNear ==
  ASSUME Near, UNCHANGED <<sorted, channel, i>>,
         \/ pc' = pc
         \/ pc \in {"frame", "write", "built"} /\ pc' \in {"frame", "write", "built"}
  PROVE  Near'
<1>1. \A keys, n : AreNear(keys, n)' = AreNear(keys, n)
  BY DEF AreNear, LastAt
<1>2. pc' = "sort" => pc = "sort"
  OBVIOUS
<1>3. pc' \in {"frame", "write", "built"} => pc \in {"frame", "write", "built"}
  OBVIOUS
<1> QED BY <1>2, <1>3 DEF Near, AreNear, LastAt

LEMMA SameAnimation ==
  ASSUME UNCHANGED <<raw, sorted, divs>>
  PROVE  /\ BuildTimePoints' = BuildTimePoints
         /\ [c \in 1 .. Channels |-> StreamOf(c)]' = [c \in 1 .. Channels |-> StreamOf(c)]
         /\ \A ss, times : Written(ss, times)' = Written(ss, times)
BY DEF StreamOf, NumTracks, BuildTimePoints, AllTimes, Written

LEMMA AfterSortingFits ==
  ASSUME Fitting, TakeIFrames \/ Write
  PROVE  Fitting'
<1>1. /\ UNCHANGED <<raw, sorted, divs, channel, i>>
      /\ pc \in {"frame", "write"} /\ pc' \in {"write", "built"}
  BY DEF TakeIFrames, Write, authoringVars
<1>2. Near'
  BY <1>1, KeysStayNear DEF Fitting
<1>3. ~(Len(BuildTimePoints) > MaxTimePoints)
  BY <1>1 DEF Fitting, WrittenFrom
<1>4. (~(Len(BuildTimePoints) > MaxTimePoints))'
  BY <1>1, <1>3, SameAnimation DEF MaxTimePoints
<1>5. CASE TakeIFrames
  <2>1. pc' = "write" /\ streams' = [c \in 1 .. Channels |-> StreamOf(c)]
    BY <1>5 DEF TakeIFrames
  <2>2. [c \in 1 .. Channels |-> StreamOf(c)]' = [c \in 1 .. Channels |-> StreamOf(c)]
    BY <1>1, SameAnimation
  <2> QED BY <1>2, <1>4, <2>1, <2>2 DEF Fitting, WrittenFrom
<1>6. CASE Write
  <2>1. /\ pc = "write" /\ pc' = "built" /\ streams' = streams
        /\ animation' = Written(streams, BuildTimePoints)
    BY <1>6 DEF Write
  <2>2. streams = [c \in 1 .. Channels |-> StreamOf(c)]
    BY <2>1 DEF Fitting, WrittenFrom
  <2>3. /\ [c \in 1 .. Channels |-> StreamOf(c)]' = [c \in 1 .. Channels |-> StreamOf(c)]
        /\ BuildTimePoints' = BuildTimePoints
        /\ \A ss, times : Written(ss, times)' = Written(ss, times)
    BY <1>1, SameAnimation
  <2>4. animation' = Written(streams, BuildTimePoints)'
    BY <1>1, <2>1, <2>3 DEF Written
  <2> QED BY <1>2, <1>4, <2>1, <2>2, <2>3, <2>4 DEF Fitting, WrittenFrom
<1> QED BY <1>5, <1>6

LEMMA StutterFits ==
  ASSUME Fitting, UNCHANGED vars
  PROVE  Fitting'
<1>1. UNCHANGED <<raw, sorted, divs, channel, i, pc, streams, animation>>
  BY DEF vars, authoringVars, builderVars
<1>2. Near'
  BY <1>1, KeysStayNear DEF Fitting
<1>3. /\ [c \in 1 .. Channels |-> StreamOf(c)]' = [c \in 1 .. Channels |-> StreamOf(c)]
      /\ BuildTimePoints' = BuildTimePoints
      /\ (Len(BuildTimePoints) > MaxTimePoints)' = (Len(BuildTimePoints) > MaxTimePoints)
      /\ Written(streams, BuildTimePoints)' = Written(streams, BuildTimePoints)
  BY <1>1 DEF StreamOf, NumTracks, BuildTimePoints, AllTimes, Written, MaxTimePoints
<1>4. WrittenFrom'
  BY <1>1, <1>3 DEF Fitting, WrittenFrom
<1> QED BY <1>2, <1>4 DEF Fitting

\* Nothing has been looked at before and when the build begins.
LEMMA BeginsFit ==
  ASSUME IInv, GltfLoad \/ (\E period \in Periods : GltfImportAnimation(period)) \/ AnimationBuild
               \/ (pc = "author" /\ Author /\ UNCHANGED <<builderVars, importVars>>)
  PROVE  Fitting'
<1>1. /\ pc' \in {"load", "import", "refused", "author", "sort"} /\ channel' = channel /\ i' = i
      /\ channel = 1 /\ i = 0
  <2>1. pc \in Unsorted
    BY DEF GltfLoad, GltfImportAnimation, AnimationBuild, Unsorted
  <2>2. channel = 1 /\ i = 0
    BY <2>1 DEF IInv, Linking
  <2>3. CASE GltfLoad
    BY <2>2, <2>3 DEF GltfLoad
  <2>4. CASE \E period \in Periods : GltfImportAnimation(period)
    BY <2>2, <2>4 DEF GltfImportAnimation
  <2>5. CASE AnimationBuild
    BY <2>2, <2>5 DEF AnimationBuild
  <2>6. CASE pc = "author" /\ Author /\ UNCHANGED <<builderVars, importVars>>
    BY <2>2, <2>6 DEF builderVars
  <2> QED BY <2>3, <2>4, <2>5, <2>6
<1>2. \A keys : AreNear(keys, 0)
  BY DEF AreNear
<1>3. AreNear(sorted'[channel'], i') /\ 1 .. channel' - 1 = {}
  BY <1>1, <1>2
<1>4. Near'
  BY <1>1, <1>3 DEF Near, AreNear, LastAt
<1>5. WrittenFrom'
  BY <1>1 DEF WrittenFrom
<1> QED BY <1>4, <1>5 DEF Fitting

LEMMA FittingStays ==
  ASSUME IInv, Fitting, [Next]_vars
  PROVE  Fitting'
<1>1. CASE Scan
  BY <1>1, ScanFits
<1>2. CASE Inject \/ NextChannel
  BY <1>2, RestartFits
<1>3. CASE TakeTimePoints
  BY <1>3, TakenTimesFit
<1>4. CASE TakeIFrames \/ Write
  BY <1>4, AfterSortingFits
<1>5. CASE UNCHANGED vars
  BY <1>5, StutterFits
<1>6. CASE \/ GltfLoad \/ (\E period \in Periods : GltfImportAnimation(period)) \/ AnimationBuild
           \/ (pc = "author" /\ Author /\ UNCHANGED <<builderVars, importVars>>)
  BY <1>6, BeginsFit
<1> QED BY <1>1, <1>2, <1>3, <1>4, <1>5, <1>6 DEF Next, Sorting

-----------------------------------------------------------------------------
(* Iframes are of few enough keys.                                         *)

\* No track has two keys at one time: a channel has at most one key for every track
\* and time.
LEMMA KeysAreFew ==
  ASSUME NEW T \in Nat, NEW D \in Int, NEW tracks, NEW keys, Serves(keys, tracks, T, D),
         NEW S, IsFiniteSet(S), \A n \in DOMAIN keys : keys[n].time \in S
  PROVE  Len(keys) <= T * Cardinality(S)
<1> DEFINE K == ToSet(keys)
           L == Len(keys)
           A == 0 .. T - 1
           f == [n \in 1 .. L |-> <<keys[n].track, keys[n].time>>]
<1>1. /\ keys \in Seq(SomeKey) /\ FullyInOrder(keys) /\ K \subseteq ChannelKey(T, D) /\ Follow(K)
      /\ L \in Nat /\ DOMAIN keys = 1 .. L /\ \A n \in 1 .. L : keys[n] \in K
  BY DEF Serves, ToSet
<1>2. \A k \in K : k.track \in A /\ k.time >= 0 /\ k.prev >= -1
  BY <1>1 DEF ChannelKey
<1>3. Apart(K) /\ \A m, n \in 1 .. L : SamePlace(keys[m], keys[n]) => m = n
  BY <1>1, OrderedApart
<1> HIDE DEF L
<1>4. ASSUME NEW m \in 1 .. L, NEW n \in 1 .. L, f[m] = f[n] PROVE m = n
  <2>1. keys[m].track = keys[n].track /\ keys[m].time = keys[n].time
    BY <1>4
  <2>2. keys[m] \in K /\ keys[n] \in K
    BY <1>1
  <2> HIDE DEF K
  <2>3. keys[m] = keys[n]
    BY <1>1, <1>2, <1>3, <2>1, <2>2, OneKeyPerTime
  <2>4. SamePlace(keys[m], keys[n])
    BY <2>3 DEF SamePlace
  <2> QED BY <1>3, <2>4
<1>5. f \in [1 .. L -> A \X S]
  BY <1>1, <1>2
<1> HIDE DEF f
<1>6. f \in Injection(1 .. L, A \X S)
  BY <1>4, <1>5 DEF Injection, IsInjective
<1>7. IsFiniteSet(A) /\ Cardinality(A) = T
  BY FirstNumbers, FS_Interval
<1> HIDE DEF A
<1>8. IsFiniteSet(A \X S) /\ Cardinality(A \X S) = T * Cardinality(S)
  BY <1>7, FS_Product
<1>9. Cardinality(1 .. L) <= T * Cardinality(S)
  BY <1>6, <1>8, FS_Injection
<1>10. Cardinality(1 .. L) = L
  <2>1. 1 \in Int /\ L \in Int /\ (IF 1 > L THEN 0 ELSE (L - 1) + 1) = L
    BY <1>1
  <2> QED BY <2>1, FS_Interval
<1> QED BY <1>9, <1>10 DEF L

\* So many keys can be counted with four bytes.
LEMMA FewEnough ==
  ASSUME NEW T \in Nat, T <= ByteBase * ByteBase, NEW P \in Nat, P <= MaxTimePoints,
         NEW L \in Nat, L <= T * P
  PROVE  \A k \in Nat : k <= L => k \in UInt32
<1> DEFINE Q == ByteBase * ByteBase
<1>1. ByteBase \in Nat \ {0, 1} /\ Q \in Nat
  BY StorageAssumption
<1>2. P <= Q - 1 /\ T <= Q
  BY DEF MaxTimePoints
<1>3. Weight[4] * ByteBase = Q * Q /\ Q * Q \in Nat
  <2>1. Weight[4] = ByteBase * ByteBase * ByteBase
    BY DEF Weight
  <2>2. ByteBase * ByteBase * ByteBase * ByteBase = Q * Q
    BY <1>1
  <2> QED BY <1>1, <2>1, <2>2
<1> HIDE DEF Q
<1>4. T * P <= Q * P
  <2>1. PICK d \in Nat : Q = T + d
    BY <1>1, <1>2, Q - T \in Nat
  <2>2. Q * P = T * P + d * P /\ d * P \in Nat /\ T * P \in Nat
    BY <2>1
  <2> QED BY <2>2
<1>5. Q * P <= Q * Q - Q
  <2>1. PICK d \in Nat : Q = P + 1 + d
    BY <1>1, <1>2, Q - 1 - P \in Nat
  <2>2. Q * Q = Q * P + Q + Q * d /\ Q * d \in Nat /\ Q * P \in Nat
    BY <1>1, <2>1
  <2> QED BY <1>1, <2>2
<1>6. L <= Q * Q - Q /\ Q > 0
  <2>1. T * P \in Int /\ Q * P \in Int /\ Q * Q \in Int
    BY <1>1
  <2>2. Q # 0
    BY <1>1 DEF Q
  <2> QED BY <1>1, <1>4, <1>5, <2>1, <2>2
<1>7. ASSUME NEW k \in Nat, k <= L PROVE k \in UInt32
  <2>1. k <= Q * Q - 1
    BY <1>1, <1>3, <1>6, <1>7
  <2>2. k \in 0 .. Q * Q - 1
    BY <1>3, <2>1
  <2> QED BY <1>3, <2>2 DEF UInt32
<1> QED BY <1>7

\* Iframes of few enough keys can be stored.
LEMMA FramesAreStored ==
  ASSUME NEW T \in Nat, NEW keys, Len(keys) \in Nat, \A k \in Nat : k <= Len(keys) => k \in UInt32,
         NEW iframes \in Seq(Frames(keys, T))
  PROVE  iframes \in Seq(StoredFrame(T))
<1> DEFINE F == Frames(keys, T)
           X == StoredFrame(T)
           L == Len(iframes)
<1>1. ASSUME NEW frame \in F PROVE frame \in X
  <2>1. frame \in [entries : [0 .. T - 1 -> 0 .. Len(keys) - 1], last : 0 .. Len(keys) - 1]
    BY DEF Frames
  <2>2. \A k \in 0 .. Len(keys) - 1 : k \in UInt32 /\ k \in Nat
    OBVIOUS
  <2>3. frame.entries \in [0 .. T - 1 -> UInt32] /\ frame.last \in Nat
    BY <2>1, <2>2
  <2> QED BY <2>1, <2>3 DEF StoredFrame
<1>2. iframes \in Seq(F)
  OBVIOUS
<1> HIDE DEF F, X
<1>3. L \in Nat /\ iframes = [n \in 1 .. L |-> iframes[n]] /\ \A n \in 1 .. L : iframes[n] \in F
  BY <1>2
<1>4. iframes \in [1 .. L -> X]
  BY <1>1, <1>3
<1> QED BY <1>3, <1>4, IsSequence DEF X

-----------------------------------------------------------------------------
(* What the streams are stored as.                                         *)

\* The ratios of listed times.
PointsOf(S, D) == [n \in DOMAIN Listing(S) |-> RatioOf(Listing(S)[n], D)]

LEMMA CompressedIsStorable ==
  ASSUME NEW T, WholeBlocks(T), T <= ByteBase * ByteBase, NEW D \in Int, D > 0,
         NEW tracks, NEW keys, Serves(keys, tracks, T, D), AreNear(keys, Len(keys)),
         NEW S, S \subseteq Nat, IsFiniteSet(S), Cardinality(S) <= MaxTimePoints,
         \A n \in DOMAIN keys : keys[n].time \in S,
         NEW iframes \in Seq(Frames(keys, T))
  PROVE  Storable(Compress(keys, T, D, iframes), [n \in DOMAIN keys |-> keys[n].time],
                  Listing(S), PointsOf(S, D), MaxPreviousOffset)
<1> DEFINE s == Compress(keys, T, D, iframes)
           N == Len(keys)
           P == Cardinality(S)
           at == [n \in DOMAIN keys |-> keys[n].time]
           times == Listing(S)
           points == PointsOf(S, D)
           PreviousOf(k) == LET before == LastOf(keys, keys[k + 1].track, k)
                            IN  IF before = -1 THEN 0 ELSE k - before
<1>0. T \in Nat \ {0} /\ N \in Nat /\ DOMAIN keys = 1 .. N /\ P \in Nat
      /\ ToSet(keys) \subseteq ChannelKey(T, D)
  BY FS_CardinalityType DEF WholeBlocks, Serves
<1>1. /\ s = [tracks |-> s.tracks, keys |-> s.keys, ratio |-> s.ratio, track |-> s.track,
              previous |-> s.previous, iframes |-> s.iframes]
      /\ s.tracks = T /\ s.keys = N /\ s.iframes = iframes
      /\ s.ratio = [k \in 0 .. N - 1 |-> RatioOf(keys[k + 1].time, D)]
      /\ s.track = [k \in 0 .. N - 1 |-> keys[k + 1].track]
      /\ s.previous = [k \in 0 .. N - 1 |-> PreviousOf(k)]
  BY DEF Compress
<1> HIDE DEF s, PreviousOf
<1>2. MaxPreviousOffset \in Nat
  BY BuilderAssumption
<1>3. s.track \in [0 .. N - 1 -> Nat]
  <2>1. ASSUME NEW k \in 0 .. N - 1 PROVE keys[k + 1].track \in Nat
    <3>1. k + 1 \in DOMAIN keys
      BY <1>0
    <3>2. keys[k + 1] \in ChannelKey(T, D)
      BY <1>0, <3>1 DEF ToSet
    <3> QED BY <3>2 DEF ChannelKey
  <2> QED BY <1>1, <2>1
<1>4. s.previous \in [0 .. N - 1 -> 0 .. MaxPreviousOffset]
  <2>1. ASSUME NEW k \in 0 .. N - 1 PROVE PreviousOf(k) \in 0 .. MaxPreviousOffset
    <3>1. k \in Nat
      BY <1>0
    <3>2. PICK p \in -1 .. k - 1 : LastAt(keys, keys[k + 1].track, k, p)
      BY <3>1, LastExists
    <3>3. PreviousOf(k) = IF p = -1 THEN 0 ELSE k - p
      BY <3>1, <3>2, LastOfIs DEF PreviousOf
    <3>4. p # -1 => p \in 0 .. k - 1 /\ k - p <= MaxPreviousOffset
      <4>1. p # -1 => p \in 0 .. k - 1
        BY <3>1
      <4> QED BY <3>2, <4>1 DEF AreNear
    <3> QED BY <1>2, <3>1, <3>3, <3>4
  <2> QED BY <1>1, <2>1
<1>5. s.iframes \in Seq(StoredFrame(T))
  <2>1. N <= T * P
    BY <1>0, KeysAreFew
  <2>2. T \in Nat /\ P <= MaxTimePoints
    BY <1>0
  <2> DEFINE L == N
  <2>3. L \in Nat /\ L <= T * P
    BY <1>0, <2>1
  <2> HIDE DEF L, P
  <2>4. \A k \in Nat : k <= L => k \in UInt32
    BY <1>0, <2>2, <2>3, FewEnough
  <2> QED BY <1>0, <1>1, <2>2, <2>4, FramesAreStored DEF L
<1>6. /\ Len(times) = P
      /\ \A t \in S : /\ TimePointToIndex(times, t) \in 0 .. P - 1
                      /\ times[TimePointToIndex(times, t) + 1] = t
  BY TimesAreFound
<1>7. times = [n \in 1 .. P |-> times[n]]
  BY DEF Listing
<1> HIDE DEF times
<1>8. points = [n \in 1 .. P |-> RatioOf(times[n], D)]
  BY <1>7 DEF PointsOf, times
<1>9. Len(points) = P
  BY <1>0, <1>8
<1>10. ASSUME NEW n \in 1 .. N
       PROVE  /\ TimePointToIndex(times, at[n]) \in 0 .. P - 1
              /\ points[TimePointToIndex(times, at[n]) + 1] = s.ratio[n - 1]
  <2>1. at[n] = keys[n].time /\ at[n] \in S
    BY <1>0
  <2> DEFINE j == TimePointToIndex(times, at[n])
  <2>2. j \in 0 .. P - 1 /\ times[j + 1] = at[n]
    BY <1>6, <2>1
  <2> HIDE DEF j, at
  <2>3. j + 1 \in 1 .. P
    BY <1>0, <2>2
  <2>4. points[j + 1] = RatioOf(at[n], D)
    BY <1>8, <2>2, <2>3
  <2>5. s.ratio[n - 1] = RatioOf(keys[n].time, D)
    <3>1. n - 1 \in 0 .. N - 1 /\ (n - 1) + 1 = n
      BY <1>0
    <3> QED BY <1>1, <3>1
  <2> QED BY <2>1, <2>2, <2>4, <2>5 DEF j
<1>11. s.ratio = [k \in 0 .. N - 1 |-> s.ratio[k]]
  BY <1>1
<1> HIDE DEF points, at, N, P
<1>12. Storable(s, at, times, points, MaxPreviousOffset)
  <2>1. P <= MaxTimePoints /\ Len(times) \in Nat /\ Len(times) <= MaxTimePoints /\ Len(points) = Len(times)
    BY <1>0, <1>6, <1>9 DEF P
  <2> QED BY <1>0, <1>1, <1>2, <1>3, <1>4, <1>5, <1>6, <1>10, <1>11, <2>1 DEF Storable
<1> QED BY <1>12 DEF s, at, times, points

LEMMA AlignedWhole ==
  ASSUME NEW n \in Nat \ {0}
  PROVE  WholeBlocks(AlignedTracks(n))
<1> DEFINE W == SoaWidth
           m == (n + W - 1) \div W
<1>1. AlignedTracks(n) \in Nat /\ n <= AlignedTracks(n)
  BY AlignedIs
<1>2. W \in Nat \ {0} /\ W % 4 = 0 /\ (n + W - 1) \in Nat
  BY KeyStreamAssumption, StorageAssumption
<1>3. m \in Nat
  BY <1>2, Divided
<1>4. AlignedTracks(n) = W * m
  BY DEF AlignedTracks
<1> HIDE DEF W, m
<1>5. PICK q \in Nat : W = 4 * q
  <2>1. W \div 4 \in Nat /\ W = 4 * (W \div 4)
    BY <1>2
  <2> QED BY <2>1
<1>6. W * m = 4 * (q * m) /\ q * m \in Nat
  BY <1>3, <1>5
<1>7. MultipleOf(AlignedTracks(n), 4)
  BY <1>4, <1>6 DEF MultipleOf
<1>8. 4 \in Nat \ {0}
  OBVIOUS
<1>9. AlignedTracks(n) % 4 = 0
  BY <1>7, <1>8, MultiplesAre
<1> QED BY <1>1, <1>9 DEF WholeBlocks

\* What a channel's stream is stored as.
ChannelStored(ctrl, values, points) ==
    /\ ctrl = [ratios |-> ctrl.ratios, previouses |-> ctrl.previouses,
               iframe_entries |-> ctrl.iframe_entries, iframe_desc |-> ctrl.iframe_desc,
               iframe_interval |-> ctrl.iframe_interval]
    /\ ctrl.ratios \in Seq(Nat) /\ ctrl.previouses \in Seq(Nat)
    /\ ctrl.iframe_entries \in Seq(Nat) /\ ctrl.iframe_desc \in Seq(Nat)
    /\ ctrl.iframe_interval \in Nat /\ values \in Seq(Nat)
    /\ Len(ctrl.previouses) = Len(values)
    /\ Len(ctrl.ratios) = SizeofRatio(points) * Len(values)

LEMMA ChannelIsStored ==
  ASSUME NEW s, NEW at, NEW times, NEW points, NEW most, Storable(s, at, times, points, most)
  PROVE  ChannelStored(StoredCtrl(s, at, times, most), StoredValues(s), points)
<1> DEFINE ctrl == StoredCtrl(s, at, times, most)
           values1 == StoredValues(s)
           K == s.keys
           N == Nat
<1>1. ctrl = [ratios |-> ctrl.ratios, previouses |-> ctrl.previouses,
              iframe_entries |-> ctrl.iframe_entries, iframe_desc |-> ctrl.iframe_desc,
              iframe_interval |-> ctrl.iframe_interval]
  BY DEF StoredCtrl
<1>2. StoredParts(ctrl, s, points)
  BY StoredPartsAre
<1> HIDE DEF ctrl
<1>3. /\ WholeBlocks(s.tracks) /\ s.iframes \in Seq(StoredFrame(s.tracks)) /\ K \in Nat
      /\ s.track \in [0 .. K - 1 -> Nat]
  BY DEF Storable
<1>4. ctrl.iframe_entries \in Seq(N)
  <2> DEFINE subs == Encoded(s.iframes)
  <2>1. subs \in Seq(Seq(N))
    BY <1>3, EncodedFrames
  <2> HIDE DEF subs, N
  <2>2. FlattenSeq(subs) \in Seq(N)
    BY <2>1, FlattenSlices DEF Sliced
  <2>3. ctrl.iframe_entries = FlattenSeq(subs)
    BY <1>2 DEF StoredParts, subs
  <2> QED BY <2>2, <2>3
<1>5. ctrl.iframe_desc \in Seq(N)
  BY <1>2, <1>3, DescIs DEF StoredParts
<1>6. values1 \in Seq(N) /\ Len(values1) = K
  <2>1. \A n \in 1 .. K : n - 1 \in 0 .. K - 1
    BY <1>3
  <2>2. values1 = [n \in 1 .. K |-> s.track[n - 1]]
    BY DEF StoredValues
  <2> HIDE DEF values1, K
  <2>3. values1 \in [1 .. K -> N]
    BY <1>3, <2>1, <2>2
  <2> HIDE DEF N
  <2> QED BY <1>3, <2>3, IsSequence
<1> HIDE DEF values1
<1>7. /\ ctrl.ratios \in Seq(N) /\ ctrl.previouses \in Seq(N) /\ ctrl.iframe_interval \in Nat
      /\ Len(ctrl.previouses) = Len(values1) /\ Len(ctrl.ratios) = SizeofRatio(points) * Len(values1)
  BY <1>2, <1>6 DEF StoredParts
<1> HIDE DEF N
<1>8. ChannelStored(ctrl, values1, points)
  BY <1>1, <1>4, <1>5, <1>6, <1>7 DEF ChannelStored, N
<1> QED BY <1>8 DEF ctrl, values1

\* The encoder keeps to its buffer.
LEMMA StorableEncodes ==
  ASSUME NEW s, NEW at, NEW times, NEW points, NEW most, Storable(s, at, times, points, most),
         NEW n \in DOMAIN s.iframes
  PROVE  EncodedInside(Row(s.iframes[n].entries))
<1> DEFINE X == StoredFrame(s.tracks)
<1>1. WholeBlocks(s.tracks) /\ s.iframes \in Seq(X)
  BY DEF Storable
<1> HIDE DEF X
<1>2. s.iframes[n] \in X
  BY <1>1
<1>3. s.iframes[n].entries \in [0 .. s.tracks - 1 -> UInt32]
  BY <1>2 DEF X, StoredFrame
<1>4. IsCoded(Row(s.iframes[n].entries)) /\ Row(s.iframes[n].entries) # <<>>
  BY <1>1, <1>3, RowIs
<1> QED BY <1>4, EncodedFits

\* The animation that is written, if each of its streams fits.
LEMMA WrittenIsStored ==
  ASSUME NEW stored, NEW ss, NEW at, NEW times, NEW most,
         stored = [duration |-> stored.duration, num_tracks |-> stored.num_tracks, name |-> stored.name,
                   timepoints |-> stored.timepoints, ctrl |-> stored.ctrl, values |-> stored.values],
         stored.duration \in Nat, stored.num_tracks \in Nat, stored.name \in Seq(ToSet(stored.name)),
         stored.timepoints \in Seq(Nat),
         stored.ctrl = [c \in 1 .. Channels |-> StoredCtrl(ss[c], at[c], times, most)],
         stored.values = [c \in 1 .. Channels |-> StoredValues(ss[c])],
         \A c \in 1 .. Channels : Storable(ss[c], at[c], times, stored.timepoints, most)
  PROVE  IsStored(stored)
<1>1. ASSUME NEW c \in 1 .. Channels
      PROVE  ChannelStored(stored.ctrl[c], stored.values[c], stored.timepoints)
  <2>1. stored.ctrl[c] = StoredCtrl(ss[c], at[c], times, most) /\ stored.values[c] = StoredValues(ss[c])
    OBVIOUS
  <2>2. Storable(ss[c], at[c], times, stored.timepoints, most)
    OBVIOUS
  <2> QED BY <2>1, <2>2, ChannelIsStored
<1>2. stored.ctrl = [c \in 1 .. Channels |-> stored.ctrl[c]]
      /\ stored.values = [c \in 1 .. Channels |-> stored.values[c]]
  OBVIOUS
<1>3. stored = [duration |-> stored.duration, num_tracks |-> stored.num_tracks, name |-> stored.name,
                timepoints |-> stored.timepoints,
                ctrl |-> [c \in 1 .. Channels |-> stored.ctrl[c]],
                values |-> [c \in 1 .. Channels |-> stored.values[c]]]
  BY <1>2
<1> QED BY <1>1, <1>3 DEF IsStored, ChannelStored

-----------------------------------------------------------------------------
(* What is written is read back.                                           *)

\* The keys of a channel once they are sorted.
KeysFit(c) ==
    /\ WholeBlocks(NumTracks) /\ NumTracks <= ByteBase * ByteBase
    /\ raw.duration \in Int /\ raw.duration > 0
    /\ Serves(sorted[c], ChannelOf(c), NumTracks, raw.duration)
    /\ BuildIFrames(sorted[c], NumTracks, raw.duration, divs)
          \in Seq(Frames(sorted[c], NumTracks))

LEMMA SortedKeysFit ==
  ASSUME IInv, pc \notin Unsorted
  PROVE  /\ IsRaw(raw)
         /\ \A c \in 1 .. Channels : KeysFit(c)
         /\ AllTimes \subseteq 0 .. raw.duration
<1>1. Linking /\ IsRaw(raw) /\ Validate(raw) /\ divs \in Nat
  BY BuilderAssumption DEF IInv, Kept, Linking
<1>2. /\ raw.duration \in Int /\ raw.duration > 0 /\ NumTracks \in Nat
      /\ IsFiniteSet(DOMAIN raw.tracks)
  BY <1>1, RawIs
<1>3. Cardinality(DOMAIN raw.tracks) \in Nat \ {0} /\ Cardinality(DOMAIN raw.tracks) <= MaxJoints
  <2>1. DOMAIN raw.tracks # {}
    BY DEF IInv, Kept, Unsorted
  <2>2. Cardinality(DOMAIN raw.tracks) \in Nat /\ Cardinality(DOMAIN raw.tracks) # 0
    BY <1>2, <2>1, FS_CardinalityType, FS_EmptySet
  <2>3. Cardinality(DOMAIN raw.tracks) <= MaxJoints
    BY <1>1 DEF Validate
  <2> QED BY <2>2, <2>3
<1>4. WholeBlocks(NumTracks)
  BY <1>3, AlignedWhole DEF NumTracks
<1>5. NumTracks <= ByteBase * ByteBase
  <2>1. MaxJoints \in Nat
    BY AuthoringAssumption
  <2>2. NumTracks <= AlignedTracks(MaxJoints) /\ AlignedTracks(MaxJoints) \in Nat
    BY <1>3, <2>1, AlignedIs, AlignedGrows DEF NumTracks
  <2>3. AlignedTracks(MaxJoints) <= ByteBase * ByteBase
    BY BuilderAssumption
  <2>4. ByteBase * ByteBase \in Nat
    BY StorageAssumption
  <2> QED BY <1>2, <2>2, <2>3, <2>4
<1>6. ASSUME NEW c \in 1 .. Channels PROVE KeysFit(c)
  <2>1. Serves(sorted[c], ChannelOf(c), NumTracks, raw.duration)
    BY <1>1 DEF Linking
  <2>2. NumTracks \in Nat \ {0}
    BY <1>4 DEF WholeBlocks
  <2> DEFINE T == NumTracks
             D == raw.duration
             keys == sorted[c]
             tracks == ChannelOf(c)
  <2>3. T \in Nat \ {0} /\ D \in Int /\ D > 0 /\ Serves(keys, tracks, T, D)
    BY <1>2, <2>1, <2>2
  <2> HIDE DEF T, D, keys, tracks
  <2>4. BuildIFrames(keys, T, D, divs) \in Seq(Frames(keys, T))
    BY <1>1, <2>3, FramesAre
  <2> QED BY <1>2, <1>4, <1>5, <2>1, <2>4 DEF KeysFit, T, D, keys
<1>7. ASSUME NEW c \in 1 .. Channels, NEW n \in DOMAIN sorted[c]
      PROVE  sorted[c][n].time \in 0 .. raw.duration
  <2>1. Serves(sorted[c], ChannelOf(c), NumTracks, raw.duration)
    BY <1>1 DEF Linking
  <2>2. sorted[c][n] \in ChannelKey(NumTracks, raw.duration)
    BY <2>1 DEF Serves, ToSet
  <2> QED BY <2>2 DEF ChannelKey
<1> QED BY <1>1, <1>6, <1>7 DEF AllTimes

LEMMA BoundedIsFinite ==
  ASSUME NEW D \in Int, NEW S, S \subseteq 0 .. D
  PROVE  S \subseteq Nat /\ IsFiniteSet(S)
<1>1. S \in SUBSET (0 .. D) /\ 0 \in Int
  OBVIOUS
<1>2. IsFiniteSet(0 .. D)
  BY <1>1, FS_Interval
<1>3. IsFiniteSet(S)
  BY <1>1, <1>2, FS_Subset
<1>4. \A u \in 0 .. D : u \in Nat
  OBVIOUS
<1> QED BY <1>3, <1>4

\* Where streams are written, they fit the format.
LEMMA StreamsAreStorable ==
  ASSUME IInv, Fitting, pc \in {"write", "built"}, NEW c \in 1 .. Channels
  PROVE  Storable(StreamOf(c), [n \in DOMAIN sorted[c] |-> sorted[c][n].time], BuildTimePoints,
                  PointsOf(AllTimes, raw.duration), MaxPreviousOffset)
<1> DEFINE T == NumTracks
           D == raw.duration
           keys == sorted[c]
           tracks == ChannelOf(c)
           S == AllTimes
           iframes == BuildIFrames(keys, T, D, divs)
<1>1. pc \notin Unsorted
  BY DEF Unsorted
<1>2. KeysFit(c) /\ S \subseteq 0 .. D
  BY <1>1, SortedKeysFit
<1>3. /\ WholeBlocks(T) /\ T <= ByteBase * ByteBase /\ D \in Int /\ D > 0
      /\ Serves(keys, tracks, T, D) /\ iframes \in Seq(Frames(keys, T))
  BY <1>2 DEF KeysFit
<1>4. AreNear(keys, Len(keys)) /\ ~(Len(BuildTimePoints) > MaxTimePoints)
  BY DEF Fitting, Near, WrittenFrom
<1>5. \A n \in DOMAIN keys : keys[n].time \in S
  BY DEF AllTimes
<1>6. BuildTimePoints = Listing(S)
  BY DEF BuildTimePoints, Listing, Earlier
<1>7. StreamOf(c) = Compress(keys, T, D, iframes)
  BY DEF StreamOf
<1> DEFINE at == [n \in DOMAIN keys |-> keys[n].time]
<1> HIDE DEF T, D, keys, tracks, S, iframes
<1>8. S \subseteq Nat /\ IsFiniteSet(S)
  BY <1>2, <1>3, BoundedIsFinite
<1>9. Cardinality(S) <= MaxTimePoints
  <2>1. Len(Listing(S)) = Cardinality(S) /\ Cardinality(S) \in Nat
    BY <1>8, TimesAreFound
  <2>2. MaxTimePoints \in Int
    BY StorageAssumption DEF MaxTimePoints
  <2> QED BY <1>4, <1>6, <2>1, <2>2
<1>10. Storable(Compress(keys, T, D, iframes), at, Listing(S), PointsOf(S, D), MaxPreviousOffset)
  BY <1>3, <1>4, <1>5, <1>8, <1>9, CompressedIsStorable
<1> QED BY <1>6, <1>7, <1>10 DEF S, D, keys

LEMMA FittingReadsBack ==
  ASSUME IInv, Fitting
  PROVE  RuntimeReadsBack
<1> SUFFICES ASSUME pc = "built"
             PROVE  /\ \A c \in 1 .. Channels, after \in Followers :
                          ReadBack(animation, c, after) = streams[c]
                    /\ Load(Save(animation)) = animation
                    /\ Allocated(animation)
                    /\ \A c \in 1 .. Channels : \A n \in DOMAIN streams[c].iframes :
                          EncodedInside(Row(streams[c].iframes[n].entries))
  BY DEF RuntimeReadsBack
<1> DEFINE at == [c \in 1 .. Channels |-> [n \in DOMAIN sorted[c] |-> sorted[c][n].time]]
           times == BuildTimePoints
           points == PointsOf(AllTimes, raw.duration)
           most == MaxPreviousOffset
<1>0. pc \notin Unsorted /\ 1 \in 1 .. Channels
  BY KeyStreamAssumption DEF Unsorted
<1>1. streams = [c \in 1 .. Channels |-> StreamOf(c)] /\ animation = Written(streams, times)
  BY DEF Fitting, WrittenFrom
<1>2. IsRaw(raw) /\ KeysFit(1) /\ AllTimes \subseteq 0 .. raw.duration
  BY <1>0, SortedKeysFit
<1>3. times = Listing(AllTimes)
  BY DEF BuildTimePoints, Listing, Earlier
<1>4. /\ animation.duration = raw.duration
      /\ animation.num_tracks = Cardinality(DOMAIN raw.tracks)
      /\ animation.name = raw.name
      /\ animation.timepoints = [n \in DOMAIN times |-> RatioOf(times[n], raw.duration)]
      /\ animation.ctrl = [c \in 1 .. Channels |->
                             StoredCtrl(streams[c], [n \in DOMAIN sorted[c] |-> sorted[c][n].time], times, most)]
      /\ animation.values = [c \in 1 .. Channels |-> StoredValues(streams[c])]
      /\ animation = [duration |-> animation.duration, num_tracks |-> animation.num_tracks,
                      name |-> animation.name, timepoints |-> animation.timepoints,
                      ctrl |-> animation.ctrl, values |-> animation.values]
  BY <1>1 DEF Written
<1>5. animation.timepoints = points
  BY <1>3, <1>4 DEF PointsOf
<1>6. animation.ctrl = [c \in 1 .. Channels |-> StoredCtrl(streams[c], at[c], times, most)]
  BY <1>4
<1>7. \A c \in 1 .. Channels : Storable(streams[c], at[c], times, points, most)
  BY <1>1, StreamsAreStorable
<1>8. animation.duration \in Nat /\ animation.num_tracks \in Nat /\ animation.name \in Seq(ToSet(animation.name))
  <2>1. raw.duration \in Int /\ raw.duration > 0
    BY <1>2 DEF KeysFit
  <2>2. Cardinality(DOMAIN raw.tracks) \in Nat /\ raw.name \in Seq(ToSet(raw.name))
    BY <1>2, FS_CardinalityType DEF IsRaw
  <2> QED BY <1>4, <2>1, <2>2
<1>9. points \in Seq(Nat)
  <2> DEFINE D == raw.duration
             S == AllTimes
             P == Cardinality(S)
  <2>1. D \in Nat \ {0} /\ S \subseteq 0 .. D
    BY <1>2 DEF KeysFit
  <2> HIDE DEF D, S
  <2>2. S \subseteq Nat /\ IsFiniteSet(S)
    BY <2>1, D \in Int, BoundedIsFinite
  <2>3. P \in Nat /\ \A n \in 1 .. P : Listing(S)[n] \in S
    BY <2>2, TimesAreFound
  <2>4. \A n \in 1 .. P : RatioOf(Listing(S)[n], D) \in Nat
    <3>1. \A time \in 0 .. D : RatioOf(time, D) \in 0 .. Full
      BY <2>1, RatioIs
    <3>2. ASSUME NEW n \in 1 .. P PROVE RatioOf(Listing(S)[n], D) \in Nat
      <4> DEFINE time == Listing(S)[n]
      <4>1. time \in 0 .. D
        BY <2>1, <2>3
      <4> HIDE DEF time
      <4>2. RatioOf(time, D) \in 0 .. Full
        BY <3>1, <4>1
      <4> QED BY <4>2 DEF time
    <3> QED BY <3>2
  <2>5. DOMAIN Listing(S) = 1 .. P
    BY DEF Listing
  <2> DEFINE N == Nat
             list == PointsOf(S, D)
  <2>6. list = [n \in 1 .. P |-> RatioOf(Listing(S)[n], D)]
    BY <2>5 DEF PointsOf
  <2> HIDE DEF list, P
  <2>7. list \in [1 .. P -> N]
    BY <2>4, <2>6
  <2> HIDE DEF N
  <2>8. list \in Seq(N)
    BY <2>3, <2>7, IsSequence
  <2> QED BY <2>8 DEF N, list, S, D
<1> HIDE DEF at, times, points
<1>10. IsStored(animation)
  BY <1>4, <1>5, <1>6, <1>7, <1>8, <1>9, WrittenIsStored
<1>11. Load(Save(animation)) = animation /\ Allocated(animation)
  BY <1>10, LoadsAsSaved, StoredIsAllocated
<1>12. ASSUME NEW c \in 1 .. Channels, NEW n \in DOMAIN streams[c].iframes
       PROVE  EncodedInside(Row(streams[c].iframes[n].entries))
  <2> DEFINE s == streams[c]
  <2>1. Storable(s, at[c], times, points, most) /\ n \in DOMAIN s.iframes
    BY <1>7
  <2> HIDE DEF s
  <2>2. EncodedInside(Row(s.iframes[n].entries))
    BY <2>1, StorableEncodes
  <2> QED BY <2>2 DEF s
<1>13. ASSUME NEW c \in 1 .. Channels, NEW after \in Followers
       PROVE  ReadBack(animation, c, after) = streams[c]
  <2>1. after \in [1 .. 3 -> Nat]
    <3>1. 0 \in Nat /\ ByteBase - 1 \in Nat
      BY StorageAssumption
    <3> QED BY <3>1 DEF Followers
  <2>2. /\ animation.ctrl[c] = StoredCtrl(streams[c], at[c], times, most)
        /\ animation.values[c] = StoredValues(streams[c])
        /\ Storable(streams[c], at[c], times, points, most)
    BY <1>4, <1>6, <1>7
  <2>3. SoaWidth * ((animation.num_tracks + SoaWidth - 1) \div SoaWidth) = streams[c].tracks
    BY <1>1, <1>4 DEF StreamOf, Compress, NumTracks, AlignedTracks
  <2> DEFINE s == streams[c]
             stored == animation
  <2>4. /\ Storable(s, at[c], times, points, most)
        /\ stored.ctrl[c] = StoredCtrl(s, at[c], times, most) /\ stored.values[c] = StoredValues(s)
        /\ stored.timepoints = points
        /\ SoaWidth * ((stored.num_tracks + SoaWidth - 1) \div SoaWidth) = s.tracks
    BY <1>5, <2>2, <2>3
  <2> HIDE DEF s, stored
  <2>5. ReadBack(stored, c, after) = s
    BY <2>1, <2>4, StoredReadsBack
  <2> QED BY <2>5 DEF s, stored
<1> QED BY <1>11, <1>12, <1>13

\* What is built is read back as it was compressed, from memory and from an archive,
\* whatever was authored or imported: offsets, indices and iframes fit what they are
\* stored in (animation_builder.cc, animation.cc, group_varint.cc).
THEOREM RuntimesReadBack == Spec /\ []CutsAreWide => []RuntimeReadsBack
<1>1. IInv /\ CutsAreWide /\ [Next]_vars => IInv'
  BY StepKeeps
<1>2. IInv /\ Fitting /\ [Next]_vars => Fitting'
  BY FittingStays
<1>3. Init => Fitting
  <2>1. ASSUME Init PROVE pc \in {"load", "author"}
    BY <2>1 DEF Init
  <2> QED BY <2>1 DEF Fitting, Near, WrittenFrom
<1>4. IInv /\ Fitting => RuntimeReadsBack
  BY FittingReadsBack
<1> QED BY InitHolds, <1>1, <1>2, <1>3, <1>4, PTL DEF Spec
=============================================================================
