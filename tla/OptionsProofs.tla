--------------------------- MODULE OptionsProofs ---------------------------
(***************************************************************************)
(* Proofs about Options, for any options, parsers, names and arguments:    *)
(* the reference count of an option is the number of references to it, the *)
(* table of a parser is in order and names no two options alike, and what  *)
(* a parse answers and leaves in the options follows from its arguments    *)
(* and its table alone.                                                    *)
(***************************************************************************)
EXTENDS Options, FiniteSetTheorems, SequenceTheorems, WellFoundedInduction, TLAPS

-----------------------------------------------------------------------------
(* The order of options.                                                   *)

LEMMA LeastNatural ==
  ASSUME NEW T, T \subseteq Nat, T # {}
  PROVE  Min(T) \in T /\ \A k \in T : Min(T) <= k
<1> DEFINE R == OpToRel(<, Nat)
<1>1. IsWellFoundedOn(R, Nat)
  BY NatLessThanWellFounded
<1>2. PICK m \in T : \A k \in T : <<k, m>> \notin R
  <2> HIDE DEF R
  <2> QED BY <1>1, WFMin
<1>3. \A k \in T : ~(k < m)
  BY <1>2 DEF OpToRel
<1>4. \A k \in T : m <= k
  BY <1>3
<1> QED BY <1>4 DEF Min

\* Options of different names are ordered one way or the other.
LEMMA BeforeTotal ==
  ASSUME NEW o \in Objects, NEW q \in Objects, AttrOf[o].name # AttrOf[q].name, ~Before(o, q)
  PROVE  Before(q, o)
  BY NamesAssumption DEF Before

LEMMA BeforeTransitive ==
  ASSUME NEW o \in Objects, NEW q \in Objects, NEW r \in Objects, Before(o, q), Before(q, r)
  PROVE  Before(o, r)
  BY NamesAssumption DEF Before

-----------------------------------------------------------------------------
(* Tables.                                                                 *)

\* Merging inserts the option before the first one it comes before.
LEMMA MergedIs ==
  ASSUME NEW s \in Seq(Objects), NEW o \in Objects
  PROVE  \E k \in 1 .. Len(s) + 1 :
            /\ Merged(s, o) = [i \in 1 .. Len(s) + 1 |->
                                 IF i < k THEN s[i] ELSE IF i = k THEN o ELSE s[i - 1]]
            /\ \A i \in 1 .. k - 1 : ~Before(o, s[i])
            /\ k <= Len(s) => Before(o, s[k])
<1> DEFINE after == {i \in DOMAIN s : Before(o, s[i])}
           k == IF after = {} THEN Len(s) + 1 ELSE Min(after)
<1>1. Len(s) \in Nat /\ DOMAIN s = 1 .. Len(s)
  OBVIOUS
<1>2. k \in 1 .. Len(s) + 1 /\ (k <= Len(s) => Before(o, s[k]))
      /\ \A i \in 1 .. k - 1 : ~Before(o, s[i])
  <2>1. CASE after = {}
    BY <2>1, <1>1
  <2>2. CASE after # {}
    <3>1. after \subseteq Nat /\ k = Min(after)
      BY <2>2, <1>1
    <3>2. k \in after /\ \A i \in after : k <= i
      <4> HIDE DEF after, k
      <4> QED BY <2>2, <3>1, LeastNatural
    <3> HIDE DEF k
    <3> QED BY <3>2, <1>1
  <2> QED BY <2>1, <2>2
<1>3. Merged(s, o) = SubSeq(s, 1, k - 1) \o <<o>> \o SubSeq(s, k, Len(s))
  BY DEF Merged
<1> HIDE DEF k
<1> DEFINE L == SubSeq(s, 1, k - 1)
           R == SubSeq(s, k, Len(s))
<1>4. L \in Seq(Objects) /\ Len(L) = k - 1 /\ \A i \in 1 .. k - 1 : L[i] = s[i]
  BY <1>1, <1>2, SubSeqProperties
<1>5. R \in Seq(Objects) /\ Len(R) = Len(s) + 1 - k
      /\ \A i \in 1 .. Len(s) + 1 - k : R[i] = s[k + i - 1]
  BY <1>1, <1>2, SubSeqProperties
<1>6. L \o <<o>> \in Seq(Objects) /\ Len(L \o <<o>>) = k
      /\ \A i \in 1 .. k : (L \o <<o>>)[i] = IF i < k THEN s[i] ELSE o
  BY <1>2, <1>4
<1> DEFINE M == L \o <<o>>
           target == [i \in 1 .. Len(s) + 1 |->
                        IF i < k THEN s[i] ELSE IF i = k THEN o ELSE s[i - 1]]
<1>7. M \o R = target
  <2> HIDE DEF M, R
  <2>1. M \o R \in Seq(Objects) /\ Len(M \o R) = Len(s) + 1
        /\ \A i \in 1 .. Len(s) + 1 : (M \o R)[i] = IF i <= k THEN M[i] ELSE R[i - k]
    BY <1>1, <1>2, <1>5, <1>6, ConcatProperties DEF M
  <2>2. ASSUME NEW i \in 1 .. Len(s) + 1 PROVE (M \o R)[i] = target[i]
    BY <1>1, <1>2, <1>5, <1>6, <2>1 DEF M
  <2>3. \A i \in 1 .. Len(s) + 1 : target[i] \in Objects
    <3>1. \A i \in 1 .. Len(s) : s[i] \in Objects
      OBVIOUS
    <3> QED BY <3>1, <1>1, <1>2
  <2>4. target \in Seq(Objects) /\ Len(target) = Len(s) + 1
    BY <1>1, <2>3, IsASeq
  <2> QED BY <2>1, <2>2, <2>4, SeqEqual
<1> QED BY <1>2, <1>3, <1>7

LEMMA MergedType ==
  ASSUME NEW s \in Seq(Objects), NEW o \in Objects
  PROVE  /\ Merged(s, o) \in Seq(Objects)
         /\ Len(Merged(s, o)) = Len(s) + 1
         /\ Listed(Merged(s, o)) = Listed(s) \cup {o}
<1>1. PICK k \in 1 .. Len(s) + 1 :
         Merged(s, o) = [i \in 1 .. Len(s) + 1 |->
                           IF i < k THEN s[i] ELSE IF i = k THEN o ELSE s[i - 1]]
  BY MergedIs
<1> DEFINE m == Merged(s, o)
<1>2. Len(s) \in Nat /\ DOMAIN s = 1 .. Len(s) /\ \A i \in 1 .. Len(s) : s[i] \in Objects
  OBVIOUS
<1>3. \A i \in 1 .. Len(s) + 1 : m[i] \in Objects
  BY <1>1, <1>2
<1>4. m \in Seq(Objects) /\ Len(m) = Len(s) + 1 /\ DOMAIN m = 1 .. Len(s) + 1
  BY <1>1, <1>2, <1>3, IsASeq
<1>5. ASSUME NEW x \in Listed(m) PROVE x \in Listed(s) \cup {o}
  <2>1. PICK i \in 1 .. Len(s) + 1 : x = m[i]
    BY <1>4 DEF Listed
  <2> QED BY <2>1, <1>1, <1>2 DEF Listed
<1>6. ASSUME NEW i \in 1 .. Len(s) PROVE s[i] \in Listed(m)
  <2>1. CASE i < k
    <3>1. m[i] = s[i] BY <2>1, <1>1, <1>2
    <3> QED BY <3>1, <1>4, <1>2 DEF Listed
  <2>2. CASE i >= k
    <3>1. m[i + 1] = s[i] BY <2>2, <1>1, <1>2
    <3> QED BY <3>1, <1>4, <1>2 DEF Listed
  <2> QED BY <2>1, <2>2, <1>2
<1>7. o \in Listed(m)
  <2>1. m[k] = o BY <1>1, <1>2
  <2> QED BY <2>1, <1>4 DEF Listed
<1> QED BY <1>2, <1>4, <1>5, <1>6, <1>7 DEF Listed

\* Merging an option of a new name keeps the order.
LEMMA MergedInOrder ==
  ASSUME NEW s \in Seq(Objects), NEW o \in Objects, InOrder(s),
         \A q \in Listed(s) : AttrOf[q].name # AttrOf[o].name
  PROVE  InOrder(Merged(s, o))
<1>1. PICK k \in 1 .. Len(s) + 1 :
         /\ Merged(s, o) = [i \in 1 .. Len(s) + 1 |->
                              IF i < k THEN s[i] ELSE IF i = k THEN o ELSE s[i - 1]]
         /\ \A i \in 1 .. k - 1 : ~Before(o, s[i])
         /\ k <= Len(s) => Before(o, s[k])
  BY MergedIs
<1>2. Len(s) \in Nat /\ DOMAIN s = 1 .. Len(s)
      /\ \A i \in 1 .. Len(s) : s[i] \in Objects /\ s[i] \in Listed(s)
  BY DEF Listed
<1>3. ASSUME NEW i \in 1 .. k - 1 PROVE Before(s[i], o) /\ AttrOf[s[i]].name # AttrOf[o].name
  BY <1>1, <1>2, BeforeTotal
<1>4. ASSUME NEW i \in k .. Len(s) PROVE Before(o, s[i]) /\ AttrOf[s[i]].name # AttrOf[o].name
  <2>1. CASE i = k BY <2>1, <1>1, <1>2
  <2>2. CASE i > k
    <3>1. k \in DOMAIN s /\ i \in DOMAIN s /\ Before(o, s[k])
      BY <2>2, <1>1, <1>2
    <3>2. Before(s[k], s[i])
      BY <2>2, <3>1, <1>2 DEF InOrder
    <3> QED BY <3>1, <3>2, <1>2, BeforeTransitive
  <2> QED BY <2>1, <2>2, <1>2
<1> DEFINE m == Merged(s, o)
<1> SUFFICES ASSUME NEW i \in 1 .. Len(s) + 1, NEW j \in 1 .. Len(s) + 1, i < j
             PROVE  Before(m[i], m[j]) /\ AttrOf[m[i]].name # AttrOf[m[j]].name
  BY <1>1, <1>2 DEF InOrder
<1>5. CASE j < k
  <2>1. m[i] = s[i] /\ m[j] = s[j] /\ i \in DOMAIN s /\ j \in DOMAIN s
    BY <1>5, <1>1, <1>2
  <2> QED BY <2>1 DEF InOrder
<1>6. CASE j = k
  <2>1. m[i] = s[i] /\ m[j] = o /\ i \in 1 .. k - 1
    BY <1>6, <1>1, <1>2
  <2> QED BY <2>1, <1>3
<1>7. CASE j > k /\ i = k
  <2>1. m[i] = o /\ m[j] = s[j - 1] /\ j - 1 \in k .. Len(s)
    BY <1>7, <1>1, <1>2
  <2> QED BY <2>1, <1>4
<1>8. CASE j > k /\ i < k
  <2>1. m[i] = s[i] /\ m[j] = s[j - 1] /\ i \in DOMAIN s /\ j - 1 \in DOMAIN s /\ i < j - 1
    BY <1>8, <1>1, <1>2
  <2> QED BY <2>1 DEF InOrder
<1>9. CASE j > k /\ i > k
  <2>1. m[i] = s[i - 1] /\ m[j] = s[j - 1] /\ i - 1 \in DOMAIN s /\ j - 1 \in DOMAIN s
        /\ i - 1 < j - 1
    BY <1>9, <1>1, <1>2
  <2> QED BY <2>1 DEF InOrder
<1> QED BY <1>5, <1>6, <1>7, <1>8, <1>9, <1>2

\* Unregistering takes one entry out.
LEMMA WithoutIs ==
  ASSUME NEW s \in Seq(Objects), NEW o \in Listed(s)
  PROVE  \E k \in 1 .. Len(s) :
            /\ s[k] = o
            /\ Without(s, o) \in Seq(Objects)
            /\ Len(Without(s, o)) = Len(s) - 1
            /\ \A i \in 1 .. Len(s) - 1 :
                  Without(s, o)[i] = IF i < k THEN s[i] ELSE s[i + 1]
<1> DEFINE k == CHOOSE i \in DOMAIN s : s[i] = o
           L == SubSeq(s, 1, k - 1)
           R == SubSeq(s, k + 1, Len(s))
<1>1. Len(s) \in Nat /\ DOMAIN s = 1 .. Len(s)
  OBVIOUS
<1>2. k \in 1 .. Len(s) /\ s[k] = o
  BY <1>1 DEF Listed
<1>3. Without(s, o) = L \o R
  BY DEF Without
<1> HIDE DEF k
<1>4. L \in Seq(Objects) /\ Len(L) = k - 1 /\ \A i \in 1 .. k - 1 : L[i] = s[i]
  BY <1>1, <1>2, SubSeqProperties
<1>5. R \in Seq(Objects) /\ Len(R) = Len(s) - k
      /\ \A i \in 1 .. Len(s) - k : R[i] = s[k + i]
  <2>1. k + 1 \in Int /\ Len(s) \in Int /\ \A i \in k + 1 .. Len(s) : s[i] \in Objects
    BY <1>1, <1>2
  <2> DEFINE m == k + 1
             n == Len(s)
  <2>2. /\ R \in Seq(Objects) /\ Len(R) = IF m <= n THEN n - m + 1 ELSE 0
        /\ \A i \in 1 .. n - m + 1 : R[i] = s[m + i - 1]
    <3>1. R = SubSeq(s, m, n) /\ m \in Int /\ n \in Int /\ \A i \in m .. n : s[i] \in Objects
      BY <2>1
    <3> HIDE DEF m, n, R
    <3> QED BY <3>1, SubSeqProperties
  <2> HIDE DEF R
  <2>3. Len(R) = Len(s) - k
    <3>1. Len(R) = IF k + 1 <= Len(s) THEN Len(s) - (k + 1) + 1 ELSE 0
      BY <2>2
    <3>2. k \in Int /\ Len(s) \in Int /\ k <= Len(s)
      BY <1>1, <1>2
    <3>3. CASE k + 1 <= Len(s)
      BY <3>1, <3>2, <3>3
    <3>4. CASE ~(k + 1 <= Len(s))
      BY <3>1, <3>2, <3>4
    <3> QED BY <3>3, <3>4
  <2>4. ASSUME NEW i \in 1 .. Len(s) - k PROVE R[i] = s[k + i]
    <3>1. i \in 1 .. n - m + 1 /\ m + i - 1 = k + i
      BY <1>1, <1>2
    <3> QED BY <3>1, <2>2
  <2> QED BY <2>2, <2>3, <2>4
<1> HIDE DEF L, R
<1>6. /\ L \o R \in Seq(Objects) /\ Len(L \o R) = Len(s) - 1
      /\ \A i \in 1 .. Len(s) - 1 : (L \o R)[i] = IF i <= k - 1 THEN L[i] ELSE R[i - (k - 1)]
  <2>1. /\ L \o R \in Seq(Objects) /\ Len(L \o R) = Len(L) + Len(R)
        /\ \A i \in 1 .. Len(L) + Len(R) :
              (L \o R)[i] = IF i <= Len(L) THEN L[i] ELSE R[i - Len(L)]
    BY <1>4, <1>5, ConcatProperties
  <2>2. Len(L) + Len(R) = Len(s) - 1 /\ Len(L) = k - 1
    BY <1>1, <1>2, <1>4, <1>5
  <2> QED BY <2>1, <2>2
<1>7. \A i \in 1 .. Len(s) - 1 : (L \o R)[i] = IF i < k THEN s[i] ELSE s[i + 1]
  BY <1>1, <1>2, <1>4, <1>5, <1>6
<1> QED BY <1>2, <1>3, <1>6, <1>7

\* From a table in order, and so without repetitions, it takes the option out.
LEMMA WithoutType ==
  ASSUME NEW s \in Seq(Objects), NEW o, InOrder(s)
  PROVE  /\ Without(s, o) \in Seq(Objects)
         /\ Len(Without(s, o)) <= Len(s)
         /\ Listed(Without(s, o)) = Listed(s) \ {o}
         /\ InOrder(Without(s, o))
<1>1. CASE o \notin Listed(s)
  BY <1>1 DEF Without
<1>2. CASE o \in Listed(s)
  <2> DEFINE w == Without(s, o)
  <2>1. PICK k \in 1 .. Len(s) :
           /\ s[k] = o
           /\ w \in Seq(Objects) /\ Len(w) = Len(s) - 1
           /\ \A i \in 1 .. Len(s) - 1 : w[i] = IF i < k THEN s[i] ELSE s[i + 1]
    BY <1>2, WithoutIs
  <2> HIDE DEF w
  <2>2. Len(s) \in Nat /\ DOMAIN s = 1 .. Len(s) /\ DOMAIN w = 1 .. Len(s) - 1
    BY <2>1
  <2>3. \A i \in 1 .. Len(s) : i # k => s[i] # o
    BY <2>1, <2>2 DEF InOrder
  <2>4. ASSUME NEW x \in Listed(w) PROVE x \in Listed(s) \ {o}
    <3>1. PICK i \in 1 .. Len(s) - 1 : x = w[i]
      BY <2>2 DEF Listed
    <3> QED BY <3>1, <2>1, <2>2, <2>3 DEF Listed
  <2>5. ASSUME NEW i \in 1 .. Len(s), i # k PROVE s[i] \in Listed(w)
    <3>1. CASE i < k
      <4>1. w[i] = s[i] /\ i \in DOMAIN w BY <3>1, <2>1, <2>2
      <4> QED BY <4>1 DEF Listed
    <3>2. CASE i > k
      <4>1. w[i - 1] = s[i] /\ i - 1 \in DOMAIN w BY <3>2, <2>1, <2>2
      <4> QED BY <4>1 DEF Listed
    <3> QED BY <3>1, <3>2, <2>5, <2>2
  <2>6. Listed(w) = Listed(s) \ {o}
    <3>1. ASSUME NEW x \in Listed(s) \ {o} PROVE x \in Listed(w)
      BY <2>1, <2>2, <2>5 DEF Listed
    <3> QED BY <3>1, <2>4
  <2>7. InOrder(w)
    <3> SUFFICES ASSUME NEW i \in DOMAIN w, NEW j \in DOMAIN w, i < j
                 PROVE  Before(w[i], w[j]) /\ AttrOf[w[i]].name # AttrOf[w[j]].name
      BY DEF InOrder
    <3>1. PICK a \in DOMAIN s, b \in DOMAIN s : a < b /\ w[i] = s[a] /\ w[j] = s[b]
      <4> DEFINE at(n) == IF n < k THEN n ELSE n + 1
      <4>1. at(i) \in DOMAIN s /\ at(j) \in DOMAIN s /\ at(i) < at(j)
            /\ w[i] = s[at(i)] /\ w[j] = s[at(j)]
        BY <2>1, <2>2
      <4> QED BY <4>1
    <3> QED BY <3>1 DEF InOrder
  <2> QED BY <2>1, <2>2, <2>6, <2>7 DEF w
<1> QED BY <1>1, <1>2

\* The table a parser starts with.
LEMMA FreshTableIs ==
  ASSUME NEW p \in AllParsers
  PROVE  /\ FreshTable(p) \in Seq(Objects)
         /\ Len(FreshTable(p)) = 2
         /\ Listed(FreshTable(p)) = {p} \X Builtins
         /\ InOrder(FreshTable(p))
<1> DEFINE v == <<p, "version">>
           h == <<p, "help">>
<1>1. v \in Objects /\ h \in Objects /\ {p} \X Builtins = {v, h}
  BY DEF Objects, Builtins
<1>2. AttrOf[v].name = VersionName /\ AttrOf[h].name = HelpName
  <2>1. v \notin Handles \cup Statics /\ h \notin Handles \cup Statics
    BY OptionsAssumption DEF Builtins
  <2> QED BY <1>1, <2>1 DEF AttrOf, BuiltinAttr
<1>3. <<>> \in Seq(Objects) /\ Listed(<<>>) = {} /\ InOrder(<<>>)
  BY DEF Listed, InOrder
<1> HIDE DEF v, h
<1> DEFINE m == Merged(<<>>, v)
<1>4. m \in Seq(Objects) /\ Len(m) = 1 /\ Listed(m) = {v} /\ InOrder(m)
  <2>1. m \in Seq(Objects) /\ Len(m) = Len(<<>>) + 1 /\ Listed(m) = Listed(<<>>) \cup {v}
    BY <1>1, <1>3, MergedType
  <2>2. InOrder(m)
    BY <1>1, <1>3, MergedInOrder
  <2> QED BY <2>1, <2>2, <1>3
<1> HIDE DEF m
<1>5. AttrOf[v].name # AttrOf[h].name
  BY <1>2, NamesAssumption
<1>6. /\ Merged(m, h) \in Seq(Objects) /\ Len(Merged(m, h)) = 2
      /\ Listed(Merged(m, h)) = {v, h} /\ InOrder(Merged(m, h))
  <2>1. /\ Merged(m, h) \in Seq(Objects) /\ Len(Merged(m, h)) = Len(m) + 1
        /\ Listed(Merged(m, h)) = Listed(m) \cup {h}
    BY <1>1, <1>4, MergedType
  <2>2. \A q \in Listed(m) : AttrOf[q].name # AttrOf[h].name
    BY <1>4, <1>5
  <2>3. InOrder(Merged(m, h))
    BY <1>1, <1>4, <2>2, MergedInOrder
  <2> QED BY <2>1, <2>3, <1>4
<1> QED BY <1>1, <1>6 DEF FreshTable, m, v, h

-----------------------------------------------------------------------------
(* The invariant.                                                          *)

\* A parser that does not exist lists nothing, and the tables of those that do
\* are in order.
IInv == TypeOK /\ CountsHolders /\ ListsAgree /\ TableInOrder
        /\ \A p \in AllParsers \ live : options[p] = <<>>

LEMMA TableTypes ==
  ASSUME IInv, NEW p \in AllParsers
  PROVE  options[p] \in Seq(Objects) /\ InOrder(options[p])
         /\ TableOf(p) \in Seq(Objects) /\ InOrder(TableOf(p))
<1>1. options[p] \in Seq(Objects)
  BY DEF IInv, TypeOK
<1>2. InOrder(options[p])
  BY DEF IInv, TableInOrder, InOrder
<1> QED BY <1>1, <1>2, FreshTableIs DEF TableOf

LEMMA HoldersFinite ==
  ASSUME NEW o
  PROVE  IsFiniteSet(Holders(o)) /\ Cardinality(Holders(o)) \in Nat
<1>1. Holders(o) \subseteq Parsers
  BY DEF Holders
<1> QED BY <1>1, OptionsAssumption, FS_Subset, FS_CardinalityType

\* Host options, static ones and built-in ones are different objects.
LEMMA ObjectsApart ==
  /\ Handles \subseteq Objects /\ Statics \subseteq Objects
  /\ \A o \in Handles \cup Statics : \A p : o \notin {p} \X Builtins \/ p \notin AllParsers
  /\ \A o \in Handles : o \notin Statics
  BY OptionsAssumption DEF Objects

LEMMA InitIInv == Init => IInv
<1> SUFFICES ASSUME Init PROVE IInv
  OBVIOUS
<1>1. \A p \in AllParsers : options[p] = <<>> /\ Listed(options[p]) = {}
  BY DEF Init, Listed
<1>2. TypeOK
  <2>1. \A p \in AllParsers : options[p] \in Seq(Objects)
    <3>1. <<>> \in Seq(Objects) OBVIOUS
    <3> QED BY <1>1, <3>1
  <2> QED BY <2>1 DEF Init, TypeOK
<1>3. CountsHolders
  <2>1. \A o \in Handles : Holders(o) = {}
    BY <1>1 DEF Holders, AllParsers
  <2>2. Cardinality({}) = 0
    BY FS_EmptySet
  <2>3. \A o \in Handles : refcount[o] = 0 /\ o \notin held
    BY DEF Init
  <2> QED BY <2>1, <2>2, <2>3 DEF CountsHolders
<1>4. ListsAgree
  BY <1>1 DEF Init, ListsAgree, AllParsers
<1>5. TableInOrder
  BY DEF Init, TableInOrder
<1> QED BY <1>1, <1>2, <1>3, <1>4, <1>5 DEF IInv

\* A step that leaves tables, references and lifetimes alone.
LEMMA OnlyValues ==
  ASSUME IInv, UNCHANGED <<refcount, held, statics, live, registered, options>>,
         DOMAIN value' = Objects, parsed' \in [Objects -> BOOLEAN]
  PROVE  IInv'
<1>1. TypeOK'
  BY DEF IInv, TypeOK
<1>2. CountsHolders'
  BY DEF IInv, CountsHolders, Holders, Listed
<1>3. ListsAgree'
  BY DEF IInv, ListsAgree, Listed
<1>4. TableInOrder'
  BY DEF IInv, TableInOrder, Listed, InOrder, Before
<1>5. (\A p \in AllParsers \ live : options[p] = <<>>)'
  BY DEF IInv
<1> QED BY <1>1, <1>2, <1>3, <1>4, <1>5 DEF IInv

LEMMA FreedTypes ==
  ASSUME NEW G, Freed(G), parsed \in [Objects -> BOOLEAN]
  PROVE  DOMAIN value' = Objects /\ parsed' \in [Objects -> BOOLEAN]
  BY DEF Freed

\* Without the references of parsers an option has its host's only.
LEMMA Unreferenced ==
  ASSUME IInv, NEW o \in Handles, refcount[o] = 0
  PROVE  Cardinality(Holders(o)) = 0 /\ o \notin held
<1>1. refcount[o] = Cardinality(Holders(o)) + (IF o \in held THEN 1 ELSE 0)
  BY DEF IInv, CountsHolders
<1> QED BY <1>1, HoldersFinite

\* Steps of the host on an option: tables stay.
LEMMA HostStep ==
  ASSUME IInv, UNCHANGED <<statics, live, registered, options>>, CountsHolders',
         refcount' \in [Handles -> Nat], held' \subseteq Handles,
         DOMAIN value' = Objects, parsed' \in [Objects -> BOOLEAN]
  PROVE  IInv'
<1>1. TypeOK'
  BY DEF IInv, TypeOK
<1>2. ListsAgree'
  BY DEF IInv, ListsAgree, Listed
<1>3. TableInOrder'
  BY DEF IInv, TableInOrder, Listed, InOrder, Before
<1>4. (\A p \in AllParsers \ live : options[p] = <<>>)'
  BY DEF IInv
<1> QED BY <1>1, <1>2, <1>3, <1>4 DEF IInv

LEMMA CreateOptionKeeps ==
  ASSUME IInv, NEW o \in Handles, CreateOption(o)
  PROVE  IInv'
<1>1. refcount' = [refcount EXCEPT ![o] = 1] /\ held' = held \cup {o}
      /\ refcount \in [Handles -> Nat]
  BY DEF CreateOption, IInv, TypeOK
<1>2. \A q \in Handles : Holders(q)' = Holders(q)
  BY DEF CreateOption, Holders, Listed
<1>3. CountsHolders'
  <2> SUFFICES ASSUME NEW q \in Handles
               PROVE  refcount'[q] = Cardinality(Holders(q)') + (IF q \in held' THEN 1 ELSE 0)
    BY DEF CountsHolders
  <2>1. CASE q = o
    BY <2>1, <1>1, <1>2, Unreferenced DEF CreateOption
  <2>2. CASE q # o
    BY <2>2, <1>1, <1>2 DEF IInv, CountsHolders
  <2> QED BY <2>1, <2>2
<1> QED BY <1>1, <1>3, HostStep DEF CreateOption, IInv, TypeOK

LEMMA DestroyOptionKeeps ==
  ASSUME IInv, NEW o \in Handles, DestroyOption(o)
  PROVE  IInv'
<1>1. /\ refcount' = [refcount EXCEPT ![o] = refcount[o] - 1] /\ held' = held \ {o}
      /\ refcount \in [Handles -> Nat] /\ o \in held
  BY DEF DestroyOption, IInv, TypeOK
<1>2. \A q \in Handles : Holders(q)' = Holders(q)
  BY DEF DestroyOption, Holders, Listed
<1>3. \A q \in Handles : refcount[q] = Cardinality(Holders(q)) + (IF q \in held THEN 1 ELSE 0)
  BY DEF IInv, CountsHolders
<1>4. CountsHolders' /\ refcount' \in [Handles -> Nat]
  <2> SUFFICES ASSUME NEW q \in Handles
               PROVE  /\ refcount'[q] = Cardinality(Holders(q)') + (IF q \in held' THEN 1 ELSE 0)
                      /\ refcount'[q] \in Nat
    BY <1>1 DEF CountsHolders
  <2>1. CASE q = o
    BY <2>1, <1>1, <1>2, <1>3, HoldersFinite
  <2>2. CASE q # o
    BY <2>2, <1>1, <1>2, <1>3
  <2> QED BY <2>1, <2>2
<1>5. DOMAIN value' = Objects /\ parsed' \in [Objects -> BOOLEAN]
  BY FreedTypes DEF DestroyOption, IInv, TypeOK
<1> QED BY <1>1, <1>4, <1>5, HostStep DEF DestroyOption, IInv, TypeOK

-----------------------------------------------------------------------------
(* Steps that change one table.                                            *)

\* The table of a parser p becomes s, which is in order and has its built-in
\* options; what is counted agrees with what is listed.
LEMMA TableStep ==
  ASSUME IInv, NEW p \in AllParsers, NEW s \in Seq(Objects),
         options' = [options EXCEPT ![p] = s],
         live' \in SUBSET AllParsers, live' \ {p} = live \ {p},
         p \in live' => InOrder(s) /\ {p} \X Builtins \subseteq Listed(s) /\ Len(s) <= Slots,
         p \notin live' => s = <<>>,
         ListsAgree', CountsHolders',
         refcount' \in [Handles -> Nat], registered' \in [Parsers -> [Handles -> Nat]],
         statics' \subseteq Statics, held' = held,
         DOMAIN value' = Objects, parsed' \in [Objects -> BOOLEAN]
  PROVE  IInv'
<1>1. options \in [AllParsers -> Seq(Objects)] /\ options'[p] = s
      /\ \A q \in AllParsers \ {p} : options'[q] = options[q]
  BY DEF IInv, TypeOK
<1>2. TypeOK'
  <2>1. options' \in [AllParsers -> Seq(Objects)]
    BY <1>1
  <2> QED BY <2>1 DEF IInv, TypeOK
<1>3. TableInOrder'
  <2> SUFFICES ASSUME NEW q \in live'
               PROVE  /\ {q} \X Builtins \subseteq Listed(options'[q])
                      /\ Len(options'[q]) <= Slots /\ InOrder(options'[q])
    BY DEF TableInOrder, Listed, InOrder, Before
  <2>1. CASE q = p
    BY <2>1, <1>1
  <2>2. CASE q # p
    <3>1. q \in live /\ options'[q] = options[q]
      BY <2>2, <1>1
    <3> QED BY <3>1 DEF IInv, TableInOrder
  <2> QED BY <2>1, <2>2
<1>4. (\A q \in AllParsers \ live : options[q] = <<>>)'
  BY <1>1 DEF IInv
<1> QED BY <1>2, <1>3, <1>4 DEF IInv

LEMMA ListedAfter ==
  ASSUME NEW p \in AllParsers, NEW s, options \in [AllParsers -> Seq(Objects)],
         options' = [options EXCEPT ![p] = s]
  PROVE  /\ Listed(options[p])' = Listed(s)
         /\ \A q \in AllParsers \ {p} : Listed(options[q])' = Listed(options[q])
  BY DEF Listed

LEMMA RegisterKeeps ==
  ASSUME IInv, NEW p \in Parsers, NEW o \in Handles, Register(p, o)
  PROVE  IInv'
<1> DEFINE s == Merged(options[p], o)
<1>1. /\ p \in AllParsers /\ p # Global /\ o \in Objects /\ p \in live
      /\ options' = [options EXCEPT ![p] = s]
      /\ options \in [AllParsers -> Seq(Objects)]
      /\ refcount' = [refcount EXCEPT ![o] = refcount[o] + 1]
      /\ registered' = [registered EXCEPT ![p][o] = registered[p][o] + 1]
      /\ refcount \in [Handles -> Nat] /\ registered \in [Parsers -> [Handles -> Nat]]
      /\ CanRegister(options[p], o)
  BY ObjectsApart, OptionsAssumption DEF Register, IInv, TypeOK, AllParsers
<1>2. /\ s \in Seq(Objects) /\ Len(s) = Len(options[p]) + 1
      /\ Listed(s) = Listed(options[p]) \cup {o}
  BY <1>1, MergedType, TableTypes
<1>3. InOrder(s) /\ Len(s) <= Slots /\ {p} \X Builtins \subseteq Listed(s)
  <2>1. InOrder(s)
    BY <1>1, TableTypes, MergedInOrder DEF CanRegister
  <2>2. Len(options[p]) \in Nat /\ Len(options[p]) < Slots
    BY <1>1 DEF CanRegister
  <2> QED BY <1>1, <1>2, <2>1, <2>2, OptionsAssumption DEF IInv, TableInOrder
<1> HIDE DEF s
<1>4. Listed(options[p])' = Listed(options[p]) \cup {o}
      /\ \A q \in AllParsers \ {p} : Listed(options[q])' = Listed(options[q])
  BY <1>1, <1>2, ListedAfter
<1>5. o \notin Listed(options[p])
  BY <1>1 DEF CanRegister
<1>6. ListsAgree'
  <2>1. ASSUME NEW q \in Parsers, NEW r \in Handles
        PROVE registered'[q][r] = IF r \in Listed(options[q])' THEN 1 ELSE 0
    <3>1. q \in AllParsers /\ registered[q][r] = IF r \in Listed(options[q]) THEN 1 ELSE 0
      BY DEF IInv, ListsAgree, AllParsers
    <3>2. CASE q = p /\ r = o
      BY <3>1, <3>2, <1>1, <1>4, <1>5
    <3>3. CASE ~(q = p /\ r = o)
      <4>1. registered'[q][r] = registered[q][r]
        BY <3>3, <1>1
      <4> QED BY <4>1, <3>1, <3>3, <1>4
    <3> QED BY <3>2, <3>3
  <2>2. Listed(options[Global])' \cap Statics \subseteq statics'
    BY <1>1, <1>4 DEF IInv, ListsAgree, Register, AllParsers
  <2> QED BY <2>1, <2>2 DEF ListsAgree
<1>7. CountsHolders'
  <2> SUFFICES ASSUME NEW q \in Handles
               PROVE  refcount'[q] = Cardinality(Holders(q)') + (IF q \in held' THEN 1 ELSE 0)
    BY DEF CountsHolders
  <2>1. refcount[q] = Cardinality(Holders(q)) + (IF q \in held THEN 1 ELSE 0)
        /\ held' = held
    BY DEF IInv, CountsHolders, Register
  <2>2. CASE q = o
    <3>1. Holders(q)' = Holders(q) \cup {p} /\ p \notin Holders(q)
      BY <2>2, <1>4, <1>5 DEF Holders, AllParsers
    <3>2. Cardinality(Holders(q)') = Cardinality(Holders(q)) + 1
      BY <3>1, HoldersFinite, FS_AddElement
    <3> QED BY <3>2, <2>1, <2>2, <1>1, HoldersFinite
  <2>3. CASE q # o
    <3>1. Holders(q)' = Holders(q)
      BY <2>3, <1>4 DEF Holders, AllParsers
    <3> QED BY <3>1, <2>1, <2>3, <1>1
  <2> QED BY <2>2, <2>3
<1>8. refcount' \in [Handles -> Nat] /\ registered' \in [Parsers -> [Handles -> Nat]]
  BY <1>1
<1>9. UNCHANGED <<held, statics, live, value, parsed>> /\ p \in live'
  BY <1>1 DEF Register
<1>10. live \in SUBSET AllParsers /\ statics \subseteq Statics /\ DOMAIN value = Objects
       /\ parsed \in [Objects -> BOOLEAN]
  BY DEF IInv, TypeOK
<1> QED BY <1>1, <1>2, <1>3, <1>6, <1>7, <1>8, <1>9, <1>10, TableStep

\* Letting go of an option in one table.
LEMMA HoldersLess ==
  ASSUME IInv, NEW p \in Parsers, NEW q \in Handles,
         Holders(q)' = Holders(q) \ {p}, q \in held' <=> q \in held,
         NEW n, n = refcount[q] - registered[p][q]
  PROVE  n = Cardinality(Holders(q)') + (IF q \in held' THEN 1 ELSE 0) /\ n \in Nat
<1>1. /\ refcount[q] = Cardinality(Holders(q)) + (IF q \in held THEN 1 ELSE 0)
      /\ registered[p][q] = IF p \in Holders(q) THEN 1 ELSE 0
  BY DEF IInv, CountsHolders, ListsAgree, Holders
<1>2. CASE p \in Holders(q)
  <2>1. Cardinality(Holders(q)') = Cardinality(Holders(q)) - 1
        /\ Cardinality(Holders(q)') \in Nat
    BY <1>2, HoldersFinite, FS_RemoveElement, FS_CardinalityType
  <2> QED BY <2>1, <1>1, <1>2, HoldersFinite
<1>3. CASE p \notin Holders(q)
  <2>1. Holders(q)' = Holders(q)
    BY <1>3
  <2> QED BY <2>1, <1>1, <1>3, HoldersFinite
<1> QED BY <1>2, <1>3

LEMMA UnregisterKeeps ==
  ASSUME IInv, NEW p \in Parsers, NEW o \in Handles, Unregister(p, o)
  PROVE  IInv'
<1> DEFINE s == Without(options[p], o)
<1>1. /\ p \in AllParsers /\ p # Global /\ o \in Objects /\ p \in live
      /\ options' = [options EXCEPT ![p] = s]
      /\ options \in [AllParsers -> Seq(Objects)]
      /\ refcount' = [refcount EXCEPT ![o] = refcount[o] - 1]
      /\ registered' = [registered EXCEPT ![p][o] = registered[p][o] - 1]
      /\ refcount \in [Handles -> Nat] /\ registered \in [Parsers -> [Handles -> Nat]]
  BY ObjectsApart, OptionsAssumption DEF Unregister, IInv, TypeOK, AllParsers
<1>2. registered[p][o] = 1 /\ o \in Listed(options[p])
      /\ \A q \in Parsers, r \in Handles :
            registered[q][r] = IF r \in Listed(options[q]) THEN 1 ELSE 0
  BY DEF Unregister, IInv, ListsAgree
<1>3. /\ s \in Seq(Objects) /\ Len(s) <= Len(options[p]) /\ InOrder(s)
      /\ Listed(s) = Listed(options[p]) \ {o}
  BY <1>1, WithoutType, TableTypes
<1>4. Len(s) <= Slots /\ {p} \X Builtins \subseteq Listed(s)
  <2>1. Len(options[p]) \in Nat /\ Len(s) \in Nat /\ Len(options[p]) <= Slots
    BY <1>1, <1>3 DEF IInv, TableInOrder
  <2>2. o \notin {p} \X Builtins
    BY <1>1, ObjectsApart
  <2> QED BY <1>1, <1>3, <2>1, <2>2, OptionsAssumption DEF IInv, TableInOrder
<1> HIDE DEF s
<1>5. Listed(options[p])' = Listed(options[p]) \ {o}
      /\ \A q \in AllParsers \ {p} : Listed(options[q])' = Listed(options[q])
  BY <1>1, <1>3, ListedAfter
<1>6. ListsAgree'
  <2>1. ASSUME NEW q \in Parsers, NEW r \in Handles
        PROVE registered'[q][r] = IF r \in Listed(options[q])' THEN 1 ELSE 0
    <3>1. CASE q = p /\ r = o
      BY <3>1, <1>1, <1>2, <1>5
    <3>2. CASE ~(q = p /\ r = o)
      <4>1. registered'[q][r] = registered[q][r] /\ q \in AllParsers
        BY <3>2, <1>1 DEF AllParsers
      <4> QED BY <4>1, <1>2, <3>2, <1>5
    <3> QED BY <3>1, <3>2
  <2>2. Listed(options[Global])' \cap Statics \subseteq statics'
    BY <1>1, <1>5 DEF IInv, ListsAgree, Unregister, AllParsers
  <2> QED BY <2>1, <2>2 DEF ListsAgree
<1>7. CountsHolders' /\ refcount' \in [Handles -> Nat]
  <2> SUFFICES ASSUME NEW q \in Handles
               PROVE  /\ refcount'[q] = Cardinality(Holders(q)') + (IF q \in held' THEN 1 ELSE 0)
                      /\ refcount'[q] \in Nat
    BY <1>1 DEF CountsHolders
  <2>1. held' = held
    BY DEF Unregister
  <2>2. CASE q = o
    <3>1. Holders(q)' = Holders(q) \ {p}
      BY <2>2, <1>5 DEF Holders, AllParsers
    <3>2. refcount'[q] = refcount[q] - registered[p][q]
      BY <2>2, <1>1, <1>2
    <3> QED BY <3>1, <3>2, <2>1, HoldersLess
  <2>3. CASE q # o
    <3>1. Holders(q)' = Holders(q) /\ refcount'[q] = refcount[q]
      BY <2>3, <1>1, <1>5 DEF Holders, AllParsers
    <3> QED BY <3>1, <2>1, <1>1 DEF IInv, CountsHolders
  <2> QED BY <2>2, <2>3
<1>8. registered' \in [Parsers -> [Handles -> Nat]]
  BY <1>1, <1>2
<1>9. UNCHANGED <<held, statics, live>> /\ p \in live'
      /\ DOMAIN value' = Objects /\ parsed' \in [Objects -> BOOLEAN]
  BY <1>1, FreedTypes DEF Unregister, IInv, TypeOK
<1>10. live \in SUBSET AllParsers /\ statics \subseteq Statics
  BY DEF IInv, TypeOK
<1> QED BY <1>1, <1>3, <1>4, <1>6, <1>7, <1>8, <1>9, <1>10, TableStep

LEMMA CreateParserKeeps ==
  ASSUME IInv, NEW p \in Parsers, CreateParser(p)
  PROVE  IInv'
<1> DEFINE s == FreshTable(p)
<1>1. /\ p \in AllParsers /\ p \notin live /\ live' = live \cup {p}
      /\ options' = [options EXCEPT ![p] = s]
      /\ options \in [AllParsers -> Seq(Objects)]
      /\ UNCHANGED <<refcount, held, statics, registered, value, parsed>>
  BY DEF CreateParser, IInv, TypeOK, AllParsers
<1>2. /\ s \in Seq(Objects) /\ InOrder(s) /\ Len(s) <= Slots
      /\ Listed(s) = {p} \X Builtins
  BY <1>1, FreshTableIs, OptionsAssumption
<1> HIDE DEF s
<1>3. \A q \in Parsers, r \in Handles : r \in Listed(options[q])' <=> r \in Listed(options[q])
  <2> SUFFICES ASSUME NEW q \in Parsers, NEW r \in Handles
               PROVE  r \in Listed(options[q])' <=> r \in Listed(options[q])
    OBVIOUS
  <2>1. CASE q = p
    <3>1. options[p] = <<>>
      BY <1>1 DEF IInv
    <3>2. Listed(options[p]) = {}
      BY <3>1 DEF Listed
    <3>3. r \notin Listed(options[p])'
      BY <1>1, <1>2, ListedAfter, ObjectsApart
    <3> QED BY <2>1, <3>2, <3>3
  <2>2. CASE q # p
    BY <2>2, <1>1, ListedAfter DEF AllParsers
  <2> QED BY <2>1, <2>2
<1>4. ListsAgree'
  <2>1. Listed(options[Global])' = Listed(options[Global])
    BY <1>1, ListedAfter, OptionsAssumption DEF AllParsers
  <2> QED BY <1>1, <1>3, <2>1 DEF IInv, ListsAgree
<1>5. CountsHolders'
  <2>1. \A r \in Handles : Holders(r)' = Holders(r)
    BY <1>3 DEF Holders
  <2> QED BY <1>1, <2>1 DEF IInv, CountsHolders
<1>6. /\ live' \in SUBSET AllParsers /\ statics \subseteq Statics /\ DOMAIN value = Objects
      /\ parsed \in [Objects -> BOOLEAN] /\ refcount \in [Handles -> Nat]
      /\ registered \in [Parsers -> [Handles -> Nat]]
  BY <1>1 DEF IInv, TypeOK
<1> QED BY <1>1, <1>2, <1>4, <1>5, <1>6, TableStep

LEMMA DestroyParserKeeps ==
  ASSUME IInv, NEW p \in Parsers, DestroyParser(p)
  PROVE  IInv'
<1>1. /\ p \in AllParsers /\ p # Global /\ live' = live \ {p}
      /\ options' = [options EXCEPT ![p] = <<>>]
      /\ options \in [AllParsers -> Seq(Objects)]
      /\ refcount' = [r \in Handles |-> refcount[r] - registered[p][r]]
      /\ registered' = [registered EXCEPT ![p] = [r \in Handles |-> 0]]
      /\ registered \in [Parsers -> [Handles -> Nat]]
      /\ UNCHANGED <<held, statics>>
  BY OptionsAssumption DEF DestroyParser, ReleasedByParser, IInv, TypeOK, AllParsers
<1>2. <<>> \in Seq(Objects) /\ Listed(<<>>) = {}
  BY DEF Listed
<1>3. Listed(options[p])' = {}
      /\ \A q \in AllParsers \ {p} : Listed(options[q])' = Listed(options[q])
  BY <1>1, <1>2, ListedAfter
<1>4. ListsAgree'
  <2>1. ASSUME NEW q \in Parsers, NEW r \in Handles
        PROVE registered'[q][r] = IF r \in Listed(options[q])' THEN 1 ELSE 0
    <3>1. CASE q = p
      BY <3>1, <1>1, <1>3
    <3>2. CASE q # p
      BY <3>2, <1>1, <1>3 DEF IInv, ListsAgree, AllParsers
    <3> QED BY <3>1, <3>2
  <2>2. Listed(options[Global])' \cap Statics \subseteq statics'
    BY <1>1, <1>3 DEF IInv, ListsAgree, AllParsers
  <2> QED BY <2>1, <2>2 DEF ListsAgree
<1>5. CountsHolders' /\ refcount' \in [Handles -> Nat]
  <2> SUFFICES ASSUME NEW q \in Handles
               PROVE  /\ refcount'[q] = Cardinality(Holders(q)') + (IF q \in held' THEN 1 ELSE 0)
                      /\ refcount'[q] \in Nat
    BY <1>1 DEF CountsHolders
  <2>1. Holders(q)' = Holders(q) \ {p}
    BY <1>3 DEF Holders, AllParsers
  <2>2. refcount'[q] = refcount[q] - registered[p][q] /\ held' = held
    BY <1>1
  <2> QED BY <2>1, <2>2, HoldersLess
<1>6. registered' \in [Parsers -> [Handles -> Nat]]
  BY <1>1
<1>7. DOMAIN value' = Objects /\ parsed' \in [Objects -> BOOLEAN]
  BY FreedTypes DEF DestroyParser, IInv, TypeOK
<1>8. live' \in SUBSET AllParsers /\ statics \subseteq Statics
  BY <1>1 DEF IInv, TypeOK
<1> QED BY <1>1, <1>2, <1>4, <1>5, <1>6, <1>7, <1>8, TableStep

-----------------------------------------------------------------------------
(* The global parser.                                                      *)

\* Its table is no host's business.
LEMMA GlobalStep ==
  ASSUME IInv, NEW s \in Seq(Objects), options' = [options EXCEPT ![Global] = s],
         live' \ {Global} = live \ {Global}, live' \subseteq AllParsers,
         Global \in live' =>
            InOrder(s) /\ {Global} \X Builtins \subseteq Listed(s) /\ Len(s) <= Slots,
         Global \notin live' => s = <<>>,
         UNCHANGED <<refcount, held, registered>>,
         statics' \subseteq Statics, Listed(s) \cap Statics \subseteq statics',
         DOMAIN value' = Objects, parsed' \in [Objects -> BOOLEAN]
  PROVE  IInv'
<1>1. Global \in AllParsers /\ Global \notin Parsers /\ Parsers \subseteq AllParsers
  BY OptionsAssumption DEF AllParsers
<1>2. /\ options \in [AllParsers -> Seq(Objects)] /\ refcount \in [Handles -> Nat]
      /\ registered \in [Parsers -> [Handles -> Nat]]
  BY DEF IInv, TypeOK
<1>3. Listed(options[Global])' = Listed(s)
      /\ \A q \in Parsers : Listed(options[q])' = Listed(options[q])
  BY <1>1, <1>2, ListedAfter
<1>4. ListsAgree'
  BY <1>3 DEF IInv, ListsAgree
<1>5. CountsHolders'
  <2>1. \A r \in Handles : Holders(r)' = Holders(r)
    BY <1>3 DEF Holders
  <2> QED BY <2>1 DEF IInv, CountsHolders
<1> QED BY <1>1, <1>2, <1>4, <1>5, TableStep

\* The table the global parser has, or is made with.
LEMMA GlobalTable ==
  ASSUME IInv, NEW p \in live \cup {Global}
  PROVE  /\ p \in AllParsers
         /\ TableOf(p) \in Seq(Objects) /\ InOrder(TableOf(p))
         /\ Len(TableOf(p)) \in Nat /\ Len(TableOf(p)) <= Slots
         /\ {p} \X Builtins \subseteq Listed(TableOf(p))
         /\ p = Global => Listed(TableOf(p)) \cap Statics \subseteq statics
<1>1. p \in AllParsers
  BY DEF IInv, TypeOK, AllParsers
<1>2. TableOf(p) \in Seq(Objects) /\ InOrder(TableOf(p))
  BY <1>1, TableTypes
<1>3. CASE p \in live
  BY <1>1, <1>2, <1>3 DEF TableOf, IInv, TableInOrder, ListsAgree
<1>4. CASE p \notin live
  <2>1. Len(TableOf(p)) = 2 /\ Listed(TableOf(p)) = {p} \X Builtins
    BY <1>1, <1>4, FreshTableIs DEF TableOf
  <2>2. Listed(TableOf(p)) \cap Statics = {}
    BY <1>1, <2>1, ObjectsApart
  <2> QED BY <1>1, <1>2, <2>1, <2>2, OptionsAssumption
<1> QED BY <1>3, <1>4

LEMMA StaticConstructedKeeps ==
  ASSUME IInv, NEW o \in Statics, StaticConstructed(o)
  PROVE  IInv'
<1> DEFINE t == TableOf(Global)
           s == IF CanRegister(t, o) THEN Merged(t, o) ELSE t
<1>1. /\ options' = [options EXCEPT ![Global] = s] /\ live' = live \cup {Global}
      /\ statics' = statics \cup {o}
      /\ UNCHANGED <<refcount, held, registered, value, parsed>>
  BY DEF StaticConstructed
<1>2. /\ t \in Seq(Objects) /\ InOrder(t) /\ Len(t) \in Nat /\ Len(t) <= Slots
      /\ {Global} \X Builtins \subseteq Listed(t) /\ Listed(t) \cap Statics \subseteq statics
  BY GlobalTable
<1> HIDE DEF t
<1>3. /\ s \in Seq(Objects) /\ InOrder(s) /\ Len(s) <= Slots
      /\ {Global} \X Builtins \subseteq Listed(s) /\ Listed(s) \cap Statics \subseteq statics'
  <2>1. CASE CanRegister(t, o)
    <3>1. /\ Merged(t, o) \in Seq(Objects) /\ Len(Merged(t, o)) = Len(t) + 1
          /\ Listed(Merged(t, o)) = Listed(t) \cup {o}
      BY <1>2, MergedType, ObjectsApart
    <3>2. InOrder(Merged(t, o))
      BY <1>2, <2>1, MergedInOrder, ObjectsApart DEF CanRegister
    <3>3. Len(t) < Slots
      BY <2>1 DEF CanRegister
    <3> QED BY <1>1, <1>2, <2>1, <3>1, <3>2, <3>3, OptionsAssumption
  <2>2. CASE ~CanRegister(t, o)
    BY <1>1, <1>2, <2>2
  <2> QED BY <2>1, <2>2
<1> HIDE DEF s
<1>4. /\ live' \subseteq AllParsers /\ statics' \subseteq Statics
      /\ DOMAIN value = Objects /\ parsed \in [Objects -> BOOLEAN]
  BY <1>1 DEF IInv, TypeOK, AllParsers
<1> QED BY <1>1, <1>3, <1>4, GlobalStep

LEMMA StaticDestroyedKeeps ==
  ASSUME IInv, NEW o \in Statics, StaticDestroyed(o)
  PROVE  IInv'
<1> DEFINE s == Without(options[Global], o)
<1>1. statics' = statics \ {o} /\ UNCHANGED <<refcount, held, live, registered>>
  BY DEF StaticDestroyed
<1>2. /\ DOMAIN value' = Objects /\ parsed' \in [Objects -> BOOLEAN]
      /\ live \subseteq AllParsers /\ statics' \subseteq Statics
      /\ options \in [AllParsers -> Seq(Objects)] /\ Global \in AllParsers
  BY <1>1, FreedTypes DEF StaticDestroyed, IInv, TypeOK, AllParsers
<1>3. CASE Global \in live
  <2>1. options' = [options EXCEPT ![Global] = s]
    BY <1>3 DEF StaticDestroyed
  <2>2. /\ s \in Seq(Objects) /\ Len(s) <= Len(options[Global]) /\ InOrder(s)
        /\ Listed(s) = Listed(options[Global]) \ {o}
    BY <1>2, WithoutType, TableTypes
  <2>3. Len(s) <= Slots /\ {Global} \X Builtins \subseteq Listed(s)
    <3>1. Len(options[Global]) \in Nat /\ Len(s) \in Nat /\ Len(options[Global]) <= Slots
      BY <1>2, <1>3, <2>2 DEF IInv, TableInOrder
    <3>2. o \notin {Global} \X Builtins
      BY <1>2, ObjectsApart
    <3> QED BY <1>3, <2>2, <3>1, <3>2, OptionsAssumption DEF IInv, TableInOrder
  <2>4. Listed(s) \cap Statics \subseteq statics'
    BY <1>1, <2>2 DEF IInv, ListsAgree
  <2> HIDE DEF s
  <2> QED BY <1>1, <1>2, <1>3, <2>1, <2>2, <2>3, <2>4, GlobalStep
<1>4. CASE Global \notin live
  <2>1. options' = options /\ options[Global] = <<>>
    BY <1>2, <1>4 DEF StaticDestroyed, IInv
  <2>2. options' = [options EXCEPT ![Global] = <<>>]
    BY <1>2, <2>1
  <2>3. <<>> \in Seq(Objects) /\ Listed(<<>>) = {}
    BY DEF Listed
  <2> QED BY <1>1, <1>2, <1>4, <2>2, <2>3, GlobalStep
<1> QED BY <1>3, <1>4

LEMMA GlobalDestroyedKeeps ==
  ASSUME IInv, GlobalDestroyed
  PROVE  IInv'
<1>1. /\ options' = [options EXCEPT ![Global] = <<>>] /\ live' = live \ {Global}
      /\ UNCHANGED <<refcount, held, statics, registered>>
  BY DEF GlobalDestroyed
<1>2. /\ DOMAIN value' = Objects /\ parsed' \in [Objects -> BOOLEAN]
      /\ live' \subseteq AllParsers /\ statics' \subseteq Statics
  BY <1>1, FreedTypes DEF GlobalDestroyed, IInv, TypeOK
<1>3. <<>> \in Seq(Objects) /\ Listed(<<>>) = {}
  BY DEF Listed
<1> QED BY <1>1, <1>2, <1>3, GlobalStep

LEMMA ParseKeeps ==
  ASSUME IInv, NEW p \in AllParsers, NEW args \in ArgLists, Parse(p, args)
  PROVE  IInv'
<1> DEFINE s == TableOf(p)
<1>1. /\ p \in live \cup {Global} /\ live' = live \cup {p}
      /\ options' = [options EXCEPT ![p] = s]
      /\ UNCHANGED <<refcount, held, statics, registered>>
  BY DEF Parse
<1>2. DOMAIN value' = Objects /\ parsed' \in [Objects -> BOOLEAN]
  <2>1. PICK r : /\ value' = [o \in Objects |->
                                 IF o \in DOMAIN r.value THEN r.value[o] ELSE value[o]]
                 /\ parsed' = [o \in Objects |->
                                 o \in r.parsed \/ (o \notin DOMAIN r.value /\ parsed[o])]
    BY Zenon DEF Parse
  <2> QED BY <2>1
<1>3. CASE p \in Parsers
  <2>1. p \in live
    BY <1>1, <1>3, OptionsAssumption
  <2>2. options' = options /\ live' = live
    BY <1>1, <2>1 DEF TableOf, IInv, TypeOK
  <2> QED BY <1>1, <1>2, <2>2, OnlyValues
<1>4. CASE p = Global
  <2>1. /\ s \in Seq(Objects) /\ InOrder(s) /\ Len(s) <= Slots
        /\ {Global} \X Builtins \subseteq Listed(s) /\ Listed(s) \cap Statics \subseteq statics
    BY <1>4, GlobalTable
  <2>2. live' \subseteq AllParsers /\ statics \subseteq Statics
    BY <1>1 DEF IInv, TypeOK
  <2> HIDE DEF s
  <2> QED BY <1>1, <1>2, <1>4, <2>1, <2>2, GlobalStep
<1> QED BY <1>3, <1>4 DEF AllParsers

LEMMA RestoreDefaultKeeps ==
  ASSUME IInv, NEW o \in Handles, RestoreDefault(o)
  PROVE  IInv'
<1>1. DOMAIN value' = Objects /\ parsed' \in [Objects -> BOOLEAN]
  BY DEF RestoreDefault, IInv, TypeOK
<1> QED BY <1>1, OnlyValues DEF RestoreDefault

LEMMA NextIInv == IInv /\ [Next]_vars => IInv'
<1> SUFFICES ASSUME IInv, [Next]_vars PROVE IInv'
  OBVIOUS
<1>1. CASE OptionCalls
  BY <1>1, CreateOptionKeeps, DestroyOptionKeeps, RestoreDefaultKeeps DEF OptionCalls
<1>2. CASE ParserCalls
  BY <1>2, CreateParserKeeps, DestroyParserKeeps, RegisterKeeps, UnregisterKeeps DEF ParserCalls
<1>3. CASE StaticLifetime
  BY <1>3, StaticConstructedKeeps, StaticDestroyedKeeps, GlobalDestroyedKeeps DEF StaticLifetime
<1>4. CASE Parsing
  BY <1>4, ParseKeeps DEF Parsing
<1>5. CASE UNCHANGED vars
  <2>1. DOMAIN value' = Objects /\ parsed' \in [Objects -> BOOLEAN]
    BY <1>5 DEF vars, IInv, TypeOK
  <2> QED BY <1>5, <2>1, OnlyValues DEF vars
<1> QED BY <1>1, <1>2, <1>3, <1>4, <1>5 DEF Next

-----------------------------------------------------------------------------
(* Parsing.                                                                *)

\* What the loop over the first n arguments computes, as an equation.
Loop(f, s, args, n) ==
    f = [i \in 0 .. n |->
            IF i = 0 THEN Restored(s)
            ELSE IF ~f[i - 1].ok \/ args[i] = Empty THEN f[i - 1]
            ELSE Offer(s, f[i - 1], args[i])]

LEMMA LoopAt ==
  ASSUME NEW f, NEW s, NEW args, NEW n \in Nat, Loop(f, s, args, n), NEW i \in 0 .. n
  PROVE  f[i] = IF i = 0 THEN Restored(s)
                ELSE IF ~f[i - 1].ok \/ args[i] = Empty THEN f[i - 1]
                ELSE Offer(s, f[i - 1], args[i])
<1> DEFINE e(j) == IF j = 0 THEN Restored(s)
                   ELSE IF ~f[j - 1].ok \/ args[j] = Empty THEN f[j - 1]
                   ELSE Offer(s, f[j - 1], args[j])
<1>1. f = [j \in 0 .. n |-> e(j)]
  BY DEF Loop
<1> HIDE DEF e
<1>2. f[i] = e(i)
  BY <1>1
<1> QED BY <1>2 DEF e

LEMMA LoopExists ==
  ASSUME NEW s, NEW args, NEW n \in Nat
  PROVE  \E f : Loop(f, s, args, n)
<1> SUFFICES ASSUME {k \in Nat : ~ \E f : Loop(f, s, args, k)} # {} PROVE FALSE
  OBVIOUS
<1>1. PICK m \in Nat : /\ ~ \E f : Loop(f, s, args, m)
                       /\ \A k \in Nat : k < m => \E f : Loop(f, s, args, k)
  <2> DEFINE T == {k \in Nat : ~ \E f : Loop(f, s, args, k)}
  <2>1. Min(T) \in T /\ \A k \in T : Min(T) <= k
    <3> HIDE DEF T
    <3>1. T \subseteq Nat /\ T # {}
      BY DEF T
    <3> QED BY <3>1, LeastNatural
  <2>2. PICK m \in T : \A k \in T : m <= k
    BY <2>1
  <2>3. m \in Nat /\ ~ \E f : Loop(f, s, args, m)
    BY <2>2
  <2>4. ASSUME NEW k \in Nat, k < m PROVE \E f : Loop(f, s, args, k)
    <3>1. k \notin T
      <4> HIDE DEF T
      <4> QED BY <2>2, <2>3, <2>4
    <3> QED BY <3>1
  <2> QED BY <2>3, <2>4
<1>2. m # 0
  <2> SUFFICES ASSUME m = 0 PROVE FALSE
    OBVIOUS
  <2> DEFINE g == [i \in 0 .. 0 |-> Restored(s)]
  <2>1. g = [i \in 0 .. 0 |->
            IF i = 0 THEN Restored(s)
            ELSE IF ~g[i - 1].ok \/ args[i] = Empty THEN g[i - 1]
            ELSE Offer(s, g[i - 1], args[i])]
    <3> \A i \in 0 .. 0 : i = 0
      OBVIOUS
    <3> QED OBVIOUS
  <2>2. Loop(g, s, args, 0)
    BY <2>1 DEF Loop
  <2> QED BY <2>2, <1>1
<1>3. PICK f : Loop(f, s, args, m - 1)
  BY <1>1, <1>2
<1> DEFINE e(i) == IF i = 0 THEN Restored(s)
                   ELSE IF ~f[i - 1].ok \/ args[i] = Empty THEN f[i - 1]
                   ELSE Offer(s, f[i - 1], args[i])
           g == [i \in 0 .. m |-> e(i)]
<1>4. \A i \in 0 .. m - 1 : f[i] = e(i)
  BY <1>3, LoopAt, <1>2
<1>5. \A i \in 0 .. m : i # 0 => g[i - 1] = f[i - 1]
  <2> HIDE DEF e
  <2> QED BY <1>4
<1>6. g = [i \in 0 .. m |->
            IF i = 0 THEN Restored(s)
            ELSE IF ~g[i - 1].ok \/ args[i] = Empty THEN g[i - 1]
            ELSE Offer(s, g[i - 1], args[i])]
  <2> SUFFICES ASSUME NEW i \in 0 .. m
               PROVE  e(i) = IF i = 0 THEN Restored(s)
                             ELSE IF ~g[i - 1].ok \/ args[i] = Empty THEN g[i - 1]
                             ELSE Offer(s, g[i - 1], args[i])
    OBVIOUS
  <2> HIDE DEF g
  <2> QED BY <1>5
<1>7. Loop(g, s, args, m)
  <2> HIDE DEF g
  <2> QED BY <1>6 DEF Loop
<1> QED BY <1>1, <1>7

LEMMA ParsedIs ==
  ASSUME NEW s, NEW args, Len(args) \in Nat
  PROVE  \E f : Loop(f, s, args, Len(args)) /\ Parsed(s, args) = f[Len(args)]
<1>1. \E f : Loop(f, s, args, Len(args))
  BY LoopExists
<1>2. Loop(CHOOSE f : Loop(f, s, args, Len(args)), s, args, Len(args))
  BY <1>1
<1>3. Parsed(s, args) = (CHOOSE f : Loop(f, s, args, Len(args)))[Len(args)]
  BY DEF Parsed, Loop
<1> QED BY <1>2, <1>3

LEMMA ListedOnce ==
  ASSUME NEW s \in Seq(Objects), InOrder(s), NEW i \in DOMAIN s, NEW j \in DOMAIN s, s[i] = s[j]
  PROVE  i = j
<1>1. i \in Nat /\ j \in Nat
  OBVIOUS
<1> QED BY <1>1 DEF InOrder

\* An argument that fits one option of the table at most, q say, is taken for q's
\* value, and for its first one if it has none.
Fitting(s, a) == {o \in Listed(s) : Accepts(o, a)}

OfferedTo(s, r, a, N) ==
    [value |-> [o \in Listed(s) |-> IF o \in N THEN ValueFor(o, a) ELSE r.value[o]],
     parsed |-> r.parsed \cup N,
     ok |-> N # {} /\ N \cap r.parsed = {}]

LEMMA OfferIs ==
  ASSUME NEW s \in Seq(Objects), InOrder(s), NEW r, NEW a,
         \A o, q \in Fitting(s, a) : o = q
  PROVE  Offer(s, r, a) = OfferedTo(s, r, a, Fitting(s, a))
<1> DEFINE N == Fitting(s, a)
<1>0. N = {o \in Listed(s) : Accepts(o, a)}
  BY DEF Fitting
<1> HIDE DEF N
<1>a. \A o, q \in N : o = q
  BY DEF N
<1> DEFINE accepting == {i \in DOMAIN s : Accepts(s[i], a)}
           open == {i \in accepting : s[i] \notin r.parsed}
           last == IF open = {} THEN Len(s) ELSE Min(open)
           written == {s[i] : i \in {k \in accepting : k <= last}}
<1>1. Offer(s, r, a) =
         [value |-> [o \in Listed(s) |-> IF o \in written THEN ValueFor(o, a) ELSE r.value[o]],
          parsed |-> IF open = {} THEN r.parsed ELSE r.parsed \cup {s[last]},
          ok |-> open # {}]
  BY DEF Offer
<1>2. accepting = {i \in DOMAIN s : s[i] \in N} /\ DOMAIN s = 1 .. Len(s) /\ Len(s) \in Nat
  BY <1>0 DEF Listed
<1>3. \A o \in N : \E i \in DOMAIN s : s[i] = o
  BY <1>0 DEF Listed
<1>4. \A i, j \in accepting : i = j
  BY <1>2, <1>a, ListedOnce
<1> HIDE DEF accepting
<1>5. written = N /\ (open # {} <=> N # {} /\ N \cap r.parsed = {})
      /\ (IF open = {} THEN r.parsed ELSE r.parsed \cup {s[last]}) = r.parsed \cup N
  <2>1. CASE N = {}
    BY <1>2, <2>1
  <2>2. CASE N # {}
    <3>1. PICK j \in accepting : s[j] \in N
      BY <1>2, <1>3, <2>2
    <3>2. accepting = {j}
      BY <1>4, <3>1
    <3>3. N = {s[j]} /\ j \in 1 .. Len(s)
      BY <1>2, <1>3, <3>1, <3>2
    <3>4. CASE s[j] \in r.parsed
      <4>1. open = {} /\ last = Len(s)
        BY <3>2, <3>4
      <4>2. {k \in accepting : k <= last} = {j}
        BY <1>2, <3>2, <3>3, <4>1
      <4>3. written = {s[j]}
        BY <4>2
      <4> HIDE DEF written, open, last
      <4> QED BY <3>3, <3>4, <4>1, <4>3
    <3>5. CASE s[j] \notin r.parsed
      <4>1. open = {j}
        BY <3>2, <3>5
      <4>2. Min(open) = j
        BY <3>3, <4>1 DEF Min
      <4>3. last = j
        BY <4>1, <4>2
      <4>4. {k \in accepting : k <= last} = {j}
        <5> HIDE DEF last
        <5> QED BY <1>2, <3>2, <3>3, <4>3
      <4>5. written = {s[j]}
        BY <4>4
      <4> HIDE DEF written, open, last
      <4> QED BY <3>3, <3>5, <4>1, <4>3, <4>5
    <3> QED BY <3>4, <3>5
  <2> QED BY <2>1, <2>2
<1> HIDE DEF written, open, last
<1> QED BY <1>1, <1>5 DEF OfferedTo, N

Bad(named, args, i) ==
    args[i] # Empty /\ (named[i] = {} \/ \E j \in 1 .. i - 1 : named[j] = named[i])

LEMMA FirstBadIs ==
  ASSUME NEW named, NEW args, NEW n \in Nat, Len(args) = n, DOMAIN args = 1 .. n
  PROVE  /\ FirstBad(named, args) \in 1 .. n + 1
         /\ \A i \in 1 .. n : i < FirstBad(named, args) => ~Bad(named, args, i)
         /\ FirstBad(named, args) <= n => Bad(named, args, FirstBad(named, args))
<1> DEFINE bad == {i \in DOMAIN args : Bad(named, args, i)}
<1>1. FirstBad(named, args) = IF bad = {} THEN Len(args) + 1 ELSE Min(bad)
  BY DEF FirstBad, Bad
<1>2. bad = {i \in 1 .. n : Bad(named, args, i)}
  OBVIOUS
<1>3. CASE bad = {}
  BY <1>1, <1>2, <1>3
<1>4. CASE bad # {}
  <2> HIDE DEF bad
  <2>1. bad \subseteq Nat
    BY <1>2
  <2> DEFINE m == Min(bad)
  <2>2. m \in bad /\ \A k \in bad : m <= k
    BY <1>4, <2>1, LeastNatural
  <2>3. FirstBad(named, args) = m
    BY <1>1, <1>4
  <2> HIDE DEF m
  <2>4. m \in 1 .. n /\ Bad(named, args, m)
    BY <1>2, <2>2
  <2>5. ASSUME NEW i \in 1 .. n, i < m PROVE ~Bad(named, args, i)
    <3>1. i \notin bad
      BY <2>2, <2>4, <2>5
    <3> QED BY <1>2, <3>1
  <2> QED BY <2>3, <2>4, <2>5
<1> QED BY <1>3, <1>4

Naming(named, o, stop, k) == {i \in 1 .. k : i <= stop /\ o \in named[i]}

LastOf(I) == CHOOSE i \in I : \A j \in I : j <= i

LEMMA LastIs ==
  ASSUME NEW I, I \subseteq Nat, NEW m \in I, \A j \in I : j <= m
  PROVE  LastOf(I) = m
<1>1. \E i \in I : \A j \in I : j <= i
  OBVIOUS
<1> DEFINE l == LastOf(I)
<1>2. l \in I /\ \A j \in I : j <= l
  BY <1>1 DEF LastOf
<1> HIDE DEF l
<1>3. l <= m /\ m <= l /\ l \in Nat /\ m \in Nat
  BY <1>2
<1>4. l = m
  BY <1>3
<1> QED BY <1>4 DEF l

\* What each option holds once k arguments were looked at.
ValueAt(named, args, stop, k, o) ==
    IF Naming(named, o, stop, k) = {} THEN AttrOf[o].default
    ELSE ValueFor(o, args[LastOf(Naming(named, o, stop, k))])

After(r, s, named, args, stop, k) ==
    /\ r.ok = (k < stop)
    /\ r.parsed = {o \in Listed(s) : \E i \in 1 .. k : i < stop /\ o \in named[i]}
    /\ r.value = [o \in Listed(s) |-> ValueAt(named, args, stop, k, o)]

\* The arguments of a command line that name one option at most, and what they name.
OneAtMost(s, named, args, n) ==
    /\ n \in Nat /\ Len(args) = n /\ DOMAIN args = 1 .. n
    /\ s \in Seq(Objects) /\ InOrder(s)
    /\ named = NamedBy(s, args)
    /\ \A i \in 1 .. n : \A o, q \in named[i] : o = q

LEMMA NamingStep ==
  ASSUME NEW named, NEW o, NEW stop \in Nat, NEW k \in Nat
  PROVE  Naming(named, o, stop, k + 1) =
            Naming(named, o, stop, k) \cup {i \in {k + 1} : i <= stop /\ o \in named[i]}
  BY DEF Naming

LEMMA ValueStep ==
  ASSUME NEW named, NEW args, NEW o, NEW stop \in Nat, NEW k \in Nat
  PROVE  ValueAt(named, args, stop, k + 1, o) =
            IF k + 1 <= stop /\ o \in named[k + 1] THEN ValueFor(o, args[k + 1])
            ELSE ValueAt(named, args, stop, k, o)
<1> DEFINE J == Naming(named, o, stop, k + 1)
<1>1. J = Naming(named, o, stop, k) \cup {i \in {k + 1} : i <= stop /\ o \in named[i]}
  BY NamingStep
<1>2. CASE k + 1 <= stop /\ o \in named[k + 1]
  <2>1. k + 1 \in J
    BY <1>1, <1>2
  <2>2. J \subseteq Nat /\ \A j \in J : j <= k + 1
    BY DEF Naming
  <2> HIDE DEF J
  <2>3. LastOf(J) = k + 1
    BY <2>1, <2>2, LastIs
  <2>4. J # {}
    BY <2>1
  <2> QED BY <1>2, <2>3, <2>4 DEF ValueAt, J
<1>3. CASE ~(k + 1 <= stop /\ o \in named[k + 1])
  <2>1. J = Naming(named, o, stop, k)
    BY <1>1, <1>3
  <2> HIDE DEF J
  <2>2. ValueAt(named, args, stop, k + 1, o) = ValueAt(named, args, stop, k, o)
    BY <2>1 DEF ValueAt, J
  <2> QED BY <1>3, <2>2
<1> QED BY <1>2, <1>3

LEMMA AfterStep ==
  ASSUME NEW s, NEW named, NEW args, NEW n, OneAtMost(s, named, args, n),
         NEW k \in Nat, k < n, NEW r, After(r, s, named, args, FirstBad(named, args), k),
         NEW q, q = IF ~r.ok \/ args[k + 1] = Empty THEN r ELSE Offer(s, r, args[k + 1])
  PROVE  After(q, s, named, args, FirstBad(named, args), k + 1)
<1> DEFINE stop == FirstBad(named, args)
           a == args[k + 1]
           N == Fitting(s, a)
<1>1. n \in Nat /\ Len(args) = n /\ DOMAIN args = 1 .. n /\ k + 1 \in 1 .. n
  BY DEF OneAtMost
<1>2. /\ stop \in 1 .. n + 1 /\ \A i \in 1 .. n : i < stop => ~Bad(named, args, i)
      /\ stop <= n => Bad(named, args, stop)
  BY <1>1, FirstBadIs
<1>3. named[k + 1] = {o \in Listed(s) : a # Empty /\ Accepts(o, a)}
  BY <1>1 DEF OneAtMost, NamedBy, a
<1>4. /\ r.ok = (k < stop)
      /\ r.parsed = {o \in Listed(s) : \E i \in 1 .. k : i < stop /\ o \in named[i]}
      /\ r.value = [o \in Listed(s) |-> ValueAt(named, args, stop, k, o)]
  BY DEF After
<1> HIDE DEF stop, a
<1>5. ASSUME NEW o \in Listed(s)
      PROVE  ValueAt(named, args, stop, k + 1, o) =
                IF k + 1 <= stop /\ o \in named[k + 1] THEN ValueFor(o, a)
                ELSE ValueAt(named, args, stop, k, o)
  BY <1>2, ValueStep DEF a
<1>6. stop \in Nat
  BY <1>1, <1>2
<1>7. CASE ~(k + 1 <= stop /\ named[k + 1] # {}) /\ q = r /\ ((k + 1 < stop) <=> (k < stop))
  <2>1. q.ok = (k + 1 < stop)
    BY <1>4, <1>7
  <2>2. q.value = [o \in Listed(s) |-> ValueAt(named, args, stop, k + 1, o)]
    BY <1>4, <1>5, <1>7
  <2>3. ASSUME NEW o
        PROVE  (\E i \in 1 .. k : i < stop /\ o \in named[i]) <=>
                  (\E i \in 1 .. k + 1 : i < stop /\ o \in named[i])
    <3>1. \A i \in 1 .. k + 1 : i < stop /\ o \in named[i] => i \in 1 .. k
      BY <1>1, <1>6, <1>7
    <3>2. \A i \in 1 .. k : i \in 1 .. k + 1
      OBVIOUS
    <3> QED BY <3>1, <3>2
  <2>4. q.parsed = {o \in Listed(s) : \E i \in 1 .. k + 1 : i < stop /\ o \in named[i]}
    BY <1>4, <1>7, <2>3
  <2> QED BY <2>1, <2>2, <2>4 DEF After, stop
<1>8. CASE ~r.ok
  <2>1. ~(k < stop)
    BY <1>4, <1>8
  <2>2. ~(k + 1 <= stop) /\ ~(k + 1 < stop)
    BY <1>6, <2>1
  <2> QED BY <1>7, <1>8, <2>1, <2>2 DEF a
<1>9. CASE r.ok /\ a = Empty
  <2>1. k < stop /\ q = r /\ named[k + 1] = {}
    BY <1>3, <1>4, <1>9 DEF a
  <2>2. stop # k + 1
    BY <1>1, <1>2, <1>9 DEF Bad, a
  <2>3. k + 1 < stop
    BY <1>6, <2>1, <2>2
  <2> QED BY <1>7, <2>1, <2>3
<1>10. CASE r.ok /\ a # Empty
  <2>1. k < stop /\ k + 1 <= stop /\ q = Offer(s, r, a) /\ named[k + 1] = N
    <3>1. k < stop /\ k + 1 <= stop
      <4>1. k < stop
        BY <1>4, <1>10, Zenon
      <4> QED BY <1>6, <4>1
    <3>2. q = Offer(s, r, a)
      BY <1>10 DEF a
    <3>3. named[k + 1] = N
      BY <1>3, <1>10 DEF Fitting
    <3> QED BY <3>1, <3>2, <3>3
  <2>2. s \in Seq(Objects) /\ InOrder(s) /\ \A o, p \in Fitting(s, a) : o = p
    <3>1. \A o, p \in N : o = p
      BY <1>1, <2>1 DEF OneAtMost
    <3> QED BY <3>1 DEF OneAtMost
  <2>3. q = [value |-> [o \in Listed(s) |-> IF o \in N THEN ValueFor(o, a) ELSE r.value[o]],
             parsed |-> r.parsed \cup N,
             ok |-> N # {} /\ N \cap r.parsed = {}]
    <3>1. Offer(s, r, a) = OfferedTo(s, r, a, N)
      BY <2>2, OfferIs
    <3> QED BY <2>1, <3>1 DEF OfferedTo
  <2>4. Bad(named, args, k + 1) <=> ~(N # {} /\ N \cap r.parsed = {})
    <3>1. ASSUME N # {} PROVE (\E j \in 1 .. k : named[j] = N) <=> N \cap r.parsed # {}
      <4>1. PICK o : N = {o} /\ o \in Listed(s)
        BY <2>2, <3>1 DEF Fitting
      <4>2. N \cap r.parsed # {} <=> \E j \in 1 .. k : o \in named[j]
        <5>1. \A j \in 1 .. k : j < stop
          BY <1>6, <2>1
        <5> HIDE DEF N
        <5> QED BY <1>4, <4>1, <5>1
      <4>3. \A j \in 1 .. k : named[j] = N <=> o \in named[j]
        <5>1. ASSUME NEW j \in 1 .. k PROVE \A p1, p2 \in named[j] : p1 = p2
          <6>1. j \in 1 .. n
            BY <1>1
          <6> QED BY <6>1 DEF OneAtMost
        <5> HIDE DEF N
        <5> QED BY <4>1, <5>1
      <4> QED BY <4>2, <4>3
    <3>2. k + 1 - 1 = k
      OBVIOUS
    <3>3. Bad(named, args, k + 1) <=> (N = {} \/ \E j \in 1 .. k : named[j] = N)
      BY <1>10, <2>1, <3>2 DEF Bad, a
    <3> HIDE DEF N
    <3> QED BY <3>1, <3>3
  <2>5. q.ok = (k + 1 < stop)
    <3>1. Bad(named, args, k + 1) <=> ~(k + 1 < stop)
      <4>1. CASE k + 1 < stop
        BY <1>1, <1>2, <4>1
      <4>2. CASE ~(k + 1 < stop)
        <5>1. k + 1 = stop /\ stop <= n
          BY <1>1, <1>6, <2>1, <4>2
        <5> QED BY <1>2, <4>2, <5>1
      <4> QED BY <4>1, <4>2
    <3>2. q.ok = (N # {} /\ N \cap r.parsed = {})
      BY <2>3
    <3> HIDE DEF N
    <3>3. q.ok <=> k + 1 < stop
      BY <2>4, <3>1, <3>2
    <3>4. q.ok \in BOOLEAN /\ (k + 1 < stop) \in BOOLEAN
      <4>1. (N # {} /\ N \cap r.parsed = {}) \in BOOLEAN
        BY Zenon
      <4>2. q.ok \in BOOLEAN
        BY <3>2, <4>1, Zenon
      <4>3. (k + 1 < stop) \in BOOLEAN
        BY <1>6
      <4> QED BY <4>2, <4>3
    <3> QED BY <3>3, <3>4
  <2>6. q.value = [o \in Listed(s) |-> ValueAt(named, args, stop, k + 1, o)]
    <3>1. q.value = [o \in Listed(s) |-> IF o \in N THEN ValueFor(o, a) ELSE r.value[o]]
      BY <2>3
    <3>2. \A o \in Listed(s) : (IF o \in N THEN ValueFor(o, a) ELSE r.value[o])
                                   = ValueAt(named, args, stop, k + 1, o)
      <4> HIDE DEF N
      <4> QED BY <1>4, <1>5, <2>1
    <3> HIDE DEF N
    <3> QED BY <3>1, <3>2
  <2>7. q.parsed = {o \in Listed(s) : \E i \in 1 .. k + 1 : i < stop /\ o \in named[i]}
    \* The offending argument, if this is it, names what was parsed before.
    <3>1. q.parsed = r.parsed \cup N
      BY <2>3
    <3>2. N \subseteq Listed(s)
      BY DEF Fitting
    <3> HIDE DEF N
    <3>3. ASSUME NEW o \in Listed(s)
          PROVE  o \in r.parsed \cup N <=> \E i \in 1 .. k + 1 : i < stop /\ o \in named[i]
      <4>1. o \in r.parsed <=> \E i \in 1 .. k : i < stop /\ o \in named[i]
        BY <1>4
      <4>2. CASE k + 1 < stop
        BY <2>1, <4>1, <4>2
      <4>3. CASE ~(k + 1 < stop)
        <5>1. ~(N # {} /\ N \cap r.parsed = {})
          <6>1. k + 1 = stop /\ stop <= n
            BY <1>1, <1>6, <2>1, <4>3
          <6> QED BY <1>2, <2>4, <6>1
        <5>2. o \in N => o \in r.parsed
          <6>1. \A o1, o2 \in N : o1 = o2
            BY <2>2 DEF N
          <6> QED BY <5>1, <6>1
        <5>3. \A i \in 1 .. k + 1 : i < stop => i \in 1 .. k
          BY <1>6, <2>1, <4>3
        <5> QED BY <4>1, <5>2, <5>3
      <4> QED BY <4>2, <4>3
    <3> QED BY <1>4, <3>1, <3>2, <3>3
  <2> QED BY <2>5, <2>6, <2>7 DEF After, stop
<1> QED BY <1>8, <1>9, <1>10, <1>4, <1>6

\* Whatever was parsed before, each option is as its own arguments up to the first
\* bad one say.
LEMMA AfterAll ==
  ASSUME NEW s, NEW named, NEW args, NEW n, OneAtMost(s, named, args, n),
         NEW f, Loop(f, s, args, n)
  PROVE  After(f[n], s, named, args, FirstBad(named, args), n)
<1> DEFINE Holds(k) == After(f[k], s, named, args, FirstBad(named, args), k)
           T == {k \in Nat : k <= n /\ ~Holds(k)}
<1>1. n \in Nat /\ Len(args) = n /\ DOMAIN args = 1 .. n
  BY DEF OneAtMost
<1>2. Holds(0)
  <2> DEFINE stop == FirstBad(named, args)
  <2>1. stop \in 1 .. n + 1
    BY <1>1, FirstBadIs
  <2>2. f[0] = Restored(s)
    BY <1>1, LoopAt
  <2> HIDE DEF stop
  <2>3. TRUE = (0 < stop)
    BY <1>1, <2>1
  <2>4. \A o : Naming(named, o, stop, 0) = {}
    BY DEF Naming
  <2>5. \A o : ~ \E i \in 1 .. 0 : i < stop /\ o \in named[i]
    OBVIOUS
  <2>6. After(Restored(s), s, named, args, stop, 0)
    BY <2>3, <2>4, <2>5 DEF After, Restored, ValueAt
  <2> QED BY <2>2, <2>6 DEF stop
<1>3. ASSUME NEW k \in Nat, k < n, Holds(k) PROVE Holds(k + 1)
  <2>1. k + 1 \in 0 .. n /\ k + 1 # 0 /\ (k + 1) - 1 = k
    BY <1>1, <1>3
  <2>2. f[k + 1] = IF ~f[k].ok \/ args[k + 1] = Empty THEN f[k] ELSE Offer(s, f[k], args[k + 1])
    BY <1>1, <2>1, LoopAt
  <2> QED BY <1>3, <2>2, AfterStep
<1> SUFFICES ASSUME T # {} PROVE FALSE
  <2> HIDE DEF Holds
  <2>1. Holds(n)
    BY <1>1
  <2> QED BY <2>1 DEF Holds
<1>4. Min(T) \in T /\ \A k \in T : Min(T) <= k
  <2>1. T \subseteq Nat
    OBVIOUS
  <2> HIDE DEF T
  <2> QED BY <2>1, LeastNatural
<1> DEFINE m == Min(T)
<1> HIDE DEF m, Holds
<1>5. m \in Nat /\ m <= n /\ ~Holds(m) /\ \A k \in T : m <= k
  BY <1>4 DEF m
<1>6. m - 1 \in Nat /\ m - 1 < n /\ (m - 1) + 1 = m
  BY <1>1, <1>2, <1>5
<1>7. Holds(m - 1)
  <2>1. \A k \in Nat : k <= n /\ k \notin T => Holds(k)
    OBVIOUS
  <2>2. m - 1 \notin T
    <3> HIDE DEF T
    <3> QED BY <1>5, <1>6
  <2>3. m - 1 <= n
    BY <1>1, <1>6
  <2> HIDE DEF T
  <2> QED BY <1>6, <2>1, <2>2, <2>3
<1> QED BY <1>3, <1>5, <1>6, <1>7

LEMMA ListedFinite ==
  ASSUME NEW s \in Seq(Objects)
  PROVE  IsFiniteSet(Listed(s))
<1> DEFINE T == Listed(s)
<1>1. s \in [1 .. Len(s) -> T] /\ \A x \in T : \E i \in 1 .. Len(s) : s[i] = x
  BY DEF Listed
<1>2. IsFiniteSet(1 .. Len(s))
  BY FS_Interval
<1>3. s \in Surjection(1 .. Len(s), T)
  BY <1>1 DEF Surjection
<1> HIDE DEF T
<1>4. IsFiniteSet(T)
  BY <1>2, <1>3, FS_Surjection
<1> QED BY <1>4 DEF T

LEMMA AtMostOne ==
  ASSUME NEW S, IsFiniteSet(S), Cardinality(S) <= 1, NEW x \in S, NEW y \in S
  PROVE  x = y
<1> SUFFICES ASSUME x # y PROVE FALSE
  OBVIOUS
<1>1. IsFiniteSet({x}) /\ Cardinality({x}) = 1
  BY FS_Singleton
<1>2. Cardinality({x} \cup {y}) = 2
  BY <1>1, FS_AddElement
<1>3. {x} \cup {y} \in SUBSET S
  OBVIOUS
<1>4. Cardinality({x} \cup {y}) <= Cardinality(S) /\ Cardinality(S) \in Nat
  BY <1>3, FS_Subset, FS_CardinalityType
<1> QED BY <1>2, <1>4

LEMMA VisibleIs ==
  ASSUME NEW args \in ArgLists
  PROVE  Len(Visible(args)) \in Nat /\ DOMAIN Visible(args) = 1 .. Len(Visible(args))
<1> DEFINE S == {args[i] : i \in DOMAIN args}
           dashes == {i \in DOMAIN args : args[i] = DashDash}
<1>1. args \in Seq(S)
  BY ArgumentsAssumption
<1>2. CASE dashes = {}
  BY <1>1, <1>2 DEF Visible
<1>3. CASE dashes # {}
  <2> DEFINE m == Min(dashes)
  <2>1. dashes \subseteq 1 .. Len(args)
    BY <1>1
  <2>2. m \in dashes
    <3> HIDE DEF dashes
    <3>1. dashes \subseteq Nat
      BY <2>1
    <3> QED BY <1>3, <3>1, LeastNatural
  <2>3. Visible(args) = SubSeq(args, 1, m - 1)
    BY <1>3 DEF Visible
  <2> HIDE DEF m, dashes, S
  <2>4. m \in 1 .. Len(args) /\ Len(args) \in Nat
    BY <1>1, <2>1, <2>2
  <2>5. SubSeq(args, 1, m - 1) \in Seq(S)
    BY <1>1, <2>4
  <2> QED BY <2>3, <2>5
<1> QED BY <1>2, <1>3

\* The value of a built-in option is a Boolean.
LEMMA BuiltinValues ==
  ASSUME NEW p \in AllParsers, NEW b \in Builtins,
         NEW named, NEW args, NEW stop, NEW n
  PROVE  ValueAt(named, args, stop, n, <<p, b>>) \in BOOLEAN
<1> DEFINE o == <<p, b>>
<1>1. o \in Objects /\ o \notin Handles \cup Statics /\ o[2] = b
  BY OptionsAssumption DEF Objects
<1>2. AttrOf[o] = BuiltinAttr(b)
  BY <1>1 DEF AttrOf
<1> HIDE DEF o
<1>3. AttrOf[o].kind = "bool" /\ AttrOf[o].default = FALSE
  BY <1>2 DEF BuiltinAttr
<1>4. \A a : ValueFor(o, a) = (~NamesNegated(o, a) /\ a.value # 0)
  BY <1>3 DEF ValueFor
<1>5. \A a : ValueFor(o, a) \in BOOLEAN
  <2> SUFFICES ASSUME NEW a PROVE ValueFor(o, a) \in BOOLEAN
    OBVIOUS
  <2>1. (~NamesNegated(o, a) /\ a.value # 0) \in BOOLEAN
    BY Zenon
  <2>2. ValueFor(o, a) = (~NamesNegated(o, a) /\ a.value # 0)
    BY <1>4
  <2> QED BY <2>1, <2>2, Zenon
<1>6. ValueAt(named, args, stop, n, o) \in BOOLEAN
  BY <1>3, <1>5 DEF ValueAt
<1> QED BY <1>6 DEF o

ValuesOf(args, named, o) ==
    IF o \in UNION {named[i] : i \in DOMAIN args}
    THEN {ValueFor(o, args[i]) : i \in {k \in DOMAIN args : o \in named[k]}}
    ELSE {AttrOf[o].default}

\* With no bad argument every option was given one value at most.
LEMMA ValuesAre ==
  ASSUME NEW s, NEW named, NEW args, NEW n, OneAtMost(s, named, args, n),
         NEW r, After(r, s, named, args, FirstBad(named, args), n),
         ~(FirstBad(named, args) <= n), NEW o \in Listed(s)
  PROVE  /\ ValuesOf(args, named, o) = {r.value[o]}
         /\ o \in r.parsed <=> o \in UNION {named[i] : i \in DOMAIN args}
<1> DEFINE stop == FirstBad(named, args)
           I == {i \in DOMAIN args : o \in named[i]}
<1>1. n \in Nat /\ Len(args) = n /\ DOMAIN args = 1 .. n
  BY DEF OneAtMost
<1>2. stop = n + 1 /\ \A i \in 1 .. n : ~Bad(named, args, i)
  <2>1. stop \in 1 .. n + 1 /\ \A i \in 1 .. n : i < stop => ~Bad(named, args, i)
    BY <1>1, FirstBadIs
  <2> HIDE DEF stop
  <2>2. ~(stop <= n)
    BY DEF stop
  <2> QED BY <1>1, <2>1, <2>2
<1>3. /\ r.parsed = {q \in Listed(s) : \E i \in 1 .. n : i < stop /\ q \in named[i]}
      /\ r.value[o] = ValueAt(named, args, stop, n, o)
  BY DEF After
<1> HIDE DEF stop
<1>4. Naming(named, o, stop, n) = I
  BY <1>1, <1>2 DEF Naming
<1>5. o \in UNION {named[i] : i \in DOMAIN args} <=> I # {}
  OBVIOUS
<1>6. o \in r.parsed <=> I # {}
  BY <1>1, <1>2, <1>3
<1>7. ValuesOf(args, named, o) = IF I = {} THEN {AttrOf[o].default}
                                 ELSE {ValueFor(o, args[i]) : i \in I}
  BY <1>5 DEF ValuesOf
<1>8. ASSUME NEW i \in I, NEW j \in I PROVE ~(i < j)
  <2> SUFFICES ASSUME i < j PROVE FALSE
    OBVIOUS
  <2>1. args[j] # Empty
    BY DEF OneAtMost, NamedBy
  <2>2. i \in 1 .. n /\ j \in 1 .. n
    BY <1>1
  <2>3. named[i] = {o} /\ named[j] = {o}
    BY <2>2 DEF OneAtMost
  <2>4. i \in 1 .. j - 1
    BY <1>1, <2>2
  <2> QED BY <1>2, <2>1, <2>2, <2>3, <2>4 DEF Bad
<1>9. CASE I = {}
  <2>1. r.value[o] = AttrOf[o].default
    BY <1>3, <1>4, <1>9 DEF ValueAt
  <2> HIDE DEF I
  <2> QED BY <1>5, <1>6, <1>7, <1>9, <2>1
<1>10. CASE I # {}
  <2>1. PICK i : i \in I
    BY <1>10
  <2>2. I \subseteq Nat
    BY <1>1
  <2>3. \A j \in I : j = i
    BY <1>8, <2>1, <2>2
  <2> HIDE DEF I
  <2>4. I = {i}
    BY <2>1, <2>3
  <2>5. \A j \in I : j <= i
    BY <2>1, <2>2, <2>3
  <2>6. LastOf(I) = i
    BY <2>1, <2>2, <2>5, LastIs
  <2>7. r.value[o] = ValueFor(o, args[i])
    BY <1>3, <1>4, <1>10, <2>6 DEF ValueAt
  <2>8. ValuesOf(args, named, o) = {ValueFor(o, args[i])}
    BY <1>7, <1>10, <2>4
  <2> QED BY <1>5, <1>6, <1>10, <2>7, <2>8
<1> QED BY <1>9, <1>10

OwnTable(p, s) ==
    /\ {p} \X Builtins \subseteq Listed(s)
    /\ Listed(s) \ (Handles \cup Statics) \subseteq {p} \X Builtins

LEMMA VerdictIs ==
  ASSUME NEW p \in AllParsers, NEW s, OwnTable(p, s),
         NEW named, NEW args, NEW n, OneAtMost(s, named, args, n),
         NEW r, After(r, s, named, args, FirstBad(named, args), n)
  PROVE  Verdict(p, s, r, Len(args)) = ExpectedAnswer(s, args, named)
<1> DEFINE stop == FirstBad(named, args)
           given == UNION {named[i] : i \in DOMAIN args}
           values(o) == ValuesOf(args, named, o)
           exits == \E o \in Listed(s) \ (Handles \cup Statics) : TRUE \in values(o)
           help == r.value[<<p, "help">>]
           version == r.value[<<p, "version">>]
<1>1. n \in Nat /\ Len(args) = n /\ DOMAIN args = 1 .. n
  BY DEF OneAtMost
<1>2. r.ok = (n < stop) /\ r.value = [o \in Listed(s) |-> ValueAt(named, args, stop, n, o)]
  BY DEF After
<1>3. stop \in 1 .. n + 1
  BY <1>1, FirstBadIs
<1>4. ExpectedAnswer(s, args, named) =
         IF stop <= Len(args) \/ (exits /\ Len(args) # 1) THEN "exit_failure"
         ELSE IF exits THEN "exit_success"
         ELSE IF \A o \in Listed(s) : /\ AttrOf[o].required => o \in given
                                      /\ values(o) \cap AttrOf[o].refused = {}
              THEN "success"
         ELSE "exit_failure"
  BY DEF ExpectedAnswer, ValuesOf
<1>5. Verdict(p, s, r, Len(args)) =
         IF ~r.ok \/ ((help \/ version) /\ Len(args) # 1) THEN "exit_failure"
         ELSE IF help \/ version THEN "exit_success"
         ELSE IF \E o \in Listed(s) : AttrOf[o].required /\ o \notin r.parsed THEN "exit_failure"
         ELSE IF \E o \in Listed(s) : r.value[o] \in AttrOf[o].refused THEN "exit_failure"
         ELSE "success"
  BY DEF Verdict
<1>6. CASE stop <= n
  <2> HIDE DEF stop
  <2>1. ~(n < stop)
    BY <1>1, <1>3, <1>6
  <2>2. ~r.ok
    BY <1>2, <2>1, Zenon
  <2>3. stop <= Len(args)
    BY <1>1, <1>6
  <2> HIDE DEF exits, help, version, values, given
  <2>4. Verdict(p, s, r, Len(args)) = "exit_failure"
    BY <1>5, <2>2, Zenon
  <2>5. ExpectedAnswer(s, args, named) = "exit_failure"
    BY <1>4, <2>3, Zenon
  <2> QED BY <2>4, <2>5
<1>7. CASE ~(stop <= n)
  <2>1. \A o \in Listed(s) : values(o) = {r.value[o]} /\ (o \in r.parsed <=> o \in given)
    BY <1>7, ValuesAre
  <2>2. \A b \in Builtins : r.value[<<p, b>>] \in BOOLEAN /\ <<p, b>> \in Listed(s)
    <3> SUFFICES ASSUME NEW b \in Builtins
                 PROVE  r.value[<<p, b>>] \in BOOLEAN /\ <<p, b>> \in Listed(s)
      OBVIOUS
    <3>1. <<p, b>> \in Listed(s)
      BY DEF OwnTable
    <3>2. ValueAt(named, args, stop, n, <<p, b>>) \in BOOLEAN
      BY BuiltinValues
    <3> HIDE DEF stop
    <3> QED BY <1>2, <3>1, <3>2
  <2> HIDE DEF stop, values, given
  <2>3. exits <=> help \/ version
    <3>1. ASSUME exits PROVE help \/ version
      <4>1. PICK o \in Listed(s) \ (Handles \cup Statics) : TRUE \in values(o)
        BY <3>1
      <4>2. PICK b \in Builtins : o = <<p, b>>
        BY DEF OwnTable
      <4>3. r.value[<<p, b>>] = TRUE
        BY <2>1, <4>1, <4>2
      <4> QED BY <4>3 DEF Builtins
    <3>2. ASSUME NEW b \in Builtins, r.value[<<p, b>>] PROVE exits
      <4> DEFINE o == <<p, b>>
      <4>1. o \in Listed(s) /\ o \notin Handles \cup Statics
        BY <2>2, OptionsAssumption DEF Objects
      <4>2. r.value[o] = TRUE
        BY <2>2, <3>2
      <4> HIDE DEF o
      <4> QED BY <2>1, <4>1, <4>2
    <3>3. "help" \in Builtins /\ "version" \in Builtins
      BY DEF Builtins
    <3> HIDE DEF exits
    <3> QED BY <3>1, <3>2, <3>3
  <2>4. r.ok /\ ~(stop <= Len(args))
    <3>1. n < stop
      BY <1>1, <1>3, <1>7
    <3>2. r.ok
      BY <1>2, <3>1, Zenon
    <3> QED BY <1>1, <1>7, <3>2
  <2>5. (\A o \in Listed(s) : /\ AttrOf[o].required => o \in given
                              /\ values(o) \cap AttrOf[o].refused = {})
        <=> ~(\E o \in Listed(s) : AttrOf[o].required /\ o \notin r.parsed)
            /\ ~(\E o \in Listed(s) : r.value[o] \in AttrOf[o].refused)
    <3>1. \A o \in Listed(s) : values(o) \cap AttrOf[o].refused = {} <=> r.value[o] \notin AttrOf[o].refused
      BY <2>1
    <3> QED BY <2>1, <3>1
  <2> HIDE DEF exits, help, version
  <2> QED BY <1>4, <1>5, <2>3, <2>4, <2>5
<1> QED BY <1>6, <1>7

LEMMA ParsingIs ==
  ASSUME NEW p \in AllParsers, NEW s \in Seq(Objects), InOrder(s), OwnTable(p, s),
         NEW args, Len(args) \in Nat, DOMAIN args = 1 .. Len(args),
         \A i \in DOMAIN args : Cardinality(NamedBy(s, args)[i]) <= 1
  PROVE  /\ After(Parsed(s, args), s, NamedBy(s, args), args,
                  FirstBad(NamedBy(s, args), args), Len(args))
         /\ Verdict(p, s, Parsed(s, args), Len(args)) = ExpectedAnswer(s, args, NamedBy(s, args))
<1> DEFINE named == NamedBy(s, args)
           n == Len(args)
<1>1. ASSUME NEW i \in 1 .. n, NEW o \in named[i], NEW q \in named[i] PROVE o = q
  <2>1. named[i] \subseteq Listed(s) /\ Cardinality(named[i]) <= 1
    BY DEF NamedBy
  <2>2. IsFiniteSet(named[i])
    <3> HIDE DEF named
    <3> QED BY <2>1, ListedFinite, FS_Subset
  <2> HIDE DEF named
  <2> QED BY <2>1, <2>2, AtMostOne
<1>2. OneAtMost(s, named, args, n)
  <2>1. named = NamedBy(s, args) /\ n = Len(args)
    OBVIOUS
  <2> HIDE DEF named
  <2> QED BY <1>1, <2>1 DEF OneAtMost
<1>3. PICK f : Loop(f, s, args, n) /\ Parsed(s, args) = f[n]
  BY ParsedIs
<1>4. After(Parsed(s, args), s, named, args, FirstBad(named, args), n)
  <2> HIDE DEF named
  <2> QED BY <1>2, <1>3, AfterAll
<1>5. Verdict(p, s, Parsed(s, args), Len(args)) = ExpectedAnswer(s, args, named)
  <2> HIDE DEF named
  <2> QED BY <1>2, <1>4, VerdictIs
<1> QED BY <1>4, <1>5

-----------------------------------------------------------------------------
(* Built-in options.                                                       *)

\* No table has the built-in options of another parser.
OwnBuiltins ==
    \A p \in AllParsers : Listed(options[p]) \ (Handles \cup Statics) \subseteq {p} \X Builtins

LEMMA OwnStep ==
  ASSUME OwnBuiltins, IInv, NEW p \in AllParsers, NEW s,
         options' = [options EXCEPT ![p] = s],
         Listed(s) \ (Handles \cup Statics) \subseteq {p} \X Builtins
  PROVE  OwnBuiltins'
<1>1. \A q \in AllParsers : options'[q] = IF q = p THEN s ELSE options[q]
  BY DEF IInv, TypeOK
<1> QED BY <1>1 DEF OwnBuiltins, Listed

LEMMA OwnTables ==
  ASSUME OwnBuiltins, IInv, NEW p \in AllParsers
  PROVE  /\ Listed(options[p]) \ (Handles \cup Statics) \subseteq {p} \X Builtins
         /\ Listed(TableOf(p)) \ (Handles \cup Statics) \subseteq {p} \X Builtins
         /\ \A o \in Handles \cup Statics, s \in {options[p], TableOf(p)} :
               Listed(Merged(s, o)) \ (Handles \cup Statics) \subseteq {p} \X Builtins
         /\ \A o : Listed(Without(options[p], o)) \ (Handles \cup Statics) \subseteq {p} \X Builtins
<1>1. Listed(options[p]) \ (Handles \cup Statics) \subseteq {p} \X Builtins
  BY DEF OwnBuiltins
<1>2. Listed(TableOf(p)) \ (Handles \cup Statics) \subseteq {p} \X Builtins
  BY <1>1, FreshTableIs DEF TableOf
<1>3. options[p] \in Seq(Objects) /\ TableOf(p) \in Seq(Objects) /\ InOrder(options[p])
  BY TableTypes
<1>4. \A o \in Handles \cup Statics, s \in {options[p], TableOf(p)} :
               Listed(Merged(s, o)) = Listed(s) \cup {o}
  BY <1>3, MergedType, ObjectsApart
<1>5. \A o : Listed(Without(options[p], o)) = Listed(options[p]) \ {o}
  BY <1>3, WithoutType
<1> QED BY <1>1, <1>2, <1>4, <1>5

LEMMA NextOwn == OwnBuiltins /\ IInv /\ [Next]_vars => OwnBuiltins'
<1> SUFFICES ASSUME OwnBuiltins, IInv, [Next]_vars PROVE OwnBuiltins'
  OBVIOUS
<1>1. ASSUME options' = options PROVE OwnBuiltins'
  BY <1>1 DEF OwnBuiltins, Listed
<1>2. Global \in AllParsers /\ Parsers \subseteq AllParsers
  BY DEF AllParsers
<1>3. Listed(<<>>) = {}
  BY DEF Listed
<1>4. CASE OptionCalls
  <2>1. options' = options
    BY <1>4 DEF OptionCalls, CreateOption, DestroyOption, RestoreDefault
  <2> QED BY <1>1, <2>1
<1>5. CASE ParserCalls
  <2>1. PICK p \in Parsers : \/ CreateParser(p)
                             \/ DestroyParser(p)
                             \/ \E o \in Handles : Register(p, o) \/ Unregister(p, o)
    BY <1>5 DEF ParserCalls
  <2>2. CASE CreateParser(p)
    <3>1. options' = [options EXCEPT ![p] = FreshTable(p)]
      BY <2>2 DEF CreateParser
    <3> QED BY <3>1, <1>2, OwnStep, FreshTableIs
  <2>3. CASE DestroyParser(p)
    <3>1. options' = [options EXCEPT ![p] = <<>>]
      BY <2>3 DEF DestroyParser
    <3> QED BY <3>1, <1>2, <1>3, OwnStep
  <2>4. ASSUME NEW o \in Handles, Register(p, o) PROVE OwnBuiltins'
    <3>1. options' = [options EXCEPT ![p] = Merged(options[p], o)]
      BY <2>4 DEF Register
    <3> QED BY <3>1, <1>2, OwnStep, OwnTables
  <2>5. ASSUME NEW o \in Handles, Unregister(p, o) PROVE OwnBuiltins'
    <3>1. options' = [options EXCEPT ![p] = Without(options[p], o)]
      BY <2>5 DEF Unregister
    <3> QED BY <3>1, <1>2, OwnStep, OwnTables
  <2> QED BY <2>1, <2>2, <2>3, <2>4, <2>5
<1>6. CASE StaticLifetime
  <2>1. ASSUME NEW o \in Statics, StaticConstructed(o) PROVE OwnBuiltins'
    <3> DEFINE table == TableOf(Global)
               s == IF CanRegister(table, o) THEN Merged(table, o) ELSE table
    <3>1. options' = [options EXCEPT ![Global] = s]
      BY <2>1 DEF StaticConstructed
    <3>2. Listed(s) \ (Handles \cup Statics) \subseteq {Global} \X Builtins
      BY <1>2, OwnTables
    <3> HIDE DEF s
    <3> QED BY <3>1, <3>2, <1>2, OwnStep
  <2>2. ASSUME NEW o \in Statics, StaticDestroyed(o) PROVE OwnBuiltins'
    <3>1. options' = IF Global \in live
                     THEN [options EXCEPT ![Global] = Without(options[Global], o)] ELSE options
      BY <2>2 DEF StaticDestroyed
    <3>2. CASE Global \in live
      BY <3>1, <3>2, <1>2, OwnStep, OwnTables
    <3> QED BY <3>1, <3>2, <1>1
  <2>3. CASE GlobalDestroyed
    <3>1. options' = [options EXCEPT ![Global] = <<>>]
      BY <2>3 DEF GlobalDestroyed
    <3> QED BY <3>1, <1>2, <1>3, OwnStep
  <2> QED BY <1>6, <2>1, <2>2, <2>3 DEF StaticLifetime
<1>7. CASE Parsing
  <2>1. PICK p \in AllParsers, args \in ArgLists : Parse(p, args)
    BY <1>7 DEF Parsing
  <2>2. options' = [options EXCEPT ![p] = TableOf(p)]
    BY <2>1 DEF Parse
  <2> QED BY <2>2, OwnStep, OwnTables
<1>8. CASE UNCHANGED vars
  BY <1>1, <1>8 DEF vars
<1> QED BY <1>4, <1>5, <1>6, <1>7, <1>8 DEF Next

LEMMA InitOwn == Init => OwnBuiltins
  BY DEF Init, OwnBuiltins, Listed

-----------------------------------------------------------------------------
(* Theorems.                                                               *)

\* Every variable keeps its type; in particular no reference count is negative.
THEOREM OptionsTypeCorrect == Spec => []TypeOK
<1>1. IInv => TypeOK
  BY DEF IInv
<1> QED BY <1>1, InitIInv, NextIInv, PTL DEF Spec

\* The count of an option is the number of its host and parsers that refer to
\* it (zozz_options.cpp:56-63), and the binding's list and ozz's table of a parser
\* say the same: an option is freed when the last one lets go, by whichever call,
\* and never while a table points to it.
THEOREM ReferencesCorrect == Spec => []ReferencesAgree
<1>1. IInv => ReferencesAgree
  BY DEF IInv, ReferencesAgree
<1> QED BY <1>1, InitIInv, NextIInv, PTL DEF Spec

\* Tables are sorted, with no name twice, whatever came and went.
THEOREM TablesCorrect == Spec => []TableInOrder
<1>1. IInv => TableInOrder
  BY DEF IInv
<1> QED BY <1>1, InitIInv, NextIInv, PTL DEF Spec

\* Between any two calls, the answer of the next parse and what it leaves in every
\* option follow from its arguments and the options registered (options.cc:397-506):
\* not from earlier parses, of this parser or of another one that shares options with
\* it, nor from the order of registration.
THEOREM ParsesHaveNoMemory == Spec => []ParseHasNoMemory
<1>1. IInv /\ OwnBuiltins => ParseHasNoMemory
  <2> SUFFICES ASSUME IInv, OwnBuiltins, NEW p \in live, NEW args \in ArgLists,
                      NEW s \in {options[p]}, NEW seen \in {Visible(args)},
                      NEW named \in {NamedBy(s, seen)}, NEW r \in {Parsed(s, seen)},
                      \A i \in DOMAIN seen : Cardinality(named[i]) <= 1
               PROVE  LET stop == FirstBad(named, seen)
                          naming(o) == {i \in DOMAIN seen : i <= stop /\ o \in named[i]}
                          lastOf(I) == CHOOSE i \in I : \A j \in I : j <= i
                      IN  /\ Verdict(p, s, r, Len(seen)) = ExpectedAnswer(s, seen, named)
                          /\ \A o \in Listed(s) :
                                /\ o \in r.parsed <=> \E i \in naming(o) : i < stop
                                /\ r.value[o] = IF naming(o) = {} THEN AttrOf[o].default
                                                ELSE ValueFor(o, seen[lastOf(naming(o))])
    BY Zenon DEF ParseHasNoMemory
  <2> DEFINE stop == FirstBad(named, seen)
             n == Len(seen)
  <2>1. p \in AllParsers /\ s \in Seq(Objects) /\ InOrder(s) /\ OwnTable(p, s)
    BY TableTypes DEF IInv, TypeOK, TableInOrder, OwnBuiltins, OwnTable
  <2>2. n \in Nat /\ DOMAIN seen = 1 .. n
    BY VisibleIs
  <2>3. After(r, s, named, seen, stop, n) /\ Verdict(p, s, r, n) = ExpectedAnswer(s, seen, named)
    <3>1. named = NamedBy(s, seen) /\ r = Parsed(s, seen)
      OBVIOUS
    <3> QED BY <2>1, <2>2, <3>1, ParsingIs
  <2> HIDE DEF stop
  <2>4. /\ r.parsed = {o \in Listed(s) : \E i \in 1 .. n : i < stop /\ o \in named[i]}
        /\ \A o \in Listed(s) : r.value[o] = ValueAt(named, seen, stop, n, o)
    BY <2>3 DEF After
  <2>5. \A o : Naming(named, o, stop, n) = {i \in DOMAIN seen : i <= stop /\ o \in named[i]}
    BY <2>2 DEF Naming
  <2>6. \A i \in DOMAIN seen : i < stop => i <= stop
    <3>1. stop \in 1 .. n + 1
      BY <2>2, FirstBadIs DEF stop
    <3> QED BY <2>2, <3>1
  <2>7. \A o \in Listed(s) :
           o \in r.parsed <=> \E i \in {k \in DOMAIN seen : k <= stop /\ o \in named[k]} : i < stop
    BY <2>2, <2>4, <2>6
  <2>8. \A o \in Listed(s) :
           r.value[o] = IF {i \in DOMAIN seen : i <= stop /\ o \in named[i]} = {}
                        THEN AttrOf[o].default
                        ELSE ValueFor(o, seen[LastOf({i \in DOMAIN seen : i <= stop /\ o \in named[i]})])
    BY <2>4, <2>5 DEF ValueAt
  <2> QED BY <2>3, <2>7, <2>8 DEF stop, LastOf
<1>2. IInv /\ OwnBuiltins /\ [Next]_vars => (IInv /\ OwnBuiltins)'
  BY NextIInv, NextOwn
<1>3. Init => IInv /\ OwnBuiltins
  BY InitIInv, InitOwn
<1> QED BY <1>1, <1>2, <1>3, PTL DEF Spec
=============================================================================
