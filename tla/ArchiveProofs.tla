--------------------------- MODULE ArchiveProofs ---------------------------
(***************************************************************************)
(* Proofs about Archive, for any tagged types, any items, any base and     *)
(* byte order, and a host that may fail at any byte: what is saved reaches *)
(* the readers in order, and readers stay in step.                         *)
(***************************************************************************)
EXTENDS Archive, SequenceTheorems, WellFoundedInduction, TLAPS

-----------------------------------------------------------------------------
(* Flattened sequences.                                                    *)

LEMMA LeastNatural ==
  ASSUME NEW T, T \subseteq Nat, T # {}
  PROVE  \E m \in T : \A k \in T : m <= k
<1> DEFINE R == OpToRel(<, Nat)
<1>1. IsWellFoundedOn(R, Nat)
  BY NatLessThanWellFounded
<1>2. PICK m \in T : \A k \in T : <<k, m>> \notin R
  <2> HIDE DEF R
  <2> QED BY <1>1, WFMin
<1>3. \A k \in T : ~(k < m)
  BY <1>2 DEF OpToRel
<1> QED BY <1>3

\* What FlattenSeq's function is, as an equation.
Flattens(f, s, n) == f = [i \in 1 .. n |-> IF i = 1 THEN s[i] ELSE f[i - 1] \o s[i]]

LEMMA FlattensAt ==
  ASSUME NEW f, NEW s, NEW n \in Nat, Flattens(f, s, n), NEW i \in 1 .. n
  PROVE  f[i] = IF i = 1 THEN s[i] ELSE f[i - 1] \o s[i]
<1> DEFINE e(j) == IF j = 1 THEN s[j] ELSE f[j - 1] \o s[j]
<1>1. f = [j \in 1 .. n |-> e(j)]
  BY DEF Flattens
<1> HIDE DEF e
<1>2. f[i] = e(i)
  BY <1>1
<1> QED BY <1>2 DEF e

LEMMA FlattensExists ==
  ASSUME NEW s, NEW n \in Nat
  PROVE  \E f : Flattens(f, s, n)
<1> SUFFICES ASSUME {k \in Nat : ~ \E f : Flattens(f, s, k)} # {} PROVE FALSE
  OBVIOUS
<1>1. PICK m \in Nat : /\ ~ \E f : Flattens(f, s, m)
                       /\ \A k \in Nat : k < m => \E f : Flattens(f, s, k)
  <2> DEFINE T == {k \in Nat : ~ \E f : Flattens(f, s, k)}
  <2>1. PICK m \in T : \A k \in T : m <= k
    <3> HIDE DEF T
    <3>1. T \subseteq Nat /\ T # {}
      BY DEF T
    <3> QED BY <3>1, LeastNatural
  <2> QED BY <2>1
<1>2. m # 0
  <2> SUFFICES ASSUME m = 0 PROVE FALSE
    OBVIOUS
  <2> DEFINE g == [i \in 1 .. 0 |-> IF i = 1 THEN s[i] ELSE <<>>]
  <2>1. g = [i \in 1 .. 0 |-> IF i = 1 THEN s[i] ELSE g[i - 1] \o s[i]]
    OBVIOUS
  <2>2. Flattens(g, s, 0)
    BY <2>1 DEF Flattens
  <2> QED BY <2>2, <1>1
<1>3. PICK f : Flattens(f, s, m - 1)
  BY <1>1, <1>2
<1> DEFINE e(i) == IF i = 1 THEN s[i] ELSE f[i - 1] \o s[i]
           g == [i \in 1 .. m |-> e(i)]
<1>4. \A i \in 1 .. m - 1 : f[i] = e(i)
  BY <1>3, FlattensAt, <1>2
<1>5. \A i \in 1 .. m : i # 1 => g[i - 1] = f[i - 1]
  <2> HIDE DEF e
  <2> QED BY <1>4
<1>6. g = [i \in 1 .. m |-> IF i = 1 THEN s[i] ELSE g[i - 1] \o s[i]]
  <2> SUFFICES ASSUME NEW i \in 1 .. m PROVE e(i) = IF i = 1 THEN s[i] ELSE g[i - 1] \o s[i]
    OBVIOUS
  <2> HIDE DEF g
  <2> QED BY <1>5
<1>7. Flattens(g, s, m)
  <2> HIDE DEF g
  <2> QED BY <1>6 DEF Flattens
<1> QED BY <1>1, <1>7

\* Two such functions agree as far as they go on one sequence.
LEMMA FlattensUnique ==
  ASSUME NEW s, NEW t, NEW n \in Nat, NEW m \in Nat, NEW k \in Nat, k <= n, k <= m,
         \A i \in 1 .. k : s[i] = t[i],
         NEW f, Flattens(f, s, n), NEW g, Flattens(g, t, m)
  PROVE  \A i \in 1 .. k : f[i] = g[i]
<1> SUFFICES ASSUME {i \in 1 .. k : f[i] # g[i]} # {} PROVE FALSE
  OBVIOUS
<1>1. PICK i \in 1 .. k : /\ f[i] # g[i]
                          /\ \A j \in 1 .. k : j < i => f[j] = g[j]
  <2> DEFINE T == {i \in 1 .. k : f[i] # g[i]}
  <2>1. PICK i \in T : \A j \in T : i <= j
    <3> HIDE DEF T
    <3>1. T \subseteq Nat /\ T # {}
      BY DEF T
    <3> QED BY <3>1, LeastNatural
  <2> QED BY <2>1
<1>2. f[i] = IF i = 1 THEN s[i] ELSE f[i - 1] \o s[i]
  BY FlattensAt
<1>3. g[i] = IF i = 1 THEN t[i] ELSE g[i - 1] \o t[i]
  BY FlattensAt
<1>4. i # 1 => f[i - 1] = g[i - 1]
  BY <1>1
<1> QED BY <1>1, <1>2, <1>3, <1>4

LEMMA FlattenSeqIs ==
  ASSUME NEW s, Len(s) \in Nat \ {0}
  PROVE  \E f : Flattens(f, s, Len(s)) /\ FlattenSeq(s) = f[Len(s)]
<1>1. \E f : Flattens(f, s, Len(s))
  BY FlattensExists
<1>2. Flattens(CHOOSE f : Flattens(f, s, Len(s)), s, Len(s))
  BY <1>1
<1>3. FlattenSeq(s) = (CHOOSE f : Flattens(f, s, Len(s)))[Len(s)]
  BY DEF FlattenSeq, Flattens
<1> QED BY <1>2, <1>3

\* Flattening one more sequence appends it.
LEMMA FlattenSeqStep ==
  ASSUME NEW s, NEW t, NEW n \in Nat, Len(s) = n, Len(t) = n + 1, \A i \in 1 .. n : s[i] = t[i], 
         n # 0
  PROVE  FlattenSeq(t) = FlattenSeq(s) \o t[n + 1]
<1>1. PICK f : Flattens(f, s, n) /\ FlattenSeq(s) = f[n]
  BY FlattenSeqIs
<1>2. PICK g : Flattens(g, t, n + 1) /\ FlattenSeq(t) = g[n + 1]
  BY FlattenSeqIs
<1>3. f[n] = g[n]
  <2>1. n \in Nat /\ n + 1 \in Nat /\ n <= n /\ n <= n + 1 /\ n \in 1 .. n
    OBVIOUS
  <2>2. Flattens(f, s, n) /\ Flattens(g, t, n + 1)
    BY <1>1, <1>2
  <2> HIDE DEF Flattens
  <2>3. \A i \in 1 .. n : f[i] = g[i]
    BY ONLY <2>1, <2>2, FlattensUnique, \A i \in 1 .. n : s[i] = t[i]
  <2> QED BY <2>1, <2>3
<1>4. g[n + 1] = g[n] \o t[n + 1]
  <2> DEFINE m == n + 1
  <2>1. m \in Nat /\ m \in 1 .. m /\ m # 1 /\ m - 1 = n
    OBVIOUS
  <2>2. Flattens(g, t, m)
    BY <1>2
  <2> HIDE DEF m
  <2>3. g[m] = IF m = 1 THEN t[m] ELSE g[m - 1] \o t[m]
    BY <2>1, <2>2, FlattensAt
  <2>4. g[m] = g[n] \o t[m]
    BY <2>1, <2>3
  <2> QED BY <2>4 DEF m
<1> QED BY <1>1, <1>2, <1>3, <1>4

LEMMA FlattenSeqOne ==
  ASSUME NEW s, Len(s) = 1
  PROVE  FlattenSeq(s) = s[1]
<1>1. PICK f : Flattens(f, s, Len(s)) /\ FlattenSeq(s) = f[Len(s)]
  <2>1. Len(s) \in Nat \ {0}
    OBVIOUS
  <2> QED BY <2>1, FlattenSeqIs
<1> QED BY <1>1, FlattensAt

-----------------------------------------------------------------------------
(* Values and their bytes.                                                 *)

LEMMA BaseFacts == Base \in Nat /\ Base > 1 /\ Native \in Orders
  BY FormatAssumption

LEMMA Digits ==
  ASSUME NEW v \in 0 .. Base * Base - 1
  PROVE  /\ v \div Base \in 0 .. Base - 1 /\ v % Base \in 0 .. Base - 1
         /\ (v \div Base) * Base + (v % Base) = v
<1>1. Base \in Nat /\ Base > 1 /\ v \in Nat /\ v < Base * Base
  BY BaseFacts
<1>2. v \div Base \in Int /\ v % Base \in 0 .. Base - 1 /\ v = Base * (v \div Base) + (v % Base)
  BY <1>1
<1> DEFINE q == v \div Base
           r == v % Base
<1>3. q \in Int /\ r \in 0 .. Base - 1 /\ v = Base * q + r
  BY <1>2
<1> HIDE DEF q, r
<1>4. q >= 0
  <2> SUFFICES ASSUME q <= -1 PROVE FALSE
    BY <1>3
  <2>1. Base * q <= Base * (-1)
    BY <1>1, <1>3
  <2> QED BY <2>1, <1>1, <1>3
<1>5. q < Base
  <2> SUFFICES ASSUME q >= Base PROVE FALSE
    BY <1>3, <1>1
  <2>1. Base * q >= Base * Base
    BY <1>1, <1>3
  <2> QED BY <2>1, <1>1, <1>3
<1>6. q * Base = Base * q
  BY <1>1, <1>3
<1> QED BY <1>1, <1>3, <1>4, <1>5, <1>6 DEF q, r

LEMMA BytesType ==
  ASSUME NEW v \in 0 .. Base * Base - 1, NEW order
  PROVE  Bytes(v, order) \in Seq(Nat) /\ Len(Bytes(v, order)) = 2
<1>1. v \div Base \in Nat /\ v % Base \in Nat
  BY Digits
<1> QED BY <1>1 DEF Bytes

\* What is written in an order is read with a swap if that is not the machine's.
LEMMA BytesReadBack ==
  ASSUME NEW v \in 0 .. Base * Base - 1, NEW order \in Orders, NEW bytes,
         bytes[1] = Bytes(v, order)[1], bytes[2] = Bytes(v, order)[2]
  PROVE  ValueOf(bytes, order # Native) = v
<1>1. (v \div Base) * Base + (v % Base) = v
  BY Digits
<1>2. CASE order = "big"
  BY <1>1, <1>2, BaseFacts DEF ValueOf, Bytes, Orders
<1>3. CASE order = "little"
  BY <1>1, <1>3, BaseFacts DEF ValueOf, Bytes, Orders
<1> QED BY <1>2, <1>3 DEF Orders

\* The bytes of a sequence of values.
DataBytes(data, order, n) == FlattenSeq([i \in 1 .. n |-> Bytes(data[i], order)])

LEMMA DataBytesStep ==
  ASSUME NEW data, NEW order, NEW n \in Nat
  PROVE  DataBytes(data, order, n + 1) =
            IF n = 0 THEN Bytes(data[1], order)
            ELSE DataBytes(data, order, n) \o Bytes(data[n + 1], order)
<1> DEFINE s == [i \in 1 .. n |-> Bytes(data[i], order)]
           t == [i \in 1 .. n + 1 |-> Bytes(data[i], order)]
<1>1. Len(s) = n /\ Len(t) = n + 1 /\ t[n + 1] = Bytes(data[n + 1], order)
  OBVIOUS
<1>2. \A i \in 1 .. n : s[i] = t[i]
  OBVIOUS
<1>3. DataBytes(data, order, n + 1) = FlattenSeq(t) /\ DataBytes(data, order, n) = FlattenSeq(s)
  BY DEF DataBytes
<1> HIDE DEF s, t
<1>4. CASE n = 0
  BY <1>1, <1>3, <1>4, FlattenSeqOne
<1>5. CASE n # 0
  BY <1>1, <1>2, <1>3, <1>5, FlattenSeqStep
<1> QED BY <1>4, <1>5

LEMMA ConcatAt ==
  ASSUME NEW s \in Seq(Nat), NEW t \in Seq(Nat)
  PROVE  /\ s \o t \in Seq(Nat) /\ Len(s \o t) = Len(s) + Len(t)
         /\ \A i \in 1 .. Len(s) : (s \o t)[i] = s[i]
         /\ \A i \in 1 .. Len(t) : (s \o t)[Len(s) + i] = t[i]
  OBVIOUS

Values2(data, n) == \A i \in 1 .. n : data[i] \in 0 .. Base * Base - 1

\* Where each value's two bytes lie.
DataLaidOut(data, order, n) ==
    /\ DataBytes(data, order, n) \in Seq(Nat)
    /\ Len(DataBytes(data, order, n)) = 2 * n
    /\ \A i \in 1 .. n :
          /\ DataBytes(data, order, n)[2 * i - 1] = Bytes(data[i], order)[1]
          /\ DataBytes(data, order, n)[2 * i] = Bytes(data[i], order)[2]

LEMMA DataLaidOutStep ==
  ASSUME NEW data, NEW order, NEW n \in Nat, Values2(data, n + 1), DataLaidOut(data, order, n)
  PROVE  DataLaidOut(data, order, n + 1)
<1> DEFINE s == DataBytes(data, order, n)
           b == Bytes(data[n + 1], order)
           t == DataBytes(data, order, n + 1)
<1>1. b \in Seq(Nat) /\ Len(b) = 2
  BY BytesType DEF Values2
<1>2. s \in Seq(Nat) /\ Len(s) = 2 * n
  BY DEF DataLaidOut
<1>3. t = s \o b
  <2>1. CASE n = 0
    <3>1. s = <<>>
      BY <1>2, <2>1
    <3>2. t = b
      BY <2>1, DataBytesStep
    <3> HIDE DEF s, t, b
    <3> QED BY <3>1, <3>2, <1>1
  <2>2. CASE n # 0
    BY <2>2, DataBytesStep
  <2> QED BY <2>1, <2>2
<1>4. \A i \in 1 .. n : s[2 * i - 1] = Bytes(data[i], order)[1] /\ s[2 * i] = Bytes(data[i], order)[2]
  BY DEF DataLaidOut
<1> HIDE DEF s, t, b
<1>5. /\ t \in Seq(Nat) /\ Len(t) = 2 * n + 2
      /\ \A i \in 1 .. 2 * n : t[i] = s[i]
      /\ \A i \in 1 .. 2 : t[2 * n + i] = b[i]
  <2>1. /\ t \in Seq(Nat) /\ Len(t) = Len(s) + Len(b)
        /\ \A i \in 1 .. Len(s) : t[i] = s[i]
        /\ \A i \in 1 .. Len(b) : t[Len(s) + i] = b[i]
    BY <1>1, <1>2, <1>3, ConcatAt
  <2> QED BY <2>1, <1>1, <1>2
<1>6. \A i \in 1 .. n : t[2 * i - 1] = s[2 * i - 1] /\ t[2 * i] = s[2 * i]
  BY <1>5
<1>7. t \in Seq(Nat) /\ Len(t) = 2 * (n + 1) /\ t[2 * (n + 1) - 1] = b[1] /\ t[2 * (n + 1)] = b[2]
  <2>1. t[2 * n + 1] = b[1] /\ t[2 * n + 2] = b[2]
    BY <1>5
  <2>2. 2 * n + 1 = 2 * (n + 1) - 1 /\ 2 * n + 2 = 2 * (n + 1)
    OBVIOUS
  <2> QED BY <1>5, <2>1, <2>2
<1>8. \A i \in 1 .. n + 1 : t[2 * i - 1] = Bytes(data[i], order)[1] /\ t[2 * i] = Bytes(data[i], order)[2]
  <2> SUFFICES ASSUME NEW i \in 1 .. n + 1
               PROVE  t[2 * i - 1] = Bytes(data[i], order)[1] /\ t[2 * i] = Bytes(data[i], order)[2]
    OBVIOUS
  <2>1. i \in 1 .. n \/ i = n + 1
    OBVIOUS
  <2>2. t[2 * (n + 1) - 1] = Bytes(data[n + 1], order)[1] /\ t[2 * (n + 1)] = Bytes(data[n + 1], order)[2]
    BY <1>7 DEF b
  <2> QED BY <2>1, <2>2, <1>4, <1>6
<1> QED BY <1>7, <1>8 DEF DataLaidOut, t

LEMMA DataIsLaidOut ==
  ASSUME NEW data, NEW order, NEW n \in Nat, Values2(data, n)
  PROVE  DataLaidOut(data, order, n)
<1> DEFINE Fails == {k \in Nat : Values2(data, k) /\ ~DataLaidOut(data, order, k)}
<1> SUFFICES ASSUME Fails # {} PROVE FALSE
  OBVIOUS
<1>1. PICK m \in Fails : \A k \in Fails : m <= k
  <2> Fails \subseteq Nat
    OBVIOUS
  <2> HIDE DEF Fails
  <2> QED BY LeastNatural
<1>2. m \in Nat /\ Values2(data, m) /\ ~DataLaidOut(data, order, m)
  BY <1>1
<1>3. m # 0
  <2> SUFFICES ASSUME m = 0 PROVE FALSE
    OBVIOUS
  <2>1. DataBytes(data, order, 0) = <<>>
    BY DEF DataBytes, FlattenSeq
  <2>2. <<>> \in Seq(Nat) /\ Len(<<>>) = 2 * 0 /\ 1 .. 0 = {}
    OBVIOUS
  <2>3. DataLaidOut(data, order, 0)
    BY <2>1, <2>2, Zenon DEF DataLaidOut
  <2> QED BY <1>2, <2>3
<1>4. m - 1 \in Nat /\ m = (m - 1) + 1 /\ Values2(data, m - 1)
  BY <1>2, <1>3 DEF Values2
<1>5. DataLaidOut(data, order, m - 1)
  BY <1>1, <1>4
<1> QED
  <2> DEFINE k == m - 1
  <2>1. k \in Nat /\ m = k + 1 /\ DataLaidOut(data, order, k)
    BY <1>4, <1>5
  <2> HIDE DEF k
  <2> QED BY <2>1, <1>2, DataLaidOutStep

\* What an item is in the file: tag, version, count and values of an object,
\* the two bytes of an integer, binary data as it is.
LEMMA EncodePlain ==
  ASSUME NEW item \in Items, NEW order \in Orders, item.kind \notin Types
  PROVE  /\ Encode(item, order) \in Seq(Nat)
         /\ item.kind = "binary" => Encode(item, order) = item.data
         /\ item.kind = "int" => /\ Len(Encode(item, order)) = 2
                                 /\ Encode(item, order)[1] = Bytes(item.data[1], order)[1]
                                 /\ Encode(item, order)[2] = Bytes(item.data[1], order)[2]
<1>1. item.data \in Seq(Nat) /\ Values2(item.data, Len(item.data))
  BY ArchiveAssumption, BaseFacts DEF Values2
<1>2. CASE item.kind = "binary"
  BY <1>1, <1>2 DEF Encode
<1>3. CASE item.kind = "int"
  <2>1. Len(item.data) = 1
    BY <1>3, ArchiveAssumption
  <2>2. Encode(item, order) = DataBytes(item.data, order, 1)
    BY <1>1, <1>3, <2>1 DEF Encode, DataBytes
  <2>3. DataLaidOut(item.data, order, 1)
    BY <1>1, <2>1, DataIsLaidOut
  <2> QED BY <1>3, <2>2, <2>3 DEF DataLaidOut
<1> QED BY <1>2, <1>3, ArchiveAssumption

LaidOut(e, item, order, L) ==
    /\ e \in Seq(Nat) /\ L \in Nat \ {0} /\ Len(e) = L + 4 + 2 * Len(item.data)
    /\ \A i \in 1 .. L : e[i] = Tag[item.kind][i]
    /\ e[L + 1] = Bytes(item.version, order)[1] /\ e[L + 2] = Bytes(item.version, order)[2]
    /\ e[L + 3] = Bytes(Len(item.data), order)[1] /\ e[L + 4] = Bytes(Len(item.data), order)[2]
    /\ \A i \in 1 .. Len(item.data) :
          /\ e[L + 4 + (2 * i - 1)] = Bytes(item.data[i], order)[1]
          /\ e[L + 4 + 2 * i] = Bytes(item.data[i], order)[2]

LEMMA EncodeTagged ==
  ASSUME NEW item \in Items, NEW order \in Orders, item.kind \in Types
  PROVE  LaidOut(Encode(item, order), item, order, Len(Tag[item.kind]))
<1> DEFINE e == Encode(item, order)
           L == Len(Tag[item.kind])
           t == Tag[item.kind]
           v == Bytes(item.version, order)
           n == Len(item.data)
           c == Bytes(n, order)
           d == DataBytes(item.data, order, n)
<1>1. n \in Nat /\ n \in 0 .. Base * Base - 1 /\ Values2(item.data, n) /\ item.version \in 0 .. Base * Base - 1
  BY ArchiveAssumption, BaseFacts DEF Values2
<1>2. t \in Seq(Nat) /\ Len(t) = L /\ L \in Nat \ {0}
  BY FormatAssumption
<1>3. v \in Seq(Nat) /\ Len(v) = 2 /\ c \in Seq(Nat) /\ Len(c) = 2
  BY <1>1, BytesType
<1>4. /\ d \in Seq(Nat) /\ Len(d) = 2 * n
      /\ \A i \in 1 .. n : d[2 * i - 1] = Bytes(item.data[i], order)[1] /\ d[2 * i] = Bytes(item.data[i], order)[2]
  <2>1. DataLaidOut(item.data, order, n)
    BY <1>1, DataIsLaidOut
  <2> QED BY <2>1 DEF DataLaidOut
<1>5. e = t \o v \o c \o d
  <2>1. item.kind # "binary" /\ item.kind # "int"
    BY ArchiveAssumption
  <2>2. DOMAIN item.data = 1 .. n
    BY ArchiveAssumption
  <2> QED BY <2>1, <2>2 DEF Encode, DataBytes
<1>6. n \in Nat /\ L \in Nat
  BY <1>1, <1>2
<1> DEFINE tv == t \o v
           tvc == tv \o c
<1> HIDE DEF t, v, c, d, n, e, L
<1>7. /\ tv \in Seq(Nat) /\ Len(tv) = L + 2
      /\ \A i \in 1 .. L : tv[i] = t[i]
      /\ \A i \in 1 .. 2 : tv[L + i] = v[i]
  <2>1. /\ tv \in Seq(Nat) /\ Len(tv) = Len(t) + Len(v)
        /\ \A i \in 1 .. Len(t) : tv[i] = t[i]
        /\ \A i \in 1 .. Len(v) : tv[Len(t) + i] = v[i]
    BY <1>2, <1>3, ConcatAt
  <2> HIDE DEF tv
  <2> QED BY <2>1, <1>2, <1>3
<1>8. e = tvc \o d
  BY <1>5
<1> HIDE DEF tv
<1>9. /\ tvc \in Seq(Nat) /\ Len(tvc) = L + 4
      /\ \A i \in 1 .. L + 2 : tvc[i] = tv[i]
      /\ \A i \in 1 .. 2 : tvc[L + 2 + i] = c[i]
  <2>1. /\ tvc \in Seq(Nat) /\ Len(tvc) = Len(tv) + Len(c)
        /\ \A i \in 1 .. Len(tv) : tvc[i] = tv[i]
        /\ \A i \in 1 .. Len(c) : tvc[Len(tv) + i] = c[i]
    BY <1>3, <1>7, ConcatAt
  <2> HIDE DEF tvc
  <2> QED BY <2>1, <1>3, <1>6, <1>7
<1> HIDE DEF tvc
<1>10. /\ e \in Seq(Nat) /\ Len(e) = L + 4 + 2 * n
       /\ \A i \in 1 .. L + 4 : e[i] = tvc[i]
       /\ \A i \in 1 .. 2 * n : e[L + 4 + i] = d[i]
  <2>1. /\ e \in Seq(Nat) /\ Len(e) = Len(tvc) + Len(d)
        /\ \A i \in 1 .. Len(tvc) : e[i] = tvc[i]
        /\ \A i \in 1 .. Len(d) : e[Len(tvc) + i] = d[i]
    BY ONLY <1>4, <1>8, <1>9, ConcatAt
  <2> QED BY ONLY <2>1, <1>4, <1>6, <1>9
<1>11. \A i \in 1 .. L : e[i] = t[i]
  <2>1. \A i \in 1 .. L : i \in 1 .. L + 4 /\ i \in 1 .. L + 2
    BY <1>6
  <2> QED BY ONLY <2>1, <1>7, <1>9, <1>10
<1>12. e[L + 1] = v[1] /\ e[L + 2] = v[2] /\ e[L + 3] = c[1] /\ e[L + 4] = c[2]
  <2>0. /\ L + 1 \in 1 .. L + 4 /\ L + 2 \in 1 .. L + 4
        /\ L + 1 \in 1 .. L + 2 /\ L + 2 \in 1 .. L + 2
    BY ONLY <1>6
  <2>1. e[L + 1] = tv[L + 1] /\ e[L + 2] = tv[L + 2]
    BY ONLY <2>0, <1>9, <1>10
  <2>2. tv[L + 1] = v[1] /\ tv[L + 2] = v[2]
    BY ONLY <1>7
  <2>3. tvc[L + 2 + 1] = c[1] /\ tvc[L + 2 + 2] = c[2]
    BY ONLY <1>9
  <2>4. L + 2 + 1 = L + 3 /\ L + 2 + 2 = L + 4 /\ L + 3 \in 1 .. L + 4 /\ L + 4 \in 1 .. L + 4
    BY ONLY <1>6
  <2>5. e[L + 3] = tvc[L + 3] /\ e[L + 4] = tvc[L + 4]
    BY ONLY <2>4, <1>10
  <2>6. tvc[L + 3] = c[1] /\ tvc[L + 4] = c[2]
    BY ONLY <2>3, <2>4
  <2> QED BY ONLY <2>1, <2>2, <2>5, <2>6
<1>13. \A i \in 1 .. n : 2 * i - 1 \in 1 .. 2 * n /\ 2 * i \in 1 .. 2 * n
  BY <1>6
<1>14. \A i \in 1 .. n : e[L + 4 + (2 * i - 1)] = d[2 * i - 1] /\ e[L + 4 + 2 * i] = d[2 * i]
  BY ONLY <1>10, <1>13
<1> QED
  BY <1>2, <1>4, <1>10, <1>11, <1>12, <1>14 DEF t, v, c, n, e, L, LaidOut

LEMMA EncodeType ==
  ASSUME NEW item \in Items, NEW order \in Orders
  PROVE  Encode(item, order) \in Seq(Nat)
  BY EncodePlain, EncodeTagged DEF LaidOut

-----------------------------------------------------------------------------
(* The bytes of the first items.                                           *)

ImageOf(items, order, n) ==
    <<OrderByte(order)>> \o FlattenSeq([i \in 1 .. n |-> Encode(items[i], order)])

LEMMA OrderByteFacts ==
  ASSUME NEW o1 \in Orders, NEW o2 \in Orders
  PROVE  OrderByte(o1) \in Nat /\ (OrderByte(o1) = OrderByte(o2) <=> o1 = o2)
  BY DEF OrderByte, Orders

LEMMA ImageNone ==
  ASSUME NEW items, NEW order \in Orders
  PROVE  ImageOf(items, order, 0) = <<OrderByte(order)>>
<1>1. FlattenSeq([i \in 1 .. 0 |-> Encode(items[i], order)]) = <<>>
  BY DEF FlattenSeq
<1>2. <<OrderByte(order)>> \in Seq(Nat)
  BY OrderByteFacts
<1> QED BY <1>1, <1>2, ConcatEmptySeq DEF ImageOf

\* The next item comes right after.
LEMMA FlatType ==
  ASSUME NEW items \in Seq(Items), NEW order \in Orders, NEW n \in 0 .. Len(items)
  PROVE  FlattenSeq([i \in 1 .. n |-> Encode(items[i], order)]) \in Seq(Nat)
<1> DEFINE flat(k) == FlattenSeq([i \in 1 .. k |-> Encode(items[i], order)])
           Fails == {k \in 0 .. Len(items) : flat(k) \notin Seq(Nat)}
<1> SUFFICES ASSUME Fails # {} PROVE FALSE
  OBVIOUS
<1>1. PICK m \in Fails : \A k \in Fails : m <= k
  <2> Fails \subseteq Nat
    OBVIOUS
  <2> HIDE DEF Fails
  <2> QED BY LeastNatural
<1>2. m # 0
  <2>1. flat(0) = <<>>
    BY DEF FlattenSeq
  <2> QED BY <1>1, <2>1
<1> DEFINE k == m - 1
           s == [i \in 1 .. k |-> Encode(items[i], order)]
           t == [i \in 1 .. m |-> Encode(items[i], order)]
<1>3. k \in Nat /\ m = k + 1 /\ k \in 0 .. Len(items) /\ m \in 1 .. Len(items)
  BY <1>1, <1>2
<1>4. FlattenSeq(s) \in Seq(Nat) /\ FlattenSeq(t) \notin Seq(Nat)
  BY <1>1, <1>3
<1>5. items[m] \in Items
  BY <1>3
<1>6. t[m] \in Seq(Nat)
  BY <1>5, <1>3, EncodeType
<1>7. Len(s) = k /\ Len(t) = k + 1 /\ \A i \in 1 .. k : s[i] = t[i]
  BY <1>3
<1> HIDE DEF k, s, t
<1>8. CASE k = 0
  BY <1>3, <1>4, <1>6, <1>7, <1>8, FlattenSeqOne
<1>9. CASE k # 0
  <2>1. FlattenSeq(t) = FlattenSeq(s) \o t[k + 1]
    BY <1>3, <1>7, <1>9, FlattenSeqStep
  <2> QED BY <2>1, <1>3, <1>4, <1>6, ConcatAt
<1> QED BY <1>8, <1>9

LEMMA ConcatIsAssociative ==
  ASSUME NEW s \in Seq(Nat), NEW t \in Seq(Nat), NEW u \in Seq(Nat)
  PROVE  (s \o t) \o u = s \o (t \o u)
  OBVIOUS

LEMMA ImageStep ==
  ASSUME NEW items \in Seq(Items), NEW order \in Orders, NEW n \in Nat, n < Len(items)
  PROVE  ImageOf(items, order, n + 1) = ImageOf(items, order, n) \o Encode(items[n + 1], order)
<1> DEFINE s == [i \in 1 .. n |-> Encode(items[i], order)]
           t == [i \in 1 .. n + 1 |-> Encode(items[i], order)]
           b == <<OrderByte(order)>>
           e == Encode(items[n + 1], order)
<1>1. items[n + 1] \in Items
  OBVIOUS
<1>2. e \in Seq(Nat) /\ b \in Seq(Nat) /\ FlattenSeq(s) \in Seq(Nat)
  <2>1. n \in 0 .. Len(items)
    OBVIOUS
  <2> QED BY <2>1, <1>1, EncodeType, OrderByteFacts, FlatType
<1>3. Len(s) = n /\ Len(t) = n + 1 /\ t[n + 1] = e /\ \A i \in 1 .. n : s[i] = t[i]
  OBVIOUS
<1>4. ImageOf(items, order, n + 1) = b \o FlattenSeq(t) /\ ImageOf(items, order, n) = b \o FlattenSeq(s)
  BY DEF ImageOf
<1>5. n = 0 => FlattenSeq(s) = <<>>
  BY DEF FlattenSeq
<1> HIDE DEF s, t, b, e
<1>6. FlattenSeq(t) = FlattenSeq(s) \o e
  <2>1. CASE n = 0
    <3>1. FlattenSeq(t) = e
      BY <1>3, <2>1, FlattenSeqOne
    <3> QED BY <3>1, <1>2, <1>5, <2>1, ConcatEmptySeq
  <2>2. CASE n # 0
    BY <1>3, <2>2, FlattenSeqStep
  <2> QED BY <2>1, <2>2
<1>7. b \o (FlattenSeq(s) \o e) = (b \o FlattenSeq(s)) \o e
  BY ONLY <1>2, ConcatIsAssociative
<1> QED BY <1>4, <1>6, <1>7 DEF e

LEMMA ImageType ==
  ASSUME NEW items \in Seq(Items), NEW order \in Orders, NEW n \in 0 .. Len(items)
  PROVE  /\ ImageOf(items, order, n) \in Seq(Nat)
         /\ Len(ImageOf(items, order, n)) \in Nat \ {0}
         /\ ImageOf(items, order, n)[1] = OrderByte(order)
<1> DEFINE f == FlattenSeq([i \in 1 .. n |-> Encode(items[i], order)])
           b == <<OrderByte(order)>>
<1>1. f \in Seq(Nat) /\ b \in Seq(Nat) /\ Len(b) = 1 /\ b[1] = OrderByte(order)
  BY FlatType, OrderByteFacts
<1>2. ImageOf(items, order, n) = b \o f
  BY DEF ImageOf
<1> HIDE DEF f, b
<1>3. /\ b \o f \in Seq(Nat) /\ Len(b \o f) = Len(b) + Len(f)
      /\ \A i \in 1 .. Len(b) : (b \o f)[i] = b[i]
  BY <1>1, ConcatAt
<1> QED BY <1>1, <1>2, <1>3

\* Image n is where the item n + 1 starts, and so is every longer one's beginning.
LEMMA ImageNext ==
  ASSUME NEW items \in Seq(Items), NEW order \in Orders, NEW n \in Nat, n < Len(items),
         NEW e, e = Encode(items[n + 1], order),
         NEW s, s = ImageOf(items, order, n), NEW t, t = ImageOf(items, order, n + 1)
  PROVE  /\ Len(t) = Len(s) + Len(e)
         /\ \A i \in 1 .. Len(s) : t[i] = s[i]
         /\ \A i \in 1 .. Len(e) : t[Len(s) + i] = e[i]
<1>1. items[n + 1] \in Items
  OBVIOUS
<1>2. e \in Seq(Nat) /\ s \in Seq(Nat)
  BY <1>1, EncodeType, ImageType
<1>3. t = s \o e
  BY ImageStep
<1> QED BY ONLY <1>2, <1>3, ConcatAt

LEMMA ImageGrows ==
  ASSUME NEW items \in Seq(Items), NEW order \in Orders,
         NEW n \in 0 .. Len(items), NEW m \in n .. Len(items)
  PROVE  /\ Len(ImageOf(items, order, n)) <= Len(ImageOf(items, order, m))
         /\ \A i \in 1 .. Len(ImageOf(items, order, n)) :
               ImageOf(items, order, m)[i] = ImageOf(items, order, n)[i]
<1> DEFINE s == ImageOf(items, order, n)
           Grows(k) == /\ Len(s) <= Len(ImageOf(items, order, k))
                       /\ \A i \in 1 .. Len(s) : ImageOf(items, order, k)[i] = s[i]
           Fails == {k \in n .. Len(items) : ~Grows(k)}
<1> SUFFICES ASSUME Fails # {} PROVE FALSE
  OBVIOUS
<1>1. PICK k \in Fails : \A j \in Fails : k <= j
  <2> Fails \subseteq Nat
    OBVIOUS
  <2> HIDE DEF Fails
  <2> QED BY LeastNatural
<1>2. s \in Seq(Nat)
  BY ImageType
<1>3. Grows(n)
  BY <1>2
<1>4. k # n
  BY <1>1, <1>3
<1> DEFINE j == k - 1
<1>5. j \in Nat /\ j \in n .. Len(items) /\ j < Len(items) /\ k = j + 1
  BY <1>1, <1>4
<1>6. Grows(j) /\ ~Grows(k)
  BY <1>1, <1>5
<1> HIDE DEF j, Fails
<1> DEFINE u == ImageOf(items, order, j)
           v == ImageOf(items, order, j + 1)
           e == Encode(items[j + 1], order)
<1>7. u \in Seq(Nat)
  BY <1>5, ImageType
<1>8. items[j + 1] \in Items
  BY <1>5
<1>9. e \in Seq(Nat)
  BY <1>8, EncodeType
<1>10. Len(v) = Len(u) + Len(e) /\ \A i \in 1 .. Len(u) : v[i] = u[i]
  BY <1>5, ImageNext
<1>11. Len(s) <= Len(u) /\ \A i \in 1 .. Len(s) : u[i] = s[i]
  BY <1>6
<1>12. ~(Len(s) <= Len(v) /\ \A i \in 1 .. Len(s) : v[i] = s[i])
  BY <1>5, <1>6
<1> HIDE DEF s, u, v, e
<1>13. Len(s) \in Nat /\ Len(u) \in Nat /\ Len(e) \in Nat
  BY <1>2, <1>7, <1>9
<1> QED BY <1>10, <1>11, <1>12, <1>13

\* An item's bytes in every image it is part of.
LEMMA ImageItem ==
  ASSUME NEW items \in Seq(Items), NEW order \in Orders, NEW n \in Nat,
         NEW m \in 0 .. Len(items), n < m
  PROVE  /\ Len(ImageOf(items, order, n + 1)) =
               Len(ImageOf(items, order, n)) + Len(Encode(items[n + 1], order))
         /\ Len(ImageOf(items, order, n)) + Len(Encode(items[n + 1], order))
               <= Len(ImageOf(items, order, m))
         /\ \A i \in 1 .. Len(Encode(items[n + 1], order)) :
               ImageOf(items, order, m)[Len(ImageOf(items, order, n)) + i] =
                  Encode(items[n + 1], order)[i]
<1> DEFINE p == Len(ImageOf(items, order, n))
           e == Encode(items[n + 1], order)
<1> DEFINE s == ImageOf(items, order, n)
           t == ImageOf(items, order, n + 1)
           u == ImageOf(items, order, m)
<1>1. n \in 0 .. Len(items) /\ n + 1 \in 0 .. Len(items) /\ m \in n + 1 .. Len(items) /\ n < Len(items)
  OBVIOUS
<1>2. items[n + 1] \in Items
  BY <1>1
<1>3. e \in Seq(Nat) /\ s \in Seq(Nat)
  BY <1>1, <1>2, EncodeType, ImageType
<1>4. Len(t) = Len(s) + Len(e) /\ \A i \in 1 .. Len(e) : t[Len(s) + i] = e[i]
  BY <1>1, ImageNext
<1>5. Len(t) <= Len(u) /\ \A i \in 1 .. Len(t) : u[i] = t[i]
  BY <1>1, ImageGrows
<1>6. p = Len(s)
  OBVIOUS
<1> HIDE DEF s, t, u, p, e
<1>7. Len(e) \in Nat /\ p \in Nat
  BY <1>3, <1>6
<1>8. \A i \in 1 .. Len(e) : p + i \in 1 .. Len(t)
  BY <1>4, <1>6, <1>7
<1>9. \A i \in 1 .. Len(e) : u[p + i] = e[i]
  BY <1>4, <1>5, <1>6, <1>8
<1> QED BY <1>4, <1>5, <1>6, <1>9 DEF s, t, u, p, e

\* Another item does not change the images before it.
LEMMA ImageAppend ==
  ASSUME NEW items \in Seq(Items), NEW order, NEW n \in 0 .. Len(items), NEW item
  PROVE  ImageOf(Append(items, item), order, n) = ImageOf(items, order, n)
<1>1. \A i \in 1 .. n : Append(items, item)[i] = items[i]
  OBVIOUS
<1>2. [i \in 1 .. n |-> Encode(Append(items, item)[i], order)] = [i \in 1 .. n |-> Encode(items[i], order)]
  BY <1>1
<1> QED BY <1>2 DEF ImageOf

-----------------------------------------------------------------------------
(* Reading.                                                                *)

Cursors(f) ==
    {c \in [at : Nat, failed : BOOLEAN, end : Nat, got : Seq(Nat)] :
        c.at <= c.end /\ c.end <= Len(f)}

LEMMA ReadIs ==
  ASSUME NEW f \in Seq(Nat), NEW c \in Cursors(f), NEW n \in Nat
  PROVE  \E there \in 0 .. c.end - c.at :
            /\ there = IF c.failed THEN 0 ELSE IF n < c.end - c.at THEN n ELSE c.end - c.at
            /\ Read(f, c, n).at = c.at + there /\ Read(f, c, n).end = c.end
            /\ Read(f, c, n).failed = (c.failed \/ there < n)
            /\ Read(f, c, n).got = [i \in 1 .. n |-> IF i <= there THEN f[c.at + i] ELSE 0]
            /\ Read(f, c, n) \in [at : Nat, failed : BOOLEAN, end : Nat, got : Seq(Nat)]
<1> DEFINE there == There(c, n)
           got == [i \in 1 .. n |-> IF i <= there THEN f[c.at + i] ELSE 0]
           failed == c.failed \/ there < n
<1>1. /\ c \in [at : Nat, failed : BOOLEAN, end : Nat, got : Seq(Nat)]
      /\ c.at <= c.end /\ c.end <= Len(f)
  BY DEF Cursors
<1>2. /\ there = IF c.failed THEN 0 ELSE IF n < c.end - c.at THEN n ELSE c.end - c.at
      /\ there \in 0 .. c.end - c.at
  BY <1>1 DEF There
<1>3. Read(f, c, n) = [c EXCEPT !.at = c.at + there, !.failed = failed, !.got = got]
  BY DEF Read
<1> HIDE DEF there
<1>4. got \in Seq(Nat)
  <2> SUFFICES \A i \in 1 .. n : i <= there => f[c.at + i] \in Nat
    OBVIOUS
  <2> QED BY <1>1, <1>2
<1>5. failed \in BOOLEAN
  BY Zenon
<1>6. c.at + there \in Nat
  BY <1>1, <1>2
<1> HIDE DEF got, failed
<1>7. /\ Read(f, c, n).at = c.at + there /\ Read(f, c, n).end = c.end
      /\ Read(f, c, n).failed = failed /\ Read(f, c, n).got = got
  BY <1>1, <1>3
<1>8. Read(f, c, n) \in [at : Nat, failed : BOOLEAN, end : Nat, got : Seq(Nat)]
  BY <1>1, <1>3, <1>4, <1>5, <1>6
<1> QED BY <1>2, <1>7, <1>8 DEF got, failed

LEMMA ReadType ==
  ASSUME NEW f \in Seq(Nat), NEW c \in Cursors(f), NEW n \in Nat
  PROVE  /\ Read(f, c, n) \in Cursors(f) /\ Read(f, c, n).end = c.end
         /\ Len(Read(f, c, n).got) = n
         /\ c.failed => Read(f, c, n).failed
<1> DEFINE r == Read(f, c, n)
<1>1. PICK there \in 0 .. c.end - c.at :
            /\ r.at = c.at + there /\ r.end = c.end
            /\ r.failed = (c.failed \/ there < n)
            /\ r.got = [i \in 1 .. n |-> IF i <= there THEN f[c.at + i] ELSE 0]
            /\ r \in [at : Nat, failed : BOOLEAN, end : Nat, got : Seq(Nat)]
  BY ReadIs
<1>2. c.at \in Nat /\ c.end \in Nat /\ c.at <= c.end /\ c.end <= Len(f)
  BY DEF Cursors
<1> HIDE DEF r
<1>3. Len(r.got) = n
  BY <1>1
<1>4. r.at <= r.end /\ r.end <= Len(f)
  BY <1>1, <1>2
<1>5. c.failed => r.failed
  BY <1>1
<1> QED BY <1>1, <1>3, <1>4, <1>5 DEF Cursors, r

\* A read that did not come up short gives the bytes of the file.
LEMMA ReadWhole ==
  ASSUME NEW f \in Seq(Nat), NEW c \in Cursors(f), NEW n \in Nat, ~Read(f, c, n).failed
  PROVE  /\ ~c.failed /\ c.at + n <= Len(f) /\ Read(f, c, n).at = c.at + n
         /\ \A i \in 1 .. n : Read(f, c, n).got[i] = f[c.at + i]
<1> DEFINE r == Read(f, c, n)
<1>1. PICK there \in 0 .. c.end - c.at :
            /\ there = IF c.failed THEN 0 ELSE IF n < c.end - c.at THEN n ELSE c.end - c.at
            /\ r.at = c.at + there /\ r.end = c.end
            /\ r.failed = (c.failed \/ there < n)
            /\ r.got = [i \in 1 .. n |-> IF i <= there THEN f[c.at + i] ELSE 0]
            /\ r \in [at : Nat, failed : BOOLEAN, end : Nat, got : Seq(Nat)]
  BY ReadIs
<1>2. c.at \in Nat /\ c.end \in Nat /\ c.at <= c.end /\ c.end <= Len(f)
  BY DEF Cursors
<1>3. ~c.failed /\ ~(there < n)
  BY <1>1
<1>4. there = n /\ n <= c.end - c.at
  BY <1>1, <1>2, <1>3
<1> HIDE DEF r
<1>5. \A i \in 1 .. n : r.got[i] = f[c.at + i]
  BY <1>1, <1>4
<1> QED BY <1>1, <1>2, <1>3, <1>4, <1>5 DEF r

LEMMA ReadTwoType ==
  ASSUME NEW f \in Seq(Nat), NEW c \in Cursors(f)
  PROVE  /\ Read(f, c, 2) \in Cursors(f) /\ Len(Read(f, c, 2).got) = 2
         /\ c.failed => Read(f, c, 2).failed
<1> DEFINE P(n) == /\ Read(f, c, n) \in Cursors(f) /\ Len(Read(f, c, n).got) = n
                   /\ c.failed => Read(f, c, n).failed
<1>1. \A n \in Nat : P(n)
  BY ReadType
<1>2. P(2)
  <2> HIDE DEF P
  <2> QED BY <1>1
<1> QED BY ONLY <1>2, Zenon

LEMMA ReadTwoWhole ==
  ASSUME NEW f \in Seq(Nat), NEW c \in Cursors(f), ~Read(f, c, 2).failed
  PROVE  /\ ~c.failed /\ c.at + 2 <= Len(f) /\ Read(f, c, 2).at = c.at + 2
         /\ \A i \in 1 .. 2 : Read(f, c, 2).got[i] = f[c.at + i]
<1>1. \A n \in Nat : n = 2 /\ ~Read(f, c, n).failed =>
                        /\ ~c.failed /\ c.at + n <= Len(f) /\ Read(f, c, n).at = c.at + n
                        /\ \A i \in 1 .. n : Read(f, c, n).got[i] = f[c.at + i]
  BY ReadWhole
<1> QED BY <1>1, 2 \in Nat, Zenon

LEMMA ValueOfType ==
  ASSUME NEW b, b[1] \in Nat, b[2] \in Nat, NEW swap
  PROVE  ValueOf(b, swap) \in Nat
<1>1. b[1] * Base + b[2] \in Nat /\ b[2] * Base + b[1] \in Nat
  BY BaseFacts
<1> QED BY <1>1 DEF ValueOf

LEMMA ValuesAre ==
  ASSUME NEW b \in Seq(Nat), NEW n \in Nat, Len(b) = 2 * n, NEW swap
  PROVE  /\ Values(b, swap) \in Seq(Nat) /\ Len(Values(b, swap)) = n
         /\ \A i \in 1 .. n : \E two : /\ two[1] = b[2 * i - 1] /\ two[2] = b[2 * i]
                                       /\ Values(b, swap)[i] = ValueOf(two, swap)
<1> DEFINE two(i) == SubSeq(b, 2 * i - 1, 2 * i)
           v(i) == ValueOf(two(i), swap)
<1>1. Len(b) \div 2 = n
  OBVIOUS
<1>2. Values(b, swap) = [i \in 1 .. n |-> v(i)]
  BY <1>1 DEF Values
<1>3. \A i \in 1 .. n : two(i)[1] = b[2 * i - 1] /\ two(i)[2] = b[2 * i]
  <2> SUFFICES ASSUME NEW i \in 1 .. n PROVE two(i)[1] = b[2 * i - 1] /\ two(i)[2] = b[2 * i]
    OBVIOUS
  <2>1. 2 * i - 1 \in 1 .. Len(b) /\ 2 * i \in 1 .. Len(b)
    OBVIOUS
  <2>2. \A k \in 1 .. 2 : two(i)[k] = b[(2 * i - 1) + k - 1]
    BY <2>1
  <2>3. (2 * i - 1) + 1 - 1 = 2 * i - 1 /\ (2 * i - 1) + 2 - 1 = 2 * i /\ 1 \in 1 .. 2 /\ 2 \in 1 .. 2
    OBVIOUS
  <2> HIDE DEF two
  <2> QED BY ONLY <2>2, <2>3
<1>4. \A i \in 1 .. n : b[2 * i - 1] \in Nat /\ b[2 * i] \in Nat
  OBVIOUS
<1> HIDE DEF two
<1>5. \A i \in 1 .. n : v(i) \in Nat
  BY <1>3, <1>4, ValueOfType
<1> HIDE DEF v
<1>6. Values(b, swap) \in Seq(Nat) /\ Len(Values(b, swap)) = n /\ \A i \in 1 .. n : Values(b, swap)[i] = v(i)
  BY <1>2, <1>5
<1> QED BY <1>3, <1>6 DEF v

LEMMA TagType ==
  ASSUME NEW type \in Types
  PROVE  /\ Tag[type] \in Seq(Nat) /\ Len(Tag[type]) \in Nat \ {0}
         /\ \A i \in 1 .. Len(Tag[type]) : (Tag[type][i] = 0) <=> (i = Len(Tag[type]))
<1>1. /\ Tag[type] \in Seq(Nat) /\ Tag[type] # <<>>
      /\ \A i \in DOMAIN Tag[type] : (Tag[type][i] = 0) <=> (i = Len(Tag[type]))
  BY FormatAssumption
<1>2. DOMAIN Tag[type] = 1 .. Len(Tag[type]) /\ Len(Tag[type]) \in Nat \ {0}
  BY <1>1
<1> QED BY <1>1, <1>2

\* The tag of an item that has one.
LEMMA OwnTag ==
  ASSUME NEW item \in Items, NEW order \in Orders, item.kind \in Types,
         NEW i \in 1 .. Len(Tag[item.kind])
  PROVE  i \in 1 .. Len(Encode(item, order)) /\ Encode(item, order)[i] = Tag[item.kind][i]
<1> DEFINE e == Encode(item, order)
           L == Len(Tag[item.kind])
           m == Len(item.data)
<1>1. /\ L \in Nat \ {0} /\ Len(e) = L + 4 + 2 * m
      /\ \A k \in 1 .. L : e[k] = Tag[item.kind][k]
  BY EncodeTagged DEF LaidOut
<1>2. m \in Nat
  BY ArchiveAssumption
<1>3. i \in 1 .. L
  OBVIOUS
<1> HIDE DEF e, L, m
<1>4. i \in 1 .. Len(e)
  BY <1>1, <1>2, <1>3
<1> QED BY <1>1, <1>3, <1>4 DEF e

LEMMA TagsDiffer ==
  ASSUME NEW t1 \in Types, NEW t2 \in Types, Len(Tag[t1]) = Len(Tag[t2]),
         \A i \in 1 .. Len(Tag[t1]) : Tag[t1][i] = Tag[t2][i]
  PROVE  t1 = t2
<1>1. Tag[t1] \in Seq(Nat) /\ Tag[t2] \in Seq(Nat)
  BY TagType
<1>2. Tag[t1] = Tag[t2]
  BY <1>1, SeqEqual
<1> QED BY <1>2, FormatAssumption

LEMMA ParseType ==
  ASSUME NEW f \in Seq(Nat), NEW c \in Cursors(f), NEW type \in Types, NEW swap
  PROVE  /\ Parse(f, c, type, swap).cursor \in Cursors(f)
         /\ Parse(f, c, type, swap).data \in Seq(Nat)
<1> DEFINE tag == Read(f, c, Len(Tag[type]))
           version == Read(f, tag, 2)
           count == Read(f, version, 2)
           n == ValueOf(count.got, swap)
           data == Read(f, count, 2 * n)
<1>1. tag \in Cursors(f)
  BY TagType, ReadType
<1>2. version \in Cursors(f)
  <2> HIDE DEF tag
  <2> QED BY <1>1, ReadType
<1>3. count \in Cursors(f) /\ Len(count.got) = 2
  <2> HIDE DEF version
  <2> QED BY <1>2, ReadType
<1>4. n \in Nat
  <2> HIDE DEF count
  <2>1. count.got \in Seq(Nat)
    BY <1>3 DEF Cursors
  <2>2. count.got[1] \in Nat /\ count.got[2] \in Nat
    BY <1>3, <2>1
  <2> QED BY <2>2, ValueOfType
<1>5. data \in Cursors(f) /\ Len(data.got) = 2 * n
  <2> HIDE DEF count, n
  <2>1. 2 * n \in Nat
    BY <1>4
  <2> QED BY <1>3, <2>1, ReadType
<1>6. Values(data.got, swap) \in Seq(Nat)
  <2> HIDE DEF data, n
  <2>1. data.got \in Seq(Nat)
    BY <1>5 DEF Cursors
  <2> QED BY <1>4, <1>5, <2>1, ValuesAre
<1>7. Parse(f, c, type, swap) =
         IF ValueOf(version.got, swap) \in Supported[type]
         THEN [cursor |-> data, data |-> Values(data.got, swap)]
         ELSE [cursor |-> version, data |-> <<>>]
  BY DEF Parse
<1> HIDE DEF version, data
<1> QED BY <1>2, <1>5, <1>6, <1>7

-----------------------------------------------------------------------------
(* Reading an item from where it starts.                                   *)

\* The bytes b lie in f after the first p, as far as f goes.
Ahead(f, p, b) == \A i \in 1 .. Len(b) : p + i <= Len(f) => f[p + i] = b[i]

\* A whole tag matches what is ahead only if that is an item of the type.
LEMMA TagTells ==
  ASSUME NEW f \in Seq(Nat), NEW p \in Nat, NEW type \in Types, NEW item \in Items, NEW order \in Orders,
         Ahead(f, p, Encode(item, order)), p + Len(Tag[type]) <= Len(f)
  PROVE  (\A i \in 1 .. Len(Tag[type]) : f[p + i] = Tag[type][i]) <=> item.kind = type
<1> DEFINE e == Encode(item, order)
           tag == Tag[type]
           L == Len(tag)
<1>1. e \in Seq(Nat) /\ \A i \in 1 .. Len(e) : p + i <= Len(f) => f[p + i] = e[i]
  BY EncodeType DEF Ahead
<1>2. tag \in Seq(Nat) /\ L \in Nat \ {0} /\ p + L <= Len(f) /\ Len(f) \in Nat
  BY TagType
<1>3. \A i \in 1 .. L : (tag[i] = 0) <=> (i = L)
  BY TagType
<1>4. CASE item.kind \notin Types
  <2>1. PICK i \in DOMAIN e \cap DOMAIN tag : e[i] # tag[i]
    BY <1>4, PlainAssumption
  <2>2. i \in 1 .. Len(e) /\ i \in 1 .. L
    BY <1>1, <1>2, <2>1
  <2> HIDE DEF e, tag, L
  <2>3. p + i <= Len(f)
    BY <1>2, <2>2
  <2>4. f[p + i] # tag[i]
    BY <1>1, <2>1, <2>2, <2>3
  <2> QED BY <1>4, <2>2, <2>4 DEF tag, L
<1>5. CASE item.kind \in Types
  <2> DEFINE own == Tag[item.kind]
             K == Len(own)
  <2>1. K \in Nat \ {0} /\ \A i \in 1 .. K : (own[i] = 0) <=> (i = K)
    BY <1>5, TagType
  <2>2. \A i \in 1 .. K : i \in 1 .. Len(e) /\ e[i] = own[i]
    BY <1>5, OwnTag
  <2>3. K = L /\ (\A i \in 1 .. K : own[i] = tag[i]) => item.kind = type
    BY <1>5, TagsDiffer
  <2>4. item.kind = type => own = tag /\ K = L
    OBVIOUS
  <2> HIDE DEF e, tag, L, own, K
  <2>5. ASSUME NEW i \in 1 .. K, i <= L PROVE f[p + i] = own[i]
    <3>1. p + i <= Len(f)
      BY <1>2, <2>1, <2>5
    <3>2. f[p + i] = e[i]
      BY <1>1, <2>2, <3>1
    <3> QED BY <3>2, <2>2
  <2>6. ASSUME \A i \in 1 .. L : f[p + i] = tag[i] PROVE item.kind = type
    <3>1. K = L
      <4>1. CASE K < L
        <5>1. K \in 1 .. K /\ K \in 1 .. L /\ K # L /\ K <= L
          BY <1>2, <2>1, <4>1
        <5>2. own[K] = 0 /\ tag[K] # 0
          BY <1>3, <2>1, <5>1
        <5> QED BY <2>5, <2>6, <5>1, <5>2
      <4>2. CASE L < K
        <5>1. L \in 1 .. K /\ L \in 1 .. L /\ L # K /\ L <= L
          BY <1>2, <2>1, <4>2
        <5>2. own[L] # 0 /\ tag[L] = 0
          BY <1>3, <2>1, <5>1
        <5> QED BY <2>5, <2>6, <5>1, <5>2
      <4> QED BY <4>1, <4>2, <1>2, <2>1
    <3>2. \A i \in 1 .. K : i <= L /\ i \in 1 .. L
      BY <3>1, <2>1
    <3>3. \A i \in 1 .. K : own[i] = tag[i]
      BY <3>2, <2>5, <2>6
    <3> QED BY <3>1, <3>3, <2>3
  <2>7. ASSUME item.kind = type PROVE \A i \in 1 .. L : f[p + i] = tag[i]
    <3>1. own = tag /\ K = L
      BY <2>4, <2>7
    <3>2. \A i \in 1 .. L : i \in 1 .. K /\ i <= L
      BY <3>1, <2>1
    <3> QED BY <3>1, <3>2, <2>5
  <2> QED BY <2>6, <2>7 DEF L, tag
<1> QED BY <1>4, <1>5

\* What was read l bytes after the start of e is what e has there.
Fetched(f, e, p, l, k, got) ==
    /\ p \in Nat /\ l \in Nat /\ k \in Nat /\ Len(f) \in Nat /\ Len(e) \in Nat
    /\ p + l + k <= Len(f) /\ l + k <= Len(e) /\ Ahead(f, p, e)
    /\ \A i \in 1 .. k : got[i] = f[p + l + i]

LEMMA ReadAhead ==
  ASSUME NEW f, NEW e, NEW p, NEW l, NEW k, NEW got, Fetched(f, e, p, l, k, got)
  PROVE  \A i \in 1 .. k : got[i] = e[l + i]
<1>1. \A i \in 1 .. k : p + l + i = p + (l + i) /\ l + i \in 1 .. Len(e) /\ p + (l + i) <= Len(f)
  BY DEF Fetched
<1> QED BY <1>1 DEF Ahead, Fetched

\* What the version, the count and the values read back to.
LEMMA ParseGivesBack ==
  ASSUME NEW f \in Seq(Nat), NEW c \in Cursors(f), NEW item \in Items, NEW order \in Orders,
         item.kind \in Types, item.version \in Supported[item.kind],
         Ahead(f, c.at, Encode(item, order)),
         ~Parse(f, c, item.kind, order # Native).cursor.failed
  PROVE  /\ Parse(f, c, item.kind, order # Native).cursor.at = c.at + Len(Encode(item, order))
         /\ c.at + Len(Encode(item, order)) <= Len(f)
         /\ Parse(f, c, item.kind, order # Native).data = item.data
<1> DEFINE swap == order # Native
           L == Len(Tag[item.kind])
           e == Encode(item, order)
           p == c.at
           tag == Read(f, c, L)
           version == Read(f, tag, 2)
           count == Read(f, version, 2)
           n == ValueOf(count.got, swap)
           data == Read(f, count, 2 * n)
           parsed == Parse(f, c, item.kind, swap)
           m == Len(item.data)
<1>1. parsed = IF ValueOf(version.got, swap) \in Supported[item.kind]
               THEN [cursor |-> data, data |-> Values(data.got, swap)]
               ELSE [cursor |-> version, data |-> <<>>]
  BY DEF Parse
<1>2. L \in Nat /\ p \in Nat /\ m \in Nat /\ f \in Seq(Nat) /\ Len(f) \in Nat
  BY TagType, ArchiveAssumption DEF Cursors
<1>3. /\ e \in Seq(Nat) /\ Len(e) = L + 4 + 2 * m
      /\ e[L + 1] = Bytes(item.version, order)[1] /\ e[L + 2] = Bytes(item.version, order)[2]
      /\ e[L + 3] = Bytes(m, order)[1] /\ e[L + 4] = Bytes(m, order)[2]
      /\ \A i \in 1 .. m :
            /\ e[L + 4 + (2 * i - 1)] = Bytes(item.data[i], order)[1]
            /\ e[L + 4 + 2 * i] = Bytes(item.data[i], order)[2]
  BY EncodeTagged DEF LaidOut
<1>4. Ahead(f, p, e)
  OBVIOUS
<1>5. /\ item.version \in 0 .. Base * Base - 1 /\ m \in 0 .. Base * Base - 1
      /\ \A i \in 1 .. m : item.data[i] \in 0 .. Base * Base - 1
      /\ item.data \in Seq(0 .. Base * Base - 1)
  BY ArchiveAssumption, BaseFacts
<1>6. ~parsed.cursor.failed
  OBVIOUS
<1> HIDE DEF parsed, p, m, e
<1>7. tag \in Cursors(f)
  BY <1>2, ReadType
<1>8. version \in Cursors(f) /\ Len(version.got) = 2
  <2> HIDE DEF tag, L
  <2> QED BY <1>7, ReadTwoType
<1>9. count \in Cursors(f) /\ Len(count.got) = 2 /\ (version.failed => count.failed)
  <2> HIDE DEF version
  <2> QED BY <1>8, ReadTwoType
<1>10. n \in Nat
  <2> HIDE DEF count
  <2>1. count.got \in Seq(Nat)
    BY <1>9 DEF Cursors
  <2>2. count.got[1] \in Nat /\ count.got[2] \in Nat
    BY <1>9, <2>1
  <2> QED BY <2>2, ValueOfType
<1>11. data \in Cursors(f) /\ Len(data.got) = 2 * n /\ (count.failed => data.failed)
  <2> HIDE DEF count, n
  <2>1. 2 * n \in Nat
    BY <1>10
  <2> QED BY <1>9, <2>1, ReadType
<1>12. ~version.failed
  <2> HIDE DEF version, count, data
  <2> QED BY <1>1, <1>6, <1>9, <1>11
<1>13. /\ ~tag.failed /\ tag.at + 2 <= Len(f) /\ version.at = tag.at + 2
       /\ \A i \in 1 .. 2 : version.got[i] = f[tag.at + i]
  <2> HIDE DEF tag
  <2> QED BY <1>7, <1>12, ReadTwoWhole
<1>14. tag.at = p + L
  <2> HIDE DEF L
  <2> QED BY <1>2, <1>13, ReadWhole DEF p
<1>15. version.got[1] = e[L + 1] /\ version.got[2] = e[L + 2]
  <2> HIDE DEF version, tag, L
  <2>1. L + 2 <= Len(e) /\ Len(e) \in Nat
    BY <1>2, <1>3
  <2>2. \A i \in 1 .. 2 : version.got[i] = e[L + i]
    <3>1. Fetched(f, e, p, L, 2, version.got)
      BY ONLY <2>1, <1>2, <1>4, <1>13, <1>14 DEF Fetched
    <3> QED BY ONLY <3>1, ReadAhead
  <2> QED BY <2>2
<1>16. ValueOf(version.got, swap) = item.version
  <2> HIDE DEF version, L
  <2>1. /\ version.got[1] = Bytes(item.version, order)[1]
        /\ version.got[2] = Bytes(item.version, order)[2]
    BY ONLY <1>3, <1>15
  <2>2. item.version \in 0 .. Base * Base - 1 /\ order \in Orders
    BY <1>5
  <2> QED BY ONLY <2>1, <2>2, BytesReadBack, Zenon
<1>17. parsed = [cursor |-> data, data |-> Values(data.got, swap)] /\ ~data.failed /\ ~count.failed
  <2>1. parsed = [cursor |-> data, data |-> Values(data.got, swap)]
    <3> HIDE DEF version, data, swap
    <3> QED BY <1>1, <1>16
  <2> HIDE DEF data, count
  <2> QED BY <2>1, <1>6, <1>11
<1>18. /\ version.at + 2 <= Len(f) /\ count.at = version.at + 2
       /\ \A i \in 1 .. 2 : count.got[i] = f[version.at + i]
  <2> HIDE DEF version
  <2> QED BY <1>8, <1>17, ReadTwoWhole
<1>19. version.at = p + L + 2 /\ count.at = p + L + 4
  <2>1. p \in Nat /\ L \in Nat
    BY <1>2
  <2> HIDE DEF version, count, tag, L, p
  <2> QED BY ONLY <2>1, <1>13, <1>14, <1>18
<1>20. count.got[1] = e[L + 3] /\ count.got[2] = e[L + 4]
  <2> HIDE DEF version, count, tag, L
  <2> DEFINE l == L + 2
  <2>1. l + 2 <= Len(e) /\ Len(e) \in Nat /\ l \in Nat /\ version.at = p + l
    BY <1>2, <1>3, <1>19
  <2>2. \A i \in 1 .. 2 : count.got[i] = e[l + i]
    <3> HIDE DEF l
    <3>1. Fetched(f, e, p, l, 2, count.got)
      BY ONLY <2>1, <1>2, <1>4, <1>18 DEF Fetched
    <3> QED BY ONLY <3>1, ReadAhead
  <2>3. L + 2 + 1 = L + 3 /\ L + 2 + 2 = L + 4
    BY <1>2
  <2> QED BY <2>2, <2>3
<1>21. n = m
  <2> HIDE DEF count, L
  <2>1. count.got[1] = Bytes(m, order)[1] /\ count.got[2] = Bytes(m, order)[2]
    BY ONLY <1>3, <1>20
  <2>2. m \in 0 .. Base * Base - 1 /\ order \in Orders
    BY <1>5
  <2> QED BY ONLY <2>1, <2>2, BytesReadBack, Zenon
<1>22. /\ count.at + 2 * n <= Len(f) /\ data.at = count.at + 2 * n
       /\ \A i \in 1 .. 2 * n : data.got[i] = f[count.at + i]
  <2> HIDE DEF count, n
  <2>1. 2 * n \in Nat
    BY <1>10
  <2> QED BY <1>9, <1>17, <2>1, ReadWhole
<1>23. data.at = p + Len(e) /\ p + Len(e) <= Len(f)
  <2> HIDE DEF data, count, version, L, n
  <2>1. data.at = count.at + 2 * m /\ count.at + 2 * m <= Len(f)
    BY <1>21, <1>22
  <2>2. Len(e) = L + 4 + 2 * m /\ count.at = p + L + 4
    BY <1>3, <1>19
  <2> QED BY ONLY <2>1, <2>2, <1>2
<1>24. \A i \in 1 .. 2 * m : data.got[i] = e[L + 4 + i]
  <2> HIDE DEF data, count, version, L, n
  <2> DEFINE l == L + 4
             k == 2 * m
  <2>1. /\ l + k <= Len(e) /\ Len(e) \in Nat /\ l \in Nat /\ k \in Nat
        /\ count.at = p + l /\ count.at + k <= Len(f)
    BY <1>2, <1>3, <1>19, <1>21, <1>22
  <2>2. \A i \in 1 .. k : data.got[i] = f[count.at + i]
    BY <1>21, <1>22
  <2> HIDE DEF l, k
  <2>3. \A i \in 1 .. k : data.got[i] = e[l + i]
    <3>1. Fetched(f, e, p, l, k, data.got)
      BY ONLY <2>1, <2>2, <1>2, <1>4 DEF Fetched
    <3> QED BY ONLY <3>1, ReadAhead
  <2> QED BY <2>3 DEF l, k
<1>25. Values(data.got, swap) = item.data
  <2> HIDE DEF data, L, n, swap
  <2>1. data.got \in Seq(Nat) /\ Len(data.got) = 2 * m
    BY <1>11, <1>21 DEF Cursors
  <2>2. /\ Values(data.got, swap) \in Seq(Nat) /\ Len(Values(data.got, swap)) = m
        /\ \A i \in 1 .. m : \E two : /\ two[1] = data.got[2 * i - 1] /\ two[2] = data.got[2 * i]
                                      /\ Values(data.got, swap)[i] = ValueOf(two, swap)
    BY <1>2, <2>1, ValuesAre, Zenon
  <2>3. ASSUME NEW i \in 1 .. m PROVE Values(data.got, swap)[i] = item.data[i]
    <3>1. PICK two : /\ two[1] = data.got[2 * i - 1] /\ two[2] = data.got[2 * i]
                     /\ Values(data.got, swap)[i] = ValueOf(two, swap)
      BY <2>2
    <3>2. 2 * i - 1 \in 1 .. 2 * m /\ 2 * i \in 1 .. 2 * m
      BY <1>2
    <3>3. two[1] = Bytes(item.data[i], order)[1] /\ two[2] = Bytes(item.data[i], order)[2]
      BY ONLY <3>1, <3>2, <1>3, <1>24, i \in 1 .. m
    <3>4. ValueOf(two, swap) = item.data[i]
      BY <1>5, <3>3, BytesReadBack DEF swap
    <3> QED BY <3>1, <3>4
  <2>4. item.data \in Seq(Nat) /\ Len(item.data) = m
    BY <1>5, BaseFacts DEF m
  <2> QED BY <2>2, <2>3, <2>4, SeqEqual
<1> HIDE DEF data
<1> QED BY <1>17, <1>23, <1>25 DEF parsed, e, p

-----------------------------------------------------------------------------
(* What a file holds.                                                      *)

\* Every object is of a version its release loads; Archive's finding on
\* versions says what happens otherwise.
SameRelease == \A item \in Items : item.kind \in Types => item.version \in Supported[item.kind]

\* The items whole, and at most the beginning of one more.
FileHolds(f, items, order) ==
    /\ f = <<>> => items = <<>>
    /\ f # <<>> =>
          /\ Len(ImageOf(items, order, Len(items))) <= Len(f)
          /\ \A i \in 1 .. Len(ImageOf(items, order, Len(items))) :
                f[i] = ImageOf(items, order, Len(items))[i]
          /\ \/ Len(f) = Len(ImageOf(items, order, Len(items)))
             \/ \E item \in Items :
                   /\ Ahead(f, Len(ImageOf(items, order, Len(items))), Encode(item, order))
                   /\ Len(f) < Len(ImageOf(items, order, Len(items))) + Len(Encode(item, order))

\* Where an item starts it is ahead, whole; after the last there is nothing
\* or an item cut short.
LEMMA NextAhead ==
  ASSUME NEW f \in Seq(Nat), f # <<>>, NEW items \in Seq(Items), NEW order \in Orders,
         FileHolds(f, items, order), NEW n \in 0 .. Len(items)
  PROVE  /\ Len(ImageOf(items, order, n)) \in Nat \ {0}
         /\ Len(ImageOf(items, order, n)) <= Len(f)
         /\ n < Len(items) =>
               /\ items[n + 1] \in Items
               /\ Ahead(f, Len(ImageOf(items, order, n)), Encode(items[n + 1], order))
               /\ Len(ImageOf(items, order, n + 1)) =
                     Len(ImageOf(items, order, n)) + Len(Encode(items[n + 1], order))
               /\ Len(ImageOf(items, order, n + 1)) <= Len(f)
         /\ ~(n < Len(items)) =>
               \/ Len(f) = Len(ImageOf(items, order, n))
               \/ \E item \in Items :
                     /\ Ahead(f, Len(ImageOf(items, order, n)), Encode(item, order))
                     /\ Len(f) < Len(ImageOf(items, order, n)) + Len(Encode(item, order))
<1> DEFINE N == Len(items)
           w == ImageOf(items, order, N)
           s == ImageOf(items, order, n)
           p == Len(s)
<1>1. N \in Nat /\ N \in n .. N /\ N \in 0 .. N
  OBVIOUS
<1>2. Len(w) <= Len(f) /\ \A i \in 1 .. Len(w) : f[i] = w[i]
  BY DEF FileHolds
<1>3. w \in Seq(Nat) /\ s \in Seq(Nat) /\ p \in Nat \ {0} /\ Len(w) \in Nat /\ Len(f) \in Nat
  BY <1>1, ImageType
<1>4. p <= Len(w)
  <2>1. N \in n .. Len(items) /\ n \in 0 .. Len(items)
    BY <1>1
  <2>2. Len(ImageOf(items, order, n)) <= Len(ImageOf(items, order, N))
    <3> HIDE DEF N
    <3> QED BY <2>1, ImageGrows
  <2> QED BY <2>2
<1>5. p <= Len(f)
  <2> HIDE DEF w, p
  <2> QED BY <1>2, <1>3, <1>4
<1>6. CASE n < N
  <2> DEFINE e == Encode(items[n + 1], order)
             q == Len(ImageOf(items, order, n + 1))
  <2>1. items[n + 1] \in Items
    BY <1>6
  <2>2. e \in Seq(Nat)
    BY <2>1, EncodeType
  <2>3. q = p + Len(e) /\ p + Len(e) <= Len(w) /\ \A i \in 1 .. Len(e) : w[p + i] = e[i]
    <3>1. n \in Nat /\ N \in 0 .. Len(items) /\ n < N
      BY <1>1, <1>6
    <3> HIDE DEF N
    <3> QED BY <3>1, ImageItem
  <2> HIDE DEF e, q, p, w, s, N
  <2>4. \A i \in 1 .. Len(e) : p + i \in 1 .. Len(w)
    BY <2>2, <2>3, <1>3
  <2>5. Ahead(f, p, e)
    BY <2>3, <2>4, <1>2 DEF Ahead
  <2>6. q <= Len(f)
    BY <2>2, <2>3, <1>2, <1>3
  <2> QED BY <1>3, <1>5, <1>6, <2>1, <2>3, <2>5, <2>6 DEF e, q, p, s, N
<1>7. CASE ~(n < N)
  <2>1. n = N
    BY <1>1, <1>7
  <2> QED BY <1>3, <1>5, <1>7, <2>1 DEF FileHolds
<1> QED BY <1>6, <1>7

\* What a load that got through its parse starts from, and what it gives.
LoadsHere(f, items, order, n, c, type) ==
    /\ f \in Seq(Nat) /\ f # <<>> /\ items \in Seq(Items) /\ order \in Orders
    /\ FileHolds(f, items, order) /\ n \in 0 .. Len(items)
    /\ c \in Cursors(f) /\ c.at = Len(ImageOf(items, order, n)) /\ type \in Types
    /\ c.at + Len(Tag[type]) <= Len(f) /\ \A i \in 1 .. Len(Tag[type]) : f[c.at + i] = Tag[type][i]
    /\ ~Parse(f, c, type, order # Native).cursor.failed

LoadsAs(parsed, items, order, n, type) ==
    /\ n < Len(items) /\ items[n + 1].kind = type /\ parsed.data = items[n + 1].data
    /\ parsed.cursor.at = Len(ImageOf(items, order, n + 1))

\* An object that parses from where an item starts is that item, and leaves
\* its reader where the next one starts.
LEMMA LoadsItem ==
  ASSUME SameRelease, NEW f, NEW items, NEW order, NEW n, NEW c, NEW type,
         LoadsHere(f, items, order, n, c, type)
  PROVE  LoadsAs(Parse(f, c, type, order # Native), items, order, n, type)
<1>0. /\ f \in Seq(Nat) /\ f # <<>> /\ items \in Seq(Items) /\ order \in Orders
      /\ FileHolds(f, items, order) /\ n \in 0 .. Len(items)
      /\ c \in Cursors(f) /\ c.at = Len(ImageOf(items, order, n)) /\ type \in Types
      /\ c.at + Len(Tag[type]) <= Len(f) /\ \A i \in 1 .. Len(Tag[type]) : f[c.at + i] = Tag[type][i]
      /\ ~Parse(f, c, type, order # Native).cursor.failed
  BY DEF LoadsHere
<1>1. c.at \in Nat /\ Len(f) \in Nat /\ Len(Tag[type]) \in Nat \ {0}
  BY <1>0, TagType DEF Cursors
<1>2. ASSUME NEW item \in Items, Ahead(f, c.at, Encode(item, order))
      PROVE  /\ item.kind = type
             /\ Parse(f, c, type, order # Native).cursor.at = c.at + Len(Encode(item, order))
             /\ c.at + Len(Encode(item, order)) <= Len(f)
             /\ Parse(f, c, type, order # Native).data = item.data
  <2>1. item.kind = type
    BY <1>0, <1>1, <1>2, TagTells
  <2>2. item.kind \in Types /\ item.version \in Supported[item.kind]
    BY <1>0, <2>1 DEF SameRelease
  <2>3. ~Parse(f, c, item.kind, order # Native).cursor.failed
    BY <1>0, <2>1
  <2> QED BY <1>0, <1>2, <2>1, <2>2, <2>3, ParseGivesBack
<1>3. n < Len(items)
  <2> SUFFICES ASSUME ~(n < Len(items)) PROVE FALSE
    OBVIOUS
  <2>1. \/ Len(f) = c.at
        \/ \E item \in Items :
              Ahead(f, c.at, Encode(item, order)) /\ Len(f) < c.at + Len(Encode(item, order))
    BY <1>0, NextAhead
  <2>2. Len(f) # c.at
    BY <1>0, <1>1
  <2>3. PICK item \in Items :
              Ahead(f, c.at, Encode(item, order)) /\ Len(f) < c.at + Len(Encode(item, order))
    BY <2>1, <2>2
  <2>4. c.at + Len(Encode(item, order)) <= Len(f)
    BY <1>2, <2>3
  <2>5. Len(Encode(item, order)) \in Nat
    BY <1>0, EncodeType
  <2> QED BY <1>1, <2>3, <2>4, <2>5
<1>4. /\ items[n + 1] \in Items
      /\ Ahead(f, c.at, Encode(items[n + 1], order))
      /\ Len(ImageOf(items, order, n + 1)) = c.at + Len(Encode(items[n + 1], order))
  BY <1>0, <1>3, NextAhead
<1> QED BY <1>0, <1>2, <1>3, <1>4 DEF LoadsAs

\* So is an integer or binary data of the size that was written.
LEMMA LoadsPlain ==
  ASSUME NEW f \in Seq(Nat), f # <<>>, NEW items \in Seq(Items), NEW order \in Orders,
         FileHolds(f, items, order), NEW n \in Nat, n < Len(items),
         NEW c \in Cursors(f), c.at = Len(ImageOf(items, order, n)),
         NEW size \in Nat, Len(Encode(items[n + 1], order)) = size, ~Read(f, c, size).failed
  PROVE  /\ Read(f, c, size).at = Len(ImageOf(items, order, n + 1))
         /\ \A i \in 1 .. size : Read(f, c, size).got[i] = Encode(items[n + 1], order)[i]
<1>1. /\ Ahead(f, c.at, Encode(items[n + 1], order))
      /\ Len(ImageOf(items, order, n + 1)) = c.at + size
  BY NextAhead
<1>2. /\ c.at + size <= Len(f) /\ Read(f, c, size).at = c.at + size
      /\ \A i \in 1 .. size : Read(f, c, size).got[i] = f[c.at + i]
  BY ReadWhole
<1>3. c.at \in Nat /\ Len(f) \in Nat
  BY DEF Cursors
<1>4. \A i \in 1 .. size : c.at + i <= Len(f)
  BY <1>2, <1>3
<1> QED BY <1>1, <1>2, <1>4 DEF Ahead

LEMMA PrefixIs ==
  ASSUME NEW s \in Seq(Nat), NEW n \in 0 .. Len(s)
  PROVE  /\ Prefix(s, n) \in Seq(Nat) /\ Len(Prefix(s, n)) = n
         /\ \A i \in 1 .. n : Prefix(s, n)[i] = s[i]
         /\ n = 0 => Prefix(s, n) = <<>>
         /\ n = Len(s) => Prefix(s, n) = s
<1>1. /\ Prefix(s, n) \in Seq(Nat) /\ Len(Prefix(s, n)) = n
      /\ \A i \in 1 .. n : Prefix(s, n)[i] = s[i]
  BY DEF Prefix
<1>2. n = 0 => Prefix(s, n) = <<>>
  BY <1>1
<1>3. n = Len(s) => Prefix(s, n) = s
  BY <1>1, SeqEqual
<1> QED BY <1>1, <1>2, <1>3

WritesThem(items, order, item, n, f, all) ==
    /\ items \in Seq(Items) /\ order \in Orders /\ item \in Items
    /\ n \in 0 .. Len(Encode(item, order))
    /\ f = ImageOf(items, order, Len(items)) \o Prefix(Encode(item, order), n)
    /\ all = IF n = Len(Encode(item, order)) THEN Append(items, item) ELSE items

\* As much of the next item as was written, after the items before it.
LEMMA WritesOn ==
  ASSUME NEW items, NEW order, NEW item, NEW n, NEW f, NEW all,
         WritesThem(items, order, item, n, f, all)
  PROVE  /\ f \in Seq(Nat) /\ FileHolds(f, all, order) /\ all \in Seq(Items)
         /\ Len(ImageOf(items, order, Len(items))) <= Len(f) /\ f # <<>>
         /\ n = Len(Encode(item, order)) => f = ImageOf(all, order, Len(all))
<1> DEFINE N == Len(items)
           w == ImageOf(items, order, N)
           e == Encode(item, order)
           b == Prefix(e, n)
<1>0. /\ items \in Seq(Items) /\ order \in Orders /\ item \in Items
      /\ n \in 0 .. Len(e)
      /\ all = IF n = Len(e) THEN Append(items, item) ELSE items
      /\ f = w \o b
  BY DEF WritesThem
<1>1. e \in Seq(Nat) /\ w \in Seq(Nat) /\ N \in Nat /\ N \in 0 .. N /\ Len(w) \in Nat \ {0}
  BY <1>0, EncodeType, ImageType
<1>2. b \in Seq(Nat) /\ Len(b) = n /\ (\A i \in 1 .. n : b[i] = e[i]) /\ (n = Len(e) => b = e)
  <2> HIDE DEF e
  <2> QED BY <1>0, <1>1, PrefixIs
<1>3. f = w \o b
  BY <1>0
<1>4. /\ f \in Seq(Nat) /\ Len(f) = Len(w) + n
      /\ \A i \in 1 .. Len(w) : f[i] = w[i]
      /\ \A i \in 1 .. n : f[Len(w) + i] = b[i]
  <2> HIDE DEF w, b
  <2>1. /\ f \in Seq(Nat) /\ Len(f) = Len(w) + Len(b)
        /\ \A i \in 1 .. Len(w) : f[i] = w[i]
        /\ \A i \in 1 .. Len(b) : f[Len(w) + i] = b[i]
    BY ONLY <1>1, <1>2, <1>3, ConcatAt
  <2> QED BY ONLY <2>1, <1>2
<1>5. n \in Nat /\ n <= Len(e) /\ Len(e) \in Nat
  BY <1>0, <1>1
<1>6. CASE n # Len(e)
  <2>1. all = items
    BY <1>0, <1>6
  <2> HIDE DEF w, b, e
  <2>2. Ahead(f, Len(w), e) /\ Len(f) < Len(w) + Len(e) /\ Len(w) <= Len(f) /\ f # <<>>
    <3>1. \A i \in 1 .. Len(e) : Len(w) + i <= Len(f) => i \in 1 .. n
      BY <1>1, <1>4, <1>5
    <3>2. Ahead(f, Len(w), e)
      BY <3>1, <1>2, <1>4 DEF Ahead
    <3>3. Len(f) < Len(w) + Len(e) /\ Len(w) <= Len(f) /\ Len(f) # 0
      BY <1>1, <1>4, <1>5, <1>6
    <3> QED BY <3>2, <3>3
  <2>3. FileHolds(f, items, order)
    BY <2>2, <1>0, <1>4 DEF FileHolds, w, e
  <2> QED BY <2>1, <2>2, <2>3, <1>0, <1>4, <1>6 DEF w, e
<1>7. CASE n = Len(e)
  <2>1. all = Append(items, item) /\ all \in Seq(Items) /\ Len(all) = N + 1 /\ all[N + 1] = item
    BY <1>0, <1>7
  <2>2. N < Len(all) /\ N \in 0 .. Len(items)
    BY <1>1, <2>1
  <2>3. ImageOf(all, order, N + 1) = ImageOf(all, order, N) \o Encode(all[N + 1], order)
    <3> HIDE DEF N
    <3> QED BY <1>0, <1>1, <2>1, <2>2, ImageStep
  <2>4. ImageOf(all, order, N) = w
    <3>1. \A n1 \in 0 .. Len(items) : ImageOf(Append(items, item), order, n1) = ImageOf(items, order, n1)
      BY <1>0, ImageAppend
    <3> HIDE DEF N
    <3> QED BY <2>1, <2>2, <3>1 DEF w
  <2>5. ImageOf(all, order, Len(all)) = w \o e
    BY <2>1, <2>3, <2>4
  <2>6. b = e
    BY <1>2, <1>7
  <2>7. f = ImageOf(all, order, Len(all))
    BY <1>3, <2>5, <2>6
  <2>8. Len(w) <= Len(f) /\ f # <<>>
    <3> HIDE DEF w
    <3> QED BY <1>1, <1>4, <1>5
  <2>9. FileHolds(f, all, order)
    <3>1. Len(f) \in Nat
      BY <1>4
    <3> HIDE DEF w, b, e, N
    <3> QED BY <2>7, <2>8, <3>1 DEF FileHolds
  <2> QED BY <1>4, <2>1, <2>7, <2>8, <2>9
<1> QED BY <1>6, <1>7

\* A file with its endianness byte and no more.
LEMMA NoItems ==
  ASSUME NEW order \in Orders
  PROVE  /\ FileHolds(<<>>, <<>>, order)
         /\ <<OrderByte(order)>> = ImageOf(<<>>, order, 0)
         /\ <<OrderByte(order)>> \in Seq(Nat) /\ <<OrderByte(order)>> # <<>>
         /\ FileHolds(<<OrderByte(order)>>, <<>>, order)
<1> DEFINE b == <<OrderByte(order)>>
<1>1. b = ImageOf(<<>>, order, 0)
  BY ImageNone
<1>2. b \in Seq(Nat) /\ Len(b) = 1 /\ b # <<>> /\ Len(<<>>) = 0
  BY OrderByteFacts
<1>3. ImageOf(<<>>, order, Len(<<>>)) = b
  BY <1>1, <1>2
<1>4. FileHolds(b, <<>>, order)
  <2>1. Len(b) <= Len(b)
    BY <1>2
  <2> HIDE DEF b
  <2> QED BY <1>2, <1>3, <2>1, Zenon DEF FileHolds
<1> QED BY <1>1, <1>2, <1>4 DEF FileHolds

-----------------------------------------------------------------------------
(* The tag test.                                                           *)

TestGives(test, c, type) ==
    /\ test.cursor \in Cursors(file) /\ test.cursor.end = c.end
    /\ ~test.cursor.failed =>
          /\ test.cursor.at = c.at /\ c.at + Len(Tag[type]) <= Len(file)
          /\ test.valid <=> \A i \in 1 .. Len(Tag[type]) : file[c.at + i] = Tag[type][i]

LEMMA TestIs ==
  ASSUME file \in Seq(Nat), NEW c \in Cursors(file), NEW type \in Types, NEW back, back \in {c.at, -1}
  PROVE  TestGives(TestTag(c, type, back), c, type)
<1> DEFINE L == Len(Tag[type])
           tag == Read(file, c, L)
           to == Rewind(tag, back)
<1>1. L \in Nat /\ Tag[type] \in Seq(Nat)
  BY TagType
<1>2. tag \in Cursors(file) /\ tag.end = c.end /\ Len(tag.got) = L
  <2> HIDE DEF L
  <2> QED BY <1>1, ReadType
<1>3. ~tag.failed => c.at + L <= Len(file) /\ \A i \in 1 .. L : tag.got[i] = file[c.at + i]
  <2> HIDE DEF L
  <2> QED BY <1>1, ReadWhole
<1>4. c.at \in Nat /\ c.end \in Nat /\ c.at <= c.end /\ c.end <= Len(file)
  BY DEF Cursors
<1>5. TestTag(c, type, back).valid = (tag.got = Tag[type]) /\ TestTag(c, type, back).cursor = to
  BY DEF TestTag
<1> HIDE DEF tag
<1>6. /\ tag \in [at : Nat, failed : BOOLEAN, end : Nat, got : Seq(Nat)]
      /\ tag.at <= tag.end /\ tag.end <= Len(file)
  BY <1>2 DEF Cursors
<1>7. to \in Cursors(file) /\ to.end = c.end /\ (~to.failed => ~tag.failed /\ to.at = c.at)
  <2>1. CASE tag.failed
    <3>1. to = tag
      BY <2>1 DEF Rewind
    <3> QED BY <3>1, <2>1, <1>2
  <2>2. CASE ~tag.failed /\ back >= 0
    <3>1. to = [tag EXCEPT !.at = back] /\ back = c.at
      BY <2>2, <1>4 DEF Rewind
    <3> HIDE DEF to
    <3>2. to.at = c.at /\ to.end = c.end /\ to.failed = tag.failed /\ to.got = tag.got
      BY <3>1, <1>2, <1>6
    <3>3. to \in [at : Nat, failed : BOOLEAN, end : Nat, got : Seq(Nat)]
      BY <3>1, <1>4, <1>6
    <3> QED BY <2>2, <3>2, <3>3, <1>4 DEF Cursors
  <2>3. CASE ~tag.failed /\ ~(back >= 0)
    <3>1. to = [tag EXCEPT !.failed = TRUE]
      BY <2>3 DEF Rewind
    <3> HIDE DEF to
    <3>2. to.at = tag.at /\ to.end = c.end /\ to.failed = TRUE
      BY <3>1, <1>2, <1>6
    <3>3. to \in [at : Nat, failed : BOOLEAN, end : Nat, got : Seq(Nat)]
      BY <3>1, <1>6
    <3> QED BY <3>2, <3>3, <1>2, <1>6 DEF Cursors
  <2> QED BY <2>1, <2>2, <2>3
<1>8. (tag.got = Tag[type]) <=> \A i \in 1 .. L : tag.got[i] = Tag[type][i]
  <2>1. tag.got \in Seq(Nat)
    BY <1>6
  <2>2. (\A i \in 1 .. L : tag.got[i] = Tag[type][i]) => tag.got = Tag[type]
    BY <1>1, <1>2, <2>1, SeqEqual
  <2> QED BY <2>2
<1> HIDE DEF to
<1>9. ~to.failed => ((tag.got = Tag[type]) <=> \A i \in 1 .. L : file[c.at + i] = Tag[type][i])
  BY <1>3, <1>7, <1>8
<1> QED BY <1>3, <1>5, <1>7, <1>9 DEF TestGives

-----------------------------------------------------------------------------
(* Types and the writer's side, whatever versions objects have.            *)

Taken == [kind : Types \cup {"int", "binary"}, data : Seq(Nat)]
Readers == [open : BOOLEAN, at : Nat, failed : BOOLEAN, swap : BOOLEAN]

Typed ==
    /\ TypeOK
    /\ taken \in Seq(Taken)
    /\ ~reader.open => reader = Unread /\ taken = <<>>

Written ==
    /\ FileHolds(file, saved, writer.order)
    /\ writer.open /\ ~writer.failed => file = Image(Len(saved))

LEMMA InitWritten == Init => Typed /\ Written
<1> SUFFICES ASSUME Init PROVE Typed /\ Written
  OBVIOUS
<1> USE DEF Init
<1>1. TypeOK
  <2>1. file \in Seq(Nat) /\ saved \in Seq(Items) /\ Len(saved) <= MaxItems /\ Len(file) = 0
    BY ArchiveAssumption
  <2>2. writer \in [open : BOOLEAN, order : Orders, failed : BOOLEAN]
    BY DEF Closed, Orders
  <2>3. reader \in Readers /\ reader.at <= Len(file)
    BY <2>1 DEF Unread, Readers
  <2>4. answer.result \in Results \cup {"yes", "no"} /\ DOMAIN taken = {}
    BY DEF NoAnswer, Results
  <2> QED BY <2>1, <2>2, <2>3, <2>4 DEF TypeOK, Readers
<1>2. taken \in Seq(Taken)
  OBVIOUS
<1>3. FileHolds(file, saved, writer.order)
  <2>1. writer.order \in Orders
    BY DEF Closed, Orders
  <2> QED BY <2>1, NoItems
<1>4. ~writer.open
  BY DEF Closed
<1> QED BY <1>1, <1>2, <1>3, <1>4 DEF Typed, Written

LEMMA TakenKinds ==
  ASSUME NEW t \in Seq(Taken)
  PROVE  \A i \in DOMAIN t : t[i].kind \in Types \cup {"int", "binary"}
<1> SUFFICES ASSUME NEW i \in DOMAIN t PROVE t[i].kind \in Types \cup {"int", "binary"}
  OBVIOUS
<1>1. t[i] \in Taken
  OBVIOUS
<1> QED BY <1>1 DEF Taken

\* What a step that leaves the file alone has to show.
LEMMA ReaderSteps ==
  ASSUME Typed, Written, UNCHANGED <<file, saved>>,
         writer' \in [open : BOOLEAN, order : Orders, failed : BOOLEAN],
         writer'.order = writer.order, writer'.failed = writer.failed, writer'.open => writer.open,
         reader' \in Readers, reader'.at <= Len(file), taken' \in Seq(Taken),
         reader'.open \/ (reader' = Unread /\ taken' = <<>>),
         answer'.result \in Results \cup {"yes", "no"}
  PROVE  Typed' /\ Written'
<1>1. TypeOK'
  <2>1. \A i \in DOMAIN taken' : taken'[i].kind \in Types \cup {"int", "binary"}
    BY TakenKinds
  <2> QED BY <2>1 DEF Typed, TypeOK, Readers
<1>2. Typed'
  BY <1>1 DEF Typed
<1>3. FileHolds(file, saved, writer.order)'
  BY DEF Written
<1>4. writer'.open /\ ~writer'.failed => file' = Image(Len(saved))'
  BY DEF Written, Image
<1> QED BY <1>2, <1>3, <1>4 DEF Written

LEMMA WritesStay ==
  ASSUME Typed, UNCHANGED reader, file' \in Seq(Nat), Len(file) <= Len(file') \/ ~reader.open,
         writer' \in [open : BOOLEAN, order : Orders, failed : BOOLEAN],
         saved' \in Seq(Items), Len(saved') <= MaxItems, answer' = NoAnswer,
         taken' = taken \/ (~reader.open /\ taken' = <<>>)
  PROVE  Typed'
<1>1. reader' \in Readers /\ taken' \in Seq(Taken)
  BY DEF Typed, TypeOK, Readers
<1>2. reader'.at <= Len(file')
  <2>1. CASE reader.open
    <3>1. reader.at <= Len(file) /\ reader.at \in Nat /\ Len(file) \in Nat /\ Len(file') \in Nat
      BY DEF Typed, TypeOK
    <3> QED BY <2>1, <3>1
  <2>2. CASE ~reader.open
    <3>1. reader' = Unread /\ Len(file') \in Nat
      BY <2>2 DEF Typed
    <3> QED BY <3>1 DEF Unread
  <2> QED BY <2>1, <2>2
<1>3. answer'.result \in Results \cup {"yes", "no"}
  BY DEF NoAnswer, Results
<1>4. \A i \in DOMAIN taken' : taken'[i].kind \in Types \cup {"int", "binary"}
  BY <1>1, TakenKinds
<1>5. TypeOK'
  BY <1>1, <1>2, <1>3, <1>4 DEF TypeOK, Readers
<1>6. ~reader'.open => reader' = Unread /\ taken' = <<>>
  BY DEF Typed
<1> QED BY <1>1, <1>5, <1>6 DEF Typed

LEMMA StopsAhead ==
  ASSUME NEW f \in Seq(Nat), file = f, NEW at \in Nat, at <= Len(f), NEW stop \in Stops(at)
  PROVE  Cursor(at, FALSE, stop) \in Cursors(f) /\ Cursor(at, FALSE, stop).at = at
<1>1. stop \in Nat /\ at <= stop /\ stop <= Len(f)
  BY DEF Stops
<1>2. <<>> \in Seq(Nat)
  OBVIOUS
<1> QED BY <1>1, <1>2 DEF Cursor, Cursors

LEMMA MovedIs ==
  ASSUME file \in Seq(Nat), reader \in Readers, NEW c \in Cursors(file)
  PROVE  /\ Moved(c) \in Readers /\ Moved(c).at = c.at /\ Moved(c).at <= Len(file)
         /\ Moved(c).open = reader.open /\ Moved(c).failed = c.failed /\ Moved(c).swap = reader.swap
<1>1. /\ c.at \in Nat /\ c.failed \in BOOLEAN /\ c.end \in Nat /\ c.at <= c.end /\ c.end <= Len(file)
      /\ Len(file) \in Nat
  BY DEF Cursors
<1>2. Moved(c) = [reader EXCEPT !.at = c.at, !.failed = c.failed]
  BY DEF Moved
<1>3. Moved(c) \in Readers
  BY <1>1, <1>2 DEF Readers
<1>4. Moved(c).at = c.at /\ Moved(c).failed = c.failed
  BY <1>2 DEF Readers
<1>5. Moved(c).open = reader.open /\ Moved(c).swap = reader.swap
  BY <1>2 DEF Readers
<1>6. c.at <= Len(file)
  BY <1>1
<1> QED BY <1>3, <1>4, <1>5, <1>6

LEMMA Facts ==
  ASSUME Typed
  PROVE  /\ file \in Seq(Nat) /\ Len(file) \in Nat
         /\ writer \in [open : BOOLEAN, order : Orders, failed : BOOLEAN] /\ writer.order \in Orders
         /\ reader \in Readers /\ reader.at \in Nat /\ reader.at <= Len(file)
         /\ saved \in Seq(Items) /\ Len(saved) <= MaxItems /\ Len(saved) \in Nat
         /\ taken \in Seq(Taken)
         /\ answer.result \in Results \cup {"yes", "no"}
  BY DEF Typed, TypeOK, Readers

LEMMA OArchiveCreateWrites ==
  ASSUME Typed, Written, NEW order \in Orders, OArchiveCreate(order)
  PROVE  Typed' /\ Written'
<1>1. file = <<>> /\ saved = <<>> /\ UNCHANGED <<reader, saved, taken>> /\ answer' = NoAnswer
  BY DEF OArchiveCreate, Written, FileHolds
<1>2. PICK n \in 0 .. 1 :
          /\ file' = Prefix(<<OrderByte(order)>>, n)
          /\ writer' = [open |-> TRUE, order |-> order, failed |-> n = 0]
  BY DEF OArchiveCreate
<1> DEFINE b == <<OrderByte(order)>>
<1>3. b \in Seq(Nat) /\ Len(b) = 1
  BY OrderByteFacts
<1>4. (n = 0 => file' = <<>>) /\ (n = 1 => file' = b)
  <2> HIDE DEF b
  <2> QED BY <1>2, <1>3, PrefixIs DEF b
<1>5. file' \in Seq(Nat) /\ FileHolds(file', saved', order)
  <2>1. CASE n = 0
    <3>1. file' = <<>> /\ saved' = <<>> /\ <<>> \in Seq(Nat)
      BY <1>1, <1>4, <2>1
    <3> QED BY <3>1, NoItems
  <2>2. CASE n = 1
    <3>1. file' = b /\ saved' = <<>>
      BY <1>1, <1>4, <2>2
    <3> QED BY <3>1, <1>3, NoItems
  <2> QED BY <1>2, <2>1, <2>2
<1>6. /\ writer' \in [open : BOOLEAN, order : Orders, failed : BOOLEAN]
      /\ writer'.order = order /\ writer'.failed = (n = 0)
  BY <1>2
<1>7. Len(file) <= Len(file')
  BY <1>1, <1>5
<1>8. Typed'
  BY <1>1, <1>5, <1>6, <1>7, WritesStay, Facts
<1>9. ~writer'.failed => file' = Image(Len(saved))'
  <2> SUFFICES ASSUME ~writer'.failed PROVE file' = ImageOf(saved', writer'.order, Len(saved'))
    BY DEF Image, ImageOf
  <2>a. ~(n = 0)
    BY <1>6, Zenon
  <2>0. n = 1
    BY <2>a
  <2>1. Len(saved') = 0
    BY <1>1
  <2>2. file' = ImageOf(<<>>, order, 0)
    BY <1>4, <2>0, NoItems
  <2> QED BY <2>1, <2>2, <1>1, <1>6
<1> QED BY <1>5, <1>6, <1>8, <1>9 DEF Written

LEMMA SaveWrites ==
  ASSUME Typed, Written, NEW item \in Items, Save(item)
  PROVE  Typed' /\ Written'
<1> DEFINE e == Encode(item, writer.order)
<1>1. /\ writer.open /\ ~writer.failed /\ Len(saved) < MaxItems /\ answer' = NoAnswer
      /\ UNCHANGED <<reader, taken>>
  BY DEF Save, Write
<1>2. PICK n \in 0 .. Len(e) :
         /\ file' = file \o Prefix(e, n)
         /\ writer' = [writer EXCEPT !.failed = n < Len(e)]
         /\ saved' = IF n = Len(e) THEN Append(saved, item) ELSE saved
  BY DEF Save, Write
<1>3. file = ImageOf(saved, writer.order, Len(saved))
  BY <1>1 DEF Written, Image, ImageOf
<1>4. saved \in Seq(Items) /\ writer.order \in Orders
  BY Facts
<1>5. /\ file' \in Seq(Nat) /\ FileHolds(file', saved', writer.order) /\ saved' \in Seq(Items)
      /\ Len(file) <= Len(file')
      /\ n = Len(e) => file' = ImageOf(saved', writer.order, Len(saved'))
  <2>1. WritesThem(saved, writer.order, item, n, file', saved')
    BY <1>2, <1>3, <1>4 DEF WritesThem
  <2> QED BY <1>3, <2>1, WritesOn
<1>6. Len(e) \in Nat
  BY <1>4, EncodeType
<1>7. writer'.failed = (n < Len(e)) /\ writer'.order = writer.order
  BY <1>2, Facts
<1>8. writer' \in [open : BOOLEAN, order : Orders, failed : BOOLEAN]
  <2>1. (n < Len(e)) \in BOOLEAN
    <3> HIDE DEF e
    <3> QED BY <1>6
  <2> HIDE DEF e
  <2> QED BY <1>2, <2>1, Facts
<1>9. Len(saved') <= MaxItems
  <2>1. MaxItems \in Nat
    BY ArchiveAssumption
  <2> HIDE DEF e
  <2> QED BY <1>1, <1>2, <1>4, <2>1
<1>10. Typed'
  BY <1>1, <1>5, <1>8, <1>9, WritesStay
<1>11. ~writer'.failed => file' = Image(Len(saved))'
  <2> SUFFICES ASSUME ~writer'.failed PROVE file' = ImageOf(saved', writer'.order, Len(saved'))
    BY DEF Image, ImageOf
  <2>0. ~(n < Len(e))
    BY <1>7, Zenon
  <2>1. n = Len(e)
    <3> HIDE DEF e
    <3> QED BY <1>6, <2>0
  <2> QED BY <2>1, <1>5, <1>7
<1> QED BY <1>5, <1>7, <1>10, <1>11 DEF Written

LEMMA SaveFileWrites ==
  ASSUME Typed, Written, NEW item \in Items, SaveFile(item)
  PROVE  Typed' /\ Written'
<1> DEFINE e == Encode(item, Native)
           b == <<OrderByte(Native)>>
           bytes == b \o e
<1>1. ~reader.open /\ UNCHANGED reader /\ taken' = <<>> /\ answer' = NoAnswer
  BY DEF SaveFile
<1>2. PICK n \in 0 .. Len(bytes) :
         /\ file' = Prefix(bytes, n)
         /\ saved' = IF n = Len(bytes) THEN <<item>> ELSE <<>>
         /\ writer' = [open |-> FALSE, order |-> Native, failed |-> n < Len(bytes)]
  BY DEF SaveFile
<1>3. e \in Seq(Nat) /\ b \in Seq(Nat) /\ Len(b) = 1 /\ Native \in Orders /\ Len(e) \in Nat
  BY BaseFacts, EncodeType, OrderByteFacts
<1>4. /\ bytes \in Seq(Nat) /\ Len(bytes) = 1 + Len(e) /\ bytes[1] = b[1]
      /\ \A i \in 1 .. Len(e) : bytes[1 + i] = e[i]
  <2> HIDE DEF b, e
  <2>1. /\ bytes \in Seq(Nat) /\ Len(bytes) = Len(b) + Len(e)
        /\ \A i \in 1 .. Len(b) : bytes[i] = b[i]
        /\ \A i \in 1 .. Len(e) : bytes[Len(b) + i] = e[i]
    BY ONLY <1>3, ConcatAt
  <2> QED BY ONLY <2>1, <1>3
<1>5. writer'.order = Native /\ ~writer'.open
  BY <1>2
<1>6. writer' \in [open : BOOLEAN, order : Orders, failed : BOOLEAN]
  <2>1. (n < Len(bytes)) \in BOOLEAN
    <3> HIDE DEF bytes
    <3> QED BY <1>4
  <2> HIDE DEF bytes
  <2> QED BY <1>2, <1>3, <2>1
<1>7. file' \in Seq(Nat) /\ FileHolds(file', saved', Native)
  <2>1. CASE n = 0
    <3>1. file' = <<>> /\ saved' = <<>> /\ <<>> \in Seq(Nat)
      <4> HIDE DEF bytes
      <4> QED BY <1>2, <1>3, <1>4, <2>1, PrefixIs
    <3> QED BY <3>1, <1>3, NoItems
  <2>2. CASE n # 0
    <3> DEFINE k == n - 1
               head == Prefix(e, k)
    <3>1. k \in 0 .. Len(e) /\ n = k + 1 /\ n <= Len(bytes)
      <4> HIDE DEF bytes, e
      <4> QED BY <1>3, <1>4, <2>2
    <3>2. head \in Seq(Nat) /\ Len(head) = k /\ \A i \in 1 .. k : head[i] = e[i]
      <4> HIDE DEF e, k
      <4> QED BY <1>3, <3>1, PrefixIs
    <3>3. /\ b \o head \in Seq(Nat) /\ Len(b \o head) = n /\ (b \o head)[1] = b[1]
          /\ \A i \in 1 .. k : (b \o head)[1 + i] = head[i]
      <4> HIDE DEF b, head, k
      <4>1. /\ b \o head \in Seq(Nat) /\ Len(b \o head) = Len(b) + Len(head)
            /\ \A i \in 1 .. Len(b) : (b \o head)[i] = b[i]
            /\ \A i \in 1 .. Len(head) : (b \o head)[Len(b) + i] = head[i]
        BY ONLY <1>3, <3>2, ConcatAt
      <4> QED BY ONLY <4>1, <1>3, <3>1, <3>2
    <3>4. /\ Prefix(bytes, n) \in Seq(Nat) /\ Len(Prefix(bytes, n)) = n
          /\ \A i \in 1 .. n : Prefix(bytes, n)[i] = bytes[i]
      <4> HIDE DEF bytes
      <4> QED BY <1>4, PrefixIs
    <3>5. \A i \in 1 .. n : Prefix(bytes, n)[i] = (b \o head)[i]
      <4> SUFFICES ASSUME NEW i \in 1 .. n PROVE bytes[i] = (b \o head)[i]
        BY <3>4
      <4> DEFINE j == i - 1
      <4>1. i = 1 \/ (j \in 1 .. k /\ i = 1 + j /\ j \in 1 .. Len(e))
        BY <3>1
      <4> HIDE DEF bytes, b, head, e, k, j
      <4>2. CASE i = 1
        BY <4>2, <1>4, <3>3
      <4>3. CASE j \in 1 .. k /\ i = 1 + j /\ j \in 1 .. Len(e)
        <5>1. bytes[1 + j] = e[j] /\ head[j] = e[j] /\ (b \o head)[1 + j] = head[j]
          BY <4>3, <1>4, <3>2, <3>3
        <5> QED BY <4>3, <5>1
      <4> QED BY <4>1, <4>2, <4>3
    <3>6. file' = b \o head
      <4> HIDE DEF bytes, b, head
      <4> QED BY <1>2, <3>3, <3>4, <3>5, SeqEqual
    <3>7. ImageOf(<<>>, Native, Len(<<>>)) = b
      BY <1>3, NoItems
    <3>8. <<>> \in Seq(Items)
      OBVIOUS
    <3>9. saved' = IF k = Len(e) THEN Append(<<>>, item) ELSE <<>>
      <4> HIDE DEF bytes, e
      <4> QED BY <1>2, <1>3, <1>4, <3>1
    <3>10. file' = ImageOf(<<>>, Native, Len(<<>>)) \o Prefix(e, k)
      BY <3>6, <3>7
    <3>11. WritesThem(<<>>, Native, item, k, file', saved')
      <4> HIDE DEF k
      <4> QED BY <1>3, <3>1, <3>8, <3>9, <3>10 DEF WritesThem
    <3> QED BY <3>11, WritesOn
  <2> QED BY <2>1, <2>2
<1>8. saved' \in Seq(Items) /\ Len(saved') <= MaxItems
  <2>1. MaxItems \in Nat \ {0}
    BY ArchiveAssumption
  <2>2. CASE saved' = <<>>
    BY <2>1, <2>2
  <2>3. CASE saved' = <<item>>
    BY <2>1, <2>3
  <2> QED BY <1>2, <2>2, <2>3
<1>9. Typed'
  BY <1>1, <1>6, <1>7, <1>8, WritesStay
<1> QED BY <1>5, <1>7, <1>9 DEF Written

-----------------------------------------------------------------------------
(* What each call of a reader does.                                        *)

Quiet == UNCHANGED <<file, writer, saved>>
Matches(at, type) ==
    /\ at + Len(Tag[type]) <= Len(file)
    /\ \A i \in 1 .. Len(Tag[type]) : file[at + i] = Tag[type][i]

LEMMA IArchiveCreateDoes ==
  ASSUME Typed, IArchiveCreate
  PROVE  /\ Quiet /\ taken' = <<>> /\ answer' = NoAnswer
         /\ reader' \in Readers /\ reader'.open /\ reader'.at <= Len(file)
         /\ ~reader'.failed =>
               file # <<>> /\ reader'.at = 1 /\ reader'.swap = (file[1] # OrderByte(Native))
<1>1. Quiet /\ taken' = <<>> /\ answer' = NoAnswer
  BY DEF IArchiveCreate, Quiet
<1>2. PICK stop \in Stops(0) :
          reader' = [open |-> TRUE, at |-> Read(file, Cursor(0, FALSE, stop), 1).at,
                     failed |-> Read(file, Cursor(0, FALSE, stop), 1).failed,
                     swap |-> Read(file, Cursor(0, FALSE, stop), 1).got[1] # OrderByte(Native)]
  BY DEF IArchiveCreate
<1> DEFINE from == Cursor(0, FALSE, stop)
           c == Read(file, from, 1)
<1>3. from \in Cursors(file) /\ from.at = 0 /\ file \in Seq(Nat)
  <2>1. file \in Seq(Nat) /\ Len(file) \in Nat
    BY Facts
  <2>2. stop \in Nat /\ 0 <= stop /\ stop <= Len(file)
    BY <2>1 DEF Stops
  <2>3. <<>> \in Seq(Nat)
    OBVIOUS
  <2> QED BY <2>1, <2>2, <2>3 DEF Cursor, Cursors
<1>4. c \in Cursors(file)
  <2>1. \A n \in Nat : Read(file, from, n) \in Cursors(file)
    <3> HIDE DEF from
    <3> QED BY <1>3, ReadType
  <2> QED BY <2>1
<1>5. ~c.failed => 1 <= Len(file) /\ c.at = 1 /\ c.got[1] = file[1]
  <2>1. \A n \in Nat : ~Read(file, from, n).failed =>
            /\ from.at + n <= Len(file) /\ Read(file, from, n).at = from.at + n
            /\ \A i \in 1 .. n : Read(file, from, n).got[i] = file[from.at + i]
    <3> HIDE DEF from
    <3> QED BY <1>3, ReadWhole
  <2>2. ~c.failed => /\ from.at + 1 <= Len(file) /\ c.at = from.at + 1
                     /\ \A i \in 1 .. 1 : c.got[i] = file[from.at + i]
    BY <2>1
  <2> HIDE DEF c, from
  <2> QED BY <1>3, <2>2
<1> HIDE DEF c
<1>6. c.at \in Nat /\ c.failed \in BOOLEAN /\ c.at <= Len(file)
  BY <1>3, <1>4, Facts DEF Cursors
<1>7. reader' = [open |-> TRUE, at |-> c.at, failed |-> c.failed, swap |-> c.got[1] # OrderByte(Native)]
  BY <1>2 DEF c
<1>8. reader' \in Readers
  BY <1>6, <1>7 DEF Readers
<1>9. reader'.open /\ reader'.at <= Len(file) /\ reader'.failed = c.failed /\ reader'.at = c.at
  BY <1>6, <1>7
<1>10. reader'.swap = (c.got[1] # OrderByte(Native))
  BY <1>7
<1>11. 1 <= Len(file) => file # <<>>
  OBVIOUS
<1> QED BY <1>1, <1>5, <1>8, <1>9, <1>10, <1>11

LEMMA TestDoes ==
  ASSUME Typed, NEW type \in Types, Test(type)
  PROVE  /\ Quiet /\ taken' = taken /\ reader.open
         /\ reader' \in Readers /\ reader'.open /\ reader'.at <= Len(file) /\ reader'.swap = reader.swap
         /\ answer'.call = "test" /\ answer'.type = type /\ answer'.result \in {"yes", "no"}
         /\ ~reader'.failed =>
               /\ ~reader.failed /\ reader'.at = reader.at
               /\ reader.at + Len(Tag[type]) <= Len(file)
               /\ (answer'.result = "yes") <=> Matches(reader.at, type)
<1>1. Quiet /\ taken' = taken /\ reader.open
  BY DEF Test, Quiet
<1>2. PICK stop \in Stops(reader.at), back \in Backs :
          LET test == TestTag(Cursor(reader.at, FALSE, stop), type, back)
          IN  IF reader.failed
              THEN /\ answer' = [call |-> "test", type |-> type, result |-> "no"]
                   /\ UNCHANGED reader
              ELSE /\ answer' = [call |-> "test", type |-> type,
                                  result |-> IF test.valid THEN "yes" ELSE "no"]
                   /\ reader' = Moved(test.cursor)
  BY DEF Test
<1> DEFINE from == Cursor(reader.at, FALSE, stop)
           test == TestTag(from, type, back)
<1>3. file \in Seq(Nat) /\ reader \in Readers /\ reader.at \in Nat /\ reader.at <= Len(file)
  BY Facts
<1>4. from \in Cursors(file) /\ from.at = reader.at
  BY <1>3, StopsAhead
<1>5. back \in {from.at, -1}
  BY <1>4 DEF Backs
<1>6. /\ test.cursor \in Cursors(file)
      /\ ~test.cursor.failed =>
            /\ test.cursor.at = reader.at /\ reader.at + Len(Tag[type]) <= Len(file)
            /\ test.valid <=> \A i \in 1 .. Len(Tag[type]) : file[reader.at + i] = Tag[type][i]
  <2> HIDE DEF from
  <2>1. TestGives(test, from, type)
    BY <1>3, <1>4, <1>5, TestIs
  <2> HIDE DEF test
  <2> QED BY <1>4, <2>1 DEF TestGives
<1>7. CASE reader.failed
  BY <1>1, <1>2, <1>3, <1>7
<1>8. CASE ~reader.failed
  <2>1. /\ answer' = [call |-> "test", type |-> type, result |-> IF test.valid THEN "yes" ELSE "no"]
        /\ reader' = Moved(test.cursor)
    BY <1>2, <1>8
  <2> HIDE DEF test
  <2>2. /\ reader' \in Readers /\ reader'.at = test.cursor.at /\ reader'.at <= Len(file)
        /\ reader'.open = reader.open /\ reader'.failed = test.cursor.failed /\ reader'.swap = reader.swap
    BY <1>3, <1>6, <2>1, MovedIs
  <2>3. /\ answer'.call = "test" /\ answer'.type = type /\ answer'.result \in {"yes", "no"}
        /\ (answer'.result = "yes") <=> test.valid
    BY <2>1
  <2>4. ~reader'.failed => (test.valid <=> Matches(reader.at, type))
    BY <1>6, <2>2 DEF Matches
  <2> QED BY <1>1, <1>6, <1>8, <2>2, <2>3, <2>4
<1> QED BY <1>7, <1>8

\* A load either fails, finds another type, or parses an object.
LEMMA LoadDoes ==
  ASSUME Typed, NEW type \in Types, Load(type)
  PROVE  /\ Quiet /\ reader.open /\ ~reader.failed
         /\ reader' \in Readers /\ reader'.open /\ reader'.at <= Len(file) /\ reader'.swap = reader.swap
         /\ taken' \in Seq(Taken) /\ answer'.call = "load" /\ answer'.result \in Results
         /\ \/ taken' = taken /\ (reader'.failed \/ reader'.at = reader.at)
            \/ \E c \in Cursors(file) :
                  /\ c.at = reader.at /\ Matches(reader.at, type)
                  /\ ~Parse(file, c, type, reader.swap).cursor.failed
                  /\ reader'.at = Parse(file, c, type, reader.swap).cursor.at
                  /\ taken' = IF Sane(type, Parse(file, c, type, reader.swap).data)
                              THEN Append(taken, [kind |-> type, data |-> Parse(file, c, type, reader.swap).data])
                              ELSE taken
<1>1. Quiet /\ reader.open /\ ~reader.failed
  BY DEF Load, Quiet
<1>2. PICK stop \in Stops(reader.at), back \in Backs :
          LET test == TestTag(Cursor(reader.at, FALSE, stop), type, back)
              found == test.valid /\ ~test.cursor.failed
          IN  \E again \in IF found THEN Stops(reader.at) ELSE {stop} :
                 LET from == [test.cursor EXCEPT !.end = again]
                     parsed == Parse(file, from, type, reader.swap)
                     result == Result(test, parsed, type)
                 IN  /\ reader' = Moved(IF found THEN parsed.cursor ELSE test.cursor)
                     /\ taken' = IF result = "OK"
                                 THEN Append(taken, [kind |-> type, data |-> parsed.data])
                                 ELSE taken
                     /\ answer' = [call |-> "load", type |-> type, result |-> result]
  BY DEF Load
<1> DEFINE start == Cursor(reader.at, FALSE, stop)
           test == TestTag(start, type, back)
           found == test.valid /\ ~test.cursor.failed
<1>3. PICK again \in IF found THEN Stops(reader.at) ELSE {stop} :
                 LET from == [test.cursor EXCEPT !.end = again]
                     parsed == Parse(file, from, type, reader.swap)
                     result == Result(test, parsed, type)
                 IN  /\ reader' = Moved(IF found THEN parsed.cursor ELSE test.cursor)
                     /\ taken' = IF result = "OK"
                                 THEN Append(taken, [kind |-> type, data |-> parsed.data])
                                 ELSE taken
                     /\ answer' = [call |-> "load", type |-> type, result |-> result]
  BY <1>2
<1>4. /\ file \in Seq(Nat) /\ Len(file) \in Nat /\ reader \in Readers /\ reader.at \in Nat
      /\ reader.at <= Len(file) /\ taken \in Seq(Taken)
  BY Facts
<1>5. start \in Cursors(file) /\ start.at = reader.at
  BY <1>4, StopsAhead
<1>6. back \in {start.at, -1}
  BY <1>5 DEF Backs
<1>7. /\ test.cursor \in Cursors(file)
      /\ found => /\ test.cursor.at = reader.at /\ Matches(reader.at, type)
      /\ ~test.cursor.failed => test.cursor.at = reader.at
  <2> HIDE DEF start
  <2>1. TestGives(test, start, type)
    BY <1>4, <1>5, <1>6, TestIs
  <2> HIDE DEF test
  <2> QED BY <1>5, <2>1 DEF Matches, TestGives
<1> DEFINE from == [test.cursor EXCEPT !.end = again]
           parsed == Parse(file, from, type, reader.swap)
           result == Result(test, parsed, type)
<1>8. /\ reader' = Moved(IF found THEN parsed.cursor ELSE test.cursor)
      /\ taken' = IF result = "OK" THEN Append(taken, [kind |-> type, data |-> parsed.data]) ELSE taken
      /\ answer' = [call |-> "load", type |-> type, result |-> result]
  BY <1>3
<1>9. result \in Results
  BY DEF Result, Results
<1>10. result = "OK" => found /\ ~parsed.cursor.failed /\ Sane(type, parsed.data)
  <2> HIDE DEF parsed, test
  <2> QED BY DEF Result
<1>11. found /\ ~parsed.cursor.failed /\ Sane(type, parsed.data) => result = "OK"
  <2> HIDE DEF parsed, test
  <2> QED BY DEF Result
<1>12. answer'.call = "load" /\ answer'.result \in Results
  <2> HIDE DEF result
  <2> QED BY <1>8, <1>9
<1>13. CASE found
  <2>1. again \in Stops(reader.at)
    BY <1>13
  <2>2. again \in Nat /\ reader.at <= again /\ again <= Len(file)
    BY <2>1, <1>4 DEF Stops
  <2>3. from \in Cursors(file) /\ from.at = reader.at
    <3> HIDE DEF test
    <3>1. test.cursor \in [at : Nat, failed : BOOLEAN, end : Nat, got : Seq(Nat)] /\ test.cursor.at = reader.at
      BY <1>7, <1>13 DEF Cursors
    <3>2. from \in [at : Nat, failed : BOOLEAN, end : Nat, got : Seq(Nat)]
      BY <3>1, <2>2
    <3>3. from.at = reader.at /\ from.end = again
      BY <3>1
    <3> QED BY <2>2, <3>2, <3>3 DEF Cursors
  <2> HIDE DEF from, found
  <2>4. parsed.cursor \in Cursors(file) /\ parsed.data \in Seq(Nat)
    BY <1>4, <2>3, ParseType
  <2>5. reader' = Moved(parsed.cursor)
    BY <1>8, <1>13
  <2> HIDE DEF parsed
  <2>6. /\ reader' \in Readers /\ reader'.at = parsed.cursor.at /\ reader'.at <= Len(file)
        /\ reader'.open = reader.open /\ reader'.failed = parsed.cursor.failed /\ reader'.swap = reader.swap
    BY <1>4, <2>4, <2>5, MovedIs
  <2> HIDE DEF result
  <2>7. [kind |-> type, data |-> parsed.data] \in Taken
    BY <2>4 DEF Taken
  <2>8. taken' \in Seq(Taken)
    BY <1>4, <1>8, <2>7
  <2>9. CASE parsed.cursor.failed
    <3>1. taken' = taken
      BY <1>8, <1>10, <2>9
    <3> QED BY <1>1, <1>12, <2>6, <2>8, <2>9, <3>1
  <2>10. CASE ~parsed.cursor.failed
    <3>1. taken' = IF Sane(type, parsed.data) THEN Append(taken, [kind |-> type, data |-> parsed.data]) ELSE taken
      BY <1>8, <1>10, <1>11, <1>13, <2>10
    <3>2. Matches(reader.at, type)
      BY <1>7, <1>13
    <3>3. /\ ~Parse(file, from, type, reader.swap).cursor.failed
          /\ reader'.at = Parse(file, from, type, reader.swap).cursor.at
          /\ taken' = IF Sane(type, Parse(file, from, type, reader.swap).data)
                      THEN Append(taken, [kind |-> type, data |-> Parse(file, from, type, reader.swap).data])
                      ELSE taken
      BY <2>10, <2>6, <3>1 DEF parsed
    <3> QED BY <1>1, <1>12, <2>3, <2>6, <2>8, <3>2, <3>3
  <2> QED BY <2>9, <2>10
<1>14. CASE ~found
  <2> HIDE DEF result, parsed, from, found, test
  <2>1. reader' = Moved(test.cursor) /\ taken' = taken
    BY <1>8, <1>10, <1>14
  <2>2. /\ reader' \in Readers /\ reader'.at = test.cursor.at /\ reader'.at <= Len(file)
        /\ reader'.open = reader.open /\ reader'.failed = test.cursor.failed /\ reader'.swap = reader.swap
    BY <1>4, <1>7, <2>1, MovedIs
  <2> QED BY <1>1, <1>4, <1>7, <1>12, <2>1, <2>2
<1> QED BY <1>13, <1>14

PlainData(kind, bytes, swap) == IF kind = "int" THEN Values(bytes, swap) ELSE bytes

LEMMA LoadPlainDoes ==
  ASSUME Typed, NEW kind \in {"int", "binary"}, NEW size \in Nat, kind = "int" => size = 2,
         LoadPlain(kind, size)
  PROVE  /\ Quiet /\ reader.open /\ ~reader.failed /\ InFrame(kind, size)
         /\ reader' \in Readers /\ reader'.open /\ reader'.at <= Len(file) /\ reader'.swap = reader.swap
         /\ taken' \in Seq(Taken) /\ answer'.call = "plain" /\ answer'.result \in Results
         /\ \E c \in Cursors(file) :
               /\ c.at = reader.at
               /\ reader'.at = Read(file, c, size).at /\ reader'.failed = Read(file, c, size).failed
               /\ taken' = IF Read(file, c, size).failed THEN taken
                           ELSE Append(taken, [kind |-> kind,
                                   data |-> PlainData(kind, Read(file, c, size).got, reader.swap)])
<1>1. Quiet /\ reader.open /\ ~reader.failed /\ InFrame(kind, size)
  BY DEF LoadPlain, Quiet
<1>2. PICK stop \in Stops(reader.at) :
          LET c == Read(file, Cursor(reader.at, FALSE, stop), size)
          IN  /\ reader' = Moved(c)
              /\ taken' = IF c.failed THEN taken
                          ELSE Append(taken, [kind |-> kind, data |-> PlainData(kind, c.got, reader.swap)])
              /\ answer' = [call |-> "plain", result |-> IF c.failed THEN "IO" ELSE "OK"]
  BY DEF LoadPlain, PlainData
<1> DEFINE from == Cursor(reader.at, FALSE, stop)
           r == Read(file, from, size)
           data == PlainData(kind, r.got, reader.swap)
<1>3. /\ file \in Seq(Nat) /\ Len(file) \in Nat /\ reader \in Readers /\ reader.at \in Nat
      /\ reader.at <= Len(file) /\ taken \in Seq(Taken)
  BY Facts
<1>4. from \in Cursors(file) /\ from.at = reader.at
  BY <1>3, StopsAhead
<1>5. r \in Cursors(file) /\ Len(r.got) = size
  <2> HIDE DEF from
  <2> QED BY <1>3, <1>4, ReadType
<1> HIDE DEF r
<1>6. data \in Seq(Nat)
  <2>1. r.got \in Seq(Nat)
    BY <1>5 DEF Cursors
  <2>2. CASE kind = "int"
    <3>1. Len(r.got) = 2 * 1
      BY <1>5, <2>2
    <3>2. \A n \in Nat : Len(r.got) = 2 * n => Values(r.got, reader.swap) \in Seq(Nat)
      BY <2>1, ValuesAre
    <3>3. Values(r.got, reader.swap) \in Seq(Nat)
      BY <3>1, <3>2
    <3> QED BY <2>2, <3>3 DEF PlainData
  <2>3. CASE kind # "int"
    BY <2>1, <2>3 DEF PlainData
  <2> QED BY <2>2, <2>3
<1>7. /\ reader' = Moved(r)
      /\ taken' = IF r.failed THEN taken ELSE Append(taken, [kind |-> kind, data |-> data])
      /\ answer' = [call |-> "plain", result |-> IF r.failed THEN "IO" ELSE "OK"]
  BY <1>2 DEF r
<1>8. /\ reader' \in Readers /\ reader'.at = r.at /\ reader'.at <= Len(file)
      /\ reader'.open = reader.open /\ reader'.failed = r.failed /\ reader'.swap = reader.swap
  BY <1>3, <1>5, <1>7, MovedIs
<1>9. answer'.call = "plain" /\ answer'.result \in Results
  BY <1>7 DEF Results
<1>10. taken' \in Seq(Taken)
  <2> HIDE DEF data
  <2>1. [kind |-> kind, data |-> data] \in Taken
    BY <1>6 DEF Taken
  <2> QED BY <1>3, <1>7, <2>1
<1> HIDE DEF from
<1> QED BY <1>1, <1>4, <1>7, <1>8, <1>9, <1>10 DEF r

LEMMA LoadFileDoes ==
  ASSUME Typed, NEW type \in Types, LoadFile(type)
  PROVE  /\ Quiet /\ UNCHANGED <<reader, taken>>
         /\ answer'.call = "file" /\ answer'.type = type /\ answer'.result \in Results
         /\ answer'.result = "OK" =>
               /\ file # <<>> /\ Matches(1, type)
               /\ \E c \in Cursors(file) :
                     /\ c.at = 1
                     /\ ~Parse(file, c, type, file[1] # OrderByte(Native)).cursor.failed
                     /\ answer'.data = Parse(file, c, type, file[1] # OrderByte(Native)).data
<1>1. Quiet /\ UNCHANGED <<reader, taken>>
  BY DEF LoadFile, Quiet
<1> DEFINE from == Cursor(0, FALSE, Len(file))
           start == Read(file, from, 1)
           test == TestTag(start, type, start.at)
           swap == start.got[1] # OrderByte(Native)
           parsed == Parse(file, test.cursor, type, swap)
<1>2. PICK whole \in {TRUE, ~HostFails} :
          answer' = [call |-> "file", type |-> type, data |-> parsed.data,
                     result |-> IF file = <<>> THEN "BAD_FORMAT"
                                ELSE IF ~whole THEN "IO"
                                ELSE Result(test, parsed, type)]
  BY DEF LoadFile
<1>3. file \in Seq(Nat) /\ Len(file) \in Nat
  BY Facts
<1>4. from \in Cursors(file) /\ from.at = 0 /\ from.end = Len(file) /\ ~from.failed
  <2>1. <<>> \in Seq(Nat)
    OBVIOUS
  <2> QED BY <1>3, <2>1 DEF Cursor, Cursors
<1>5. /\ start \in Cursors(file) /\ ~start.failed => /\ start.at = 1 /\ 1 <= Len(file)
                                                    /\ start.got[1] = file[1]
      /\ start \in Cursors(file)
  <2>1. \A n \in Nat : Read(file, from, n) \in Cursors(file)
    <3> HIDE DEF from
    <3> QED BY <1>3, <1>4, ReadType
  <2>2. \A n \in Nat : ~Read(file, from, n).failed =>
            /\ from.at + n <= Len(file) /\ Read(file, from, n).at = from.at + n
            /\ \A i \in 1 .. n : Read(file, from, n).got[i] = file[from.at + i]
    <3> HIDE DEF from
    <3> QED BY <1>3, <1>4, ReadWhole
  <2>3. start \in Cursors(file)
    BY <2>1
  <2>4. ~start.failed => /\ from.at + 1 <= Len(file) /\ start.at = from.at + 1
                         /\ \A i \in 1 .. 1 : start.got[i] = file[from.at + i]
    BY <2>2
  <2> HIDE DEF start, from
  <2> QED BY <1>4, <2>3, <2>4
<1> HIDE DEF start
<1>6. TestGives(test, start, type)
  BY <1>3, <1>5, TestIs
<1>7. start.failed => test.cursor.failed
  <2>1. \A n \in Nat : start.failed => Read(file, start, n).failed
    BY <1>3, <1>5, ReadType
  <2>2. start.failed => Read(file, start, Len(Tag[type])).failed
    BY <2>1, TagType
  <2> QED BY <2>2 DEF TestTag, Rewind
<1> HIDE DEF test
<1>8. answer'.call = "file" /\ answer'.type = type /\ answer'.data = parsed.data
  BY <1>2
<1>9. Result(test, parsed, type) \in Results
  BY DEF Result, Results
<1>10. answer'.result \in Results
  <2> HIDE DEF parsed
  <2> QED BY <1>2, <1>9 DEF Results
<1>11. ASSUME answer'.result = "OK"
       PROVE  /\ file # <<>> /\ Matches(1, type)
              /\ \E c \in Cursors(file) :
                    /\ c.at = 1
                    /\ ~Parse(file, c, type, file[1] # OrderByte(Native)).cursor.failed
                    /\ answer'.data = Parse(file, c, type, file[1] # OrderByte(Native)).data
  <2>1. file # <<>> /\ Result(test, parsed, type) = "OK"
    <3> HIDE DEF parsed
    <3> QED BY <1>2, <1>11
  <2>2. test.valid /\ ~test.cursor.failed /\ ~parsed.cursor.failed
    <3> HIDE DEF parsed
    <3> QED BY <2>1 DEF Result
  <2>3. ~start.failed
    BY <1>7, <2>2
  <2>4. start.at = 1 /\ start.got[1] = file[1]
    BY <1>5, <2>3
  <2>5. test.cursor \in Cursors(file) /\ test.cursor.at = 1 /\ Matches(1, type)
    BY <1>6, <2>2, <2>4 DEF TestGives, Matches
  <2>6. parsed = Parse(file, test.cursor, type, file[1] # OrderByte(Native))
    BY <2>4
  <2> HIDE DEF parsed
  <2> QED BY <1>8, <2>1, <2>2, <2>5, <2>6
<1> QED BY <1>1, <1>8, <1>10, <1>11

-----------------------------------------------------------------------------
(* The steps of Next.                                                      *)

LEMMA SizesNat == Sizes \subseteq Nat
<1> SUFFICES ASSUME NEW item \in Items PROVE Len(item.data) \in Nat
  BY DEF Sizes
<1> QED BY ArchiveAssumption

LEMMA StepsWrite ==
  ASSUME Typed, Written, [Next]_vars
  PROVE  Typed' /\ Written'
<1> USE DEF Quiet
<1>1. ASSUME NEW order \in Orders, OArchiveCreate(order) PROVE Typed' /\ Written'
  BY <1>1, OArchiveCreateWrites
<1>2. ASSUME OArchiveDestroy PROVE Typed' /\ Written'
  <2>1. /\ UNCHANGED <<file, reader, saved, taken, answer>> /\ writer' = [writer EXCEPT !.open = FALSE]
    BY <1>2 DEF OArchiveDestroy
  <2>2. /\ writer' \in [open : BOOLEAN, order : Orders, failed : BOOLEAN]
        /\ writer'.order = writer.order /\ writer'.failed = writer.failed /\ ~writer'.open
    BY <2>1, Facts
  <2>3. reader'.open \/ (reader' = Unread /\ taken' = <<>>)
    BY <2>1 DEF Typed
  <2> QED BY <2>1, <2>2, <2>3, Facts, ReaderSteps
<1>3. ASSUME NEW item \in Items, Save(item) PROVE Typed' /\ Written'
  BY <1>3, SaveWrites
<1>4. ASSUME NEW item \in Items, SaveFile(item) PROVE Typed' /\ Written'
  BY <1>4, SaveFileWrites
<1>5. writer \in [open : BOOLEAN, order : Orders, failed : BOOLEAN]
  BY Facts
<1>6. NoAnswer.result \in Results \cup {"yes", "no"} /\ <<>> \in Seq(Taken)
  BY DEF NoAnswer, Results
<1>7. ASSUME IArchiveCreate PROVE Typed' /\ Written'
  <2>1. /\ Quiet /\ taken' = <<>> /\ answer' = NoAnswer
        /\ reader' \in Readers /\ reader'.open /\ reader'.at <= Len(file)
    BY <1>7, IArchiveCreateDoes
  <2> QED BY <1>5, <1>6, <2>1, ReaderSteps
<1>8. ASSUME IArchiveDestroy PROVE Typed' /\ Written'
  <2>1. Quiet /\ taken' = <<>> /\ answer' = NoAnswer /\ reader' = Unread
    BY <1>8 DEF IArchiveDestroy
  <2>2. reader' \in Readers /\ reader'.at <= Len(file)
    <3>1. Len(file) \in Nat
      BY Facts
    <3> QED BY <2>1, <3>1 DEF Readers, Unread
  <2> QED BY <1>5, <1>6, <2>1, <2>2, ReaderSteps
<1>9. ASSUME NEW type \in Types, Test(type) PROVE Typed' /\ Written'
  <2>1. /\ Quiet /\ taken' = taken /\ answer'.result \in {"yes", "no"}
        /\ reader' \in Readers /\ reader'.open /\ reader'.at <= Len(file)
    BY <1>9, TestDoes
  <2> QED BY <1>5, <2>1, Facts, ReaderSteps
<1>10. ASSUME NEW type \in Types, Load(type) PROVE Typed' /\ Written'
  <2>1. /\ Quiet /\ taken' \in Seq(Taken) /\ answer'.result \in Results
        /\ reader' \in Readers /\ reader'.open /\ reader'.at <= Len(file)
    BY <1>10, LoadDoes
  <2> QED BY <1>5, <2>1, ReaderSteps
<1>11. ASSUME NEW type \in Types, LoadFile(type) PROVE Typed' /\ Written'
  <2>1. Quiet /\ UNCHANGED <<reader, taken>> /\ answer'.result \in Results
    BY <1>11, LoadFileDoes
  <2>2. reader'.open \/ (reader' = Unread /\ taken' = <<>>)
    BY <2>1 DEF Typed
  <2> QED BY <1>5, <2>1, <2>2, Facts, ReaderSteps
<1>12. ASSUME NEW kind \in {"int", "binary"}, NEW size \in Nat, kind = "int" => size = 2,
              LoadPlain(kind, size)
       PROVE  Typed' /\ Written'
  <2>1. /\ Quiet /\ taken' \in Seq(Taken) /\ answer'.result \in Results
        /\ reader' \in Readers /\ reader'.open /\ reader'.at <= Len(file)
    BY <1>12, LoadPlainDoes
  <2> QED BY <1>5, <2>1, ReaderSteps
<1>13. ASSUME UNCHANGED vars PROVE Typed' /\ Written'
  BY <1>13 DEF vars, Typed, TypeOK, Written, Image
<1>14. ASSUME LoadPlain("int", 2) PROVE Typed' /\ Written'
  BY <1>12, <1>14
<1>15. ASSUME NEW size \in Sizes, LoadPlain("binary", size) PROVE Typed' /\ Written'
  BY <1>12, <1>15, SizesNat
<1> QED BY <1>1, <1>2, <1>3, <1>4, <1>7, <1>8, <1>9, <1>10, <1>11, <1>13, <1>14, <1>15 DEF Next

\* The file, the handles and the answers are well formed, whatever fails.
THEOREM TypeCorrect == Spec => []TypeOK
<1>1. Init => Typed /\ Written
  BY InitWritten
<1>2. Typed /\ Written /\ [Next]_vars => (Typed /\ Written)'
  BY StepsWrite
<1>3. Typed => TypeOK
  BY DEF Typed
<1> QED BY <1>1, <1>2, <1>3, PTL DEF Spec

-----------------------------------------------------------------------------
(* Readers in step.                                                        *)

\* A reader nothing failed reads in the order of the file, where its next item starts.
Placed ==
    reader.open /\ ~reader.failed =>
        /\ file # <<>> /\ reader.swap = (writer.order # Native)
        /\ reader.at = Len(ImageOf(saved, writer.order, Len(taken)))

InStep == Placed /\ TakenIsSaved /\ TestTells /\ FileLoadsWhole

LEMMA ItemData ==
  ASSUME NEW item \in Items
  PROVE  item.data \in Seq(Nat)
<1>1. item.data \in Seq(0 .. Base * Base - 1)
  BY ArchiveAssumption
<1>2. Base * Base \in Nat
  BY BaseFacts
<1> QED BY <1>1, <1>2

LEMMA TakesNext ==
  ASSUME Typed, TakenIsSaved, saved' = saved, Len(taken) < Len(saved),
         NEW next \in Taken, next.kind = saved[Len(taken) + 1].kind,
         next.data = saved[Len(taken) + 1].data, taken' = Append(taken, next)
  PROVE  TakenIsSaved' /\ Len(taken') = Len(taken) + 1
<1>1. taken \in Seq(Taken) /\ Len(saved) \in Nat
  BY Facts
<1>2. Len(taken') = Len(taken) + 1 /\ DOMAIN taken' = 1 .. Len(taken) + 1 /\ Len(taken) \in Nat
  BY <1>1
<1>3. Len(taken') <= Len(saved')
  BY <1>1, <1>2
<1>4. ASSUME NEW i \in DOMAIN taken'
      PROVE  taken'[i].kind = saved'[i].kind /\ taken'[i].data = saved'[i].data
  <2>1. CASE i = Len(taken) + 1
    <3>1. taken'[i] = next
      BY <1>1, <2>1
    <3> QED BY <2>1, <3>1
  <2>2. CASE i # Len(taken) + 1
    <3>1. i \in DOMAIN taken /\ taken'[i] = taken[i]
      BY <1>1, <1>2, <2>2
    <3> QED BY <3>1 DEF TakenIsSaved
  <2> QED BY <2>1, <2>2
<1> QED BY <1>2, <1>3, <1>4 DEF TakenIsSaved

\* Where a reader in step stands, in the file.
LEMMA StandsAt ==
  ASSUME Typed, Written, InStep, reader.open, ~reader.failed
  PROVE  /\ file \in Seq(Nat) /\ file # <<>> /\ saved \in Seq(Items) /\ writer.order \in Orders
         /\ FileHolds(file, saved, writer.order)
         /\ Len(taken) \in 0 .. Len(saved) /\ Len(taken) \in Nat
         /\ reader.at = Len(ImageOf(saved, writer.order, Len(taken)))
         /\ reader.swap = (writer.order # Native)
<1>1. Len(taken) <= Len(saved) /\ Len(taken) \in Nat /\ Len(saved) \in Nat
  BY Facts DEF InStep, TakenIsSaved
<1> QED BY <1>1, Facts DEF InStep, Placed, Written

LEMMA IArchiveCreateInStep ==
  ASSUME Typed, Written, InStep, IArchiveCreate
  PROVE  InStep'
<1>1. /\ Quiet /\ taken' = <<>> /\ answer' = NoAnswer
      /\ ~reader'.failed =>
            file # <<>> /\ reader'.at = 1 /\ reader'.swap = (file[1] # OrderByte(Native))
  BY IArchiveCreateDoes
<1>2. file' = file /\ saved' = saved /\ writer' = writer
  BY <1>1 DEF Quiet
<1>3. Len(saved) \in Nat /\ saved \in Seq(Items) /\ writer.order \in Orders /\ 0 \in 0 .. Len(saved)
  BY Facts
<1>4. TakenIsSaved'
  BY <1>1, <1>2, <1>3 DEF TakenIsSaved
<1>5. TestTells' /\ FileLoadsWhole'
  BY <1>1 DEF TestTells, FileLoadsWhole, NoAnswer
<1>6. ASSUME ~reader'.failed
      PROVE  /\ file' # <<>> /\ reader'.swap = (writer'.order # Native)
             /\ reader'.at = Len(ImageOf(saved', writer'.order, Len(taken')))
  <2>1. file # <<>> /\ reader'.at = 1 /\ reader'.swap = (file[1] # OrderByte(Native))
    BY <1>1, <1>6
  <2>2. file[1] = OrderByte(writer.order)
    <3> DEFINE w == ImageOf(saved, writer.order, Len(saved))
    <3>1. Len(w) \in Nat \ {0} /\ w[1] = OrderByte(writer.order)
      BY <1>3, ImageType
    <3>2. \A i \in 1 .. Len(w) : file[i] = w[i]
      BY <2>1 DEF Written, FileHolds
    <3>3. 1 \in 1 .. Len(w)
      BY <3>1
    <3> QED BY <3>1, <3>2, <3>3
  <2>3. reader'.swap = (writer.order # Native)
    BY <1>3, <2>1, <2>2, OrderByteFacts, BaseFacts
  <2>4. Len(ImageOf(saved, writer.order, 0)) = 1
    <3>1. Len(<<OrderByte(writer.order)>>) = 1
      OBVIOUS
    <3> QED BY <1>3, <3>1, ImageNone
  <2> QED BY <1>1, <1>2, <2>1, <2>3, <2>4
<1> QED BY <1>4, <1>5, <1>6 DEF InStep, Placed

LEMMA TestInStep ==
  ASSUME Typed, Written, InStep, NEW type \in Types, Test(type)
  PROVE  InStep'
<1>1. /\ Quiet /\ taken' = taken /\ reader.open /\ reader'.swap = reader.swap
      /\ answer'.call = "test" /\ answer'.type = type /\ answer'.result \in {"yes", "no"}
      /\ ~reader'.failed =>
            /\ ~reader.failed /\ reader'.at = reader.at
            /\ reader.at + Len(Tag[type]) <= Len(file)
            /\ (answer'.result = "yes") <=> Matches(reader.at, type)
  BY TestDoes
<1>2. file' = file /\ saved' = saved /\ writer' = writer
  BY <1>1 DEF Quiet
<1>3. TakenIsSaved' /\ FileLoadsWhole'
  BY <1>1, <1>2 DEF InStep, TakenIsSaved, FileLoadsWhole
<1>4. Placed'
  BY <1>1, <1>2 DEF InStep, Placed
<1>5. ASSUME ~reader'.failed, Len(taken) < Len(saved)
      PROVE  answer'.result = "yes" <=> saved[Len(taken) + 1].kind = type
  <2>1. /\ ~reader.failed /\ reader.at + Len(Tag[type]) <= Len(file)
        /\ (answer'.result = "yes") <=> Matches(reader.at, type)
    BY <1>1, <1>5
  <2>2. /\ saved[Len(taken) + 1] \in Items
        /\ Ahead(file, reader.at, Encode(saved[Len(taken) + 1], writer.order))
    BY <1>1, <1>5, <2>1, StandsAt, NextAhead
  <2>3. reader.at \in Nat /\ file \in Seq(Nat) /\ writer.order \in Orders
    BY Facts
  <2>4. (\A i \in 1 .. Len(Tag[type]) : file[reader.at + i] = Tag[type][i])
           <=> saved[Len(taken) + 1].kind = type
    <3> DEFINE item == saved[Len(taken) + 1]
               p == reader.at
    <3>1. item \in Items /\ Ahead(file, p, Encode(item, writer.order))
      BY <2>2
    <3>2. p \in Nat /\ p + Len(Tag[type]) <= Len(file)
      BY <2>1, <2>3
    <3> HIDE DEF item, p
    <3>3. (\A i \in 1 .. Len(Tag[type]) : file[p + i] = Tag[type][i]) <=> item.kind = type
      BY <2>3, <3>1, <3>2, TagTells
    <3> QED BY <3>3 DEF item, p
  <2> QED BY <2>1, <2>4 DEF Matches
<1>6. TestTells'
  BY <1>1, <1>2, <1>5 DEF TestTells, AtItem, NextItem
<1> QED BY <1>3, <1>4, <1>6 DEF InStep

LEMMA LoadInStep ==
  ASSUME SameRelease, Typed, Written, InStep, NEW type \in Types, Load(type)
  PROVE  InStep'
<1>1. /\ Quiet /\ reader.open /\ ~reader.failed
      /\ reader'.swap = reader.swap /\ reader'.open
      /\ taken' \in Seq(Taken) /\ answer'.call = "load"
      /\ \/ taken' = taken /\ (reader'.failed \/ reader'.at = reader.at)
         \/ \E c \in Cursors(file) :
               /\ c.at = reader.at /\ Matches(reader.at, type)
               /\ ~Parse(file, c, type, reader.swap).cursor.failed
               /\ reader'.at = Parse(file, c, type, reader.swap).cursor.at
               /\ taken' = IF Sane(type, Parse(file, c, type, reader.swap).data)
                           THEN Append(taken, [kind |-> type, data |-> Parse(file, c, type, reader.swap).data])
                           ELSE taken
  BY LoadDoes
<1>2. file' = file /\ saved' = saved /\ writer' = writer
  BY <1>1 DEF Quiet
<1>3. TestTells' /\ FileLoadsWhole'
  BY <1>1 DEF TestTells, FileLoadsWhole
<1>4. CASE taken' = taken /\ (reader'.failed \/ reader'.at = reader.at)
  <2>1. TakenIsSaved' /\ Placed'
    BY <1>1, <1>2, <1>4 DEF InStep, TakenIsSaved, Placed
  <2> QED BY <1>3, <2>1 DEF InStep
<1>5. ASSUME NEW c \in Cursors(file), c.at = reader.at, Matches(reader.at, type),
             ~Parse(file, c, type, reader.swap).cursor.failed,
             reader'.at = Parse(file, c, type, reader.swap).cursor.at,
             taken' = IF Sane(type, Parse(file, c, type, reader.swap).data)
                      THEN Append(taken, [kind |-> type, data |-> Parse(file, c, type, reader.swap).data])
                      ELSE taken
      PROVE  InStep'
  <2> DEFINE n == Len(taken)
             parsed == Parse(file, c, type, reader.swap)
  <2>1. /\ file \in Seq(Nat) /\ file # <<>> /\ saved \in Seq(Items) /\ writer.order \in Orders
        /\ FileHolds(file, saved, writer.order) /\ n \in 0 .. Len(saved) /\ n \in Nat
        /\ reader.at = Len(ImageOf(saved, writer.order, n))
        /\ reader.swap = (writer.order # Native)
    BY <1>1, StandsAt
  <2>2. /\ c.at + Len(Tag[type]) <= Len(file)
        /\ \A i \in 1 .. Len(Tag[type]) : file[c.at + i] = Tag[type][i]
    BY <1>5 DEF Matches
  <2>3. c.at = Len(ImageOf(saved, writer.order, n))
    BY <1>5, <2>1
  <2>4. ~Parse(file, c, type, writer.order # Native).cursor.failed
    BY <1>5, <2>1
  <2>5. /\ n < Len(saved) /\ saved[n + 1].kind = type
        /\ Parse(file, c, type, writer.order # Native).data = saved[n + 1].data
        /\ Parse(file, c, type, writer.order # Native).cursor.at = Len(ImageOf(saved, writer.order, n + 1))
    <3> HIDE DEF n
    <3>1. LoadsHere(file, saved, writer.order, n, c, type)
      BY <1>5, <2>1, <2>2, <2>3, <2>4 DEF LoadsHere
    <3>2. LoadsAs(Parse(file, c, type, writer.order # Native), saved, writer.order, n, type)
      BY <3>1, LoadsItem
    <3> QED BY <3>2 DEF LoadsAs
  <2>6. parsed.data = saved[n + 1].data /\ reader'.at = Len(ImageOf(saved, writer.order, n + 1))
    BY <1>5, <2>1, <2>5
  <2>7. saved[n + 1] \in Items
    BY <2>1, <2>5
  <2>8. Sane(type, parsed.data)
    BY <2>5, <2>6, <2>7, ArchiveAssumption
  <2>9. taken' = Append(taken, [kind |-> type, data |-> saved[n + 1].data])
    BY <1>5, <2>6, <2>8
  <2>10. [kind |-> type, data |-> saved[n + 1].data] \in Taken
    <3> DEFINE item == saved[n + 1]
    <3>1. item \in Items
      BY <2>7
    <3> HIDE DEF item
    <3>2. item.data \in Seq(Nat)
      BY <3>1, ItemData
    <3>3. [kind |-> type, data |-> item.data] \in Taken
      BY <3>2 DEF Taken
    <3> QED BY <3>3 DEF item
  <2>11. TakenIsSaved' /\ Len(taken') = n + 1
    <3> DEFINE next == [kind |-> type, data |-> saved[n + 1].data]
    <3>1. next.kind = saved[n + 1].kind /\ next.data = saved[n + 1].data /\ next \in Taken
      BY <2>5, <2>10
    <3>2. taken' = Append(taken, next)
      BY <2>9
    <3> HIDE DEF next
    <3> QED BY <1>2, <2>5, <3>1, <3>2, TakesNext DEF InStep
  <2>12. Placed'
    BY <1>1, <1>2, <2>1, <2>6, <2>11 DEF Placed
  <2> QED BY <1>3, <2>11, <2>12 DEF InStep
<1> QED BY <1>1, <1>4, <1>5

\* What a plain load that was not cut short starts from, and what it gives.
PlainHere(f, items, order, n, c, size) ==
    /\ f \in Seq(Nat) /\ f # <<>> /\ items \in Seq(Items) /\ order \in Orders
    /\ FileHolds(f, items, order) /\ n \in Nat /\ n < Len(items)
    /\ c \in Cursors(f) /\ c.at = Len(ImageOf(items, order, n))
    /\ size \in Nat /\ Len(Encode(items[n + 1], order)) = size /\ ~Read(f, c, size).failed

PlainAs(read, items, order, n, size) ==
    /\ read.at = Len(ImageOf(items, order, n + 1))
    /\ read.got \in Seq(Nat) /\ Len(read.got) = size
    /\ \A i \in 1 .. size : read.got[i] = Encode(items[n + 1], order)[i]

LEMMA LoadsPlainHere ==
  ASSUME NEW f, NEW items, NEW order, NEW n, NEW c, NEW size,
         PlainHere(f, items, order, n, c, size)
  PROVE  PlainAs(Read(f, c, size), items, order, n, size)
<1>1. /\ f \in Seq(Nat) /\ f # <<>> /\ items \in Seq(Items) /\ order \in Orders
      /\ FileHolds(f, items, order) /\ n \in Nat /\ n < Len(items)
      /\ c \in Cursors(f) /\ c.at = Len(ImageOf(items, order, n))
      /\ size \in Nat /\ Len(Encode(items[n + 1], order)) = size /\ ~Read(f, c, size).failed
  BY DEF PlainHere
<1>2. /\ Read(f, c, size).at = Len(ImageOf(items, order, n + 1))
      /\ \A i \in 1 .. size : Read(f, c, size).got[i] = Encode(items[n + 1], order)[i]
  BY <1>1, LoadsPlain
<1>3. Read(f, c, size).got \in Seq(Nat) /\ Len(Read(f, c, size).got) = size
  <2> DEFINE r == Read(f, c, size)
  <2>1. r \in Cursors(f) /\ Len(r.got) = size
    BY <1>1, ReadType
  <2> HIDE DEF r
  <2>2. r.got \in Seq(Nat) /\ Len(r.got) = size
    BY <2>1 DEF Cursors
  <2> QED BY <2>2 DEF r
<1> QED BY <1>2, <1>3 DEF PlainAs

\* The bytes of an integer or of binary data read back as what was written.
LEMMA PlainReadsBack ==
  ASSUME NEW item \in Items, NEW order \in Orders, NEW kind \in {"int", "binary"}, item.kind = kind,
         NEW got \in Seq(Nat), Len(got) = Len(Encode(item, order)),
         \A i \in 1 .. Len(got) : got[i] = Encode(item, order)[i]
  PROVE  PlainData(kind, got, order # Native) = item.data
<1>1. item.kind \notin Types
  BY ArchiveAssumption
<1>2. CASE kind = "binary"
  <2>1. Encode(item, order) = item.data /\ Encode(item, order) \in Seq(Nat)
    BY <1>1, <1>2, EncodePlain
  <2>2. got = Encode(item, order)
    BY <2>1, SeqEqual
  <2> QED BY <1>2, <2>1, <2>2 DEF PlainData
<1>3. CASE kind = "int"
  <2> DEFINE v == item.data[1]
             swap == order # Native
             e == Encode(item, order)
             b == Bytes(v, order)
  <2>1. e[1] = b[1] /\ e[2] = b[2] /\ Len(got) = 2
    BY <1>1, <1>3, EncodePlain
  <2>2. 1 \in 1 .. Len(got) /\ 2 \in 1 .. Len(got)
    BY <2>1
  <2>3. got[1] = b[1] /\ got[2] = b[2]
    BY <2>1, <2>2
  <2>4. item.data \in Seq(0 .. Base * Base - 1) /\ Len(item.data) = 1
    BY <1>3, ArchiveAssumption
  <2>5. v \in 0 .. Base * Base - 1
    <3> DEFINE d == item.data
               R == 0 .. Base * Base - 1
    <3>1. d \in Seq(R) /\ Len(d) = 1
      BY <2>4
    <3> HIDE DEF d, R
    <3>2. 1 \in 1 .. Len(d)
      BY <3>1
    <3>3. d[1] \in R
      BY <3>1, <3>2, ElementOfSeq
    <3> QED BY <3>3 DEF d, R
  <2>6. Len(got) = 2 * 1
    BY <2>1
  <2>7. /\ Values(got, swap) \in Seq(Nat) /\ Len(Values(got, swap)) = 1
        /\ \A i \in 1 .. 1 : \E two : /\ two[1] = got[2 * i - 1] /\ two[2] = got[2 * i]
                                      /\ Values(got, swap)[i] = ValueOf(two, swap)
    <3> HIDE DEF swap
    <3>1. 1 \in Nat
      OBVIOUS
    <3>2. \A n \in Nat : Len(got) = 2 * n =>
             /\ Values(got, swap) \in Seq(Nat) /\ Len(Values(got, swap)) = n
             /\ \A i \in 1 .. n : \E two : /\ two[1] = got[2 * i - 1] /\ two[2] = got[2 * i]
                                          /\ Values(got, swap)[i] = ValueOf(two, swap)
      BY ValuesAre
    <3> QED BY <2>6, <3>1, <3>2
  <2>8. PICK two : two[1] = got[1] /\ two[2] = got[2] /\ Values(got, swap)[1] = ValueOf(two, swap)
    <3> HIDE DEF swap
    <3>1. 1 \in 1 .. 1 /\ 2 * 1 - 1 = 1 /\ 2 * 1 = 2
      OBVIOUS
    <3> QED BY <2>7, <3>1
  <2>9. ValueOf(two, swap) = v
    BY <2>3, <2>5, <2>8, BytesReadBack
  <2>10. Values(got, swap) = item.data
    <3> DEFINE d == item.data
               r == Values(got, swap)
    <3>1. r \in Seq(Nat) /\ d \in Seq(Nat) /\ Len(r) = 1 /\ Len(d) = 1 /\ r[1] = d[1]
      BY <2>4, <2>7, <2>8, <2>9, ItemData
    <3> HIDE DEF d, r
    <3>2. Len(r) = Len(d) /\ \A i \in 1 .. Len(r) : r[i] = d[i]
      BY <3>1
    <3>3. r = d
      BY <3>1, <3>2, SeqEqual
    <3> QED BY <3>3 DEF d, r
  <2> QED BY <1>3, <2>10 DEF PlainData
<1> QED BY <1>2, <1>3

\* The two orders take the same room.
LEMMA PlainSize ==
  ASSUME NEW item \in Items, item.kind \notin Types, NEW o1 \in Orders, NEW o2 \in Orders
  PROVE  Len(Encode(item, o1)) = Len(Encode(item, o2))
<1>1. item.kind \in {"int", "binary"}
  BY ArchiveAssumption
<1> QED BY <1>1, EncodePlain

LEMMA LoadPlainInStep ==
  ASSUME Typed, Written, InStep, NEW kind \in {"int", "binary"}, NEW size \in Nat,
         kind = "int" => size = 2, LoadPlain(kind, size)
  PROVE  InStep'
<1>1. /\ Quiet /\ reader.open /\ ~reader.failed /\ InFrame(kind, size)
      /\ reader'.open /\ reader'.swap = reader.swap
      /\ taken' \in Seq(Taken) /\ answer'.call = "plain"
      /\ \E c \in Cursors(file) :
            /\ c.at = reader.at
            /\ reader'.at = Read(file, c, size).at /\ reader'.failed = Read(file, c, size).failed
            /\ taken' = IF Read(file, c, size).failed THEN taken
                        ELSE Append(taken, [kind |-> kind,
                                data |-> PlainData(kind, Read(file, c, size).got, reader.swap)])
  BY LoadPlainDoes
<1>2. file' = file /\ saved' = saved /\ writer' = writer
  BY <1>1 DEF Quiet
<1>3. TestTells' /\ FileLoadsWhole'
  BY <1>1 DEF TestTells, FileLoadsWhole
<1>4. PICK c \in Cursors(file) :
            /\ c.at = reader.at
            /\ reader'.at = Read(file, c, size).at /\ reader'.failed = Read(file, c, size).failed
            /\ taken' = IF Read(file, c, size).failed THEN taken
                        ELSE Append(taken, [kind |-> kind,
                                data |-> PlainData(kind, Read(file, c, size).got, reader.swap)])
  BY <1>1
<1>5. CASE Read(file, c, size).failed
  <2>1. taken' = taken /\ reader'.failed
    BY <1>4, <1>5
  <2>2. TakenIsSaved' /\ Placed'
    BY <1>2, <2>1 DEF InStep, TakenIsSaved, Placed
  <2> QED BY <1>3, <2>2 DEF InStep
<1>6. CASE ~Read(file, c, size).failed
  <2> DEFINE n == Len(taken)
             read == Read(file, c, size)
             item == saved[n + 1]
  <2>1. /\ file \in Seq(Nat) /\ file # <<>> /\ saved \in Seq(Items) /\ writer.order \in Orders
        /\ FileHolds(file, saved, writer.order) /\ n \in 0 .. Len(saved) /\ n \in Nat
        /\ reader.at = Len(ImageOf(saved, writer.order, n))
        /\ reader.swap = (writer.order # Native)
    BY <1>1, StandsAt
  <2>2. n < Len(saved) /\ item.kind = kind /\ Len(Encode(item, "big")) = size
    <3>1. c.at + size <= Len(file)
      BY <1>6, <2>1, ReadWhole
    <3>2. ~(Len(file) < reader.at + size)
      BY <1>4, <3>1, Facts
    <3> QED BY <1>1, <3>2 DEF InFrame, AtItem, NextItem
  <2>3. item \in Items /\ item.kind \notin Types
    <3>1. item \in Items
      BY <2>1, <2>2
    <3> HIDE DEF item
    <3> QED BY <2>2, <3>1, ArchiveAssumption
  <2>4. Len(Encode(item, writer.order)) = size
    <3> HIDE DEF item
    <3>1. "big" \in Orders
      BY DEF Orders
    <3> QED BY <2>1, <2>2, <2>3, <3>1, PlainSize
  <2>5. PlainHere(file, saved, writer.order, n, c, size)
    BY <1>4, <1>6, <2>1, <2>2, <2>4 DEF PlainHere
  <2>6. PlainAs(read, saved, writer.order, n, size)
    <3> HIDE DEF n
    <3> QED BY <2>5, LoadsPlainHere
  <2>7. /\ reader'.at = Len(ImageOf(saved, writer.order, n + 1))
        /\ read.got \in Seq(Nat) /\ Len(read.got) = size
        /\ \A i \in 1 .. size : read.got[i] = Encode(item, writer.order)[i]
    BY <1>4, <2>6 DEF PlainAs
  <2>8. PlainData(kind, read.got, writer.order # Native) = item.data
    <3> DEFINE got == read.got
    <3>1. /\ got \in Seq(Nat) /\ Len(got) = Len(Encode(item, writer.order))
          /\ \A i \in 1 .. Len(got) : got[i] = Encode(item, writer.order)[i]
      BY <2>4, <2>7
    <3> HIDE DEF got, item
    <3>2. PlainData(kind, got, writer.order # Native) = item.data
      BY <2>1, <2>2, <2>3, <3>1, PlainReadsBack
    <3> QED BY <3>2 DEF got
  <2>9. taken' = Append(taken, [kind |-> kind, data |-> item.data])
    BY <1>4, <1>6, <2>1, <2>8
  <2>10. TakenIsSaved' /\ Len(taken') = n + 1
    <3> DEFINE next == [kind |-> kind, data |-> item.data]
    <3>1. next.kind = item.kind /\ next.data = item.data /\ next \in Taken
      <4> HIDE DEF item
      <4>1. item.data \in Seq(Nat)
        BY <2>3, ItemData
      <4> QED BY <2>2, <4>1 DEF Taken
    <3>2. taken' = Append(taken, next)
      BY <2>9
    <3> HIDE DEF next
    <3> QED BY <1>2, <2>2, <3>1, <3>2, TakesNext DEF InStep
  <2>11. Placed'
    BY <1>1, <1>2, <2>1, <2>7, <2>10 DEF Placed
  <2> QED BY <1>3, <2>10, <2>11 DEF InStep
<1> QED BY <1>5, <1>6

LEMMA LoadFileInStep ==
  ASSUME SameRelease, Typed, Written, InStep, NEW type \in Types, LoadFile(type)
  PROVE  InStep'
<1>1. /\ Quiet /\ UNCHANGED <<reader, taken>>
      /\ answer'.call = "file" /\ answer'.type = type
      /\ answer'.result = "OK" =>
            /\ file # <<>> /\ Matches(1, type)
            /\ \E c \in Cursors(file) :
                  /\ c.at = 1
                  /\ ~Parse(file, c, type, file[1] # OrderByte(Native)).cursor.failed
                  /\ answer'.data = Parse(file, c, type, file[1] # OrderByte(Native)).data
  BY LoadFileDoes
<1>2. file' = file /\ saved' = saved /\ writer' = writer
  BY <1>1 DEF Quiet
<1>3. TakenIsSaved' /\ TestTells' /\ Placed'
  BY <1>1, <1>2 DEF InStep, TakenIsSaved, TestTells, Placed
<1>4. ASSUME answer'.result = "OK"
      PROVE  saved # <<>> /\ saved[1].kind = type /\ saved[1].data = answer'.data
  <2>1. file # <<>> /\ Matches(1, type)
    BY <1>1, <1>4
  <2>2. PICK c \in Cursors(file) :
                  /\ c.at = 1
                  /\ ~Parse(file, c, type, file[1] # OrderByte(Native)).cursor.failed
                  /\ answer'.data = Parse(file, c, type, file[1] # OrderByte(Native)).data
    BY <1>1, <1>4
  <2>3. file \in Seq(Nat) /\ saved \in Seq(Items) /\ writer.order \in Orders /\ FileHolds(file, saved, writer.order)
    BY Facts DEF Written
  <2>4. file[1] = OrderByte(writer.order)
    <3> DEFINE w == ImageOf(saved, writer.order, Len(saved))
    <3>1. Len(w) \in Nat \ {0} /\ w[1] = OrderByte(writer.order)
      <4>1. Len(saved) \in 0 .. Len(saved)
        BY <2>3
      <4> QED BY <2>3, <4>1, ImageType
    <3>2. \A i \in 1 .. Len(w) : file[i] = w[i]
      BY <2>1, <2>3 DEF FileHolds
    <3>3. 1 \in 1 .. Len(w)
      BY <3>1
    <3> QED BY <3>1, <3>2, <3>3
  <2>5. (file[1] # OrderByte(Native)) = (writer.order # Native)
    BY <2>3, <2>4, OrderByteFacts, BaseFacts
  <2>6. Len(ImageOf(saved, writer.order, 0)) = 1
    <3>1. Len(<<OrderByte(writer.order)>>) = 1
      OBVIOUS
    <3> QED BY <2>3, <3>1, ImageNone
  <2>7. ~Parse(file, c, type, writer.order # Native).cursor.failed
    BY <2>2, <2>5
  <2>8. /\ c.at + Len(Tag[type]) <= Len(file)
        /\ \A i \in 1 .. Len(Tag[type]) : file[c.at + i] = Tag[type][i]
    BY <2>1, <2>2 DEF Matches
  <2>9. 0 \in 0 .. Len(saved)
    BY <2>3
  <2>10. LoadsHere(file, saved, writer.order, 0, c, type)
    BY <2>1, <2>2, <2>3, <2>6, <2>7, <2>8, <2>9 DEF LoadsHere
  <2>11. LoadsAs(Parse(file, c, type, writer.order # Native), saved, writer.order, 0, type)
    BY <2>10, LoadsItem
  <2>12. 0 < Len(saved) /\ saved[1].kind = type /\ saved[1].data = answer'.data
    <3>1. 0 + 1 = 1
      OBVIOUS
    <3>2. saved[0 + 1].kind = type /\ 0 < Len(saved)
          /\ Parse(file, c, type, writer.order # Native).data = saved[0 + 1].data
      BY <2>11 DEF LoadsAs
    <3> QED BY <2>2, <2>5, <3>1, <3>2
  <2> QED BY <2>3, <2>12
<1>5. FileLoadsWhole'
  BY <1>1, <1>2, <1>4 DEF FileLoadsWhole
<1> QED BY <1>3, <1>5 DEF InStep

LEMMA WritersInStep ==
  ASSUME Typed, Written, InStep, [Next]_vars,
         \/ \E order \in Orders : OArchiveCreate(order)
         \/ OArchiveDestroy
         \/ \E item \in Items : Save(item) \/ SaveFile(item)
  PROVE  InStep'
<1>1. ASSUME NEW order \in Orders, OArchiveCreate(order) PROVE InStep'
  <2>1. file = <<>> /\ UNCHANGED <<reader, saved, taken>> /\ answer' = NoAnswer
    BY <1>1 DEF OArchiveCreate
  <2>2. Placed'
    BY <2>1 DEF InStep, Placed
  <2>3. TakenIsSaved' /\ TestTells' /\ FileLoadsWhole'
    BY <2>1 DEF InStep, TakenIsSaved, TestTells, FileLoadsWhole, NoAnswer
  <2> QED BY <2>2, <2>3 DEF InStep
<1>2. ASSUME OArchiveDestroy PROVE InStep'
  <2>1. UNCHANGED <<file, reader, saved, taken, answer>> /\ writer' = [writer EXCEPT !.open = FALSE]
    BY <1>2 DEF OArchiveDestroy
  <2>2. writer'.order = writer.order
    BY <2>1, Facts
  <2>3. Placed'
    BY <2>1, <2>2 DEF InStep, Placed
  <2>4. TakenIsSaved' /\ TestTells' /\ FileLoadsWhole'
    BY <2>1 DEF InStep, TakenIsSaved, TestTells, FileLoadsWhole, AtItem, NextItem
  <2> QED BY <2>3, <2>4 DEF InStep
<1>3. ASSUME NEW item \in Items, Save(item) PROVE InStep'
  <2> DEFINE e == Encode(item, writer.order)
  <2>1. /\ UNCHANGED <<reader, taken>> /\ answer' = NoAnswer
        /\ \E n \in 0 .. Len(e) :
              /\ file' = file \o Prefix(e, n)
              /\ writer' = [writer EXCEPT !.failed = n < Len(e)]
              /\ saved' = IF n = Len(e) THEN Append(saved, item) ELSE saved
    BY <1>3 DEF Save, Write
  <2>2. /\ file \in Seq(Nat) /\ saved \in Seq(Items) /\ writer.order \in Orders
        /\ taken \in Seq(Taken) /\ e \in Seq(Nat)
    BY Facts, EncodeType
  <2>3. file # <<>> => file' # <<>>
    <3> HIDE DEF e
    <3>1. PICK n \in 0 .. Len(e) : file' = file \o Prefix(e, n)
      BY <2>1
    <3>2. Prefix(e, n) \in Seq(Nat)
      BY <2>2, PrefixIs
    <3> DEFINE more == Prefix(e, n)
    <3> HIDE DEF more
    <3>3. file' = file \o more /\ more \in Seq(Nat)
      BY <3>1, <3>2 DEF more
    <3>4. Len(file') = Len(file) + Len(more) /\ Len(file) \in Nat /\ Len(more) \in Nat
      BY <2>2, <3>3
    <3>5. Len(<<>>) = 0
      OBVIOUS
    <3> QED BY <2>2, <3>4, <3>5, EmptySeq
  <2>4. writer'.order = writer.order
    BY <2>1, Facts
  <2>5. saved' = saved \/ saved' = Append(saved, item)
    BY <2>1
  <2>6. Len(taken) <= Len(saved) /\ Len(taken) \in 0 .. Len(saved)
    <3>1. Len(taken) \in Nat /\ Len(saved) \in Nat
      BY <2>2
    <3> QED BY <3>1 DEF InStep, TakenIsSaved
  <2>7. ImageOf(saved', writer.order, Len(taken)) = ImageOf(saved, writer.order, Len(taken))
    <3>1. CASE saved' = saved
      BY <3>1
    <3>2. CASE saved' = Append(saved, item)
      BY <2>2, <2>6, <3>2, ImageAppend
    <3> QED BY <2>5, <3>1, <3>2
  <2>8. Placed'
    BY <2>1, <2>3, <2>4, <2>7 DEF InStep, Placed
  <2>9. TakenIsSaved'
    <3>1. Len(saved) <= Len(saved') /\ \A i \in 1 .. Len(saved) : saved'[i] = saved[i]
      <4>1. Len(saved) \in Nat
        BY <2>2
      <4>2. CASE saved' = saved
        BY <4>1, <4>2
      <4>3. CASE saved' = Append(saved, item)
        BY <2>2, <4>1, <4>3, AppendProperties
      <4> QED BY <2>5, <4>2, <4>3
    <3>2. Len(taken) <= Len(saved')
      <4>1. Len(saved) \in Nat /\ Len(saved') \in Nat /\ Len(taken) \in Nat
        BY <2>2, <2>5
      <4> QED BY <2>6, <3>1, <4>1
    <3>3. \A i \in DOMAIN taken : i \in 1 .. Len(saved)
      <4>1. Len(saved) \in Nat /\ DOMAIN taken = 1 .. Len(taken) /\ Len(taken) \in Nat
        BY <2>2
      <4> QED BY <2>6, <4>1
    <3> QED BY <2>1, <3>1, <3>2, <3>3 DEF InStep, TakenIsSaved
  <2>10. TestTells' /\ FileLoadsWhole'
    BY <2>1 DEF TestTells, FileLoadsWhole, NoAnswer
  <2> QED BY <2>8, <2>9, <2>10 DEF InStep
<1>4. ASSUME NEW item \in Items, SaveFile(item) PROVE InStep'
  <2>1. ~reader.open /\ UNCHANGED reader /\ taken' = <<>> /\ answer' = NoAnswer
    BY <1>4 DEF SaveFile
  <2>2. Placed' /\ TestTells' /\ FileLoadsWhole'
    BY <2>1 DEF Placed, TestTells, FileLoadsWhole, NoAnswer
  <2>3. TakenIsSaved'
    <3>1. Len(saved') \in Nat
      BY StepsWrite, Facts DEF Typed, TypeOK
    <3> QED BY <2>1, <3>1 DEF TakenIsSaved
  <2> QED BY <2>2, <2>3 DEF InStep
<1> QED BY <1>1, <1>2, <1>3, <1>4

LEMMA StepsInStep ==
  ASSUME SameRelease, Typed, Written, InStep, [Next]_vars
  PROVE  InStep'
<1>1. CASE \/ \E order \in Orders : OArchiveCreate(order)
           \/ OArchiveDestroy
           \/ \E item \in Items : Save(item) \/ SaveFile(item)
  BY <1>1, WritersInStep
<1>2. CASE IArchiveCreate
  BY <1>2, IArchiveCreateInStep
<1>3. CASE IArchiveDestroy
  <2>1. UNCHANGED <<file, writer, saved>> /\ reader' = Unread /\ taken' = <<>> /\ answer' = NoAnswer
    BY <1>3 DEF IArchiveDestroy
  <2>2. Placed' /\ TestTells' /\ FileLoadsWhole'
    BY <2>1 DEF Placed, TestTells, FileLoadsWhole, NoAnswer, Unread
  <2>3. TakenIsSaved'
    BY <2>1, Facts DEF TakenIsSaved
  <2> QED BY <2>2, <2>3 DEF InStep
<1>4. ASSUME NEW type \in Types, Test(type) PROVE InStep'
  BY <1>4, TestInStep
<1>5. ASSUME NEW type \in Types, Load(type) PROVE InStep'
  BY <1>5, LoadInStep
<1>6. ASSUME NEW type \in Types, LoadFile(type) PROVE InStep'
  BY <1>6, LoadFileInStep
<1>7. CASE LoadPlain("int", 2)
  BY <1>7, LoadPlainInStep
<1>8. ASSUME NEW size \in Sizes, LoadPlain("binary", size) PROVE InStep'
  BY <1>8, SizesNat, LoadPlainInStep
<1>9. CASE UNCHANGED vars
  BY <1>9 DEF vars, InStep, Placed, TakenIsSaved, TestTells, FileLoadsWhole, AtItem, NextItem
<1> QED BY <1>1, <1>2, <1>3, <1>4, <1>5, <1>6, <1>7, <1>8, <1>9 DEF Next

LEMMA InitInStep == Init => InStep
  BY DEF Init, InStep, Placed, TakenIsSaved, TestTells, FileLoadsWhole, Unread, NoAnswer

\* A save answered OK is in the file whole, after the ones before it, and a writer that nothing
\* cut short has written nothing else (zozzOArchiveSave*, HostWriteStream). No version matters here.
THEOREM SavesAreWritten == Spec => []WrittenIsSaved
<1>1. Typed /\ Written => WrittenIsSaved
  <2> SUFFICES ASSUME Typed, Written PROVE WrittenIsSaved
    OBVIOUS
  <2>1. ASSUME saved # <<>> PROVE IsPrefix(Image(Len(saved)), file)
    <3> DEFINE w == ImageOf(saved, writer.order, Len(saved))
    <3>1. /\ Len(w) <= Len(file) /\ \A i \in 1 .. Len(w) : file[i] = w[i]
      BY <2>1 DEF Written, FileHolds
    <3>2. file \in Seq(Nat) /\ w \in Seq(Nat)
      <4>1. saved \in Seq(Items) /\ writer.order \in Orders /\ Len(saved) \in 0 .. Len(saved)
        BY Facts
      <4> QED BY <4>1, Facts, ImageType
    <3>3. w = Image(Len(saved))
      BY DEF Image, ImageOf
    <3> HIDE DEF w
    <3>4. SubSeq(w, 1, Len(w)) = SubSeq(file, 1, Len(w))
      <4> DEFINE a == SubSeq(w, 1, Len(w))
                 b == SubSeq(file, 1, Len(w))
      <4>1. Len(w) \in Nat /\ Len(w) \in 0 .. Len(file) /\ Len(w) \in 0 .. Len(w)
        BY <3>1, <3>2
      <4>2. /\ a \in Seq(Nat) /\ Len(a) = Len(w) /\ \A i \in 1 .. Len(w) : a[i] = w[i]
            /\ b \in Seq(Nat) /\ Len(b) = Len(w) /\ \A i \in 1 .. Len(w) : b[i] = file[i]
        BY <3>2, <4>1, PrefixIs DEF Prefix
      <4> HIDE DEF a, b
      <4>3. Len(a) = Len(b) /\ \A i \in 1 .. Len(a) : a[i] = b[i]
        BY <3>1, <4>2
      <4>4. a = b
        BY ONLY <4>2, <4>3, SeqEqual
      <4> QED BY <4>4 DEF a, b
    <3>5. IsPrefix(w, file)
      BY <3>1, <3>4 DEF IsPrefix
    <3> QED BY <3>3, <3>5
  <2> QED BY <2>1 DEF WrittenIsSaved, Written
<1>2. Typed /\ Written /\ [Next]_vars => (Typed /\ Written)'
  BY StepsWrite
<1> QED BY <1>1, <1>2, InitWritten, PTL DEF Spec

LEMMA ReadersInStep == ASSUME SameRelease PROVE Spec => []InStep
<1>1. Typed /\ Written /\ InStep /\ [Next]_vars => (Typed /\ Written /\ InStep)'
  BY StepsWrite, StepsInStep
<1> QED BY <1>1, InitWritten, InitInStep, PTL DEF Spec

\* Whatever is cut short on either side, what a reader is given is what was saved, in order
\* (HostReadStream, LoadTagged), when the reading release knows the versions it meets.
THEOREM ReadersGetWhatWasSaved == ASSUME SameRelease PROVE Spec => []SavesReachReaders
<1>1. InStep => TakenIsSaved
  BY DEF InStep
<1>2. WrittenIsSaved /\ TakenIsSaved => SavesReachReaders
  BY DEF SavesReachReaders
<1> QED BY <1>1, <1>2, SavesAreWritten, ReadersInStep, PTL

\* A reader nothing failed is where its next item starts, also after tests and loads of the
\* wrong type (TestTag's rewind, and the answers that leave the position alone).
THEOREM ReadersStayInStep == ASSUME SameRelease PROVE Spec => []StaysInStep
<1>1. InStep => StaysInStep
  BY DEF InStep, Placed, StaysInStep, Start, Image, ImageOf
<1> QED BY <1>1, ReadersInStep, PTL

\* Until something fails, a test for a type is answered truthfully of the next item: the zero
\* that ends a tag keeps one from being the beginning of another (IArchive::TestTag).
THEOREM TestsTell == ASSUME SameRelease PROVE Spec => []TestTells
<1>1. InStep => TestTells
  BY DEF InStep
<1> QED BY <1>1, ReadersInStep, PTL

\* A file loaded whole holds the object it was saved with, or is refused, wherever the writing
\* stopped (SaveToFile, LoadFromFile).
THEOREM FilesLoadWhole == ASSUME SameRelease PROVE Spec => []FileLoadsWhole
<1>1. InStep => FileLoadsWhole
  BY DEF InStep
<1> QED BY <1>1, ReadersInStep, PTL
=============================================================================
