--------------------------- MODULE SkeletonProofs ---------------------------
(***************************************************************************)
(* Proofs about Skeletons, for any flat list of joints in which parents    *)
(* come first: what becomes of it when it is flattened and built, and      *)
(* which joints the walks over it visit.                                   *)
(*                                                                         *)
(* The definitions recur over joints, so what they give is shown of the    *)
(* children of a joint one after the other: the list that has been made    *)
(* of p and the subtrees of some of its children is Walked (depth first)   *)
(* or Leveled (breadth first), and one more subtree keeps it so.  That a   *)
(* recursion has a value at all is RecursionEnds.                          *)
(***************************************************************************)
EXTENDS Skeletons, SequenceTheorems, FiniteSetTheorems, WellFoundedInduction, TLAPS

-----------------------------------------------------------------------------
(* Numbers and sequences.                                                  *)

LEMMA FirstNumbers ==
  ASSUME NEW n \in Nat
  PROVE  Cardinality(0 .. n - 1) = n
<1>1. Cardinality(0 .. n - 1) = IF 0 > n - 1 THEN 0 ELSE (n - 1) - 0 + 1
  BY FS_Interval
<1>2. (IF 0 > n - 1 THEN 0 ELSE (n - 1) - 0 + 1) = n
  OBVIOUS
<1> QED BY <1>1, <1>2

LEMMA Regrouped ==
  ASSUME NEW T, NEW x \in Seq(T), NEW y \in Seq(T), NEW z \in Seq(T)
  PROVE  x \o (y \o z) = (x \o y) \o z
BY ConcatAssociative

-----------------------------------------------------------------------------
(* Recursion.                                                              *)

LEMMA LeastNatural ==
  ASSUME NEW T, T \subseteq Nat, T # {}
  PROVE  \E m \in T : \A k \in T : m <= k
<1> DEFINE R == OpToRel(<, Nat)
<1>1. IsWellFoundedOn(R, Nat)
  BY NatLessThanWellFounded, Zenon
<1>2. PICK m \in T : \A k \in T : <<k, m>> \notin R
  <2> HIDE DEF R
  <2> QED BY <1>1, WFMin
<1>3. \A k \in T : ~(k < m)
  BY <1>2 DEF OpToRel
<1> QED BY <1>3

\* What holds of a member when it holds of all lower ones holds of every member.
LEMMA ByHeight ==
  ASSUME NEW N, NEW h \in [N -> Nat], NEW S,
         \A x \in N : (\A y \in N : h[y] < h[x] => y \in S) => x \in S
  PROVE  N \subseteq S
<1> DEFINE T == {h[x] : x \in N \ S}
<1> SUFFICES ASSUME N \ S # {} PROVE FALSE
  OBVIOUS
<1>1. T \subseteq Nat /\ T # {}
  OBVIOUS
<1> HIDE DEF T
<1>2. PICK m \in T : \A k \in T : m <= k
  BY <1>1, LeastNatural
<1>3. PICK x \in N \ S : m = h[x]
  BY <1>2 DEF T
<1>4. PICK y \in N : h[y] < h[x] /\ y \notin S
  BY <1>3
<1>5. h[y] \in T
  BY <1>4 DEF T
<1> QED BY <1>1, <1>2, <1>3, <1>4, <1>5

LEMMA ByNumber ==
  ASSUME NEW n \in Nat, NEW S, 0 \in S, \A k \in 1 .. n : k - 1 \in S => k \in S
  PROVE  0 .. n \subseteq S
<1> DEFINE h == [k \in 0 .. n |-> k]
<1>1. h \in [0 .. n -> Nat]
  OBVIOUS
<1>2. ASSUME NEW x \in 0 .. n, \A y \in 0 .. n : h[y] < h[x] => y \in S
      PROVE  x \in S
  <2>1. CASE x = 0
    BY <2>1
  <2>2. CASE x # 0
    <3>1. x \in 1 .. n /\ x - 1 \in 0 .. n /\ x - 1 < x
      BY <2>2
    <3> QED BY <3>1, <1>2
  <2> QED BY <2>1, <2>2
<1>3. \A x \in 0 .. n : (\A y \in 0 .. n : h[y] < h[x] => y \in S) => x \in S
  BY <1>2
<1> HIDE DEF h
<1>4. \A N : h \in [N -> Nat] /\ (\A x \in N : (\A y \in N : h[y] < h[x] => y \in S) => x \in S) => N \subseteq S
  BY ByHeight
<1> QED BY <1>1, <1>3, <1>4

\* A step that looks at lower members only.
LooksDown(step, N, h, m, V) ==
    /\ m \in Nat /\ h \in [N -> 0 .. m] /\ V # {}
    /\ step \in [N \X [N -> V] -> V]
    /\ \A x \in N : \A f, g \in [N -> V] :
          (\A y \in N : h[y] < h[x] => f[y] = g[y]) => step[<<x, f>>] = step[<<x, g>>]

\* Such a step defines a function.
LEMMA RecursionEnds ==
  ASSUME NEW N, NEW m, NEW h, NEW V, NEW step, LooksDown(step, N, h, m, V)
  PROVE  \E f \in [N -> V] : \A x \in N : f[x] = step[<<x, f>>]
<1> SUFFICES ASSUME m \in Nat, h \in [N -> 0 .. m], V # {}, LooksDown(step, N, h, m, V)
             PROVE  \E f \in [N -> V] : \A x \in N : f[x] = step[<<x, f>>]
  BY DEF LooksDown
<1>1. /\ step \in [N \X [N -> V] -> V]
      /\ \A x \in N : \A f, g \in [N -> V] :
            (\A y \in N : h[y] < h[x] => f[y] = g[y]) => step[<<x, f>>] = step[<<x, g>>]
  BY DEF LooksDown
<1> DEFINE Upto(f, k) == \A x \in N : h[x] < k => f[x] = step[<<x, f>>]
           S == {k \in 0 .. m + 1 : \E f \in [N -> V] : Upto(f, k)}
<1>2. 0 \in S
  <2>1. PICK v \in V : TRUE
    OBVIOUS
  <2>2. [x \in N |-> v] \in [N -> V]
    OBVIOUS
  <2>3. Upto([x \in N |-> v], 0)
    OBVIOUS
  <2> HIDE DEF Upto
  <2> QED BY <2>2, <2>3
<1>3. ASSUME NEW k \in 1 .. m + 1, k - 1 \in S
      PROVE  k \in S
  <2>1. PICK f \in [N -> V] : Upto(f, k - 1)
    BY <1>3
  <2> DEFINE g == [x \in N |-> step[<<x, f>>]]
  <2>2. g \in [N -> V]
    BY <1>1
  <2>3. \A x \in N : g[x] = step[<<x, f>>]
    OBVIOUS
  <2> HIDE DEF g
  <2>4. \A y \in N : h[y] < k - 1 => g[y] = f[y]
    BY <2>1, <2>3
  <2>5. Upto(g, k)
    <3> SUFFICES ASSUME NEW x \in N, h[x] < k PROVE g[x] = step[<<x, g>>]
      OBVIOUS
    <3>1. \A y \in N : h[y] < h[x] => f[y] = g[y]
      BY <2>4
    <3>2. step[<<x, f>>] = step[<<x, g>>]
      BY <1>1, <2>1, <2>2, <3>1
    <3> QED BY <2>3, <3>2
  <2> HIDE DEF Upto
  <2> QED BY <2>2, <2>5
<1> HIDE DEF S
<1>4. m + 1 \in S
  BY <1>2, <1>3, ByNumber
<1>5. PICK f \in [N -> V] : Upto(f, m + 1)
  BY <1>4 DEF S
<1> QED BY <1>5

\* f begins with a and goes on by a step from number to number.
GoesOn(f, n, V, a, step) ==
    /\ f \in [0 .. n -> V]
    /\ f = [k \in 0 .. n |-> IF k = 0 THEN a ELSE step[<<k, f[k - 1]>>]]

LEMMA CountedRecursion ==
  ASSUME NEW n \in Nat, NEW V, NEW a \in V, NEW step \in [(1 .. n) \X V -> V]
  PROVE  \E f : GoesOn(f, n, V, a, step)
<1> DEFINE N == 0 .. n
           h == [k \in N |-> k]
           all == [x \in N \X [N -> V] |-> IF x[1] = 0 THEN a ELSE step[<<x[1], x[2][x[1] - 1]>>]]
<1>1. \A k \in N : k # 0 => k \in 1 .. n /\ k - 1 \in N /\ k - 1 < k
  OBVIOUS
<1>2. h \in [N -> 0 .. n] /\ V # {}
  OBVIOUS
<1>3. \A k \in N : h[k] = k
  OBVIOUS
<1> HIDE DEF N, h
<1>4. \A k \in N, f \in [N -> V] : all[<<k, f>>] = IF k = 0 THEN a ELSE step[<<k, f[k - 1]>>]
  OBVIOUS
<1>5. all \in [N \X [N -> V] -> V]
  <2> SUFFICES ASSUME NEW k \in N, NEW f \in [N -> V]
               PROVE  (IF k = 0 THEN a ELSE step[<<k, f[k - 1]>>]) \in V
    OBVIOUS
  <2>1. CASE k # 0
    <3>1. <<k, f[k - 1]>> \in (1 .. n) \X V
      BY <1>1, <2>1
    <3> QED BY <2>1, <3>1
  <2> QED BY <2>1
<1> HIDE DEF all
<1>6. ASSUME NEW k \in N, NEW f \in [N -> V], NEW g \in [N -> V], \A y \in N : h[y] < h[k] => f[y] = g[y]
      PROVE  all[<<k, f>>] = all[<<k, g>>]
  <2>1. CASE k # 0
    <3>1. f[k - 1] = g[k - 1]
      BY <1>1, <1>3, <1>6, <2>1
    <3> QED BY <1>4, <3>1
  <2> QED BY <1>4, <2>1
<1>7. LooksDown(all, N, h, n, V)
  BY <1>2, <1>5, <1>6 DEF LooksDown
<1>8. \E f \in [N -> V] : \A k \in N : f[k] = all[<<k, f>>]
  BY <1>7, RecursionEnds
<1>9. PICK f \in [N -> V] : \A k \in N : f[k] = all[<<k, f>>]
  BY <1>8
<1>10. f = [k \in N |-> IF k = 0 THEN a ELSE step[<<k, f[k - 1]>>]]
  <2>1. \A k \in N : f[k] = IF k = 0 THEN a ELSE step[<<k, f[k - 1]>>]
    BY <1>4, <1>9
  <2>2. f = [k \in N |-> f[k]]
    OBVIOUS
  <2> QED BY <2>1, <2>2
<1> QED BY <1>10 DEF N, GoesOn

-----------------------------------------------------------------------------
(* The children of a joint.                                                *)

\* Parents come before their children.
ParentsFirst(flat) ==
    /\ Len(flat) \in Nat
    /\ \A i \in Indices(flat) : ParentOf(flat, i) \in NoParent .. i - 1

\* A list of all children of p among the first n joints, in their order.
IsChildren(flat, p, n, kids) ==
    /\ kids \in Seq(0 .. n - 1)
    /\ \A k, m \in 1 .. Len(kids) : k < m => kids[k] < kids[m]
    /\ \A i \in 0 .. n - 1 : ParentOf(flat, i) = p <=> \E k \in 1 .. Len(kids) : kids[k] = i

LEMMA OneMoreChild ==
  ASSUME NEW flat, NEW p, NEW n \in Nat, NEW kids, IsChildren(flat, p, n, kids)
  PROVE  IsChildren(flat, p, n + 1, IF ParentOf(flat, n) = p THEN Append(kids, n) ELSE kids)
<1>1. /\ kids \in Seq(0 .. n - 1)
      /\ \A k, m \in 1 .. Len(kids) : k < m => kids[k] < kids[m]
      /\ \A i \in 0 .. n - 1 : ParentOf(flat, i) = p <=> \E k \in 1 .. Len(kids) : kids[k] = i
  BY DEF IsChildren
<1>2. /\ kids \in Seq(0 .. n) /\ Len(kids) \in Nat
      /\ \A k \in 1 .. Len(kids) : kids[k] \in 0 .. n - 1
      /\ (n + 1) - 1 = n
  BY <1>1
<1>3. CASE ParentOf(flat, n) # p
  BY <1>1, <1>2, <1>3 DEF IsChildren
<1>4. CASE ParentOf(flat, n) = p
  <2> DEFINE more == Append(kids, n)
  <2>1. /\ more \in Seq(0 .. n) /\ Len(more) = Len(kids) + 1
        /\ \A k \in 1 .. Len(kids) : more[k] = kids[k]
        /\ more[Len(kids) + 1] = n
    BY <1>2
  <2> HIDE DEF more
  <2>2. ASSUME NEW k \in 1 .. Len(more), NEW m \in 1 .. Len(more), k < m
        PROVE  more[k] < more[m]
    <3>1. k \in 1 .. Len(kids) /\ more[k] = kids[k] /\ kids[k] < n
      BY <1>2, <2>1, <2>2
    <3>2. CASE m = Len(kids) + 1
      <4>1. more[m] = n
        BY <2>1, <3>2
      <4> QED BY <3>1, <4>1
    <3>3. CASE m # Len(kids) + 1
      <4>1. m \in 1 .. Len(kids)
        BY <1>2, <2>1, <3>3
      <4>2. more[m] = kids[m]
        BY <2>1, <4>1
      <4>3. kids[k] < kids[m]
        BY <1>1, <2>2, <3>1, <4>1
      <4> QED BY <3>1, <4>2, <4>3
    <3> QED BY <3>2, <3>3
  <2>3. ASSUME NEW i \in 0 .. n
        PROVE  ParentOf(flat, i) = p <=> \E k \in 1 .. Len(more) : more[k] = i
    <3>1. CASE i = n
      <4>1. Len(kids) + 1 \in 1 .. Len(more)
        BY <1>2, <2>1
      <4> QED BY <1>4, <2>1, <3>1, <4>1
    <3>2. CASE i # n
      <4>1. i \in 0 .. n - 1 /\ \A k \in 1 .. Len(kids) : k \in 1 .. Len(more)
        BY <1>2, <2>1, <3>2
      <4>2. ASSUME NEW k \in 1 .. Len(more), more[k] = i PROVE k \in 1 .. Len(kids) /\ kids[k] = i
        BY <1>2, <2>1, <3>2, <4>2
      <4> QED BY <1>1, <2>1, <4>1, <4>2
    <3> QED BY <3>1, <3>2
  <2>4. IsChildren(flat, p, n + 1, more)
    BY <1>2, <2>1, <2>2, <2>3 DEF IsChildren
  <2> QED BY <1>4, <2>4 DEF more
<1> QED BY <1>3, <1>4

\* ComputeChildren, joint by joint.
KidsAt(flat, p, n, kids) == IF ParentOf(flat, n - 1) = p THEN Append(kids, n - 1) ELSE kids

ListsKids(f, flat, p) == f = [n \in 0 .. Len(flat) |-> IF n = 0 THEN <<>> ELSE KidsAt(flat, p, n, f[n - 1])]

LEMMA KidsAreListed ==
  ASSUME NEW flat, Len(flat) \in Nat, NEW p
  PROVE  \E f : ListsKids(f, flat, p)
<1> DEFINE L == Len(flat)
           V == Seq(Int)
           step == [x \in (1 .. L) \X V |-> KidsAt(flat, p, x[1], x[2])]
<1>1. step \in [(1 .. L) \X V -> V]
  <2> SUFFICES ASSUME NEW x \in (1 .. L) \X V PROVE KidsAt(flat, p, x[1], x[2]) \in V
    OBVIOUS
  <2>1. x[1] - 1 \in Int /\ x[2] \in V
    OBVIOUS
  <2> QED BY <2>1 DEF KidsAt
<1>2. <<>> \in V
  OBVIOUS
<1>3. \A n \in 1 .. L, kids \in V : <<n, kids>> \in (1 .. L) \X V
  OBVIOUS
<1>4. \A n \in 1 .. L, kids \in V : step[<<n, kids>>] = KidsAt(flat, p, n, kids)
  BY <1>3
<1>5. L \in Nat
  OBVIOUS
<1> HIDE DEF step, V, L
<1>6. PICK f : GoesOn(f, L, V, <<>>, step)
  BY <1>1, <1>2, <1>5, CountedRecursion
<1>7. f \in [0 .. L -> V] /\ f = [n \in 0 .. L |-> IF n = 0 THEN <<>> ELSE step[<<n, f[n - 1]>>]]
  BY <1>6 DEF GoesOn
<1>8. \A n \in 0 .. L : n # 0 => n \in 1 .. L /\ f[n - 1] \in V
  <2>1. \A n \in 0 .. L : n # 0 => n \in 1 .. L /\ n - 1 \in 0 .. L
    BY <1>5
  <2> QED BY <1>7, <2>1
<1>9. \A n \in 0 .. L : n # 0 => step[<<n, f[n - 1]>>] = KidsAt(flat, p, n, f[n - 1])
  BY <1>4, <1>8
<1>10. f = [n \in 0 .. L |-> IF n = 0 THEN <<>> ELSE KidsAt(flat, p, n, f[n - 1])]
  BY <1>7, <1>9
<1> QED BY <1>10 DEF ListsKids, L

LEMMA ChildrenAre ==
  ASSUME NEW flat, Len(flat) \in Nat, NEW p
  PROVE  IsChildren(flat, p, Len(flat), Children(flat, p))
<1> DEFINE L == Len(flat)
           f == CHOOSE f : ListsKids(f, flat, p)
<1>1. ListsKids(f, flat, p)
  BY KidsAreListed
<1>2. Children(flat, p) = f[L]
  BY DEF Children, ListsKids, KidsAt
<1> HIDE DEF f
<1>3. f[0] = <<>> /\ \A n \in 1 .. L : f[n] = KidsAt(flat, p, n, f[n - 1])
  <2>1. 0 \in 0 .. L /\ \A n \in 1 .. L : n \in 0 .. L /\ n # 0
    OBVIOUS
  <2>2. f = [n \in 0 .. L |-> IF n = 0 THEN <<>> ELSE KidsAt(flat, p, n, f[n - 1])]
    BY <1>1 DEF ListsKids
  <2> QED BY <2>1, <2>2
<1> DEFINE S == {n \in 0 .. L : IsChildren(flat, p, n, f[n])}
<1>4. 0 \in S
  <2>1. IsChildren(flat, p, 0, <<>>)
    BY DEF IsChildren
  <2> QED BY <1>3, <2>1
<1>5. ASSUME NEW n \in 1 .. L, n - 1 \in S PROVE n \in S
  <2>1. IsChildren(flat, p, n - 1, f[n - 1]) /\ n - 1 \in Nat /\ (n - 1) + 1 = n /\ n \in 0 .. L
    BY <1>5
  <2>2. IsChildren(flat, p, (n - 1) + 1, KidsAt(flat, p, n, f[n - 1]))
    BY <2>1, OneMoreChild DEF KidsAt
  <2> QED BY <1>3, <2>1, <2>2
<1>6. \A n \in 1 .. L : n - 1 \in S => n \in S
  BY <1>5
<1> HIDE DEF S
<1>7. 0 .. L \subseteq S
  BY <1>4, <1>6, ByNumber
<1> QED BY <1>2, <1>7 DEF S

-----------------------------------------------------------------------------
(* Sequences one after the other.                                          *)

Flattens(f, subs) == f = [i \in 1 .. Len(subs) |-> IF i = 1 THEN subs[i] ELSE f[i - 1] \o subs[i]]

\* g[k] is the first k sequences one after the other.
Gathers(g, subs, T) ==
    /\ g \in [0 .. Len(subs) -> Seq(T)]
    /\ g[0] = <<>>
    /\ \A k \in 1 .. Len(subs) : g[k] = g[k - 1] \o subs[k]

LEMMA GathersExist ==
  ASSUME NEW T, NEW subs \in Seq(Seq(T))
  PROVE  \E g : Gathers(g, subs, T)
<1> DEFINE L == Len(subs)
           V == Seq(T)
           step == [x \in (1 .. L) \X V |-> x[2] \o subs[x[1]]]
<1>1. L \in Nat /\ \A k \in 1 .. L : subs[k] \in V
  OBVIOUS
<1>2. step \in [(1 .. L) \X V -> V]
  <2> SUFFICES ASSUME NEW x \in (1 .. L) \X V PROVE x[2] \o subs[x[1]] \in V
    OBVIOUS
  <2>1. x[2] \in V /\ subs[x[1]] \in V
    BY <1>1
  <2> QED BY <2>1
<1>3. \A k \in 1 .. L, s \in V : step[<<k, s>>] = s \o subs[k]
  <2>1. \A k \in 1 .. L, s \in V : <<k, s>> \in (1 .. L) \X V
    OBVIOUS
  <2> QED BY <2>1
<1>4. <<>> \in V
  OBVIOUS
<1> HIDE DEF L, V, step
<1>5. PICK g : GoesOn(g, L, V, <<>>, step)
  BY <1>1, <1>2, <1>4, CountedRecursion
<1>6. g \in [0 .. L -> V] /\ g = [k \in 0 .. L |-> IF k = 0 THEN <<>> ELSE step[<<k, g[k - 1]>>]]
  BY <1>5 DEF GoesOn
<1>7. \A k \in 1 .. L : k \in 0 .. L /\ k # 0 /\ k - 1 \in 0 .. L
  BY <1>1
<1>8. \A k \in 1 .. L : g[k] = step[<<k, g[k - 1]>>]
  BY <1>6, <1>7
<1>9. \A k \in 1 .. L : g[k] = g[k - 1] \o subs[k]
  BY <1>3, <1>6, <1>7, <1>8
<1>10. g[0] = <<>>
  BY <1>1, <1>6
<1> QED BY <1>6, <1>9, <1>10 DEF Gathers, L, V

LEMMA FlattenIs ==
  ASSUME NEW T, NEW subs \in Seq(Seq(T))
  PROVE  \E g : Gathers(g, subs, T) /\ FlattenSeq(subs) = g[Len(subs)]
<1> DEFINE L == Len(subs)
           f == CHOOSE f : Flattens(f, subs)
<1>1. L \in Nat /\ \A k \in 1 .. L : subs[k] \in Seq(T)
  OBVIOUS
<1>2. PICK g : Gathers(g, subs, T)
  BY GathersExist
<1>3. /\ g \in [0 .. L -> Seq(T)] /\ g[0] = <<>>
      /\ \A k \in 1 .. L : g[k] = g[k - 1] \o subs[k]
  BY <1>2 DEF Gathers
<1>4. CASE L = 0
  <2>1. FlattenSeq(subs) = <<>>
    BY <1>4 DEF FlattenSeq
  <2> QED BY <1>2, <1>3, <1>4, <2>1
<1>5. L # 0 => g[1] = <<>> \o subs[1] /\ subs[1] \in Seq(T)
  <2> SUFFICES ASSUME L # 0 PROVE g[1] = <<>> \o subs[1] /\ subs[1] \in Seq(T)
    OBVIOUS
  <2> HIDE DEF L
  <2>1. 1 \in 1 .. L /\ 1 - 1 = 0
    BY <1>1
  <2>2. g[1] = g[1 - 1] \o subs[1]
    BY <1>3, <2>1
  <2> QED BY <1>1, <1>3, <2>1, <2>2
<1>6. CASE L # 0
  <2>1. Flattens([k \in 1 .. L |-> g[k]], subs)
    <3> DEFINE e == [k \in 1 .. L |-> g[k]]
    <3>1. ASSUME NEW k \in 1 .. L PROVE e[k] = IF k = 1 THEN subs[k] ELSE e[k - 1] \o subs[k]
      <4>1. CASE k = 1
        <5>1. g[1] = <<>> \o subs[1] /\ subs[1] \in Seq(T)
          BY <1>5, <1>6
        <5> QED BY <4>1, <5>1, ConcatEmptySeq
      <4>2. CASE k # 1
        <5>1. k - 1 \in 1 .. L
          BY <4>2
        <5> QED BY <1>3, <4>2, <5>1
      <4> QED BY <4>1, <4>2
    <3>2. e = [k \in 1 .. L |-> e[k]]
      OBVIOUS
    <3> HIDE DEF e
    <3>3. e = [k \in 1 .. L |-> IF k = 1 THEN subs[k] ELSE e[k - 1] \o subs[k]]
      BY <3>1, <3>2
    <3> QED BY <3>3 DEF Flattens, e
  <2>2. Flattens(f, subs)
    BY <2>1
  <2>3. FlattenSeq(subs) = f[L]
    BY <1>6 DEF FlattenSeq, Flattens
  <2> HIDE DEF f
  <2>4. f = [k \in 1 .. L |-> IF k = 1 THEN subs[k] ELSE f[k - 1] \o subs[k]]
    BY <2>2 DEF Flattens
  <2>5. \A k \in 1 .. L : f[k] = IF k = 1 THEN subs[k] ELSE f[k - 1] \o subs[k]
    BY <2>4
  <2> DEFINE S == {k \in 0 .. L : k # 0 => f[k] = g[k]}
  <2>6. \A k \in 1 .. L : k - 1 \in S => k \in S
    <3> SUFFICES ASSUME NEW k \in 1 .. L, k - 1 \in S PROVE f[k] = g[k]
      OBVIOUS
    <3>1. CASE k = 1
      <4>1. g[1] = <<>> \o subs[1] /\ subs[1] \in Seq(T)
        BY <1>5, <1>6
      <4>2. g[1] = subs[1]
        BY <4>1, ConcatEmptySeq
      <4> QED BY <2>5, <3>1, <4>2
    <3>2. CASE k # 1
      <4>1. f[k - 1] = g[k - 1]
        BY <3>2
      <4> QED BY <1>3, <2>5, <3>2, <4>1
    <3> QED BY <3>1, <3>2
  <2>7. 0 \in S
    BY <1>1
  <2> HIDE DEF S
  <2>8. 0 .. L \subseteq S
    BY <1>1, <2>6, <2>7, ByNumber
  <2>9. f[L] = g[L]
    BY <1>1, <1>6, <2>8 DEF S
  <2> QED BY <1>2, <2>3, <2>9
<1> QED BY <1>4, <1>6

-----------------------------------------------------------------------------
(* Depth first.                                                            *)

JointsOrRoot(flat) == NoParent .. Len(flat) - 1

\* Joint k of s comes after its parent, with only joints below that between them.
Hangs(flat, s, k) ==
    \E m \in 1 .. k - 1 :
        /\ s[m] = ParentOf(flat, s[k])
        /\ \A l \in m + 1 .. k - 1 : \E q \in m .. l - 1 : s[q] = ParentOf(flat, s[l])

\* s is p followed, child by child, by the subtrees of its children in D.
DescendsFrom(flat, p, s, D) ==
    /\ s \in Seq(JointsOrRoot(flat)) /\ Len(s) >= 1 /\ s[1] = p
    /\ \A k \in 2 .. Len(s) : s[k] \in Indices(flat) /\ s[k] > p /\ Hangs(flat, s, k)
OneEach(s) == \A k, m \in 1 .. Len(s) : s[k] = s[m] => k = m
EldersFirst(flat, s) ==
    \A k, m \in 2 .. Len(s) : k < m /\ ParentOf(flat, s[k]) = ParentOf(flat, s[m]) => s[k] < s[m]
ChildrenIn(flat, p, s, D) ==
    /\ \A k \in 1 .. Len(s), c \in Indices(flat) :
          ParentOf(flat, c) = s[k] => (s[k] = p /\ c \notin D) \/ \E m \in 1 .. Len(s) : s[m] = c
    /\ \A k \in 2 .. Len(s) : ParentOf(flat, s[k]) = p => s[k] \in D
Walked(flat, p, s, D) ==
    DescendsFrom(flat, p, s, D) /\ OneEach(s) /\ EldersFirst(flat, s) /\ ChildrenIn(flat, p, s, D)

Offspring(flat, p) == {i \in Indices(flat) : ParentOf(flat, i) = p}

\* u is s and then t.
IsConcat(u, s, t) ==
    /\ Len(u) = Len(s) + Len(t)
    /\ \A k \in 1 .. Len(s) : k \in 1 .. Len(u) /\ u[k] = s[k]
    /\ \A k \in 1 .. Len(t) : Len(s) + k \in 1 .. Len(u) /\ u[Len(s) + k] = t[k]
    /\ \A k \in 1 .. Len(u) : k \in 1 .. Len(s) \/ \E j \in 1 .. Len(t) : k = Len(s) + j

LEMMA ConcatParts ==
  ASSUME NEW T, NEW s \in Seq(T), NEW t \in Seq(T)
  PROVE  s \o t \in Seq(T) /\ IsConcat(s \o t, s, t)
<1>1. /\ s \o t \in Seq(T) /\ Len(s \o t) = Len(s) + Len(t)
      /\ \A k \in 1 .. Len(s) + Len(t) : (s \o t)[k] = IF k <= Len(s) THEN s[k] ELSE t[k - Len(s)]
  BY ConcatProperties
<1>2. Len(s) \in Nat /\ Len(t) \in Nat
  OBVIOUS
<1> DEFINE u == s \o t
           a == Len(s)
           b == Len(t)
<1>3. /\ Len(u) = a + b /\ a \in Nat /\ b \in Nat
      /\ \A k \in 1 .. a + b : u[k] = IF k <= a THEN s[k] ELSE t[k - a]
  BY <1>1, <1>2
<1> HIDE DEF u, a, b
<1>4. \A k \in 1 .. a : k \in 1 .. a + b /\ u[k] = s[k]
  BY <1>3
<1>5. \A k \in 1 .. b : a + k \in 1 .. a + b /\ u[a + k] = t[k]
  <2> SUFFICES ASSUME NEW k \in 1 .. b PROVE a + k \in 1 .. a + b /\ u[a + k] = t[k]
    OBVIOUS
  <2>1. a + k \in 1 .. a + b /\ ~(a + k <= a) /\ (a + k) - a = k
    BY <1>3
  <2> QED BY <1>3, <2>1
<1>6. \A k \in 1 .. a + b : k \in 1 .. a \/ \E j \in 1 .. b : k = a + j
  <2> SUFFICES ASSUME NEW k \in 1 .. a + b, k \notin 1 .. a PROVE \E j \in 1 .. b : k = a + j
    OBVIOUS
  <2>1. k - a \in 1 .. b /\ k = a + (k - a)
    BY <1>3
  <2> QED BY <2>1
<1>7. IsConcat(u, s, t)
  BY <1>3, <1>4, <1>5, <1>6 DEF IsConcat, a, b
<1> QED BY <1>1, <1>7 DEF u

\* A walk of a subtree that was not in s yet has no joint in common with it.
LEMMA SubtreeIsNew ==
  ASSUME NEW flat, ParentsFirst(flat), NEW p \in JointsOrRoot(flat), NEW c \in Indices(flat), ParentOf(flat, c) = p,
         NEW D, c \notin D, NEW s, NEW t, NEW E, Walked(flat, p, s, D), Walked(flat, c, t, E)
  PROVE  \A k \in 1 .. Len(s), m \in 1 .. Len(t) : s[k] # t[m]
<1> DEFINE X == {m \in 1 .. Len(t) : \E k \in 1 .. Len(s) : s[k] = t[m]}
<1> SUFFICES ASSUME X # {} PROVE FALSE
  OBVIOUS
<1>1. X \subseteq Nat
  OBVIOUS
<1> HIDE DEF X
<1>2. PICK m \in X : \A q \in X : m <= q
  BY <1>1, LeastNatural
<1>3. PICK k \in 1 .. Len(s) : s[k] = t[m] /\ m \in 1 .. Len(t)
  BY <1>2 DEF X
<1>4. /\ Len(s) \in Nat /\ Len(t) \in Nat /\ s[1] = p /\ t[1] = c /\ p < c /\ p \in Int /\ c \in Int
      /\ \A j \in 2 .. Len(s) : s[j] \in Int /\ s[j] > p /\ \E r \in 1 .. j - 1 : s[r] = ParentOf(flat, s[j])
      /\ \A j \in 2 .. Len(t) : t[j] \in Int /\ t[j] > c /\ \E r \in 1 .. j - 1 : t[r] = ParentOf(flat, t[j])
      /\ \A j \in 2 .. Len(s) : ParentOf(flat, s[j]) = p => s[j] \in D
  <2>1. p < c /\ p \in Int /\ c \in Int
    BY DEF ParentsFirst, Indices, JointsOrRoot
  <2>2. DescendsFrom(flat, p, s, D) /\ DescendsFrom(flat, c, t, E) /\ ChildrenIn(flat, p, s, D)
    BY DEF Walked
  <2>3. \A j \in 2 .. Len(s) : s[j] \in Int /\ s[j] > p /\ Hangs(flat, s, j)
    BY <2>2 DEF DescendsFrom, Indices
  <2>4. \A j \in 2 .. Len(t) : t[j] \in Int /\ t[j] > c /\ Hangs(flat, t, j)
    BY <2>2 DEF DescendsFrom, Indices
  <2>5. \A j \in 2 .. Len(s) : ParentOf(flat, s[j]) = p => s[j] \in D
    BY <2>2 DEF ChildrenIn
  <2>6. Len(s) \in Nat /\ Len(t) \in Nat /\ s[1] = p /\ t[1] = c
    BY <2>2 DEF DescendsFrom
  <2> QED BY <2>1, <2>3, <2>4, <2>5, <2>6 DEF Hangs
<1>5. k \in 2 .. Len(s)
  <2> SUFFICES ASSUME k = 1 PROVE FALSE
    BY <1>4
  <2>1. s[k] = p
    BY <1>4
  <2>2. CASE m = 1
    <3>1. t[m] = c
      BY <1>4, <2>2
    <3>2. c = p /\ p < c /\ p \in Int
      BY <1>3, <1>4, <2>1, <3>1, Zenon
    <3> QED BY ONLY <3>2
  <2>3. CASE m # 1
    <3>1. m \in 2 .. Len(t)
      BY <1>3, <1>4, <2>3
    <3>2. t[m] > c /\ t[m] = p /\ t[m] \in Int
      BY <1>3, <1>4, <2>1, <3>1
    <3> QED BY <1>4, <3>2
  <2> QED BY <2>2, <2>3
<1>6. CASE m = 1
  BY <1>3, <1>4, <1>5, <1>6
<1>7. CASE m # 1
  <2>1. m \in 2 .. Len(t)
    BY <1>3, <1>4, <1>7
  <2>2. PICK q \in 1 .. m - 1 : t[q] = ParentOf(flat, t[m])
    BY <1>4, <2>1
  <2>3. PICK r \in 1 .. k - 1 : s[r] = ParentOf(flat, s[k])
    BY <1>4, <1>5
  <2>4. q \in 1 .. Len(t) /\ r \in 1 .. Len(s) /\ ~(m <= q)
    BY <1>3, <1>4, <2>1, <2>2, <2>3
  <2>5. q \in X
    BY <1>3, <2>2, <2>3, <2>4 DEF X
  <2> QED BY <1>2, <2>4, <2>5
<1> QED BY <1>6, <1>7

LEMMA Appended ==
  ASSUME NEW flat, ParentsFirst(flat), NEW p \in JointsOrRoot(flat), NEW c \in Indices(flat), ParentOf(flat, c) = p,
         NEW D, c \notin D, \A d \in D : d < c, NEW s, NEW t,
         Walked(flat, p, s, D), Walked(flat, c, t, Offspring(flat, c))
  PROVE  Walked(flat, p, s \o t, D \cup {c})
<1> DEFINE u == s \o t
           E == Offspring(flat, c)
           a == Len(s)
           b == Len(t)
<1>1. DescendsFrom(flat, p, s, D) /\ OneEach(s) /\ EldersFirst(flat, s) /\ ChildrenIn(flat, p, s, D)
  BY DEF Walked
<1>2. DescendsFrom(flat, c, t, E) /\ OneEach(t) /\ EldersFirst(flat, t) /\ ChildrenIn(flat, c, t, E)
  BY DEF Walked
<1>3. s \in Seq(JointsOrRoot(flat)) /\ t \in Seq(JointsOrRoot(flat)) /\ a >= 1 /\ b >= 1 /\ s[1] = p /\ t[1] = c
  BY <1>1, <1>2 DEF DescendsFrom
<1>4. u \in Seq(JointsOrRoot(flat)) /\ IsConcat(u, s, t)
  BY <1>3, ConcatParts
<1>5. a \in Nat /\ b \in Nat /\ p \in Int /\ c \in Int /\ p < c
  BY <1>3 DEF ParentsFirst, Indices, JointsOrRoot
<1>6. \A k \in 1 .. a, m \in 1 .. b : s[k] # t[m]
  BY SubtreeIsNew
<1> HIDE DEF u
<1>7. /\ Len(u) = a + b
      /\ \A k \in 1 .. a : k \in 1 .. Len(u) /\ u[k] = s[k]
      /\ \A k \in 1 .. b : a + k \in 1 .. Len(u) /\ u[a + k] = t[k]
      /\ \A k \in 1 .. Len(u) : k \in 1 .. a \/ \E j \in 1 .. b : k = a + j
  BY <1>4 DEF IsConcat
<1> HIDE DEF a, b
<1>8. \A k \in 2 .. Len(u) : k \in 2 .. a \/ k = a + 1 \/ \E j \in 2 .. b : k = a + j
  BY <1>5, <1>7
<1>9. 1 \in 1 .. a /\ 1 \in 1 .. b /\ u[1] = p /\ u[a + 1] = c /\ Len(u) >= 1
  <2>1. 1 \in 1 .. a /\ 1 \in 1 .. b
    BY <1>3, <1>5 DEF a, b
  <2> QED BY <1>3, <1>5, <1>7, <2>1
<1>10. \A k \in 2 .. a : k \in 1 .. a /\ s[k] \in Indices(flat) /\ s[k] > p /\ Hangs(flat, s, k)
  <2>1. \A k \in 2 .. a : k \in 1 .. a
    BY <1>5
  <2> QED BY <1>1, <2>1 DEF DescendsFrom, a
<1>11. \A k \in 2 .. b : k \in 1 .. b /\ t[k] \in Indices(flat) /\ t[k] > c /\ Hangs(flat, t, k)
  <2>1. \A k \in 2 .. b : k \in 1 .. b
    BY <1>5
  <2> QED BY <1>2, <2>1 DEF DescendsFrom, b
<1>12. \A k \in 2 .. a : \E r \in 1 .. a : s[r] = ParentOf(flat, s[k])
  <2>1. \A k \in 2 .. a : \A r \in 1 .. k - 1 : r \in 1 .. a
    BY <1>5
  <2> QED BY <1>10, <2>1 DEF Hangs
<1>13. \A k \in 2 .. b : \E r \in 1 .. b : t[r] = ParentOf(flat, t[k]) /\ t[r] >= c
  <2> SUFFICES ASSUME NEW k \in 2 .. b PROVE \E r \in 1 .. b : t[r] = ParentOf(flat, t[k]) /\ t[r] >= c
    OBVIOUS
  <2>1. PICK r \in 1 .. k - 1 : t[r] = ParentOf(flat, t[k])
    BY <1>11 DEF Hangs
  <2>2. r \in 1 .. b /\ (r = 1 \/ r \in 2 .. b)
    BY <1>5
  <2>3. t[r] >= c
    <3>1. CASE r = 1
      BY <1>3, <1>5, <3>1
    <3>2. CASE r # 1
      <4>1. t[r] > c /\ t[r] \in Indices(flat)
        BY <1>11, <2>2, <3>2
      <4> QED BY <1>5, <4>1 DEF Indices
    <3> QED BY <3>1, <3>2
  <2> QED BY <2>1, <2>2, <2>3
<1>14. DescendsFrom(flat, p, u, D \cup {c})
  <2>1. ASSUME NEW k \in 2 .. Len(u)
        PROVE  u[k] \in Indices(flat) /\ u[k] > p /\ Hangs(flat, u, k)
    <3>1. CASE k \in 2 .. a
      <4>1. u[k] = s[k] /\ u[k] \in Indices(flat) /\ u[k] > p
        BY <1>7, <1>10, <3>1
      <4>2. PICK m \in 1 .. k - 1 : /\ s[m] = ParentOf(flat, s[k])
                                    /\ \A l \in m + 1 .. k - 1 : \E q \in m .. l - 1 : s[q] = ParentOf(flat, s[l])
        BY <1>10, <3>1 DEF Hangs
      <4>3. \A l \in 1 .. k - 1 : l \in 1 .. a /\ u[l] = s[l]
        <5>1. \A l \in 1 .. k - 1 : l \in 1 .. a
          BY <1>5, <3>1
        <5> QED BY <1>7, <5>1
      <4>4. \A l \in m + 1 .. k - 1 : l \in 1 .. k - 1 /\ \A q \in m .. l - 1 : q \in 1 .. k - 1
        BY <4>2
      <4> QED BY <4>1, <4>2, <4>3, <4>4 DEF Hangs
    <3>2. CASE k = a + 1
      <4>1. u[k] = c
        BY <1>9, <3>2
      <4>2. \A l \in 2 .. k - 1 : \E q \in 1 .. l - 1 : u[q] = ParentOf(flat, u[l])
        <5> SUFFICES ASSUME NEW l \in 2 .. k - 1 PROVE \E q \in 1 .. l - 1 : u[q] = ParentOf(flat, u[l])
          OBVIOUS
        <5>1. l \in 2 .. a /\ \A q \in 1 .. l - 1 : q \in 1 .. a
          BY <1>5, <3>2
        <5>2. u[l] = s[l]
          BY <1>7, <1>10, <5>1
        <5>3. PICK q \in 1 .. l - 1 : s[q] = ParentOf(flat, s[l])
          BY <1>10, <5>1 DEF Hangs
        <5> QED BY <1>7, <5>1, <5>2, <5>3
      <4>3. 1 \in 1 .. k - 1 /\ u[1] = ParentOf(flat, u[k])
        BY <1>5, <1>9, <3>2, <4>1
      <4>4. Hangs(flat, u, k)
        <5>1. 1 + 1 = 2
          OBVIOUS
        <5> QED BY <4>2, <4>3, <5>1 DEF Hangs
      <4> QED BY <1>5, <4>1, <4>4
    <3>3. ASSUME NEW j \in 2 .. b, k = a + j
          PROVE  u[k] \in Indices(flat) /\ u[k] > p /\ Hangs(flat, u, k)
      <4>1. u[k] = t[j]
        BY <1>7, <1>11, <3>3
      <4>2. u[k] \in Indices(flat) /\ u[k] > p
        <5>1. t[j] \in Indices(flat) /\ t[j] > c
          BY <1>11
        <5> QED BY <1>5, <4>1, <5>1 DEF Indices
      <4>3. PICK m \in 1 .. j - 1 : /\ t[m] = ParentOf(flat, t[j])
                                    /\ \A l \in m + 1 .. j - 1 : \E q \in m .. l - 1 : t[q] = ParentOf(flat, t[l])
        BY <1>11 DEF Hangs
      <4>4. \A l \in 1 .. j - 1 : l \in 1 .. b /\ u[a + l] = t[l]
        <5>1. \A l \in 1 .. j - 1 : l \in 1 .. b
          BY <1>5
        <5> QED BY <1>7, <5>1
      <4>5. a + m \in 1 .. k - 1 /\ u[a + m] = ParentOf(flat, u[k])
        BY <1>5, <3>3, <4>1, <4>3, <4>4
      <4>6. ASSUME NEW l \in a + m + 1 .. k - 1 PROVE \E q \in a + m .. l - 1 : u[q] = ParentOf(flat, u[l])
        <5>1. l - a \in m + 1 .. j - 1 /\ l - a \in 1 .. j - 1 /\ a + (l - a) = l
          BY <1>5, <3>3, <4>3
        <5>2. PICK q \in m .. (l - a) - 1 : t[q] = ParentOf(flat, t[l - a])
          BY <4>3, <5>1
        <5>3. q \in 1 .. j - 1 /\ a + q \in a + m .. l - 1
          BY <1>5, <4>3, <5>1, <5>2
        <5>4. u[l] = t[l - a] /\ u[a + q] = t[q]
          BY <4>4, <5>1, <5>3
        <5> QED BY <5>2, <5>3, <5>4
      <4>7. Hangs(flat, u, k)
        BY <4>5, <4>6 DEF Hangs
      <4> QED BY <4>2, <4>7
    <3> QED BY <1>8, <3>1, <3>2, <3>3
  <2> QED BY <1>4, <1>9, <2>1 DEF DescendsFrom
<1>15. OneEach(u)
  <2> SUFFICES ASSUME NEW k \in 1 .. Len(u), NEW m \in 1 .. Len(u), u[k] = u[m] PROVE k = m
    BY DEF OneEach
  <2>1. CASE k \in 1 .. a /\ m \in 1 .. a
    <3>1. s[k] = s[m]
      BY <1>7, <2>1
    <3> QED BY <1>1, <2>1, <3>1 DEF OneEach, a
  <2>2. ASSUME NEW i \in 1 .. b, NEW j \in 1 .. b, k = a + i, m = a + j PROVE k = m
    <3>1. t[i] = t[j]
      BY <1>7, <2>2
    <3>2. i = j
      BY <1>2, <3>1 DEF OneEach, b
    <3> QED BY <2>2, <3>2
  <2>3. ASSUME NEW j \in 1 .. b, k \in 1 .. a, m = a + j PROVE FALSE
    BY <1>6, <1>7, <2>3
  <2>4. ASSUME NEW j \in 1 .. b, m \in 1 .. a, k = a + j PROVE FALSE
    BY <1>6, <1>7, <2>4
  <2> QED BY <1>7, <2>1, <2>2, <2>3, <2>4
<1>16. EldersFirst(flat, u)
  <2> SUFFICES ASSUME NEW k \in 2 .. Len(u), NEW m \in 2 .. Len(u), k < m,
                      ParentOf(flat, u[k]) = ParentOf(flat, u[m])
               PROVE  u[k] < u[m]
    BY DEF EldersFirst
  <2>1. CASE k \in 2 .. a /\ m \in 2 .. a
    <3>1. u[k] = s[k] /\ u[m] = s[m]
      BY <1>7, <1>10, <2>1
    <3>2. s[k] < s[m]
      BY <1>1, <2>1, <3>1 DEF EldersFirst, a
    <3> QED BY <3>1, <3>2
  <2>2. CASE k \in 2 .. a /\ m = a + 1
    <3>1. u[k] = s[k] /\ u[m] = c
      BY <1>7, <1>9, <1>10, <2>2
    <3>2. s[k] \in D
      BY <1>1, <2>2, <3>1 DEF ChildrenIn, a
    <3> QED BY <3>1, <3>2
  <2>3. ASSUME NEW j \in 2 .. b, k \in 2 .. a, m = a + j PROVE FALSE
    <3>1. u[k] = s[k] /\ u[m] = t[j]
      BY <1>7, <1>10, <1>11, <2>3
    <3> QED BY <1>6, <1>12, <1>13, <2>3, <3>1
  <2>4. ASSUME NEW i \in 2 .. b, NEW j \in 2 .. b, k = a + i, m = a + j PROVE u[k] < u[m]
    <3>1. u[k] = t[i] /\ u[m] = t[j]
      BY <1>7, <1>11, <2>4
    <3>2. i < j
      BY <1>5, <2>4
    <3>3. t[i] < t[j]
      BY <1>2, <3>1, <3>2 DEF EldersFirst, b
    <3> QED BY <3>1, <3>3
  <2>5. ASSUME NEW j \in 2 .. b, k = a + 1, m = a + j PROVE FALSE
    <3>1. u[k] = c /\ u[m] = t[j]
      BY <1>7, <1>9, <1>11, <2>5
    <3>2. ParentOf(flat, t[j]) = p
      BY <3>1
    <3> QED BY <1>5, <1>13, <3>2
  <2>6. ~(k = a + 1 /\ m \in 2 .. a) /\ ~(k = a + 1 /\ m = a + 1)
    BY <1>5
  <2>7. \A j \in 2 .. b : ~(k = a + j /\ (m \in 2 .. a \/ m = a + 1))
    BY <1>5
  <2> QED BY <1>8, <2>1, <2>2, <2>3, <2>4, <2>5, <2>6, <2>7
<1>17. ChildrenIn(flat, p, u, D \cup {c})
  <2>1. ASSUME NEW k \in 1 .. Len(u), NEW e \in Indices(flat), ParentOf(flat, e) = u[k]
        PROVE  (u[k] = p /\ e \notin D \cup {c}) \/ \E m \in 1 .. Len(u) : u[m] = e
    <3>1. CASE k \in 1 .. a
      <4>1. ParentOf(flat, e) = s[k] /\ u[k] = s[k]
        BY <1>7, <2>1, <3>1
      <4>2. (s[k] = p /\ e \notin D) \/ \E m \in 1 .. a : s[m] = e
        BY <1>1, <3>1, <4>1 DEF ChildrenIn, a
      <4>3. e = c => \E m \in 1 .. Len(u) : u[m] = e
        BY <1>7, <1>9
      <4> QED BY <1>7, <4>1, <4>2, <4>3
    <3>2. ASSUME NEW j \in 1 .. b, k = a + j PROVE \E m \in 1 .. Len(u) : u[m] = e
      <4>1. ParentOf(flat, e) = t[j]
        BY <1>7, <2>1, <3>2
      <4>2. (t[j] = c /\ e \notin E) \/ \E m \in 1 .. b : t[m] = e
        BY <1>2, <4>1 DEF ChildrenIn, b
      <4>3. \E m \in 1 .. b : t[m] = e
        BY <4>1, <4>2 DEF Offspring
      <4> QED BY <1>7, <4>3
    <3> QED BY <1>7, <3>1, <3>2
  <2>2. ASSUME NEW k \in 2 .. Len(u), ParentOf(flat, u[k]) = p PROVE u[k] \in D \cup {c}
    <3>1. CASE k \in 2 .. a
      <4>1. u[k] = s[k]
        BY <1>7, <1>10, <3>1
      <4> QED BY <1>1, <2>2, <3>1, <4>1 DEF ChildrenIn, a
    <3>2. CASE k = a + 1
      BY <1>9, <3>2
    <3>3. ASSUME NEW j \in 2 .. b, k = a + j PROVE FALSE
      <4>1. u[k] = t[j]
        BY <1>7, <1>11, <3>3
      <4> QED BY <1>5, <1>13, <2>2, <4>1
    <3> QED BY <1>8, <3>1, <3>2, <3>3
  <2> QED BY <2>1, <2>2 DEF ChildrenIn
<1> QED BY <1>14, <1>15, <1>16, <1>17 DEF Walked, u

-----------------------------------------------------------------------------
(* Recursions over the joints of a list.                                   *)

\* What f has for the children of p.
OfChildren(f, flat, p) == [k \in DOMAIN Children(flat, p) |-> f[Children(flat, p)[k]]]

\* f[i] is a head and then what f has for the children of i.
Recurs(f, flat, heads) ==
    f = [i \in Indices(flat) |-> heads[i] \o FlattenSeq(OfChildren(f, flat, i))]

LEMMA ChildrenList ==
  ASSUME NEW flat, ParentsFirst(flat), NEW p \in JointsOrRoot(flat)
  PROVE  /\ Children(flat, p) \in Seq(Indices(flat))
         /\ \A k, m \in DOMAIN Children(flat, p) : k < m => Children(flat, p)[k] < Children(flat, p)[m]
         /\ \A k \in DOMAIN Children(flat, p) : /\ Children(flat, p)[k] \in Offspring(flat, p)
                                                /\ Children(flat, p)[k] > p
         /\ \A i \in Offspring(flat, p) : \E k \in DOMAIN Children(flat, p) : Children(flat, p)[k] = i
<1> DEFINE kids == Children(flat, p)
<1>1. Len(flat) \in Nat
  BY DEF ParentsFirst
<1>2. IsChildren(flat, p, Len(flat), kids)
  BY <1>1, ChildrenAre
<1> HIDE DEF kids
<1>3. /\ kids \in Seq(Indices(flat))
      /\ \A k, m \in 1 .. Len(kids) : k < m => kids[k] < kids[m]
      /\ \A i \in Indices(flat) : ParentOf(flat, i) = p <=> \E k \in 1 .. Len(kids) : kids[k] = i
  BY <1>2 DEF IsChildren, Indices
<1>4. DOMAIN kids = 1 .. Len(kids)
  BY <1>3
<1>5. \A k \in DOMAIN kids : kids[k] \in Indices(flat)
  BY <1>3
<1>6. \A k \in DOMAIN kids : ParentOf(flat, kids[k]) = p
  BY <1>3, <1>4, <1>5
<1>7. \A k \in DOMAIN kids : kids[k] > p
  <2> SUFFICES ASSUME NEW k \in DOMAIN kids PROVE kids[k] > p
    OBVIOUS
  <2>1. p \in NoParent .. kids[k] - 1 /\ kids[k] \in Int
    BY <1>5, <1>6 DEF ParentsFirst, Indices
  <2> QED BY <2>1
<1> QED BY <1>3, <1>4, <1>5, <1>6, <1>7 DEF kids, Offspring

LEMMA OfChildrenIs ==
  ASSUME NEW flat, ParentsFirst(flat), NEW p \in JointsOrRoot(flat), NEW T, NEW f \in [Indices(flat) -> Seq(T)]
  PROVE  /\ OfChildren(f, flat, p) \in Seq(Seq(T)) /\ Len(OfChildren(f, flat, p)) = Len(Children(flat, p))
         /\ \A k \in 1 .. Len(Children(flat, p)) : OfChildren(f, flat, p)[k] = f[Children(flat, p)[k]]
         /\ FlattenSeq(OfChildren(f, flat, p)) \in Seq(T)
<1> DEFINE kids == Children(flat, p)
           subs == OfChildren(f, flat, p)
<1>1. kids \in Seq(Indices(flat))
  BY ChildrenList
<1>2. subs = [k \in DOMAIN kids |-> f[kids[k]]]
  BY DEF OfChildren
<1> HIDE DEF kids, subs
<1>3. Len(kids) \in Nat /\ DOMAIN kids = 1 .. Len(kids) /\ \A k \in 1 .. Len(kids) : kids[k] \in Indices(flat)
  BY <1>1
<1>4. \A k \in 1 .. Len(kids) : f[kids[k]] \in Seq(T)
  BY <1>3
<1>5. subs \in Seq(Seq(T)) /\ Len(subs) = Len(kids) /\ \A k \in 1 .. Len(kids) : subs[k] = f[kids[k]]
  <2> DEFINE V == Seq(T)
  <2>1. subs = [k \in 1 .. Len(kids) |-> f[kids[k]]] /\ \A k \in 1 .. Len(kids) : f[kids[k]] \in V
    BY <1>2, <1>3, <1>4
  <2> HIDE DEF V
  <2>2. subs \in Seq(V) /\ Len(subs) = Len(kids) /\ \A k \in 1 .. Len(kids) : subs[k] = f[kids[k]]
    BY <1>3, <2>1
  <2> QED BY <2>2 DEF V
<1>6. FlattenSeq(subs) \in Seq(T)
  <2>1. PICK g : Gathers(g, subs, T) /\ FlattenSeq(subs) = g[Len(subs)]
    BY <1>5, FlattenIs
  <2>2. Len(subs) \in 0 .. Len(subs)
    BY <1>3, <1>5
  <2> QED BY <2>1, <2>2 DEF Gathers
<1> QED BY <1>5, <1>6 DEF kids, subs

LEMMA RecursionsExist ==
  ASSUME NEW flat, ParentsFirst(flat), NEW heads \in [Indices(flat) -> Seq(Indices(flat))]
  PROVE  \E f \in [Indices(flat) -> Seq(Indices(flat))] : Recurs(f, flat, heads)
<1> DEFINE N == Indices(flat)
           V == Seq(N)
           n == Len(flat)
           h == [i \in N |-> n - 1 - i]
           step == [x \in N \X [N -> V] |-> heads[x[1]] \o FlattenSeq(OfChildren(x[2], flat, x[1]))]
<1>1. n \in Nat /\ \A i \in N : i \in JointsOrRoot(flat)
  BY DEF ParentsFirst, Indices, JointsOrRoot, NoParent
<1>2. h \in [N -> 0 .. n]
  BY <1>1 DEF Indices
<1>3. V # {}
  <2>1. <<>> \in V
    OBVIOUS
  <2> QED BY <2>1
<1>4. \A i \in N : h[i] = n - 1 - i
  OBVIOUS
<1> HIDE DEF h
<1>5. \A i \in N, f \in [N -> V] : FlattenSeq(OfChildren(f, flat, i)) \in V
  BY <1>1, OfChildrenIs
<1>6. \A i \in N, f \in [N -> V] : step[<<i, f>>] = heads[i] \o FlattenSeq(OfChildren(f, flat, i))
  OBVIOUS
<1>7. step \in [N \X [N -> V] -> V]
  <2> SUFFICES ASSUME NEW i \in N, NEW f \in [N -> V]
               PROVE  heads[i] \o FlattenSeq(OfChildren(f, flat, i)) \in V
    OBVIOUS
  <2>1. heads[i] \in V /\ FlattenSeq(OfChildren(f, flat, i)) \in V
    BY <1>5
  <2> QED BY <2>1
<1> HIDE DEF step
<1>8. ASSUME NEW i \in N, NEW f \in [N -> V], NEW g \in [N -> V], \A y \in N : h[y] < h[i] => f[y] = g[y]
      PROVE  step[<<i, f>>] = step[<<i, g>>]
  <2>1. \A k \in DOMAIN Children(flat, i) : f[Children(flat, i)[k]] = g[Children(flat, i)[k]]
    <3> SUFFICES ASSUME NEW k \in DOMAIN Children(flat, i)
                 PROVE  f[Children(flat, i)[k]] = g[Children(flat, i)[k]]
      OBVIOUS
    <3>1. Children(flat, i)[k] \in N /\ Children(flat, i)[k] > i
      BY <1>1, ChildrenList DEF Offspring
    <3>2. h[Children(flat, i)[k]] < h[i]
      <4> DEFINE c == Children(flat, i)[k]
      <4>1. c \in N /\ c > i
        BY <3>1
      <4> HIDE DEF c
      <4>2. h[c] = n - 1 - c /\ h[i] = n - 1 - i /\ c \in Int /\ i \in Int
        BY <1>4, <4>1 DEF Indices
      <4>3. h[c] < h[i]
        BY <1>1, <4>1, <4>2
      <4> QED BY <4>3 DEF c
    <3> QED BY <1>8, <3>1, <3>2
  <2>2. OfChildren(f, flat, i) = OfChildren(g, flat, i)
    BY <2>1 DEF OfChildren
  <2> QED BY <1>6, <2>2
<1>9. LooksDown(step, N, h, n, V)
  BY <1>1, <1>2, <1>3, <1>7, <1>8 DEF LooksDown
<1>10. PICK f \in [N -> V] : \A i \in N : f[i] = step[<<i, f>>]
  <2> HIDE DEF N, V, n
  <2> QED BY <1>9, RecursionEnds
<1>11. f = [i \in N |-> heads[i] \o FlattenSeq(OfChildren(f, flat, i))]
  <2>1. \A i \in N : f[i] = heads[i] \o FlattenSeq(OfChildren(f, flat, i))
    BY <1>6, <1>10
  <2>2. f = [i \in N |-> f[i]]
    OBVIOUS
  <2> QED BY <2>1, <2>2
<1>12. Recurs(f, flat, heads)
  BY <1>11 DEF Recurs
<1> QED BY <1>12

LEMMA OnlyTheJoint ==
  ASSUME NEW flat, ParentsFirst(flat), NEW p \in JointsOrRoot(flat)
  PROVE  Walked(flat, p, <<p>>, {})
<1> DEFINE s == <<p>>
<1>1. s \in Seq(JointsOrRoot(flat)) /\ Len(s) = 1 /\ s[1] = p
  OBVIOUS
<1> HIDE DEF s
<1>2. \A k \in 2 .. 1 : FALSE
  OBVIOUS
<1>3. \A k \in 1 .. 1 : k = 1
  OBVIOUS
<1>4. DescendsFrom(flat, p, s, {}) /\ OneEach(s) /\ EldersFirst(flat, s)
  BY <1>1, <1>2, <1>3 DEF DescendsFrom, OneEach, EldersFirst
<1>5. ChildrenIn(flat, p, s, {})
  BY <1>1, <1>2, <1>3 DEF ChildrenIn
<1> QED BY <1>4, <1>5 DEF Walked, s

LEMMA ChildrenWalked ==
  ASSUME NEW flat, ParentsFirst(flat), NEW p \in JointsOrRoot(flat),
         NEW f \in [Indices(flat) -> Seq(JointsOrRoot(flat))],
         \A c \in Offspring(flat, p) : Walked(flat, c, f[c], Offspring(flat, c))
  PROVE  Walked(flat, p, <<p>> \o FlattenSeq(OfChildren(f, flat, p)), Offspring(flat, p))
<1> DEFINE kids == Children(flat, p)
           L == Len(kids)
           subs == OfChildren(f, flat, p)
           T == JointsOrRoot(flat)
           D(k) == {kids[m] : m \in 1 .. k}
<1>1. /\ kids \in Seq(Indices(flat)) /\ L \in Nat /\ DOMAIN kids = 1 .. L
      /\ \A k, m \in 1 .. L : k < m => kids[k] < kids[m]
      /\ \A k \in 1 .. L : kids[k] \in Offspring(flat, p)
      /\ \A i \in Offspring(flat, p) : \E k \in 1 .. L : kids[k] = i
  BY ChildrenList
<1>2. subs \in Seq(Seq(T)) /\ Len(subs) = L /\ \A k \in 1 .. L : subs[k] = f[kids[k]]
  BY OfChildrenIs
<1>3. PICK g : Gathers(g, subs, T) /\ FlattenSeq(subs) = g[Len(subs)]
  BY <1>2, FlattenIs
<1>4. g \in [0 .. L -> Seq(T)] /\ g[0] = <<>> /\ \A k \in 1 .. L : g[k] = g[k - 1] \o subs[k]
  BY <1>2, <1>3 DEF Gathers
<1>5. <<p>> \in Seq(T)
  OBVIOUS
<1> HIDE DEF kids, L, subs, T
<1> DEFINE S == {k \in 0 .. L : Walked(flat, p, <<p>> \o g[k], D(k))}
<1>6. 0 \in S
  <2>1. <<p>> \o g[0] = <<p>>
    BY <1>4, <1>5, ConcatEmptySeq
  <2>2. D(0) = {}
    OBVIOUS
  <2>3. Walked(flat, p, <<p>> \o g[0], D(0))
    BY <2>1, <2>2, OnlyTheJoint
  <2> QED BY <1>1, <2>3
<1>7. ASSUME NEW k \in 1 .. L, k - 1 \in S PROVE k \in S
  <2> DEFINE c == kids[k]
             t == <<p>> \o g[k - 1]
  <2>1. k - 1 \in 0 .. L /\ k \in 0 .. L /\ k \in Nat
    BY <1>1
  <2>2. c \in Indices(flat) /\ ParentOf(flat, c) = p /\ Walked(flat, c, f[c], Offspring(flat, c))
    BY <1>1 DEF Offspring
  <2>3. \A d \in D(k - 1) : d < c
    <3> SUFFICES ASSUME NEW m \in 1 .. k - 1 PROVE kids[m] < kids[k]
      OBVIOUS
    <3>1. m \in 1 .. L /\ m < k
      BY <1>1
    <3> QED BY <1>1, <3>1
  <2>4. c \notin D(k - 1)
    <3>1. c \in Int
      BY <2>2 DEF Indices
    <3> HIDE DEF c, D
    <3> QED BY <2>3, <3>1
  <2>5. D(k) = D(k - 1) \cup {c}
    <3>1. \A m : m \in 1 .. k <=> m \in 1 .. k - 1 \/ m = k
      BY <2>1
    <3> QED BY <3>1
  <2>6. Walked(flat, p, t, D(k - 1))
    BY <1>7
  <2>7. <<p>> \o g[k] = t \o f[c]
    <3>1. g[k] = g[k - 1] \o f[c] /\ g[k - 1] \in Seq(T) /\ f[c] \in Seq(T)
      BY <1>2, <1>4, <2>1, <2>2 DEF T
    <3>2. <<p>> \o (g[k - 1] \o f[c]) = (<<p>> \o g[k - 1]) \o f[c]
      <4>1. \A x, y, z \in Seq(T) : x \o (y \o z) = (x \o y) \o z
        <5> HIDE DEF T
        <5> QED BY Regrouped
      <4> QED BY ONLY <1>5, <3>1, <4>1
    <3> QED BY <3>1, <3>2
  <2> HIDE DEF c, t, D
  <2>8. Walked(flat, p, t \o f[c], D(k - 1) \cup {c})
    BY <2>2, <2>3, <2>4, <2>6, Appended
  <2> QED BY <2>1, <2>5, <2>7, <2>8
<1>8. \A k \in 1 .. L : k - 1 \in S => k \in S
  BY <1>7
<1>9. L \in Nat
  BY <1>1
<1>10. D(L) = Offspring(flat, p)
  BY <1>1
<1> HIDE DEF S, D
<1>11. 0 .. L \subseteq S
  BY <1>6, <1>8, <1>9, ByNumber
<1>12. Walked(flat, p, <<p>> \o g[L], D(L))
  BY <1>9, <1>11 DEF S
<1>13. FlattenSeq(subs) = g[L]
  BY <1>2, <1>3
<1> QED BY <1>10, <1>12, <1>13 DEF subs

LEMMA RecursionIsOne ==
  ASSUME NEW flat, ParentsFirst(flat), NEW heads, NEW f, NEW g, Recurs(f, flat, heads), Recurs(g, flat, heads)
  PROVE  f = g
<1> DEFINE N == Indices(flat)
           n == Len(flat)
           h == [i \in N |-> n - 1 - i]
           S == {i \in N : f[i] = g[i]}
<1>1. n \in Nat /\ \A i \in N : i \in JointsOrRoot(flat)
  BY DEF ParentsFirst, Indices, JointsOrRoot, NoParent
<1>2. h \in [N -> Nat]
  BY <1>1 DEF Indices
<1>3. f = [i \in N |-> heads[i] \o FlattenSeq(OfChildren(f, flat, i))]
      /\ g = [i \in N |-> heads[i] \o FlattenSeq(OfChildren(g, flat, i))]
  BY DEF Recurs
<1>4. /\ \A i \in N : f[i] = heads[i] \o FlattenSeq(OfChildren(f, flat, i))
      /\ \A i \in N : g[i] = heads[i] \o FlattenSeq(OfChildren(g, flat, i))
      /\ f = [i \in N |-> f[i]] /\ g = [i \in N |-> g[i]]
  BY <1>3, Zenon
<1>5. ASSUME NEW i \in N, \A y \in N : h[y] < h[i] => y \in S PROVE i \in S
  <2>1. \A k \in DOMAIN Children(flat, i) : f[Children(flat, i)[k]] = g[Children(flat, i)[k]]
    <3> SUFFICES ASSUME NEW k \in DOMAIN Children(flat, i)
                 PROVE  f[Children(flat, i)[k]] = g[Children(flat, i)[k]]
      OBVIOUS
    <3> DEFINE c == Children(flat, i)[k]
    <3>1. c \in N /\ c > i
      BY <1>1, ChildrenList DEF Offspring
    <3> HIDE DEF c
    <3>2. h[c] = n - 1 - c /\ h[i] = n - 1 - i /\ c \in Int /\ i \in Int
      BY <3>1 DEF Indices
    <3>3. h[c] < h[i]
      BY <1>1, <3>1, <3>2
    <3>4. f[c] = g[c]
      BY <1>5, <3>1, <3>3
    <3> QED BY <3>4 DEF c
  <2>2. OfChildren(f, flat, i) = OfChildren(g, flat, i)
    BY <2>1 DEF OfChildren
  <2>3. f[i] = heads[i] \o FlattenSeq(OfChildren(f, flat, i))
        /\ g[i] = heads[i] \o FlattenSeq(OfChildren(g, flat, i))
    BY <1>4
  <2> QED BY <2>2, <2>3
<1>6. \A i \in N : (\A y \in N : h[y] < h[i] => y \in S) => i \in S
  BY <1>5
<1> HIDE DEF S, h, N
<1>7. N \subseteq S
  BY <1>2, <1>6, ByHeight
<1>8. \A i \in N : f[i] = g[i]
  BY <1>7 DEF S
<1> QED BY <1>4, <1>8

\* DepthFirstOrder, joint by joint.
DepthFirst(f, flat) ==
    f = [i \in Indices(flat) |-> <<i>> \o FlattenSeq(OfChildren(f, flat, i))]

LEMMA DepthFirstExists ==
  ASSUME NEW flat, ParentsFirst(flat)
  PROVE  /\ \E f : DepthFirst(f, flat)
         /\ \A f : DepthFirst(f, flat) => f \in [Indices(flat) -> Seq(Indices(flat))]
<1> DEFINE heads == [i \in Indices(flat) |-> <<i>>]
<1>1. heads \in [Indices(flat) -> Seq(Indices(flat))]
  OBVIOUS
<1>2. \A i \in Indices(flat) : heads[i] = <<i>>
  OBVIOUS
<1> HIDE DEF heads
<1>3. PICK f \in [Indices(flat) -> Seq(Indices(flat))] : Recurs(f, flat, heads)
  BY <1>1, RecursionsExist
<1>4. \A g : DepthFirst(g, flat) <=> Recurs(g, flat, heads)
  BY <1>2 DEF DepthFirst, Recurs
<1>5. \A g : Recurs(g, flat, heads) => g = f
  BY <1>3, RecursionIsOne
<1> QED BY <1>3, <1>4, <1>5

\* The joints in depth-first order, after one that is the parent of the roots.
LEMMA DepthFirstIs ==
  ASSUME NEW flat, ParentsFirst(flat)
  PROVE  /\ DepthFirstOrder(flat) \in Seq(Indices(flat))
         /\ Walked(flat, NoParent, <<NoParent>> \o DepthFirstOrder(flat), Offspring(flat, NoParent))
<1> DEFINE f == CHOOSE f : DepthFirst(f, flat)
           N == Indices(flat)
           n == Len(flat)
           h == [i \in N |-> n - 1 - i]
           S == {i \in N : Walked(flat, i, f[i], Offspring(flat, i))}
<1>1. DepthFirst(f, flat)
  BY DepthFirstExists
<1>2. DepthFirstOrder(flat) = FlattenSeq(OfChildren(f, flat, NoParent))
  BY DEF DepthFirstOrder, DepthFirst, OfChildren
<1> HIDE DEF f
<1>3. f \in [N -> Seq(N)]
  BY <1>1, DepthFirstExists
<1>4. n \in Nat /\ NoParent \in JointsOrRoot(flat) /\ \A i \in N : i \in JointsOrRoot(flat)
  BY DEF ParentsFirst, Indices, JointsOrRoot, NoParent
<1>5. f \in [N -> Seq(JointsOrRoot(flat))]
  BY <1>3, <1>4
<1>6. \A i \in N : f[i] = <<i>> \o FlattenSeq(OfChildren(f, flat, i))
  BY <1>1 DEF DepthFirst
<1>7. h \in [N -> Nat]
  BY <1>4 DEF Indices
<1>8. ASSUME NEW i \in N, \A y \in N : h[y] < h[i] => y \in S PROVE i \in S
  <2>1. \A c \in Offspring(flat, i) : c \in S
    <3> SUFFICES ASSUME NEW c \in Offspring(flat, i) PROVE c \in S
      OBVIOUS
    <3>1. c \in N /\ i \in NoParent .. c - 1
      BY DEF Offspring, ParentsFirst
    <3>2. h[c] = n - 1 - c /\ h[i] = n - 1 - i /\ c \in Int /\ i \in Int
      BY <3>1 DEF Indices
    <3>3. h[c] < h[i]
      BY <1>4, <3>1, <3>2
    <3> QED BY <1>8, <3>1, <3>3
  <2>2. Walked(flat, i, <<i>> \o FlattenSeq(OfChildren(f, flat, i)), Offspring(flat, i))
    <3>1. \A c \in Offspring(flat, i) : Walked(flat, c, f[c], Offspring(flat, c))
      BY <2>1
    <3> QED BY <1>4, <1>5, <3>1, ChildrenWalked
  <2> QED BY <1>6, <2>2
<1>9. \A i \in N : (\A y \in N : h[y] < h[i] => y \in S) => i \in S
  BY <1>8
<1> HIDE DEF S, h
<1>10. N \subseteq S
  BY <1>7, <1>9, ByHeight
<1>11. \A c \in Offspring(flat, NoParent) : Walked(flat, c, f[c], Offspring(flat, c))
  <2>1. Offspring(flat, NoParent) \subseteq N
    BY DEF Offspring
  <2> QED BY <1>10, <2>1 DEF S
<1>12. Walked(flat, NoParent, <<NoParent>> \o DepthFirstOrder(flat), Offspring(flat, NoParent))
  BY <1>2, <1>4, <1>5, <1>11, ChildrenWalked
<1>13. DepthFirstOrder(flat) \in Seq(N)
  BY <1>2, <1>3, <1>4, OfChildrenIs
<1> QED BY <1>12, <1>13

LEMMA ListsAll ==
  ASSUME NEW n \in Nat, NEW s \in Seq(0 .. n - 1), OneEach(s), \A i \in 0 .. n - 1 : \E k \in 1 .. Len(s) : s[k] = i
  PROVE  Len(s) = n
<1> DEFINE L == Len(s)
           S == 0 .. n - 1
<1>1. L \in Nat /\ s \in [1 .. L -> S]
  OBVIOUS
<1>2. s \in Bijection(1 .. L, S)
  <2>1. \A k, m \in 1 .. L : s[k] = s[m] => k = m
    BY DEF OneEach
  <2>2. \A i \in S : \E k \in 1 .. L : s[k] = i
    OBVIOUS
  <2> HIDE DEF L, S
  <2> QED BY <1>1, <2>1, <2>2 DEF Bijection, Injection, Surjection, IsInjective
<1>3. ExistsBijection(1 .. L, S)
  BY <1>2 DEF ExistsBijection
<1>4. Cardinality(S) = L
  <2> HIDE DEF L, S
  <2> QED BY <1>1, <1>3, FS_CountingElements
<1>5. Cardinality(S) = n
  BY FirstNumbers
<1> QED BY <1>4, <1>5

\* at[k] is the joint that comes to place k, and NoParent stays where it is.
Places(flat, at) ==
    /\ at \in [JointsOrRoot(flat) -> JointsOrRoot(flat)] /\ at[NoParent] = NoParent
    /\ \A k, m \in JointsOrRoot(flat) : at[k] = at[m] => k = m
    /\ \A i \in JointsOrRoot(flat) : \E k \in JointsOrRoot(flat) : at[k] = i
    /\ \A k \in Indices(flat) : at[k] \in Indices(flat)
Descends(flat, at) ==
    \A k \in Indices(flat) :
        \E m \in NoParent .. k - 1 :
            /\ at[m] = ParentOf(flat, at[k])
            /\ \A l \in m + 1 .. k - 1 : \E q \in m .. l - 1 : at[q] = ParentOf(flat, at[l])
SiblingsAscend(flat, at) ==
    \A k, m \in Indices(flat) :
        k < m /\ ParentOf(flat, at[k]) = ParentOf(flat, at[m]) => at[k] < at[m]
Arranges(flat, at) == Places(flat, at) /\ Descends(flat, at) /\ SiblingsAscend(flat, at)

LEMMA DepthFirstPlaces ==
  ASSUME NEW flat, ParentsFirst(flat)
  PROVE  /\ DepthFirstOrder(flat) \in Seq(Indices(flat)) /\ Len(DepthFirstOrder(flat)) = Len(flat)
         /\ \E at : /\ Arranges(flat, at)
                    /\ \A k \in 1 .. Len(flat) : DepthFirstOrder(flat)[k] = at[k - 1]
<1> DEFINE order == DepthFirstOrder(flat)
           w == <<NoParent>> \o order
           n == Len(flat)
           N == Indices(flat)
           T == JointsOrRoot(flat)
<1>1. n \in Nat /\ N = 0 .. n - 1 /\ T = -1 .. n - 1
  BY DEF ParentsFirst, Indices, JointsOrRoot, NoParent
<1>2. order \in Seq(N) /\ Walked(flat, NoParent, w, Offspring(flat, NoParent))
  BY DepthFirstIs
<1>3. /\ Len(w) = Len(order) + 1 /\ Len(order) \in Nat
      /\ \A k \in 1 .. Len(order) : w[k + 1] = order[k] /\ k + 1 \in 2 .. Len(w)
  BY <1>2
<1> HIDE DEF order, w
<1>4. /\ w \in Seq(T) /\ w[1] = NoParent
      /\ \A k \in 2 .. Len(w) : w[k] \in N /\ Hangs(flat, w, k)
      /\ \A k, m \in 1 .. Len(w) : w[k] = w[m] => k = m
  BY <1>2 DEF Walked, DescendsFrom, OneEach
<1>5. \A k, m \in 2 .. Len(w) : k < m /\ ParentOf(flat, w[k]) = ParentOf(flat, w[m]) => w[k] < w[m]
  BY <1>2 DEF Walked, EldersFirst
<1>6. \A k \in 1 .. Len(w), c \in N : ParentOf(flat, c) = w[k] => \E m \in 1 .. Len(w) : w[m] = c
  BY <1>2 DEF Walked, ChildrenIn, Offspring
<1> DEFINE In == {i \in T : \E m \in 1 .. Len(w) : w[m] = i}
           h == [i \in T |-> i + 1]
<1>7. h \in [T -> Nat] /\ \A i \in T : h[i] = i + 1
  BY <1>1
<1>8. ASSUME NEW i \in T, \A y \in T : h[y] < h[i] => y \in In PROVE i \in In
  <2>1. CASE i = NoParent
    <3>1. 1 \in 1 .. Len(w)
      BY <1>3
    <3> QED BY <1>4, <2>1, <3>1
  <2>2. CASE i # NoParent
    <3>1. i \in N /\ i \in Int
      BY <1>1, <2>2 DEF NoParent
    <3>2. ParentOf(flat, i) \in T /\ ParentOf(flat, i) < i /\ ParentOf(flat, i) \in Int
      BY <1>1, <3>1 DEF ParentsFirst, NoParent
    <3> HIDE DEF h, T
    <3>3. h[ParentOf(flat, i)] < h[i]
      BY <1>7, <3>1, <3>2
    <3>4. ParentOf(flat, i) \in In
      BY <1>8, <3>2, <3>3
    <3> QED BY <1>6, <3>1, <3>4
  <2> QED BY <2>1, <2>2
<1>9. T \subseteq In
  <2>1. \A i \in T : (\A y \in T : h[y] < h[i] => y \in In) => i \in In
    BY <1>8
  <2> HIDE DEF In, h, T
  <2> QED BY <1>7, <2>1, ByHeight
<1>10. \A i \in N : \E k \in 1 .. Len(order) : order[k] = i
  <2> SUFFICES ASSUME NEW i \in N PROVE \E k \in 1 .. Len(order) : order[k] = i
    OBVIOUS
  <2>1. i \in T /\ i # NoParent
    BY <1>1 DEF NoParent
  <2>2. PICK m \in 1 .. Len(w) : w[m] = i
    BY <1>9, <2>1
  <2>3. m # 1
    BY <1>4, <2>1, <2>2
  <2>4. m - 1 \in 1 .. Len(order) /\ (m - 1) + 1 = m
    BY <1>3, <2>3
  <2> QED BY <1>3, <2>2, <2>4
<1>11. OneEach(order)
  <2> SUFFICES ASSUME NEW k \in 1 .. Len(order), NEW m \in 1 .. Len(order), order[k] = order[m] PROVE k = m
    BY DEF OneEach
  <2>1. k + 1 \in 1 .. Len(w) /\ m + 1 \in 1 .. Len(w) /\ w[k + 1] = w[m + 1]
    BY <1>3
  <2>2. k + 1 = m + 1
    BY <1>4, <2>1
  <2> QED BY <2>2
<1>12. Len(order) = n
  <2>1. order \in Seq(0 .. n - 1) /\ \A i \in 0 .. n - 1 : \E k \in 1 .. Len(order) : order[k] = i
    BY <1>1, <1>2, <1>10
  <2>2. n \in Nat
    BY <1>1
  <2> HIDE DEF n
  <2> QED BY <1>11, <2>1, <2>2, ListsAll
<1> DEFINE at == [k \in T |-> w[k + 2]]
<1>13. \A k \in T : k + 2 \in 1 .. Len(w) /\ at[k] = w[k + 2]
  BY <1>1, <1>3, <1>12
<1>14. \A k \in N : k \in T /\ k + 2 \in 2 .. Len(w)
  BY <1>1, <1>3, <1>12
<1>15. at \in [T -> T]
  BY <1>4, <1>13
<1>16. at[NoParent] = NoParent
  <2>1. NoParent \in T /\ NoParent + 2 = 1
    BY <1>1 DEF NoParent
  <2> QED BY <1>4, <2>1
<1> HIDE DEF at
<1>17. Places(flat, at)
  <2>1. ASSUME NEW k \in T, NEW m \in T, at[k] = at[m] PROVE k = m
    <3>1. k + 2 = m + 2
      BY <1>4, <1>13, <2>1
    <3>2. k \in Int /\ m \in Int
      BY <1>1
    <3> QED BY <3>1, <3>2
  <2>2. ASSUME NEW i \in T PROVE \E k \in T : at[k] = i
    <3>1. PICK m \in 1 .. Len(w) : w[m] = i
      BY <1>9
    <3>2. m - 2 \in T /\ (m - 2) + 2 = m
      BY <1>1, <1>3, <1>12
    <3> QED BY <1>13, <3>1, <3>2
  <2>3. \A k \in N : at[k] \in N
    BY <1>4, <1>13, <1>14
  <2> QED BY <1>15, <1>16, <2>1, <2>2, <2>3 DEF Places
<1>18. Descends(flat, at)
  <2> SUFFICES ASSUME NEW k \in N
               PROVE  \E m \in NoParent .. k - 1 :
                         /\ at[m] = ParentOf(flat, at[k])
                         /\ \A l \in m + 1 .. k - 1 : \E q \in m .. l - 1 : at[q] = ParentOf(flat, at[l])
    BY DEF Descends
  <2>1. k \in Int /\ at[k] = w[k + 2] /\ k \in T
    BY <1>1, <1>13, <1>14
  <2>2. PICK r \in 1 .. (k + 2) - 1 :
           /\ w[r] = ParentOf(flat, w[k + 2])
           /\ \A l \in r + 1 .. (k + 2) - 1 : \E q \in r .. l - 1 : w[q] = ParentOf(flat, w[l])
    BY <1>4, <1>14 DEF Hangs
  <2> DEFINE m == r - 2
  <2>3. m \in NoParent .. k - 1 /\ m + 2 = r
    BY <2>1, <2>2 DEF NoParent
  <2>4. \A x \in NoParent .. k - 1 : at[x] = w[x + 2]
    BY <1>1, <1>13 DEF NoParent
  <2>5. ASSUME NEW l \in m + 1 .. k - 1 PROVE \E q \in m .. l - 1 : at[q] = ParentOf(flat, at[l])
    <3>1. l + 2 \in r + 1 .. (k + 2) - 1
      BY <2>1, <2>2
    <3>2. PICK q \in r .. (l + 2) - 1 : w[q] = ParentOf(flat, w[l + 2])
      BY <2>2, <3>1
    <3>3. q - 2 \in m .. l - 1 /\ q - 2 \in NoParent .. k - 1 /\ (q - 2) + 2 = q /\ l \in NoParent .. k - 1
      BY <2>1, <2>2, <3>2 DEF NoParent
    <3>4. at[q - 2] = w[q] /\ at[l] = w[l + 2]
      BY <2>4, <3>3
    <3> QED BY <3>2, <3>3, <3>4
  <2>6. at[m] = ParentOf(flat, at[k])
    BY <2>1, <2>2, <2>3, <2>4
  <2> HIDE DEF m
  <2> QED BY <2>3, <2>5, <2>6
<1>19. SiblingsAscend(flat, at)
  <2> SUFFICES ASSUME NEW k \in N, NEW m \in N, k < m, ParentOf(flat, at[k]) = ParentOf(flat, at[m])
               PROVE  at[k] < at[m]
    BY DEF SiblingsAscend
  <2>1. k + 2 \in 2 .. Len(w) /\ m + 2 \in 2 .. Len(w) /\ k + 2 < m + 2 /\ at[k] = w[k + 2] /\ at[m] = w[m + 2]
    BY <1>1, <1>13, <1>14
  <2> QED BY <1>5, <2>1
<1>20. \A k \in 1 .. n : order[k] = at[k - 1]
  <2> SUFFICES ASSUME NEW k \in 1 .. n PROVE order[k] = at[k - 1]
    OBVIOUS
  <2>1. k - 1 \in T /\ (k - 1) + 2 = k + 1 /\ k \in 1 .. Len(order)
    BY <1>1, <1>12
  <2> QED BY <1>3, <1>13, <2>1
<1> QED BY <1>2, <1>12, <1>17, <1>18, <1>19, <1>20 DEF Arranges, order

LEMMA PlaceIs ==
  ASSUME NEW T, NEW order \in Seq(T), OneEach(order), NEW k \in 1 .. Len(order)
  PROVE  PlaceIn(order, order[k]) = k - 1
<1>1. DOMAIN order = 1 .. Len(order) /\ Len(order) \in Nat
  OBVIOUS
<1>2. {m \in DOMAIN order : order[m] = order[k]} = {k}
  BY <1>1 DEF OneEach
<1>3. PlaceIn(order, order[k]) = Max({k - 1})
  BY <1>2 DEF PlaceIn
<1>4. Max({k - 1}) = k - 1
  BY DEF Max
<1> QED BY <1>3, <1>4

\* listed is flat with at[k] in place k.
Arranged(listed, flat, at) ==
    /\ Len(listed) = Len(flat) /\ listed = [k \in 1 .. Len(flat) |-> listed[k]]
    /\ \A k \in Indices(flat) :
          /\ listed[k + 1] = [name |-> flat[at[k] + 1].name, parent |-> ParentOf(listed, k)]
          /\ ParentOf(listed, k) \in NoParent .. k - 1
          /\ at[ParentOf(listed, k)] = ParentOf(flat, at[k])

LEMMA FlattenArranges ==
  ASSUME NEW flat, ParentsFirst(flat)
  PROVE  \E at : Arranges(flat, at) /\ Arranged(Flatten(flat), flat, at)
<1> DEFINE order == DepthFirstOrder(flat)
           n == Len(flat)
           N == Indices(flat)
           listed == Flatten(flat)
           Up(k) == LET p == ParentOf(flat, order[k]) IN IF p = NoParent THEN NoParent ELSE PlaceIn(order, p)
<1>1. order \in Seq(N) /\ Len(order) = n
  BY DepthFirstPlaces
<1>2. PICK at : Arranges(flat, at) /\ \A k \in 1 .. n : order[k] = at[k - 1]
  BY DepthFirstPlaces
<1>3. n \in Nat /\ N = 0 .. n - 1 /\ JointsOrRoot(flat) = -1 .. n - 1 /\ DOMAIN order = 1 .. n
  BY <1>1 DEF ParentsFirst, Indices, JointsOrRoot, NoParent
<1>4. listed = [k \in 1 .. n |-> [name |-> flat[order[k] + 1].name, parent |-> Up(k)]]
  BY <1>3 DEF Flatten
<1> HIDE DEF order, listed
<1>5. OneEach(order)
  <2> SUFFICES ASSUME NEW k \in 1 .. n, NEW m \in 1 .. n, order[k] = order[m] PROVE k = m
    BY <1>1 DEF OneEach
  <2>1. k - 1 \in JointsOrRoot(flat) /\ m - 1 \in JointsOrRoot(flat) /\ at[k - 1] = at[m - 1]
    BY <1>2, <1>3
  <2>2. k - 1 = m - 1
    BY <1>2, <2>1 DEF Arranges, Places
  <2> QED BY <2>2
<1>6. ASSUME NEW k \in N
      PROVE  /\ order[k + 1] = at[k] /\ k + 1 \in 1 .. n
             /\ Up(k + 1) \in NoParent .. k - 1
             /\ at[Up(k + 1)] = ParentOf(flat, at[k])
  <2>1. k + 1 \in 1 .. n /\ (k + 1) - 1 = k
    BY <1>3
  <2>2. order[k + 1] = at[k]
    BY <1>2, <2>1
  <2>3. PICK m \in NoParent .. k - 1 : at[m] = ParentOf(flat, at[k])
    BY <1>2 DEF Arranges, Descends
  <2>4. at[NoParent] = NoParent /\ NoParent \in JointsOrRoot(flat) /\ m \in JointsOrRoot(flat)
        /\ \A x, y \in JointsOrRoot(flat) : at[x] = at[y] => x = y
    <3>1. NoParent \in JointsOrRoot(flat) /\ m \in JointsOrRoot(flat)
      BY <1>3, <2>1 DEF NoParent
    <3> QED BY <1>2, <3>1 DEF Arranges, Places
  <2>5. Up(k + 1) = m
    <3>1. CASE m = NoParent
      BY <2>2, <2>3, <2>4, <3>1
    <3>2. CASE m # NoParent
      <4>1. m + 1 \in 1 .. n /\ (m + 1) - 1 = m
        BY <1>3, <2>1, <2>3, <3>2 DEF NoParent
      <4>2. order[m + 1] = at[m]
        BY <1>2, <4>1
      <4>3. PlaceIn(order, order[m + 1]) = (m + 1) - 1
        BY <1>1, <1>5, <4>1, PlaceIs
      <4>4. at[m] # NoParent
        BY <2>4, <3>2
      <4> QED BY <2>2, <2>3, <4>1, <4>2, <4>3, <4>4
    <3> QED BY <3>1, <3>2
  <2> QED BY <2>1, <2>2, <2>3, <2>5
<1>7. Len(listed) = n /\ listed = [k \in 1 .. n |-> listed[k]]
  <2> HIDE DEF Up
  <2> QED BY <1>3, <1>4
<1>8. \A k \in N : listed[k + 1] = [name |-> flat[at[k] + 1].name, parent |-> Up(k + 1)]
  <2> HIDE DEF Up
  <2> QED BY <1>4, <1>6
<1> HIDE DEF Up
<1>9. \A k \in N : ParentOf(listed, k) = Up(k + 1)
  <2> SUFFICES ASSUME NEW k \in N PROVE ParentOf(listed, k) = Up(k + 1)
    OBVIOUS
  <2> DEFINE v == Up(k + 1)
             a == flat[at[k] + 1].name
  <2>1. listed[k + 1] = [name |-> a, parent |-> v]
    BY <1>8
  <2> HIDE DEF v, a
  <2>2. listed[k + 1].parent = v
    BY <2>1
  <2> QED BY <2>2 DEF ParentOf, v
<1>10. Arranged(listed, flat, at)
  <2>1. \A k \in N : /\ listed[k + 1] = [name |-> flat[at[k] + 1].name, parent |-> ParentOf(listed, k)]
                     /\ ParentOf(listed, k) \in NoParent .. k - 1
                     /\ at[ParentOf(listed, k)] = ParentOf(flat, at[k])
    BY <1>6, <1>8, <1>9
  <2> QED BY <1>7, <2>1 DEF Arranged
<1> QED BY <1>2, <1>10 DEF listed

-----------------------------------------------------------------------------
(* The hierarchy is kept.                                                  *)

LEMMA ArrangedBasics ==
  ASSUME NEW flat, ParentsFirst(flat), NEW at, Arranges(flat, at), NEW listed, Arranged(listed, flat, at)
  PROVE  /\ Indices(listed) = Indices(flat) /\ ParentsFirst(listed) /\ JointsOrRoot(listed) = JointsOrRoot(flat)
         /\ \A k \in Indices(flat) : k \in JointsOrRoot(flat) /\ ParentOf(listed, k) \in JointsOrRoot(flat)
         /\ \A k \in JointsOrRoot(flat) : k \in Indices(flat) <=> k # NoParent
         /\ at[NoParent] = NoParent /\ NoParent \in JointsOrRoot(flat)
         /\ \A k \in JointsOrRoot(flat) : at[k] = NoParent <=> k = NoParent
<1>1. Len(flat) \in Nat /\ Len(listed) = Len(flat)
  BY DEF ParentsFirst, Arranged
<1>2. Indices(listed) = Indices(flat) /\ JointsOrRoot(listed) = JointsOrRoot(flat)
  BY <1>1 DEF Indices, JointsOrRoot
<1>3. \A k \in Indices(flat) : ParentOf(listed, k) \in NoParent .. k - 1
  BY DEF Arranged
<1>4. ParentsFirst(listed)
  BY <1>1, <1>2, <1>3 DEF ParentsFirst
<1>5. \A k \in Indices(flat) : k \in JointsOrRoot(flat) /\ ParentOf(listed, k) \in JointsOrRoot(flat)
  BY <1>1, <1>3 DEF Indices, JointsOrRoot, NoParent
<1>6. /\ NoParent \in JointsOrRoot(flat) /\ at[NoParent] = NoParent
      /\ \A k \in JointsOrRoot(flat) : k \in Indices(flat) <=> k # NoParent
  BY <1>1 DEF Indices, JointsOrRoot, NoParent, Arranges, Places
<1>7. \A k \in JointsOrRoot(flat) : at[k] = NoParent <=> k = NoParent
  BY <1>6 DEF Arranges, Places
<1> QED BY <1>2, <1>4, <1>5, <1>6, <1>7

LEMMA ArrangedIsDepthFirst ==
  ASSUME NEW flat, ParentsFirst(flat), NEW at, Arranges(flat, at), NEW listed, Arranged(listed, flat, at)
  PROVE  IsDepthFirst(Parents(listed))
<1> DEFINE N == Indices(flat)
           up == Parents(listed)
<1>1. /\ Indices(listed) = N /\ ParentsFirst(listed)
      /\ \A k \in N : k \in JointsOrRoot(flat) /\ ParentOf(listed, k) \in JointsOrRoot(flat) /\ k \in Int
  BY ArrangedBasics DEF Indices
<1>2. up = [k \in N |-> ParentOf(listed, k)]
  BY <1>1 DEF Parents
<1> HIDE DEF up
<1>3. \A k \in N : up[k] \in NoParent .. k - 1 /\ at[up[k]] = ParentOf(flat, at[k]) /\ up[k] \in JointsOrRoot(flat)
  BY <1>1, <1>2 DEF Arranged
<1>4. ASSUME NEW c \in N, NEW k \in N, up[c] < k, k < c PROVE up[k] >= up[c]
  <2>1. PICK m \in NoParent .. c - 1 :
           /\ at[m] = ParentOf(flat, at[c])
           /\ \A l \in m + 1 .. c - 1 : \E q \in m .. l - 1 : at[q] = ParentOf(flat, at[l])
    BY DEF Arranges, Descends
  <2>2. m \in JointsOrRoot(flat) /\ c \in Int /\ k \in Int
    BY <2>1 DEF JointsOrRoot, Indices
  <2>3. m = up[c]
    BY <1>3, <2>1, <2>2 DEF Arranges, Places
  <2>4. k \in m + 1 .. c - 1
    BY <1>4, <2>1, <2>2, <2>3
  <2>5. PICK q \in m .. k - 1 : at[q] = ParentOf(flat, at[k])
    BY <2>1, <2>4
  <2>6. q \in JointsOrRoot(flat)
    <3>1. Len(flat) \in Nat /\ c \in 0 .. Len(flat) - 1
      BY DEF ParentsFirst, Indices
    <3>2. q \in NoParent .. Len(flat) - 1
      BY <2>1, <2>2, <2>4, <2>5, <3>1 DEF NoParent
    <3> QED BY <3>2 DEF JointsOrRoot
  <2>7. q = up[k]
    BY <1>3, <2>5, <2>6 DEF Arranges, Places
  <2> QED BY <2>1, <2>3, <2>5, <2>7
<1>5. \A c \in N : NoParent <= up[c] /\ up[c] < c
  BY <1>1, <1>3 DEF NoParent
<1>6. DOMAIN up = N
  BY <1>2
<1> QED BY <1>4, <1>5, <1>6 DEF IsDepthFirst, up

LEMMA SameHierarchyIs ==
  ASSUME NEW flat, ParentsFirst(flat), NEW at, Arranges(flat, at), NEW listed, Arranged(listed, flat, at)
  PROVE  SameHierarchy(listed, flat)
<1> DEFINE N == Indices(flat)
           J == JointsOrRoot(flat)
           Name(s, i) == IF i = NoParent THEN NoParent ELSE s[i + 1].name
           A(s) == {<<Name(s, i), Name(s, ParentOf(s, i))>> : i \in Indices(s)}
           B(s) == {<<Name(s, e[1]), Name(s, e[2])>> : e \in
                        {p \in Indices(s) \X Indices(s) :
                            p[1] < p[2] /\ ParentOf(s, p[1]) = ParentOf(s, p[2])}}
<1>1. /\ Indices(listed) = N /\ NoParent \in J
      /\ \A k \in N : k \in J /\ ParentOf(listed, k) \in J /\ k \in Int
      /\ \A k \in J : k \in N <=> k # NoParent
      /\ \A k \in J : at[k] = NoParent <=> k = NoParent
  BY ArrangedBasics DEF Indices
<1>2. /\ at \in [J -> J] /\ \A k, m \in J : at[k] = at[m] => k = m
      /\ \A i \in J : \E k \in J : at[k] = i
      /\ \A k \in N : at[k] \in N
  BY DEF Arranges, Places
<1>3. \A k \in N : /\ listed[k + 1] = [name |-> flat[at[k] + 1].name, parent |-> ParentOf(listed, k)]
                   /\ at[ParentOf(listed, k)] = ParentOf(flat, at[k])
  BY DEF Arranged
<1>4. \A k \in N : listed[k + 1].name = flat[at[k] + 1].name
  <2> SUFFICES ASSUME NEW k \in N PROVE listed[k + 1].name = flat[at[k] + 1].name
    OBVIOUS
  <2> DEFINE a == flat[at[k] + 1].name
             v == ParentOf(listed, k)
  <2>1. listed[k + 1] = [name |-> a, parent |-> v]
    BY <1>3
  <2> HIDE DEF a, v
  <2>2. listed[k + 1].name = a
    BY <2>1
  <2> QED BY <2>2 DEF a
<1>5. \A k \in J : Name(listed, k) = Name(flat, at[k])
  BY <1>1, <1>4
<1>6. \A i \in N : \E k \in N : at[k] = i
  BY <1>1, <1>2
<1> HIDE DEF Name, N, J
<1>7. A(listed) = A(flat)
  <2>1. \A k \in N : <<Name(listed, k), Name(listed, ParentOf(listed, k))>>
                     = <<Name(flat, at[k]), Name(flat, ParentOf(flat, at[k]))>>
    BY <1>1, <1>3, <1>5
  <2>2. A(listed) = {<<Name(flat, at[k]), Name(flat, ParentOf(flat, at[k]))>> : k \in N}
    BY <1>1, <2>1
  <2>3. A(flat) = {<<Name(flat, i), Name(flat, ParentOf(flat, i))>> : i \in N}
    BY DEF N
  <2> QED BY <1>2, <1>6, <2>2, <2>3
<1>8. \A k, m \in N : k < m /\ ParentOf(listed, k) = ParentOf(listed, m)
                      <=> at[k] < at[m] /\ ParentOf(flat, at[k]) = ParentOf(flat, at[m])
  <2> SUFFICES ASSUME NEW k \in N, NEW m \in N
               PROVE  k < m /\ ParentOf(listed, k) = ParentOf(listed, m)
                      <=> at[k] < at[m] /\ ParentOf(flat, at[k]) = ParentOf(flat, at[m])
    OBVIOUS
  <2>1. ParentOf(listed, k) = ParentOf(listed, m) <=> ParentOf(flat, at[k]) = ParentOf(flat, at[m])
    <3>1. ParentOf(listed, k) \in J /\ ParentOf(listed, m) \in J
      BY <1>1
    <3>2. at[ParentOf(listed, k)] = ParentOf(flat, at[k]) /\ at[ParentOf(listed, m)] = ParentOf(flat, at[m])
      BY <1>3
    <3> QED BY <1>2, <3>1, <3>2
  <2>2. ParentOf(flat, at[k]) = ParentOf(flat, at[m]) => (k < m => at[k] < at[m]) /\ (m < k => at[m] < at[k])
    BY DEF Arranges, SiblingsAscend, N
  <2>3. k \in Int /\ m \in Int /\ at[k] \in Int /\ at[m] \in Int
    BY <1>1, <1>2
  <2>4. k = m => at[k] = at[m]
    OBVIOUS
  <2> QED BY <2>1, <2>2, <2>3, <2>4
<1>9. B(listed) = B(flat)
  <2>1. \A s, x : x \in B(s) <=> \E k, m \in Indices(s) : /\ k < m /\ ParentOf(s, k) = ParentOf(s, m)
                                                          /\ x = <<Name(s, k), Name(s, m)>>
    <3> SUFFICES ASSUME NEW s, NEW x
                 PROVE  x \in B(s) <=> \E k, m \in Indices(s) : /\ k < m /\ ParentOf(s, k) = ParentOf(s, m)
                                                                /\ x = <<Name(s, k), Name(s, m)>>
      OBVIOUS
    <3> DEFINE C == {p \in Indices(s) \X Indices(s) : p[1] < p[2] /\ ParentOf(s, p[1]) = ParentOf(s, p[2])}
    <3>1. x \in B(s) <=> \E e \in C : x = <<Name(s, e[1]), Name(s, e[2])>>
      BY Zenon
    <3>2. \A e \in C : /\ e[1] \in Indices(s) /\ e[2] \in Indices(s) /\ e[1] < e[2]
                       /\ ParentOf(s, e[1]) = ParentOf(s, e[2])
      OBVIOUS
    <3>3. \A k, m \in Indices(s) : k < m /\ ParentOf(s, k) = ParentOf(s, m)
                                   => <<k, m>> \in C /\ <<k, m>>[1] = k /\ <<k, m>>[2] = m
      OBVIOUS
    <3> HIDE DEF C, B
    <3>4. ASSUME NEW k \in Indices(s), NEW m \in Indices(s), k < m, ParentOf(s, k) = ParentOf(s, m),
                 x = <<Name(s, k), Name(s, m)>>
          PROVE  x \in B(s)
      BY <3>1, <3>3, <3>4
    <3> QED BY <3>1, <3>2, <3>4
  <2> HIDE DEF B
  <2>2. ASSUME NEW x \in B(listed) PROVE x \in B(flat)
    <3>1. PICK k \in N, m \in N : k < m /\ ParentOf(listed, k) = ParentOf(listed, m)
                                  /\ x = <<Name(listed, k), Name(listed, m)>>
      BY <1>1, <2>1, <2>2
    <3>2. at[k] < at[m] /\ ParentOf(flat, at[k]) = ParentOf(flat, at[m])
      BY <1>8, <3>1
    <3>3. x = <<Name(flat, at[k]), Name(flat, at[m])>>
      BY <1>1, <1>5, <3>1
    <3>4. at[k] \in Indices(flat) /\ at[m] \in Indices(flat)
      BY <1>2 DEF N
    <3> QED BY <2>1, <3>2, <3>3, <3>4
  <2>3. ASSUME NEW x \in B(flat) PROVE x \in B(listed)
    <3>1. PICK i \in N, j \in N : i < j /\ ParentOf(flat, i) = ParentOf(flat, j)
                                  /\ x = <<Name(flat, i), Name(flat, j)>>
      BY <2>1, <2>3 DEF N
    <3>2. PICK k \in N, m \in N : at[k] = i /\ at[m] = j
      BY <1>6
    <3>3. k < m /\ ParentOf(listed, k) = ParentOf(listed, m)
      BY <1>8, <3>1, <3>2
    <3>4. x = <<Name(listed, k), Name(listed, m)>>
      BY <1>1, <1>5, <3>1, <3>2
    <3> QED BY <1>1, <2>1, <3>3, <3>4
  <2> QED BY <2>2, <2>3
<1>10. SameHierarchy(listed, flat) <=> A(listed) = A(flat) /\ B(listed) = B(flat)
  BY DEF SameHierarchy, Name
<1> QED BY <1>7, <1>9, <1>10

RawJoint == [parent : Int, name : Int]

LEMMA DepthFirstStays ==
  ASSUME NEW flat, ParentsFirst(flat), NEW at, Arranges(flat, at), IsDepthFirst(Parents(flat))
  PROVE  \A k \in JointsOrRoot(flat) : at[k] = k
<1> DEFINE N == Indices(flat)
           J == JointsOrRoot(flat)
           up == Parents(flat)
           h == [k \in J |-> k + 1]
           S == {k \in J : at[k] = k}
<1>1. /\ NoParent \in J /\ \A k \in J : k \in Int
      /\ \A k \in J : k \in N <=> k # NoParent
      /\ \A k \in N : k \in J
      /\ \A k \in J : k >= NoParent
      /\ \A k \in N : \A m \in NoParent .. k - 1 : m \in J
      /\ \A k \in N : ParentOf(flat, k) \in NoParent .. k - 1
  BY DEF ParentsFirst, JointsOrRoot, Indices, NoParent
<1>2. /\ at \in [J -> J] /\ at[NoParent] = NoParent
      /\ \A k, m \in J : at[k] = at[m] => k = m
      /\ \A i \in J : \E k \in J : at[k] = i
      /\ \A k \in N : at[k] \in N
  BY DEF Arranges, Places
<1>3. up = [k \in N |-> ParentOf(flat, k)]
  BY DEF Parents
<1> HIDE DEF up
<1>4. \A c, k \in N : ParentOf(flat, c) < k /\ k < c => ParentOf(flat, k) >= ParentOf(flat, c)
  BY <1>3 DEF IsDepthFirst, up
<1>5. h \in [J -> Nat] /\ \A k \in J : h[k] = k + 1
  BY <1>1 DEF NoParent
<1> HIDE DEF h, N, J
<1>6. ASSUME NEW k \in J, \A y \in J : h[y] < h[k] => y \in S PROVE k \in S
  <2>1. \A j \in J : j < k => at[j] = j
    <3> SUFFICES ASSUME NEW j \in J, j < k PROVE at[j] = j
      OBVIOUS
    <3>1. h[j] < h[k]
      BY <1>1, <1>5
    <3> QED BY <1>6, <3>1
  <2>2. CASE k = NoParent
    BY <1>2, <2>2
  <2>3. CASE k # NoParent
    <3> DEFINE v == at[k]
               p == ParentOf(flat, v)
               r == ParentOf(flat, k)
    <3>1. k \in N /\ v \in N /\ v \in J /\ v \in Int /\ k \in Int
      BY <1>1, <1>2, <2>3
    <3>2. ~(v < k)
      <4> SUFFICES ASSUME v < k PROVE FALSE
        OBVIOUS
      <4>1. at[v] = v
        BY <2>1, <3>1
      <4>2. v = k
        BY <1>2, <3>1, <4>1
      <4> QED BY <3>1, <4>2
    <3>3. ~(k < v)
      <4> SUFFICES ASSUME k < v PROVE FALSE
        OBVIOUS
      <4>1. PICK m \in NoParent .. k - 1 : at[m] = p
        BY <3>1 DEF Arranges, Descends, N
      <4>2. m \in J /\ m < k /\ m = p /\ p \in Int
        BY <1>1, <2>1, <3>1, <4>1
      <4>3. PICK K \in J : at[K] = k
        BY <1>2
      <4>4. k < K /\ K \in N /\ K \in Int
        <5>1. K # k /\ ~(K < k)
          BY <2>1, <3>1, <4>3
        <5>2. K # NoParent
          BY <1>2, <2>3, <4>3
        <5> QED BY <1>1, <3>1, <4>3, <5>1, <5>2
      <4>5. PICK x \in NoParent .. K - 1 :
               /\ at[x] = r
               /\ \A l \in x + 1 .. K - 1 : \E q \in x .. l - 1 : at[q] = ParentOf(flat, at[l])
        BY <4>3, <4>4 DEF Arranges, Descends, N
      <4>6. r \in J /\ r < k /\ r \in Int /\ at[r] = r
        BY <1>1, <2>1, <3>1
      <4>7. x = r
        <5>1. x \in J
          BY <1>1, <4>4, <4>5
        <5> QED BY <1>2, <4>5, <4>6, <5>1
      <4>8. k \in x + 1 .. K - 1
        BY <3>1, <4>4, <4>6, <4>7
      <4>9. PICK q \in x .. k - 1 : at[q] = p
        BY <4>5, <4>8
      <4>10. q = m
        <5>1. q \in NoParent .. k - 1
          BY <3>1, <4>5, <4>9 DEF NoParent
        <5>2. q \in J
          BY <1>1, <3>1, <5>1
        <5> QED BY <1>2, <4>1, <4>2, <4>9, <5>2
      <4>11. r <= p
        BY <4>2, <4>6, <4>7, <4>9, <4>10
      <4>12. r >= p
        BY <1>4, <3>1, <4>2
      <4>13. r = p
        BY <4>2, <4>6, <4>11, <4>12
      <4>14. at[k] < at[K]
        <5>1. ParentOf(flat, at[k]) = ParentOf(flat, at[K])
          BY <4>3, <4>13
        <5> QED BY <3>1, <4>4, <5>1 DEF Arranges, SiblingsAscend, N
      <4> QED BY <3>1, <4>3, <4>14
    <3>4. v = k
      BY <3>1, <3>2, <3>3
    <3> QED BY <3>4
  <2> QED BY <2>2, <2>3
<1>7. \A k \in J : (\A y \in J : h[y] < h[k] => y \in S) => k \in S
  BY <1>6
<1> HIDE DEF S
<1>8. J \subseteq S
  BY <1>5, <1>7, ByHeight
<1> QED BY <1>8 DEF S, J

\* What a rearranged list is to the list it was made from.
LEMMA ArrangedInDepthFirst ==
  ASSUME NEW flat \in Seq(RawJoint), ParentsFirst(flat), NEW at, Arranges(flat, at),
         NEW listed, Arranged(listed, flat, at)
  PROVE  InDepthFirst(listed, flat)
<1>1. SameHierarchy(listed, flat) /\ IsDepthFirst(Parents(listed))
  BY SameHierarchyIs, ArrangedIsDepthFirst
<1>2. ASSUME IsDepthFirst(Parents(flat)) PROVE listed = flat
  <2> DEFINE n == Len(flat)
  <2>1. n \in Nat /\ flat = [k \in 1 .. n |-> flat[k]] /\ \A k \in 1 .. n : flat[k] \in RawJoint
    OBVIOUS
  <2>2. \A k \in JointsOrRoot(flat) : at[k] = k
    BY <1>2, DepthFirstStays
  <2>3. ASSUME NEW k \in 1 .. n PROVE listed[k] = flat[k]
    <3>1. k - 1 \in Indices(flat) /\ (k - 1) + 1 = k
      BY <2>1 DEF Indices
    <3>2. /\ listed[k] = [name |-> flat[at[k - 1] + 1].name, parent |-> ParentOf(listed, k - 1)]
          /\ at[ParentOf(listed, k - 1)] = ParentOf(flat, at[k - 1])
      BY <3>1 DEF Arranged
    <3>3. k - 1 \in JointsOrRoot(flat) /\ ParentOf(listed, k - 1) \in JointsOrRoot(flat)
      BY <3>1, ArrangedBasics
    <3>4. listed[k] = [name |-> flat[k].name, parent |-> ParentOf(flat, k - 1)]
      BY <2>2, <3>1, <3>2, <3>3
    <3>5. ParentOf(flat, k - 1) = flat[k].parent
      BY <3>1 DEF ParentOf
    <3>6. flat[k] = [parent |-> flat[k].parent, name |-> flat[k].name]
      BY <2>1 DEF RawJoint
    <3> QED BY <3>4, <3>5, <3>6
  <2>4. listed = [k \in 1 .. n |-> listed[k]]
    BY DEF Arranged
  <2> HIDE DEF n
  <2> QED BY <2>1, <2>3, <2>4
<1> QED BY <1>1, <1>2 DEF InDepthFirst

-----------------------------------------------------------------------------
(* Hierarchies.                                                            *)

Good(h) ==
    /\ h.num_joints \in Nat
    /\ h.parents \in [0 .. h.num_joints - 1 -> Int]
    /\ IsDepthFirst(h.parents)

\* A set that has j and, with a joint, its children has the subtree of j.
LEMMA SubtreeIsLeast ==
  ASSUME NEW p, NEW j, NEW S, S \subseteq DOMAIN p, j \in S,
         \A c \in DOMAIN p : p[c] \in S => c \in S
  PROVE  SubtreeOf(p, j) \subseteq S
BY DEF SubtreeOf

LEMMA SubtreeIsClosed ==
  ASSUME NEW p, NEW j \in DOMAIN p
  PROVE  /\ j \in SubtreeOf(p, j)
         /\ \A c \in DOMAIN p : p[c] \in SubtreeOf(p, j) => c \in SubtreeOf(p, j)
         /\ SubtreeOf(p, j) \subseteq DOMAIN p
BY DEF SubtreeOf

\* Depth first: the joints from j to before n are all that is below j, where n is not
\* below j but all that is between is.
LEMMA SubtreeIsRange ==
  ASSUME NEW h, Good(h), NEW j \in 0 .. h.num_joints - 1,
         NEW n \in j + 1 .. h.num_joints,
         n < h.num_joints => h.parents[n] < j
  PROVE  SubtreeOf(h.parents, j) \subseteq j .. n - 1
<1> DEFINE p == h.parents
           S == j .. n - 1
<1>1. /\ h.num_joints \in Nat /\ p \in [0 .. h.num_joints - 1 -> Int]
      /\ DOMAIN p = 0 .. h.num_joints - 1 /\ IsDepthFirst(p)
  BY DEF Good
<1>2. S \subseteq DOMAIN p /\ j \in S
  BY <1>1
<1>3. ASSUME NEW c \in DOMAIN p, p[c] \in S
      PROVE  c \in S
  <2>1. p[c] < c /\ p[c] >= j /\ c \in Int /\ p[c] \in Int
    BY <1>1, <1>3 DEF IsDepthFirst
  <2>2. c < n
    <3> SUFFICES ASSUME c >= n
                 PROVE  FALSE
      BY <2>1
    <3>1. n < h.num_joints /\ n \in DOMAIN p /\ p[n] < j
      BY <1>1
    <3>2. c # n
      BY <3>1, <2>1
    <3>3. p[c] < n /\ n < c
      BY <1>3, <2>1, <3>2
    <3>4. p[n] >= p[c]
      BY <1>1, <3>1, <3>3 DEF IsDepthFirst
    <3> QED BY <2>1, <3>1, <3>4, <1>1
  <2> QED BY <2>1, <2>2
<1> HIDE DEF S, p
<1>4. SubtreeOf(p, j) \subseteq S
  BY <1>2, <1>3, SubtreeIsLeast
<1> QED BY <1>4 DEF S, p

\* IterateJointsDF visits what is at or below a joint, and IsLeaf tells those with nothing
\* below them: a walk stops where all below j is behind it, and not before
\* (skeleton_utils.h:50-88).
THEOREM WalksVisitSubtrees ==
  ASSUME NEW h, Good(h)
  PROVE  /\ Walk(h.parents, NoParent) = 0 .. h.num_joints - 1
         /\ \A j \in 0 .. h.num_joints - 1 :
               /\ Walk(h.parents, j) = SubtreeOf(h.parents, j)
               /\ IsLeaf(h.parents, j) <=> SubtreeOf(h.parents, j) = {j}
<1> DEFINE p == h.parents
           n == h.num_joints
           Ends(j) == {i \in 0 .. n - 1 : i > j /\ p[i] < j} \cup {n}
<1>1. /\ n \in Nat /\ p \in [0 .. n - 1 -> Int] /\ DOMAIN p = 0 .. n - 1
      /\ \A c \in 0 .. n - 1 : /\ NoParent <= p[c] /\ p[c] < c
                               /\ \A k \in 0 .. n - 1 : p[c] < k /\ k < c => p[k] >= p[c]
  BY DEF Good, IsDepthFirst
<1>2. Cardinality(DOMAIN p) = n
  <2> HIDE DEF n, p
  <2> QED BY <1>1, FirstNumbers
<1> HIDE DEF n, p
<1>3. \A j : EndOfWalk(p, j) = Min(Ends(j))
  BY <1>1, <1>2 DEF EndOfWalk
<1>4. ASSUME NEW j \in -1 .. n - 1
      PROVE  /\ EndOfWalk(p, j) \in Ends(j) /\ \A y \in Ends(j) : EndOfWalk(p, j) <= y
             /\ EndOfWalk(p, j) \in j + 1 .. n
  <2>1. Ends(j) \subseteq Nat /\ n \in Ends(j) /\ \A y \in Ends(j) : y \in j + 1 .. n
    BY <1>1
  <2> HIDE DEF Ends
  <2>2. PICK l \in Ends(j) : \A y \in Ends(j) : l <= y
    BY <2>1, LeastNatural
  <2>3. Min(Ends(j)) = l
    <3>1. \A x \in Ends(j) : (\A y \in Ends(j) : x <= y) => x = l
      BY <2>1, <2>2
    <3> QED BY <2>2, <3>1 DEF Min
  <2> QED BY <1>3, <2>1, <2>2, <2>3
<1>5. Walk(p, NoParent) = 0 .. n - 1
  <2>1. Ends(NoParent) = {n}
    BY <1>1 DEF NoParent
  <2>2. NoParent \in -1 .. n - 1 /\ NoParent < 0
    BY <1>1 DEF NoParent
  <2>3. EndOfWalk(p, NoParent) = n
    BY <1>4, <2>1, <2>2
  <2> QED BY <2>2, <2>3 DEF Walk
<1>6. ASSUME NEW j \in 0 .. n - 1
      PROVE  Walk(p, j) = SubtreeOf(p, j) /\ (IsLeaf(p, j) <=> SubtreeOf(p, j) = {j})
  <2> DEFINE e == EndOfWalk(p, j)
  <2>1. j \in -1 .. n - 1 /\ j \in Nat /\ j \in DOMAIN p
    BY <1>1
  <2>2. e \in Ends(j) /\ (\A y \in Ends(j) : e <= y) /\ e \in j + 1 .. n
    BY <1>4, <2>1
  <2> HIDE DEF e
  <2>3. e < n => p[e] < j
    BY <1>1, <2>2
  <2>4. SubtreeOf(p, j) \subseteq j .. e - 1
    BY <2>2, <2>3, SubtreeIsRange DEF p, n
  <2>5. /\ j \in SubtreeOf(p, j) /\ \A c \in DOMAIN p : p[c] \in SubtreeOf(p, j) => c \in SubtreeOf(p, j)
    BY <2>1, SubtreeIsClosed
  <2>6. \A k \in j + 1 .. e - 1 : k \in DOMAIN p /\ p[k] \in j .. k - 1
    <3> SUFFICES ASSUME NEW k \in j + 1 .. e - 1 PROVE k \in DOMAIN p /\ p[k] \in j .. k - 1
      OBVIOUS
    <3>1. k \in 0 .. n - 1 /\ k > j /\ k < e /\ k \in Int
      BY <1>1, <2>1, <2>2
    <3>2. ~(p[k] < j)
      <4> SUFFICES ASSUME p[k] < j PROVE FALSE
        OBVIOUS
      <4>1. k \in Ends(j)
        BY <3>1
      <4> HIDE DEF Ends
      <4>2. e <= k /\ e \in Int
        BY <2>2, <4>1
      <4> QED BY <3>1, <4>2
    <3> QED BY <1>1, <2>1, <3>1, <3>2
  <2> DEFINE g == [k \in j .. e - 1 |-> k]
             S == {k \in j .. e - 1 : k \in SubtreeOf(p, j)}
  <2>7. g \in [j .. e - 1 -> Nat] /\ \A k \in j .. e - 1 : g[k] = k
    BY <2>1
  <2> HIDE DEF g
  <2>8. ASSUME NEW k \in j .. e - 1, \A y \in j .. e - 1 : g[y] < g[k] => y \in S PROVE k \in S
    <3>1. CASE k = j
      BY <2>5, <3>1
    <3>2. CASE k # j
      <4>1. k \in j + 1 .. e - 1
        BY <2>1, <2>2, <3>2
      <4>2. k \in DOMAIN p /\ p[k] \in j .. k - 1
        BY <2>6, <4>1
      <4>3. p[k] \in j .. e - 1 /\ p[k] < k
        BY <2>1, <2>2, <4>1, <4>2
      <4>4. p[k] \in S
        BY <2>7, <2>8, <4>3
      <4> QED BY <2>5, <4>2, <4>4
    <3> QED BY <3>1, <3>2
  <2>9. j .. e - 1 \subseteq SubtreeOf(p, j)
    <3>1. \A k \in j .. e - 1 : (\A y \in j .. e - 1 : g[y] < g[k] => y \in S) => k \in S
      BY <2>8
    <3> DEFINE I == j .. e - 1
    <3>2. g \in [I -> Nat] /\ \A k \in I : (\A y \in I : g[y] < g[k] => y \in S) => k \in S
      BY <2>7, <3>1
    <3> HIDE DEF S, I
    <3>3. I \subseteq S
      BY <3>2, ByHeight
    <3> QED BY <3>3 DEF S, I
  <2>10. Walk(p, j) = j .. e - 1
    <3>1. ~(j < 0)
      BY <2>1
    <3> QED BY <3>1 DEF Walk, e
  <2>11. SubtreeOf(p, j) = {j} <=> e = j + 1
    BY <2>1, <2>2, <2>4, <2>9
  <2>12. IsLeaf(p, j) <=> e = j + 1
    <3>1. IsLeaf(p, j) <=> j + 1 = n \/ p[j + 1] # j
      BY <1>2 DEF IsLeaf
    <3>2. CASE j + 1 = n
      BY <2>1, <2>2, <3>1, <3>2
    <3>3. CASE j + 1 # n
      <4>1. j + 1 \in 0 .. n - 1 /\ p[j + 1] < j + 1 /\ p[j + 1] \in Int
        BY <1>1, <2>1, <3>3
      <4>2. e = j + 1 => p[j + 1] # j
        BY <1>1, <2>1, <2>3, <4>1
      <4>3. p[j + 1] # j => e = j + 1
        <5> SUFFICES ASSUME p[j + 1] # j PROVE e = j + 1
          OBVIOUS
        <5>1. j + 1 \in Ends(j)
          BY <2>1, <4>1
        <5> HIDE DEF Ends
        <5>2. e <= j + 1
          BY <2>2, <5>1
        <5> QED BY <2>1, <2>2, <5>2
      <4> QED BY <3>1, <3>3, <4>2, <4>3
    <3> QED BY <3>2, <3>3
  <2> QED BY <2>4, <2>9, <2>10, <2>11, <2>12
<1> QED BY <1>5, <1>6 DEF p, n

-----------------------------------------------------------------------------
(* Breadth first.                                                          *)

\* s is the children of p and then, child by child, what is below those in D.
LevelFrom(flat, p, s, D) ==
    /\ s \in Seq(Indices(flat))
    /\ \A k \in 1 .. Len(s) :
          s[k] > p /\ (ParentOf(flat, s[k]) = p \/ \E m \in 1 .. k - 1 : s[m] = ParentOf(flat, s[k]))
BelowIn(flat, p, s, D) ==
    /\ \A c \in Offspring(flat, p) : \E m \in 1 .. Len(s) : s[m] = c
    /\ \A k \in 1 .. Len(s), c \in Indices(flat) :
          ParentOf(flat, c) = s[k] => \/ s[k] \in Offspring(flat, p) /\ s[k] \notin D
                                      \/ \E m \in 1 .. Len(s) : s[m] = c
    /\ \A k \in 1 .. Len(s) : ParentOf(flat, s[k]) \in Offspring(flat, p) => ParentOf(flat, s[k]) \in D
Leveled(flat, p, s, D) == LevelFrom(flat, p, s, D) /\ OneEach(s) /\ BelowIn(flat, p, s, D)

LEMMA LevelIsNew ==
  ASSUME NEW flat, ParentsFirst(flat), NEW p \in JointsOrRoot(flat), NEW D, NEW c \in Offspring(flat, p), c \notin D,
         NEW s, NEW t, NEW E, Leveled(flat, p, s, D), Leveled(flat, c, t, E)
  PROVE  \A k \in 1 .. Len(s), m \in 1 .. Len(t) : s[k] # t[m]
<1> DEFINE X == {m \in 1 .. Len(t) : \E k \in 1 .. Len(s) : s[k] = t[m]}
<1> SUFFICES ASSUME X # {} PROVE FALSE
  OBVIOUS
<1>1. X \subseteq Nat
  OBVIOUS
<1> HIDE DEF X
<1>2. PICK m \in X : \A q \in X : m <= q
  BY <1>1, LeastNatural
<1>3. PICK k \in 1 .. Len(s) : s[k] = t[m] /\ m \in 1 .. Len(t)
  BY <1>2 DEF X
<1>4. /\ Len(s) \in Nat /\ Len(t) \in Nat /\ p < c /\ p \in Int /\ c \in Int
  BY DEF ParentsFirst, Indices, JointsOrRoot, Offspring, Leveled, LevelFrom
<1>5. CASE ParentOf(flat, t[m]) = c
  BY <1>3, <1>5 DEF Leveled, BelowIn
<1>6. CASE ParentOf(flat, t[m]) # c
  <2>1. PICK q \in 1 .. m - 1 : t[q] = ParentOf(flat, t[m])
    BY <1>3, <1>6 DEF Leveled, LevelFrom
  <2>2. q \in 1 .. Len(t) /\ q \in Int /\ m \in Int /\ ~(m <= q)
    BY <1>3, <1>4, <2>1
  <2>3. t[q] > c /\ t[q] \in Int
    BY <2>2 DEF Leveled, LevelFrom, Indices
  <2>4. ParentOf(flat, s[k]) # p
    BY <1>3, <1>4, <2>1, <2>3
  <2>5. PICK r \in 1 .. k - 1 : s[r] = ParentOf(flat, s[k])
    BY <1>3, <2>4 DEF Leveled, LevelFrom
  <2>6. r \in 1 .. Len(s)
    BY <1>4, <2>5
  <2>7. q \in X
    BY <1>3, <2>1, <2>2, <2>5, <2>6 DEF X
  <2> QED BY <1>2, <2>2, <2>7
<1> QED BY <1>5, <1>6

LEMMA LevelAppended ==
  ASSUME NEW flat, ParentsFirst(flat), NEW p \in JointsOrRoot(flat), NEW D, NEW c \in Offspring(flat, p), c \notin D,
         NEW s, NEW t, Leveled(flat, p, s, D), Leveled(flat, c, t, Offspring(flat, c))
  PROVE  Leveled(flat, p, s \o t, D \cup {c})
<1> DEFINE u == s \o t
           E == Offspring(flat, c)
           a == Len(s)
           b == Len(t)
<1>1. LevelFrom(flat, p, s, D) /\ OneEach(s) /\ BelowIn(flat, p, s, D)
  BY DEF Leveled
<1>2. LevelFrom(flat, c, t, E) /\ OneEach(t) /\ BelowIn(flat, c, t, E)
  BY DEF Leveled
<1>3. s \in Seq(Indices(flat)) /\ t \in Seq(Indices(flat))
  BY <1>1, <1>2 DEF LevelFrom
<1>4. u \in Seq(Indices(flat)) /\ IsConcat(u, s, t)
  BY <1>3, ConcatParts
<1>5. a \in Nat /\ b \in Nat /\ p \in Int /\ c \in Int /\ p < c /\ c \in Indices(flat) /\ ParentOf(flat, c) = p
  BY <1>3 DEF ParentsFirst, Indices, JointsOrRoot, Offspring
<1>6. \A k \in 1 .. a, m \in 1 .. b : s[k] # t[m]
  BY LevelIsNew
<1> HIDE DEF u
<1>7. /\ Len(u) = a + b
      /\ \A k \in 1 .. a : k \in 1 .. Len(u) /\ u[k] = s[k]
      /\ \A k \in 1 .. b : a + k \in 1 .. Len(u) /\ u[a + k] = t[k]
      /\ \A k \in 1 .. Len(u) : k \in 1 .. a \/ \E j \in 1 .. b : k = a + j
  BY <1>4 DEF IsConcat
<1>8. \A k \in 1 .. b : t[k] > c /\ t[k] \in Int
                        /\ (ParentOf(flat, t[k]) = c \/ \E m \in 1 .. k - 1 : t[m] = ParentOf(flat, t[k]))
  <2>1. \A k \in 1 .. b : t[k] \in Int
    BY <1>3 DEF Indices
  <2> QED BY <1>2, <2>1 DEF LevelFrom
<1>9. PICK x \in 1 .. a : s[x] = c
  BY <1>1 DEF BelowIn
<1> HIDE DEF a, b
<1>10. LevelFrom(flat, p, u, D \cup {c})
  <2>1. ASSUME NEW k \in 1 .. Len(u)
        PROVE  u[k] > p /\ (ParentOf(flat, u[k]) = p \/ \E m \in 1 .. k - 1 : u[m] = ParentOf(flat, u[k]))
    <3>1. CASE k \in 1 .. a
      <4>1. u[k] = s[k] /\ s[k] > p
        BY <1>1, <1>7, <3>1 DEF LevelFrom, a
      <4>2. ParentOf(flat, s[k]) = p \/ \E m \in 1 .. k - 1 : s[m] = ParentOf(flat, s[k])
        BY <1>1, <3>1 DEF LevelFrom, a
      <4>3. \A m \in 1 .. k - 1 : m \in 1 .. a
        BY <1>5, <3>1
      <4> QED BY <1>7, <4>1, <4>2, <4>3
    <3>2. ASSUME NEW j \in 1 .. b, k = a + j
          PROVE  u[k] > p /\ \E m \in 1 .. k - 1 : u[m] = ParentOf(flat, u[k])
      <4>1. u[k] = t[j] /\ u[k] > p
        BY <1>5, <1>7, <1>8, <3>2
      <4>2. CASE ParentOf(flat, t[j]) = c
        <5>1. x \in 1 .. k - 1 /\ u[x] = c
          BY <1>5, <1>7, <1>9, <3>2
        <5> QED BY <4>1, <4>2, <5>1
      <4>3. CASE ParentOf(flat, t[j]) # c
        <5>1. PICK m \in 1 .. j - 1 : t[m] = ParentOf(flat, t[j])
          BY <1>8, <4>3
        <5>2. m \in 1 .. b /\ a + m \in 1 .. k - 1
          BY <1>5, <3>2, <5>1
        <5> QED BY <1>7, <4>1, <5>1, <5>2
      <4> QED BY <4>1, <4>2, <4>3
    <3> QED BY <1>7, <3>1, <3>2
  <2> QED BY <1>4, <2>1 DEF LevelFrom
<1>11. OneEach(u)
  <2> SUFFICES ASSUME NEW k \in 1 .. Len(u), NEW m \in 1 .. Len(u), u[k] = u[m] PROVE k = m
    BY DEF OneEach
  <2>1. CASE k \in 1 .. a /\ m \in 1 .. a
    <3>1. s[k] = s[m]
      BY <1>7, <2>1
    <3> QED BY <1>1, <2>1, <3>1 DEF OneEach, a
  <2>2. ASSUME NEW i \in 1 .. b, NEW j \in 1 .. b, k = a + i, m = a + j PROVE k = m
    <3>1. t[i] = t[j]
      BY <1>7, <2>2
    <3>2. i = j
      BY <1>2, <3>1 DEF OneEach, b
    <3> QED BY <2>2, <3>2
  <2>3. ASSUME NEW j \in 1 .. b, k \in 1 .. a, m = a + j PROVE FALSE
    BY <1>6, <1>7, <2>3
  <2>4. ASSUME NEW j \in 1 .. b, m \in 1 .. a, k = a + j PROVE FALSE
    BY <1>6, <1>7, <2>4
  <2> QED BY <1>7, <2>1, <2>2, <2>3, <2>4
<1>12. BelowIn(flat, p, u, D \cup {c})
  <2>1. ASSUME NEW e \in Offspring(flat, p) PROVE \E m \in 1 .. Len(u) : u[m] = e
    <3>1. PICK m \in 1 .. a : s[m] = e
      BY <1>1 DEF BelowIn, a
    <3> QED BY <1>7, <3>1
  <2>2. ASSUME NEW k \in 1 .. Len(u), NEW e \in Indices(flat), ParentOf(flat, e) = u[k]
        PROVE  \/ u[k] \in Offspring(flat, p) /\ u[k] \notin D \cup {c}
               \/ \E m \in 1 .. Len(u) : u[m] = e
    <3>1. CASE k \in 1 .. a
      <4>1. u[k] = s[k] /\ ParentOf(flat, e) = s[k]
        BY <1>7, <2>2, <3>1
      <4>2. \/ s[k] \in Offspring(flat, p) /\ s[k] \notin D
            \/ \E m \in 1 .. a : s[m] = e
        BY <1>1, <3>1, <4>1 DEF BelowIn, a
      <4>3. s[k] = c => \E m \in 1 .. b : t[m] = e
        <5>1. s[k] = c => e \in Offspring(flat, c)
          BY <4>1 DEF Offspring
        <5> QED BY <1>2, <5>1 DEF BelowIn, b
      <4> QED BY <1>7, <4>1, <4>2, <4>3
    <3>2. ASSUME NEW j \in 1 .. b, k = a + j PROVE \E m \in 1 .. Len(u) : u[m] = e
      <4>1. ParentOf(flat, e) = t[j]
        BY <1>7, <2>2, <3>2
      <4>2. \E m \in 1 .. b : t[m] = e
        BY <1>2, <4>1 DEF BelowIn, b
      <4> QED BY <1>7, <4>2
    <3> QED BY <1>7, <3>1, <3>2
  <2>3. ASSUME NEW k \in 1 .. Len(u), ParentOf(flat, u[k]) \in Offspring(flat, p)
        PROVE  ParentOf(flat, u[k]) \in D \cup {c}
    <3>1. CASE k \in 1 .. a
      <4>1. u[k] = s[k]
        BY <1>7, <3>1
      <4> QED BY <1>1, <2>3, <3>1, <4>1 DEF BelowIn, a
    <3>2. ASSUME NEW j \in 1 .. b, k = a + j PROVE ParentOf(flat, u[k]) = c
      <4>1. u[k] = t[j]
        BY <1>7, <3>2
      <4> SUFFICES ASSUME ParentOf(flat, t[j]) # c PROVE FALSE
        BY <4>1
      <4>2. PICK m \in 1 .. j - 1 : t[m] = ParentOf(flat, t[j])
        BY <1>8
      <4>3. m \in 1 .. b /\ ParentOf(flat, t[m]) = p
        BY <1>5, <2>3, <4>1, <4>2 DEF Offspring
      <4>4. PICK q \in 1 .. m - 1 : t[q] = p
        BY <1>5, <1>8, <4>3
      <4>5. q \in 1 .. b
        BY <1>5, <4>3, <4>4
      <4> QED BY <1>5, <1>8, <4>4, <4>5
    <3> QED BY <1>7, <3>1, <3>2
  <2> QED BY <2>1, <2>2, <2>3 DEF BelowIn
<1> QED BY <1>10, <1>11, <1>12 DEF Leveled, u

LEMMA OnlyTheChildren ==
  ASSUME NEW flat, ParentsFirst(flat), NEW p \in JointsOrRoot(flat)
  PROVE  Leveled(flat, p, Children(flat, p), {})
<1> DEFINE s == Children(flat, p)
<1>1. /\ s \in Seq(Indices(flat))
      /\ \A k, m \in DOMAIN s : k < m => s[k] < s[m]
      /\ \A k \in DOMAIN s : s[k] \in Offspring(flat, p) /\ s[k] > p
      /\ \A i \in Offspring(flat, p) : \E k \in DOMAIN s : s[k] = i
  BY ChildrenList
<1> HIDE DEF s
<1>2. DOMAIN s = 1 .. Len(s) /\ \A k \in 1 .. Len(s) : s[k] \in Int /\ ParentOf(flat, s[k]) = p
  BY <1>1 DEF Offspring, Indices
<1>3. LevelFrom(flat, p, s, {})
  BY <1>1, <1>2 DEF LevelFrom
<1>4. OneEach(s)
  <2> SUFFICES ASSUME NEW k \in 1 .. Len(s), NEW m \in 1 .. Len(s), s[k] = s[m] PROVE k = m
    BY DEF OneEach
  <2>1. ~(k < m) /\ ~(m < k)
    BY <1>1, <1>2
  <2> QED BY <2>1
<1>5. BelowIn(flat, p, s, {})
  <2>1. p \notin Offspring(flat, p)
    BY DEF Offspring, ParentsFirst, Indices
  <2> QED BY <1>1, <1>2, <2>1 DEF BelowIn
<1> QED BY <1>3, <1>4, <1>5 DEF Leveled, s

LEMMA ChildrenLeveled ==
  ASSUME NEW flat, ParentsFirst(flat), NEW p \in JointsOrRoot(flat), NEW f \in [Indices(flat) -> Seq(Indices(flat))],
         \A c \in Offspring(flat, p) : Leveled(flat, c, f[c], Offspring(flat, c))
  PROVE  Leveled(flat, p, Children(flat, p) \o FlattenSeq(OfChildren(f, flat, p)), Offspring(flat, p))
<1> DEFINE kids == Children(flat, p)
           L == Len(kids)
           subs == OfChildren(f, flat, p)
           T == Indices(flat)
           D(k) == {kids[m] : m \in 1 .. k}
<1>1. /\ kids \in Seq(T) /\ L \in Nat /\ DOMAIN kids = 1 .. L
      /\ \A k, m \in 1 .. L : k < m => kids[k] < kids[m]
      /\ \A k \in 1 .. L : kids[k] \in Offspring(flat, p)
      /\ \A i \in Offspring(flat, p) : \E k \in 1 .. L : kids[k] = i
  BY ChildrenList
<1>2. subs \in Seq(Seq(T)) /\ Len(subs) = L /\ \A k \in 1 .. L : subs[k] = f[kids[k]]
  BY OfChildrenIs
<1>3. PICK g : Gathers(g, subs, T) /\ FlattenSeq(subs) = g[Len(subs)]
  BY <1>2, FlattenIs
<1>4. g \in [0 .. L -> Seq(T)] /\ g[0] = <<>> /\ \A k \in 1 .. L : g[k] = g[k - 1] \o subs[k]
  BY <1>2, <1>3 DEF Gathers
<1>5. Leveled(flat, p, kids, {})
  BY OnlyTheChildren
<1> HIDE DEF kids, L, subs
<1> DEFINE S == {k \in 0 .. L : Leveled(flat, p, kids \o g[k], D(k))}
<1>6. 0 \in S
  <2>1. kids \o g[0] = kids
    BY <1>1, <1>4, ConcatEmptySeq
  <2>2. D(0) = {}
    OBVIOUS
  <2>3. Leveled(flat, p, kids \o g[0], D(0))
    BY <1>5, <2>1, <2>2
  <2> QED BY <1>1, <2>3
<1>7. ASSUME NEW k \in 1 .. L, k - 1 \in S PROVE k \in S
  <2> DEFINE c == kids[k]
             t == kids \o g[k - 1]
  <2>1. k - 1 \in 0 .. L /\ k \in 0 .. L /\ k \in Nat
    BY <1>1
  <2>2. c \in Offspring(flat, p) /\ c \in T /\ Leveled(flat, c, f[c], Offspring(flat, c))
    BY <1>1 DEF Offspring
  <2>3. c \notin D(k - 1)
    <3> SUFFICES ASSUME NEW m \in 1 .. k - 1, kids[m] = kids[k] PROVE FALSE
      OBVIOUS
    <3>1. m \in 1 .. L /\ m < k
      BY <1>1
    <3>2. kids[m] < kids[k] /\ kids[k] \in Int
      BY <1>1, <2>2, <3>1 DEF Indices
    <3> QED BY <3>2
  <2>4. D(k) = D(k - 1) \cup {c}
    <3>1. \A m : m \in 1 .. k <=> m \in 1 .. k - 1 \/ m = k
      BY <2>1
    <3> QED BY <3>1
  <2>5. Leveled(flat, p, t, D(k - 1))
    BY <1>7
  <2>6. kids \o g[k] = t \o f[c]
    <3>1. g[k] = g[k - 1] \o f[c] /\ g[k - 1] \in Seq(T) /\ f[c] \in Seq(T)
      BY <1>2, <1>4, <2>1, <2>2
    <3>2. kids \o (g[k - 1] \o f[c]) = (kids \o g[k - 1]) \o f[c]
      <4>1. \A x, y, z \in Seq(T) : x \o (y \o z) = (x \o y) \o z
        <5> HIDE DEF T
        <5> QED BY Regrouped
      <4> QED BY ONLY <1>1, <3>1, <4>1
    <3> QED BY <3>1, <3>2
  <2> HIDE DEF c, t, D
  <2>7. Leveled(flat, p, t \o f[c], D(k - 1) \cup {c})
    BY <2>2, <2>3, <2>5, LevelAppended
  <2> QED BY <2>1, <2>4, <2>6, <2>7
<1>8. \A k \in 1 .. L : k - 1 \in S => k \in S
  BY <1>7
<1>9. L \in Nat
  BY <1>1
<1>10. D(L) = Offspring(flat, p)
  BY <1>1
<1> HIDE DEF S, D
<1>11. 0 .. L \subseteq S
  BY <1>6, <1>8, <1>9, ByNumber
<1>12. Leveled(flat, p, kids \o g[L], D(L))
  BY <1>9, <1>11 DEF S
<1>13. FlattenSeq(subs) = g[L]
  BY <1>2, <1>3
<1> QED BY <1>10, <1>12, <1>13 DEF subs, kids

\* BreadthFirstOrder, joint by joint.
BreadthFirst(f, flat) ==
    f = [i \in Indices(flat) |-> Children(flat, i) \o FlattenSeq(OfChildren(f, flat, i))]

LEMMA BreadthFirstExists ==
  ASSUME NEW flat, ParentsFirst(flat)
  PROVE  /\ \E f : BreadthFirst(f, flat)
         /\ \A f : BreadthFirst(f, flat) => f \in [Indices(flat) -> Seq(Indices(flat))]
<1> DEFINE heads == [i \in Indices(flat) |-> Children(flat, i)]
<1>1. heads \in [Indices(flat) -> Seq(Indices(flat))]
  <2>1. \A i \in Indices(flat) : i \in JointsOrRoot(flat)
    BY DEF ParentsFirst, Indices, JointsOrRoot, NoParent
  <2>2. \A i \in Indices(flat) : Children(flat, i) \in Seq(Indices(flat))
    BY <2>1, ChildrenList
  <2> QED BY <2>2
<1>2. \A i \in Indices(flat) : heads[i] = Children(flat, i)
  OBVIOUS
<1> HIDE DEF heads
<1>3. PICK f \in [Indices(flat) -> Seq(Indices(flat))] : Recurs(f, flat, heads)
  BY <1>1, RecursionsExist
<1>4. \A g : BreadthFirst(g, flat) <=> Recurs(g, flat, heads)
  BY <1>2 DEF BreadthFirst, Recurs
<1>5. \A g : Recurs(g, flat, heads) => g = f
  BY <1>3, RecursionIsOne
<1> QED BY <1>3, <1>4, <1>5

LEMMA BreadthFirstIs ==
  ASSUME NEW flat, ParentsFirst(flat)
  PROVE  Leveled(flat, NoParent, BreadthFirstOrder(flat), Offspring(flat, NoParent))
<1> DEFINE f == CHOOSE f : BreadthFirst(f, flat)
           N == Indices(flat)
           n == Len(flat)
           h == [i \in N |-> n - 1 - i]
           S == {i \in N : Leveled(flat, i, f[i], Offspring(flat, i))}
<1>1. BreadthFirst(f, flat)
  BY BreadthFirstExists
<1>2. BreadthFirstOrder(flat) = Children(flat, NoParent) \o FlattenSeq(OfChildren(f, flat, NoParent))
  BY DEF BreadthFirstOrder, BreadthFirst, OfChildren
<1> HIDE DEF f
<1>3. f \in [N -> Seq(N)]
  BY <1>1, BreadthFirstExists
<1>4. n \in Nat /\ NoParent \in JointsOrRoot(flat) /\ \A i \in N : i \in JointsOrRoot(flat)
  BY DEF ParentsFirst, Indices, JointsOrRoot, NoParent
<1>5. \A i \in N : f[i] = Children(flat, i) \o FlattenSeq(OfChildren(f, flat, i))
  BY <1>1 DEF BreadthFirst
<1>6. h \in [N -> Nat]
  BY <1>4 DEF Indices
<1>7. ASSUME NEW i \in N, \A y \in N : h[y] < h[i] => y \in S PROVE i \in S
  <2>1. \A c \in Offspring(flat, i) : c \in S
    <3> SUFFICES ASSUME NEW c \in Offspring(flat, i) PROVE c \in S
      OBVIOUS
    <3>1. c \in N /\ i \in NoParent .. c - 1
      BY DEF Offspring, ParentsFirst
    <3>2. h[c] = n - 1 - c /\ h[i] = n - 1 - i /\ c \in Int /\ i \in Int
      BY <3>1 DEF Indices
    <3>3. h[c] < h[i]
      BY <1>4, <3>1, <3>2
    <3> QED BY <1>7, <3>1, <3>3
  <2>2. Leveled(flat, i, Children(flat, i) \o FlattenSeq(OfChildren(f, flat, i)), Offspring(flat, i))
    <3>1. \A c \in Offspring(flat, i) : Leveled(flat, c, f[c], Offspring(flat, c))
      BY <2>1
    <3> QED BY <1>3, <1>4, <3>1, ChildrenLeveled
  <2> QED BY <1>5, <2>2
<1>8. \A i \in N : (\A y \in N : h[y] < h[i] => y \in S) => i \in S
  BY <1>7
<1> HIDE DEF S, h
<1>9. N \subseteq S
  BY <1>6, <1>8, ByHeight
<1>10. \A c \in Offspring(flat, NoParent) : Leveled(flat, c, f[c], Offspring(flat, c))
  <2>1. Offspring(flat, NoParent) \subseteq N
    BY DEF Offspring
  <2> QED BY <1>9, <2>1 DEF S
<1> QED BY <1>2, <1>3, <1>4, <1>10, ChildrenLeveled

\* Breadth first visits every joint once, after its parent (IterateBreadthFirst).
THEOREM BreadthFirstVisitsAll ==
  ASSUME NEW flat, ParentsFirst(flat)
  PROVE  LET order == BreadthFirstOrder(flat)
         IN  /\ Len(order) = Len(flat) /\ ToSet(order) = Indices(flat)
             /\ \A i \in Indices(flat) :
                   ParentOf(flat, i) # NoParent => PlaceIn(order, ParentOf(flat, i)) < PlaceIn(order, i)
<1> DEFINE order == BreadthFirstOrder(flat)
           n == Len(flat)
           N == Indices(flat)
           In == {i \in N : \E m \in 1 .. Len(order) : order[m] = i}
           h == [i \in N |-> i]
<1>1. n \in Nat /\ N = 0 .. n - 1
  BY DEF ParentsFirst, Indices
<1>2. Leveled(flat, NoParent, order, Offspring(flat, NoParent))
  BY BreadthFirstIs
<1> HIDE DEF order
<1>3. /\ order \in Seq(N) /\ OneEach(order)
      /\ \A k \in 1 .. Len(order) : ParentOf(flat, order[k]) = NoParent
                                    \/ \E m \in 1 .. k - 1 : order[m] = ParentOf(flat, order[k])
      /\ \A c \in Offspring(flat, NoParent) : \E m \in 1 .. Len(order) : order[m] = c
      /\ \A k \in 1 .. Len(order), c \in N : ParentOf(flat, c) = order[k] => \E m \in 1 .. Len(order) : order[m] = c
  BY <1>2 DEF Leveled, LevelFrom, BelowIn
<1>4. h \in [N -> Nat] /\ \A i \in N : h[i] = i
  BY <1>1
<1>5. ASSUME NEW i \in N, \A y \in N : h[y] < h[i] => y \in In PROVE i \in In
  <2>1. CASE ParentOf(flat, i) = NoParent
    BY <1>3, <2>1 DEF Offspring
  <2>2. CASE ParentOf(flat, i) # NoParent
    <3>1. ParentOf(flat, i) \in N /\ ParentOf(flat, i) < i
      BY <1>1, <2>2 DEF ParentsFirst, NoParent
    <3>2. ParentOf(flat, i) \in In
      BY <1>4, <1>5, <3>1
    <3> QED BY <1>3, <3>2
  <2> QED BY <2>1, <2>2
<1>6. N \subseteq In
  <2>1. \A i \in N : (\A y \in N : h[y] < h[i] => y \in In) => i \in In
    BY <1>5
  <2> HIDE DEF In, h, N
  <2> QED BY <1>4, <2>1, ByHeight
<1>7. Len(order) = n
  <2>1. order \in Seq(0 .. n - 1) /\ \A i \in 0 .. n - 1 : \E k \in 1 .. Len(order) : order[k] = i
    BY <1>1, <1>3, <1>6
  <2>2. n \in Nat
    BY <1>1
  <2> HIDE DEF n
  <2> QED BY <1>3, <2>1, <2>2, ListsAll
<1>8. ToSet(order) = N
  <2>1. DOMAIN order = 1 .. Len(order) /\ \A k \in 1 .. Len(order) : order[k] \in N
    BY <1>3
  <2> QED BY <1>6, <2>1 DEF ToSet
<1>9. ASSUME NEW i \in N, ParentOf(flat, i) # NoParent
      PROVE  PlaceIn(order, ParentOf(flat, i)) < PlaceIn(order, i)
  <2>1. PICK k \in 1 .. Len(order) : order[k] = i
    BY <1>6
  <2>2. PICK m \in 1 .. k - 1 : order[m] = ParentOf(flat, i)
    BY <1>3, <1>9, <2>1
  <2>3. m \in 1 .. Len(order) /\ m < k
    BY <1>1, <1>7, <2>2
  <2>4. PlaceIn(order, order[k]) = k - 1 /\ PlaceIn(order, order[m]) = m - 1
    BY <1>3, <2>3, PlaceIs
  <2> QED BY <2>1, <2>2, <2>3, <2>4
<1> QED BY <1>7, <1>8, <1>9 DEF order

-----------------------------------------------------------------------------
(* Runtime skeletons.                                                      *)

\* Flattening keeps the hierarchy, in depth-first order, and flat lists flat.
THEOREM FlattenKeepsHierarchies ==
  ASSUME NEW flat \in Seq(RawJoint), ParentsFirst(flat)
  PROVE  /\ Flatten(flat) \in Seq(RawJoint) /\ ParentsFirst(Flatten(flat)) /\ Len(Flatten(flat)) = Len(flat)
         /\ InDepthFirst(Flatten(flat), flat)
<1> DEFINE listed == Flatten(flat)
           n == Len(flat)
<1>1. PICK at : Arranges(flat, at) /\ Arranged(listed, flat, at)
  BY FlattenArranges
<1>2. InDepthFirst(listed, flat) /\ ParentsFirst(listed)
  BY <1>1, ArrangedInDepthFirst, ArrangedBasics
<1> HIDE DEF listed
<1>3. n \in Nat /\ Len(listed) = n /\ listed = [k \in 1 .. n |-> listed[k]]
  BY <1>1 DEF Arranged
<1>4. ASSUME NEW k \in 1 .. n PROVE listed[k] \in RawJoint
  <2>1. k - 1 \in Indices(flat) /\ (k - 1) + 1 = k
    BY <1>3 DEF Indices
  <2>2. /\ listed[k] = [name |-> flat[at[k - 1] + 1].name, parent |-> ParentOf(listed, k - 1)]
        /\ ParentOf(listed, k - 1) \in NoParent .. (k - 1) - 1
    BY <1>1, <2>1 DEF Arranged
  <2>3. at[k - 1] \in Indices(flat)
    BY <1>1, <2>1 DEF Arranges, Places
  <2>4. at[k - 1] + 1 \in 1 .. n
    BY <1>3, <2>3 DEF Indices
  <2>5. flat[at[k - 1] + 1] \in RawJoint
    BY <2>4
  <2>6. flat[at[k - 1] + 1].name \in Int /\ ParentOf(listed, k - 1) \in Int
    BY <2>2, <2>5 DEF RawJoint
  <2> QED BY <2>2, <2>6 DEF RawJoint
<1>5. listed \in Seq(RawJoint)
  <2>1. listed \in [1 .. n -> RawJoint]
    BY <1>3, <1>4
  <2> QED BY <1>3, <2>1
<1> QED BY <1>2, <1>3, <1>5 DEF listed

\* The joints of a runtime skeleton as a list (RuntimeJoints).
ListOf(skel, n) == [k \in 1 .. n |-> [parent |-> skel.parents[k - 1], name |-> skel.names[k - 1]]]

\* A runtime skeleton has the hierarchy it was built from, in an order its jobs can loop over
\* (skeleton_builder.cc).
THEOREM BuiltSkeletonsAreGood ==
  ASSUME NEW flat \in Seq(RawJoint), ParentsFirst(flat)
  PROVE  /\ Good(Built(flat)) /\ Built(flat).num_joints = Len(flat)
         /\ DOMAIN Built(flat).parents = Indices(flat)
         /\ InDepthFirst(ListOf(Built(flat), Len(flat)), flat)
<1> DEFINE listed == Flatten(flat)
           n == Len(flat)
           b == Built(flat)
<1>1. listed \in Seq(RawJoint) /\ ParentsFirst(listed) /\ Len(listed) = n /\ InDepthFirst(listed, flat)
  BY FlattenKeepsHierarchies
<1>2. n \in Nat
  OBVIOUS
<1> HIDE DEF listed
<1>3. Indices(listed) = 0 .. n - 1 /\ Indices(flat) = 0 .. n - 1
  BY <1>1 DEF Indices
<1>4. b = [num_joints |-> n, parents |-> [i \in 0 .. n - 1 |-> listed[i + 1].parent],
           names |-> [i \in 0 .. n - 1 |-> listed[i + 1].name]]
  BY <1>1, <1>3 DEF Built, listed
<1> HIDE DEF b, n
<1>5. /\ b.num_joints = n /\ b.parents = [i \in 0 .. n - 1 |-> listed[i + 1].parent]
      /\ b.names = [i \in 0 .. n - 1 |-> listed[i + 1].name]
  BY <1>4
<1>6. b.parents = Parents(listed)
  BY <1>3, <1>5 DEF Parents, ParentOf
<1>7. IsDepthFirst(b.parents)
  BY <1>1, <1>6 DEF InDepthFirst
<1>8. b.parents \in [0 .. n - 1 -> Int]
  <2> SUFFICES ASSUME NEW i \in 0 .. n - 1 PROVE listed[i + 1].parent \in Int
    BY <1>5
  <2>1. i + 1 \in 1 .. Len(listed)
    BY <1>1, <1>2
  <2>2. listed[i + 1] \in RawJoint
    BY <1>1, <2>1
  <2> QED BY <2>2 DEF RawJoint
<1>9. Good(b) /\ DOMAIN b.parents = 0 .. n - 1
  BY <1>2, <1>5, <1>7, <1>8 DEF Good
<1>10. ListOf(b, n) = listed
  <2>1. ASSUME NEW k \in 1 .. n PROVE [parent |-> b.parents[k - 1], name |-> b.names[k - 1]] = listed[k]
    <3>1. k - 1 \in 0 .. n - 1 /\ (k - 1) + 1 = k /\ k \in 1 .. Len(listed)
      BY <1>1, <1>2
    <3>2. listed[k] \in RawJoint
      BY <1>1, <3>1
    <3>3. b.parents[k - 1] = listed[k].parent /\ b.names[k - 1] = listed[k].name
      BY <1>5, <3>1
    <3>4. listed[k] = [parent |-> listed[k].parent, name |-> listed[k].name]
      BY <3>2 DEF RawJoint
    <3> QED BY <3>3, <3>4
  <2>2. listed = [k \in 1 .. n |-> listed[k]]
    BY <1>1
  <2> QED BY <2>1, <2>2 DEF ListOf
<1> QED BY <1>1, <1>3, <1>5, <1>9, <1>10 DEF n, b
=============================================================================
