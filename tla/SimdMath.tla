------------------------------ MODULE SimdMath ------------------------------
(***************************************************************************)
(* What simd_math.h declares of the functions both builds define: the      *)
(* lanes each returns, and Undefined where a lane is left undefined.       *)
(***************************************************************************)
EXTENDS LaneNumbers

Constants ==
    LET axis(n) == [l \in Lanes |-> IF l = n THEN OnePattern ELSE {}]
    IN  [zero |-> Splat({}), one |-> Splat(OnePattern), x_axis |-> axis(1),
         y_axis |-> axis(2), z_axis |-> axis(3), w_axis |-> axis(4)]

FirstOf(f, n) == [l \in Lanes |-> IF l <= n THEN f[l] ELSE 0]

Loads(f, i) ==
    [op \in {"Load", "LoadPtr", "LoadPtrU"} |-> f]
    @@ [op \in {"Load1", "Load1PtrU"} |-> Splat(f[1])]
    @@ [op \in {"LoadX", "LoadXPtrU"} |-> FirstOf(f, 1)]
    @@ [Load2PtrU |-> FirstOf(f, 2), Load3PtrU |-> FirstOf(f, 3),
        FromInt |-> [l \in Lanes |-> Wrap(IntOf(i[l]))]]

Access(v, f, ith, memory) ==
    LET stored(n) == [l \in Lanes |-> IF l <= n THEN v[l] ELSE memory[l]]
    IN  [GetX |-> <<v[1]>>, GetY |-> <<v[2]>>, GetZ |-> <<v[3]>>, GetW |-> <<v[4]>>,
         SetX |-> [v EXCEPT ![1] = f[1]], SetY |-> [v EXCEPT ![2] = f[1]],
         SetZ |-> [v EXCEPT ![3] = f[1]], SetW |-> [v EXCEPT ![4] = f[1]],
         SetI |-> [v EXCEPT ![ith + 1] = f[1]],
         StorePtr |-> v, StorePtrU |-> v, Store1Ptr |-> stored(1), Store1PtrU |-> stored(1),
         Store2Ptr |-> stored(2), Store2PtrU |-> stored(2),
         Store3Ptr |-> stored(3), Store3PtrU |-> stored(3),
         SplatX |-> Splat(v[1]), SplatY |-> Splat(v[2]),
         SplatZ |-> Splat(v[3]), SplatW |-> Splat(v[4]),
         Swizzle3120 |-> <<v[4], v[2], v[3], v[1]>>, Swizzle0123 |-> v,
         Swizzle0101 |-> <<v[1], v[2], v[1], v[2]>>, Swizzle2323 |-> <<v[3], v[4], v[3], v[4]>>,
         Swizzle0011 |-> <<v[1], v[1], v[2], v[2]>>, Swizzle2233 |-> <<v[3], v[3], v[4], v[4]>>]

\* Row k of the result is column k of the argument, and 0 where that has ended.
Transposes(m) ==
    LET of(n, rows) == [k \in 1 .. rows |-> [l \in Lanes |-> IF l <= n THEN m[l][k] ELSE 0]]
    IN  [Transpose4x1 |-> of(4, 1), Transpose1x4 |-> of(1, 4), Transpose4x2 |-> of(4, 2),
         Transpose2x4 |-> of(2, 4), Transpose4x3 |-> of(4, 3), Transpose3x4 |-> of(3, 4),
         Transpose4x4 |-> of(4, 4),
         Transpose16x16 |->
            \* The sixteen scalars of a column of blocks, in the order of the rows.
            [n \in 1 .. 16 |->
                [l \in Lanes |-> m[4 * ((n - 1) % 4) + l][(n - 1) \div 4 + 1]]]]

Arithmetic(a, b, c) ==
    LET sum(n) == Dot(a, Splat(1), n)
        of(r)  == <<r, a[2], a[3], a[4]>>
        only(r) == <<r, Undefined, Undefined, Undefined>>
    IN  [MAdd |-> [l \in Lanes |-> Wrap(a[l] * b[l] + c[l])],
         MSub |-> [l \in Lanes |-> Wrap(a[l] * b[l] - c[l])],
         NMAdd |-> [l \in Lanes |-> Wrap(-a[l] * b[l] + c[l])],
         NMSub |-> [l \in Lanes |-> Wrap(-a[l] * b[l] - c[l])],
         DivX |-> of(Divide(a[1], b[1])),
         HAdd2 |-> of(sum(2)), HAdd3 |-> of(sum(3)), HAdd4 |-> of(sum(4)),
         Dot2 |-> only(Dot(a, b, 2)), Dot3 |-> only(Dot(a, b, 3)), Dot4 |-> only(Dot(a, b, 4)),
         Cross3 |-> <<Wrap(a[2] * b[3] - a[3] * b[2]), Wrap(a[3] * b[1] - a[1] * b[3]),
                      Wrap(a[1] * b[2] - a[2] * b[1]), 0>>]

\* A square root of 0, and the inverse of what has none, are not asked for.
Estimates(v) ==
    LET root == [l \in Lanes |-> SquareRoot[v[l]]]
        rcp  == [l \in Lanes |-> Reciprocal[v[l]]]
        rs   == [l \in Lanes |-> Reciprocal[root[l]]]
        of(r)   == <<r[1], v[2], v[3], v[4]>>
        only(r) == <<r[1], Undefined, Undefined, Undefined>>
    IN  [RcpEst |-> rcp, RcpEstNR |-> rcp, RcpEstX |-> of(rcp), RcpEstXNR |-> only(rcp),
         Sqrt |-> root, SqrtX |-> of(root), RSqrtEst |-> rs, RSqrtEstNR |-> rs,
         RSqrtEstX |-> of(rs), RSqrtEstXNR |-> only(rs)]

SignBits(v) ==
    [Abs |-> [l \in Lanes |-> v[l] \ {31}], Sign |-> [l \in Lanes |-> v[l] \cap {31}]]

Extremes(a, v, b) ==
    LET min(m, n) == IF m < n THEN m ELSE n
        max(m, n) == IF m > n THEN m ELSE n
        each(m, n) == [l \in Lanes |-> min(m[l], n[l])]
        most(m, n) == [l \in Lanes |-> max(m[l], n[l])]
    IN  [Min |-> each(a, b), Max |-> most(a, b), Min0 |-> each(v, Splat(0)),
         Max0 |-> most(v, Splat(0)),
         Clamp |-> [l \in Lanes |-> IF a[l] <= b[l] THEN min(b[l], max(a[l], v[l])) ELSE Undefined]]

Normal(v, n) ==
    [l \in Lanes |-> IF l <= n THEN Divide(v[l], SquareRoot[Dot(v, v, n)]) ELSE v[l]]

Lengths(v) ==
    LET only(r) == <<r, Undefined, Undefined, Undefined>>
        square(n) == Dot(v, v, n)
    IN  [Length2 |-> only(SquareRoot[square(2)]), Length3 |-> only(SquareRoot[square(3)]),
         Length4 |-> only(SquareRoot[square(4)]), Length2Sqr |-> only(square(2)),
         Length3Sqr |-> only(square(3)), Length4Sqr |-> only(square(4)),
         Normalize2 |-> Normal(v, 2), Normalize3 |-> Normal(v, 3), Normalize4 |-> Normal(v, 4),
         NormalizeEst2 |-> Normal(v, 2), NormalizeEst3 |-> Normal(v, 3),
         NormalizeEst4 |-> Normal(v, 4)]

SafeNormals(v, safe) ==
    LET is(n) == <<Mask(Dot(v, v, n) = 1), {}, {}, {}>>
        normal(n) ==
            IF Dot(v, v, n) # 0 THEN Normal(v, n)
            ELSE [l \in Lanes |-> IF l <= n THEN safe[l] ELSE v[l]]
    IN  [IsNormalized2 |-> is(2), IsNormalized3 |-> is(3), IsNormalized4 |-> is(4),
         IsNormalizedEst2 |-> is(2), IsNormalizedEst3 |-> is(3), IsNormalizedEst4 |-> is(4),
         NormalizeSafe2 |-> normal(2), NormalizeSafe3 |-> normal(3), NormalizeSafe4 |-> normal(4),
         NormalizeSafeEst2 |-> normal(2), NormalizeSafeEst3 |-> normal(3),
         NormalizeSafeEst4 |-> normal(4)]

Lerp(a, b, alpha) == [l \in Lanes |-> Wrap(a[l] + alpha[l] * (b[l] - a[l]))]

Trigonometry(v) ==
    LET each(n)  == [l \in Lanes |-> Opaque(n, v[l])]
        first(n) == [v EXCEPT ![1] = Opaque(n, v[1])]
    IN  [Cos |-> each(1), CosX |-> first(1), ACos |-> each(2), ACosX |-> first(2),
         Sin |-> each(3), SinX |-> first(3), ASin |-> each(4), ASinX |-> first(4),
         Tan |-> each(5), TanX |-> first(5), ATan |-> each(6), ATanX |-> first(6)]

\* All the bits of a lane of a mask are the same, "to ensure portability".
Bitwise(mask, a, b) ==
    LET bits(n) == [l \in Lanes |-> {p \in Bits : <<p \in a[l], p \in b[l]>> \in n}]
    IN  [Select |-> [l \in Lanes |-> CASE mask[l] = True -> a[l] [] mask[l] = {} -> b[l]
                                       [] OTHER -> Undefined],
         And |-> bits({<<TRUE, TRUE>>}), AndInt |-> bits({<<TRUE, TRUE>>}),
         AndNot |-> bits({<<TRUE, FALSE>>}),
         Or |-> bits({<<TRUE, TRUE>>, <<TRUE, FALSE>>, <<FALSE, TRUE>>}),
         OrInt |-> bits({<<TRUE, TRUE>>, <<TRUE, FALSE>>, <<FALSE, TRUE>>}),
         Xor |-> bits({<<TRUE, FALSE>>, <<FALSE, TRUE>>}),
         XorInt |-> bits({<<TRUE, FALSE>>, <<FALSE, TRUE>>})]

Comparisons(a, b) ==
    LET each(test) == [l \in Lanes |-> Mask(<<a[l] < b[l], a[l] > b[l]>> \in test)]
    IN  [CmpEq |-> each({<<FALSE, FALSE>>}), CmpNe |-> each({<<TRUE, FALSE>>, <<FALSE, TRUE>>}),
         CmpLt |-> each({<<TRUE, FALSE>>}), CmpGt |-> each({<<FALSE, TRUE>>}),
         CmpLe |-> each({<<TRUE, FALSE>>, <<FALSE, FALSE>>}),
         CmpGe |-> each({<<FALSE, TRUE>>, <<FALSE, FALSE>>})]

-----------------------------------------------------------------------------
(* Vectors of integers, by their values where they are numbers.            *)

IntConstants ==
    LET of(b, lanes) == [l \in Lanes |-> IF l \in lanes THEN b ELSE {}]
    IN  [op \in {"zero", "all_false", "mask_0000"} |-> of({}, Lanes)]
        @@ [op \in {"all_true", "mask_ffff"} |-> of(Bits, Lanes)]
        @@ [one |-> of({0}, Lanes), x_axis |-> of({0}, {1}), y_axis |-> of({0}, {2}),
            z_axis |-> of({0}, {3}), w_axis |-> of({0}, {4}),
            mask_sign |-> of({31}, Lanes), mask_not_sign |-> of(Bits \ {31}, Lanes),
            mask_sign_xyz |-> of({31}, 1 .. 3), mask_sign_w |-> of({31}, {4}),
            mask_fff0 |-> of(Bits, 1 .. 3), mask_f000 |-> of(Bits, {1}),
            mask_0f00 |-> of(Bits, {2}), mask_00f0 |-> of(Bits, {3}), mask_000f |-> of(Bits, {4})]

\* A half is as near to one integer as to the other.
Nearest(h) == IF h % 2 = 0 THEN IntBits(h \div 2) ELSE Undefined

IntLoads(i, test, halves) ==
    LET upTo(n) == [l \in Lanes |-> IF l <= n THEN i[l] ELSE {}]
    IN  [op \in {"Load", "LoadPtr", "LoadPtrU"} |-> i]
        @@ [op \in {"LoadX", "LoadXPtr", "LoadXPtrU"} |-> upTo(1)]
        @@ [op \in {"Load1", "Load1Ptr", "Load1PtrU"} |-> Splat(i[1])]
        @@ [op \in {"Load2Ptr", "Load2PtrU"} |-> upTo(2)]
        @@ [op \in {"Load3Ptr", "Load3PtrU"} |-> upTo(3)]
        @@ [LoadBool |-> [l \in Lanes |-> Mask(test[l])],
            LoadXBool |-> <<Mask(test[1]), {}, {}, {}>>, Load1Bool |-> Splat(Mask(test[1])),
            FromFloatRound |-> [l \in Lanes |-> Nearest(halves[l])],
            FromFloatTrunc |->
                [l \in Lanes |->
                    IF halves[l] >= 0 THEN IntBits(halves[l] \div 2)
                    ELSE IntBits(-(-halves[l] \div 2))]]

IntAccess(v, i, ith, memory) ==
    LET stored(n) == [l \in Lanes |-> IF l <= n THEN v[l] ELSE memory[l]]
    IN  [GetX |-> <<v[1]>>, GetY |-> <<v[2]>>, GetZ |-> <<v[3]>>, GetW |-> <<v[4]>>,
         SetX |-> [v EXCEPT ![1] = i[1]], SetY |-> [v EXCEPT ![2] = i[1]],
         SetZ |-> [v EXCEPT ![3] = i[1]], SetW |-> [v EXCEPT ![4] = i[1]],
         SetI |-> [v EXCEPT ![ith + 1] = i[1]],
         StorePtr |-> v, StorePtrU |-> v, Store1Ptr |-> stored(1), Store1PtrU |-> stored(1),
         Store2Ptr |-> stored(2), Store2PtrU |-> stored(2),
         Store3Ptr |-> stored(3), Store3PtrU |-> stored(3),
         SplatX |-> Splat(v[1]), SplatY |-> Splat(v[2]),
         SplatZ |-> Splat(v[3]), SplatW |-> Splat(v[4]),
         Swizzle3120 |-> <<v[4], v[2], v[3], v[1]>>, Swizzle0123 |-> v]

IntReductions(v) ==
    LET true(n)  == <<{} \notin {v[l] : l \in 1 .. n}>>
        false(n) == <<{v[l] : l \in 1 .. n} = {{}}>>
        value[n \in 0 .. 4] == IF n = 0 THEN 0 ELSE value[n - 1] + IntOf(v[n])
        sum(n)   == [v EXCEPT ![1] = IntBits(value[n])]
    IN  [MoveMask |-> <<{l - 1 : l \in {k \in Lanes : IntOf(v[k]) < 0}}>>,
         AreAllTrue |-> true(4), AreAllTrue3 |-> true(3), AreAllTrue2 |-> true(2),
         AreAllTrue1 |-> true(1), AreAllFalse |-> false(4), AreAllFalse3 |-> false(3),
         AreAllFalse2 |-> false(2), AreAllFalse1 |-> false(1),
         HAdd2 |-> sum(2), HAdd3 |-> sum(3), HAdd4 |-> sum(4)]

IntOperations(a, v, b, mask, bits) ==
    LET n(u, l) == IntOf(u[l])
        of(value) == [l \in Lanes |-> IntBits(value[l])]
        lesser(m, k)  == IF m < k THEN m ELSE k
        greater(m, k) == IF m < k THEN k ELSE m
        each(test) == [l \in Lanes |->
                          Mask(<<n(a, l) < n(b, l), n(a, l) > n(b, l)>> \in test)]
    IN  [Abs |-> of([l \in Lanes |-> greater(n(v, l), -n(v, l))]),
         Sign |-> [l \in Lanes |-> IF n(v, l) < 0 THEN {31} ELSE {}],
         Min |-> of([l \in Lanes |-> lesser(n(a, l), n(b, l))]),
         Max |-> of([l \in Lanes |-> greater(n(a, l), n(b, l))]),
         Min0 |-> of([l \in Lanes |-> lesser(n(v, l), 0)]),
         Max0 |-> of([l \in Lanes |-> greater(n(v, l), 0)]),
         Clamp |-> [l \in Lanes |->
                       IF n(a, l) > n(b, l) THEN Undefined
                       ELSE IntBits(lesser(n(b, l), greater(n(a, l), n(v, l))))],
         ShiftL |-> [l \in Lanes |-> {p \in Bits : p - bits \in v[l]}],
         ShiftR |-> of([l \in Lanes |-> n(v, l) \div 2 ^ bits]),
         ShiftRu |-> [l \in Lanes |-> {p \in Bits : p + bits \in v[l]}],
         Not |-> of([l \in Lanes |-> -n(v, l) - 1]),
         CmpEq |-> each({<<FALSE, FALSE>>}), CmpNe |-> each({<<TRUE, FALSE>>, <<FALSE, TRUE>>}),
         CmpLt |-> each({<<TRUE, FALSE>>}), CmpGt |-> each({<<FALSE, TRUE>>}),
         CmpLe |-> each({<<TRUE, FALSE>>, <<FALSE, FALSE>>}),
         CmpGe |-> each({<<FALSE, TRUE>>, <<FALSE, FALSE>>})]
        @@ [op \in {"Select", "And", "AndNot", "Or", "Xor"} |-> Bitwise(mask, a, b)[op]]

-----------------------------------------------------------------------------
(* Matrices by their algebra and that of rotations, operators, halves.     *)

Axes == [k \in Lanes |-> [l \in Lanes |-> IF l = k THEN 1 ELSE 0]]

\* The product of a matrix and a vector, and of two matrices.
ByVector(m, v) == [l \in Lanes |-> Dot([k \in Lanes |-> m[k][l]], v, 4)]

Product(m, n) == [k \in Lanes |-> ByVector(m, n[k])]

-----------------------------------------------------------------------------
(* Inverses, of matrices whose determinant is not 0.                       *)

Orders == {p \in [Lanes -> Lanes] : \A k, l \in Lanes : k # l => p[k] # p[l]}

Sign(p) ==
    IF Cardinality({e \in Lanes \X Lanes : e[1] < e[2] /\ p[e[1]] > p[e[2]]}) % 2 = 0 THEN 1 ELSE -1

Determinant(m) ==
    Wrap(FoldSet(LAMBDA p, sum : sum + Sign(p) * Wrap(m[1][p[1]] * m[2][p[2]])
                                              * Wrap(m[3][p[3]] * m[4][p[4]]), 0, Orders))

\* By Cramer's rule.
Inverses(m) ==
    LET det == Determinant(m)
    IN  [columns |->
            IF det = 0 THEN Splat(Undefined)
            ELSE [k \in Lanes |-> [l \in Lanes |-> Divide(Determinant([m EXCEPT ![l] = Axes[k]]), det)]],
         invertible |-> <<Mask(det # 0)>>]

-----------------------------------------------------------------------------
(* What makes matrices of vectors.  w is ignored.                          *)

Translation(v) == [Axes EXCEPT ![4] = <<v[1], v[2], v[3], 1>>]

Scaling(v) == [k \in Lanes |-> [l \in Lanes |-> IF l # k THEN 0 ELSE IF k = 4 THEN 1 ELSE v[k]]]

Makers(v) == [Translation |-> Translation(v), Scaling |-> Scaling(v), identity |-> Axes]

\* A rotation of the three first axes.
Rotating(images) == [k \in Lanes |-> IF k = 4 THEN Axes[4] ELSE Append(images[k], 0)]

\* Rodrigues' formula.
Around(axis, angle) ==
    LET cos == Opaque(1, angle)
        sin == Opaque(3, angle)
        cross(v) == Arithmetic(axis, v, v).Cross3
        image(v) == [l \in 1 .. 3 |-> Wrap(v[l] * cos + cross(v)[l] * sin
                                           + Wrap(axis[l] * Dot(axis, v, 3)) * (1 - cos))]
    IN  Rotating([k \in 1 .. 3 |-> image(Axes[k])])

FromAxisAngle(axis, angle) == [FromAxisAngle |-> Around(axis, angle[1])]

\* Heading, elevation and bank.
FromEuler(v) ==
    [FromEuler |-> Product(Product(Around(Axes[2], v[1]), Around(Axes[1], v[2])),
                           Around(Axes[3], v[3]))]

\* Hamilton's product, and what a quaternion makes of a vector.
Hamilton(p, q) ==
    LET cross == Arithmetic(p, q, q).Cross3
    IN  [l \in Lanes |-> IF l = 4 THEN Wrap(p[4] * q[4] - Dot(p, q, 3))
                         ELSE Wrap(p[4] * q[l] + q[4] * p[l] + cross[l])]

Rotated(q, v) ==
    LET conjugate == <<-q[1], -q[2], -q[3], q[4]>>
    IN  SubSeq(Hamilton(Hamilton(q, <<v[1], v[2], v[3], 0>>), conjugate), 1, 3)

Rotation(q) == Rotating([k \in 1 .. 3 |-> Rotated(q, Axes[k])])

FromQuaternion(q) == [FromQuaternion |-> Rotation(q)]

FromAffine(t, q, s) ==
    [FromAffine |-> Product(Product(Translation(t), Rotation(q)), Scaling(s))]

-----------------------------------------------------------------------------
(* What takes matrices apart.                                              *)

\* Of the quaternion a rotation gives: its square, and the rotation it gives back.
ToQuaternions(m) == [square |-> <<1>>, rotation |-> m]

\* Of the parts of a matrix: whether there are any, and the matrix they give back.
Affines(m) ==
    LET able == Cardinality({k \in 1 .. 3 : Dot(m[k], m[k], 3) = 0}) <= 1
    IN  [able |-> <<able>>, matrix |-> IF able THEN m ELSE Splat(Undefined)]

\* That the first two columns are askew is not seen in their cross product.
Tests(m) ==
    LET normal == [k \in Lanes |-> k # 4 /\ Dot(m[k], m[k], 3) = 1]
        cross  == Arithmetic(m[1], m[2], m[2]).Cross3
        askew  == Dot(m[1], m[2], 3) # 0
    IN  [IsNormalized |-> [k \in Lanes |-> Mask(normal[k])],
         IsOrthogonal |->
            <<IF askew THEN Undefined
              ELSE Mask(\E n \in 1 .. Half : /\ Dot(m[3], m[3], 3) # 0
                                             /\ Dot(cross, cross, 3) # 0
                                             /\ \A l \in 1 .. 3 : Wrap(n * cross[l])
                                                    = Divide(m[3][l], SquareRoot[Dot(m[3], m[3], 3)])),
              {}, {}, {}>>]

-----------------------------------------------------------------------------
(* What combines them.                                                     *)

Transformed(m, v) ==
    [Transpose |-> [k \in Lanes |-> [l \in Lanes |-> m[l][k]]],
     Translate |-> Product(m, Translation(v)), Scale |-> Product(m, Scaling(v)),
     ColumnMultiply |-> [k \in Lanes |-> [l \in Lanes |-> Wrap(m[k][l] * v[l])]],
     TransformPoint |-> ByVector(m, [v EXCEPT ![4] = 1]),
     TransformVector |-> ByVector(m, [v EXCEPT ![4] = 0]), product |-> ByVector(m, v)]

Products(m, n) ==
    LET each(sign) == [k \in Lanes |-> [l \in Lanes |-> Wrap(m[k][l] + sign * n[k][l])]]
    IN  [product |-> Product(m, n), sum |-> each(1), difference |-> each(-1)]

Operators(a, b) ==
    LET each(f) == [l \in Lanes |-> Wrap(f[l])]
    IN  [plus |-> each([l \in Lanes |-> a[l] + b[l]]), minus |-> each([l \in Lanes |-> a[l] - b[l]]),
         negate |-> each([l \in Lanes |-> -a[l]]), times |-> each([l \in Lanes |-> a[l] * b[l]]),
         over |-> [l \in Lanes |-> Divide(a[l], b[l])]]

-----------------------------------------------------------------------------
(* Halves: the nearest, and the float that is one.                         *)

\* The float that is n times 2 ^ -25.
Small(n) ==
    LET e == CHOOSE k \in 102 .. 112 : n \div 2 ^ (k - 102) = 1
    IN  IF n = 0 THEN 0 ELSE (e - 1) * 2 ^ 23 + n * 2 ^ (125 - e)

FloatOf(h) ==
    CASE h < 2 ^ 10 -> Small(2 * h)
      [] h \in 2 ^ 10 .. 31 * 2 ^ 10 - 1 -> (h + 112 * 2 ^ 10) * 2 ^ 13
      [] h >= 31 * 2 ^ 10 -> FloatInfinity + (h - 31 * 2 ^ 10) * 2 ^ 13

\* What lies as near to a half as to the next is that of either.
NearestHalf(f) ==
    LET below  == CASE f >= FloatOf(2 ^ 10) -> LET h == f \div 2 ^ 13 - 112 * 2 ^ 10
                                               IN  IF h > 31 * 2 ^ 10 THEN 31 * 2 ^ 10 ELSE h
                    [] f < FloatOf(2 ^ 10) -> CHOOSE h \in 0 .. 2 ^ 10 - 1 :
                                                FloatOf(h) <= f /\ f < FloatOf(h + 1)
        middle == IF below < 2 ^ 10 THEN Small(2 * below + 1) ELSE (below + 112 * 2 ^ 10) * 2 ^ 13 + 2 ^ 12
    IN  CASE f > FloatInfinity -> 31 * 2 ^ 10 + 2 ^ 9
          [] f <= FloatInfinity /\ (below = 31 * 2 ^ 10 \/ f < middle) -> below
          [] f <= FloatInfinity /\ below < 31 * 2 ^ 10 /\ f = middle -> Undefined
          [] f <= FloatInfinity /\ below < 31 * 2 ^ 10 /\ f > middle -> below + 1

HalfFloats(f, h) ==
    LET nearest == NearestHalf(f[2])
    IN  [FloatToHalf |-> <<IF nearest = Undefined THEN Undefined ELSE <<f[1], nearest>>>>,
         HalfToFloat |-> <<<<h[1], FloatOf(h[2])>>>>]

-----------------------------------------------------------------------------

\* What the functions of a group return: a call is the group and its arguments.
Returned(c) ==
    CASE c[1] = "Constants" -> Constants
      [] c[1] = "Loads" -> Loads(c[2], c[3])
      [] c[1] = "Access" -> Access(c[2], c[3], c[4], c[5])
      [] c[1] = "Transposes" -> Transposes(c[2])
      [] c[1] = "Arithmetic" -> Arithmetic(c[2], c[3], c[4])
      [] c[1] = "Estimates" -> Estimates(c[2])
      [] c[1] = "SignBits" -> SignBits(c[2])
      [] c[1] = "Lengths" -> Lengths(c[2])
      [] c[1] = "SafeNormals" -> SafeNormals(c[2], c[3])
      [] c[1] = "Lerp" -> [Lerp |-> Lerp(c[2], c[3], c[4])]
      [] c[1] = "Extremes" -> Extremes(c[2], c[3], c[4])
      [] c[1] = "Comparisons" -> Comparisons(c[2], c[3])
      [] c[1] = "Bitwise" -> Bitwise(c[2], c[3], c[4])
      [] c[1] = "Trigonometry" -> Trigonometry(c[2])
      [] c[1] = "IntConstants" -> IntConstants
      [] c[1] = "IntLoads" -> IntLoads(c[2], c[3], c[4])
      [] c[1] = "IntAccess" -> IntAccess(c[2], c[3], c[4], c[5])
      [] c[1] = "IntReductions" -> IntReductions(c[2])
      [] c[1] = "IntOperations" -> IntOperations(c[2], c[3], c[4], c[5], c[6])
      [] c[1] = "Inverses" -> Inverses(c[2])
      [] c[1] = "Makers" -> Makers(c[2])
      [] c[1] = "FromAxisAngle" -> FromAxisAngle(c[2], c[3])
      [] c[1] = "FromEuler" -> FromEuler(c[2])
      [] c[1] = "FromQuaternion" -> FromQuaternion(c[2])
      [] c[1] = "FromAffine" -> FromAffine(c[2], c[3], c[4])
      [] c[1] = "Rotations" -> ToQuaternions(c[2])
      [] c[1] = "Affines" -> Affines(c[2])
      [] c[1] = "Tests" -> Tests(c[2])
      [] c[1] = "Transforms" -> Transformed(c[2], c[3])
      [] c[1] = "Products" -> Products(c[2], c[3])
      [] c[1] = "Operators" -> Operators(c[2], c[3])
      [] c[1] = "HalfFloats" -> HalfFloats(c[2], c[3])
=============================================================================
