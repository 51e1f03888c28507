--------------------------- MODULE SimdReference ----------------------------
(***************************************************************************)
(* simd_math.h on four scalars (internal/simd_math_ref-inl.h): what a      *)
(* processor without SSE runs, and a build that asks for it.  Definitions  *)
(* are named as those of SimdSse, function by function.                    *)
(***************************************************************************)
EXTENDS LaneNumbers

x == 1
y == 2
z == 3
w == 4

ZeroLanes == Splat(0)

\* Where a function has one result it leaves x of its argument in the other lanes.
First(r, v) == <<r, v[x], v[x], v[x]>>

-----------------------------------------------------------------------------
(* Vectors of floats.                                                      *)

Constants ==
    LET axis(n) == [l \in Lanes |-> IF l = n THEN OnePattern ELSE {}]
    IN  [zero |-> Splat({}), one |-> Splat(OnePattern), x_axis |-> axis(x),
         y_axis |-> axis(y), z_axis |-> axis(z), w_axis |-> axis(w)]

Loads(f, i) ==
    LET upTo(n) == [l \in Lanes |-> IF l <= n THEN f[l] ELSE 0]
    IN  [Load |-> f, LoadX |-> upTo(1), Load1 |-> Splat(f[1]),
         LoadPtr |-> f, LoadPtrU |-> f, LoadXPtrU |-> upTo(1), Load1PtrU |-> Splat(f[1]),
         Load2PtrU |-> upTo(2), Load3PtrU |-> upTo(3),
         FromInt |-> [l \in Lanes |-> Wrap(IntOf(i[l]))]]

Access(v, f, ith, memory) ==
    LET store(n) == [l \in Lanes |-> IF l <= n THEN v[l] ELSE memory[l]]
        swizzle(a, b, c, d) == <<v[a + 1], v[b + 1], v[c + 1], v[d + 1]>>
    IN  [GetX |-> <<v[x]>>, GetY |-> <<v[y]>>, GetZ |-> <<v[z]>>, GetW |-> <<v[w]>>,
         SetX |-> <<f[x], v[y], v[z], v[w]>>, SetY |-> <<v[x], f[x], v[z], v[w]>>,
         SetZ |-> <<v[x], v[y], f[x], v[w]>>, SetW |-> <<v[x], v[y], v[z], f[x]>>,
         SetI |-> [v EXCEPT ![ith + 1] = f[x]],
         StorePtr |-> store(4), Store1Ptr |-> store(1), Store2Ptr |-> store(2),
         Store3Ptr |-> store(3), StorePtrU |-> store(4), Store1PtrU |-> store(1),
         Store2PtrU |-> store(2), Store3PtrU |-> store(3),
         SplatX |-> Splat(v[x]), SplatY |-> Splat(v[y]),
         SplatZ |-> Splat(v[z]), SplatW |-> Splat(v[w]),
         Swizzle3120 |-> swizzle(3, 1, 2, 0), Swizzle0123 |-> swizzle(0, 1, 2, 3),
         Swizzle0101 |-> swizzle(0, 1, 0, 1), Swizzle2323 |-> swizzle(2, 3, 2, 3),
         Swizzle0011 |-> swizzle(0, 0, 1, 1), Swizzle2233 |-> swizzle(2, 2, 3, 3)]

Transposes(m) ==
    LET column(n, l) == <<m[n][l], m[n + 1][l], m[n + 2][l], m[n + 3][l]>>
        rows(n)      == [l \in 1 .. n |-> column(1, l)]
        padded(n)    == [l \in Lanes |-> [k \in Lanes |-> IF k <= n THEN m[k][l] ELSE 0]]
    IN  [Transpose4x1 |-> rows(1), Transpose1x4 |-> padded(1),
         Transpose4x2 |-> rows(2), Transpose2x4 |-> padded(2),
         Transpose4x3 |-> rows(3), Transpose3x4 |-> padded(3), Transpose4x4 |-> rows(4),
         Transpose16x16 |->
            [n \in 1 .. 16 |-> column(4 * ((n - 1) % 4) + 1, (n - 1) \div 4 + 1)]]

Arithmetic(a, b, c) ==
    LET cross(m, n) == Wrap(a[m] * b[n] - a[n] * b[m])
        sum(v, n)   == Dot(v, Splat(1), n)
    IN  [MAdd |-> Plus(Times(a, b), c), MSub |-> Minus(Times(a, b), c),
         NMAdd |-> Minus(c, Times(a, b)), NMSub |-> Minus(Times(Negative(a), b), c),
         DivX |-> <<Divide(a[x], b[x]), a[y], a[z], a[w]>>,
         HAdd2 |-> <<sum(a, 2), a[y], a[z], a[w]>>, HAdd3 |-> <<sum(a, 3), a[y], a[z], a[w]>>,
         HAdd4 |-> First(sum(a, 4), a),
         Dot2 |-> First(Dot(a, b, 2), a), Dot3 |-> First(Dot(a, b, 3), a),
         Dot4 |-> First(Dot(a, b, 4), a),
         Cross3 |-> <<cross(y, z), cross(z, x), cross(x, y), 0>>]

\* OZZ_RCP_EST to OZZ_RSQRT_EST_NR: a guess from the bits, that steps of Newton's refine.
RcpEst(n) == LET ui == Reciprocal[n]
                 fp == Wrap(ui * (2 - Wrap(n * ui)))
             IN  Wrap(fp * (2 - Wrap(n * fp)))

RcpEstNR(n) == Wrap(RcpEst(n) * (2 - Wrap(n * RcpEst(n))))

Halves(n) == Wrap(n * Reciprocal[2])

RSqrtStep(n, fp) == Wrap(fp * (Halves(3) - Wrap(Halves(n) * Wrap(fp * fp))))

RSqrtEst(n) == RSqrtStep(n, RSqrtStep(n, Reciprocal[SquareRoot[n]]))

RSqrtEstNR(n) == RSqrtStep(n, RSqrtEst(n))

Estimates(v) ==
    [RcpEst |-> [l \in Lanes |-> RcpEst(v[l])], RcpEstNR |-> [l \in Lanes |-> RcpEstNR(v[l])],
     RcpEstX |-> <<RcpEst(v[x]), v[y], v[z], v[w]>>, RcpEstXNR |-> First(RcpEst(v[x]), v),
     Sqrt |-> [l \in Lanes |-> SquareRoot[v[l]]], SqrtX |-> <<SquareRoot[v[x]], v[y], v[z], v[w]>>,
     RSqrtEst |-> [l \in Lanes |-> RSqrtEst(v[l])],
     RSqrtEstNR |-> [l \in Lanes |-> RSqrtEstNR(v[l])],
     RSqrtEstX |-> <<RSqrtEst(v[x]), v[y], v[z], v[w]>>,
     RSqrtEstXNR |-> First(RSqrtEst(v[x]), v)]

SignBits(v) ==
    [Abs |-> [l \in Lanes |-> v[l] \ {31}], Sign |-> [l \in Lanes |-> v[l] \cap {31}]]

\* The first n lanes times a factor.
Scaled(v, n, factor) == [l \in Lanes |-> IF l <= n THEN Wrap(v[l] * factor) ELSE v[l]]

Lengths(v) ==
    LET square(n) == Dot(v, v, n)
        normal(n) == Scaled(v, n, Divide(1, SquareRoot[square(n)]))
        est(n)    == Scaled(v, n, RSqrtEst(square(n)))
    IN  [Length2 |-> First(SquareRoot[square(2)], v), Length3 |-> First(SquareRoot[square(3)], v),
         Length4 |-> First(SquareRoot[square(4)], v),
         Length2Sqr |-> First(square(2), v), Length3Sqr |-> First(square(3), v),
         Length4Sqr |-> First(square(4), v),
         Normalize2 |-> normal(2), Normalize3 |-> normal(3), Normalize4 |-> normal(4),
         NormalizeEst2 |-> est(2), NormalizeEst3 |-> est(3), NormalizeEst4 |-> est(4)]

SafeNormals(v, safe) ==
    LET square(n) == Dot(v, v, n)
        within(n) == <<Mask(-1 < 2 * (square(n) - 1) /\ 2 * (square(n) - 1) < 1), {}, {}, {}>>
        safely(n, factor) ==
            IF square(n) = 0 THEN [l \in Lanes |-> IF l <= n THEN safe[l] ELSE v[l]]
            ELSE Scaled(v, n, factor)
        normal(n) == safely(n, Divide(1, SquareRoot[square(n)]))
        est(n)    == safely(n, RSqrtEst(square(n)))
    IN  [IsNormalized2 |-> within(2), IsNormalized3 |-> within(3), IsNormalized4 |-> within(4),
         IsNormalizedEst2 |-> within(2), IsNormalizedEst3 |-> within(3),
         IsNormalizedEst4 |-> within(4),
         NormalizeSafe2 |-> normal(2), NormalizeSafe3 |-> normal(3),
         NormalizeSafe4 |-> normal(4), NormalizeSafeEst2 |-> est(2),
         NormalizeSafeEst3 |-> est(3), NormalizeSafeEst4 |-> est(4)]

Lerp(a, b, alpha) == Plus(Times(Minus(b, a), alpha), a)

Smaller(m, n) == IF Less(m, n) THEN m ELSE n

Greater(m, n) == IF Less(n, m) THEN m ELSE n

Extremes(a, v, b) ==
    [Min |-> [l \in Lanes |-> Smaller(a[l], b[l])], Max |-> [l \in Lanes |-> Greater(a[l], b[l])],
     Min0 |-> [l \in Lanes |-> Smaller(v[l], 0)], Max0 |-> [l \in Lanes |-> Greater(v[l], 0)],
     Clamp |-> [l \in Lanes |-> Greater(a[l], Smaller(v[l], b[l]))]]

Comparisons(a, b) ==
    [CmpEq |-> [l \in Lanes |-> Mask(Equal(a[l], b[l]))],
     CmpNe |-> [l \in Lanes |-> Mask(~Equal(a[l], b[l]))],
     CmpLt |-> [l \in Lanes |-> Mask(Less(a[l], b[l]))],
     CmpLe |-> [l \in Lanes |-> Mask(Less(a[l], b[l]) \/ Equal(a[l], b[l]))],
     CmpGt |-> [l \in Lanes |-> Mask(Less(b[l], a[l]))],
     CmpGe |-> [l \in Lanes |-> Mask(Less(b[l], a[l]) \/ Equal(a[l], b[l]))]]

Selected(b, t, f) == Xor(f, b \cap Xor(t, f))

Bitwise(mask, a, b) ==
    LET and == [l \in Lanes |-> a[l] \cap b[l]]
        or  == [l \in Lanes |-> a[l] \cup b[l]]
        xor == [l \in Lanes |-> Xor(a[l], b[l])]
    IN  [Select |-> [l \in Lanes |-> Selected(mask[l], a[l], b[l])],
         And |-> and, Or |-> or, Xor |-> xor, AndInt |-> and,
         AndNot |-> [l \in Lanes |-> a[l] \cap Not(b[l])], OrInt |-> or, XorInt |-> xor]

Trigonometry(v) ==
    LET each(n)  == [l \in Lanes |-> Opaque(n, v[l])]
        first(n) == <<Opaque(n, v[x]), v[y], v[z], v[w]>>
    IN  [Cos |-> each(1), CosX |-> first(1), ACos |-> each(2), ACosX |-> first(2),
         Sin |-> each(3), SinX |-> first(3), ASin |-> each(4), ASinX |-> first(4),
         Tan |-> each(5), TanX |-> first(5), ATan |-> each(6), ATanX |-> first(6)]

-----------------------------------------------------------------------------
(* Vectors of integers.                                                    *)

IntConstants ==
    LET of(b, lanes) == [l \in Lanes |-> IF l \in lanes THEN b ELSE {}]
        Unit == {0}  Sign == {31}
    IN  [zero |-> of({}, Lanes), one |-> of(Unit, Lanes), x_axis |-> of(Unit, {x}),
         y_axis |-> of(Unit, {y}), z_axis |-> of(Unit, {z}), w_axis |-> of(Unit, {w}),
         all_true |-> of(Not({}), Lanes), all_false |-> of({}, Lanes),
         mask_sign |-> of(Sign, Lanes), mask_sign_xyz |-> of(Sign, {x, y, z}),
         mask_sign_w |-> of(Sign, {w}), mask_not_sign |-> of(0 .. 30, Lanes),
         mask_ffff |-> of(Not({}), Lanes), mask_fff0 |-> of(Not({}), {x, y, z}),
         mask_0000 |-> of({}, Lanes), mask_f000 |-> of(Not({}), {x}),
         mask_0f00 |-> of(Not({}), {y}), mask_00f0 |-> of(Not({}), {z}),
         mask_000f |-> of(Not({}), {w})]

IntLoads(i, test, halves) ==
    LET bool(l) == IF test[l] THEN IntBits(-1) ELSE {}
        upTo(n) == [l \in Lanes |-> IF l <= n THEN i[l] ELSE {}]
        truncated(h) == IF h < 0 THEN -(-h \div 2) ELSE h \div 2
    IN  [Load |-> i, LoadX |-> upTo(1), Load1 |-> Splat(i[x]),
         LoadBool |-> [l \in Lanes |-> bool(l)], LoadXBool |-> <<bool(x), {}, {}, {}>>,
         Load1Bool |-> Splat(bool(x)),
         LoadPtr |-> i, LoadXPtr |-> upTo(1), Load1Ptr |-> Splat(i[x]),
         Load2Ptr |-> upTo(2), Load3Ptr |-> upTo(3), LoadPtrU |-> i, LoadXPtrU |-> upTo(1),
         Load1PtrU |-> Splat(i[x]), Load2PtrU |-> upTo(2), Load3PtrU |-> upTo(3),
         FromFloatRound |-> [l \in Lanes |-> IntBits((halves[l] + 1) \div 2)],
         FromFloatTrunc |-> [l \in Lanes |-> IntBits(truncated(halves[l]))]]

IntAccess(v, i, ith, memory) ==
    LET store(n) == [l \in Lanes |-> IF l <= n THEN v[l] ELSE memory[l]]
        swizzle(a, b, c, d) == <<v[a + 1], v[b + 1], v[c + 1], v[d + 1]>>
    IN  [GetX |-> <<v[x]>>, GetY |-> <<v[y]>>, GetZ |-> <<v[z]>>, GetW |-> <<v[w]>>,
         SetX |-> <<i[x], v[y], v[z], v[w]>>, SetY |-> <<v[x], i[x], v[z], v[w]>>,
         SetZ |-> <<v[x], v[y], i[x], v[w]>>, SetW |-> <<v[x], v[y], v[z], i[x]>>,
         SetI |-> [v EXCEPT ![ith + 1] = i[x]],
         StorePtr |-> store(4), Store1Ptr |-> store(1), Store2Ptr |-> store(2),
         Store3Ptr |-> store(3), StorePtrU |-> store(4), Store1PtrU |-> store(1),
         Store2PtrU |-> store(2), Store3PtrU |-> store(3),
         SplatX |-> Splat(v[x]), SplatY |-> Splat(v[y]),
         SplatZ |-> Splat(v[z]), SplatW |-> Splat(v[w]),
         Swizzle3120 |-> swizzle(3, 1, 2, 0), Swizzle0123 |-> swizzle(0, 1, 2, 3)]

\* The tests look at whole lanes.
IntReductions(v) ==
    LET true(n)  == <<\A l \in 1 .. n : v[l] # {}>>
        false(n) == <<\A l \in 1 .. n : v[l] = {}>>
        sum[n \in Lanes] == IF n = 1 THEN v[1] ELSE Sum(sum[n - 1], v[n])
        add(n)   == <<sum[n], v[y], v[z], v[w]>>
    IN  [MoveMask |-> <<{l - 1 : l \in {k \in Lanes : 31 \in v[k]}}>>,
         AreAllTrue |-> true(4), AreAllTrue3 |-> true(3), AreAllTrue2 |-> true(2),
         AreAllTrue1 |-> true(1), AreAllFalse |-> false(4), AreAllFalse3 |-> false(3),
         AreAllFalse2 |-> false(2), AreAllFalse1 |-> false(1),
         HAdd2 |-> add(2), HAdd3 |-> add(3), HAdd4 |-> add(4)]

IntSmaller(m, n) == IF IntLess(m, n) THEN m ELSE n

IntGreater(m, n) == IF IntLess(n, m) THEN m ELSE n

IntExtremes(a, v, b) ==
    LET mash(n) == ShiftArithmetic(n, 31)
    IN  [Abs |-> [l \in Lanes |-> Xor(Sum(v[l], mash(v[l])), mash(v[l]))],
         Sign |-> [l \in Lanes |-> v[l] \cap {31}],
         Min |-> [l \in Lanes |-> IntSmaller(a[l], b[l])],
         Max |-> [l \in Lanes |-> IntGreater(a[l], b[l])],
         Min0 |-> [l \in Lanes |-> IntSmaller(v[l], {})],
         Max0 |-> [l \in Lanes |-> IntGreater(v[l], {})],
         Clamp |-> [l \in Lanes |-> IntGreater(a[l], IntSmaller(v[l], b[l]))]]

IntBitwise(a, v, b, mask, bits) ==
    LET compare(test) == [l \in Lanes |-> Mask(<<IntLess(a[l], b[l]), a[l] = b[l]>> \in test)]
        less == <<TRUE, FALSE>>  equal == <<FALSE, TRUE>>  greater == <<FALSE, FALSE>>
    IN  [Select |-> [l \in Lanes |-> Selected(mask[l], a[l], b[l])],
         And |-> [l \in Lanes |-> a[l] \cap b[l]],
         AndNot |-> [l \in Lanes |-> a[l] \cap Not(b[l])],
         Or |-> [l \in Lanes |-> a[l] \cup b[l]], Xor |-> [l \in Lanes |-> Xor(a[l], b[l])],
         Not |-> [l \in Lanes |-> Not(v[l])],
         ShiftL |-> [l \in Lanes |-> ShiftLeft(v[l], bits)],
         ShiftR |-> [l \in Lanes |-> ShiftArithmetic(v[l], bits)],
         ShiftRu |-> [l \in Lanes |-> ShiftRight(v[l], bits)],
         CmpEq |-> compare({equal}), CmpNe |-> compare({less, greater}),
         CmpLt |-> compare({less}), CmpLe |-> compare({less, equal}),
         CmpGt |-> compare({greater}), CmpGe |-> compare({greater, equal})]

IntOperations(a, v, b, mask, bits) ==
    IntExtremes(a, v, b) @@ IntBitwise(a, v, b, mask, bits)

-----------------------------------------------------------------------------
(* Matrices on sixteen scalars, operators and halves.                      *)

Axes == [k \in Lanes |-> [l \in Lanes |-> IF l = k THEN 1 ELSE 0]]

TransposeMatrix(m) == [k \in Lanes |-> [l \in Lanes |-> m[l][k]]]

\* One column of cofactors: of a column, with the minors of two others.
Cofactors(c, p, q) ==
    LET minor(i, j) == p[i] * q[j] - q[i] * p[j]
    IN  <<Wrap(c[y] * minor(z, w) - c[z] * minor(y, w) + c[w] * minor(y, z)),
          Wrap(-c[x] * minor(z, w) + c[z] * minor(x, w) - c[w] * minor(x, z)),
          Wrap(c[x] * minor(y, w) - c[y] * minor(x, w) + c[w] * minor(x, y)),
          Wrap(-c[x] * minor(y, z) + c[y] * minor(x, z) - c[z] * minor(x, y))>>

Invert(m) ==
    LET minors == <<Cofactors(m[2], m[3], m[4]), Negative(Cofactors(m[1], m[3], m[4])),
                    Cofactors(m[1], m[2], m[4]), Negative(Cofactors(m[1], m[2], m[3]))>>
        det == Dot(m[1], minors[1], 4)
    IN  [columns |-> [k \in Lanes |-> [l \in Lanes |-> Divide(minors[l][k], det)]],
         invertible |-> <<Mask(det # 0), {}, {}, {}>>]

Translation(v) == [Axes EXCEPT ![4] = <<v[x], v[y], v[z], 1>>]

Scaling(v) == <<<<v[x], 0, 0, 0>>, <<0, v[y], 0, 0>>, <<0, 0, v[z], 0>>, Axes[4]>>

\* Translate, Scale and ColumnMultiply.
Translate(m, v) ==
    [m EXCEPT ![4] =
        [l \in Lanes |-> Wrap(m[1][l] * v[x] + m[2][l] * v[y] + m[3][l] * v[z] + m[4][l])]]

Scale(m, v) == [k \in Lanes |-> [l \in Lanes |-> IF k = 4 THEN m[4][l] ELSE Wrap(m[k][l] * v[k])]]

ColumnMultiply(m, v) == [k \in Lanes |-> [l \in Lanes |-> Wrap(m[k][l] * v[l])]]

\* IsNormalized and IsNormalizedEst of the columns.
IsNormalizedMatrix(m) ==
    [l \in Lanes |-> IF l = 4 THEN {} ELSE SafeNormals(m[l], ZeroLanes).IsNormalized3[x]]

Cross3(a, b) == Arithmetic(a, b, b).Cross3

IsOrthogonal(m) ==
    LET cross  == SafeNormals(Cross3(m[1], m[2]), ZeroLanes).NormalizeSafe3
        at     == SafeNormals(m[3], ZeroLanes).NormalizeSafe3
        sq_len == Dot(cross, at, 3)
    IN  <<Mask(-1 < 2 * (sq_len - 1) /\ 2 * (sq_len - 1) < 1), {}, {}, {}>>

\* The quaternion of a matrix, by its trace or by the largest of its diagonal.
ToQuaternion(m) ==
    LET xx == m[1][x]  yy == m[2][y]  zz == m[3][z]
        diff == <<m[2][z] - m[3][y], m[3][x] - m[1][z], m[1][y] - m[2][x]>>
        sum  == <<m[2][z] + m[3][y], m[3][x] + m[1][z], m[1][y] + m[2][x]>>
        times(v, t) == LET s == Halves(Divide(1, SquareRoot[Wrap(t)]))
                       IN  [l \in Lanes |-> Wrap(v[l] * s)]
    IN  CASE Wrap(xx + yy + zz) > 0 ->
                LET t == xx + yy + zz + 1
                IN  times(Append(diff, t), t)
          [] Wrap(xx + yy + zz) <= 0 /\ xx > yy /\ xx > zz ->
                LET t == xx - yy - zz + 1
                IN  times(<<t, sum[z], sum[y], diff[x]>>, t)
          [] Wrap(xx + yy + zz) <= 0 /\ ~(xx > yy /\ xx > zz) /\ yy > zz ->
                LET t == -xx + yy - zz + 1
                IN  times(<<sum[z], t, sum[x], diff[y]>>, t)
          [] Wrap(xx + yy + zz) <= 0 /\ ~(xx > yy /\ xx > zz) /\ yy <= zz ->
                LET t == -xx - yy + zz + 1
                IN  times(<<sum[y], sum[x], t, diff[z]>>, t)

Normalize3(v) == Lengths(v).Normalize3

\* A column of length 0 is made of the two others, and two are not.
ToAffine(m) ==
    LET sq_scale == [k \in 1 .. 3 |-> Dot(m[k], m[k], 3)]
        scale    == [k \in 1 .. 3 |-> SquareRoot[sq_scale[k]]]
        zero     == {k \in 1 .. 3 : sq_scale[k] = 0}
        over(k)  == Append([l \in 1 .. 3 |-> Divide(m[k][l], scale[k])], 0)
        fromY == LET c0 == Normalize3(Cross3(over(2), m[3]))
                 IN  <<c0, over(2), Normalize3(Cross3(c0, over(2)))>>
        fromX == LET c2 == Normalize3(Cross3(over(1), m[2]))
                 IN  <<over(1), Normalize3(Cross3(c2, over(1))), c2>>
        fromZ == LET c1 == Normalize3(Cross3(over(3), m[1]))
                 IN  <<Normalize3(Cross3(c1, over(3))), c1, over(3)>>
        able  == IF x \in zero THEN zero = {x} ELSE z \in zero => y \notin zero
        cols  == CASE x \in zero -> fromY
                   [] x \notin zero /\ z \in zero -> fromX
                   [] x \notin zero /\ z \notin zero -> fromZ
    IN  [able |-> able, translation |-> <<m[4][x], m[4][y], m[4][z], 1>>,
         quaternion |-> ToQuaternion(cols),
         scale |-> Append([k \in 1 .. 3 |->
                              IF Dot(cols[k], m[k], 3) > 0 THEN scale[k] ELSE Wrap(-scale[k])], 1)]

FromAxisAngle(axis, angle) ==
    LET cos == Opaque(1, angle[x])
        sin == Opaque(3, angle[x])
        t == 1 - cos
        xy == Wrap(axis[x] * axis[y] * t)  zs == axis[z] * sin
        xz == Wrap(axis[x] * axis[z] * t)  ys == axis[y] * sin
        yz == Wrap(axis[y] * axis[z] * t)  xs == axis[x] * sin
        diagonal(l) == Wrap(cos + Wrap(axis[l] * axis[l]) * t)
    IN  <<<<diagonal(x), Wrap(xy + zs), Wrap(xz - ys), 0>>, <<Wrap(xy - zs), diagonal(y), Wrap(yz + xs), 0>>,
          <<Wrap(xz + ys), Wrap(yz - xs), diagonal(z), 0>>, Axes[4]>>

FromQuaternion(q) ==
    LET xx == q[x] * q[x]  xy == q[x] * q[y]  xz == q[x] * q[z]  xw == q[x] * q[w]
        yy == q[y] * q[y]  yz == q[y] * q[z]  yw == q[y] * q[w]
        zz == q[z] * q[z]  zw == q[z] * q[w]
    IN  <<<<Wrap(1 - 2 * (yy + zz)), Wrap(2 * (xy + zw)), Wrap(2 * (xz - yw)), 0>>,
          <<Wrap(2 * (xy - zw)), Wrap(1 - 2 * (xx + zz)), Wrap(2 * (yz + xw)), 0>>,
          <<Wrap(2 * (xz + yw)), Wrap(2 * (yz - xw)), Wrap(1 - 2 * (xx + yy)), 0>>, Axes[4]>>

FromAffine(t, q, s) ==
    LET r == FromQuaternion(q)
    IN  [k \in Lanes |-> IF k = 4 THEN <<t[x], t[y], t[z], 1>> ELSE [l \in Lanes |-> Wrap(s[k] * r[k][l])]]

\* The sum of the first n columns, each times its lane.
Combined(m, v, n) ==
    [l \in Lanes |-> Wrap(FoldSet(LAMBDA k, sum : sum + m[k][l] * v[k], 0, 1 .. n))]

TransformPoint(m, v) == Plus(Combined(m, v, 3), m[4])

TransformVector(m, v) == Combined(m, v, 3)

ByVector(m, v) == Combined(m, v, 4)

ByMatrix(m, n) == [k \in Lanes |-> ByVector(m, n[k])]

FromEuler(v) ==
    ByMatrix(ByMatrix(FromAxisAngle(Axes[2], Splat(v[x])), FromAxisAngle(Axes[1], Splat(v[y]))),
             FromAxisAngle(Axes[3], Splat(v[z])))

SumAndDifference(m, n) ==
    [Add |-> [k \in Lanes |-> Plus(m[k], n[k])], Subtract |-> [k \in Lanes |-> Minus(m[k], n[k])]]

Operators(a, b) ==
    [plus |-> Plus(a, b), minus |-> Minus(a, b), negate |-> Negative(a),
     times |-> Times(a, b), over |-> Over(a, b)]

-----------------------------------------------------------------------------
(* Halves.                                                                 *)

FloatToHalf(f) ==
    LET re_rounded == ScaledDown(f[2] - (f[2] % 2 ^ 12)) + 2 ^ 12
    IN  <<f[1], IF f[2] > FloatInfinity THEN 126 * 2 ^ 8
                ELSE IF f[2] = FloatInfinity THEN 124 * 2 ^ 8
                ELSE (IF re_rounded > HalfInfinity THEN HalfInfinity ELSE re_rounded) \div 2 ^ 13>>

\* Infinities and NaN stay what they are: their exponent becomes that of floats.
HalfToFloat(h) ==
    LET adjust == ScaledUp(h[2] * 2 ^ 13)
    IN  <<h[1], IF adjust >= 143 * 2 ^ 23 THEN FloatInfinity + (adjust % 2 ^ 23) ELSE adjust>>

-----------------------------------------------------------------------------

\* What the functions of a group return: a call is the group and its arguments.
Returned(c) ==
    CASE c[1] = "Constants" -> Constants
      [] c[1] = "Loads" -> Loads(c[2], c[3])
      [] c[1] = "Access" -> Access(c[2], c[3], c[4], c[5])
      [] c[1] = "Transposes" -> Transposes(c[2])
      [] c[1] = "Arithmetic" -> Arithmetic(c[2], c[3], c[4])
      [] c[1] = "Estimates" -> Estimates(c[2])
      [] c[1] = "SignBits" -> SignBits(c[2])
      [] c[1] = "Lengths" -> Lengths(c[2])
      [] c[1] = "SafeNormals" -> SafeNormals(c[2], c[3])
      [] c[1] = "Lerp" -> [Lerp |-> Lerp(c[2], c[3], c[4])]
      [] c[1] = "Extremes" -> Extremes(c[2], c[3], c[4])
      [] c[1] = "Comparisons" -> Comparisons(c[2], c[3])
      [] c[1] = "Bitwise" -> Bitwise(c[2], c[3], c[4])
      [] c[1] = "Trigonometry" -> Trigonometry(c[2])
      [] c[1] = "IntConstants" -> IntConstants
      [] c[1] = "IntLoads" -> IntLoads(c[2], c[3], c[4])
      [] c[1] = "IntAccess" -> IntAccess(c[2], c[3], c[4], c[5])
      [] c[1] = "IntReductions" -> IntReductions(c[2])
      [] c[1] = "IntOperations" -> IntOperations(c[2], c[3], c[4], c[5], c[6])
      [] c[1] = "Inverses" -> Invert(c[2])
      [] c[1] = "Makers" ->
            [Translation |-> Translation(c[2]), Scaling |-> Scaling(c[2]), identity |-> Axes]
      [] c[1] = "FromAxisAngle" -> [FromAxisAngle |-> FromAxisAngle(c[2], c[3])]
      [] c[1] = "FromEuler" -> [FromEuler |-> FromEuler(c[2])]
      [] c[1] = "FromQuaternion" -> [FromQuaternion |-> FromQuaternion(c[2])]
      [] c[1] = "FromAffine" -> [FromAffine |-> FromAffine(c[2], c[3], c[4])]
      [] c[1] = "Rotations" ->
            LET q == ToQuaternion(c[2])
            IN  [square |-> <<Dot(q, q, 4)>>, rotation |-> FromQuaternion(q)]
      [] c[1] = "Affines" ->
            LET parts == ToAffine(c[2])
            IN  [able |-> <<parts.able>>,
                 matrix |-> FromAffine(parts.translation, parts.quaternion, parts.scale)]
      [] c[1] = "Tests" ->
            [IsNormalized |-> IsNormalizedMatrix(c[2]), IsOrthogonal |-> IsOrthogonal(c[2])]
      [] c[1] = "Transforms" ->
            [Transpose |-> TransposeMatrix(c[2]), Translate |-> Translate(c[2], c[3]),
             Scale |-> Scale(c[2], c[3]), ColumnMultiply |-> ColumnMultiply(c[2], c[3]),
             TransformPoint |-> TransformPoint(c[2], c[3]),
             TransformVector |-> TransformVector(c[2], c[3]), product |-> ByVector(c[2], c[3])]
      [] c[1] = "Products" ->
            [product |-> ByMatrix(c[2], c[3]), sum |-> SumAndDifference(c[2], c[3]).Add,
             difference |-> SumAndDifference(c[2], c[3]).Subtract]
      [] c[1] = "Operators" -> Operators(c[2], c[3])
      [] c[1] = "HalfFloats" ->
            [FloatToHalf |-> <<FloatToHalf(c[2])>>, HalfToFloat |-> <<HalfToFloat(c[3])>>]
=============================================================================
