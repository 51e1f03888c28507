----------------------------- MODULE SimdForms ------------------------------
(***************************************************************************)
(* What is written in the functions of simd_math.h: vectors, quaternions   *)
(* and matrices in structures of arrays (soa_float.h, soa_quaternion.h,    *)
(* soa_float4x4.h), where every element is a SIMD vector and four of the   *)
(* scalar form are computed at once, one a lane; a quaternion in one SIMD  *)
(* vector (simd_quaternion.h); and the skinning of vertices.               *)
(*                                                                         *)
(* A vector is the sequence of its elements, a matrix that of its columns. *)
(* A result that is one SIMD vector is a sequence of one.                  *)
(***************************************************************************)
EXTENDS LaneNumbers, SequencesExt

CONSTANT Returned(_)    \* what the functions of a group return in that build

Add(a, b) == Returned(<<"Operators", a, b>>).plus
Subtract(a, b) == Returned(<<"Operators", a, b>>).minus
Negate(a) == Returned(<<"Operators", a, a>>).negate
Multiply(a, b) == Returned(<<"Operators", a, b>>).times
Quotient(a, b) == Returned(<<"Operators", a, b>>).over
MAdd(a, b, c) == Returned(<<"Arithmetic", a, b, c>>).MAdd
NMAdd(a, b, c) == Returned(<<"Arithmetic", a, b, c>>).NMAdd
Cross3(a, b) == Returned(<<"Arithmetic", a, b, b>>).Cross3
Dot3(a, b) == Returned(<<"Arithmetic", a, b, b>>).Dot3
Sqrt(a) == Returned(<<"Estimates", a>>).Sqrt
SqrtX(a) == Returned(<<"Estimates", a>>).SqrtX
RSqrtEstNR(a) == Returned(<<"Estimates", a>>).RSqrtEstNR
RcpEstNR(a) == Returned(<<"Estimates", a>>).RcpEstNR
Minimum(a, b) == Returned(<<"Extremes", a, a, b>>).Min
Maximum(a, b) == Returned(<<"Extremes", a, a, b>>).Max
Clamp(a, v, b) == Returned(<<"Extremes", a, v, b>>).Clamp
Compared(a, b) == Returned(<<"Comparisons", a, b>>)
And(a, b) == Returned(<<"Bitwise", a, a, b>>).And
Or(a, b) == Returned(<<"Bitwise", a, a, b>>).Or
SetW(v, f) == Returned(<<"Access", v, f, 0, v>>).SetW
SetY(v, f) == Returned(<<"Access", v, f, 0, v>>).SetY
SplatX(v) == Returned(<<"Access", v, v, 0, v>>).SplatX
SplatY(v) == Returned(<<"Access", v, v, 0, v>>).SplatY
SplatZ(v) == Returned(<<"Access", v, v, 0, v>>).SplatZ
SplatW(v) == Returned(<<"Access", v, v, 0, v>>).SplatW

Ones == Splat(1)
Zero == Splat(0)

\* Select, of numbers by masks of all ones or none.
Chosen(b, t, f) == [l \in Lanes |-> IF b[l] = True THEN t[l] ELSE f[l]]

\* The comparison of a square with 1, closer than any other comes.
NearOne(square) == [l \in Lanes |-> Mask(square[l] = 1)]

\* Xor with a mask of sign bits.
Flipped(v, mask) ==
    LET signs == Returned(<<"IntConstants">>)[mask]
    IN  [l \in Lanes |-> IF signs[l] = {31} THEN Wrap(-v[l]) ELSE v[l]]

-----------------------------------------------------------------------------
(* Vectors in structures of arrays.                                        *)

Axis(n, k) == [i \in 1 .. n |-> IF i = k THEN Ones ELSE Zero]

VectorConstants(v) ==
    LET n == Len(v)
    IN  [zero |-> Axis(n, 0), one |-> [i \in 1 .. n |-> Ones],
         x_axis |-> Axis(n, 1), y_axis |-> Axis(n, 2), last_axis |-> Axis(n, n)]

Plus2(a, b) == [i \in DOMAIN a |-> Add(a[i], b[i])]
Scaled(a, f) == [i \in DOMAIN a |-> Multiply(a[i], f)]

VectorArithmetic(a, b, f) ==
    [plus |-> Plus2(a, b), minus |-> [i \in DOMAIN a |-> Subtract(a[i], b[i])],
     negate |-> [i \in DOMAIN a |-> Negate(a[i])],
     times |-> [i \in DOMAIN a |-> Multiply(a[i], b[i])], timesF |-> Scaled(a, f),
     over |-> [i \in DOMAIN a |-> Quotient(a[i], b[i])],
     overF |-> [i \in DOMAIN a |-> Quotient(a[i], f)]]

MAddOf(a, b, addend) == [i \in DOMAIN a |-> MAdd(a[i], b[i], addend[i])]

\* The lanes of a vector's elements, summed and multiplied in order.
HAdd(v) == FoldLeft(Add, v[1], Tail(v))
SoaDot(a, b) == HAdd([i \in DOMAIN a |-> Multiply(a[i], b[i])])
Square(v) == SoaDot(v, v)

VectorLengths(a, b) ==
    [HAdd |-> <<HAdd(a)>>, Dot |-> <<SoaDot(a, b)>>, Length |-> <<Sqrt(Square(a))>>,
     LengthSqr |-> <<Square(a)>>]

Cross(a, b) ==
    LET difference(m, n) == Subtract(Multiply(a[m], b[n]), Multiply(b[m], a[n]))
    IN  <<difference(2, 3), difference(3, 1), difference(1, 2)>>

Normalize(v) == Scaled(v, Quotient(Ones, Sqrt(Square(v))))

IsNormalized(v) == NearOne(Square(v))

\* What is not normalizable is divided by its length as well, and not selected.
NormalizeSafe(v, safer) ==
    LET normalizable == Compared(Square(v), Zero).CmpNe
    IN  [i \in DOMAIN v |-> Chosen(normalizable, Normalize(v)[i], safer[i])]

VectorNormals(v, safer) ==
    [IsNormalized |-> <<IsNormalized(v)>>, NormalizeSafe |-> NormalizeSafe(v, safer)]

Lerp(a, b, f) == [i \in DOMAIN a |-> Add(Multiply(Subtract(b[i], a[i]), f), a[i])]

VectorComparisons(a, b) ==
    LET of(op)  == [i \in DOMAIN a |-> Compared(a[i], b[i])[op]]
        all(op) == <<FoldLeft(And, of(op)[1], Tail(of(op)))>>
    IN  [lt |-> all("CmpLt"), le |-> all("CmpLe"), gt |-> all("CmpGt"), ge |-> all("CmpGe"),
         eq |-> all("CmpEq"), ne |-> <<FoldLeft(Or, of("CmpNe")[1], Tail(of("CmpNe")))>>]

VectorExtremes(a, v, b) ==
    LET min(m, n) == [i \in DOMAIN m |-> Minimum(m[i], n[i])]
        max(m, n) == [i \in DOMAIN m |-> Maximum(m[i], n[i])]
    IN  [Min |-> min(a, b), Max |-> max(a, b), Clamp |-> max(a, min(v, b))]

Vectors(a, v, b, f) ==
    VectorConstants(a) @@ VectorArithmetic(a, b, f) @@ VectorLengths(a, b) @@ VectorNormals(v, b)
    @@ VectorComparisons(a, b) @@ VectorExtremes(a, v, b)
    @@ [Lerp |-> Lerp(a, b, f), MAdd |-> MAddOf(a, b, v)]
    @@ IF Len(a) = 3 THEN [Cross |-> Cross(a, b)] ELSE <<>>

-----------------------------------------------------------------------------
(* Quaternions.                                                            *)

identity == Axis(4, 4)

Conjugate(q) == <<Negate(q[1]), Negate(q[2]), Negate(q[3]), q[4]>>

\* Mutant: the products of a cross product subtracted the other way.
HamiltonOtherWay(a, b) ==
    LET p(m, n) == Multiply(a[m], b[n])
    IN  <<Subtract(Add(Add(p(4, 1), p(1, 4)), p(3, 2)), p(2, 3)),
          Subtract(Add(Add(p(4, 2), p(2, 4)), p(1, 3)), p(3, 1)),
          Subtract(Add(Add(p(4, 3), p(3, 4)), p(2, 1)), p(1, 2)),
          Subtract(Subtract(Subtract(p(4, 4), p(1, 1)), p(2, 2)), p(3, 3))>>

\* Four products an element, their signs as the code has them.
Hamilton(a, b) ==
    LET p(m, n) == Multiply(a[m], b[n])
    IN  <<Subtract(Add(Add(p(4, 1), p(1, 4)), p(2, 3)), p(3, 2)),
          Subtract(Add(Add(p(4, 2), p(2, 4)), p(3, 1)), p(1, 3)),
          Subtract(Add(Add(p(4, 3), p(3, 4)), p(1, 2)), p(2, 1)),
          Subtract(Subtract(Subtract(p(4, 4), p(1, 1)), p(2, 2)), p(3, 3))>>

\* Compare, of the cosine of half the angle between two; Abs is of bits.
CompareAngles(a, b, cos) ==
    LET dot == SoaDot(a, b)
    IN  Compared([l \in Lanes |-> IF dot[l] < 0 THEN -dot[l] ELSE dot[l]], cos).CmpGe

NormalizeEst(q) == Scaled(q, RSqrtEstNR(Square(q)))

NLerp(a, b, f) == Normalize(Lerp(a, b, f))

NLerpEst(a, b, f) == NormalizeEst(Lerp(a, b, f))

Quaternions(a, b, f) ==
    [identity |-> identity, Conjugate |-> Conjugate(a),
     negate |-> [i \in 1 .. 4 |-> Negate(a[i])], plus |-> Plus2(a, b), timesF |-> Scaled(a, f),
     times |-> Hamilton(a, b), Dot |-> <<SoaDot(a, b)>>, Compare |-> <<CompareAngles(a, b, f)>>,
     IsNormalized |-> <<IsNormalized(a)>>, Normalize |-> Normalize(b),
     NormalizeEst |-> NormalizeEst(b), Lerp |-> Lerp(a, b, f), NLerp |-> NLerp(a, b, f),
     NLerpEst |-> NLerpEst(a, b, f), equals |-> VectorComparisons(a, b).eq]

-----------------------------------------------------------------------------
(* Matrices in structures of arrays.                                       *)

Axes == [k \in 1 .. 4 |-> Axis(4, k)]

Scaling(v) == [k \in 1 .. 4 |-> [i \in 1 .. 4 |-> IF i # k THEN Zero ELSE IF k = 4 THEN Ones ELSE v[k]]]

\* 1 minus, or not, twice the sum or the difference of two products of elements.
FromQuaternion(q) ==
    LET two       == Add(Ones, Ones)
        p(m, n)   == Multiply(q[m], q[n])
        less(m, n) == Subtract(Ones, Multiply(two, Add(p(m, m), p(n, n))))
        sum(m, n, k)  == Multiply(two, Add(p(m, n), p(k, 4)))
        diff(m, n, k) == Multiply(two, Subtract(p(m, n), p(k, 4)))
    IN  <<<<less(2, 3), sum(1, 2, 3), diff(1, 3, 2), Zero>>,
          <<diff(1, 2, 3), less(1, 3), sum(2, 3, 1), Zero>>,
          <<sum(1, 3, 2), diff(2, 3, 1), less(1, 2), Zero>>, Axes[4]>>

FromAffine(t, q, s) ==
    LET r == FromQuaternion(q)
    IN  [k \in 1 .. 4 |-> IF k = 4 THEN <<t[1], t[2], t[3], Ones>>
                          ELSE [i \in 1 .. 4 |-> IF i = 4 THEN Zero ELSE Multiply(s[k], r[k][i])]]

Transpose(m) == [k \in 1 .. 4 |-> [i \in 1 .. 4 |-> m[i][k]]]

\* One column of cofactors: of a column, with the minors of two others.
Cofactors(c, p, q) ==
    LET minor(i, j) == Subtract(Multiply(p[i], q[j]), Multiply(q[i], p[j]))
        sum(i, u, j, v, k, t) ==
            Add(Subtract(Multiply(c[i], u), Multiply(c[j], v)), Multiply(c[k], t))
        negated(i, u, j, v, k, t) ==
            Subtract(Add(Multiply(Negate(c[i]), u), Multiply(c[j], v)), Multiply(c[k], t))
    IN  <<sum(2, minor(3, 4), 3, minor(2, 4), 4, minor(2, 3)),
          negated(1, minor(3, 4), 3, minor(1, 4), 4, minor(1, 3)),
          sum(1, minor(2, 4), 2, minor(1, 4), 4, minor(1, 2)),
          negated(1, minor(2, 3), 2, minor(1, 3), 3, minor(1, 2))>>

\* Every lane is inverted that can be, the others become 0.
Invert(m) ==
    LET opposite(v) == [i \in 1 .. 4 |-> Negate(v[i])]
        minors == <<Cofactors(m[2], m[3], m[4]), opposite(Cofactors(m[1], m[3], m[4])),
                    Cofactors(m[1], m[2], m[4]), opposite(Cofactors(m[1], m[2], m[3]))>>
        det        == SoaDot(m[1], minors[1])
        invertible == Compared(det, Zero).CmpNe
        inv_det    == Chosen(invertible, RcpEstNR(det), Zero)
    IN  [columns |-> [k \in 1 .. 4 |-> [i \in 1 .. 4 |-> Multiply(minors[i][k], inv_det)]],
         invertible |-> invertible]

Scale(m, v) == [k \in 1 .. 4 |-> IF k = 4 THEN m[4] ELSE Scaled(m[k], v[k])]

ByVector(m, v) ==
    [i \in 1 .. 4 |-> HAdd([k \in 1 .. 4 |-> Multiply(m[k][i], v[k])])]

ByMatrix(m, n) == [k \in 1 .. 4 |-> ByVector(m, n[k])]

SumOf(m, n) == [k \in 1 .. 4 |-> Plus2(m[k], n[k])]
DifferenceOf(m, n) == [k \in 1 .. 4 |-> [i \in 1 .. 4 |-> Subtract(m[k][i], n[k][i])]]

MatricesOf(m, n, t, q, s) ==
    [identity |-> Axes, Scaling |-> Scaling(s), FromQuaternion |-> FromQuaternion(q),
     FromAffine |-> FromAffine(t, q, s), Transpose |-> Transpose(m), inverse |-> Invert(m).columns,
     Scale |-> Scale(m, s), product |-> ByMatrix(m, n), sum |-> SumOf(m, n),
     difference |-> DifferenceOf(m, n)]

-----------------------------------------------------------------------------
(* A quaternion in one vector.                                            *)

Swizzled(v, a, b, c, d) == <<v[a + 1], v[b + 1], v[c + 1], v[d + 1]>>

AosIdentity == <<0, 0, 0, 1>>

\* The four products of a lane, in the order that lets w be negated at the end.
AosHamilton(a, b) ==
    LET p1  == Multiply(Swizzled(a, 3, 3, 3, 2), Swizzled(b, 0, 1, 2, 2))
        p2  == Multiply(Swizzled(a, 0, 1, 2, 0), Swizzled(b, 3, 3, 3, 0))
        p13 == MAdd(Swizzled(a, 1, 2, 0, 1), Swizzled(b, 2, 0, 1, 1), p1)
        p24 == NMAdd(Swizzled(a, 2, 0, 1, 3), Swizzled(b, 1, 2, 0, 3), p2)
    IN  Flipped(Add(p13, p24), "mask_sign_w")

AosConjugate(q) == Flipped(q, "mask_sign_xyz")

Negated(q) == Flipped(q, "mask_sign")

Lengths(q) == Returned(<<"Lengths", q>>)
SafeNormals(q, safer) == Returned(<<"SafeNormals", q, safer>>)

\* Normalize to IsNormalizedEst
Normals(q, safer) ==
    [Normalize |-> Lengths(safer).Normalize4, NormalizeEst |-> Lengths(safer).NormalizeEst4,
     NormalizeSafe |-> SafeNormals(q, safer).NormalizeSafe4,
     NormalizeSafeEst |-> SafeNormals(q, safer).NormalizeSafeEst4,
     IsNormalized |-> SafeNormals(q, safer).IsNormalized4,
     IsNormalizedEst |-> SafeNormals(q, safer).IsNormalizedEst4]

Half1 == Splat(Reciprocal[2])

Trigonometry(v) == Returned(<<"Trigonometry", v>>)

FromAxisAngle(axis, angle) ==
    LET half_angle == Multiply(angle, Half1)
    IN  SetW(Multiply(axis, SplatX(Trigonometry(half_angle).SinX)), Trigonometry(half_angle).CosX)

FromAxisCosAngle(axis, cos) ==
    LET half_cos2   == Multiply(Add(Ones, cos), Half1)
        half_sin2   == Subtract(Ones, half_cos2)
        half_sincos == Sqrt(SetY(half_cos2, half_sin2))
    IN  SetW(Multiply(axis, SplatY(half_sincos)), half_sincos)

\* Where the axis is not important the angle is left 0.
ToAxisAngle(q) ==
    LET x_axis     == <<1, 0, 0, 0>>
        clamped_w  == Clamp(Negate(x_axis), SplatW(q), x_axis)
        half_angle == Trigonometry(clamped_w).ACosX
        s          == SplatX(SqrtX(NMAdd(clamped_w, clamped_w, x_axis)))
        low        == Compared(s, Ones).CmpLt
    IN  Chosen(low, x_axis, SetW(Multiply(q, RcpEstNR(s)), Add(half_angle, half_angle)))

\* What turns one of two opposite vectors into the other.
HalfTurn(from) ==
    IF (IF from[1] < 0 THEN -from[1] ELSE from[1]) > (IF from[3] < 0 THEN -from[3] ELSE from[3])
    THEN <<-from[2], from[1], 0, 0>> ELSE <<0, -from[3], from[2], 0>>

FromVectors(from, to) ==
    LET square3(v) == Lengths(v).Length3Sqr
        norms == SqrtX(Multiply(square3(from), square3(to)))
        real  == Add(norms, Dot3(from, to))
    IN  CASE norms[1] = 0 -> AosIdentity
          [] norms[1] # 0 /\ real[1] <= 0 -> Lengths(HalfTurn(from)).Normalize4
          [] norms[1] # 0 /\ real[1] > 0 -> Lengths(SetW(Cross3(from, to), real)).Normalize4

FromUnitVectors(from, to) ==
    LET real == Add(<<1, 0, 0, 0>>, Dot3(from, to))
    IN  IF real[1] <= 0 THEN HalfTurn(from) ELSE Lengths(SetW(Cross3(from, to), real)).Normalize4

\* w is left undefined.
TransformVector(q, v) ==
    LET cross1 == MAdd(SplatW(q), v, Cross3(q, v))
        cross2 == Cross3(q, cross1)
    IN  Add(Add(v, cross2), cross2)

AosQuaternions(a, b) ==
    Normals(a, b)
    @@ [identity |-> AosIdentity, Conjugate |-> AosConjugate(a), negate |-> Negated(a),
        times |-> AosHamilton(a, b)]

AosRotations(axis, angle, from, to, q) ==
    [FromAxisAngle |-> FromAxisAngle(axis, angle), FromAxisCosAngle |-> FromAxisCosAngle(axis, angle),
     FromVectors |-> FromVectors(from, to), FromUnitVectors |-> FromUnitVectors(axis, q),
     ToAxisAngle |-> ToAxisAngle(q), TransformVector |-> TransformVector(q, from)]

-----------------------------------------------------------------------------
(* Skinning (skinning_job.cc).  Attributes of vertices are spans of one    *)
(* memory of floats, which may interleave, or be read and written in the   *)
(* same place.  Sizes and strides are in elements, a count of vertices is  *)
(* not negative (skinning.zig:25).                                         *)

Empty(span) == span.size = 0

\* What a span holds for vertex i, and what lies past it.
FloatsAt(memory, span, i, first) ==
    [l \in Lanes |->
        LET offset == i * span.stride + first + l
        IN  IF offset <= span.size THEN memory[span.begin + offset] ELSE NaN]

NoInts == [l \in Lanes |-> {}]
Loaded(load, floats) == Returned(<<"Loads", floats, NoInts>>)[load]

\* Three floats are stored, those beside them kept.
Stored(memory, span, i, v) ==
    LET at     == span.begin + i * span.stride
        around == [l \in Lanes |-> IF at + l \in DOMAIN memory THEN memory[at + l] ELSE NaN]
        after  == Returned(<<"Access", v, v, 0, around>>).Store3PtrU
    IN  [a \in DOMAIN memory |-> IF a - at \in Lanes THEN after[a - at] ELSE memory[a]]

ColumnMultiply(m, w) == Returned(<<"Transforms", m, w>>).ColumnMultiply
SumOfMatrices(m, n) == Returned(<<"Products", m, n>>).sum

\* A span is long enough for its last vertex.
Holds(span, vertex_count, n) ==
    span.size >= IF vertex_count > 0 THEN span.stride * (vertex_count - 1) + n ELSE 0

Validate(job) ==
    LET n == job.vertex_count
        output(k) == ~Empty(job.out[k]) /\ Holds(job.out[k], n, 3)
    IN  /\ job.influences_count > 0
        /\ job.joint_matrices # <<>>
        /\ Holds(job.joint_indices, n, job.influences_count)
        /\ job.influences_count # 1 => Holds(job.joint_weights, n, job.influences_count - 1)
        /\ Holds(job.in[1], n, 3) /\ output(1)
        /\ ~Empty(job.in[2]) => Holds(job.in[2], n, 3) /\ output(2)
        /\ ~Empty(job.in[2]) /\ ~Empty(job.in[3]) => Holds(job.in[3], n, 3) /\ output(3)
        /\ Empty(job.in[2]) => Empty(job.in[3])

\* Three weights at most are loaded at once, but of the last vertex.
WeightLoads(job, i, inner) ==
    IF inner /\ job.influences_count \in {3, 4}
    THEN <<Loaded("LoadPtrU", FloatsAt(job.memory, job.joint_weights, i, 0))>>
    ELSE [j \in 1 .. job.influences_count - 1 |->
            Loaded("Load1PtrU", FloatsAt(job.memory, job.joint_weights, i, j - 1))]

\* The weight of the last joint is what the others leave of 1.
JointWeightsOf(job, i, inner) ==
    LET n == job.influences_count
        loads == WeightLoads(job, i, inner)
        w     == loads[1]
        given == IF Len(loads) = n - 1 THEN loads
                 ELSE SubSeq(<<SplatX(w), SplatY(w), SplatZ(w)>>, 1, n - 1)
    IN  Append(given, Subtract(Ones, FoldLeft(Add, given[1], Tail(given))))

\* A single joint has no weight.
WeightedMatrix(job, matrices, i, inner) ==
    LET of(j) == matrices[job.joint_indices.joints[i * job.joint_indices.stride + j] + 1]
        w == JointWeightsOf(job, i, inner)
    IN  IF job.influences_count = 1 THEN of(1)
        ELSE FoldLeft(SumOfMatrices, ColumnMultiply(of(1), w[1]),
                      [j \in 1 .. job.influences_count - 1 |-> ColumnMultiply(of(j + 1), w[j + 1])])

\* Every vertex but the last is loaded with a lane of what follows it.
AttributeLoad(job, memory, k, i, inner) ==
    Loaded(IF inner THEN "LoadPtrU" ELSE "Load3PtrU", FloatsAt(memory, job.in[k], i, 0))

\* No lane is loaded that lies past its span.
LoadsInside(job) ==
    \A i \in 0 .. job.vertex_count - 1 :
        LET inner == i < job.vertex_count - 1
        IN  /\ \A k \in 1 .. 3 :
                  ~Empty(job.in[k]) => NaN \notin Range(AttributeLoad(job, job.memory, k, i, inner))
            /\ \A j \in DOMAIN WeightLoads(job, i, inner) :
                  NaN \notin Range(WeightLoads(job, i, inner)[j])

\* Of the inverse transposes nothing is read where there are no normals.
SkinnedVertex(job, i, inner) ==
    LET transform    == WeightedMatrix(job, job.joint_matrices, i, inner)
        it_transform == IF job.joint_inverse_transpose_matrices = <<>> THEN transform
                        ELSE WeightedMatrix(job, job.joint_inverse_transpose_matrices, i, inner)
        in(memory, k) == AttributeLoad(job, memory, k, i, inner)
        positions == Stored(job.memory, job.out[1], i,
                            Returned(<<"Transforms", transform, in(job.memory, 1)>>).TransformPoint)
        vectors(memory, k) ==
            IF Empty(job.in[k]) THEN memory
            ELSE Stored(memory, job.out[k], i,
                        Returned(<<"Transforms", it_transform, in(memory, k)>>).TransformVector)
    IN  [job EXCEPT !.memory = vectors(vectors(positions, 2), 3)]

Run(job) ==
    IF job.vertex_count = 0 THEN job
    ELSE LET before == FoldLeft(LAMBDA j, i : SkinnedVertex(j, i - 1, TRUE), job,
                                [i \in 1 .. job.vertex_count - 1 |-> i])
         IN  SkinnedVertex(before, job.vertex_count - 1, FALSE)

\* Elements that are claimed of no memory.
SpanIsSane(span) == span.begin = Undefined => span.size = 0

zozzSkinningJobRun(job) ==
    LET sane  == /\ \A k \in 1 .. 3 : SpanIsSane(job.in[k]) /\ SpanIsSane(job.out[k])
                 /\ SpanIsSane(job.joint_indices) /\ SpanIsSane(job.joint_weights)
    IN  CASE ~sane -> [result |-> "INVALID_ARGUMENT", memory |-> job.memory]
          [] sane /\ ~Validate(job) -> [result |-> "JOB_INVALID", memory |-> job.memory]
          [] sane /\ Validate(job) -> [result |-> "OK", memory |-> Run(job).memory]
=============================================================================
