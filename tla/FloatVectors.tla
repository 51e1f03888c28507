---------------------------- MODULE FloatVectors ----------------------------
(***************************************************************************)
(* Vectors of two, three and four floats (vec_float.h), and quaternions    *)
(* (quaternion.h): the scalar forms of the maths.                          *)
(*                                                                         *)
(* What a function is for every size is one definition.  A result is a     *)
(* sequence, of one number where the function returns a scalar, and a bool *)
(* is a mask, as the SIMD forms return theirs.                             *)
(***************************************************************************)
EXTENDS LaneNumbers

Axis(n, k) == [i \in 1 .. n |-> IF i = k THEN 1 ELSE 0]

\* zero, one and the axes of the size of v.
VectorConstants(v) ==
    LET n == Len(v)
    IN  [zero |-> Axis(n, 0), one |-> [i \in 1 .. n |-> 1],
         x_axis |-> Axis(n, 1), y_axis |-> Axis(n, 2), last_axis |-> Axis(n, n)]

VectorArithmetic(a, b, f) ==
    [plus |-> Plus(a, b), minus |-> Minus(a, b), negate |-> Negative(a),
     times |-> Times(a, b), timesF |-> [i \in DOMAIN a |-> Wrap(a[i] * f)],
     over |-> Over(a, b), overF |-> [i \in DOMAIN a |-> Divide(a[i], f)]]

Square(v) == Dot(v, v, Len(v))

VectorLengths(a, b) ==
    [HAdd |-> <<Dot(a, [i \in DOMAIN a |-> 1], Len(a))>>, Dot |-> <<Dot(a, b, Len(a))>>,
     Length |-> <<SquareRoot[Square(a)]>>, LengthSqr |-> <<Square(a)>>]

Cross(a, b) ==
    <<Wrap(a[2] * b[3] - b[2] * a[3]), Wrap(a[3] * b[1] - b[3] * a[1]),
      Wrap(a[1] * b[2] - b[1] * a[2])>>

\* Nothing but what has a length of 1 is this near to 1.
IsNormalized(v) == Square(v) = 1

Normalize(v) == [i \in DOMAIN v |-> Divide(v[i], SquareRoot[Square(v)])]

VectorNormals(v, safer) ==
    [Normalize |-> IF Square(v) = 0 THEN v ELSE Normalize(v),
     IsNormalized |-> <<Mask(IsNormalized(v))>>,
     NormalizeSafe |-> IF Square(v) <= 0 THEN safer ELSE Normalize(v)]

Lerp(a, b, f) == [i \in DOMAIN a |-> Wrap((b[i] - a[i]) * f + a[i])]

\* Of the operators the elements of both are put to, all hold, or one does for !=.
VectorComparisons(a, b) ==
    LET all(test) == <<Mask(\A i \in DOMAIN a : test[i])>>
    IN  [lt |-> all([i \in DOMAIN a |-> Less(a[i], b[i])]),
         le |-> all([i \in DOMAIN a |-> Less(a[i], b[i]) \/ Equal(a[i], b[i])]),
         gt |-> all([i \in DOMAIN a |-> Less(b[i], a[i])]),
         ge |-> all([i \in DOMAIN a |-> Less(b[i], a[i]) \/ Equal(a[i], b[i])]),
         eq |-> all([i \in DOMAIN a |-> Equal(a[i], b[i])]),
         ne |-> <<Mask(\E i \in DOMAIN a : ~Equal(a[i], b[i]))>>]

VectorExtremes(a, v, b) ==
    LET min(m, n) == [i \in DOMAIN m |-> IF m[i] < n[i] THEN m[i] ELSE n[i]]
        max(m, n) == [i \in DOMAIN m |-> IF m[i] > n[i] THEN m[i] ELSE n[i]]
    IN  [Min |-> min(a, b), Max |-> max(a, b), Clamp |-> max(a, min(v, b))]

-----------------------------------------------------------------------------
(* Quaternions.                                                            *)

identity == <<0, 0, 0, 1>>

Conjugate(q) == <<Wrap(-q[1]), Wrap(-q[2]), Wrap(-q[3]), q[4]>>

Hamilton(a, b) ==
    <<Wrap(a[4] * b[1] + a[1] * b[4] + a[2] * b[3] - a[3] * b[2]),
      Wrap(a[4] * b[2] + a[2] * b[4] + a[3] * b[1] - a[1] * b[3]),
      Wrap(a[4] * b[3] + a[3] * b[4] + a[1] * b[2] - a[2] * b[1]),
      Wrap(a[4] * b[4] - a[1] * b[1] - a[2] * b[2] - a[3] * b[3])>>

\* Compare, of the cosine of half the angle between two.
CompareAngles(a, b, cos) == LET dot == Dot(a, b, 4) IN dot >= cos \/ -dot >= cos

NormalizeSafe(q, safer) == IF Square(q) = 0 THEN safer ELSE Normalize(q)

NLerp(a, b, f) == Normalize(Lerp(a, b, f))

Halved(n) == Wrap(n * Reciprocal[2])

FromAxisAngle(axis, angle) ==
    LET sin == Opaque(3, Halved(angle))
    IN  <<Wrap(axis[1] * sin), Wrap(axis[2] * sin), Wrap(axis[3] * sin), Opaque(1, Halved(angle))>>

FromAxisCosAngle(axis, cos) ==
    LET half_cos2 == Halved(1 + cos)
        half_sin  == SquareRoot[Wrap(1 - half_cos2)]
    IN  <<Wrap(axis[1] * half_sin), Wrap(axis[2] * half_sin), Wrap(axis[3] * half_sin),
          SquareRoot[half_cos2]>>

\* The sine is too near to 0 to divide by when it is 0.
ToAxisAngle(q) ==
    LET w == IF q[4] < -1 THEN -1 ELSE IF q[4] > 1 THEN 1 ELSE q[4]
        s == SquareRoot[Wrap(1 - w * w)]
    IN  IF s = 0 THEN <<1, 0, 0, Wrap(2 * Opaque(2, w))>>
        ELSE <<Divide(q[1], s), Divide(q[2], s), Divide(q[3], s), Wrap(2 * Opaque(2, w))>>

\* What turns one of two opposite vectors into the other.
HalfTurn(from) ==
    IF (IF from[1] < 0 THEN -from[1] ELSE from[1]) > (IF from[3] < 0 THEN -from[3] ELSE from[3])
    THEN <<-from[2], from[1], 0, 0>> ELSE <<0, -from[3], from[2], 0>>

FromVectors(from, to) ==
    LET norms == SquareRoot[Wrap(Square(from) * Square(to))]
        real  == norms + Dot(from, to, 3)
    IN  CASE norms = 0 -> identity
          [] norms # 0 /\ real <= 0 -> Normalize(HalfTurn(from))
          [] norms # 0 /\ real > 0 -> Normalize(Append(Cross(from, to), real))

FromUnitVectors(from, to) ==
    LET real == 1 + Dot(from, to, 3)
    IN  IF real <= 0 THEN HalfTurn(from) ELSE Normalize(Append(Cross(from, to), real))

TransformVector(q, v) ==
    LET cross1 == Plus(Cross(q, v), [i \in 1 .. 3 |-> Wrap(v[i] * q[4])])
        cross2 == Cross(q, cross1)
    IN  Plus(Plus(v, cross2), cross2)

-----------------------------------------------------------------------------

\* What the functions of both forms return of the same arguments.
Vectors(a, v, b, f) ==
    VectorConstants(a) @@ VectorArithmetic(a, b, f) @@ VectorLengths(a, b) @@ VectorNormals(v, b)
    @@ VectorComparisons(a, b) @@ VectorExtremes(a, v, b)
    @@ [Lerp |-> Lerp(a, b, f), MAdd |-> Plus(Times(a, b), v)]
    @@ IF Len(a) = 3 THEN [Cross |-> Cross(a, b)] ELSE <<>>

Quaternions(a, b, f) ==
    [identity |-> identity, Conjugate |-> Conjugate(a), negate |-> Negative(a),
     plus |-> Plus(a, b), timesF |-> [i \in 1 .. 4 |-> Wrap(a[i] * f)], times |-> Hamilton(a, b),
     Dot |-> <<Dot(a, b, 4)>>, Compare |-> <<Mask(CompareAngles(a, b, f))>>,
     IsNormalized |-> <<Mask(IsNormalized(a))>>, Normalize |-> Normalize(b),
     NormalizeSafe |-> NormalizeSafe(a, b), Lerp |-> Lerp(a, b, f), NLerp |-> NLerp(a, b, f),
     equals |-> <<Mask(\A i \in 1 .. 4 : Equal(a[i], b[i]))>>]

RotationForms(axis, angle, from, to, q) ==
    [FromAxisAngle |-> FromAxisAngle(axis, angle), FromAxisCosAngle |-> FromAxisCosAngle(axis, angle),
     FromVectors |-> FromVectors(from, to), FromUnitVectors |-> FromUnitVectors(axis, SubSeq(q, 1, 3)),
     ToAxisAngle |-> ToAxisAngle(q), TransformVector |-> TransformVector(q, from)]
=============================================================================
