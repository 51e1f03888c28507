----------------------------- MODULE MCCharacter ----------------------------
(* A character on a small instance: see MCCharacter.cfg for the bounds; and   *)
(* the maths its jobs compute with, on samples of arguments.                 *)
EXTENDS Character, TLC

CONSTANTS Rest, Bent, Undefined, NaN, NoCall

VARIABLE kernel

\* Skeletons of up to three joints are posed: one block and a part of another.
MCHierarchies ==
    UNION {{[num_joints |-> n, parents |-> p] :
                p \in {q \in [0 .. n - 1 -> -1 .. n - 2] : IsDepthFirst(q)}} : n \in 1 .. 3}

MCRoot == <<"root">>

\* Tracks of up to five keys, and of up to four that may be steps.
Values == {0, 1, 3, 5}
MCSources ==
    UNION {[1 .. n -> [value : Values, step : {FALSE}]] : n \in 0 .. 5}
    \cup UNION {[1 .. n -> [value : Values, step : BOOLEAN]] : n \in 1 .. 4}

MCJointSettings ==
    { [distance |-> 1, tolerance |-> 3, scale |-> 2, translation |-> 2],
      [distance |-> 5, tolerance |-> 1, scale |-> 1, translation |-> 1] }

MCLanes == 0 .. 1
MCWeights == {-1, 1, 2}
MCJointWeights ==
    {Full, [j \in MCLanes |-> IF j = 0 THEN 0 ELSE 2], [j \in MCLanes |-> IF j = 0 THEN 1 ELSE -1]}
MCRotations == {<<1, 0>>, <<-1, 0>>, <<0, 1>>}
MCRestRotation == <<-1, 0>>

-----------------------------------------------------------------------------
(* The maths: vectors without symmetries, those at the limits of a function,  *)
(* and for rotations and lengths those whose roots are exact modulo 239.      *)

Lane4 == 1 .. 4
U == <<3, 1, 5, 2>>
V == <<7, -2, 4, 6>>
W == <<9, 8, -3, 11>>
Vectors4 == {U, V, W}

AllBits == 0 .. 31
Ints(v) ==
    [l \in Lane4 |->
        LET positive == {p \in 0 .. 30 : ((IF v[l] < 0 THEN -v[l] - 1 ELSE v[l]) \div 2 ^ p) % 2 = 1}
        IN  IF v[l] < 0 THEN AllBits \ positive ELSE positive]
MaskOf(on) == [l \in Lane4 |-> IF l \in on THEN AllBits ELSE {}]

VectorCalls ==
    { <<"Constants">>, <<"Loads", U, Ints(V)>>, <<"Lerp", U, V, W>>, <<"Trigonometry", U>>,
      <<"Transposes", [n \in 1 .. 16 |-> [l \in Lane4 |-> 4 * (n - 1) + l]]>>,
      <<"Arithmetic", U, V, W>>, <<"Arithmetic", W, U, V>>,
      <<"SignBits", Ints(V)>>, <<"Estimates", <<1, 4, 9, 16>>>>,
      <<"IntConstants">>, <<"Bitwise", MaskOf({1, 4}), Ints(U), Ints(V)>>,
      <<"IntLoads", Ints(U), <<TRUE, FALSE, TRUE, FALSE>>, <<4, 3, -3, -6>>>> }
    \cup {<<"Access", U, V, n, W>> : n \in 0 .. 3}
    \cup {<<"IntAccess", Ints(U), Ints(V), n, Ints(W)>> : n \in 0 .. 3}
    \cup {<<"Lengths", v>> : v \in {<<3, 4, 0, 0>>, <<1, 0, 0, 0>>, <<0, 4, 3, 12>>, <<1, 2, 2, 4>>}}
    \cup {<<"SafeNormals", v, V>> : v \in {<<3, 4, 0, 0>>, <<1, 0, 0, 0>>, <<0, 0, 0, 0>>,
                                           <<0, 0, 1, 5>>, <<0, 0, 0, 5>>, <<1, 2, 2, 4>>}}
    \cup {<<"Extremes", c, v, d>> : c, v, d \in Vectors4}
    \cup {<<"Comparisons", c, d>> : c, d \in Vectors4 \cup {<<3, -2, 5, 2>>}}
    \cup {<<"IntReductions", MaskOf(on)>> : on \in {{}, {1, 2, 3}, {1, 4}, Lane4}}
    \cup {<<"IntReductions", Ints(v)>> : v \in {V, <<0, 0, 0, 1>>}}
    \cup {<<"IntOperations", Ints(c), Ints(v), Ints(d), MaskOf({1, 4}), n>> :
             c, v, d \in Vectors4, n \in {0, 1, 30}}

Unit3(k) == [n \in 1 .. 3 |-> IF n = k THEN 1 ELSE 0]
Matrix(columns, translation) ==
    [k \in Lane4 |-> IF k = 4 THEN Append(translation, 1) ELSE Append(columns[k], 0)]
ScaledBy(s) == [k \in 1 .. 3 |-> [n \in 1 .. 3 |-> s[k] * Unit3(k)[n]]]

General == <<U, V, W, <<1, 2, 3, 1>>>>
Sheared == <<<<1, 2, 0, 0>>, <<0, 1, 3, 0>>, <<2, 0, 1, 0>>, <<4, 5, 6, 1>>>>
Singular == <<U, <<6, 2, 10, 4>>, W, <<1, 2, 3, 1>>>>
Straight(s) == Matrix(ScaledBy(s), <<1, 2, 3>>)

\* The axes in any order with any signs; half of them are rotations.
Cubes ==
    {m \in [1 .. 3 -> {[n \in 1 .. 3 |-> s * Unit3(k)[n]] : k \in 1 .. 3, s \in {-1, 1}}] :
        \A j, k \in 1 .. 3 : j # k => \A n \in 1 .. 3 : m[j][n] * m[k][n] = 0}
Turns ==
    {m \in Cubes :
        LET minor(k, l) == m[2][k] * m[3][l] - m[2][l] * m[3][k]
        IN  m[1][1] * minor(2, 3) - m[1][2] * minor(1, 3) + m[1][3] * minor(1, 2) = 1}
Stretched(m, s) ==
    Matrix([k \in 1 .. 3 |-> [n \in 1 .. 3 |-> s[k] * m[k][n]]], <<4, 5, 6>>)

UnitQuaternions == {<<2, 6, 2, 14>>, <<0, 0, 0, 1>>, <<1, 0, 0, 0>>, <<-2, 6, 2, 14>>, <<6, 2, -14, 2>>}

MatrixCalls ==
    { <<"Makers", U>>, <<"FromEuler", U>>, <<"FromEuler", V>>,
      <<"Products", General, Sheared>>, <<"Products", Sheared, General>>,
      <<"Operators", U, V>>, <<"Operators", W, U>> }
    \cup {<<"Inverses", m>> : m \in {General, Sheared, Singular, Straight(<<1, 1, 1>>)}}
    \cup {<<"FromAxisAngle", v, V>> : v \in {<<1, 0, 0, 0>>, <<0, 1, 0, 5>>, <<0, 0, 1, 0>>, <<2, 6, 14, 2>>}}
    \cup {<<"FromQuaternion", q>> : q \in UnitQuaternions}
    \cup {<<"FromAffine", U, q, V>> : q \in UnitQuaternions}
    \cup {<<"Rotations", Matrix(m, <<0, 0, 0>>)>> : m \in Turns}
    \cup {<<"Affines", Stretched(m, s)>> :
             m \in Turns, s \in {<<2, 3, 4>>, <<-2, 3, 4>>, <<0, 3, 4>>, <<2, 0, 3>>, <<2, 3, 0>>,
                                 <<0, 0, 2>>, <<0, 2, 0>>, <<2, 0, 0>>}}
    \cup {<<"Tests", m>> : m \in {General} \cup {Matrix(m, <<0, 0, 0>>) : m \in Cubes}
             \cup {Straight(s) : s \in {<<1, 1, 1>>, <<1, 1, -1>>, <<2, 3, 4>>, <<1, 0, 1>>}}}
    \cup {<<"Transforms", m, v>> : m \in {General, Sheared}, v \in Vectors4}

\* Magnitudes at the limits of a half: ties, the least ones, overflow, infinity, NaN.
HalfCalls ==
    {<<"HalfFloats", <<1, f>>, <<0, h>>>> :
        f \in {0, 1, 2 ^ 23, 102 * 2 ^ 23 - 1, 102 * 2 ^ 23, 102 * 2 ^ 23 + 1, 103 * 2 ^ 23,
               105 * 2 ^ 23 + 12345, 113 * 2 ^ 23 - 1, 113 * 2 ^ 23, 113 * 2 ^ 23 + 2 ^ 12 - 1,
               113 * 2 ^ 23 + 2 ^ 12, 113 * 2 ^ 23 + 2 ^ 12 + 1, 127 * 2 ^ 23,
               143 * 2 ^ 23 - 2 ^ 13, 143 * 2 ^ 23 - 2 ^ 12 - 1, 143 * 2 ^ 23 - 2 ^ 12,
               143 * 2 ^ 23 - 1, 200 * 2 ^ 23 + 7, 255 * 2 ^ 23, 255 * 2 ^ 23 + 5},
        h \in {0, 1, 2, 3, 1023, 1024, 1025, 15 * 1024, 31 * 1024 - 1, 31 * 1024, 31 * 1024 + 9}}

MCCalls == VectorCalls \cup MatrixCalls \cup HalfCalls

-----------------------------------------------------------------------------
(* Skinning jobs of two vertices and of one, of one to six joints.           *)

Span(begin, size, stride) == [begin |-> begin, size |-> size, stride |-> stride]
NoSpan == Span(Undefined, 0, 0)
Palette == <<General, Sheared, Stretched(<<Unit3(2), Unit3(3), Unit3(1)>>, <<2, 3, 4>>)>>

\* A job of n vertices of some of three attributes; what it reads is given, and what it writes.
SkinningJob(n, joints, attributes, inverses, in, out, weights, size) ==
    [vertex_count |-> n, influences_count |-> joints,
     memory |-> [a \in 1 .. size |-> ((a * a * 7 + 5 * a) % 31) - 15],
     joint_matrices |-> Palette,
     joint_inverse_transpose_matrices |-> IF inverses THEN <<Palette[2], Palette[3], Palette[1]>> ELSE <<>>,
     joint_indices |-> [begin |-> 0, size |-> n * joints, stride |-> joints,
                        joints |-> [j \in 1 .. n * joints |-> (j * j) % 3]],
     joint_weights |-> weights,
     in |-> [k \in 1 .. 3 |-> IF k <= attributes THEN in[k] ELSE NoSpan],
     out |-> [k \in 1 .. 3 |-> IF k <= attributes THEN out[k] ELSE NoSpan]]

\* An array of structures that is skinned in place, the weights at the end of each.
Packed(n, joints, attributes, inverses) ==
    LET stride == 3 * attributes + joints - 1
        span(at, size) == Span(at, (n - 1) * stride + size, stride)
        places == [k \in 1 .. attributes |-> span(3 * (k - 1), 3)]
    IN  SkinningJob(n, joints, attributes, inverses, places, places,
                    span(3 * attributes, joints - 1), n * stride)

\* Arrays of each attribute, from some to others.
Apart(n, joints, attributes, inverses) ==
    LET arrays(at) == [k \in 1 .. attributes |-> Span(at + 3 * n * (k - 1), 3 * n, 3)]
        weights == 6 * n * attributes
    IN  SkinningJob(n, joints, attributes, inverses, arrays(0), arrays(3 * n * attributes),
                    Span(weights, n * (joints - 1), joints - 1), weights + n * (joints - 1))

Skinned3 == Packed(2, 3, 3, TRUE)
SkinningForms ==
    {<<"Skinning", Packed(2, joints, attributes, inverses), "OK">> :
        joints \in {1, 2, 3, 4, 6}, attributes \in {1, 3}, inverses \in BOOLEAN}
    \cup {<<"Skinning", Apart(n, joints, 2, n = 3), "OK">> : n \in {1, 3}, joints \in {1, 3, 4, 6}}
    \cup {<<"Skinning", [Skinned3 EXCEPT !.vertex_count = 0], "OK">>,
          <<"Skinning", [Skinned3 EXCEPT !.influences_count = 0], "JOB_INVALID">>,
          <<"Skinning", [Skinned3 EXCEPT !.vertex_count = 3], "JOB_INVALID">>,
          <<"Skinning", [Skinned3 EXCEPT !.out[3] = NoSpan], "JOB_INVALID">>,
          <<"Skinning", [Skinned3 EXCEPT !.in[2] = NoSpan], "JOB_INVALID">>,
          <<"Skinning", [Skinned3 EXCEPT !.out[1] = NoSpan], "JOB_INVALID">>,
          <<"Skinning", [Skinned3 EXCEPT !.out[2].size = @ - 1], "JOB_INVALID">>,
          <<"Skinning", [Skinned3 EXCEPT !.joint_matrices = <<>>], "JOB_INVALID">>,
          <<"Skinning", [Skinned3 EXCEPT !.in[1].begin = Undefined], "INVALID_ARGUMENT">>}

\* Arguments for every lane: those of one lane are not those of another.
Quads(u, v) == <<u, v, u, v>>
MCForms ==
    { <<"Vectors", <<<<3, 4>>, <<0, 1>>, <<0, 0>>, <<6, 8>>>>, <<<<1, 2>>, <<3, 4>>, <<-3, 9>>, <<7, 7>>>>,
        <<<<4, 3>>, <<8, 6>>, <<1, 0>>, <<6, 8>>>>, <<1, 0, 2, 5>>>>,
      <<"Vectors", <<<<3, 4, 0>>, <<0, 1, 0>>, <<0, 0, 0>>, <<1, 2, 2>>>>,
        <<<<1, 2, 3>>, <<3, 4, 5>>, <<-3, 9, -1>>, <<7, 7, 2>>>>,
        <<<<4, 3, 0>>, <<8, 6, 0>>, <<1, 0, 0>>, <<2, 2, 1>>>>, <<1, 0, 2, 5>>>>,
      <<"Vectors", <<<<3, 4, 0, 0>>, <<0, 1, 0, 0>>, <<0, 0, 0, 0>>, <<1, 2, 2, 4>>>>,
        <<U, <<3, 4, 5, -6>>, <<-3, 9, -1, 0>>, <<7, 7, 2, 2>>>>,
        <<<<4, 3, 0, 0>>, <<8, 6, 0, 0>>, <<1, 0, 0, 0>>, <<4, 2, 2, 1>>>>, <<1, 0, 2, 5>>>>,
      <<"Matrices", <<General, Sheared, Singular, General>>, Quads(Sheared, General),
        <<<<1, 2, 3>>, <<4, 5, 6>>, <<0, 0, 0>>, <<-1, -2, -3>>>>,
        <<<<2, 6, 2, 14>>, <<0, 0, 0, 1>>, <<6, 2, -14, 2>>, <<1, 0, 0, 0>>>>,
        <<<<1, 1, 1>>, <<2, 3, 4>>, <<-1, 2, 0>>, <<3, 3, 3>>>>>> }
    \cup {<<"Quaternions", <<<<2, 6, 2, 14>>, <<0, 0, 0, 1>>, <<3, 4, 0, 0>>, <<0, 0, 0, 0>>>>,
            <<<<6, 2, -14, 2>>, <<2, 6, 2, 14>>, <<0, 0, 0, 1>>, <<0, 0, 0, -1>>>>, f>> :
             f \in {<<0, 1, 0, 1>>, <<1, 0, 1, 0>>}}
    \cup {<<"Quaternions", <<c, c, c, c>>, Quads(d, c), <<0, 1, 0, 1>>>> :
             c, d \in {<<1, 2, 2, 4>>, <<-3, 0, 4, 0>>, <<0, 0, 0, 1>>, <<0, 0, 0, -1>>}}
    \cup {<<"Rotations", <<1, 0, 0, 0>>, <<5, 5, 5, 5>>, from, to, q>> :
             from \in {<<1, 2, 2, 0>>, <<3, 4, 0, 0>>, <<-2, 1, 2, 0>>, <<-1, -2, -2, 0>>, <<0, 0, 0, 0>>},
             to \in {<<-1, -2, -2, 0>>, <<2, 1, 2, 0>>, <<0, 0, 3, 0>>},
             q \in {<<0, 0, 0, 1>>, <<1, 0, 0, 0>>, <<0, 1, 0, 0>>, <<-1, 0, 0, 0>>, <<0, 0, -1, 0>>,
                    <<0, 0, 0, -1>>, <<22, 15, 3, 0>>}}
    \cup SkinningForms

Maths == INSTANCE MathsForms WITH Prime <- 239, Calls <- MCCalls, Forms <- MCForms

MCInit == Init /\ Maths!MathsInit

\* The maths keep no state: they are called while there is nothing else.
MCNext ==
    \/ kernel = NoCall /\ Next /\ UNCHANGED kernel
    \/ Fresh /\ ~Posed /\ Maths!MathsNext /\ UNCHANGED vars

MCSpec == MCInit /\ [][MCNext]_<<vars, kernel>>

\* Whatever a host asks of simd_math.h, a build without SSE 4.1, one with it and the
\* reference return in every lane what the header declares (see MathsForms).
BuildsKeepContract == Maths!BuildsKeepContract

\* A vector, a quaternion or a matrix is the same in every form: in a structure of
\* arrays, lane by lane, in one SIMD vector, and in scalars (see MathsForms).
FormsAgree == Maths!FormsAgree
=============================================================================
