----------------------------- MODULE MathsForms -----------------------------
(***************************************************************************)
(* The maths of ozz in its builds and forms.  simd_math.h has two builds   *)
(* of SSE and a reference; scalars, one thing in a SIMD vector, and four   *)
(* in structures of arrays are three forms of the same functions.  The     *)
(* jobs of the runtime use the last, what authors and tests the first.     *)
(*                                                                         *)
(* A host calls a function, what every build returns is compared with what *)
(* the header declares, and what every form returns with the scalars.      *)
(***************************************************************************)
EXTENDS LaneNumbers

CONSTANTS
    Calls,      \* <<group, arguments...>>: what is asked of simd_math.h
    Forms,      \* what more than one form answers, with arguments for every lane
    NoCall

VARIABLE kernel     \* the call being made

Sse2 == INSTANCE SimdSse WITH Sse41 <- FALSE
Sse4 == INSTANCE SimdSse WITH Sse41 <- TRUE
Reference == INSTANCE SimdReference
Declared == INSTANCE SimdMath

MathsInit == kernel = NoCall

Call == /\ kernel = NoCall
        /\ kernel' \in Calls \cup Forms

ReturnOfCall == /\ kernel # NoCall
                /\ kernel' = NoCall

MathsNext == Call \/ ReturnOfCall

\* What a build returns otherwise than the header says.  HAdd4 of floats (simd_math.h:318-324)
\* keeps y, z and w in the header only; the NormalizeSafe of 2 and 3 lanes of SSE take all of
\* _safe, not only the lanes they normalize (simd_math_sse-inl.h:727); the tests of all lanes of
\* SSE look at sign bits where the reference looks for any bit (simd_math_sse-inl.h:1229).
SumOfFour == {<<"Arithmetic", "HAdd4">>}

Departures ==
    [sse |-> SumOfFour
             \cup {"SafeNormals"} \X {"NormalizeSafe2", "NormalizeSafe3", "NormalizeSafeEst2",
                                      "NormalizeSafeEst3"}
             \cup {"IntReductions"} \X {"AreAllTrue", "AreAllTrue3", "AreAllTrue2", "AreAllTrue1",
                                        "AreAllFalse", "AreAllFalse3", "AreAllFalse2", "AreAllFalse1"},
     reference |-> SumOfFour]

\* Every lane that is promised is what a build returns.
Keeps(returned, departures) ==
    LET declared == Declared!Returned(kernel)
    IN  \A f \in {g \in DOMAIN declared : <<kernel[1], g>> \notin departures} :
            \A l \in DOMAIN declared[f] : declared[f][l] \in {Undefined, returned[f][l]}

\* A call returns, in every build and lane, what the header declares, whatever the shuffles, masks and
\* selections it gets there by: what a build for one processor plays, a build for another plays,
\* and so does the reference a build without SSE falls back on (simd_math.h; build.zig:232-246).
BuildsKeepContract ==
    [][ReturnOfCall /\ kernel \in Calls =>
            /\ Keeps(Sse2!Returned(kernel), Departures.sse)
            /\ Keeps(Sse4!Returned(kernel), Departures.sse)
            /\ Keeps(Reference!Returned(kernel), Departures.reference)]_kernel

-----------------------------------------------------------------------------
(* The forms.                                                              *)

Sse2Returned(c) == Sse2!Returned(c)
Sse4Returned(c) == Sse4!Returned(c)
ReferenceReturned(c) == Reference!Returned(c)

FormsOfSse2 == INSTANCE SimdForms WITH Returned <- Sse2Returned
FormsOfSse4 == INSTANCE SimdForms WITH Returned <- Sse4Returned
FormsOfReference == INSTANCE SimdForms WITH Returned <- ReferenceReturned
Scalars == INSTANCE FloatVectors

\* Four vectors as the elements of one, and a matrix of each lane as one of vectors.
Soa(vs) == [i \in DOMAIN vs[1] |-> [l \in Lanes |-> vs[l][i]]]
SoaMatrix(ms) == [k \in Lanes |-> Soa([l \in Lanes |-> ms[l][k]])]

\* What a lane of a result is.
Lane(r, l) == [i \in DOMAIN r |-> r[i][l]]

\* Every lane of what structures of arrays return is what the scalars return.
SoaAgrees(soa, scalar) ==
    \A l \in Lanes : \A op \in DOMAIN soa \cap DOMAIN scalar[l] :
        Lane(soa[op], l) = scalar[l][op]

VectorsAgree(c) ==
    LET scalar == [l \in Lanes |-> Scalars!Vectors(c[2][l], c[3][l], c[4][l], c[5][l])]
    IN  /\ SoaAgrees(FormsOfSse2!Vectors(Soa(c[2]), Soa(c[3]), Soa(c[4]), c[5]), scalar)
        /\ SoaAgrees(FormsOfSse4!Vectors(Soa(c[2]), Soa(c[3]), Soa(c[4]), c[5]), scalar)
        /\ SoaAgrees(FormsOfReference!Vectors(Soa(c[2]), Soa(c[3]), Soa(c[4]), c[5]), scalar)

\* What a SIMD vector returns, in the lanes that the scalars have.
AosAgrees(aos, scalar) ==
    \A op \in DOMAIN aos \cap DOMAIN scalar : \A i \in DOMAIN scalar[op] :
        scalar[op][i] \in {Undefined, aos[op][i]}

Estimated(q) == q @@ [NormalizeEst |-> q.Normalize, NLerpEst |-> q.NLerp,
                      NormalizeSafeEst |-> q.NormalizeSafe, IsNormalizedEst |-> q.IsNormalized]

QuaternionsAgree(c) ==
    LET scalar == [l \in Lanes |-> Estimated(Scalars!Quaternions(c[2][l], c[3][l], c[4][l]))]
    IN  /\ SoaAgrees(FormsOfSse2!Quaternions(Soa(c[2]), Soa(c[3]), c[4]), scalar)
        /\ SoaAgrees(FormsOfSse4!Quaternions(Soa(c[2]), Soa(c[3]), c[4]), scalar)
        /\ SoaAgrees(FormsOfReference!Quaternions(Soa(c[2]), Soa(c[3]), c[4]), scalar)
        /\ \A l \in Lanes :
              /\ AosAgrees(FormsOfSse2!AosQuaternions(c[2][l], c[3][l]), scalar[l])
              /\ AosAgrees(FormsOfSse4!AosQuaternions(c[2][l], c[3][l]), scalar[l])
              /\ AosAgrees(FormsOfReference!AosQuaternions(c[2][l], c[3][l]), scalar[l])

\* The angle of no rotation is told by none but the scalars.
Told(r, q) ==
    IF q[4] \in {-1, 1} THEN [r EXCEPT !.ToAxisAngle = [@ EXCEPT ![4] = Undefined]] ELSE r

RotationsAgree(c) ==
    LET v3(v)  == SubSeq(v, 1, 3)
        scalar == Told(Scalars!RotationForms(v3(c[2]), c[3][1], v3(c[4]), v3(c[5]), c[6]), c[6])
    IN  /\ AosAgrees(FormsOfSse2!AosRotations(c[2], c[3], c[4], c[5], c[6]), scalar)
        /\ AosAgrees(FormsOfSse4!AosRotations(c[2], c[3], c[4], c[5], c[6]), scalar)
        /\ AosAgrees(FormsOfReference!AosRotations(c[2], c[3], c[4], c[5], c[6]), scalar)
        /\ scalar.TransformVector = Declared!Rotated(c[6], c[4])

MatricesAgree(c) ==
    LET lane(l) == LET m == c[2][l]  n == c[3][l]  t == c[4][l]  q == c[5][l]  s == c[6][l]
                       inverse == Declared!Inverses(m).columns
                   IN  [identity |-> Declared!Axes, Scaling |-> Declared!Scaling(s),
                        FromQuaternion |-> Declared!Rotation(q),
                        FromAffine |-> Declared!FromAffine(t, q, s).FromAffine,
                        Transpose |-> Declared!Transformed(m, s).Transpose,
                        inverse |-> [k \in Lanes |-> IF inverse[k] = Undefined THEN Splat(0)
                                                     ELSE inverse[k]],
                        Scale |-> Declared!Transformed(m, s).Scale]
                       @@ Declared!Products(m, n)
        agrees(soa) == \A l \in Lanes : \A op \in DOMAIN soa : \A k \in Lanes :
                          Lane(soa[op][k], l) = lane(l)[op][k]
        m == SoaMatrix(c[2])  n == SoaMatrix(c[3])  t == Soa(c[4])  q == Soa(c[5])  s == Soa(c[6])
    IN  /\ agrees(FormsOfSse2!MatricesOf(m, n, t, q, s))
        /\ agrees(FormsOfSse4!MatricesOf(m, n, t, q, s))
        /\ agrees(FormsOfReference!MatricesOf(m, n, t, q, s))

\* What a lane of a vertex is skinned to: the sum of what each joint makes of it, by its weight.
SkinnedLane(job, k, i, l) ==
    LET n == job.influences_count
        palette == IF k > 1 /\ job.joint_inverse_transpose_matrices # <<>>
                   THEN job.joint_inverse_transpose_matrices ELSE job.joint_matrices
        given(j) == job.memory[job.joint_weights.begin + i * job.joint_weights.stride + j]
        weight(j) == IF j < n THEN given(j) ELSE 1 - MapThenSumSet(given, 1 .. n - 1)
        vertex == [d \in 1 .. 3 |-> job.memory[job.in[k].begin + i * job.in[k].stride + d]]
        joint(j) == palette[job.joint_indices.joints[i * job.joint_indices.stride + j] + 1]
        moved(j) == Dot([d \in Lanes |-> joint(j)[d][l]], Append(vertex, IF k = 1 THEN 1 ELSE 0), 4)
    IN  Wrap(MapThenSumSet(LAMBDA j : weight(j) * moved(j), 1 .. n))

\* The memory a job is to leave: nothing but its outputs is written.
SkinnedMemory(job) ==
    LET outputs == {k \in 1 .. 3 : job.in[k].size > 0} \X (0 .. job.vertex_count - 1) \X (1 .. 3)
        place(o) == job.out[o[1]].begin + o[2] * job.out[o[1]].stride + o[3]
    IN  [a \in DOMAIN job.memory |->
            IF \E o \in outputs : place(o) = a
            THEN LET o == CHOOSE o \in outputs : place(o) = a IN SkinnedLane(job, o[1], o[2], o[3])
            ELSE job.memory[a]]

SkinningAgrees(c) ==
    LET expected == [result |-> c[3],
                     memory |-> IF c[3] = "OK" THEN SkinnedMemory(c[2]) ELSE c[2].memory]
    IN  /\ c[3] = "OK" => FormsOfSse2!LoadsInside(c[2])
        /\ FormsOfSse2!zozzSkinningJobRun(c[2]) = expected
        /\ FormsOfSse4!zozzSkinningJobRun(c[2]) = expected
        /\ FormsOfReference!zozzSkinningJobRun(c[2]) = expected

\* A vector, a quaternion, a matrix or a rotation is what the scalars make of the same arguments
\* in every other form: lane by lane in a structure of arrays, whatever is in the lanes beside it,
\* and in the lanes of one SIMD vector (soa_float.h, soa_quaternion.h, soa_float4x4.h,
\* simd_quaternion.h, against vec_float.h and quaternion.h).  A skinned vertex is the sum of what
\* its joints make of it, by their weights, however many influence it, whichever of its attributes
\* are skinned, and whatever lies beside it, where the attributes interleave and where the job
\* writes what it reads as well; no other float is written, and none is loaded past the end of
\* what it was given for (skinning_job.cc).
FormsAgree ==
    [][ReturnOfCall /\ kernel \in Forms =>
            CASE kernel[1] = "Vectors" -> VectorsAgree(kernel)
              [] kernel[1] = "Quaternions" -> QuaternionsAgree(kernel)
              [] kernel[1] = "Rotations" -> RotationsAgree(kernel)
              [] kernel[1] = "Matrices" -> MatricesAgree(kernel)
              [] kernel[1] = "Skinning" -> SkinningAgrees(kernel)]_kernel
=============================================================================
