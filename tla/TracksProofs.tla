---------------------------- MODULE TracksProofs ----------------------------
(***************************************************************************)
(* Proofs about user tracks and the tools that make animations, for any    *)
(* tracks, ratios, clips and poses: a built track is sampled as it was     *)
(* authored, a delta animation gives back what it was made of, and the     *)
(* edges of a track tell a host what it is.                                *)
(***************************************************************************)
EXTENDS RawAnimationTools, WellFoundedInduction, TLAPS

-----------------------------------------------------------------------------
(* Quaternions.                                                            *)

IsQuad(q) == q[1] \in Int /\ q[2] \in Int /\ q[3] \in Int /\ q[4] \in Int

\* s is q but for a factor.
Along(s, q) ==
    \E c \in Int \ {0} :
        s[1] = c * q[1] /\ s[2] = c * q[2] /\ s[3] = c * q[3] /\ s[4] = c * q[4]

LEMMA DotInt ==
  ASSUME NEW a, NEW b, IsQuad(a), IsQuad(b)
  PROVE  Dot(a, b) \in Int /\ Dot(a, b) = Dot(b, a)
BY DEF Dot, IsQuad

LEMMA RotationsNonzero ==
  ASSUME NEW q \in Rotations
  PROVE  IsQuad(q) /\ Dot(q, q) > 0
<1>1. q \in Int \X Int \X Int \X Int /\ q # <<0, 0, 0, 0>>
  BY DEF Rotations
<1>2. IsQuad(q) /\ q = <<q[1], q[2], q[3], q[4]>>
  BY <1>1 DEF IsQuad
<1>3. ~(q[1] = 0 /\ q[2] = 0 /\ q[3] = 0 /\ q[4] = 0)
  BY <1>1, <1>2
<1>4. ASSUME NEW x \in Int PROVE x * x >= 0 /\ (x # 0 => x * x > 0)
  OBVIOUS
<1> QED BY <1>2, <1>3, <1>4 DEF IsQuad, Dot

LEMMA TimesQuad ==
  ASSUME NEW a, NEW b, IsQuad(a), IsQuad(b)
  PROVE  IsQuad(Times(a, b))
BY DEF IsQuad, Times

LEMMA ConjugateQuad ==
  ASSUME NEW a, IsQuad(a)
  PROVE  IsQuad(Conjugate(a)) /\ Dot(Conjugate(a), Conjugate(a)) = Dot(a, a)
BY DEF IsQuad, Conjugate, Dot

LEMMA NegatedQuad ==
  ASSUME NEW a, IsQuad(a)
  PROVE  /\ IsQuad(Negated(a))
         /\ Negated(a)[1] = -a[1] /\ Negated(a)[2] = -a[2]
         /\ Negated(a)[3] = -a[3] /\ Negated(a)[4] = -a[4]
BY DEF IsQuad, Negated

\* What goes along one rotation is the same rotation.
LEMMA AlongSame ==
  ASSUME NEW q, IsQuad(q), Dot(q, q) > 0, NEW a, NEW b, Along(a, q), Along(b, q)
  PROVE  SameRotation(a, b)
<1>1. PICK c \in Int \ {0} : a[1] = c * q[1] /\ a[2] = c * q[2] /\ a[3] = c * q[3] /\ a[4] = c * q[4]
  BY DEF Along
<1>2. PICK d \in Int \ {0} : b[1] = d * q[1] /\ b[2] = d * q[2] /\ b[3] = d * q[3] /\ b[4] = d * q[4]
  BY DEF Along
<1>3. Dot(a, b) = (c * d) * Dot(q, q)
  BY <1>1, <1>2 DEF Dot, IsQuad
<1>4. c * d # 0 /\ c * d \in Int
  OBVIOUS
<1>5. Dot(a, b) # 0
  <2> DEFINE e == c * d
             n == Dot(q, q)
  <2>1. n \in Int /\ n > 0
    BY DotInt
  <2> HIDE DEF e, n
  <2>2. e \in Int /\ e # 0
    BY <1>4 DEF e
  <2>3. e * n # 0
    BY <2>1, <2>2
  <2> QED BY <1>3, <2>3 DEF e, n
<1>6. ASSUME NEW i \in 1 .. 4, NEW j \in 1 .. 4
      PROVE  a[i] * b[j] = a[j] * b[i]
  <2>1. a[i] = c * q[i] /\ a[j] = c * q[j] /\ b[i] = d * q[i] /\ b[j] = d * q[j]
    BY <1>1, <1>2
  <2>2. q[i] \in Int /\ q[j] \in Int
    BY DEF IsQuad
  <2> QED BY <2>1, <2>2
<1> QED BY <1>5, <1>6 DEF SameRotation

LEMMA AlongItself ==
  ASSUME NEW q, IsQuad(q)
  PROVE  Along(q, q) /\ Along(Negated(q), q)
<1>1. Along(q, q)
  <2>1. 1 \in Int \ {0}
    OBVIOUS
  <2> QED BY <2>1 DEF Along, IsQuad
<1>2. Along(Negated(q), q)
  <2>1. -1 \in Int \ {0}
    OBVIOUS
  <2>2. /\ Negated(q)[1] = (-1) * q[1] /\ Negated(q)[2] = (-1) * q[2]
        /\ Negated(q)[3] = (-1) * q[3] /\ Negated(q)[4] = (-1) * q[4]
    BY NegatedQuad DEF IsQuad
  <2> QED BY <2>1, <2>2 DEF Along
<1> QED BY <1>1, <1>2

-----------------------------------------------------------------------------
(* Additive animations.                                                    *)

\* The same in numbers, which is what the arithmetic is of.
ToAndBack(a1, a2, a3, a4, b1, b2, b3, b4) ==
    LET c1 == a4 * b1 + (-a1) * b4 + (-a2) * b3 - (-a3) * b2
        c2 == a4 * b2 + (-a2) * b4 + (-a3) * b1 - (-a1) * b3
        c3 == a4 * b3 + (-a3) * b4 + (-a1) * b2 - (-a2) * b1
        c4 == a4 * b4 - (-a1) * b1 - (-a2) * b2 - (-a3) * b3
        n  == a1 * a1 + a2 * a2 + a3 * a3 + a4 * a4
        m  == b1 * b1 + b2 * b2 + b3 * b3 + b4 * b4
    IN  /\ a4 * c1 + a1 * c4 + a2 * c3 - a3 * c2 = n * b1
        /\ a4 * c2 + a2 * c4 + a3 * c1 - a1 * c3 = n * b2
        /\ a4 * c3 + a3 * c4 + a1 * c2 - a2 * c1 = n * b3
        /\ a4 * c4 - a1 * c1 - a2 * c2 - a3 * c3 = n * b4
        /\ b4 * (-c1) + b1 * c4 + b2 * (-c3) - b3 * (-c2) = m * a1
        /\ b4 * (-c2) + b2 * c4 + b3 * (-c1) - b1 * (-c3) = m * a2
        /\ b4 * (-c3) + b3 * c4 + b1 * (-c2) - b2 * (-c1) = m * a3
        /\ b4 * c4 - b1 * (-c1) - b2 * (-c2) - b3 * (-c3) = m * a4
        /\ a4 * (-c1) + a1 * (-c4) + a2 * (-c3) - a3 * (-c2) = (-n) * b1
        /\ a4 * (-c2) + a2 * (-c4) + a3 * (-c1) - a1 * (-c3) = (-n) * b2
        /\ a4 * (-c3) + a3 * (-c4) + a1 * (-c2) - a2 * (-c1) = (-n) * b3
        /\ a4 * (-c4) - a1 * (-c1) - a2 * (-c2) - a3 * (-c3) = (-n) * b4
        /\ b4 * (-(-c1)) + b1 * (-c4) + b2 * (-(-c3)) - b3 * (-(-c2)) = (-m) * a1
        /\ b4 * (-(-c2)) + b2 * (-c4) + b3 * (-(-c1)) - b1 * (-(-c3)) = (-m) * a2
        /\ b4 * (-(-c3)) + b3 * (-c4) + b1 * (-(-c2)) - b2 * (-(-c1)) = (-m) * a3
        /\ b4 * (-c4) - b1 * (-(-c1)) - b2 * (-(-c2)) - b3 * (-(-c3)) = (-m) * a4

LEMMA ThereAndBackInNumbers ==
  ASSUME NEW a1 \in Int, NEW a2 \in Int, NEW a3 \in Int, NEW a4 \in Int,
         NEW b1 \in Int, NEW b2 \in Int, NEW b3 \in Int, NEW b4 \in Int
  PROVE  ToAndBack(a1, a2, a3, a4, b1, b2, b3, b4)
BY DEF ToAndBack

\* To the reference and back.
LEMMA ThereAndBack ==
  ASSUME NEW r, NEW v, IsQuad(r), IsQuad(v), Dot(r, r) > 0
  PROVE  /\ Along(Times(r, Times(Conjugate(r), v)), v)
         /\ Along(Times(r, Negated(Times(Conjugate(r), v))), v)
<1> DEFINE d == Times(Conjugate(r), v)
           n == Dot(r, r)
<1>1. n \in Int \ {0} /\ -n \in Int \ {0}
  BY DotInt
<1>2. ToAndBack(r[1], r[2], r[3], r[4], v[1], v[2], v[3], v[4])
  <2>1. /\ r[1] \in Int /\ r[2] \in Int /\ r[3] \in Int /\ r[4] \in Int
        /\ v[1] \in Int /\ v[2] \in Int /\ v[3] \in Int /\ v[4] \in Int
    BY DEF IsQuad
  <2> QED BY ONLY <2>1, ThereAndBackInNumbers, Zenon
<1>3. /\ Times(r, d)[1] = n * v[1] /\ Times(r, d)[2] = n * v[2]
      /\ Times(r, d)[3] = n * v[3] /\ Times(r, d)[4] = n * v[4]
  BY ONLY <1>2 DEF ToAndBack, Times, Conjugate, Dot
<1>4. /\ Times(r, Negated(d))[1] = (-n) * v[1] /\ Times(r, Negated(d))[2] = (-n) * v[2]
      /\ Times(r, Negated(d))[3] = (-n) * v[3] /\ Times(r, Negated(d))[4] = (-n) * v[4]
  <2>1. /\ Negated(d)[1] = -d[1] /\ Negated(d)[2] = -d[2]
        /\ Negated(d)[3] = -d[3] /\ Negated(d)[4] = -d[4]
    BY ONLY TRUE DEF Negated
  <2> DEFINE m == Negated(d)
  <2> HIDE DEF m, n
  <2>2. /\ Times(r, m)[1] = r[4] * (-d[1]) + r[1] * (-d[4]) + r[2] * (-d[3]) - r[3] * (-d[2])
        /\ Times(r, m)[2] = r[4] * (-d[2]) + r[2] * (-d[4]) + r[3] * (-d[1]) - r[1] * (-d[3])
        /\ Times(r, m)[3] = r[4] * (-d[3]) + r[3] * (-d[4]) + r[1] * (-d[2]) - r[2] * (-d[1])
        /\ Times(r, m)[4] = r[4] * (-d[4]) - r[1] * (-d[1]) - r[2] * (-d[2]) - r[3] * (-d[3])
    BY <2>1 DEF Times, m
  <2>3. /\ r[4] * (-d[1]) + r[1] * (-d[4]) + r[2] * (-d[3]) - r[3] * (-d[2]) = (-n) * v[1]
        /\ r[4] * (-d[2]) + r[2] * (-d[4]) + r[3] * (-d[1]) - r[1] * (-d[3]) = (-n) * v[2]
        /\ r[4] * (-d[3]) + r[3] * (-d[4]) + r[1] * (-d[2]) - r[2] * (-d[1]) = (-n) * v[3]
        /\ r[4] * (-d[4]) - r[1] * (-d[1]) - r[2] * (-d[2]) - r[3] * (-d[3]) = (-n) * v[4]
    BY ONLY <1>2 DEF ToAndBack, Times, Conjugate, Dot, d, n
  <2> QED BY ONLY <2>2, <2>3 DEF m
<1> HIDE DEF d, n
<1>5. Along(Times(r, d), v) /\ Along(Times(r, Negated(d)), v)
  BY <1>1, <1>3, <1>4 DEF Along
<1> QED BY <1>5 DEF d

LEMMA BackAndThere ==
  ASSUME NEW r, NEW v, IsQuad(r), IsQuad(v), Dot(v, v) > 0
  PROVE  /\ Along(Times(v, Conjugate(Times(Conjugate(r), v))), r)
         /\ Along(Times(v, Conjugate(Negated(Times(Conjugate(r), v)))), r)
<1> DEFINE d == Times(Conjugate(r), v)
           e == Conjugate(d)
           f == Conjugate(Negated(d))
           n == Dot(v, v)
<1>1. n \in Int \ {0} /\ -n \in Int \ {0}
  BY DotInt
<1>2. ToAndBack(r[1], r[2], r[3], r[4], v[1], v[2], v[3], v[4])
  <2>1. /\ r[1] \in Int /\ r[2] \in Int /\ r[3] \in Int /\ r[4] \in Int
        /\ v[1] \in Int /\ v[2] \in Int /\ v[3] \in Int /\ v[4] \in Int
    BY DEF IsQuad
  <2> QED BY ONLY <2>1, ThereAndBackInNumbers, Zenon
<1>3. /\ Times(v, e)[1] = n * r[1] /\ Times(v, e)[2] = n * r[2]
      /\ Times(v, e)[3] = n * r[3] /\ Times(v, e)[4] = n * r[4]
  BY ONLY <1>2 DEF ToAndBack, Times, Conjugate, Dot
<1>4. /\ Times(v, f)[1] = (-n) * r[1] /\ Times(v, f)[2] = (-n) * r[2]
      /\ Times(v, f)[3] = (-n) * r[3] /\ Times(v, f)[4] = (-n) * r[4]
  <2>1. /\ Negated(d)[1] = -d[1] /\ Negated(d)[2] = -d[2]
        /\ Negated(d)[3] = -d[3] /\ Negated(d)[4] = -d[4]
    BY ONLY TRUE DEF Negated
  <2> DEFINE m == Negated(d)
  <2> HIDE DEF m, n
  <2>2. /\ Times(v, Conjugate(m))[1] = v[4] * (-(-d[1])) + v[1] * (-d[4]) + v[2] * (-(-d[3])) - v[3] * (-(-d[2]))
        /\ Times(v, Conjugate(m))[2] = v[4] * (-(-d[2])) + v[2] * (-d[4]) + v[3] * (-(-d[1])) - v[1] * (-(-d[3]))
        /\ Times(v, Conjugate(m))[3] = v[4] * (-(-d[3])) + v[3] * (-d[4]) + v[1] * (-(-d[2])) - v[2] * (-(-d[1]))
        /\ Times(v, Conjugate(m))[4] = v[4] * (-d[4]) - v[1] * (-(-d[1])) - v[2] * (-(-d[2])) - v[3] * (-(-d[3]))
    <3> HIDE DEF d
    <3>1. /\ Conjugate(m)[1] = -(-d[1]) /\ Conjugate(m)[2] = -(-d[2])
          /\ Conjugate(m)[3] = -(-d[3]) /\ Conjugate(m)[4] = -d[4]
      BY ONLY <2>1 DEF Conjugate, m
    <3> DEFINE k == Conjugate(m)
    <3> HIDE DEF k
    <3>2. k[1] = -(-d[1]) /\ k[2] = -(-d[2]) /\ k[3] = -(-d[3]) /\ k[4] = -d[4]
      BY <3>1 DEF k
    <3> QED BY ONLY <3>2 DEF Times, k
  <2>3. /\ v[4] * (-(-d[1])) + v[1] * (-d[4]) + v[2] * (-(-d[3])) - v[3] * (-(-d[2])) = (-n) * r[1]
        /\ v[4] * (-(-d[2])) + v[2] * (-d[4]) + v[3] * (-(-d[1])) - v[1] * (-(-d[3])) = (-n) * r[2]
        /\ v[4] * (-(-d[3])) + v[3] * (-d[4]) + v[1] * (-(-d[2])) - v[2] * (-(-d[1])) = (-n) * r[3]
        /\ v[4] * (-d[4]) - v[1] * (-(-d[1])) - v[2] * (-(-d[2])) - v[3] * (-(-d[3])) = (-n) * r[4]
    BY ONLY <1>2 DEF ToAndBack, Times, Conjugate, Dot, d, n
  <2> QED BY ONLY <2>2, <2>3 DEF m, f
<1> HIDE DEF d, e, f, n
<1>5. Along(Times(v, e), r) /\ Along(Times(v, f), r)
  BY <1>1, <1>3, <1>4 DEF Along
<1> QED BY <1>5 DEF d, e, f

LEMMA ShortWayIs ==
  ASSUME NEW q
  PROVE  ShortWay(q) = q \/ ShortWay(q) = Negated(q)
BY DEF ShortWay

LEMMA MinusPlus ==
  ASSUME NEW v \in Vectors, NEW w \in Vectors
  PROVE  /\ Plus(w, Minus(v, w)) = v
         /\ Minus(v, Minus(v, w)) = w
<1>1. /\ v = <<v[1], v[2], v[3]>> /\ w = <<w[1], w[2], w[3]>>
      /\ v[1] \in Int /\ v[2] \in Int /\ v[3] \in Int
      /\ w[1] \in Int /\ w[2] \in Int /\ w[3] \in Int
  BY DEF Vectors
<1>2. ASSUME NEW c \in 1 .. 3 PROVE w[c] + (v[c] - w[c]) = v[c] /\ v[c] - (v[c] - w[c]) = w[c]
  <2>1. v[c] \in Int /\ w[c] \in Int
    BY <1>1
  <2> QED BY <2>1
<1>3. v = [c \in 1 .. 3 |-> v[c]] /\ w = [c \in 1 .. 3 |-> w[c]]
  BY DEF Vectors
<1>4. Plus(w, Minus(v, w)) = [c \in 1 .. 3 |-> w[c] + (v[c] - w[c])]
  BY DEF Plus, Minus
<1>5. Minus(v, Minus(v, w)) = [c \in 1 .. 3 |-> v[c] - (v[c] - w[c])]
  BY DEF Minus
<1> QED BY <1>2, <1>3, <1>4, <1>5

\* One joint of a pose, its delta from a reference, and what the blending job makes of it.
LEMMA DeltaGivesBack ==
  ASSUME NEW reference \in JointPose,
         NEW t \in Vectors, NEW q \in Rotations, NEW s \in Int
  PROVE  LET posed == [translation |-> t, rotation |-> q, scale |-> <<s, 1>>]
             rest  == [reference EXCEPT !.scale = <<@, 1>>]
             delta == [translation |-> Minus(t, reference.translation),
                       rotation |-> MakeDeltaRotation(reference.rotation, q),
                       scale |-> <<s, reference.scale>>]
         IN  SamePose(AddPass(rest, delta), posed) /\ SamePose(SubPass(posed, delta), rest)
<1> DEFINE posed == [translation |-> t, rotation |-> q, scale |-> <<s, 1>>]
           rest  == [reference EXCEPT !.scale = <<@, 1>>]
           rt    == reference.translation
           rq    == reference.rotation
           rs    == reference.scale
           dq    == MakeDeltaRotation(rq, q)
           delta == [translation |-> Minus(t, rt), rotation |-> dq, scale |-> <<s, rs>>]
           back  == ShortWay(dq)
<1>1. rt \in Vectors /\ rq \in Rotations /\ rs \in Int
  BY DEF JointPose
<1>2. rest = [translation |-> rt, rotation |-> rq, scale |-> <<rs, 1>>]
  BY DEF JointPose
<1>3. Plus(rt, Minus(t, rt)) = t /\ Minus(t, Minus(t, rt)) = rt
  BY <1>1, MinusPlus
<1>4. IsQuad(rq) /\ Dot(rq, rq) > 0 /\ IsQuad(q) /\ Dot(q, q) > 0
  BY <1>1, RotationsNonzero
<1>5. Along(Times(rq, back), q) /\ Along(Times(q, Conjugate(back)), rq)
  BY <1>4, ThereAndBack, BackAndThere, ShortWayIs DEF MakeDeltaRotation
<1>6. SameRotation(Times(rq, back), q) /\ SameRotation(Times(q, Conjugate(back)), rq)
  BY <1>4, <1>5, AlongItself, AlongSame
<1>7. (rs * s) * 1 = s * (1 * rs) /\ (s * rs) * 1 = rs * (1 * s)
  BY <1>1
<1> HIDE DEF back, dq, rt, rq, rs
<1>8. AddPass(rest, delta) = [translation |-> Plus(rt, Minus(t, rt)), rotation |-> Times(rq, back),
                              scale |-> <<rs * s, 1 * rs>>]
  BY <1>2 DEF AddPass, back
<1>9. SubPass(posed, delta) = [translation |-> Minus(t, Minus(t, rt)),
                               rotation |-> Times(q, Conjugate(back)), scale |-> <<s * rs, 1 * s>>]
  BY DEF SubPass, back
<1>10. SamePose(AddPass(rest, delta), posed)
  BY <1>3, <1>6, <1>7, <1>8 DEF SamePose
<1>11. SamePose(SubPass(posed, delta), rest)
  BY <1>2, <1>3, <1>6, <1>7, <1>9 DEF SamePose
<1> QED BY <1>10, <1>11 DEF dq, rt, rq, rs

LEMMA FirstFrameIsPose ==
  ASSUME NEW curves \in Curves
  PROVE  FirstFrame(curves) \in JointPose
<1>1. /\ curves.translations \in Seq([time : Int, value : Vectors])
      /\ curves.rotations \in Seq([time : Int, value : Rotations])
      /\ curves.scales \in Seq([time : Int, value : Int])
  BY DEF Curves, KeysOf
<1>2. ASSUME NEW V, NEW keys \in Seq([time : Int, value : V]), NEW v \in V
      PROVE  FirstOr(keys, v) \in V
  <2>1. CASE keys = <<>>
    BY <1>2, <2>1 DEF FirstOr
  <2>2. CASE keys # <<>>
    <3>1. Head(keys) \in [time : Int, value : V]
      <4> DEFINE K == [time : Int, value : V]
      <4>1. keys \in Seq(K)
        BY <1>2
      <4>2. Head(keys) \in K
        <5> HIDE DEF K
        <5> QED BY <2>2, <4>1
      <4> QED BY <4>2
    <3> QED BY <2>2, <3>1 DEF FirstOr
  <2> QED BY <2>1, <2>2
<1>3. <<0, 0, 0>> \in Vectors /\ Identity \in Rotations /\ 1 \in Int
  <2>1. <<0, 0, 0, 1>> # <<0, 0, 0, 0>>
    <3>1. <<0, 0, 0, 1>>[4] = 1 /\ <<0, 0, 0, 0>>[4] = 0
      OBVIOUS
    <3> QED BY <3>1
  <2> QED BY <2>1 DEF Vectors, Rotations, Identity
<1>4. /\ FirstOr(curves.translations, NoPose.translation) \in Vectors
      /\ FirstOr(curves.rotations, NoPose.rotation) \in Rotations
      /\ FirstOr(curves.scales, NoPose.scale) \in Int
  BY <1>1, <1>2, <1>3 DEF NoPose
<1> QED BY <1>4 DEF FirstFrame, JointPose

\* The last call of BuildAdditive was of these, and made this of them.
CallIsKnown ==
    tool.call = "additive" /\ tool.ok =>
        /\ tool.clip \in Clips
        /\ tool.pose \in Poses \cup {FirstFrames(tool.clip)}
        /\ Len(tool.clip.tracks) <= Len(tool.pose)
        /\ tool.output = [tool.clip EXCEPT !.tracks = [j \in DOMAIN @ |-> DeltaTrack(@[j], tool.pose[j])]]

LEMMA ToolsKeepCall ==
  ASSUME CallIsKnown, [TracksNext]_tracksVars
  PROVE  CallIsKnown'
<1>1. ASSUME NEW clip \in Clips, NEW rest \in Poses, NEW root \in RootJoints,
             NEW p \in PositionSettings, NEW r \in RotationSettings,
             ExtractMotion(clip, root, rest, p, r)
      PROVE  CallIsKnown'
  <2>1. tool'.call = "motion"
    BY <1>1 DEF ExtractMotion
  <2> QED BY <2>1 DEF CallIsKnown
<1>2. ASSUME NEW clip \in Clips, NEW pose \in Poses \cup {FirstFrames(clip)}, BuildAdditive(clip, pose)
      PROVE  CallIsKnown'
  <2>1. /\ tool'.clip = clip /\ tool'.pose = pose
        /\ tool'.ok <=> ValidateAnimation(clip) /\ Len(clip.tracks) <= Len(pose)
        /\ tool'.ok => tool'.output =
               [clip EXCEPT !.tracks = [j \in DOMAIN @ |-> DeltaTrack(@[j], pose[j])]]
    BY <1>2 DEF BuildAdditive
  <2> QED BY <2>1 DEF CallIsKnown, FirstFrames
<1>3. CASE Discard
  BY <1>3 DEF Discard, Idle, CallIsKnown
<1>4. CASE UNCHANGED tool
  BY <1>4 DEF CallIsKnown, FirstFrames
<1> QED BY <1>1, <1>2, <1>3, <1>4 DEF TracksNext, ToolsNext, tracksVars

LEMMA KnownCallsGiveBack ==
  ASSUME CallIsKnown
  PROVE  DeltasGiveBack
<1> SUFFICES ASSUME tool.call = "additive" /\ tool.ok, NEW j \in DOMAIN tool.clip.tracks,
                    NEW t \in DOMAIN tool.clip.tracks[j].translations,
                    NEW q \in DOMAIN tool.clip.tracks[j].rotations,
                    NEW s \in DOMAIN tool.clip.tracks[j].scales
             PROVE  LET was == tool.clip.tracks[j]
                        out == tool.output.tracks[j]
                        posed == [translation |-> was.translations[t].value,
                                  rotation |-> was.rotations[q].value,
                                  scale |-> <<was.scales[s].value, 1>>]
                        delta == [translation |-> out.translations[t].value,
                                  rotation |-> out.rotations[q].value,
                                  scale |-> out.scales[s].value]
                        reference == [tool.pose[j] EXCEPT !.scale = <<@, 1>>]
                    IN  /\ SamePose(AddPass(reference, delta), posed)
                        /\ SamePose(SubPass(posed, delta), reference)
  BY DEF DeltasGiveBack
<1> DEFINE was == tool.clip.tracks[j]
           ref == tool.pose[j]
           out == tool.output.tracks[j]
<1>1. /\ tool.clip \in Clips /\ tool.pose \in Poses \cup {FirstFrames(tool.clip)}
      /\ Len(tool.clip.tracks) <= Len(tool.pose)
      /\ tool.output = [tool.clip EXCEPT !.tracks = [i \in DOMAIN @ |-> DeltaTrack(@[i], tool.pose[i])]]
  BY DEF CallIsKnown
<1>2. tool.clip \in [duration : Int, tracks : Seq(Curves)] /\ Poses \subseteq Seq(JointPose)
  BY <1>1, ToolsAssumption
<1>3. was \in Curves
  BY <1>2
<1>4. ref \in JointPose
  <2>1. CASE tool.pose \in Poses
    <3>1. tool.pose \in Seq(JointPose) /\ tool.clip.tracks \in Seq(Curves)
      BY <1>2, <2>1
    <3>2. j \in 1 .. Len(tool.pose)
      BY <1>1, <3>1
    <3> QED BY <3>1, <3>2
  <2>2. CASE tool.pose = FirstFrames(tool.clip)
    BY <1>3, <2>2, FirstFrameIsPose DEF FirstFrames
  <2> QED BY <1>1, <2>1, <2>2
<1>5. out = DeltaTrack(was, ref)
  BY <1>1, <1>2
<1>6. /\ was.translations \in Seq([time : Int, value : Vectors])
      /\ was.rotations \in Seq([time : Int, value : Rotations])
      /\ was.scales \in Seq([time : Int, value : Int])
  BY <1>3 DEF Curves, KeysOf
<1>7. /\ was.translations[t] \in [time : Int, value : Vectors]
      /\ was.rotations[q] \in [time : Int, value : Rotations]
      /\ was.scales[s] \in [time : Int, value : Int]
  <2>1. t \in DOMAIN was.translations /\ q \in DOMAIN was.rotations /\ s \in DOMAIN was.scales
    OBVIOUS
  <2> HIDE DEF was
  <2>2. ASSUME NEW V, NEW keys \in Seq(V), NEW k \in DOMAIN keys PROVE keys[k] \in V
    BY <2>2
  <2> QED BY <1>6, <2>1, <2>2
<1> HIDE DEF was, ref, out
<1>8. /\ out.translations[t].value = Minus(was.translations[t].value, ref.translation)
      /\ out.rotations[q].value = MakeDeltaRotation(ref.rotation, was.rotations[q].value)
      /\ out.scales[s].value = <<was.scales[s].value, ref.scale>>
  <2>1. t \in DOMAIN was.translations /\ q \in DOMAIN was.rotations /\ s \in DOMAIN was.scales
    BY DEF was
  <2> QED BY <1>5, <1>7, <2>1 DEF DeltaTrack
<1>9. /\ was.translations[t].value \in Vectors /\ was.rotations[q].value \in Rotations
      /\ was.scales[s].value \in Int
  BY <1>7
<1> QED BY <1>4, <1>8, <1>9, DeltaGivesBack DEF was, ref, out

\* Adding a delta animation to the pose it was made from gives the animation, and
\* subtracting it gives the pose, for any clips and poses
\* (additive_animation_builder.cc, blending_job.cc).
THEOREM DeltasRecombine == TracksSpec => []DeltasGiveBack
<1>1. TracksInit => CallIsKnown
  BY DEF TracksInit, ToolsInit, Idle, CallIsKnown
<1>2. CallIsKnown /\ [TracksNext]_tracksVars => CallIsKnown'
  BY ToolsKeepCall
<1>3. CallIsKnown => DeltasGiveBack
  BY KnownCallsGiveBack
<1> QED BY <1>1, <1>2, <1>3, PTL DEF TracksSpec

-----------------------------------------------------------------------------
(* Keys.                                                                   *)

LEMMA LeastNatural ==
  ASSUME NEW T, T \subseteq Nat, T # {}
  PROVE  \E m \in T : \A k \in T : m <= k
<1> DEFINE R == OpToRel(<, Nat)
<1>1. IsWellFoundedOn(R, Nat)
  BY NatLessThanWellFounded, Zenon
<1>2. PICK m \in T : \A k \in T : <<k, m>> \notin R
  <2> HIDE DEF R
  <2> QED BY <1>1, WFMin
<1>3. \A k \in T : ~(k < m)
  BY <1>2 DEF OpToRel
<1> QED BY <1>3

LEMMA LeastIsMin ==
  ASSUME NEW T, T \subseteq Nat, T # {}
  PROVE  Min(T) \in T /\ \A k \in T : Min(T) <= k
<1>1. \E m \in T : \A k \in T : m <= k
  BY LeastNatural
<1> QED BY <1>1 DEF Min

RawKeys(V) == Seq([step : BOOLEAN, ratio : Int, value : V])

LEMMA KeyOf ==
  ASSUME NEW V, NEW keys \in RawKeys(V)
  PROVE  /\ Len(keys) \in Nat /\ DOMAIN keys = 1 .. Len(keys)
         /\ \A k \in 1 .. Len(keys) : /\ keys[k] = [step |-> keys[k].step, ratio |-> keys[k].ratio,
                                                    value |-> keys[k].value]
                                      /\ keys[k].step \in BOOLEAN
                                      /\ keys[k].ratio \in Int
                                      /\ keys[k].value \in V
         /\ keys # <<>> => /\ Len(keys) >= 1
                           /\ Head(keys) = keys[1] /\ Last(keys) = keys[Len(keys)]
<1> DEFINE K == [step : BOOLEAN, ratio : Int, value : V]
<1>1. keys \in Seq(K)
  BY DEF RawKeys
<1>2. \A x \in K : /\ x = [step |-> x.step, ratio |-> x.ratio, value |-> x.value]
                    /\ x.step \in BOOLEAN /\ x.ratio \in Int /\ x.value \in V
  OBVIOUS
<1> HIDE DEF K
<1>3. /\ Len(keys) \in Nat /\ DOMAIN keys = 1 .. Len(keys)
      /\ \A k \in 1 .. Len(keys) : keys[k] \in K
      /\ keys # <<>> => Len(keys) >= 1 /\ Head(keys) = keys[1]
  BY <1>1
<1> QED BY <1>2, <1>3 DEF Last

\* What holds of neighbours holds of any two.
LEMMA NeighboursAscend ==
  ASSUME NEW V, NEW keys \in RawKeys(V),
         \A i \in 1 .. Len(keys) - 1 : keys[i].ratio < keys[i + 1].ratio,
         NEW j \in 1 .. Len(keys), NEW k \in 1 .. Len(keys), j < k
  PROVE  keys[j].ratio < keys[k].ratio
<1> DEFINE T == {i \in Nat : i <= Len(keys) /\ j < i /\ ~(keys[j].ratio < keys[i].ratio)}
<1>1. Len(keys) \in Nat /\ \A i \in 1 .. Len(keys) : keys[i].ratio \in Int
  BY KeyOf
<1> SUFFICES ASSUME T # {} PROVE FALSE
  BY <1>1
<1>2. PICK m \in T : \A i \in T : m <= i
  <2>1. T \subseteq Nat
    OBVIOUS
  <2> HIDE DEF T
  <2> QED BY <2>1, LeastNatural
<1>3. m \in Nat /\ m <= Len(keys) /\ j < m /\ ~(keys[j].ratio < keys[m].ratio)
  BY <1>2
<1>4. m - 1 \in 1 .. Len(keys) - 1 /\ m \in 1 .. Len(keys) /\ m - 1 \in 1 .. Len(keys) /\ (m - 1) + 1 = m
  BY <1>1, <1>3
<1>5. keys[m - 1].ratio < keys[m].ratio
  BY <1>4
<1>6. m - 1 \notin T /\ m - 1 \in Nat
  <2> HIDE DEF T
  <2> QED BY <1>2, <1>3, <1>4
<1>7. j = m - 1
  BY <1>1, <1>3, <1>4, <1>5, <1>6
<1> QED BY <1>3, <1>5, <1>7

LEMMA KeysAscend ==
  ASSUME NEW V, NEW keys \in RawKeys(V), Validate(keys),
         NEW j \in 1 .. Len(keys), NEW k \in 1 .. Len(keys), j < k
  PROVE  keys[j].ratio < keys[k].ratio
BY NeighboursAscend DEF Validate

-----------------------------------------------------------------------------
(* Where a sample is.                                                      *)

\* A track as it is built of two keys or more: from one end to the other.
Spans(b) ==
    /\ Len(b) >= 2 /\ b[1].ratio = 0 /\ b[Len(b)].ratio = Unit
    /\ \A k \in 1 .. Len(b) - 1 : b[k].ratio < b[k + 1].ratio

LEMMA OneAtRatio ==
  ASSUME NEW V, NEW b \in RawKeys(V), Spans(b),
         NEW i \in 1 .. Len(b), NEW j \in 1 .. Len(b), b[i].ratio = b[j].ratio
  PROVE  i = j
<1>1. Len(b) \in Nat /\ \A k \in 1 .. Len(b) : b[k].ratio \in Int
  BY KeyOf
<1>2. i < j => b[i].ratio < b[j].ratio
  BY NeighboursAscend DEF Spans
<1>3. j < i => b[j].ratio < b[i].ratio
  BY NeighboursAscend DEF Spans
<1> QED BY <1>1, <1>2, <1>3

\* The sampling job is between keys k and k + 1.
JobIsAt(k, type, b, h) ==
    /\ 2 * b[k].ratio <= h /\ h < 2 * b[k + 1].ratio
    /\ JobSample(type, b, h) =
          IF b[k].step THEN Exactly(b[k].value)
          ELSE Lerp(b[k].value, b[k + 1].value, h - 2 * b[k].ratio,
                    2 * (b[k + 1].ratio - b[k].ratio))

LEMMA JobAt ==
  ASSUME NEW V, NEW b \in RawKeys(V), Spans(b), NEW type, NEW h \in Int, 0 < h, h < 2 * Unit
  PROVE  \E k \in 1 .. Len(b) - 1 : JobIsAt(k, type, b, h)
<1> DEFINE T == {k \in DOMAIN b : 2 * b[k].ratio > h} \cup {Len(b) + 1}
           n == Min(T)
<1>1. /\ Len(b) \in Nat /\ DOMAIN b = 1 .. Len(b) /\ Len(b) >= 2
      /\ \A k \in 1 .. Len(b) : b[k].ratio \in Int
      /\ b # <<>>
  <2>1. Len(b) \in Nat /\ Len(b) >= 2
    BY KeyOf DEF Spans
  <2>2. b # <<>>
    BY <2>1
  <2> QED BY <2>1, <2>2, KeyOf
<1>2. Len(b) \in T /\ 1 \notin T
  <2>1. 1 \in DOMAIN b /\ Len(b) \in DOMAIN b /\ 2 * b[1].ratio = 0 /\ b[Len(b)].ratio = Unit
    BY <1>1 DEF Spans
  <2>2. Unit \in Nat
    BY TrackAssumption
  <2>3. 1 # Len(b) + 1
    BY <1>1
  <2> QED BY <2>1, <2>2, <2>3
<1>3. n \in T /\ \A k \in T : n <= k
  <2>1. T \subseteq Nat /\ T # {}
    BY <1>1
  <2> HIDE DEF T
  <2> QED BY <2>1, LeastIsMin
<1>4. n \in 2 .. Len(b) /\ n - 1 \in 1 .. Len(b) - 1 /\ n - 1 \notin T /\ (n - 1) + 1 = n
  <2>1. n \in Nat /\ n # 1 /\ n # 0 /\ n <= Len(b)
    <3>1. \A k \in T : k \in Nat /\ k # 0
      BY <1>1
    <3> HIDE DEF T, n
    <3> QED BY <1>2, <1>3, <3>1
  <2> HIDE DEF n
  <2>2. n - 1 \in Nat /\ ~(n <= n - 1) /\ n \in 2 .. Len(b)
    BY <2>1, <1>1
  <2> HIDE DEF T
  <2> QED BY <1>1, <1>3, <2>1, <2>2
<1>5. 2 * b[n].ratio > h
  <2> HIDE DEF n
  <2> QED BY <1>1, <1>3, <1>4
<1>6. 2 * b[n - 1].ratio <= h
  <2> HIDE DEF n
  <2>1. n - 1 \in DOMAIN b
    BY <1>1, <1>4
  <2>2. ~(2 * b[n - 1].ratio > h)
    BY <1>4, <2>1
  <2> QED BY <1>1, <2>1, <2>2
<1>7. JobSample(type, b, h) =
          IF b[n - 1].step THEN Exactly(b[n - 1].value)
          ELSE Lerp(b[n - 1].value, b[n].value, h - 2 * b[n - 1].ratio,
                    2 * (b[n].ratio - b[n - 1].ratio))
  <2>1. ~(b = <<>>) /\ ~(Len(b) = 1 \/ h <= 0) /\ ~(h >= 2 * Unit) /\ ~(n > Len(b))
    <3> HIDE DEF n
    <3> QED BY <1>1, <1>4, TrackAssumption
  <2> HIDE DEF T
  <2> QED BY <2>1 DEF JobSample, T
<1> HIDE DEF n
<1>8. JobIsAt(n - 1, type, b, h)
  BY <1>4, <1>5, <1>6, <1>7 DEF JobIsAt
<1> QED BY <1>4, <1>8

\* The sampler of the offline library is between the same keys, or at the second.
LEMMA RawAt ==
  ASSUME NEW V, NEW keys \in RawKeys(V), Validate(keys), NEW type, NEW h \in Int,
         NEW k \in 1 .. Len(keys) - 1,
         2 * keys[k].ratio < h, h <= 2 * keys[k + 1].ratio, h < 2 * keys[Len(keys)].ratio
  PROVE  RawSample(type, keys, h) =
             TrackLerp(type, keys[k], keys[k + 1], h - 2 * keys[k].ratio,
                       2 * (keys[k + 1].ratio - keys[k].ratio))
<1> DEFINE T == {i \in DOMAIN keys : 2 * keys[i].ratio >= h}
           n == Min(T)
<1>1. /\ Len(keys) \in Nat /\ DOMAIN keys = 1 .. Len(keys) /\ Len(keys) >= 2 /\ keys # <<>>
      /\ \A i \in 1 .. Len(keys) : keys[i].ratio \in Int
      /\ Head(keys) = keys[1] /\ Last(keys) = keys[Len(keys)]
      /\ k \in 1 .. Len(keys) /\ k + 1 \in 1 .. Len(keys)
  <2>1. Len(keys) \in Nat
    BY KeyOf
  <2>2. keys # <<>> /\ Len(keys) >= 2
    BY <2>1
  <2>3. k \in 1 .. Len(keys) /\ k + 1 \in 1 .. Len(keys)
    BY <2>1
  <2> QED BY <2>1, <2>2, <2>3, KeyOf
<1>2. k + 1 \in T
  BY <1>1
<1>3. ASSUME NEW i \in T PROVE k + 1 <= i
  <2>1. i \in 1 .. Len(keys) /\ 2 * keys[i].ratio >= h
    BY <1>1
  <2> SUFFICES ASSUME i <= k PROVE FALSE
    BY <2>1
  <2>2. keys[i].ratio <= keys[k].ratio
    BY <1>1, <2>1, KeysAscend
  <2> QED BY <1>1, <2>1, <2>2
<1>4. n = k + 1
  <2>1. T \subseteq Nat /\ T # {}
    BY <1>1, <1>2
  <2> HIDE DEF T
  <2>2. n \in T /\ \A i \in T : n <= i
    BY <2>1, LeastIsMin
  <2> HIDE DEF n
  <2>3. n \in Nat /\ n <= k + 1 /\ k + 1 <= n
    BY <1>2, <1>3, <2>1, <2>2
  <2> QED BY <2>3
<1>5. keys[1].ratio <= keys[k].ratio
  BY <1>1, KeysAscend
<1>6. ~(keys = <<>>) /\ ~(h <= 2 * Head(keys).ratio) /\ ~(h >= 2 * Last(keys).ratio)
  BY <1>1, <1>5
<1>7. RawSample(type, keys, h) =
          TrackLerp(type, keys[n - 1], keys[n], h - 2 * keys[n - 1].ratio,
                    2 * (keys[n].ratio - keys[n - 1].ratio))
  <2> HIDE DEF T
  <2> QED BY <1>6 DEF RawSample, T
<1>8. n - 1 = k
  BY <1>4
<1> QED BY <1>4, <1>7, <1>8

-----------------------------------------------------------------------------
(* A built track beside the raw one it was built from.                     *)

Like(type, v, w) == v = w \/ (type = "quaternion" /\ v = Negated(w))

\* Key k + o of b is key k of keys, and what b has at either end besides is like the
\* key next to it.
Follows(type, b, keys, o) ==
    /\ \A k \in 1 .. Len(keys) :
          /\ k + o \in 1 .. Len(b)
          /\ b[k + o].step = keys[k].step /\ b[k + o].ratio = keys[k].ratio
          /\ Like(type, b[k + o].value, keys[k].value)
    /\ o = 1 => ~b[1].step /\ Like(type, b[1].value, keys[1].value)
    /\ \/ Len(b) = Len(keys) + o
       \/ Len(b) = Len(keys) + o + 1 /\ Like(type, b[Len(b)].value, keys[Len(keys)].value)

\* The job gives what is like w: a key, the start of a stretch, or a stretch with the
\* same at both ends.
JobStays(type, b, s, w) ==
    \E i \in 1 .. Len(b) :
        /\ Like(type, b[i].value, w)
        /\ \/ s = Exactly(b[i].value)
           \/ \E l \in Nat \ {0} : i < Len(b) /\ s = Lerp(b[i].value, b[i + 1].value, 0, l)
           \/ \E at \in Nat, l \in Nat \ {0} :
                 /\ i < Len(b) /\ Like(type, b[i + 1].value, w)
                 /\ s = Lerp(b[i].value, b[i + 1].value, at, l)

\* The other sampler gives w: a key, or the end of a stretch.
RawArrives(type, keys, s, w) ==
    \/ s = Exactly(w)
    \/ \E j \in 1 .. Len(keys), l \in Nat \ {0} : \E v :
          Like(type, v, w) /\ s = Lerp(keys[j].value, v, l, l)

BothStay(type, b, keys, h) ==
    \E k \in 1 .. Len(keys) :
        /\ JobStays(type, b, JobSample(type, b, h), keys[k].value)
        /\ RawArrives(type, keys, RawSample(type, keys, h), keys[k].value)

BothMove(type, b, keys, h) ==
    \E k \in 1 .. Len(keys) - 1, i \in 1 .. Len(b) - 1, at \in Nat, l \in Nat :
        /\ at < l /\ ~keys[k].step /\ b[i].ratio = keys[k].ratio
        /\ Like(type, b[i].value, keys[k].value) /\ Like(type, b[i + 1].value, keys[k + 1].value)
        /\ JobSample(type, b, h) = Lerp(b[i].value, b[i + 1].value, at, l)
        /\ RawSample(type, keys, h) = TrackLerp(type, keys[k], keys[k + 1], at, l)

LEMMA SampleCases ==
  ASSUME NEW W, NEW b \in RawKeys(W), Spans(b),
         NEW V, NEW keys \in RawKeys(V), Validate(keys), Len(keys) >= 2,
         NEW type, NEW o \in {0, 1}, Follows(type, b, keys, o), NEW h \in Int
  PROVE  BothStay(type, b, keys, h) \/ BothMove(type, b, keys, h)
<1> DEFINE n == Len(keys)
           m == Len(b)
           job == JobSample(type, b, h)
           sample == RawSample(type, keys, h)
<1>1. /\ n \in Nat /\ n >= 2 /\ keys # <<>>
      /\ \A k \in 1 .. n : keys[k].ratio \in Int /\ keys[k].step \in BOOLEAN
      /\ Head(keys) = keys[1] /\ Last(keys) = keys[n] /\ DOMAIN keys = 1 .. n
  <2>1. keys # <<>>
    OBVIOUS
  <2> QED BY <2>1, KeyOf
<1>2. /\ m \in Nat /\ m >= 2 /\ b # <<>> /\ Len(b) # 1
      /\ \A k \in 1 .. m : b[k].ratio \in Int /\ b[k].step \in BOOLEAN
      /\ Head(b) = b[1] /\ Last(b) = b[m] /\ DOMAIN b = 1 .. m
  <2>1. Len(b) \in Nat /\ Len(b) >= 2
    BY KeyOf DEF Spans
  <2>2. b # <<>> /\ Len(b) # 1
    <3>1. b # <<>>
      BY <2>1
    <3>2. Len(b) # 1
      <4>1. ASSUME NEW x \in Nat, x >= 2 PROVE x # 1
        BY ONLY <4>1
      <4> QED BY ONLY <2>1, <4>1
    <3> QED BY <3>1, <3>2
  <2>3. /\ DOMAIN b = 1 .. Len(b) /\ Head(b) = b[1] /\ Last(b) = b[Len(b)]
        /\ \A k \in 1 .. m : b[k].ratio \in Int /\ b[k].step \in BOOLEAN
    BY <2>2, KeyOf
  <2> QED BY <2>1, <2>2, <2>3
<1>3. \A k \in 1 .. n : keys[k].ratio \in 0 .. Unit
  BY <1>1 DEF Validate
<1>4. keys[1].ratio < keys[n].ratio /\ Unit \in Nat
  <2>1. 1 \in 1 .. n /\ n \in 1 .. n /\ 1 < n
    BY <1>1
  <2> QED BY <2>1, KeysAscend, TrackAssumption
<1>5. \A k \in 1 .. n :
          /\ k + o \in 1 .. m
          /\ b[k + o].step = keys[k].step /\ b[k + o].ratio = keys[k].ratio
          /\ Like(type, b[k + o].value, keys[k].value)
  BY DEF Follows
<1>6. Like(type, b[1].value, keys[1].value) /\ (o = 1 => ~b[1].step)
  <2>1. CASE o = 1
    BY <2>1 DEF Follows
  <2>2. CASE o = 0
    <3>1. 1 \in 1 .. n /\ 1 + o = 1
      BY <1>1, <2>2
    <3> QED BY <1>5, <2>2, <3>1
  <2> QED BY <2>1, <2>2
<1>7. Like(type, b[m].value, keys[n].value) /\ m \in {n + o, n + o + 1}
  <2>1. CASE m = n + o
    <3>1. n \in 1 .. n
      BY <1>1
    <3> QED BY <1>5, <2>1, <3>1
  <2>2. CASE ~(m = n + o)
    BY <2>2 DEF Follows
  <2> QED BY <2>1, <2>2
<1>8. 1 \in 1 .. n /\ n \in 1 .. n /\ 1 \in 1 .. m /\ m \in 1 .. m
  BY <1>1, <1>2
<1> HIDE DEF n, m
<1>9. CASE h <= 0
  <2>1. job = Exactly(b[1].value)
    BY <1>2, <1>9 DEF JobSample
  <2>2. h <= 2 * Head(keys).ratio
    BY <1>1, <1>3, <1>8, <1>9, <1>4
  <2>3. sample = Exactly(keys[1].value)
    BY <1>1, <2>2 DEF RawSample
  <2>4. JobStays(type, b, job, keys[1].value)
    BY <1>6, <1>8, <2>1 DEF JobStays, m
  <2>5. RawArrives(type, keys, sample, keys[1].value)
    BY <2>3 DEF RawArrives
  <2> QED BY <1>8, <2>4, <2>5 DEF BothStay, n
<1>10. ASSUME h > 2 * Head(keys).ratio, h >= 2 * keys[n].ratio
       PROVE  RawArrives(type, keys, sample, keys[n].value)
  <2>1. ~(h <= 2 * Head(keys).ratio) /\ h >= 2 * Last(keys).ratio
    BY <1>1, <1>8, <1>10
  <2>2. sample = Exactly(keys[n].value)
    BY <1>1, <2>1 DEF RawSample
  <2> QED BY <2>2 DEF RawArrives
<1>11. CASE h >= 2 * Unit
  <2>1. ~(Len(b) = 1 \/ h <= 0)
    BY <1>2, <1>4, <1>11, TrackAssumption
  <2>2. job = Exactly(b[m].value)
    BY <1>2, <1>11, <2>1 DEF JobSample
  <2>3. h > 2 * Head(keys).ratio /\ h >= 2 * keys[n].ratio
    <3>1. keys[1].ratio \in Int /\ keys[n].ratio \in Int /\ keys[n].ratio <= Unit /\ Head(keys) = keys[1]
      BY <1>1, <1>3, <1>8, <1>4
    <3> QED BY <3>1, <1>4, <1>11
  <2>4. JobStays(type, b, job, keys[n].value)
    BY <1>7, <1>8, <2>2 DEF JobStays, m
  <2> QED BY <1>8, <1>10, <2>3, <2>4 DEF BothStay, n
<1>12. CASE 0 < h /\ h < 2 * Unit
  <2>1. PICK i \in 1 .. m - 1 : JobIsAt(i, type, b, h)
    BY <1>12, JobAt DEF m
  <2> DEFINE at == h - 2 * b[i].ratio
             l == 2 * (b[i + 1].ratio - b[i].ratio)
  <2>2. /\ i \in 1 .. m /\ i + 1 \in 1 .. m /\ i < m
        /\ b[i].ratio \in Int /\ b[i + 1].ratio \in Int /\ b[i].step \in BOOLEAN
        /\ 2 * b[i].ratio <= h /\ h < 2 * b[i + 1].ratio
    <3>1. i \in 1 .. m /\ i + 1 \in 1 .. m /\ i < m
      BY <1>2
    <3> QED BY <1>2, <2>1, <3>1 DEF JobIsAt
  <2>3. at \in Nat /\ l \in Nat \ {0} /\ at < l
    <3>1. ASSUME NEW x \in Int, NEW y \in Int, 2 * x <= h, h < 2 * y
          PROVE  h - 2 * x \in Nat /\ 2 * (y - x) \in Nat \ {0} /\ h - 2 * x < 2 * (y - x)
      BY ONLY h \in Int, <3>1
    <3> QED BY ONLY <2>2, <3>1 DEF at, l
  <2>4. job = IF b[i].step THEN Exactly(b[i].value) ELSE Lerp(b[i].value, b[i + 1].value, at, l)
    BY <2>1 DEF JobIsAt
  <2> HIDE DEF at, l
  <2>5. CASE o = 1 /\ i = 1
    <3>1. b[2].ratio = keys[1].ratio /\ Like(type, b[2].value, keys[1].value)
      <4>1. 1 + o = 2
        BY <2>5
      <4> QED BY <1>5, <1>8, <4>1
    <3>2. h <= 2 * Head(keys).ratio
      BY <1>1, <1>8, <2>2, <2>5, <3>1
    <3>3. RawArrives(type, keys, sample, keys[1].value)
      BY <1>1, <3>2 DEF RawSample, RawArrives
    <3>4. job = Lerp(b[i].value, b[i + 1].value, at, l)
      BY <1>6, <2>4, <2>5
    <3>5. Like(type, b[i].value, keys[1].value) /\ Like(type, b[i + 1].value, keys[1].value)
      BY <1>6, <2>5, <3>1
    <3>6. JobStays(type, b, job, keys[1].value)
      BY <2>2, <2>3, <3>4, <3>5 DEF JobStays, m
    <3> QED BY <1>8, <3>3, <3>6 DEF BothStay, n
  <2>6. CASE i = n + o
    <3>1. /\ b[i].ratio = keys[n].ratio /\ Like(type, b[i].value, keys[n].value)
      BY <1>5, <1>8, <2>6
    <3>2. m = i + 1 /\ Like(type, b[i + 1].value, keys[n].value)
      BY <1>1, <1>2, <1>7, <2>2, <2>6
    <3>3. h > 2 * Head(keys).ratio /\ h >= 2 * keys[n].ratio
      BY <1>1, <1>4, <1>8, <2>2, <3>1
    <3>4. JobStays(type, b, job, keys[n].value)
      BY <2>2, <2>3, <2>4, <3>1, <3>2 DEF JobStays, m
    <3> QED BY <1>8, <1>10, <3>3, <3>4 DEF BothStay, n
  <2>7. CASE ~(o = 1 /\ i = 1) /\ ~(i = n + o)
    <3> DEFINE k == i - o
    <3>1. /\ k \in 1 .. n - 1 /\ k \in 1 .. n /\ k + 1 \in 1 .. n
          /\ k + o = i /\ (k + 1) + o = i + 1
      <4>1. i >= 1 /\ i <= m - 1 /\ i \in Int
        BY <1>2
      <4> QED BY <1>1, <1>2, <1>7, <2>7, <4>1
    <3>2. /\ b[i].step = keys[k].step
          /\ b[i].ratio = keys[k].ratio /\ b[i + 1].ratio = keys[k + 1].ratio
          /\ Like(type, b[i].value, keys[k].value) /\ Like(type, b[i + 1].value, keys[k + 1].value)
      BY <1>5, <3>1
    <3>3. at = h - 2 * keys[k].ratio /\ l = 2 * (keys[k + 1].ratio - keys[k].ratio)
      BY <3>2 DEF at, l
    <3> HIDE DEF k
    <3>4. /\ keys[k].ratio \in Int /\ keys[k + 1].ratio \in Int /\ keys[n].ratio \in Int
          /\ keys[k].step \in BOOLEAN
          /\ keys[k].ratio < keys[n].ratio /\ keys[k + 1].ratio <= keys[n].ratio
      <4>1. k < n /\ (k + 1 < n \/ k + 1 = n)
        BY <1>1, <3>1
      <4>2. keys[k].ratio < keys[n].ratio
        BY <1>8, <3>1, <4>1, KeysAscend DEF n
      <4>3. k + 1 < n => keys[k + 1].ratio < keys[n].ratio
        BY <1>8, <3>1, KeysAscend DEF n
      <4>4. keys[k].ratio \in Int /\ keys[k + 1].ratio \in Int /\ keys[n].ratio \in Int /\ keys[k].step \in BOOLEAN
        BY <1>1, <1>8, <3>1
      <4>5. keys[k + 1].ratio <= keys[n].ratio
        <5>1. CASE k + 1 < n
          BY <4>3, <4>4, <5>1
        <5>2. CASE k + 1 = n
          BY <4>4, <5>2
        <5> QED BY <4>1, <5>1, <5>2
      <4> QED BY <4>2, <4>4, <4>5
    <3>5. h < 2 * keys[n].ratio
      BY <2>2, <3>2, <3>4
    <3>6. CASE h = 2 * keys[k].ratio
      <4>1. at = 0
        BY <3>3, <3>4, <3>6
      <4>2. JobStays(type, b, job, keys[k].value)
        BY <2>2, <2>3, <2>4, <3>2, <4>1 DEF JobStays, m
      <4>3. CASE k = 1
        <5>1. h <= 2 * Head(keys).ratio
          BY <1>1, <3>4, <3>6, <4>3
        <5>2. RawArrives(type, keys, sample, keys[k].value)
          BY <1>1, <4>3, <5>1 DEF RawSample, RawArrives
        <5> QED BY <3>1, <4>2, <5>2 DEF BothStay, n
      <4>4. CASE k # 1
        <5> DEFINE j == k - 1
                   d == 2 * (keys[k].ratio - keys[j].ratio)
        <5>1. j \in 1 .. n - 1 /\ j \in 1 .. n /\ j + 1 = k /\ j < k
          BY <1>1, <3>1, <4>4
        <5>2. keys[j].ratio \in Int /\ keys[j].ratio < keys[k].ratio
          <6>1. keys[j].ratio \in Int
            BY <1>1, <5>1
          <6> QED BY <3>1, <5>1, <6>1, KeysAscend DEF n
        <5> HIDE DEF j
        <5>3. d \in Nat \ {0} /\ h - 2 * keys[j].ratio = d
          <6>1. ASSUME NEW x \in Int, NEW y \in Int, x < y
                PROVE  2 * (y - x) \in Nat \ {0} /\ 2 * y - 2 * x = 2 * (y - x)
            BY ONLY <6>1
          <6> QED BY ONLY <3>4, <3>6, <5>2, <6>1 DEF d
        <5>4. sample = TrackLerp(type, keys[j], keys[j + 1], h - 2 * keys[j].ratio,
                                 2 * (keys[j + 1].ratio - keys[j].ratio))
          <6>1. 2 * keys[j].ratio < h /\ h <= 2 * keys[j + 1].ratio /\ h < 2 * keys[Len(keys)].ratio
            BY <3>4, <3>5, <3>6, <5>1, <5>2 DEF n
          <6> QED BY <5>1, <6>1, RawAt DEF n
        <5> HIDE DEF d
        <5>5. sample = TrackLerp(type, keys[j], keys[k], d, d)
          BY <5>1, <5>3, <5>4 DEF d
        <5>6. ~(d < d)
          BY <5>3
        <5> DEFINE v == IF type = "quaternion" /\ Dot(keys[j].value, keys[k].value) < 0
                        THEN Negated(keys[k].value) ELSE keys[k].value
        <5>7. sample = Lerp(keys[j].value, v, d, d)
          BY <5>5, <5>6 DEF TrackLerp
        <5>8. Like(type, v, keys[k].value)
          BY DEF Like
        <5> HIDE DEF v
        <5>9. RawArrives(type, keys, sample, keys[k].value)
          BY <5>1, <5>3, <5>7, <5>8 DEF RawArrives, n
        <5> QED BY <3>1, <4>2, <5>9 DEF BothStay, n
      <4> QED BY <4>3, <4>4
    <3>7. CASE h # 2 * keys[k].ratio
      <4>1. sample = TrackLerp(type, keys[k], keys[k + 1], at, l)
        <5>1. 2 * keys[k].ratio < h /\ h <= 2 * keys[k + 1].ratio /\ h < 2 * keys[Len(keys)].ratio
          <6>1. ASSUME NEW x \in Int, 2 * x <= h, h # 2 * x PROVE 2 * x < h
            BY ONLY h \in Int, <6>1
          <6>2. ASSUME NEW x \in Int, h < 2 * x PROVE h <= 2 * x
            BY ONLY h \in Int, <6>2
          <6> QED BY ONLY <2>2, <3>2, <3>4, <3>5, <3>7, <6>1, <6>2 DEF n
        <5> QED BY <3>1, <3>3, <5>1, RawAt DEF n
      <4>2. CASE keys[k].step
        <5>1. sample = Exactly(keys[k].value)
          BY <2>3, <4>1, <4>2 DEF TrackLerp
        <5>2. job = Exactly(b[i].value)
          BY <2>4, <3>2, <4>2
        <5>3. JobStays(type, b, job, keys[k].value) /\ RawArrives(type, keys, sample, keys[k].value)
          BY <2>2, <3>2, <5>1, <5>2 DEF JobStays, RawArrives, m
        <5> QED BY <3>1, <5>3 DEF BothStay, n
      <4>3. CASE ~keys[k].step
        <5>1. job = Lerp(b[i].value, b[i + 1].value, at, l)
          BY <2>4, <3>2, <4>3
        <5>2. at \in Nat /\ l \in Nat /\ at < l /\ i \in 1 .. Len(b) - 1 /\ k \in 1 .. Len(keys) - 1
          BY <2>3, <3>1 DEF n, m
        <5>3. BothMove(type, b, keys, h)
          BY <3>2, <4>1, <4>3, <5>1, <5>2 DEF BothMove
        <5> QED BY <5>3
      <4> QED BY <4>2, <4>3
    <3> QED BY <3>6, <3>7
  <2> QED BY <2>5, <2>6, <2>7
<1>13. 2 * Unit \in Int
  BY <1>4
<1> QED BY <1>9, <1>11, <1>12, <1>13

-----------------------------------------------------------------------------
(* Samples that are the same.                                              *)

LEMMA LerpAt ==
  ASSUME NEW v, NEW w, NEW at, NEW l, NEW c \in DOMAIN v
  PROVE  Lerp(v, w, at, l).top[c] = v[c] * (l - at) + w[c] * at
BY DEF Lerp

LEMMA LerpNumbers ==
  ASSUME NEW x \in Int, NEW y \in Int, NEW l \in Int, NEW at \in Int
  PROVE  /\ x * (l - 0) + y * 0 = x * l
         /\ x * (l - l) + y * l = y * l
         /\ x * (l - at) + x * at = x * l
         /\ (-x) * (l - at) + (-y) * at = -(x * (l - at) + y * at)
BY Z3

IsFloat(v) == DOMAIN v = {1} /\ v[1] \in Int

LEMMA FloatsSampleAlike ==
  ASSUME NEW W, \A v \in W : IsFloat(v), NEW b \in RawKeys(W),
         NEW V, \A v \in V : IsFloat(v), NEW keys \in RawKeys(V), NEW h \in Int,
         BothStay("float", b, keys, h) \/ BothMove("float", b, keys, h)
  PROVE  SameSample("float", JobSample("float", b, h), RawSample("float", keys, h))
<1> DEFINE job == JobSample("float", b, h)
           sample == RawSample("float", keys, h)
<1>1. /\ \A k \in 1 .. Len(keys) : IsFloat(keys[k].value)
      /\ \A k \in 1 .. Len(b) : IsFloat(b[k].value)
      /\ Len(keys) \in Nat /\ Len(b) \in Nat
  BY KeyOf
<1>2. "float" # "quaternion"
  OBVIOUS
<1> HIDE DEF job, sample
<1>3. ASSUME NEW k \in 1 .. Len(keys), JobStays("float", b, job, keys[k].value),
             RawArrives("float", keys, sample, keys[k].value)
      PROVE  SameSample("float", job, sample)
  <2> DEFINE w == keys[k].value
  <2>1. IsFloat(w)
    BY <1>1
  <2> HIDE DEF w
  <2>2. DOMAIN job.top = {1} /\ job.over \in Int /\ job.top[1] = w[1] * job.over
    <3>1. PICK i \in 1 .. Len(b) :
            /\ Like("float", b[i].value, w)
            /\ \/ job = Exactly(b[i].value)
               \/ \E l \in Nat \ {0} : i < Len(b) /\ job = Lerp(b[i].value, b[i + 1].value, 0, l)
               \/ \E at \in Nat, l \in Nat \ {0} :
                     /\ i < Len(b) /\ Like("float", b[i + 1].value, w)
                     /\ job = Lerp(b[i].value, b[i + 1].value, at, l)
      BY <1>3 DEF JobStays, w
    <3>2. b[i].value = w
      BY <1>2, <3>1 DEF Like
    <3>3. CASE job = Exactly(b[i].value)
      BY <2>1, <3>2, <3>3 DEF Exactly, IsFloat
    <3>4. ASSUME NEW l \in Nat \ {0}, i < Len(b), job = Lerp(b[i].value, b[i + 1].value, 0, l)
          PROVE  DOMAIN job.top = {1} /\ job.over \in Int /\ job.top[1] = w[1] * job.over
      <4>1. IsFloat(b[i + 1].value)
        BY <1>1, <3>4
      <4>2. job.top[1] = w[1] * (l - 0) + b[i + 1].value[1] * 0
        BY <2>1, <3>2, <3>4, LerpAt DEF IsFloat
      <4>3. job.top[1] = w[1] * l
        BY <2>1, <4>1, <4>2, LerpNumbers DEF IsFloat
      <4>4. DOMAIN job.top = {1} /\ job.over = l
        BY <2>1, <3>2, <3>4 DEF IsFloat, Lerp
      <4> QED BY <4>3, <4>4
    <3>5. ASSUME NEW at \in Nat, NEW l \in Nat \ {0}, Like("float", b[i + 1].value, w),
                 job = Lerp(b[i].value, b[i + 1].value, at, l)
          PROVE  DOMAIN job.top = {1} /\ job.over \in Int /\ job.top[1] = w[1] * job.over
      <4>1. b[i + 1].value = w
        BY <1>2, <3>5 DEF Like
      <4>2. job.top[1] = w[1] * (l - at) + w[1] * at
        BY <2>1, <3>2, <3>5, <4>1, LerpAt DEF IsFloat
      <4>3. job.top[1] = w[1] * l
        BY <2>1, <4>2, LerpNumbers DEF IsFloat
      <4>4. DOMAIN job.top = {1} /\ job.over = l
        BY <2>1, <3>2, <3>5 DEF IsFloat, Lerp
      <4> QED BY <4>3, <4>4
    <3> QED BY <3>1, <3>3, <3>4, <3>5
  <2>3. sample.over \in Int /\ sample.top[1] = w[1] * sample.over
    <3>1. CASE sample = Exactly(w)
      BY <2>1, <3>1 DEF Exactly, IsFloat
    <3>2. ASSUME NEW j \in 1 .. Len(keys), NEW l \in Nat \ {0}, NEW v,
                 Like("float", v, w), sample = Lerp(keys[j].value, v, l, l)
          PROVE  sample.over \in Int /\ sample.top[1] = w[1] * sample.over
      <4>1. v = w
        BY <1>2, <3>2 DEF Like
      <4>2. IsFloat(keys[j].value)
        BY <1>1
      <4>3. sample.top[1] = keys[j].value[1] * (l - l) + w[1] * l
        BY <3>2, <4>1, <4>2, LerpAt DEF IsFloat
      <4>4. sample.top[1] = w[1] * l
        BY <2>1, <4>2, <4>3, LerpNumbers DEF IsFloat
      <4>5. sample.over = l
        BY <3>2 DEF Lerp
      <4> QED BY <4>4, <4>5
    <3> QED BY <1>3, <3>1, <3>2 DEF RawArrives, w
  <2>4. job.top[1] * sample.over = sample.top[1] * job.over
    <3>1. ASSUME NEW x \in Int, NEW y \in Int, NEW z \in Int PROVE (x * y) * z = (x * z) * y
      OBVIOUS
    <3> QED BY <2>1, <2>2, <2>3, <3>1 DEF IsFloat
  <2> QED BY <1>2, <2>2, <2>4 DEF SameSample
<1>4. ASSUME BothMove("float", b, keys, h)
      PROVE  SameSample("float", job, sample)
  <2>1. PICK k \in 1 .. Len(keys) - 1, i \in 1 .. Len(b) - 1, at \in Nat, l \in Nat :
        /\ at < l /\ ~keys[k].step
        /\ Like("float", b[i].value, keys[k].value) /\ Like("float", b[i + 1].value, keys[k + 1].value)
        /\ job = Lerp(b[i].value, b[i + 1].value, at, l)
        /\ sample = TrackLerp("float", keys[k], keys[k + 1], at, l)
    BY <1>4 DEF BothMove, job, sample
  <2>2. sample = Lerp(keys[k].value, keys[k + 1].value, at, l)
    BY <1>2, <2>1 DEF TrackLerp
  <2>3. job = sample
    BY <1>2, <2>1, <2>2 DEF Like
  <2> QED BY <1>2, <2>3 DEF SameSample
<1> QED BY <1>3, <1>4 DEF BothStay, job, sample

IsRotation(q) == DOMAIN q = 1 .. 4 /\ IsQuad(q) /\ Dot(q, q) > 0

LEMMA LikeRotations ==
  ASSUME NEW v, NEW w, IsRotation(w), Like("quaternion", v, w)
  PROVE  /\ IsRotation(v) /\ Along(v, w)
         /\ \E e \in {1, -1} : v[1] = e * w[1] /\ v[2] = e * w[2] /\ v[3] = e * w[3] /\ v[4] = e * w[4]
<1>1. CASE v = w
  <2>1. 1 \in {1, -1} /\ v[1] = 1 * w[1] /\ v[2] = 1 * w[2] /\ v[3] = 1 * w[3] /\ v[4] = 1 * w[4]
    BY <1>1 DEF IsRotation, IsQuad
  <2> QED BY <1>1, <2>1, AlongItself DEF IsRotation
<1>2. CASE v = Negated(w)
  <2>1. /\ v[1] = -w[1] /\ v[2] = -w[2] /\ v[3] = -w[3] /\ v[4] = -w[4] /\ IsQuad(v)
    BY <1>2, NegatedQuad DEF IsRotation
  <2>2. -1 \in {1, -1} /\ v[1] = (-1) * w[1] /\ v[2] = (-1) * w[2] /\ v[3] = (-1) * w[3] /\ v[4] = (-1) * w[4]
    BY <2>1 DEF IsRotation, IsQuad
  <2>3. Dot(v, v) = Dot(w, w)
    BY <2>1 DEF Dot, IsRotation, IsQuad
  <2>4. DOMAIN v = 1 .. 4
    BY <1>2 DEF Negated
  <2>5. Along(v, w)
    BY <1>2, AlongItself DEF IsRotation
  <2> QED BY <2>1, <2>2, <2>3, <2>4, <2>5 DEF IsRotation
<1> QED BY <1>1, <1>2 DEF Like

\* Two that are like a third and on the same side are one.
LEMMA SameSide ==
  ASSUME NEW v, NEW w, NEW u, IsRotation(u), Like("quaternion", v, u), Like("quaternion", w, u),
         Dot(v, w) >= 0
  PROVE  w[1] = v[1] /\ w[2] = v[2] /\ w[3] = v[3] /\ w[4] = v[4]
<1>1. PICK e \in {1, -1} : v[1] = e * u[1] /\ v[2] = e * u[2] /\ v[3] = e * u[3] /\ v[4] = e * u[4]
  BY LikeRotations
<1>2. PICK f \in {1, -1} : w[1] = f * u[1] /\ w[2] = f * u[2] /\ w[3] = f * u[3] /\ w[4] = f * u[4]
  BY LikeRotations
<1>3. Dot(v, w) = (e * f) * Dot(u, u)
  BY <1>1, <1>2 DEF Dot, IsRotation, IsQuad
<1>4. e * f = 1 \/ e * f = -1
  OBVIOUS
<1>5. e * f # -1
  <2> SUFFICES ASSUME e * f = -1 PROVE FALSE
    OBVIOUS
  <2>1. Dot(v, w) = (-1) * Dot(u, u)
    BY <1>3
  <2>2. Dot(u, u) \in Int /\ Dot(u, u) > 0
    BY DotInt DEF IsRotation
  <2> QED BY <2>1, <2>2
<1>6. e = f
  BY <1>4, <1>5
<1> QED BY <1>1, <1>2, <1>6

LEMMA StartAlong ==
  ASSUME NEW x, NEW y, IsRotation(x), IsRotation(y), NEW l \in Nat \ {0}
  PROVE  Along(Lerp(x, y, 0, l).top, x)
<1> DEFINE s == Lerp(x, y, 0, l).top
<1>1. ASSUME NEW c \in 1 .. 4 PROVE s[c] = l * x[c]
  <2>1. x[c] \in Int /\ y[c] \in Int
    BY DEF IsRotation, IsQuad
  <2>2. s[c] = x[c] * (l - 0) + y[c] * 0
    BY LerpAt DEF IsRotation
  <2> HIDE DEF s
  <2>3. s[c] = x[c] * l
    BY <2>1, <2>2, LerpNumbers
  <2> QED BY <2>1, <2>3
<1> HIDE DEF s
<1>2. s[1] = l * x[1] /\ s[2] = l * x[2] /\ s[3] = l * x[3] /\ s[4] = l * x[4]
  BY <1>1
<1>3. Along(s, x)
  BY <1>2 DEF Along
<1> QED BY <1>3 DEF s

LEMMA EndAlong ==
  ASSUME NEW x, NEW y, IsRotation(x), IsRotation(y), NEW l \in Nat \ {0}
  PROVE  Along(Lerp(x, y, l, l).top, y)
<1> DEFINE s == Lerp(x, y, l, l).top
<1>1. ASSUME NEW c \in 1 .. 4 PROVE s[c] = l * y[c]
  <2>1. x[c] \in Int /\ y[c] \in Int
    BY DEF IsRotation, IsQuad
  <2>2. s[c] = x[c] * (l - l) + y[c] * l
    BY LerpAt DEF IsRotation
  <2> HIDE DEF s
  <2>3. s[c] = y[c] * l
    BY <2>1, <2>2, LerpNumbers
  <2> QED BY <2>1, <2>3
<1> HIDE DEF s
<1>2. s[1] = l * y[1] /\ s[2] = l * y[2] /\ s[3] = l * y[3] /\ s[4] = l * y[4]
  BY <1>1
<1>3. Along(s, y)
  BY <1>2 DEF Along
<1> QED BY <1>3 DEF s

LEMMA MiddleAlong ==
  ASSUME NEW x, NEW y, IsRotation(x), IsRotation(y), NEW l \in Nat \ {0}, NEW at \in Nat,
         y[1] = x[1] /\ y[2] = x[2] /\ y[3] = x[3] /\ y[4] = x[4]
  PROVE  Along(Lerp(x, y, at, l).top, x)
<1> DEFINE s == Lerp(x, y, at, l).top
<1>1. ASSUME NEW c \in 1 .. 4 PROVE s[c] = l * x[c]
  <2>1. x[c] \in Int /\ y[c] = x[c]
    BY DEF IsRotation, IsQuad
  <2>2. s[c] = x[c] * (l - at) + y[c] * at
    BY LerpAt DEF IsRotation
  <2> HIDE DEF s
  <2>3. s[c] = x[c] * l
    BY <2>1, <2>2, LerpNumbers
  <2> QED BY <2>1, <2>3
<1> HIDE DEF s
<1>2. s[1] = l * x[1] /\ s[2] = l * x[2] /\ s[3] = l * x[3] /\ s[4] = l * x[4]
  BY <1>1
<1>3. Along(s, x)
  BY <1>2 DEF Along
<1> QED BY <1>3 DEF s

SquareOfSum(x1, x2, x3, x4, y1, y2, y3, y4, a, t) ==
    (x1 * a + y1 * t) * (x1 * a + y1 * t) + (x2 * a + y2 * t) * (x2 * a + y2 * t)
    + (x3 * a + y3 * t) * (x3 * a + y3 * t) + (x4 * a + y4 * t) * (x4 * a + y4 * t)
    = (a * a) * (x1 * x1 + x2 * x2 + x3 * x3 + x4 * x4)
      + 2 * ((a * t) * (x1 * y1 + x2 * y2 + x3 * y3 + x4 * y4))
      + (t * t) * (y1 * y1 + y2 * y2 + y3 * y3 + y4 * y4)

LEMMA SquareInNumbers ==
  ASSUME NEW x1 \in Int, NEW x2 \in Int, NEW x3 \in Int, NEW x4 \in Int,
         NEW y1 \in Int, NEW y2 \in Int, NEW y3 \in Int, NEW y4 \in Int,
         NEW a \in Int, NEW t \in Int
  PROVE  SquareOfSum(x1, x2, x3, x4, y1, y2, y3, y4, a, t)
BY DEF SquareOfSum

\* The way between two that are less than half a turn apart does not go through nothing.
LEMMA ShortWayTurns ==
  ASSUME NEW x, NEW y, IsRotation(x), IsRotation(y), Dot(x, y) >= 0,
         NEW at \in Nat, NEW l \in Nat, at < l
  PROVE  LET s == Lerp(x, y, at, l).top IN IsQuad(s) /\ Dot(s, s) > 0
<1> DEFINE s == Lerp(x, y, at, l).top
           a == l - at
<1>1. /\ s[1] = x[1] * a + y[1] * at /\ s[2] = x[2] * a + y[2] * at
      /\ s[3] = x[3] * a + y[3] * at /\ s[4] = x[4] * a + y[4] * at
  BY LerpAt DEF IsRotation
<1>2. /\ x[1] \in Int /\ x[2] \in Int /\ x[3] \in Int /\ x[4] \in Int
      /\ y[1] \in Int /\ y[2] \in Int /\ y[3] \in Int /\ y[4] \in Int
      /\ a \in Int /\ a > 0
  BY DEF IsRotation, IsQuad
<1> HIDE DEF s, a
<1>3. IsQuad(s)
  BY <1>1, <1>2 DEF IsQuad
<1> DEFINE X == Dot(x, x)
           Y == Dot(y, y)
           Z == Dot(x, y)
<1>4. X \in Int /\ X > 0 /\ Y \in Int /\ Y > 0 /\ Z \in Int /\ Z >= 0
  BY DotInt DEF IsRotation
<1>5. Dot(s, s) = (a * a) * X + 2 * ((a * at) * Z) + (at * at) * Y
  <2>1. SquareOfSum(x[1], x[2], x[3], x[4], y[1], y[2], y[3], y[4], a, at)
    <3>1. at \in Int
      OBVIOUS
    <3> QED BY ONLY <1>2, <3>1, SquareInNumbers, Zenon
  <2> QED BY ONLY <1>1, <2>1 DEF Dot, SquareOfSum
<1> HIDE DEF X, Y, Z
<1>6. ASSUME NEW p \in Int, NEW q \in Int, p >= 0, q >= 0 PROVE p * q \in Int /\ p * q >= 0
  BY <1>6
<1>7. ASSUME NEW p \in Int, NEW q \in Int, p > 0, q > 0 PROVE p * q \in Int /\ p * q > 0
  BY <1>7
<1>8. (a * a) * X \in Int /\ (a * a) * X > 0
  BY <1>2, <1>4, <1>7
<1>9. (a * at) * Z \in Int /\ (a * at) * Z >= 0
  <2>1. a * at \in Int /\ a * at >= 0
    BY <1>2, <1>6
  <2> QED BY <1>4, <1>6, <2>1
<1>10. (at * at) * Y \in Int /\ (at * at) * Y >= 0
  <2>1. at * at \in Int /\ at * at >= 0
    BY <1>6
  <2> QED BY <1>4, <1>6, <2>1
<1> DEFINE P == (a * a) * X
           Q == (a * at) * Z
           R == (at * at) * Y
<1>11. Dot(s, s) > 0
  <2>1. P \in Int /\ P > 0 /\ Q \in Int /\ Q >= 0 /\ R \in Int /\ R >= 0 /\ Dot(s, s) = P + 2 * Q + R
    BY <1>5, <1>8, <1>9, <1>10
  <2> HIDE DEF P, Q, R
  <2> QED BY <2>1
<1> QED BY <1>3, <1>11 DEF s

LEMMA DotOfTimes ==
  ASSUME NEW v, NEW w, NEW u, IsQuad(v), IsQuad(w), NEW e \in Int,
         u[1] = e * v[1] /\ u[2] = e * v[2] /\ u[3] = e * v[3] /\ u[4] = e * v[4]
  PROVE  Dot(u, w) = e * Dot(v, w) /\ Dot(w, u) = e * Dot(w, v)
BY DEF Dot, IsQuad

LEMMA AlongLike ==
  ASSUME NEW w, IsRotation(w), NEW v, Like("quaternion", v, w), NEW s, Along(s, v)
  PROVE  Along(s, w)
<1>1. PICK c \in Int \ {0} : s[1] = c * v[1] /\ s[2] = c * v[2] /\ s[3] = c * v[3] /\ s[4] = c * v[4]
  BY DEF Along
<1>2. PICK e \in {1, -1} : v[1] = e * w[1] /\ v[2] = e * w[2] /\ v[3] = e * w[3] /\ v[4] = e * w[4]
  BY LikeRotations
<1>3. c * e \in Int \ {0}
  OBVIOUS
<1>4. /\ s[1] = (c * e) * w[1] /\ s[2] = (c * e) * w[2]
      /\ s[3] = (c * e) * w[3] /\ s[4] = (c * e) * w[4]
  BY <1>1, <1>2 DEF IsRotation, IsQuad
<1> QED BY <1>3, <1>4 DEF Along

\* Between keys half a turn apart the built track goes as the raw one.
SignsKept(b, keys) ==
    \A i \in 1 .. Len(b) - 1, k \in 1 .. Len(keys) - 1 :
        b[i].ratio = keys[k].ratio =>
            \/ keys[k].step \/ Dot(keys[k].value, keys[k + 1].value) # 0
            \/ b[i].value = keys[k].value /\ b[i + 1].value = keys[k + 1].value

SameSamples(s, t) == SameRotation(s.top, t.top) /\ IsQuad(s.top) /\ IsQuad(t.top)

LEMMA AlongQuad ==
  ASSUME NEW s, NEW q, IsQuad(q), Along(s, q)
  PROVE  IsQuad(s)
BY DEF IsQuad, Along

LEMMA RotationsSampleAlike ==
  ASSUME NEW W, \A v \in W : IsRotation(v), NEW b \in RawKeys(W),
         NEW V, \A v \in V : IsRotation(v), NEW keys \in RawKeys(V), NEW h \in Int,
         \A i \in 1 .. Len(b) - 1 : Dot(b[i].value, b[i + 1].value) >= 0,
         SignsKept(b, keys),
         BothStay("quaternion", b, keys, h) \/ BothMove("quaternion", b, keys, h)
  PROVE  SameSamples(JobSample("quaternion", b, h), RawSample("quaternion", keys, h))
<1> DEFINE job == JobSample("quaternion", b, h)
           sample == RawSample("quaternion", keys, h)
<1>1. /\ \A k \in 1 .. Len(keys) : IsRotation(keys[k].value)
      /\ \A k \in 1 .. Len(b) : IsRotation(b[k].value)
      /\ Len(keys) \in Nat /\ Len(b) \in Nat
  BY KeyOf
<1> HIDE DEF job, sample
<1>2. ASSUME NEW k \in 1 .. Len(keys), JobStays("quaternion", b, job, keys[k].value),
             RawArrives("quaternion", keys, sample, keys[k].value)
      PROVE  SameSamples(job, sample)
  <2> DEFINE w == keys[k].value
  <2>1. IsRotation(w)
    BY <1>1
  <2> HIDE DEF w
  <2>2. Along(job.top, w)
    <3>1. PICK i \in 1 .. Len(b) :
            /\ Like("quaternion", b[i].value, w)
            /\ \/ job = Exactly(b[i].value)
               \/ \E l \in Nat \ {0} : i < Len(b) /\ job = Lerp(b[i].value, b[i + 1].value, 0, l)
               \/ \E at \in Nat, l \in Nat \ {0} :
                     /\ i < Len(b) /\ Like("quaternion", b[i + 1].value, w)
                     /\ job = Lerp(b[i].value, b[i + 1].value, at, l)
      BY <1>2 DEF JobStays, w
    <3> DEFINE x == b[i].value
               y == b[i + 1].value
    <3>2. IsRotation(x) /\ (i < Len(b) => IsRotation(y) /\ i \in 1 .. Len(b) - 1)
      BY <1>1
    <3>3. Along(job.top, x)
      <4>1. CASE job = Exactly(x)
        BY <3>2, <4>1, AlongItself DEF Exactly, IsRotation
      <4>2. ASSUME NEW l \in Nat \ {0}, i < Len(b), job = Lerp(x, y, 0, l)
            PROVE  Along(job.top, x)
        <5> HIDE DEF x, y
        <5> QED BY <3>2, <4>2, StartAlong
      <4>3. ASSUME NEW at \in Nat, NEW l \in Nat \ {0}, i < Len(b), Like("quaternion", y, w),
                   job = Lerp(x, y, at, l)
            PROVE  Along(job.top, x)
        <5>1. Dot(x, y) >= 0
          BY <3>2, <4>3
        <5>2. y[1] = x[1] /\ y[2] = x[2] /\ y[3] = x[3] /\ y[4] = x[4]
          <6>1. Like("quaternion", x, w)
            BY <3>1
          <6> HIDE DEF x, y
          <6> QED BY <2>1, <4>3, <5>1, <6>1, SameSide
        <5> HIDE DEF x, y
        <5> QED BY <3>2, <4>3, <5>2, MiddleAlong
      <4> QED BY <3>1, <4>1, <4>2, <4>3
    <3> QED BY <2>1, <3>1, <3>3, AlongLike
  <2>3. Along(sample.top, w)
    <3>1. CASE sample = Exactly(w)
      BY <2>1, <3>1, AlongItself DEF Exactly, IsRotation
    <3>2. ASSUME NEW j \in 1 .. Len(keys), NEW l \in Nat \ {0}, NEW v,
                 Like("quaternion", v, w), sample = Lerp(keys[j].value, v, l, l)
          PROVE  Along(sample.top, w)
      <4>1. IsRotation(keys[j].value) /\ IsRotation(v)
        BY <1>1, <2>1, <3>2, LikeRotations
      <4>2. Along(sample.top, v)
        BY <3>2, <4>1, EndAlong
      <4> QED BY <2>1, <3>2, <4>2, AlongLike
    <3> QED BY <1>2, <3>1, <3>2 DEF RawArrives, w
  <2>4. SameRotation(job.top, sample.top) /\ IsQuad(job.top) /\ IsQuad(sample.top)
    BY <2>1, <2>2, <2>3, AlongSame, AlongQuad DEF IsRotation
  <2> QED BY <2>4 DEF SameSamples
<1>3. ASSUME BothMove("quaternion", b, keys, h)
      PROVE  SameSamples(job, sample)
  <2>1. PICK k \in 1 .. Len(keys) - 1, i \in 1 .. Len(b) - 1, at \in Nat, l \in Nat :
        /\ at < l /\ ~keys[k].step /\ b[i].ratio = keys[k].ratio
        /\ Like("quaternion", b[i].value, keys[k].value)
        /\ Like("quaternion", b[i + 1].value, keys[k + 1].value)
        /\ job = Lerp(b[i].value, b[i + 1].value, at, l)
        /\ sample = TrackLerp("quaternion", keys[k], keys[k + 1], at, l)
    BY <1>3 DEF BothMove, job, sample
  <2> DEFINE x == b[i].value
             y == b[i + 1].value
             w == keys[k].value
             z == keys[k + 1].value
             t == IF Dot(w, z) < 0 THEN Negated(z) ELSE z
  <2>2. Dot(x, y) >= 0 /\ (Dot(w, z) # 0 \/ (x = w /\ y = z))
    BY <2>1 DEF SignsKept
  <2>3. IsRotation(x) /\ IsRotation(y) /\ IsRotation(w) /\ IsRotation(z)
    <3>1. i \in 1 .. Len(b) /\ i + 1 \in 1 .. Len(b) /\ k \in 1 .. Len(keys) /\ k + 1 \in 1 .. Len(keys)
      BY <1>1
    <3> QED BY <1>1, <3>1
  <2>4. sample = Lerp(w, t, at, l)
    BY <2>1 DEF TrackLerp
  <2>5. Like("quaternion", x, w) /\ Like("quaternion", y, z) /\ job = Lerp(x, y, at, l)
    BY <2>1
  <2> HIDE DEF x, y, w, z
  <2>6. PICK e \in {1, -1} : x[1] = e * w[1] /\ x[2] = e * w[2] /\ x[3] = e * w[3] /\ x[4] = e * w[4]
    BY <2>3, <2>5, LikeRotations
  <2>7. PICK f \in {1, -1} : y[1] = f * z[1] /\ y[2] = f * z[2] /\ y[3] = f * z[3] /\ y[4] = f * z[4]
    BY <2>3, <2>5, LikeRotations
  <2>8. /\ z[1] \in Int /\ z[2] \in Int /\ z[3] \in Int /\ z[4] \in Int
        /\ w[1] \in Int /\ w[2] \in Int /\ w[3] \in Int /\ w[4] \in Int
    BY <2>3 DEF IsRotation, IsQuad
  <2>9. Dot(x, y) = (e * f) * Dot(w, z) /\ Dot(w, z) \in Int
    <3>1. IsQuad(w) /\ IsQuad(z) /\ IsQuad(y) /\ e \in Int /\ f \in Int
      BY <2>3 DEF IsRotation
    <3>2. Dot(x, y) = e * Dot(w, y) /\ Dot(w, y) = f * Dot(w, z)
      <4>1. Dot(x, y) = e * Dot(w, y)
        BY ONLY <2>6, <3>1, DotOfTimes
      <4>2. Dot(w, y) = f * Dot(w, z)
        BY ONLY <2>7, <3>1, DotOfTimes
      <4> QED BY <4>1, <4>2
    <3>3. Dot(w, z) \in Int
      BY <3>1, DotInt
    <3>4. ASSUME NEW p \in Int PROVE e * (f * p) = (e * f) * p
      BY <3>1
    <3> QED BY ONLY <3>2, <3>3, <3>4
  <2>10. Like("quaternion", t, z)
    BY DEF Like
  <2>11. IsRotation(t)
    BY <2>3, <2>10, LikeRotations
  <2>12. /\ Dot(w, t) >= 0
         /\ y[1] = e * t[1] /\ y[2] = e * t[2] /\ y[3] = e * t[3] /\ y[4] = e * t[4]
    <3>1. CASE Dot(w, z) < 0
      <4>1. t[1] = -z[1] /\ t[2] = -z[2] /\ t[3] = -z[3] /\ t[4] = -z[4]
        BY <2>3, <3>1, NegatedQuad DEF IsRotation
      <4>2. Dot(w, t) = -Dot(w, z)
        <5>1. /\ t[1] = (-1) * z[1] /\ t[2] = (-1) * z[2] /\ t[3] = (-1) * z[3] /\ t[4] = (-1) * z[4]
          <6>1. ASSUME NEW p \in Int PROVE -p = (-1) * p
            OBVIOUS
          <6> QED BY ONLY <2>8, <4>1, <6>1
        <5>2. Dot(w, t) = (-1) * Dot(w, z)
          <6>1. -1 \in Int /\ IsQuad(w) /\ IsQuad(z)
            BY <2>8 DEF IsQuad
          <6> QED BY ONLY <5>1, <6>1, DotOfTimes
        <5> QED BY ONLY <2>9, <5>2
      <4>3. e = -f
        BY <2>2, <2>9, <3>1
      <4>4. Dot(w, t) >= 0
        BY ONLY <2>9, <3>1, <4>2
      <4>5. ASSUME NEW p \in Int PROVE f * p = e * (-p)
        BY <4>3
      <4> QED BY ONLY <2>7, <2>8, <4>1, <4>4, <4>5
    <3>2. CASE Dot(w, z) > 0
      <4>1. t = z
        BY <2>9, <3>2
      <4>2. e = f
        BY <2>2, <2>9, <3>2
      <4> QED BY <2>7, <2>9, <3>2, <4>1, <4>2
    <3>3. CASE Dot(w, z) = 0
      <4>1. t = z /\ x = w /\ y = z
        BY <2>2, <3>3
      <4>2. e = 1
        <5>1. ~(w[1] = 0 /\ w[2] = 0 /\ w[3] = 0 /\ w[4] = 0)
          BY <2>3 DEF IsRotation, Dot
        <5>2. ASSUME NEW p \in Int, p = e * p PROVE p = 0 \/ e = 1
          BY ONLY <5>2, e \in {1, -1}
        <5> QED BY ONLY <2>6, <2>8, <4>1, <5>1, <5>2
      <4>3. ASSUME NEW p \in Int PROVE p = e * p
        BY <4>2
      <4>4. z[1] = e * z[1] /\ z[2] = e * z[2] /\ z[3] = e * z[3] /\ z[4] = e * z[4]
        BY ONLY <2>8, <4>3
      <4>5. Dot(w, t) >= 0
        BY ONLY <3>3, <4>1
      <4> HIDE DEF t
      <4> QED BY ONLY <4>1, <4>4, <4>5
    <3> QED BY <2>9, <3>1, <3>2, <3>3
  <2> HIDE DEF t
  <2>13. IsQuad(sample.top) /\ Dot(sample.top, sample.top) > 0
    BY <2>1, <2>3, <2>4, <2>11, <2>12, ShortWayTurns
  <2>14. ASSUME NEW c \in 1 .. 4 PROVE job.top[c] = e * sample.top[c]
    <3>1. job.top[c] = x[c] * (l - at) + y[c] * at
      <4>1. c \in DOMAIN x
        BY <2>3 DEF IsRotation
      <4> QED BY ONLY <2>5, <4>1, LerpAt
    <3>2. sample.top[c] = w[c] * (l - at) + t[c] * at
      <4>1. c \in DOMAIN w
        BY <2>3 DEF IsRotation
      <4> QED BY ONLY <2>4, <4>1, LerpAt
    <3>3. x[c] = e * w[c] /\ y[c] = e * t[c] /\ w[c] \in Int /\ t[c] \in Int
      <4>1. IsQuad(w) /\ IsQuad(t)
        BY <2>3, <2>11 DEF IsRotation
      <4>2. c = 1 \/ c = 2 \/ c = 3 \/ c = 4
        OBVIOUS
      <4> QED BY ONLY <2>6, <2>12, <4>1, <4>2, Zenon DEF IsQuad
    <3>4. ASSUME NEW p \in Int, NEW q \in Int
          PROVE  (e * p) * (l - at) + (e * q) * at = e * (p * (l - at) + q * at)
      OBVIOUS
    <3> QED BY <3>1, <3>2, <3>3, <3>4
  <2>15. Along(job.top, sample.top)
    <3>1. e \in Int \ {0}
      OBVIOUS
    <3> QED BY <2>14, <3>1 DEF Along
  <2>16. SameRotation(job.top, sample.top) /\ IsQuad(job.top)
    BY <2>13, <2>15, AlongItself, AlongSame, AlongQuad
  <2> QED BY <2>13, <2>16 DEF SameSamples
<1> QED BY <1>2, <1>3 DEF BothStay, job, sample

-----------------------------------------------------------------------------
(* What the builder makes.                                                 *)

BeginKey(keys) == [step |-> FALSE, ratio |-> 0, value |-> keys[1].value]
EndKey(keys) == [step |-> FALSE, ratio |-> Unit, value |-> keys[Len(keys)].value]

\* The keys, after o more, and what the builder puts at either end.
Placed(p, keys, o) ==
    /\ \A k \in 1 .. Len(keys) : k + o \in 1 .. Len(p) /\ p[k + o] = keys[k]
    /\ \/ o = 1 /\ keys[1].ratio # 0 /\ p[1] = BeginKey(keys)
       \/ o = 0 /\ keys[1].ratio = 0
    /\ \/ Len(p) = Len(keys) + o + 1 /\ keys[Len(keys)].ratio # Unit /\ p[Len(p)] = EndKey(keys)
       \/ Len(p) = Len(keys) + o /\ keys[Len(keys)].ratio = Unit

\* Such a track from one end to the other.
Patched(p, keys, o) == Placed(p, keys, o) /\ Spans(p)

Ascends(p) == \A k \in 1 .. Len(p) - 1 : p[k].ratio < p[k + 1].ratio
InLoop(keys) == \A k \in 1 .. Len(keys) : keys[k].ratio \in 0 .. Unit

LEMMA AppendedAt ==
  ASSUME NEW S, NEW a \in Seq(S), NEW b \in Seq(S)
  PROVE  /\ a \o b \in Seq(S) /\ Len(a \o b) = Len(a) + Len(b)
         /\ Len(a) \in Nat /\ Len(b) \in Nat
         /\ \A k \in 1 .. Len(a) : (a \o b)[k] = a[k]
         /\ \A k \in 1 .. Len(b) : (a \o b)[k + Len(a)] = b[k]
OBVIOUS

Concatenated(d, a, b, c, S) ==
    /\ d \in Seq(S) /\ Len(d) = Len(a) + Len(b) + Len(c)
    /\ \A k \in 1 .. Len(a) : d[k] = a[k]
    /\ \A k \in 1 .. Len(b) : d[k + Len(a)] = b[k]
    /\ \A k \in 1 .. Len(c) : d[k + (Len(a) + Len(b))] = c[k]

LEMMA ConcatAt ==
  ASSUME NEW S, NEW a \in Seq(S), NEW b \in Seq(S), NEW c \in Seq(S)
  PROVE  Concatenated(a \o b \o c, a, b, c, S)
<1>1. PICK d \in Seq(S) : d = a \o b
  BY AppendedAt
<1>2. /\ Len(d) = Len(a) + Len(b)
      /\ Len(a) \in Nat /\ Len(b) \in Nat /\ Len(c) \in Nat
      /\ \A k \in 1 .. Len(a) : d[k] = a[k]
      /\ \A k \in 1 .. Len(b) : d[k + Len(a)] = b[k]
  BY <1>1, AppendedAt
<1>3. /\ d \o c \in Seq(S) /\ Len(d \o c) = Len(d) + Len(c)
      /\ \A k \in 1 .. Len(d) : (d \o c)[k] = d[k]
      /\ \A k \in 1 .. Len(c) : (d \o c)[k + Len(d)] = c[k]
  BY AppendedAt
<1>4. ASSUME NEW k \in 1 .. Len(a) PROVE (d \o c)[k] = a[k]
  <2>1. k \in 1 .. Len(d)
    BY <1>2
  <2> QED BY <1>2, <1>3, <2>1
<1>5. ASSUME NEW k \in 1 .. Len(b) PROVE (d \o c)[k + Len(a)] = b[k]
  <2>1. k + Len(a) \in 1 .. Len(d)
    BY <1>2
  <2> QED BY <1>2, <1>3, <2>1
<1>6. Len(d \o c) = Len(a) + Len(b) + Len(c)
  BY <1>2, <1>3
<1> QED BY <1>1, <1>2, <1>3, <1>4, <1>5, <1>6 DEF Concatenated

LEMMA BuiltIsPlaced ==
  ASSUME NEW V, NEW keys \in RawKeys(V), Len(keys) >= 2
  PROVE  Built(keys) \in RawKeys(V) /\ \E o \in {0, 1} : Placed(Built(keys), keys, o)
<1> DEFINE K == [step : BOOLEAN, ratio : Int, value : V]
           n == Len(keys)
           A == IF Head(keys).ratio # 0 THEN <<BeginKey(keys)>> ELSE <<>>
           C == IF Last(keys).ratio # Unit THEN <<EndKey(keys)>> ELSE <<>>
           p == A \o keys \o C
           o == Len(A)
<1>1. /\ n \in Nat /\ n >= 2 /\ keys # <<>> /\ 1 \in 1 .. n /\ n \in 1 .. n
      /\ \A k \in 1 .. n : keys[k].value \in V
      /\ Head(keys) = keys[1] /\ Last(keys) = keys[n]
      /\ keys \in Seq(K) /\ Unit \in Nat
  <2>1. keys # <<>> /\ n \in Nat
    BY KeyOf
  <2>2. \A k \in 1 .. n : keys[k].value \in V
    BY KeyOf
  <2>3. Head(keys) = keys[1] /\ Last(keys) = keys[n]
    BY <2>1, KeyOf
  <2>4. keys \in Seq(K) /\ Unit \in Nat
    BY TrackAssumption DEF RawKeys
  <2> HIDE DEF K, n
  <2>5. n >= 2 /\ 1 \in 1 .. n /\ n \in 1 .. n
    BY <2>1 DEF n
  <2> QED BY <2>1, <2>2, <2>3, <2>4, <2>5
<1>2. BeginKey(keys) \in K /\ EndKey(keys) \in K
  BY <1>1 DEF BeginKey, EndKey
<1>3. Built(keys) = p
  <2>1. Len(keys) # 0 /\ Len(keys) # 1
    <3>1. ASSUME NEW x \in Nat, x >= 2 PROVE x # 0 /\ x # 1
      BY ONLY <3>1
    <3> QED BY ONLY <1>1, <3>1 DEF n
  <2> QED BY <1>1, <2>1 DEF Built, PatchBeginEndKeys, BeginKey, EndKey
<1> HIDE DEF K
<1>4. /\ A \in Seq(K) /\ C \in Seq(K) /\ Len(A) \in {0, 1} /\ Len(C) \in {0, 1}
      /\ Len(A) = 1 => A[1] = BeginKey(keys) /\ keys[1].ratio # 0
      /\ Len(A) = 0 => keys[1].ratio = 0
      /\ Len(C) = 1 => C[1] = EndKey(keys) /\ keys[n].ratio # Unit
      /\ Len(C) = 0 => keys[n].ratio = Unit
  BY <1>1, <1>2
<1> HIDE DEF A, C
<1>5. /\ p \in Seq(K)
      /\ Len(p) = o + n + Len(C)
      /\ \A k \in 1 .. o : p[k] = A[k]
      /\ \A k \in 1 .. n : p[k + o] = keys[k]
      /\ \A k \in 1 .. Len(C) : p[k + (o + n)] = C[k]
  <2>1. keys \in Seq(K)
    BY <1>1
  <2>2. Concatenated(p, A, keys, C, K)
    BY ONLY <1>4, <2>1, ConcatAt
  <2> HIDE DEF p
  <2> QED BY ONLY <2>2 DEF Concatenated, o, n
<1> DEFINE m == Len(p)
<1> HIDE DEF p, o
<1>6. o \in {0, 1} /\ m \in {n + o, n + o + 1} /\ m \in Nat
  <2>1. n \in Nat /\ o \in {0, 1} /\ Len(C) \in {0, 1} /\ m = o + n + Len(C)
    BY <1>1, <1>4, <1>5 DEF o
  <2>2. ASSUME NEW x \in Nat, NEW y \in {0, 1}, NEW z \in {0, 1}
        PROVE  y + x + z \in {x + y, x + y + 1} /\ y + x + z \in Nat
    BY ONLY <2>2
  <2> QED BY ONLY <2>1, <2>2
<1>7. \/ o = 1 /\ keys[1].ratio # 0 /\ p[1] = BeginKey(keys)
      \/ o = 0 /\ keys[1].ratio = 0
  BY <1>4, <1>5, <1>6 DEF o
<1>8. \/ m = n + o + 1 /\ keys[n].ratio # Unit /\ p[m] = EndKey(keys)
      \/ m = n + o /\ keys[n].ratio = Unit
  <2>1. CASE Len(C) = 1
    <3>1. m = n + o + 1 /\ m = 1 + (o + n)
      BY <1>1, <1>5, <1>6, <2>1
    <3> QED BY <1>4, <1>5, <2>1, <3>1
  <2>2. CASE Len(C) = 0
    <3>1. m = n + o
      BY <1>1, <1>5, <1>6, <2>2
    <3> QED BY <1>4, <2>2, <3>1
  <2> QED BY <1>4, <2>1, <2>2
<1>9. \A k \in 1 .. n : k + o \in 1 .. m /\ p[k + o] = keys[k]
  BY <1>1, <1>5, <1>6
<1>10. Placed(p, keys, o)
  BY <1>7, <1>8, <1>9 DEF Placed
<1>11. p \in RawKeys(V)
  BY <1>5 DEF RawKeys, K
<1> QED BY <1>3, <1>6, <1>10, <1>11

LEMMA ValidIsInLoop ==
  ASSUME NEW V, NEW keys \in RawKeys(V)
  PROVE  Validate(keys) <=> InLoop(keys) /\ Ascends(keys)
BY KeyOf DEF Validate, InLoop, Ascends

LEMMA BuiltIsPatched ==
  ASSUME NEW V, NEW keys \in RawKeys(V), Validate(keys), Len(keys) >= 2
  PROVE  Built(keys) \in RawKeys(V) /\ \E o \in {0, 1} : Patched(Built(keys), keys, o)
<1> DEFINE p == Built(keys)
           n == Len(keys)
           m == Len(p)
<1>1. PICK o \in {0, 1} : Placed(p, keys, o)
  BY BuiltIsPlaced
<1> HIDE DEF p
<1>2. /\ n \in Nat /\ 1 \in 1 .. n /\ n \in 1 .. n /\ n >= 2 /\ Unit \in Nat
      /\ \A k \in 1 .. n : keys[k].ratio \in 0 .. Unit
  <2>1. n \in Nat
    BY KeyOf
  <2> QED BY <2>1, ValidIsInLoop, TrackAssumption DEF InLoop
<1>3. /\ \A k \in 1 .. n : k + o \in 1 .. m /\ p[k + o] = keys[k]
      /\ \/ o = 1 /\ keys[1].ratio # 0 /\ p[1] = BeginKey(keys)
         \/ o = 0 /\ keys[1].ratio = 0
      /\ \/ m = n + o + 1 /\ keys[n].ratio # Unit /\ p[m] = EndKey(keys)
         \/ m = n + o /\ keys[n].ratio = Unit
  BY <1>1 DEF Placed
<1>4. p[1].ratio = 0
  <2>1. CASE o = 1
    BY <1>3, <2>1 DEF BeginKey
  <2>2. CASE o = 0
    <3>1. p[1 + o] = keys[1] /\ 1 + o = 1
      BY <1>2, <1>3, <2>2
    <3> QED BY <1>3, <2>2, <3>1
  <2> QED BY <2>1, <2>2
<1>5. p[m].ratio = Unit
  <2>1. CASE m = n + o + 1 /\ p[m] = EndKey(keys)
    BY <2>1 DEF EndKey
  <2>2. CASE m = n + o /\ keys[n].ratio = Unit
    BY <1>2, <1>3, <2>2
  <2> QED BY <1>3, <2>1, <2>2
<1>6. ASSUME NEW k \in 1 .. m - 1 PROVE p[k].ratio < p[k + 1].ratio
  <2>1. CASE k = o
    <3>1. o = 1 /\ k = 1 /\ keys[1].ratio # 0
      BY <1>3, <2>1
    <3>2. p[1 + o] = keys[1] /\ keys[1].ratio \in 0 .. Unit
      BY <1>2, <1>3
    <3> QED BY <1>4, <3>1, <3>2
  <2>2. CASE k = n + o
    <3>1. m = k + 1 /\ keys[n].ratio # Unit
      BY <1>2, <1>3, <2>2
    <3>2. p[n + o] = keys[n] /\ keys[n].ratio \in 0 .. Unit
      BY <1>2, <1>3
    <3> QED BY <1>2, <1>5, <2>2, <3>1, <3>2
  <2>3. CASE k # o /\ k # n + o
    <3> DEFINE j == k - o
    <3>1. j \in 1 .. n - 1 /\ j \in 1 .. n /\ j + 1 \in 1 .. n /\ j + o = k /\ (j + 1) + o = k + 1
      BY <1>2, <1>3, <2>3
    <3>2. keys[j].ratio < keys[j + 1].ratio
      BY <3>1 DEF Validate
    <3> QED BY <1>3, <3>1, <3>2
  <2> QED BY <2>1, <2>2, <2>3
<1>7. Spans(p)
  <2>1. m \in Nat /\ m >= 2
    BY <1>2, <1>3
  <2> QED BY <1>4, <1>5, <1>6, <2>1 DEF Spans
<1> QED BY <1>1, <1>7, BuiltIsPlaced DEF p, Patched

\* What has the keys of a patched track, with values that are like those of the raw one.
LEMMA PatchedFollows ==
  ASSUME NEW V, NEW keys \in RawKeys(V), Validate(keys), Len(keys) >= 2,
         NEW o \in {0, 1}, NEW p, Patched(p, keys, o), NEW type,
         NEW b, Len(b) = Len(p),
         \A k \in 1 .. Len(p) : b[k].step = p[k].step /\ b[k].ratio = p[k].ratio,
         NEW keys2, Len(keys2) = Len(keys),
         \A k \in 1 .. Len(keys) : keys2[k].step = keys[k].step /\ keys2[k].ratio = keys[k].ratio,
         \A k \in 1 .. Len(p), j \in 1 .. Len(keys) :
            p[k].value = keys[j].value => Like(type, b[k].value, keys2[j].value)
  PROVE  Spans(b) /\ Follows(type, b, keys2, o)
<1>1. /\ Spans(p)
      /\ \A k \in 1 .. Len(keys) : k + o \in 1 .. Len(p) /\ p[k + o] = keys[k]
      /\ o = 1 => p[1] = BeginKey(keys)
      /\ \/ Len(p) = Len(keys) + o
         \/ Len(p) = Len(keys) + o + 1 /\ p[Len(p)] = EndKey(keys)
  BY DEF Patched, Placed
<1>2. Len(keys) \in Nat /\ Len(keys) >= 2 /\ 1 \in 1 .. Len(keys) /\ Len(keys) \in 1 .. Len(keys)
  <2>1. Len(keys) \in Nat
    BY KeyOf
  <2> QED BY <2>1
<1>3. Len(p) \in Nat /\ 1 \in 1 .. Len(p) /\ Len(p) \in 1 .. Len(p)
  BY <1>1, <1>2
<1>4. Spans(b)
  <2>1. ASSUME NEW k \in 1 .. Len(b) - 1 PROVE b[k].ratio < b[k + 1].ratio
    <3>1. k \in 1 .. Len(p) /\ k + 1 \in 1 .. Len(p) /\ k \in 1 .. Len(p) - 1
      BY <1>3
    <3> QED BY <1>1, <3>1 DEF Spans
  <2>2. b[1].ratio = 0 /\ b[Len(b)].ratio = Unit
    BY <1>1, <1>3 DEF Spans
  <2> QED BY <1>1, <2>1, <2>2 DEF Spans
<1>5. ASSUME NEW k \in 1 .. Len(keys2)
      PROVE  /\ k + o \in 1 .. Len(b)
             /\ b[k + o].step = keys2[k].step /\ b[k + o].ratio = keys2[k].ratio
             /\ Like(type, b[k + o].value, keys2[k].value)
  <2>1. k \in 1 .. Len(keys) /\ k + o \in 1 .. Len(p) /\ p[k + o] = keys[k]
    BY <1>1
  <2>2. /\ b[k + o].step = p[k + o].step /\ b[k + o].ratio = p[k + o].ratio
        /\ keys2[k].step = keys[k].step /\ keys2[k].ratio = keys[k].ratio
        /\ p[k + o].value = keys[k].value => Like(type, b[k + o].value, keys2[k].value)
    BY ONLY <2>1
         , \A i \in 1 .. Len(p) : b[i].step = p[i].step /\ b[i].ratio = p[i].ratio
         , \A i \in 1 .. Len(keys) : keys2[i].step = keys[i].step /\ keys2[i].ratio = keys[i].ratio
         , \A i \in 1 .. Len(p), j \in 1 .. Len(keys) :
              p[i].value = keys[j].value => Like(type, b[i].value, keys2[j].value)
  <2> QED BY <2>1, <2>2
<1>6. ASSUME o = 1 PROVE ~b[1].step /\ Like(type, b[1].value, keys2[1].value)
  <2>1. p[1].step = FALSE /\ p[1].value = keys[1].value
    BY <1>1, <1>6 DEF BeginKey
  <2>2. b[1].step = p[1].step /\ Like(type, b[1].value, keys2[1].value)
    BY <1>2, <1>3, <2>1
  <2> QED BY <2>1, <2>2
<1>7. \/ Len(b) = Len(keys2) + o
      \/ Len(b) = Len(keys2) + o + 1 /\ Like(type, b[Len(b)].value, keys2[Len(keys2)].value)
  <2> SUFFICES ASSUME Len(p) = Len(keys) + o + 1, p[Len(p)] = EndKey(keys)
               PROVE  Like(type, b[Len(b)].value, keys2[Len(keys2)].value)
    BY <1>1
  <2>1. p[Len(p)].value = keys[Len(keys)].value
    BY DEF EndKey
  <2> QED BY <1>2, <1>3, <2>1
<1> QED BY <1>4, <1>5, <1>6, <1>7 DEF Follows

-----------------------------------------------------------------------------
(* Signs of quaternions.                                                   *)

\* A key as Fixup makes it, beside the keys f that are made already.
FixedKey(keys, f, k) ==
    LET flip == IF k = 1 THEN keys[1].value[4] < 0
                         ELSE Dot(keys[k].value, f[k - 1].value) < 0
    IN  IF flip THEN [keys[k] EXCEPT !.value = Negated(@)] ELSE keys[k]

Fixes(f, keys, n) == f = [k \in 1 .. n |-> FixedKey(keys, f, k)]

LEMMA FixedAt ==
  ASSUME NEW f, NEW keys, NEW n \in Nat, Fixes(f, keys, n)
  PROVE  /\ DOMAIN f = 1 .. n /\ f = [k \in 1 .. n |-> f[k]]
         /\ \A k \in 1 .. n : f[k] = FixedKey(keys, f, k)
<1> DEFINE e(k) == FixedKey(keys, f, k)
<1>1. f = [k \in 1 .. n |-> e(k)]
  BY DEF Fixes
<1> HIDE DEF e
<1>2. /\ DOMAIN f = 1 .. n /\ f = [k \in 1 .. n |-> f[k]]
      /\ \A k \in 1 .. n : f[k] = e(k)
  BY <1>1
<1> QED BY <1>2 DEF e

LEMMA FixedExtended ==
  ASSUME NEW f, NEW keys, NEW n \in Nat, Fixes(f, keys, n)
  PROVE  \E g : Fixes(g, keys, n + 1)
<1> DEFINE e(k) == FixedKey(keys, f, k)
           g == [k \in 1 .. n + 1 |-> e(k)]
<1>1. \A k \in 1 .. n : f[k] = e(k)
  BY FixedAt
<1>2. \A k \in 1 .. n + 1 : k # 1 => g[k - 1] = f[k - 1]
  <2>1. \A k \in 1 .. n : g[k] = e(k)
    <3> HIDE DEF e
    <3> QED OBVIOUS
  <2> HIDE DEF e, g
  <2>2. \A k \in 1 .. n + 1 : k # 1 => k - 1 \in 1 .. n
    OBVIOUS
  <2> QED BY <1>1, <2>1, <2>2
<1>3. g = [k \in 1 .. n + 1 |-> FixedKey(keys, g, k)]
  <2> SUFFICES ASSUME NEW k \in 1 .. n + 1
               PROVE  e(k) = FixedKey(keys, g, k)
    OBVIOUS
  <2> HIDE DEF g
  <2> QED BY <1>2 DEF FixedKey
<1> HIDE DEF g
<1>4. Fixes(g, keys, n + 1)
  BY <1>3 DEF Fixes
<1> QED BY <1>4

LEMMA FixedExist ==
  ASSUME NEW keys, NEW n \in Nat
  PROVE  \E f : Fixes(f, keys, n)
<1> DEFINE Exists(k) == \E f : Fixes(f, keys, k)
           T == {k \in Nat : ~Exists(k)}
<1> SUFFICES ASSUME T # {} PROVE FALSE
  OBVIOUS
<1>1. PICK m \in T : \A k \in T : m <= k
  <2>1. T \subseteq Nat
    OBVIOUS
  <2> HIDE DEF T
  <2> QED BY <2>1, LeastNatural
<1>2. m \in Nat /\ ~Exists(m)
  BY <1>1
<1>3. Exists(0)
  <2> DEFINE e(k) == FixedKey(keys, <<>>, k)
             g == [k \in 1 .. 0 |-> e(k)]
  <2>1. g = [k \in 1 .. 0 |-> FixedKey(keys, g, k)]
    <3> HIDE DEF g
    <3>1. g = [k \in 1 .. 0 |-> e(k)]
      BY DEF g
    <3>2. \A k \in 1 .. 0 : FALSE
      OBVIOUS
    <3> HIDE DEF e
    <3> QED BY <3>1, <3>2
  <2>2. Fixes(g, keys, 0)
    <3> HIDE DEF g
    <3> QED BY <2>1 DEF Fixes
  <2> QED BY <2>2
<1>4. m # 0
  <2> HIDE DEF Exists
  <2> QED BY <1>2, <1>3
<1>5. m - 1 \in Nat /\ (m - 1) + 1 = m
  BY <1>2, <1>4
<1>6. Exists(m - 1)
  <2>1. m - 1 \notin T
    <3> HIDE DEF T
    <3> QED BY <1>1, <1>2, <1>5
  <2> HIDE DEF Exists
  <2> QED BY <1>5, <2>1
<1>7. PICK f : Fixes(f, keys, m - 1)
  BY <1>6
<1>8. Exists((m - 1) + 1)
  BY <1>5, <1>7, FixedExtended
<1> QED BY <1>2, <1>5, <1>8

LEMMA FixupFixes ==
  ASSUME NEW V, NEW keys \in RawKeys(V)
  PROVE  Fixes(Fixup(keys), keys, Len(keys))
<1>1. Len(keys) \in Nat /\ DOMAIN keys = 1 .. Len(keys)
  BY KeyOf
<1>2. Fixes(CHOOSE f : Fixes(f, keys, Len(keys)), keys, Len(keys))
  BY <1>1, FixedExist
<1>3. Fixup(keys) = CHOOSE f : Fixes(f, keys, Len(keys))
  BY <1>1 DEF Fixup, Fixes, FixedKey
<1> QED BY <1>2, <1>3

\* The keys of a track of quaternions: as they were but for signs, each on the side of
\* the one before.
LEMMA FixupTurns ==
  ASSUME NEW V, \A v \in V : IsRotation(v), NEW keys \in RawKeys(V)
  PROVE  /\ Fixup(keys) = [k \in 1 .. Len(keys) |-> Fixup(keys)[k]]
         /\ \A k \in 1 .. Len(keys) :
               /\ Fixup(keys)[k].step = keys[k].step /\ Fixup(keys)[k].ratio = keys[k].ratio
               /\ Like("quaternion", Fixup(keys)[k].value, keys[k].value)
               /\ Fixup(keys)[k] = [step |-> keys[k].step, ratio |-> keys[k].ratio,
                                    value |-> Fixup(keys)[k].value]
         /\ \A k \in 1 .. Len(keys) - 1 : Dot(Fixup(keys)[k].value, Fixup(keys)[k + 1].value) >= 0
<1> DEFINE f == Fixup(keys)
           n == Len(keys)
<1>1. n \in Nat /\ Fixes(f, keys, n)
  BY KeyOf, FixupFixes
<1>2. \A k \in 1 .. n : /\ keys[k] = [step |-> keys[k].step, ratio |-> keys[k].ratio,
                                      value |-> keys[k].value]
                         /\ IsRotation(keys[k].value)
  BY KeyOf
<1> HIDE DEF f, n
<1>3. /\ f = [k \in 1 .. n |-> f[k]]
      /\ \A k \in 1 .. n : f[k] = FixedKey(keys, f, k)
  BY <1>1, FixedAt
<1>4. ASSUME NEW k \in 1 .. n
      PROVE  /\ f[k].step = keys[k].step /\ f[k].ratio = keys[k].ratio
             /\ Like("quaternion", f[k].value, keys[k].value)
             /\ f[k] = [step |-> keys[k].step, ratio |-> keys[k].ratio, value |-> f[k].value]
  <2>1. f[k] = keys[k] \/ f[k] = [keys[k] EXCEPT !.value = Negated(@)]
    BY <1>3 DEF FixedKey
  <2>2. CASE f[k] = keys[k]
    BY <1>2, <2>2 DEF Like
  <2>3. CASE f[k] = [keys[k] EXCEPT !.value = Negated(@)]
    <3>1. f[k] = [step |-> keys[k].step, ratio |-> keys[k].ratio, value |-> Negated(keys[k].value)]
      BY <1>2, <2>3
    <3> QED BY <3>1 DEF Like
  <2> QED BY <2>1, <2>2, <2>3
<1>5. ASSUME NEW k \in 1 .. n - 1 PROVE Dot(f[k].value, f[k + 1].value) >= 0
  <2> DEFINE x == f[k].value
             y == keys[k + 1].value
  <2>1. k \in 1 .. n /\ k + 1 \in 1 .. n /\ k + 1 # 1 /\ (k + 1) - 1 = k
    BY <1>1
  <2>2. IsRotation(x) /\ IsRotation(y)
    BY <1>2, <1>4, <2>1, LikeRotations
  <2>3. Dot(y, x) \in Int /\ Dot(x, y) = Dot(y, x)
    BY <2>2, DotInt DEF IsRotation
  <2>4. f[k + 1] = IF Dot(y, x) < 0 THEN [keys[k + 1] EXCEPT !.value = Negated(@)] ELSE keys[k + 1]
    BY <1>3, <2>1 DEF FixedKey
  <2>5. CASE Dot(y, x) < 0
    <3>1. f[k + 1].value = Negated(y)
      <4>1. keys[k + 1] = [step |-> keys[k + 1].step, ratio |-> keys[k + 1].ratio, value |-> y]
        BY <1>2, <2>1
      <4> QED BY <2>4, <2>5, <4>1
    <3> HIDE DEF x, y
    <3>2. /\ Negated(y)[1] = (-1) * y[1] /\ Negated(y)[2] = (-1) * y[2]
          /\ Negated(y)[3] = (-1) * y[3] /\ Negated(y)[4] = (-1) * y[4]
      BY <2>2, NegatedQuad DEF IsRotation, IsQuad
    <3>3. Dot(x, Negated(y)) = (-1) * Dot(x, y)
      <4>1. -1 \in Int /\ IsQuad(x) /\ IsQuad(y)
        BY <2>2 DEF IsRotation
      <4> QED BY ONLY <3>2, <4>1, DotOfTimes
    <3> QED BY <2>3, <2>5, <3>1, <3>3 DEF x
  <2>6. CASE ~(Dot(y, x) < 0)
    <3>1. f[k + 1].value = y
      BY <2>4, <2>6
    <3> QED BY <2>3, <2>6, <3>1
  <2> QED BY <2>5, <2>6
<1> QED BY <1>3, <1>4, <1>5 DEF f, n

-----------------------------------------------------------------------------
(* Built tracks give what was authored.                                    *)

LEMMA KeysFrom ==
  ASSUME NEW n \in Nat, NEW f, f = [k \in 1 .. n |-> f[k]], NEW W,
         \A k \in 1 .. n : f[k] \in [step : BOOLEAN, ratio : Int, value : W]
  PROVE  f \in RawKeys(W) /\ Len(f) = n
<1> DEFINE K == [step : BOOLEAN, ratio : Int, value : W]
<1> HIDE DEF K
<1>1. \A k \in 1 .. n : f[k] \in K
  BY DEF K
<1>2. f \in Seq(K) /\ Len(f) = n
  BY <1>1
<1> QED BY <1>2 DEF K, RawKeys

\* Keys with vectors of one number for values.
InVectors(keys) == [k \in DOMAIN keys |-> [keys[k] EXCEPT !.value = <<@>>]]

Singles(V) == {<<v>> : v \in V}

LEMMA InVectorsAre ==
  ASSUME NEW V, NEW keys \in RawKeys(V)
  PROVE  /\ InVectors(keys) \in RawKeys(Singles(V))
         /\ Len(InVectors(keys)) = Len(keys)
         /\ \A k \in 1 .. Len(keys) : /\ InVectors(keys)[k].step = keys[k].step
                                        /\ InVectors(keys)[k].ratio = keys[k].ratio
                                        /\ InVectors(keys)[k].value = <<keys[k].value>>
<1> DEFINE f == InVectors(keys)
           n == Len(keys)
           W == Singles(V)
<1>1. /\ n \in Nat /\ DOMAIN keys = 1 .. n
      /\ \A k \in 1 .. n : /\ keys[k] = [step |-> keys[k].step, ratio |-> keys[k].ratio,
                                           value |-> keys[k].value]
                             /\ keys[k].step \in BOOLEAN /\ keys[k].ratio \in Int
                             /\ keys[k].value \in V
  BY KeyOf
<1>2. f = [k \in 1 .. n |-> [keys[k] EXCEPT !.value = <<@>>]]
  BY <1>1 DEF InVectors
<1> HIDE DEF f, n
<1>3. ASSUME NEW k \in 1 .. n
      PROVE  f[k] = [step |-> keys[k].step, ratio |-> keys[k].ratio, value |-> <<keys[k].value>>]
  BY <1>1, <1>2
<1>4. f = [k \in 1 .. n |-> f[k]]
  BY <1>2
<1>5. ASSUME NEW k \in 1 .. n PROVE f[k] \in [step : BOOLEAN, ratio : Int, value : W]
  <2>1. <<keys[k].value>> \in W
    BY <1>1 DEF Singles
  <2>2. keys[k].step \in BOOLEAN /\ keys[k].ratio \in Int
    BY <1>1
  <2>3. f[k] = [step |-> keys[k].step, ratio |-> keys[k].ratio, value |-> <<keys[k].value>>]
    BY <1>3
  <2> HIDE DEF W
  <2> QED BY ONLY <2>1, <2>2, <2>3
<1>6. f \in RawKeys(W) /\ Len(f) = n
  BY <1>1, <1>4, <1>5, KeysFrom
<1>7. ASSUME NEW k \in 1 .. n
      PROVE  /\ f[k].step = keys[k].step /\ f[k].ratio = keys[k].ratio
             /\ f[k].value = <<keys[k].value>>
  <2>1. f[k] = [step |-> keys[k].step, ratio |-> keys[k].ratio, value |-> <<keys[k].value>>]
    BY <1>3
  <2> DEFINE s == keys[k].step
             r == keys[k].ratio
             v == <<keys[k].value>>
  <2>2. f[k] = [step |-> s, ratio |-> r, value |-> v]
    BY <2>1
  <2> HIDE DEF s, r, v
  <2>3. f[k].step = s /\ f[k].ratio = r /\ f[k].value = v
    BY ONLY <2>2
  <2> QED BY <2>3 DEF s, r, v
<1> QED BY <1>6, <1>7 DEF f, n

LEMMA OneIsAnywhere ==
  ASSUME NEW W, NEW b \in RawKeys(W), Len(b) = 1, NEW V, NEW keys \in RawKeys(V), Len(keys) = 1,
         NEW type, Like(type, b[1].value, keys[1].value), NEW h \in Int
  PROVE  BothStay(type, b, keys, h)
<1>1. b # <<>> /\ keys # <<>>
  OBVIOUS
<1>2. /\ Head(b) = b[1] /\ Head(keys) = keys[1] /\ Last(keys) = keys[1]
      /\ 1 \in 1 .. Len(b) /\ 1 \in 1 .. Len(keys) /\ keys[1].ratio \in Int
  <2>1. 1 \in 1 .. Len(b) /\ 1 \in 1 .. Len(keys)
    OBVIOUS
  <2> QED BY <1>1, <2>1, KeyOf
<1>3. JobSample(type, b, h) = Exactly(b[1].value)
  BY <1>1, <1>2 DEF JobSample
<1>4. RawSample(type, keys, h) = Exactly(keys[1].value)
  <2>1. h <= 2 * keys[1].ratio \/ h >= 2 * keys[1].ratio
    BY <1>2
  <2> QED BY <1>1, <1>2, <2>1 DEF RawSample
<1>5. JobStays(type, b, JobSample(type, b, h), keys[1].value)
  BY <1>2, <1>3 DEF JobStays
<1>6. RawArrives(type, keys, RawSample(type, keys, h), keys[1].value)
  BY <1>4 DEF RawArrives
<1> QED BY <1>2, <1>5, <1>6 DEF BothStay

LEMMA BuiltOfFew ==
  ASSUME NEW V, NEW keys \in RawKeys(V)
  PROVE  /\ Len(keys) = 0 => keys = <<>> /\ Built(keys) = <<>>
         /\ Len(keys) = 1 => Built(keys) \in RawKeys(V) /\ Len(Built(keys)) = 1
                              /\ Built(keys)[1] = BeginKey(keys)
<1>1. ASSUME Len(keys) = 0 PROVE keys = <<>> /\ Built(keys) = <<>>
  <2>1. keys = <<>>
    BY <1>1 DEF RawKeys
  <2> QED BY <1>1, <2>1 DEF Built, PatchBeginEndKeys
<1>2. ASSUME Len(keys) = 1
      PROVE  /\ Built(keys) \in RawKeys(V) /\ Len(Built(keys)) = 1
             /\ Built(keys)[1] = BeginKey(keys)
  <2>1. keys # <<>> /\ 1 \in 1 .. Len(keys) /\ Len(keys) # 0
    BY <1>2
  <2>2. Head(keys) = keys[1] /\ keys[1].value \in V
    BY <2>1, KeyOf
  <2>3. Built(keys) = <<BeginKey(keys)>>
    BY <1>2, <2>1, <2>2 DEF Built, PatchBeginEndKeys, BeginKey
  <2>4. BeginKey(keys) \in [step : BOOLEAN, ratio : Int, value : V]
    BY <2>2 DEF BeginKey
  <2> HIDE DEF BeginKey
  <2> QED BY <2>3, <2>4 DEF RawKeys
<1> QED BY <1>1, <1>2

LEMMA FewOrMore ==
  ASSUME NEW V, NEW keys \in RawKeys(V)
  PROVE  Len(keys) = 0 \/ Len(keys) = 1 \/ Len(keys) >= 2
<1>1. Len(keys) \in Nat
  BY KeyOf
<1>2. ASSUME NEW x \in Nat PROVE x = 0 \/ x = 1 \/ x >= 2
  OBVIOUS
<1> QED BY ONLY <1>1, <1>2

LEMMA NothingSamplesAlike ==
  ASSUME NEW type, NEW h
  PROVE  SameSample(type, JobSample(type, <<>>, h), RawSample(type, <<>>, h))
<1>1. JobSample(type, <<>>, h) = Default(type) /\ RawSample(type, <<>>, h) = Default(type)
  BY DEF JobSample, RawSample
<1>2. SameRotation(Identity, Identity)
  <2>1. IsQuad(Identity) /\ Dot(Identity, Identity) > 0
    BY DEF IsQuad, Identity, Dot
  <2> QED BY <2>1, AlongItself, AlongSame
<1> QED BY <1>1, <1>2 DEF SameSample, Default, Exactly

LEMMA BuiltFloats ==
  ASSUME NEW V, V \subseteq Int, NEW keys \in RawKeys(V), Validate(keys), NEW h \in Int
  PROVE  SameSample("float", JobSample("float", InVectors(Built(keys)), h),
                             RawSample("float", InVectors(keys), h))
<1> DEFINE p == Built(keys)
           b == InVectors(p)
           keys2 == InVectors(keys)
           W == Singles(V)
<1>1. \A v \in W : IsFloat(v)
  BY DEF IsFloat, Singles
<1>2. /\ keys2 \in RawKeys(W) /\ Len(keys2) = Len(keys)
      /\ \A k \in 1 .. Len(keys) : keys2[k].step = keys[k].step /\ keys2[k].ratio = keys[k].ratio
                                     /\ keys2[k].value = <<keys[k].value>>
  BY InVectorsAre
<1>3. ASSUME p \in RawKeys(V)
      PROVE  /\ b \in RawKeys(W) /\ Len(b) = Len(p)
             /\ \A k \in 1 .. Len(p) : b[k].step = p[k].step /\ b[k].ratio = p[k].ratio
                                         /\ b[k].value = <<p[k].value>>
  BY <1>3, InVectorsAre
<1>4. Len(keys) \in Nat
  BY KeyOf
<1>5. CASE Len(keys) = 0
  <2>1. keys = <<>> /\ p = <<>>
    BY <1>5, BuiltOfFew
  <2>2. InVectors(<<>>) = <<>>
    BY DEF InVectors
  <2> QED BY <2>1, <2>2, NothingSamplesAlike
<1>6. CASE Len(keys) = 1
  <2>1. p \in RawKeys(V) /\ Len(p) = 1 /\ p[1] = BeginKey(keys)
    BY <1>6, BuiltOfFew
  <2>2. Like("float", b[1].value, keys2[1].value)
    BY <1>2, <1>3, <1>6, <2>1 DEF Like, BeginKey
  <2> HIDE DEF p, b, keys2, W
  <2>3. BothStay("float", b, keys2, h)
    BY <1>2, <1>3, <1>6, <2>1, <2>2, OneIsAnywhere
  <2>4. SameSample("float", JobSample("float", b, h), RawSample("float", keys2, h))
    BY <1>1, <1>2, <1>3, <2>1, <2>3, FloatsSampleAlike
  <2> QED BY <2>4 DEF p, b, keys2
<1>7. CASE Len(keys) >= 2
  <2>1. p \in RawKeys(V)
    BY <1>7, BuiltIsPatched
  <2>2. PICK o \in {0, 1} : Patched(p, keys, o)
    BY <1>7, BuiltIsPatched
  <2> HIDE DEF p, b, keys2, W
  <2>3. Spans(b) /\ Follows("float", b, keys2, o)
    <3>1. \A k \in 1 .. Len(p), j \in 1 .. Len(keys) :
            p[k].value = keys[j].value => Like("float", b[k].value, keys2[j].value)
      BY <1>2, <1>3, <2>1 DEF Like
    <3>2. /\ Len(b) = Len(p) /\ Len(keys2) = Len(keys)
          /\ \A k \in 1 .. Len(p) : b[k].step = p[k].step /\ b[k].ratio = p[k].ratio
          /\ \A k \in 1 .. Len(keys) : keys2[k].step = keys[k].step /\ keys2[k].ratio = keys[k].ratio
      BY <1>2, <1>3, <2>1
    <3> QED BY <1>7, <2>2, <3>1, <3>2, PatchedFollows
  <2>4. Validate(keys2)
    <3>1. InLoop(keys) /\ Ascends(keys)
      BY ValidIsInLoop
    <3>2. InLoop(keys2)
      BY <1>2, <3>1 DEF InLoop
    <3>3. Ascends(keys2)
      <4>1. ASSUME NEW k \in 1 .. Len(keys) - 1
            PROVE  k \in 1 .. Len(keys) /\ k + 1 \in 1 .. Len(keys)
        BY <1>4
      <4> QED BY <1>2, <3>1, <4>1 DEF Ascends
    <3> QED BY <1>2, <3>2, <3>3, ValidIsInLoop
  <2>5. BothStay("float", b, keys2, h) \/ BothMove("float", b, keys2, h)
    BY <1>2, <1>3, <1>7, <2>1, <2>3, <2>4, SampleCases
  <2>6. SameSample("float", JobSample("float", b, h), RawSample("float", keys2, h))
    BY <1>1, <1>2, <1>3, <2>1, <2>5, FloatsSampleAlike
  <2> QED BY <2>6 DEF p, b, keys2
<1> QED BY <1>5, <1>6, <1>7, FewOrMore

\* A key that is built as it was authored hands its sign on to one half a turn from it.
LEMMA PathsKept ==
  ASSUME NEW V, \A v \in V : IsRotation(v), NEW keys \in RawKeys(V), OnePath(keys),
         NEW o \in {0, 1}, Patched(Built(keys), keys, o), Built(keys) \in RawKeys(V),
         NEW W, NEW b \in RawKeys(W), b = Fixup(Built(keys)), Len(b) = Len(Built(keys)),
         Spans(b), \A k \in 1 .. Len(b) : b[k].ratio = Built(keys)[k].ratio
  PROVE  SignsKept(b, keys)
<1> DEFINE p == Built(keys)
           n == Len(keys)
           m == Len(p)
<1>1. /\ m \in Nat /\ n \in Nat
      /\ \A k \in 1 .. n : keys[k].ratio \in Int /\ IsRotation(keys[k].value)
  BY KeyOf
<1>2. \A k \in 1 .. n : k + o \in 1 .. m /\ p[k + o] = keys[k]
  BY DEF Patched, Placed
<1>3. Fixes(b, p, m) /\ DOMAIN b = 1 .. m
  BY FixupFixes, KeyOf
<1>4. b = BuiltOf("quaternion", keys) /\ Len(b) = m
  BY DEF BuiltOf
<1>5. \A k \in 1 .. m : b[k].ratio = p[k].ratio
  OBVIOUS
<1> HIDE DEF p, n, m
<1> SUFFICES ASSUME NEW i \in 1 .. m - 1, NEW k \in 1 .. n - 1, b[i].ratio = keys[k].ratio,
                    ~keys[k].step, Dot(keys[k].value, keys[k + 1].value) = 0
             PROVE  b[i].value = keys[k].value /\ b[i + 1].value = keys[k + 1].value
  BY <1>4 DEF SignsKept, n
<1>6. i \in 1 .. m /\ i + 1 \in 1 .. m /\ k \in 1 .. n /\ k + 1 \in 1 .. n
  BY <1>1
<1>7. PICK j \in 1 .. m : b[j] = keys[k]
  <2>1. keys[k] \in Range(b)
    BY <1>4 DEF OnePath, n
  <2> QED BY <1>3, <2>1 DEF Range
<1>8. j = i
  BY <1>4, <1>6, <1>7, OneAtRatio
<1>9. k + o = i
  <2>1. k + o \in 1 .. m /\ b[k + o].ratio = b[i].ratio
    BY <1>2, <1>5, <1>6
  <2> QED BY <1>4, <1>6, <2>1, OneAtRatio
<1>10. b[i].value = keys[k].value /\ p[i + 1] = keys[k + 1]
  <2>1. (k + 1) + o = i + 1
    BY <1>6, <1>9
  <2> QED BY <1>2, <1>6, <1>7, <1>8, <2>1
<1>11. b[i + 1] = p[i + 1]
  <2>1. b[i + 1] = FixedKey(p, b, i + 1)
    BY <1>1, <1>3, <1>6, FixedAt
  <2>2. i + 1 # 1 /\ (i + 1) - 1 = i
    BY <1>6
  <2>3. Dot(p[i + 1].value, b[i].value) = 0
    <3>1. IsQuad(keys[k].value) /\ IsQuad(keys[k + 1].value)
      BY <1>1, <1>6 DEF IsRotation
    <3> QED BY <1>10, <3>1, DotInt
  <2> QED BY <2>1, <2>2, <2>3 DEF FixedKey
<1> QED BY <1>10, <1>11

\* What Fixup makes of keys of rotations.
FixedValues(p) == {Fixup(p)[k].value : k \in 1 .. Len(p)}

LEMMA FixedKeysAre ==
  ASSUME NEW V, \A v \in V : IsRotation(v), NEW p \in RawKeys(V)
  PROVE  LET W == FixedValues(p)
         IN  /\ Fixup(p) \in RawKeys(W) /\ Len(Fixup(p)) = Len(p) /\ \A v \in W : IsRotation(v)
             /\ \A k \in 1 .. Len(p) :
                   /\ Fixup(p)[k].step = p[k].step /\ Fixup(p)[k].ratio = p[k].ratio
                   /\ Like("quaternion", Fixup(p)[k].value, p[k].value)
             /\ \A k \in 1 .. Len(p) - 1 : Dot(Fixup(p)[k].value, Fixup(p)[k + 1].value) >= 0
<1> DEFINE b == Fixup(p)
           W == FixedValues(p)
<1>1. /\ b = [k \in 1 .. Len(p) |-> b[k]]
      /\ \A k \in 1 .. Len(p) :
            /\ b[k].step = p[k].step /\ b[k].ratio = p[k].ratio
            /\ Like("quaternion", b[k].value, p[k].value)
            /\ b[k] = [step |-> p[k].step, ratio |-> p[k].ratio, value |-> b[k].value]
      /\ \A k \in 1 .. Len(p) - 1 : Dot(b[k].value, b[k + 1].value) >= 0
  BY FixupTurns
<1>2. /\ Len(p) \in Nat
      /\ \A k \in 1 .. Len(p) : p[k].step \in BOOLEAN /\ p[k].ratio \in Int
                                  /\ IsRotation(p[k].value)
  BY KeyOf
<1>3. \A k \in 1 .. Len(p) : IsRotation(b[k].value)
  BY <1>1, <1>2, LikeRotations
<1>4. \A k \in 1 .. Len(p) : b[k].value \in W
  BY DEF FixedValues
<1>5. \A v \in W : IsRotation(v)
  BY <1>3 DEF FixedValues
<1> HIDE DEF b, W
<1>6. \A k \in 1 .. Len(p) : b[k] \in [step : BOOLEAN, ratio : Int, value : W]
  BY <1>1, <1>2, <1>4
<1>7. b \in RawKeys(W) /\ Len(b) = Len(p)
  BY <1>1, <1>2, <1>6, KeysFrom
<1> QED BY <1>1, <1>5, <1>7 DEF b, W

LEMMA BuiltRotations ==
  ASSUME NEW V, \A v \in V : IsRotation(v), NEW keys \in RawKeys(V), Validate(keys),
         OnePath(keys), NEW h \in Int
  PROVE  SameSamples(JobSample("quaternion", Fixup(Built(keys)), h),
                     RawSample("quaternion", keys, h))
<1> DEFINE p == Built(keys)
           b == Fixup(p)
           W == FixedValues(p)
<1>1. ASSUME p \in RawKeys(V)
      PROVE  /\ b \in RawKeys(W) /\ Len(b) = Len(p) /\ \A v \in W : IsRotation(v)
             /\ \A k \in 1 .. Len(p) : b[k].step = p[k].step /\ b[k].ratio = p[k].ratio
                                         /\ Like("quaternion", b[k].value, p[k].value)
             /\ \A k \in 1 .. Len(b) - 1 : Dot(b[k].value, b[k + 1].value) >= 0
  BY <1>1, FixedKeysAre
<1>2. CASE Len(keys) = 0
  <2>1. keys = <<>> /\ p = <<>>
    BY <1>2, BuiltOfFew
  <2>2. Fixup(<<>>) = <<>>
    <3>1. <<>> \in RawKeys(V) /\ Len(<<>>) = 0
      BY DEF RawKeys
    <3>2. Fixes(Fixup(<<>>), <<>>, 0)
      BY <3>1, FixupFixes
    <3>3. Fixup(<<>>) = [k \in 1 .. 0 |-> Fixup(<<>>)[k]]
      BY <3>2, FixedAt
    <3> DEFINE f == Fixup(<<>>)
    <3> HIDE DEF f
    <3>4. f = [k \in 1 .. 0 |-> f[k]]
      BY <3>3 DEF f
    <3>5. f = <<>>
      BY <3>4
    <3> QED BY <3>5 DEF f
  <2>3. SameSample("quaternion", JobSample("quaternion", <<>>, h), RawSample("quaternion", <<>>, h))
    BY NothingSamplesAlike
  <2>4. /\ JobSample("quaternion", <<>>, h).top = Identity
        /\ RawSample("quaternion", <<>>, h).top = Identity
    BY DEF JobSample, RawSample, Default, Exactly
  <2>5. IsQuad(Identity)
    BY DEF IsQuad, Identity
  <2> QED BY <2>1, <2>2, <2>3, <2>4, <2>5 DEF SameSample, SameSamples
<1>3. CASE Len(keys) = 1
  <2>1. p \in RawKeys(V) /\ Len(p) = 1 /\ p[1] = BeginKey(keys)
    BY <1>3, BuiltOfFew
  <2>2. Like("quaternion", b[1].value, keys[1].value)
    BY <1>1, <2>1 DEF BeginKey
  <2> HIDE DEF p, b, W
  <2>3. BothStay("quaternion", b, keys, h)
    BY <1>1, <1>3, <2>1, <2>2, OneIsAnywhere
  <2>4. SignsKept(b, keys)
    BY <1>3 DEF SignsKept
  <2>5. SameSamples(JobSample("quaternion", b, h), RawSample("quaternion", keys, h))
    BY <1>1, <2>1, <2>3, <2>4, RotationsSampleAlike
  <2> QED BY <2>5 DEF p, b
<1>4. CASE Len(keys) >= 2
  <2>1. p \in RawKeys(V)
    BY <1>4, BuiltIsPatched
  <2>2. PICK o \in {0, 1} : Patched(p, keys, o)
    BY <1>4, BuiltIsPatched
  <2> HIDE DEF p, b, W
  <2>3. Spans(b) /\ Follows("quaternion", b, keys, o)
    <3>1. \A k \in 1 .. Len(p), j \in 1 .. Len(keys) :
            p[k].value = keys[j].value => Like("quaternion", b[k].value, keys[j].value)
      BY <1>1, <2>1
    <3> QED BY <1>1, <1>4, <2>1, <2>2, <3>1, PatchedFollows
  <2>4. BothStay("quaternion", b, keys, h) \/ BothMove("quaternion", b, keys, h)
    BY <1>1, <1>4, <2>1, <2>3, SampleCases
  <2>5. SignsKept(b, keys)
    <3>1. /\ b \in RawKeys(W) /\ b = Fixup(Built(keys)) /\ Len(b) = Len(Built(keys))
          /\ \A k \in 1 .. Len(b) : b[k].ratio = Built(keys)[k].ratio
          /\ Built(keys) \in RawKeys(V) /\ Patched(Built(keys), keys, o)
      BY <1>1, <2>1, <2>2 DEF p, b
    <3> QED BY <2>3, <3>1, PathsKept
  <2>6. SameSamples(JobSample("quaternion", b, h), RawSample("quaternion", keys, h))
    BY <1>1, <2>1, <2>4, <2>5, RotationsSampleAlike
  <2> QED BY <2>6 DEF p, b
<1> QED BY <1>2, <1>3, <1>4, FewOrMore

\* The keys of the raw track are of its kind, and a track was built of valid ones.
RawIsKnown ==
    /\ kind \in {"none", "float", "quaternion"}
    /\ raw \in RawKeys(ValuesOfKind)
    /\ kind = "none" => raw = <<>>
    /\ track # NotBuilt => kind # "none" /\ Validate(raw)

LEMMA HostKeepsKnown ==
  ASSUME RawIsKnown, Author
  PROVE  RawIsKnown'
<1>1. track = NotBuilt
  BY DEF Author
<1>2. CASE CreateRaw
  <2>1. kind' \in {"float", "quaternion"} /\ raw' = <<>> /\ track' = NotBuilt
    BY <1>1, <1>2, RawTracksAssumption DEF CreateRaw, RawIsKnown
  <2> QED BY <2>1 DEF RawIsKnown, RawKeys
<1>3. CASE DestroyRaw
  BY <1>1, <1>3 DEF DestroyRaw, RawIsKnown, RawKeys
<1>4. CASE ClearKeyframes
  BY <1>1, <1>4 DEF ClearKeyframes, RawIsKnown, RawKeys
<1>5. ASSUME NEW step \in BOOLEAN, NEW ratio \in Ratios, NEW value \in ValuesOfKind,
             PushKeyframe(step, ratio, value)
      PROVE  RawIsKnown'
  <2>1. kind' = kind /\ track' = NotBuilt /\ kind # "none"
    BY <1>1, <1>5 DEF PushKeyframe, ValuesOfKind
  <2> DEFINE K == [step : BOOLEAN, ratio : Int, value : ValuesOfKind]
             key == [step |-> step, ratio |-> ratio, value |-> value]
  <2>2. key \in K
    BY RawTracksAssumption
  <2>3. raw' = Append(raw, key) /\ raw \in Seq(K)
    BY <1>5 DEF PushKeyframe, RawIsKnown, RawKeys
  <2> HIDE DEF K, key
  <2>4. raw' \in Seq(K)
    BY <2>2, <2>3
  <2>5. raw' \in RawKeys(ValuesOfKind')
    BY <2>1, <2>4 DEF K, RawKeys, ValuesOfKind
  <2> QED BY <2>1, <2>5 DEF RawIsKnown
<1>6. CASE BuildTrack
  BY <1>6 DEF BuildTrack, RawIsKnown, ValuesOfKind
<1> QED BY <1>2, <1>3, <1>4, <1>5, <1>6 DEF Author, Authoring

LEMMA StepsKeepKnown ==
  ASSUME RawIsKnown, [TracksNext]_tracksVars
  PROVE  RawIsKnown'
<1>1. ASSUME UNCHANGED rawVars PROVE RawIsKnown'
  BY <1>1 DEF rawVars, RawIsKnown, ValuesOfKind
<1>2. ASSUME DestroyTrack PROVE RawIsKnown'
  BY <1>2 DEF DestroyTrack, RawIsKnown, ValuesOfKind
<1>3. CASE UNCHANGED vars
  <2>1. rawVars' = rawVars
    BY <1>3 DEF vars, rawVars
  <2> QED BY <1>1, <2>1, Zenon
<1>4. CASE Next
  <2>1. CASE Author
    BY <2>1, HostKeepsKnown
  <2>2. CASE Destroy
    BY <1>2, <2>2 DEF Destroy
  <2>3. ASSUME NEW p \in Places, NEW threshold \in Thresholds,
               NEW from \in Heads[p], NEW to \in Heads[p], Run(p, from, to, threshold)
        PROVE  RawIsKnown'
    BY <1>1, <2>3 DEF Run
  <2>4. ASSUME NEW p \in Places, Take(p) PROVE RawIsKnown'
    BY <1>1, <2>4 DEF Take
  <2>5. ASSUME NEW p \in Places, NEW q \in Places, Copy(p, q) PROVE RawIsKnown'
    BY <1>1, <2>5 DEF Copy
  <2>6. CASE Search
    BY <1>1, <2>6 DEF Search, Yield, NextKey, LoopOver, Exhausted
  <2> QED BY <1>4, <2>1, <2>2, <2>3, <2>4, <2>5, <2>6 DEF Next
<1> QED BY <1>3, <1>4 DEF TracksNext, tracksVars

LEMMA KnownSamplesAlike ==
  ASSUME RawIsKnown
  PROVE  BuiltSamplesAsAuthored
<1> SUFFICES ASSUME track # NotBuilt, track = BuiltOf(kind, raw),
                    kind = "quaternion" => OnePath(raw), NEW h \in -1 .. 2 * Unit + 1
             PROVE  SameSample(kind, JobSample(kind, AsVectors(track), h),
                                     RawSample(kind, AsVectors(raw), h))
  BY DEF BuiltSamplesAsAuthored
<1>1. raw \in RawKeys(ValuesOfKind) /\ Validate(raw) /\ kind \in {"float", "quaternion"}
  BY DEF RawIsKnown
<1>2. h \in Int
  BY TrackAssumption
<1>3. CASE kind = "float"
  <2>1. ValuesOfKind \subseteq Int /\ kind # "quaternion"
    BY <1>3, RawTracksAssumption DEF ValuesOfKind
  <2>2. AsVectors(track) = InVectors(Built(raw)) /\ AsVectors(raw) = InVectors(raw)
    BY <1>3, <2>1 DEF AsVectors, InVectors, BuiltOf
  <2> QED BY <1>1, <1>2, <1>3, <2>1, <2>2, BuiltFloats
<1>4. CASE kind = "quaternion"
  <2>1. ASSUME NEW v \in ValuesOfKind PROVE IsRotation(v)
    <3>1. v \in Rotations
      BY <1>4, RawTracksAssumption DEF ValuesOfKind, Rotations
    <3>2. DOMAIN v = 1 .. 4
      BY <3>1 DEF Rotations
    <3> QED BY <3>1, <3>2, RotationsNonzero DEF IsRotation
  <2>2. AsVectors(track) = Fixup(Built(raw)) /\ AsVectors(raw) = raw
    BY <1>4 DEF AsVectors, BuiltOf
  <2>3. \A v \in ValuesOfKind : IsRotation(v)
    BY <2>1
  <2>4. SameSamples(JobSample("quaternion", Fixup(Built(raw)), h), RawSample("quaternion", raw, h))
    BY <1>1, <1>2, <1>4, <2>3, BuiltRotations
  <2> QED BY <1>4, <2>2, <2>4 DEF SameSamples, SameSample
<1> QED BY <1>1, <1>3, <1>4

\* A track just built is sampled, at every ratio, as the raw track is by the offline
\* library: for any keys of floats and quaternions and any grid of ratios (TrackBuilder,
\* TrackSamplingJob::Run, SampleTrack).
THEOREM TracksSampleAsAuthored == TracksSpec => []BuiltSamplesAsAuthored
<1>1. TracksInit => RawIsKnown
  BY DEF TracksInit, Init, RawInit, RawIsKnown, RawKeys
<1>2. RawIsKnown /\ [TracksNext]_tracksVars => RawIsKnown'
  BY StepsKeepKnown
<1>3. RawIsKnown => BuiltSamplesAsAuthored
  BY KnownSamplesAlike
<1> QED BY <1>1, <1>2, <1>3, PTL DEF TracksSpec

-----------------------------------------------------------------------------
(* A built track at the keys of the raw one.                               *)

\* The job gives key i of b, or the start of the stretch from there.
JobGives(s, b, i) ==
    \/ s = Exactly(b[i].value)
    \/ \E l \in Nat \ {0} : i < Len(b) /\ s = Lerp(b[i].value, b[i + 1].value, 0, l)

LEMMA JobAtKey ==
  ASSUME NEW V, NEW b \in RawKeys(V), Spans(b), NEW type, NEW i \in 1 .. Len(b)
  PROVE  JobGives(JobSample(type, b, 2 * b[i].ratio), b, i)
<1> DEFINE m == Len(b)
           h == 2 * b[i].ratio
           job == JobSample(type, b, h)
<1>1. /\ m \in Nat /\ m >= 2 /\ b # <<>> /\ m # 1 /\ Head(b) = b[1] /\ Last(b) = b[m]
      /\ \A k \in 1 .. m : b[k].ratio \in Int /\ b[k].step \in BOOLEAN
      /\ 1 \in 1 .. m /\ m \in 1 .. m /\ h \in Int
      /\ b[1].ratio = 0 /\ b[m].ratio = Unit /\ Unit \in Nat \ {0}
  <2>1. m \in Nat /\ m >= 2 /\ \A k \in 1 .. m : b[k].ratio \in Int /\ b[k].step \in BOOLEAN
    BY KeyOf DEF Spans
  <2>2. m # 1 /\ 1 \in 1 .. m /\ m \in 1 .. m
    <3> HIDE DEF m
    <3> QED BY <2>1
  <2>3. b # <<>>
    BY <2>2
  <2>4. Head(b) = b[1] /\ Last(b) = b[m]
    BY <2>3, KeyOf
  <2> QED BY <2>1, <2>2, <2>3, <2>4, TrackAssumption DEF Spans
<1>2. \A j, k \in 1 .. m : j < k => b[j].ratio < b[k].ratio
  BY NeighboursAscend DEF Spans
<1>3. i \in 1 .. m /\ b[i].ratio \in Int
  BY <1>1
<1> HIDE DEF m
<1>4. CASE h <= 0
  <2>1. i = 1
    BY <1>1, <1>2, <1>3, <1>4
  <2>2. job = Exactly(b[1].value)
    BY <1>1, <1>4 DEF JobSample
  <2> QED BY <2>1, <2>2 DEF JobGives
<1>5. CASE h >= 2 * Unit
  <2>1. i = m
    BY <1>1, <1>2, <1>3, <1>5
  <2>2. ~(Len(b) = 1 \/ h <= 0)
    BY <1>1, <1>5 DEF m
  <2>3. job = Exactly(b[m].value)
    BY <1>1, <1>5, <2>2 DEF JobSample
  <2> QED BY <2>1, <2>3 DEF JobGives
<1>6. CASE 0 < h /\ h < 2 * Unit
  <2>1. PICK k \in 1 .. m - 1 : JobIsAt(k, type, b, h)
    BY <1>1, <1>6, JobAt DEF m
  <2>2. k \in 1 .. m /\ k + 1 \in 1 .. m /\ k < m
    BY <1>1
  <2>3. /\ 2 * b[k].ratio <= h /\ h < 2 * b[k + 1].ratio
        /\ job = IF b[k].step THEN Exactly(b[k].value)
                 ELSE Lerp(b[k].value, b[k + 1].value, h - 2 * b[k].ratio,
                           2 * (b[k + 1].ratio - b[k].ratio))
    BY <2>1 DEF JobIsAt
  <2>4. k = i
    <3>1. ~(i < k)
      BY <1>1, <1>2, <1>3, <2>2, <2>3
    <3>2. ~(k + 1 <= i)
      <4>1. b[i].ratio < b[k + 1].ratio
        BY <1>1, <1>3, <2>2, <2>3
      <4> QED BY <1>1, <1>2, <1>3, <2>2, <4>1
    <3> QED BY <1>3, <2>2, <3>1, <3>2
  <2> DEFINE l == 2 * (b[i + 1].ratio - b[i].ratio)
  <2>5. l \in Nat \ {0} /\ h - 2 * b[i].ratio = 0
    <3>1. b[i].ratio \in Int /\ b[i + 1].ratio \in Int /\ b[i].ratio < b[i + 1].ratio
      BY <1>1, <1>2, <2>2, <2>4
    <3>2. ASSUME NEW x \in Int, NEW y \in Int, x < y
          PROVE  2 * (y - x) \in Nat \ {0} /\ 2 * x - 2 * x = 0
      BY ONLY <3>2
    <3> QED BY ONLY <3>1, <3>2
  <2> HIDE DEF l, h, job
  <2>6. job = Exactly(b[i].value) \/ job = Lerp(b[i].value, b[i + 1].value, 0, l)
    BY <2>3, <2>4, <2>5 DEF l
  <2>7. JobGives(job, b, i)
    BY <2>2, <2>4, <2>5, <2>6 DEF JobGives, m
  <2> QED BY <2>7 DEF job, h
<1>7. 2 * Unit \in Int
  BY <1>1
<1> QED BY <1>1, <1>4, <1>5, <1>6, <1>7

\* A built track gives, at a key of the raw one, that key.
LEMMA BuiltAtKey ==
  ASSUME NEW V, NEW keys \in RawKeys(V), Validate(keys), Built(keys) \in RawKeys(V),
         NEW W, NEW b \in RawKeys(W), Len(b) = Len(Built(keys)),
         \A i \in 1 .. Len(b) : b[i].ratio = Built(keys)[i].ratio,
         NEW type, NEW k \in 1 .. Len(keys)
  PROVE  \E i \in 1 .. Len(b) :
            /\ Built(keys)[i].value = keys[k].value
            /\ JobGives(JobSample(type, b, 2 * keys[k].ratio), b, i)
<1> DEFINE p == Built(keys)
<1>1. CASE Len(keys) = 1
  <2>1. Len(p) = 1 /\ p[1].value = keys[1].value
    <3>1. Len(p) = 1 /\ p[1] = BeginKey(keys)
      BY <1>1, BuiltOfFew
    <3>2. BeginKey(keys).value = keys[1].value
      BY DEF BeginKey
    <3> QED BY ONLY <3>1, <3>2
  <2>2. b # <<>> /\ 1 \in 1 .. Len(b) /\ k = 1
    <3>1. Len(b) = 1 /\ k \in 1 .. 1
      BY <1>1, <2>1
    <3>2. b # <<>>
      <4>1. Len(<<>>) = 0
        OBVIOUS
      <4> QED BY ONLY <3>1, <4>1
    <3> QED BY ONLY <3>1, <3>2
  <2>3. Head(b) = b[1]
    BY <2>2, KeyOf
  <2> HIDE DEF p
  <2>4. JobSample(type, b, 2 * keys[k].ratio) = Exactly(b[1].value)
    BY <2>1, <2>2, <2>3 DEF JobSample, p
  <2> QED BY <2>1, <2>2, <2>4 DEF JobGives, p
<1>2. CASE Len(keys) >= 2
  <2>1. PICK o \in {0, 1} : Patched(p, keys, o)
    BY <1>2, BuiltIsPatched
  <2> HIDE DEF p
  <2>2. k + o \in 1 .. Len(p) /\ p[k + o] = keys[k] /\ Spans(p)
    BY <2>1 DEF Patched, Placed
  <2>3. Len(b) = Len(p) /\ \A i \in 1 .. Len(b) : b[i].ratio = p[i].ratio
    BY DEF p
  <2>4. Spans(b)
    <3>1. Len(b) \in Nat /\ Len(b) >= 2
      BY <2>2, <2>3, KeyOf DEF Spans
    <3>2. \A i \in 1 .. Len(b) - 1 : i \in 1 .. Len(b) /\ i + 1 \in 1 .. Len(b)
      BY <3>1
    <3>3. 1 \in 1 .. Len(b) /\ Len(b) \in 1 .. Len(b)
      BY <3>1
    <3> QED BY <2>2, <2>3, <3>1, <3>2, <3>3 DEF Spans
  <2>5. b[k + o].ratio = keys[k].ratio /\ k + o \in 1 .. Len(b)
    BY <2>2, <2>3
  <2>6. JobGives(JobSample(type, b, 2 * keys[k].ratio), b, k + o)
    <3>1. JobGives(JobSample(type, b, 2 * b[k + o].ratio), b, k + o)
      BY <2>4, <2>5, JobAtKey
    <3> QED BY <2>5, <3>1
  <2> QED BY <2>2, <2>5, <2>6 DEF p
<1>3. Len(keys) # 0
  BY KeyOf
<1> QED BY <1>1, <1>2, <1>3, FewOrMore

-----------------------------------------------------------------------------
(* Turning by a rotation and back.                                         *)

\* What TransformVector adds of a vector, times the square of the rotation, by parts.
Added(a1, a2, a3, a4, x1, x2, x3) ==
    LET o1 == a2 * x3 - a3 * x2 + x1 * a4
        o2 == a3 * x1 - a1 * x3 + x2 * a4
        o3 == a1 * x2 - a2 * x1 + x3 * a4
    IN  <<2 * (a2 * o3 - a3 * o2), 2 * (a3 * o1 - a1 * o3), 2 * (a1 * o2 - a2 * o1)>>

\* Turned back by a rotation, and forth by s times it.
BackIs(a1, a2, a3, a4, x1, x2, x3, t1, t2, t3) ==
    LET n == a1 * a1 + a2 * a2 + a3 * a3 + a4 * a4
    IN  <<t1, t2, t3>> = Added(-a1, -a2, -a3, a4, x1, x2, x3) =>
            Added(a1, a2, a3, a4, n * x1 + t1, n * x2 + t2, n * x3 + t3) = <<-(n * t1), -(n * t2), -(n * t3)>>

LEMMA AddedBack ==
  \A a1, a2, a3, a4, x1, x2, x3, t1, t2, t3 \in Int : BackIs(a1, a2, a3, a4, x1, x2, x3, t1, t2, t3)
BY DEF Added, BackIs

TimesIs(a1, a2, a3, a4, x1, x2, x3, n) ==
    LET t == Added(a1, a2, a3, a4, x1, x2, x3)
        s == Added(a1, a2, a3, a4, n * x1, n * x2, n * x3)
    IN  s[1] = n * t[1] /\ s[2] = n * t[2] /\ s[3] = n * t[3]

LEMMA AddedTimes ==
  \A a1, a2, a3, a4, x1, x2, x3, n \in Int : TimesIs(a1, a2, a3, a4, x1, x2, x3, n)
BY DEF Added, TimesIs

SquaresAre(a1, a2, a3, a4, x1, x2, x3, k) ==
    LET t == Added(a1, a2, a3, a4, x1, x2, x3)
        s == Added(k * a1, k * a2, k * a3, k * a4, x1, x2, x3)
    IN  s[1] = (k * k) * t[1] /\ s[2] = (k * k) * t[2] /\ s[3] = (k * k) * t[3]

LEMMA AddedSquares ==
  \A a1, a2, a3, a4, x1, x2, x3, k \in Int : SquaresAre(a1, a2, a3, a4, x1, x2, x3, k)
BY DEF Added, SquaresAre

LEMMA SquareTimes ==
  ASSUME NEW a1 \in Int, NEW a2 \in Int, NEW a3 \in Int, NEW a4 \in Int, NEW k \in Int
  PROVE  (k * a1) * (k * a1) + (k * a2) * (k * a2) + (k * a3) * (k * a3) + (k * a4) * (k * a4)
           = (k * k) * (a1 * a1 + a2 * a2 + a3 * a3 + a4 * a4)
OBVIOUS

\* One that goes along another is, times the square of that, the other times their product.
LEMMA SameIsAlong ==
  ASSUME NEW s, NEW q, IsQuad(s), IsQuad(q), SameRotation(s, q)
  PROVE  LET n == Dot(q, q)
             d == Dot(s, q)
         IN  /\ n * s[1] = d * q[1] /\ n * s[2] = d * q[2] /\ n * s[3] = d * q[3] /\ n * s[4] = d * q[4]
             /\ n \in Int /\ n > 0 /\ d \in Int /\ d # 0
<1>1. /\ s[1] \in Int /\ s[2] \in Int /\ s[3] \in Int /\ s[4] \in Int
      /\ q[1] \in Int /\ q[2] \in Int /\ q[3] \in Int /\ q[4] \in Int
  BY DEF IsQuad
<1>2. Dot(s, q) # 0 /\ \A c, d \in 1 .. 4 : s[c] * q[d] = s[d] * q[c]
  BY DEF SameRotation
<1>3. ASSUME NEW c \in 1 .. 4 PROVE Dot(q, q) * s[c] = Dot(s, q) * q[c]
  <2>1. /\ s[c] * q[1] = s[1] * q[c] /\ s[c] * q[2] = s[2] * q[c]
        /\ s[c] * q[3] = s[3] * q[c] /\ s[c] * q[4] = s[4] * q[c]
    BY <1>2
  <2>2. s[c] \in Int /\ q[c] \in Int
    BY <1>1
  <2> DEFINE x == s[c]
             y == q[c]
  <2>3. ASSUME NEW u \in Int, NEW v \in Int, x * u = v * y PROVE (u * u) * x = (v * u) * y
    <3>1. (u * u) * x = (x * u) * u /\ (v * u) * y = (v * y) * u
      BY <2>2
    <3> QED BY <2>3, <3>1
  <2>4. /\ (q[1] * q[1]) * x = (s[1] * q[1]) * y /\ (q[2] * q[2]) * x = (s[2] * q[2]) * y
        /\ (q[3] * q[3]) * x = (s[3] * q[3]) * y /\ (q[4] * q[4]) * x = (s[4] * q[4]) * y
    BY <1>1, <2>1, <2>3
  <2>5. ASSUME NEW u1 \in Int, NEW u2 \in Int, NEW u3 \in Int, NEW u4 \in Int, NEW k \in Int
        PROVE  (u1 + u2 + u3 + u4) * k = u1 * k + u2 * k + u3 * k + u4 * k
    OBVIOUS
  <2>6. /\ q[1] * q[1] \in Int /\ q[2] * q[2] \in Int /\ q[3] * q[3] \in Int /\ q[4] * q[4] \in Int
        /\ s[1] * q[1] \in Int /\ s[2] * q[2] \in Int /\ s[3] * q[3] \in Int /\ s[4] * q[4] \in Int
    BY <1>1
  <2> DEFINE P(i) == q[i] * q[i]
             R(i) == s[i] * q[i]
  <2>7. /\ P(1) \in Int /\ P(2) \in Int /\ P(3) \in Int /\ P(4) \in Int
        /\ R(1) \in Int /\ R(2) \in Int /\ R(3) \in Int /\ R(4) \in Int
        /\ P(1) * x = R(1) * y /\ P(2) * x = R(2) * y /\ P(3) * x = R(3) * y /\ P(4) * x = R(4) * y
        /\ x \in Int /\ y \in Int
        /\ Dot(q, q) = P(1) + P(2) + P(3) + P(4) /\ Dot(s, q) = R(1) + R(2) + R(3) + R(4)
    BY ONLY <2>2, <2>4, <2>6 DEF Dot
  <2> HIDE DEF P, R, x, y
  <2>8. Dot(q, q) * x = Dot(s, q) * y
    <3>1. /\ (P(1) + P(2) + P(3) + P(4)) * x = P(1) * x + P(2) * x + P(3) * x + P(4) * x
          /\ (R(1) + R(2) + R(3) + R(4)) * y = R(1) * y + R(2) * y + R(3) * y + R(4) * y
      BY ONLY <2>7
    <3> QED BY ONLY <2>7, <3>1, Zenon
  <2> QED BY <2>8 DEF x, y
<1>4. Dot(q, q) > 0
  <2>1. ~(q[1] = 0 /\ q[2] = 0 /\ q[3] = 0 /\ q[4] = 0)
    <3> SUFFICES ASSUME q[1] = 0 /\ q[2] = 0 /\ q[3] = 0 /\ q[4] = 0 PROVE FALSE
      OBVIOUS
    <3>1. Dot(s, q) = s[1] * 0 + s[2] * 0 + s[3] * 0 + s[4] * 0
      BY ONLY q[1] = 0 /\ q[2] = 0 /\ q[3] = 0 /\ q[4] = 0 DEF Dot
    <3>2. Dot(s, q) = 0
      BY ONLY <1>1, <3>1
    <3> QED BY <1>2, <3>2
  <2>2. ASSUME NEW x \in Int PROVE x * x >= 0 /\ (x # 0 => x * x > 0)
    OBVIOUS
  <2> QED BY <1>1, <2>1, <2>2 DEF Dot
<1> QED BY <1>2, <1>3, <1>4, DotInt

IsVector(v) == v[1] \in Int /\ v[2] \in Int /\ v[3] \in Int

AddedTo(q, v) == Added(q[1], q[2], q[3], q[4], v[1], v[2], v[3])

LEMMA AddedToIs ==
  ASSUME NEW q, NEW v, IsQuad(q), IsVector(v)
  PROVE  /\ AddedTo(q, v)[1] \in Int /\ AddedTo(q, v)[2] \in Int /\ AddedTo(q, v)[3] \in Int
         /\ TransformVector(q, v) = [c \in 1 .. 3 |-> v[c] + AddedTo(q, v)[c] \div Dot(q, q)]
         /\ TurnsWhole(q, v) => \A c \in 1 .. 3 : AddedTo(q, v)[c] % Dot(q, q) = 0
<1> DEFINE once == [c \in 1 .. 3 |-> Cross(q, v)[c] + v[c] * q[4]]
           twice == Cross(q, once)
           o1 == q[2] * v[3] - q[3] * v[2] + v[1] * q[4]
           o2 == q[3] * v[1] - q[1] * v[3] + v[2] * q[4]
           o3 == q[1] * v[2] - q[2] * v[1] + v[3] * q[4]
<1>1. once[1] = o1 /\ once[2] = o2 /\ once[3] = o3
  BY DEF Cross
<1>2. AddedTo(q, v) = <<2 * (q[2] * o3 - q[3] * o2), 2 * (q[3] * o1 - q[1] * o3), 2 * (q[1] * o2 - q[2] * o1)>>
  BY DEF AddedTo, Added
<1>3. o1 \in Int /\ o2 \in Int /\ o3 \in Int
  BY DEF IsQuad, IsVector
<1> HIDE DEF o1, o2, o3, once
<1>4. ASSUME NEW c \in 1 .. 3 PROVE 2 * twice[c] = AddedTo(q, v)[c]
  <2>1. twice = <<q[2] * o3 - q[3] * o2, q[3] * o1 - q[1] * o3, q[1] * o2 - q[2] * o1>>
    BY <1>1 DEF Cross
  <2>2. c = 1 \/ c = 2 \/ c = 3
    OBVIOUS
  <2> QED BY <1>2, <2>1, <2>2
<1>5. AddedTo(q, v)[1] \in Int /\ AddedTo(q, v)[2] \in Int /\ AddedTo(q, v)[3] \in Int
  BY <1>2, <1>3 DEF IsQuad
<1>6. TransformVector(q, v) = [c \in 1 .. 3 |-> v[c] + (2 * twice[c]) \div Dot(q, q)]
  BY DEF TransformVector, once
<1>7. TransformVector(q, v) = [c \in 1 .. 3 |-> v[c] + AddedTo(q, v)[c] \div Dot(q, q)]
  <2> HIDE DEF twice
  <2> QED BY <1>4, <1>6
<1>8. TurnsWhole(q, v) => \A c \in 1 .. 3 : AddedTo(q, v)[c] % Dot(q, q) = 0
  <2>1. TurnsWhole(q, v) => \A c \in 1 .. 3 : (2 * twice[c]) % Dot(q, q) = 0
    BY DEF TurnsWhole, once
  <2> HIDE DEF twice
  <2> QED BY <1>4, <2>1
<1> QED BY <1>5, <1>7, <1>8

\* A vector turned back, as a whole, by a rotation and forth by the same is what it was.
LEMMA TurnedBack ==
  ASSUME NEW q, NEW s, IsQuad(q), IsQuad(s), SameRotation(s, q), NEW v, IsVector(v),
         TurnsWhole(Conjugate(q), v)
  PROVE  TransformVector(s, TransformVector(Conjugate(q), v)) = [c \in 1 .. 3 |-> v[c]]
<1> DEFINE r == Conjugate(q)
           t == AddedTo(r, v)
           w == TransformVector(r, v)
           u == AddedTo(q, w)
           z == AddedTo(s, w)
           n == Dot(q, q)
           e == Dot(s, s)
           d == Dot(s, q)
<1>1. /\ n * s[1] = d * q[1] /\ n * s[2] = d * q[2] /\ n * s[3] = d * q[3] /\ n * s[4] = d * q[4]
      /\ n \in Int /\ n > 0 /\ d \in Int /\ d # 0
  BY SameIsAlong
<1>2. IsQuad(r) /\ Dot(r, r) = n /\ r = <<-q[1], -q[2], -q[3], q[4]>>
  BY ConjugateQuad DEF Conjugate
<1>3. /\ t[1] \in Int /\ t[2] \in Int /\ t[3] \in Int
      /\ w = [c \in 1 .. 3 |-> v[c] + t[c] \div n]
      /\ \A c \in 1 .. 3 : t[c] % n = 0
  BY <1>2, AddedToIs
<1>4. t = Added(-q[1], -q[2], -q[3], q[4], v[1], v[2], v[3])
  BY <1>2 DEF AddedTo
<1>5. /\ q[1] \in Int /\ q[2] \in Int /\ q[3] \in Int /\ q[4] \in Int
      /\ s[1] \in Int /\ s[2] \in Int /\ s[3] \in Int /\ s[4] \in Int
      /\ v[1] \in Int /\ v[2] \in Int /\ v[3] \in Int
  BY DEF IsQuad, IsVector
<1>6. n = q[1] * q[1] + q[2] * q[2] + q[3] * q[3] + q[4] * q[4]
  BY DEF Dot
<1>7. e \in Int /\ e = s[1] * s[1] + s[2] * s[2] + s[3] * s[3] + s[4] * s[4]
  BY DotInt DEF Dot
<1> HIDE DEF r, t, w, n, e, d
<1>8. ASSUME NEW c \in 1 .. 3
      PROVE  w[c] \in Int /\ n * w[c] = n * v[c] + t[c] /\ t[c] = n * (w[c] - v[c])
  <2>1. w[c] = v[c] + t[c] \div n /\ t[c] % n = 0 /\ t[c] \in Int /\ v[c] \in Int
    BY <1>3, <1>5
  <2>2. ASSUME NEW x \in Int, NEW y \in Int, y % n = 0
        PROVE  /\ x + y \div n \in Int /\ n * (x + y \div n) = n * x + y
               /\ y = n * ((x + y \div n) - x)
    <3>1. y = n * (y \div n) + (y % n) /\ y \div n \in Int
      BY <1>1
    <3> QED BY <1>1, <2>2, <3>1
  <2> QED BY ONLY <2>1, <2>2
<1>9. IsVector(w)
  BY <1>8 DEF IsVector
<1>10. /\ u[1] \in Int /\ u[2] \in Int /\ u[3] \in Int
       /\ z[1] \in Int /\ z[2] \in Int /\ z[3] \in Int
       /\ TransformVector(s, w) = [c \in 1 .. 3 |-> w[c] + z[c] \div e]
  BY <1>9, AddedToIs DEF e
<1>11. n * u[1] = -(n * t[1]) /\ n * u[2] = -(n * t[2]) /\ n * u[3] = -(n * t[3])
  <2> DEFINE m == Added(q[1], q[2], q[3], q[4], n * w[1], n * w[2], n * w[3])
  <2> DEFINE l == Added(q[1], q[2], q[3], q[4], w[1], w[2], w[3])
  <2>1. m[1] = n * u[1] /\ m[2] = n * u[2] /\ m[3] = n * u[3]
    <3>1. u = l
      BY DEF AddedTo
    <3>2. w[1] \in Int /\ w[2] \in Int /\ w[3] \in Int /\ n \in Int
      BY <1>1, <1>9 DEF IsVector
    <3>3. m[1] = n * l[1] /\ m[2] = n * l[2] /\ m[3] = n * l[3]
      <4>1. TimesIs(q[1], q[2], q[3], q[4], w[1], w[2], w[3], n)
        BY ONLY <1>5, <3>2, AddedTimes
      <4> QED BY ONLY <4>1 DEF TimesIs
    <3> HIDE DEF u, l, m
    <3> QED BY ONLY <3>1, <3>3
  <2>2. t = <<t[1], t[2], t[3]>>
    BY <1>4 DEF Added
  <2>3. m = Added(q[1], q[2], q[3], q[4], n * v[1] + t[1], n * v[2] + t[2], n * v[3] + t[3])
    BY <1>8
  <2>4. m = <<-(n * t[1]), -(n * t[2]), -(n * t[3])>>
    <3>1. <<t[1], t[2], t[3]>> = Added(-q[1], -q[2], -q[3], q[4], v[1], v[2], v[3])
      BY ONLY <1>4, <2>2
    <3>2. Added(q[1], q[2], q[3], q[4], n * v[1] + t[1], n * v[2] + t[2], n * v[3] + t[3])
            = <<-(n * t[1]), -(n * t[2]), -(n * t[3])>>
      <4>1. BackIs(q[1], q[2], q[3], q[4], v[1], v[2], v[3], t[1], t[2], t[3])
        BY ONLY <1>3, <1>5, AddedBack
      <4> QED BY ONLY <1>6, <3>1, <4>1 DEF BackIs
    <3> QED BY ONLY <2>3, <3>2
  <2> HIDE DEF m
  <2> QED BY <2>1, <2>4
<1>12. n * e = d * d
  <2>1. (n * n) * e = (d * d) * n
    <3>1. (n * s[1]) * (n * s[1]) + (n * s[2]) * (n * s[2]) + (n * s[3]) * (n * s[3]) + (n * s[4]) * (n * s[4])
            = (n * n) * e
      BY <1>1, <1>5, <1>7, SquareTimes
    <3>2. (d * q[1]) * (d * q[1]) + (d * q[2]) * (d * q[2]) + (d * q[3]) * (d * q[3]) + (d * q[4]) * (d * q[4])
            = (d * d) * n
      BY <1>1, <1>5, <1>6, SquareTimes
    <3> QED BY <1>1, <3>1, <3>2
  <2>2. ASSUME NEW x \in Int, NEW y \in Int, (n * n) * x = y * n PROVE n * x = y
    <3>1. n * (n * x) = n * y
      BY <1>1, <2>2
    <3>2. ASSUME NEW k \in Int, n * k = 0 PROVE k = 0
      BY <1>1, <3>2
    <3>3. n * (n * x - y) = 0 /\ n * x - y \in Int
      BY <1>1, <3>1
    <3>4. n * x - y = 0
      BY ONLY <3>2, <3>3
    <3> QED BY <1>1, <3>4
  <2>3. d * d \in Int
    BY <1>1
  <2> QED BY ONLY <1>7, <2>1, <2>2, <2>3
<1>13. e > 0
  <2>1. d * d > 0
    BY <1>1
  <2> QED BY <1>1, <1>7, <1>12, <2>1
<1>14. ASSUME NEW c \in 1 .. 3 PROVE z[c] = e * (v[c] - w[c])
  <2>1. (n * n) * z[c] = (d * d) * u[c]
    <3> DEFINE m == Added(n * s[1], n * s[2], n * s[3], n * s[4], w[1], w[2], w[3])
               k == Added(d * q[1], d * q[2], d * q[3], d * q[4], w[1], w[2], w[3])
    <3>1. m = k
      BY <1>1
    <3> DEFINE f == Added(s[1], s[2], s[3], s[4], w[1], w[2], w[3])
               l == Added(q[1], q[2], q[3], q[4], w[1], w[2], w[3])
    <3>5. u = l /\ z = f
      BY DEF AddedTo
    <3>6. w[1] \in Int /\ w[2] \in Int /\ w[3] \in Int /\ n \in Int /\ d \in Int
      BY <1>1, <1>9 DEF IsVector
    <3>7. m[1] = (n * n) * f[1] /\ m[2] = (n * n) * f[2] /\ m[3] = (n * n) * f[3]
      <4>1. SquaresAre(s[1], s[2], s[3], s[4], w[1], w[2], w[3], n)
        BY ONLY <1>5, <3>6, AddedSquares
      <4> QED BY ONLY <4>1 DEF SquaresAre
    <3>8. k[1] = (d * d) * l[1] /\ k[2] = (d * d) * l[2] /\ k[3] = (d * d) * l[3]
      <4>1. SquaresAre(q[1], q[2], q[3], q[4], w[1], w[2], w[3], d)
        BY ONLY <1>5, <3>6, AddedSquares
      <4> QED BY ONLY <4>1 DEF SquaresAre
    <3> HIDE DEF u, z, l, f, m, k
    <3>2. m[1] = (n * n) * z[1] /\ m[2] = (n * n) * z[2] /\ m[3] = (n * n) * z[3]
      BY ONLY <3>5, <3>7
    <3>3. k[1] = (d * d) * u[1] /\ k[2] = (d * d) * u[2] /\ k[3] = (d * d) * u[3]
      BY ONLY <3>5, <3>8
    <3> HIDE DEF m, k
    <3>4. c = 1 \/ c = 2 \/ c = 3
      OBVIOUS
    <3> QED BY ONLY <3>1, <3>2, <3>3, <3>4, Zenon
  <2>2. n * u[c] = -(n * t[c]) /\ u[c] \in Int /\ t[c] \in Int /\ z[c] \in Int
    BY <1>3, <1>10, <1>11
  <2>3. t[c] = n * (w[c] - v[c]) /\ w[c] \in Int /\ v[c] \in Int
    BY <1>5, <1>8
  <2> DEFINE x == v[c] - w[c]
             Z == z[c]
             U == u[c]
             T == t[c]
  <2>4. x \in Int /\ Z \in Int /\ U \in Int /\ T \in Int /\ T = -(n * x)
    BY ONLY <1>1, <2>2, <2>3
  <2>5. n * U = -(n * T) /\ (n * n) * Z = (d * d) * U
    BY <2>1, <2>2
  <2> HIDE DEF x, Z, U, T
  <2>6. ASSUME NEW k \in Int, n * k = 0 PROVE k = 0
    BY <1>1, <2>6
  <2>7. U = n * x
    <3>1. n * (U + T) = 0 /\ U + T \in Int
      BY ONLY <1>1, <2>4, <2>5
    <3>2. U + T = 0
      BY ONLY <2>6, <3>1
    <3> QED BY ONLY <1>1, <2>4, <3>2
  <2>8. n * (n * (Z - e * x)) = 0
    <3>1. (d * d) * U = (n * e) * (n * x)
      BY ONLY <1>12, <2>7
    <3>2. (n * e) * (n * x) = (n * n) * (e * x)
      BY ONLY <1>1, <1>7, <2>4
    <3>3. e * x \in Int
      BY ONLY <1>7, <2>4
    <3>4. ASSUME NEW g \in Int PROVE n * (n * (Z - g)) = (n * n) * Z - (n * n) * g
      BY ONLY <1>1, <2>4
    <3>5. (n * n) * Z = (n * n) * (e * x)
      BY ONLY <2>5, <3>1, <3>2
    <3>6. (n * n) * Z \in Int
      BY ONLY <1>1, <2>4
    <3>7. n * (n * (Z - e * x)) = (n * n) * Z - (n * n) * (e * x)
      BY ONLY <3>3, <3>4
    <3> QED BY ONLY <3>5, <3>6, <3>7
  <2>9. Z - e * x = 0
    <3>1. Z - e * x \in Int
      BY ONLY <1>7, <2>4
    <3>2. ASSUME NEW g \in Int PROVE n * g \in Int
      BY <1>1
    <3> QED BY ONLY <2>6, <2>8, <3>1, <3>2, Zenon
  <2>10. Z = e * x
    BY ONLY <1>7, <2>4, <2>9
  <2> QED BY <2>10 DEF Z, x
<1>15. ASSUME NEW c \in 1 .. 3 PROVE w[c] + z[c] \div e = v[c]
  <2>1. w[c] \in Int /\ v[c] \in Int
    BY <1>5, <1>8
  <2>2. ASSUME NEW x \in Int, NEW y \in Int PROVE y + (e * (x - y)) \div e = x
    <3>1. ASSUME NEW g \in Int PROVE (e * g) \div e = g
      BY <1>7, <1>13
    <3> QED BY <3>1
  <2> QED BY ONLY <1>14, <2>1, <2>2
<1> QED BY <1>10, <1>15 DEF w, r

-----------------------------------------------------------------------------
(* Extracted motion.                                                       *)

Numbers3 == [1 .. 3 -> Int]

LEMMA VectorsAre ==
  ASSUME NEW v
  PROVE  /\ v \in Vectors => IsVector(v) /\ v = [c \in 1 .. 3 |-> v[c]]
         /\ v \in Numbers3 => IsVector(v) /\ v = [c \in 1 .. 3 |-> v[c]]
BY DEF Vectors, Numbers3, IsVector

\* What is moved away from and back to.
LEMMA MovedBack ==
  ASSUME NEW v, NEW w, IsVector(v), IsVector(w)
  PROVE  /\ Plus(w, Minus(v, w)) = [c \in 1 .. 3 |-> v[c]]
         /\ Minus(v, w) \in Numbers3
<1>1. ASSUME NEW c \in 1 .. 3 PROVE v[c] \in Int /\ w[c] \in Int
  BY DEF IsVector
<1>2. Minus(v, w) = [c \in 1 .. 3 |-> v[c] - w[c]]
  BY DEF Minus
<1>3. Plus(w, Minus(v, w)) = [c \in 1 .. 3 |-> w[c] + (v[c] - w[c])]
  BY DEF Plus, Minus
<1>4. ASSUME NEW c \in 1 .. 3 PROVE w[c] + (v[c] - w[c]) = v[c] /\ v[c] - w[c] \in Int
  BY <1>1
<1> QED BY <1>2, <1>3, <1>4 DEF Numbers3

\* Keys of animations.
LEMMA CurveKeys ==
  ASSUME NEW V, NEW keys \in KeysOf(V)
  PROVE  /\ Len(keys) \in Nat /\ DOMAIN keys = 1 .. Len(keys)
         /\ \A k \in 1 .. Len(keys) : /\ keys[k] \in [time : Int, value : V]
                                      /\ keys[k].time \in Int /\ keys[k].value \in V
<1> DEFINE K == [time : Int, value : V]
<1>1. keys \in Seq(K)
  BY DEF KeysOf
<1>2. \A x \in K : x.time \in Int /\ x.value \in V
  OBVIOUS
<1> HIDE DEF K
<1>3. /\ Len(keys) \in Nat /\ DOMAIN keys = 1 .. Len(keys)
      /\ \A k \in 1 .. Len(keys) : keys[k] \in K
  BY <1>1
<1> QED BY <1>2, <1>3 DEF K

LEMMA WholeRatio ==
  ASSUME NEW t \in Int, NEW d \in Int, d > 0
  PROVE  (t * Unit) \div d \in Int
<1>1. t * Unit \in Int
  BY TrackAssumption
<1>2. ASSUME NEW x \in Int PROVE x \div d \in Int
  OBVIOUS
<1> QED BY <1>1, <1>2

\* Keys of motion are those of the animation.
LEMMA MotionKeys ==
  ASSUME NEW V, NEW keys \in KeysOf(V), NEW d \in Int, d > 0, NEW W, NEW values,
         \A k \in 1 .. Len(keys) : values[k] \in W
  PROVE  /\ AsMotion(keys, d, values) \in RawKeys(W)
         /\ Len(AsMotion(keys, d, values)) = Len(keys)
         /\ \A k \in 1 .. Len(keys) : AsMotion(keys, d, values)[k].value = values[k]
<1> DEFINE n == Len(keys)
           f == AsMotion(keys, d, values)
           ratio(k) == (keys[k].time * Unit) \div d
<1>1. n \in Nat /\ DOMAIN keys = 1 .. n /\ \A k \in 1 .. n : keys[k].time \in Int
  BY CurveKeys
<1>2. f = [k \in 1 .. n |-> [step |-> FALSE, ratio |-> ratio(k), value |-> values[k]]]
  BY <1>1 DEF AsMotion
<1>3. \A k \in 1 .. n : ratio(k) \in Int
  BY <1>1, WholeRatio
<1> HIDE DEF f, n, ratio
<1>4. /\ f = [k \in 1 .. n |-> f[k]]
      /\ \A k \in 1 .. n : f[k] = [step |-> FALSE, ratio |-> ratio(k), value |-> values[k]]
  BY <1>2
<1>5. \A k \in 1 .. n : values[k] \in W
  BY DEF n
<1>6. ASSUME NEW k \in 1 .. n PROVE f[k] \in [step : BOOLEAN, ratio : Int, value : W]
  <2> DEFINE x == values[k]
             y == ratio(k)
  <2>1. f[k] = [step |-> FALSE, ratio |-> y, value |-> x] /\ y \in Int /\ x \in W
    BY <1>3, <1>4, <1>5
  <2> HIDE DEF x, y
  <2> QED BY ONLY <2>1
<1>7. f \in RawKeys(W) /\ Len(f) = n
  BY <1>1, <1>4, <1>6, KeysFrom
<1>8. \A k \in 1 .. n : f[k].value = values[k]
  BY <1>4
<1> QED BY <1>7, <1>8 DEF f, n

\* The same keys with other values.
Revalued(f, keys, values) ==
    /\ f = [k \in 1 .. Len(keys) |-> f[k]]
    /\ \A k \in 1 .. Len(keys) : f[k] = [keys[k] EXCEPT !.value = values[k]]
LEMMA KeysRevalued ==
  ASSUME NEW V, NEW keys \in RawKeys(V), NEW W, NEW values, \A k \in 1 .. Len(keys) : values[k] \in W,
         NEW f, Revalued(f, keys, values)
  PROVE  /\ f \in RawKeys(W) /\ Len(f) = Len(keys)
         /\ \A k \in 1 .. Len(keys) : f[k].value = values[k]
<1> DEFINE n == Len(keys)
<1>1. /\ n \in Nat /\ DOMAIN keys = 1 .. n
      /\ \A k \in 1 .. n : /\ keys[k] = [step |-> keys[k].step, ratio |-> keys[k].ratio,
                                           value |-> keys[k].value]
                             /\ keys[k].step \in BOOLEAN /\ keys[k].ratio \in Int
  BY KeyOf
<1>2. \A k \in 1 .. n : values[k] \in W
  OBVIOUS
<1>3. /\ f = [k \in 1 .. n |-> f[k]]
      /\ \A k \in 1 .. n : f[k] = [keys[k] EXCEPT !.value = values[k]]
  BY DEF Revalued
<1> HIDE DEF n
<1>4. \A k \in 1 .. n : f[k] = [step |-> keys[k].step, ratio |-> keys[k].ratio, value |-> values[k]]
  BY <1>1, <1>3
<1>5. ASSUME NEW k \in 1 .. n
      PROVE  f[k] \in [step : BOOLEAN, ratio : Int, value : W] /\ f[k].value = values[k]
  <2> DEFINE s == keys[k].step
             r == keys[k].ratio
             v == values[k]
  <2>1. f[k] = [step |-> s, ratio |-> r, value |-> v] /\ s \in BOOLEAN /\ r \in Int /\ v \in W
    BY <1>1, <1>2, <1>4
  <2> HIDE DEF s, r, v
  <2>2. f[k] \in [step : BOOLEAN, ratio : Int, value : W] /\ f[k].value = v
    BY ONLY <2>1
  <2> QED BY ONLY <2>2 DEF v
<1>6. f \in RawKeys(W) /\ Len(f) = n
  BY <1>1, <1>3, <1>5, KeysFrom
<1> QED BY <1>5, <1>6 DEF n

\* The reference is a pose of a joint.
LEMMA ReferenceIs ==
  ASSUME NEW settings \in PositionSettings \cup RotationSettings,
         NEW rest \in JointPose, NEW curves \in Curves
  PROVE  Reference(settings, rest, curves) \in JointPose
<1>1. settings.reference \in {"absolute", "skeleton", "animation"}
  BY ToolsAssumption
<1>2. NoPose \in JointPose
  <2>1. <<0, 0, 0, 1>> # <<0, 0, 0, 0>>
    <3>1. <<0, 0, 0, 1>>[4] = 1 /\ <<0, 0, 0, 0>>[4] = 0
      OBVIOUS
    <3> QED BY <3>1
  <2> QED BY <2>1 DEF NoPose, JointPose, Vectors, Rotations, Identity
<1>3. FirstFrame(curves) \in JointPose
  BY FirstFrameIsPose
<1> QED BY <1>1, <1>2, <1>3 DEF Reference

\* A track built of keys is one of such keys.
LEMMA BuiltKeys ==
  ASSUME NEW V, NEW keys \in RawKeys(V), Validate(keys), NEW k \in 1 .. Len(keys)
  PROVE  Built(keys) \in RawKeys(V)
<1>1. Len(keys) # 0
  BY KeyOf
<1> QED BY <1>1, FewOrMore, BuiltOfFew, BuiltIsPatched

\* The built track of positions gives, at a key, that key.
LEMMA MovesAtKey ==
  ASSUME NEW keys \in RawKeys(Numbers3), Validate(keys), NEW k \in 1 .. Len(keys)
  PROVE  LET s == JobSample("float", Built(keys), 2 * keys[k].ratio)
         IN  [c \in 1 .. 3 |-> s.top[c] \div s.over] = keys[k].value
<1> DEFINE s == JobSample("float", Built(keys), 2 * keys[k].ratio)
           b == Built(keys)
<1>1. b \in RawKeys(Numbers3)
  BY BuiltKeys
<1>2. PICK i \in 1 .. Len(b) : b[i].value = keys[k].value /\ JobGives(s, b, i)
  BY <1>1, BuiltAtKey
<1>3. Len(b) \in Nat /\ \A j \in 1 .. Len(b) : b[j].value \in Numbers3
  BY <1>1, KeyOf
<1> DEFINE v == keys[k].value
<1>4. v \in Numbers3
  BY KeyOf
<1> HIDE DEF s, b, v
<1>5. v = [c \in 1 .. 3 |-> v[c]] /\ DOMAIN v = 1 .. 3 /\ \A c \in 1 .. 3 : v[c] \in Int
  BY <1>4 DEF Numbers3
<1>6. b[i].value = v
  BY <1>2 DEF v
<1>7. ASSUME NEW l \in Nat \ {0}, i < Len(b), s = Lerp(v, b[i + 1].value, 0, l)
      PROVE  \A c \in 1 .. 3 : s.top[c] \div s.over = v[c]
  <2> DEFINE w == b[i + 1].value
  <2>1. i + 1 \in 1 .. Len(b)
    BY <1>3, <1>7
  <2>2. \A c \in 1 .. 3 : w[c] \in Int
    BY <1>3, <2>1 DEF Numbers3
  <2> HIDE DEF w
  <2>3. s.over = l /\ \A c \in 1 .. 3 : s.top[c] = v[c] * (l - 0) + w[c] * 0
    BY <1>5, <1>7 DEF Lerp, w
  <2>4. ASSUME NEW x \in Int, NEW y \in Int PROVE (x * (l - 0) + y * 0) \div l = x
    <3>1. x * (l - 0) + y * 0 = l * x
      OBVIOUS
    <3>2. (l * x) \div l = x
      OBVIOUS
    <3> QED BY <3>1, <3>2
  <2>5. ASSUME NEW c \in 1 .. 3 PROVE s.top[c] \div s.over = v[c]
    <3>1. v[c] \in Int /\ w[c] \in Int /\ s.top[c] = v[c] * (l - 0) + w[c] * 0
      BY <1>5, <2>2, <2>3
    <3>2. (v[c] * (l - 0) + w[c] * 0) \div l = v[c]
      BY ONLY <2>4, <3>1
    <3> QED BY ONLY <2>3, <3>1, <3>2
  <2> QED BY ONLY <2>5
<1>8. \A c \in 1 .. 3 : s.top[c] \div s.over = v[c]
  <2>1. CASE s = Exactly(v)
    <3>1. s.over = 1 /\ \A c \in 1 .. 3 : s.top[c] = v[c]
      BY <2>1 DEF Exactly
    <3>2. ASSUME NEW x \in Int PROVE x \div 1 = x
      OBVIOUS
    <3>3. ASSUME NEW c \in 1 .. 3 PROVE s.top[c] \div s.over = v[c]
      <4>1. v[c] \in Int /\ s.top[c] = v[c]
        BY <1>5, <3>1
      <4>2. v[c] \div 1 = v[c]
        BY <3>2, <4>1
      <4> QED BY ONLY <3>1, <4>1, <4>2
    <3> QED BY ONLY <3>3
  <2>2. s = Exactly(v) \/ \E l \in Nat \ {0} : i < Len(b) /\ s = Lerp(v, b[i + 1].value, 0, l)
    BY <1>2, <1>6 DEF JobGives
  <2>3. CASE \E l \in Nat \ {0} : i < Len(b) /\ s = Lerp(v, b[i + 1].value, 0, l)
    <3>1. PICK l \in Nat \ {0} : i < Len(b) /\ s = Lerp(v, b[i + 1].value, 0, l)
      BY <2>3
    <3> QED BY ONLY <1>7, <3>1, Zenon
  <2> QED BY ONLY <2>1, <2>2, <2>3
<1> QED BY <1>5, <1>8 DEF s, v

\* The built track of rotations gives, at a key, that key.
LEMMA TurnsAtKey ==
  ASSUME NEW V, \A v \in V : IsRotation(v), NEW keys \in RawKeys(V), Validate(keys),
         NEW k \in 1 .. Len(keys)
  PROVE  Along(JobSample("quaternion", BuiltOf("quaternion", keys), 2 * keys[k].ratio).top, keys[k].value)
<1> DEFINE p == Built(keys)
           b == Fixup(p)
           s == JobSample("quaternion", b, 2 * keys[k].ratio)
<1>1. p \in RawKeys(V)
  BY BuiltKeys
<1>2. PICK W : /\ b \in RawKeys(W) /\ Len(b) = Len(p) /\ \A v \in W : IsRotation(v)
               /\ \A i \in 1 .. Len(p) : b[i].ratio = p[i].ratio /\ Like("quaternion", b[i].value, p[i].value)
  BY <1>1, FixedKeysAre
<1>3. PICK i \in 1 .. Len(b) : p[i].value = keys[k].value /\ JobGives(s, b, i)
  BY <1>1, <1>2, BuiltAtKey
<1>4. BuiltOf("quaternion", keys) = b
  BY DEF BuiltOf
<1> HIDE DEF p, b
<1>5. /\ Len(b) \in Nat /\ \A j \in 1 .. Len(b) : IsRotation(b[j].value)
      /\ IsRotation(keys[k].value)
  BY <1>2, KeyOf
<1> HIDE DEF s
<1>6. Along(s.top, b[i].value)
  <2>1. CASE s = Exactly(b[i].value)
    BY <1>5, <2>1, AlongItself DEF Exactly, IsRotation
  <2>2. CASE \E l \in Nat \ {0} : i < Len(b) /\ s = Lerp(b[i].value, b[i + 1].value, 0, l)
    <3>1. PICK l \in Nat \ {0} : i < Len(b) /\ s = Lerp(b[i].value, b[i + 1].value, 0, l)
      BY <2>2
    <3>2. i + 1 \in 1 .. Len(b)
      BY <1>5, <3>1
    <3> QED BY <1>5, <3>1, <3>2, StartAlong
  <2> QED BY <1>3, <2>1, <2>2 DEF JobGives
<1>7. Like("quaternion", b[i].value, keys[k].value)
  BY <1>2, <1>3
<1>8. Along(s.top, keys[k].value)
  BY <1>5, <1>6, <1>7, AlongLike
<1> QED BY <1>4, <1>8 DEF s

\* Times is linear.
TimesLinear(s1, s2, s3, s4, m1, m2, m3, m4, x1, x2, x3, x4, c) ==
    s1 = c * m1 /\ s2 = c * m2 /\ s3 = c * m3 /\ s4 = c * m4 =>
        /\ s4 * x1 + s1 * x4 + s2 * x3 - s3 * x2 = c * (m4 * x1 + m1 * x4 + m2 * x3 - m3 * x2)
        /\ s4 * x2 + s2 * x4 + s3 * x1 - s1 * x3 = c * (m4 * x2 + m2 * x4 + m3 * x1 - m1 * x3)
        /\ s4 * x3 + s3 * x4 + s1 * x2 - s2 * x1 = c * (m4 * x3 + m3 * x4 + m1 * x2 - m2 * x1)
        /\ s4 * x4 - s1 * x1 - s2 * x2 - s3 * x3 = c * (m4 * x4 - m1 * x1 - m2 * x2 - m3 * x3)

LEMMA TimesLinearInNumbers ==
  \A s1, s2, s3, s4, m1, m2, m3, m4, x1, x2, x3, x4, c \in Int :
     TimesLinear(s1, s2, s3, s4, m1, m2, m3, m4, x1, x2, x3, x4, c)
BY DEF TimesLinear

LEMMA TimesOfAlong ==
  ASSUME NEW s, NEW m, NEW x, IsQuad(m), IsQuad(x), Along(s, m)
  PROVE  Along(Times(s, x), Times(m, x))
<1>1. PICK c \in Int \ {0} : s[1] = c * m[1] /\ s[2] = c * m[2] /\ s[3] = c * m[3] /\ s[4] = c * m[4]
  BY DEF Along
<1>2. /\ s[1] \in Int /\ s[2] \in Int /\ s[3] \in Int /\ s[4] \in Int
      /\ m[1] \in Int /\ m[2] \in Int /\ m[3] \in Int /\ m[4] \in Int
      /\ x[1] \in Int /\ x[2] \in Int /\ x[3] \in Int /\ x[4] \in Int /\ c \in Int
  BY AlongQuad DEF IsQuad
<1>3. TimesLinear(s[1], s[2], s[3], s[4], m[1], m[2], m[3], m[4], x[1], x[2], x[3], x[4], c)
  BY ONLY <1>2, TimesLinearInNumbers
<1>4. /\ Times(s, x)[1] = c * Times(m, x)[1] /\ Times(s, x)[2] = c * Times(m, x)[2]
      /\ Times(s, x)[3] = c * Times(m, x)[3] /\ Times(s, x)[4] = c * Times(m, x)[4]
  BY ONLY <1>1, <1>3 DEF TimesLinear, Times
<1> QED BY <1>4 DEF Along

LEMMA AlongAlong ==
  ASSUME NEW a, NEW b, NEW q, IsQuad(q), Along(a, b), Along(b, q)
  PROVE  Along(a, q)
<1>1. PICK c \in Int \ {0} : a[1] = c * b[1] /\ a[2] = c * b[2] /\ a[3] = c * b[3] /\ a[4] = c * b[4]
  BY DEF Along
<1>2. PICK d \in Int \ {0} : b[1] = d * q[1] /\ b[2] = d * q[2] /\ b[3] = d * q[3] /\ b[4] = d * q[4]
  BY DEF Along
<1>3. c * d \in Int \ {0}
  OBVIOUS
<1>4. ASSUME NEW x \in Int PROVE c * (d * x) = (c * d) * x
  OBVIOUS
<1>5. a[1] = (c * d) * q[1] /\ a[2] = (c * d) * q[2] /\ a[3] = (c * d) * q[3] /\ a[4] = (c * d) * q[4]
  BY <1>1, <1>2, <1>4 DEF IsQuad
<1> QED BY <1>3, <1>5 DEF Along

\* A rotation the motion was taken out of, turned by the motion.
LEMMA TurnedByMotion ==
  ASSUME NEW m, NEW v, IsRotation(m), IsQuad(v), Dot(v, v) > 0, NEW s, Along(s, m)
  PROVE  SameRotation(v, Times(s, Times(Conjugate(m), v)))
<1> DEFINE x == Times(Conjugate(m), v)
<1>1. IsQuad(m) /\ IsQuad(x)
  BY ConjugateQuad, TimesQuad DEF IsRotation
<1>2. Along(Times(s, x), Times(m, x))
  BY <1>1, TimesOfAlong
<1>3. Along(Times(m, x), v)
  BY <1>1, ThereAndBack DEF IsRotation
<1>4. Along(Times(s, x), v)
  BY <1>2, <1>3, AlongAlong
<1> QED BY <1>4, AlongItself, AlongSame

\* Away from the end and back to the start.
AwayAndBack(f1, f2, f3, f4, l1, l2, l3, l4) ==
    LET d1 == f4 * (-l1) + f1 * l4 + f2 * (-l3) - f3 * (-l2)
        d2 == f4 * (-l2) + f2 * l4 + f3 * (-l1) - f1 * (-l3)
        d3 == f4 * (-l3) + f3 * l4 + f1 * (-l2) - f2 * (-l1)
        d4 == f4 * l4 - f1 * (-l1) - f2 * (-l2) - f3 * (-l3)
        n  == l1 * l1 + l2 * l2 + l3 * l3 + l4 * l4
    IN  /\ d4 * l1 + d1 * l4 + d2 * l3 - d3 * l2 = n * f1
        /\ d4 * l2 + d2 * l4 + d3 * l1 - d1 * l3 = n * f2
        /\ d4 * l3 + d3 * l4 + d1 * l2 - d2 * l1 = n * f3
        /\ d4 * l4 - d1 * l1 - d2 * l2 - d3 * l3 = n * f4

LEMMA AwayAndBackInNumbers ==
  \A f1, f2, f3, f4, l1, l2, l3, l4 \in Int : AwayAndBack(f1, f2, f3, f4, l1, l2, l3, l4)
BY DEF AwayAndBack

LEMMA EndMeetsStart ==
  ASSUME NEW f, NEW l, IsQuad(f), IsRotation(l)
  PROVE  Along(Times(Times(f, Conjugate(l)), l), f)
<1> DEFINE n == Dot(l, l)
<1>1. n \in Int \ {0}
  BY DotInt DEF IsRotation
<1>2. AwayAndBack(f[1], f[2], f[3], f[4], l[1], l[2], l[3], l[4])
  <2>1. /\ f[1] \in Int /\ f[2] \in Int /\ f[3] \in Int /\ f[4] \in Int
        /\ l[1] \in Int /\ l[2] \in Int /\ l[3] \in Int /\ l[4] \in Int
    BY DEF IsQuad, IsRotation
  <2> QED BY ONLY <2>1, AwayAndBackInNumbers
<1> DEFINE t == Times(Times(f, Conjugate(l)), l)
<1>3. t[1] = n * f[1] /\ t[2] = n * f[2] /\ t[3] = n * f[3] /\ t[4] = n * f[4]
  BY ONLY <1>2 DEF AwayAndBack, Times, Conjugate, Dot
<1> HIDE DEF n, t
<1>4. Along(t, f)
  BY <1>1, <1>3 DEF Along
<1> QED BY <1>4 DEF t

\* A looped motion turns, at its end, as at its start.
LEMMA LoopedRotations ==
  ASSUME NEW V, \A v \in V : IsRotation(v), NEW motion \in RawKeys(V)
  PROVE  LET f == LoopRotations(motion)
         IN  /\ \E W : f \in RawKeys(W)
             /\ Len(f) = Len(motion)
             /\ f # <<>> => SameRotation(Head(f).value, Last(f).value)
<1> DEFINE f == LoopRotations(motion)
           m == Len(motion)
           front == motion[1].value
           back == motion[m].value
           delta == Times(front, Conjugate(back))
           unit == <<0, 0, 0, Dot(front, front)>>
           share(k) == Lerp(unit, delta, k - 1, m - 1).top
           value(k) == Times(share(k), motion[k].value)
           values == [k \in 1 .. m |-> value(k)]
           W == {values[k] : k \in 1 .. m}
<1>1. /\ m \in Nat /\ DOMAIN motion = 1 .. m
      /\ \A k \in 1 .. m : IsRotation(motion[k].value)
      /\ motion # <<>> => m >= 1 /\ Head(motion) = motion[1] /\ Last(motion) = motion[m]
  BY KeyOf
<1>2. CASE m < 2
  <2>1. f = motion
    <3>1. m - 1 < 1
      BY <1>1, <1>2
    <3> QED BY <3>1 DEF LoopRotations
  <2>2. motion # <<>> => SameRotation(Head(motion).value, Last(motion).value)
    <3> SUFFICES ASSUME motion # <<>> PROVE SameRotation(Head(motion).value, Last(motion).value)
      OBVIOUS
    <3>1. m = 1 /\ 1 \in 1 .. m
      BY <1>1, <1>2
    <3>2. IsRotation(front) /\ Head(motion).value = front /\ Last(motion).value = front
      BY <1>1, <3>1
    <3> HIDE DEF front
    <3> QED BY <3>2, AlongItself, AlongSame DEF IsRotation
  <2> QED BY <2>1, <2>2
<1>3. CASE m >= 2
  <2>1. motion # <<>> /\ 1 \in 1 .. m /\ m \in 1 .. m /\ m - 1 \in Nat \ {0}
    <3>1. Len(<<>>) = 0
      OBVIOUS
    <3> QED BY <1>1, <1>3, <3>1
  <2>2. f = [k \in DOMAIN motion |-> [motion[k] EXCEPT !.value = value(k)]]
    <3>1. ~(m - 1 < 1)
      BY <1>1, <1>3
    <3>2. Head(motion) = motion[1] /\ Last(motion) = motion[m]
      BY <1>1, <2>1
    <3> QED BY <3>1, <3>2 DEF LoopRotations
  <2> HIDE DEF value
  <2>3. \A k \in 1 .. m : values[k] = value(k)
    OBVIOUS
  <2>4. \A k \in 1 .. m : values[k] \in W
    OBVIOUS
  <2> HIDE DEF values, W, f
  <2>5. Revalued(f, motion, values)
    <3>1. /\ f = [k \in 1 .. m |-> f[k]]
          /\ \A k \in 1 .. m : f[k] = [motion[k] EXCEPT !.value = values[k]]
      BY <1>1, <2>2, <2>3
    <3> QED BY <3>1 DEF Revalued
  <2>6. /\ f \in RawKeys(W) /\ Len(f) = m
        /\ \A k \in 1 .. m : f[k].value = value(k)
    BY <2>3, <2>4, <2>5, KeysRevalued
  <2>7. f # <<>> /\ Head(f) = f[1] /\ Last(f) = f[m]
    <3>1. Len(<<>>) = 0
      OBVIOUS
    <3>2. f # <<>>
      BY <1>1, <1>3, <2>6, <3>1
    <3> QED BY <2>6, <3>2, KeyOf
  <2>8. /\ IsRotation(front) /\ IsRotation(back) /\ IsQuad(front) /\ Dot(front, front) > 0
        /\ Dot(front, front) \in Int
    BY <1>1, <2>1, DotInt DEF IsRotation
  <2> DEFINE l == m - 1
             n == Dot(front, front)
  <2>9. IsQuad(delta) /\ DOMAIN unit = 1 .. 4 /\ unit[1] = 0 /\ unit[2] = 0 /\ unit[3] = 0 /\ unit[4] = n
    BY <2>8, ConjugateQuad, TimesQuad DEF IsRotation
  <2> HIDE DEF front, back, delta, unit, l, n
  <2>10. IsQuad(unit) /\ IsRotation(unit)
    <3>1. Dot(unit, unit) = n * n
      BY <2>8, <2>9 DEF Dot, n
    <3>2. n * n > 0
      BY <2>8 DEF n
    <3> QED BY <2>8, <2>9, <3>1, <3>2 DEF IsRotation, IsQuad, n
  <2>11. l \in Nat \ {0}
    BY <2>1 DEF l
  <2>12. Along(value(1), front)
    <3> DEFINE s == Lerp(unit, delta, 0, l).top
    <3>1. value(1) = Times(s, front)
      BY DEF value, share, l, front
    <3>2. Along(s, unit)
      <4>1. /\ s[1] = unit[1] * (l - 0) + delta[1] * 0 /\ s[2] = unit[2] * (l - 0) + delta[2] * 0
            /\ s[3] = unit[3] * (l - 0) + delta[3] * 0 /\ s[4] = unit[4] * (l - 0) + delta[4] * 0
        BY <2>9, LerpAt
      <4>2. s[1] = l * unit[1] /\ s[2] = l * unit[2] /\ s[3] = l * unit[3] /\ s[4] = l * unit[4]
        <5> HIDE DEF s
        <5>1. ASSUME NEW x \in Int, NEW y \in Int PROVE x * (l - 0) + y * 0 = l * x
          BY <2>11
        <5> QED BY <2>9, <2>10, <4>1, <5>1 DEF IsQuad
      <4> QED BY <2>11, <4>2 DEF Along
    <3> HIDE DEF s
    <3>3. Along(Times(s, front), Times(unit, front))
      BY <2>8, <2>10, <3>2, TimesOfAlong
    <3>4. Along(Times(unit, front), front)
      <4>1. /\ Times(unit, front)[1] = n * front[1] /\ Times(unit, front)[2] = n * front[2]
            /\ Times(unit, front)[3] = n * front[3] /\ Times(unit, front)[4] = n * front[4]
        BY <2>8, <2>9 DEF Times, IsQuad, n
      <4>2. n \in Int \ {0}
        BY <2>8 DEF n
      <4> QED BY <4>1, <4>2 DEF Along
    <3> QED BY <2>8, <3>1, <3>3, <3>4, AlongAlong
  <2>13. Along(value(m), front)
    <3> DEFINE s == Lerp(unit, delta, l, l).top
    <3>1. value(m) = Times(s, back)
      BY DEF value, share, l, back
    <3>2. Along(s, delta)
      <4>1. /\ s[1] = unit[1] * (l - l) + delta[1] * l /\ s[2] = unit[2] * (l - l) + delta[2] * l
            /\ s[3] = unit[3] * (l - l) + delta[3] * l /\ s[4] = unit[4] * (l - l) + delta[4] * l
        BY <2>9, LerpAt
      <4>2. s[1] = l * delta[1] /\ s[2] = l * delta[2] /\ s[3] = l * delta[3] /\ s[4] = l * delta[4]
        <5> HIDE DEF s
        <5>1. ASSUME NEW x \in Int, NEW y \in Int PROVE x * (l - l) + y * l = l * y
          BY <2>11
        <5> QED BY <2>9, <2>10, <4>1, <5>1 DEF IsQuad
      <4> QED BY <2>11, <4>2 DEF Along
    <3> HIDE DEF s
    <3>3. Along(Times(s, back), Times(delta, back))
      BY <2>8, <2>9, <3>2, TimesOfAlong DEF IsRotation
    <3>4. Along(Times(delta, back), front)
      BY <2>8, EndMeetsStart DEF delta
    <3> QED BY <2>8, <3>1, <3>3, <3>4, AlongAlong
  <2>14. SameRotation(value(1), value(m))
    BY <2>8, <2>12, <2>13, AlongSame
  <2>15. SameRotation(Head(f).value, Last(f).value)
    BY <2>1, <2>6, <2>7, <2>14
  <2> QED BY <2>6, <2>15 DEF f
<1> QED BY <1>1, <1>2, <1>3

\* A looped motion ends where it starts.
LEMMA LoopedPositions ==
  ASSUME NEW motion \in RawKeys(Numbers3)
  PROVE  LET f == LoopPositions(motion)
         IN  /\ f \in RawKeys(Numbers3)
             /\ Len(f) = Len(motion)
             /\ f # <<>> => Head(f).value = Last(f).value
<1> DEFINE f == LoopPositions(motion)
           m == Len(motion)
           front == motion[1].value
           back == motion[m].value
           delta == Minus(front, back)
           share(k) == [c \in 1 .. 3 |-> (delta[c] * (k - 1)) \div (m - 1)]
           value(k) == Plus(share(k), motion[k].value)
           values == [k \in 1 .. m |-> value(k)]
<1>1. /\ m \in Nat /\ DOMAIN motion = 1 .. m
      /\ \A k \in 1 .. m : motion[k].value \in Numbers3
      /\ motion # <<>> => m >= 1 /\ Head(motion) = motion[1] /\ Last(motion) = motion[m]
  BY KeyOf
<1>2. CASE m < 2
  <2>1. f = motion
    <3>1. m - 1 < 1
      BY <1>1, <1>2
    <3> QED BY <3>1 DEF LoopPositions
  <2>2. motion # <<>> => m = 1
    BY <1>1, <1>2
  <2> QED BY <1>1, <2>1, <2>2
<1>3. CASE m >= 2
  <2>1. motion # <<>> /\ 1 \in 1 .. m /\ m \in 1 .. m /\ m - 1 \in Nat \ {0}
    <3>1. Len(<<>>) = 0
      OBVIOUS
    <3> QED BY <1>1, <1>3, <3>1
  <2>2. f = [k \in DOMAIN motion |-> [motion[k] EXCEPT !.value = value(k)]]
    <3>1. ~(m - 1 < 1)
      BY <1>1, <1>3
    <3>2. Head(motion) = motion[1] /\ Last(motion) = motion[m]
      BY <1>1, <2>1
    <3> QED BY <3>1, <3>2 DEF LoopPositions
  <2> DEFINE l == m - 1
  <2>3. front \in Numbers3 /\ back \in Numbers3
    BY <1>1, <2>1
  <2>4. \A c \in 1 .. 3 : front[c] \in Int /\ back[c] \in Int
    BY <2>3 DEF Numbers3
  <2>5. \A c \in 1 .. 3 : delta[c] = front[c] - back[c]
    BY DEF Minus
  <2>6. l \in Nat \ {0}
    BY <2>1
  <2> HIDE DEF front, back, delta
  <2>7. ASSUME NEW k \in 1 .. m
        PROVE  /\ value(k) = [c \in 1 .. 3 |-> share(k)[c] + motion[k].value[c]]
               /\ value(k) \in Numbers3
    <3>1. value(k) = [c \in 1 .. 3 |-> share(k)[c] + motion[k].value[c]]
      BY DEF Plus
    <3>2. ASSUME NEW c \in 1 .. 3 PROVE share(k)[c] + motion[k].value[c] \in Int
      <4>1. motion[k].value[c] \in Int
        BY <1>1 DEF Numbers3
      <4>2. delta[c] * (k - 1) \in Int
        <5>1. delta[c] \in Int
          <6>1. front[c] \in Int /\ back[c] \in Int /\ delta[c] = front[c] - back[c]
            BY <2>4, <2>5
          <6> QED BY ONLY <6>1
        <5>2. k - 1 \in Int
          OBVIOUS
        <5> QED BY ONLY <5>1, <5>2
      <4>3. ASSUME NEW x \in Int, NEW n \in Nat \ {0} PROVE x \div n \in Int
        OBVIOUS
      <4>4. share(k)[c] \in Int
        BY <2>6, <4>2, <4>3
      <4> HIDE DEF share
      <4> QED BY ONLY <4>1, <4>4
    <3> HIDE DEF share, value
    <3> QED BY <3>1, <3>2 DEF Numbers3
  <2>8. front = [c \in 1 .. 3 |-> front[c]]
    BY <2>3 DEF Numbers3
  <2>9. value(1) = front
    <3>1. ASSUME NEW c \in 1 .. 3 PROVE share(1)[c] + front[c] = front[c]
      <4>1. share(1)[c] = (delta[c] * (1 - 1)) \div l /\ delta[c] \in Int /\ front[c] \in Int
        BY <2>4, <2>5
      <4>2. ASSUME NEW x \in Int, NEW n \in Nat \ {0}, NEW y \in Int
            PROVE  (x * (1 - 1)) \div n + y = y
        <5>1. x * (1 - 1) = 0 /\ 0 \div n = 0
          OBVIOUS
        <5> QED BY <5>1
      <4> HIDE DEF share, l
      <4> QED BY ONLY <2>6, <4>1, <4>2
    <3> HIDE DEF share
    <3>2. value(1) = [c \in 1 .. 3 |-> share(1)[c] + front[c]]
      BY DEF Plus, front
    <3> QED BY <2>8, <3>1, <3>2
  <2>10. value(m) = front
    <3>1. ASSUME NEW c \in 1 .. 3 PROVE share(m)[c] + back[c] = front[c]
      <4>1. /\ share(m)[c] = (delta[c] * l) \div l /\ delta[c] = front[c] - back[c]
            /\ front[c] \in Int /\ back[c] \in Int
        BY <2>4, <2>5
      <4>2. ASSUME NEW x \in Int, NEW y \in Int, NEW n \in Nat \ {0}
            PROVE  ((x - y) * n) \div n + y = x
        <5>1. ASSUME NEW z \in Int PROVE (z * n) \div n = z
          <6>1. z * n = n * z /\ (n * z) \div n = z
            OBVIOUS
          <6> QED BY <6>1
        <5> QED BY <5>1
      <4> HIDE DEF share, l
      <4> QED BY ONLY <2>6, <4>1, <4>2
    <3> HIDE DEF share
    <3>2. value(m) = [c \in 1 .. 3 |-> share(m)[c] + back[c]]
      BY DEF Plus, back
    <3> QED BY <2>8, <3>1, <3>2
  <2> HIDE DEF value, share
  <2>11. \A k \in 1 .. m : values[k] = value(k) /\ values[k] \in Numbers3
    BY <2>7
  <2> HIDE DEF values, f
  <2>12. Revalued(f, motion, values)
    <3>1. /\ f = [k \in 1 .. m |-> f[k]]
          /\ \A k \in 1 .. m : f[k] = [motion[k] EXCEPT !.value = values[k]]
      BY <1>1, <2>2, <2>11
    <3> QED BY <3>1 DEF Revalued
  <2>13. /\ f \in RawKeys(Numbers3) /\ Len(f) = m
         /\ \A k \in 1 .. m : f[k].value = value(k)
    <3>1. \A k \in 1 .. m : values[k] \in Numbers3
      BY <2>11
    <3>2. f \in RawKeys(Numbers3) /\ Len(f) = m /\ \A k \in 1 .. m : f[k].value = values[k]
      BY ONLY motion \in RawKeys(Numbers3), <2>12, <3>1, KeysRevalued
    <3> QED BY <2>11, <3>2
  <2>14. f # <<>> /\ Head(f) = f[1] /\ Last(f) = f[m]
    <3>1. Len(<<>>) = 0
      OBVIOUS
    <3>2. f # <<>>
      BY <1>1, <1>3, <2>13, <3>1
    <3> QED BY <2>13, <3>2, KeyOf
  <2> QED BY <2>1, <2>9, <2>10, <2>13, <2>14 DEF f
<1> QED BY <1>1, <1>2, <1>3

LEMMA RotationsAre == \A q \in Rotations : IsRotation(q)
<1> SUFFICES ASSUME NEW q \in Rotations PROVE IsRotation(q)
  OBVIOUS
<1>1. DOMAIN q = 1 .. 4
  BY DEF Rotations
<1> QED BY <1>1, RotationsNonzero DEF IsRotation

\* A clip a motion is extracted from, and its root joint.
LEMMA AcceptedIs ==
  ASSUME NEW clip \in Clips, NEW rest \in Poses, NEW root \in RootJoints, Accepted(clip, root, rest)
  PROVE  /\ clip.tracks[root + 1] \in Curves /\ rest[root + 1] \in JointPose
         /\ clip.duration \in Int /\ clip.duration > 0
         /\ clip = [duration |-> clip.duration, tracks |-> clip.tracks]
         /\ root + 1 \in DOMAIN clip.tracks
<1>1. clip \in [duration : Int, tracks : Seq(Curves)] /\ rest \in Seq(JointPose)
  BY ToolsAssumption
<1>2. /\ clip.duration \in Int /\ clip.tracks \in Seq(Curves)
      /\ clip = [duration |-> clip.duration, tracks |-> clip.tracks]
  <2> DEFINE T == Seq(Curves)
  <2>1. clip \in [duration : Int, tracks : T]
    BY <1>1
  <2> HIDE DEF T
  <2>2. /\ clip.duration \in Int /\ clip.tracks \in T
        /\ clip = [duration |-> clip.duration, tracks |-> clip.tracks]
    BY <2>1
  <2> QED BY <2>2 DEF T
<1>3. Len(clip.tracks) = Len(rest) /\ root + 1 \in DOMAIN clip.tracks /\ clip.duration > 0
  BY DEF Accepted, ValidateAnimation
<1> DEFINE t == clip.tracks
           j == root + 1
<1>4. t \in Seq(Curves) /\ Len(t) = Len(rest) /\ j \in DOMAIN t
  BY <1>2, <1>3
<1> HIDE DEF t, j
<1>5. t[j] \in Curves /\ rest[j] \in JointPose
  BY <1>1, <1>4
<1> QED BY <1>2, <1>3, <1>5 DEF t, j

\* The motion that is extracted has the keys of the animation.
LEMMA MotionIs ==
  ASSUME NEW clip \in Clips, NEW rest \in Poses, NEW root \in RootJoints, Accepted(clip, root, rest),
         NEW p \in PositionSettings, NEW r \in RotationSettings
  PROVE  LET curves == clip.tracks[root + 1]
             position == PositionOf(clip, root, rest, p)
             rotation == RotationOf(clip, root, rest, r)
         IN  /\ position \in RawKeys(Numbers3) /\ Len(position) = Len(curves.translations)
             /\ Len(rotation) = Len(curves.rotations) /\ DOMAIN rotation = 1 .. Len(rotation)
             /\ (\A k \in DOMAIN rotation : rotation[k].value \in Rotations) => rotation \in RawKeys(Rotations)
<1> DEFINE curves == clip.tracks[root + 1]
           position == PositionOf(clip, root, rest, p)
           rotation == RotationOf(clip, root, rest, r)
           d == clip.duration
<1>1. /\ curves \in Curves /\ rest[root + 1] \in JointPose /\ d \in Int /\ d > 0
  BY AcceptedIs
<1> DEFINE times == curves.translations
           turns == curves.rotations
<1>2. times \in KeysOf(Vectors) /\ turns \in KeysOf(Rotations)
  BY <1>1 DEF Curves
<1>3. position \in RawKeys(Numbers3) /\ Len(position) = Len(times)
  <2> DEFINE ref == Reference(p, rest[root + 1], curves)
             masked(v) == [c \in 1 .. 3 |-> IF p.mask[c] THEN v[c] - ref.translation[c] ELSE 0]
             values == [k \in DOMAIN times |-> masked(times[k].value)]
  <2>1. ref \in JointPose
    BY <1>1, ReferenceIs
  <2>2. \A c \in 1 .. 3 : ref.translation[c] \in Int
    <3>1. ref.translation \in Vectors
      BY <2>1 DEF JointPose
    <3> QED BY <3>1, VectorsAre DEF IsVector
  <2>3. position = AsMotion(times, d, values)
    BY DEF PositionOf, ExtractPosition
  <2> HIDE DEF ref, times, d
  <2>4. DOMAIN times = 1 .. Len(times) /\ \A k \in 1 .. Len(times) : times[k].value \in Vectors
    BY <1>2, CurveKeys
  <2>5. ASSUME NEW v \in Vectors PROVE masked(v) \in Numbers3
    <3>1. \A c \in 1 .. 3 : v[c] \in Int
      BY VectorsAre DEF IsVector
    <3>2. ASSUME NEW c \in 1 .. 3
          PROVE  (IF p.mask[c] THEN v[c] - ref.translation[c] ELSE 0) \in Int
      <4>1. v[c] \in Int /\ ref.translation[c] \in Int
        BY <2>2, <3>1
      <4>2. v[c] - ref.translation[c] \in Int
        BY ONLY <4>1
      <4> QED BY <4>2
    <3> QED BY <3>2 DEF Numbers3
  <2> HIDE DEF masked
  <2>6. \A k \in 1 .. Len(times) : values[k] \in Numbers3
    BY <2>4, <2>5
  <2> HIDE DEF values, position
  <2> QED BY <1>1, <1>2, <2>3, <2>6, MotionKeys DEF d
<1>4. /\ Len(rotation) = Len(turns) /\ DOMAIN rotation = 1 .. Len(rotation)
      /\ (\A k \in DOMAIN rotation : rotation[k].value \in Rotations) => rotation \in RawKeys(Rotations)
  <2>1. PICK values : rotation = AsMotion(turns, d, values)
    BY DEF RotationOf, ExtractRotation
  <2> HIDE DEF rotation, turns, d
  <2> DEFINE W == {values[k] : k \in 1 .. Len(turns)}
  <2>2. \A k \in 1 .. Len(turns) : values[k] \in W
    OBVIOUS
  <2> HIDE DEF W
  <2>3. /\ rotation \in RawKeys(W) /\ Len(rotation) = Len(turns)
        /\ \A k \in 1 .. Len(turns) : rotation[k].value = values[k]
    <3>1. d \in Int /\ d > 0 /\ turns \in KeysOf(Rotations)
      BY <1>1, <1>2
    <3> QED BY ONLY <2>1, <2>2, <3>1, MotionKeys
  <2>4. DOMAIN rotation = 1 .. Len(rotation)
    BY <2>3, KeyOf
  <2>5. ASSUME \A k \in DOMAIN rotation : rotation[k].value \in Rotations
        PROVE  rotation \in RawKeys(Rotations)
    <3>1. \A k \in 1 .. Len(turns) : values[k] \in Rotations
      BY <2>3, <2>4, <2>5
    <3> QED BY <1>1, <1>2, <2>1, <3>1, MotionKeys DEF d
  <2> QED BY <2>3, <2>4, <2>5
<1> QED BY <1>3, <1>4 DEF times, turns

\* What is left of the animation.
Turns(made, k) == RawSample("quaternion", made.rotation, 2 * made.position[k].ratio).top
Left(v, position, p, k) == IF p.bake THEN Minus(v, position[k].value) ELSE v

LEMMA ExtractedIs ==
  ASSUME NEW clip \in Clips, NEW rest \in Poses, NEW root \in RootJoints, Accepted(clip, root, rest),
         NEW p \in PositionSettings, NEW r \in RotationSettings
  PROVE  LET was == clip.tracks[root + 1]
             position == PositionOf(clip, root, rest, p)
             rotation == RotationOf(clip, root, rest, r)
             made == Extracted(clip, root, rest, p, r)
             left == made.output.tracks[root + 1]
         IN  /\ made.position = IF p.loop THEN LoopPositions(position) ELSE position
             /\ made.rotation = IF r.loop THEN LoopRotations(rotation) ELSE rotation
             /\ \A k \in DOMAIN was.rotations :
                   left.rotations[k].value =
                       IF r.bake THEN Times(Conjugate(rotation[k].value), was.rotations[k].value)
                       ELSE was.rotations[k].value
             /\ \A k \in DOMAIN was.translations :
                   LET v == Left(was.translations[k].value, position, p, k)
                   IN  left.translations[k].value =
                           IF r.bake THEN TransformVector(Conjugate(Turns(made, k)), v) ELSE v
<1> DEFINE was == clip.tracks[root + 1]
           position == PositionOf(clip, root, rest, p)
           rotation == RotationOf(clip, root, rest, r)
           made == Extracted(clip, root, rest, p, r)
           left == made.output.tracks[root + 1]
           moves == IF p.bake THEN BakePositions(was.translations, position) ELSE was.translations
           turns == IF r.bake THEN BakeRotations(was.rotations, rotation) ELSE was.rotations
           looped == IF p.loop THEN LoopPositions(position) ELSE position
           loopedTurns == IF r.loop THEN LoopRotations(rotation) ELSE rotation
<1>1. /\ was \in Curves /\ clip = [duration |-> clip.duration, tracks |-> clip.tracks]
      /\ root + 1 \in DOMAIN clip.tracks
  BY AcceptedIs
<1>2. was = [translations |-> was.translations, rotations |-> was.rotations, scales |-> was.scales]
  BY <1>1 DEF Curves
<1>3. made.position = looped /\ made.rotation = loopedTurns
  BY DEF Extracted
<1>4. left = [was EXCEPT !.rotations = turns,
                         !.translations = IF r.bake THEN TurnBack(moves, looped, loopedTurns) ELSE moves]
  BY <1>1, <1>2 DEF Extracted
<1>5. left.rotations = turns /\ left.translations = IF r.bake THEN TurnBack(moves, looped, loopedTurns) ELSE moves
  <2> HIDE DEF turns, moves, looped, loopedTurns, left, was
  <2> QED BY <1>2, <1>4
<1>6. was.translations \in KeysOf(Vectors) /\ was.rotations \in KeysOf(Rotations)
  BY <1>1 DEF Curves
<1>7. ASSUME NEW k \in DOMAIN was.rotations
      PROVE  left.rotations[k].value =
                 IF r.bake THEN Times(Conjugate(rotation[k].value), was.rotations[k].value)
                 ELSE was.rotations[k].value
  <2> DEFINE keys == was.rotations
  <2>1. keys[k] \in [time : Int, value : Rotations]
    BY <1>6, CurveKeys
  <2> HIDE DEF keys
  <2>2. CASE r.bake
    <3>1. turns = [i \in DOMAIN keys |-> [keys[i] EXCEPT !.value = Times(Conjugate(rotation[i].value), @)]]
      BY <2>2 DEF BakeRotations, keys
    <3>2. turns[k] = [keys[k] EXCEPT !.value = Times(Conjugate(rotation[k].value), @)]
      BY <3>1 DEF keys
    <3>3. turns[k].value = Times(Conjugate(rotation[k].value), keys[k].value)
      <4> HIDE DEF turns
      <4> QED BY <2>1, <3>2
    <3> QED BY <1>5, <2>2, <3>3 DEF keys
  <2>3. CASE ~r.bake
    BY <1>5, <2>3
  <2> QED BY <2>2, <2>3
<1>8. ASSUME NEW k \in DOMAIN was.translations
      PROVE  LET v == Left(was.translations[k].value, position, p, k)
             IN  left.translations[k].value =
                     IF r.bake THEN TransformVector(Conjugate(Turns(made, k)), v) ELSE v
  <2> DEFINE keys == was.translations
             v == Left(keys[k].value, position, p, k)
  <2>1. keys[k] \in [time : Int, value : Vectors] /\ k \in DOMAIN keys
    BY <1>6, CurveKeys
  <2> HIDE DEF keys
  <2>2. /\ moves[k].value = v /\ DOMAIN moves = DOMAIN keys
        /\ moves[k] = [time |-> keys[k].time, value |-> v]
    <3>1. CASE p.bake
      <4>1. moves = [i \in DOMAIN keys |-> [keys[i] EXCEPT !.value = Minus(@, position[i].value)]]
        BY <3>1 DEF BakePositions, keys
      <4>2. moves[k] = [keys[k] EXCEPT !.value = Minus(@, position[k].value)] /\ DOMAIN moves = DOMAIN keys
        BY <2>1, <4>1
      <4> HIDE DEF moves
      <4>3. moves[k] = [time |-> keys[k].time, value |-> Minus(keys[k].value, position[k].value)]
        BY <2>1, <4>2
      <4>4. v = Minus(keys[k].value, position[k].value)
        BY <3>1 DEF Left
      <4> HIDE DEF v
      <4> QED BY <4>2, <4>3, <4>4
    <3>2. CASE ~p.bake
      <4>1. moves = keys /\ v = keys[k].value
        BY <3>2 DEF Left, keys
      <4> HIDE DEF moves, v
      <4> QED BY <2>1, <4>1
    <3> QED BY <3>1, <3>2
  <2>3. CASE r.bake
    <3> DEFINE back(i) == [moves[i] EXCEPT !.value = TransformVector(Conjugate(Turns(made, i)), @)]
    <3>1. TurnBack(moves, looped, loopedTurns) = [i \in DOMAIN moves |-> back(i)]
      BY <1>3 DEF TurnBack, Turns
    <3> HIDE DEF moves, v, looped, loopedTurns, made, left
    <3>2. left.translations[k] = back(k)
      BY <1>5, <2>1, <2>2, <2>3, <3>1
    <3> DEFINE x == TransformVector(Conjugate(Turns(made, k)), v)
    <3>3. back(k) = [time |-> keys[k].time, value |-> TransformVector(Conjugate(Turns(made, k)), v)]
      BY <2>2
    <3>4. left.translations[k].value = TransformVector(Conjugate(Turns(made, k)), v)
      <4> HIDE DEF x
      <4>1. back(k) = [time |-> keys[k].time, value |-> x]
        BY <3>3 DEF x
      <4> HIDE DEF back
      <4>2. left.translations[k].value = x
        BY <3>2, <4>1
      <4> QED BY <4>2 DEF x
    <3> QED BY <2>3, <3>4 DEF v, made, left, keys
  <2>4. CASE ~r.bake
    <3>1. left.translations[k].value = moves[k].value
      BY <1>5, <2>4
    <3> QED BY <2>2, <2>4, <3>1 DEF keys
  <2> QED BY <2>3, <2>4
<1> QED BY <1>3, <1>7, <1>8

\* The motion of a clip's root joint and what is left of it give the joint as it was.
Recombines(was, left, position, rotation, p, r) ==
    /\ ~r.loop => \A k \in DOMAIN was.rotations :
          SameRotation(was.rotations[k].value,
              IF r.bake THEN Times(RotationAt(rotation, rotation[k].ratio), left.rotations[k].value)
              ELSE left.rotations[k].value)
    /\ ~p.loop => \A k \in DOMAIN was.translations :
          LET turned == IF r.bake
                        THEN TransformVector(RotationAt(rotation, position[k].ratio), left.translations[k].value)
                        ELSE left.translations[k].value
          IN  was.translations[k].value =
                  IF p.bake THEN Plus(PositionAt(position, position[k].ratio), turned) ELSE turned
    /\ r.loop /\ rotation # <<>> => SameRotation(Head(rotation).value, Last(rotation).value)
    /\ p.loop /\ position # <<>> => Head(position).value = Last(position).value

LEMMA MotionGivesBack ==
  ASSUME MotionIsExact,
         NEW clip \in Clips, NEW rest \in Poses, NEW root \in RootJoints, Accepted(clip, root, rest),
         NEW p \in PositionSettings, NEW r \in RotationSettings,
         NEW made, made = Extracted(clip, root, rest, p, r),
         Validate(made.position), Validate(made.rotation)
  PROVE  Recombines(clip.tracks[root + 1], made.output.tracks[root + 1], made.position, made.rotation, p, r)
<1> DEFINE was == clip.tracks[root + 1]
           left == made.output.tracks[root + 1]
           position == PositionOf(clip, root, rest, p)
           rotation == RotationOf(clip, root, rest, r)
           V == Rotations
<1>1. \A v \in V : IsRotation(v)
  BY RotationsAre
<1>2. /\ position \in RawKeys(Numbers3) /\ Len(position) = Len(was.translations)
      /\ Len(rotation) = Len(was.rotations) /\ DOMAIN rotation = 1 .. Len(rotation)
      /\ (\A k \in DOMAIN rotation : rotation[k].value \in V) => rotation \in RawKeys(V)
  BY MotionIs
<1>3. /\ made.position = IF p.loop THEN LoopPositions(position) ELSE position
      /\ made.rotation = IF r.loop THEN LoopRotations(rotation) ELSE rotation
      /\ \A k \in DOMAIN was.rotations :
            left.rotations[k].value =
                IF r.bake THEN Times(Conjugate(rotation[k].value), was.rotations[k].value)
                ELSE was.rotations[k].value
      /\ \A k \in DOMAIN was.translations :
            LET v == Left(was.translations[k].value, position, p, k)
            IN  left.translations[k].value =
                    IF r.bake THEN TransformVector(Conjugate(Turns(made, k)), v) ELSE v
  BY ExtractedIs
<1> DEFINE moves == IF p.bake THEN BakePositions(was.translations, position) ELSE was.translations
<1>4. /\ \A k \in DOMAIN rotation : rotation[k].value \in V
      /\ \A k \in DOMAIN made.rotation : made.rotation[k].value \in V
      /\ r.bake => /\ OnePath(made.rotation)
                   /\ \A k \in DOMAIN moves : TurnsWhole(Conjugate(Turns(made, k)), moves[k].value)
  BY DEF MotionIsExact, Turns
<1>5. was \in Curves
  BY AcceptedIs
<1>6. /\ was.translations \in KeysOf(Vectors) /\ was.rotations \in KeysOf(Rotations)
      /\ DOMAIN was.translations = 1 .. Len(was.translations)
      /\ DOMAIN was.rotations = 1 .. Len(was.rotations)
      /\ \A k \in DOMAIN was.translations : was.translations[k] \in [time : Int, value : Vectors]
      /\ \A k \in DOMAIN was.rotations : was.rotations[k].value \in Rotations
  <2>1. was.translations \in KeysOf(Vectors) /\ was.rotations \in KeysOf(Rotations)
    BY <1>5 DEF Curves
  <2> HIDE DEF was
  <2> QED BY <2>1, CurveKeys
<1>7. rotation \in RawKeys(V)
  BY <1>2, <1>4
<1>8. ASSUME NEW k \in DOMAIN was.translations
      PROVE  /\ IsVector(Left(was.translations[k].value, position, p, k))
             /\ r.bake => TurnsWhole(Conjugate(Turns(made, k)), Left(was.translations[k].value, position, p, k))
             /\ p.bake => IsVector(position[k].value)
             /\ IsVector(was.translations[k].value)
             /\ was.translations[k].value = [c \in 1 .. 3 |-> was.translations[k].value[c]]
  <2> DEFINE keys == was.translations
             v == keys[k].value
             u == Left(v, position, p, k)
  <2>1. IsVector(v) /\ v = [c \in 1 .. 3 |-> v[c]] /\ IsVector(position[k].value)
    <3>1. v \in Vectors
      BY <1>6
    <3>2. position[k].value \in Numbers3
      BY <1>2, <1>6, KeyOf
    <3> HIDE DEF v
    <3> QED BY <3>1, <3>2, VectorsAre
  <2>2. IsVector(u)
    <3> HIDE DEF v
    <3>1. Minus(v, position[k].value) \in Numbers3
      BY <2>1, MovedBack
    <3> QED BY <2>1, <3>1, VectorsAre DEF Left
  <2>3. moves[k].value = u /\ k \in DOMAIN moves
    <3>1. CASE p.bake
      <4>1. moves = [i \in DOMAIN keys |-> [keys[i] EXCEPT !.value = Minus(@, position[i].value)]]
        BY <3>1 DEF BakePositions
      <4>2. k \in DOMAIN keys /\ keys[k] \in [time : Int, value : Vectors]
        BY <1>6
      <4> HIDE DEF moves, keys
      <4>3. moves[k] = [keys[k] EXCEPT !.value = Minus(@, position[k].value)] /\ k \in DOMAIN moves
        BY <4>1, <4>2
      <4>4. moves[k].value = Minus(keys[k].value, position[k].value)
        BY <4>2, <4>3
      <4> QED BY <3>1, <4>3, <4>4 DEF Left
    <3>2. CASE ~p.bake
      BY <3>2 DEF Left
    <3> QED BY <3>1, <3>2
  <2>4. r.bake => TurnsWhole(Conjugate(Turns(made, k)), u)
    <3> HIDE DEF moves, u
    <3> QED BY <1>4, <2>3
  <2> QED BY <2>1, <2>2, <2>4
<1> HIDE DEF was, left, position, rotation, moves
<1>9. ASSUME ~r.loop, NEW k \in DOMAIN was.rotations
      PROVE  SameRotation(was.rotations[k].value,
                 IF r.bake THEN Times(RotationAt(made.rotation, made.rotation[k].ratio), left.rotations[k].value)
                 ELSE left.rotations[k].value)
  <2> DEFINE v == was.rotations[k].value
  <2>1. IsRotation(v)
    BY <1>1, <1>6
  <2> HIDE DEF v
  <2>2. CASE ~r.bake
    <3>1. left.rotations[k].value = v
      BY <1>3, <2>2 DEF v
    <3>2. SameRotation(v, v)
      BY <2>1, AlongItself, AlongSame DEF IsRotation
    <3> QED BY <2>2, <3>1, <3>2 DEF v
  <2>3. CASE r.bake
    <3>1. made.rotation = rotation /\ Validate(rotation)
      BY <1>3, <1>9
    <3>2. k \in 1 .. Len(rotation)
      BY <1>2, <1>6
    <3> DEFINE s == RotationAt(rotation, rotation[k].ratio)
               m == rotation[k].value
    <3>3. Along(s, m)
      BY <1>1, <1>7, <3>1, <3>2, TurnsAtKey DEF RotationAt
    <3>4. IsRotation(m)
      BY <1>1, <1>7, <3>2, KeyOf
    <3>5. left.rotations[k].value = Times(Conjugate(m), v)
      BY <1>3, <2>3 DEF v
    <3> HIDE DEF s, m
    <3>6. SameRotation(v, Times(s, Times(Conjugate(m), v)))
      BY <2>1, <3>3, <3>4, TurnedByMotion DEF IsRotation
    <3> QED BY <2>3, <3>1, <3>5, <3>6 DEF v, s
  <2> QED BY <2>2, <2>3
<1>10. ASSUME ~p.loop, NEW k \in DOMAIN was.translations
       PROVE  LET turned == IF r.bake
                            THEN TransformVector(RotationAt(made.rotation, made.position[k].ratio),
                                                 left.translations[k].value)
                            ELSE left.translations[k].value
              IN  was.translations[k].value =
                      IF p.bake THEN Plus(PositionAt(made.position, made.position[k].ratio), turned)
                      ELSE turned
  <2> DEFINE v == was.translations[k].value
             u == Left(v, position, p, k)
             turned == IF r.bake
                       THEN TransformVector(RotationAt(made.rotation, made.position[k].ratio),
                                            left.translations[k].value)
                       ELSE left.translations[k].value
  <2>1. made.position = position /\ Validate(position) /\ k \in 1 .. Len(position)
    BY <1>2, <1>3, <1>6, <1>10
  <2>2. turned = [c \in 1 .. 3 |-> u[c]] \/ turned = u
    <3>1. CASE ~r.bake
      BY <1>3, <3>1
    <3>2. CASE r.bake
      <4> DEFINE q == Turns(made, k)
                 s == RotationAt(made.rotation, made.position[k].ratio)
      <4>1. left.translations[k].value = TransformVector(Conjugate(q), u)
        BY <1>3, <3>2
      <4>2. IsVector(u) /\ TurnsWhole(Conjugate(q), u)
        BY <1>8, <3>2
      <4>3. made.rotation \in RawKeys(V)
        <5>1. CASE ~r.loop
          BY <1>3, <1>7, <5>1
        <5>2. CASE r.loop
          <6>1. made.rotation = LoopRotations(rotation)
            BY <1>3, <5>2
          <6>2. PICK W : made.rotation \in RawKeys(W)
            BY <1>1, <1>7, <6>1, LoopedRotations
          <6> DEFINE f == made.rotation
                     n == Len(f)
          <6>3. n \in Nat /\ DOMAIN f = 1 .. n /\ \A i \in 1 .. n : f[i].value \in V
            BY <1>4, <6>2, KeyOf
          <6>4. \A i \in 1 .. n : f[i] = [step |-> f[i].step, ratio |-> f[i].ratio, value |-> f[i].value]
                                  /\ f[i].step \in BOOLEAN /\ f[i].ratio \in Int
            BY <6>2, KeyOf
          <6>5. f = [i \in 1 .. n |-> f[i]]
            BY <6>2 DEF RawKeys
          <6> HIDE DEF f, n, V
          <6>6. ASSUME NEW i \in 1 .. n PROVE f[i] \in [step : BOOLEAN, ratio : Int, value : V]
            BY <6>3, <6>4
          <6>7. f \in RawKeys(V)
            BY ONLY <6>3, <6>5, <6>6, KeysFrom
          <6> QED BY <6>7 DEF f
        <5> QED BY <5>1, <5>2
      <4>4. made.position[k].ratio \in Int
        BY <1>2, <2>1, KeyOf
      <4>5. SameRotation(s, q) /\ IsQuad(s) /\ IsQuad(q)
        <5> DEFINE h == 2 * made.position[k].ratio
        <5>1. h \in Int
          BY <4>4
        <5> HIDE DEF h, V
        <5>2. SameSamples(JobSample("quaternion", Fixup(Built(made.rotation)), h),
                          RawSample("quaternion", made.rotation, h))
          BY <1>1, <1>4, <3>2, <4>3, <5>1, BuiltRotations
        <5> QED BY <5>2 DEF SameSamples, RotationAt, Turns, BuiltOf, h
      <4> HIDE DEF q, s, u
      <4>6. TransformVector(s, TransformVector(Conjugate(q), u)) = [c \in 1 .. 3 |-> u[c]]
        BY ONLY <4>2, <4>5, TurnedBack
      <4> QED BY <3>2, <4>1, <4>6 DEF s
    <3> QED BY <3>1, <3>2
  <2>3. v = [c \in 1 .. 3 |-> v[c]] /\ IsVector(v) /\ (p.bake => IsVector(position[k].value))
    BY <1>8
  <2>4. CASE ~p.bake
    <3>1. u = v
      BY <2>4 DEF Left
    <3> HIDE DEF turned, u, v
    <3>2. v = turned
      BY <2>2, <2>3, <3>1
    <3> QED BY <2>4, <3>2 DEF turned, v
  <2>5. CASE p.bake
    <3> DEFINE w == position[k].value
    <3>1. u = Minus(v, w) /\ IsVector(w)
      BY <2>3, <2>5 DEF Left
    <3>2. PositionAt(made.position, made.position[k].ratio) = w
      BY <1>2, <2>1, MovesAtKey DEF PositionAt
    <3> HIDE DEF turned, u, v, w
    <3>3. turned = u
      <4>1. u = [c \in 1 .. 3 |-> u[c]]
        <5>1. u \in Numbers3
          BY <2>3, <3>1, MovedBack
        <5> QED BY <5>1, VectorsAre
      <4> QED BY <2>2, <4>1
    <3>4. v = Plus(w, turned)
      BY <2>3, <3>1, <3>3, MovedBack
    <3> QED BY <2>5, <3>2, <3>4 DEF turned, v
  <2> QED BY <2>4, <2>5
<1>11. ASSUME r.loop, made.rotation # <<>>
       PROVE  SameRotation(Head(made.rotation).value, Last(made.rotation).value)
  <2>1. made.rotation = LoopRotations(rotation)
    BY <1>3, <1>11
  <2> QED BY <1>1, <1>7, <1>11, <2>1, LoopedRotations
<1>12. ASSUME p.loop, made.position # <<>>
       PROVE  Head(made.position).value = Last(made.position).value
  <2>1. made.position = LoopPositions(position)
    BY <1>3, <1>12
  <2> QED BY <1>2, <1>12, <2>1, LoopedPositions
<1> QED BY <1>9, <1>10, <1>11, <1>12 DEF Recombines, was, left

\* The last call of ExtractMotion was of these, and made this of them.
MotionIsKnown ==
    tool.call = "motion" /\ tool.ok =>
        /\ tool.clip \in Clips /\ tool.root \in RootJoints
        /\ tool.p \in PositionSettings /\ tool.r \in RotationSettings
        /\ Validate(tool.made.position) /\ Validate(tool.made.rotation)
        /\ \E rest \in Poses : /\ Accepted(tool.clip, tool.root, rest)
                               /\ tool.made = Extracted(tool.clip, tool.root, rest, tool.p, tool.r)

LEMMA ToolsKeepMotion ==
  ASSUME MotionIsKnown, [TracksNext]_tracksVars
  PROVE  MotionIsKnown'
<1>1. ASSUME NEW clip \in Clips, NEW rest \in Poses, NEW root \in RootJoints,
             NEW p \in PositionSettings, NEW r \in RotationSettings,
             ExtractMotion(clip, root, rest, p, r)
      PROVE  MotionIsKnown'
  <2> DEFINE made == Extracted(clip, root, rest, p, r)
  <2>1. /\ tool'.clip = clip /\ tool'.root = root /\ tool'.p = p /\ tool'.r = r
        /\ tool'.ok => /\ Accepted(clip, root, rest) /\ tool'.made = made
                       /\ Validate(made.position) /\ Validate(made.rotation)
    BY <1>1 DEF ExtractMotion
  <2> HIDE DEF made
  <2>2. ASSUME tool'.ok
        PROVE  \E z \in Poses : /\ Accepted(clip, root, z)
                                /\ tool'.made = Extracted(clip, root, z, p, r)
    BY <2>1, <2>2 DEF made
  <2> QED BY <2>1, <2>2 DEF MotionIsKnown
<1>2. ASSUME NEW clip \in Clips, NEW pose \in Poses \cup {FirstFrames(clip)}, BuildAdditive(clip, pose)
      PROVE  MotionIsKnown'
  <2>1. tool'.call = "additive"
    BY <1>2 DEF BuildAdditive
  <2> QED BY <2>1 DEF MotionIsKnown
<1>3. CASE Discard
  BY <1>3 DEF Discard, Idle, MotionIsKnown
<1>4. CASE UNCHANGED tool
  BY <1>4 DEF MotionIsKnown
<1> QED BY <1>1, <1>2, <1>3, <1>4 DEF TracksNext, ToolsNext, tracksVars

LEMMA KnownMotionRecombines ==
  ASSUME MotionIsExact, MotionIsKnown
  PROVE  MotionRecombines
<1> SUFFICES ASSUME tool.call = "motion" /\ tool.ok
             PROVE  Recombines(tool.clip.tracks[tool.root + 1], tool.made.output.tracks[tool.root + 1],
                               tool.made.position, tool.made.rotation, tool.p, tool.r)
  BY DEF MotionRecombines, Recombines
<1>1. PICK rest \in Poses : /\ Accepted(tool.clip, tool.root, rest)
                            /\ tool.made = Extracted(tool.clip, tool.root, rest, tool.p, tool.r)
  BY DEF MotionIsKnown
<1>2. /\ tool.clip \in Clips /\ tool.root \in RootJoints
      /\ tool.p \in PositionSettings /\ tool.r \in RotationSettings
      /\ Validate(tool.made.position) /\ Validate(tool.made.rotation)
  BY DEF MotionIsKnown
<1> QED BY <1>1, <1>2, MotionGivesBack

\* Moving and turning by the extracted motion, as built and sampled at runtime, and then by
\* what is left of the joint gives the joint as it was, unless the motion is looped, and a
\* looped motion ends as it starts: for any clips, skeletons, references and components
\* whose motion integers can tell (MotionExtractor, TrackBuilder, TrackSamplingJob::Run).
THEOREM MotionsRecombine ==
  ASSUME MotionIsExact
  PROVE  TracksSpec => []MotionRecombines
<1>1. TracksInit => MotionIsKnown
  BY DEF TracksInit, ToolsInit, Idle, MotionIsKnown
<1>2. MotionIsKnown /\ [TracksNext]_tracksVars => MotionIsKnown'
  BY ToolsKeepMotion
<1>3. MotionIsKnown => MotionRecombines
  BY KnownMotionRecombines
<1> QED BY <1>1, <1>2, <1>3, PTL DEF TracksSpec

-----------------------------------------------------------------------------
(* Recursion by number, and powers of two.                                 *)

\* f begins with a and goes on by a step from number to number.
GoesOn(f, n, a, step) == f = [k \in 0 .. n |-> IF k = 0 THEN a ELSE step[<<k, f[k - 1]>>]]

LEMMA ByNumber ==
  ASSUME NEW n \in Nat, NEW S, 0 \in S, \A k \in 1 .. n : k - 1 \in S => k \in S
  PROVE  0 .. n \subseteq S
<1> DEFINE T == (0 .. n) \ S
<1> SUFFICES ASSUME T # {} PROVE FALSE
  OBVIOUS
<1>1. PICK m \in T : \A k \in T : m <= k
  <2>1. T \subseteq Nat
    OBVIOUS
  <2> HIDE DEF T
  <2> QED BY <2>1, LeastNatural
<1>2. m \in 1 .. n /\ m \notin S
  OBVIOUS
<1>3. m - 1 \in 0 .. n /\ ~(m <= m - 1)
  BY <1>2
<1>4. m - 1 \in S
  <2>1. m - 1 \notin T
    <3> HIDE DEF T
    <3> QED BY <1>1, <1>3
  <2> QED BY <1>3, <2>1
<1> QED BY <1>2, <1>4

LEMMA CountedRecursion ==
  ASSUME NEW n \in Nat, NEW a, NEW step
  PROVE  \E f : GoesOn(f, n, a, step)
<1> DEFINE S == {k \in 0 .. n : \E f : GoesOn(f, k, a, step)}
<1>1. 0 \in S
  <2> DEFINE g == [k \in 0 .. 0 |-> a]
  <2>1. g = [k \in 0 .. 0 |-> IF k = 0 THEN a ELSE step[<<k, g[k - 1]>>]]
    <3> HIDE DEF g
    <3>1. g = [k \in 0 .. 0 |-> a]
      BY DEF g
    <3> QED BY <3>1
  <2> HIDE DEF g
  <2>2. GoesOn(g, 0, a, step)
    BY <2>1 DEF GoesOn
  <2> QED BY <2>2
<1>2. ASSUME NEW k \in 1 .. n, k - 1 \in S PROVE k \in S
  <2>1. PICK f : GoesOn(f, k - 1, a, step)
    BY <1>2
  <2> DEFINE e(j) == IF j = 0 THEN a ELSE step[<<j, f[j - 1]>>]
             g == [j \in 0 .. k |-> e(j)]
  <2>2. \A j \in 0 .. k - 1 : f[j] = e(j)
    <3>1. f = [j \in 0 .. k - 1 |-> e(j)]
      BY <2>1 DEF GoesOn
    <3> HIDE DEF e
    <3> QED BY <3>1
  <2>3. \A j \in 0 .. k : g[j] = e(j)
    <3> HIDE DEF e
    <3> QED OBVIOUS
  <2> HIDE DEF g
  <2>4. \A j \in 0 .. k : j # 0 => g[j - 1] = f[j - 1]
    <3>1. \A j \in 0 .. k : j # 0 => j - 1 \in 0 .. k /\ j - 1 \in 0 .. k - 1
      OBVIOUS
    <3> HIDE DEF e
    <3> QED BY <2>2, <2>3, <3>1
  <2>5. g = [j \in 0 .. k |-> IF j = 0 THEN a ELSE step[<<j, g[j - 1]>>]]
    <3>1. g = [j \in 0 .. k |-> e(j)]
      BY DEF g
    <3> SUFFICES ASSUME NEW j \in 0 .. k
                 PROVE  e(j) = IF j = 0 THEN a ELSE step[<<j, g[j - 1]>>]
      BY <3>1
    <3> QED BY <2>4
  <2>6. GoesOn(g, k, a, step)
    BY <2>5 DEF GoesOn
  <2> QED BY <2>6
<1> HIDE DEF S
<1>3. 0 .. n \subseteq S
  BY <1>1, <1>2, ByNumber
<1>4. n \in S
  BY <1>3
<1> QED BY <1>4 DEF S

Doubles(f, n) == f = [k \in 0 .. n |-> IF k = 0 THEN 1 ELSE 2 * f[k - 1]]

LEMMA DoublesAre ==
  ASSUME NEW n \in Nat
  PROVE  \E f : Doubles(f, n)
<1> DEFINE step == [x \in (1 .. n) \X Nat |-> 2 * x[2]]
<1>1. \A k \in 1 .. n, v \in Nat : step[<<k, v>>] = 2 * v
  <2>1. \A k \in 1 .. n, v \in Nat : <<k, v>> \in (1 .. n) \X Nat
    OBVIOUS
  <2> QED BY <2>1
<1> HIDE DEF step
<1>2. PICK f : GoesOn(f, n, 1, step)
  BY CountedRecursion
<1>3. f = [k \in 0 .. n |-> IF k = 0 THEN 1 ELSE step[<<k, f[k - 1]>>]]
  BY <1>2 DEF GoesOn
<1> DEFINE S == {k \in 0 .. n : f[k] \in Nat}
<1>4. 0 \in S
  BY <1>3
<1>5. ASSUME NEW k \in 1 .. n, k - 1 \in S PROVE k \in S
  <2>1. f[k] = step[<<k, f[k - 1]>>] /\ f[k - 1] \in Nat
    BY <1>3, <1>5
  <2>2. f[k] = 2 * f[k - 1]
    BY <1>1, <2>1
  <2> QED BY <2>1, <2>2
<1> HIDE DEF S
<1>6. 0 .. n \subseteq S
  BY <1>4, <1>5, ByNumber
<1>7. \A k \in 0 .. n : k # 0 => step[<<k, f[k - 1]>>] = 2 * f[k - 1]
  <2>1. \A k \in 0 .. n : k # 0 => k \in 1 .. n /\ k - 1 \in 0 .. n
    OBVIOUS
  <2>2. \A k \in 0 .. n : f[k] \in Nat
    BY <1>6 DEF S
  <2> QED BY <1>1, <2>1, <2>2
<1>8. f = [k \in 0 .. n |-> IF k = 0 THEN 1 ELSE 2 * f[k - 1]]
  BY <1>3, <1>7
<1> QED BY <1>8 DEF Doubles

LEMMA DoublesAgree ==
  ASSUME NEW n \in Nat, NEW m \in Nat, NEW f, NEW g, Doubles(f, n), Doubles(g, m), n <= m
  PROVE  \A k \in 0 .. n : f[k] = g[k] /\ f[k] \in Nat \ {0}
<1> DEFINE S == {k \in 0 .. n : f[k] = g[k] /\ f[k] \in Nat \ {0}}
<1>1. /\ \A k \in 0 .. n : f[k] = IF k = 0 THEN 1 ELSE 2 * f[k - 1]
      /\ \A k \in 0 .. m : g[k] = IF k = 0 THEN 1 ELSE 2 * g[k - 1]
  <2>1. f = [k \in 0 .. n |-> IF k = 0 THEN 1 ELSE 2 * f[k - 1]]
    BY DEF Doubles
  <2>2. g = [k \in 0 .. m |-> IF k = 0 THEN 1 ELSE 2 * g[k - 1]]
    BY DEF Doubles
  <2>3. \A k \in 0 .. n : f[k] = IF k = 0 THEN 1 ELSE 2 * f[k - 1]
    BY <2>1
  <2>4. \A k \in 0 .. m : g[k] = IF k = 0 THEN 1 ELSE 2 * g[k - 1]
    BY <2>2
  <2> QED BY <2>3, <2>4
<1>2. 0 \in S
  BY <1>1
<1>3. \A k \in 1 .. n : k - 1 \in S => k \in S
  BY <1>1
<1> HIDE DEF S
<1>4. 0 .. n \subseteq S
  BY <1>2, <1>3, ByNumber
<1> QED BY <1>4 DEF S

LEMMA PowersAre ==
  ASSUME NEW n \in Nat
  PROVE  /\ PowerOf2(0) = 1
         /\ PowerOf2(n) \in Nat \ {0}
         /\ PowerOf2(n + 1) = 2 * PowerOf2(n)
<1> DEFINE F(m) == CHOOSE f : Doubles(f, m)
<1>1. ASSUME NEW m \in Nat PROVE Doubles(F(m), m) /\ PowerOf2(m) = F(m)[m]
  <2>1. Doubles(F(m), m)
    BY DoublesAre
  <2>2. PowerOf2(m) = F(m)[m]
    BY DEF PowerOf2, Doubles
  <2> QED BY <2>1, <2>2
<1> HIDE DEF F
<1>2. F(0)[0] = 1
  <2>1. F(0) = [k \in 0 .. 0 |-> IF k = 0 THEN 1 ELSE 2 * F(0)[k - 1]]
    BY <1>1 DEF Doubles
  <2> QED BY <2>1
<1>3. F(n)[n] = F(n + 1)[n] /\ F(n)[n] \in Nat \ {0}
  <2>1. Doubles(F(n), n) /\ Doubles(F(n + 1), n + 1) /\ n + 1 \in Nat /\ n <= n + 1
    BY <1>1
  <2>2. n \in 0 .. n
    OBVIOUS
  <2> QED BY <2>1, <2>2, DoublesAgree
<1>4. F(n + 1)[n + 1] = 2 * F(n + 1)[n]
  <2> DEFINE g == F(n + 1)
  <2>1. g = [k \in 0 .. n + 1 |-> IF k = 0 THEN 1 ELSE 2 * g[k - 1]]
    <3>1. n + 1 \in Nat
      OBVIOUS
    <3>2. Doubles(g, n + 1)
      BY <1>1, <3>1
    <3> QED BY <3>2 DEF Doubles
  <2> HIDE DEF g
  <2>2. n + 1 \in 0 .. n + 1 /\ n + 1 # 0 /\ (n + 1) - 1 = n
    OBVIOUS
  <2>3. g[n + 1] = 2 * g[n]
    BY <2>1, <2>2
  <2> QED BY <2>3 DEF g
<1>5. n + 1 \in Nat
  OBVIOUS
<1> QED BY <1>1, <1>2, <1>3, <1>4, <1>5

\* Rounding nothing.
LEMMA ExactIsExact ==
  ASSUME NEW x \in Int, Abs(x) <= PowerOf2(Precision)
  PROVE  Rounded(x) = x
<1> DEFINE P(k) == /\ Abs(x) <= PowerOf2(Precision + k)
                   /\ \A j \in 0 .. k - 1 : Abs(x) > PowerOf2(Precision + j)
           e == CHOOSE k \in 0 .. Abs(x) : P(k)
<1>1. Precision \in Nat /\ Precision + 0 = Precision /\ Abs(x) \in Nat
  BY TrackAssumption DEF Abs
<1>2. P(0) /\ 0 \in 0 .. Abs(x)
  BY <1>1
<1>3. ASSUME NEW k \in 0 .. Abs(x), P(k) PROVE k = 0
  <2>1. CASE k > 0
    <3>1. 0 \in 0 .. k - 1
      BY <1>1, <2>1
    <3>2. Abs(x) > PowerOf2(Precision + 0)
      BY <1>3, <3>1
    <3>3. PowerOf2(Precision) \in Nat
      BY <1>1, PowersAre
    <3>4. Abs(x) <= PowerOf2(Precision) /\ Abs(x) > PowerOf2(Precision)
      BY <1>1, <3>2
    <3> QED BY <1>1, <3>3, <3>4
  <2> QED BY <1>1, <2>1
<1>4. e = 0
  <2> HIDE DEF P
  <2>1. e \in 0 .. Abs(x) /\ P(e)
    BY <1>2
  <2> HIDE DEF e
  <2> QED BY <1>3, <2>1
<1>5. PowerOf2(e) = 1
  BY <1>4, PowersAre
<1>6. Rounded(x) = LET step == PowerOf2(e)
                       q == x \div step
                       r == x % step
                   IN  IF 2 * r < step \/ (2 * r = step /\ q % 2 = 0) THEN q * step ELSE (q + 1) * step
  BY DEF Rounded
<1> HIDE DEF e, P
<1>7. x \div 1 = x /\ x % 1 = 0
  OBVIOUS
<1> QED BY <1>5, <1>6, <1>7

-----------------------------------------------------------------------------
(* A flag that is told of its changes.                                     *)

Odd(n) == n % 2 = 1

EdgeRecords == [ratio : Int, rising : BOOLEAN]

\* Of the changes of T up to n, those behind lo and up to hi are listed.
ListsChanges(list, n, T, lo, hi) ==
    /\ list \in [0 .. n -> Seq(EdgeRecords)] /\ T \in [0 .. n -> BOOLEAN]
    /\ lo \in 0 .. n /\ hi \in lo .. n
    /\ list[0] = <<>>
    /\ \A k \in 1 .. n :
          \/ /\ (T[k - 1] # T[k]) /\ lo < k /\ k <= hi
             /\ \E edge \in EdgeRecords : edge.rising = T[k] /\ list[k] = Append(list[k - 1], edge)
          \/ ~(T[k - 1] # T[k] /\ lo < k /\ k <= hi) /\ list[k] = list[k - 1]

\* The flag after so many changes, and what they are.
Flips(list, on) ==
    \A i \in 1 .. Len(list) : list[i].rising = (on = (i % 2 = 0))

LEMMA OddNext ==
  ASSUME NEW n \in Nat
  PROVE  Odd(n + 1) = ~Odd(n) /\ ((n + 1) % 2 = 0) = Odd(n)
BY DEF Odd

LEMMA FlipsOnce ==
  ASSUME NEW list \in Seq(EdgeRecords), NEW on \in BOOLEAN, NEW flag \in BOOLEAN, Flips(list, on),
         NEW edge \in EdgeRecords, edge.rising = flag, ~flag = (on # Odd(Len(list)))
  PROVE  /\ Flips(Append(list, edge), on)
         /\ flag = (on # Odd(Len(Append(list, edge))))
<1> DEFINE more == Append(list, edge)
           n == Len(list)
<1>1. /\ n \in Nat /\ Len(more) = n + 1 /\ more[n + 1] = edge
      /\ \A i \in 1 .. n : more[i] = list[i]
  OBVIOUS
<1>2. Odd(n + 1) = ~Odd(n) /\ ((n + 1) % 2 = 0) = Odd(n)
  BY <1>1, OddNext
<1> HIDE DEF more, n
<1>3. flag = (on # Odd(Len(more)))
  <2>1. Odd(n) \in BOOLEAN /\ Odd(n + 1) \in BOOLEAN
    BY DEF Odd
  <2> QED BY <1>1, <1>2, <2>1 DEF n
<1>4. ASSUME NEW i \in 1 .. n + 1 PROVE more[i].rising = (on = (i % 2 = 0))
  <2>1. CASE i = n + 1
    <3>1. more[i].rising = flag /\ (i % 2 = 0) = Odd(n)
      BY <1>1, <1>2, <2>1
    <3>2. flag = (on = Odd(n))
      <4>1. Odd(n) \in BOOLEAN
        BY DEF Odd
      <4> QED BY <4>1 DEF n
    <3> QED BY <3>1, <3>2
  <2>2. CASE i # n + 1
    <3>1. i \in 1 .. n
      BY <1>1, <2>2
    <3> QED BY <1>1, <3>1 DEF Flips, n
  <2> QED BY <2>1, <2>2
<1> QED BY <1>1, <1>3, <1>4 DEF Flips, more

LEMMA ChangesAlternate ==
  ASSUME NEW n \in Nat, NEW list, NEW T, NEW lo, NEW hi, ListsChanges(list, n, T, lo, hi)
  PROVE  Flips(list[n], T[lo]) /\ T[hi] = (T[lo] # Odd(Len(list[n])))
<1>1. /\ list \in [0 .. n -> Seq(EdgeRecords)] /\ T \in [0 .. n -> BOOLEAN]
      /\ lo \in 0 .. n /\ hi \in lo .. n /\ hi \in 0 .. n /\ lo <= hi
      /\ list[0] = <<>>
  BY DEF ListsChanges
<1> DEFINE Until(k) == IF k <= lo THEN lo ELSE IF k <= hi THEN k ELSE hi
           Told(k) == Flips(list[k], T[lo]) /\ T[Until(k)] = (T[lo] # Odd(Len(list[k])))
           S == {k \in 0 .. n : Told(k)}
<1>2. 0 \in S
  <2>1. Len(list[0]) = 0 /\ ~Odd(0) /\ Until(0) = lo
    BY <1>1 DEF Odd
  <2>2. Flips(list[0], T[lo])
    BY <2>1 DEF Flips
  <2>3. T[lo] = (T[lo] # Odd(Len(list[0])))
    <3>1. T[lo] \in BOOLEAN
      BY <1>1
    <3>2. Odd(Len(list[0])) = FALSE
      BY <2>1 DEF Odd
    <3> HIDE DEF Until
    <3> QED BY <3>1, <3>2
  <2> QED BY <2>1, <2>2, <2>3
<1>3. ASSUME NEW k \in 1 .. n, k - 1 \in S PROVE k \in S
  <2>1. k - 1 \in 0 .. n /\ k \in 0 .. n /\ Told(k - 1)
    BY <1>3
  <2>2. list[k - 1] \in Seq(EdgeRecords) /\ T[lo] \in BOOLEAN /\ T[k] \in BOOLEAN /\ T[k - 1] \in BOOLEAN
    BY <1>1, <2>1
  <2>3. CASE T[k - 1] # T[k] /\ lo < k /\ k <= hi
    <3>1. PICK edge \in EdgeRecords : edge.rising = T[k] /\ list[k] = Append(list[k - 1], edge)
      BY <2>3 DEF ListsChanges
    <3>2. Until(k - 1) = k - 1 /\ Until(k) = k
      BY <1>1, <2>3
    <3>3. ~T[k] = (T[lo] # Odd(Len(list[k - 1])))
      <4>1. T[k - 1] = (T[lo] # Odd(Len(list[k - 1])))
        BY <2>1, <3>2
      <4>2. T[k - 1] = ~T[k]
        BY <2>2, <2>3
      <4> QED BY <4>1, <4>2
    <3>4. /\ Flips(Append(list[k - 1], edge), T[lo])
          /\ T[k] = (T[lo] # Odd(Len(Append(list[k - 1], edge))))
      BY <2>1, <2>2, <3>1, <3>3, FlipsOnce
    <3>5. Told(k)
      BY <3>1, <3>2, <3>4
    <3> QED BY <2>1, <3>5
  <2>4. CASE ~(T[k - 1] # T[k] /\ lo < k /\ k <= hi)
    <3>1. list[k] = list[k - 1]
      BY <2>4 DEF ListsChanges
    <3>2. T[Until(k)] = T[Until(k - 1)]
      <4>1. CASE k <= lo
        <5>1. Until(k) = lo /\ Until(k - 1) = lo
          BY <1>1, <4>1
        <5> QED BY <5>1
      <4>2. CASE k > hi
        <5>1. Until(k) = hi /\ Until(k - 1) = hi
          BY <1>1, <4>2
        <5> QED BY <5>1
      <4>3. CASE lo < k /\ k <= hi
        <5>1. T[k - 1] = T[k]
          BY <2>4, <4>3
        <5>2. Until(k - 1) = k - 1 /\ Until(k) = k
          BY <1>1, <4>3
        <5> QED BY <5>1, <5>2
      <4>4. k <= lo \/ k > hi \/ (lo < k /\ k <= hi)
        BY <1>1
      <4> QED BY <4>1, <4>2, <4>3, <4>4
    <3>3. Told(k)
      BY <2>1, <3>1, <3>2
    <3> QED BY <2>1, <3>3
  <2> QED BY <2>3, <2>4
<1> HIDE DEF S
<1>4. 0 .. n \subseteq S
  BY <1>2, <1>3, ByNumber
<1>5. Told(n) /\ Until(n) = hi
  <2>1. n \in S
    BY <1>4
  <2>2. Told(n)
    BY <2>1 DEF S
  <2>3. Until(n) = hi
    BY <1>1
  <2> QED BY <2>2, <2>3
<1> QED BY <1>5

-----------------------------------------------------------------------------
(* The line of keys.                                                       *)

LEMMA NumbersAre ==
  ASSUME NEW n \in Nat \ {0}
  PROVE  /\ \A g \in Int : g \div n \in Int /\ g % n \in 0 .. n - 1 /\ g = (g \div n) * n + (g % n)
         /\ \A q \in Int, r \in 0 .. n - 1 : (q * n + r) \div n = q /\ (q * n + r) % n = r
<1>1. ASSUME NEW g \in Int
      PROVE  g \div n \in Int /\ g % n \in 0 .. n - 1 /\ g = (g \div n) * n + (g % n)
  OBVIOUS
<1>2. ASSUME NEW q \in Int, NEW r \in 0 .. n - 1
      PROVE  (q * n + r) \div n = q /\ (q * n + r) % n = r
  OBVIOUS
<1> QED BY <1>1, <1>2

LEMMA WholeSteps ==
  ASSUME NEW n \in Nat \ {0}, NEW a \in Int, NEW b \in Int
  PROVE  /\ a <= b => a * n <= b * n
         /\ a < b => a * n + n <= b * n
         /\ a * n <= b * n => a <= b
         /\ a * n < b * n => a < b
         /\ a * n \in Int /\ (a + 1) * n = a * n + n /\ (a - 1) * n = a * n - n
<1>1. ASSUME NEW c \in Int, NEW d \in Int, c <= d PROVE c * n <= d * n
  <2>1. PICK e \in Nat : d = c + e
    <3>1. d - c \in Nat /\ d = c + (d - c)
      BY <1>1
    <3> QED BY <3>1
  <2>2. (c + e) * n = c * n + e * n /\ e * n >= 0 /\ e * n \in Int /\ c * n \in Int
    OBVIOUS
  <2> QED BY <2>1, <2>2
<1>2. /\ a * n \in Int /\ b * n \in Int /\ (a + 1) * n = a * n + n /\ (a - 1) * n = a * n - n
      /\ (b + 1) * n = b * n + n
  OBVIOUS
<1>3. a < b => a + 1 <= b
  OBVIOUS
<1>4. b < a => b + 1 <= a
  OBVIOUS
<1>5. a < b => a * n + n <= b * n
  BY <1>1, <1>2, <1>3
<1>6. b < a => b * n + n <= a * n
  BY <1>1, <1>2, <1>4
<1>7. a <= b => a * n <= b * n
  BY <1>1
<1>8. b <= a => b * n <= a * n
  BY <1>1
<1> DEFINE x == a * n
           y == b * n
<1>9. x \in Int /\ y \in Int /\ (b < a => y + n <= x) /\ (b <= a => y <= x)
  BY <1>2, <1>6, <1>8
<1> HIDE DEF x, y
<1>10. (x <= y => a <= b) /\ (x < y => a < b)
  BY <1>9
<1> QED BY <1>2, <1>5, <1>7, <1>10 DEF x, y

\* A built track of floats.
BuiltFloat(b) ==
    /\ b \in RawKeys(Int)
    /\ Len(b) = 0 \/ (Len(b) = 1 /\ b[1].ratio = 0) \/ Spans(b)

\* Above the threshold from key g on.
On(threshold, g) == Key(track, KeyOfLoop(g)).value > threshold

LEMMA KeysOfLoops ==
  ASSUME BuiltFloat(track), NEW n, n = NumKeys(track), n # 0
  PROVE  /\ n \in Nat \ {0} /\ Unit \in Nat \ {0}
         /\ \A i \in 0 .. n - 1 : /\ Key(track, i).ratio \in 0 .. Unit /\ Key(track, i).value \in Int
                                  /\ Key(track, i).step \in BOOLEAN
         /\ \A i \in 1 .. n - 1 : /\ Key(track, i - 1).ratio < Key(track, i).ratio
                                  /\ Before(track, i) = i - 1
         /\ Key(track, 0).ratio = 0
         /\ n > 1 => Key(track, n - 1).ratio = Unit
         /\ Before(track, 0) = n - 1
<1>1. n = Len(track) /\ n \in Nat \ {0} /\ track \in RawKeys(Int)
  BY KeyOf DEF NumKeys, BuiltFloat
<1>2. Unit \in Nat \ {0}
  BY TrackAssumption
<1>3. \A k \in 1 .. n : track[k].step \in BOOLEAN /\ track[k].ratio \in Int /\ track[k].value \in Int
  BY <1>1, KeyOf
<1>4. Spans(track) \/ (n = 1 /\ track[1].ratio = 0)
  BY <1>1 DEF BuiltFloat
<1>5. /\ Before(track, 0) = n - 1 /\ \A i \in 1 .. n - 1 : Before(track, i) = i - 1
  BY <1>1 DEF Before, NumKeys
<1>6. \A i \in 0 .. n - 1 : i + 1 \in 1 .. n /\ Key(track, i) = track[i + 1]
  BY <1>1 DEF Key
<1>7. Key(track, 0) = track[1] /\ Key(track, n - 1) = track[n]
  BY <1>1 DEF Key
<1>8. CASE Spans(track)
  <2>1. /\ n >= 2 /\ track[1].ratio = 0 /\ track[n].ratio = Unit
        /\ \A k \in 1 .. n - 1 : track[k].ratio < track[k + 1].ratio
    BY <1>1, <1>8 DEF Spans
  <2>2. ASSUME NEW i \in 1 .. n - 1 PROVE Key(track, i - 1).ratio < Key(track, i).ratio
    <3>1. i \in 0 .. n - 1 /\ i - 1 \in 0 .. n - 1 /\ (i - 1) + 1 = i
      BY <1>1
    <3> QED BY <1>6, <2>1, <3>1
  <2>3. ASSUME NEW k \in 1 .. n PROVE track[k].ratio \in 0 .. Unit
    <3>1. ASSUME NEW j \in 1 .. n, NEW l \in 1 .. n, j < l PROVE track[j].ratio < track[l].ratio
      <4> DEFINE S == {i \in 0 .. n - j : i = 0 \/ track[j].ratio < track[j + i].ratio}
      <4>1. 0 \in S
        BY <1>1
      <4>2. ASSUME NEW i \in 1 .. n - j, i - 1 \in S PROVE i \in S
        <5>1. (j + i) - 1 \in 1 .. n - 1 /\ j + i \in 1 .. n /\ ((j + i) - 1) + 1 = j + i /\ j + (i - 1) = (j + i) - 1
          BY <1>1
        <5>2. track[(j + i) - 1].ratio < track[j + i].ratio
          BY <2>1, <5>1
        <5>3. i - 1 = 0 \/ track[j].ratio < track[(j + i) - 1].ratio
          BY <4>2, <5>1
        <5>4. i - 1 = 0 => (j + i) - 1 = j
          BY <5>1
        <5>5. (j + i) - 1 \in 1 .. n
          BY <1>1, <5>1
        <5>6. track[j].ratio < track[j + i].ratio
          BY <1>3, <5>1, <5>2, <5>3, <5>4, <5>5
        <5> QED BY <1>1, <5>6
      <4> HIDE DEF S
      <4>3. n - j \in Nat /\ l - j \in 0 .. n - j /\ l - j # 0 /\ j + (l - j) = l
        BY <1>1, <3>1
      <4>4. 0 .. n - j \subseteq S
        BY <4>1, <4>2, <4>3, ByNumber
      <4>5. l - j \in S
        BY <4>3, <4>4
      <4>6. l - j = 0 \/ track[j].ratio < track[j + (l - j)].ratio
        BY <4>5 DEF S
      <4> QED BY <4>3, <4>6
    <3>2. 1 \in 1 .. n /\ n \in 1 .. n /\ track[k].ratio \in Int
      BY <1>1, <1>3
    <3>3. k = 1 \/ track[1].ratio < track[k].ratio
      BY <3>1, <3>2
    <3>4. k = n \/ track[k].ratio < track[n].ratio
      BY <3>1, <3>2
    <3> QED BY <1>2, <2>1, <3>2, <3>3, <3>4
  <2>4. \A i \in 0 .. n - 1 : Key(track, i).ratio \in 0 .. Unit /\ Key(track, i).value \in Int
                                 /\ Key(track, i).step \in BOOLEAN
    BY <1>3, <1>6, <2>3
  <2> QED BY <1>1, <1>2, <1>5, <1>7, <2>1, <2>2, <2>4
<1>9. CASE n = 1 /\ track[1].ratio = 0
  BY <1>1, <1>2, <1>3, <1>5, <1>6, <1>7, <1>9
<1> QED BY <1>4, <1>8, <1>9

\* Keys of a loop ascend.
LEMMA LoopAscends ==
  ASSUME BuiltFloat(track), NEW n, n = NumKeys(track), n # 0,
         NEW i \in 0 .. n - 1, NEW j \in i .. n - 1
  PROVE  Key(track, i).ratio <= Key(track, j).ratio
<1>1. n \in Nat \ {0} /\ \A k \in 0 .. n - 1 : Key(track, k).ratio \in Int
  BY KeysOfLoops
<1> DEFINE S == {k \in 0 .. (n - 1) - i : Key(track, i).ratio <= Key(track, i + k).ratio}
<1>2. 0 \in S
  BY <1>1
<1>3. ASSUME NEW k \in 1 .. (n - 1) - i, k - 1 \in S PROVE k \in S
  <2>1. i + k \in 1 .. n - 1 /\ i + k \in 0 .. n - 1 /\ (i + k) - 1 \in 0 .. n - 1 /\ i + (k - 1) = (i + k) - 1
    BY <1>1
  <2>2. Key(track, (i + k) - 1).ratio < Key(track, i + k).ratio
    BY <2>1, KeysOfLoops
  <2>3. Key(track, i).ratio <= Key(track, (i + k) - 1).ratio
    BY <1>3, <2>1
  <2>4. Key(track, i).ratio <= Key(track, i + k).ratio
    BY <1>1, <2>1, <2>2, <2>3
  <2> QED BY <2>4
<1> HIDE DEF S
<1>4. (n - 1) - i \in Nat /\ j - i \in 0 .. (n - 1) - i /\ i + (j - i) = j
  BY <1>1
<1>5. j - i \in S
  BY <1>2, <1>3, <1>4, ByNumber
<1> QED BY <1>4, <1>5 DEF S

\* The key before, on the line.
LEMMA CrossingIsChange ==
  ASSUME BuiltFloat(track), NumKeys(track) # 0, NEW threshold, NEW g \in Int
  PROVE  IsCrossing(track, threshold, KeyOfLoop(g)) <=> (On(threshold, g - 1) # On(threshold, g))
<1> DEFINE n == NumKeys(track)
<1>1. n \in Nat \ {0} /\ Before(track, 0) = n - 1 /\ \A i \in 1 .. n - 1 : Before(track, i) = i - 1
  BY KeysOfLoops
<1> HIDE DEF n
<1> DEFINE q == g \div n
           r == g % n
<1>2. q \in Int /\ r \in 0 .. n - 1 /\ g = q * n + r
  BY <1>1, NumbersAre
<1> HIDE DEF q, r
<1>3. (g - 1) % n = Before(track, r)
  <2>1. CASE r = 0
    <3>1. g - 1 = (q - 1) * n + (n - 1) /\ n - 1 \in 0 .. n - 1 /\ q - 1 \in Int
      <4>1. (q - 1) * n = q * n - n /\ q * n \in Int
        BY <1>1, <1>2, WholeSteps
      <4> QED BY <1>1, <1>2, <2>1, <4>1
    <3> DEFINE p == q - 1
               y == n - 1
    <3>2. p \in Int /\ y \in 0 .. n - 1 /\ g - 1 = p * n + y
      BY <3>1
    <3> HIDE DEF p, y
    <3>3. (p * n + y) % n = y
      BY <1>1, <3>2, NumbersAre
    <3> QED BY <1>1, <2>1, <3>2, <3>3 DEF y
  <2>2. CASE r # 0
    <3>1. g - 1 = q * n + (r - 1) /\ r - 1 \in 0 .. n - 1 /\ r \in 1 .. n - 1
      <4>1. q * n \in Int
        BY <1>1, <1>2
      <4> QED BY <1>1, <1>2, <2>2, <4>1
    <3> DEFINE y == r - 1
    <3>2. y \in 0 .. n - 1 /\ g - 1 = q * n + y
      BY <3>1
    <3> HIDE DEF y
    <3>3. (q * n + y) % n = y
      BY <1>1, <1>2, <3>2, NumbersAre
    <3> QED BY <1>1, <3>1, <3>2, <3>3 DEF y
  <2> QED BY <2>1, <2>2
<1> QED BY <1>3 DEF IsCrossing, On, KeyOfLoop, n, r

-----------------------------------------------------------------------------
(* Where a track crosses.                                                  *)

LEMMA UnlerpNumbers ==
  ASSUME NEW a \in Nat, NEW m \in Nat \ {0}, a <= m, NEW d \in Nat, (a * d) % m = 0
  PROVE  (a * d) \div m \in 0 .. d /\ m * ((a * d) \div m) = a * d
<1> DEFINE q == (a * d) \div m
<1>1. a * d \in Nat /\ q \in Int /\ a * d = q * m + ((a * d) % m)
  <2>1. a * d \in Nat
    OBVIOUS
  <2> QED BY <2>1, NumbersAre
<1>2. a * d = q * m
  BY <1>1
<1>3. q * m <= d * m
  <2>1. a * d <= m * d
    <3>1. d = 0 \/ d \in Nat \ {0}
      OBVIOUS
    <3>2. d # 0 => a * d <= m * d
      BY WholeSteps
    <3> QED BY <3>1, <3>2
  <2>2. m * d = d * m
    OBVIOUS
  <2> QED BY <1>2, <2>1, <2>2
<1>4. 0 * m <= q * m
  BY <1>1, <1>2
<1> HIDE DEF q
<1>5. q <= d /\ 0 <= q
  BY <1>1, <1>3, <1>4, WholeSteps
<1>6. m * q = q * m
  BY <1>1
<1> QED BY <1>1, <1>2, <1>5, <1>6 DEF q

LEMMA NegatedRemainder ==
  ASSUME NEW x \in Int, NEW m \in Nat \ {0}, (-x) % m = 0
  PROVE  x % m = 0
<1> DEFINE q == (-x) \div m
<1>1. -x = q * m + ((-x) % m) /\ q \in Int
  BY NumbersAre
<1> HIDE DEF q
<1>2. x = (-q) * m + 0
  <2>1. (-q) * m = -(q * m) /\ q * m \in Int
    BY <1>1
  <2> QED BY <1>1, <2>1
<1>3. ((-q) * m + 0) % m = 0
  <2>1. -q \in Int /\ 0 \in 0 .. m - 1
    BY <1>1
  <2> QED BY <2>1, NumbersAre
<1> QED BY <1>2, <1>3

\* The place at which a line reaches the threshold.
Reaches(threshold, k0, k1, r) ==
    (k1.value - k0.value) * (r - k0.ratio) = (threshold - k0.value) * (k1.ratio - k0.ratio)

LEMMA LinesReach ==
  ASSUME NEW threshold \in Int, NEW k0, NEW k1,
         k0.value \in Int, k1.value \in Int, k0.ratio \in Int, k1.ratio \in Int, k0.ratio <= k1.ratio,
         (k0.value > threshold) # (k1.value > threshold),
         ((threshold - k0.value) * (k1.ratio - k0.ratio)) % Abs(k1.value - k0.value) = 0
  PROVE  /\ Unlerped(k0, k1, threshold) \in k0.ratio .. k1.ratio
         /\ Reaches(threshold, k0, k1, Unlerped(k0, k1, threshold))
         /\ \A r \in Int : Reaches(threshold, k0, k1, r) => r = Unlerped(k0, k1, threshold)
<1> DEFINE v0 == k0.value
           v1 == k1.value
           r0 == k0.ratio
           d == k1.ratio - k0.ratio
           a == Abs(threshold - v0)
           m == Abs(v1 - v0)
           q == (a * d) \div m
<1>1. v0 \in Int /\ v1 \in Int /\ r0 \in Int /\ d \in Nat /\ k1.ratio = r0 + d
  OBVIOUS
<1>2. \/ /\ v0 <= threshold /\ threshold < v1
         /\ a = threshold - v0 /\ m = v1 - v0
      \/ /\ v1 <= threshold /\ threshold < v0
         /\ a = v0 - threshold /\ m = v0 - v1
  BY <1>1 DEF Abs
<1>3. ((threshold - v0) * d) % m = 0
  OBVIOUS
<1>4. Unlerped(k0, k1, threshold) = r0 + q
  BY DEF Unlerped
<1>5. \A r : Reaches(threshold, k0, k1, r) <=> (v1 - v0) * (r - r0) = (threshold - v0) * d
  BY DEF Reaches
<1> HIDE DEF v0, v1, r0, d, a, m
<1>6. a \in Nat /\ m \in Nat \ {0} /\ a <= m
  BY <1>1, <1>2
<1>7. (a * d) % m = 0
  <2>1. CASE a = threshold - v0
    BY <1>3, <2>1
  <2>2. CASE a = v0 - threshold
    <3>1. (threshold - v0) * d = -(a * d) /\ a * d \in Int
      BY <1>1, <1>6, <2>2
    <3> QED BY <1>3, <1>6, <3>1, NegatedRemainder
  <2> QED BY <1>2, <2>1, <2>2
<1>8. q \in 0 .. d /\ m * q = a * d
  BY <1>1, <1>6, <1>7, UnlerpNumbers
<1> HIDE DEF q
<1>9. r0 + q \in r0 .. k1.ratio /\ (r0 + q) - r0 = q /\ q \in Int
  BY <1>1, <1>8
<1>10. (v1 - v0) * q = (threshold - v0) * d
  <2>1. CASE a = threshold - v0 /\ m = v1 - v0
    BY <1>8, <2>1
  <2>2. CASE a = v0 - threshold /\ m = v0 - v1
    <3>1. (v1 - v0) * q = -(m * q) /\ (threshold - v0) * d = -(a * d)
      BY <1>1, <1>9, <2>2
    <3> QED BY <1>8, <3>1
  <2> QED BY <1>2, <2>1, <2>2
<1>11. ASSUME NEW r \in Int, (v1 - v0) * (r - r0) = (threshold - v0) * d
       PROVE  r = r0 + q
  <2> DEFINE w == v1 - v0
             x == r - r0
  <2>1. w \in Int /\ w # 0 /\ x \in Int /\ w * x = w * q
    BY <1>1, <1>2, <1>10, <1>11
  <2> HIDE DEF w, x
  <2>2. x = q
    BY <1>9, <2>1
  <2> QED BY <1>1, <1>9, <2>2 DEF x
<1> QED BY <1>4, <1>5, <1>9, <1>10, <1>11 DEF r0

\* What is found between two keys is where the track crosses.
LEMMA DetectsCrossings ==
  ASSUME BuiltFloat(track), NEW n, n = NumKeys(track), n # 0, NEW threshold \in Int,
         CrossesOnGrid(track, threshold), NEW i \in 0 .. n - 1, NEW forward \in BOOLEAN
  PROVE  /\ DetectEdge(i, threshold, forward).detected <=> IsCrossing(track, threshold, i)
         /\ IsCrossing(track, threshold, i) =>
               /\ DetectEdge(i, threshold, forward).edge =
                     [ratio |-> CrossingRatio(track, threshold, i),
                      rising |-> Rises(track, threshold, i) = forward]
               /\ CrossingRatio(track, threshold, i) \in 0 .. Key(track, i).ratio
               /\ i # 0 => /\ Key(track, i - 1).ratio <= CrossingRatio(track, threshold, i)
                           /\ \/ Key(track, i - 1).step /\ CrossingRatio(track, threshold, i) = Key(track, i).ratio
                              \/ /\ ~Key(track, i - 1).step
                                 /\ Reaches(threshold, Key(track, i - 1), Key(track, i),
                                            CrossingRatio(track, threshold, i))
<1> DEFINE k0 == Key(track, Before(track, i))
           k1 == Key(track, i)
           rising == k0.value <= threshold /\ k1.value > threshold
           falling == k0.value > threshold /\ k1.value <= threshold
           c == CrossingRatio(track, threshold, i)
<1>1. n \in Nat \ {0} /\ Before(track, i) \in 0 .. n - 1 /\ (i # 0 => i \in 1 .. n - 1 /\ Before(track, i) = i - 1)
  <2>1. n \in Nat \ {0} /\ Before(track, 0) = n - 1 /\ \A j \in 1 .. n - 1 : Before(track, j) = j - 1
    BY KeysOfLoops
  <2> QED BY <2>1
<1>2. /\ k0.value \in Int /\ k1.value \in Int /\ k0.ratio \in 0 .. Unit /\ k1.ratio \in 0 .. Unit
      /\ k0.step \in BOOLEAN /\ Unit \in Nat
      /\ (i # 0 => k0.ratio < k1.ratio) /\ (i = 0 => k1.ratio = 0)
  BY <1>1, KeysOfLoops
<1>3. IsCrossing(track, threshold, i) <=> ((k0.value > threshold) # (k1.value > threshold))
  BY DEF IsCrossing
<1>4. DetectEdge(i, threshold, forward) =
        [detected |-> rising \/ falling,
         edge |-> IF rising \/ falling
                  THEN [ratio |-> IF k0.step THEN k1.ratio
                                  ELSE IF i = 0 THEN 0 ELSE Unlerped(k0, k1, threshold),
                        rising |-> IF rising THEN forward ELSE ~forward]
                  ELSE NoEdge]
  BY DEF DetectEdge
<1>5. Rises(track, threshold, i) <=> k1.value > threshold
  BY DEF Rises
<1>6. c = IF k0.step \/ i = 0 THEN k1.ratio
          ELSE CHOOSE r \in k0.ratio .. k1.ratio : Reaches(threshold, k0, k1, r)
  BY DEF CrossingRatio, Reaches
<1>7. IsCrossing(track, threshold, i) /\ i # 0 =>
        ((threshold - k0.value) * (k1.ratio - k0.ratio)) % Abs(k1.value - k0.value) = 0
  BY <1>1 DEF CrossesOnGrid, NumKeys
<1>8. i # 0 => k0 = Key(track, i - 1)
  BY <1>1
<1> HIDE DEF k0, k1, c
<1>9. (rising \/ falling) <=> IsCrossing(track, threshold, i)
  BY <1>2, <1>3
<1>10. DetectEdge(i, threshold, forward).detected <=> IsCrossing(track, threshold, i)
  <2>1. \A e : [detected |-> rising \/ falling, edge |-> e].detected = (rising \/ falling)
    OBVIOUS
  <2>2. DetectEdge(i, threshold, forward).detected = (rising \/ falling)
    BY <1>4, <2>1
  <2> HIDE DEF rising, falling
  <2> QED BY <1>9, <2>2
<1>11. ASSUME IsCrossing(track, threshold, i)
       PROVE  /\ c = IF k0.step THEN k1.ratio ELSE IF i = 0 THEN 0 ELSE Unlerped(k0, k1, threshold)
              /\ c \in 0 .. k1.ratio
              /\ i # 0 => /\ k0.ratio <= c
                          /\ (k0.step /\ c = k1.ratio) \/ (~k0.step /\ Reaches(threshold, k0, k1, c))
  <2>1. CASE k0.step \/ i = 0
    BY <1>2, <1>6, <2>1
  <2>2. CASE ~(k0.step \/ i = 0)
    <3> DEFINE u == Unlerped(k0, k1, threshold)
    <3>1. /\ u \in k0.ratio .. k1.ratio /\ Reaches(threshold, k0, k1, u)
          /\ \A r \in Int : Reaches(threshold, k0, k1, r) => r = u
      <4>1. k0.ratio \in Int /\ k1.ratio \in Int /\ k0.ratio <= k1.ratio
        BY <1>2, <2>2
      <4> QED BY <1>2, <1>3, <1>7, <1>11, <2>2, <4>1, LinesReach
    <3> HIDE DEF u
    <3>2. c \in k0.ratio .. k1.ratio /\ Reaches(threshold, k0, k1, c)
      BY <1>6, <2>2, <3>1
    <3>3. c = u
      BY <1>2, <3>1, <3>2
    <3> QED BY <1>2, <2>2, <3>2, <3>3 DEF u
  <2> QED BY <2>1, <2>2
<1>12. ASSUME IsCrossing(track, threshold, i)
       PROVE  DetectEdge(i, threshold, forward).edge =
                 [ratio |-> c, rising |-> Rises(track, threshold, i) = forward]
  <2>1. DetectEdge(i, threshold, forward).edge =
          [ratio |-> IF k0.step THEN k1.ratio ELSE IF i = 0 THEN 0 ELSE Unlerped(k0, k1, threshold),
           rising |-> IF rising THEN forward ELSE ~forward]
    BY <1>4, <1>9, <1>12
  <2>2. (IF rising THEN forward ELSE ~forward) = (Rises(track, threshold, i) = forward)
    <3>1. rising = (k1.value > threshold)
      BY <1>2, <1>3, <1>12
    <3>2. Rises(track, threshold, i) = rising
      BY <1>5, <3>1 DEF Rises
    <3> QED BY <3>2
  <2> QED BY <1>11, <1>12, <2>1, <2>2
<1> QED BY <1>8, <1>10, <1>11, <1>12 DEF c, k1

\* The crossings up to key b of the line are those a ratio has passed.
Splits(threshold, h, b) ==
    \A g \in Int : IsCrossing(track, threshold, KeyOfLoop(g)) =>
                      (Passed(g, threshold, h) <=> g <= b)

\* A ratio is in a loop, and the loops before it are passed.
LEMMA OtherLoops ==
  ASSUME BuiltFloat(track), NEW n, n = NumKeys(track), n # 0, NEW threshold \in Int,
         CrossesOnGrid(track, threshold), NEW h \in Int, NEW g \in Int,
         IsCrossing(track, threshold, KeyOfLoop(g))
  PROVE  /\ g \div n < h \div Unit => Passed(g, threshold, h)
         /\ g \div n > h \div Unit => ~Passed(g, threshold, h)
         /\ g \div n = h \div Unit =>
               (Passed(g, threshold, h) <=> CrossingRatio(track, threshold, KeyOfLoop(g)) < h % Unit)
<1> DEFINE q == g \div n
           r == CrossingRatio(track, threshold, KeyOfLoop(g))
           l == h \div Unit
           m == h % Unit
<1>1. n \in Nat \ {0} /\ Unit \in Nat \ {0}
  BY KeysOfLoops
<1>2. q \in Int /\ KeyOfLoop(g) \in 0 .. n - 1 /\ Key(track, KeyOfLoop(g)).ratio \in 0 .. Unit
  <2>1. q \in Int /\ KeyOfLoop(g) \in 0 .. n - 1
    BY <1>1, NumbersAre DEF KeyOfLoop
  <2> QED BY <2>1, KeysOfLoops
<1>3. r \in 0 .. Key(track, KeyOfLoop(g)).ratio
  BY <1>2, DetectsCrossings
<1>4. l \in Int /\ m \in 0 .. Unit - 1 /\ h = l * Unit + m
  BY <1>1, NumbersAre
<1>5. Passed(g, threshold, h) <=> q * Unit + r < h \/ q * Unit + Unit <= h
  BY DEF Passed, Position, LoopOf
<1>6. r \in 0 .. Unit
  <2> DEFINE k == Key(track, KeyOfLoop(g)).ratio
  <2>1. k \in 0 .. Unit /\ r \in 0 .. k
    BY <1>2, <1>3
  <2> HIDE DEF k, r
  <2> QED BY <1>1, <2>1
<1>7. /\ q * Unit \in Int /\ l * Unit \in Int
      /\ q < l => q * Unit + Unit <= l * Unit
      /\ l < q => l * Unit + Unit <= q * Unit
  BY <1>1, <1>2, <1>4, WholeSteps
<1> HIDE DEF q, r, l, m
<1> DEFINE x == q * Unit
           y == l * Unit
<1>8. /\ x \in Int /\ y \in Int /\ h = y + m
      /\ q < l => x + Unit <= y
      /\ l < q => y + Unit <= x
      /\ q = l => x = y
      /\ Passed(g, threshold, h) <=> x + r < h \/ x + Unit <= h
  BY <1>4, <1>5, <1>7
<1> HIDE DEF x, y
<1>9. q < l => Passed(g, threshold, h)
  BY <1>1, <1>4, <1>8
<1>10. q > l => ~Passed(g, threshold, h)
  <2> SUFFICES ASSUME q > l PROVE ~Passed(g, threshold, h)
    OBVIOUS
  <2>1. y + Unit <= x
    BY <1>2, <1>4, <1>8 DEF q
  <2> QED BY <1>1, <1>4, <1>6, <1>8, <2>1
<1>11. q = l => (Passed(g, threshold, h) <=> r < m)
  BY <1>1, <1>4, <1>6, <1>8
<1> QED BY <1>9, <1>10, <1>11 DEF q, r, l, m

\* Half a grid point before a ratio, on a line between two keys.
LEMMA HalfwayNumbers ==
  ASSUME NEW v0 \in Int, NEW v1 \in Int, NEW t \in Int, NEW r0 \in Int, NEW r1 \in Int, NEW r \in Int,
         NEW u \in Int, (v1 - v0) * (r - r0) = (t - v0) * (r1 - r0)
  PROVE  v0 * (2 * (r1 - r0) - (u - 2 * r0)) + v1 * (u - 2 * r0) - t * (2 * (r1 - r0))
            = (v1 - v0) * (u - 2 * r)
<1>1. (v1 - v0) * (r - r0) = v1 * r - v1 * r0 - v0 * r + v0 * r0
  OBVIOUS
<1>2. (t - v0) * (r1 - r0) = t * r1 - t * r0 - v0 * r1 + v0 * r0
  OBVIOUS
<1>3. v0 * (2 * (r1 - r0) - (u - 2 * r0)) = 2 * (v0 * r1) - v0 * u
  OBVIOUS
<1>4. v1 * (u - 2 * r0) = v1 * u - 2 * (v1 * r0)
  OBVIOUS
<1>5. t * (2 * (r1 - r0)) = 2 * (t * r1) - 2 * (t * r0)
  OBVIOUS
<1>6. (v1 - v0) * (u - 2 * r) = v1 * u - 2 * (v1 * r) - v0 * u + 2 * (v0 * r)
  OBVIOUS
<1> DEFINE a == v1 * r
           b == v1 * r0
           c == v0 * r
           d == v0 * r0
           e == t * r1
           f == t * r0
           g == v0 * r1
           i == v0 * u
           j == v1 * u
<1>7. /\ a \in Int /\ b \in Int /\ c \in Int /\ d \in Int /\ e \in Int /\ f \in Int /\ g \in Int
      /\ i \in Int /\ j \in Int
      /\ a - b - c + d = e - f - g + d
      /\ v0 * (2 * (r1 - r0) - (u - 2 * r0)) = 2 * g - i
      /\ v1 * (u - 2 * r0) = j - 2 * b
      /\ t * (2 * (r1 - r0)) = 2 * e - 2 * f
      /\ (v1 - v0) * (u - 2 * r) = j - 2 * a - i + 2 * c
  BY <1>1, <1>2, <1>3, <1>4, <1>5, <1>6
<1> HIDE DEF a, b, c, d, e, f, g, i, j
<1> QED BY <1>7

LEMMA Mixed ==
  ASSUME NEW v0 \in Int, NEW v1 \in Int, NEW t \in Int, NEW L \in Int, NEW at \in Int, 0 < at, at < L
  PROVE  /\ v0 > t /\ v1 > t => v0 * (L - at) + v1 * at > t * L
         /\ v0 <= t /\ v1 <= t => ~(v0 * (L - at) + v1 * at > t * L)
<1> DEFINE p == L - at
           a == (v0 - t) * p
           b == (v1 - t) * at
<1>1. p \in Nat \ {0} /\ at \in Nat \ {0}
  OBVIOUS
<1>2. v0 * (L - at) + v1 * at - t * L = a + b
  OBVIOUS
<1>3. a \in Int /\ b \in Int /\ v0 * (L - at) + v1 * at \in Int /\ t * L \in Int
  OBVIOUS
<1>4. v0 > t /\ v1 > t => a > 0 /\ b > 0
  <2>1. ASSUME NEW x \in Int, NEW y \in Nat \ {0}, x > 0 PROVE x * y > 0
    BY <2>1
  <2> HIDE DEF p
  <2> QED BY <1>1, <2>1
<1>5. v0 <= t /\ v1 <= t => a <= 0 /\ b <= 0
  <2>1. ASSUME NEW x \in Int, NEW y \in Nat \ {0}, x <= 0 PROVE x * y <= 0
    BY <2>1
  <2> HIDE DEF p
  <2> QED BY <1>1, <2>1
<1> DEFINE s == v0 * (L - at) + v1 * at
           w == t * L
<1>6. s - w = a + b /\ s \in Int /\ w \in Int
  BY <1>2, <1>3
<1> HIDE DEF a, b, s, w
<1>7. (v0 > t /\ v1 > t => s > w) /\ (v0 <= t /\ v1 <= t => ~(s > w))
  BY <1>3, <1>4, <1>5, <1>6
<1> QED BY <1>7 DEF s, w

\* What the sampling job gives half a grid point before a ratio is what the last crossing
\* that the ratio has passed left.
LEMMA HalfwayTells ==
  ASSUME BuiltFloat(track), NEW n, n = NumKeys(track), n >= 2, NEW threshold \in Int,
         CrossesOnGrid(track, threshold), kind = "float", NEW m \in 1 .. Unit - 1
  PROVE  \E j \in 0 .. n - 1 :
            /\ (JobSample(kind, AsVectors(track), 2 * m - 1).top[1]
                  > threshold * JobSample(kind, AsVectors(track), 2 * m - 1).over)
               <=> Key(track, j).value > threshold
            /\ \A i \in 0 .. n - 1 : IsCrossing(track, threshold, i) =>
                  (CrossingRatio(track, threshold, i) < m <=> i <= j)
<1> DEFINE b == AsVectors(track)
           u == 2 * m - 1
           sample == JobSample(kind, b, u)
<1>1. /\ n \in Nat \ {0} /\ n = Len(track) /\ Unit \in Nat \ {0} /\ track \in RawKeys(Int) /\ Spans(track)
      /\ n # 0 /\ n # 1
  <2>1. n \in Nat \ {0} /\ Unit \in Nat \ {0}
    BY KeysOfLoops, KeyOf DEF NumKeys, BuiltFloat
  <2> QED BY <2>1 DEF NumKeys, BuiltFloat
<1>2. /\ b \in RawKeys(Singles(Int)) /\ Len(b) = n
      /\ \A k \in 1 .. n : b[k].step = track[k].step /\ b[k].ratio = track[k].ratio
                              /\ b[k].value = <<track[k].value>>
  <2>1. b = InVectors(track)
    BY DEF AsVectors, InVectors
  <2> QED BY <1>1, <2>1, InVectorsAre
<1>3. Spans(b)
  <2>1. \A k \in 1 .. n - 1 : k \in 1 .. n /\ k + 1 \in 1 .. n
    BY <1>1
  <2>2. 1 \in 1 .. n /\ n \in 1 .. n
    BY <1>1
  <2> HIDE DEF b
  <2> QED BY <1>1, <1>2, <2>1, <2>2 DEF Spans
<1>4. u \in Int /\ 0 < u /\ u < 2 * Unit /\ m \in Int
  BY <1>1
<1>5. PICK k \in 1 .. n - 1 : JobIsAt(k, kind, b, u)
  <2> HIDE DEF b, u
  <2> QED BY <1>2, <1>3, <1>4, JobAt
<1> DEFINE k0 == Key(track, k - 1)
           k1 == Key(track, k)
           c == CrossingRatio(track, threshold, k)
           crosses == IsCrossing(track, threshold, k)
           on == sample.top[1] > threshold * sample.over
<1>6. /\ k \in 0 .. n - 1 /\ k - 1 \in 0 .. n - 1 /\ k \in 1 .. n /\ k + 1 \in 1 .. n /\ k # 0
      /\ k0 = track[k] /\ k1 = track[k + 1]
  BY <1>1 DEF Key
<1>7. /\ k0.ratio \in 0 .. Unit /\ k1.ratio \in 0 .. Unit /\ k0.ratio < k1.ratio
      /\ k0.value \in Int /\ k1.value \in Int /\ k0.step \in BOOLEAN
  BY <1>1, <1>6, KeysOfLoops
<1>8. 2 * k0.ratio <= u /\ u < 2 * k1.ratio
  <2> HIDE DEF b, u
  <2> QED BY <1>2, <1>5, <1>6 DEF JobIsAt
<1>9. k0.ratio < m /\ m <= k1.ratio
  <2> HIDE DEF k0, k1
  <2> QED BY <1>4, <1>7, <1>8
<1>10. sample = IF k0.step THEN Exactly(<<k0.value>>)
                ELSE Lerp(<<k0.value>>, <<k1.value>>, u - 2 * k0.ratio, 2 * (k1.ratio - k0.ratio))
  <2> HIDE DEF b, u
  <2> QED BY <1>2, <1>5, <1>6 DEF JobIsAt, sample
<1>11. crosses <=> ((k0.value > threshold) # (k1.value > threshold))
  <2>1. Before(track, k) = k - 1
    BY <1>1, KeysOfLoops
  <2> QED BY <2>1 DEF IsCrossing
<1>12. ASSUME crosses
       PROVE  /\ c \in k0.ratio .. k1.ratio
              /\ (k0.step /\ c = k1.ratio) \/ (~k0.step /\ Reaches(threshold, k0, k1, c))
  <2>1. /\ c \in 0 .. k1.ratio /\ k0.ratio <= c
        /\ (k0.step /\ c = k1.ratio) \/ (~k0.step /\ Reaches(threshold, k0, k1, c))
    BY <1>1, <1>6, <1>12, DetectsCrossings
  <2> HIDE DEF c, k0, k1
  <2> QED BY <1>7, <2>1
<1>13. k0.step => sample.top[1] = k0.value /\ sample.over = 1
  BY <1>10 DEF Exactly
<1>14. ~k0.step => /\ sample.top[1] = k0.value * (2 * (k1.ratio - k0.ratio) - (u - 2 * k0.ratio))
                                        + k1.value * (u - 2 * k0.ratio)
                   /\ sample.over = 2 * (k1.ratio - k0.ratio)
  <2> SUFFICES ASSUME ~k0.step
               PROVE  /\ sample.top[1] = k0.value * (2 * (k1.ratio - k0.ratio) - (u - 2 * k0.ratio))
                                        + k1.value * (u - 2 * k0.ratio)
                      /\ sample.over = 2 * (k1.ratio - k0.ratio)
    OBVIOUS
  <2> DEFINE at == u - 2 * k0.ratio
             l == 2 * (k1.ratio - k0.ratio)
             v == k0.value
             w == k1.value
  <2>1. sample = Lerp(<<v>>, <<w>>, at, l)
    BY <1>10
  <2> HIDE DEF at, l, v, w, sample
  <2>2. sample.top[1] = v * (l - at) + w * at /\ sample.over = l
    <3>1. 1 \in DOMAIN <<v>> /\ <<v>>[1] = v /\ <<w>>[1] = w
      OBVIOUS
    <3> QED BY <2>1, <3>1, LerpAt DEF Lerp
  <2> QED BY <2>2 DEF at, l, v, w
<1> HIDE DEF sample, u, k0, k1, c, crosses
<1> DEFINE passed == crosses /\ c < m
<1>15. on <=> IF passed THEN k1.value > threshold ELSE k0.value > threshold
  <2>1. CASE k0.step
    <3>1. on <=> k0.value > threshold
      BY <1>7, <1>13, <2>1
    <3>2. ~passed
      BY <1>4, <1>7, <1>9, <1>12, <2>1
    <3> QED BY <3>1, <3>2
  <2>2. CASE ~k0.step
    <3> DEFINE L == 2 * (k1.ratio - k0.ratio)
               at == u - 2 * k0.ratio
               v0 == k0.value
               v1 == k1.value
               x == v0 * (L - at) + v1 * at
    <3>1. v0 \in Int /\ v1 \in Int /\ L \in Int /\ at \in Int /\ 0 < at /\ at < L
      <4> DEFINE r0 == k0.ratio
                 r1 == k1.ratio
      <4>1. r0 \in Int /\ r1 \in Int /\ 2 * r0 <= u /\ u < 2 * r1 /\ u = 2 * m - 1 /\ m \in Int /\ v0 \in Int /\ v1 \in Int
        BY <1>1, <1>4, <1>7, <1>8 DEF u
      <4>2. L = 2 * (r1 - r0) /\ at = u - 2 * r0
        OBVIOUS
      <4> HIDE DEF r0, r1, L, at, v0, v1
      <4>3. L \in Int /\ at \in Int /\ at # 0
        BY <4>1, <4>2
      <4>4. 0 < at /\ at < L
        BY <4>1, <4>2, <4>3
      <4> QED BY <4>1, <4>3, <4>4
    <3>2. on <=> x > threshold * L
      BY <1>14, <2>2
    <3>3. CASE ~crosses
      <4>1. (v0 > threshold /\ v1 > threshold) \/ (v0 <= threshold /\ v1 <= threshold)
        BY <1>11, <3>1, <3>3
      <4> HIDE DEF L, at, v0, v1
      <4>2. (x > threshold * L) <=> (v0 > threshold)
        BY <3>1, <4>1, Mixed
      <4> QED BY <3>2, <3>3, <4>2 DEF v0
    <3>4. CASE crosses
      <4>1. Reaches(threshold, k0, k1, c) /\ c \in Int
        BY <1>7, <1>12, <2>2, <3>4
      <4>2. x - threshold * L = (v1 - v0) * (u - 2 * c)
        <5>1. (k1.value - k0.value) * (c - k0.ratio) = (threshold - k0.value) * (k1.ratio - k0.ratio)
          BY <4>1 DEF Reaches
        <5> DEFINE r0 == k0.ratio
                   r1 == k1.ratio
        <5>2. /\ v0 \in Int /\ v1 \in Int /\ threshold \in Int /\ r0 \in Int /\ r1 \in Int /\ c \in Int /\ u \in Int
              /\ (v1 - v0) * (c - r0) = (threshold - v0) * (r1 - r0)
          BY <1>4, <1>7, <4>1, <5>1
        <5>3. x = v0 * (2 * (r1 - r0) - (u - 2 * r0)) + v1 * (u - 2 * r0) /\ threshold * L = threshold * (2 * (r1 - r0))
          OBVIOUS
        <5> HIDE DEF r0, r1, v0, v1, x, L, at
        <5>4. v0 * (2 * (r1 - r0) - (u - 2 * r0)) + v1 * (u - 2 * r0) - threshold * (2 * (r1 - r0))
                 = (v1 - v0) * (u - 2 * c)
          BY <5>2, HalfwayNumbers
        <5> DEFINE d == v0 * (2 * (r1 - r0) - (u - 2 * r0))
                   e == v1 * (u - 2 * r0)
                   f == threshold * (2 * (r1 - r0))
                   z == threshold * L
                   o == (v1 - v0) * (u - 2 * c)
        <5>5. /\ x = d + e /\ z = f /\ d + (e - f) = o
              /\ d \in Int /\ e \in Int /\ f \in Int
          <6>1. x = d + e
            BY <5>3, Zenon
          <6>2. z = f
            BY <5>3, Zenon
          <6>3. d + (e - f) = o
            BY <5>4, Zenon
          <6>4. d \in Int /\ e \in Int /\ f \in Int
            BY <5>2
          <6> QED BY <6>1, <6>2, <6>3, <6>4
        <5> HIDE DEF d, e, f, z, o
        <5>6. x - z = o
          BY <5>5
        <5> QED BY <5>6 DEF z, o
      <4> DEFINE w == v1 - v0
                 y == u - 2 * c
      <4>3. w \in Int /\ y \in Int /\ x \in Int /\ threshold * L \in Int
        BY <1>4, <3>1, <4>1
      <4>4. (x > threshold * L) <=> w * y > 0
        <5> DEFINE p == threshold * L
                   q == w * y
        <5>1. x - p = q /\ x \in Int /\ p \in Int /\ q \in Int
          BY <4>2, <4>3
        <5> HIDE DEF x, p, q
        <5> QED BY <5>1 DEF p, q
      <4>5. (y > 0 <=> c < m) /\ (y < 0 <=> ~(c < m))
        BY <1>4, <4>1 DEF u
      <4>6. (w > 0 /\ v1 > threshold /\ ~(v0 > threshold)) \/ (w < 0 /\ v0 > threshold /\ ~(v1 > threshold))
        BY <1>11, <3>1, <3>4
      <4> HIDE DEF w, y, x, L, v0, v1
      <4>7. (w > 0 /\ y > 0 => w * y > 0) /\ (w > 0 /\ y < 0 => w * y < 0)
            /\ (w < 0 /\ y > 0 => w * y < 0) /\ (w < 0 /\ y < 0 => w * y > 0)
        BY <4>3
      <4>8. w * y \in Int
        BY <4>3
      <4>9. on <=> IF c < m THEN v1 > threshold ELSE v0 > threshold
        BY <3>2, <4>4, <4>5, <4>6, <4>7, <4>8
      <4> QED BY <3>4, <4>9 DEF v0, v1
    <3> QED BY <3>3, <3>4
  <2> QED BY <1>7, <2>1, <2>2
<1> DEFINE j == IF passed THEN k ELSE k - 1
<1>16. j \in 0 .. n - 1 /\ (on <=> Key(track, j).value > threshold)
  BY <1>6, <1>15 DEF k0, k1
<1>17. ASSUME NEW i \in 0 .. n - 1, IsCrossing(track, threshold, i)
       PROVE  CrossingRatio(track, threshold, i) < m <=> i <= j
  <2> DEFINE r == CrossingRatio(track, threshold, i)
  <2>1. /\ r \in 0 .. Key(track, i).ratio /\ (i # 0 => Key(track, i - 1).ratio <= r)
        /\ Key(track, i).ratio \in Int /\ (i # 0 => Key(track, i - 1).ratio \in Int)
    <3>1. r \in 0 .. Key(track, i).ratio /\ (i # 0 => Key(track, i - 1).ratio <= r)
      BY <1>1, <1>17, DetectsCrossings
    <3>2. i # 0 => i - 1 \in 0 .. n - 1
      BY <1>1
    <3> HIDE DEF r
    <3> QED BY <1>1, <3>1, <3>2, KeysOfLoops
  <2> HIDE DEF r
  <2>2. CASE i <= k - 1
    <3>1. k - 1 \in i .. n - 1
      BY <1>6, <2>2
    <3>2. Key(track, i).ratio <= k0.ratio
      BY <1>1, <3>1, LoopAscends DEF k0
    <3>3. r < m
      BY <1>4, <1>7, <1>9, <2>1, <3>2
    <3> QED BY <1>6, <2>2, <3>3 DEF r
  <2>3. CASE i = k
    <3>1. crosses /\ r = c
      BY <1>17, <2>3 DEF crosses, c, r
    <3> QED BY <1>6, <2>3, <3>1 DEF r
  <2>4. CASE i > k
    <3>1. i # 0 /\ i - 1 \in k .. n - 1
      BY <1>1, <1>6, <2>4
    <3>2. k1.ratio <= Key(track, i - 1).ratio
      BY <1>1, <1>6, <3>1, LoopAscends DEF k1
    <3>3. ~(r < m)
      BY <1>4, <1>7, <1>9, <2>1, <3>1, <3>2
    <3> QED BY <1>6, <2>4, <3>3 DEF r
  <2>5. i <= k - 1 \/ i = k \/ i > k
    BY <1>6
  <2> QED BY <2>2, <2>3, <2>4, <2>5
<1> QED BY <1>16, <1>17 DEF u, sample

\* What is before a ratio is told by the last crossing the ratio has passed.
LEMMA BeforeSplits ==
  ASSUME BuiltFloat(track), NEW n, n = NumKeys(track), n # 0, NEW threshold \in Int,
         CrossesOnGrid(track, threshold), kind = "float", NEW h \in Int
  PROVE  \E b \in Int : /\ (h \div Unit) * n - 1 <= b /\ b <= (h \div Unit) * n + n - 1
                        /\ Splits(threshold, h, b)
                        /\ OnBefore(threshold, h) = On(threshold, b)
<1> DEFINE l == h \div Unit
           m == h % Unit
           at == IF m = 0 THEN 2 * Unit ELSE 2 * m - 1
           sample == JobSample(kind, AsVectors(track), at)
<1>1. n \in Nat \ {0} /\ Unit \in Nat \ {0} /\ n = Len(track) /\ track \in RawKeys(Int)
  BY KeysOfLoops DEF NumKeys, BuiltFloat
<1>2. l \in Int /\ m \in 0 .. Unit - 1 /\ h = l * Unit + m /\ l * n \in Int
  <2>1. l \in Int /\ m \in 0 .. Unit - 1 /\ h = l * Unit + m
    BY <1>1, NumbersAre
  <2> HIDE DEF l, m
  <2> QED BY <1>1, <2>1
<1>3. OnBefore(threshold, h) = (sample.top[1] > threshold * sample.over)
  BY DEF OnBefore
<1>4. ASSUME NEW j \in 0 .. n - 1
      PROVE  /\ l * n + j \in Int /\ KeyOfLoop(l * n + j) = j
             /\ On(threshold, l * n + j) = (Key(track, j).value > threshold)
  <2>1. (l * n + j) % n = j /\ l * n + j \in Int
    <3> HIDE DEF l
    <3>1. \A q \in Int, r \in 0 .. n - 1 : (q * n + r) % n = r
      BY <1>1, NumbersAre
    <3>2. (l * n + j) % n = j
      BY <1>2, <3>1
    <3>3. l * n + j \in Int
      BY <1>1, <1>2
    <3> QED BY <3>2, <3>3
  <2>2. KeyOfLoop(l * n + j) = j
    BY <1>1, <2>1 DEF KeyOfLoop
  <2> QED BY <2>1, <2>2 DEF On
<1>5. ASSUME NEW g \in Int
      PROVE  /\ g \div n \in Int /\ KeyOfLoop(g) \in 0 .. n - 1
             /\ g = (g \div n) * n + KeyOfLoop(g)
  BY <1>1, NumbersAre DEF KeyOfLoop
<1>6. AsVectors(track) = InVectors(track)
  BY DEF AsVectors, InVectors
<1>7. /\ Len(AsVectors(track)) = n /\ AsVectors(track) \in Seq([step : BOOLEAN, ratio : Int, value : Singles(Int)])
      /\ \A k \in 1 .. n : AsVectors(track)[k].value = <<track[k].value>>
  BY <1>1, <1>6, InVectorsAre DEF RawKeys
<1>8. CASE m = 0 \/ n = 1
  <2>1. sample = Exactly(<<Key(track, n - 1).value>>)
    <3> DEFINE v == AsVectors(track)
    <3>1. v # <<>> /\ Head(v) = v[1] /\ Last(v) = v[n] /\ 1 \in 1 .. n /\ n \in 1 .. n /\ (n - 1) + 1 = n
      <4>1. Len(v) = n /\ v \in Seq([step : BOOLEAN, ratio : Int, value : Singles(Int)])
        BY <1>7
      <4> HIDE DEF v
      <4> QED BY <1>1, <4>1 DEF Last
    <3>2. v[1].value = <<track[1].value>> /\ v[n].value = <<track[n].value>>
      BY <1>7, <3>1
    <3>3. Key(track, n - 1) = track[n]
      BY <3>1 DEF Key
    <3>4. CASE n = 1
      <4>1. sample = Exactly(Head(v).value)
        BY <1>7, <3>1, <3>4 DEF JobSample
      <4> QED BY <3>1, <3>2, <3>3, <3>4, <4>1
    <3>5. CASE n # 1 /\ m = 0
      <4>1. at = 2 * Unit /\ ~(at <= 0) /\ at >= 2 * Unit
        BY <1>1, <3>5
      <4>2. sample = Exactly(Last(v).value)
        BY <1>7, <3>1, <3>5, <4>1 DEF JobSample
      <4> QED BY <3>1, <3>2, <3>3, <4>2
    <3> QED BY <1>8, <3>4, <3>5
  <2>2. (sample.top[1] > threshold * sample.over) = (Key(track, n - 1).value > threshold)
    <3>1. sample.top[1] = Key(track, n - 1).value /\ sample.over = 1
      BY <2>1 DEF Exactly
    <3>2. threshold * 1 = threshold
      OBVIOUS
    <3> HIDE DEF sample
    <3> QED BY <3>1, <3>2
  <2> DEFINE b == l * n - 1
  <2>3. b \in Int /\ On(threshold, b) = (Key(track, n - 1).value > threshold)
    <3> DEFINE p == l - 1
    <3>1. p \in Int /\ n - 1 \in 0 .. n - 1 /\ b = p * n + (n - 1) /\ b \in Int
      <4> HIDE DEF l
      <4>1. (l - 1) * n = l * n - n
        BY <1>1, <1>2, WholeSteps
      <4> QED BY <1>1, <1>2, <4>1
    <3> HIDE DEF p
    <3>2. (p * n + (n - 1)) % n = n - 1
      <4> DEFINE r == n - 1
      <4>1. r \in 0 .. n - 1
        BY <3>1
      <4> HIDE DEF r
      <4>2. (p * n + r) % n = r
        BY <1>1, <3>1, <4>1, NumbersAre
      <4> QED BY <4>2 DEF r
    <3>3. KeyOfLoop(b) = n - 1
      BY <3>1, <3>2 DEF KeyOfLoop
    <3> QED BY <3>1, <3>3 DEF On
  <2>4. ASSUME NEW g \in Int, IsCrossing(track, threshold, KeyOfLoop(g))
        PROVE  Passed(g, threshold, h) <=> g <= b
    <3> DEFINE q == g \div n
               i == KeyOfLoop(g)
    <3>1. q \in Int /\ i \in 0 .. n - 1 /\ g = q * n + i
      BY <1>5
    <3>2. n # 1
      <4>1. ASSUME n = 1 PROVE FALSE
        <5>1. i = 0 /\ Before(track, 0) = 0
          BY <3>1, <4>1, KeysOfLoops
        <5> QED BY <2>4, <5>1 DEF IsCrossing
      <4> QED BY <4>1
    <3>3. m = 0
      BY <1>8, <3>2
    <3>4. CrossingRatio(track, threshold, i) >= 0 /\ ~(CrossingRatio(track, threshold, i) < 0)
      <4> DEFINE c == CrossingRatio(track, threshold, i)
      <4>1. c \in 0 .. Key(track, i).ratio
        BY <2>4, <3>1, DetectsCrossings
      <4> HIDE DEF c
      <4>2. c >= 0 /\ ~(c < 0)
        BY <4>1
      <4> QED BY <4>2 DEF c
    <3>5. /\ q < l => Passed(g, threshold, h)
          /\ q > l => ~Passed(g, threshold, h)
          /\ q = l => (Passed(g, threshold, h) <=> CrossingRatio(track, threshold, i) < m)
      BY <2>4, OtherLoops
    <3>6. Passed(g, threshold, h) <=> q < l
      <4> HIDE DEF q, i, l, m
      <4> QED BY <1>2, <3>1, <3>3, <3>4, <3>5
    <3>7. q < l <=> g <= b
      <4> HIDE DEF q, i, l, m
      <4>1. q < l => q * n + n <= l * n
        BY <1>1, <1>2, <3>1, WholeSteps
      <4>2. l <= q => l * n <= q * n
        BY <1>1, <1>2, <3>1, WholeSteps
      <4> DEFINE x == q * n
                 y == l * n
      <4>3. x \in Int /\ y \in Int /\ g = x + i /\ b = y - 1 /\ (q < l => x + n <= y) /\ (l <= q => y <= x)
        BY <1>1, <1>2, <3>1, <4>1, <4>2
      <4> HIDE DEF x, y, b
      <4> QED BY <1>1, <1>2, <3>1, <4>3
    <3> QED BY <3>6, <3>7
  <2>5. Splits(threshold, h, b)
    BY <2>4 DEF Splits
  <2>6. l * n - 1 <= b /\ b <= l * n + n - 1
    <3> HIDE DEF l
    <3> QED BY <1>1, <1>2
  <2> QED BY <1>3, <2>2, <2>3, <2>5, <2>6
<1>9. CASE ~(m = 0 \/ n = 1)
  <2>1. m \in 1 .. Unit - 1 /\ n >= 2 /\ at = 2 * m - 1
    <3> HIDE DEF m
    <3> QED BY <1>1, <1>2, <1>9
  <2>2. PICK j \in 0 .. n - 1 :
          /\ (sample.top[1] > threshold * sample.over) <=> Key(track, j).value > threshold
          /\ \A i \in 0 .. n - 1 : IsCrossing(track, threshold, i) =>
                (CrossingRatio(track, threshold, i) < m <=> i <= j)
    <3> HIDE DEF m
    <3> QED BY <2>1, HalfwayTells
  <2> DEFINE b == l * n + j
  <2>3. b \in Int /\ On(threshold, b) = (Key(track, j).value > threshold)
    BY <1>4
  <2>4. ASSUME NEW g \in Int, IsCrossing(track, threshold, KeyOfLoop(g))
        PROVE  Passed(g, threshold, h) <=> g <= b
    <3> DEFINE q == g \div n
               i == KeyOfLoop(g)
    <3>1. q \in Int /\ i \in 0 .. n - 1 /\ g = q * n + i
      BY <1>5
    <3>2. /\ q < l => Passed(g, threshold, h)
          /\ q > l => ~Passed(g, threshold, h)
          /\ q = l => (Passed(g, threshold, h) <=> CrossingRatio(track, threshold, i) < m)
      BY <2>4, OtherLoops
    <3>3. CrossingRatio(track, threshold, i) < m <=> i <= j
      BY <2>2, <2>4, <3>1
    <3> HIDE DEF q, i, l, m
    <3>4. q < l => q * n + n <= l * n
      BY <1>1, <1>2, <3>1, WholeSteps
    <3>5. l < q => l * n + n <= q * n
      BY <1>1, <1>2, <3>1, WholeSteps
    <3> DEFINE x == q * n
               y == l * n
    <3>6. /\ x \in Int /\ y \in Int /\ g = x + i /\ b = y + j
          /\ (q < l => x + n <= y) /\ (l < q => y + n <= x) /\ (q = l => x = y)
      BY <1>1, <1>2, <3>1, <3>4, <3>5
    <3> HIDE DEF x, y, b
    <3>7. (q < l => g <= b) /\ (l < q => ~(g <= b)) /\ (q = l => (g <= b <=> i <= j))
      BY <1>1, <3>1, <3>6
    <3>8. q < l \/ l < q \/ q = l
      BY <1>2, <3>1
    <3> QED BY <3>2, <3>3, <3>7, <3>8
  <2>5. Splits(threshold, h, b)
    BY <2>4 DEF Splits
  <2>6. l * n - 1 <= b /\ b <= l * n + n - 1
    <3> HIDE DEF l
    <3> QED BY <1>1, <1>2
  <2> QED BY <1>3, <2>2, <2>3, <2>5, <2>6
<1> QED BY <1>8, <1>9

-----------------------------------------------------------------------------
(* The crossings of a query.                                               *)

\* What a query may ask.
IsQuery(s) ==
    /\ kind = "float" /\ BuiltFloat(track)
    /\ s.from \in Int /\ s.to \in Int /\ s.threshold \in Int
    /\ CrossesOnGrid(track, s.threshold)

CrossingOf(s, g) == [ratio |-> Position(g, s.threshold),
                     rising |-> Rises(track, s.threshold, KeyOfLoop(g)) = IsForward(s)]

NextList(s, list, k) ==
    IF Between(s, OnTheWay(s, k)) THEN Append(list, CrossingOf(s, OnTheWay(s, k))) ELSE list

ListsCrossings(s, f) ==
    f = [k \in 0 .. Reach(s) |-> IF k = 0 THEN <<>> ELSE NextList(s, f[k - 1], k)]

\* The crossings among the keys on the way, so far.
Among(s) == CHOOSE f : ListsCrossings(s, f)

LEMMA WayOf ==
  ASSUME NEW s, IsQuery(s)
  PROVE  /\ NumKeys(track) \in Nat /\ Unit \in Nat \ {0} /\ Reach(s) \in Nat
         /\ Lower(s) \in Int /\ Upper(s) \in Int /\ Lower(s) <= Upper(s)
         /\ Lower(s) \div Unit \in Int /\ Upper(s) \div Unit \in Int /\ Lower(s) \div Unit <= Upper(s) \div Unit
         /\ IsForward(s) \in BOOLEAN
         /\ \A k \in Int : OnTheWay(s, k) \in Int
<1> DEFINE n == NumKeys(track)
           l == Lower(s)
           u == Upper(s)
<1>1. n \in Nat /\ Unit \in Nat \ {0}
  BY TrackAssumption, KeyOf DEF IsQuery, BuiltFloat, NumKeys
<1>2. l \in Int /\ u \in Int /\ l <= u /\ IsForward(s) \in BOOLEAN
  BY DEF IsQuery, Lower, Upper, IsForward
<1>3. Reach(s) = (u \div Unit - l \div Unit + 2) * n
  BY DEF Reach
<1>4. \A k : OnTheWay(s, k) = IF IsForward(s) THEN (l \div Unit - 1) * n + k - 1 ELSE (u \div Unit + 1) * n - k
  BY DEF OnTheWay
<1> HIDE DEF l, u, n
<1> DEFINE a == l \div Unit
           b == u \div Unit
<1>5. a \in Int /\ b \in Int
  BY <1>1, <1>2
<1>6. a <= b
  <2> DEFINE e == l % Unit
             f == u % Unit
  <2>1. l = a * Unit + e /\ u = b * Unit + f /\ e \in 0 .. Unit - 1 /\ f \in 0 .. Unit - 1
    BY <1>1, <1>2, NumbersAre
  <2>2. b < a => b * Unit + Unit <= a * Unit
    BY <1>1, <1>5, WholeSteps
  <2> HIDE DEF a, b, e, f
  <2> DEFINE x == a * Unit
             y == b * Unit
  <2>3. x \in Int /\ y \in Int /\ l = x + e /\ u = y + f /\ (b < a => y + Unit <= x)
    BY <1>1, <1>5, <2>1, <2>2
  <2> HIDE DEF x, y
  <2> QED BY <1>1, <1>2, <1>5, <2>1, <2>3
<1> HIDE DEF a, b
<1>7. Reach(s) \in Nat
  <2> DEFINE c == b - a + 2
  <2>1. c \in Nat /\ Reach(s) = c * n
    BY <1>3, <1>5, <1>6 DEF a, b
  <2> HIDE DEF c
  <2> QED BY <1>1, <2>1
<1>8. ASSUME NEW k \in Int PROVE OnTheWay(s, k) \in Int
  <2>1. (a - 1) * n \in Int /\ (b + 1) * n \in Int
    BY <1>1, <1>5
  <2>2. OnTheWay(s, k) = IF IsForward(s) THEN (a - 1) * n + k - 1 ELSE (b + 1) * n - k
    BY <1>4 DEF a, b
  <2> QED BY <2>1, <2>2
<1> QED BY <1>1, <1>2, <1>5, <1>6, <1>7, <1>8 DEF l, u, n, a, b

\* Crossings are at whole grid points.
LEMMA CrossingsAre ==
  ASSUME NEW s, IsQuery(s), NumKeys(track) # 0, NEW g \in Int,
         IsCrossing(track, s.threshold, KeyOfLoop(g))
  PROVE  CrossingOf(s, g) \in EdgeRecords
<1> DEFINE n == NumKeys(track)
           i == KeyOfLoop(g)
           c == CrossingRatio(track, s.threshold, i)
<1>1. n \in Nat \ {0} /\ Unit \in Nat \ {0} /\ BuiltFloat(track) /\ s.threshold \in Int /\ CrossesOnGrid(track, s.threshold)
  BY KeysOfLoops DEF IsQuery
<1>2. i \in 0 .. n - 1 /\ g \div n \in Int
  BY <1>1, NumbersAre DEF KeyOfLoop
<1>3. c \in Int
  <2>1. Key(track, i).ratio \in Int
    BY <1>1, <1>2, KeysOfLoops
  <2>2. c \in 0 .. Key(track, i).ratio
    <3> DEFINE t == s.threshold
    <3>1. t \in Int /\ CrossesOnGrid(track, t) /\ IsCrossing(track, t, i) /\ c = CrossingRatio(track, t, i)
      BY <1>1
    <3> HIDE DEF t, i
    <3> QED BY <1>1, <1>2, <3>1, DetectsCrossings
  <2> HIDE DEF c
  <2> QED BY <2>1, <2>2
<1>4. Position(g, s.threshold) \in Int
  <2>1. Position(g, s.threshold) = (g \div n) * Unit + c
    BY DEF Position, LoopOf
  <2> HIDE DEF c
  <2> QED BY <1>1, <1>2, <1>3, <2>1
<1> QED BY <1>4 DEF CrossingOf, EdgeRecords

LEMMA AmongAre ==
  ASSUME NEW s, IsQuery(s)
  PROVE  /\ ListsCrossings(s, Among(s))
         /\ Crossings(s) = Among(s)[Reach(s)]
         /\ Among(s) \in [0 .. Reach(s) -> Seq(EdgeRecords)]
         /\ Among(s)[0] = <<>>
         /\ \A k \in 1 .. Reach(s) : Among(s)[k] = NextList(s, Among(s)[k - 1], k)
<1> DEFINE n == Reach(s)
           Lists == Seq(EdgeRecords)
           step == [x \in (1 .. n) \X Lists |-> NextList(s, x[2], x[1])]
<1>1. n \in Nat /\ 0 \in 0 .. n
  BY WayOf
<1>2. ASSUME NEW k \in 1 .. n, NEW list \in Lists
      PROVE  step[<<k, list>>] = NextList(s, list, k) /\ NextList(s, list, k) \in Lists
  <2>1. <<k, list>> \in (1 .. n) \X Lists
    OBVIOUS
  <2>2. step[<<k, list>>] = NextList(s, list, k)
    BY <2>1
  <2>3. NextList(s, list, k) \in Lists
    <3>1. CASE Between(s, OnTheWay(s, k))
      <4> DEFINE g == OnTheWay(s, k)
      <4>1. g \in Int /\ NumKeys(track) # 0
        <5>1. n # 0 /\ k \in Int
          BY <1>1
        <5>2. NumKeys(track) # 0
          <6>1. ASSUME NumKeys(track) = 0 PROVE FALSE
            <7> DEFINE c == Upper(s) \div Unit - Lower(s) \div Unit + 2
            <7>1. c \in Int /\ n = c * 0
              BY <6>1, WayOf DEF Reach
            <7> HIDE DEF c
            <7> QED BY <5>1, <7>1
          <6> QED BY <6>1
        <5> QED BY <5>1, <5>2, WayOf
      <4> HIDE DEF g
      <4>2. IsCrossing(track, s.threshold, KeyOfLoop(g))
        BY <3>1 DEF Between, g
      <4>3. CrossingOf(s, g) \in EdgeRecords
        BY <4>1, <4>2, CrossingsAre
      <4>4. Append(list, CrossingOf(s, g)) \in Lists
        BY <4>3
      <4> QED BY <3>1, <4>4 DEF NextList, g
    <3>2. CASE ~Between(s, OnTheWay(s, k))
      BY <3>2 DEF NextList
    <3> QED BY <3>1, <3>2
  <2> QED BY <2>2, <2>3
<1> HIDE DEF step, n, Lists
<1>3. PICK f : GoesOn(f, n, <<>>, step)
  BY <1>1, CountedRecursion
<1>4. f = [k \in 0 .. n |-> IF k = 0 THEN <<>> ELSE step[<<k, f[k - 1]>>]]
  BY <1>3 DEF GoesOn
<1>5. ASSUME NEW k \in 0 .. n PROVE f[k] = IF k = 0 THEN <<>> ELSE step[<<k, f[k - 1]>>]
  BY <1>4
<1> DEFINE S == {k \in 0 .. n : f[k] \in Lists}
<1>6. 0 .. n \subseteq S
  <2>1. 0 \in S
    <3>1. f[0] = <<>>
      BY <1>1, <1>5, Zenon
    <3>2. <<>> \in Lists
      BY DEF Lists
    <3> QED BY <1>1, <3>1, <3>2
  <2>2. ASSUME NEW k \in 1 .. n, k - 1 \in S PROVE k \in S
    <3>1. k \in 0 .. n /\ k # 0 /\ f[k - 1] \in Lists
      BY <1>1, <2>2
    <3>2. f[k] = step[<<k, f[k - 1]>>]
      BY <1>5, <3>1
    <3>3. f[k] \in Lists
      BY <1>2, <3>1, <3>2
    <3> QED BY <3>1, <3>3
  <2> HIDE DEF S
  <2> QED BY <1>1, <2>1, <2>2, ByNumber
<1>7. ASSUME NEW k \in 0 .. n, k # 0 PROVE step[<<k, f[k - 1]>>] = NextList(s, f[k - 1], k)
  <2>1. k \in 1 .. n /\ k - 1 \in 0 .. n
    BY <1>1, <1>7
  <2>2. f[k - 1] \in Lists
    BY <1>6, <2>1
  <2> QED BY <1>2, <2>1, <2>2
<1>8. f = [k \in 0 .. n |-> IF k = 0 THEN <<>> ELSE NextList(s, f[k - 1], k)]
  BY <1>4, <1>7
<1>9. ListsCrossings(s, f)
  BY <1>8 DEF ListsCrossings, n
<1>10. ListsCrossings(s, Among(s))
  BY <1>9 DEF Among
<1>11. Crossings(s) = Among(s)[n]
  BY DEF Crossings, Among, ListsCrossings, NextList, CrossingOf, n
<1> DEFINE a == Among(s)
<1>12. a = [k \in 0 .. n |-> IF k = 0 THEN <<>> ELSE NextList(s, a[k - 1], k)]
  BY <1>10 DEF ListsCrossings, n
<1> HIDE DEF a
<1>13. ASSUME NEW k \in 0 .. n PROVE a[k] = IF k = 0 THEN <<>> ELSE NextList(s, a[k - 1], k)
  BY <1>12
<1> DEFINE R == {k \in 0 .. n : a[k] \in Lists}
<1>14. 0 .. n \subseteq R
  <2>1. 0 \in R
    <3>1. <<>> \in Lists /\ a[0] = <<>>
      BY <1>1, <1>13 DEF Lists
    <3> QED BY <1>1, <3>1
  <2>2. ASSUME NEW k \in 1 .. n, k - 1 \in R PROVE k \in R
    <3>1. k \in 0 .. n /\ k # 0 /\ a[k - 1] \in Lists
      BY <1>1, <2>2
    <3>2. a[k] = NextList(s, a[k - 1], k)
      BY <1>13, <3>1
    <3>3. a[k] \in Lists
      BY <1>2, <3>1, <3>2
    <3> QED BY <3>1, <3>3
  <2> HIDE DEF R
  <2> QED BY <1>1, <2>1, <2>2, ByNumber
<1>15. a \in [0 .. n -> Lists]
  <2>1. \A k \in 0 .. n : a[k] \in Lists
    BY <1>14
  <2>2. a = [k \in 0 .. n |-> a[k]]
    BY <1>12
  <2> QED BY <2>1, <2>2
<1>16. a[0] = <<>> /\ \A k \in 1 .. n : a[k] = NextList(s, a[k - 1], k)
  <2>1. \A k \in 1 .. n : k \in 0 .. n /\ k # 0
    BY <1>1
  <2> QED BY <1>1, <1>13, <2>1
<1> QED BY <1>10, <1>11, <1>15, <1>16 DEF a, n, Lists

LEMMA PrefixIs ==
  ASSUME NEW S, NEW s \in Seq(S), NEW t \in Seq(S), Len(s) <= Len(t), \A i \in 1 .. Len(s) : s[i] = t[i]
  PROVE  IsPrefix(s, t)
<1>1. /\ Len(SubSeq(s, 1, Len(s))) = Len(s) /\ SubSeq(s, 1, Len(s)) \in Seq(S)
      /\ \A i \in 1 .. Len(s) : SubSeq(s, 1, Len(s))[i] = s[i]
  OBVIOUS
<1>2. /\ Len(SubSeq(t, 1, Len(s))) = Len(s) /\ SubSeq(t, 1, Len(s)) \in Seq(S)
      /\ \A i \in 1 .. Len(s) : SubSeq(t, 1, Len(s))[i] = t[i]
  OBVIOUS
<1> DEFINE a == SubSeq(s, 1, Len(s))
           b == SubSeq(t, 1, Len(s))
           n == Len(s)
<1>3. /\ a \in Seq(S) /\ b \in Seq(S) /\ Len(a) = n /\ Len(b) = n
      /\ \A i \in 1 .. n : a[i] = b[i]
  BY <1>1, <1>2
<1> HIDE DEF a, b, n
<1>4. a = b
  BY <1>3
<1> QED BY <1>4 DEF IsPrefix, a, b

\* What was told so far is the beginning of all.
LEMMA AmongGoesOn ==
  ASSUME NEW s, IsQuery(s), NEW k \in 0 .. Reach(s), NEW j \in k .. Reach(s)
  PROVE  /\ Among(s)[k] \in Seq(EdgeRecords) /\ Among(s)[j] \in Seq(EdgeRecords)
         /\ Len(Among(s)[k]) <= Len(Among(s)[j])
         /\ \A i \in 1 .. Len(Among(s)[k]) : Among(s)[k][i] = Among(s)[j][i]
<1> DEFINE a == Among(s)
           n == Reach(s)
           Begins(x, y) == Len(x) <= Len(y) /\ \A i \in 1 .. Len(x) : x[i] = y[i]
           S == {d \in 0 .. n - k : Begins(a[k], a[k + d])}
<1>1. n \in Nat /\ a \in [0 .. n -> Seq(EdgeRecords)] /\ \A m \in 1 .. n : a[m] = NextList(s, a[m - 1], m)
  BY WayOf, AmongAre
<1> HIDE DEF a, n
<1>2. 0 \in S
  <2>1. k + 0 = k /\ 0 \in 0 .. n - k /\ k \in 0 .. n
    BY <1>1 DEF n
  <2>2. a[k] \in Seq(EdgeRecords)
    BY <1>1, <2>1
  <2> QED BY <2>1, <2>2
<1>3. ASSUME NEW d \in 1 .. n - k, d - 1 \in S PROVE d \in S
  <2>1. k + d \in 1 .. n /\ k + d \in 0 .. n /\ (k + d) - 1 \in 0 .. n /\ k + (d - 1) = (k + d) - 1 /\ k \in 0 .. n
        /\ d \in 0 .. n - k
    BY <1>1 DEF n
  <2> DEFINE x == a[k]
             y == a[(k + d) - 1]
             z == a[k + d]
  <2>2. Begins(x, y) /\ x \in Seq(EdgeRecords) /\ y \in Seq(EdgeRecords) /\ z \in Seq(EdgeRecords)
    BY <1>1, <1>3, <2>1
  <2>3. z = y \/ \E e : z = Append(y, e)
    BY <1>1, <2>1 DEF NextList
  <2> HIDE DEF x, y, z
  <2>4. Begins(x, z)
    BY <2>2, <2>3
  <2> QED BY <2>1, <2>4 DEF x, z
<1> HIDE DEF S
<1>4. n - k \in Nat /\ j - k \in 0 .. n - k /\ k + (j - k) = j /\ k \in 0 .. n /\ j \in 0 .. n
  BY <1>1 DEF n
<1>5. j - k \in S
  BY <1>2, <1>3, <1>4, ByNumber
<1>6. Begins(a[k], a[j])
  BY <1>4, <1>5 DEF S
<1> QED BY <1>1, <1>4, <1>6 DEF a

LEMMA Quiet ==
  ASSUME BuiltFloat(track), NumKeys(track) # 0, NEW threshold, NEW a \in Int, NEW b \in Int, a <= b,
         \A g \in Int : a < g /\ g <= b => ~IsCrossing(track, threshold, KeyOfLoop(g))
  PROVE  On(threshold, a) = On(threshold, b)
<1> DEFINE S == {d \in 0 .. b - a : On(threshold, a) = On(threshold, a + d)}
<1>1. 0 \in S
  OBVIOUS
<1>2. ASSUME NEW d \in 1 .. b - a, d - 1 \in S PROVE d \in S
  <2>1. a + d \in Int /\ a < a + d /\ a + d <= b /\ a + (d - 1) = (a + d) - 1 /\ d \in 0 .. b - a
    OBVIOUS
  <2>2. ~IsCrossing(track, threshold, KeyOfLoop(a + d))
    BY <2>1
  <2>3. ~(On(threshold, (a + d) - 1) # On(threshold, a + d))
    BY <2>1, <2>2, CrossingIsChange
  <2>4. On(threshold, a) = On(threshold, (a + d) - 1)
    BY <1>2, <2>1
  <2> QED BY <2>1, <2>3, <2>4
<1> HIDE DEF S
<1>3. b - a \in Nat /\ b - a \in 0 .. b - a /\ a + (b - a) = b
  OBVIOUS
<1>4. b - a \in S
  BY <1>1, <1>2, <1>3, ByNumber
<1> QED BY <1>3, <1>4 DEF S

\* The two ends of a query, in order.
LEMMA EndsSplit ==
  ASSUME NEW s, IsQuery(s), NEW n, n = NumKeys(track), n # 0
  PROVE  \E a \in Int, b \in Int :
            /\ (Lower(s) \div Unit) * n - 1 <= a /\ a <= b /\ b <= (Upper(s) \div Unit) * n + n - 1
            /\ OnBefore(s.threshold, Lower(s)) = On(s.threshold, a)
            /\ OnBefore(s.threshold, Upper(s)) = On(s.threshold, b)
            /\ \A g \in Int : Between(s, g) <=>
                  IsCrossing(track, s.threshold, KeyOfLoop(g)) /\ a < g /\ g <= b
<1> DEFINE l == Lower(s)
           u == Upper(s)
           t == s.threshold
<1>1. /\ BuiltFloat(track) /\ kind = "float" /\ t \in Int /\ CrossesOnGrid(track, t) /\ l \in Int /\ u \in Int /\ l <= u
      /\ n \in Nat \ {0} /\ Unit \in Nat \ {0} /\ l \div Unit \in Int /\ u \div Unit \in Int
      /\ l \div Unit <= u \div Unit
  BY WayOf, KeysOfLoops DEF IsQuery
<1>2. \A g : Between(s, g) <=> /\ IsCrossing(track, t, KeyOfLoop(g))
                               /\ Passed(g, t, u) /\ ~Passed(g, t, l)
  BY DEF Between
<1> HIDE DEF l, u, t
<1>3. PICK a \in Int : /\ (l \div Unit) * n - 1 <= a /\ a <= (l \div Unit) * n + n - 1
                       /\ Splits(t, l, a) /\ OnBefore(t, l) = On(t, a)
  BY <1>1, BeforeSplits
<1>4. PICK c \in Int : /\ (u \div Unit) * n - 1 <= c /\ c <= (u \div Unit) * n + n - 1
                       /\ Splits(t, u, c) /\ OnBefore(t, u) = On(t, c)
  BY <1>1, BeforeSplits
<1>5. ASSUME NEW g \in Int, IsCrossing(track, t, KeyOfLoop(g)) PROVE g <= a => g <= c
  <2>1. Passed(g, t, l) => Passed(g, t, u)
    <3> DEFINE p == Position(g, t)
               e == LoopOf(g) + Unit
    <3>1. p \in Int /\ e \in Int
      <4>1. KeyOfLoop(g) \in 0 .. n - 1 /\ g \div n \in Int
        BY <1>1, NumbersAre DEF KeyOfLoop
      <4> DEFINE i == KeyOfLoop(g)
                 r == CrossingRatio(track, t, i)
      <4>2. r \in 0 .. Key(track, i).ratio /\ Key(track, i).ratio \in Int
        <5> HIDE DEF i
        <5>1. i \in 0 .. n - 1 /\ IsCrossing(track, t, i)
          BY <1>5, <4>1 DEF i
        <5>2. r \in 0 .. Key(track, i).ratio
          BY <1>1, <5>1, DetectsCrossings
        <5>3. Key(track, i).ratio \in Int
          BY <1>1, <5>1, KeysOfLoops
        <5> QED BY <5>2, <5>3
      <4> HIDE DEF r
      <4>3. r \in Int /\ LoopOf(g) \in Int
        BY <1>1, <4>1, <4>2 DEF LoopOf
      <4> QED BY <1>1, <4>3 DEF Position, r
    <3> HIDE DEF p, e
    <3>2. (p < l \/ e <= l) => (p < u \/ e <= u)
      BY <1>1, <3>1
    <3> QED BY <3>2 DEF Passed, p, e
  <2> QED BY <1>3, <1>4, <1>5, <2>1 DEF Splits
<1> DEFINE b == IF c < a THEN a ELSE c
<1>6. b \in Int /\ a <= b
  OBVIOUS
<1>7. OnBefore(t, u) = On(t, b)
  <2>1. CASE c < a
    <3>1. \A g \in Int : c < g /\ g <= a => ~IsCrossing(track, t, KeyOfLoop(g))
      BY <1>5
    <3>2. On(t, c) = On(t, a)
      BY <1>1, <2>1, <3>1, Quiet
    <3> QED BY <1>4, <2>1, <3>2
  <2>2. CASE ~(c < a)
    BY <1>4, <2>2
  <2> QED BY <2>1, <2>2
<1>8. b <= (u \div Unit) * n + n - 1
  <2> DEFINE x == l \div Unit
             y == u \div Unit
  <2>1. x \in Int /\ y \in Int /\ x <= y
    BY <1>1
  <2>2. x * n <= y * n /\ x * n \in Int /\ y * n \in Int
    <3> HIDE DEF x, y
    <3> QED BY <1>1, <2>1, WholeSteps
  <2> DEFINE v == x * n
             w == y * n
  <2>3. v \in Int /\ w \in Int /\ v <= w /\ a <= v + n - 1 /\ c <= w + n - 1
    BY <1>3, <1>4, <2>2
  <2> HIDE DEF v, w
  <2>4. b <= w + n - 1
    BY <1>1, <2>3
  <2> QED BY <2>4 DEF w
<1>9. ASSUME NEW g \in Int
      PROVE  Between(s, g) <=> IsCrossing(track, t, KeyOfLoop(g)) /\ a < g /\ g <= b
  <2>1. IsCrossing(track, t, KeyOfLoop(g)) =>
          (Passed(g, t, u) <=> g <= c) /\ (Passed(g, t, l) <=> g <= a) /\ (g <= a => g <= c)
    BY <1>3, <1>4, <1>5 DEF Splits
  <2>2. (g <= c <=> g <= b) \/ ~(a < g)
    OBVIOUS
  <2> QED BY <1>2, <2>1, <2>2
<1> QED BY <1>3, <1>6, <1>7, <1>8, <1>9 DEF l, u, t

\* A flag that starts at a and ends at b, told of the crossings in between.
LEMMA ForwardChanges ==
  ASSUME NEW s, IsQuery(s), IsForward(s), NumKeys(track) # 0, NEW N, N = Reach(s), NEW G \in Int,
         \A k \in Int : OnTheWay(s, k) = G + k - 1,
         NEW a \in Int, NEW b \in Int, a <= b, G - 1 <= a, b <= G + N - 1,
         \A g \in Int : Between(s, g) <=> IsCrossing(track, s.threshold, KeyOfLoop(g)) /\ a < g /\ g <= b
  PROVE  ListsChanges(Among(s), N, [k \in 0 .. N |-> On(s.threshold, G + k - 1)], a - G + 1, b - G + 1)
<1> DEFINE t == s.threshold
           T == [k \in 0 .. N |-> On(t, G + k - 1)]
           lo == a - G + 1
           hi == b - G + 1
           f == Among(s)
<1>1. N \in Nat /\ lo \in 0 .. N /\ hi \in lo .. N /\ BuiltFloat(track)
  <2>1. N \in Nat
    BY WayOf
  <2> QED BY <2>1 DEF IsQuery
<1>2. /\ f \in [0 .. N -> Seq(EdgeRecords)] /\ f[0] = <<>>
      /\ \A k \in 1 .. N : f[k] = NextList(s, f[k - 1], k)
  BY AmongAre
<1>3. T \in [0 .. N -> BOOLEAN]
  BY DEF On
<1>4. ASSUME NEW k \in 1 .. N
      PROVE  \/ /\ (T[k - 1] # T[k]) /\ lo < k /\ k <= hi
                /\ \E edge \in EdgeRecords : edge.rising = T[k] /\ f[k] = Append(f[k - 1], edge)
             \/ ~(T[k - 1] # T[k] /\ lo < k /\ k <= hi) /\ f[k] = f[k - 1]
  <2> DEFINE g == G + k - 1
  <2>1. g \in Int /\ k \in 0 .. N /\ k - 1 \in 0 .. N /\ G + (k - 1) - 1 = g - 1 /\ OnTheWay(s, k) = g
    BY <1>1
  <2>2. T[k] = On(t, g) /\ T[k - 1] = On(t, g - 1)
    BY <2>1
  <2>3. (lo < k /\ k <= hi) <=> (a < g /\ g <= b)
    BY <1>1
  <2> HIDE DEF g, lo, hi, T, f
  <2>4. Between(s, g) <=> (T[k - 1] # T[k]) /\ lo < k /\ k <= hi
    <3>1. IsCrossing(track, t, KeyOfLoop(g)) <=> (On(t, g - 1) # On(t, g))
      BY <1>1, <2>1, CrossingIsChange
    <3> QED BY <2>1, <2>2, <2>3, <3>1
  <2>5. CASE Between(s, g)
    <3>1. f[k] = Append(f[k - 1], CrossingOf(s, g))
      BY <1>2, <2>1, <2>5 DEF NextList
    <3>2. CrossingOf(s, g) \in EdgeRecords
      BY <2>1, <2>5, CrossingsAre DEF Between
    <3>3. CrossingOf(s, g).rising = T[k]
      <4>1. CrossingOf(s, g).rising = (Rises(track, t, KeyOfLoop(g)) = IsForward(s))
        BY DEF CrossingOf
      <4>2. Rises(track, t, KeyOfLoop(g)) = On(t, g)
        BY DEF Rises, On
      <4>3. On(t, g) \in BOOLEAN /\ IsForward(s) = TRUE
        BY WayOf DEF On
      <4> QED BY <2>2, <4>1, <4>2, <4>3
    <3> QED BY <2>4, <2>5, <3>1, <3>2, <3>3
  <2>6. CASE ~Between(s, g)
    <3>1. f[k] = f[k - 1]
      BY <1>2, <2>1, <2>6 DEF NextList
    <3> QED BY <2>4, <2>6, <3>1
  <2> QED BY <2>5, <2>6
<1> HIDE DEF T, lo, hi, f
<1>5. ListsChanges(f, N, T, lo, hi)
  BY <1>1, <1>2, <1>3, <1>4 DEF ListsChanges
<1> QED BY <1>5 DEF f, T, lo, hi, t

LEMMA BackwardChanges ==
  ASSUME NEW s, IsQuery(s), ~IsForward(s), NumKeys(track) # 0, NEW N, N = Reach(s), NEW G \in Int,
         \A k \in Int : OnTheWay(s, k) = G - k,
         NEW a \in Int, NEW b \in Int, a <= b, b <= G - 1, G - N - 1 <= a,
         \A g \in Int : Between(s, g) <=> IsCrossing(track, s.threshold, KeyOfLoop(g)) /\ a < g /\ g <= b
  PROVE  ListsChanges(Among(s), N, [k \in 0 .. N |-> On(s.threshold, G - k - 1)], G - b - 1, G - a - 1)
<1> DEFINE t == s.threshold
           T == [k \in 0 .. N |-> On(t, G - k - 1)]
           lo == G - b - 1
           hi == G - a - 1
           f == Among(s)
<1>1. N \in Nat /\ lo \in 0 .. N /\ hi \in lo .. N /\ BuiltFloat(track)
  <2>1. N \in Nat
    BY WayOf
  <2> QED BY <2>1 DEF IsQuery
<1>2. /\ f \in [0 .. N -> Seq(EdgeRecords)] /\ f[0] = <<>>
      /\ \A k \in 1 .. N : f[k] = NextList(s, f[k - 1], k)
  BY AmongAre
<1>3. T \in [0 .. N -> BOOLEAN]
  BY DEF On
<1>4. ASSUME NEW k \in 1 .. N
      PROVE  \/ /\ (T[k - 1] # T[k]) /\ lo < k /\ k <= hi
                /\ \E edge \in EdgeRecords : edge.rising = T[k] /\ f[k] = Append(f[k - 1], edge)
             \/ ~(T[k - 1] # T[k] /\ lo < k /\ k <= hi) /\ f[k] = f[k - 1]
  <2> DEFINE g == G - k
  <2>1. g \in Int /\ k \in 0 .. N /\ k - 1 \in 0 .. N /\ G - (k - 1) - 1 = g /\ OnTheWay(s, k) = g
    BY <1>1
  <2>2. T[k] = On(t, g - 1) /\ T[k - 1] = On(t, g)
    BY <2>1
  <2>3. (lo < k /\ k <= hi) <=> (a < g /\ g <= b)
    BY <1>1
  <2> HIDE DEF g, lo, hi, T, f
  <2>4. IsCrossing(track, t, KeyOfLoop(g)) <=> (On(t, g - 1) # On(t, g))
    BY <1>1, <2>1, CrossingIsChange
  <2>5. Between(s, g) <=> (T[k - 1] # T[k]) /\ lo < k /\ k <= hi
    BY <2>1, <2>2, <2>3, <2>4
  <2>6. CASE Between(s, g)
    <3>1. f[k] = Append(f[k - 1], CrossingOf(s, g))
      BY <1>2, <2>1, <2>6 DEF NextList
    <3>2. CrossingOf(s, g) \in EdgeRecords
      BY <2>1, <2>6, CrossingsAre DEF Between
    <3>3. CrossingOf(s, g).rising = T[k]
      <4>1. CrossingOf(s, g).rising = (Rises(track, t, KeyOfLoop(g)) = IsForward(s))
        BY DEF CrossingOf
      <4>2. Rises(track, t, KeyOfLoop(g)) = On(t, g)
        BY DEF Rises, On
      <4>3. On(t, g) \in BOOLEAN /\ On(t, g - 1) \in BOOLEAN /\ IsForward(s) = FALSE
        BY WayOf DEF On
      <4>4. On(t, g - 1) # On(t, g)
        BY <2>4, <2>6 DEF Between
      <4> QED BY <2>2, <4>1, <4>2, <4>3, <4>4
    <3> QED BY <2>5, <2>6, <3>1, <3>2, <3>3
  <2>7. CASE ~Between(s, g)
    <3>1. f[k] = f[k - 1]
      BY <1>2, <2>1, <2>7 DEF NextList
    <3> QED BY <2>5, <2>7, <3>1
  <2> QED BY <2>6, <2>7
<1> HIDE DEF T, lo, hi, f
<1>5. ListsChanges(f, N, T, lo, hi)
  BY <1>1, <1>2, <1>3, <1>4 DEF ListsChanges
<1> QED BY <1>5 DEF f, T, lo, hi, t

\* The crossings of a query tell a flag from the state before the one end to the state
\* before the other.
LEMMA CrossingsTell ==
  ASSUME NEW s, IsQuery(s)
  PROVE  /\ Flips(Crossings(s), OnBefore(s.threshold, s.from))
         /\ OnBefore(s.threshold, s.to) = (OnBefore(s.threshold, s.from) # Odd(Len(Crossings(s))))
<1> DEFINE n == NumKeys(track)
           t == s.threshold
           N == Reach(s)
<1>1. N \in Nat /\ Crossings(s) = Among(s)[N] /\ n \in Nat /\ N \in 0 .. N /\ Among(s)[0] = <<>>
  BY WayOf, AmongAre
<1>2. CASE n = 0
  <2>1. track = <<>>
    BY <1>2 DEF IsQuery, BuiltFloat, RawKeys, NumKeys
  <2>2. N = 0
    <3> DEFINE c == Upper(s) \div Unit - Lower(s) \div Unit + 2
    <3>1. c \in Int /\ N = c * 0
      BY <1>2, WayOf DEF Reach
    <3> HIDE DEF c, N
    <3> QED BY <3>1
  <2>3. Crossings(s) = <<>> /\ Len(Crossings(s)) = 0
    BY <1>1, <2>2
  <2>4. AsVectors(track) = <<>>
    BY <2>1 DEF AsVectors
  <2>5. \A h : OnBefore(t, h) = (0 > t * 1)
    <3>1. \A at : JobSample(kind, <<>>, at) = [top |-> <<0>>, over |-> 1]
      BY DEF JobSample, Default, Exactly, IsQuery
    <3> QED BY <2>4, <3>1 DEF OnBefore
  <2>6. Flips(Crossings(s), OnBefore(t, s.from))
    BY <2>3 DEF Flips
  <2>7. Odd(Len(Crossings(s))) = FALSE
    BY <2>3 DEF Odd
  <2>8. OnBefore(t, s.to) = (OnBefore(t, s.from) # FALSE)
    <3>1. OnBefore(t, s.to) = OnBefore(t, s.from)
      BY <2>5
    <3>2. OnBefore(t, s.from) \in BOOLEAN
      BY DEF OnBefore
    <3> QED BY <3>1, <3>2
  <2> QED BY <2>6, <2>7, <2>8
<1>3. CASE n # 0
  <2> DEFINE l == Lower(s) \div Unit
             u == Upper(s) \div Unit
             x == l * n
             y == u * n
  <2>1. n \in Nat \ {0} /\ l \in Int /\ u \in Int
    BY <1>1, <1>3, WayOf
  <2>2. x \in Int /\ y \in Int /\ N = y - x + 2 * n /\ (l - 1) * n = x - n /\ (u + 1) * n = y + n
    <3>1. N = (u - l + 2) * n
      BY DEF Reach
    <3> HIDE DEF l, u, n, N
    <3> QED BY <2>1, <3>1
  <2>3. PICK a \in Int, b \in Int :
            /\ x - 1 <= a /\ a <= b /\ b <= y + n - 1
            /\ OnBefore(t, Lower(s)) = On(t, a)
            /\ OnBefore(t, Upper(s)) = On(t, b)
            /\ \A g \in Int : Between(s, g) <=> IsCrossing(track, t, KeyOfLoop(g)) /\ a < g /\ g <= b
    BY <1>3, EndsSplit
  <2>4. CASE IsForward(s)
    <3> DEFINE G == x - n
               T == [k \in 0 .. N |-> On(t, G + k - 1)]
               lo == a - G + 1
               hi == b - G + 1
    <3>1. G \in Int /\ G - 1 <= a /\ b <= G + N - 1
      <4> HIDE DEF x, y, n, N
      <4> QED BY <2>1, <2>2, <2>3
    <3>2. \A k \in Int : OnTheWay(s, k) = G + k - 1
      <4>1. \A k \in Int : OnTheWay(s, k) = (l - 1) * n + k - 1
        BY <2>4 DEF OnTheWay
      <4>2. (l - 1) * n = G
        BY <2>2
      <4> HIDE DEF G, l, n
      <4> QED BY <4>1, <4>2
    <3> HIDE DEF G
    <3>3. ListsChanges(Among(s), N, T, lo, hi)
      <4> HIDE DEF x, y, N, n
      <4> QED BY <1>3, <2>3, <2>4, <3>1, <3>2, ForwardChanges DEF n, N
    <3>4. lo \in 0 .. N /\ hi \in 0 .. N
      <4> HIDE DEF N
      <4> QED BY <1>1, <2>3, <3>1
    <3>5. T[lo] = On(t, a) /\ T[hi] = On(t, b)
      <4>1. G + lo - 1 = a /\ G + hi - 1 = b
        BY <3>1
      <4> HIDE DEF lo, hi
      <4> QED BY <3>4, <4>1
    <3>6. Flips(Among(s)[N], T[lo]) /\ T[hi] = (T[lo] # Odd(Len(Among(s)[N])))
      <4> HIDE DEF T, lo, hi, N
      <4> QED BY <1>1, <3>3, ChangesAlternate
    <3>7. Lower(s) = s.from /\ Upper(s) = s.to
      BY <2>4 DEF Lower, Upper
    <3> HIDE DEF T, lo, hi, N
    <3> QED BY <1>1, <2>3, <3>5, <3>6, <3>7
  <2>5. CASE ~IsForward(s)
    <3> DEFINE G == y + n
               T == [k \in 0 .. N |-> On(t, G - k - 1)]
               lo == G - b - 1
               hi == G - a - 1
    <3>1. G \in Int /\ G - N - 1 <= a /\ b <= G - 1
      <4> HIDE DEF x, y, n, N
      <4> QED BY <2>1, <2>2, <2>3
    <3>2. \A k \in Int : OnTheWay(s, k) = G - k
      <4>1. \A k \in Int : OnTheWay(s, k) = (u + 1) * n - k
        BY <2>5 DEF OnTheWay
      <4>2. (u + 1) * n = G
        BY <2>2
      <4> HIDE DEF G, u, n
      <4> QED BY <4>1, <4>2
    <3> HIDE DEF G
    <3>3. ListsChanges(Among(s), N, T, lo, hi)
      <4> HIDE DEF x, y, N, n
      <4> QED BY <1>3, <2>3, <2>5, <3>1, <3>2, BackwardChanges DEF n, N
    <3>4. lo \in 0 .. N /\ hi \in 0 .. N
      <4> HIDE DEF N
      <4> QED BY <1>1, <2>3, <3>1
    <3>5. T[lo] = On(t, b) /\ T[hi] = On(t, a)
      <4>1. G - lo - 1 = b /\ G - hi - 1 = a
        BY <3>1
      <4> HIDE DEF lo, hi
      <4> QED BY <3>4, <4>1
    <3>6. Flips(Among(s)[N], T[lo]) /\ T[hi] = (T[lo] # Odd(Len(Among(s)[N])))
      <4> HIDE DEF T, lo, hi, N
      <4> QED BY <1>1, <3>3, ChangesAlternate
    <3>7. Lower(s) = s.to /\ Upper(s) = s.from
      BY <2>5 DEF Lower, Upper
    <3> HIDE DEF T, lo, hi, N
    <3> QED BY <1>1, <2>3, <3>5, <3>6, <3>7
  <2> QED BY <2>4, <2>5
<1> QED BY <1>2, <1>3

-----------------------------------------------------------------------------
(* The search.                                                             *)

\* Ratios that floats have, with those of the loops about them.
IsExact(h) == Abs(h) + 2 * Unit <= PowerOf2(Precision)

ExactQuery(s) == IsQuery(s) /\ IsExact(s.from) /\ IsExact(s.to)

LEMMA NearIsExact ==
  ASSUME NEW s, ExactQuery(s), NEW x \in Int, Lower(s) - 2 * Unit <= x, x <= Upper(s) + 2 * Unit
  PROVE  Rounded(x) = x
<1> DEFINE P == PowerOf2(Precision)
           l == Lower(s)
           u == Upper(s)
<1>1. Precision \in Nat /\ P \in Nat /\ Unit \in Nat
  BY TrackAssumption, PowersAre
<1>2. l \in Int /\ u \in Int /\ Abs(l) + 2 * Unit <= P /\ Abs(u) + 2 * Unit <= P
  BY DEF ExactQuery, IsQuery, IsExact, Lower, Upper
<1> HIDE DEF P, l, u
<1>3. Abs(x) <= P
  BY <1>1, <1>2 DEF Abs, l, u
<1> QED BY <1>3, ExactIsExact DEF P

\* Loops about a query.
LEMMA LoopsAbout ==
  ASSUME NEW s, IsQuery(s), NEW loop \in Int
  PROVE  /\ loop * Unit \in Int /\ (loop + 1) * Unit = loop * Unit + Unit /\ (loop - 1) * Unit = loop * Unit - Unit
         /\ loop >= Lower(s) \div Unit <=> loop * Unit + Unit > Lower(s)
         /\ loop > Upper(s) \div Unit <=> loop * Unit > Upper(s)
         /\ loop >= Lower(s) \div Unit - 1 => loop * Unit >= Lower(s) - 2 * Unit
         /\ loop >= Lower(s) \div Unit => loop * Unit >= Lower(s) - Unit
         /\ loop <= Upper(s) \div Unit => loop * Unit <= Upper(s)
         /\ loop <= Upper(s) \div Unit + 1 => loop * Unit <= Upper(s) + Unit
<1> DEFINE l == Lower(s) \div Unit
           u == Upper(s) \div Unit
           a == Lower(s) % Unit
           b == Upper(s) % Unit
           lo == Lower(s)
           up == Upper(s)
<1>1. /\ Unit \in Nat \ {0} /\ l \in Int /\ u \in Int /\ a \in 0 .. Unit - 1 /\ b \in 0 .. Unit - 1
      /\ lo \in Int /\ up \in Int /\ lo = l * Unit + a /\ up = u * Unit + b
  BY WayOf, NumbersAre
<1> HIDE DEF l, u, a, b, lo, up
<1>2. /\ loop * Unit \in Int /\ (loop + 1) * Unit = loop * Unit + Unit /\ (loop - 1) * Unit = loop * Unit - Unit
      /\ l * Unit \in Int /\ u * Unit \in Int
      /\ l <= loop => l * Unit <= loop * Unit
      /\ loop < l => loop * Unit + Unit <= l * Unit
      /\ loop <= u => loop * Unit <= u * Unit
      /\ u < loop => u * Unit + Unit <= loop * Unit
  BY <1>1, WholeSteps
<1>3. l <= loop + 1 => l * Unit <= loop * Unit + Unit
  <2> DEFINE j == loop + 1
  <2>1. j \in Int /\ j * Unit = loop * Unit + Unit
    BY <1>2
  <2> HIDE DEF j
  <2>2. l <= j => l * Unit <= j * Unit
    BY <1>1, <2>1, WholeSteps
  <2> QED BY <2>1, <2>2 DEF j
<1>4. loop - 1 <= u => loop * Unit - Unit <= u * Unit
  <2> DEFINE j == loop - 1
  <2>1. j \in Int /\ j * Unit = loop * Unit - Unit
    BY <1>2
  <2> HIDE DEF j
  <2>2. j <= u => j * Unit <= u * Unit
    BY <1>1, <2>1, WholeSteps
  <2> QED BY <2>1, <2>2 DEF j
<1> DEFINE x == loop * Unit
           y == l * Unit
           z == u * Unit
<1>5. /\ x \in Int /\ y \in Int /\ z \in Int /\ lo = y + a /\ up = z + b
      /\ l <= loop => y <= x
      /\ loop < l => x + Unit <= y
      /\ loop <= u => x <= z
      /\ u < loop => z + Unit <= x
      /\ l <= loop + 1 => y <= x + Unit
      /\ loop - 1 <= u => x - Unit <= z
  BY <1>1, <1>2, <1>3, <1>4
<1> HIDE DEF x, y, z
<1>6. /\ loop >= l <=> x + Unit > lo
      /\ loop > u <=> x > up
      /\ loop >= l => x >= lo - Unit
      /\ loop <= u => x <= up
  BY <1>1, <1>5
<1>7. (loop >= l - 1 => x >= lo - 2 * Unit) /\ (loop <= u + 1 => x <= up + Unit)
  BY <1>1, <1>5
<1> QED BY <1>2, <1>6, <1>7 DEF x, l, u, lo, up

\* An iterator is in a loop, at a key, and has passed so many on its way.
OnLoop(s, loop, v) ==
    /\ loop \in Int /\ s.outer = loop * Unit /\ s.inner \in Int /\ v \in 0 .. Reach(s)
    /\ IF IsForward(s)
       THEN /\ Lower(s) \div Unit <= loop /\ loop <= Upper(s) \div Unit + 1
            /\ s.inner \in 0 .. NumKeys(track)
            /\ v = (loop - Lower(s) \div Unit + 1) * NumKeys(track) + s.inner
       ELSE /\ Lower(s) \div Unit - 1 <= loop /\ loop <= Upper(s) \div Unit
            /\ s.inner \in -1 .. NumKeys(track) - 1
            /\ v = (Upper(s) \div Unit - loop) * NumKeys(track) + NumKeys(track) - 1 - s.inner

\* The key j of the loop is so many keys away on the way.
LEMMA KeysAhead ==
  ASSUME NEW s, IsQuery(s), NEW loop, NEW v, OnLoop(s, loop, v), NEW n, n = NumKeys(track), n # 0, NEW w \in Int
  PROVE  OnTheWay(s, w) = IF IsForward(s) THEN loop * n + s.inner + (w - v - 1)
                                          ELSE loop * n + s.inner - (w - v - 1)
<1> DEFINE l == Lower(s) \div Unit
           u == Upper(s) \div Unit
           i == s.inner
<1>1. n \in Nat /\ l \in Int /\ u \in Int /\ loop \in Int /\ v \in Int /\ i \in Int
  BY WayOf DEF OnLoop
<1>2. CASE IsForward(s)
  <2>1. v = (loop - l + 1) * n + i /\ OnTheWay(s, w) = (l - 1) * n + w - 1
    BY <1>2 DEF OnLoop, OnTheWay
  <2> HIDE DEF l, u, i
  <2>2. (loop - l + 1) * n = loop * n - (l - 1) * n /\ (l - 1) * n \in Int /\ loop * n \in Int
    BY <1>1
  <2> DEFINE x == loop * n
             y == (l - 1) * n
  <2>3. x \in Int /\ y \in Int /\ v = (x - y) + i /\ OnTheWay(s, w) = y + w - 1
    BY <2>1, <2>2
  <2> HIDE DEF x, y
  <2>4. OnTheWay(s, w) = x + i + (w - v - 1)
    BY <1>1, <2>3
  <2> QED BY <1>2, <2>4 DEF x, i
<1>3. CASE ~IsForward(s)
  <2>1. v = (u - loop) * n + n - 1 - i /\ OnTheWay(s, w) = (u + 1) * n - w
    BY <1>3 DEF OnLoop, OnTheWay
  <2> HIDE DEF l, u, i
  <2>2. (u - loop) * n = (u + 1) * n - n - loop * n /\ (u + 1) * n \in Int /\ loop * n \in Int
    BY <1>1
  <2> DEFINE x == loop * n
             y == (u + 1) * n
             z == (u - loop) * n
  <2>3. x \in Int /\ y \in Int /\ z = y - n - x /\ v = z + n - 1 - i /\ OnTheWay(s, w) = y - w
    BY <2>1, <2>2
  <2> HIDE DEF x, y, z
  <2>4. OnTheWay(s, w) = x + i - (w - v - 1)
    BY <1>1, <2>3
  <2> QED BY <1>3, <2>4 DEF x, i
<1> QED BY <1>2, <1>3

\* Where nothing crosses nothing is told.
LEMMA NothingBetween ==
  ASSUME NEW s, IsQuery(s), NEW v \in 0 .. Reach(s), NEW w \in v .. Reach(s),
         \A k \in v + 1 .. w : ~Between(s, OnTheWay(s, k))
  PROVE  Among(s)[w] = Among(s)[v]
<1> DEFINE a == Among(s)
           n == Reach(s)
           S == {d \in 0 .. w - v : a[v + d] = a[v]}
<1>1. n \in Nat /\ \A k \in 1 .. n : a[k] = NextList(s, a[k - 1], k)
  BY WayOf, AmongAre
<1>2. v \in 0 .. n /\ w \in v .. n
  OBVIOUS
<1> HIDE DEF a, n
<1>3. w - v \in Nat /\ w - v \in 0 .. w - v /\ v + (w - v) = w /\ v + 0 = v
  BY <1>1, <1>2
<1>4. 0 \in S
  BY <1>3
<1>5. ASSUME NEW d \in 1 .. w - v, d - 1 \in S PROVE d \in S
  <2>1. v + d \in 1 .. n /\ v + d \in v + 1 .. w /\ v + (d - 1) = (v + d) - 1 /\ d \in 0 .. w - v
    BY <1>1, <1>2
  <2>2. a[v + d] = a[(v + d) - 1]
    BY <1>1, <2>1 DEF NextList
  <2>3. a[(v + d) - 1] = a[v]
    BY <1>5, <2>1
  <2> QED BY <2>1, <2>2, <2>3
<1> HIDE DEF S
<1>6. w - v \in S
  BY <1>3, <1>4, <1>5, ByNumber
<1> QED BY <1>3, <1>6 DEF S, a

\* A query is its two ratios and its threshold.
SameQuery(s, z) == z.from = s.from /\ z.to = s.to /\ z.threshold = s.threshold

LEMMA SameAnswers ==
  ASSUME NEW s, NEW z, IsQuery(s), SameQuery(s, z)
  PROVE  /\ IsQuery(z) /\ (ExactQuery(s) => ExactQuery(z))
         /\ Reach(z) = Reach(s) /\ Lower(z) = Lower(s) /\ Upper(z) = Upper(s) /\ IsForward(z) = IsForward(s)
         /\ Among(z) = Among(s) /\ Crossings(z) = Crossings(s)
<1>1. IsQuery(z) /\ (ExactQuery(s) => ExactQuery(z))
  BY DEF IsQuery, ExactQuery, SameQuery
<1>2. IsForward(z) = IsForward(s)
  BY DEF IsForward, SameQuery
<1>3. Lower(z) = Lower(s) /\ Upper(z) = Upper(s)
  BY <1>2 DEF Lower, Upper, SameQuery
<1>4. Reach(z) = Reach(s) /\ \A k : OnTheWay(z, k) = OnTheWay(s, k)
  BY <1>2, <1>3 DEF Reach, OnTheWay
<1>5. \A g : (Between(z, g) <=> Between(s, g)) /\ CrossingOf(z, g) = CrossingOf(s, g)
  BY <1>2, <1>3 DEF Between, CrossingOf, SameQuery
<1>6. \A list, k : NextList(z, list, k) = NextList(s, list, k)
  BY <1>4, <1>5 DEF NextList
<1> DEFINE a == Among(s)
           b == Among(z)
           n == Reach(s)
<1>7. /\ n \in Nat
      /\ a \in [0 .. n -> Seq(EdgeRecords)] /\ a[0] = <<>> /\ \A k \in 1 .. n : a[k] = NextList(s, a[k - 1], k)
  BY WayOf, AmongAre
<1>8. b \in [0 .. n -> Seq(EdgeRecords)] /\ b[0] = <<>> /\ \A k \in 1 .. n : b[k] = NextList(s, b[k - 1], k)
  BY <1>1, <1>4, <1>6, AmongAre
<1>9. Crossings(s) = a[n] /\ Crossings(z) = b[n]
  BY <1>1, <1>4, AmongAre
<1> HIDE DEF a, b, n
<1> DEFINE S == {k \in 0 .. n : a[k] = b[k]}
<1>10. 0 \in S
  BY <1>7, <1>8
<1>11. ASSUME NEW k \in 1 .. n, k - 1 \in S PROVE k \in S
  BY <1>7, <1>8, <1>11
<1> HIDE DEF S
<1>12. 0 .. n \subseteq S
  BY <1>7, <1>10, <1>11, ByNumber
<1>13. \A k \in 0 .. n : a[k] = b[k]
  BY <1>12 DEF S
<1>14. a = b
  BY <1>7, <1>8, <1>13
<1> QED BY <1>1, <1>2, <1>3, <1>4, <1>9, <1>14 DEF a, b

LEMMA KeyOfLine ==
  ASSUME BuiltFloat(track), NEW n, n = NumKeys(track), n # 0, NEW loop \in Int, NEW j \in 0 .. n - 1
  PROVE  /\ loop * n + j \in Int /\ loop * n \in Int
         /\ KeyOfLoop(loop * n + j) = j /\ LoopOf(loop * n + j) = loop * Unit
<1>1. n \in Nat \ {0}
  BY KeysOfLoops
<1>2. \A q \in Int, r \in 0 .. n - 1 : (q * n + r) \div n = q /\ (q * n + r) % n = r
  BY <1>1, NumbersAre
<1>3. (loop * n + j) \div n = loop /\ (loop * n + j) % n = j
  BY <1>2
<1>4. loop * n + j \in Int /\ loop * n \in Int
  BY <1>1
<1> QED BY <1>3, <1>4 DEF KeyOfLoop, LoopOf

\* A key whose loop ends behind the lower end of a query.
LEMMA BetweenAt ==
  ASSUME NEW s, IsQuery(s), NEW n, n = NumKeys(track), n # 0, NEW loop \in Int, NEW j \in 0 .. n - 1,
         NEW t, t = s.threshold, NEW x, x = loop * Unit, x + Unit > Lower(s)
  PROVE  /\ Between(s, loop * n + j) <=>
               /\ IsCrossing(track, t, j)
               /\ x + CrossingRatio(track, t, j) >= Lower(s)
               /\ x + CrossingRatio(track, t, j) < Upper(s) \/ x + Unit <= Upper(s)
         /\ IsCrossing(track, t, j) =>
               /\ CrossingRatio(track, t, j) \in 0 .. Key(track, j).ratio /\ Key(track, j).ratio \in 0 .. Unit
               /\ CrossingOf(s, loop * n + j) =
                     [ratio |-> x + CrossingRatio(track, t, j), rising |-> Rises(track, t, j) = IsForward(s)]
<1> DEFINE g == loop * n + j
           c == CrossingRatio(track, t, j)
           k == Key(track, j).ratio
<1>1. BuiltFloat(track) /\ t \in Int /\ CrossesOnGrid(track, t) /\ n \in Nat \ {0} /\ Unit \in Nat \ {0}
      /\ Lower(s) \in Int /\ Upper(s) \in Int /\ Lower(s) <= Upper(s) /\ k \in 0 .. Unit /\ x \in Int
  <2>1. BuiltFloat(track) /\ t \in Int /\ CrossesOnGrid(track, t)
    BY DEF IsQuery
  <2>2. k \in 0 .. Unit /\ Unit \in Nat \ {0} /\ n \in Nat \ {0}
    BY <2>1, KeysOfLoops
  <2>3. x \in Int
    BY <2>2
  <2> QED BY <2>1, <2>2, <2>3, WayOf
<1>2. KeyOfLoop(g) = j /\ LoopOf(g) = x
  BY <1>1, KeyOfLine
<1>3. IsCrossing(track, t, j) => c \in 0 .. k
  BY <1>1, DetectsCrossings
<1>4. Position(g, t) = x + c
  BY <1>2 DEF Position
<1>5. Passed(g, t, Upper(s)) <=> x + c < Upper(s) \/ x + Unit <= Upper(s)
  BY <1>2, <1>4 DEF Passed
<1>6. Passed(g, t, Lower(s)) <=> x + c < Lower(s) \/ x + Unit <= Lower(s)
  BY <1>2, <1>4 DEF Passed
<1>7. Between(s, g) <=> /\ IsCrossing(track, t, j)
                        /\ Passed(g, t, Upper(s)) /\ ~Passed(g, t, Lower(s))
  BY <1>2 DEF Between
<1>8. CrossingOf(s, g) = [ratio |-> x + c, rising |-> Rises(track, t, j) = IsForward(s)]
  BY <1>2, <1>4 DEF CrossingOf
<1> HIDE DEF g, c, k
<1>9. IsCrossing(track, t, j) => c \in Int /\ (~Passed(g, t, Lower(s)) <=> x + c >= Lower(s))
  BY <1>1, <1>3, <1>6
<1>10. Between(s, g) <=> /\ IsCrossing(track, t, j)
                         /\ x + c >= Lower(s) /\ (x + c < Upper(s) \/ x + Unit <= Upper(s))
  BY <1>5, <1>7, <1>9
<1> QED BY <1>1, <1>3, <1>8, <1>10 DEF g, c, k

\* Where operator++ is.
Searches(s, loop, v) ==
    /\ calling # Nowhere /\ It = s /\ Job = s
    /\ ExactQuery(s) /\ OnLoop(s, loop, v)

\* While it searches, the loop it is in reaches into the query, and nothing is rounded.
LEMMA SearchedLoop ==
  ASSUME NEW s, NEW loop, NEW v, Searches(s, loop, v)
  PROVE  /\ loop \in Int /\ s.outer = loop * Unit /\ loop * Unit \in Int
         /\ NextLoop = loop * Unit + Unit
         /\ Searching => /\ Lower(s) \div Unit <= loop /\ loop <= Upper(s) \div Unit
                         /\ loop * Unit + Unit > Lower(s)
                         /\ \A r \in 0 .. Unit : Rounded(r + s.outer) = loop * Unit + r
                         /\ Rounded(s.outer - Unit) = loop * Unit - Unit
         /\ ~Searching => /\ IsForward(s) => loop * Unit >= Upper(s)
                          /\ ~IsForward(s) => loop * Unit + Unit <= Lower(s)
<1> DEFINE l == Lower(s) \div Unit
           u == Upper(s) \div Unit
           lo == Lower(s)
           up == Upper(s)
           x == loop * Unit
<1>1. /\ Unit \in Nat \ {0} /\ loop \in Int /\ l \in Int /\ u \in Int /\ lo \in Int /\ up \in Int /\ lo <= up
      /\ s.outer = x /\ IsQuery(s) /\ l <= u
      /\ IsForward(s) => l <= loop /\ loop <= u + 1
      /\ ~IsForward(s) => l - 1 <= loop /\ loop <= u
  BY WayOf DEF Searches, ExactQuery, OnLoop
<1>2. /\ x \in Int
      /\ loop >= l <=> x + Unit > lo
      /\ loop > u <=> x > up
      /\ loop >= l - 1 => x >= lo - 2 * Unit
      /\ loop >= l => x >= lo - Unit
      /\ loop <= u => x <= up
      /\ loop <= u + 1 => x <= up + Unit
  BY <1>1, LoopsAbout
<1>3. \A y \in Int : lo - 2 * Unit <= y /\ y <= up + 2 * Unit => Rounded(y) = y
  BY NearIsExact DEF Searches
<1>4. NextLoop = Rounded(x + Unit)
  BY <1>1 DEF NextLoop, Searches
<1>5. /\ IsForward(s) => lo = s.from /\ up = s.to
      /\ ~IsForward(s) => lo = s.to /\ up = s.from
  BY DEF Lower, Upper
<1>6. /\ IsForward(s) => (Searching <=> x < up)
      /\ ~IsForward(s) => (Searching <=> NextLoop > lo)
  <2>1. Forward <=> IsForward(s)
    BY DEF Forward, IsForward, Searches, ExactQuery, IsQuery
  <2>2. Searching <=> IF Forward THEN s.outer < s.to ELSE NextLoop > s.to
    BY DEF Searching, Searches
  <2> QED BY <1>1, <1>5, <2>1, <2>2
<1> HIDE DEF l, u, lo, up, x
<1>7. NextLoop = x + Unit
  <2>1. x + Unit \in Int /\ lo - 2 * Unit <= x + Unit /\ x + Unit <= up + 2 * Unit
    BY <1>1, <1>2
  <2> QED BY <1>3, <1>4, <2>1
<1>8. ASSUME Searching PROVE l <= loop /\ loop <= u /\ x + Unit > lo
  <2>1. CASE IsForward(s)
    <3>1. l <= loop /\ x < up
      BY <1>1, <1>6, <1>8, <2>1
    <3> QED BY <1>1, <1>2, <3>1
  <2>2. CASE ~IsForward(s)
    <3>1. x + Unit > lo /\ loop <= u
      BY <1>1, <1>6, <1>7, <1>8, <2>2
    <3> QED BY <1>1, <1>2, <3>1
  <2> QED BY <2>1, <2>2
<1>9. ASSUME Searching, NEW r \in 0 .. Unit PROVE Rounded(r + s.outer) = x + r
  <2>1. r + s.outer \in Int /\ r + s.outer = x + r /\ lo - 2 * Unit <= x + r /\ x + r <= up + 2 * Unit
    BY <1>1, <1>2, <1>8, <1>9
  <2> QED BY <1>3, <2>1
<1>10. ASSUME Searching PROVE Rounded(s.outer - Unit) = x - Unit
  <2>1. x - Unit \in Int /\ lo - 2 * Unit <= x - Unit /\ x - Unit <= up + 2 * Unit
    BY <1>1, <1>2, <1>8, <1>10
  <2> QED BY <1>1, <1>3, <2>1
<1>11. ASSUME ~Searching
       PROVE  (IsForward(s) => x >= up) /\ (~IsForward(s) => x + Unit <= lo)
  BY <1>1, <1>2, <1>6, <1>7, <1>11
<1> QED BY <1>1, <1>2, <1>7, <1>8, <1>9, <1>10, <1>11 DEF l, u, lo, up, x

\* At a key, what is kept is a crossing of the query, and it is told as it is.
LEMMA KeptIsBetween ==
  ASSUME NEW s, NEW loop, NEW v, Searches(s, loop, v), Searching, KeyLeft
  PROVE  /\ NumKeys(track) # 0 /\ NumKeys(track) \in Nat /\ s.inner \in 0 .. NumKeys(track) - 1
         /\ v + 1 \in 1 .. Reach(s)
         /\ Detected.detected /\ Kept <=> Between(s, OnTheWay(s, v + 1))
         /\ Detected.detected => /\ [Detected.edge EXCEPT !.ratio = Found] \in EdgeRecords
                                 /\ [Detected.edge EXCEPT !.ratio = Found] = CrossingOf(s, OnTheWay(s, v + 1))
<1> DEFINE n == NumKeys(track)
           t == s.threshold
           i == s.inner
           x == loop * Unit
           c == CrossingRatio(track, t, i)
           g == loop * n + i
           lo == Lower(s)
           up == Upper(s)
<1>1. IsQuery(s) /\ It = s /\ Job = s /\ BuiltFloat(track) /\ t \in Int /\ CrossesOnGrid(track, t)
  BY DEF Searches, ExactQuery, IsQuery
<1>2. /\ i \in 0 .. n - 1 /\ n \in Nat /\ n # 0 /\ n \in Nat \ {0} /\ Unit \in Nat \ {0}
  <2>1. i \in 0 .. n - 1 /\ n \in Nat
    BY <1>1, WayOf DEF KeyLeft
  <2>2. n # 0
    BY <2>1
  <2> QED BY <1>1, <2>1, <2>2, KeysOfLoops
<1>3. /\ loop \in Int /\ s.outer = x /\ x \in Int /\ NextLoop = x + Unit
      /\ Lower(s) \div Unit <= loop /\ loop <= Upper(s) \div Unit
      /\ x + Unit > lo /\ \A r \in 0 .. Unit : Rounded(r + s.outer) = x + r
  BY SearchedLoop
<1>4. v + 1 \in 1 .. Reach(s) /\ v \in Int
  <2> DEFINE l == Lower(s) \div Unit
             u == Upper(s) \div Unit
  <2>1. l \in Int /\ u \in Int /\ l <= loop /\ loop <= u /\ Reach(s) = (u - l + 2) * n /\ v \in 0 .. Reach(s) /\ Reach(s) \in Nat
    BY <1>1, <1>3, WayOf DEF Reach, Searches, OnLoop
  <2>2. CASE IsForward(s)
    <3>1. v = (loop - l + 1) * n + i
      BY <2>2 DEF Searches, OnLoop
    <3> HIDE DEF l, u, n, i
    <3> DEFINE a == loop - l + 1
               b == u - l + 2
    <3>2. a \in Int /\ b \in Int /\ a < b
      BY <1>3, <2>1
    <3> HIDE DEF a, b
    <3>3. a * n + n <= b * n /\ a * n \in Int /\ b * n \in Int
      BY <1>2, <3>2, WholeSteps
    <3> DEFINE y == a * n
               z == b * n
    <3>4. y \in Int /\ z \in Int /\ y + n <= z /\ v = y + i /\ Reach(s) = z
      BY <2>1, <3>1, <3>3 DEF a, b
    <3> HIDE DEF y, z
    <3> QED BY <1>2, <2>1, <3>4
  <2>3. CASE ~IsForward(s)
    <3>1. v = (u - loop) * n + n - 1 - i
      BY <2>3 DEF Searches, OnLoop
    <3> HIDE DEF l, u, n, i
    <3> DEFINE a == u - loop
               b == u - l + 2
    <3>2. a \in Int /\ b \in Int /\ a < b
      BY <1>3, <2>1
    <3> HIDE DEF a, b
    <3>3. a * n + n <= b * n /\ a * n \in Int /\ b * n \in Int
      BY <1>2, <3>2, WholeSteps
    <3> DEFINE y == a * n
               z == b * n
    <3>4. y \in Int /\ z \in Int /\ y + n <= z /\ v = y + n - 1 - i /\ Reach(s) = z
      BY <2>1, <3>1, <3>3 DEF a, b
    <3> HIDE DEF y, z
    <3> QED BY <1>2, <2>1, <3>4
  <2> QED BY <2>2, <2>3
<1>5. OnTheWay(s, v + 1) = g
  <2>1. OnTheWay(s, v + 1) = IF IsForward(s) THEN loop * n + i + ((v + 1) - v - 1) ELSE loop * n + i - ((v + 1) - v - 1)
    <3>1. OnLoop(s, loop, v) /\ v + 1 \in Int
      BY <1>4 DEF Searches
    <3> QED BY <1>1, <1>2, <3>1, KeysAhead
  <2>2. (v + 1) - v - 1 = 0 /\ loop * n \in Int /\ i \in Int
    BY <1>2, <1>3, <1>4
  <2> HIDE DEF n, i
  <2>3. loop * n + i + 0 = loop * n + i /\ loop * n + i - 0 = loop * n + i
    BY <2>2
  <2> QED BY <2>1, <2>2, <2>3 DEF g
<1>6. /\ Between(s, g) <=> IsCrossing(track, t, i) /\ x + c >= lo /\ (x + c < up \/ x + Unit <= up)
      /\ IsCrossing(track, t, i) =>
            /\ c \in 0 .. Key(track, i).ratio /\ Key(track, i).ratio \in 0 .. Unit
            /\ CrossingOf(s, g) = [ratio |-> x + c, rising |-> Rises(track, t, i) = IsForward(s)]
  BY <1>1, <1>2, <1>3, BetweenAt
<1>7. (Forward <=> IsForward(s)) /\ Forward \in BOOLEAN /\ IsForward(s) \in BOOLEAN
  BY <1>1 DEF Forward, IsForward, IsQuery
<1>8. /\ Detected.detected <=> IsCrossing(track, t, i)
      /\ Detected.detected => Detected.edge = [ratio |-> c, rising |-> Rises(track, t, i) = IsForward(s)]
  <2>1. Detected = DetectEdge(i, t, Forward)
    BY <1>1 DEF Detected
  <2>2. Forward = IsForward(s)
    BY <1>7
  <2>3. /\ DetectEdge(i, t, Forward).detected <=> IsCrossing(track, t, i)
        /\ IsCrossing(track, t, i) =>
             DetectEdge(i, t, Forward).edge = [ratio |-> c, rising |-> Rises(track, t, i) = Forward]
    <3> DEFINE f == Forward
    <3>1. f \in BOOLEAN
      BY <1>7
    <3> HIDE DEF f, i, t
    <3> QED BY <1>1, <1>2, <3>1, DetectsCrossings DEF f
  <2> QED BY <2>1, <2>2, <2>3
<1>9. Detected.detected => Found = x + c /\ c \in Int
  <2> SUFFICES ASSUME Detected.detected PROVE Found = x + c /\ c \in Int
    OBVIOUS
  <2> DEFINE k == Key(track, i).ratio
  <2>1. c \in 0 .. k /\ k \in 0 .. Unit
    BY <1>6, <1>8
  <2>2. Found = Rounded(c + s.outer)
    BY <1>1, <1>8 DEF Found
  <2> HIDE DEF c, k
  <2>3. c \in 0 .. Unit
    BY <1>2, <2>1
  <2> QED BY <1>3, <2>2, <2>3
<1>10. ASSUME Detected.detected
       PROVE  /\ [Detected.edge EXCEPT !.ratio = Found] \in EdgeRecords
              /\ [Detected.edge EXCEPT !.ratio = Found] = CrossingOf(s, g)
  <2> DEFINE r == Rises(track, t, i) = IsForward(s)
  <2>1. Detected.edge = [ratio |-> c, rising |-> r] /\ CrossingOf(s, g) = [ratio |-> x + c, rising |-> r]
    BY <1>6, <1>8, <1>10
  <2>2. r \in BOOLEAN /\ x + c \in Int /\ Found = x + c
    BY <1>3, <1>9, <1>10
  <2> HIDE DEF r, c, x
  <2> QED BY <2>1, <2>2 DEF EdgeRecords
<1>11. Detected.detected => (Kept <=> x + c >= lo /\ (x + c < up \/ x + Unit <= up))
  <2> SUFFICES ASSUME Detected.detected PROVE Kept <=> x + c >= lo /\ (x + c < up \/ x + Unit <= up)
    OBVIOUS
  <2>1. Kept <=> IF Forward THEN Found >= s.from /\ (Found < s.to \/ s.to >= NextLoop)
                            ELSE Found >= s.to /\ (Found < s.from \/ s.from >= NextLoop)
    BY <1>1 DEF Kept
  <2>2. /\ IsForward(s) => lo = s.from /\ up = s.to
        /\ ~IsForward(s) => lo = s.to /\ up = s.from
    BY DEF Lower, Upper
  <2>3. lo \in Int /\ up \in Int
    BY <1>1, WayOf
  <2> HIDE DEF lo, up, c, x
  <2> QED BY <1>2, <1>3, <1>7, <1>9, <2>1, <2>2, <2>3
<1> QED BY <1>2, <1>4, <1>5, <1>6, <1>8, <1>10, <1>11

\* Loops beyond the ends of a query.
LEMMA LoopsBeyond ==
  ASSUME NEW s, IsQuery(s), NEW n, n = NumKeys(track), n # 0, NEW loop \in Int, NEW g \in Int
  PROVE  /\ loop * n <= g /\ loop * Unit >= Upper(s) => ~Between(s, g)
         /\ g <= loop * n + n - 1 /\ loop * Unit + Unit <= Lower(s) => ~Between(s, g)
<1> DEFINE q == g \div n
           j == KeyOfLoop(g)
           t == s.threshold
           c == CrossingRatio(track, t, j)
           x == q * Unit
           lo == Lower(s)
           up == Upper(s)
<1>1. /\ n \in Nat \ {0} /\ Unit \in Nat \ {0} /\ BuiltFloat(track) /\ t \in Int /\ CrossesOnGrid(track, t)
      /\ lo \in Int /\ up \in Int
  BY WayOf, KeysOfLoops DEF IsQuery
<1>2. q \in Int /\ j \in 0 .. n - 1 /\ g = q * n + j
  BY <1>1, NumbersAre DEF KeyOfLoop
<1>3. IsCrossing(track, t, j) => c \in Int /\ c >= 0
  <2> DEFINE k == Key(track, j).ratio
  <2>1. k \in Int
    BY <1>1, <1>2, KeysOfLoops
  <2>2. IsCrossing(track, t, j) => c \in 0 .. k
    <3> HIDE DEF t, j
    <3> QED BY <1>1, <1>2, DetectsCrossings
  <2> HIDE DEF k, c
  <2> QED BY <2>1, <2>2
<1>4. Position(g, t) = x + c /\ LoopOf(g) = x
  BY DEF Position, LoopOf
<1>5. Between(s, g) => /\ IsCrossing(track, t, j)
                       /\ x + c < up \/ x + Unit <= up
                       /\ ~(x + Unit <= lo)
  BY <1>4 DEF Between, Passed
<1> HIDE DEF q, j, c, lo, up
<1>6. x \in Int /\ loop * Unit \in Int /\ loop * n \in Int /\ q * n \in Int
  BY <1>1, <1>2
<1>7. loop * n <= g => loop <= q
  <2> SUFFICES ASSUME loop * n <= g, q < loop PROVE FALSE
    BY <1>2
  <2>1. q * n + n <= loop * n
    BY <1>1, <1>2, WholeSteps
  <2> DEFINE a == q * n
             b == loop * n
  <2>2. a \in Int /\ b \in Int /\ a + n <= b /\ b <= g /\ g = a + j
    BY <1>2, <1>6, <2>1
  <2> HIDE DEF a, b
  <2> QED BY <1>1, <1>2, <2>2
<1>8. g <= loop * n + n - 1 => q <= loop
  <2> SUFFICES ASSUME g <= loop * n + n - 1, loop < q PROVE FALSE
    BY <1>2
  <2>1. loop * n + n <= q * n
    BY <1>1, <1>2, WholeSteps
  <2> DEFINE a == q * n
             b == loop * n
  <2>2. a \in Int /\ b \in Int /\ b + n <= a /\ g <= b + n - 1 /\ g = a + j
    BY <1>2, <1>6, <2>1
  <2> HIDE DEF a, b
  <2> QED BY <1>1, <1>2, <2>2
<1>9. /\ loop <= q => loop * Unit <= x
      /\ q <= loop => x <= loop * Unit
  BY <1>1, <1>2, WholeSteps
<1> DEFINE y == loop * Unit
<1>10. /\ x \in Int /\ y \in Int /\ (loop <= q => y <= x) /\ (q <= loop => x <= y)
  BY <1>6, <1>9
<1> HIDE DEF x, y
<1>11. loop <= q /\ y >= up => ~Between(s, g)
  BY <1>1, <1>3, <1>5, <1>10
<1>12. q <= loop /\ y + Unit <= lo => ~Between(s, g)
  BY <1>1, <1>5, <1>10
<1> QED BY <1>7, <1>8, <1>11, <1>12 DEF y, lo, up

\* A query that is exhausted has told all.
LEMMA ExhaustedTellsAll ==
  ASSUME NEW s, NEW loop, NEW v, Searches(s, loop, v), ~Searching
  PROVE  Among(s)[v] = Crossings(s)
<1> DEFINE n == NumKeys(track)
           i == s.inner
<1>1. /\ IsQuery(s) /\ OnLoop(s, loop, v) /\ n \in Nat /\ Reach(s) \in Nat /\ v \in 0 .. Reach(s) /\ loop \in Int /\ i \in Int
  BY WayOf DEF Searches, ExactQuery, OnLoop
<1>2. Reach(s) \in v .. Reach(s)
  BY <1>1
<1>3. ASSUME NEW k \in v + 1 .. Reach(s) PROVE ~Between(s, OnTheWay(s, k))
  <2>1. n # 0
    <3>1. ASSUME n = 0 PROVE FALSE
      <4> DEFINE c == Upper(s) \div Unit - Lower(s) \div Unit + 2
      <4>1. c \in Int /\ Reach(s) = c * 0
        BY <1>1, <3>1, WayOf DEF Reach
      <4> HIDE DEF c
      <4>2. Reach(s) = 0
        BY <4>1
      <4> QED BY <1>1, <4>2
    <3> QED BY <3>1
  <2> DEFINE g == OnTheWay(s, k)
             d == k - v - 1
  <2>2. g = (IF IsForward(s) THEN loop * n + i + d ELSE loop * n + i - d) /\ k \in Int /\ d \in Nat
    <3>1. k \in Int /\ d \in Nat
      BY <1>1
    <3> QED BY <1>1, <2>1, <3>1, KeysAhead
  <2>3. /\ IsForward(s) => loop * Unit >= Upper(s) /\ i >= 0
        /\ ~IsForward(s) => loop * Unit + Unit <= Lower(s) /\ i <= n - 1
    <3>1. /\ IsForward(s) => i \in 0 .. n
          /\ ~IsForward(s) => i \in -1 .. n - 1
      BY <1>1 DEF OnLoop
    <3> QED BY <1>1, <3>1, SearchedLoop
  <2>4. g \in Int
    BY <1>1, <2>2, WayOf
  <2>5. loop * n \in Int
    BY <1>1
  <2> HIDE DEF g, d, i, n
  <2> DEFINE y == loop * n
  <2>6. y \in Int /\ g = (IF IsForward(s) THEN y + i + d ELSE y + i - d)
    BY <2>2, <2>5
  <2> HIDE DEF y
  <2>7. (IsForward(s) => y <= g) /\ (~IsForward(s) => g <= y + n - 1)
    BY <1>1, <2>2, <2>3, <2>6
  <2>8. /\ y <= g /\ loop * Unit >= Upper(s) => ~Between(s, g)
        /\ g <= y + n - 1 /\ loop * Unit + Unit <= Lower(s) => ~Between(s, g)
    BY <1>1, <2>1, <2>4, LoopsBeyond DEF y, n
  <2>9. ~Between(s, g)
    BY <2>3, <2>7, <2>8
  <2> QED BY <2>9 DEF g
<1>4. Among(s)[Reach(s)] = Among(s)[v]
  BY <1>1, <1>2, <1>3, NothingBetween
<1> QED BY <1>1, <1>4, AmongAre

\* Of nothing there is nothing to tell.
LEMMA NowhereToGo ==
  ASSUME NEW s, IsQuery(s), s.from = s.to
  PROVE  Crossings(s) = <<>>
<1>1. Lower(s) = Upper(s)
  BY DEF Lower, Upper
<1>2. Reach(s) \in Nat /\ 0 \in 0 .. Reach(s) /\ Reach(s) \in 0 .. Reach(s)
  BY WayOf
<1>3. \A k : ~Between(s, OnTheWay(s, k))
  BY <1>1 DEF Between
<1>4. Among(s)[Reach(s)] = Among(s)[0]
  BY <1>2, <1>3, NothingBetween
<1> QED BY <1>4, AmongAre

\* A query starts with nothing behind it.
LEMMA StartsWithNothing ==
  ASSUME NEW s, ExactQuery(s), s.from # s.to, s.outer = Floor(s.from),
         s.inner = IF s.from < s.to THEN 0 ELSE NumKeys(track) - 1
  PROVE  \E loop, v : OnLoop(s, loop, v) /\ Among(s)[v] = <<>>
<1> DEFINE n == NumKeys(track)
           l == Lower(s) \div Unit
           u == Upper(s) \div Unit
<1>1. /\ IsQuery(s) /\ n \in Nat /\ Unit \in Nat \ {0} /\ l \in Int /\ u \in Int /\ l <= u
      /\ Reach(s) \in Nat /\ Reach(s) = (u - l + 2) * n
  BY WayOf DEF ExactQuery, Reach
<1>2. CASE IsForward(s)
  <2>1. s.outer = l * Unit /\ s.inner = 0
    BY <1>2 DEF IsForward, Lower, Floor
  <2>2. n \in 0 .. Reach(s)
    <3> HIDE DEF n, l, u
    <3> DEFINE a == u - l + 1
    <3>1. a \in Nat /\ Reach(s) = (a + 1) * n
      BY <1>1
    <3> HIDE DEF a
    <3>2. (a + 1) * n = a * n + n /\ a * n \in Nat
      BY <1>1, <3>1
    <3> QED BY <1>1, <3>1, <3>2
  <2>3. OnLoop(s, l, n)
    <3>1. n = (l - l + 1) * n + 0 /\ l <= u + 1
      <4> HIDE DEF n, l, u
      <4> QED BY <1>1
    <3>2. s.inner \in Int /\ s.inner \in 0 .. n
      BY <1>1, <2>1
    <3>4. n = (l - l + 1) * n + s.inner
      BY <2>1, <3>1, Zenon
    <3> HIDE DEF l, u
    <3>3. l <= l /\ l \in Int
      BY <1>1
    <3> QED BY <1>2, <2>1, <2>2, <3>1, <3>2, <3>3, <3>4 DEF OnLoop, l, u
  <2>4. ASSUME NEW k \in 0 + 1 .. n PROVE ~Between(s, OnTheWay(s, k))
    <3> DEFINE g == OnTheWay(s, k)
               m == l - 1
    <3>1. g = m * n + k - 1 /\ k \in Int /\ k >= 1 /\ k <= n /\ n # 0
      BY <1>1, <1>2, <2>4 DEF OnTheWay
    <3>2. m \in Int /\ m * n \in Int /\ m * Unit + Unit <= Lower(s)
      <4> HIDE DEF l
      <4>1. m \in Int /\ ~(m >= l)
        BY <1>1
      <4> HIDE DEF m
      <4>2. m * Unit \in Int /\ (m >= l <=> m * Unit + Unit > Lower(s)) /\ Lower(s) \in Int
        BY <1>1, <4>1, LoopsAbout, WayOf DEF l
      <4> QED BY <1>1, <4>1, <4>2
    <3> HIDE DEF m, g
    <3> DEFINE y == m * n
    <3>3. y \in Int /\ g = y + k - 1
      BY <3>1, <3>2
    <3> HIDE DEF y
    <3>4. g \in Int /\ g <= y + n - 1
      BY <1>1, <3>1, <3>3
    <3>5. ~Between(s, g)
      BY <1>1, <3>1, <3>2, <3>4, LoopsBeyond DEF y
    <3> QED BY <3>5 DEF g
  <2>5. Among(s)[n] = Among(s)[0]
    <3>1. 0 \in 0 .. Reach(s) /\ n \in 0 .. Reach(s)
      BY <1>1, <2>2
    <3> HIDE DEF n
    <3> QED BY <1>1, <2>4, <3>1, NothingBetween
  <2> QED BY <1>1, <2>3, <2>5, AmongAre
<1>3. CASE ~IsForward(s)
  <2>1. s.outer = u * Unit /\ s.inner = n - 1
    BY <1>3 DEF IsForward, Upper, Floor
  <2>2. OnLoop(s, u, 0)
    <3>1. 0 = (u - u) * n + n - 1 - (n - 1) /\ l - 1 <= u /\ u <= u /\ n - 1 \in -1 .. n - 1 /\ n - 1 \in Int /\ 0 \in 0 .. Reach(s)
      <4> HIDE DEF n, l, u
      <4> QED BY <1>1
    <3>2. s.inner \in Int /\ s.inner \in -1 .. n - 1 /\ 0 = (u - u) * n + n - 1 - s.inner
      BY <2>1, <3>1
    <3> QED BY <1>1, <1>3, <2>1, <3>1, <3>2 DEF OnLoop
  <2> QED BY <1>1, <2>2, AmongAre
<1> QED BY <1>2, <1>3

LEMMA ForwardIs ==
  ASSUME NEW s, NEW loop, NEW v, Searches(s, loop, v)
  PROVE  /\ Forward <=> IsForward(s)
         /\ Step = IF IsForward(s) THEN 1 ELSE -1
         /\ Rewound = IF IsForward(s) THEN 0 ELSE NumKeys(track) - 1
<1>1. Forward <=> IsForward(s)
  BY DEF Forward, IsForward, Searches, ExactQuery, IsQuery
<1> QED BY <1>1 DEF Step, Rewound

\* On to the next key.
LEMMA KeyDone ==
  ASSUME NEW s, NEW loop, NEW v, Searches(s, loop, v), Searching, KeyLeft,
         NEW z, SameQuery(s, z), z.outer = s.outer, z.inner = s.inner + Step
  PROVE  OnLoop(z, loop, v + 1)
<1> DEFINE n == NumKeys(track)
           i == s.inner
<1>1. /\ OnLoop(s, loop, v) /\ n \in Nat /\ i \in 0 .. n - 1 /\ v + 1 \in 0 .. Reach(s) /\ v \in Int
      /\ Reach(z) = Reach(s) /\ Lower(z) = Lower(s) /\ Upper(z) = Upper(s) /\ IsForward(z) = IsForward(s)
      /\ Lower(s) \div Unit \in Int /\ Upper(s) \div Unit \in Int /\ Reach(s) \in Nat
  <2>1. OnLoop(s, loop, v) /\ IsQuery(s)
    BY DEF Searches, ExactQuery
  <2>2. v + 1 \in 1 .. Reach(s) /\ n \in Nat /\ i \in 0 .. n - 1
    BY KeptIsBetween
  <2>3. v \in 0 .. Reach(s) /\ Reach(s) \in Nat
    BY <2>1, WayOf DEF OnLoop
  <2>4. v + 1 \in 0 .. Reach(s) /\ v \in Int
    BY <2>2, <2>3
  <2> QED BY <2>1, <2>2, <2>3, <2>4, SameAnswers, WayOf
<1>2. loop \in Int /\ z.outer = loop * Unit
  BY <1>1 DEF OnLoop
<1>3. CASE IsForward(s)
  <2>1. z.inner = i + 1
    BY <1>3, ForwardIs
  <2>2. v = (loop - Lower(s) \div Unit + 1) * n + i /\ Lower(s) \div Unit <= loop /\ loop <= Upper(s) \div Unit + 1
    BY <1>1, <1>3 DEF OnLoop
  <2> DEFINE y == (loop - Lower(s) \div Unit + 1) * n
  <2>3. y \in Int
    BY <1>1, <1>2
  <2> HIDE DEF y, n, i
  <2>4. v + 1 = y + z.inner /\ z.inner \in Int /\ z.inner \in 0 .. n
    BY <1>1, <2>1, <2>2, <2>3 DEF y
  <2> QED BY <1>1, <1>2, <1>3, <2>2, <2>4 DEF OnLoop, y, n
<1>4. CASE ~IsForward(s)
  <2>1. z.inner = i - 1
    <3>1. Step = -1 /\ i \in Int
      BY <1>1, <1>4, ForwardIs
    <3> QED BY <3>1
  <2>2. v = (Upper(s) \div Unit - loop) * n + n - 1 - i /\ Lower(s) \div Unit - 1 <= loop /\ loop <= Upper(s) \div Unit
    BY <1>1, <1>4 DEF OnLoop
  <2> DEFINE y == (Upper(s) \div Unit - loop) * n
  <2>3. y \in Int
    BY <1>1, <1>2
  <2> HIDE DEF y, n, i
  <2>4. v + 1 = y + n - 1 - z.inner /\ z.inner \in Int /\ z.inner \in -1 .. n - 1
    BY <1>1, <2>1, <2>2, <2>3 DEF y
  <2> QED BY <1>1, <1>2, <1>4, <2>2, <2>4 DEF OnLoop, y, n
<1> QED BY <1>3, <1>4

\* On to the next loop, from its first key.
LEMMA LoopDone ==
  ASSUME NEW s, NEW loop, NEW v, Searches(s, loop, v), Searching,
         NEW z, SameQuery(s, z), z.inner = Rewound,
         z.outer = IF Forward THEN NextLoop ELSE Rounded(s.outer - Unit)
  PROVE  \E next \in Int, w \in v .. Reach(s) :
            /\ OnLoop(z, next, w)
            /\ IF IsForward(s) THEN w = v + (NumKeys(track) - s.inner) ELSE w = v + (s.inner + 1)
<1> DEFINE n == NumKeys(track)
           i == s.inner
           l == Lower(s) \div Unit
           u == Upper(s) \div Unit
<1>1. /\ OnLoop(s, loop, v) /\ n \in Nat /\ v \in 0 .. Reach(s) /\ v \in Int /\ loop \in Int /\ i \in Int
      /\ Reach(z) = Reach(s) /\ Lower(z) = Lower(s) /\ Upper(z) = Upper(s) /\ IsForward(z) = IsForward(s)
      /\ l \in Int /\ u \in Int /\ l <= u /\ Reach(s) \in Nat /\ Reach(s) = (u - l + 2) * n /\ Unit \in Nat
  <2>1. OnLoop(s, loop, v) /\ IsQuery(s)
    BY DEF Searches, ExactQuery
  <2>2. v \in 0 .. Reach(s) /\ Reach(s) \in Nat /\ loop \in Int /\ i \in Int
    BY <2>1, WayOf DEF OnLoop
  <2>3. v \in Int
    BY <2>2
  <2> QED BY <2>1, <2>2, <2>3, SameAnswers, WayOf DEF Reach
<1>2. l <= loop /\ loop <= u /\ NextLoop = loop * Unit + Unit /\ Rounded(s.outer - Unit) = loop * Unit - Unit
      /\ loop * Unit \in Int
  BY SearchedLoop
<1>3. (loop + 1) * Unit = loop * Unit + Unit /\ (loop - 1) * Unit = loop * Unit - Unit
  <2>1. IsQuery(s)
    BY DEF Searches, ExactQuery
  <2> QED BY <1>1, <2>1, LoopsAbout
<1>4. CASE IsForward(s)
  <2> DEFINE next == loop + 1
             w == (next - l + 1) * n
             y == (loop - l + 1) * n
             x == (u - l + 2) * n
  <2>1. v = y + i /\ i \in 0 .. n
    BY <1>1, <1>4 DEF OnLoop
  <2>2. z.inner = 0 /\ z.outer = next * Unit
    BY <1>2, <1>3, <1>4, ForwardIs
  <2>3. w = y + n /\ y \in Int /\ w <= x /\ next <= u + 1 /\ l <= next /\ next \in Int /\ x \in Int
    <3> HIDE DEF l, u, n
    <3> DEFINE a == loop - l + 1
               b == u - loop
    <3>1. a \in Int /\ b \in Nat /\ next - l + 1 = a + 1 /\ u - l + 2 = (a + 1) + b
      BY <1>1, <1>2
    <3>2. y = a * n /\ w = (a + 1) * n /\ x = ((a + 1) + b) * n
      BY <3>1
    <3> HIDE DEF a, b, y, w, x
    <3>3. (a + 1) * n = a * n + n /\ ((a + 1) + b) * n = (a + 1) * n + b * n /\ b * n \in Nat /\ a * n \in Int
      BY <1>1, <3>1
    <3>4. next <= u + 1 /\ l <= next /\ next \in Int
      BY <1>1, <1>2
    <3> QED BY <1>1, <3>2, <3>3, <3>4
  <2> HIDE DEF l, u, n, i, w, y, x, next
  <2>4. w \in v .. Reach(s) /\ w = v + (n - i) /\ w \in 0 .. Reach(s)
    BY <1>1, <2>1, <2>3 DEF x
  <2>5. w = (next - l + 1) * n + 0
    <3>1. w = (next - l + 1) * n /\ w \in Int
      BY <2>4, <1>1 DEF w
    <3> DEFINE p == (next - l + 1) * n
    <3> HIDE DEF p
    <3>2. w = p + 0
      BY <3>1 DEF p
    <3> QED BY <3>2 DEF p
  <2>6. z.inner \in Int /\ z.inner \in 0 .. n
    BY <1>1, <2>2
  <2>7. OnLoop(z, next, w)
    <3>1. w = (next - l + 1) * n + z.inner
      BY <2>2, <2>5, Zenon
    <3> QED BY <1>1, <1>4, <2>2, <2>3, <2>4, <2>6, <3>1 DEF OnLoop, l, u, n
  <2> QED BY <1>4, <2>3, <2>4, <2>7 DEF n, i
<1>5. CASE ~IsForward(s)
  <2> DEFINE next == loop - 1
             w == (u - next) * n
             y == (u - loop) * n
             x == (u - l + 2) * n
  <2>1. v = y + n - 1 - i /\ i \in -1 .. n - 1
    BY <1>1, <1>5 DEF OnLoop
  <2>2. z.inner = n - 1 /\ z.outer = next * Unit
    BY <1>2, <1>3, <1>5, ForwardIs
  <2>3. w = y + n /\ y \in Int /\ w <= x /\ next <= u /\ l - 1 <= next /\ next \in Int /\ x \in Int
    <3> HIDE DEF l, u, n
    <3> DEFINE a == u - loop
               b == loop - l + 1
    <3>1. a \in Int /\ b \in Nat /\ u - next = a + 1 /\ u - l + 2 = (a + 1) + b
      BY <1>1, <1>2
    <3>2. y = a * n /\ w = (a + 1) * n /\ x = ((a + 1) + b) * n
      BY <3>1
    <3> HIDE DEF a, b, y, w, x
    <3>3. (a + 1) * n = a * n + n /\ ((a + 1) + b) * n = (a + 1) * n + b * n /\ b * n \in Nat /\ a * n \in Int
      BY <1>1, <3>1
    <3>4. next <= u /\ l - 1 <= next /\ next \in Int
      BY <1>1, <1>2
    <3> QED BY <1>1, <3>2, <3>3, <3>4
  <2> HIDE DEF l, u, n, i, w, y, x, next
  <2>4. w \in v .. Reach(s) /\ w = v + (i + 1) /\ w \in 0 .. Reach(s)
    BY <1>1, <2>1, <2>3 DEF x
  <2>5. w = (u - next) * n + n - 1 - (n - 1)
    <3>1. w = (u - next) * n /\ w \in Int
      BY <2>4, <1>1 DEF w
    <3> DEFINE p == (u - next) * n
    <3> HIDE DEF p
    <3>2. w = p + n - 1 - (n - 1)
      BY <1>1, <3>1 DEF p
    <3> QED BY <3>2 DEF p
  <2>6. z.inner \in Int /\ z.inner \in -1 .. n - 1
    BY <1>1, <2>2
  <2>7. OnLoop(z, next, w)
    <3>1. w = (u - next) * n + n - 1 - z.inner
      BY <2>2, <2>5, Zenon
    <3> QED BY <1>1, <1>5, <2>2, <2>3, <2>4, <2>6, <3>1 DEF OnLoop, l, u, n
  <2> QED BY <1>5, <2>3, <2>4, <2>7 DEF n, i
<1> QED BY <1>4, <1>5

\* A loop that is left early has nothing left to tell.
LEMMA NothingLeft ==
  ASSUME NEW s, NEW loop, NEW v, Searches(s, loop, v), Searching, KeyLeft,
         ~(Detected.detected /\ Kept), NoneLeft, NEW w \in v .. Reach(s),
         IF IsForward(s) THEN w = v + (NumKeys(track) - s.inner) ELSE w = v + (s.inner + 1),
         NEW k \in v + 1 .. w
  PROVE  ~Between(s, OnTheWay(s, k))
<1> DEFINE n == NumKeys(track)
           i == s.inner
           t == s.threshold
           x == loop * Unit
           lo == Lower(s)
           up == Upper(s)
           here == Key(track, i).ratio
           d == k - v - 1
           j == IF IsForward(s) THEN i + d ELSE i - d
           there == Key(track, j).ratio
           c == CrossingRatio(track, t, j)
<1>1. /\ IsQuery(s) /\ OnLoop(s, loop, v) /\ It = s /\ Job = s
      /\ BuiltFloat(track) /\ t \in Int /\ CrossesOnGrid(track, t) /\ v \in 0 .. Reach(s) /\ Reach(s) \in Nat
      /\ lo \in Int /\ up \in Int /\ lo <= up
  BY WayOf DEF Searches, ExactQuery, IsQuery, OnLoop
<1>2. /\ n \in Nat \ {0} /\ n # 0 /\ i \in 0 .. n - 1 /\ Unit \in Nat \ {0}
      /\ Detected.detected /\ Kept <=> Between(s, OnTheWay(s, v + 1))
  BY <1>1, KeptIsBetween, KeysOfLoops
<1>3. /\ loop \in Int /\ x \in Int /\ x + Unit > lo /\ \A r \in 0 .. Unit : Rounded(r + s.outer) = x + r
  BY SearchedLoop
<1>4. v \in Int /\ k \in Int /\ d \in Nat /\ i \in Int
  BY <1>1, <1>2
<1>5. j \in 0 .. n - 1 /\ (IsForward(s) => i + d <= n - 1) /\ (~IsForward(s) => d <= i)
  <2> HIDE DEF n, i
  <2>1. CASE IsForward(s)
    BY <1>2, <1>4, <2>1 DEF n, i
  <2>2. CASE ~IsForward(s)
    BY <1>2, <1>4, <2>2 DEF n, i
  <2> QED BY <2>1, <2>2
<1>6. OnTheWay(s, k) = loop * n + j
  <2>1. OnTheWay(s, k) = IF IsForward(s) THEN loop * n + i + d ELSE loop * n + i - d
    BY <1>1, <1>2, <1>4, KeysAhead
  <2>2. loop * n \in Int
    BY <1>2, <1>3
  <2> HIDE DEF d, i, n
  <2> DEFINE y == loop * n
  <2>3. y \in Int /\ OnTheWay(s, k) = IF IsForward(s) THEN y + i + d ELSE y + i - d
    BY <2>1, <2>2
  <2> HIDE DEF y
  <2>4. OnTheWay(s, k) = y + j
    BY <1>4, <2>3 DEF i
  <2> QED BY <2>4 DEF y
<1>7. CASE d = 0
  <2>1. k = v + 1
    BY <1>4, <1>7
  <2> QED BY <1>2, <2>1
<1>8. CASE d # 0
  <2> HIDE DEF j
  <2>1. /\ Between(s, loop * n + j) <=>
               /\ IsCrossing(track, t, j) /\ x + c >= lo /\ (x + c < up \/ x + Unit <= up)
        /\ IsCrossing(track, t, j) => c \in 0 .. there
        /\ there \in 0 .. Unit
    BY <1>1, <1>2, <1>3, <1>5, BetweenAt, KeysOfLoops
  <2>2. here \in 0 .. Unit
    BY <1>1, <1>2, KeysOfLoops
  <2>3. Rounded(Key(track, It.inner).ratio + It.outer) = x + here
    <3>1. It.inner = i /\ It.outer = s.outer
      BY <1>1
    <3> HIDE DEF i, x
    <3>2. Rounded(here + s.outer) = x + here
      BY <1>3, <2>2
    <3> QED BY <3>1, <3>2
  <2>4. CASE IsForward(s)
    <3>1. x + here >= up
      <4>1. Forward
        BY <2>4, ForwardIs
      <4>2. Rounded(Key(track, It.inner).ratio + It.outer) >= Job.to
        BY <4>1 DEF NoneLeft
      <4>3. Job.to = up
        BY <1>1, <2>4 DEF Upper
      <4> HIDE DEF here, x
      <4> QED BY <2>3, <4>2, <4>3
    <3>2. j - 1 \in i .. n - 1 /\ j \in 1 .. n - 1 /\ j # 0
      BY <1>2, <1>4, <1>5, <1>8, <2>4 DEF j
    <3>3. here <= Key(track, j - 1).ratio /\ Key(track, j - 1).ratio < there /\ Key(track, j - 1).ratio \in Int
      <4>1. j - 1 \in 0 .. n - 1
        BY <1>2, <3>2
      <4> QED BY <1>1, <1>2, <3>2, <4>1, LoopAscends, KeysOfLoops
    <3>4. IsCrossing(track, t, j) => Key(track, j - 1).ratio <= c
      BY <1>1, <1>2, <1>5, <3>2, DetectsCrossings
    <3> HIDE DEF here, there, c, x, lo, up
    <3> DEFINE e == Key(track, j - 1).ratio
    <3>5. here <= e /\ e < there /\ e \in Int /\ (IsCrossing(track, t, j) => e <= c)
      BY <3>3, <3>4
    <3> HIDE DEF e
    <3>6. x + Unit > up
      BY <1>1, <1>2, <1>3, <2>1, <2>2, <3>1, <3>5
    <3>7. IsCrossing(track, t, j) => ~(x + c < up)
      <4>1. IsCrossing(track, t, j) => c \in Int
        BY <2>1, <2>2
      <4> QED BY <1>1, <1>2, <1>3, <2>1, <2>2, <3>1, <3>5, <4>1
    <3> QED BY <1>1, <1>2, <1>3, <1>6, <2>1, <3>6, <3>7
  <2>5. CASE ~IsForward(s)
    <3>1. x + here <= lo
      <4>1. ~Forward
        BY <2>5, ForwardIs
      <4>2. Rounded(Key(track, It.inner).ratio + It.outer) <= Job.to
        BY <4>1 DEF NoneLeft
      <4>3. Job.to = lo
        BY <1>1, <2>5 DEF Lower
      <4> HIDE DEF here, x
      <4> QED BY <2>3, <4>2, <4>3
    <3>2. i - 1 \in j .. n - 1 /\ i \in 1 .. n - 1
      BY <1>2, <1>4, <1>5, <1>8, <2>5 DEF j
    <3>3. there <= Key(track, i - 1).ratio /\ Key(track, i - 1).ratio < here /\ Key(track, i - 1).ratio \in Int
      <4>1. i - 1 \in 0 .. n - 1
        BY <1>2, <3>2
      <4> QED BY <1>1, <1>2, <1>5, <3>2, <4>1, LoopAscends, KeysOfLoops
    <3> HIDE DEF here, there, c, x, lo, up
    <3> DEFINE e == Key(track, i - 1).ratio
    <3>4. there <= e /\ e < here /\ e \in Int
      BY <3>3
    <3> HIDE DEF e
    <3>5. IsCrossing(track, t, j) => ~(x + c >= lo)
      <4>1. IsCrossing(track, t, j) => c \in Int /\ c <= there
        BY <2>1, <2>2
      <4> QED BY <1>1, <1>2, <1>3, <2>1, <2>2, <3>1, <3>4, <4>1
    <3> QED BY <1>6, <2>1, <3>5
  <2> QED BY <2>4, <2>5
<1> QED BY <1>7, <1>8

-----------------------------------------------------------------------------
(* What an iterator has told.                                              *)

Ended(s) == s.outer = 0 /\ s.inner = -2

\* The iterator s has told the crossings it has passed; one that ended, all of them.
HasTold(s, told) ==
    \E f : /\ ListsCrossings(s, f)
           /\ \/ Ended(s) /\ told = f[Reach(s)]
              \/ \E loop, v : OnLoop(s, loop, v) /\ told = f[v]

LEMMA ListsAlike ==
  ASSUME NEW s, IsQuery(s), NEW f, ListsCrossings(s, f)
  PROVE  f = Among(s)
<1> DEFINE a == Among(s)
           n == Reach(s)
<1>1. n \in Nat /\ a = [k \in 0 .. n |-> IF k = 0 THEN <<>> ELSE NextList(s, a[k - 1], k)]
  BY WayOf, AmongAre DEF ListsCrossings
<1>2. f = [k \in 0 .. n |-> IF k = 0 THEN <<>> ELSE NextList(s, f[k - 1], k)]
  BY DEF ListsCrossings
<1> HIDE DEF a, n
<1>3. \A k \in 0 .. n : a[k] = IF k = 0 THEN <<>> ELSE NextList(s, a[k - 1], k)
  BY <1>1
<1>4. \A k \in 0 .. n : f[k] = IF k = 0 THEN <<>> ELSE NextList(s, f[k - 1], k)
  BY <1>2
<1> DEFINE S == {k \in 0 .. n : a[k] = f[k]}
<1>5. 0 \in S
  BY <1>1, <1>3, <1>4
<1>6. ASSUME NEW k \in 1 .. n, k - 1 \in S PROVE k \in S
  <2>1. k \in 0 .. n /\ k # 0 /\ a[k - 1] = f[k - 1]
    BY <1>1, <1>6
  <2> QED BY <1>3, <1>4, <2>1
<1> HIDE DEF S
<1>7. 0 .. n \subseteq S
  BY <1>1, <1>5, <1>6, ByNumber
<1>8. \A k \in 0 .. n : a[k] = f[k]
  BY <1>7 DEF S
<1> DEFINE e(h, k) == IF k = 0 THEN <<>> ELSE NextList(s, h[k - 1], k)
<1>9. a = [k \in 0 .. n |-> a[k]]
  <2>1. a = [k \in 0 .. n |-> e(a, k)]
    BY <1>1
  <2> HIDE DEF e
  <2> QED BY <2>1
<1>10. f = [k \in 0 .. n |-> f[k]]
  <2>1. f = [k \in 0 .. n |-> e(f, k)]
    BY <1>2
  <2> HIDE DEF e
  <2> QED BY <2>1
<1>11. f = a
  BY <1>8, <1>9, <1>10
<1> QED BY <1>11 DEF a

LEMMA ToldIs ==
  ASSUME NEW s, IsQuery(s), NEW told
  PROVE  HasTold(s, told) <=> \/ Ended(s) /\ told = Crossings(s)
                              \/ \E loop, v : OnLoop(s, loop, v) /\ told = Among(s)[v]
<1>1. ListsCrossings(s, Among(s)) /\ Crossings(s) = Among(s)[Reach(s)]
  BY AmongAre
<1>2. \A f : ListsCrossings(s, f) => f = Among(s)
  BY ListsAlike
<1> QED BY <1>1, <1>2 DEF HasTold

\* While the track stays, what was told stays told.
LEMMA ToldStays ==
  ASSUME rawVars' = rawVars
  PROVE  /\ \A s, told : HasTold(s, told) => HasTold(s, told)'
         /\ \A s : ExactQuery(s) => ExactQuery(s)'
<1>1. track' = track /\ kind' = kind
  BY DEF rawVars
<1>2. \A s : ExactQuery(s) => ExactQuery(s)'
  <2>1. \A s : IsQuery(s) => IsQuery(s)'
    BY <1>1 DEF IsQuery, BuiltFloat
  <2>2. \A s : IsExact(s.from)' = IsExact(s.from) /\ IsExact(s.to)' = IsExact(s.to)
    BY DEF IsExact
  <2> QED BY <2>1, <2>2 DEF ExactQuery
<1>3. \A g : KeyOfLoop(g)' = KeyOfLoop(g) /\ LoopOf(g)' = LoopOf(g)
  BY <1>1 DEF KeyOfLoop, LoopOf
<1>4. \A g, t : Position(g, t)' = Position(g, t)
  BY <1>1, <1>3 DEF Position
<1>5. \A g, t, h : Passed(g, t, h)' <=> Passed(g, t, h)
  BY <1>3, <1>4 DEF Passed
<1>6. \A s, g : Between(s, g)' <=> Between(s, g)
  BY <1>1, <1>3, <1>5 DEF Between, Upper, Lower, IsForward
<1>7. \A s, g : CrossingOf(s, g)' = CrossingOf(s, g)
  BY <1>1, <1>3, <1>4 DEF CrossingOf, IsForward
<1>8. \A s : Reach(s)' = Reach(s)
  BY <1>1 DEF Reach, Upper, Lower, IsForward
<1>9. \A s, k : OnTheWay(s, k)' = OnTheWay(s, k)
  BY <1>1 DEF OnTheWay, Upper, Lower, IsForward
<1>10. \A s, list, k : NextList(s, list, k)' = NextList(s, list, k)
  BY <1>6, <1>7, <1>9 DEF NextList
<1>11. \A s, f : ListsCrossings(s, f) => ListsCrossings(s, f)'
  BY <1>8, <1>10 DEF ListsCrossings
<1>12. \A s, loop, v : OnLoop(s, loop, v) => OnLoop(s, loop, v)'
  BY <1>1, <1>8 DEF OnLoop, Upper, Lower, IsForward
<1>13. \A s, told : HasTold(s, told) => HasTold(s, told)'
  BY <1>8, <1>11, <1>12 DEF HasTold, Ended
<1> QED BY <1>2, <1>13

-----------------------------------------------------------------------------
(* What every iterator has told.                                           *)

IteratorRecords ==
    [self : Places \cup {Nowhere}, magic : BOOLEAN, from : Int, to : Int, threshold : Int,
     job : Places \cup {Nowhere}, outer : Int, inner : Int, edge : EdgeRecords]

\* What a host has of the iterator at p, with the edge it may look at.
ToldAt(p) == IF Ended(storage[p]) \/ calling = p THEN edges[p] ELSE Append(edges[p], storage[p].edge)

IteratorTells(p) ==
    storage[p].magic => /\ storage[p].job = storage[p].self /\ ExactQuery(storage[p])
                        /\ HasTold(storage[p], ToldAt(p))

InCall(p) == p \in Places /\ storage[p].magic /\ storage[p].self = p /\ ~Ended(storage[p])

IteratorsTell ==
    /\ storage \in [Places -> IteratorRecords] /\ edges \in [Places -> Seq(EdgeRecords)]
    /\ track = NotBuilt => \A p \in Places : ~storage[p].magic
    /\ track # NotBuilt /\ kind = "float" => BuiltFloat(track)
    /\ calling # Nowhere => InCall(calling)
    /\ \A p \in Places : IteratorTells(p)

\* One iterator moves, and the others stay.
LEMMA OneMoves ==
  ASSUME IteratorsTell, rawVars' = rawVars, NEW p \in Places, NEW z \in IteratorRecords,
         storage' = [storage EXCEPT ![p] = z],
         edges' \in [Places -> Seq(EdgeRecords)], \A q \in Places \ {p} : edges'[q] = edges[q],
         calling \in {Nowhere, p}, calling' \in {Nowhere, p},
         calling' = p => z.magic /\ z.self = p /\ ~Ended(z),
         z.magic => /\ track # NotBuilt /\ z.job = z.self /\ ExactQuery(z)
                    /\ HasTold(z, IF Ended(z) \/ calling' = p THEN edges'[p] ELSE Append(edges'[p], z.edge))
  PROVE  IteratorsTell'
<1>1. /\ storage \in [Places -> IteratorRecords]
      /\ track = NotBuilt => \A q \in Places : ~storage[q].magic
      /\ track # NotBuilt /\ kind = "float" => BuiltFloat(track)
      /\ \A q \in Places : IteratorTells(q)
      /\ track' = track /\ kind' = kind
  BY DEF IteratorsTell, rawVars
<1>2. storage'[p] = z /\ \A q \in Places \ {p} : storage'[q] = storage[q]
  BY <1>1
<1>3. storage' \in [Places -> IteratorRecords]
  BY <1>1
<1>4. track' = NotBuilt => \A q \in Places : ~storage'[q].magic
  BY <1>1, <1>2
<1>5. (track # NotBuilt /\ kind = "float" => BuiltFloat(track))'
  BY <1>1 DEF BuiltFloat
<1>6. calling' # Nowhere => InCall(calling)'
  BY <1>2 DEF InCall, Ended
<1>7. ASSUME NEW q \in Places PROVE IteratorTells(q)'
  <2>1. CASE q = p
    <3>1. PICK told : told = IF Ended(z) \/ calling' = p THEN edges'[p] ELSE Append(edges'[p], z.edge)
      OBVIOUS
    <3>2. storage'[q] = z
      BY <1>2, <2>1
    <3>3. ToldAt(q)' = told
      BY <2>1, <3>1, <3>2 DEF ToldAt, Ended
    <3>4. z.magic => HasTold(z, told) /\ ExactQuery(z)
      BY <3>1
    <3>5. z.magic => HasTold(z, told)' /\ ExactQuery(z)'
      BY <3>4, ToldStays
    <3> QED BY <3>2, <3>3, <3>5 DEF IteratorTells
  <2>2. CASE q # p
    <3>1. storage'[q] = storage[q] /\ edges'[q] = edges[q]
      BY <1>2, <2>2
    <3>2. ToldAt(q)' = ToldAt(q)
      <4>1. calling' = q <=> calling = q
        <5>1. Nowhere \notin Places
          BY TriggeringAssumption
        <5> QED BY <2>2, <5>1
      <4> QED BY <3>1, <4>1 DEF ToldAt, Ended
    <3>3. IteratorTells(q)
      BY <1>1
    <3>4. PICK s, told : s = storage[q] /\ told = ToldAt(q)
      OBVIOUS
    <3>5. s.magic => s.job = s.self /\ HasTold(s, told) /\ ExactQuery(s)
      BY <3>3, <3>4 DEF IteratorTells
    <3>6. storage'[q] = s /\ ToldAt(q)' = told
      BY <3>1, <3>2, <3>4
    <3>7. s.magic => HasTold(s, told)' /\ ExactQuery(s)'
      BY <3>5, ToldStays
    <3> QED BY <3>5, <3>6, <3>7 DEF IteratorTells
  <2> QED BY <2>1, <2>2
<1> QED BY <1>3, <1>4, <1>5, <1>6, <1>7 DEF IteratorsTell

-----------------------------------------------------------------------------
(* The steps of hosts.                                                     *)

LEMMA FloatsAreBuilt ==
  ASSUME NEW keys \in RawKeys(Int), Validate(keys)
  PROVE  BuiltFloat(Built(keys))
<1>1. CASE Len(keys) = 0
  <2>1. Built(keys) = <<>>
    BY <1>1, BuiltOfFew
  <2>2. <<>> \in RawKeys(Int) /\ Len(<<>>) = 0
    BY DEF RawKeys
  <2> QED BY <2>1, <2>2 DEF BuiltFloat
<1>2. CASE Len(keys) = 1
  <2>1. Built(keys) \in RawKeys(Int) /\ Len(Built(keys)) = 1 /\ Built(keys)[1] = BeginKey(keys)
    BY <1>2, BuiltOfFew
  <2>2. BeginKey(keys).ratio = 0
    BY DEF BeginKey
  <2> QED BY <2>1, <2>2 DEF BuiltFloat
<1>3. CASE Len(keys) >= 2
  <2>1. Built(keys) \in RawKeys(Int) /\ \E o \in {0, 1} : Patched(Built(keys), keys, o)
    BY <1>3, BuiltIsPatched
  <2>2. Spans(Built(keys))
    BY <2>1 DEF Patched
  <2> QED BY <2>1, <2>2 DEF BuiltFloat
<1> QED BY <1>1, <1>2, <1>3, FewOrMore

\* The heads of queries are where floats tell the grid points of the loops about them.
HeadsAreExact == \A p \in Places : \A h \in Heads[p] : IsExact(h)

LEMMA BlankIs ==
  Blank \in IteratorRecords /\ Blank.magic = FALSE
BY DEF Blank, IteratorRecords, NoEdge, EdgeRecords

LEMMA AuthorTells ==
  ASSUME RawIsKnown, IteratorsTell, Author
  PROVE  IteratorsTell'
<1>1. /\ track = NotBuilt /\ storage' = storage /\ edges' = edges /\ calling' = calling
      /\ \A p \in Places : ~storage[p].magic
      /\ storage \in [Places -> IteratorRecords] /\ edges \in [Places -> Seq(EdgeRecords)]
  BY DEF Author, IteratorsTell
<1>2. calling = Nowhere
  BY <1>1 DEF IteratorsTell, InCall
<1>3. track' # NotBuilt /\ kind' = "float" => BuiltFloat(track')
  <2> SUFFICES ASSUME track' # NotBuilt, kind' = "float" PROVE BuiltFloat(track')
    OBVIOUS
  <2>1. BuildTrack
    BY <1>1 DEF Author, Authoring, CreateRaw, DestroyRaw, ClearKeyframes, PushKeyframe
  <2>2. kind = "float" /\ Validate(raw) /\ track' = Built(raw)
    BY <2>1 DEF BuildTrack, BuiltOf
  <2>3. raw \in RawKeys(Int)
    <3>1. raw \in RawKeys(ValuesOfKind) /\ ValuesOfKind \subseteq Int
      BY <2>2, RawTracksAssumption DEF RawIsKnown, ValuesOfKind
    <3> DEFINE V == ValuesOfKind
    <3> HIDE DEF V
    <3>2. raw \in RawKeys(V) /\ V \subseteq Int
      BY <3>1 DEF V
    <3>3. [step : BOOLEAN, ratio : Int, value : V] \subseteq [step : BOOLEAN, ratio : Int, value : Int]
      BY <3>2
    <3> DEFINE A == [step : BOOLEAN, ratio : Int, value : V]
               B == [step : BOOLEAN, ratio : Int, value : Int]
    <3>4. raw \in Seq(A) /\ A \subseteq B
      BY <3>2, <3>3 DEF RawKeys
    <3> HIDE DEF A, B
    <3>5. raw \in Seq(B)
      BY <3>4
    <3> QED BY <3>5 DEF B, RawKeys
  <2> QED BY <2>2, <2>3, FloatsAreBuilt
<1>4. (track # NotBuilt /\ kind = "float" => BuiltFloat(track))'
  BY <1>3 DEF BuiltFloat
<1>5. \A p \in Places : IteratorTells(p)'
  BY <1>1 DEF IteratorTells
<1> QED BY <1>1, <1>2, <1>4, <1>5 DEF IteratorsTell

LEMMA DestroyTells ==
  ASSUME Destroy
  PROVE  IteratorsTell'
<1>1. /\ storage' = [p \in Places |-> Blank] /\ edges' = [p \in Places |-> <<>>] /\ calling' = Nowhere
      /\ track' = NotBuilt
  BY DEF Destroy, DestroyTrack
<1>2. \A p \in Places : storage'[p] = Blank
  BY <1>1
<1>3. storage' \in [Places -> IteratorRecords] /\ \A p \in Places : ~storage'[p].magic
  BY <1>1, <1>2, BlankIs
<1>4. edges' \in [Places -> Seq(EdgeRecords)]
  <2>1. <<>> \in Seq(EdgeRecords)
    OBVIOUS
  <2> QED BY <1>1, <2>1
<1>5. \A p \in Places : IteratorTells(p)'
  BY <1>3 DEF IteratorTells
<1> QED BY <1>1, <1>3, <1>4, <1>5 DEF IteratorsTell

LEMMA RunTells ==
  ASSUME HeadsAreExact, IteratorsTell, NEW p \in Places, NEW threshold \in Thresholds,
         NEW from \in Heads[p], NEW to \in Heads[p], Run(p, from, to, threshold)
  PROVE  IteratorsTell'
<1>1. /\ calling = Nowhere /\ kind = "float" /\ track # NotBuilt /\ CrossesOnGrid(track, threshold)
      /\ rawVars' = rawVars /\ edges' = [edges EXCEPT ![p] = <<>>]
      /\ calling' = IF from = to THEN Nowhere ELSE p
      /\ BuiltFloat(track) /\ edges \in [Places -> Seq(EdgeRecords)]
  BY DEF Run, IteratorsTell
<1>2. /\ threshold \in Int /\ from \in Int /\ to \in Int /\ IsExact(from) /\ IsExact(to)
      /\ NumKeys(track) \in Nat /\ Unit \in Nat \ {0}
  BY <1>1, TriggeringAssumption, TrackAssumption, KeyOf DEF HeadsAreExact, BuiltFloat, NumKeys
<1>3. PICK z : z = [self |-> p, magic |-> TRUE, from |-> from, to |-> to,
                    threshold |-> threshold, job |-> p, edge |-> NoEdge,
                    outer |-> IF from = to THEN 0 ELSE Floor(from),
                    inner |-> IF from = to THEN -2
                              ELSE IF from < to THEN 0 ELSE NumKeys(track) - 1]
  OBVIOUS
<1>4. storage' = [storage EXCEPT ![p] = z]
  BY <1>3 DEF Run
<1>5. /\ z.self = p /\ z.magic = TRUE /\ z.from = from /\ z.to = to /\ z.threshold = threshold /\ z.job = p
      /\ z.outer = IF from = to THEN 0 ELSE Floor(from)
      /\ z.inner = IF from = to THEN -2 ELSE IF from < to THEN 0 ELSE NumKeys(track) - 1
  BY <1>3
<1>6. z \in IteratorRecords
  <2>1. Floor(from) \in Int /\ NoEdge \in EdgeRecords
    BY <1>2 DEF Floor, NoEdge, EdgeRecords
  <2> QED BY <1>2, <1>3, <2>1 DEF IteratorRecords
<1>7. IsQuery(z) /\ ExactQuery(z)
  BY <1>1, <1>2, <1>5 DEF IsQuery, ExactQuery
<1>8. edges'[p] = <<>> /\ \A q \in Places \ {p} : edges'[q] = edges[q]
  BY <1>1
<1>9. edges' \in [Places -> Seq(EdgeRecords)]
  <2>1. <<>> \in Seq(EdgeRecords)
    OBVIOUS
  <2> QED BY <1>1, <2>1
<1>10. CASE from = to
  <2>1. Ended(z) /\ Crossings(z) = <<>>
    BY <1>5, <1>7, <1>10, NowhereToGo DEF Ended
  <2>2. HasTold(z, <<>>)
    BY <1>7, <2>1, ToldIs
  <2>3. calling' = Nowhere /\ p # Nowhere
    BY <1>1, <1>10, TriggeringAssumption
  <2> QED BY <1>1, <1>4, <1>5, <1>6, <1>7, <1>8, <1>9, <2>1, <2>2, <2>3, OneMoves
<1>11. CASE from # to
  <2>1. \E loop, v : OnLoop(z, loop, v) /\ Among(z)[v] = <<>>
    BY <1>5, <1>7, <1>11, StartsWithNothing
  <2>2. HasTold(z, <<>>)
    BY <1>7, <2>1, ToldIs
  <2>3. calling' = p
    BY <1>1, <1>11
  <2>4. ~Ended(z)
    BY <1>2, <1>5, <1>11 DEF Ended
  <2> QED BY <1>1, <1>4, <1>5, <1>6, <1>7, <1>8, <1>9, <2>2, <2>3, <2>4, OneMoves
<1> QED BY <1>10, <1>11

LEMMA TakeTells ==
  ASSUME IteratorsTell, NEW p \in Places, Take(p)
  PROVE  IteratorsTell'
<1>1. /\ calling = Nowhere /\ StateOf(p) /\ ~AtEnd(p) /\ calling' = p
      /\ edges' = [edges EXCEPT ![p] = Append(edges[p], storage[p].edge)]
      /\ rawVars' = rawVars /\ storage' = storage
  BY DEF Take
<1>2. PICK z : z = storage[p]
  OBVIOUS
<1>3. /\ storage \in [Places -> IteratorRecords] /\ edges \in [Places -> Seq(EdgeRecords)]
      /\ z \in IteratorRecords /\ IteratorTells(p) /\ (track = NotBuilt => ~z.magic)
  BY <1>2 DEF IteratorsTell
<1>4. z.magic /\ z.self = p /\ z.job = p /\ ExactQuery(z) /\ HasTold(z, ToldAt(p))
  BY <1>1, <1>2, <1>3 DEF StateOf, IteratorTells
<1>5. ~Ended(z)
  BY <1>1, <1>2, <1>4 DEF AtEnd, Ended
<1>6. ToldAt(p) = Append(edges[p], z.edge) /\ z.edge \in EdgeRecords
  <2>1. p # Nowhere
    BY TriggeringAssumption
  <2> QED BY <1>1, <1>2, <1>3, <1>5, <2>1 DEF ToldAt, IteratorRecords
<1>7. edges'[p] = ToldAt(p) /\ \A q \in Places \ {p} : edges'[q] = edges[q]
  BY <1>1, <1>2, <1>3, <1>6
<1>8. edges' \in [Places -> Seq(EdgeRecords)]
  <2>1. Append(edges[p], z.edge) \in Seq(EdgeRecords)
    BY <1>3, <1>6
  <2> QED BY <1>1, <1>2, <1>3, <2>1
<1>9. storage' = [storage EXCEPT ![p] = z]
  BY <1>1, <1>2, <1>3
<1>10. HasTold(z, edges'[p])
  BY <1>4, <1>7
<1>11. calling \in {Nowhere, p} /\ calling' \in {Nowhere, p} /\ rawVars' = rawVars /\ track # NotBuilt
  BY <1>1, <1>3, <1>4
<1>12. HasTold(z, IF Ended(z) \/ calling' = p THEN edges'[p] ELSE Append(edges'[p], z.edge))
  BY <1>1, <1>10
<1>13. /\ z \in IteratorRecords /\ (\A q \in Places \ {p} : edges'[q] = edges[q])
       /\ z.magic /\ z.self = p /\ ~Ended(z) /\ z.job = z.self /\ ExactQuery(z)
  BY <1>3, <1>4, <1>5, <1>7
<1> QED BY <1>8, <1>9, <1>11, <1>12, <1>13, OneMoves

LEMMA CopyTells ==
  ASSUME IteratorsTell, NEW from \in Places, NEW p \in Places, Copy(from, p)
  PROVE  IteratorsTell'
<1>1. /\ calling = Nowhere /\ calling' = Nowhere /\ rawVars' = rawVars
      /\ edges' = [edges EXCEPT ![p] = edges[from]]
  BY DEF Copy
<1>2. PICK z : z = storage[from]
  OBVIOUS
<1>3. /\ storage \in [Places -> IteratorRecords] /\ edges \in [Places -> Seq(EdgeRecords)]
      /\ z \in IteratorRecords /\ IteratorTells(from) /\ (track = NotBuilt => ~z.magic)
  BY <1>2 DEF IteratorsTell
<1>4. storage' = [storage EXCEPT ![p] = z]
  BY <1>2 DEF Copy
<1>5. edges'[p] = edges[from]
  BY <1>1, <1>3
<1>6. \A q \in Places \ {p} : edges'[q] = edges[q]
  BY <1>1, <1>3
<1>7. edges' \in [Places -> Seq(EdgeRecords)]
  BY <1>1, <1>3
<1>8. from # Nowhere /\ p # Nowhere
  BY TriggeringAssumption
<1>9. calling \in {Nowhere, p} /\ calling' \in {Nowhere, p} /\ calling' # p
  BY <1>1, <1>8
<1>10. ToldAt(from) = IF Ended(z) \/ calling' = p THEN edges'[p] ELSE Append(edges'[p], z.edge)
  BY <1>1, <1>2, <1>5, <1>8, <1>9 DEF ToldAt
<1>11. z.magic => z.job = z.self /\ ExactQuery(z) /\ HasTold(z, ToldAt(from))
  BY <1>2, <1>3 DEF IteratorTells
<1>12. z.magic => /\ track # NotBuilt /\ z.job = z.self /\ ExactQuery(z)
                  /\ HasTold(z, IF Ended(z) \/ calling' = p THEN edges'[p] ELSE Append(edges'[p], z.edge))
  BY <1>3, <1>10, <1>11
<1>13. CASE ~z.magic
  BY <1>1, <1>3, <1>4, <1>6, <1>7, <1>9, <1>13, OneMoves
<1>14. CASE z.magic /\ Ended(z)
  <2>1. track # NotBuilt /\ z.job = z.self /\ ExactQuery(z) /\ HasTold(z, edges'[p])
    BY <1>12, <1>14
  <2> QED BY <1>1, <1>3, <1>4, <1>6, <1>7, <1>9, <1>14, <2>1, OneMoves
<1>15. CASE z.magic /\ ~Ended(z)
  <2>1. track # NotBuilt /\ z.job = z.self /\ ExactQuery(z) /\ HasTold(z, Append(edges'[p], z.edge))
    BY <1>9, <1>12, <1>15
  <2> QED BY <1>1, <1>3, <1>4, <1>6, <1>7, <1>9, <1>15, <2>1, OneMoves
<1> QED BY <1>13, <1>14, <1>15

-----------------------------------------------------------------------------
(* The steps of a call.                                                    *)

\* Where the call stands.
LEMMA CallStands ==
  ASSUME IteratorsTell, calling # Nowhere
  PROVE  /\ calling \in Places /\ track # NotBuilt
         /\ storage \in [Places -> IteratorRecords] /\ edges \in [Places -> Seq(EdgeRecords)]
         /\ \E s \in IteratorRecords : \E loop, v :
               /\ s = storage[calling] /\ s.magic /\ s.self = calling /\ s.job = calling
               /\ Searches(s, loop, v) /\ edges[calling] = Among(s)[v]
<1>1. /\ InCall(calling) /\ (track = NotBuilt => \A p \in Places : ~storage[p].magic)
      /\ storage \in [Places -> IteratorRecords] /\ edges \in [Places -> Seq(EdgeRecords)]
      /\ IteratorTells(calling)
  BY DEF IteratorsTell, InCall
<1>2. PICK s : s = storage[calling]
  OBVIOUS
<1>3. calling \in Places /\ s \in IteratorRecords /\ s.magic /\ s.self = calling /\ ~Ended(s) /\ track # NotBuilt
  BY <1>1, <1>2 DEF InCall
<1>4. s.job = calling /\ ExactQuery(s) /\ HasTold(s, edges[calling])
  <2>1. s.job = s.self /\ ExactQuery(s) /\ HasTold(s, ToldAt(calling))
    BY <1>1, <1>2, <1>3 DEF IteratorTells
  <2>2. ToldAt(calling) = edges[calling]
    BY DEF ToldAt
  <2> QED BY <1>3, <2>1, <2>2
<1>5. PICK loop, v : OnLoop(s, loop, v) /\ edges[calling] = Among(s)[v]
  <2>1. IsQuery(s)
    BY <1>4 DEF ExactQuery
  <2> QED BY <1>3, <1>4, <2>1, ToldIs
<1>6. It = s /\ Job = s
  BY <1>2, <1>3, <1>4 DEF It, Job
<1>7. Searches(s, loop, v)
  BY <1>4, <1>5, <1>6 DEF Searches
<1> QED BY <1>1, <1>2, <1>3, <1>4, <1>5, <1>7

\* The call goes on or returns, and its iterator still tells.
LEMMA CallGoesOn ==
  ASSUME IteratorsTell, calling # Nowhere, UNCHANGED <<rawVars, edges>>,
         NEW s, s = storage[calling], s.magic, s.self = calling, s.job = calling, ExactQuery(s),
         NEW z \in IteratorRecords, SameQuery(s, z), z.magic = s.magic, z.self = s.self, z.job = s.job,
         storage' = [storage EXCEPT ![calling] = z], calling' \in {Nowhere, calling},
         calling' = calling => ~Ended(z),
         NEW told, told = IF Ended(z) \/ calling' = calling THEN edges[calling]
                                                            ELSE Append(edges[calling], z.edge),
         \/ Ended(z) /\ told = Crossings(s)
         \/ \E loop, v : OnLoop(z, loop, v) /\ told = Among(s)[v]
  PROVE  IteratorsTell'
<1>1. PICK p \in Places : p = calling
  BY CallStands
<1>2. /\ track # NotBuilt /\ edges \in [Places -> Seq(EdgeRecords)]
  BY CallStands
<1>3. rawVars' = rawVars /\ edges' = edges
  OBVIOUS
<1>4. IsQuery(s) /\ IsQuery(z) /\ ExactQuery(z) /\ Among(z) = Among(s) /\ Crossings(z) = Crossings(s)
  BY SameAnswers DEF ExactQuery
<1>5. HasTold(z, told)
  BY <1>4, ToldIs
<1>6. HasTold(z, IF Ended(z) \/ calling' = p THEN edges'[p] ELSE Append(edges'[p], z.edge))
  BY <1>1, <1>3, <1>5
<1>7. z.magic /\ z.self = p /\ z.job = z.self /\ (calling' = p => ~Ended(z))
  BY <1>1
<1>8. storage' = [storage EXCEPT ![p] = z] /\ calling \in {Nowhere, p} /\ calling' \in {Nowhere, p}
  BY <1>1
<1>9. edges' \in [Places -> Seq(EdgeRecords)] /\ \A q \in Places \ {p} : edges'[q] = edges[q]
  BY <1>2, <1>3
<1> QED BY <1>2, <1>3, <1>4, <1>6, <1>7, <1>8, <1>9, OneMoves

LEMMA YieldTells ==
  ASSUME IteratorsTell, Yield
  PROVE  IteratorsTell'
<1>1. calling # Nowhere /\ Searching /\ KeyLeft /\ Detected.detected /\ Kept /\ calling' = Nowhere /\ UNCHANGED <<rawVars, edges>>
  BY DEF Yield, Searching
<1>2a. PICK s \in IteratorRecords : \E loop, v :
         /\ s = storage[calling] /\ s.magic /\ s.self = calling /\ s.job = calling
         /\ Searches(s, loop, v) /\ edges[calling] = Among(s)[v]
  BY <1>1, CallStands
<1>2. PICK loop, v :
         /\ s = storage[calling] /\ s.magic /\ s.self = calling /\ s.job = calling
         /\ Searches(s, loop, v) /\ edges[calling] = Among(s)[v]
  BY <1>2a
<1>3. storage \in [Places -> IteratorRecords] /\ calling \in Places /\ edges \in [Places -> Seq(EdgeRecords)]
  BY <1>1, CallStands
<1>4. PICK e : e = [Detected.edge EXCEPT !.ratio = Found]
  OBVIOUS
<1>5. PICK z : z = [s EXCEPT !.edge = e, !.inner = s.inner + Step]
  OBVIOUS
<1>6. storage' = [storage EXCEPT ![calling] = z]
  BY <1>2, <1>3, <1>4, <1>5 DEF Yield
<1>7. /\ v + 1 \in 1 .. Reach(s) /\ Between(s, OnTheWay(s, v + 1))
      /\ e \in EdgeRecords /\ e = CrossingOf(s, OnTheWay(s, v + 1))
      /\ s.inner \in 0 .. NumKeys(track) - 1 /\ NumKeys(track) \in Nat
  BY <1>1, <1>2, <1>4, KeptIsBetween
<1>8. Step \in {1, -1} /\ s.inner \in Int /\ v \in Int
  BY <1>2, ForwardIs DEF IteratorRecords, Searches, OnLoop
<1>9. /\ z \in IteratorRecords /\ SameQuery(s, z) /\ z.magic = s.magic /\ z.self = s.self /\ z.job = s.job
      /\ z.outer = s.outer /\ z.inner = s.inner + Step /\ z.edge = e
  <2>1. s.inner + Step \in Int
    BY <1>8
  <2> DEFINE inner == s.inner + Step
  <2>2. z = [s EXCEPT !.edge = e, !.inner = inner] /\ inner \in Int
    BY <1>5, <2>1
  <2> HIDE DEF inner
  <2>3. /\ z \in IteratorRecords /\ SameQuery(s, z) /\ z.magic = s.magic /\ z.self = s.self /\ z.job = s.job
        /\ z.outer = s.outer /\ z.inner = inner /\ z.edge = e
    BY <1>7, <2>2 DEF IteratorRecords, SameQuery
  <2> QED BY <2>3 DEF inner
<1>10. OnLoop(z, loop, v + 1)
  BY <1>1, <1>2, <1>9, KeyDone
<1>11. ExactQuery(s) /\ IsQuery(s)
  BY <1>2 DEF Searches, ExactQuery
<1>12. Among(s)[v + 1] = Append(edges[calling], e)
  <2>1. PICK w : w = v + 1
    OBVIOUS
  <2>2. w \in 1 .. Reach(s) /\ w - 1 = v
    BY <1>7, <1>8, <2>1
  <2>3. Among(s)[w] = NextList(s, Among(s)[w - 1], w)
    BY <1>11, <2>2, AmongAre
  <2> QED BY <1>2, <1>7, <2>1, <2>2, <2>3 DEF NextList
<1>13. ~Ended(z)
  BY <1>7, <1>8, <1>9 DEF Ended
<1>14. calling' # calling
  BY <1>1
<1>15. PICK told : told = Append(edges[calling], z.edge)
  OBVIOUS
<1>16. told = IF Ended(z) \/ calling' = calling THEN edges[calling] ELSE Append(edges[calling], z.edge)
  BY <1>13, <1>14, <1>15
<1>17. \E l, w : OnLoop(z, l, w) /\ told = Among(s)[w]
  BY <1>9, <1>10, <1>12, <1>15
<1> QED BY <1>1, <1>2, <1>6, <1>9, <1>11, <1>13, <1>14, <1>16, <1>17, CallGoesOn

LEMMA RejectedIs ==
  ASSUME NEW s \in IteratorRecords, NEW loop, NEW v, Searches(s, loop, v), Searching, KeyLeft
  PROVE  Rejected \in EdgeRecords
<1>1. Detected.detected => [Detected.edge EXCEPT !.ratio = Found] \in EdgeRecords
  BY KeptIsBetween
<1>2. It.edge \in EdgeRecords
  BY DEF Searches, IteratorRecords
<1> QED BY <1>1, <1>2 DEF Rejected

LEMMA NextKeyTells ==
  ASSUME IteratorsTell, NextKey
  PROVE  IteratorsTell'
<1>1. calling # Nowhere /\ Searching /\ KeyLeft /\ ~(Detected.detected /\ Kept) /\ calling' = calling /\ UNCHANGED <<rawVars, edges>>
  BY DEF NextKey, Searching
<1>2a. PICK s \in IteratorRecords : \E loop, v :
         /\ s = storage[calling] /\ s.magic /\ s.self = calling /\ s.job = calling
         /\ Searches(s, loop, v) /\ edges[calling] = Among(s)[v]
  BY <1>1, CallStands
<1>2. PICK loop, v :
         /\ s = storage[calling] /\ s.magic /\ s.self = calling /\ s.job = calling
         /\ Searches(s, loop, v) /\ edges[calling] = Among(s)[v]
  BY <1>2a
<1>3. storage \in [Places -> IteratorRecords] /\ calling \in Places /\ edges \in [Places -> Seq(EdgeRecords)]
  BY <1>1, CallStands
<1>4. PICK e : e = Rejected
  OBVIOUS
<1>5. PICK inner : inner = s.inner + Step
  OBVIOUS
<1>6. PICK z : z = [s EXCEPT !.edge = e, !.inner = inner]
  OBVIOUS
<1>7. storage' = [storage EXCEPT ![calling] = z]
  BY <1>2, <1>3, <1>4, <1>5, <1>6 DEF NextKey
<1>8. /\ v + 1 \in 1 .. Reach(s) /\ ~Between(s, OnTheWay(s, v + 1))
      /\ s.inner \in 0 .. NumKeys(track) - 1 /\ NumKeys(track) \in Nat
  BY <1>1, <1>2, KeptIsBetween
<1>9. e \in EdgeRecords
  BY <1>1, <1>2, <1>4, RejectedIs
<1>10. Step \in {1, -1} /\ s.inner \in Int /\ v \in 0 .. Reach(s) /\ inner \in Int /\ inner # -2
  BY <1>2, <1>5, <1>8, ForwardIs DEF IteratorRecords, Searches, OnLoop
<1>11. /\ z \in IteratorRecords /\ SameQuery(s, z) /\ z.magic = s.magic /\ z.self = s.self /\ z.job = s.job
       /\ z.outer = s.outer /\ z.inner = inner /\ z.edge = e
  BY <1>6, <1>9, <1>10 DEF IteratorRecords, SameQuery
<1>12. OnLoop(z, loop, v + 1)
  BY <1>1, <1>2, <1>5, <1>11, KeyDone
<1>13. ExactQuery(s) /\ IsQuery(s)
  BY <1>2 DEF Searches, ExactQuery
<1>14. Among(s)[v + 1] = edges[calling]
  <2>1. PICK w : w = v + 1
    OBVIOUS
  <2>2. w \in 1 .. Reach(s) /\ w - 1 = v
    BY <1>8, <1>10, <2>1
  <2>3. Among(s)[w] = NextList(s, Among(s)[w - 1], w)
    BY <1>13, <2>2, AmongAre
  <2> QED BY <1>2, <1>8, <2>1, <2>2, <2>3 DEF NextList
<1>15. ~Ended(z)
  BY <1>10, <1>11 DEF Ended
<1>16. PICK told : told = edges[calling]
  OBVIOUS
<1>17. told = IF Ended(z) \/ calling' = calling THEN edges[calling] ELSE Append(edges[calling], z.edge)
  BY <1>1, <1>16
<1>18. \E l, w : OnLoop(z, l, w) /\ told = Among(s)[w]
  BY <1>12, <1>14, <1>16
<1>19. calling' \in {Nowhere, calling}
  BY <1>1
<1> QED BY <1>1, <1>2, <1>7, <1>11, <1>13, <1>15, <1>17, <1>18, <1>19, CallGoesOn

LEMMA LoopOverTells ==
  ASSUME IteratorsTell, LoopOver
  PROVE  IteratorsTell'
<1>1. calling # Nowhere /\ Searching /\ calling' = calling /\ UNCHANGED <<rawVars, edges>>
  BY DEF LoopOver, Searching
<1>2a. PICK s \in IteratorRecords : \E loop, v :
         /\ s = storage[calling] /\ s.magic /\ s.self = calling /\ s.job = calling
         /\ Searches(s, loop, v) /\ edges[calling] = Among(s)[v]
  BY <1>1, CallStands
<1>2. PICK loop, v :
         /\ s = storage[calling] /\ s.magic /\ s.self = calling /\ s.job = calling
         /\ Searches(s, loop, v) /\ edges[calling] = Among(s)[v]
  BY <1>2a
<1>3. storage \in [Places -> IteratorRecords] /\ calling \in Places /\ edges \in [Places -> Seq(EdgeRecords)]
  BY <1>1, CallStands
<1>4. ExactQuery(s) /\ IsQuery(s) /\ It = s /\ OnLoop(s, loop, v) /\ s.edge \in EdgeRecords
  BY <1>2 DEF Searches, ExactQuery, IteratorRecords
<1>5. NumKeys(track) \in Nat /\ Reach(s) \in Nat /\ v \in 0 .. Reach(s) /\ s.inner \in Int /\ IsForward(s) \in BOOLEAN
  BY <1>4, WayOf DEF OnLoop
<1>6. PICK e : e = IF KeyLeft THEN Rejected ELSE s.edge
  OBVIOUS
<1>7. e \in EdgeRecords
  BY <1>1, <1>2, <1>4, <1>6, RejectedIs
<1>8. PICK outer, inner : outer = (IF Forward THEN NextLoop ELSE Rounded(s.outer - Unit)) /\ inner = Rewound
  OBVIOUS
<1>9. PICK z : z = [s EXCEPT !.outer = outer, !.inner = inner, !.edge = e]
  OBVIOUS
<1>10. storage' = [storage EXCEPT ![calling] = z]
  <2>1. OuterMoved = [s EXCEPT !.outer = outer, !.inner = inner]
    BY <1>4, <1>8 DEF OuterMoved
  <2>2. CASE ~KeyLeft
    <3>1. storage' = [storage EXCEPT ![calling] = OuterMoved]
      BY <2>2 DEF LoopOver
    <3>2. z = OuterMoved
      BY <1>6, <1>9, <2>1, <2>2 DEF IteratorRecords
    <3> QED BY <3>1, <3>2
  <2>3. CASE KeyLeft
    <3>1. storage' = [storage EXCEPT ![calling] = [OuterMoved EXCEPT !.edge = Rejected]]
      BY <2>3 DEF LoopOver
    <3>2. z = [OuterMoved EXCEPT !.edge = Rejected]
      BY <1>6, <1>9, <2>1, <2>3 DEF IteratorRecords
    <3> QED BY <3>1, <3>2
  <2> QED BY <2>2, <2>3
<1>11. inner \in -1 .. NumKeys(track) - 1 \cup {0} /\ inner # -2
  BY <1>2, <1>5, <1>8, ForwardIs
<1>12. outer \in Int
  <2>1. NextLoop = loop * Unit + Unit /\ loop * Unit \in Int /\ Rounded(s.outer - Unit) = loop * Unit - Unit
    BY <1>1, <1>2, SearchedLoop
  <2>2. PICK x : x = loop * Unit
    OBVIOUS
  <2>3. NextLoop \in Int /\ Rounded(s.outer - Unit) \in Int
    BY <2>1, <2>2, TrackAssumption
  <2> QED BY <1>8, <2>3
<1>13. /\ z \in IteratorRecords /\ SameQuery(s, z) /\ z.magic = s.magic /\ z.self = s.self /\ z.job = s.job
       /\ z.outer = outer /\ z.inner = inner /\ z.edge = e
  <2>1. inner \in Int
    BY <1>5, <1>11
  <2> QED BY <1>7, <1>9, <1>12, <2>1 DEF IteratorRecords, SameQuery
<1>14. \E next \in Int, w \in v .. Reach(s) :
          /\ OnLoop(z, next, w)
          /\ IF IsForward(s) THEN w = v + (NumKeys(track) - s.inner) ELSE w = v + (s.inner + 1)
  BY <1>1, <1>2, <1>8, <1>13, LoopDone
<1>15. PICK next, w : /\ w \in v .. Reach(s) /\ OnLoop(z, next, w)
                      /\ IF IsForward(s) THEN w = v + (NumKeys(track) - s.inner) ELSE w = v + (s.inner + 1)
  BY <1>14
<1>16. \A k \in v + 1 .. w : ~Between(s, OnTheWay(s, k))
  <2>1. CASE KeyLeft
    <3>1. ~(Detected.detected /\ Kept) /\ NoneLeft
      BY <2>1 DEF LoopOver
    <3> QED BY <1>1, <1>2, <1>15, <2>1, <3>1, NothingLeft
  <2>2. CASE ~KeyLeft
    <3>1. s.inner \notin 0 .. NumKeys(track) - 1
      BY <1>4, <2>2 DEF KeyLeft
    <3>2. w = v
      BY <1>4, <1>5, <1>15, <3>1 DEF OnLoop
    <3> QED BY <1>5, <3>2
  <2> QED BY <2>1, <2>2
<1>17. Among(s)[w] = Among(s)[v]
  BY <1>4, <1>5, <1>15, <1>16, NothingBetween
<1>18. ~Ended(z)
  BY <1>11, <1>13 DEF Ended
<1>19. PICK told : told = edges[calling]
  OBVIOUS
<1>20. told = IF Ended(z) \/ calling' = calling THEN edges[calling] ELSE Append(edges[calling], z.edge)
  BY <1>1, <1>19
<1>21. \E l, u : OnLoop(z, l, u) /\ told = Among(s)[u]
  BY <1>2, <1>15, <1>17, <1>19
<1>22. calling' \in {Nowhere, calling}
  BY <1>1
<1> QED BY <1>1, <1>2, <1>4, <1>10, <1>13, <1>18, <1>20, <1>21, <1>22, CallGoesOn

LEMMA ExhaustedTells ==
  ASSUME IteratorsTell, Exhausted
  PROVE  IteratorsTell'
<1>1. calling # Nowhere /\ ~Searching /\ calling' = Nowhere /\ UNCHANGED <<rawVars, edges>>
  BY DEF Exhausted
<1>2a. PICK s \in IteratorRecords : \E loop, v :
         /\ s = storage[calling] /\ s.magic /\ s.self = calling /\ s.job = calling
         /\ Searches(s, loop, v) /\ edges[calling] = Among(s)[v]
  BY <1>1, CallStands
<1>2. PICK loop, v :
         /\ s = storage[calling] /\ s.magic /\ s.self = calling /\ s.job = calling
         /\ Searches(s, loop, v) /\ edges[calling] = Among(s)[v]
  BY <1>2a
<1>3. storage \in [Places -> IteratorRecords] /\ calling \in Places
  BY <1>1, CallStands
<1>4. PICK end \in Int : end = -2
  OBVIOUS
<1>4a. PICK z : z = [s EXCEPT !.outer = 0, !.inner = end]
  OBVIOUS
<1>5. storage' = [storage EXCEPT ![calling] = z]
  BY <1>2, <1>3, <1>4, <1>4a DEF Exhausted
<1>6. /\ z \in IteratorRecords /\ SameQuery(s, z) /\ z.magic = s.magic /\ z.self = s.self /\ z.job = s.job
      /\ Ended(z)
  <2>1. /\ z \in IteratorRecords /\ SameQuery(s, z) /\ z.magic = s.magic /\ z.self = s.self /\ z.job = s.job
        /\ z.outer = 0 /\ z.inner = end
    <3>1. PICK outer \in Int : outer = 0
      OBVIOUS
    <3>2. z = [s EXCEPT !.outer = outer, !.inner = end]
      BY <1>4a, <3>1
    <3> QED BY <3>1, <3>2 DEF IteratorRecords, SameQuery
  <2> QED BY <1>4, <2>1 DEF Ended
<1>7. ExactQuery(s)
  BY <1>2 DEF Searches
<1>8. Among(s)[v] = Crossings(s)
  BY <1>1, <1>2, ExhaustedTellsAll
<1>9. PICK told : told = edges[calling]
  OBVIOUS
<1>10. told = IF Ended(z) \/ calling' = calling THEN edges[calling] ELSE Append(edges[calling], z.edge)
  BY <1>6, <1>9
<1>11. Ended(z) /\ told = Crossings(s)
  BY <1>2, <1>6, <1>8, <1>9
<1>12. calling' \in {Nowhere, calling} /\ calling' # calling
  BY <1>1
<1> QED BY <1>1, <1>2, <1>5, <1>6, <1>7, <1>10, <1>11, <1>12, CallGoesOn

-----------------------------------------------------------------------------
(* What iterators tell is true.                                            *)

LEMMA StepsTell ==
  ASSUME HeadsAreExact, RawIsKnown, IteratorsTell, [TracksNext]_tracksVars
  PROVE  IteratorsTell'
<1>1. CASE UNCHANGED vars
  <2>1. rawVars' = rawVars /\ storage' = storage /\ calling' = calling /\ edges' = edges
    BY <1>1 DEF vars, rawVars
  <2>2. track' = track /\ kind' = kind
    BY <2>1 DEF rawVars
  <2>3. (track # NotBuilt /\ kind = "float" => BuiltFloat(track))'
    BY <2>2 DEF IteratorsTell, BuiltFloat
  <2>4. (calling # Nowhere => InCall(calling))'
    BY <2>1 DEF IteratorsTell, InCall, Ended
  <2>5. ASSUME NEW p \in Places PROVE IteratorTells(p)'
    <3>1. PICK s, told : s = storage[p] /\ told = ToldAt(p)
      OBVIOUS
    <3>2. storage'[p] = s /\ ToldAt(p)' = told
      BY <2>1, <3>1 DEF ToldAt, Ended
    <3>3. s.magic => s.job = s.self /\ ExactQuery(s) /\ HasTold(s, told)
      BY <3>1 DEF IteratorsTell, IteratorTells
    <3>4. s.magic => ExactQuery(s)' /\ HasTold(s, told)'
      BY <2>1, <3>3, ToldStays
    <3> QED BY <3>2, <3>3, <3>4 DEF IteratorTells
  <2> QED BY <2>1, <2>2, <2>3, <2>4, <2>5 DEF IteratorsTell
<1>2. CASE Next
  <2>1. CASE Author
    BY <2>1, AuthorTells
  <2>2. CASE Destroy
    BY <2>2, DestroyTells
  <2>3. ASSUME NEW p \in Places, NEW threshold \in Thresholds,
               NEW from \in Heads[p], NEW to \in Heads[p], Run(p, from, to, threshold)
        PROVE  IteratorsTell'
    BY <2>3, RunTells
  <2>4. ASSUME NEW p \in Places, Take(p) PROVE IteratorsTell'
    BY <2>4, TakeTells
  <2>5. ASSUME NEW p \in Places, NEW q \in Places, Copy(p, q) PROVE IteratorsTell'
    BY <2>5, CopyTells
  <2>6. CASE Search
    BY <2>6, YieldTells, NextKeyTells, LoopOverTells, ExhaustedTells DEF Search
  <2> QED BY <1>2, <2>1, <2>2, <2>3, <2>4, <2>5, <2>6 DEF Next
<1> QED BY <1>1, <1>2 DEF TracksNext, tracksVars

LEMMA StartTells ==
  ASSUME Init
  PROVE  IteratorsTell
<1>1. /\ storage = [p \in Places |-> Blank] /\ edges = [p \in Places |-> <<>>] /\ calling = Nowhere
      /\ track = NotBuilt
  BY DEF Init, RawInit
<1>2. \A p \in Places : storage[p] = Blank
  BY <1>1
<1>3. storage \in [Places -> IteratorRecords] /\ \A p \in Places : ~storage[p].magic
  BY <1>1, <1>2, BlankIs
<1>4. edges \in [Places -> Seq(EdgeRecords)]
  <2>1. <<>> \in Seq(EdgeRecords)
    OBVIOUS
  <2> QED BY <1>1, <2>1
<1>5. \A p \in Places : IteratorTells(p)
  BY <1>3 DEF IteratorTells
<1> QED BY <1>1, <1>3, <1>4, <1>5 DEF IteratorsTell

\* A place that may be asked.
LEMMA AskedTells ==
  ASSUME IteratorsTell, NEW p \in Places, Answers(p), NEW s, s = storage[p]
  PROVE  /\ IsQuery(s) /\ (AtEnd(p) <=> Ended(s))
         /\ \/ AtEnd(p) /\ Held(p) = edges[p] /\ Held(p) = Crossings(s)
            \/ ~AtEnd(p) /\ \E v \in 0 .. Reach(s) : Held(p) = Among(s)[v]
         /\ AtEnd(p) => Held(p) = Crossings(s)
<1>1. calling = Nowhere /\ s.magic /\ s.self = p
  BY DEF Answers, StateOf
<1>2. s.job = p /\ ExactQuery(s) /\ HasTold(s, ToldAt(p))
  BY <1>1 DEF IteratorsTell, IteratorTells
<1>3. IsQuery(s)
  BY <1>2 DEF ExactQuery
<1>4. AtEnd(p) <=> Ended(s)
  BY <1>2 DEF AtEnd, Ended
<1>5. p # Nowhere
  BY TriggeringAssumption
<1>6. ToldAt(p) = Held(p)
  BY <1>1, <1>4, <1>5 DEF ToldAt, Held
<1>7. \/ Ended(s) /\ Held(p) = Crossings(s)
      \/ \E loop, v : OnLoop(s, loop, v) /\ Held(p) = Among(s)[v]
  BY <1>2, <1>3, <1>6, ToldIs
<1>8. \A loop, v : OnLoop(s, loop, v) => ~Ended(s) /\ v \in 0 .. Reach(s)
  <2>1. NumKeys(track) \in Nat
    BY <1>3, WayOf
  <2>2. ASSUME NEW loop, NEW v, OnLoop(s, loop, v) PROVE s.inner # -2 /\ v \in 0 .. Reach(s)
    <3>1. s.inner >= -1
      BY <2>1, <2>2 DEF OnLoop
    <3> QED BY <2>2, <3>1 DEF OnLoop
  <2> QED BY <2>2 DEF Ended
<1> QED BY <1>3, <1>4, <1>7, <1>8 DEF Held

LEMMA PrefixFlips ==
  ASSUME NEW list \in Seq(EdgeRecords), NEW whole \in Seq(EdgeRecords), Len(list) <= Len(whole),
         \A i \in 1 .. Len(list) : list[i] = whole[i], NEW on, Flips(whole, on)
  PROVE  Flips(list, on)
BY DEF Flips

LEMMA ToldIsTrue ==
  ASSUME IteratorsTell
  PROVE  EdgesTellTheTrack
<1> SUFFICES ASSUME NEW p \in Places, Answers(p)
             PROVE  /\ IF AtEnd(p) THEN Held(p) = Crossings(storage[p])
                                   ELSE IsPrefix(Held(p), Crossings(storage[p]))
                    /\ \A i \in DOMAIN Held(p) :
                          Held(p)[i].rising = (OnBefore(storage[p].threshold, storage[p].from) = (i % 2 = 0))
                    /\ AtEnd(p) =>
                          OnBefore(storage[p].threshold, storage[p].to)
                             = (OnBefore(storage[p].threshold, storage[p].from) # (Len(edges[p]) % 2 = 1))
  BY DEF EdgesTellTheTrack, EdgesAreTheCrossings, FlagFollowsTrack
<1>1. PICK s : s = storage[p]
  OBVIOUS
<1>2. PICK list, all : list = Held(p) /\ all = Crossings(s)
  OBVIOUS
<1>3. PICK on, after : on = OnBefore(s.threshold, s.from) /\ after = OnBefore(s.threshold, s.to)
  OBVIOUS
<1>4. /\ IsQuery(s)
      /\ \/ AtEnd(p) /\ list = edges[p] /\ list = all
         \/ ~AtEnd(p) /\ \E v \in 0 .. Reach(s) : list = Among(s)[v]
      /\ AtEnd(p) => list = all
  BY <1>1, <1>2, AskedTells
<1>5. Flips(all, on) /\ after = (on # Odd(Len(all)))
  BY <1>2, <1>3, <1>4, CrossingsTell
<1>6. all = Among(s)[Reach(s)] /\ Reach(s) \in Nat
  BY <1>2, <1>4, AmongAre, WayOf
<1>7. PICK v \in 0 .. Reach(s) : list = Among(s)[v]
  <2>1. Reach(s) \in 0 .. Reach(s)
    BY <1>6
  <2> QED BY <1>4, <1>6, <2>1
<1>8. /\ list \in Seq(EdgeRecords) /\ all \in Seq(EdgeRecords) /\ Len(list) <= Len(all)
      /\ \A i \in 1 .. Len(list) : list[i] = all[i]
  <2>1. Reach(s) \in v .. Reach(s)
    BY <1>6
  <2> QED BY <1>4, <1>6, <1>7, <2>1, AmongGoesOn
<1>9. IsPrefix(list, all)
  BY <1>8, PrefixIs
<1>10. \A i \in DOMAIN list : list[i].rising = (on = (i % 2 = 0))
  <2>1. Flips(list, on)
    BY <1>5, <1>8, PrefixFlips
  <2>2. DOMAIN list = 1 .. Len(list)
    BY <1>8
  <2> QED BY <2>1, <2>2 DEF Flips
<1>11. AtEnd(p) => after = (on # (Len(edges[p]) % 2 = 1))
  <2> SUFFICES ASSUME AtEnd(p) PROVE after = (on # (Len(edges[p]) % 2 = 1))
    OBVIOUS
  <2>1. all = edges[p]
    BY <1>4
  <2> QED BY <1>5, <2>1 DEF Odd
<1> QED BY <1>1, <1>2, <1>3, <1>4, <1>9, <1>10, <1>11

\* The edges of a query, in either direction over any loops, are exactly the crossings of
\* the track between its two ratios, once each and in order, and a host that follows them
\* believes of the track what sampling it at `to` gives: for any built track of floats,
\* iterators and copies of them, and ratios that floats tell from a loop about them
\* (TrackTriggeringJob::Run, Iterator::operator++, StateOf).
THEOREM EdgesAreTold ==
  ASSUME HeadsAreExact
  PROVE  TracksSpec => []EdgesTellTheTrack
<1>1. TracksInit => RawIsKnown /\ IteratorsTell
  <2>1. TracksInit => RawIsKnown
    BY DEF TracksInit, Init, RawInit, RawIsKnown, RawKeys
  <2> QED BY <2>1, StartTells DEF TracksInit
<1>2. RawIsKnown /\ IteratorsTell /\ [TracksNext]_tracksVars => RawIsKnown' /\ IteratorsTell'
  BY StepsKeepKnown, StepsTell
<1>3. IteratorsTell => EdgesTellTheTrack
  BY ToldIsTrue
<1> QED BY <1>1, <1>2, <1>3, PTL DEF TracksSpec

-----------------------------------------------------------------------------
(* Rounding any number.                                                    *)

LEMMA PowersAdd ==
  ASSUME NEW a \in Nat, NEW n \in Nat
  PROVE  PowerOf2(a + n) = PowerOf2(a) * PowerOf2(n)
<1> DEFINE S == {k \in 0 .. n : PowerOf2(a + k) = PowerOf2(a) * PowerOf2(k)}
<1>1. 0 \in S
  <2>1. a + 0 = a /\ PowerOf2(0) = 1 /\ PowerOf2(a) \in Nat
    BY PowersAre
  <2> QED BY <2>1
<1>2. ASSUME NEW k \in 1 .. n, k - 1 \in S PROVE k \in S
  <2>1. PICK j \in Nat : j = k - 1
    BY <1>2
  <2>2. k = j + 1 /\ a + k = (a + j) + 1 /\ a + j \in Nat
    BY <2>1
  <2>3. PowerOf2(a + j) = PowerOf2(a) * PowerOf2(j)
    BY <1>2, <2>1
  <2>4. PowerOf2(a + k) = 2 * PowerOf2(a + j) /\ PowerOf2(k) = 2 * PowerOf2(j)
    BY <2>2, PowersAre
  <2>5. PowerOf2(a) \in Nat /\ PowerOf2(j) \in Nat
    BY PowersAre
  <2>6. \A x, y \in Nat : 2 * (x * y) = x * (2 * y)
    OBVIOUS
  <2> QED BY <1>2, <2>3, <2>4, <2>5, <2>6
<1> HIDE DEF S
<1>3. 0 .. n \subseteq S
  BY <1>1, <1>2, ByNumber
<1> QED BY <1>3 DEF S

LEMMA PowersGrow ==
  ASSUME NEW n \in Nat
  PROVE  n <= PowerOf2(n)
<1> DEFINE S == {k \in 0 .. n : k <= PowerOf2(k)}
<1>1. 0 \in S
  BY PowersAre
<1>2. ASSUME NEW k \in 1 .. n, k - 1 \in S PROVE k \in S
  <2>1. PICK j \in Nat : j = k - 1
    BY <1>2
  <2>2. PowerOf2(j + 1) = 2 * PowerOf2(j) /\ PowerOf2(j) \in Nat \ {0} /\ k = j + 1
    BY <2>1, PowersAre
  <2>3. j <= PowerOf2(j)
    BY <1>2, <2>1
  <2> QED BY <1>2, <2>2, <2>3
<1> HIDE DEF S
<1>3. 0 .. n \subseteq S
  BY <1>1, <1>2, ByNumber
<1> QED BY <1>3 DEF S

\* A multiple of a power of two, and what is one already stays as it is.
LEMMA RoundedTo ==
  ASSUME NEW x \in Int
  PROVE  \E e \in Nat, m \in Int : /\ Rounded(x) = m * PowerOf2(e)
                                   /\ x % PowerOf2(e) = 0 => Rounded(x) = x
<1> DEFINE Reached(k) == Abs(x) <= PowerOf2(Precision + k)
           P(k) == Reached(k) /\ \A j \in 0 .. k - 1 : Abs(x) > PowerOf2(Precision + j)
           e == CHOOSE k \in 0 .. Abs(x) : P(k)
<1>1. Precision \in Nat /\ Abs(x) \in Nat
  BY TrackAssumption DEF Abs
<1>2. Reached(Abs(x))
  <2> DEFINE y == Abs(x)
             b == PowerOf2(Precision)
             c == PowerOf2(y)
  <2>1. PowerOf2(Precision + y) = b * c /\ b \in Nat \ {0} /\ c \in Nat /\ y <= c /\ y \in Nat
    BY <1>1, PowersAdd, PowersAre, PowersGrow
  <2> HIDE DEF y, b, c
  <2>2. c <= b * c
    BY <2>1
  <2> QED BY <2>1, <2>2 DEF y
<1>3. \E k \in 0 .. Abs(x) : P(k)
  <2> DEFINE T == {k \in 0 .. Abs(x) : Reached(k)}
  <2>1. T \subseteq Nat /\ T # {}
    BY <1>1, <1>2
  <2>2. PICK k \in T : \A j \in T : k <= j
    <3> HIDE DEF T
    <3> QED BY <2>1, LeastNatural
  <2>3. ASSUME NEW j \in 0 .. k - 1 PROVE Abs(x) > PowerOf2(Precision + j)
    <3>1. j \in 0 .. Abs(x) /\ ~(k <= j)
      BY <1>1
    <3>2. ~Reached(j)
      BY <2>2, <3>1
    <3>3. PowerOf2(Precision + j) \in Nat
      <4>1. Precision + j \in Nat
        BY <1>1
      <4> QED BY <4>1, PowersAre
    <3> QED BY <1>1, <3>2, <3>3
  <2> QED BY <2>3
<1>4. e \in Nat
  <2> HIDE DEF P
  <2>1. e \in 0 .. Abs(x)
    BY <1>3
  <2> QED BY <1>1, <2>1
<1>5. Rounded(x) = LET step == PowerOf2(e)
                       q == x \div step
                       r == x % step
                   IN  IF 2 * r < step \/ (2 * r = step /\ q % 2 = 0) THEN q * step ELSE (q + 1) * step
  BY DEF Rounded
<1> HIDE DEF e, P
<1> DEFINE step == PowerOf2(e)
           q == x \div step
           r == x % step
<1>6. step \in Nat \ {0}
  BY <1>4, PowersAre
<1> HIDE DEF step
<1>7. q \in Int /\ r \in 0 .. step - 1 /\ x = q * step + r
  BY <1>6, NumbersAre
<1>8. Rounded(x) = IF 2 * r < step \/ (2 * r = step /\ q % 2 = 0) THEN q * step ELSE (q + 1) * step
  BY <1>5 DEF step
<1> HIDE DEF q, r
<1>9. PICK m \in Int : /\ m = q \/ m = q + 1
                       /\ Rounded(x) = m * step
                       /\ r = 0 => m = q
  BY <1>6, <1>7, <1>8
<1>10. r = 0 => Rounded(x) = x
  <2> SUFFICES ASSUME r = 0 PROVE Rounded(x) = x
    OBVIOUS
  <2>1. PICK y : y = q * step
    OBVIOUS
  <2>2. y \in Int /\ x = y + r
    BY <1>6, <1>7, <2>1
  <2> QED BY <1>9, <2>1, <2>2
<1> QED BY <1>4, <1>9, <1>10 DEF step, r

LEMMA RoundedLoops ==
  ASSUME NEW x \in Int
  PROVE  /\ Rounded(x) \in Int
         /\ x % Unit = 0 => Rounded(x) % Unit = 0
<1>1. PICK e \in Nat, m \in Int : /\ Rounded(x) = m * PowerOf2(e)
                                  /\ x % PowerOf2(e) = 0 => Rounded(x) = x
  BY RoundedTo
<1>2. PowerOf2(e) \in Nat \ {0}
  BY PowersAre
<1>3. Rounded(x) \in Int
  BY <1>1, <1>2
<1>4. PICK u \in Nat : Unit = PowerOf2(u)
  BY TrackAssumption
<1>5. ASSUME x % Unit = 0, u <= e PROVE Rounded(x) % Unit = 0
  <2>1. PICK d \in Nat : e = u + d
    BY <1>5
  <2>2. PICK f \in Nat : f = PowerOf2(d)
    BY PowersAre
  <2>3. PowerOf2(e) = Unit * f
    BY <1>4, <2>1, <2>2, PowersAdd
  <2>4. Unit \in Nat \ {0}
    BY TrackAssumption
  <2>5. Rounded(x) = (m * f) * Unit /\ m * f \in Int
    BY <1>1, <2>2, <2>3, <2>4
  <2>6. PICK g \in Int : g = m * f
    BY <2>5
  <2> QED BY <2>4, <2>5, <2>6
<1>6. ASSUME x % Unit = 0, e < u PROVE Rounded(x) % Unit = 0
  <2>1. PICK d \in Nat : u = e + d
    BY <1>6
  <2>2. PICK f \in Nat : f = PowerOf2(d)
    BY PowersAre
  <2>3. Unit = PowerOf2(e) * f
    BY <1>4, <2>1, <2>2, PowersAdd
  <2>4. Unit \in Nat \ {0}
    BY TrackAssumption
  <2>5. PICK q \in Int : x = q * Unit
    <3>1. x \div Unit \in Int /\ x = (x \div Unit) * Unit + 0
      BY <1>6, <2>4, NumbersAre
    <3>2. PICK k \in Int : k = x \div Unit
      BY <3>1
    <3> QED BY <2>4, <3>1, <3>2
  <2>6. PICK s \in Nat \ {0} : s = PowerOf2(e)
    BY <1>2
  <2>7. x = (q * f) * s /\ q * f \in Int
    BY <2>2, <2>3, <2>5, <2>6
  <2>8. PICK g \in Int : g = q * f
    BY <2>7
  <2>9. x % s = 0
    <3>1. PICK y \in Int : y = g * s
      BY <2>6
    <3>2. x = g * s + 0 /\ 0 \in 0 .. s - 1
      BY <2>6, <2>7, <2>8, <3>1
    <3> QED BY <2>6, <3>2, NumbersAre
  <2> QED BY <1>1, <1>6, <2>6, <2>9
<1> QED BY <1>3, <1>5, <1>6

-----------------------------------------------------------------------------
(* The types of the state.                                                 *)

\* Keys of values in V, inside the loop.
LoopKeys(V) == [step : BOOLEAN, ratio : 0 .. Unit, value : V]

LEMMA InLoopKeys ==
  ASSUME NEW V, NEW keys \in RawKeys(V), \A k \in 1 .. Len(keys) : keys[k].ratio \in 0 .. Unit
  PROVE  keys \in Seq(LoopKeys(V))
<1>1. PICK n \in Nat : n = Len(keys)
  BY KeyOf
<1>2. keys = [k \in 1 .. n |-> keys[k]]
  <2>1. DOMAIN keys = 1 .. n
    BY <1>1, KeyOf
  <2> QED BY <2>1 DEF RawKeys
<1>3. \A k \in 1 .. n : keys[k] \in LoopKeys(V)
  <2> SUFFICES ASSUME NEW k \in 1 .. n PROVE keys[k] \in LoopKeys(V)
    OBVIOUS
  <2> DEFINE key == keys[k]
  <2>1. /\ key = [step |-> key.step, ratio |-> key.ratio, value |-> key.value]
        /\ key.step \in BOOLEAN /\ key.value \in V /\ key.ratio \in 0 .. Unit
    BY <1>1, KeyOf
  <2> HIDE DEF key
  <2>2. key \in LoopKeys(V)
    BY <2>1 DEF LoopKeys
  <2> QED BY <2>2 DEF key
<1>4. keys \in [1 .. n -> LoopKeys(V)]
  BY <1>2, <1>3
<1> QED BY <1>1, <1>4

LEMMA BuiltInLoop ==
  ASSUME NEW V, NEW keys \in RawKeys(V), Validate(keys)
  PROVE  Built(keys) \in Seq(LoopKeys(V)) /\ Built(keys) \in RawKeys(V)
<1>1. CASE Len(keys) = 0
  <2>1. Built(keys) = <<>>
    BY <1>1, BuiltOfFew
  <2> QED BY <2>1 DEF RawKeys
<1>2. CASE Len(keys) = 1
  <2>1. Built(keys) \in RawKeys(V) /\ Len(Built(keys)) = 1 /\ Built(keys)[1] = BeginKey(keys)
    BY <1>2, BuiltOfFew
  <2>2. BeginKey(keys).ratio \in 0 .. Unit
    BY TrackAssumption DEF BeginKey
  <2> QED BY <2>1, <2>2, InLoopKeys
<1>3. CASE Len(keys) >= 2
  <2> DEFINE p == Built(keys)
             n == Len(keys)
             m == Len(p)
  <2>1. PICK o \in {0, 1} : p \in RawKeys(V) /\ Placed(p, keys, o)
    BY <1>3, BuiltIsPatched DEF Patched
  <2>2. n \in Nat /\ m \in Nat /\ Unit \in Nat /\ \A k \in 1 .. n : keys[k].ratio \in 0 .. Unit
    BY <2>1, KeyOf, TrackAssumption DEF Validate
  <2>3. BeginKey(keys).ratio = 0 /\ EndKey(keys).ratio = Unit
    BY DEF BeginKey, EndKey
  <2> HIDE DEF p
  <2>4. ASSUME NEW k \in 1 .. m PROVE p[k].ratio \in 0 .. Unit
    <3>1. CASE k - o \in 1 .. n
      <4>1. PICK j \in 1 .. n : j = k - o
        BY <3>1
      <4>2. p[j + o] = keys[j] /\ j + o = k
        BY <2>1, <4>1 DEF Placed
      <4> QED BY <2>2, <4>2
    <3>2. CASE k - o < 1
      <4>1. o = 1 /\ k = 1
        BY <3>2
      <4>2. p[k] = BeginKey(keys)
        BY <2>1, <4>1 DEF Placed
      <4> QED BY <2>2, <2>3, <4>2
    <3>3. CASE k - o > n
      <4>1. k = m /\ p[m] = EndKey(keys)
        BY <2>1, <2>2, <3>3 DEF Placed
      <4> QED BY <2>2, <2>3, <4>1
    <3> QED BY <2>2, <3>1, <3>2, <3>3
  <2> QED BY <2>1, <2>4, InLoopKeys DEF p
<1> QED BY <1>1, <1>2, <1>3, FewOrMore

LEMMA FixupInLoop ==
  ASSUME NEW V, \A v \in V : IsRotation(v), NEW keys \in RawKeys(V), keys \in Seq(LoopKeys(V))
  PROVE  Fixup(keys) \in Seq(LoopKeys(V \cup {Negated(q) : q \in V}))
<1> DEFINE f == Fixup(keys)
           W == V \cup {Negated(q) : q \in V}
<1>1. PICK n \in Nat : n = Len(keys)
  BY KeyOf
<1>2. /\ f = [k \in 1 .. n |-> f[k]]
      /\ \A k \in 1 .. n :
            /\ Like("quaternion", f[k].value, keys[k].value)
            /\ f[k] = [step |-> keys[k].step, ratio |-> keys[k].ratio, value |-> f[k].value]
  BY <1>1, FixupTurns
<1>3. \A k \in 1 .. n : keys[k].step \in BOOLEAN /\ keys[k].ratio \in 0 .. Unit /\ keys[k].value \in V
  <2>1. \A k \in 1 .. n : keys[k] \in LoopKeys(V)
    BY <1>1
  <2> QED BY <2>1 DEF LoopKeys
<1> HIDE DEF f
<1>4. \A k \in 1 .. n : f[k].value \in W
  BY <1>2, <1>3 DEF Like
<1> HIDE DEF W
<1>5. \A k \in 1 .. n : f[k] \in LoopKeys(W)
  BY <1>2, <1>3, <1>4 DEF LoopKeys
<1>6. f \in [1 .. n -> LoopKeys(W)]
  BY <1>2, <1>5
<1> QED BY <1>6 DEF f, W

LEMMA BuiltIsTyped ==
  ASSUME RawIsKnown, kind # "none", Validate(raw)
  PROVE  BuiltOf(kind, raw) \in Seq(Keys)
<1>1. raw \in RawKeys(ValuesOfKind) /\ kind \in {"float", "quaternion"}
  BY DEF RawIsKnown
<1>2. Built(raw) \in Seq(LoopKeys(ValuesOfKind)) /\ Built(raw) \in RawKeys(ValuesOfKind)
  BY <1>1, BuiltInLoop
<1>3. CASE kind = "float"
  <2>1. Keys = LoopKeys(ValuesOfKind)
    BY <1>3 DEF Keys, LoopKeys
  <2> QED BY <1>2, <1>3, <2>1 DEF BuiltOf
<1>4. CASE kind = "quaternion"
  <2>1. ASSUME NEW v \in ValuesOfKind PROVE IsRotation(v)
    <3>1. v \in Rotations
      BY <1>4, RawTracksAssumption DEF ValuesOfKind, Rotations
    <3>2. DOMAIN v = 1 .. 4
      BY <3>1 DEF Rotations
    <3> QED BY <3>1, <3>2, RotationsNonzero DEF IsRotation
  <2>2. Keys = LoopKeys(ValuesOfKind \cup {Negated(q) : q \in ValuesOfKind})
    BY <1>4 DEF Keys, LoopKeys
  <2>3. Fixup(Built(raw)) \in Seq(LoopKeys(ValuesOfKind \cup {Negated(q) : q \in ValuesOfKind}))
    BY <1>2, <2>1, FixupInLoop
  <2> QED BY <1>4, <2>2, <2>3 DEF BuiltOf
<1> QED BY <1>1, <1>3, <1>4

\* What TypeOK says of tracks.
KeysAreTyped ==
    /\ kind \in Kinds \cup {"none"}
    /\ raw \in Seq(Keys)
    /\ track = NotBuilt \/ track \in Seq(Keys)

LEMMA AuthorKeepsTypes ==
  ASSUME RawIsKnown, KeysAreTyped, Author
  PROVE  KeysAreTyped'
<1>1. track = NotBuilt /\ kind \in Kinds \cup {"none"} /\ raw \in Seq(Keys)
  BY DEF Author, KeysAreTyped
<1>2. kind' = kind => Keys' = Keys
  BY DEF Keys, ValuesOfKind
<1>3. CASE CreateRaw
  <2>1. kind' \in Kinds /\ raw' = <<>> /\ track' = NotBuilt
    BY <1>1, <1>3 DEF CreateRaw, RawIsKnown
  <2> QED BY <1>1, <2>1 DEF KeysAreTyped
<1>4. CASE DestroyRaw
  <2>1. kind' = "none" /\ raw' = <<>> /\ track' = NotBuilt
    BY <1>1, <1>4 DEF DestroyRaw
  <2> QED BY <1>1, <2>1 DEF KeysAreTyped
<1>5. CASE ClearKeyframes
  <2>1. kind' = kind /\ raw' = <<>> /\ track' = NotBuilt
    BY <1>1, <1>5 DEF ClearKeyframes
  <2> QED BY <1>1, <2>1 DEF KeysAreTyped
<1>6. ASSUME NEW step \in BOOLEAN, NEW ratio \in Ratios, NEW value \in ValuesOfKind,
             PushKeyframe(step, ratio, value)
      PROVE  KeysAreTyped'
  <2> DEFINE key == [step |-> step, ratio |-> ratio, value |-> value]
             K == Keys
  <2>1. kind' = kind /\ track' = NotBuilt /\ raw' = Append(raw, key) /\ ratio \in 0 .. Unit
    BY <1>1, <1>6 DEF PushKeyframe, CheckPushKeyframe
  <2>2. key \in K
    BY <2>1 DEF Keys
  <2>3. raw \in Seq(K) /\ Keys' = K
    BY <1>1, <1>2, <2>1
  <2> HIDE DEF key, K
  <2>4. raw' \in Seq(K)
    BY <2>1, <2>2, <2>3
  <2> QED BY <1>1, <2>1, <2>3, <2>4 DEF KeysAreTyped
<1>7. CASE BuildTrack
  <2>1. kind' = kind /\ raw' = raw /\ track' = BuiltOf(kind, raw) /\ kind # "none" /\ Validate(raw)
    BY <1>7 DEF BuildTrack
  <2>2. track' \in Seq(Keys) /\ Keys' = Keys
    BY <1>2, <2>1, BuiltIsTyped
  <2> QED BY <1>1, <2>1, <2>2 DEF KeysAreTyped
<1> QED BY <1>3, <1>4, <1>5, <1>6, <1>7 DEF Author, Authoring

\* Where an iterator may stand; one that was not run is blank.
Stands(s) ==
    IF s.magic
    THEN /\ track # NotBuilt /\ kind = "float" /\ s.job = s.self
         /\ s.outer % Unit = 0 /\ s.inner \in -2 .. NumKeys(track)
    ELSE s = Blank

IteratorsAreTyped ==
    /\ storage \in [Places -> IteratorRecords] /\ edges \in [Places -> Seq(EdgeRecords)]
    /\ calling # Nowhere => calling \in Places /\ storage[calling].magic /\ storage[calling].self = calling
    /\ \A p \in Places : Stands(storage[p])

LEMMA StandsStill ==
  ASSUME rawVars' = rawVars
  PROVE  \A s : Stands(s) => Stands(s)'
BY DEF rawVars, Stands, NumKeys

\* One iterator moves.
LEMMA OneStands ==
  ASSUME IteratorsAreTyped, rawVars' = rawVars, NEW p \in Places, NEW z \in IteratorRecords,
         storage' = [storage EXCEPT ![p] = z], edges' \in [Places -> Seq(EdgeRecords)],
         calling' \in {Nowhere, p}, calling' = p => z.magic /\ z.self = p, Stands(z)
  PROVE  IteratorsAreTyped'
<1>1. storage \in [Places -> IteratorRecords] /\ \A q \in Places : Stands(storage[q])
  BY DEF IteratorsAreTyped
<1>2. storage' \in [Places -> IteratorRecords] /\ storage'[p] = z
      /\ \A q \in Places : storage'[q] = IF q = p THEN z ELSE storage[q]
  BY <1>1
<1>3. ASSUME NEW q \in Places PROVE Stands(storage[q])'
  <2>1. PICK s : s = IF q = p THEN z ELSE storage[q]
    OBVIOUS
  <2>2. Stands(s)
    BY <1>1, <2>1
  <2>3. Stands(s)'
    BY <2>2, StandsStill
  <2>4. storage'[q] = s
    BY <1>2, <2>1
  <2> QED BY <2>3, <2>4 DEF Stands
<1>4. calling' # Nowhere => calling' \in Places /\ storage'[calling'].magic /\ storage'[calling'].self = calling'
  BY <1>2
<1> QED BY <1>2, <1>3, <1>4 DEF IteratorsAreTyped

\* The call of a host's query, and what it may find at a key.
LEMMA CallIsAt ==
  ASSUME IteratorsAreTyped, KeysAreTyped, calling # Nowhere
  PROVE  \E s \in IteratorRecords :
            /\ s = storage[calling] /\ It = s /\ Job = s /\ calling \in Places
            /\ s.magic /\ s.self = calling /\ s.job = calling
            /\ track # NotBuilt /\ kind = "float" /\ track \in RawKeys(Int) /\ NumKeys(track) \in Nat
            /\ s.outer % Unit = 0 /\ s.inner \in -2 .. NumKeys(track)
<1>1. PICK s \in IteratorRecords : s = storage[calling]
  BY DEF IteratorsAreTyped
<1>2. calling \in Places /\ s.magic /\ s.self = calling /\ Stands(s)
  BY <1>1 DEF IteratorsAreTyped
<1>3. /\ track # NotBuilt /\ kind = "float" /\ s.job = calling
      /\ s.outer % Unit = 0 /\ s.inner \in -2 .. NumKeys(track)
  BY <1>2 DEF Stands
<1>4. It = s /\ Job = s
  BY <1>1, <1>3 DEF It, Job
<1>5. track \in RawKeys(Int) /\ NumKeys(track) \in Nat
  <2>1. Keys = LoopKeys(FloatValues)
    BY <1>3 DEF Keys, LoopKeys, ValuesOfKind
  <2> DEFINE A == LoopKeys(FloatValues)
             B == [step : BOOLEAN, ratio : Int, value : Int]
  <2>2. A \subseteq B
    <3>1. 0 .. Unit \subseteq Int /\ FloatValues \subseteq Int
      BY RawTracksAssumption, TrackAssumption
    <3> QED BY <3>1 DEF LoopKeys
  <2>3. track \in Seq(A)
    BY <1>3, <2>1 DEF KeysAreTyped
  <2> HIDE DEF A, B
  <2>4. track \in Seq(B) /\ Len(track) \in Nat
    BY <2>2, <2>3
  <2> QED BY <2>4 DEF B, RawKeys, NumKeys
<1> QED BY <1>1, <1>2, <1>3, <1>4, <1>5

LEMMA FoundIsAnEdge ==
  ASSUME IteratorsAreTyped, KeysAreTyped, calling # Nowhere, KeyLeft, Detected.detected
  PROVE  [Detected.edge EXCEPT !.ratio = Found] \in EdgeRecords
<1>1. PICK s \in IteratorRecords : It = s /\ Job = s /\ track \in RawKeys(Int) /\ NumKeys(track) \in Nat
  BY CallIsAt
<1> DEFINE i == s.inner
           n == NumKeys(track)
           t == s.threshold
           k0 == Key(track, Before(track, i))
           k1 == Key(track, i)
           at == IF k0.step THEN k1.ratio ELSE IF i = 0 THEN 0 ELSE Unlerped(k0, k1, t)
<1>2. i \in 0 .. n - 1 /\ t \in Int /\ s.outer \in Int
  BY <1>1 DEF KeyLeft, IteratorRecords
<1>3. Before(track, i) \in 0 .. n - 1
  BY <1>1, <1>2 DEF Before
<1>4. \A j \in 0 .. n - 1 : Key(track, j).ratio \in Int /\ Key(track, j).value \in Int
  <2> SUFFICES ASSUME NEW j \in 0 .. n - 1 PROVE Key(track, j).ratio \in Int /\ Key(track, j).value \in Int
    OBVIOUS
  <2>1. j + 1 \in 1 .. Len(track)
    BY <1>1 DEF NumKeys
  <2>2. track[j + 1].ratio \in Int /\ track[j + 1].value \in Int
    BY <1>1, <2>1, KeyOf
  <2> QED BY <2>2 DEF Key
<1>5. k0.ratio \in Int /\ k0.value \in Int /\ k1.ratio \in Int /\ k1.value \in Int
  BY <1>2, <1>3, <1>4
<1>6. PICK rising, falling :
         /\ rising = (k0.value <= t /\ k1.value > t) /\ falling = (k0.value > t /\ k1.value <= t)
         /\ rising \in BOOLEAN /\ falling \in BOOLEAN
  OBVIOUS
<1>7. PICK forward : forward = Forward
  OBVIOUS
<1>8. forward \in BOOLEAN
  BY <1>7 DEF Forward
<1>9. Detected = [detected |-> rising \/ falling,
                  edge |-> IF rising \/ falling
                           THEN [ratio |-> at, rising |-> IF rising THEN forward ELSE ~forward]
                           ELSE NoEdge]
  BY <1>1, <1>6, <1>7 DEF Detected, DetectEdge
<1>10. rising \/ falling
  BY <1>9
<1>11. k0.value # k1.value
  <2> DEFINE a == k0.value
             b == k1.value
  <2>1. /\ a \in Int /\ b \in Int /\ t \in Int
        /\ (a <= t /\ b > t) \/ (a > t /\ b <= t)
    BY <1>2, <1>5, <1>6, <1>10
  <2> HIDE DEF a, b, t
  <2>2. a # b
    BY <2>1
  <2> QED BY <2>2 DEF a, b
<1> DEFINE x == k0.ratio
           y == k0.value
           z == k1.ratio
           w == k1.value
<1>12. x \in Int /\ y \in Int /\ z \in Int /\ w \in Int /\ y # w
  BY <1>5, <1>11
<1>13. Unlerped(k0, k1, t) = x + (Abs(t - y) * (z - x)) \div Abs(w - y)
  BY DEF Unlerped
<1> HIDE DEF x, y, z, w
<1>14. Abs(w - y) \in Nat \ {0} /\ Abs(t - y) \in Nat
  BY <1>2, <1>12 DEF Abs
<1>15. Unlerped(k0, k1, t) \in Int
  <2>1. PICK top \in Int, over \in Nat \ {0} : top = Abs(t - y) * (z - x) /\ over = Abs(w - y)
    BY <1>12, <1>14
  <2>2. top \div over \in Int
    BY <2>1
  <2> QED BY <1>12, <1>13, <2>1, <2>2
<1>16. at \in Int
  BY <1>5, <1>15
<1> HIDE DEF at
<1>17. Detected.edge = [ratio |-> at, rising |-> IF rising THEN forward ELSE ~forward]
  BY <1>9, <1>10
<1>18. Found \in Int
  <2>1. Found = Rounded(at + s.outer)
    BY <1>1, <1>17 DEF Found
  <2>2. at + s.outer \in Int
    BY <1>2, <1>16
  <2> QED BY <2>1, <2>2, RoundedLoops
<1>19. PICK f \in Int : f = Found
  BY <1>18
<1>20. [Detected.edge EXCEPT !.ratio = f] = [ratio |-> f, rising |-> IF rising THEN forward ELSE ~forward]
  BY <1>17
<1> QED BY <1>6, <1>8, <1>19, <1>20 DEF EdgeRecords

LEMMA RejectedIsAnEdge ==
  ASSUME IteratorsAreTyped, KeysAreTyped, calling # Nowhere, KeyLeft
  PROVE  Rejected \in EdgeRecords
<1>1. It.edge \in EdgeRecords
  BY CallIsAt DEF IteratorRecords
<1> QED BY <1>1, FoundIsAnEdge DEF Rejected

\* The call moves its iterator.
LEMMA CallMoves ==
  ASSUME IteratorsAreTyped, KeysAreTyped, calling # Nowhere, UNCHANGED <<rawVars, edges>>,
         NEW s, s = storage[calling], NEW outer \in Int, NEW inner \in Int, NEW edge \in EdgeRecords,
         outer % Unit = 0, inner \in -2 .. NumKeys(track),
         NEW z, z = [s EXCEPT !.outer = outer, !.inner = inner, !.edge = edge],
         storage' = [storage EXCEPT ![calling] = z],
         calling' \in {Nowhere, calling}
  PROVE  IteratorsAreTyped'
<1>1. /\ s \in IteratorRecords /\ calling \in Places /\ s.magic /\ s.self = calling /\ s.job = calling
      /\ track # NotBuilt /\ kind = "float"
  BY CallIsAt
<1>3. /\ z \in IteratorRecords /\ z.magic = s.magic /\ z.self = s.self /\ z.job = s.job
      /\ z.outer = outer /\ z.inner = inner
  BY <1>1 DEF IteratorRecords
<1>4. Stands(z)
  BY <1>1, <1>3 DEF Stands
<1>5. PICK p \in Places : p = calling
  BY <1>1
<1>6. storage' = [storage EXCEPT ![p] = z] /\ calling' \in {Nowhere, p}
  BY <1>5
<1>7. rawVars' = rawVars /\ edges' = edges /\ edges \in [Places -> Seq(EdgeRecords)]
  BY DEF IteratorsAreTyped
<1>8. z.magic /\ z.self = p
  BY <1>1, <1>3, <1>5
<1> QED BY <1>3, <1>4, <1>6, <1>7, <1>8, OneStands

LEMMA SearchKeepsTypes ==
  ASSUME IteratorsAreTyped, KeysAreTyped, Search
  PROVE  IteratorsAreTyped'
<1>1. calling # Nowhere /\ UNCHANGED <<rawVars, edges>> /\ calling' \in {Nowhere, calling}
  BY DEF Search, Yield, NextKey, LoopOver, Exhausted, Searching
<1>2. PICK s \in IteratorRecords :
         /\ s = storage[calling] /\ It = s /\ NumKeys(track) \in Nat
         /\ s.outer % Unit = 0 /\ s.inner \in -2 .. NumKeys(track) /\ calling \in Places
  BY <1>1, CallIsAt
<1>3. s.outer \in Int /\ s.inner \in Int /\ s.edge \in EdgeRecords /\ Step \in {1, -1}
      /\ storage \in [Places -> IteratorRecords]
  BY <1>2 DEF IteratorRecords, Step, IteratorsAreTyped
<1>4. KeyLeft => s.inner + Step \in Int /\ s.inner + Step \in -2 .. NumKeys(track)
  BY <1>2, <1>3 DEF KeyLeft
<1>5. CASE Yield
  <2>1. PICK edge \in EdgeRecords : edge = [Detected.edge EXCEPT !.ratio = Found]
    BY <1>1, <1>5, FoundIsAnEdge DEF Yield
  <2>2. PICK inner \in Int : inner = s.inner + Step /\ inner \in -2 .. NumKeys(track)
    BY <1>4, <1>5 DEF Yield
  <2>3. PICK outer \in Int : outer = s.outer
    BY <1>3
  <2>4. PICK z : z = [s EXCEPT !.outer = outer, !.inner = inner, !.edge = edge]
    OBVIOUS
  <2>5. z = [s EXCEPT !.edge = edge, !.inner = inner]
    BY <2>3, <2>4 DEF IteratorRecords
  <2>6. storage' = [storage EXCEPT ![calling] = z]
    BY <1>2, <1>3, <1>5, <2>1, <2>2, <2>5 DEF Yield
  <2>7. outer % Unit = 0
    BY <1>2, <2>3
  <2> QED BY <1>1, <1>2, <2>2, <2>4, <2>6, <2>7, CallMoves
<1>6. CASE NextKey
  <2>1. PICK edge \in EdgeRecords : edge = Rejected
    BY <1>1, <1>6, RejectedIsAnEdge DEF NextKey
  <2>2. PICK inner \in Int : inner = s.inner + Step /\ inner \in -2 .. NumKeys(track)
    BY <1>4, <1>6 DEF NextKey
  <2>3. PICK outer \in Int : outer = s.outer
    BY <1>3
  <2>4. PICK z : z = [s EXCEPT !.outer = outer, !.inner = inner, !.edge = edge]
    OBVIOUS
  <2>5. z = [s EXCEPT !.edge = edge, !.inner = inner]
    BY <2>3, <2>4 DEF IteratorRecords
  <2>6. storage' = [storage EXCEPT ![calling] = z]
    BY <1>2, <1>3, <1>6, <2>1, <2>2, <2>5 DEF NextKey
  <2>7. outer % Unit = 0
    BY <1>2, <2>3
  <2> QED BY <1>1, <1>2, <2>2, <2>4, <2>6, <2>7, CallMoves
<1>7. CASE LoopOver
  <2>1. PICK inner \in Int : inner = Rewound /\ inner \in -2 .. NumKeys(track)
    BY <1>2 DEF Rewound
  <2>2. PICK outer \in Int : outer = (IF Forward THEN NextLoop ELSE Rounded(s.outer - Unit)) /\ outer % Unit = 0
    <3> DEFINE k == s.outer \div Unit
    <3>1. Unit \in Nat \ {0}
      BY TrackAssumption
    <3>2. k \in Int /\ s.outer = k * Unit + (s.outer % Unit)
      BY <1>3, <3>1, NumbersAre
    <3>3. s.outer = k * Unit
      <4>1. PICK y \in Int : y = k * Unit
        BY <3>1, <3>2
      <4> QED BY <1>2, <3>2, <4>1
    <3> HIDE DEF k
    <3>4. PICK after \in Int, before \in Int : after = k + 1 /\ before = k - 1
      BY <3>2
    <3>5. s.outer + Unit = after * Unit + 0 /\ s.outer - Unit = before * Unit + 0 /\ 0 \in 0 .. Unit - 1
      BY <3>1, <3>2, <3>3, <3>4
    <3>6. (s.outer + Unit) % Unit = 0 /\ (s.outer - Unit) % Unit = 0
      <4>1. (after * Unit + 0) % Unit = 0 /\ (before * Unit + 0) % Unit = 0
        BY <3>1, <3>4, <3>5, NumbersAre
      <4> QED BY <3>5, <4>1
    <3>7. s.outer + Unit \in Int /\ s.outer - Unit \in Int
      BY <1>3, <3>1
    <3>8. Rounded(s.outer + Unit) \in Int /\ Rounded(s.outer + Unit) % Unit = 0
      BY <3>6, <3>7, RoundedLoops
    <3>9. Rounded(s.outer - Unit) \in Int /\ Rounded(s.outer - Unit) % Unit = 0
      BY <3>6, <3>7, RoundedLoops
    <3> QED BY <1>2, <3>8, <3>9 DEF NextLoop
  <2>3. OuterMoved = [s EXCEPT !.outer = outer, !.inner = inner]
    BY <1>2, <2>1, <2>2 DEF OuterMoved
  <2>4. CASE ~KeyLeft
    <3>1. storage' = [storage EXCEPT ![calling] = OuterMoved]
      BY <1>7, <2>4 DEF LoopOver
    <3>2. PICK edge \in EdgeRecords : edge = s.edge
      BY <1>3
    <3>3. PICK z : z = [s EXCEPT !.outer = outer, !.inner = inner, !.edge = edge]
      OBVIOUS
    <3>4. z = OuterMoved
      BY <2>3, <3>2, <3>3 DEF IteratorRecords
    <3>5. storage' = [storage EXCEPT ![calling] = z]
      BY <3>1, <3>4
    <3> QED BY <1>1, <1>2, <2>1, <2>2, <3>3, <3>5, CallMoves
  <2>5. CASE KeyLeft
    <3>1. storage' = [storage EXCEPT ![calling] = [OuterMoved EXCEPT !.edge = Rejected]]
      BY <1>7, <2>5 DEF LoopOver
    <3>2. PICK edge \in EdgeRecords : edge = Rejected
      BY <1>1, <2>5, RejectedIsAnEdge
    <3>3. PICK z : z = [s EXCEPT !.outer = outer, !.inner = inner, !.edge = edge]
      OBVIOUS
    <3>4. z = [OuterMoved EXCEPT !.edge = Rejected]
      BY <2>3, <3>2, <3>3 DEF IteratorRecords
    <3>5. storage' = [storage EXCEPT ![calling] = z]
      BY <3>1, <3>4
    <3> QED BY <1>1, <1>2, <2>1, <2>2, <3>3, <3>5, CallMoves
  <2> QED BY <2>4, <2>5
<1>8. CASE Exhausted
  <2>1. PICK outer \in Int, inner \in Int, edge \in EdgeRecords :
           outer = 0 /\ inner = -2 /\ edge = s.edge /\ inner \in -2 .. NumKeys(track)
    BY <1>2, <1>3
  <2>2. outer % Unit = 0
    BY <2>1, TrackAssumption
  <2>3. PICK z : z = [s EXCEPT !.outer = outer, !.inner = inner, !.edge = edge]
    OBVIOUS
  <2>4. z = [s EXCEPT !.outer = outer, !.inner = inner]
    BY <2>1, <2>3 DEF IteratorRecords
  <2>5. storage' = [storage EXCEPT ![calling] = z]
    BY <1>2, <1>3, <1>8, <2>1, <2>4 DEF Exhausted
  <2> QED BY <1>1, <1>2, <2>1, <2>2, <2>3, <2>5, CallMoves
<1> QED BY <1>5, <1>6, <1>7, <1>8 DEF Search

LEMMA BlankStands ==
  ASSUME storage' = [p \in Places |-> Blank], edges' = [p \in Places |-> <<>>], calling' = Nowhere
  PROVE  IteratorsAreTyped'
<1>1. \A p \in Places : storage'[p] = Blank
  OBVIOUS
<1>2. storage' \in [Places -> IteratorRecords] /\ \A p \in Places : Stands(storage[p])'
  BY <1>1, BlankIs DEF Stands
<1>3. edges' \in [Places -> Seq(EdgeRecords)]
  <2>1. <<>> \in Seq(EdgeRecords)
    OBVIOUS
  <2> QED BY <2>1
<1> QED BY <1>2, <1>3 DEF IteratorsAreTyped

LEMMA StartIsTyped ==
  ASSUME Init
  PROVE  IteratorsAreTyped /\ KeysAreTyped
<1>1. /\ storage = [p \in Places |-> Blank] /\ edges = [p \in Places |-> <<>>] /\ calling = Nowhere
      /\ kind = "none" /\ raw = <<>> /\ track = NotBuilt
  BY DEF Init, RawInit
<1>2. \A p \in Places : storage[p] = Blank
  BY <1>1
<1>3. storage \in [Places -> IteratorRecords] /\ \A p \in Places : Stands(storage[p])
  BY <1>1, <1>2, BlankIs DEF Stands
<1>4. edges \in [Places -> Seq(EdgeRecords)]
  <2>1. <<>> \in Seq(EdgeRecords)
    OBVIOUS
  <2> QED BY <1>1, <2>1
<1>5. KeysAreTyped
  BY <1>1 DEF KeysAreTyped
<1> QED BY <1>1, <1>3, <1>4, <1>5 DEF IteratorsAreTyped

LEMMA RunKeepsTypes ==
  ASSUME IteratorsAreTyped, KeysAreTyped, NEW p \in Places, NEW threshold \in Thresholds,
         NEW from \in Heads[p], NEW to \in Heads[p], Run(p, from, to, threshold)
  PROVE  IteratorsAreTyped'
<1>1. /\ kind = "float" /\ track # NotBuilt /\ rawVars' = rawVars
      /\ edges' = [edges EXCEPT ![p] = <<>>] /\ calling' = IF from = to THEN Nowhere ELSE p
  BY DEF Run
<1>2. threshold \in Int /\ from \in Int /\ to \in Int /\ Unit \in Nat \ {0} /\ NumKeys(track) \in Nat
  BY <1>1, TriggeringAssumption, TrackAssumption DEF KeysAreTyped, NumKeys
<1>3. Floor(from) \in Int /\ Floor(from) % Unit = 0
  <2>1. PICK k \in Int : k = from \div Unit
    BY <1>2
  <2>2. 0 \in 0 .. Unit - 1 /\ k * Unit + 0 = k * Unit
    BY <1>2, <2>1
  <2>3. (k * Unit + 0) % Unit = 0
    BY <1>2, <2>1, <2>2, NumbersAre
  <2> QED BY <1>2, <2>1, <2>2, <2>3 DEF Floor
<1>4. PICK outer \in Int : outer = (IF from = to THEN 0 ELSE Floor(from)) /\ outer % Unit = 0
  <2>1. 0 % Unit = 0
    BY <1>2
  <2> QED BY <1>3, <2>1
<1>5. PICK inner \in Int : /\ inner = IF from = to THEN -2 ELSE IF from < to THEN 0 ELSE NumKeys(track) - 1
                           /\ inner \in -2 .. NumKeys(track)
  BY <1>2
<1>6. PICK z : z = [self |-> p, magic |-> TRUE, from |-> from, to |-> to,
                    threshold |-> threshold, job |-> p, edge |-> NoEdge, outer |-> outer, inner |-> inner]
  OBVIOUS
<1>7. storage' = [storage EXCEPT ![p] = z]
  BY <1>4, <1>5, <1>6 DEF Run
<1>8. z \in IteratorRecords /\ z.magic /\ z.self = p /\ z.job = p /\ z.outer = outer /\ z.inner = inner
  BY <1>2, <1>6 DEF IteratorRecords, NoEdge, EdgeRecords
<1>9. Stands(z)
  BY <1>1, <1>4, <1>5, <1>8 DEF Stands
<1>10. edges' \in [Places -> Seq(EdgeRecords)]
  <2>1. <<>> \in Seq(EdgeRecords) /\ edges \in [Places -> Seq(EdgeRecords)]
    BY DEF IteratorsAreTyped
  <2> QED BY <1>1, <2>1
<1>11. calling' \in {Nowhere, p}
  BY <1>1
<1> QED BY <1>1, <1>7, <1>8, <1>9, <1>10, <1>11, OneStands

LEMMA TakeKeepsTypes ==
  ASSUME IteratorsAreTyped, NEW p \in Places, Take(p)
  PROVE  IteratorsAreTyped'
<1>1. /\ StateOf(p) /\ calling' = p /\ rawVars' = rawVars /\ storage' = storage
      /\ edges' = [edges EXCEPT ![p] = Append(edges[p], storage[p].edge)]
  BY DEF Take
<1>2. PICK z \in IteratorRecords : z = storage[p]
  BY DEF IteratorsAreTyped
<1>3. /\ storage \in [Places -> IteratorRecords] /\ edges \in [Places -> Seq(EdgeRecords)] /\ Stands(z)
      /\ z.magic /\ z.self = p /\ z.edge \in EdgeRecords
  BY <1>1, <1>2 DEF IteratorsAreTyped, StateOf, IteratorRecords
<1>4. storage' = [storage EXCEPT ![p] = z]
  BY <1>1, <1>2, <1>3
<1>5. edges' \in [Places -> Seq(EdgeRecords)]
  <2>1. Append(edges[p], z.edge) \in Seq(EdgeRecords)
    BY <1>3
  <2> QED BY <1>1, <1>2, <1>3, <2>1
<1>6. calling' \in {Nowhere, p}
  BY <1>1
<1> QED BY <1>1, <1>3, <1>4, <1>5, <1>6, OneStands

LEMMA CopyKeepsTypes ==
  ASSUME IteratorsAreTyped, NEW from \in Places, NEW p \in Places, Copy(from, p)
  PROVE  IteratorsAreTyped'
<1>1. calling' = Nowhere /\ rawVars' = rawVars /\ edges' = [edges EXCEPT ![p] = edges[from]]
  BY DEF Copy
<1>2. PICK z \in IteratorRecords : z = storage[from]
  BY DEF IteratorsAreTyped
<1>3. Stands(z) /\ edges \in [Places -> Seq(EdgeRecords)]
  BY <1>2 DEF IteratorsAreTyped
<1>4. storage' = [storage EXCEPT ![p] = z]
  BY <1>2 DEF Copy
<1>5. edges' \in [Places -> Seq(EdgeRecords)]
  BY <1>1, <1>3
<1>6. calling' \in {Nowhere, p} /\ calling' # p
  BY <1>1, TriggeringAssumption
<1> QED BY <1>1, <1>3, <1>4, <1>5, <1>6, OneStands

LEMMA StepsKeepTypes ==
  ASSUME RawIsKnown, IteratorsAreTyped, KeysAreTyped, [TracksNext]_tracksVars
  PROVE  IteratorsAreTyped' /\ KeysAreTyped'
<1>1. ASSUME rawVars' = rawVars PROVE KeysAreTyped'
  <2>1. kind' = kind /\ raw' = raw /\ track' = track
    BY <1>1 DEF rawVars
  <2>2. Keys' = Keys
    BY <2>1 DEF Keys, ValuesOfKind
  <2> QED BY <2>1, <2>2 DEF KeysAreTyped
<1>2. CASE UNCHANGED vars
  <2>1. rawVars' = rawVars /\ storage' = storage /\ calling' = calling /\ edges' = edges
    BY <1>2 DEF vars, rawVars
  <2>2. ASSUME NEW p \in Places PROVE Stands(storage[p])'
    <3>1. PICK s : s = storage[p]
      OBVIOUS
    <3>2. Stands(s)'
      BY <2>1, <3>1, StandsStill DEF IteratorsAreTyped
    <3> QED BY <2>1, <3>1, <3>2 DEF Stands
  <2> QED BY <1>1, <2>1, <2>2 DEF IteratorsAreTyped
<1>3. CASE Next
  <2>1. CASE Author
    <3>1. /\ track = NotBuilt /\ storage' = storage /\ calling' = calling /\ edges' = edges
          /\ \A p \in Places : storage[p] = Blank
      BY <2>1 DEF Author, IteratorsAreTyped, Stands
    <3>2. \A p \in Places : Stands(storage[p])'
      BY <3>1, BlankIs DEF Stands
    <3> QED BY <2>1, <3>1, <3>2, AuthorKeepsTypes DEF IteratorsAreTyped
  <2>2. CASE Destroy
    <3>1. /\ kind' = kind /\ raw' = raw /\ track' = NotBuilt /\ calling' = Nowhere
          /\ storage' = [p \in Places |-> Blank] /\ edges' = [p \in Places |-> <<>>]
      BY <2>2 DEF Destroy, DestroyTrack
    <3>2. Keys' = Keys
      BY <3>1 DEF Keys, ValuesOfKind
    <3>3. KeysAreTyped'
      BY <3>1, <3>2 DEF KeysAreTyped
    <3> QED BY <3>1, <3>3, BlankStands
  <2>3. ASSUME NEW p \in Places, NEW threshold \in Thresholds,
               NEW from \in Heads[p], NEW to \in Heads[p], Run(p, from, to, threshold)
        PROVE  IteratorsAreTyped' /\ KeysAreTyped'
    BY <1>1, <2>3, RunKeepsTypes DEF Run
  <2>4. ASSUME NEW p \in Places, Take(p) PROVE IteratorsAreTyped' /\ KeysAreTyped'
    BY <1>1, <2>4, TakeKeepsTypes DEF Take
  <2>5. ASSUME NEW p \in Places, NEW q \in Places, Copy(p, q) PROVE IteratorsAreTyped' /\ KeysAreTyped'
    BY <1>1, <2>5, CopyKeepsTypes DEF Copy
  <2>6. CASE Search
    <3>1. rawVars' = rawVars
      BY <2>6 DEF Search, Yield, NextKey, LoopOver, Exhausted
    <3> QED BY <1>1, <2>6, <3>1, SearchKeepsTypes
  <2> QED BY <1>3, <2>1, <2>2, <2>3, <2>4, <2>5, <2>6 DEF Next
<1> QED BY <1>2, <1>3 DEF TracksNext, tracksVars

LEMMA AllIsTyped ==
  ASSUME IteratorsAreTyped, KeysAreTyped
  PROVE  TypeOK
<1>1. calling \in Places \cup {Nowhere}
  BY DEF IteratorsAreTyped
<1>2. kind \in Kinds \cup {"none"} /\ raw \in Seq(Keys) /\ (track = NotBuilt \/ track \in Seq(Keys))
  BY DEF KeysAreTyped
<1>3. track # NotBuilt => NumKeys(track) \in Nat
  BY <1>2 DEF NumKeys
<1>4. 0 % Unit = 0
  BY TrackAssumption
<1>5. ASSUME NEW p \in Places
      PROVE  /\ storage[p].self \in Places \cup {Nowhere} /\ storage[p].job \in Places \cup {Nowhere}
             /\ storage[p].inner \in -2 .. (IF track = NotBuilt THEN 0 ELSE NumKeys(track))
             /\ storage[p].outer % Unit = 0
             /\ storage[p].edge \in [ratio : Int, rising : BOOLEAN]
             /\ edges[p] \in Seq([ratio : Int, rising : BOOLEAN])
  <2>1. PICK s \in IteratorRecords : s = storage[p]
    BY DEF IteratorsAreTyped
  <2>2. edges[p] \in Seq(EdgeRecords) /\ Stands(s)
    BY <2>1 DEF IteratorsAreTyped
  <2>3. s.inner \in -2 .. (IF track = NotBuilt THEN 0 ELSE NumKeys(track)) /\ s.outer % Unit = 0
    <3>1. CASE s.magic
      BY <2>2, <3>1 DEF Stands
    <3>2. CASE ~s.magic
      <4>1. s.inner = 0 /\ s.outer = 0
        BY <2>2, <3>2 DEF Stands, Blank
      <4> QED BY <1>3, <1>4, <4>1
    <3> QED BY <3>1, <3>2
  <2> QED BY <2>1, <2>2, <2>3 DEF IteratorRecords, EdgeRecords
<1> QED BY <1>1, <1>2, <1>5 DEF TypeOK

\* Tracks, storages and what was taken from them have their types: an iterator that was
\* run stands at a key of a whole loop, before the first or behind the last, or at the end,
\* even where ratios are so large that floats round them (TrackTriggeringJob::Iterator).
THEOREM TriggeringTypeCorrect == TracksSpec => []TypeOK
<1>1. TracksInit => RawIsKnown /\ IteratorsAreTyped /\ KeysAreTyped
  <2>1. TracksInit => RawIsKnown
    BY DEF TracksInit, Init, RawInit, RawIsKnown, RawKeys
  <2> QED BY <2>1, StartIsTyped DEF TracksInit
<1>2. RawIsKnown /\ IteratorsAreTyped /\ KeysAreTyped /\ [TracksNext]_tracksVars
        => RawIsKnown' /\ IteratorsAreTyped' /\ KeysAreTyped'
  BY StepsKeepKnown, StepsKeepTypes
<1>3. IteratorsAreTyped /\ KeysAreTyped => TypeOK
  BY AllIsTyped
<1> QED BY <1>1, <1>2, <1>3, PTL DEF TracksSpec
=============================================================================
