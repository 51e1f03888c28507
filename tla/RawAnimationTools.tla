-------------------------- MODULE RawAnimationTools --------------------------
(***************************************************************************)
(* Tools that make raw animations of one another (zozz_optimizer.cpp): the *)
(* motion of a root joint is extracted into two user tracks and taken out  *)
(* of the animation (motion_extractor.cc), and an animation is written as  *)
(* what it adds to a pose (additive_animation_builder.cc).                 *)
(*                                                                         *)
(* Rotations are composed of quarter turns, and the halves of half turns.  *)
(***************************************************************************)
EXTENDS TrackTriggering

CONSTANTS
    Clips,      \* raw animations: [duration, tracks], a track three lists of keys
    Poses,      \* rest poses of skeletons, and poses to tell the difference from
    RootJoints,
    PositionSettings, RotationSettings

Vectors == Int \X Int \X Int
Rotations == (Int \X Int \X Int \X Int) \ {<<0, 0, 0, 0>>}
KeysOf(values) == Seq([time : Int, value : values])
Curves == [translations : KeysOf(Vectors), rotations : KeysOf(Rotations), scales : KeysOf(Int)]
JointPose == [translation : Vectors, rotation : Rotations, scale : Int]

ASSUME ToolsAssumption ==
    /\ Clips \subseteq [duration : Int, tracks : Seq(Curves)]
    /\ Poses \subseteq Seq(JointPose)
    /\ \A settings \in PositionSettings \cup RotationSettings :
          settings.reference \in {"absolute", "skeleton", "animation"}

VARIABLE tool   \* the last call: what was asked, and what its outputs hold

NoPose == [translation |-> <<0, 0, 0>>, rotation |-> Identity, scale |-> 1]
NoAnimation == [duration |-> 1, tracks |-> <<>>]
Idle == [call |-> "none"]

\* RawAnimation::Validate
ValidateAnimation(clip) ==
    LET ValidateTrack(keys) ==
            \A k \in DOMAIN keys : /\ keys[k].time \in 0 .. clip.duration
                                   /\ k > 1 => keys[k - 1].time < keys[k].time
    IN  /\ clip.duration > 0
        /\ \A j \in DOMAIN clip.tracks :
              /\ ValidateTrack(clip.tracks[j].translations)
              /\ ValidateTrack(clip.tracks[j].rotations)
              /\ ValidateTrack(clip.tracks[j].scales)

FirstOr(keys, value) == IF keys = <<>> THEN value ELSE Head(keys).value

\* What an animation starts with, where it has keys.
FirstFrame(curves) ==
    [translation |-> FirstOr(curves.translations, NoPose.translation),
     rotation |-> FirstOr(curves.rotations, NoPose.rotation),
     scale |-> FirstOr(curves.scales, NoPose.scale)]

-----------------------------------------------------------------------------
(* Motion extraction.                                                      *)

\* BuildReference, of which position and rotation ask for one each.
Reference(settings, rest, curves) ==
    CASE settings.reference = "skeleton" -> rest
      [] settings.reference = "animation" -> FirstFrame(curves)
      [] settings.reference = "absolute" -> NoPose

\* Keys of a user track, linear; times are ratios there.
AsMotion(keys, duration, values) ==
    [k \in DOMAIN keys |->
        [step |-> FALSE, ratio |-> (keys[k].time * Unit) \div duration, value |-> values[k]]]

ExtractPosition(curves, duration, settings, ref) ==
    LET masked(v) == [c \in 1 .. 3 |-> IF settings.mask[c] THEN v[c] - ref.translation[c] ELSE 0]
        keys == curves.translations
    IN  AsMotion(keys, duration, [k \in DOMAIN keys |-> masked(keys[k].value)])

\* x asks for the pitch, y for the yaw and z for the roll.
ExtractRotation(curves, duration, settings, ref) ==
    LET masked(q) ==
            LET ypr == ToEuler(Times(q, Conjugate(ref.rotation)))
            IN  FromEuler(<<IF settings.mask[2] THEN ypr[1] ELSE 0,
                            IF settings.mask[1] THEN ypr[2] ELSE 0,
                            IF settings.mask[3] THEN ypr[3] ELSE 0>>)
        keys == curves.rotations
    IN  AsMotion(keys, duration, [k \in DOMAIN keys |-> masked(keys[k].value)])

Minus(v, w) == [c \in 1 .. 3 |-> v[c] - w[c]]
Plus(v, w) == [c \in 1 .. 3 |-> v[c] + w[c]]

\* Mutant: the motion is taken out on the wrong side.
BakeRotationsAfter(keys, motion) ==
    [k \in DOMAIN keys |-> [keys[k] EXCEPT !.value = Times(@, Conjugate(motion[k].value))]]

\* Bake: what the motion does is taken out of the animation.
BakeRotations(keys, motion) ==
    [k \in DOMAIN keys |-> [keys[k] EXCEPT !.value = Times(Conjugate(motion[k].value), @)]]
BakePositions(keys, motion) ==
    [k \in DOMAIN keys |-> [keys[k] EXCEPT !.value = Minus(@, motion[k].value)]]

\* Loopify: the difference of the ends is handed out to the keys by their number, of
\* which an instance asks where that is exact.
LoopRotations(motion) ==
    LET n == Len(motion) - 1
        front == Head(motion).value
        delta == Times(front, Conjugate(Last(motion).value))
        Share(k) == Lerp(<<0, 0, 0, Dot(front, front)>>, delta, k - 1, n).top
    IN  IF n < 1 THEN motion
        ELSE [k \in DOMAIN motion |-> [motion[k] EXCEPT !.value = Times(Share(k), @)]]
LoopPositions(motion) ==
    LET n == Len(motion) - 1
        delta == Minus(Head(motion).value, Last(motion).value)
        Share(k) == [c \in 1 .. 3 |-> (delta[c] * (k - 1)) \div n]
    IN  IF n < 1 THEN motion
        ELSE [k \in DOMAIN motion |-> [motion[k] EXCEPT !.value = Plus(Share(k), @)]]

\* A host turns by the motion before it moves by the joint's translation.
TurnBack(keys, position, rotation) ==
    [k \in DOMAIN keys |->
        LET q == RawSample("quaternion", rotation, 2 * position[k].ratio).top
        IN  [keys[k] EXCEPT !.value = TransformVector(Conjugate(q), @)]]

\* The motion of the root joint, as it is before it is looped.
PositionOf(clip, root, rest, p) ==
    LET curves == clip.tracks[root + 1]
    IN  ExtractPosition(curves, clip.duration, p, Reference(p, rest[root + 1], curves))
RotationOf(clip, root, rest, r) ==
    LET curves == clip.tracks[root + 1]
    IN  ExtractRotation(curves, clip.duration, r, Reference(r, rest[root + 1], curves))

\* MotionExtractor::operator()
Extracted(clip, root, rest, p, r) ==
    LET curves == clip.tracks[root + 1]
        position == PositionOf(clip, root, rest, p)
        rotation == RotationOf(clip, root, rest, r)
        baked == [curves EXCEPT
                    !.rotations = IF r.bake THEN BakeRotations(@, rotation) ELSE @,
                    !.translations = IF p.bake THEN BakePositions(@, position) ELSE @]
        loopedPosition == IF p.loop THEN LoopPositions(position) ELSE position
        loopedRotation == IF r.loop THEN LoopRotations(rotation) ELSE rotation
        turned == [baked EXCEPT !.translations =
                     IF r.bake THEN TurnBack(@, loopedPosition, loopedRotation) ELSE @]
    IN  [position |-> loopedPosition, rotation |-> loopedRotation,
         output |-> [clip EXCEPT !.tracks[root + 1] = turned]]

\* A valid animation, and a skeleton for it that has the root joint.
Accepted(clip, root, rest) ==
    /\ Len(clip.tracks) = Len(rest)
    /\ root + 1 \in DOMAIN clip.tracks
    /\ ValidateAnimation(clip)

Nothing == [position |-> <<>>, rotation |-> <<>>, output |-> NoAnimation]

\* zozzMotionExtractorRun: what fails leaves its outputs empty.
ExtractMotion(clip, root, rest, p, r) ==
    /\ tool.call = "none"
    /\ LET made == IF Accepted(clip, root, rest) THEN Extracted(clip, root, rest, p, r) ELSE Nothing
           ok == /\ Accepted(clip, root, rest)
                 /\ Validate(made.position) /\ Validate(made.rotation)
                 /\ ValidateAnimation(made.output)
       IN  tool' = [call |-> "motion", clip |-> clip, root |-> root, p |-> p, r |-> r,
                    ok |-> ok, made |-> IF ok THEN made ELSE Nothing]

-----------------------------------------------------------------------------
(* Additive animations.                                                    *)

\* Mutant: the rotation from the reference as seen from outside.
MakeDeltaRotationOutside(reference, value) == Times(value, Conjugate(reference))

MakeDeltaRotation(reference, value) == Times(Conjugate(reference), value)

\* A delta of scales is a fraction.
DeltaTrack(curves, reference) ==
    LET moved(key) == [key EXCEPT !.value = Minus(@, reference.translation)]
        turned(key) == [key EXCEPT !.value = MakeDeltaRotation(reference.rotation, @)]
        scaled(key) == [key EXCEPT !.value = <<@, reference.scale>>]
    IN  [translations |-> [k \in DOMAIN curves.translations |-> moved(curves.translations[k])],
         rotations |-> [k \in DOMAIN curves.rotations |-> turned(curves.rotations[k])],
         scales |-> [k \in DOMAIN curves.scales |-> scaled(curves.scales[k])]]

\* zozzAdditiveAnimationBuilderRun and -RunWithReference, a pose of at least as many joints.
BuildAdditive(clip, pose) ==
    /\ tool.call = "none"
    /\ LET ok == ValidateAnimation(clip) /\ Len(clip.tracks) <= Len(pose)
       IN  tool' = [call |-> "additive", clip |-> clip, pose |-> pose, ok |-> ok,
                    output |-> IF ~ok THEN NoAnimation
                               ELSE [clip EXCEPT !.tracks =
                                        [j \in DOMAIN @ |-> DeltaTrack(@[j], pose[j])]]]

FirstFrames(clip) == [j \in DOMAIN clip.tracks |-> FirstFrame(clip.tracks[j])]

-----------------------------------------------------------------------------
\* The host has done with what it got.
Discard == tool.call # "none" /\ tool' = Idle

ToolsInit == tool = Idle

ToolsNext ==
    \/ \E clip \in Clips, rest \in Poses, root \in RootJoints,
          p \in PositionSettings, r \in RotationSettings : ExtractMotion(clip, root, rest, p, r)
    \/ \E clip \in Clips : \E pose \in Poses \cup {FirstFrames(clip)} : BuildAdditive(clip, pose)
    \/ Discard

-----------------------------------------------------------------------------
\* What TransformVector adds to a vector is one of integers.
TurnsWhole(q, v) ==
    LET once == [c \in 1 .. 3 |-> Cross(q, v)[c] + v[c] * q[4]]
    IN  \A c \in 1 .. 3 : (2 * Cross(q, once)[c]) % Dot(q, q) = 0

\* Motion is asked of clips whose motion integers can tell: it turns by rotations before
\* and after it is looped, on one shortest path between its keys, and vectors that are
\* turned back by it stay vectors of integers.
MotionIsExact ==
    \A clip \in Clips, rest \in Poses, root \in RootJoints,
       p \in PositionSettings, r \in RotationSettings :
        LET made == Extracted(clip, root, rest, p, r)
            TurnsBy(keys) == \A k \in DOMAIN keys : keys[k].value \in Rotations
            translations == clip.tracks[root + 1].translations
            left == IF p.bake THEN BakePositions(translations, PositionOf(clip, root, rest, p))
                    ELSE translations
            Turn(k) == RawSample("quaternion", made.rotation, 2 * made.position[k].ratio).top
        IN  Accepted(clip, root, rest) /\ Validate(made.position) /\ Validate(made.rotation) =>
                /\ TurnsBy(RotationOf(clip, root, rest, r)) /\ TurnsBy(made.rotation)
                /\ r.bake => /\ OnePath(made.rotation)
                             /\ \A k \in DOMAIN left : TurnsWhole(Conjugate(Turn(k)), left[k].value)

\* What a host gets of the tracks it plays beside the animation, once built.
PositionAt(position, ratio) ==
    LET sample == JobSample("float", Built(position), 2 * ratio)
    IN  [c \in 1 .. 3 |-> sample.top[c] \div sample.over]
RotationAt(rotation, ratio) ==
    JobSample("quaternion", BuiltOf("quaternion", rotation), 2 * ratio).top

\* At every key of the animation, moving and turning by the extracted motion, as built
\* and sampled at runtime, and then by what is left of the joint gives the joint as it
\* was, unless the motion is looped: whichever components are extracted, from whatever
\* reference, and with translations and rotations keyed at different times (zozz_optimizer.h:
\* "the two recombine to the original motion").  A looped motion ends as it starts.
MotionRecombines ==
    (tool.call = "motion" /\ tool.ok) =>
        LET was == tool.clip.tracks[tool.root + 1]
            left == tool.made.output.tracks[tool.root + 1]
            position == tool.made.position
            rotation == tool.made.rotation
        IN  /\ ~tool.r.loop => \A k \in DOMAIN was.rotations :
                  SameRotation(was.rotations[k].value,
                      IF tool.r.bake
                      THEN Times(RotationAt(rotation, rotation[k].ratio), left.rotations[k].value)
                      ELSE left.rotations[k].value)
            /\ ~tool.p.loop => \A k \in DOMAIN was.translations :
                  LET turned == IF tool.r.bake
                                THEN TransformVector(RotationAt(rotation, position[k].ratio),
                                                     left.translations[k].value)
                                ELSE left.translations[k].value
                  IN  was.translations[k].value =
                          IF tool.p.bake THEN Plus(PositionAt(position, position[k].ratio), turned)
                          ELSE turned
            /\ tool.r.loop /\ rotation # <<>> =>
                  SameRotation(Head(rotation).value, Last(rotation).value)
            /\ tool.p.loop /\ position # <<>> => Head(position).value = Last(position).value

-----------------------------------------------------------------------------
\* OZZ_ADD_PASS and OZZ_SUB_PASS of the blending job at full weight; a scale is a fraction.
ShortWay(q) == IF q[4] < 0 THEN Negated(q) ELSE q
AddPass(out, delta) ==
    [translation |-> Plus(out.translation, delta.translation),
     rotation |-> Times(out.rotation, ShortWay(delta.rotation)),
     scale |-> <<out.scale[1] * delta.scale[1], out.scale[2] * delta.scale[2]>>]
SubPass(out, delta) ==
    [translation |-> Minus(out.translation, delta.translation),
     rotation |-> Times(out.rotation, Conjugate(ShortWay(delta.rotation))),
     scale |-> <<out.scale[1] * delta.scale[2], out.scale[2] * delta.scale[1]>>]

SamePose(a, b) ==
    /\ a.translation = b.translation
    /\ SameRotation(a.rotation, b.rotation)
    /\ a.scale[1] * b.scale[2] = b.scale[1] * a.scale[2]

\* Adding a delta animation to the pose it was made from gives the animation, and
\* subtracting it from the animation gives the pose (additive_animation_builder.h,
\* blending_job.h: negative weights): builder and job agree on which side a rotation is
\* multiplied.
DeltasGiveBack ==
    (tool.call = "additive" /\ tool.ok) =>
        \A j \in DOMAIN tool.clip.tracks :
           LET was == tool.clip.tracks[j]
               out == tool.output.tracks[j]
               At(curves, scale, t, q, s) ==
                   [translation |-> curves.translations[t].value,
                    rotation |-> curves.rotations[q].value, scale |-> scale]
               reference == [tool.pose[j] EXCEPT !.scale = <<@, 1>>]
           IN  \A t \in DOMAIN was.translations, q \in DOMAIN was.rotations,
                  s \in DOMAIN was.scales :
                   LET posed == At(was, <<was.scales[s].value, 1>>, t, q, s)
                       delta == At(out, out.scales[s].value, t, q, s)
                   IN  /\ SamePose(AddPass(reference, delta), posed)
                       /\ SamePose(SubPass(posed, delta), reference)

-----------------------------------------------------------------------------
(* User tracks and where they come from: keys a host pushes, and motion    *)
(* extracted from animations.  The two share no state, and a tool is       *)
(* called while the host has no tracks of its own.                         *)

tracksVars == <<vars, tool>>

TracksInit == Init /\ ToolsInit

TracksNext ==
    \/ tool = Idle /\ Next /\ UNCHANGED tool
    \/ Init /\ ToolsNext /\ UNCHANGED vars

\* A call goes on by itself.
TracksSpec == TracksInit /\ [][TracksNext]_tracksVars /\ WF_tracksVars(Search /\ UNCHANGED tool)
=============================================================================
