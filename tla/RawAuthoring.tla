---------------------------- MODULE RawAuthoring ---------------------------
(***************************************************************************)
(* Authoring a raw animation key by key (zozz_offline.cpp), and what makes *)
(* it valid (raw_animation.cc).  A push is only compared with the present  *)
(* duration: neither the order of keys nor a duration that is changed      *)
(* later is looked at before the animation is built.                       *)
(*                                                                         *)
(* An animation has a duration, a name and, for every joint and channel,   *)
(* the times of its keys in the order in which they were pushed.           *)
(***************************************************************************)
EXTENDS KeyStream, SequencesExt

CONSTANTS
    Times,       \* the times a host pushes keys at, good or bad
    Durations,   \* the durations it sets
    Names,       \* the names it gives
    MaxJoints,   \* Skeleton::kMaxJoints, 1024 in the code
    MaxEdits     \* bound on the edits of an animation

ASSUME AuthoringAssumption ==
    /\ Times \subseteq Int /\ Durations \subseteq Int
    /\ MaxJoints \in Nat /\ MaxEdits \in Nat
    /\ \A name \in Names : name \in Seq(ToSet(name))

VARIABLES
    raw,         \* the raw animation
    edits        \* how many more times it is edited

authoringVars == <<raw, edits>>

\* Keys are at any time and in any order.
IsRaw(animation) ==
    LET tracks == animation.tracks
        joints == DOMAIN tracks
    IN  /\ animation = [duration |-> animation.duration, name |-> animation.name, tracks |-> tracks]
        /\ animation.duration \in Int /\ animation.name \in Seq(ToSet(animation.name))
        /\ IsFiniteSet(joints) /\ joints = 0 .. Cardinality(joints) - 1
        /\ tracks \in [joints -> [1 .. Channels -> Seq(Int)]]

CheckPush(joint, time) ==
    /\ joint \in DOMAIN raw.tracks
    /\ 0 <= time /\ time <= raw.duration

Edit == edits > 0 /\ edits' = edits - 1

\* zozzRawAnimationPushTranslation, -Rotation and -Scale.
Push(joint, c, time) ==
    /\ Edit
    /\ CheckPush(joint, time)
    /\ raw' = [raw EXCEPT !.tracks[joint][c] = Append(@, time)]

\* zozzRawAnimationSetDuration leaves the keys where they are.
SetDuration(duration) ==
    /\ Edit
    /\ duration > 0
    /\ raw' = [raw EXCEPT !.duration = duration]

\* zozzRawAnimationSetName.
SetName(name) ==
    /\ Edit
    /\ raw' = [raw EXCEPT !.name = name]

\* zozzRawAnimationClearTranslations and its like clear one channel of a joint,
\* zozzRawAnimationClearTrack all of them.
Clear(joint, cs) ==
    /\ Edit
    /\ raw' = [raw EXCEPT !.tracks[joint] = [c \in 1 .. Channels |-> IF c \in cs THEN <<>> ELSE @[c]]]

Author ==
    \/ \E joint \in DOMAIN raw.tracks, c \in 1 .. Channels, time \in Times : Push(joint, c, time)
    \/ \E duration \in Durations : SetDuration(duration)
    \/ \E name \in Names : SetName(name)
    \/ \E joint \in DOMAIN raw.tracks, cs \in {1 .. Channels} \cup {{c} : c \in 1 .. Channels} :
          Clear(joint, cs)

\* Mutant: keys are looked at in pairs only, so that the last may be off the end.
ValidateTrackPairs(times, duration) ==
    \A k \in DOMAIN times : k > 1 => times[k - 1] < times[k]

\* ValidateTrack: strictly ascending and within the duration.
ValidateTrack(times, duration) ==
    \A k \in DOMAIN times :
        /\ 0 <= times[k] /\ times[k] <= duration
        /\ k > 1 => times[k - 1] < times[k]

Validate(animation) ==
    /\ animation.duration > 0
    /\ Cardinality(DOMAIN animation.tracks) <= MaxJoints
    /\ \A joint \in DOMAIN animation.tracks, c \in 1 .. Channels :
          ValidateTrack(animation.tracks[joint][c], animation.duration)
=============================================================================
