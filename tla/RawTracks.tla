------------------------------ MODULE RawTracks ------------------------------
(***************************************************************************)
(* User tracks as a host authors and builds them (zozz_rawtrack.cpp): keys *)
(* are pushed in any order, and the builder refuses what is not in order.  *)
(* The five kinds of tracks are one template; floats stand for the vectors. *)
(***************************************************************************)
EXTENDS TrackSampling

CONSTANTS
    Kinds,          \* of tracks: "float", "quaternion"
    Ratios,         \* ratios a host pushes keys at
    FloatValues, QuaternionValues,
    NotBuilt        \* no track

ASSUME RawTracksAssumption ==
    /\ Kinds \subseteq {"float", "quaternion"}
    /\ Ratios \subseteq Int
    /\ FloatValues \subseteq Int
    /\ QuaternionValues \subseteq (Int \X Int \X Int \X Int) \ {<<0, 0, 0, 0>>}

VARIABLES
    kind,       \* of the raw track a host has, or "none"
    raw,        \* its keys
    track       \* the runtime track, or NotBuilt

rawVars == <<kind, raw, track>>

RawInit == kind = "none" /\ raw = <<>> /\ track = NotBuilt

ValuesOfKind ==
    CASE kind = "float" -> FloatValues
      [] kind = "quaternion" -> QuaternionValues
      [] kind = "none" -> {}

\* zozzRaw*TrackCreate, zozzRaw*TrackDestroy
CreateRaw ==
    /\ kind = "none" /\ kind' \in Kinds
    /\ UNCHANGED <<raw, track>>
DestroyRaw ==
    /\ kind # "none" /\ kind' = "none" /\ raw' = <<>>
    /\ UNCHANGED track

\* CheckPushKeyframe looks at the key alone, not at those before it.
CheckPushKeyframe(ratio) == ratio \in 0 .. Unit

\* zozzRaw*TrackPushKeyframe
PushKeyframe(step, ratio, value) ==
    /\ CheckPushKeyframe(ratio)
    /\ raw' = Append(raw, [step |-> step, ratio |-> ratio, value |-> value])
    /\ UNCHANGED <<kind, track>>

\* zozzRaw*TrackClear
ClearKeyframes ==
    /\ raw # <<>> /\ raw' = <<>>
    /\ UNCHANGED <<kind, track>>

\* zozz*TrackBuild: what does not validate is refused, and nothing is made.
BuildTrack ==
    /\ kind # "none" /\ track = NotBuilt
    /\ Validate(raw)
    /\ track' = BuiltOf(kind, raw)
    /\ UNCHANGED <<kind, raw>>

\* zozz*TrackDestroy
DestroyTrack ==
    /\ track # NotBuilt /\ track' = NotBuilt
    /\ UNCHANGED <<kind, raw>>

Authoring ==
    \/ CreateRaw \/ DestroyRaw \/ ClearKeyframes
    \/ \E step \in BOOLEAN, ratio \in Ratios, value \in ValuesOfKind :
          PushKeyframe(step, ratio, value)

-----------------------------------------------------------------------------
\* Keys with vectors for values.
AsVectors(keys) ==
    IF kind = "float"
    THEN [k \in DOMAIN keys |-> [keys[k] EXCEPT !.value = <<@>>]] ELSE keys

\* A track just built gives, at every ratio, the value the raw track has there by the
\* sampler of the offline library: keys added at the ends, steps, signs of quaternions
\* and ratios off both ends change nothing a sampler tells apart (raw_track_utils.h,
\* track_builder.h: SampleTrack, TrackBuilder).
BuiltSamplesAsAuthored ==
    (track # NotBuilt /\ track = BuiltOf(kind, raw) /\ (kind = "quaternion" => OnePath(raw))) =>
        \A h \in -1 .. 2 * Unit + 1 :
            SameSample(kind, JobSample(kind, AsVectors(track), h),
                             RawSample(kind, AsVectors(raw), h))
=============================================================================
