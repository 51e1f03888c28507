---------------------------- MODULE TrackSampling ----------------------------
(***************************************************************************)
(* User tracks of any kind: what TrackBuilder makes of a raw track, where  *)
(* a float track crosses a threshold, and the value of a track at a ratio, *)
(* of a raw one (SampleTrack of raw_track_utils.cc) and of a built one     *)
(* (TrackSamplingJob).                                                     *)
(*                                                                         *)
(* The ratio of a key is a whole number of grid points, Unit of them for   *)
(* the ratio 1.  Keys are numbered from 0 as in the code.                  *)
(*                                                                         *)
(* Values are integer vectors: the C ABI samples floats and vectors of two *)
(* to four of them by one template, and of a quaternion only the direction *)
(* counts.  Ratios to sample at are in halves of a grid point.  A sample   *)
(* is a vector `top` over the number `over`.                               *)
(***************************************************************************)
EXTENDS Quaternions, SequencesExt, FiniteSetsExt

CONSTANTS
    Unit,       \* grid points in one loop of the track
    Precision   \* bits of a float's significand; 24 in the code

Abs(x) == IF x < 0 THEN -x ELSE x

PowerOf2(n) ==
    LET Doubled[k \in 0 .. n] == IF k = 0 THEN 1 ELSE 2 * Doubled[k - 1]
    IN  Doubled[n]

\* The nearest float to x grid points, ties to the even significand.
Rounded(x) ==
    LET e == CHOOSE k \in 0 .. Abs(x) :
                /\ Abs(x) <= PowerOf2(Precision + k)
                /\ \A j \in 0 .. k - 1 : Abs(x) > PowerOf2(Precision + j)
        step == PowerOf2(e)
        q == x \div step
        r == x % step
    IN  IF 2 * r < step \/ (2 * r = step /\ q % 2 = 0) THEN q * step ELSE (q + 1) * step

\* The grid is one of floats, whose spacing is halved again and again.
ASSUME TrackAssumption ==
    /\ Precision \in Nat \ {0}
    /\ Unit \in Nat \ {0} /\ \E u \in 0 .. Unit : Unit = PowerOf2(u)

\* Mutant: a range that starts inside a loop.
Unfloored(x) == x

\* floorf
Floor(x) == (x \div Unit) * Unit

-----------------------------------------------------------------------------
\* RawTrack::Validate, and what CheckPushKeyframe let in.
Validate(raw) ==
    /\ \A k \in DOMAIN raw : raw[k].ratio \in 0 .. Unit
    /\ \A k \in 1 .. Len(raw) - 1 : raw[k].ratio < raw[k + 1].ratio

\* PatchBeginEndKeys: a key at either end of the track.
PatchBeginEndKeys(raw) ==
    LET begin == [step |-> FALSE, ratio |-> 0, value |-> Head(raw).value]
        end == [step |-> FALSE, ratio |-> Unit, value |-> Last(raw).value]
    IN  CASE Len(raw) = 0 -> <<>>
          [] Len(raw) = 1 -> <<begin>>
          [] OTHER -> (IF Head(raw).ratio # 0 THEN <<begin>> ELSE <<>>)
                        \o raw \o (IF Last(raw).ratio # Unit THEN <<end>> ELSE <<>>)

\* TrackBuilder::Build
Built(raw) == PatchBeginEndKeys(raw)

NumKeys(track) == Len(track)
Key(track, i) == track[i + 1]
Before(track, i) == IF i = 0 THEN NumKeys(track) - 1 ELSE i - 1

-----------------------------------------------------------------------------
(***************************************************************************)
(* The crossings, by their meaning.  Between two keys a track is a line,   *)
(* or the value of the first until the second is reached; from the last    *)
(* key it jumps back to key 0.  It is on where it is above the threshold.  *)
(* Crossings are asked of tracks that cross on grid points.                *)
(***************************************************************************)
IsCrossing(track, threshold, i) ==
    LET v0 == Key(track, Before(track, i)).value
        v1 == Key(track, i).value
    IN  (v0 > threshold) # (v1 > threshold)

Rises(track, threshold, i) == Key(track, i).value > threshold

\* Where in the loop the track crosses on the way to key i.
CrossingRatio(track, threshold, i) ==
    LET k0 == Key(track, Before(track, i))
        k1 == Key(track, i)
    IN  IF k0.step \/ i = 0 THEN k1.ratio
        ELSE CHOOSE r \in k0.ratio .. k1.ratio :
                (k1.value - k0.value) * (r - k0.ratio)
                    = (threshold - k0.value) * (k1.ratio - k0.ratio)
CrossesOnGrid(track, threshold) ==
    \A i \in 1 .. NumKeys(track) - 1 :
        LET k0 == Key(track, i - 1)
            k1 == Key(track, i)
        IN  IsCrossing(track, threshold, i) =>
                ((threshold - k0.value) * (k1.ratio - k0.ratio)) % Abs(k1.value - k0.value) = 0

-----------------------------------------------------------------------------
(* Values.                                                                 *)

Exactly(value) == [top |-> value, over |-> 1]

\* TrackPolicy::Lerp between two values, `at` of `length` away from the first.
\* Quaternions it is used with have the same length.
Lerp(v, w, at, length) ==
    [top |-> [c \in DOMAIN v |-> v[c] * (length - at) + w[c] * at], over |-> length]

\* TrackPolicy::identity
Default(kind) == Exactly(IF kind = "quaternion" THEN Identity ELSE <<0>>)

-----------------------------------------------------------------------------
(* Building.                                                               *)

\* Mutant: the sign of a key is that of the key before as it was authored.
FixupAuthored(keys) ==
    [k \in DOMAIN keys |->
        LET flip == IF k = 1 THEN keys[1].value[4] < 0
                             ELSE Dot(keys[k].value, keys[k - 1].value) < 0
        IN  IF flip THEN [keys[k] EXCEPT !.value = Negated(@)] ELSE keys[k]]

\* Fixup of quaternions: each on the hemisphere of the one before.
Fixup(keys) ==
    LET Fixed[k \in DOMAIN keys] ==
            LET flip == IF k = 1 THEN keys[1].value[4] < 0
                                 ELSE Dot(keys[k].value, Fixed[k - 1].value) < 0
            IN  IF flip THEN [keys[k] EXCEPT !.value = Negated(@)] ELSE keys[k]
    IN  Fixed

\* TrackBuilder::operator()
BuiltOf(kind, raw) == IF kind = "quaternion" THEN Fixup(Built(raw)) ELSE Built(raw)

-----------------------------------------------------------------------------
(* Sampling.                                                               *)

\* TrackLerp: a step holds up to the next key, quaternions take the shortest path.
TrackLerp(kind, left, right, at, length) ==
    IF left.step /\ at < length THEN Exactly(left.value)
    ELSE Lerp(left.value,
              IF kind = "quaternion" /\ Dot(left.value, right.value) < 0
              THEN Negated(right.value) ELSE right.value,
              at, length)

\* SampleTrack of a raw track.
RawSample(kind, raw, h) ==
    IF raw = <<>> THEN Default(kind)
    ELSE IF h <= 2 * Head(raw).ratio THEN Exactly(Head(raw).value)
    ELSE IF h >= 2 * Last(raw).ratio THEN Exactly(Last(raw).value)
    ELSE LET it    == Min({k \in DOMAIN raw : 2 * raw[k].ratio >= h})
             left  == raw[it - 1]
             right == raw[it]
         IN  TrackLerp(kind, left, right, h - 2 * left.ratio, 2 * (right.ratio - left.ratio))

\* TrackSamplingJob::Run: a ratio off either end is that end.
JobSample(kind, track, h) ==
    IF track = <<>> THEN Default(kind)
    ELSE IF Len(track) = 1 \/ h <= 0 THEN Exactly(Head(track).value)
    ELSE IF h >= 2 * Unit THEN Exactly(Last(track).value)
    ELSE LET id1 == Min({k \in DOMAIN track : 2 * track[k].ratio > h} \cup {Len(track) + 1})
             k0  == track[id1 - 1]
             k1  == track[id1]
         IN  IF k0.step \/ id1 > Len(track) THEN Exactly(k0.value)
             ELSE Lerp(k0.value, k1.value, h - 2 * k0.ratio, 2 * (k1.ratio - k0.ratio))

SameSample(kind, a, b) ==
    IF kind = "quaternion" THEN SameRotation(a.top, b.top)
    ELSE \A c \in DOMAIN a.top : a.top[c] * b.over = b.top[c] * a.over

\* A linear stretch between rotations half a turn apart has two shortest paths, of which the
\* built track takes the one of the raw track if it keeps the sign of the key it starts at.
OnePath(raw) ==
    \A k \in 1 .. Len(raw) - 1 :
        \/ raw[k].step \/ Dot(raw[k].value, raw[k + 1].value) # 0
        \/ raw[k] \in Range(BuiltOf("quaternion", raw))
=============================================================================
