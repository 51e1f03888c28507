---------------------------- MODULE KeySorting -----------------------------
(***************************************************************************)
(* From the raw keyframes of one channel to its runtime stream: the parts  *)
(* of animation_builder.cc that are functions of their input.  The loop    *)
(* that injects keys between two of them is the module AnimationBuilder.   *)
(*                                                                         *)
(* The raw animation's channel is a function from joint tracks 0 .. n-1 to *)
(* the times of their keys, ascending; values are left out, since where a  *)
(* key ends up only depends on times and tracks.                           *)
(***************************************************************************)
EXTENDS KeyStream, SequencesExt

AlignedTracks(num_tracks) == SoaWidth * ((num_tracks + SoaWidth - 1) \div SoaWidth)

\* CopyRaw: a track with fewer than two keys becomes one constant segment, any
\* other gets the keys it lacks at the two ends of the animation.
CopyRaw(times, duration) ==
    IF Len(times) < 2 THEN <<0, duration>>
    ELSE (IF Head(times) # 0 THEN <<0>> ELSE <<>>)
         \o times
         \o (IF Last(times) # duration THEN <<duration>> ELSE <<>>)

\* The SortingKeys of a track; those beyond the animation's own tracks, added to
\* fill the last SoA block, are identity segments.
SortingKeys(tracks, duration, t) ==
    LET times == CopyRaw(IF t \in DOMAIN tracks THEN tracks[t] ELSE <<>>, duration)
    IN  {[track |-> t, prev |-> IF n = 1 THEN -1 ELSE times[n - 1], time |-> times[n]] :
            n \in DOMAIN times}

SortingKeyLess(a, b) == a.prev < b.prev \/ (a.prev = b.prev /\ a.track < b.track)

\* The elements of a set, in no particular order.
Listed(set) == FoldSet(LAMBDA e, list : Append(list, e), <<>>, set)

\* No two keys are equal in this order: a key's place is the number of those before it.
Sorted(keys) ==
    LET Rank(k) == Cardinality({j \in keys : SortingKeyLess(j, k)})
    IN  [n \in 1 .. Cardinality(keys) |-> CHOOSE k \in keys : Rank(k) = n - 1]

SortedKeys(tracks, duration) ==
    Sorted(UNION {SortingKeys(tracks, duration, t) :
                     t \in 0 .. AlignedTracks(Cardinality(DOMAIN tracks)) - 1})

\* The animation_builder.cc order as a property of a sequence of keys.
InOrder(sorted) == \A i \in 1 .. Len(sorted) - 1 : SortingKeyLess(sorted[i], sorted[i + 1])

\* The last key of track t among the first n of the sorted keys; -1 if none.
LastOf(sorted, t, n) ==
    Max({-1} \cup {i - 1 : i \in {j \in 1 .. n : sorted[j].track = t}})

\* The first two keys of every track come before any other key.
OpeningLast(num_tracks) == num_tracks * 2 - 1

\* BuildIFrame: the cache of a sampler that has read all keys it needs at `time`,
\* which is a fraction with denominator `divs`.
BuildIFrame(sorted, num_tracks, time, divs) ==
    LET n == Cardinality({i \in DOMAIN sorted : sorted[i].prev * divs <= time})
    IN  [entries |-> [t \in 0 .. num_tracks - 1 |-> LastOf(sorted, t, n)], last |-> n - 1]

\* BuildIFrames: one at the end of each of `divs` equal parts of the animation,
\* except those that add no key to the opening ones or to the iframe before.
BuildIFrames(sorted, num_tracks, duration, divs) ==
    LET Taken[n \in 0 .. divs] ==
            IF n = 0 THEN <<>>
            ELSE LET acc    == Taken[n - 1]
                     iframe == BuildIFrame(sorted, num_tracks, duration * n, divs)
                 IN  IF \/ iframe.last <= OpeningLast(num_tracks)
                        \/ acc # <<>> /\ iframe.last <= Last(acc).last
                     THEN acc ELSE Append(acc, iframe)
    IN  Taken[divs]

\* CopyTimePoints: the ratio of a time, rounded as floats are.
RatioOf(time, duration) == (2 * time * Full + duration) \div (2 * duration)

\* Compress: what the runtime arrays hold.
Compress(sorted, num_tracks, duration, iframes) ==
    LET keys == 0 .. Len(sorted) - 1 IN
    [tracks   |-> num_tracks,
     keys     |-> Len(sorted),
     ratio    |-> [k \in keys |-> RatioOf(sorted[k + 1].time, duration)],
     track    |-> [k \in keys |-> sorted[k + 1].track],
     previous |-> [k \in keys |->
                     LET before == LastOf(sorted, sorted[k + 1].track, k)
                     IN  IF before = -1 THEN 0 ELSE k - before],
     iframes  |-> iframes]

\* A whole channel, when no key has to be injected.
BuiltStream(tracks, duration, divs) ==
    LET sorted == SortedKeys(tracks, duration)
        num_tracks == AlignedTracks(Cardinality(DOMAIN tracks))
    IN  Compress(sorted, num_tracks, duration, BuildIFrames(sorted, num_tracks, duration, divs))
=============================================================================
