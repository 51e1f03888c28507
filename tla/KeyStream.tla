----------------------------- MODULE KeyStream -----------------------------
(***************************************************************************)
(* The keyframes of one channel of a runtime animation, as the builder     *)
(* leaves them and the sampler reads them: animation.h, KeyframesCtrl.     *)
(* Keys of all tracks are in one array, in the order in which a forward    *)
(* playback needs them: by the time of the key before them on their track. *)
(*                                                                         *)
(* A stream is a record                                                    *)
(*   tracks    how many tracks it interleaves (a multiple of the SoA width)*)
(*   keys      how many keys there are                                     *)
(*   ratio     key -> its time, in 0 .. Full                               *)
(*   previous  key -> how far before it the previous key of its track is   *)
(*   track     key -> its track; not stored at runtime, where the sampler  *)
(*             finds it through its cache                                  *)
(*   iframes   snapshots of the sampler's cache: the key each track has    *)
(*             reached, and the last key the snapshot accounts for         *)
(***************************************************************************)
EXTENDS Integers, Sequences

CONSTANTS
    Full,       \* the animation's duration, in units of time
    SoaWidth,   \* tracks in a SoA block; 4 in the code
    Channels    \* 3 in the code: translations, rotations and scales

ASSUME KeyStreamAssumption ==
    Full \in Nat \ {0} /\ SoaWidth \in Nat \ {0} /\ Channels \in Nat \ {0}

Keys(s)   == 0 .. s.keys - 1
Tracks(s) == 0 .. s.tracks - 1
Left(s, k) == k - s.previous[k]

\* k is the last key of track t among the first n keys.
IsLast(s, t, k, n) ==
    /\ k \in Keys(s) /\ k < n
    /\ s.track[k] = t
    /\ \A j \in Keys(s) : k < j /\ j < n => s.track[j] # t

\* l and k are the consecutive keys of track t that surround r, the last two
\* of the track when r is at its end.  Nothing here depends on the order of
\* keys in the array or on how the sampler got there.
Surround(s, t, l, k, r) ==
    /\ l \in Keys(s) /\ k \in Keys(s)
    /\ s.track[l] = t /\ s.track[k] = t
    /\ s.ratio[l] <= r /\ s.ratio[l] < s.ratio[k]
    /\ \A j \in Keys(s) : s.track[j] = t => ~(s.ratio[l] < s.ratio[j] /\ s.ratio[j] < s.ratio[k])
    /\ r < s.ratio[k] \/ \A j \in Keys(s) : s.track[j] = t => s.ratio[j] <= s.ratio[k]

IsStream(s) ==
    /\ s.tracks \in Nat \ {0}
    /\ s.keys \in Nat /\ s.keys >= 2 * s.tracks
    /\ s.ratio \in [Keys(s) -> 0 .. Full]
    /\ s.previous \in [Keys(s) -> Nat]
    /\ s.track \in [Keys(s) -> Tracks(s)]
    /\ Len(s.iframes) \in Nat /\ DOMAIN s.iframes = 1 .. Len(s.iframes)
    /\ \A i \in DOMAIN s.iframes :
          /\ s.iframes[i].entries \in [Tracks(s) -> Keys(s)]
          /\ s.iframes[i].last \in Keys(s)

\* The first keys of all tracks, in track order, at time 0; then all second keys.
Opening(s) ==
    \A t \in Tracks(s) :
        /\ s.track[t] = t /\ s.previous[t] = 0 /\ s.ratio[t] = 0
        /\ s.track[t + s.tracks] = t /\ s.previous[t + s.tracks] = s.tracks

\* `previous` leads to the previous key of the same track, at an earlier time.
Linked(s) ==
    \A k \in Keys(s) : k >= s.tracks =>
        /\ s.previous[k] > 0 /\ s.previous[k] <= k
        /\ IsLast(s, s.track[k], Left(s, k), k)
        /\ s.ratio[Left(s, k)] < s.ratio[k]

\* Keys come in the order in which a forward playback needs them.
Ordered(s) ==
    \A j, k \in Keys(s) :
        s.tracks <= j /\ j < k => s.ratio[Left(s, j)] <= s.ratio[Left(s, k)]

\* Every snapshot holds the cache as it is once key `last` has been read.
Snapshots(s) ==
    \A i \in DOMAIN s.iframes :
        /\ s.iframes[i].last >= 2 * s.tracks - 1
        /\ \A t \in Tracks(s) :
              IsLast(s, t, s.iframes[i].entries[t], s.iframes[i].last + 1)

\* What the sampler relies on, and the builder provides.
WellFormed(s) == IsStream(s) /\ Opening(s) /\ Linked(s) /\ Ordered(s) /\ Snapshots(s)
=============================================================================
