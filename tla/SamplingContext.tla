-------------------------- MODULE SamplingContext --------------------------
(***************************************************************************)
(* The sampling context: the keyframe cache that lets an animation be      *)
(* sampled at one ratio after another without searching its keys           *)
(* (sampling_job.cc), behind the C ABI's zozzSamplingContext* and          *)
(* zozzSample (zozz_sampling.cpp).                                         *)
(*                                                                         *)
(* A sample is one call of one thread: a context is single-threaded state. *)
(* Its loops are actions here, one key per step, so that what the code     *)
(* asserts inside them can be checked.  Interpolation itself is left out:  *)
(* the model keeps which two keys each track is interpolated between.      *)
(***************************************************************************)
EXTENDS KeyStream

CONSTANTS
    Addresses,   \* where a runtime animation can be in memory
    Clips,       \* the animations there are
    Stream,      \* Stream[clip][c]: the keys of channel c of the animation
    FlagBits,    \* flags in a byte of Cache::outdated; 8 in the code
    MaxSoa,      \* bound on the SoA blocks a context is resized to
    Null,        \* no animation
    Garbage      \* what uninitialised memory holds

MaxTracks == SoaWidth * MaxSoa

ASSUME ContextAssumption ==
    /\ MaxSoa \in Nat /\ FlagBits \in Nat \ {0} /\ Channels \in Nat \ {0}
    /\ Null \notin Addresses
    /\ Garbage \notin Int \cup [of : Clips, left : Int, right : Int]
    /\ \A clip \in Clips :
          /\ \A c \in 1 .. Channels : WellFormed(Stream[clip][c])
          /\ \A c \in 1 .. Channels : Stream[clip][c].tracks = Stream[clip][1].tracks
          /\ Stream[clip][1].tracks % SoaWidth = 0

VARIABLES
    memory,      \* the animation at each address
    animation,   \* Context::animation_, the address the cache was filled from
    ratio,       \* Context::ratio_
    max_soa,     \* Context::max_soa_tracks_
    allocated,   \* whether Context::allocation_ points to memory
    next,        \* Cache::next of each channel: the first key not yet read
    entries,     \* Cache::entries: per track, the right key of its segment
    outdated,    \* Cache::outdated: per SoA block, hot data lags behind entries
    hot,         \* per track, the animation and the two keys last decompressed
    reused,      \* the animation at address `animation` is not the one cached
    previous,    \* the ratio the sample in progress started from
    channel,     \* the channel the sample in progress is working on
    pc           \* where the sample in progress is; "idle" between calls

contextVars == <<animation, ratio, max_soa, allocated, next, entries, outdated, hot>>
vars == <<memory, contextVars, reused, previous, channel, pc>>

-----------------------------------------------------------------------------
Clip == memory[animation]
S == Stream[Clip][channel]

SoaOf(clip) == Stream[clip][1].tracks \div SoaWidth

Abs(n) == IF n < 0 THEN -n ELSE n

\* The address test of Step: is this the animation the cache was filled from?
SameAnimation(address) == animation = address

\* iframe_interval is 1 / Intervals: one when there is no iframe.
Intervals(s) == IF s.iframes = <<>> THEN 1 ELSE Len(s.iframes)

\* |ratio - previous| > iframe_interval / 2, without the division.
FarSeek(s) == 2 * Abs(ratio - previous) * Intervals(s) > Full

\* int(.5 + ratio / iframe_interval) = i, without the division.
Nearest(s, i) ==
    /\ 2 * Full * i <= Full + 2 * ratio * Intervals(s)
    /\ Full + 2 * ratio * Intervals(s) < 2 * Full * (i + 1)

\* Mutants: a seek that forgets to flag; one that leaves the last byte's rest.
NothingOutdated(soa) == outdated[channel]
RestOfByteKept(soa) == [i \in DOMAIN outdated[channel] |-> i < soa \/ outdated[channel][i]]

\* OutdateCache: flags the animation's blocks and clears the last byte's rest.
AllOutdated(soa) ==
    [i \in DOMAIN outdated[channel] |->
        IF i < soa THEN TRUE
        ELSE IF i \div FlagBits <= (soa - 1) \div FlagBits THEN FALSE
        ELSE outdated[channel][i]]

\* Mutant: the key an iframe was taken at is read again.
SeekNextAgain(s, i) == IF i = 0 THEN 2 * s.tracks ELSE s.iframes[i].last

\* InitializeCache: the first key not accounted for by the iframe, 0 being the
\* opening keys.
SeekNext(s, i) == IF i = 0 THEN 2 * s.tracks ELSE s.iframes[i].last + 1

\* InitializeCache: the cache at that point.
SeekEntries(s, i) ==
    [t \in 0 .. MaxTracks - 1 |->
        IF t >= s.tracks THEN entries[channel][t]
        ELSE IF i = 0 THEN t + s.tracks
        ELSE s.iframes[i].entries[t]]

\* Mutant: the ratio taken as it comes.
Unclamped(r) == r

Clamped(r) == IF r < 0 THEN 0 ELSE IF r > Full THEN Full ELSE r

Init ==
    /\ memory \in [Addresses -> Clips]
    /\ animation = Null /\ ratio = 0
    /\ max_soa = 0 /\ allocated = FALSE
    /\ next = [c \in 1 .. Channels |-> 0]
    /\ entries = [c \in 1 .. Channels |-> [t \in 0 .. MaxTracks - 1 |-> Garbage]]
    /\ outdated = [c \in 1 .. Channels |-> [i \in 0 .. MaxSoa - 1 |-> FALSE]]
    /\ hot = [c \in 1 .. Channels |-> [t \in 0 .. MaxTracks - 1 |-> Garbage]]
    /\ reused = FALSE
    /\ previous = 0 /\ channel = 1 /\ pc = "idle"

-----------------------------------------------------------------------------
(* Between samples.                                                        *)

Invalidated ==
    /\ animation' = Null
    /\ ratio' = 0
    /\ next' = [c \in 1 .. Channels |-> 0]
    /\ reused' = FALSE

\* zozzSamplingContextCreate and -Resize.  The memory of the new allocation is
\* uninitialised; an allocation that fails goes unnoticed, since max_tracks() is
\* raised first.
Resize(soa, success) ==
    /\ pc = "idle"
    /\ Invalidated
    /\ max_soa' = soa
    /\ allocated' = success
    /\ entries' = [c \in 1 .. Channels |-> [t \in 0 .. MaxTracks - 1 |-> Garbage]]
    /\ outdated' \in [1 .. Channels -> [0 .. MaxSoa - 1 -> BOOLEAN]]
    /\ hot' = [c \in 1 .. Channels |-> [t \in 0 .. MaxTracks - 1 |-> Garbage]]
    /\ UNCHANGED <<memory, previous, channel, pc>>

Invalidate ==
    /\ pc = "idle"
    /\ Invalidated
    /\ UNCHANGED <<memory, max_soa, allocated, entries, outdated, hot, previous, channel, pc>>

\* The host destroys an animation and another one is created at its address.
Recycle(address, clip) ==
    /\ pc = "idle"
    /\ memory[address] # clip
    /\ memory' = [memory EXCEPT ![address] = clip]
    /\ reused' = (reused \/ animation = address)
    /\ UNCHANGED <<contextVars, previous, channel, pc>>

-----------------------------------------------------------------------------
(* A sample.                                                               *)

\* zozzSample up to and including Context::Step: a context too small is refused
\* and changes nothing.  Sampling through a context that has no memory has no
\* defined outcome; and after a Recycle the host owes an Invalidate
\* (zozz_sampling.h, zozzSamplingContextInvalidate).
Sample(address, r) ==
    /\ pc = "idle"
    /\ allocated
    /\ SoaOf(memory[address]) <= max_soa
    /\ ~(reused /\ animation = address)
    /\ IF SameAnimation(address)
       THEN /\ previous' = ratio
            /\ UNCHANGED <<animation, next, reused>>
       ELSE /\ previous' = 0
            /\ animation' = address
            /\ next' = [c \in 1 .. Channels |-> 0]
            /\ reused' = FALSE
    /\ ratio' = Clamped(r)
    /\ channel' = 1
    /\ pc' = "seek"
    /\ UNCHANGED <<memory, max_soa, allocated, entries, outdated, hot>>

\* UpdateCache, first part: on a first sample or a far one, start again from the
\* nearest iframe, or from the opening keys.
Seek ==
    /\ pc = "seek"
    /\ pc' = "forward"
    /\ IF /\ next[channel] = 0 \/ FarSeek(S)
          /\ S.iframes # <<>> \/ next[channel] = 0 \/ ratio < previous
       THEN \E i \in 0 .. Len(S.iframes) :
               /\ IF S.iframes = <<>> THEN i = 0 ELSE Nearest(S, i)
               /\ next' = [next EXCEPT ![channel] = SeekNext(S, i)]
               /\ entries' = [entries EXCEPT ![channel] = SeekEntries(S, i)]
               /\ outdated' = [outdated EXCEPT ![channel] = AllOutdated(SoaOf(Clip))]
       ELSE UNCHANGED <<next, entries, outdated>>
    /\ UNCHANGED <<memory, animation, ratio, max_soa, allocated, hot, reused, previous, channel>>

\* The next key is read once the one before it on its track has been passed.
NeedsKey(s, n, r) == n < s.keys /\ s.ratio[Left(s, n)] <= r

\* The last key read is given back when its track has not come to the one before.
PassedKey(s, n, r) == s.ratio[Left(s, n - 1)] > r

\* TrackForward, TrackBackward: the track whose entry is key k.
TrackOf(k, t) == t \in Tracks(S) /\ entries[channel][t] = k

ReadForward ==
    /\ pc = "forward"
    /\ NeedsKey(S, next[channel], ratio)
    /\ \E t \in Tracks(S) :
          /\ TrackOf(Left(S, next[channel]), t)
          /\ entries' = [entries EXCEPT ![channel][t] = next[channel]]
          /\ outdated' = [outdated EXCEPT ![channel][t \div SoaWidth] = TRUE]
    /\ next' = [next EXCEPT ![channel] = @ + 1]
    /\ UNCHANGED <<memory, animation, ratio, max_soa, allocated, hot, reused, previous, channel, pc>>

EndForward ==
    /\ pc = "forward"
    /\ ~NeedsKey(S, next[channel], ratio)
    /\ pc' = "rewind"
    /\ UNCHANGED <<memory, contextVars, reused, previous, channel>>

Rewind ==
    /\ pc = "rewind"
    /\ PassedKey(S, next[channel], ratio)
    /\ \E t \in Tracks(S) :
          /\ TrackOf(next[channel] - 1, t)
          /\ entries' = [entries EXCEPT ![channel][t] = Left(S, next[channel] - 1)]
          /\ outdated' = [outdated EXCEPT ![channel][t \div SoaWidth] = TRUE]
    /\ next' = [next EXCEPT ![channel] = @ - 1]
    /\ UNCHANGED <<memory, animation, ratio, max_soa, allocated, hot, reused, previous, channel, pc>>

EndRewind ==
    /\ pc = "rewind"
    /\ ~PassedKey(S, next[channel], ratio)
    /\ pc' = "decompress"
    /\ UNCHANGED <<memory, contextVars, reused, previous, channel>>

\* Decompress: the two keys of every track of a flagged block, then the next
\* channel.
Decompress ==
    /\ pc = "decompress"
    /\ hot' = [hot EXCEPT ![channel] =
                  [t \in 0 .. MaxTracks - 1 |->
                      IF t < S.tracks /\ outdated[channel][t \div SoaWidth]
                      THEN [of |-> Clip, left |-> Left(S, entries[channel][t]),
                            right |-> entries[channel][t]]
                      ELSE @[t]]]
    /\ outdated' = [outdated EXCEPT ![channel] =
                       [i \in 0 .. MaxSoa - 1 |->
                           @[i] /\ i \div FlagBits > (SoaOf(Clip) - 1) \div FlagBits]]
    /\ IF channel < Channels
       THEN channel' = channel + 1 /\ pc' = "seek"
       ELSE channel' = channel /\ pc' = "interpolate"
    /\ UNCHANGED <<memory, animation, ratio, max_soa, allocated, next, entries, reused, previous>>

\* Interpolates writes the output from the hot data, and the call returns.
Interpolate ==
    /\ pc = "interpolate"
    /\ pc' = "idle"
    /\ previous' = 0 /\ channel' = 1
    /\ UNCHANGED <<memory, contextVars, reused>>

Next ==
    \/ \E soa \in 1 .. MaxSoa, success \in BOOLEAN : Resize(soa, success)
    \/ Invalidate
    \/ \E address \in Addresses, clip \in Clips : Recycle(address, clip)
    \/ \E address \in Addresses, r \in -1 .. Full + 1 : Sample(address, r)
    \/ Seek
    \/ ReadForward \/ EndForward
    \/ Rewind \/ EndRewind
    \/ Decompress
    \/ Interpolate

Spec == Init /\ [][Next]_vars

-----------------------------------------------------------------------------
(* Properties.                                                             *)

Indices == 0 .. MaxTracks - 1
HotKeys == [of : Clips, left : Nat, right : Nat]

\* The type of every variable; the ratio a context holds is always in range.
TypeOK ==
    /\ memory \in [Addresses -> Clips]
    /\ animation \in Addresses \cup {Null}
    /\ ratio \in 0 .. Full /\ previous \in 0 .. Full
    /\ max_soa \in 0 .. MaxSoa
    /\ allocated \in BOOLEAN /\ reused \in BOOLEAN
    /\ next \in [1 .. Channels -> Nat]
    /\ entries \in [1 .. Channels -> [Indices -> Nat \cup {Garbage}]]
    /\ outdated \in [1 .. Channels -> [0 .. MaxSoa - 1 -> BOOLEAN]]
    /\ hot \in [1 .. Channels -> [Indices -> HotKeys \cup {Garbage}]]
    /\ channel \in 1 .. Channels
    /\ pc \in {"idle", "seek", "forward", "rewind", "decompress", "interpolate"}

\* A cache that is in use is, between any two steps of the loops, the one a
\* sampler would have that had read the keys before `next` one by one: every
\* track's entry is its last key before `next` (sampling_job.cc:187-272).
CacheFollowsKeys ==
    \A c \in 1 .. Channels : next[c] # 0 /\ ~reused =>
        LET s == Stream[Clip][c] IN
        /\ next[c] \in 2 * s.tracks .. s.keys
        /\ \A t \in Tracks(s) : IsLast(s, t, entries[c][t], next[c])

\* What sampling_job.cc asserts on the way: the track a key belongs to is in the
\* cache, a rewind never reaches the opening keys, and only blocks the animation
\* has are decompressed (lines 97, 118, 175, 256, 265-267).
AssertionsHold ==
    /\ pc = "forward" /\ NeedsKey(S, next[channel], ratio) =>
          \E t \in Tracks(S) : TrackOf(Left(S, next[channel]), t)
    /\ pc = "rewind" /\ PassedKey(S, next[channel], ratio) =>
          /\ next[channel] - 1 >= 2 * S.tracks
          /\ \E t \in Tracks(S) : TrackOf(next[channel] - 1, t)
          /\ Left(S, next[channel] - 1) >= S.tracks
    /\ pc = "decompress" =>
          \A i \in 0 .. MaxSoa - 1 :
              /\ outdated[channel][i]
              /\ i \div FlagBits <= (SoaOf(Clip) - 1) \div FlagBits
              => i < SoaOf(Clip)

\* Whatever was sampled before, through this context or before it was resized,
\* every track is interpolated between the two keys of this animation that
\* surround the ratio asked for: sampling has no memory.
SampledKeysSurround ==
    pc = "interpolate" =>
        \A c \in 1 .. Channels : \A t \in Tracks(Stream[Clip][c]) :
            /\ hot[c][t] # Garbage
            /\ hot[c][t].of = Clip
            /\ Surround(Stream[Clip][c], t, hot[c][t].left, hot[c][t].right, ratio)
=============================================================================
