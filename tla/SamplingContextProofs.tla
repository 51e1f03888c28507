----------------------- MODULE SamplingContextProofs -----------------------
(***************************************************************************)
(* Proofs about SamplingContext, for any animations whose streams are      *)
(* well formed, any number of channels, any SoA width and any bounds.      *)
(***************************************************************************)
EXTENDS SamplingContext, WellFoundedInduction, TLAPS

-----------------------------------------------------------------------------
(* Streams.                                                                *)

LEMMA StreamTypes ==
  ASSUME NEW s, WellFormed(s)
  PROVE  /\ s.tracks \in Nat \ {0} /\ s.keys \in Nat /\ 2 * s.tracks <= s.keys
         /\ s.ratio \in [Keys(s) -> 0 .. Full]
         /\ s.previous \in [Keys(s) -> Nat]
         /\ s.track \in [Keys(s) -> Tracks(s)]
         /\ Len(s.iframes) \in Nat /\ DOMAIN s.iframes = 1 .. Len(s.iframes)
  BY DEF WellFormed, IsStream

\* A key and the one before it are on the same track.
LEMMA LeftKey ==
  ASSUME NEW s, WellFormed(s), NEW k \in Keys(s), k >= s.tracks
  PROVE  /\ Left(s, k) \in Keys(s) /\ Left(s, k) < k
         /\ s.track[Left(s, k)] = s.track[k]
         /\ IsLast(s, s.track[k], Left(s, k), k)
  BY StreamTypes DEF WellFormed, Linked, IsLast, Keys

LEMMA LastUnique ==
  ASSUME NEW s, WellFormed(s), NEW t \in Tracks(s), NEW n \in Nat, NEW j, NEW k,
         IsLast(s, t, j, n), IsLast(s, t, k, n)
  PROVE  j = k
  BY StreamTypes DEF IsLast, Keys

\* Reading key n moves one track to it.
LEMMA ReadFollows ==
  ASSUME NEW s, WellFormed(s), NEW n \in Keys(s), n >= s.tracks,
         NEW e, \A u \in Tracks(s) : IsLast(s, u, e[u], n),
         NEW t \in Tracks(s), e[t] = Left(s, n)
  PROVE  \A u \in Tracks(s) : IsLast(s, u, IF u = t THEN n ELSE e[u], n + 1)
<1>1. s.track[n] = t
  BY LeftKey DEF IsLast
<1>2. ASSUME NEW u \in Tracks(s) PROVE IsLast(s, u, IF u = t THEN n ELSE e[u], n + 1)
  BY <1>1, StreamTypes DEF IsLast, Keys
<1> QED BY <1>2

\* The key to be read is preceded by one in the cache.
LEMMA ReadFinds ==
  ASSUME NEW s, WellFormed(s), NEW n \in Keys(s), n >= s.tracks,
         NEW e, \A u \in Tracks(s) : IsLast(s, u, e[u], n)
  PROVE  e[s.track[n]] = Left(s, n) /\ s.track[n] \in Tracks(s)
<1>1. s.track[n] \in Tracks(s) /\ n \in Nat
  BY StreamTypes DEF Keys
<1> QED BY <1>1, LeftKey, LastUnique

\* No key is given back before its first two are.
LEMMA RewindStops ==
  ASSUME NEW s, WellFormed(s), NEW n \in 2 * s.tracks .. s.keys, NEW r \in Nat,
         PassedKey(s, n, r)
  PROVE  n - 1 >= 2 * s.tracks /\ n - 1 \in Keys(s)
<1> SUFFICES ASSUME n = 2 * s.tracks PROVE FALSE
  BY StreamTypes DEF Keys
<1> DEFINE t == s.tracks - 1
<1>1. t \in Tracks(s) /\ n - 1 = t + s.tracks
  BY StreamTypes DEF Tracks
<1>2. s.previous[t + s.tracks] = s.tracks /\ s.ratio[t] = 0
  BY <1>1 DEF WellFormed, Opening
<1>3. Left(s, n - 1) = t
  BY <1>1, <1>2, StreamTypes DEF Left
<1> QED BY <1>2, <1>3 DEF PassedKey

\* Giving back the last key read moves its track to the one before.
LEMMA RewindFollows ==
  ASSUME NEW s, WellFormed(s), NEW n \in 2 * s.tracks .. s.keys, n - 1 >= 2 * s.tracks,
         NEW e, \A u \in Tracks(s) : IsLast(s, u, e[u], n),
         NEW t \in Tracks(s), e[t] = n - 1
  PROVE  \A u \in Tracks(s) :
             IsLast(s, u, IF u = t THEN Left(s, n - 1) ELSE e[u], n - 1)
<1>1. n - 1 \in Keys(s) /\ n - 1 >= s.tracks
  BY StreamTypes DEF Keys
<1>2. s.track[n - 1] = t
  BY DEF IsLast
<1>3. IsLast(s, t, Left(s, n - 1), n - 1)
  BY <1>1, <1>2, LeftKey
<1>4. ASSUME NEW u \in Tracks(s), u # t PROVE IsLast(s, u, e[u], n - 1)
  BY <1>1, <1>2, <1>4, StreamTypes DEF IsLast, Keys
<1> QED BY <1>3, <1>4

\* The key given back is in the cache, and is none of its track's first two.
LEMMA RewindFinds ==
  ASSUME NEW s, WellFormed(s), NEW n \in 2 * s.tracks .. s.keys, n - 1 >= 2 * s.tracks,
         NEW e, \A u \in Tracks(s) : IsLast(s, u, e[u], n)
  PROVE  /\ s.track[n - 1] \in Tracks(s) /\ e[s.track[n - 1]] = n - 1
         /\ Left(s, n - 1) >= s.tracks
<1> DEFINE t == s.track[n - 1]
<1>1. n - 1 \in Keys(s) /\ n - 1 >= s.tracks /\ n \in Nat
  BY StreamTypes DEF Keys
<1>2. t \in Tracks(s)
  BY <1>1, StreamTypes
<1>3. IsLast(s, t, n - 1, n)
  BY <1>1, StreamTypes DEF IsLast, Keys
<1>4. e[t] = n - 1
  BY <1>1, <1>2, <1>3, LastUnique
<1>5. IsLast(s, t, Left(s, n - 1), n - 1)
  BY <1>1, LeftKey
<1>6. t + s.tracks \in Keys(s) /\ t + s.tracks < n - 1 /\ t \in Nat
  <2> HIDE DEF t
  <2> QED BY <1>1, <1>2, StreamTypes DEF Tracks, Keys
<1>7. s.track[t + s.tracks] = t
  <2> HIDE DEF t
  <2> QED BY <1>2 DEF WellFormed, Opening
<1>8. Left(s, n - 1) >= t + s.tracks
  <2> HIDE DEF t
  <2> QED BY <1>5, <1>6, <1>7, <1>1, StreamTypes DEF IsLast, Keys
<1>9. Left(s, n - 1) \in Int
  BY <1>5 DEF IsLast, Keys
<1>10. Left(s, n - 1) >= s.tracks
  <2> HIDE DEF t
  <2> QED BY <1>6, <1>8, <1>9, StreamTypes
<1> QED BY <1>2, <1>4, <1>10

\* A seek, to an iframe or to the opening keys, fills the cache as reading would.
LEMMA SeekFollows ==
  ASSUME NEW s, WellFormed(s), NEW i \in 0 .. Len(s.iframes)
  PROVE  /\ SeekNext(s, i) \in 2 * s.tracks .. s.keys
         /\ \A t \in Tracks(s) :
               IsLast(s, t, IF i = 0 THEN t + s.tracks ELSE s.iframes[i].entries[t],
                      SeekNext(s, i))
<1>1. CASE i = 0
  <2>1. ASSUME NEW t \in Tracks(s) PROVE IsLast(s, t, t + s.tracks, 2 * s.tracks)
    <3>1. t + s.tracks \in Keys(s) /\ t + s.tracks < 2 * s.tracks
      BY StreamTypes DEF Tracks, Keys
    <3>2. s.track[t + s.tracks] = t
      BY DEF WellFormed, Opening
    <3>3. ASSUME NEW j \in Keys(s), t + s.tracks < j, j < 2 * s.tracks
          PROVE  s.track[j] # t
      <4>1. j - s.tracks \in Tracks(s) /\ j = (j - s.tracks) + s.tracks
        BY <3>3, StreamTypes DEF Tracks, Keys
      <4>2. s.track[j] = j - s.tracks
        BY <4>1 DEF WellFormed, Opening
      <4> QED BY <3>3, <4>2, StreamTypes DEF Tracks, Keys
    <3> QED BY <3>1, <3>2, <3>3 DEF IsLast
  <2> QED BY <1>1, <2>1, StreamTypes DEF SeekNext
<1>2. CASE i # 0
  <2>1. i \in DOMAIN s.iframes
    BY <1>2, StreamTypes
  <2>2. /\ s.iframes[i].last \in Keys(s) /\ s.iframes[i].last >= 2 * s.tracks - 1
        /\ \A t \in Tracks(s) :
              IsLast(s, t, s.iframes[i].entries[t], s.iframes[i].last + 1)
    BY <2>1 DEF WellFormed, IsStream, Snapshots
  <2> QED BY <1>2, <2>2, StreamTypes DEF SeekNext, Keys
<1> QED BY <1>1, <1>2

LEMMA LeastNatural ==
  ASSUME NEW T, T \subseteq Nat, T # {}
  PROVE  \E m \in T : \A k \in T : m <= k
<1> DEFINE R == OpToRel(<, Nat)
<1>1. IsWellFoundedOn(R, Nat)
  BY NatLessThanWellFounded
<1>2. PICK m \in T : \A k \in T : <<k, m>> \notin R
  <2> HIDE DEF R
  <2> QED BY <1>1, WFMin
<1>3. \A k \in T : ~(k < m)
  BY <1>2 DEF OpToRel
<1> QED BY <1>3

\* A key that is not the first of its track has one before it.
LEMMA NotFirst ==
  ASSUME NEW s, WellFormed(s), NEW j \in Keys(s), NEW k \in Keys(s), j < k,
         s.track[j] = s.track[k]
  PROVE  k >= s.tracks
<1> SUFFICES ASSUME k < s.tracks PROVE FALSE
  BY StreamTypes DEF Keys
<1>1. j \in Tracks(s) /\ k \in Tracks(s)
  BY StreamTypes DEF Keys, Tracks
<1>2. s.track[j] = j /\ s.track[k] = k
  BY <1>1 DEF WellFormed, Opening
<1>3. j = k
  BY <1>2
<1> QED BY <1>3, StreamTypes DEF Keys

\* Keys of a track come in the order of their times.
LEMMA Rising ==
  ASSUME NEW s, WellFormed(s)
  PROVE  \A j, k \in Keys(s) :
            j < k /\ s.track[j] = s.track[k] => s.ratio[j] < s.ratio[k]
<1> DEFINE Bad(k) == \E j \in Keys(s) : /\ j < k /\ s.track[j] = s.track[k]
                                       /\ ~(s.ratio[j] < s.ratio[k])
           T == {k \in Keys(s) : Bad(k)}
<1> SUFFICES ASSUME T # {} PROVE FALSE
  OBVIOUS
<1>1. PICK k \in T : \A n \in T : k <= n
  <2>1. T \subseteq Nat
    BY StreamTypes DEF Keys
  <2> HIDE DEF T
  <2> QED BY <2>1, LeastNatural
<1>2. PICK j \in Keys(s) : /\ j < k /\ s.track[j] = s.track[k]
                           /\ ~(s.ratio[j] < s.ratio[k])
  OBVIOUS
<1>3. k \in Keys(s) /\ k >= s.tracks
  BY <1>2, NotFirst
<1>4. /\ Left(s, k) \in Keys(s) /\ Left(s, k) < k
      /\ s.track[Left(s, k)] = s.track[k]
      /\ IsLast(s, s.track[k], Left(s, k), k)
  BY <1>3, LeftKey
<1>5. s.ratio[Left(s, k)] < s.ratio[k]
  BY <1>3 DEF WellFormed, Linked
<1>6. j <= Left(s, k)
  BY <1>2, <1>3, <1>4 DEF IsLast, Keys
<1>7. j # Left(s, k)
  BY <1>2, <1>5
<1>8. s.ratio[j] < s.ratio[Left(s, k)]
  <2>1. j < Left(s, k)
    BY <1>4, <1>6, <1>7 DEF Keys
  <2>2. Left(s, k) \notin T
    BY <1>1, <1>3, <1>4 DEF Keys
  <2> HIDE <1>1
  <2> QED BY <1>2, <1>4, <2>1, <2>2
<1>9. s.ratio[j] \in Int /\ s.ratio[k] \in Int /\ s.ratio[Left(s, k)] \in Int
  BY <1>2, <1>3, <1>4, StreamTypes, KeyStreamAssumption
<1> QED BY <1>2, <1>5, <1>8, <1>9

\* Every key but the last of its track is the previous one of some other.
LEMMA Follower ==
  ASSUME NEW s, WellFormed(s), NEW k \in Keys(s), NEW j \in Keys(s), k < j,
         s.track[j] = s.track[k]
  PROVE  \E n \in Keys(s) : /\ k < n /\ n >= s.tracks /\ Left(s, n) = k
                            /\ s.track[n] = s.track[k]
<1> DEFINE T == {n \in Keys(s) : k < n /\ s.track[n] = s.track[k]}
<1>1. PICK n \in T : \A m \in T : n <= m
  <2>1. T \subseteq Nat /\ j \in T
    BY StreamTypes DEF Keys
  <2> HIDE DEF T
  <2> QED BY <2>1, LeastNatural
<1>2. n \in Keys(s) /\ k < n /\ s.track[n] = s.track[k] /\ n >= s.tracks
  BY NotFirst
<1>3. /\ Left(s, n) \in Keys(s) /\ Left(s, n) < n
      /\ s.track[Left(s, n)] = s.track[n]
      /\ IsLast(s, s.track[n], Left(s, n), n)
  BY <1>2, LeftKey
<1>4. Left(s, n) >= k
  BY <1>2, <1>3 DEF IsLast, Keys
<1>5. ~(k < Left(s, n))
  BY <1>1, <1>2, <1>3 DEF Keys
<1>6. Left(s, n) = k
  BY <1>3, <1>4, <1>5 DEF Keys
<1> QED BY <1>2, <1>6

\* When no key is to be read and none to be given back, every track's entry and
\* the key before it surround the ratio.
LEMMA SettledSurrounds ==
  ASSUME NEW s, WellFormed(s), NEW n \in 2 * s.tracks .. s.keys, NEW r \in Nat,
         ~NeedsKey(s, n, r), ~PassedKey(s, n, r),
         NEW t \in Tracks(s), NEW k, IsLast(s, t, k, n)
  PROVE  Surround(s, t, Left(s, k), k, r)
<1>1. /\ s.tracks \in Nat \ {0} /\ s.keys \in Nat /\ n \in Nat
      /\ k \in Keys(s) /\ k < n /\ s.track[k] = t
  BY StreamTypes DEF IsLast
<1>2. k >= t + s.tracks /\ k >= s.tracks
  <2>1. t + s.tracks \in Keys(s) /\ t + s.tracks < n /\ t \in Nat
    BY <1>1, StreamTypes DEF Keys, Tracks
  <2>2. s.track[t + s.tracks] = t
    BY DEF WellFormed, Opening
  <2> QED BY <1>1, <2>1, <2>2 DEF IsLast, Keys
<1>3. /\ Left(s, k) \in Keys(s) /\ Left(s, k) < k
      /\ s.track[Left(s, k)] = t
      /\ IsLast(s, t, Left(s, k), k)
  BY <1>1, <1>2, LeftKey
<1>4. s.ratio[Left(s, k)] < s.ratio[k]
  BY <1>1, <1>2 DEF WellFormed, Linked
<1>5. \A j \in Keys(s) : s.ratio[j] \in Int
  BY StreamTypes, KeyStreamAssumption
<1>6. s.ratio[Left(s, k)] <= r
  <2>1. n - 1 \in Keys(s) /\ n - 1 >= s.tracks /\ k <= n - 1
    BY <1>1 DEF Keys
  <2>2. Left(s, n - 1) \in Keys(s)
    BY <2>1, LeftKey
  <2>3. s.ratio[Left(s, n - 1)] <= r
    BY <1>5, <2>2 DEF PassedKey
  <2>4. s.ratio[Left(s, k)] <= s.ratio[Left(s, n - 1)]
    <3>1. CASE k = n - 1
      BY <1>3, <1>5, <3>1
    <3>2. CASE k < n - 1
      BY <1>1, <1>2, <2>1, <3>2 DEF WellFormed, Ordered
    <3> QED BY <1>1, <2>1, <3>1, <3>2 DEF Keys
  <2> QED BY <1>3, <1>5, <2>2, <2>3, <2>4
<1>7. ASSUME NEW j \in Keys(s), s.track[j] = t
      PROVE  ~(s.ratio[Left(s, k)] < s.ratio[j] /\ s.ratio[j] < s.ratio[k])
  <2>1. CASE j < Left(s, k)
    BY <1>3, <1>5, <1>7, <2>1, Rising
  <2>2. CASE j = Left(s, k) \/ j = k
    BY <1>1, <1>3, <1>5, <2>2
  <2>3. CASE Left(s, k) < j /\ j < k
    BY <1>3, <1>7, <2>3 DEF IsLast
  <2>4. CASE k < j
    BY <1>1, <1>5, <1>7, <2>4, Rising
  <2> QED BY <1>1, <1>3, <2>1, <2>2, <2>3, <2>4 DEF Keys
<1>8. r < s.ratio[k] \/ \A j \in Keys(s) : s.track[j] = t => s.ratio[j] <= s.ratio[k]
  <2> SUFFICES ASSUME NEW j \in Keys(s), s.track[j] = t, ~(s.ratio[j] <= s.ratio[k])
               PROVE  r < s.ratio[k]
    OBVIOUS
  <2>1. k < j
    <3>1. CASE j < k
      BY <1>1, <1>5, <3>1, Rising
    <3>2. CASE j = k
      BY <1>5, <3>2
    <3> QED BY <1>1, <3>1, <3>2 DEF Keys
  <2>2. PICK m \in Keys(s) : /\ k < m /\ m >= s.tracks /\ Left(s, m) = k
                             /\ s.track[m] = t
    BY <1>1, <2>1, Follower
  <2>3. n <= m
    BY <1>1, <2>2 DEF IsLast, Keys
  <2>4. n \in Keys(s) /\ n >= s.tracks
    BY <1>1, <2>2, <2>3 DEF Keys
  <2>5. Left(s, n) \in Keys(s)
    BY <2>4, LeftKey
  <2>6. r < s.ratio[Left(s, n)]
    BY <1>1, <1>5, <2>4, <2>5 DEF NeedsKey, Keys
  <2>7. s.ratio[Left(s, n)] <= s.ratio[k]
    <3>1. CASE n = m
      <4>1. Left(s, n) = k
        BY <2>2, <3>1
      <4>2. s.ratio[k] \in Int
        BY <1>1, <1>5
      <4> QED BY <4>1, <4>2
    <3>2. CASE n < m
      BY <2>2, <2>4, <3>2 DEF WellFormed, Ordered
    <3> QED BY <1>1, <2>2, <2>3, <3>1, <3>2 DEF Keys
  <2> QED BY <1>1, <1>5, <2>5, <2>6, <2>7
<1> QED BY <1>1, <1>3, <1>4, <1>6, <1>7, <1>8 DEF Surround

-----------------------------------------------------------------------------
(* The context.                                                            *)

LEMMA ClipStreams ==
  ASSUME NEW clip \in Clips, NEW c \in 1 .. Channels
  PROVE  /\ WellFormed(Stream[clip][c])
         /\ Stream[clip][c].tracks = Stream[clip][1].tracks
         /\ Stream[clip][1].tracks \in Nat \ {0}
         /\ Stream[clip][1].tracks % SoaWidth = 0
<1>1. 1 \in 1 .. Channels
  BY ContextAssumption
<1>2. WellFormed(Stream[clip][1])
  BY <1>1, ContextAssumption
<1> QED BY <1>2, ContextAssumption, StreamTypes

\* The tracks of an animation the context is large enough for are in range.
LEMMA TracksFit ==
  ASSUME NEW clip \in Clips, NEW c \in 1 .. Channels, SoaOf(clip) <= MaxSoa
  PROVE  Tracks(Stream[clip][c]) \subseteq Indices
<1> DEFINE n == Stream[clip][1].tracks
<1> DEFINE q == n \div SoaWidth
<1>1. n \in Nat /\ n % SoaWidth = 0 /\ SoaWidth \in Nat \ {0} /\ MaxSoa \in Nat
  BY ClipStreams, KeyStreamAssumption, ContextAssumption
<1>2. n = SoaWidth * q + (n % SoaWidth) /\ q \in Nat
  <2> HIDE DEF n
  <2> QED BY <1>1
<1>3. q <= MaxSoa
  BY DEF SoaOf
<1>4. n <= SoaWidth * MaxSoa
  <2> HIDE DEF n, q
  <2>1. SoaWidth * q <= SoaWidth * MaxSoa
    BY <1>1, <1>2, <1>3
  <2> QED BY <1>1, <1>2, <2>1
<1>5. Stream[clip][c].tracks = n
  BY ClipStreams
<1>6. SoaWidth * MaxSoa \in Int
  BY <1>1
<1> HIDE DEF n, q
<1> QED BY <1>1, <1>4, <1>5, <1>6 DEF Tracks, Indices, MaxTracks

\* While a sample is in progress the cache is tied to an animation that fits.
InUse ==
    /\ animation = Null => \A c \in 1 .. Channels : next[c] = 0
    /\ pc # "idle" => animation \in Addresses /\ ~reused /\ SoaOf(Clip) <= max_soa
    /\ pc \in {"forward", "rewind", "decompress"} => next[channel] # 0

CacheInv == TypeOK /\ CacheFollowsKeys /\ InUse

LEMMA CacheInvInit == Init => CacheInv
<1> SUFFICES ASSUME Init PROVE CacheInv
  OBVIOUS
<1>1. Full \in Nat /\ MaxSoa \in Nat
  BY KeyStreamAssumption, ContextAssumption
<1>2. TypeOK
  <2>1. /\ next \in [1 .. Channels -> Nat]
        /\ entries \in [1 .. Channels -> [Indices -> Nat \cup {Garbage}]]
    BY DEF Init, Indices
  <2>2. hot \in [1 .. Channels -> [Indices -> HotKeys \cup {Garbage}]]
    BY DEF Init, Indices
  <2>3. outdated \in [1 .. Channels -> [0 .. MaxSoa - 1 -> BOOLEAN]]
    BY DEF Init
  <2>4. 1 \in 1 .. Channels
    BY ContextAssumption
  <2>5. /\ memory \in [Addresses -> Clips] /\ animation \in Addresses \cup {Null}
        /\ ratio \in 0 .. Full /\ previous \in 0 .. Full /\ max_soa \in 0 .. MaxSoa
    BY <1>1 DEF Init
  <2>6. allocated \in BOOLEAN /\ reused \in BOOLEAN
    BY DEF Init
  <2>7. channel \in 1 .. Channels /\ pc = "idle"
    BY <2>4 DEF Init
  <2> QED BY <2>1, <2>2, <2>3, <2>5, <2>6, <2>7 DEF TypeOK
<1> QED BY <1>2 DEF Init, CacheInv, CacheFollowsKeys, InUse

\* What a sample in progress works on.
LEMMA Sampling ==
  ASSUME CacheInv, pc # "idle"
  PROVE  /\ Clip \in Clips /\ channel \in 1 .. Channels
         /\ WellFormed(S) /\ Tracks(S) \subseteq Indices
         /\ ratio \in Nat
         /\ next[channel] # 0 =>
               /\ next[channel] \in 2 * S.tracks .. S.keys
               /\ \A t \in Tracks(S) : IsLast(S, t, entries[channel][t], next[channel])
<1>1. Clip \in Clips /\ channel \in 1 .. Channels
  BY DEF CacheInv, TypeOK, InUse, Clip
<1>2. SoaOf(Clip) <= MaxSoa
  <2>1. SoaOf(Clip) <= max_soa /\ max_soa \in 0 .. MaxSoa
    BY DEF CacheInv, InUse, TypeOK
  <2>2. SoaOf(Clip) \in Int /\ MaxSoa \in Nat
    BY <1>1, ClipStreams, KeyStreamAssumption, ContextAssumption DEF SoaOf
  <2> QED BY <2>1, <2>2
<1>3. WellFormed(S) /\ Tracks(S) \subseteq Indices
  BY <1>1, <1>2, ClipStreams, TracksFit DEF S
<1> QED BY <1>1, <1>3, KeyStreamAssumption DEF CacheInv, CacheFollowsKeys, InUse, S, TypeOK

\* A step of the sample in progress that works on the cache of its channel only:
\* nothing is left to show but that this channel's cache follows its keys.
LEMMA ChannelStep ==
  ASSUME CacheInv, pc # "idle",
         next' = [next EXCEPT ![channel] = next'[channel]],
         entries' = [entries EXCEPT ![channel] = entries'[channel]],
         UNCHANGED <<memory, animation, reused>>,
         next'[channel] \in 2 * S.tracks .. S.keys,
         \A t \in Tracks(S) : IsLast(S, t, entries'[channel][t], next'[channel])
  PROVE  CacheFollowsKeys'
<1>1. Clip' = Clip /\ channel \in 1 .. Channels
  BY Sampling DEF Clip
<1>2. ASSUME NEW c \in 1 .. Channels, next'[c] # 0, ~reused', c # channel
      PROVE  /\ next'[c] \in 2 * Stream[Clip'][c].tracks .. Stream[Clip'][c].keys
             /\ \A t \in Tracks(Stream[Clip'][c]) :
                   IsLast(Stream[Clip'][c], t, entries'[c][t], next'[c])
  <2>1. next'[c] = next[c] /\ entries'[c] = entries[c]
    BY <1>2 DEF CacheInv, TypeOK
  <2> QED BY <1>1, <1>2, <2>1 DEF CacheInv, CacheFollowsKeys
<1> QED BY <1>1, <1>2 DEF CacheFollowsKeys, S

LEMMA CacheInvNext == CacheInv /\ [Next]_vars => CacheInv'
<1> SUFFICES ASSUME CacheInv, [Next]_vars PROVE CacheInv'
  OBVIOUS
<1> USE DEF CacheInv
<1>0. KeyStreamAssumption /\ ContextAssumption
  BY KeyStreamAssumption, ContextAssumption
<1>1. ASSUME NEW soa \in 1 .. MaxSoa, NEW success \in BOOLEAN, Resize(soa, success)
      PROVE  CacheInv'
  <2> USE <1>1 DEF Resize, Invalidated
  <2>1. /\ next' \in [1 .. Channels -> Nat]
        /\ entries' \in [1 .. Channels -> [Indices -> Nat \cup {Garbage}]]
    BY DEF Indices
  <2>2. hot' \in [1 .. Channels -> [Indices -> HotKeys \cup {Garbage}]]
    BY DEF Indices
  <2>3. TypeOK'
    BY <1>0, <2>1, <2>2 DEF TypeOK, KeyStreamAssumption, ContextAssumption
  <2> QED BY <2>3 DEF CacheFollowsKeys, InUse
<1>2. CASE Invalidate
  <2> USE <1>2 DEF Invalidate, Invalidated
  <2>1. TypeOK'
    <3>1. next' \in [1 .. Channels -> Nat] /\ reused' \in BOOLEAN
      OBVIOUS
    <3>2. animation' \in Addresses \cup {Null} /\ ratio' \in 0 .. Full
      BY <1>0 DEF KeyStreamAssumption
    <3> QED BY <3>1, <3>2 DEF TypeOK
  <2> QED BY <2>1 DEF CacheFollowsKeys, InUse
<1>3. ASSUME NEW address \in Addresses, NEW clip \in Clips, Recycle(address, clip)
      PROVE  CacheInv'
  <2> USE <1>3 DEF Recycle, contextVars
  <2>1. TypeOK'
    BY DEF TypeOK
  <2>2. CacheFollowsKeys'
    <3>1. CASE animation = address
      BY <3>1 DEF CacheFollowsKeys
    <3>2. CASE animation = Null
      BY <3>2 DEF CacheFollowsKeys, InUse
    <3>3. CASE animation \in Addresses \ {address}
      <4>1. Clip' = Clip /\ reused' = reused
        BY <3>3 DEF Clip, TypeOK
      <4> QED BY <4>1 DEF CacheFollowsKeys
    <3> QED BY <3>1, <3>2, <3>3 DEF TypeOK
  <2> QED BY <2>1, <2>2 DEF InUse
<1>4. ASSUME NEW address \in Addresses, NEW r \in -1 .. Full + 1, Sample(address, r)
      PROVE  CacheInv'
  <2> USE <1>4 DEF Sample
  <2>1. TypeOK'
    <3>1. ratio' \in 0 .. Full
      BY <1>0 DEF Clamped, KeyStreamAssumption
    <3>2. previous' \in 0 .. Full
      BY <1>0 DEF TypeOK, KeyStreamAssumption
    <3>3. next' \in [1 .. Channels -> Nat]
      BY DEF TypeOK
    <3>4. animation' \in Addresses \cup {Null} /\ reused' \in BOOLEAN
      BY DEF TypeOK
    <3>5. channel' \in 1 .. Channels /\ pc' = "seek"
      BY <1>0 DEF ContextAssumption
    <3>6. UNCHANGED <<memory, max_soa, allocated, entries, outdated, hot>>
      OBVIOUS
    <3> HIDE <1>4 DEF Sample
    <3> QED BY <3>1, <3>2, <3>3, <3>4, <3>5, <3>6 DEF TypeOK
  <2>2. CASE SameAnimation(address)
    <3>1. Clip' = Clip /\ animation = address /\ ~reused
      BY <2>2 DEF SameAnimation, Clip, TypeOK
    <3>2. CacheFollowsKeys'
      BY <2>2, <3>1 DEF CacheFollowsKeys
    <3>3. InUse'
      BY <1>0, <2>2, <3>1 DEF InUse, Clip, ContextAssumption
    <3> QED BY <2>1, <3>2, <3>3
  <2>3. CASE ~SameAnimation(address)
    <3>1. CacheFollowsKeys'
      BY <2>3 DEF CacheFollowsKeys
    <3>2. InUse'
      BY <1>0, <2>3 DEF InUse, Clip, ContextAssumption
    <3> QED BY <2>1, <3>1, <3>2
  <2> QED BY <2>2, <2>3
<1>5. CASE Seek
  <2> USE <1>5 DEF Seek
  <2>1. CASE UNCHANGED <<next, entries, outdated>> /\ next[channel] # 0
    <3>1. TypeOK' /\ CacheFollowsKeys' /\ InUse'
      BY <2>1 DEF TypeOK, CacheFollowsKeys, InUse, Clip
    <3> QED BY <3>1
  <2>2. ASSUME NEW i \in 0 .. Len(S.iframes),
               next' = [next EXCEPT ![channel] = SeekNext(S, i)],
               entries' = [entries EXCEPT ![channel] = SeekEntries(S, i)],
               outdated' = [outdated EXCEPT ![channel] = AllOutdated(SoaOf(Clip))]
        PROVE  CacheInv'
    <3>1. /\ Clip \in Clips /\ channel \in 1 .. Channels
          /\ WellFormed(S) /\ Tracks(S) \subseteq Indices
      BY Sampling
    <3>2. next'[channel] = SeekNext(S, i) /\ entries'[channel] = SeekEntries(S, i)
      BY <2>2, <3>1 DEF TypeOK
    <3>3. SeekNext(S, i) \in 2 * S.tracks .. S.keys
      BY <2>2, <3>1, SeekFollows
    <3>4. ASSUME NEW t \in Tracks(S)
          PROVE  IsLast(S, t, SeekEntries(S, i)[t], SeekNext(S, i))
      <4>1. SeekEntries(S, i)[t] = IF i = 0 THEN t + S.tracks ELSE S.iframes[i].entries[t]
        BY <3>1, StreamTypes DEF SeekEntries, Indices, Tracks
      <4> QED BY <2>2, <3>1, <4>1, SeekFollows
    <3>5. CacheFollowsKeys'
      BY <2>2, <3>1, <3>2, <3>3, <3>4, ChannelStep
    <3>6. SeekNext(S, i) \in Nat \ {0}
      BY <3>1, <3>3, StreamTypes
    <3>7. SeekEntries(S, i) \in [Indices -> Nat \cup {Garbage}]
      <4>1. ASSUME NEW t \in Indices PROVE SeekEntries(S, i)[t] \in Nat \cup {Garbage}
        <5>1. CASE t \in Tracks(S)
          BY <3>1, <3>4, <5>1, StreamTypes DEF IsLast, Keys
        <5>2. CASE t \notin Tracks(S)
          <6>1. SeekEntries(S, i)[t] = entries[channel][t]
            BY <3>1, <5>2, StreamTypes DEF SeekEntries, Indices, Tracks
          <6> QED BY <3>1, <6>1 DEF TypeOK
        <5> QED BY <5>1, <5>2
      <4> QED BY <4>1 DEF SeekEntries, Indices
    <3>8. AllOutdated(SoaOf(Clip)) \in [0 .. MaxSoa - 1 -> BOOLEAN]
      BY <3>1 DEF AllOutdated, TypeOK
    <3>9. TypeOK'
      BY <2>2, <3>1, <3>6, <3>7, <3>8 DEF TypeOK
    <3>10. /\ animation' \in Addresses /\ ~reused' /\ SoaOf(Clip)' <= max_soa'
           /\ pc' = "forward"
      BY DEF InUse, Clip, SoaOf
    <3>11. next'[channel'] # 0
      BY <3>2, <3>6
    <3>12. InUse'
      <4> HIDE <1>5 DEF Seek
      <4> QED BY <1>0, <3>10, <3>11 DEF InUse, ContextAssumption
    <3> QED BY <3>5, <3>9, <3>12
  <2> QED BY <2>1, <2>2
<1>6. CASE ReadForward
  <2> USE <1>6 DEF ReadForward
  <2>1. PICK t \in Tracks(S) :
          /\ TrackOf(Left(S, next[channel]), t)
          /\ entries' = [entries EXCEPT ![channel][t] = next[channel]]
          /\ outdated' = [outdated EXCEPT ![channel][t \div SoaWidth] = TRUE]
    OBVIOUS
  <2>2. /\ Clip \in Clips /\ channel \in 1 .. Channels
        /\ WellFormed(S) /\ Tracks(S) \subseteq Indices
        /\ next[channel] \in 2 * S.tracks .. S.keys
        /\ \A u \in Tracks(S) : IsLast(S, u, entries[channel][u], next[channel])
    BY Sampling DEF InUse
  <2>3. next[channel] \in Keys(S) /\ next[channel] >= S.tracks
    BY <2>2, StreamTypes DEF NeedsKey, Keys
  <2>4. entries[channel][t] = Left(S, next[channel])
    BY <2>1 DEF TrackOf
  <2>5. \A u \in Tracks(S) :
           IsLast(S, u, IF u = t THEN next[channel] ELSE entries[channel][u],
                  next[channel] + 1)
    BY <2>1, <2>2, <2>3, <2>4, ReadFollows
  <2>6. /\ next'[channel] = next[channel] + 1
        /\ \A u \in Tracks(S) :
              entries'[channel][u] = IF u = t THEN next[channel] ELSE entries[channel][u]
    BY <2>1, <2>2 DEF TypeOK
  <2>7. next'[channel] \in 2 * S.tracks .. S.keys
    BY <2>2, <2>3, <2>6, StreamTypes DEF Keys
  <2>8. entries' = [entries EXCEPT ![channel] = entries'[channel]]
    BY <2>1, <2>2 DEF TypeOK
  <2>9. CacheFollowsKeys'
    BY <2>5, <2>6, <2>7, <2>8, ChannelStep
  <2>10. TypeOK'
    <3>1. next' \in [1 .. Channels -> Nat]
      BY <2>2 DEF TypeOK
    <3>2. entries' \in [1 .. Channels -> [Indices -> Nat \cup {Garbage}]]
      <4>1. next[channel] \in Nat /\ entries \in [1 .. Channels -> [Indices -> Nat \cup {Garbage}]]
        BY <2>2 DEF TypeOK
      <4> HIDE <1>6 DEF ReadForward, CacheInv
      <4> QED BY <2>1, <2>2, <4>1
    <3>3. outdated' \in [1 .. Channels -> [0 .. MaxSoa - 1 -> BOOLEAN]]
      <4>1. outdated \in [1 .. Channels -> [0 .. MaxSoa - 1 -> BOOLEAN]]
        BY DEF TypeOK
      <4> DEFINE b == t \div SoaWidth
      <4>2. outdated' = [outdated EXCEPT ![channel][b] = TRUE]
        BY <2>1
      <4> HIDE <1>6 DEF ReadForward, CacheInv, b
      <4> QED BY <2>2, <4>1, <4>2
    <3> QED BY <3>1, <3>2, <3>3 DEF TypeOK
  <2>11. InUse'
    BY <2>2, <2>3, <2>6 DEF InUse, Clip, TypeOK, Keys
  <2> QED BY <2>9, <2>10, <2>11
<1>7. CASE EndForward
  BY <1>7 DEF EndForward, contextVars, TypeOK, CacheFollowsKeys, InUse, Clip
<1>8. CASE Rewind
  <2> USE <1>8 DEF Rewind
  <2>1. PICK t \in Tracks(S) :
          /\ TrackOf(next[channel] - 1, t)
          /\ entries' = [entries EXCEPT ![channel][t] = Left(S, next[channel] - 1)]
          /\ outdated' = [outdated EXCEPT ![channel][t \div SoaWidth] = TRUE]
    OBVIOUS
  <2>2. /\ Clip \in Clips /\ channel \in 1 .. Channels /\ ratio \in Nat
        /\ WellFormed(S) /\ Tracks(S) \subseteq Indices
        /\ next[channel] \in 2 * S.tracks .. S.keys
        /\ \A u \in Tracks(S) : IsLast(S, u, entries[channel][u], next[channel])
    BY Sampling DEF InUse
  <2>3. next[channel] - 1 >= 2 * S.tracks /\ next[channel] - 1 \in Keys(S)
    BY <2>2, RewindStops
  <2>4. entries[channel][t] = next[channel] - 1
    BY <2>1 DEF TrackOf
  <2>5. \A u \in Tracks(S) :
           IsLast(S, u, IF u = t THEN Left(S, next[channel] - 1) ELSE entries[channel][u],
                  next[channel] - 1)
    BY <2>1, <2>2, <2>3, <2>4, RewindFollows
  <2>6. /\ next'[channel] = next[channel] - 1
        /\ \A u \in Tracks(S) :
              entries'[channel][u] =
                 IF u = t THEN Left(S, next[channel] - 1) ELSE entries[channel][u]
    BY <2>1, <2>2 DEF TypeOK
  <2>7. next'[channel] \in 2 * S.tracks .. S.keys /\ next'[channel] \in Nat \ {0}
    BY <2>2, <2>3, <2>6, StreamTypes DEF Keys
  <2>8. entries' = [entries EXCEPT ![channel] = entries'[channel]]
    BY <2>1, <2>2 DEF TypeOK
  <2>9. CacheFollowsKeys'
    BY <2>5, <2>6, <2>7, <2>8, ChannelStep
  <2>10. Left(S, next[channel] - 1) \in Nat
    BY <2>2, <2>3, StreamTypes, LeftKey DEF Keys
  <2>11. TypeOK'
    BY <2>1, <2>2, <2>6, <2>7, <2>10 DEF TypeOK
  <2>12. InUse'
    BY <2>2, <2>7 DEF InUse, Clip, TypeOK
  <2> QED BY <2>9, <2>11, <2>12
<1>9. CASE EndRewind
  BY <1>9 DEF EndRewind, contextVars, TypeOK, CacheFollowsKeys, InUse, Clip
<1>10. CASE Decompress
  <2> USE <1>10 DEF Decompress
  <2>1. /\ Clip \in Clips /\ channel \in 1 .. Channels
        /\ WellFormed(S) /\ Tracks(S) \subseteq Indices
        /\ next[channel] \in 2 * S.tracks .. S.keys
        /\ \A u \in Tracks(S) : IsLast(S, u, entries[channel][u], next[channel])
    BY Sampling DEF InUse
  <2>2. ASSUME NEW t \in Indices, t < S.tracks
        PROVE  [of |-> Clip, left |-> Left(S, entries[channel][t]),
                right |-> entries[channel][t]] \in HotKeys
    <3>1. t \in Tracks(S)
      BY <2>1, <2>2, StreamTypes DEF Indices, Tracks
    <3>2. entries[channel][t] \in Keys(S)
      BY <2>1, <3>1 DEF IsLast
    <3>3. Left(S, entries[channel][t]) \in Nat
      <4>1. CASE entries[channel][t] >= S.tracks
        BY <2>1, <3>2, <4>1, LeftKey DEF Keys
      <4>2. CASE entries[channel][t] < S.tracks
        <5>1. entries[channel][t] \in Tracks(S)
          BY <2>1, <3>2, <4>2, StreamTypes DEF Keys, Tracks
        <5> QED BY <2>1, <3>2, <5>1 DEF WellFormed, Opening, Left, Keys
      <4> QED BY <2>1, <3>2, <4>1, <4>2, StreamTypes DEF Keys
    <3> QED BY <2>1, <3>2, <3>3 DEF HotKeys, Keys
  <2>3. hot' \in [1 .. Channels -> [Indices -> HotKeys \cup {Garbage}]]
    <3> DEFINE h == [t \in 0 .. MaxTracks - 1 |->
                       IF t < S.tracks /\ outdated[channel][t \div SoaWidth]
                       THEN [of |-> Clip, left |-> Left(S, entries[channel][t]),
                             right |-> entries[channel][t]]
                       ELSE hot[channel][t]]
    <3>1. h \in [Indices -> HotKeys \cup {Garbage}]
      <4>1. ASSUME NEW t \in Indices PROVE h[t] \in HotKeys \cup {Garbage}
        <5>1. hot[channel][t] \in HotKeys \cup {Garbage}
          BY <2>1 DEF TypeOK
        <5>2. CASE t < S.tracks /\ outdated[channel][t \div SoaWidth]
          BY <2>2, <5>2 DEF Indices
        <5>3. CASE ~(t < S.tracks /\ outdated[channel][t \div SoaWidth])
          BY <5>1, <5>3 DEF Indices
        <5> QED BY <5>2, <5>3
      <4>2. h = [t \in Indices |-> h[t]]
        BY DEF Indices
      <4> HIDE DEF h
      <4> QED BY <4>1, <4>2
    <3>2. hot' = [hot EXCEPT ![channel] = h]
      BY <2>1 DEF TypeOK
    <3> HIDE DEF h
    <3> QED BY <2>1, <3>1, <3>2 DEF TypeOK
  <2>4. outdated' \in [1 .. Channels -> [0 .. MaxSoa - 1 -> BOOLEAN]]
    BY <2>1 DEF TypeOK
  <2>5. channel' \in 1 .. Channels /\ pc' \in {"seek", "interpolate"}
    BY <1>0, <2>1 DEF ContextAssumption
  <2>6. TypeOK'
    BY <2>3, <2>4, <2>5 DEF TypeOK
  <2>7. CacheFollowsKeys' /\ InUse'
    BY <2>5 DEF CacheFollowsKeys, InUse, Clip
  <2> QED BY <2>6, <2>7
<1>11. CASE Interpolate
  <2>1. TypeOK'
    BY <1>0, <1>11 DEF Interpolate, contextVars, TypeOK, KeyStreamAssumption, ContextAssumption
  <2> QED BY <1>11, <2>1 DEF Interpolate, contextVars, CacheFollowsKeys, InUse, Clip
<1>12. CASE UNCHANGED vars
  BY <1>12 DEF vars, contextVars, TypeOK, CacheFollowsKeys, InUse, Clip
<1> QED
  BY <1>1, <1>2, <1>3, <1>4, <1>5, <1>6, <1>7, <1>8, <1>9, <1>10, <1>11, <1>12 DEF Next

-----------------------------------------------------------------------------
(* What was decompressed.                                                  *)

Live(c) == next[c] # 0 /\ ~reused
Str(c) == Stream[Clip][c]

\* Track t of channel c has been decompressed since its entry was set.
Exact(c, t) ==
    hot[c][t] = [of |-> Clip, left |-> Left(Str(c), entries[c][t]), right |-> entries[c][t]]

\* A track that has not is flagged.
HotFollows ==
    \A c \in 1 .. Channels : Live(c) =>
        \A t \in Tracks(Str(c)) : outdated[c][t \div SoaWidth] \/ Exact(c, t)

\* No flag is set beyond the animation's blocks, in the bytes they reach into.
FlagsInRange ==
    \A c \in 1 .. Channels : Live(c) =>
        \A i \in 0 .. MaxSoa - 1 :
            outdated[c][i] /\ i \div FlagBits <= (SoaOf(Clip) - 1) \div FlagBits => i < SoaOf(Clip)

Settled(c) == ~NeedsKey(Str(c), next[c], ratio) /\ ~PassedKey(Str(c), next[c], ratio)

\* How far the sample in progress has come.
Progress ==
    /\ pc = "rewind" => ~NeedsKey(S, next[channel], ratio)
    /\ pc = "decompress" => Settled(channel)
    /\ pc # "idle" =>
          \A c \in 1 .. Channels : c < channel \/ pc = "interpolate" =>
              /\ next[c] # 0 /\ Settled(c)
              /\ \A t \in Tracks(Str(c)) : Exact(c, t)

HotInv == HotFollows /\ FlagsInRange /\ Progress

\* A track's block is one of its animation's, and of the context's.
LEMMA BlockOf ==
  ASSUME NEW clip \in Clips, NEW c \in 1 .. Channels, SoaOf(clip) <= MaxSoa,
         NEW t \in Tracks(Stream[clip][c])
  PROVE  /\ SoaOf(clip) \in Nat
         /\ t \div SoaWidth \in 0 .. SoaOf(clip) - 1
         /\ t \div SoaWidth \in 0 .. MaxSoa - 1
<1> DEFINE n == Stream[clip][1].tracks
           q == n \div SoaWidth
           b == t \div SoaWidth
<1>1. n \in Nat /\ n % SoaWidth = 0 /\ SoaWidth \in Nat \ {0} /\ MaxSoa \in Nat
  BY ClipStreams, KeyStreamAssumption, ContextAssumption
<1>2. t \in Nat /\ t < n
  BY ClipStreams DEF Tracks
<1>3. n = SoaWidth * q + (n % SoaWidth) /\ q \in Nat
  <2> HIDE DEF n
  <2> QED BY <1>1
<1>4. t = SoaWidth * b + (t % SoaWidth) /\ b \in Nat /\ (t % SoaWidth) \in Nat
  <2> HIDE DEF n
  <2> QED BY <1>1, <1>2
<1>5. b < q
  <2> SUFFICES ASSUME q <= b PROVE FALSE
    BY <1>3, <1>4
  <2> HIDE DEF n, q, b
  <2>1. SoaWidth * q <= SoaWidth * b
    BY <1>1, <1>3, <1>4
  <2> QED BY <1>1, <1>2, <1>3, <1>4, <2>1
<1>6. SoaOf(clip) = q
  BY DEF SoaOf
<1> HIDE DEF n, q, b
<1>7. b \in 0 .. SoaOf(clip) - 1 /\ b \in 0 .. MaxSoa - 1 /\ SoaOf(clip) \in Nat
  BY <1>1, <1>3, <1>4, <1>5, <1>6
<1> QED BY <1>7 DEF b

LEMMA FitsMax ==
  ASSUME CacheInv, pc # "idle"
  PROVE  SoaOf(Clip) <= MaxSoa
<1>1. Clip \in Clips
  BY Sampling
<1>2. SoaOf(Clip) \in Int /\ MaxSoa \in Nat
  BY <1>1, ClipStreams, KeyStreamAssumption, ContextAssumption DEF SoaOf
<1>3. SoaOf(Clip) <= max_soa /\ max_soa \in 0 .. MaxSoa
  BY DEF CacheInv, InUse, TypeOK
<1> QED BY <1>2, <1>3

LEMMA HotInvInit == Init => HotInv
  BY DEF Init, HotInv, HotFollows, FlagsInRange, Progress, Live

\* A step of the sample in progress leaves what it has of other channels alone.
LEMMA OtherChannels ==
  ASSUME CacheInv, HotInv, pc # "idle", UNCHANGED <<memory, animation, reused, ratio>>,
         next' = [next EXCEPT ![channel] = next'[channel]],
         entries' = [entries EXCEPT ![channel] = entries'[channel]],
         outdated' = [outdated EXCEPT ![channel] = outdated'[channel]],
         hot' = [hot EXCEPT ![channel] = hot'[channel]],
         NEW c \in 1 .. Channels, c # channel
  PROVE  /\ next'[c] = next[c] /\ outdated'[c] = outdated[c]
         /\ Clip' = Clip /\ Str(c)' = Str(c)
         /\ Live(c)' = Live(c) /\ Settled(c)' = Settled(c)
         /\ \A t : Exact(c, t)' = Exact(c, t)
<1>1. next'[c] = next[c] /\ entries'[c] = entries[c]
      /\ outdated'[c] = outdated[c] /\ hot'[c] = hot[c]
  BY DEF CacheInv, TypeOK
<1>2. Clip' = Clip /\ Str(c)' = Str(c)
  BY DEF Clip, Str
<1> QED BY <1>1, <1>2 DEF Live, Settled, Exact

\* Such a step is sound if it is for its own channel.
LEMMA OwnChannel ==
  ASSUME CacheInv, HotInv, pc # "idle", UNCHANGED <<memory, animation, reused, ratio>>,
         next' = [next EXCEPT ![channel] = next'[channel]],
         entries' = [entries EXCEPT ![channel] = entries'[channel]],
         outdated' = [outdated EXCEPT ![channel] = outdated'[channel]],
         hot' = [hot EXCEPT ![channel] = hot'[channel]],
         NEW ch \in 1 .. Channels, channel = ch,
         \A t \in Tracks(Str(ch)) : outdated'[ch][t \div SoaWidth] \/ Exact(ch, t)',
         \A i \in 0 .. MaxSoa - 1 :
            outdated'[ch][i] /\ i \div FlagBits <= (SoaOf(Clip) - 1) \div FlagBits
            => i < SoaOf(Clip)
  PROVE  HotFollows' /\ FlagsInRange'
<1>1. Clip' = Clip /\ Str(ch)' = Str(ch)
  BY DEF Clip, Str
<1>2. ASSUME NEW c \in 1 .. Channels, Live(c)', NEW t \in Tracks(Str(c)')
      PROVE  outdated'[c][t \div SoaWidth] \/ Exact(c, t)'
  <2>1. CASE c = ch
    BY <1>1, <1>2, <2>1
  <2>2. CASE c # ch
    BY <1>2, <2>2, OtherChannels DEF HotInv, HotFollows
  <2> QED BY <2>1, <2>2
<1>3. ASSUME NEW c \in 1 .. Channels, Live(c)', NEW i \in 0 .. MaxSoa - 1,
             outdated'[c][i], i \div FlagBits <= (SoaOf(Clip) - 1) \div FlagBits
      PROVE  i < SoaOf(Clip)
  <2>1. CASE c = ch
    BY <1>3, <2>1
  <2>2. CASE c # ch
    BY <1>3, <2>2, OtherChannels DEF HotInv, FlagsInRange
  <2> QED BY <2>1, <2>2
<1> QED BY <1>1, <1>2, <1>3 DEF HotFollows, FlagsInRange

\* Nor does it undo the channels that are done.
LEMMA StillDone ==
  ASSUME CacheInv, HotInv, pc # "idle", pc # "interpolate",
         UNCHANGED <<memory, animation, reused, ratio, channel>>, pc' # "interpolate",
         next' = [next EXCEPT ![channel] = next'[channel]],
         entries' = [entries EXCEPT ![channel] = entries'[channel]],
         outdated' = [outdated EXCEPT ![channel] = outdated'[channel]],
         hot' = [hot EXCEPT ![channel] = hot'[channel]],
         NEW c \in 1 .. Channels, c < channel
  PROVE  /\ next'[c] # 0 /\ Settled(c)'
         /\ \A t \in Tracks(Str(c)') : Exact(c, t)'
<1>1. c # channel
  BY Sampling
<1> QED BY <1>1, OtherChannels DEF HotInv, Progress

\* A step that leaves the cache and its animation alone.
LEMMA CacheAlone ==
  ASSUME HotInv, UNCHANGED <<next, entries, outdated, hot>>,
         reused => reused',
         \A c \in 1 .. Channels : next[c] # 0 /\ ~reused' => Clip' = Clip
  PROVE  HotFollows' /\ FlagsInRange'
<1>1. ASSUME NEW c \in 1 .. Channels, Live(c)'
      PROVE  Live(c) /\ Clip' = Clip /\ Str(c)' = Str(c) /\ \A t : Exact(c, t)' = Exact(c, t)
  <2>1. Live(c) /\ Clip' = Clip
    BY <1>1 DEF Live
  <2>2. Str(c)' = Str(c)
    BY <2>1 DEF Str
  <2> QED BY <2>1, <2>2 DEF Exact
<1>2. HotFollows'
  BY <1>1 DEF HotInv, HotFollows
<1>3. FlagsInRange'
  BY <1>1 DEF HotInv, FlagsInRange
<1> QED BY <1>2, <1>3

\* A cache that was dropped has nothing to be wrong about.
LEMMA Dropped ==
  ASSUME next' = [c \in 1 .. Channels |-> 0]
  PROVE  HotFollows' /\ FlagsInRange'
  BY DEF HotFollows, FlagsInRange, Live

\* A step of the forward or rewind loop: the track's entry becomes key.
MovedTo(t, key) ==
    /\ pc \in {"forward", "rewind"} /\ pc' = pc
    /\ UNCHANGED <<memory, animation, ratio, hot, reused, channel>>
    /\ next' = [next EXCEPT ![channel] = next'[channel]]
    /\ entries' = [entries EXCEPT ![channel][t] = key]
    /\ outdated' = [outdated EXCEPT ![channel][t \div SoaWidth] = TRUE]
    /\ pc = "rewind" => ~NeedsKey(S, next'[channel], ratio)

\* Such a step leaves the hot data right wherever the flags do not say otherwise.
LEMMA TrackStep ==
    ASSUME CacheInv, HotInv, NEW t \in Tracks(S), NEW key, MovedTo(t, key)
    PROVE  HotInv'
<1>0. /\ pc \in {"forward", "rewind"} /\ pc' = pc
      /\ UNCHANGED <<memory, animation, ratio, hot, reused, channel>>
      /\ next' = [next EXCEPT ![channel] = next'[channel]]
      /\ entries' = [entries EXCEPT ![channel][t] = key]
      /\ outdated' = [outdated EXCEPT ![channel][t \div SoaWidth] = TRUE]
      /\ (pc = "rewind" => ~NeedsKey(S, next'[channel], ratio))
  BY DEF MovedTo
<1> PICK ch \in 1 .. Channels : channel = ch
  BY DEF CacheInv, TypeOK
<1>1. /\ entries' = [entries EXCEPT ![channel] = entries'[channel]]
      /\ hot' = [hot EXCEPT ![channel] = hot'[channel]]
  BY <1>0 DEF CacheInv, TypeOK
<1>2. outdated' = [outdated EXCEPT ![channel] = outdated'[channel]]
  <2> DEFINE b == t \div SoaWidth
  <2>1. outdated' = [outdated EXCEPT ![channel][b] = TRUE]
    BY <1>0
  <2>2. outdated \in [1 .. Channels -> [0 .. MaxSoa - 1 -> BOOLEAN]]
    BY DEF CacheInv, TypeOK
  <2> HIDE DEF b
  <2> QED BY <2>1, <2>2
<1>3. Clip \in Clips /\ SoaOf(Clip) <= MaxSoa /\ S = Str(ch)
  BY <1>0, Sampling, FitsMax DEF S, Str
<1>4. /\ t \div SoaWidth \in 0 .. MaxSoa - 1 /\ t \div SoaWidth \in 0 .. SoaOf(Clip) - 1
      /\ SoaOf(Clip) \in Nat
  BY <1>3, BlockOf DEF Str
<1>5. \A n \in 0 .. MaxSoa - 1 :
         outdated'[ch][n] = (IF n = t \div SoaWidth THEN TRUE ELSE outdated[ch][n])
  <2> DEFINE b == t \div SoaWidth
  <2>1. outdated' = [outdated EXCEPT ![ch][b] = TRUE]
    BY <1>0
  <2>2. outdated \in [1 .. Channels -> [0 .. MaxSoa - 1 -> BOOLEAN]]
    BY DEF CacheInv, TypeOK
  <2> HIDE DEF b
  <2>3. outdated'[ch] = [outdated[ch] EXCEPT ![b] = TRUE]
    BY <2>1, <2>2
  <2>4. outdated[ch] \in [0 .. MaxSoa - 1 -> BOOLEAN]
    BY <2>2
  <2>5. \A n \in 0 .. MaxSoa - 1 :
           outdated'[ch][n] = (IF n = b THEN TRUE ELSE outdated[ch][n])
    BY <2>3, <2>4, Zenon
  <2> QED BY <2>5 DEF b
<1>6. Live(ch)
  BY <1>0 DEF Live, CacheInv, InUse
<1>7. ASSUME NEW u \in Tracks(Str(ch))
      PROVE  outdated'[ch][u \div SoaWidth] \/ Exact(ch, u)'
  <2>1. u \div SoaWidth \in 0 .. MaxSoa - 1
    BY <1>3, BlockOf DEF Str
  <2>2. CASE outdated[ch][u \div SoaWidth] \/ u \div SoaWidth = t \div SoaWidth
    BY <1>5, <2>1, <2>2
  <2>3. CASE Exact(ch, u) /\ u # t
    <3>1. entries'[ch][u] = entries[ch][u] /\ hot'[ch] = hot[ch] /\ Clip' = Clip
      BY <1>0, <2>3 DEF CacheInv, TypeOK, Clip
    <3>2. Str(ch)' = Str(ch)
      BY <3>1 DEF Str
    <3> QED BY <2>3, <3>1, <3>2 DEF Exact
  <2> QED BY <1>6, <2>2, <2>3 DEF HotInv, HotFollows
<1>8. ASSUME NEW n \in 0 .. MaxSoa - 1, outdated'[ch][n],
             n \div FlagBits <= (SoaOf(Clip) - 1) \div FlagBits
      PROVE  n < SoaOf(Clip)
  <2>1. CASE n = t \div SoaWidth
    BY <1>4, <2>1
  <2>2. CASE n # t \div SoaWidth
    BY <1>5, <1>6, <1>8, <2>2 DEF HotInv, FlagsInRange
  <2> QED BY <2>1, <2>2
<1>9. HotFollows' /\ FlagsInRange'
  BY <1>0, <1>1, <1>2, <1>7, <1>8, OwnChannel
<1>10. ASSUME NEW c \in 1 .. Channels, c < channel
       PROVE  /\ next'[c] # 0 /\ Settled(c)'
              /\ \A u \in Tracks(Str(c)') : Exact(c, u)'
  BY <1>0, <1>1, <1>2, <1>10, StillDone
<1>11. S' = S
  BY <1>0 DEF S, Clip
<1>12. Progress'
  BY <1>0, <1>10, <1>11 DEF Progress
<1> QED BY <1>9, <1>12 DEF HotInv

LEMMA HotInvNext == CacheInv /\ HotInv /\ [Next]_vars => HotInv'
<1> SUFFICES ASSUME CacheInv, HotInv, [Next]_vars PROVE HotInv'
  OBVIOUS
<1>1. ASSUME NEW soa \in 1 .. MaxSoa, NEW success \in BOOLEAN, Resize(soa, success)
      PROVE  HotInv'
  <2>1. pc' = "idle" /\ next' = [c \in 1 .. Channels |-> 0]
    BY <1>1 DEF Resize, Invalidated
  <2> QED BY <2>1, Dropped DEF HotInv, Progress
<1>2. CASE Invalidate
  <2>1. pc' = "idle" /\ next' = [c \in 1 .. Channels |-> 0]
    BY <1>2 DEF Invalidate, Invalidated
  <2> QED BY <2>1, Dropped DEF HotInv, Progress
<1>3. ASSUME NEW address \in Addresses, NEW clip \in Clips, Recycle(address, clip)
      PROVE  HotInv'
  <2>1. /\ pc' = "idle" /\ reused' = (reused \/ animation = address)
        /\ UNCHANGED <<next, entries, outdated, hot, animation>>
        /\ memory' = [memory EXCEPT ![address] = clip]
    BY <1>3 DEF Recycle, contextVars
  <2>2. ASSUME NEW c \in 1 .. Channels, next[c] # 0, ~reused' PROVE Clip' = Clip
    <3>1. animation \in Addresses /\ animation # address
      BY <2>1, <2>2 DEF CacheInv, TypeOK, InUse
    <3> QED BY <2>1, <3>1 DEF Clip, CacheInv, TypeOK
  <2>3. HotFollows' /\ FlagsInRange'
    BY <2>1, <2>2, CacheAlone
  <2> QED BY <2>1, <2>3 DEF HotInv, Progress
<1>4. ASSUME NEW address \in Addresses, NEW r \in -1 .. Full + 1, Sample(address, r)
      PROVE  HotInv'
  <2>1. pc' = "seek" /\ channel' = 1
    BY <1>4 DEF Sample
  <2>2. HotFollows' /\ FlagsInRange'
    <3>1. CASE SameAnimation(address)
      <4>1. UNCHANGED <<next, entries, outdated, hot, animation, memory, reused>>
        BY <1>4, <3>1 DEF Sample
      <4> QED BY <4>1, CacheAlone DEF Clip
    <3>2. CASE ~SameAnimation(address)
      BY <1>4, <3>2, Dropped DEF Sample
    <3> QED BY <3>1, <3>2
  <2>3. Progress'
    BY <2>1 DEF Progress
  <2> QED BY <2>2, <2>3 DEF HotInv
<1>5. CASE Seek
  <2> PICK ch \in 1 .. Channels : channel = ch
    BY DEF CacheInv, TypeOK
  <2>1. /\ pc = "seek" /\ pc' = "forward"
        /\ UNCHANGED <<memory, animation, ratio, hot, reused, channel>>
    BY <1>5 DEF Seek
  <2>2. CASE UNCHANGED <<next, entries, outdated>>
    <3>1. HotFollows' /\ FlagsInRange'
      BY <2>1, <2>2, CacheAlone DEF Clip
    <3>2. Progress'
      <4>1. /\ next' = [next EXCEPT ![channel] = next'[channel]]
            /\ entries' = [entries EXCEPT ![channel] = entries'[channel]]
            /\ outdated' = [outdated EXCEPT ![channel] = outdated'[channel]]
            /\ hot' = [hot EXCEPT ![channel] = hot'[channel]]
        BY <2>1, <2>2 DEF CacheInv, TypeOK
      <4> QED BY <2>1, <4>1, StillDone DEF Progress
    <3> QED BY <3>1, <3>2 DEF HotInv
  <2>3. ASSUME NEW i \in 0 .. Len(S.iframes),
               next' = [next EXCEPT ![channel] = SeekNext(S, i)],
               entries' = [entries EXCEPT ![channel] = SeekEntries(S, i)],
               outdated' = [outdated EXCEPT ![channel] = AllOutdated(SoaOf(Clip))]
        PROVE  HotInv'
    <3>1. /\ next' = [next EXCEPT ![channel] = next'[channel]]
          /\ entries' = [entries EXCEPT ![channel] = entries'[channel]]
          /\ outdated' = [outdated EXCEPT ![channel] = outdated'[channel]]
          /\ hot' = [hot EXCEPT ![channel] = hot'[channel]]
      BY <2>1, <2>3 DEF CacheInv, TypeOK
    <3>2. outdated'[ch] = AllOutdated(SoaOf(Clip)) /\ DOMAIN outdated[ch] = 0 .. MaxSoa - 1
      BY <2>3 DEF CacheInv, TypeOK
    <3>3. Clip \in Clips /\ SoaOf(Clip) <= MaxSoa /\ S = Str(ch)
      BY <2>1, Sampling, FitsMax DEF S, Str
    <3>4. ASSUME NEW t \in Tracks(Str(ch)) PROVE outdated'[ch][t \div SoaWidth]
      <4>1. /\ t \div SoaWidth \in 0 .. MaxSoa - 1 /\ t \div SoaWidth \in 0 .. SoaOf(Clip) - 1
            /\ SoaOf(Clip) \in Nat
        BY <3>3, BlockOf DEF Str
      <4> QED BY <3>2, <4>1 DEF AllOutdated
    <3>5. ASSUME NEW n \in 0 .. MaxSoa - 1, outdated'[ch][n],
                 n \div FlagBits <= (SoaOf(Clip) - 1) \div FlagBits
          PROVE  n < SoaOf(Clip)
      BY <3>2, <3>5 DEF AllOutdated
    <3>6. HotFollows' /\ FlagsInRange'
      BY <2>1, <3>1, <3>4, <3>5, OwnChannel
    <3>7. Progress'
      BY <2>1, <3>1, StillDone DEF Progress
    <3> QED BY <3>6, <3>7 DEF HotInv
  <2> QED BY <1>5, <2>2, <2>3, Sampling, StreamTypes DEF Seek
<1>7. CASE ReadForward
  <2>1. next' = [next EXCEPT ![channel] = next'[channel]]
    BY <1>7 DEF ReadForward, CacheInv, TypeOK
  <2>2. PICK t \in Tracks(S) :
          /\ entries' = [entries EXCEPT ![channel][t] = next[channel]]
          /\ outdated' = [outdated EXCEPT ![channel][t \div SoaWidth] = TRUE]
    BY <1>7 DEF ReadForward
  <2>3. /\ pc = "forward" /\ pc' = pc
        /\ UNCHANGED <<memory, animation, ratio, hot, reused, channel>>
    BY <1>7 DEF ReadForward
  <2>4. MovedTo(t, next[channel])
    BY <2>1, <2>2, <2>3 DEF MovedTo
  <2> QED BY <2>4, TrackStep
<1>8. CASE EndForward
  <2>1. /\ pc = "forward" /\ pc' = "rewind" /\ ~NeedsKey(S, next[channel], ratio)
        /\ UNCHANGED <<memory, animation, ratio, next, entries, outdated, hot, reused, channel>>
    BY <1>8 DEF EndForward, contextVars
  <2>2. HotFollows' /\ FlagsInRange'
    BY <2>1, CacheAlone DEF Clip
  <2>3. /\ next' = [next EXCEPT ![channel] = next'[channel]]
        /\ entries' = [entries EXCEPT ![channel] = entries'[channel]]
        /\ outdated' = [outdated EXCEPT ![channel] = outdated'[channel]]
        /\ hot' = [hot EXCEPT ![channel] = hot'[channel]]
    BY <2>1 DEF CacheInv, TypeOK
  <2>4. S' = S
    BY <2>1 DEF S, Clip
  <2>5. Progress'
    BY <2>1, <2>3, <2>4, StillDone DEF Progress
  <2> QED BY <2>2, <2>5 DEF HotInv
<1>9. CASE Rewind
  <2>1. /\ WellFormed(S) /\ ratio \in Nat /\ channel \in 1 .. Channels
        /\ next[channel] \in 2 * S.tracks .. S.keys
    BY <1>9, Sampling DEF Rewind, CacheInv, InUse
  <2>2. next[channel] - 1 >= 2 * S.tracks /\ next[channel] - 1 \in Keys(S)
    BY <1>9, <2>1, RewindStops DEF Rewind
  <2>3. Left(S, next[channel] - 1) \in Keys(S)
    BY <2>1, <2>2, LeftKey, StreamTypes DEF Keys
  <2>4. S.ratio[Left(S, next[channel] - 1)] \in Int
    BY <2>1, <2>3, StreamTypes, KeyStreamAssumption
  <2>5. ~NeedsKey(S, next[channel] - 1, ratio)
    BY <1>9, <2>1, <2>4 DEF Rewind, PassedKey, NeedsKey
  <2>6. next'[channel] = next[channel] - 1 /\ next' = [next EXCEPT ![channel] = next'[channel]]
    BY <1>9, <2>1 DEF Rewind, CacheInv, TypeOK
  <2>7. PICK t \in Tracks(S) :
          /\ entries' = [entries EXCEPT ![channel][t] = Left(S, next[channel] - 1)]
          /\ outdated' = [outdated EXCEPT ![channel][t \div SoaWidth] = TRUE]
    BY <1>9 DEF Rewind
  <2>8. /\ pc = "rewind" /\ pc' = pc
        /\ UNCHANGED <<memory, animation, ratio, hot, reused, channel>>
    BY <1>9 DEF Rewind
  <2>9. MovedTo(t, Left(S, next[channel] - 1))
    BY <2>5, <2>6, <2>7, <2>8 DEF MovedTo
  <2> QED BY <2>9, TrackStep
<1>10. CASE EndRewind
  <2>1. /\ pc = "rewind" /\ pc' = "decompress" /\ ~PassedKey(S, next[channel], ratio)
        /\ ~NeedsKey(S, next[channel], ratio)
        /\ UNCHANGED <<memory, animation, ratio, next, entries, outdated, hot, reused, channel>>
    BY <1>10 DEF EndRewind, contextVars, HotInv, Progress
  <2>2. HotFollows' /\ FlagsInRange'
    BY <2>1, CacheAlone DEF Clip
  <2>3. /\ next' = [next EXCEPT ![channel] = next'[channel]]
        /\ entries' = [entries EXCEPT ![channel] = entries'[channel]]
        /\ outdated' = [outdated EXCEPT ![channel] = outdated'[channel]]
        /\ hot' = [hot EXCEPT ![channel] = hot'[channel]]
    BY <2>1 DEF CacheInv, TypeOK
  <2>4. Settled(channel)'
    BY <2>1 DEF Settled, Str, S, Clip
  <2>5. Progress'
    BY <2>1, <2>3, <2>4, StillDone DEF Progress
  <2> QED BY <2>2, <2>5 DEF HotInv
<1>11. CASE Decompress
  <2> PICK ch \in 1 .. Channels : channel = ch
    BY DEF CacheInv, TypeOK
  <2> DEFINE h == [t \in 0 .. MaxTracks - 1 |->
                     IF t < S.tracks /\ outdated[channel][t \div SoaWidth]
                     THEN [of |-> Clip, left |-> Left(S, entries[channel][t]),
                           right |-> entries[channel][t]]
                     ELSE hot[channel][t]]
             o == [i \in 0 .. MaxSoa - 1 |->
                     outdated[channel][i] /\ i \div FlagBits > (SoaOf(Clip) - 1) \div FlagBits]
  <2>1. /\ pc = "decompress"
        /\ hot' = [hot EXCEPT ![ch] = h] /\ outdated' = [outdated EXCEPT ![ch] = o]
        /\ UNCHANGED <<memory, animation, ratio, next, entries, reused>>
        /\ IF ch < Channels THEN channel' = ch + 1 /\ pc' = "seek"
                            ELSE channel' = ch /\ pc' = "interpolate"
    BY <1>11 DEF Decompress
  <2>2. hot'[ch] = h /\ outdated'[ch] = o
    BY <2>1 DEF CacheInv, TypeOK
  <2>3. /\ next' = [next EXCEPT ![channel] = next'[channel]]
        /\ entries' = [entries EXCEPT ![channel] = entries'[channel]]
        /\ outdated' = [outdated EXCEPT ![channel] = outdated'[channel]]
        /\ hot' = [hot EXCEPT ![channel] = hot'[channel]]
    <3> HIDE DEF h, o
    <3> QED BY <2>1, <2>2 DEF CacheInv, TypeOK
  <2>4. /\ Clip \in Clips /\ SoaOf(Clip) <= MaxSoa /\ S = Str(ch)
        /\ WellFormed(S) /\ Tracks(S) \subseteq Indices
    BY <2>1, Sampling, FitsMax DEF S, Str
  <2>5. Live(ch)
    BY <2>1 DEF Live, CacheInv, InUse
  <2>6. Clip' = Clip /\ Str(ch)' = Str(ch) /\ entries'[ch] = entries[ch]
    BY <2>1 DEF Clip, Str
  <2>7. ASSUME NEW t \in Tracks(Str(ch)) PROVE Exact(ch, t)'
    <3>1. t \in 0 .. MaxTracks - 1 /\ t < S.tracks
      BY <2>4, StreamTypes DEF Tracks, Indices
    <3>2. CASE outdated[ch][t \div SoaWidth]
      <4>1. h[t] = [of |-> Clip, left |-> Left(Str(ch), entries[ch][t]), right |-> entries[ch][t]]
        BY <2>4, <3>1, <3>2
      <4> HIDE DEF h
      <4> QED BY <2>2, <2>6, <4>1 DEF Exact
    <3>3. CASE ~outdated[ch][t \div SoaWidth]
      <4>1. Exact(ch, t)
        BY <2>5, <3>3 DEF HotInv, HotFollows
      <4>2. h[t] = hot[ch][t]
        BY <3>1, <3>3
      <4> HIDE DEF h
      <4> QED BY <2>2, <2>6, <4>1, <4>2 DEF Exact
    <3> QED BY <3>2, <3>3
  <2>8. ASSUME NEW i \in 0 .. MaxSoa - 1, outdated'[ch][i],
               i \div FlagBits <= (SoaOf(Clip) - 1) \div FlagBits
        PROVE  FALSE
    <3>1. SoaOf(Clip) \in Int /\ FlagBits \in Nat \ {0}
      BY <2>4, ClipStreams, KeyStreamAssumption, ContextAssumption DEF SoaOf
    <3>2. i \div FlagBits > (SoaOf(Clip) - 1) \div FlagBits
      BY <2>2, <2>8
    <3>3. i \div FlagBits \in Int /\ (SoaOf(Clip) - 1) \div FlagBits \in Int
      BY <3>1
    <3> QED BY <2>8, <3>2, <3>3
  <2>9. HotFollows' /\ FlagsInRange'
    <3> HIDE DEF h, o
    <3> QED BY <2>1, <2>3, <2>7, <2>8, OwnChannel
  <2>10. ASSUME NEW c \in 1 .. Channels, c <= ch
         PROVE  /\ next'[c] # 0 /\ Settled(c)'
                /\ \A t \in Tracks(Str(c)') : Exact(c, t)'
    <3>1. CASE c = ch
      <4>1. next'[ch] # 0 /\ Settled(ch)
        BY <2>1, <2>5 DEF Live, HotInv, Progress
      <4>2. Settled(ch)'
        BY <2>1, <2>6, <4>1 DEF Settled
      <4> QED BY <2>6, <2>7, <3>1, <4>1, <4>2
    <3>2. CASE c # ch
      <4>1. c < channel
        BY <2>10, <3>2
      <4> HIDE DEF h, o
      <4> QED BY <2>1, <2>3, <3>2, <4>1, OtherChannels DEF HotInv, Progress
    <3> QED BY <3>1, <3>2
  <2>11. Progress'
    <3>1. ASSUME NEW c \in 1 .. Channels, c < channel' \/ pc' = "interpolate" PROVE c <= ch
      BY <2>1, <3>1, ContextAssumption
    <3> HIDE DEF h, o
    <3> QED BY <2>1, <2>10, <3>1 DEF Progress
  <2> QED BY <2>9, <2>11 DEF HotInv
<1>12. CASE Interpolate
  <2>1. pc' = "idle" /\ UNCHANGED <<memory, animation, next, entries, outdated, hot, reused>>
    BY <1>12 DEF Interpolate, contextVars
  <2>2. HotFollows' /\ FlagsInRange'
    BY <2>1, CacheAlone DEF Clip
  <2> QED BY <2>1, <2>2 DEF HotInv, Progress
<1>13. CASE UNCHANGED vars
  <2>1. UNCHANGED <<memory, animation, ratio, next, entries, outdated, hot, reused, channel, pc>>
    BY <1>13 DEF vars, contextVars
  <2>2. HotFollows' /\ FlagsInRange'
    BY <2>1, CacheAlone DEF Clip
  <2>3. Progress'
    BY <2>1 DEF HotInv, Progress, Settled, Exact, Str, S, Clip
  <2> QED BY <2>2, <2>3 DEF HotInv
<1> QED
  BY <1>1, <1>2, <1>3, <1>4, <1>5, <1>7, <1>8, <1>9, <1>10, <1>11, <1>12, <1>13 DEF Next

\* Every variable keeps its type; a context's ratio stays in range.
THEOREM TypeCorrect == Spec => []TypeOK
<1>1. CacheInv => TypeOK
  BY DEF CacheInv
<1> QED BY <1>1, CacheInvInit, CacheInvNext, PTL DEF Spec

\* The cache is the one of a sampler that read the keys one by one, whatever
\* seeks, forward reads and rewinds led to it (sampling_job.cc:187-274).
THEOREM CacheCorrect == Spec => []CacheFollowsKeys
<1>1. CacheInv => CacheFollowsKeys
  BY DEF CacheInv
<1> QED BY <1>1, CacheInvInit, CacheInvNext, PTL DEF Spec

\* What sampling_job.cc asserts never fails: a key's track is always found in
\* the cache and only blocks the animation has are decompressed.
THEOREM AssertionsCorrect == Spec => []AssertionsHold
<1>1. CacheInv /\ HotInv => AssertionsHold
  <2> SUFFICES ASSUME CacheInv, HotInv PROVE AssertionsHold
    OBVIOUS
  <2>1. ASSUME pc = "forward", NeedsKey(S, next[channel], ratio)
        PROVE  \E t \in Tracks(S) : TrackOf(Left(S, next[channel]), t)
    <3>1. /\ WellFormed(S) /\ next[channel] \in 2 * S.tracks .. S.keys
          /\ \A u \in Tracks(S) : IsLast(S, u, entries[channel][u], next[channel])
      BY <2>1, Sampling DEF CacheInv, InUse
    <3>2. next[channel] \in Keys(S) /\ next[channel] >= S.tracks
      BY <2>1, <3>1, StreamTypes DEF NeedsKey, Keys
    <3> QED BY <3>1, <3>2, ReadFinds DEF TrackOf
  <2>2. ASSUME pc = "rewind", PassedKey(S, next[channel], ratio)
        PROVE  /\ next[channel] - 1 >= 2 * S.tracks
               /\ \E t \in Tracks(S) : TrackOf(next[channel] - 1, t)
               /\ Left(S, next[channel] - 1) >= S.tracks
    <3>1. /\ WellFormed(S) /\ next[channel] \in 2 * S.tracks .. S.keys /\ ratio \in Nat
          /\ \A u \in Tracks(S) : IsLast(S, u, entries[channel][u], next[channel])
      BY <2>2, Sampling DEF CacheInv, InUse
    <3>2. next[channel] - 1 >= 2 * S.tracks
      BY <2>2, <3>1, RewindStops
    <3> QED BY <3>1, <3>2, RewindFinds DEF TrackOf
  <2>3. ASSUME pc = "decompress", NEW i \in 0 .. MaxSoa - 1, outdated[channel][i],
               i \div FlagBits <= (SoaOf(Clip) - 1) \div FlagBits
        PROVE  i < SoaOf(Clip)
    <3>1. channel \in 1 .. Channels /\ Live(channel)
      BY <2>3, Sampling DEF CacheInv, InUse, Live
    <3> QED BY <2>3, <3>1 DEF HotInv, FlagsInRange
  <2> QED BY <2>1, <2>2, <2>3 DEF AssertionsHold
<1> QED BY <1>1, CacheInvInit, CacheInvNext, HotInvInit, HotInvNext, PTL DEF Spec

\* Sampling has no memory: whatever the context was used for before, the keys
\* interpolated between are the ones that surround the ratio (zozzSample).
THEOREM SamplesCorrect == Spec => []SampledKeysSurround
<1>1. CacheInv /\ HotInv => SampledKeysSurround
  <2> SUFFICES ASSUME CacheInv, HotInv, pc = "interpolate",
                      NEW c \in 1 .. Channels, NEW t \in Tracks(Stream[Clip][c])
               PROVE  /\ hot[c][t] # Garbage
                      /\ hot[c][t].of = Clip
                      /\ Surround(Stream[Clip][c], t, hot[c][t].left, hot[c][t].right, ratio)
    BY DEF SampledKeysSurround
  <2>1. Clip \in Clips /\ ratio \in Nat /\ ~reused
    BY Sampling DEF CacheInv, InUse
  <2>2. next[c] # 0 /\ Settled(c) /\ Exact(c, t)
    BY DEF HotInv, Progress, Str
  <2>3. /\ next[c] \in 2 * Str(c).tracks .. Str(c).keys
        /\ IsLast(Str(c), t, entries[c][t], next[c])
    BY <2>1, <2>2 DEF CacheInv, CacheFollowsKeys, Str
  <2>4. WellFormed(Str(c))
    BY <2>1, ClipStreams DEF Str
  <2>5. Surround(Str(c), t, Left(Str(c), entries[c][t]), entries[c][t], ratio)
    BY <2>1, <2>2, <2>3, <2>4, SettledSurrounds DEF Settled, Str
  <2>6. hot[c][t] = [of |-> Clip, left |-> Left(Str(c), entries[c][t]),
                     right |-> entries[c][t]]
    BY <2>2 DEF Exact
  <2>7. hot[c][t] # Garbage
    <3>1. entries[c][t] \in Int /\ Left(Str(c), entries[c][t]) \in Int
      BY <2>3, <2>5 DEF Surround, IsLast, Keys
    <3>2. hot[c][t] \in [of : Clips, left : Int, right : Int]
      BY <2>1, <2>6, <3>1
    <3> QED BY <3>2, ContextAssumption
  <2> QED BY <2>5, <2>6, <2>7 DEF Str
<1> QED BY <1>1, CacheInvInit, CacheInvNext, HotInvInit, HotInvNext, PTL DEF Spec
=============================================================================
