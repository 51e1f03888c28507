-------------------------- MODULE AnimationBuilder -------------------------
(***************************************************************************)
(* From a raw animation to a runtime one: a host authors it (RawAuthoring) *)
(* or imports it from a glTF document (GltfImport) and builds it           *)
(* (zozzAnimationBuild, animation_builder.cc).  The builder sorts          *)
(* the keys of each channel, injects keys until each is close enough in    *)
(* the array to the one before it on its track for the offset between them *)
(* to fit the runtime format, and writes the animation (AnimationStorage). *)
(*                                                                         *)
(* A key's place depends on times and tracks only; values are left out.    *)
(***************************************************************************)
EXTENDS KeySorting, AnimationStorage, RawAuthoring, GltfImport

CONSTANTS
    Raws,                \* the raw animations a host begins with
    Drafts,              \* those it goes on editing
    Documents,           \* the glTF documents it may load instead
    Periods,             \* between two samples of a spline
    IFrameDivs,          \* how many parts iframes divide an animation into
    MaxPreviousOffset,   \* kMaxPreviousOffset, 2^16 - 1 in the code
    MaxKeys              \* bound on the number of sorted keys of a channel

ASSUME BuilderAssumption ==
    /\ IFrameDivs \subseteq Nat /\ Periods \subseteq Nat \ {0}
    /\ Paths = 1 .. Channels
    /\ MaxPreviousOffset \in Nat /\ MaxKeys \in Nat
    /\ MaxPreviousOffset >= AlignedTracks(MaxJoints)
    /\ AlignedTracks(MaxJoints) <= ByteBase * ByteBase
    /\ \A animation \in Raws : IsRaw(animation) /\ DOMAIN animation.tracks # {}
    /\ \A given \in Documents : IsDocument(given)

VARIABLES
    divs,         \* how many iframes are asked for, 0 for none
    sorted,       \* the keys of each channel, in their present order
    channel,      \* the channel that is sorted
    previouses,   \* Sort: the last two keys met of each track; -1 if none
    i,            \* Sort: the next key to look at
    pc,           \* "load" and "import", or "author"; "sort", "frame", "write"; "built" or
                  \* "failed" when the build returns; "refused" when an import has failed
    document,     \* the document that is imported, <<>> for none
    motion,       \* history: the animation as imported, with its values
    animation,    \* the runtime animation
    streams       \* history: the streams the animation was written from

builderVars == <<divs, sorted, channel, previouses, i, pc, animation, streams>>
importVars == <<document, motion>>
vars == <<authoringVars, builderVars, importVars>>

NumTracks == AlignedTracks(Cardinality(DOMAIN raw.tracks))
NoPrevious == [t \in 0 .. NumTracks - 1 |-> [first |-> -1, second |-> -1]]
Unbuilt == <<>>

NothingImported == [duration |-> Full, name |-> <<>>, tracks |-> [joint \in {} |-> <<>>]]

\* The keys a host pushed first are given, in any order in which it may have.
Init ==
    /\ \/ /\ raw \in Raws /\ edits = IF raw \in Drafts THEN MaxEdits ELSE 0
          /\ document = <<>> /\ pc = "author"
       \/ /\ raw = NothingImported /\ edits = 0
          /\ document \in Documents /\ pc = "load"
    /\ motion = <<>>
    /\ divs \in IFrameDivs
    /\ sorted = <<>> /\ channel = 1
    /\ previouses = NoPrevious
    /\ i = 0
    /\ animation = Unbuilt /\ streams = <<>>

ChannelOf(c) == [joint \in DOMAIN raw.tracks |-> raw.tracks[joint][c]]

-----------------------------------------------------------------------------
(* The import.                                                             *)

\* zozzGltfImporterCreate.
GltfLoad ==
    /\ pc = "load"
    /\ document' = FixupNames(document)
    /\ pc' = "import"
    /\ UNCHANGED <<authoringVars, motion, divs, sorted, channel, previouses, i, animation, streams>>

\* The names of the joints of the runtime skeleton made of the imported one.
JointNames ==
    LET skeleton == Built(Flatten(ImportedSkeleton(document)))
    IN  [joint \in DOMAIN skeleton.names |-> skeleton.names[joint]]

\* The keys of an imported animation without their values.
TimesOf(imported) ==
    [duration |-> imported.duration, name |-> document.name,
     tracks |-> [joint \in DOMAIN imported.tracks |->
                    [path \in Paths |->
                        LET keys == imported.tracks[joint][path]
                        IN  [k \in DOMAIN keys |-> keys[k].time]]]]

\* What an import succeeds for; a document without a scene's nodes has no skeleton.
Imports(period) ==
    /\ document.scene # <<>>
    /\ ImportsChannels(document, JointNames, period)
    /\ Validate(TimesOf(ImportedAnimation(document, JointNames, period)))

\* zozzImporterImportSkeleton, zozzSkeletonBuild and zozzImporterImportAnimation.
GltfImportAnimation(period) ==
    /\ pc = "import"
    /\ IF Imports(period)
       THEN /\ motion' = ImportedAnimation(document, JointNames, period)
            /\ raw' = TimesOf(motion')
            /\ pc' = "author"
       ELSE /\ pc' = "refused"
            /\ UNCHANGED <<motion, raw>>
    /\ UNCHANGED <<edits, document, divs, sorted, channel, previouses, i, animation, streams>>

-----------------------------------------------------------------------------
(* The build.                                                              *)

\* zozzAnimationBuild: an animation that is not valid is refused, and stays.
AnimationBuild ==
    /\ pc = "author"
    /\ Validate(raw)
    /\ pc' = "sort"
    /\ sorted' = [c \in 1 .. Channels |-> SortedKeys(ChannelOf(c), raw.duration)]
    /\ previouses' = NoPrevious
    /\ UNCHANGED <<authoringVars, importVars, divs, channel, i, animation, streams>>

-----------------------------------------------------------------------------
(* Sort.                                                                   *)

Key(n) == sorted[channel][n + 1]

\* Mutant: one more than the format has room for.
TooFarByOne ==
    LET previous == previouses[Key(i).track]
    IN  previous.first # -1 /\ i - previous.first > MaxPreviousOffset + 1

TooFar ==
    LET previous == previouses[Key(i).track]
    IN  previous.first # -1 /\ i - previous.first > MaxPreviousOffset

\* Puts a key into a sorted sequence, after those it is not less than.
Place(keys, key) ==
    InsertAt(keys, 1 + Cardinality({n \in DOMAIN keys : ~SortingKeyLess(key, keys[n])}), key)

\* Mutant: the new key at twice its time.
InsertedKeyUnhalved(penultimate, last) ==
    [track |-> last.track, prev |-> penultimate.time, time |-> penultimate.time + last.time]

\* The key half-way between two; times are floats in the code, so that halves
\* are rounded there as they are here.
InsertedKey(penultimate, last) ==
    [track |-> last.track, prev |-> penultimate.time,
     time |-> (penultimate.time + last.time) \div 2]

\* Mutants: only copies of the keys are changed; the moved key still follows the
\* old one and is gone.
InjectedNowhere(first, second) == sorted[channel]
InjectedUnlinked(first, second) ==
    LET insert == InsertedKey(Key(second), Key(first))
    IN  Place(sorted[channel], [insert EXCEPT !.prev = insert.time])

\* The new key takes the place of the one at `first`, which now follows it and
\* moves to where that puts it.
Injected(first, second) ==
    LET insert == InsertedKey(Key(second), Key(first))
        last   == [Key(first) EXCEPT !.prev = insert.time]
    IN  Place(Place(RemoveAt(sorted[channel], first + 1), insert), last)

\* One key that is close enough to the one before it.
Scan ==
    /\ pc = "sort" /\ i < Len(sorted[channel])
    /\ ~TooFar
    /\ previouses' = [previouses EXCEPT ![Key(i).track] = [first |-> i, second |-> @.first]]
    /\ i' = i + 1
    /\ UNCHANGED <<authoringVars, importVars, divs, sorted, channel, pc, animation, streams>>

\* One that is not: the segment before it is cut in two and the scan restarts.
Inject ==
    /\ pc = "sort" /\ i < Len(sorted[channel])
    /\ TooFar
    /\ Len(sorted[channel]) < MaxKeys
    /\ LET previous == previouses[Key(i).track]
       IN  sorted' = [sorted EXCEPT ![channel] = Injected(previous.first, previous.second)]
    /\ previouses' = NoPrevious
    /\ i' = 0
    /\ UNCHANGED <<authoringVars, importVars, divs, channel, pc, animation, streams>>

\* The next channel.
NextChannel ==
    /\ pc = "sort" /\ i = Len(sorted[channel]) /\ channel < Channels
    /\ channel' = channel + 1
    /\ previouses' = NoPrevious
    /\ i' = 0
    /\ UNCHANGED <<authoringVars, importVars, divs, sorted, pc, animation, streams>>

-----------------------------------------------------------------------------
(* The animation.                                                          *)

AllTimes == UNION {{sorted[c][n].time : n \in DOMAIN sorted[c]} : c \in 1 .. Channels}

\* BuildTimePoints: the times of all channels, injected keys included, once each, sorted.
BuildTimePoints ==
    LET Rank(time) == Cardinality({u \in AllTimes : u < time})
    IN  [n \in 1 .. Cardinality(AllTimes) |-> CHOOSE time \in AllTimes : Rank(time) = n - 1]

StreamOf(c) ==
    Compress(sorted[c], NumTracks, raw.duration,
             BuildIFrames(sorted[c], NumTracks, raw.duration, divs))

\* The animation written from the streams of all channels.
Written(ss, times) ==
    LET TimeOf(c) == [n \in DOMAIN sorted[c] |-> sorted[c][n].time]
    IN  [duration   |-> raw.duration,
         num_tracks |-> Cardinality(DOMAIN raw.tracks),
         name       |-> raw.name,
         timepoints |-> [n \in DOMAIN times |-> RatioOf(times[n], raw.duration)],
         ctrl       |-> [c \in 1 .. Channels |-> StoredCtrl(ss[c], TimeOf(c), times, MaxPreviousOffset)],
         values     |-> [c \in 1 .. Channels |-> StoredValues(ss[c])]]

\* Every channel is sorted: there may be more time points than can be indexed, which
\* the host is told as if memory were short.
TakeTimePoints ==
    /\ pc = "sort" /\ i = Len(sorted[channel]) /\ channel = Channels
    /\ pc' = IF Len(BuildTimePoints) > MaxTimePoints THEN "failed" ELSE "frame"
    /\ UNCHANGED <<authoringVars, importVars, divs, sorted, channel, previouses, i, animation, streams>>

\* The iframes of every channel are taken.
TakeIFrames ==
    /\ pc = "frame"
    /\ streams' = [c \in 1 .. Channels |-> StreamOf(c)]
    /\ pc' = "write"
    /\ UNCHANGED <<authoringVars, importVars, divs, sorted, channel, previouses, i, animation>>

\* The animation is allocated and written.
Write ==
    /\ pc = "write"
    /\ animation' = Written(streams, BuildTimePoints)
    /\ pc' = "built"
    /\ UNCHANGED <<authoringVars, importVars, divs, sorted, channel, previouses, i, streams>>

Sorting == Scan \/ Inject \/ NextChannel \/ TakeTimePoints

Next ==
    \/ GltfLoad
    \/ \E period \in Periods : GltfImportAnimation(period)
    \/ pc = "author" /\ Author /\ UNCHANGED <<builderVars, importVars>>
    \/ AnimationBuild
    \/ Sorting
    \/ TakeIFrames
    \/ Write

\* The builder is one call that runs on; only its loops could keep it from ending.
Spec == Init /\ [][Next]_vars /\ WF_vars(Sorting)

-----------------------------------------------------------------------------
(* Properties.                                                             *)

SortingKey == [track : 0 .. NumTracks - 1, prev : -1 .. raw.duration - 1, time : 0 .. raw.duration]

\* The type of every variable; no key is outside the animation.
TypeOK ==
    /\ IsRaw(raw)
    /\ edits \in 0 .. MaxEdits
    /\ divs \in IFrameDivs
    /\ pc \in {"load", "import", "refused", "author", "sort", "frame", "write", "built", "failed"}
    /\ channel \in 1 .. Channels
    /\ sorted = <<>> <=> pc \in {"load", "import", "refused", "author"}
    /\ motion # <<>> => document # <<>>
    /\ sorted # <<>> =>
          /\ \A c \in 1 .. Channels : \A n \in DOMAIN sorted[c] : sorted[c][n] \in SortingKey
          /\ i \in 0 .. Len(sorted[channel])
          /\ \A t \in 0 .. NumTracks - 1 :
                previouses[t] \in [first : -1 .. Len(sorted[channel]) - 1,
                                   second : -1 .. Len(sorted[channel]) - 1]
    /\ pc # "built" <=> animation = Unbuilt
    /\ pc \in {"write", "built"} <=> streams # <<>>

\* A document is imported as it is, or refused for a reason: its nodes have names of
\* their own by which channels find their joints, its skeletons become one that has
\* every node once, and read back at any time, from a step to the next included, the
\* animation is the document's motion (gltf2ozz.cc:166-357, 593-769).
ImportKeepsMotion ==
    /\ pc = "import" => JointsAreNodes(document)
    /\ pc = "author" /\ motion # <<>> => MovesAsNodes(document, JointNames, motion)
    /\ pc = "refused" => ~Proper(document)

\* However many keys are injected, the keys stay in order, every key that was authored
\* is still there, and every key's previous time is the time of the key before it on
\* its track, or -1 for the first: the time tracks the sampler follows stay unbroken.
ChainIntact ==
    sorted # <<>> =>
        \A c \in 1 .. Channels :
            /\ InOrder(sorted[c])
            /\ \A t \in 0 .. NumTracks - 1 :
                LET keys  == {n \in DOMAIN sorted[c] : sorted[c][n].track = t}
                    times == {sorted[c][n].time : n \in keys}
                    Previous(time) == Max({-1} \cup {u \in times : u < time})
                IN  /\ ToSet(CopyRaw(IF t \in DOMAIN raw.tracks THEN raw.tracks[t][c] ELSE <<>>,
                                     raw.duration)) \subseteq times
                    /\ \A n \in keys : sorted[c][n].prev = Previous(sorted[c][n].time)

\* No two time points have the same ratio.
RatiosApart == \A t, u \in AllTimes : t # u => RatioOf(t, raw.duration) # RatioOf(u, raw.duration)

\* Whatever was authored, what an animation is written from are streams the sampler
\* can rely on, unless times are so close that their ratios are rounded to the same.
BuiltWellFormed ==
    pc = "write" /\ RatiosApart => \A c \in 1 .. Channels : WellFormed(streams[c])

\* What may follow the last iframe in memory.
Followers == {[n \in 1 .. 3 |-> b] : b \in {0, ByteBase - 1}}

\* What is read back, from memory or from an archive, are those streams, although
\* offsets, indices and iframes are stored in fewer bits than they are computed in:
\* every key has its own time and its own previous key, every iframe the keys it was
\* taken at, whatever lies behind them in memory; and the encoder kept to its buffer
\* and the spans to their alignment (animation.cc:61-123, group_varint.cc:76-116).
RuntimeReadsBack ==
    pc = "built" =>
        /\ \A c \in 1 .. Channels, after \in Followers : ReadBack(animation, c, after) = streams[c]
        /\ Load(Save(animation)) = animation
        /\ Allocated(animation)
        /\ \A c \in 1 .. Channels : \A n \in DOMAIN streams[c].iframes :
              EncodedInside(Row(streams[c].iframes[n].entries))

\* zozz_animation.h counts the "distinct time points shared across the clip's
\* keyframes": two times that are apart stay apart as ratios.
DistinctTimePoints ==
    pc = "built" => \A n \in 2 .. Len(animation.timepoints) :
                       animation.timepoints[n - 1] # animation.timepoints[n]

\* Injecting keys comes to an end (animation_builder.cc:133).
Termination == pc = "sort" ~> pc \in {"frame", "failed"}
=============================================================================
