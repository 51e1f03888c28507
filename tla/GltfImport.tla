----------------------------- MODULE GltfImport ----------------------------
(***************************************************************************)
(* What the glTF importer (gltf2ozz.cc) makes of a document: names that    *)
(* are unique, a skeleton of the joints its skins use, and a raw animation *)
(* in the order of that skeleton.                                          *)
(*                                                                         *)
(* A document, as the parser leaves it, is a record                        *)
(*   nodes     [name, children, rest]: a name is a sequence of its parts,  *)
(*             children are nodes, and rest is a value for each path       *)
(*   scene     the root nodes of the default scene                         *)
(*   skins     [joints, skeleton]: nodes, and the root node or NoNode      *)
(*   channels  [node, path, interpolation, times, max, values] of the      *)
(*             animation; no two have the same node and path.  times are   *)
(*             empty where the input is not of the right type              *)
(*   name      of the animation                                            *)
(* Nodes are numbered from 1 and form trees.  The least difference of two  *)
(* times is that of two neighbouring floats.                               *)
(***************************************************************************)
EXTENDS Integers, Skeletons, FiniteSetsExt

CONSTANTS
    Paths,      \* "translation", "rotation" and "scale"
    NoNode,     \* -1
    Prefix      \* "node_"

Nodes(document) == DOMAIN document.nodes
NameOf(document, node) == document.nodes[node].name
ChildrenOf(document, node) == document.nodes[node].children

\* Every node is listed as a child once at most, and none is below itself.
NodesFormTrees(document) ==
    /\ \A p, q \in Nodes(document) :
          \A j \in DOMAIN ChildrenOf(document, p), k \in DOMAIN ChildrenOf(document, q) :
             ChildrenOf(document, p)[j] = ChildrenOf(document, q)[k] => p = q /\ j = k
    /\ \E depth \in [Nodes(document) -> Nodes(document)] :
          \A n \in Nodes(document) : \A c \in ToSet(ChildrenOf(document, n)) : depth[n] < depth[c]

\* What the parser has checked, and what glTF requires.
IsDocument(document) ==
    /\ document = [nodes |-> document.nodes, scene |-> document.scene, skins |-> document.skins,
                   channels |-> document.channels, name |-> document.name]
    /\ document.name \in Seq(ToSet(document.name))
    /\ document.nodes \in Seq(ToSet(document.nodes)) /\ document.channels \in Seq(ToSet(document.channels))
    /\ \A n \in Nodes(document) :
          /\ document.nodes[n] = [name |-> NameOf(document, n), children |-> ChildrenOf(document, n),
                                  rest |-> document.nodes[n].rest]
          /\ ChildrenOf(document, n) \in Seq(Nodes(document))
    /\ NodesFormTrees(document)
    /\ \A channel \in ToSet(document.channels) : channel.times \in Seq(Int) /\ channel.max \in Int

-----------------------------------------------------------------------------
(***************************************************************************)
(* Reading raw animations (raw_animation_utils.cc): a channel of a track   *)
(* at a time, and times at a fixed rate.  A track is a sequence of keys    *)
(* [time, value] in ascending order, a value a rational number, written as *)
(* a pair.                                                                 *)
(***************************************************************************)
Same(v, w) == v[1] * w[2] = w[1] * v[2]

\* What a linear function that is v at 0 and w at `length` is at `at`.
Lerp(v, w, at, length) ==
    <<v[1] * w[2] * (length - at) + w[1] * v[2] * at, v[2] * w[2] * length>>

\* SampleComponent: the first key is held before it and the last one after it.
SampleComponent(track, time) ==
    IF time <= Head(track).time THEN Head(track).value
    ELSE IF time >= track[Len(track)].time THEN track[Len(track)].value
    ELSE LET right == Min({k \in DOMAIN track : track[k].time >= time})
             l == track[right - 1]
             r == track[right]
         IN  Lerp(l.value, r.value, time - l.time, r.time - l.time)

\* FixedRateSamplingTime: the times are 0, period, 2 * period and so on up to the
\* duration.
FixedRateTimes(duration, period) ==
    LET num_keys == 1 + (duration + period - 1) \div period
    IN  [k \in 1 .. num_keys |-> Min({(k - 1) * period, duration})]

-----------------------------------------------------------------------------
(* Names.                                                                  *)

\* A name with as many suffixes as it takes.
Renamed(taken, name, number) ==
    LET Suffixed(n) == name \o [k \in 1 .. n |-> number]
    IN  Suffixed(Min({n \in 0 .. Cardinality(taken) : Suffixed(n) \notin taken}))

\* FixupNames, for nodes.
FixupNames(document) ==
    LET names[n \in 0 .. Len(document.nodes)] ==
            IF n = 0 THEN <<>>
            ELSE LET name == IF NameOf(document, n) = <<>> THEN <<Prefix, n - 1>> ELSE NameOf(document, n)
                 IN  Append(names[n - 1], Renamed(ToSet(names[n - 1]), name, n - 1))
    IN  [document EXCEPT !.nodes =
            [n \in DOMAIN @ |-> [@[n] EXCEPT !.name = names[Len(document.nodes)][n]]]]

-----------------------------------------------------------------------------
(* The skeleton.                                                           *)

\* ImportNode: a node, then what is below each of its children.
BelowNode(document) ==
    LET Below[n \in Nodes(document)] ==
            LET kids == ChildrenOf(document, n)
            IN  <<n>> \o FlattenSeq([k \in DOMAIN kids |-> Below[kids[k]]])
    IN  Below

ParentNode(document) ==
    [n \in Nodes(document) |->
        LET above == {p \in Nodes(document) : n \in ToSet(ChildrenOf(document, p))}
        IN  IF above = {} THEN NoNode ELSE Max(above)]

InScene(document) == UNION {ToSet(BelowNode(document)[n]) : n \in ToSet(document.scene)}

\* GetSkinsForScene: a skin belongs to the scene its first joint is in.
SkinsForScene(document) ==
    SelectSeq(document.skins,
              LAMBDA skin : skin.joints # <<>> /\ Head(skin.joints) \in InScene(document))

\* Where the way up from a node ends: at its topmost ancestor, or at no node if it
\* meets one that was visited.
Climb(document, visited) ==
    LET Top[n \in Nodes(document)] ==
            IF n \in visited THEN NoNode
            ELSE LET p == ParentNode(document)[n]
                 IN  IF p = NoNode THEN n ELSE Top[p]
    IN  Top

\* FindSkinRootJointIndices: the skeleton of a skin, which is marked visited, or the top
\* of its first joint.
FindSkinRoots(document, skins) ==
    LET Add(acc, skin) ==
            IF skin.skeleton # NoNode
            THEN [visited |-> acc.visited \cup {skin.skeleton}, roots |-> acc.roots \cup {skin.skeleton}]
            ELSE [acc EXCEPT !.roots = @ \cup ({Climb(document, acc.visited)[Head(skin.joints)]} \ {NoNode})]
    IN  FoldLeft(Add, [visited |-> {}, roots |-> {}], skins).roots

Roots(document) ==
    IF SkinsForScene(document) = <<>> THEN ToSet(document.scene)
    ELSE FindSkinRoots(document, SkinsForScene(document))

\* A root and what is below it, added to a list of joints.
AddRoot(document, listed, root) ==
    LET below == BelowNode(document)[root]
    IN  listed \o [k \in DOMAIN below |->
            [name   |-> NameOf(document, below[k]),
             parent |-> IF k = 1 THEN NoParent
                        ELSE Len(listed) + PlaceIn(below, ParentNode(document)[below[k]])]]

\* Import, for a skeleton: the roots in the order of their numbers, once each.
ImportedSkeleton(document) ==
    LET Listed[n \in 0 .. Len(document.nodes)] ==
            IF n = 0 THEN <<>>
            ELSE IF n \in Roots(document) THEN AddRoot(document, Listed[n - 1], n)
            ELSE Listed[n - 1]
    IN  Listed[Len(document.nodes)]

-----------------------------------------------------------------------------
(* Channels.                                                               *)

Exact(v) == <<v, 1>>

Interpolations == {"LINEAR", "STEP", "CUBICSPLINE"}

\* A cubic-spline channel has a tangent before and one after every value.
PerKey(channel) == IF channel.interpolation = "CUBICSPLINE" THEN 3 ELSE 1

\* "inconsistent number of keys"
Consistent(channel) == Len(channel.times) * PerKey(channel) = Len(channel.values)

SampleLinearChannel(channel) ==
    [k \in DOMAIN channel.times |-> [time |-> channel.times[k], value |-> Exact(channel.values[k])]]

\* nexttowardf
NextToZero(time) == IF time > 0 THEN time - 1 ELSE 0

\* Mutant: a step ends at the time of the next one.
StepKeysTouching(channel, k) ==
    LET Key(time) == [time |-> time, value |-> Exact(channel.values[k])]
    IN  <<Key(channel.times[k])>>
        \o IF k < Len(channel.times) THEN <<Key(channel.times[k + 1])>> ELSE <<>>

\* A step is two keys, the last one a single key.
StepKeys(channel, k) ==
    LET Key(time) == [time |-> time, value |-> Exact(channel.values[k])]
    IN  <<Key(channel.times[k])>>
        \o IF k < Len(channel.times) THEN <<Key(NextToZero(channel.times[k + 1]))>> ELSE <<>>

SampleStepChannel(channel) ==
    FlattenSeq([k \in DOMAIN channel.times |-> StepKeys(channel, k)])

\* SampleHermiteSpline at u of T, for tangents per time.
Hermite(u, T, p0, m0, p1, m1) ==
    <<(2 * u^3 - 3 * u^2 * T + T^3) * p0 + (u^3 - 2 * u^2 * T + u * T^2) * T * m0
      + (3 * u^2 * T - 2 * u^3) * p1 + (u^3 - u^2 * T) * T * m1, T^3>>

\* Samples at a fixed rate between the first and the last time; the value at a time is
\* taken from the first segment that reaches it.
SampleCubicSplineChannel(channel, period) ==
    LET ts  == channel.times
        fixed_it == FixedRateTimes(Last(ts) - Head(ts), period)
        Segment(time) == Min({k \in 1 .. Len(ts) - 1 : ts[k + 1] >= time})
        ValueAt(time, k) ==
            Hermite(time - ts[k], ts[k + 1] - ts[k],
                    channel.values[3 * k - 1], channel.values[3 * k],
                    channel.values[3 * k + 2], channel.values[3 * k + 1])
    IN  [n \in DOMAIN fixed_it |->
            LET time == fixed_it[n] + Head(ts)
            IN  [time |-> time, value |-> ValueAt(time, Segment(time))]]

\* The keys of a channel before they are looked at.
SampledKeys(channel, period) ==
    IF channel.values = <<>> THEN <<>>
    ELSE CASE channel.interpolation = "LINEAR" -> SampleLinearChannel(channel)
           [] channel.interpolation = "STEP"   -> SampleStepChannel(channel)
           [] channel.interpolation = "CUBICSPLINE" -> SampleCubicSplineChannel(channel, period)

TimesAscend(keys) == \A k \in 2 .. Len(keys) : keys[k - 1].time <= keys[k].time

\* Of keys at the same time the first one stays.
FirstOfEach(keys) ==
    LET Kept[n \in 0 .. Len(keys)] ==
            IF n = 0 THEN <<>>
            ELSE IF n = 1 \/ keys[n - 1].time # keys[n].time THEN Append(Kept[n - 1], keys[n])
            ELSE Kept[n - 1]
    IN  Kept[Len(keys)]

\* Whether SampleChannel takes a channel at all.
Samples(channel, period) ==
    \/ channel.times = <<>>
    \/ /\ channel.interpolation \in Interpolations
       /\ channel.values = <<>> \/ (Consistent(channel) /\ TimesAscend(SampledKeys(channel, period)))

-----------------------------------------------------------------------------
(* The animation.                                                          *)

\* The channels of a joint, which is a node by its name; those that target no node or
\* no path of joints are left out.
ChannelsOf(document, name) ==
    {channel \in ToSet(document.channels) :
        /\ channel.node # NoNode /\ channel.path \in Paths
        /\ NameOf(document, channel.node) = name}

RestPoseKey(document, name, path) ==
    LET node == CHOOSE n \in Nodes(document) : NameOf(document, n) = name
    IN  [time |-> 0, value |-> Exact(document.nodes[node].rest[path])]

\* The keys of one path of a joint: those of its channel, or the rest pose's.
TrackOf(document, name, path, period) ==
    LET readable == {channel \in ChannelsOf(document, name) : channel.path = path /\ channel.times # <<>>}
        keys == IF readable = {} THEN <<>>
                ELSE FirstOfEach(SampledKeys(CHOOSE channel \in readable : TRUE, period))
    IN  IF keys = <<>> THEN <<RestPoseKey(document, name, path)>> ELSE keys

\* Import, for an animation and a skeleton with these joint names. It lasts as long as
\* the longest channel of a joint says.
ImportedAnimation(document, names, period) ==
    LET lengths == UNION {{channel.max : channel \in ChannelsOf(document, names[j])} : j \in DOMAIN names}
    IN  [duration |-> Max({0} \cup lengths),
         tracks   |-> [j \in DOMAIN names |->
                          [path \in Paths |-> TrackOf(document, names[j], path, period)]]]

\* Whether all channels of the joints are taken.
ImportsChannels(document, names, period) ==
    \A j \in DOMAIN names : \A channel \in ChannelsOf(document, names[j]) : Samples(channel, period)

-----------------------------------------------------------------------------
(* What an import should give.                                             *)

\* The roots of the skeleton: those of the skins of the scene, without skins all roots
\* of the scene.
WantedRoots(document) ==
    LET skins == ToSet(SkinsForScene(document))
        TopOf(node) == CHOOSE top \in Nodes(document) :
                          /\ ParentNode(document)[top] = NoNode
                          /\ node \in SubtreeOf(ParentNode(document), top)
    IN  IF skins = {} THEN ToSet(document.scene)
        ELSE {IF skin.skeleton # NoNode THEN skin.skeleton ELSE TopOf(Head(skin.joints)) : skin \in skins}

\* No root is below another one, as the comments at gltf2ozz.cc:516 and :592 have it.
RootsApart(document) ==
    \A r, q \in WantedRoots(document) : r # q => q \notin SubtreeOf(ParentNode(document), r)

\* Every node at or below a root is one joint, below the joint of its parent.
JointsAreNodes(document) ==
    LET listed == ImportedSkeleton(document)
        wanted == UNION {SubtreeOf(ParentNode(document), r) : r \in WantedRoots(document)}
        Above(n) == IF ParentNode(document)[n] \in wanted
                    THEN NameOf(document, ParentNode(document)[n]) ELSE <<>>
        ListedAbove(k) == IF listed[k].parent = NoParent THEN <<>> ELSE listed[listed[k].parent + 1].name
    IN  /\ \A m, n \in Nodes(document) : m # n => NameOf(document, m) # NameOf(document, n)
        /\ RootsApart(document) =>
              /\ Len(listed) = Cardinality(wanted)
              /\ {<<listed[k].name, ListedAbove(k)>> : k \in DOMAIN listed}
                    = {<<NameOf(document, n), Above(n)>> : n \in wanted}

StrictlyAscending(times) == \A k \in 2 .. Len(times) : times[k - 1] < times[k]

\* A cubic that leaves p0 at m0 and reaches p1 at m1, drawn between its control points.
Bezier(u, T, p0, m0, p1, m1) ==
    <<(T - u)^3 * p0 + (T - u)^2 * u * (3 * p0 + T * m0)
      + (T - u) * u^2 * (3 * p1 - T * m1) + u^3 * p1, T^3>>

\* The curve of a channel, as glTF defines it, at a time.
CurveAt(channel, time) ==
    LET ts == channel.times
        k == Max({n \in DOMAIN ts : ts[n] <= time})
        Point(n) == channel.values[IF channel.interpolation = "CUBICSPLINE" THEN 3 * n - 1 ELSE n]
        InTangent(n) == channel.values[3 * n - 2]
        OutTangent(n) == channel.values[3 * n]
        at == time - ts[k]
        length == ts[k + 1] - ts[k]
    IN  IF time <= Head(ts) THEN Exact(Point(1))
        ELSE IF time >= Last(ts) THEN Exact(Point(Len(ts)))
        ELSE CASE channel.interpolation = "LINEAR" -> Lerp(Exact(Point(k)), Exact(Point(k + 1)), at, length)
               [] channel.interpolation = "STEP" -> Exact(Point(k))
               [] channel.interpolation = "CUBICSPLINE" ->
                     Bezier(at, length, Point(k), OutTangent(k), Point(k + 1), InTangent(k + 1))

\* A track follows the curve of a channel, a spline where it is sampled.
FollowsCurve(track, channel, duration) ==
    LET keys == {track[k].time : k \in DOMAIN track}
        times == IF channel.interpolation = "CUBICSPLINE" THEN keys ELSE 0 .. duration
    IN  /\ {Head(channel.times), Last(channel.times)} \subseteq keys
        /\ \A time \in times : Same(SampleComponent(track, time), CurveAt(channel, time))

\* Every joint moves as its node does: along the curve of the channel that targets it,
\* or not at all.
MovesAsNodes(document, names, imported) ==
    \A j \in DOMAIN names, path \in Paths :
        LET node == CHOOSE n \in Nodes(document) : NameOf(document, n) = names[j]
            curves == {channel \in ToSet(document.channels) :
                          /\ channel.node = node /\ channel.path = path
                          /\ channel.times # <<>> /\ channel.values # <<>>}
            track == imported.tracks[j][path]
        IN  /\ curves = {} => \A time \in 0 .. imported.duration :
                  Same(SampleComponent(track, time), Exact(document.nodes[node].rest[path]))
            /\ \A channel \in curves :
                  StrictlyAscending(channel.times) => FollowsCurve(track, channel, imported.duration)

\* A document there is no reason to refuse.
Proper(document) ==
    LET joints == UNION {SubtreeOf(ParentNode(document), r) : r \in WantedRoots(document)}
    IN  /\ document.scene # <<>>
        /\ \A channel \in ToSet(document.channels) :
              /\ channel.times # <<>> /\ StrictlyAscending(channel.times)
              /\ Head(channel.times) >= 0 /\ Last(channel.times) = channel.max
              /\ Consistent(channel) /\ channel.interpolation \in Interpolations
        /\ \E channel \in ToSet(document.channels) :
              channel.node \in joints /\ channel.path \in Paths /\ channel.max > 0
=============================================================================
