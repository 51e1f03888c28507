------------------------------ MODULE Optimizer ----------------------------
(***************************************************************************)
(* Key-frame reduction (decimate.h), which optimizes the tracks of an      *)
(* animation (animation_optimizer.cc) and user tracks (track_optimizer.cc),*)
(* and the bounds the animation optimizer gives it for each joint.         *)
(*                                                                         *)
(* Keys are counted from 1 and their times are their numbers.  A value is  *)
(* an integer, the identity is 0 and a distance is a difference: all three *)
(* adapters compare a distance with a tolerance and do no more with it.    *)
(* Only keys of user tracks can be steps.                                  *)
(***************************************************************************)
EXTENDS Skeletons

CONSTANTS
    Sources,        \* the tracks that are optimized: sequences of [value, step]
    JointSettings,  \* what joints may have: [distance, tolerance, scale, translation]
    Tolerance

ASSUME OptimizerAssumption ==
    /\ Tolerance \in Nat
    /\ Sources \subseteq Seq([value : Int, step : BOOLEAN])
    /\ JointSettings \subseteq [distance : Int, tolerance : Int, scale : Int, translation : Int]

VARIABLES
    keys,        \* the track that is optimized
    phase,       \* "split", "trim" or "done"; "none" before
    segments,    \* the stack of segments, its top last
    included,    \* the keys to keep
    kept         \* the output, as the numbers of the keys it copies, in order

optimizerVars == <<keys, phase, segments, included, kept>>

OptimizerInit ==
    /\ keys = <<>> /\ phase = "none" /\ segments = <<>> /\ included = {} /\ kept = {}

\* A track of less than two keys is copied.
OptimizeBegin(source) ==
    /\ phase = "none"
    /\ keys' = source
    /\ IF Len(source) < 2
       THEN /\ phase' = "trim" /\ kept' = DOMAIN source
            /\ UNCHANGED <<segments, included>>
       ELSE /\ phase' = "split"
            /\ segments' = <<<<1, Len(source)>>>> /\ included' = {1, Len(source)}
            /\ UNCHANGED kept

-----------------------------------------------------------------------------
(* Splitting segments.                                                     *)

Abs(x) == IF x < 0 THEN -x ELSE x

Decimable(k) == ~keys[k].step

\* The distance of key k from the line between two others, times their difference in
\* time.
OffLine(left, right, k) ==
    Abs(keys[left].value * (right - k) + keys[right].value * (k - left)
        - keys[k].value * (right - left))

Within(left, right) == left + 1 .. right - 1

\* The first key of a segment that cannot be decimated or else the first of those
\* that are furthest from it and too far; none if there is no such key.
Candidate(left, right) ==
    LET steps == {k \in Within(left, right) : ~Decimable(k)}
        far   == {k \in Within(left, right) :
                     OffLine(left, right, k) > Tolerance * (right - left)}
        furthest == {k \in far : \A l \in far : OffLine(left, right, l) <= OffLine(left, right, k)}
    IN  IF steps # {} THEN {Min(steps)}
        ELSE IF far # {} THEN {Min(furthest)} ELSE {}

\* Mutant: the part before a candidate is taken to be settled.
HalvesAfter(left, right, k) ==
    IF right - k > 1 THEN <<<<k, right>>>> ELSE <<>>

\* The segments pushed for a candidate.
Halves(left, right, k) ==
    (IF k - left > 1 THEN <<<<left, k>>>> ELSE <<>>)
    \o (IF right - k > 1 THEN <<<<k, right>>>> ELSE <<>>)

\* One turn of the loop that empties the stack.
Split ==
    /\ phase = "split" /\ segments # <<>>
    /\ \E segment \in {Last(segments)} :
          IF Candidate(segment[1], segment[2]) = {}
          THEN segments' = Front(segments) /\ UNCHANGED included
          ELSE \E k \in Candidate(segment[1], segment[2]) :
                  /\ segments' = Front(segments) \o Halves(segment[1], segment[2], k)
                  /\ included' = included \cup {k}
    /\ UNCHANGED <<keys, phase, kept>>

\* The copy of all that is included.
Copy ==
    /\ phase = "split" /\ segments = <<>>
    /\ kept' = included
    /\ phase' = "trim"
    /\ UNCHANGED <<keys, segments, included>>

-----------------------------------------------------------------------------
(* Trimming constant ends.                                                 *)

Back == Max(kept)
LastKey == kept = {Back}

\* The value the last key is compared with: the one before it, or the identity.
Penultimate == IF LastKey THEN 0 ELSE keys[Max(kept \ {Back})].value

Trimmable ==
    /\ kept # {}
    /\ LastKey \/ Decimable(Back)
    /\ Abs(Penultimate - keys[Back].value) <= Tolerance

\* One turn of the loop that removes last keys, or its end.
Trim ==
    /\ phase = "trim"
    /\ IF Trimmable THEN kept' = kept \ {Back} /\ UNCHANGED phase
       ELSE phase' = "done" /\ UNCHANGED kept
    /\ UNCHANGED <<keys, segments, included>>

OptimizeReturn ==
    /\ phase = "done"
    /\ phase' = "none"
    /\ keys' = <<>> /\ included' = {} /\ kept' = {}
    /\ UNCHANGED segments

OptimizerNext ==
    \/ \E source \in Sources : OptimizeBegin(source)
    \/ Split \/ Copy \/ Trim \/ OptimizeReturn

-----------------------------------------------------------------------------
(* Bounds of a joint (HierarchyBuilder).  An animation is, for each joint, *)
(* its setting [distance, tolerance], the greatest scale and the greatest  *)
(* length of its translations.                                             *)

\* ComputeScaleForward, for the joints in depth-first order: a joint's own bounds.
OwnSpecs(parents, animation) ==
    LET Scale[j \in DOMAIN parents] ==
            animation[j].scale * (IF parents[j] = NoParent THEN 1 ELSE Scale[parents[j]])
    IN  [j \in DOMAIN parents |->
            [length |-> animation[j].distance * Scale[j],
             scale |-> Scale[j],
             tolerance |-> animation[j].tolerance]]

\* ComputeLengthBackward: a joint tells its parent.
TellParent(parents, animation, specs, j) ==
    LET p == parents[j]
        reach == specs[j].length + animation[j].translation * specs[p].scale
    IN  IF p = NoParent THEN specs
        ELSE [specs EXCEPT ![p].length = Max({@, reach}),
                           ![p].tolerance = Min({@, specs[j].tolerance})]

\* HierarchyBuilder: IterateJointsDFReverse tells parents once their children are
\* complete.
Specs(parents, animation) ==
    LET n == Cardinality(DOMAIN parents)
        Told[k \in 0 .. n] ==
            IF k = 0 THEN OwnSpecs(parents, animation)
            ELSE TellParent(parents, animation, Told[k - 1], n - k)
    IN  Told[n]

-----------------------------------------------------------------------------
(* Properties.                                                             *)

\* The value of the optimized track at key k, times the time between the keys it is
\* interpolated from, and that time: before the first key and after the last one it
\* is theirs, and without keys it is the identity.
Resampled(k) ==
    LET before == {n \in kept : n <= k}
        after  == {n \in kept : n >= k}
        l == Max(before)
        r == Min(after)
    IN  IF kept = {} THEN [value |-> 0, time |-> 1]
        ELSE IF before = {} THEN [value |-> keys[r].value, time |-> 1]
        ELSE IF after = {} \/ l = r THEN [value |-> keys[l].value, time |-> 1]
        ELSE [value |-> keys[l].value * (r - k) + keys[r].value * (k - l), time |-> r - l]

\* A dropped key that comes after a step: the reduction compares it with a line the
\* track does not follow.
AfterStep(k) == \E l \in kept : l < k /\ keys[l].step /\ kept \cap l + 1 .. k = {}

Error(k) == Abs(Resampled(k).value - keys[k].value * Resampled(k).time)

\* How far what is left of a track may be from a key: the tolerance, and as much again
\* for each last key that was trimmed.
Allowed == (1 + Cardinality(included \ kept)) * Tolerance

\* No key is looked at twice, as the code asserts (decimate.h:84-85): those between the
\* ends of a segment are not included yet.  What is left of a track stays near the keys
\* that were dropped: within the tolerance when segments have been split, and then each
\* last key that goes for the one before it, or for the identity, may add a tolerance
\* (decimate.h:120-137; the documents say the tolerance, animation_optimizer.h:78).
\* Steps stay, but one that is all that remains.
DecimatedNear ==
    /\ phase = "split" =>
          \A n \in DOMAIN segments : Within(segments[n][1], segments[n][2]) \cap included = {}
    /\ phase \in {"trim", "done"} =>
          /\ \A k \in DOMAIN keys : ~AfterStep(k) => Error(k) <= Allowed * Resampled(k).time
          /\ \A k \in DOMAIN keys : keys[k].step /\ kept # {} => k \in kept

\* The length of the bones from j to each joint below it.
BonesFrom(parents, animation, specs, j) ==
    LET Bones[d \in SubtreeOf(parents, j)] ==
            IF d = j THEN 0
            ELSE animation[d].translation * specs[parents[d]].scale + Bones[parents[d]]
    IN  Bones

\* The bounds of a joint are those of all that is below it: the farthest point that
\* is measured anywhere below, along the bones that lead there, and the least
\* tolerance of any joint there (animation_optimizer.cc:83-139).
BoundsOfSubtrees(parents, animation) ==
    LET specs == Specs(parents, animation)
        Below(j) == SubtreeOf(parents, j)
        Reach(j, d) == animation[d].distance * specs[d].scale
                       + BonesFrom(parents, animation, specs, j)[d]
    IN  \A j \in DOMAIN parents :
            /\ specs[j].length = Max({Reach(j, d) : d \in Below(j)})
            /\ specs[j].tolerance = Min({animation[d].tolerance : d \in Below(j)})
=============================================================================
