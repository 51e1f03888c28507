--------------------------- MODULE CharacterProofs --------------------------
(***************************************************************************)
(* Proofs about Character and what it is composed of.                      *)
(*                                                                         *)
(* LocalToModel, for any skeletons, any width of SoA blocks and any        *)
(* transforms: after any sequence of partial updates the matrices follow   *)
(* from their parents', and an update writes nowhere else.                 *)
(*                                                                         *)
(* Blending, for any layers, weights and thresholds: between any two       *)
(* passes a lane holds the sum of the layers so far, each with its own     *)
(* weight, and what is accumulated beside it is the sum of those; so the   *)
(* job divides by what it added up.                                        *)
(*                                                                         *)
(* Optimizer, for any tracks and tolerances: what is left of the keys of   *)
(* a track stays near those that were dropped.  While segments are split,  *)
(* the stack holds just those pairs of neighbours among the included keys  *)
(* that may need another key between them (Splitting).  When it is empty,  *)
(* each gap is within the tolerance.  Then each last key that goes costs   *)
(* at most a tolerance more (Trimming).  And for any hierarchy and         *)
(* animation, a joint is held to the bounds of all that is below it.       *)
(*                                                                         *)
(* Importer, for any sequence of calls: nothing leaks, whichever           *)
(* allocations and callbacks fail, and the skeletons that are built are    *)
(* what SkeletonProofs makes of the joints that were added.                *)
(***************************************************************************)
EXTENDS Character, SkeletonProofs

-----------------------------------------------------------------------------
(* Blocks and lanes.                                                       *)

LEMMA Divided ==
  ASSUME NEW W \in Nat \ {0}, NEW k \in Nat
  PROVE  /\ k \div W \in Nat /\ k % W \in 0 .. W - 1
         /\ k = (k \div W) * W + (k % W)
OBVIOUS

\* The next number is in the same block, unless it begins one.
LEMMA SameBlock ==
  ASSUME NEW W \in Nat \ {0}, NEW k \in Nat, (k + 1) % W # 0
  PROVE  (k + 1) \div W = k \div W
<1> DEFINE q == k \div W
           r == (k + 1) \div W
<1>1. k = q * W + (k % W) /\ q \in Nat /\ k % W \in 0 .. W - 1
  BY Divided
<1>2. k + 1 = r * W + ((k + 1) % W) /\ r \in Nat /\ (k + 1) % W \in 1 .. W - 1
  <2> k + 1 \in Nat
    OBVIOUS
  <2>1. k + 1 = r * W + ((k + 1) % W) /\ r \in Nat /\ (k + 1) % W \in 0 .. W - 1
    BY Divided
  <2> HIDE DEF r
  <2> QED BY <2>1
<1> DEFINE a == k % W
           b == (k + 1) % W
<1> SUFFICES r = q
  OBVIOUS
<1>3. q \in Nat /\ r \in Nat /\ a \in 0 .. W - 1 /\ b \in 1 .. W - 1
      /\ q * W + a + 1 = r * W + b
  BY <1>1, <1>2
<1> HIDE DEF q, r, a, b
<1>4. ~(r > q)
  <2> SUFFICES ASSUME r > q
               PROVE  FALSE
    OBVIOUS
  <2>1. PICK d \in Nat : r = q + 1 + d
    BY <1>3, r - q - 1 \in Nat
  <2>2. r * W = q * W + W + d * W /\ d * W \in Nat /\ q * W \in Nat
    BY <1>3, <2>1
  <2> QED BY <1>3, <2>2
<1>5. ~(q > r)
  <2> SUFFICES ASSUME q > r
               PROVE  FALSE
    OBVIOUS
  <2>1. PICK d \in Nat : q = r + 1 + d
    BY <1>3, q - r - 1 \in Nat
  <2>2. q * W = r * W + W + d * W /\ d * W \in Nat /\ r * W \in Nat
    BY <1>3, <2>1
  <2> QED BY <1>3, <2>2
<1> QED BY <1>3, <1>4, <1>5

\* The block of a joint is one of the pose.
LEMMA BlockExists ==
  ASSUME NEW num \in Nat, NEW k \in 0 .. num - 1, SoaWidth \in Nat \ {0}
  PROVE  k \div SoaWidth \in 0 .. SoaBlocks(num) - 1
<1> DEFINE W == SoaWidth
           q == k \div W
           m == num + W - 1
           r == m \div W
<1>1. k = q * W + (k % W) /\ q \in Nat /\ k % W \in 0 .. W - 1
  <2> k \in Nat
    OBVIOUS
  <2> QED BY Divided
<1>2. m = r * W + (m % W) /\ r \in Nat /\ m % W \in 0 .. W - 1
  <2> m \in Nat
    OBVIOUS
  <2> QED BY Divided
<1> DEFINE a == k % W
           b == m % W
<1>3. q \in Nat /\ r \in Nat /\ a \in 0 .. W - 1 /\ b \in 0 .. W - 1
      /\ q * W + a <= num - 1 /\ num + W - 1 = r * W + b /\ W \in Nat \ {0}
  BY <1>1, <1>2
<1> SUFFICES q < r
  BY <1>3 DEF SoaBlocks
<1> HIDE DEF q, r, a, b, m, W
<1> SUFFICES ASSUME q >= r
             PROVE  FALSE
  BY <1>3
<1>4. PICK d \in Nat : q = r + d
  BY <1>3, q - r \in Nat
<1>5. q * W = r * W + d * W /\ d * W \in Nat /\ r * W \in Nat
  BY <1>3, <1>4
<1> QED BY <1>3, <1>5

\* A pose that is taken apart into joints and put together again is the same.
LEMMA SoaIsAos ==
  ASSUME Good(hierarchy), SoaWidth \in Nat \ {0}, NEW aos, NEW k \in Joints
  PROVE  SoaToAos(AosToSoa(aos))[k] = aos[k]
<1> DEFINE b == k \div SoaWidth
           l == k % SoaWidth
           soa == AosToSoa(aos)
<1>1. hierarchy.num_joints \in Nat /\ k \in Nat /\ k < hierarchy.num_joints
  BY DEF Good, Joints
<1>2. b \in 0 .. SoaBlocks(hierarchy.num_joints) - 1
  BY <1>1, BlockExists
<1>3. l \in 0 .. SoaWidth - 1 /\ b * SoaWidth + l = k
  BY <1>1, Divided
<1>4. soa[b][l] = IF b * SoaWidth + l < hierarchy.num_joints THEN aos[b * SoaWidth + l] ELSE Identity
  <2> HIDE DEF b, l
  <2> QED BY <1>2, <1>3 DEF AosToSoa
<1>5. SoaToAos(soa)[k] = soa[b][l]
  <2> HIDE DEF soa
  <2> QED BY DEF SoaToAos
<1> QED BY <1>1, <1>3, <1>4, <1>5

-----------------------------------------------------------------------------
(* The invariant.                                                          *)

\* The joints the loop has been at.
Written == IF job = NoJob THEN {} ELSE FirstJoint(job.from, job.excluded) .. i - 1

\* Where the loop is: all it has been at was `from` or has a parent in the range, and
\* it stops at its end or at the first joint that has not.
LoopInRange ==
    job # NoJob =>
        /\ job.from \in {NoParent} \cup Joints /\ job.to \in Nat /\ job.excluded \in BOOLEAN
        /\ job.from <= job.to
        /\ i \in Int /\ process \in BOOLEAN
        /\ FirstJoint(job.from, job.excluded) <= i /\ i <= EndOf(job.to)
        /\ process => i < EndOf(job.to) /\ (i = job.from \/ parents[i] >= job.from)
        /\ ~process => i = EndOf(job.to) \/ (job.from < i /\ parents[i] < job.from)

\* The lanes at hand are those of the block of joint i.
LanesOfBlock == lanes # <<>> => lanes = locals[i \div SoaWidth]

Resting == job = NoJob => ~process /\ lanes = <<>>

Follows(k) == models[k] = ModelOf(k, SoaToAos(locals)[k])

\* What the loop has been at follows from its parent; so does what it has not been at,
\* unless that was changed since or the parent has just been written.
PartlyFollow ==
    /\ \A k \in Written : Follows(k)
    /\ \A k \in Joints \ (stale \cup Written) : parents[k] \notin Written => Follows(k)

PoseInv ==
    /\ Good(hierarchy)
    /\ models = [k \in Joints |-> models[k]]
    /\ LoopInRange
    /\ Written \subseteq Covered
    /\ LanesOfBlock /\ Resting
    /\ PartlyFollow

LEMMA GoodJoints ==
  ASSUME Good(hierarchy)
  PROVE  /\ hierarchy.num_joints \in Nat
         /\ Joints = 0 .. hierarchy.num_joints - 1 /\ DOMAIN parents = Joints
         /\ \A k \in Joints : parents[k] \in Int /\ NoParent <= parents[k] /\ parents[k] < k
BY DEF Good, Joints, parents, IsDepthFirst

LEMMA JobEnds ==
  ASSUME Good(hierarchy), NEW to \in Nat
  PROVE  /\ EndOf(to) \in Nat /\ EndOf(to) <= hierarchy.num_joints /\ EndOf(to) <= to + 1
         /\ EndOf(to) = hierarchy.num_joints \/ EndOf(to) = to + 1
BY GoodJoints DEF EndOf

\* The joint the loop is at is one the job is to bring up to date.
LEMMA WritesCovered ==
  ASSUME Good(hierarchy), LoopInRange, Written \subseteq Covered, job # NoJob, process
  PROVE  i \in Joints /\ i \in Covered
<1>1. /\ hierarchy.num_joints \in Nat
      /\ Joints = 0 .. hierarchy.num_joints - 1 /\ DOMAIN parents = Joints
      /\ \A k \in Joints : parents[k] \in Int /\ parents[k] < k
  BY GoodJoints
<1>2. /\ job.from \in {NoParent} \cup Joints /\ job.to \in Nat /\ job.excluded \in BOOLEAN
      /\ i \in Int /\ FirstJoint(job.from, job.excluded) <= i
      /\ i < EndOf(job.to) /\ (i = job.from \/ parents[i] >= job.from)
  BY DEF LoopInRange
<1>3. EndOf(job.to) \in Nat /\ EndOf(job.to) <= hierarchy.num_joints /\ EndOf(job.to) <= job.to + 1
  BY <1>2, JobEnds
<1>4. /\ i \in Joints /\ i <= job.to /\ i >= job.from
      /\ job.excluded => i # job.from
      /\ FirstJoint(job.from, job.excluded) \in Int
      /\ job.from >= 0 => FirstJoint(job.from, job.excluded) <= job.from + 1
  BY <1>1, <1>2, <1>3 DEF FirstJoint, NoParent
<1>5. CASE job.from = NoParent
  BY <1>4, <1>5 DEF Covered
<1>6. CASE job.from # NoParent
  <2> DEFINE below == SubtreeOf(parents, job.from)
  <2>1. job.from \in Joints /\ job.from >= 0
    BY <1>1, <1>2, <1>6
  <2>2. /\ job.from \in below
        /\ \A c \in Joints : parents[c] \in below => c \in below
    BY <1>1, <2>1, SubtreeIsClosed
  <2>3. Covered \subseteq below
    BY <1>6 DEF Covered
  <2>4. i \in below
    <3>1. CASE i = job.from
      BY <2>2, <3>1
    <3>2. CASE i # job.from
      <4>1. parents[i] \in Int /\ parents[i] < i /\ parents[i] >= job.from
        BY <1>1, <1>2, <1>4, <3>2
      <4>2. parents[i] = job.from \/ parents[i] \in FirstJoint(job.from, job.excluded) .. i - 1
        BY <1>1, <1>2, <1>4, <2>1, <4>1
      <4>3. parents[i] = job.from \/ parents[i] \in Written
        BY <4>2 DEF Written
      <4> HIDE DEF below
      <4> QED BY <1>4, <2>2, <2>3, <4>3
    <3> QED BY <3>1, <3>2
  <2> QED BY <1>4, <1>6, <2>4 DEF Covered
<1> QED BY <1>4, <1>5, <1>6

\* When the loop stops it has been at all the job is to bring up to date.
LEMMA CoversAll ==
  ASSUME Good(hierarchy), LoopInRange, job # NoJob, ~process
  PROVE  Covered \subseteq Written
<1>1. /\ hierarchy.num_joints \in Nat
      /\ Joints = 0 .. hierarchy.num_joints - 1 /\ DOMAIN parents = Joints
      /\ \A k \in Joints : parents[k] \in Int /\ NoParent <= parents[k] /\ parents[k] < k
  BY GoodJoints
<1>2. /\ job.from \in {NoParent} \cup Joints /\ job.to \in Nat /\ job.excluded \in BOOLEAN
      /\ job.from <= job.to
      /\ i \in Int /\ FirstJoint(job.from, job.excluded) <= i /\ i <= EndOf(job.to)
      /\ i = EndOf(job.to) \/ (job.from < i /\ parents[i] < job.from)
  BY DEF LoopInRange
<1>3. /\ EndOf(job.to) \in Nat /\ EndOf(job.to) <= hierarchy.num_joints
      /\ EndOf(job.to) = hierarchy.num_joints \/ EndOf(job.to) = job.to + 1
  BY <1>2, JobEnds
<1> SUFFICES ASSUME NEW k \in Covered
             PROVE  k \in FirstJoint(job.from, job.excluded) .. i - 1
  BY DEF Written
<1>4. k <= job.to
  BY DEF Covered
<1>5. CASE job.from = NoParent
  <2>1. k \in Joints
    BY <1>5 DEF Covered
  <2>2. i = EndOf(job.to)
    <3> SUFFICES ASSUME i # EndOf(job.to)
                 PROVE  FALSE
      OBVIOUS
    <3>1. i \in Joints /\ parents[i] < NoParent
      BY <1>1, <1>2, <1>3, <1>5 DEF NoParent
    <3> QED BY <1>1, <3>1 DEF NoParent
  <2>3. FirstJoint(job.from, job.excluded) = 0
    BY <1>5 DEF FirstJoint, NoParent
  <2> QED BY <1>1, <1>2, <1>3, <1>4, <2>1, <2>2, <2>3
<1>6. CASE job.from # NoParent
  <2> DEFINE j == job.from
             n == IF i = EndOf(job.to) THEN hierarchy.num_joints ELSE i
  <2>1. j \in Joints /\ j >= 0 /\ j \in Int
    BY <1>1, <1>2, <1>6
  <2>2. k \in SubtreeOf(parents, j) /\ (job.excluded => k # j)
    BY <1>6 DEF Covered
  <2>3. n \in j + 1 .. hierarchy.num_joints /\ (n < hierarchy.num_joints => parents[n] < j)
    BY <1>1, <1>2, <1>3, <2>1
  <2>4. SubtreeOf(parents, j) \subseteq j .. n - 1
    <3> HIDE DEF n, j
    <3> QED BY <1>1, <2>1, <2>3, SubtreeIsRange DEF parents
  <2>5. k \in Int /\ j <= k /\ k < n
    BY <1>1, <1>2, <1>3, <2>1, <2>2, <2>3, <2>4
  <2>6. k < i
    BY <1>2, <1>3, <1>4, <2>5
  <2>7. FirstJoint(j, job.excluded) = IF job.excluded THEN j + 1 ELSE j
    BY <2>1 DEF FirstJoint
  <2> QED BY <1>2, <2>1, <2>2, <2>5, <2>6, <2>7
<1> QED BY <1>5, <1>6

-----------------------------------------------------------------------------
(* Steps.                                                                  *)

\* A joint follows as before where neither its matrix nor its parent's changes.
LEMMA FollowsAsBefore ==
  ASSUME NEW k, Follows(k),
         hierarchy' = hierarchy, SoaToAos(locals)'[k] = SoaToAos(locals)[k],
         models'[k] = models[k],
         parents[k] = NoParent \/ models'[parents[k]] = models[parents[k]]
  PROVE  Follows(k)'
BY DEF Follows, ModelOf, parents

LEMMA SetLocalKeeps ==
  ASSUME PoseInv, SoaWidth \in Nat \ {0}, NEW j \in Joints, NEW t, SetLocal(j, t)
  PROVE  PoseInv'
<1>1. /\ job = NoJob /\ UNCHANGED <<hierarchy, models, job, i, process, lanes>>
      /\ stale' = stale \cup {j}
      /\ locals' = AosToSoa([SoaToAos(locals) EXCEPT ![j] = t])
  BY DEF SetLocal
<1>2. /\ Good(hierarchy)' /\ models' = [k \in Joints' |-> models'[k]]
      /\ LoopInRange' /\ (Written \subseteq Covered)' /\ LanesOfBlock' /\ Resting'
      /\ Written = {} /\ Written' = {} /\ Joints' = Joints
  BY <1>1 DEF PoseInv, Good, LoopInRange, LanesOfBlock, Resting, Written, Joints
<1>3. ASSUME NEW k \in Joints \ stale'
      PROVE  Follows(k)'
  <2>1. k # j /\ k \in Joints /\ Follows(k)
    BY <1>1, <1>2, <1>3 DEF PoseInv, PartlyFollow
  <2> DEFINE aos == [SoaToAos(locals) EXCEPT ![j] = t]
  <2>2. SoaToAos(locals')[k] = aos[k]
    <3> HIDE DEF aos
    <3> QED BY <1>1, <2>1, SoaIsAos DEF PoseInv, aos
  <2>3. aos[k] = SoaToAos(locals)[k]
    BY <2>1 DEF SoaToAos
  <2>4. SoaToAos(locals)' = SoaToAos(locals')
    BY <1>1 DEF SoaToAos, Joints
  <2> HIDE DEF aos
  <2>5. SoaToAos(locals)'[k] = SoaToAos(locals)[k]
    BY <2>2, <2>3, <2>4
  <2> QED BY <1>1, <2>1, <2>5, FollowsAsBefore
<1>4. PartlyFollow'
  BY <1>2, <1>3 DEF PartlyFollow
<1> QED BY <1>2, <1>4 DEF PoseInv

LEMMA SetModelKeeps ==
  ASSUME PoseInv, NEW j \in Joints, SetModel(j)
  PROVE  PoseInv'
<1>1. /\ job = NoJob /\ UNCHANGED <<hierarchy, locals, job, i, process, lanes>>
      /\ stale' = stale \cup {j} \cup ChildrenOf(j)
      /\ models' = [models EXCEPT ![j] = <<Placed>>]
  BY DEF SetModel
<1>2. /\ Good(hierarchy)' /\ LoopInRange' /\ (Written \subseteq Covered)' /\ LanesOfBlock' /\ Resting'
      /\ Written = {} /\ Written' = {} /\ Joints' = Joints
  BY <1>1 DEF PoseInv, Good, LoopInRange, LanesOfBlock, Resting, Written, Joints
<1>3. models' = [k \in Joints' |-> models'[k]] /\ \A k : k # j => models'[k] = models[k]
  BY <1>1, <1>2 DEF PoseInv
<1>4. ASSUME NEW k \in Joints \ stale'
      PROVE  Follows(k)'
  <2>1. k # j /\ k \in Joints /\ Follows(k)
    BY <1>1, <1>2, <1>4 DEF PoseInv, PartlyFollow
  <2>2. parents[k] # j
    BY <1>1, <1>4, <2>1 DEF ChildrenOf
  <2>3. SoaToAos(locals)' = SoaToAos(locals)
    BY <1>1 DEF SoaToAos, Joints
  <2> QED BY <1>1, <1>3, <2>1, <2>2, <2>3, FollowsAsBefore
<1>5. PartlyFollow'
  BY <1>2, <1>4 DEF PartlyFollow
<1> QED BY <1>2, <1>3, <1>5 DEF PoseInv

LEMMA StartJobKeeps ==
  ASSUME PoseInv, NEW from, NEW to \in Nat, NEW excluded \in BOOLEAN, StartJob(from, to, excluded)
  PROVE  PoseInv'
<1> DEFINE b == FirstJoint(from, excluded)
           e == EndOf(to)
<1>1. /\ job = NoJob /\ UNCHANGED <<hierarchy, locals, models, lanes, stale>>
      /\ from \in {NoParent} \cup Joints /\ (from >= 0 => to >= from)
      /\ job' = [from |-> from, to |-> to, excluded |-> excluded]
      /\ i' = b /\ process' = (b < e /\ (excluded => parents[b] >= from))
  BY DEF StartJob
<1>2. /\ Good(hierarchy)' /\ models' = [k \in Joints' |-> models'[k]]
      /\ Joints' = Joints /\ parents' = parents /\ lanes' = <<>> /\ Good(hierarchy)
  BY <1>1 DEF PoseInv, Resting, Good, Joints, parents
<1>3. job' # NoJob /\ job'.from = from /\ job'.to = to /\ job'.excluded = excluded
  BY <1>1 DEF NoJob, NoParent
<1>4. /\ hierarchy.num_joints \in Nat /\ Joints = 0 .. hierarchy.num_joints - 1
      /\ \A k \in Joints : parents[k] \in Int /\ NoParent <= parents[k] /\ parents[k] < k
      /\ e \in Nat /\ e <= hierarchy.num_joints
      /\ e = hierarchy.num_joints \/ e = to + 1
  BY <1>2, GoodJoints, JobEnds
<1>5. /\ from \in Int /\ from <= to
      /\ b \in Int /\ b <= e /\ b >= 0
      /\ from = NoParent => b = 0
      /\ from # NoParent => from >= 0 /\ b = IF excluded THEN from + 1 ELSE from
  BY <1>1, <1>4 DEF FirstJoint, NoParent
<1>6. EndOf(job.to)' = e /\ FirstJoint(job.from, job.excluded)' = b
  BY <1>1, <1>3 DEF EndOf, FirstJoint
<1> HIDE DEF b, e
<1>7. process' \in BOOLEAN /\ (process' <=> b < e /\ (excluded => parents[b] >= from))
  BY <1>1
<1>8. process' => b < e /\ (b = from \/ parents[b] >= from)
  <2> SUFFICES ASSUME process', b # from
               PROVE  b < e /\ parents[b] >= from
    BY <1>7
  <2>1. b < e /\ b \in Joints
    BY <1>4, <1>5, <1>7
  <2>2. CASE excluded
    BY <1>7, <2>1, <2>2
  <2>3. CASE ~excluded
    BY <1>4, <1>5, <2>1, <2>3 DEF NoParent
  <2> QED BY <2>2, <2>3
<1>9. ~process' => b = e \/ (from < b /\ parents[b] < from)
  <2> SUFFICES ASSUME ~process', b # e
               PROVE  from < b /\ parents[b] < from
    OBVIOUS
  <2>1. b < e
    BY <1>4, <1>5
  <2>2. excluded /\ ~(parents[b] >= from)
    BY <1>7, <2>1
  <2>3. b \in Joints
    BY <1>4, <1>5, <2>1
  <2> QED BY <1>4, <1>5, <2>1, <2>3, <2>2 DEF NoParent
<1>10. LoopInRange'
  BY <1>1, <1>2, <1>3, <1>5, <1>6, <1>7, <1>8, <1>9 DEF LoopInRange
<1>11. Written = {} /\ Written' = {}
  BY <1>1, <1>3, <1>5, <1>6 DEF Written
<1>12. LanesOfBlock' /\ Resting'
  BY <1>2, <1>3 DEF LanesOfBlock, Resting
<1>13. PartlyFollow'
  <2> SUFFICES ASSUME NEW k \in Joints \ stale
               PROVE  Follows(k)'
    BY <1>1, <1>2, <1>11 DEF PartlyFollow
  <2>1. Follows(k)
    BY <1>11 DEF PoseInv, PartlyFollow
  <2>2. SoaToAos(locals)' = SoaToAos(locals)
    BY <1>1 DEF SoaToAos, Joints
  <2> QED BY <1>1, <2>1, <2>2, FollowsAsBefore
<1> QED BY <1>2, <1>10, <1>11, <1>12, <1>13 DEF PoseInv

LEMMA TransposeKeeps ==
  ASSUME PoseInv, Transpose
  PROVE  PoseInv'
<1>1. /\ process /\ lanes' = locals[i \div SoaWidth]
      /\ UNCHANGED <<hierarchy, locals, models, job, i, process, stale>>
  BY DEF Transpose
<1>2. LanesOfBlock' /\ Resting'
  BY <1>1 DEF LanesOfBlock, Resting, PoseInv
<1>3. /\ Good(hierarchy)' /\ models' = [k \in Joints' |-> models'[k]]
      /\ LoopInRange' /\ (Written \subseteq Covered)' /\ PartlyFollow'
  BY <1>1 DEF PoseInv, Good, LoopInRange, Written, Joints, PartlyFollow, Follows, ModelOf,
              SoaToAos, parents, Covered, EndOf
<1> QED BY <1>2, <1>3 DEF PoseInv

LEMMA WriteKeeps ==
  ASSUME PoseInv, SoaWidth \in Nat \ {0}, Write
  PROVE  PoseInv' /\ i \in Covered /\ \A k : k # i => models'[k] = models[k]
<1> DEFINE b == FirstJoint(job.from, job.excluded)
           e == EndOf(job.to)
<1>1. /\ process /\ lanes # <<>>
      /\ models' = [models EXCEPT ![i] = ModelOf(i, lanes[i % SoaWidth])]
      /\ i' = i + 1 /\ process' = StillBelow(i + 1) /\ lanes' = LanesAfter
      /\ UNCHANGED <<hierarchy, locals, job, stale>>
  BY DEF Write
<1>2. /\ job # NoJob /\ job' # NoJob /\ Good(hierarchy) /\ Good(hierarchy)'
      /\ Joints' = Joints /\ parents' = parents /\ Covered' = Covered
      /\ SoaToAos(locals)' = SoaToAos(locals)
  BY <1>1 DEF PoseInv, Resting, Good, Joints, parents, Covered, SoaToAos
<1>3. /\ hierarchy.num_joints \in Nat /\ Joints = 0 .. hierarchy.num_joints - 1
      /\ \A k \in Joints : parents[k] \in Int /\ NoParent <= parents[k] /\ parents[k] < k
  BY <1>2, GoodJoints
<1>4. /\ job.from \in {NoParent} \cup Joints /\ job.to \in Nat /\ job.excluded \in BOOLEAN
      /\ job.from <= job.to /\ i \in Int /\ b <= i /\ i < e
      /\ i = job.from \/ parents[i] >= job.from
      /\ job.from \in Int
  BY <1>1, <1>2, <1>3 DEF PoseInv, LoopInRange, NoParent
<1>5. i \in Joints /\ i \in Covered
  BY <1>1, <1>2, WritesCovered DEF PoseInv
<1>6. e \in Nat /\ e <= hierarchy.num_joints /\ b \in Int
      /\ e = EndOf(job.to)' /\ b = FirstJoint(job.from, job.excluded)'
  <2>1. e \in Nat /\ e <= hierarchy.num_joints
    BY <1>2, <1>4, JobEnds
  <2>2. b \in Int
    BY <1>4 DEF FirstJoint
  <2>3. e = EndOf(job.to)' /\ b = FirstJoint(job.from, job.excluded)'
    BY <1>1 DEF EndOf, FirstJoint
  <2> QED BY <2>1, <2>2, <2>3
<1>7. job.from <= i
  BY <1>3, <1>4, <1>5 DEF NoParent
<1>8. Written = b .. i - 1 /\ Written' = b .. i
  BY <1>1, <1>2, <1>4, <1>6 DEF Written
<1> HIDE DEF b, e
<1>9. Written' = Written \cup {i} /\ i \notin Written /\ Written \subseteq Joints
  <2>1. Written' = Written \cup {i} /\ i \notin Written
    BY <1>4, <1>6, <1>8
  <2>2. b >= 0
    BY <1>3, <1>4 DEF b, FirstJoint, NoParent
  <2> QED BY <1>3, <1>4, <1>5, <1>6, <1>8, <2>1, <2>2
<1>10. LoopInRange'
  <2>1. process' = (i + 1 < e /\ parents[i + 1] >= job.from)
    BY <1>1 DEF StillBelow, e
  <2>2. process' \in BOOLEAN
    BY <2>1
  <2>3. process' => i' < e /\ parents'[i'] >= job.from
    BY <1>1, <1>2, <2>1
  <2>4. ~process' => i' = e \/ (job.from < i' /\ parents'[i'] < job.from)
    <3> SUFFICES ASSUME ~process', i + 1 # e
                 PROVE  job.from < i + 1 /\ parents[i + 1] < job.from
      BY <1>1, <1>2
    <3>1. i + 1 \in Joints /\ i + 1 < e
      BY <1>3, <1>4, <1>5, <1>6
    <3>2. parents[i + 1] \in Int
      BY <1>3, <3>1
    <3>3. ~(parents[i + 1] >= job.from)
      BY <2>1, <3>1
    <3> QED BY <1>4, <1>5, <1>7, <3>2, <3>3
  <2>5. /\ job' = job /\ i' \in Int /\ b <= i' /\ i' <= e
    BY <1>1, <1>4, <1>6
  <2> QED BY <1>2, <1>4, <1>6, <2>2, <2>3, <2>4, <2>5 DEF LoopInRange
<1>11. (Written \subseteq Covered)'
  BY <1>2, <1>5, <1>9 DEF PoseInv
<1>12. LanesOfBlock' /\ Resting'
  <2> SUFFICES ASSUME lanes' # <<>>
               PROVE  lanes' = locals'[i' \div SoaWidth]
    BY <1>2 DEF LanesOfBlock, Resting
  <2>1. (i + 1) % SoaWidth # 0 /\ lanes' = lanes
    BY <1>1 DEF LanesAfter
  <2>2. i \in Nat
    BY <1>3, <1>5
  <2>3. (i + 1) \div SoaWidth = i \div SoaWidth
    BY <2>1, <2>2, SameBlock
  <2> QED BY <1>1, <2>1, <2>3 DEF PoseInv, LanesOfBlock
<1>13. models' = [k \in Joints' |-> models'[k]] /\ \A k : k # i => models'[k] = models[k]
  BY <1>1, <1>2 DEF PoseInv
<1>14. ASSUME NEW k, k = i
       PROVE  Follows(k)'
  <2>1. models'[k] = ModelOf(k, lanes[k % SoaWidth])
    BY <1>1, <1>5, <1>14 DEF PoseInv
  <2>2. lanes[k % SoaWidth] = SoaToAos(locals)[k]
    BY <1>1, <1>5, <1>14 DEF PoseInv, LanesOfBlock, SoaToAos
  <2>3. parents[k] # i
    BY <1>3, <1>5, <1>14
  <2>4. models'[parents[k]] = models[parents[k]]
    BY <1>13, <2>3
  <2> QED BY <1>1, <1>2, <2>1, <2>2, <2>4 DEF Follows, ModelOf, parents
<1>15. PartlyFollow'
  <2>1. ASSUME NEW k \in Joints, k # i, Follows(k), parents[k] # i
        PROVE  Follows(k)'
    BY <1>1, <1>2, <1>13, <2>1, FollowsAsBefore
  <2>2. ASSUME NEW k \in Written'
        PROVE  Follows(k)'
    <3>1. CASE k = i
      BY <1>14, <3>1
    <3>2. CASE k # i
      <4>1. k \in Written /\ k \in Joints /\ k < i
        BY <1>4, <1>6, <1>8, <1>9, <2>2, <3>2
      <4>2. parents[k] # i
        BY <1>3, <1>4, <4>1
      <4>3. Follows(k)
        BY <4>1 DEF PoseInv, PartlyFollow
      <4> QED BY <2>1, <3>2, <4>1, <4>2, <4>3
    <3> QED BY <3>1, <3>2
  <2>3. ASSUME NEW k \in Joints' \ (stale' \cup Written'), parents'[k] \notin Written'
        PROVE  Follows(k)'
    <3>1. k \in Joints /\ k # i /\ parents[k] # i /\ Follows(k)
      BY <1>1, <1>2, <1>9, <2>3 DEF PoseInv, PartlyFollow
    <3> QED BY <2>1, <3>1
  <2> QED BY <2>2, <2>3 DEF PartlyFollow
<1> QED BY <1>2, <1>5, <1>10, <1>11, <1>12, <1>13, <1>15 DEF PoseInv

LEMMA ReturnKeeps ==
  ASSUME PoseInv, Return
  PROVE  PoseInv'
<1>1. /\ job # NoJob /\ ~process
      /\ stale' = (stale \ Covered) \cup {c \in Joints \ Covered : parents[c] \in Covered}
      /\ job' = NoJob /\ i' = 0 /\ lanes' = <<>>
      /\ UNCHANGED <<hierarchy, locals, models, process>>
  BY DEF Return
<1>2. Written = Covered
  BY <1>1, CoversAll DEF PoseInv
<1>3. /\ Good(hierarchy)' /\ models' = [k \in Joints' |-> models'[k]]
      /\ Joints' = Joints /\ parents' = parents /\ Written' = {}
      /\ LoopInRange' /\ LanesOfBlock' /\ Resting'
  BY <1>1 DEF PoseInv, Good, Joints, parents, Written, LoopInRange, LanesOfBlock, Resting
<1>4. ASSUME NEW k \in Joints \ stale'
      PROVE  Follows(k)'
  <2>1. Follows(k)
    BY <1>1, <1>2, <1>4 DEF PoseInv, PartlyFollow
  <2>2. SoaToAos(locals)' = SoaToAos(locals)
    BY <1>1 DEF SoaToAos, Joints
  <2> QED BY <1>1, <2>1, <2>2, FollowsAsBefore
<1>5. PartlyFollow'
  BY <1>3, <1>4 DEF PartlyFollow
<1> QED BY <1>3, <1>5 DEF PoseInv

LEMMA PoseStepKeeps ==
  ASSUME PoseInv, [PoseNext]_poseVars
  PROVE  PoseInv'
<1> SoaWidth \in Nat \ {0} /\ MaxTo \in Nat
  BY PoseAssumption
<1>1. ASSUME NEW j \in Joints, NEW t \in Transforms, SetLocal(j, t)
      PROVE  PoseInv'
  BY <1>1, SetLocalKeeps
<1>2. ASSUME NEW j \in Joints, SetModel(j)
      PROVE  PoseInv'
  BY <1>2, SetModelKeeps
<1>3. ASSUME NEW from \in {NoParent} \cup Joints, NEW to \in 0 .. MaxTo,
             NEW excluded \in BOOLEAN, StartJob(from, to, excluded)
      PROVE  PoseInv'
  BY <1>3, StartJobKeeps
<1>4. CASE Transpose
  BY <1>4, TransposeKeeps
<1>5. CASE Write
  BY <1>5, WriteKeeps
<1>6. CASE Return
  BY <1>6, ReturnKeeps
<1>7. CASE UNCHANGED poseVars
  <2>1. /\ hierarchy' = hierarchy /\ locals' = locals /\ models' = models /\ job' = job
        /\ i' = i /\ process' = process /\ lanes' = lanes /\ stale' = stale
    BY <1>7 DEF poseVars
  <2>2. Joints' = Joints /\ parents' = parents /\ Good(hierarchy)'
    BY <2>1 DEF Joints, parents, PoseInv, Good
  <2>3. Written' = Written /\ LoopInRange'
    BY <2>1, <2>2 DEF Written, LoopInRange, PoseInv, EndOf
  <2>4. (Written \subseteq Covered)'
    BY <2>1, <2>2, <2>3 DEF PoseInv, Covered
  <2>5. LanesOfBlock' /\ Resting'
    BY <2>1 DEF LanesOfBlock, Resting, PoseInv
  <2>6. SoaToAos(locals)' = SoaToAos(locals)
    BY <2>1, <2>2 DEF SoaToAos
  <2>7. PartlyFollow'
    BY <2>1, <2>2, <2>3, <2>6 DEF PartlyFollow, PoseInv, Follows, ModelOf
  <2> QED BY <2>1, <2>2, <2>3, <2>4, <2>5, <2>7 DEF PoseInv
<1> QED BY <1>1, <1>2, <1>3, <1>4, <1>5, <1>6, <1>7 DEF PoseNext

\* No step of a job writes what it was not to bring up to date.
LEMMA StepWritesInside ==
  ASSUME PoseInv, [PoseNext]_poseVars, job # NoJob
  PROVE  \A j \in Joints : models'[j] # models[j] => j \in Covered
<1> SoaWidth \in Nat \ {0}
  BY PoseAssumption
<1>1. CASE Write
  BY <1>1, WriteKeeps
<1>2. CASE models' = models
  BY <1>2
<1>3. models' = models \/ Write
  BY DEF PoseNext, poseVars, SetLocal, SetModel, StartJob, Transpose, Return
<1> QED BY <1>1, <1>2, <1>3

\* A pose that has just been allocated.
LEMMA FreshPose ==
  ASSUME Good(hierarchy), PoseOf(hierarchy, locals, models, stale), job = NoJob, ~process,
         lanes = <<>>
  PROVE  PoseInv
BY DEF PoseInv, PoseOf, LoopInRange, Written, LanesOfBlock, Resting, PartlyFollow, Joints

-----------------------------------------------------------------------------

LEMMA PoseInvariant == PoseSpec => []PoseInv
<1>1. PoseInit => PoseInv
  <2> SUFFICES ASSUME PoseInit
               PROVE  PoseInv
    OBVIOUS
  <2>1. Good(hierarchy)
    BY PoseAssumption DEF PoseInit, Good
  <2> QED BY <2>1, FreshPose DEF PoseInit, Quiet
<1>2. PoseInv /\ [PoseNext]_poseVars => PoseInv'
  BY PoseStepKeeps
<1> QED BY <1>1, <1>2, PTL DEF PoseSpec

\* After any sequence of partial updates, for any skeletons and blocks of any width,
\* the matrix of a joint is its parent's times its local transform, unless it was
\* changed since (local_to_model_job.cc:73-97).
THEOREM PartialUpdatesSuffice == PoseSpec => []ModelsFollow
<1>1. PoseInv => ModelsFollow
  BY DEF PoseInv, PartlyFollow, Written, ModelsFollow, Follows
<1> QED BY <1>1, PoseInvariant, PTL

\* A partial update writes no matrix outside the joints at or below its first one, up
\* to its last (local_to_model_job.cc:73-97).
THEOREM UpdatesStayInside == PoseSpec => WritesInside
<1>1. PoseInv /\ [PoseNext]_poseVars
      => [job # NoJob => \A j \in Joints : models'[j] # models[j] => j \in Covered]_poseVars
  BY StepWritesInside
<1> QED BY <1>1, PoseInvariant, PTL DEF PoseSpec, WritesInside

-----------------------------------------------------------------------------
(* Sums.                                                                   *)

\* f holds the sums of w[1 .. k], for k up to n.
Sums(f, w, n) == f = [k \in 0 .. n |-> IF k = 0 THEN 0 ELSE f[k - 1] + w[k]]

LEMMA SumsAt ==
  ASSUME NEW f, NEW w, NEW n \in Nat, Sums(f, w, n), NEW k \in 0 .. n
  PROVE  f[k] = IF k = 0 THEN 0 ELSE f[k - 1] + w[k]
<1> DEFINE e(x) == IF x = 0 THEN 0 ELSE f[x - 1] + w[x]
<1>1. f = [x \in 0 .. n |-> e(x)]
  BY DEF Sums
<1> HIDE DEF e
<1>2. f[k] = e(k)
  BY <1>1
<1> QED BY <1>2 DEF e

LEMMA SumsExtended ==
  ASSUME NEW f, NEW w, NEW n \in Nat, Sums(f, w, n)
  PROVE  \E g : Sums(g, w, n + 1)
<1> DEFINE e(x) == IF x = 0 THEN 0 ELSE f[x - 1] + w[x]
           g == [x \in 0 .. n + 1 |-> e(x)]
<1>1. \A x \in 0 .. n : f[x] = e(x)
  BY SumsAt
<1>2. \A x \in 0 .. n + 1 : x # 0 => g[x - 1] = f[x - 1]
  <2> HIDE DEF e
  <2> QED BY <1>1
<1>3. g = [x \in 0 .. n + 1 |-> IF x = 0 THEN 0 ELSE g[x - 1] + w[x]]
  <2> SUFFICES ASSUME NEW x \in 0 .. n + 1
               PROVE  e(x) = IF x = 0 THEN 0 ELSE g[x - 1] + w[x]
    OBVIOUS
  <2> HIDE DEF g
  <2> QED BY <1>2
<1> HIDE DEF g
<1>4. Sums(g, w, n + 1)
  BY <1>3 DEF Sums
<1> QED BY <1>4

LEMMA SumsExist ==
  ASSUME NEW w, NEW n \in Nat
  PROVE  \E f : Sums(f, w, n)
<1> DEFINE Exists(k) == \E f : Sums(f, w, k)
           T == {k \in Nat : ~Exists(k)}
<1> SUFFICES ASSUME T # {} PROVE FALSE
  OBVIOUS
<1>1. PICK m \in T : \A k \in T : m <= k
  <2>1. T \subseteq Nat
    OBVIOUS
  <2> HIDE DEF T
  <2> QED BY <2>1, LeastNatural
<1>2. m \in Nat /\ ~Exists(m)
  BY <1>1
<1>3. Exists(0)
  <2> DEFINE g == [k \in 0 .. 0 |-> 0]
  <2>1. g = [k \in 0 .. 0 |-> IF k = 0 THEN 0 ELSE g[k - 1] + w[k]]
    <3>1. \A k \in 0 .. 0 : k = 0
      OBVIOUS
    <3> QED BY <3>1
  <2>2. Sums(g, w, 0)
    BY <2>1 DEF Sums
  <2> QED BY <2>2
<1>4. m # 0
  <2> HIDE DEF Exists
  <2> QED BY <1>2, <1>3
<1>5. m - 1 \in Nat /\ (m - 1) + 1 = m
  BY <1>2, <1>4
<1>6. Exists(m - 1)
  <2>1. m - 1 \notin T
    <3> HIDE DEF T
    <3> QED BY <1>1, <1>2, <1>5
  <2> HIDE DEF Exists
  <2> QED BY <1>5, <2>1
<1>7. PICK f : Sums(f, w, m - 1)
  BY <1>6
<1>8. Exists((m - 1) + 1)
  BY <1>5, <1>7, SumsExtended
<1> QED BY <1>2, <1>5, <1>8

\* A sum depends on what is summed, and on nothing behind it.
LEMMA SumsAgree ==
  ASSUME NEW f, NEW w, NEW n \in Nat, Sums(f, w, n),
         NEW g, NEW v, NEW m \in Nat, Sums(g, v, m), n <= m,
         \A k \in 1 .. n : w[k] = v[k]
  PROVE  f[n] = g[n]
<1> DEFINE T == {k \in Nat : k <= n /\ f[k] # g[k]}
<1> SUFFICES ASSUME T # {} PROVE FALSE
  OBVIOUS
<1>1. PICK x \in T : \A k \in T : x <= k
  <2>1. T \subseteq Nat
    OBVIOUS
  <2> HIDE DEF T
  <2> QED BY <2>1, LeastNatural
<1>2. x \in Nat /\ x <= n /\ f[x] # g[x] /\ x \in 0 .. n /\ x \in 0 .. m
  BY <1>1
<1>3. /\ f[x] = IF x = 0 THEN 0 ELSE f[x - 1] + w[x]
      /\ g[x] = IF x = 0 THEN 0 ELSE g[x - 1] + v[x]
  BY <1>2, SumsAt
<1>4. x # 0
  BY <1>2, <1>3
<1>5. x - 1 \in Nat /\ x - 1 <= n /\ x \in 1 .. n /\ ~(x <= x - 1)
  BY <1>2, <1>4
<1>6. x - 1 \notin T
  <2> HIDE DEF T
  <2> QED BY <1>1, <1>5
<1>7. f[x - 1] = g[x - 1]
  BY <1>5, <1>6
<1> QED BY <1>2, <1>3, <1>4, <1>5, <1>7

LEMMA SumToIs ==
  ASSUME NEW w, NEW n \in Nat
  PROVE  \E f : Sums(f, w, n) /\ SumTo(w, n) = f[n]
<1>1. Sums(CHOOSE f : Sums(f, w, n), w, n)
  BY SumsExist
<1>2. SumTo(w, n) = (CHOOSE f : Sums(f, w, n))[n]
  BY DEF SumTo, Sums
<1> QED BY <1>1, <1>2

LEMMA SumToNothing ==
  ASSUME NEW w
  PROVE  SumTo(w, 0) = 0
<1>1. PICK f : Sums(f, w, 0) /\ SumTo(w, 0) = f[0]
  BY SumToIs
<1> QED BY <1>1, SumsAt

\* One more is summed.
LEMMA SumToStep ==
  ASSUME NEW w, NEW v, NEW n \in Nat, \A k \in 1 .. n : w[k] = v[k]
  PROVE  SumTo(v, n + 1) = SumTo(w, n) + v[n + 1]
<1>1. PICK f : Sums(f, w, n) /\ SumTo(w, n) = f[n]
  BY SumToIs
<1>2. PICK g : Sums(g, v, n + 1) /\ SumTo(v, n + 1) = g[n + 1]
  BY SumToIs
<1>3. f[n] = g[n]
  BY <1>1, <1>2, SumsAgree
<1>4. g[n + 1] = g[(n + 1) - 1] + v[n + 1]
  BY <1>2, SumsAt
<1> QED BY <1>1, <1>2, <1>3, <1>4

-----------------------------------------------------------------------------
(* Weights and rotations.                                                  *)

LEMMA SignOfProduct ==
  ASSUME NEW a \in Int, NEW b \in Nat
  PROVE  a * b \in Int /\ (a <= 0 => a * b <= 0) /\ (a >= 0 => a * b >= 0)
OBVIOUS

LEMMA WeightsAre ==
  ASSUME NEW layer \in Layers, NEW j \in SoaLanes
  PROVE  /\ WeightAt(layer, j) \in Int /\ layer.weight \in Int
         /\ layer.weight <= 0 => Max0(WeightAt(layer, j)) = 0
         /\ layer.weight > 0 => Max0(WeightAt(layer, j)) = WeightAt(layer, j) /\ WeightAt(layer, j) >= 0
         /\ layer.joint_weights = Full => WeightAt(layer, j) = layer.weight * One
<1> DEFINE w == IF layer.joint_weights = Full THEN One ELSE Max0(layer.joint_weights[j])
<1>1. layer.weight \in Int /\ layer.joint_weights \in [SoaLanes -> Int] \cup {Full} /\ One \in Nat
  BY BlendingAssumption DEF Layers
<1>2. w \in Nat
  <2>1. CASE layer.joint_weights = Full
    BY <1>1, <2>1
  <2>2. CASE layer.joint_weights # Full
    <3>1. layer.joint_weights[j] \in Int
      BY <1>1, <2>2
    <3> QED BY <2>2, <3>1 DEF Max0
  <2> QED BY <2>1, <2>2
<1>3. WeightAt(layer, j) = layer.weight * w
  BY DEF WeightAt
<1>4. layer.joint_weights = Full => w = One
  OBVIOUS
<1> HIDE DEF w
<1>5. /\ WeightAt(layer, j) \in Int
      /\ layer.weight <= 0 => WeightAt(layer, j) <= 0
      /\ layer.weight >= 0 => WeightAt(layer, j) >= 0
  BY <1>1, <1>2, <1>3, SignOfProduct
<1> QED BY <1>1, <1>3, <1>4, <1>5 DEF Max0

\* The squares of two integers add up to nothing only if both are 0.
LEMMA SquaresVanish ==
  ASSUME NEW a \in Int, NEW b \in Int, a * a + b * b <= 0
  PROVE  a = 0 /\ b = 0
<1>1. a * a >= 0 /\ b * b >= 0 /\ a * a \in Int /\ b * b \in Int
  OBVIOUS
<1>2. a * a = 0 /\ b * b = 0
  BY <1>1
<1> QED BY <1>2

\* What is added to a rotation does not undo it: it was turned to its side.
LEMMA TurnedDoesNotCancel ==
  ASSUME NEW a \in Int, NEW b \in Int, NEW c \in Int, NEW d \in Int,
         a * c + b * d >= 0, c # 0 \/ d # 0
  PROVE  a + c # 0 \/ b + d # 0
<1> SUFFICES ASSUME a + c = 0, b + d = 0 PROVE FALSE
  OBVIOUS
<1>1. a = -c /\ b = -d
  OBVIOUS
<1>2. a * c = -(c * c) /\ b * d = -(d * d)
  BY <1>1
<1>3. c * c \in Int /\ d * d \in Int
  OBVIOUS
<1>4. c * c + d * d <= 0
  BY <1>2, <1>3
<1> QED BY <1>4, SquaresVanish

Lane == [shares : [Poses -> Int], rotation : Int \X Int, divider : Int, added : Seq(Int)]

Directions == (Int \X Int) \ {<<0, 0>>}

Blended(dest, shares, rotation) == [dest EXCEPT !.shares = shares, !.rotation = rotation]

LEMMA BlendedIs ==
  ASSUME NEW dest \in Lane, NEW shares \in [Poses -> Int], NEW rotation \in Int \X Int
  PROVE  /\ Blended(dest, shares, rotation) \in Lane
         /\ Blended(dest, shares, rotation).shares = shares
         /\ Blended(dest, shares, rotation).rotation = rotation
BY DEF Blended, Lane

LEMMA FirstPassIs ==
  ASSUME NEW dest \in Lane, NEW pose \in Poses, NEW q \in Directions, NEW w \in Nat
  PROVE  LET new == FirstPass(dest, pose, q, w)
         IN  /\ new \in Lane
             /\ new.shares = [s \in Poses |-> IF s = pose THEN w ELSE 0]
             /\ w > 0 => new.rotation # <<0, 0>>
<1>1. Scaled(q, w) \in Int \X Int
  BY DEF Scaled, Directions
<1>2. w > 0 => Scaled(q, w) # <<0, 0>>
  <2> SUFFICES ASSUME w > 0, q[1] * w = 0, q[2] * w = 0 PROVE FALSE
    BY DEF Scaled
  <2>1. q[1] \in Int /\ q[2] \in Int /\ q = <<q[1], q[2]>>
    BY DEF Directions
  <2>2. q[1] = 0 /\ q[2] = 0
    BY <2>1
  <2> QED BY <2>1, <2>2 DEF Directions
<1> DEFINE shares == [s \in Poses |-> IF s = pose THEN w ELSE 0]
<1>3. shares \in [Poses -> Int]
  OBVIOUS
<1>4. FirstPass(dest, pose, q, w) = Blended(dest, shares, Scaled(q, w))
  BY DEF FirstPass, Blended
<1>5. shares = [s \in Poses |-> IF s = pose THEN w ELSE 0]
  OBVIOUS
<1> HIDE DEF shares
<1> QED BY <1>1, <1>2, <1>3, <1>4, <1>5, BlendedIs

IsNextPass(new, dest, pose, w) ==
    /\ new \in Lane
    /\ \A s \in Poses : new.shares[s] = IF s = pose THEN dest.shares[s] + w ELSE dest.shares[s]
    /\ w = 0 => new.rotation = dest.rotation
    /\ w > 0 => new.rotation # <<0, 0>>

LEMMA NextPassIs ==
  ASSUME NEW dest \in Lane, NEW pose \in Poses, NEW q \in Directions, NEW w \in Nat
  PROVE  IsNextPass(NextPass(dest, pose, q, w), dest, pose, w)
<1> DEFINE r == dest.rotation
           dot == r[1] * q[1] + r[2] * q[2]
           m == IF dot < 0 THEN -w ELSE w
           sum == <<r[1] + q[1] * m, r[2] + q[2] * m>>
           new == NextPass(dest, pose, q, w)
<1>1. r[1] \in Int /\ r[2] \in Int /\ r = <<r[1], r[2]>> /\ q[1] \in Int /\ q[2] \in Int
      /\ q = <<q[1], q[2]>>
  BY DEF Lane, Directions
<1>2. new = [dest EXCEPT !.shares[pose] = dest.shares[pose] + w, !.rotation = sum]
  BY DEF NextPass, Scaled
<1>3. dot \in Int /\ m \in Int
  BY <1>1
<1>4. m * dot >= 0
  <2>1. CASE dot < 0
    <3>1. m = -w
      BY <2>1
    <3>2. -w <= 0 /\ dot <= 0
      BY <1>3, <2>1
    <3> HIDE DEF m, dot
    <3> QED BY <1>3, <3>1, <3>2
  <2>2. CASE ~(dot < 0)
    <3>1. m = w
      BY <2>2
    <3> HIDE DEF m, dot
    <3> QED BY <1>3, <2>2, <3>1
  <2> QED BY <2>1, <2>2
<1>5. r[1] * (q[1] * m) + r[2] * (q[2] * m) = m * dot
  <2> HIDE DEF m
  <2> QED BY <1>1, <1>3
<1>6. (w = 0 => m = 0) /\ (w > 0 => m # 0)
  BY <1>3
<1> HIDE DEF m, dot
<1>7. sum \in Int \X Int /\ q[1] * m \in Int /\ q[2] * m \in Int
  BY <1>1, <1>3
<1>8. w = 0 => sum = r
  BY <1>1, <1>6
<1>9. ASSUME w > 0 PROVE sum # <<0, 0>>
  <2>1. q[1] # 0 \/ q[2] # 0
    BY <1>1 DEF Directions
  <2>2. q[1] * m # 0 \/ q[2] * m # 0
    BY <1>1, <1>3, <1>6, <1>9, <2>1
  <2>3. r[1] + q[1] * m # 0 \/ r[2] + q[2] * m # 0
    BY <1>1, <1>4, <1>5, <1>7, <2>2, TurnedDoesNotCancel
  <2> QED BY <2>3
<1> HIDE DEF sum
<1> DEFINE shares == [dest.shares EXCEPT ![pose] = dest.shares[pose] + w]
<1>a. dest.shares \in [Poses -> Int]
  BY DEF Lane
<1>b. shares \in [Poses -> Int]
      /\ \A s \in Poses : shares[s] = IF s = pose THEN dest.shares[s] + w ELSE dest.shares[s]
  BY <1>a
<1>c. new = Blended(dest, shares, sum)
  BY <1>2 DEF Blended
<1> HIDE DEF new, shares
<1>10. new \in Lane /\ new.rotation = sum /\ new.shares = shares
  BY <1>7, <1>b, <1>c, BlendedIs
<1>11. IsNextPass(new, dest, pose, w)
  BY <1>8, <1>9, <1>10, <1>b DEF IsNextPass
<1> QED BY <1>11 DEF new

-----------------------------------------------------------------------------
(* What the layers weigh.                                                  *)

TotalAt(ls, j) == SumTo([n \in DOMAIN ls |-> Max0(WeightAt(ls[n], j))], Len(ls))

ShareAt(ls, j, s) == IF s \in DOMAIN ls THEN Max0(WeightAt(ls[s], j)) ELSE 0

LEMMA NoLayerWeighsNothing ==
  ASSUME NEW j
  PROVE  TotalAt(<<>>, j) = 0 /\ \A s : ShareAt(<<>>, j, s) = 0
<1>1. Len(<<>>) = 0 /\ DOMAIN <<>> = {}
  OBVIOUS
<1> QED BY <1>1, SumToNothing DEF TotalAt, ShareAt

LEMMA OneMoreLayer ==
  ASSUME NEW ls \in Seq(Layers), NEW layer \in Layers, NEW j \in SoaLanes
  PROVE  /\ TotalAt(Append(ls, layer), j) = TotalAt(ls, j) + Max0(WeightAt(layer, j))
         /\ \A s : ShareAt(Append(ls, layer), j, s)
                  = IF s = Len(ls) + 1 THEN Max0(WeightAt(layer, j)) ELSE ShareAt(ls, j, s)
         /\ ShareAt(ls, j, Len(ls) + 1) = 0
<1> DEFINE more == Append(ls, layer)
           w == [n \in DOMAIN ls |-> Max0(WeightAt(ls[n], j))]
           v == [n \in DOMAIN more |-> Max0(WeightAt(more[n], j))]
<1>1. /\ Len(ls) \in Nat /\ DOMAIN ls = 1 .. Len(ls)
      /\ Len(more) = Len(ls) + 1 /\ DOMAIN more = 1 .. Len(ls) + 1
      /\ \A n \in 1 .. Len(ls) : more[n] = ls[n]
      /\ more[Len(ls) + 1] = layer
  OBVIOUS
<1> HIDE DEF more
<1>2. \A n \in 1 .. Len(ls) : w[n] = v[n]
  BY <1>1
<1>3. v[Len(ls) + 1] = Max0(WeightAt(layer, j))
  BY <1>1
<1>4. TotalAt(ls, j) = SumTo(w, Len(ls)) /\ TotalAt(more, j) = SumTo(v, Len(ls) + 1)
  BY <1>1 DEF TotalAt
<1>5. TotalAt(more, j) = TotalAt(ls, j) + Max0(WeightAt(layer, j))
  <2> HIDE DEF w, v
  <2>1. SumTo(v, Len(ls) + 1) = SumTo(w, Len(ls)) + v[Len(ls) + 1]
    BY <1>1, <1>2, SumToStep, Zenon
  <2> QED BY <1>3, <1>4, <2>1
<1>6. ASSUME NEW s
      PROVE  ShareAt(more, j, s) = IF s = Len(ls) + 1 THEN Max0(WeightAt(layer, j)) ELSE ShareAt(ls, j, s)
  <2>1. CASE s \in 1 .. Len(ls)
    BY <1>1, <2>1 DEF ShareAt
  <2>2. CASE s = Len(ls) + 1
    BY <1>1, <2>2 DEF ShareAt
  <2>3. CASE s \notin 1 .. Len(ls) + 1
    <3>1. s # Len(ls) + 1 /\ s \notin 1 .. Len(ls)
      BY <1>1, <2>3
    <3> QED BY <1>1, <2>3, <3>1 DEF ShareAt
  <2> QED BY <1>1, <2>1, <2>2, <2>3
<1>7. Len(ls) + 1 \notin DOMAIN ls
  BY <1>1
<1> QED BY <1>5, <1>6, <1>7 DEF more, ShareAt

-----------------------------------------------------------------------------
(* The invariant of the job.                                               *)

BlendTyped ==
    /\ stage \in {"idle", "layers", "rest", "additive"}
    /\ layers \in Seq(Layers) /\ Len(layers) <= MaxLayers
    /\ threshold \in Nat /\ num_passes \in Nat /\ num_partial_passes \in Nat
    /\ accumulated_weight \in Int /\ accumulated_weights \in [SoaLanes -> Int]
    /\ output \in [SoaLanes -> Lane]
    /\ \A j \in SoaLanes : TotalAt(layers, j) \in Nat

NotBegun ==
    layers = <<>> /\ num_passes = 0 /\ num_partial_passes = 0 /\ accumulated_weight = 0

\* Before the rest pose, a lane holds the sum of the layers.
Summed(j) ==
    /\ num_passes = 0 => /\ TotalAt(layers, j) = 0
                         /\ \A s \in Poses : ShareAt(layers, j, s) = 0
    /\ num_passes > 0 => /\ accumulated_weights[j] = TotalAt(layers, j)
                         /\ \A s \in Poses : output[j].shares[s] = ShareAt(layers, j, s)
                         /\ TotalAt(layers, j) > 0 => output[j].rotation # <<0, 0>>
    /\ num_partial_passes = 0 => TotalAt(layers, j) = accumulated_weight

Summing ==
    /\ threshold > 0
    /\ num_passes = 0 => num_partial_passes = 0
    /\ \A j \in SoaLanes : Summed(j)

\* What they lack of a goal.
LackOf(ls, j, goal) == Max0(goal - TotalAt(ls, j))

\* Once divided by d, a lane holds the average of the layers and the rest pose.
AverageOf(dest, ls, j, lack, d) ==
    /\ d > 0 /\ dest.rotation # <<0, 0>>
    /\ \A s \in Poses :
          dest.shares[s] * (TotalAt(ls, j) + lack) = (IF s = 0 THEN lack ELSE ShareAt(ls, j, s)) * d

Averaged(j, d) == AverageOf(output[j], layers, j, LackOf(layers, j, threshold * One), d)

DividerAt(j) == IF num_partial_passes = 0 THEN accumulated_weight ELSE accumulated_weights[j]

BlendInv ==
    /\ BlendTyped
    /\ stage = "idle" => NotBegun
    /\ stage = "layers" => Summing
    /\ stage = "rest" => \A j \in SoaLanes : Averaged(j, DividerAt(j))
    /\ stage = "additive" => \A j \in SoaLanes : Averaged(j, output[j].divider)

LEMMA UntouchedIs == Untouched \in [SoaLanes -> Lane]
<1>1. One \in Nat /\ Garbage \in Int
  BY BlendingAssumption
<1>2. One * One \in Int /\ <<>> \in Seq(Int)
  BY <1>1
<1> QED BY <1>1, <1>2 DEF Untouched, Lane

LEMMA BlendStarts ==
  ASSUME BlendInit
  PROVE  BlendInv
<1>1. One \in Nat /\ Garbage \in Int /\ MaxLayers \in Nat
  BY BlendingAssumption
<1>2. Len(<<>>) = 0 /\ <<>> \in Seq(Layers)
  OBVIOUS
<1>3. \A j \in SoaLanes : TotalAt(layers, j) = 0
  BY NoLayerWeighsNothing DEF BlendInit
<1>4. BlendTyped
  BY <1>1, <1>2, <1>3, UntouchedIs DEF BlendInit, BlendTyped
<1> QED BY <1>4 DEF BlendInit, BlendInv, NotBegun

LEMMA BlendReturnKeeps ==
  ASSUME BlendReturn
  PROVE  BlendInv'
<1>1. One \in Nat /\ Garbage \in Int /\ MaxLayers \in Nat
  BY BlendingAssumption
<1>2. Len(<<>>) = 0 /\ <<>> \in Seq(Layers)
  OBVIOUS
<1>3. \A j \in SoaLanes : TotalAt(layers', j) = 0
  BY NoLayerWeighsNothing DEF BlendReturn
<1>4. BlendTyped'
  BY <1>1, <1>2, <1>3, UntouchedIs DEF BlendReturn, BlendTyped
<1> QED BY <1>4 DEF BlendReturn, BlendInv, NotBegun

LEMMA BlendBeginKeeps ==
  ASSUME BlendInv, NEW t \in Thresholds, BlendBegin(t)
  PROVE  BlendInv'
<1>1. t \in Nat /\ t > 0
  BY BlendingAssumption
<1>2. /\ BlendTyped /\ NotBegun /\ stage' = "layers" /\ threshold' = t
      /\ UNCHANGED <<layers, num_passes, num_partial_passes, accumulated_weight, accumulated_weights, output>>
  BY DEF BlendInv, BlendBegin
<1>3. BlendTyped'
  BY <1>1, <1>2 DEF BlendTyped
<1>4. ASSUME NEW j \in SoaLanes
      PROVE  Summed(j)'
  <2>1. TotalAt(layers', j) = 0 /\ \A s \in Poses : ShareAt(layers', j, s) = 0
    BY <1>2, NoLayerWeighsNothing, Zenon DEF NotBegun
  <2>2. num_passes' = 0 /\ accumulated_weight' = 0
    BY <1>2 DEF NotBegun
  <2> QED BY <2>1, <2>2 DEF Summed
<1> QED BY <1>1, <1>2, <1>3, <1>4 DEF BlendInv, Summing, NotBegun

LEMMA SharesAre ==
  ASSUME BlendTyped, NEW j \in SoaLanes
  PROVE  /\ \A s \in Nat : ShareAt(layers, j, s) \in Nat
         /\ ShareAt(layers, j, 0) = 0
         /\ Len(layers) \in Nat /\ Poses = 0 .. MaxLayers /\ MaxLayers \in Nat
         /\ \A s \in Poses : s \in Nat
<1>1. DOMAIN layers = 1 .. Len(layers) /\ Len(layers) \in Nat
      /\ \A s \in DOMAIN layers : layers[s] \in Layers
  BY DEF BlendTyped
<1>2. ASSUME NEW s \in Nat PROVE ShareAt(layers, j, s) \in Nat
  <2>1. CASE s \in DOMAIN layers
    <3>1. WeightAt(layers[s], j) \in Int
      BY <1>1, <2>1, WeightsAre
    <3> QED BY <2>1, <3>1 DEF ShareAt, Max0
  <2>2. CASE s \notin DOMAIN layers
    BY <2>2 DEF ShareAt
  <2> QED BY <2>1, <2>2
<1>3. ShareAt(layers, j, 0) = 0
  <2>1. 0 \notin DOMAIN layers
    BY <1>1
  <2> QED BY <2>1 DEF ShareAt
<1> QED BY <1>1, <1>2, <1>3, BlendingAssumption DEF Poses

\* A layer without weight is skipped.
LEMMA SkippedLayerKeeps ==
  ASSUME BlendInv, NEW layer \in Layers, BlendLayer(layer), layer.weight <= 0
  PROVE  BlendInv'
<1>1. /\ BlendTyped /\ Summing /\ stage = "layers" /\ Len(layers) < MaxLayers
      /\ layers' = Append(layers, layer)
      /\ UNCHANGED <<stage, threshold, num_passes, num_partial_passes, accumulated_weight,
                     accumulated_weights, output>>
  BY DEF BlendInv, BlendLayer
<1>2. layers \in Seq(Layers) /\ Len(layers) \in Nat /\ MaxLayers \in Nat
  BY <1>1, BlendingAssumption DEF BlendTyped
<1>3. layers' \in Seq(Layers) /\ Len(layers') = Len(layers) + 1
  BY <1>1, <1>2
<1>4. ASSUME NEW j \in SoaLanes
      PROVE  TotalAt(layers', j) = TotalAt(layers, j) /\ \A s : ShareAt(layers', j, s) = ShareAt(layers, j, s)
  <2>1. Max0(WeightAt(layer, j)) = 0
    BY WeightsAre
  <2>2. TotalAt(layers, j) \in Nat
    BY <1>1 DEF BlendTyped
  <2> QED BY <1>1, <1>2, <2>1, <2>2, OneMoreLayer
<1>5. BlendTyped'
  BY <1>1, <1>2, <1>3, <1>4 DEF BlendTyped
<1>6. ASSUME NEW j \in SoaLanes
      PROVE  Summed(j)'
  <2>1. Summed(j)
    BY <1>1 DEF Summing
  <2> QED BY <1>1, <1>4, <2>1 DEF Summed
<1> QED BY <1>1, <1>5, <1>6 DEF BlendInv, Summing

LEMMA LayerKeeps ==
  ASSUME BlendInv, NEW layer \in Layers, BlendLayer(layer), layer.weight > 0
  PROVE  BlendInv'
<1> DEFINE n == Len(layers) + 1
<1>1. /\ BlendTyped /\ Summing /\ stage = "layers" /\ Len(layers) < MaxLayers
      /\ layers' = Append(layers, layer) /\ UNCHANGED <<stage, threshold>>
      /\ accumulated_weight' = accumulated_weight + layer.weight * One
      /\ num_partial_passes' = num_partial_passes + (IF layer.joint_weights = Full THEN 0 ELSE 1)
      /\ num_passes' = num_passes + 1
      /\ accumulated_weights' =
            [j \in SoaLanes |-> WeightAt(layer, j) + (IF num_passes = 0 THEN 0 ELSE accumulated_weights[j])]
      /\ output' = [j \in SoaLanes |->
                      IF num_passes = 0 THEN FirstPass(output[j], n, layer.rotation, WeightAt(layer, j))
                      ELSE NextPass(output[j], n, layer.rotation, WeightAt(layer, j))]
  <2>1. ~(layer.weight <= 0)
    <3>1. layer.weight \in Int
      BY BlendingAssumption DEF Layers
    <3> QED BY <3>1
  <2>2. BlendTyped /\ Summing /\ stage = "layers"
    BY DEF BlendInv, BlendLayer
  <2>3. Len(layers) < MaxLayers /\ layers' = Append(layers, layer) /\ stage' = stage /\ threshold' = threshold
    BY DEF BlendLayer
  <2> QED BY <2>1, <2>2, <2>3, Zenon DEF BlendLayer
<1>2. layers \in Seq(Layers) /\ Len(layers) \in Nat /\ MaxLayers \in Nat
  BY <1>1, BlendingAssumption DEF BlendTyped
<1>3. layers' \in Seq(Layers) /\ Len(layers') = Len(layers) + 1
  BY <1>1, <1>2
<1>4. layer.weight \in Int /\ layer.rotation \in Directions /\ One \in Nat
  BY BlendingAssumption DEF Layers, Directions
<1>5. n \in Poses
  BY <1>1, <1>2 DEF Poses
<1>6. /\ num_passes \in Nat /\ num_passes' \in Nat /\ num_passes' > 0
      /\ num_partial_passes \in Nat /\ num_partial_passes' \in Nat /\ accumulated_weight \in Int
      /\ num_partial_passes' = 0 => num_partial_passes = 0 /\ layer.joint_weights = Full
  BY <1>1 DEF BlendTyped
<1>7. layer.weight * One \in Int
  BY <1>4
<1>8. accumulated_weight' \in Int
  BY <1>1, <1>6, <1>7
<1>9. ASSUME NEW j \in SoaLanes
      PROVE  /\ TotalAt(layers', j) \in Nat /\ accumulated_weights'[j] \in Int
             /\ output'[j] \in Lane /\ Summed(j)'
  <2> DEFINE w == WeightAt(layer, j)
  <2>1. /\ w \in Nat /\ Max0(w) = w
        /\ layer.joint_weights = Full => w = layer.weight * One
    BY <1>4, WeightsAre
  <2>2. TotalAt(layers, j) \in Nat /\ output[j] \in Lane /\ accumulated_weights[j] \in Int
    BY <1>1 DEF BlendTyped
  <2>3. /\ TotalAt(layers', j) = TotalAt(layers, j) + w
        /\ \A s : ShareAt(layers', j, s) = IF s = n THEN w ELSE ShareAt(layers, j, s)
        /\ ShareAt(layers, j, n) = 0
    BY <1>1, <1>2, <2>1, OneMoreLayer, Zenon
  <2>4. Summed(j)
    BY <1>1 DEF Summing
  <2>5. /\ accumulated_weights'[j] = w + (IF num_passes = 0 THEN 0 ELSE accumulated_weights[j])
        /\ output'[j] = IF num_passes = 0 THEN FirstPass(output[j], n, layer.rotation, w)
                        ELSE NextPass(output[j], n, layer.rotation, w)
    BY <1>1, Zenon
  <2>6. num_partial_passes' = 0 => TotalAt(layers', j) = accumulated_weight'
    <3> SUFFICES ASSUME num_partial_passes' = 0
                 PROVE  TotalAt(layers', j) = accumulated_weight'
      OBVIOUS
    <3>1. TotalAt(layers, j) = accumulated_weight
      BY <1>6, <2>4 DEF Summed
    <3>2. accumulated_weight' = accumulated_weight + w
      BY <1>1, <1>6, <2>1, Zenon
    <3> QED BY <2>3, <3>1, <3>2, Zenon
  <2>7. \A s \in Poses : ShareAt(layers, j, s) \in Nat
    BY <1>1, SharesAre
  <2> HIDE DEF w, n
  <2>8. CASE num_passes = 0
    <3>1. TotalAt(layers, j) = 0 /\ \A s \in Poses : ShareAt(layers, j, s) = 0
      BY <2>4, <2>8 DEF Summed
    <3>2. output'[j] = FirstPass(output[j], n, layer.rotation, w) /\ accumulated_weights'[j] = w
      BY <2>1, <2>5, <2>8
    <3>3. /\ output'[j] \in Lane
          /\ output'[j].shares = [s \in Poses |-> IF s = n THEN w ELSE 0]
          /\ w > 0 => output'[j].rotation # <<0, 0>>
      BY <1>4, <1>5, <2>1, <2>2, <3>2, FirstPassIs
    <3>4. \A s \in Poses : output'[j].shares[s] = ShareAt(layers', j, s)
      BY <2>3, <3>1, <3>3
    <3> QED BY <1>6, <2>1, <2>2, <2>3, <2>6, <3>1, <3>2, <3>3, <3>4 DEF Summed
  <2>9. CASE num_passes > 0
    <3>1. /\ accumulated_weights[j] = TotalAt(layers, j)
          /\ \A s \in Poses : output[j].shares[s] = ShareAt(layers, j, s)
          /\ TotalAt(layers, j) > 0 => output[j].rotation # <<0, 0>>
      BY <2>4, <2>9 DEF Summed
    <3>2. output'[j] = NextPass(output[j], n, layer.rotation, w)
          /\ accumulated_weights'[j] = w + accumulated_weights[j]
      BY <1>6, <2>5, <2>9
    <3>3. /\ output'[j] \in Lane
          /\ \A s \in Poses : output'[j].shares[s]
                  = IF s = n THEN output[j].shares[s] + w ELSE output[j].shares[s]
          /\ w = 0 => output'[j].rotation = output[j].rotation
          /\ w > 0 => output'[j].rotation # <<0, 0>>
      <4>1. IsNextPass(NextPass(output[j], n, layer.rotation, w), output[j], n, w)
        BY <1>4, <1>5, <2>1, <2>2, NextPassIs
      <4> QED BY <3>2, <4>1, Zenon DEF IsNextPass
    <3>4. \A s \in Poses : output'[j].shares[s] = ShareAt(layers', j, s)
      BY <2>1, <2>3, <3>1, <3>3
    <3>5. TotalAt(layers', j) > 0 => output'[j].rotation # <<0, 0>>
      <4>1. CASE w = 0
        BY <2>2, <2>3, <3>1, <3>3, <4>1
      <4>2. CASE w > 0
        BY <3>3, <4>2
      <4> QED BY <2>1, <4>1, <4>2
    <3> QED BY <1>6, <2>1, <2>2, <2>3, <2>6, <3>1, <3>2, <3>3, <3>4, <3>5 DEF Summed
  <2> QED BY <1>6, <2>8, <2>9
<1>10. /\ accumulated_weights' \in [SoaLanes -> Int] /\ output' \in [SoaLanes -> Lane]
  <2>1. /\ accumulated_weights' = [j \in SoaLanes |-> accumulated_weights'[j]]
        /\ output' = [j \in SoaLanes |-> output'[j]]
    BY <1>1, Zenon
  <2> QED BY <1>9, <2>1
<1>11. BlendTyped'
  BY <1>1, <1>2, <1>3, <1>6, <1>8, <1>9, <1>10 DEF BlendTyped
<1> QED BY <1>1, <1>6, <1>9, <1>11 DEF BlendInv, Summing

LEMMA MaxOfTwo ==
  ASSUME NEW a \in Int, NEW b \in Int
  PROVE  Max({a, b}) = IF a - b > 0 THEN a ELSE b
<1> DEFINE m == IF a - b > 0 THEN a ELSE b
<1>1. m \in {a, b} /\ \A y \in {a, b} : m >= y
  OBVIOUS
<1>2. \A x \in {a, b} : (\A y \in {a, b} : x >= y) => x = m
  OBVIOUS
<1> HIDE DEF m
<1>3. Max({a, b}) = m
  BY <1>1, <1>2 DEF Max
<1> QED BY <1>3 DEF m

RestAveraged(new, dest, lack) ==
    /\ new \in Lane /\ new.rotation # <<0, 0>>
    /\ \A s \in Poses : new.shares[s] = IF s = 0 THEN lack ELSE dest.shares[s]

\* What the rest pose does to a lane: it brings what lacks of the threshold.
LEMMA RestAverages ==
  ASSUME NEW dest \in Lane, NEW total \in Nat, NEW lack \in Nat, total + lack > 0,
         total > 0 => dest.rotation # <<0, 0>>, dest.shares[0] = 0
  PROVE  RestAveraged(RestPass(dest, lack), dest, lack)
<1>1. RestRotation \in Directions /\ 0 \in Poses /\ MaxLayers \in Nat
  BY BlendingAssumption DEF Directions, Poses
<1>2. IsNextPass(RestPass(dest, lack), dest, 0, lack)
  BY <1>1, NextPassIs DEF RestPass
<1> HIDE DEF Lane
<1>3. /\ RestPass(dest, lack) \in Lane
      /\ \A s \in Poses : RestPass(dest, lack).shares[s]
            = IF s = 0 THEN dest.shares[s] + lack ELSE dest.shares[s]
      /\ lack = 0 => RestPass(dest, lack).rotation = dest.rotation
      /\ lack > 0 => RestPass(dest, lack).rotation # <<0, 0>>
  BY <1>2, Zenon DEF IsNextPass
<1>4. RestPass(dest, lack).rotation # <<0, 0>>
  <2>1. CASE lack = 0
    <3>1. total > 0
      BY <2>1
    <3> QED BY <1>3, <2>1, <3>1
  <2>2. CASE lack > 0
    BY <1>3, <2>2
  <2> QED BY <2>1, <2>2
<1>5. \A s \in Poses : RestPass(dest, lack).shares[s] = IF s = 0 THEN lack ELSE dest.shares[s]
  <2>1. 0 + lack = lack
    OBVIOUS
  <2> QED BY <1>3, <2>1
<1> QED BY <1>3, <1>4, <1>5 DEF RestAveraged

LEMMA RestPoseKeeps ==
  ASSUME BlendInv, BlendRestPose
  PROVE  BlendInv'
<1> DEFINE goal == threshold * One
           lacking == goal - accumulated_weight
<1>1. /\ BlendTyped /\ Summing /\ stage = "layers" /\ stage' = "rest"
      /\ UNCHANGED <<threshold, layers, num_passes, num_partial_passes>>
  BY DEF BlendInv, BlendRestPose
<1>2. goal \in Nat /\ goal > 0 /\ One * One \in Nat /\ One * One > 0
  <2>1. One \in Nat /\ One > 0 /\ threshold \in Nat /\ threshold > 0
    BY <1>1, BlendingAssumption DEF Summing, BlendTyped
  <2> QED BY <2>1
<1>3. accumulated_weight \in Int /\ num_passes \in Nat /\ num_partial_passes \in Nat
  BY <1>1 DEF BlendTyped
<1> HIDE DEF goal
<1>4. ASSUME NEW j \in SoaLanes, NEW lack, lack = LackOf(layers, j, goal)
      PROVE  /\ lack = (IF goal - TotalAt(layers, j) > 0 THEN goal - TotalAt(layers, j) ELSE 0)
             /\ lack \in Nat /\ TotalAt(layers, j) + lack > 0
             /\ TotalAt(layers, j) \in Nat /\ output[j] \in Lane /\ accumulated_weights[j] \in Int
             /\ Summed(j)
             /\ \A s \in Poses : ShareAt(layers, j, s) \in Nat /\ s \in Nat
             /\ ShareAt(layers, j, 0) = 0 /\ 0 \in Poses
  <2>1. TotalAt(layers, j) \in Nat /\ output[j] \in Lane /\ accumulated_weights[j] \in Int /\ Summed(j)
    BY <1>1 DEF BlendTyped, Summing
  <2>2. lack = (IF goal - TotalAt(layers, j) > 0 THEN goal - TotalAt(layers, j) ELSE 0)
    BY <1>4 DEF LackOf, Max0
  <2>3. \A s \in Poses : ShareAt(layers, j, s) \in Nat /\ s \in Nat
    BY <1>1, SharesAre
  <2>4. ShareAt(layers, j, 0) = 0 /\ 0 \in Poses
    BY <1>1, SharesAre
  <2> QED BY <1>2, <2>1, <2>2, <2>3, <2>4
\* One lane.
<1>5. ASSUME NEW j \in SoaLanes
      PROVE  /\ output'[j] \in Lane
             /\ AverageOf(output'[j], layers, j, LackOf(layers, j, goal),
                          IF num_partial_passes = 0 THEN accumulated_weight' ELSE accumulated_weights'[j])
  <2> DEFINE total == TotalAt(layers, j)
             lack == LackOf(layers, j, goal)
             d == IF num_partial_passes = 0 THEN accumulated_weight' ELSE accumulated_weights'[j]
  <2>1. /\ lack = (IF goal - total > 0 THEN goal - total ELSE 0)
        /\ lack \in Nat /\ total + lack > 0 /\ total \in Nat /\ output[j] \in Lane /\ Summed(j)
        /\ accumulated_weights[j] \in Int
        /\ \A s \in Poses : ShareAt(layers, j, s) \in Nat /\ s \in Nat
        /\ ShareAt(layers, j, 0) = 0 /\ 0 \in Poses
    BY <1>4
  <2> HIDE DEF lack, total
  <2>2. num_passes > 0 =>
          /\ accumulated_weights[j] = total
          /\ \A s \in Poses : output[j].shares[s] = ShareAt(layers, j, s)
          /\ total > 0 => output[j].rotation # <<0, 0>>
    BY <2>1 DEF Summed, total
  <2>3. num_passes = 0 => total = 0 /\ \A s \in Poses : ShareAt(layers, j, s) = 0
    BY <2>1 DEF Summed, total
  <2>4. num_partial_passes = 0 => total = accumulated_weight
    BY <2>1 DEF Summed, total
  <2> HIDE DEF d
  \* All that is left to show of a lane.
  <2>5. ASSUME output'[j].rotation # <<0, 0>>, d = total + lack,
               \A s \in Poses : output'[j].shares[s] = IF s = 0 THEN lack ELSE ShareAt(layers, j, s)
        PROVE  AverageOf(output'[j], layers, j, lack, d)
    <3>1. d > 0 /\ d \in Nat
      BY <2>1, <2>5
    <3>2. ASSUME NEW s \in Poses
          PROVE  output'[j].shares[s] * d = (IF s = 0 THEN lack ELSE ShareAt(layers, j, s)) * d
      BY <2>5
    <3> QED BY <2>5, <3>1, <3>2 DEF AverageOf, total
  <2>6. CASE num_partial_passes = 0 /\ goal - total > 0 /\ num_passes = 0
    <3>1. output'[j] = FirstPass(output[j], 0, RestRotation, One * One) /\ accumulated_weight' = One * One
      BY <2>4, <2>6, Zenon DEF BlendRestPose, goal
    <3>2. RestRotation \in Directions
      BY BlendingAssumption DEF Directions
    <3>3. /\ output'[j] \in Lane
          /\ output'[j].shares = [s \in Poses |-> IF s = 0 THEN One * One ELSE 0]
          /\ output'[j].rotation # <<0, 0>>
      BY <1>2, <2>1, <3>1, <3>2, FirstPassIs
    <3>4. d = One * One /\ total = 0 /\ lack = goal
      BY <1>2, <2>1, <2>3, <2>6, <3>1 DEF d
    <3>5. ASSUME NEW s \in Poses
          PROVE  output'[j].shares[s] * (total + lack) = (IF s = 0 THEN lack ELSE ShareAt(layers, j, s)) * d
      <4> DEFINE one == One * One
      <4>1. one \in Nat /\ d = one /\ output'[j].shares[s] = IF s = 0 THEN one ELSE 0
        BY <1>2, <3>3, <3>4
      <4>2. ShareAt(layers, j, s) = 0
        BY <2>3, <2>6
      <4> HIDE DEF one
      <4> QED BY <1>2, <3>4, <4>1, <4>2
    <3> QED BY <1>2, <3>3, <3>4, <3>5 DEF AverageOf, total, d, lack
  <2>7. CASE num_partial_passes = 0 /\ goal - total > 0 /\ num_passes > 0
    <3>1. output'[j] = RestPass(output[j], goal - total) /\ accumulated_weight' = goal
      <4>1. num_passes # 0
        BY <1>3, <2>7
      <4> QED BY <2>4, <2>7, <4>1, Zenon DEF BlendRestPose, goal
    <3>2. goal - total = lack /\ d = total + lack
      BY <1>2, <2>1, <2>7, <3>1 DEF d
    <3>3. /\ output'[j] \in Lane /\ output'[j].rotation # <<0, 0>>
          /\ \A s \in Poses : output'[j].shares[s] = IF s = 0 THEN lack ELSE output[j].shares[s]
      <4>1. /\ total > 0 => output[j].rotation # <<0, 0>>
            /\ output[j].shares[0] = 0
        BY <2>1, <2>2, <2>7, Zenon
      <4>2. RestAveraged(RestPass(output[j], lack), output[j], lack)
        BY <2>1, <4>1, RestAverages
      <4> QED BY <3>1, <3>2, <4>2, Zenon DEF RestAveraged
    <3>4. \A s \in Poses : output'[j].shares[s] = IF s = 0 THEN lack ELSE ShareAt(layers, j, s)
      BY <2>2, <2>7, <3>3, Zenon
    <3> QED BY <2>5, <3>2, <3>3, <3>4, Zenon DEF d, lack
  <2>8. CASE num_partial_passes = 0 /\ ~(goal - total > 0)
    <3>1. output' = output /\ accumulated_weight' = accumulated_weight
      BY <2>4, <2>8, Zenon DEF BlendRestPose, goal
    <3>2. num_passes > 0 /\ total > 0 /\ lack = 0 /\ d = total + lack
      BY <1>2, <1>3, <2>1, <2>3, <2>4, <2>8, <3>1 DEF d
    <3>3. \A s \in Poses : output'[j].shares[s] = IF s = 0 THEN lack ELSE ShareAt(layers, j, s)
      <4>1. \A s \in Poses : output'[j].shares[s] = ShareAt(layers, j, s)
        BY <2>2, <3>1, <3>2, Zenon
      <4>2. lack = ShareAt(layers, j, 0)
        BY <2>1, <3>2
      <4> QED BY <4>1, <4>2, Zenon
    <3> QED BY <2>1, <2>2, <2>5, <3>1, <3>2, <3>3 DEF d, lack
  <2>9. CASE num_partial_passes # 0
    <3>1. num_passes > 0
      BY <1>1, <1>3, <2>9 DEF Summing
    <3>2. /\ output'[j] = RestPass(output[j], Max0(goal - total))
          /\ accumulated_weights'[j] = Max({goal, total})
      <4>1. accumulated_weights[j] = total
        BY <2>2, <3>1
      <4> QED BY <2>9, <4>1, Zenon DEF BlendRestPose, goal
    <3>3. Max0(goal - total) = lack
      BY <2>1 DEF Max0
    <3>4. Max({goal, total}) = total + lack
      BY <1>2, <2>1, MaxOfTwo
    <3>5. /\ output'[j] \in Lane /\ output'[j].rotation # <<0, 0>>
          /\ \A s \in Poses : output'[j].shares[s] = IF s = 0 THEN lack ELSE output[j].shares[s]
      <4>1. /\ total > 0 => output[j].rotation # <<0, 0>>
            /\ output[j].shares[0] = 0
        BY <2>1, <2>2, <3>1, Zenon
      <4>2. RestAveraged(RestPass(output[j], lack), output[j], lack)
        BY <2>1, <4>1, RestAverages
      <4> QED BY <3>2, <3>3, <4>2, Zenon DEF RestAveraged
    <3>6. \A s \in Poses : output'[j].shares[s] = IF s = 0 THEN lack ELSE ShareAt(layers, j, s)
      BY <2>2, <3>1, <3>5, Zenon
    <3>7. d = total + lack
      BY <2>9, <3>2, <3>4 DEF d
    <3> QED BY <2>5, <3>5, <3>6, <3>7, Zenon DEF d, lack
  <2> QED BY <1>3, <2>6, <2>7, <2>8, <2>9 DEF d, lack
<1>6. /\ output' \in [SoaLanes -> Lane] /\ accumulated_weights' \in [SoaLanes -> Int]
      /\ accumulated_weight' \in Int
  <2>1. output' = [j \in SoaLanes |-> output'[j]]
    <3>1. CASE num_partial_passes = 0 /\ lacking > 0
      BY <3>1, Zenon DEF BlendRestPose, goal
    <3>2. CASE num_partial_passes = 0 /\ ~(lacking > 0)
      <4>1. output' = output /\ output \in [SoaLanes -> Lane]
        BY <1>1, <3>2, Zenon DEF BlendRestPose, BlendTyped, goal
      <4> QED BY <4>1
    <3>3. CASE num_partial_passes # 0
      BY <3>3, Zenon DEF BlendRestPose
    <3> QED BY <3>1, <3>2, <3>3
  <2>2. output' \in [SoaLanes -> Lane]
    BY <1>5, <2>1
  <2>3. accumulated_weights' \in [SoaLanes -> Int]
    <3>1. CASE num_partial_passes = 0
      BY <1>1, <3>1, Zenon DEF BlendRestPose, BlendTyped
    <3>2. CASE num_partial_passes # 0
      <4>1. accumulated_weights' = [j \in SoaLanes |-> Max({goal, accumulated_weights[j]})]
        BY <3>2, Zenon DEF BlendRestPose, goal
      <4>2. \A j \in SoaLanes : Max({goal, accumulated_weights[j]}) \in Int
        BY <1>2, <1>4, MaxOfTwo
      <4> QED BY <4>1, <4>2
    <3> QED BY <3>1, <3>2
  <2>4. accumulated_weight' \in {accumulated_weight, One * One, goal}
    BY Zenon DEF BlendRestPose, goal
  <2> QED BY <1>2, <1>3, <2>2, <2>3, <2>4
<1>7. BlendTyped'
  BY <1>1, <1>6 DEF BlendTyped
<1>8. ASSUME NEW j \in SoaLanes
      PROVE  Averaged(j, DividerAt(j))'
  BY <1>1, <1>5 DEF Averaged, DividerAt, goal
<1> QED BY <1>1, <1>7, <1>8 DEF BlendInv

LEMMA NormalizeKeeps ==
  ASSUME BlendInv, Normalize
  PROVE  BlendInv'
<1>1. /\ BlendTyped /\ stage' = "additive" /\ stage = "rest"
      /\ UNCHANGED <<threshold, layers, num_passes, num_partial_passes, accumulated_weight,
                     accumulated_weights>>
      /\ \A j \in SoaLanes : Averaged(j, DividerAt(j))
      /\ output' = [j \in SoaLanes |-> [output[j] EXCEPT !.divider = DividerAt(j)]]
  BY DEF BlendInv, Normalize, DividerAt
<1>2. ASSUME NEW j \in SoaLanes
      PROVE  output'[j] \in Lane /\ AverageOf(output'[j], layers, j, LackOf(layers, j, threshold * One), output'[j].divider)
  <2> DEFINE d == DividerAt(j)
  <2>1. d \in Int /\ output[j] \in Lane
    BY <1>1 DEF BlendTyped, DividerAt
  <2>2. Averaged(j, d) /\ output'[j] = [output[j] EXCEPT !.divider = d]
    BY <1>1
  <2> HIDE DEF d
  <2>3. /\ output'[j] \in Lane /\ output'[j].divider = d
        /\ output'[j].shares = output[j].shares /\ output'[j].rotation = output[j].rotation
    BY <2>1, <2>2 DEF Lane
  <2> QED BY <2>2, <2>3 DEF Averaged, AverageOf
<1>3. BlendTyped'
  BY <1>1, <1>2 DEF BlendTyped
<1> QED BY <1>1, <1>2, <1>3 DEF BlendInv, Averaged

LEMMA AddLayerKeeps ==
  ASSUME BlendInv, NEW layer \in Layers, AddLayer(layer)
  PROVE  BlendInv'
<1>1. /\ BlendTyped /\ stage = "additive"
      /\ UNCHANGED <<stage, threshold, layers, num_passes, num_partial_passes, accumulated_weight,
                     accumulated_weights>>
      /\ \A j \in SoaLanes : Averaged(j, output[j].divider)
      /\ output' = IF layer.weight = 0 THEN output
                   ELSE [j \in SoaLanes |-> [output[j] EXCEPT !.added = Append(@, WeightAt(layer, j))]]
  BY DEF BlendInv, AddLayer
<1>2. CASE layer.weight = 0
  <2>1. output' = output
    BY <1>1, <1>2
  <2> QED BY <1>1, <2>1 DEF BlendInv, BlendTyped, Averaged
<1>3. CASE layer.weight # 0
  <2>1. output' = [j \in SoaLanes |-> [output[j] EXCEPT !.added = Append(output[j].added, WeightAt(layer, j))]]
    BY <1>1, <1>3
  <2>2. ASSUME NEW j \in SoaLanes
        PROVE  output'[j] \in Lane /\ AverageOf(output'[j], layers, j, LackOf(layers, j, threshold * One), output'[j].divider)
    <3>1. WeightAt(layer, j) \in Int /\ output[j] \in Lane
      BY <1>1, WeightsAre DEF BlendTyped
    <3>2. Append(output[j].added, WeightAt(layer, j)) \in Seq(Int)
      BY <3>1 DEF Lane
    <3>3. /\ output'[j] \in Lane /\ output'[j].divider = output[j].divider
          /\ output'[j].shares = output[j].shares /\ output'[j].rotation = output[j].rotation
      BY <2>1, <3>1, <3>2 DEF Lane
    <3> QED BY <1>1, <3>3 DEF Averaged, AverageOf
  <2>3. BlendTyped'
    BY <1>1, <2>1, <2>2 DEF BlendTyped
  <2> QED BY <1>1, <2>2, <2>3 DEF BlendInv, Averaged
<1> QED BY <1>2, <1>3

LEMMA BlendStepKeeps ==
  ASSUME BlendInv, [BlendNext]_blendVars
  PROVE  BlendInv'
<1>1. ASSUME NEW layer \in Layers, BlendLayer(layer)
      PROVE  BlendInv'
  <2>1. layer.weight \in Int
    BY BlendingAssumption DEF Layers
  <2>2. layer.weight <= 0 \/ layer.weight > 0
    BY <2>1
  <2> QED BY <1>1, <2>2, SkippedLayerKeeps, LayerKeeps
<1>2. CASE UNCHANGED blendVars
  BY <1>2 DEF blendVars, BlendInv, BlendTyped, NotBegun, Summing, Summed, Averaged, DividerAt
<1> QED BY <1>1, <1>2, BlendReturnKeeps, BlendBeginKeeps, AddLayerKeeps, RestPoseKeeps, NormalizeKeeps, Zenon DEF BlendNext

LEMMA BlendsAverage ==
  ASSUME BlendInv
  PROVE  BlendIsAverage
<1> SUFFICES ASSUME stage = "additive", NEW j \in SoaLanes
             PROVE  LET Weight(n) == Max0(WeightAt(layers[n], j))
                        total     == SumTo([n \in DOMAIN layers |-> Weight(n)], Len(layers))
                        lacking   == Max0(threshold * One - total)
                        Share(s)  == IF s = 0 THEN lacking
                                     ELSE IF s \in DOMAIN layers THEN Weight(s) ELSE 0
                    IN  /\ output[j].divider > 0
                        /\ \A s \in Poses : output[j].shares[s] * (total + lacking) = Share(s) * output[j].divider
                        /\ output[j].rotation # <<0, 0>>
  BY Zenon DEF BlendIsAverage
<1>1. AverageOf(output[j], layers, j, LackOf(layers, j, threshold * One), output[j].divider)
  BY DEF BlendInv, Averaged
<1> QED BY <1>1, Zenon DEF AverageOf, LackOf, TotalAt, ShareAt

-----------------------------------------------------------------------------
(* Least and greatest of a set.                                            *)

LEMMA MinIs ==
  ASSUME NEW S, S \subseteq Int, NEW l \in S, \A y \in S : l <= y
  PROVE  Min(S) = l
<1>1. \A x \in S : (\A y \in S : x <= y) => x = l
  OBVIOUS
<1> QED BY <1>1 DEF Min

LEMMA MaxIs ==
  ASSUME NEW S, S \subseteq Int, NEW l \in S, \A y \in S : y <= l
  PROVE  Max(S) = l
<1>1. \A x \in S : (\A y \in S : x >= y) => x = l
  OBVIOUS
<1> QED BY <1>1 DEF Max

LEMMA LeastOf ==
  ASSUME NEW S, S \subseteq Nat, S # {}
  PROVE  Min(S) \in S /\ \A y \in S : Min(S) <= y
<1>1. PICK l \in S : \A y \in S : l <= y
  BY LeastNatural
<1>2. S \subseteq Int
  OBVIOUS
<1>3. Min(S) = l
  BY <1>1, <1>2, MinIs
<1> QED BY <1>1, <1>3

LEMMA GreatestOf ==
  ASSUME NEW n \in Nat, NEW S, S \subseteq 0 .. n, S # {}
  PROVE  Max(S) \in S /\ \A y \in S : y <= Max(S)
<1> DEFINE T == {n - x : x \in S}
<1>1. \A x \in S : x \in Int /\ n - x \in Nat
  OBVIOUS
<1>2. T \subseteq Nat /\ T # {}
  BY <1>1, Zenon
<1> HIDE DEF T
<1>3. PICK t \in T : \A u \in T : t <= u
  BY <1>2, LeastNatural
<1>4. PICK l \in S : t = n - l
  BY <1>3 DEF T
<1>5. \A y \in S : y <= l
  <2> SUFFICES ASSUME NEW y \in S PROVE y <= l
    OBVIOUS
  <2>1. t <= n - y
    BY <1>3 DEF T
  <2> QED BY <1>4, <2>1
<1>6. Max(S) = l
  <2>1. S \subseteq Int
    BY <1>1
  <2> QED BY <1>5, <2>1, MaxIs
<1> QED BY <1>5, <1>6

LEMMA MaxUpTo ==
  ASSUME NEW K, K \subseteq Int, NEW k \in Int, NEW l \in K, l <= k, \A n \in K : n <= k => n <= l
  PROVE  Max({n \in K : n <= k}) = l
<1> DEFINE S == {n \in K : n <= k}
<1>1. l \in S /\ S \subseteq Int /\ \A n \in S : n <= l
  BY Zenon
<1> HIDE DEF S
<1>2. Max(S) = l
  BY <1>1, MaxIs
<1> QED BY <1>2 DEF S

LEMMA MinFrom ==
  ASSUME NEW K, K \subseteq Int, NEW k \in Int, NEW r \in K, r >= k, \A n \in K : n >= k => r <= n
  PROVE  Min({n \in K : n >= k}) = r
<1> DEFINE S == {n \in K : n >= k}
<1>1. r \in S /\ S \subseteq Int /\ \A n \in S : r <= n
  BY Zenon
<1> HIDE DEF S
<1>2. Min(S) = r
  BY <1>1, MinIs
<1> QED BY <1>2 DEF S

\* Among the numbers of an interval some are furthest.
LEMMA FurthestOf ==
  ASSUME NEW n \in Nat, NEW S, S \subseteq 0 .. n, S # {}, NEW f, \A k \in S : f[k] \in Int
  PROVE  \E k \in S : \A l \in S : f[l] <= f[k]
<1> DEFINE Has(m) == (S \cap 0 .. m # {}) => \E k \in S : k <= m /\ \A l \in S \cap 0 .. m : f[l] <= f[k]
           T == {m \in Nat : ~Has(m)}
<1>1. T = {}
  <2> SUFFICES ASSUME T # {} PROVE FALSE
    OBVIOUS
  <2>1. T \subseteq Nat
    OBVIOUS
  <2>2. PICK m \in T : \A u \in T : m <= u
    <3> HIDE DEF T
    <3> QED BY <2>1, LeastNatural
  <2>3. m \in Nat /\ ~Has(m)
    BY <2>2
  <2>4. m # 0
    <3> SUFFICES ASSUME m = 0 PROVE FALSE
      OBVIOUS
    <3>1. \A l \in S \cap 0 .. 0 : l = 0
      OBVIOUS
    <3> QED BY <2>3, <3>1
  <2>5. m - 1 \in Nat
    BY <2>3, <2>4
  <2>6. Has(m - 1)
    <3>1. m - 1 \notin T
      <4> HIDE DEF T
      <4> QED BY <2>2, <2>3, <2>5
    <3> HIDE DEF Has
    <3> QED BY <2>5, <3>1
  <2>7. \A l \in S \cap 0 .. m : l = m \/ l \in S \cap 0 .. (m - 1)
    BY <2>3, <2>5
  <2>8. CASE S \cap 0 .. (m - 1) = {}
    BY <2>3, <2>7, <2>8
  <2>9. CASE S \cap 0 .. (m - 1) # {}
    <3>1. PICK k \in S : k <= m - 1 /\ \A l \in S \cap 0 .. (m - 1) : f[l] <= f[k]
      BY <2>6, <2>9
    <3>2. CASE m \in S /\ f[k] <= f[m]
      <4>1. \A l \in S \cap 0 .. m : f[l] <= f[m]
        BY <2>7, <3>1, <3>2
      <4> QED BY <2>3, <3>2, <4>1
    <3>3. CASE ~(m \in S /\ f[k] <= f[m])
      <4>1. \A l \in S \cap 0 .. m : f[l] <= f[k]
        BY <2>7, <3>1, <3>3
      <4> QED BY <2>3, <2>5, <3>1, <4>1
    <3> QED BY <3>2, <3>3
  <2> QED BY <2>8, <2>9
<1>2. Has(n)
  BY <1>1
<1>3. S \cap 0 .. n = S
  OBVIOUS
<1> QED BY <1>2, <1>3

-----------------------------------------------------------------------------
(* What a track is near to.                                                *)

TrackKey == [value : Int, step : BOOLEAN]

\* Resampled, of any keys that are kept.
SampleOf(ks, K, k) ==
    LET before == {n \in K : n <= k}
        after  == {n \in K : n >= k}
        l == Max(before)
        r == Min(after)
    IN  IF K = {} THEN [value |-> 0, time |-> 1]
        ELSE IF before = {} THEN [value |-> ks[r].value, time |-> 1]
        ELSE IF after = {} \/ l = r THEN [value |-> ks[l].value, time |-> 1]
        ELSE [value |-> ks[l].value * (r - k) + ks[r].value * (k - l), time |-> r - l]

NearOf(ks, K, k, b) ==
    Abs(SampleOf(ks, K, k).value - ks[k].value * SampleOf(ks, K, k).time) <= b * SampleOf(ks, K, k).time

LEMMA ValuesAre ==
  ASSUME NEW ks \in Seq(TrackKey), NEW k \in 1 .. Len(ks)
  PROVE  ks[k].value \in Int /\ k \in Int
<1>1. ks[k] \in TrackKey /\ Len(ks) \in Nat
  OBVIOUS
<1> QED BY <1>1 DEF TrackKey

LEMMA NearKey ==
  ASSUME NEW ks \in Seq(TrackKey), NEW K \in SUBSET (1 .. Len(ks)), NEW b \in Nat, NEW k \in K
  PROVE  NearOf(ks, K, k, b)
<1>1. K \subseteq Int /\ k \in 1 .. Len(ks) /\ k \in Int /\ k <= k /\ k >= k
      /\ \A n \in K : n <= k => n <= k
  OBVIOUS
<1>a. \A n \in K : n >= k => k <= n
  OBVIOUS
<1>2. Max({n \in K : n <= k}) = k
  BY <1>1, MaxUpTo, Zenon
<1>3. Min({n \in K : n >= k}) = k
  BY <1>1, <1>a, MinFrom, Zenon
<1>4. k \in {n \in K : n <= k}
  BY <1>1
<1>5. SampleOf(ks, K, k) = [value |-> ks[k].value, time |-> 1]
  BY <1>2, <1>3, <1>4, Zenon DEF SampleOf
<1>6. ks[k].value \in Int
  BY <1>1, ValuesAre
<1> QED BY <1>5, <1>6 DEF NearOf, Abs

LEMMA NearLine ==
  ASSUME NEW ks \in Seq(TrackKey), NEW K \in SUBSET (1 .. Len(ks)), NEW b \in Nat, NEW k \in 1 .. Len(ks),
         NEW l \in K, NEW r \in K, l < k, k < r, \A n \in K : n <= l \/ r <= n
  PROVE  NearOf(ks, K, k, b)
         <=> Abs((ks[l].value * (r - k) + ks[r].value * (k - l)) - ks[k].value * (r - l)) <= b * (r - l)
<1>1. K \subseteq Int /\ k \in Int /\ l <= k /\ r >= k /\ l # r
      /\ \A n \in K : n <= k => n <= l
  OBVIOUS
<1>a. \A n \in K : n >= k => r <= n
  OBVIOUS
<1>2. Max({n \in K : n <= k}) = l
  BY <1>1, MaxUpTo
<1>3. Min({n \in K : n >= k}) = r
  BY <1>1, <1>a, MinFrom
<1>4. l \in {n \in K : n <= k} /\ r \in {n \in K : n >= k}
  BY <1>1
<1>5. SampleOf(ks, K, k) = [value |-> ks[l].value * (r - k) + ks[r].value * (k - l), time |-> r - l]
  BY <1>1, <1>2, <1>3, <1>4, Zenon DEF SampleOf
<1> DEFINE v == ks[l].value * (r - k) + ks[r].value * (k - l)
           t == r - l
<1>6. SampleOf(ks, K, k).value = v /\ SampleOf(ks, K, k).time = t
  BY <1>5
<1> HIDE DEF v, t
<1>7. NearOf(ks, K, k, b) <=> (Abs(v - ks[k].value * t) <= b * t)
  BY ONLY <1>6 DEF NearOf
<1>8. ks[l].value * (r - k) + ks[r].value * (k - l) = v /\ r - l = t
  BY Zenon DEF v, t
<1> QED BY ONLY <1>7, <1>8

LEMMA NearEnd ==
  ASSUME NEW ks \in Seq(TrackKey), NEW K \in SUBSET (1 .. Len(ks)), NEW b \in Nat, NEW k \in 1 .. Len(ks),
         NEW l \in K, l < k, \A n \in K : n <= l
  PROVE  NearOf(ks, K, k, b) <=> Abs(ks[l].value - ks[k].value) <= b
<1>1. K \subseteq Int /\ k \in Int /\ l <= k /\ \A n \in K : ~(n >= k)
  OBVIOUS
<1>2. Max({n \in K : n <= k}) = l
  BY <1>1, MaxUpTo
<1>3. {n \in K : n >= k} = {} /\ l \in {n \in K : n <= k}
  BY <1>1
<1>4. SampleOf(ks, K, k) = [value |-> ks[l].value, time |-> 1]
  BY <1>2, <1>3, Zenon DEF SampleOf
<1>5. ks[k].value \in Int
  BY ValuesAre
<1> QED BY <1>4, <1>5 DEF NearOf

LEMMA NearNothing ==
  ASSUME NEW ks \in Seq(TrackKey), NEW b \in Nat, NEW k \in 1 .. Len(ks)
  PROVE  NearOf(ks, {}, k, b) <=> Abs(ks[k].value) <= b
<1>1. SampleOf(ks, {}, k) = [value |-> 0, time |-> 1]
  BY DEF SampleOf
<1>2. ks[k].value \in Int
  BY ValuesAre
<1> QED BY <1>1, <1>2 DEF NearOf, Abs

LEMMA GapAround ==
  ASSUME NEW n \in Nat, NEW K \in SUBSET (1 .. n), NEW k \in 1 .. n, k \notin K,
         NEW a \in K, a <= k, NEW z \in K, k <= z
  PROVE  \E l, r \in K : l < k /\ k < r /\ \A m \in K : m <= l \/ r <= m
<1> DEFINE S == {m \in K : m <= k}
           U == {m \in K : m >= k}
<1>1. \A m \in K : m \in Nat /\ m \in 0 .. n
  OBVIOUS
<1>2. S \subseteq 0 .. n /\ S # {} /\ U \subseteq Nat /\ U # {}
  BY <1>1
<1>3. \A m \in K : m <= k => m \in S
  OBVIOUS
<1>4. \A m \in K : m >= k => m \in U
  OBVIOUS
<1>5. \A m \in S : m \in K /\ m <= k
  OBVIOUS
<1>6. \A m \in U : m \in K /\ m >= k
  OBVIOUS
<1> HIDE DEF S, U
<1>7. PICK l \in S : \A y \in S : y <= l
  BY <1>2, GreatestOf
<1>8. PICK r \in U : \A y \in U : r <= y
  BY <1>2, LeastOf
<1>9. l \in K /\ l < k
  <2>1. l \in K /\ l <= k /\ l # k
    BY <1>5, Zenon
  <2>2. l \in Int /\ k \in Int
    BY <1>1, <2>1
  <2> QED BY ONLY <2>1, <2>2
<1>10. r \in K /\ k < r
  <2>1. r \in K /\ r >= k /\ r # k
    BY <1>6, Zenon
  <2>2. r \in Int /\ k \in Int
    BY <1>1, <2>1
  <2> QED BY ONLY <2>1, <2>2
<1>11. \A m \in K : m <= l \/ r <= m
  <2> SUFFICES ASSUME NEW m \in K PROVE m <= l \/ r <= m
    OBVIOUS
  <2>1. m <= k \/ m >= k
    BY <1>1
  <2> QED BY <1>3, <1>4, <1>7, <1>8, <2>1
<1> QED BY <1>9, <1>10, <1>11

\* A key near the line between two values that are near each other is near the first.
LEMMA LineToConstant ==
  ASSUME NEW a \in Int, NEW b \in Int, NEW x \in Int, NEW p \in Nat, NEW q \in Nat, p > 0, q > 0,
         NEW B \in Nat, NEW T \in Nat,
         Abs((a * q + b * p) - x * (q + p)) <= B * (q + p), Abs(a - b) <= T
  PROVE  Abs(a - x) <= B + T
<1> DEFINE s == q + p
           u == a - x
           v == a - b
<1>1. s \in Nat /\ s > 0 /\ u \in Int /\ v \in Int
  OBVIOUS
<1>2. (a * q + b * p) - x * (q + p) = u * s - v * p
  OBVIOUS
<1>3. v * p <= T * p /\ -(T * p) <= v * p
  <2>1. v <= T /\ -T <= v
    BY DEF Abs
  <2> HIDE DEF v
  <2> QED BY <1>1, <2>1
<1>4. T * p <= T * s
  OBVIOUS
<1>5. u * s - v * p <= B * s /\ -(B * s) <= u * s - v * p
  BY <1>1, <1>2 DEF Abs
<1> HIDE DEF s, u, v
<1>6. u * s <= B * s + T * s /\ -(B * s + T * s) <= u * s
  <2>1. u * s \in Int /\ v * p \in Int /\ B * s \in Int /\ T * s \in Int /\ T * p \in Int
    BY <1>1
  <2> QED BY <1>3, <1>4, <1>5, <2>1
<1>7. u * s <= (B + T) * s /\ (-(B + T)) * s <= u * s
  BY <1>1, <1>6
<1>8. u <= B + T /\ -(B + T) <= u
  <2>1. ASSUME NEW c \in Int, NEW d \in Int, c * s <= d * s PROVE c <= d
    <3> SUFFICES ASSUME d + 1 <= c PROVE FALSE
      BY <2>1
    <3>1. (d + 1) * s <= c * s
      BY <1>1
    <3>2. (d + 1) * s = d * s + s /\ d * s \in Int /\ c * s \in Int
      BY <1>1
    <3> QED BY <1>1, <2>1, <3>1, <3>2
  <2> QED BY <1>1, <1>7, <2>1
<1> QED BY <1>8 DEF u, Abs

-----------------------------------------------------------------------------
(* Splitting.                                                              *)

\* Two keys that are next to each other among those of a set.
Adjacent(I, l, r) == l \in I /\ r \in I /\ l < r /\ Within(l, r) \cap I = {}

Pairs == Nat \X Nat

\* A segment on the stack lies between two keys that are next to each other among
\* those included, and is there once; all others need no further key.
Splitting ==
    /\ Len(keys) >= 2 /\ included \in SUBSET (1 .. Len(keys)) /\ 1 \in included /\ Len(keys) \in included
    /\ segments \in Seq(Pairs)
    /\ \A n \in DOMAIN segments : Adjacent(included, segments[n][1], segments[n][2])
    /\ \A m, n \in DOMAIN segments : segments[m] = segments[n] => m = n
    /\ \A l, r \in included :
          Adjacent(included, l, r) => Candidate(l, r) = {} \/ \E n \in DOMAIN segments : segments[n] = <<l, r>>

LEMMA OffLineIs ==
  ASSUME keys \in Seq(TrackKey), NEW l \in 1 .. Len(keys), NEW r \in 1 .. Len(keys), NEW k \in 1 .. Len(keys)
  PROVE  /\ OffLine(l, r, k) \in Int
         /\ OffLine(l, r, k)
              = Abs((keys[l].value * (r - k) + keys[r].value * (k - l)) - keys[k].value * (r - l))
<1> DEFINE a == keys[l].value * (r - k)
           b == keys[r].value * (k - l)
           c == keys[k].value * (r - l)
<1>1. a \in Int /\ b \in Int /\ c \in Int
  BY ValuesAre
<1>2. OffLine(l, r, k) = Abs(a + (b - c))
  BY DEF OffLine
<1> HIDE DEF a, b, c
<1>3. a + (b - c) = (a + b) - c /\ a + (b - c) \in Int
  BY <1>1
<1>4. OffLine(l, r, k) = Abs((a + b) - c) /\ OffLine(l, r, k) \in Int
  BY <1>2, <1>3 DEF Abs
<1> QED BY <1>4 DEF a, b, c

LEMMA CandidateIs ==
  ASSUME keys \in Seq(TrackKey), NEW l \in 1 .. Len(keys), NEW r \in 1 .. Len(keys)
  PROVE  /\ \A k \in Candidate(l, r) : k \in Within(l, r)
         /\ Candidate(l, r) = {} =>
               \A k \in Within(l, r) : /\ ~keys[k].step
                                       /\ OffLine(l, r, k) <= Tolerance * (r - l)
<1> DEFINE steps == {k \in Within(l, r) : ~Decimable(k)}
           far   == {k \in Within(l, r) : OffLine(l, r, k) > Tolerance * (r - l)}
           furthest == {k \in far : \A m \in far : OffLine(l, r, m) <= OffLine(l, r, k)}
<1>1. Candidate(l, r) = IF steps # {} THEN {Min(steps)} ELSE IF far # {} THEN {Min(furthest)} ELSE {}
  BY Zenon DEF Candidate
<1>2. /\ \A k \in Within(l, r) : k \in 1 .. Len(keys) /\ k \in Nat /\ k \in 0 .. Len(keys)
      /\ Len(keys) \in Nat
  BY DEF Within
<1>3. steps \subseteq Within(l, r) /\ far \subseteq Within(l, r)
  OBVIOUS
<1>4. steps # {} => Min(steps) \in Within(l, r)
  <2> SUFFICES ASSUME steps # {} PROVE Min(steps) \in Within(l, r)
    OBVIOUS
  <2> HIDE DEF steps
  <2>1. steps \subseteq Nat
    BY <1>2, <1>3
  <2>2. Min(steps) \in steps
    BY <2>1, LeastOf
  <2> QED BY <1>3, <2>2
<1>5. far # {} => Min(furthest) \in Within(l, r)
  <2> SUFFICES ASSUME far # {} PROVE Min(furthest) \in Within(l, r)
    OBVIOUS
  <2> DEFINE f == [k \in far |-> OffLine(l, r, k)]
  <2>1. \A k \in far : f[k] \in Int /\ f[k] = OffLine(l, r, k)
    BY <1>2, <1>3, OffLineIs
  <2> HIDE DEF f
  <2>2. \E k \in far : \A m \in far : f[m] <= f[k]
    <3>1. far \subseteq 0 .. Len(keys) /\ \A k \in far : f[k] \in Int
      BY <1>2, <1>3, <2>1
    <3> HIDE DEF far
    <3> QED BY <1>2, <3>1, FurthestOf
  <2>3. furthest # {}
    BY <2>1, <2>2
  <2>4. furthest \subseteq Nat /\ furthest \subseteq Within(l, r)
    BY <1>2, <1>3
  <2> HIDE DEF furthest
  <2>5. Min(furthest) \in furthest
    BY <2>3, <2>4, LeastOf
  <2> QED BY <2>4, <2>5
<1>6. \A k \in Candidate(l, r) : k \in Within(l, r)
  <2> HIDE DEF steps, far, furthest
  <2> QED BY <1>1, <1>4, <1>5, Zenon
<1>7. ASSUME Candidate(l, r) = {}, NEW k \in Within(l, r)
      PROVE  ~keys[k].step /\ OffLine(l, r, k) <= Tolerance * (r - l)
  <2>1. steps = {} /\ far = {}
    <3> HIDE DEF steps, far, furthest
    <3> QED BY <1>1, <1>7
  <2>2. ~keys[k].step
    BY <2>1, Zenon DEF Decimable
  <2>3. ~(OffLine(l, r, k) > Tolerance * (r - l))
    BY <2>1, Zenon
  <2>4. OffLine(l, r, k) \in Int /\ Tolerance * (r - l) \in Int
    BY <1>2, OffLineIs, OptimizerAssumption
  <2> QED BY <2>2, <2>3, <2>4
<1> QED BY <1>6, <1>7

\* The stack once its top is taken off, and what is put on it.
LEMMA PoppedIs ==
  ASSUME NEW s \in Seq(Pairs), s # <<>>
  PROVE  /\ Front(s) \in Seq(Pairs) /\ Len(s) \in DOMAIN s /\ Last(s) = s[Len(s)]
         /\ DOMAIN Front(s) = DOMAIN s \ {Len(s)}
         /\ \A n \in DOMAIN Front(s) : Front(s)[n] = s[n]
<1>1. Len(s) \in Nat /\ Len(s) > 0 /\ DOMAIN s = 1 .. Len(s)
  OBVIOUS
<1>2. Front(s) = SubSeq(s, 1, Len(s) - 1) /\ Last(s) = s[Len(s)]
  BY DEF Front, Last
<1>3. /\ SubSeq(s, 1, Len(s) - 1) \in Seq(Pairs)
      /\ Len(SubSeq(s, 1, Len(s) - 1)) = Len(s) - 1
      /\ \A n \in 1 .. Len(s) - 1 : SubSeq(s, 1, Len(s) - 1)[n] = s[n]
  BY <1>1
<1>4. DOMAIN Front(s) = 1 .. Len(s) - 1
  BY <1>2, <1>3
<1>5. 1 .. Len(s) - 1 = (1 .. Len(s)) \ {Len(s)}
  BY <1>1
<1> QED BY <1>1, <1>2, <1>3, <1>4, <1>5

\* Both sides of k, each once, where there is something between.
BothSides(H, l, r, k) ==
    /\ \A n \in DOMAIN H : H[n] \in {<<l, k>>, <<k, r>>}
    /\ \A m, n \in DOMAIN H : H[m] = H[n] => m = n
    /\ k - l > 1 => \E n \in DOMAIN H : H[n] = <<l, k>>
    /\ r - k > 1 => \E n \in DOMAIN H : H[n] = <<k, r>>

LEMMA HalvesAre ==
  ASSUME NEW l \in Nat, NEW r \in Nat, NEW k \in Nat, l < k, k < r
  PROVE  Halves(l, r, k) \in Seq(Pairs) /\ BothSides(Halves(l, r, k), l, r, k)
<1> DEFINE a == <<l, k>>
           b == <<k, r>>
<1>1. a \in Pairs /\ b \in Pairs /\ a # b
  BY DEF Pairs
<1> HIDE DEF a, b
<1>2. Halves(l, r, k) = (IF k - l > 1 THEN <<a>> ELSE <<>>) \o (IF r - k > 1 THEN <<b>> ELSE <<>>)
  BY DEF Halves, a, b
<1>3. /\ <<a>> \o <<b>> = <<a, b>> /\ <<a>> \o <<>> = <<a>> /\ <<>> \o <<b>> = <<b>> /\ <<>> \o <<>> = <<>>
  <2>1. <<a>> \o <<b>> = <<a, b>>
    <3>1. <<a>> \o <<b>> \in Seq(Pairs) /\ <<a, b>> \in Seq(Pairs)
      BY <1>1
    <3>2. Len(<<a>> \o <<b>>) = 2 /\ Len(<<a, b>>) = 2
      OBVIOUS
    <3>3. \A n \in 1 .. 2 : (<<a>> \o <<b>>)[n] = <<a, b>>[n]
      OBVIOUS
    <3> QED BY <3>1, <3>2, <3>3, SeqEqual
  <2>2. <<a>> \in Seq(Pairs) /\ <<b>> \in Seq(Pairs) /\ <<>> \in Seq(Pairs)
    BY <1>1
  <2> QED BY <2>1, <2>2, ConcatEmptySeq
<1>4. CASE k - l > 1 /\ r - k > 1
  <2>1. Halves(l, r, k) = <<a, b>>
    BY <1>2, <1>3, <1>4
  <2> QED BY <1>1, <1>4, <2>1 DEF a, b, BothSides
<1>5. CASE k - l > 1 /\ ~(r - k > 1)
  <2>1. Halves(l, r, k) = <<a>>
    BY <1>2, <1>3, <1>5
  <2> QED BY <1>1, <1>5, <2>1 DEF a, b, BothSides
<1>6. CASE ~(k - l > 1) /\ r - k > 1
  <2>1. Halves(l, r, k) = <<b>>
    BY <1>2, <1>3, <1>6
  <2> QED BY <1>1, <1>6, <2>1 DEF a, b, BothSides
<1>7. CASE ~(k - l > 1) /\ ~(r - k > 1)
  <2>1. Halves(l, r, k) = <<>>
    BY <1>2, <1>3, <1>7
  <2> QED BY <1>1, <1>7, <2>1 DEF BothSides
<1> QED BY <1>4, <1>5, <1>6, <1>7

\* Two sequences one after the other.
Joins(s, t) ==
    /\ \A n \in DOMAIN (s \o t) :
          \/ n \in DOMAIN s /\ (s \o t)[n] = s[n]
          \/ n \notin DOMAIN s /\ \E m \in DOMAIN t : n = Len(s) + m /\ (s \o t)[n] = t[m]
    /\ \A m \in DOMAIN s : m \in DOMAIN (s \o t) /\ (s \o t)[m] = s[m]
    /\ \A m \in DOMAIN t : \E n \in DOMAIN (s \o t) : (s \o t)[n] = t[m]

LEMMA ConcatIs ==
  ASSUME NEW s \in Seq(Pairs), NEW t \in Seq(Pairs)
  PROVE  Joins(s, t)
<1>1. /\ s \o t \in Seq(Pairs) /\ Len(s \o t) = Len(s) + Len(t)
      /\ \A x \in 1 .. Len(s) + Len(t) : (s \o t)[x] = IF x <= Len(s) THEN s[x] ELSE t[x - Len(s)]
  BY ConcatProperties
<1>2. DOMAIN s = 1 .. Len(s) /\ DOMAIN t = 1 .. Len(t) /\ DOMAIN (s \o t) = 1 .. Len(s) + Len(t)
      /\ Len(s) \in Nat /\ Len(t) \in Nat
  BY <1>1
<1>3. ASSUME NEW n \in DOMAIN (s \o t)
      PROVE  \/ n \in DOMAIN s /\ (s \o t)[n] = s[n]
             \/ n \notin DOMAIN s /\ \E m \in DOMAIN t : n = Len(s) + m /\ (s \o t)[n] = t[m]
  <2>1. CASE n <= Len(s)
    BY <1>1, <1>2, <2>1
  <2>2. CASE ~(n <= Len(s))
    <3>1. n - Len(s) \in DOMAIN t /\ n = Len(s) + (n - Len(s)) /\ (s \o t)[n] = t[n - Len(s)] /\ n \notin DOMAIN s
      BY <1>1, <1>2, <2>2
    <3> QED BY <3>1
  <2> QED BY <2>1, <2>2
<1>4. \A m \in DOMAIN s : m \in DOMAIN (s \o t) /\ (s \o t)[m] = s[m]
  BY <1>1, <1>2
<1>5. \A m \in DOMAIN t : Len(s) + m \in DOMAIN (s \o t) /\ (s \o t)[Len(s) + m] = t[m]
  <2> SUFFICES ASSUME NEW m \in DOMAIN t
               PROVE  Len(s) + m \in DOMAIN (s \o t) /\ (s \o t)[Len(s) + m] = t[m]
    OBVIOUS
  <2>1. Len(s) + m \in 1 .. Len(s) + Len(t) /\ ~(Len(s) + m <= Len(s)) /\ (Len(s) + m) - Len(s) = m
    BY <1>2
  <2> QED BY <1>1, <1>2, <2>1
<1> QED BY <1>3, <1>4, <1>5, Zenon DEF Joins

\* A key between two neighbours parts no others.
LEMMA OneGap ==
  ASSUME NEW I \in SUBSET Nat, NEW l \in I, NEW r \in I, NEW a \in I, NEW b \in I, NEW k \in Nat,
         l < k, k < r, a < k, k < b, Within(l, r) \cap I = {}, Within(a, b) \cap I = {}
  PROVE  a = l /\ b = r
<1>1. \A x \in I : x <= l \/ r <= x
  BY DEF Within
<1>2. \A x \in I : x <= a \/ b <= x
  BY DEF Within
<1>3. a <= l /\ r <= b
  BY <1>1
<1>4. l <= a /\ b <= r
  BY <1>2
<1> QED BY <1>3, <1>4

LEMMA CandidatesStay ==
  ASSUME keys' = keys
  PROVE  \A a, b : Candidate(a, b)' = Candidate(a, b)
<1>1. \A a, b, k : OffLine(a, b, k)' = OffLine(a, b, k)
  BY DEF OffLine
<1>2. \A k : Decimable(k)' <=> Decimable(k)
  BY DEF Decimable
<1> SUFFICES ASSUME NEW a, NEW b PROVE Candidate(a, b)' = Candidate(a, b)
  OBVIOUS
<1>3. {k \in Within(a, b) : ~Decimable(k)}' = {k \in Within(a, b) : ~Decimable(k)}
  BY <1>2 DEF Within
<1>4. {k \in Within(a, b) : OffLine(a, b, k) > Tolerance * (b - a)}'
      = {k \in Within(a, b) : OffLine(a, b, k) > Tolerance * (b - a)}
  BY <1>1 DEF Within
<1> QED BY <1>1, <1>3, <1>4 DEF Candidate

LEMMA SplitKeeps ==
  ASSUME keys \in Seq(TrackKey), Splitting, Split
  PROVE  Splitting'
<1> DEFINE l == segments[Len(segments)][1]
           r == segments[Len(segments)][2]
<1>1. segments \in Seq(Pairs) /\ segments # <<>> /\ keys' = keys
  BY DEF Split, Splitting
<1>2. /\ Front(segments) \in Seq(Pairs) /\ Len(segments) \in DOMAIN segments
      /\ Last(segments) = segments[Len(segments)]
      /\ DOMAIN Front(segments) = DOMAIN segments \ {Len(segments)}
      /\ \A n \in DOMAIN Front(segments) : Front(segments)[n] = segments[n]
  BY <1>1, PoppedIs
<1>3. /\ Adjacent(included, l, r) /\ l \in 1 .. Len(keys) /\ r \in 1 .. Len(keys) /\ l \in Nat /\ r \in Nat
      /\ segments[Len(segments)] = <<l, r>>
  <2>1. Adjacent(included, l, r)
    BY <1>2, Zenon DEF Splitting
  <2>2. l \in 1 .. Len(keys) /\ r \in 1 .. Len(keys)
    BY <2>1 DEF Adjacent, Splitting
  <2>3. segments[Len(segments)] \in Pairs
    BY <1>1, <1>2
  <2> QED BY <2>1, <2>2, <2>3 DEF Pairs
<1>4. \A m \in DOMAIN Front(segments) :
         /\ Front(segments)[m] \in Pairs
         /\ Adjacent(included, Front(segments)[m][1], Front(segments)[m][2])
         /\ Front(segments)[m] # <<l, r>>
  <2> SUFFICES ASSUME NEW m \in DOMAIN Front(segments)
               PROVE  /\ Front(segments)[m] \in Pairs
                      /\ Adjacent(included, Front(segments)[m][1], Front(segments)[m][2])
                      /\ Front(segments)[m] # <<l, r>>
    OBVIOUS
  <2>1. m \in DOMAIN segments /\ m # Len(segments) /\ Front(segments)[m] = segments[m]
    BY <1>2
  <2>2. segments[m] # segments[Len(segments)]
    BY <1>2, <2>1, Zenon DEF Splitting
  <2>3. Adjacent(included, segments[m][1], segments[m][2])
    BY <2>1 DEF Splitting
  <2>4. Front(segments)[m] \in Pairs
    <3>1. segments[m] \in Pairs
      BY <1>1, <2>1
    <3> QED BY <2>1, <3>1
  <2> QED BY <1>3, <2>1, <2>2, <2>3, <2>4
<1>5. \A m, n \in DOMAIN Front(segments) : Front(segments)[m] = Front(segments)[n] => m = n
  BY <1>2, Zenon DEF Splitting
<1>6. \A a, b \in included : Adjacent(included, a, b) =>
         \/ Candidate(a, b) = {} \/ (a = l /\ b = r)
         \/ \E n \in DOMAIN Front(segments) : Front(segments)[n] = <<a, b>>
  <2> SUFFICES ASSUME NEW a \in included, NEW b \in included, Adjacent(included, a, b),
                      NEW n \in DOMAIN segments, segments[n] = <<a, b>>, ~(a = l /\ b = r)
               PROVE  \E m \in DOMAIN Front(segments) : Front(segments)[m] = <<a, b>>
    BY Zenon DEF Splitting
  <2>1. n # Len(segments)
    BY <1>3
  <2> QED BY <1>2, <2>1
<1> HIDE DEF l, r
<1>7. \A a, b : Candidate(a, b)' = Candidate(a, b)
  BY <1>1, CandidatesStay
<1>8. CASE Candidate(l, r) = {}
  <2>1. segments' = Front(segments) /\ included' = included
    BY <1>2, <1>3, <1>8, Zenon DEF Split, l, r
  <2>2. \A a, b : Adjacent(included', a, b) <=> Adjacent(included, a, b)
    BY <2>1 DEF Adjacent, Within
  <2>3. /\ Len(keys') >= 2 /\ included' \in SUBSET (1 .. Len(keys')) /\ 1 \in included'
        /\ Len(keys') \in included' /\ segments' \in Seq(Pairs)
    BY <1>1, <1>2, <2>1 DEF Splitting
  <2>4. \A n \in DOMAIN segments' : Adjacent(included', segments'[n][1], segments'[n][2])
    BY <1>4, <2>1, <2>2, Zenon
  <2>5. \A m, n \in DOMAIN segments' : segments'[m] = segments'[n] => m = n
    BY <1>5, <2>1, Zenon
  <2>6. \A a, b \in included' :
           Adjacent(included', a, b) => Candidate(a, b)' = {} \/ \E n \in DOMAIN segments' : segments'[n] = <<a, b>>
    BY <1>6, <1>7, <1>8, <2>1, <2>2, Zenon
  <2> QED BY <2>3, <2>4, <2>5, <2>6, Zenon DEF Splitting
<1>9. CASE Candidate(l, r) # {}
  <2>1. PICK k \in Candidate(l, r) : /\ segments' = Front(segments) \o Halves(l, r, k)
                                     /\ included' = included \cup {k}
    BY <1>2, <1>3, <1>9, Zenon DEF Split, l, r
  <2>2. /\ k \in Nat /\ l < k /\ k < r /\ k \in 1 .. Len(keys) /\ k \notin included
    <3>1. k \in Within(l, r)
      BY <1>3, CandidateIs
    <3> QED BY <1>3, <3>1 DEF Within, Adjacent
  <2> DEFINE F == Front(segments)
             H == Halves(l, r, k)
  <2>3. F \in Seq(Pairs) /\ H \in Seq(Pairs)
    BY <1>2, <1>3, <2>2, HalvesAre
  <2>4. /\ \A n \in DOMAIN H : H[n] \in {<<l, k>>, <<k, r>>}
        /\ \A m, n \in DOMAIN H : H[m] = H[n] => m = n
        /\ k - l > 1 => \E n \in DOMAIN H : H[n] = <<l, k>>
        /\ r - k > 1 => \E n \in DOMAIN H : H[n] = <<k, r>>
    <3>1. l \in Nat /\ r \in Nat
      BY <1>3
    <3>2. BothSides(H, l, r, k)
      BY ONLY <2>2, <3>1, HalvesAre
    <3> HIDE DEF H
    <3> QED BY ONLY <3>2 DEF BothSides
  <2> HIDE DEF H
  <2>5. Joins(F, H)
    BY <2>3, ConcatIs
  <2>6. segments' = F \o H
    BY <2>1 DEF H
  <2> HIDE DEF F
  <2>7. included \in SUBSET Nat
    BY DEF Splitting
  <2>8. Adjacent(included', l, k) /\ Adjacent(included', k, r)
    BY <1>3, <2>1, <2>2, <2>7 DEF Adjacent, Within
  <2>9. ASSUME NEW a, NEW b, Adjacent(included, a, b), <<a, b>> # <<l, r>>
        PROVE  Adjacent(included', a, b)
    <3>1. a \in included /\ b \in included /\ l \in included /\ r \in included /\ a \in Nat /\ b \in Nat
      BY <1>3, <2>7, <2>9 DEF Adjacent
    <3>2. ~(a < k /\ k < b)
      BY <1>3, <2>2, <2>7, <2>9, <3>1, OneGap DEF Adjacent
    <3> QED BY <2>1, <2>2, <2>9, <3>1, <3>2 DEF Adjacent, Within
  <2>10. \A m \in DOMAIN F : Adjacent(included', F[m][1], F[m][2]) /\ F[m] \notin {<<l, k>>, <<k, r>>}
    <3> SUFFICES ASSUME NEW m \in DOMAIN F
                 PROVE  Adjacent(included', F[m][1], F[m][2]) /\ F[m] \notin {<<l, k>>, <<k, r>>}
      OBVIOUS
    <3>1. F[m] \in Pairs /\ Adjacent(included, F[m][1], F[m][2]) /\ F[m] # <<l, r>>
      BY <1>4 DEF F
    <3>2. F[m] = <<F[m][1], F[m][2]>>
      BY <3>1 DEF Pairs
    <3>3. F[m][1] # k /\ F[m][2] # k
      BY <2>2, <3>1 DEF Adjacent
    <3>4. Adjacent(included', F[m][1], F[m][2])
      BY <2>9, <3>1, <3>2
    <3>5. F[m] \notin {<<l, k>>, <<k, r>>}
      BY <3>2, <3>3
    <3> QED BY <3>4, <3>5
  <2>11. \A m \in DOMAIN H : Adjacent(included', H[m][1], H[m][2])
    <3> SUFFICES ASSUME NEW m \in DOMAIN H PROVE Adjacent(included', H[m][1], H[m][2])
      OBVIOUS
    <3>1. CASE H[m] = <<l, k>>
      <4>1. H[m][1] = l /\ H[m][2] = k
        BY <3>1
      <4> QED BY <2>8, <4>1, Zenon
    <3>2. CASE H[m] = <<k, r>>
      <4>1. H[m][1] = k /\ H[m][2] = r
        BY <3>2
      <4> QED BY <2>8, <4>1, Zenon
    <3> QED BY <2>4, <3>1, <3>2
  <2>12. /\ Len(keys') >= 2 /\ included' \in SUBSET (1 .. Len(keys')) /\ 1 \in included'
         /\ Len(keys') \in included' /\ segments' \in Seq(Pairs)
    <3>1. F \o H \in Seq(Pairs)
      BY <2>3
    <3> QED BY <1>1, <2>1, <2>2, <2>6, <3>1 DEF Splitting
  <2>13. \A n \in DOMAIN segments' : Adjacent(included', segments'[n][1], segments'[n][2])
    BY <2>5, <2>6, <2>10, <2>11, Zenon DEF Joins
  <2>14. \A m, n \in DOMAIN segments' : segments'[m] = segments'[n] => m = n
    <3> SUFFICES ASSUME NEW m \in DOMAIN (F \o H), NEW n \in DOMAIN (F \o H), (F \o H)[m] = (F \o H)[n]
                 PROVE  m = n
      BY <2>6, Zenon
    <3>1. CASE m \in DOMAIN F /\ n \in DOMAIN F
      <4>1. F[m] = F[n]
        BY <2>5, <3>1, Zenon DEF Joins
      <4> QED BY <1>5, <3>1, <4>1, Zenon DEF F
    <3>2. ASSUME NEW x \in DOMAIN (F \o H), NEW y \in DOMAIN (F \o H), (F \o H)[x] = (F \o H)[y],
                 x \in DOMAIN F, y \notin DOMAIN F
          PROVE  FALSE
      <4>1. (F \o H)[x] \notin {<<l, k>>, <<k, r>>}
        BY <2>5, <2>10, <3>2, Zenon DEF Joins
      <4>2. (F \o H)[y] \in {<<l, k>>, <<k, r>>}
        BY <2>4, <2>5, <3>2, Zenon DEF Joins
      <4> QED BY <3>2, <4>1, <4>2, Zenon
    <3>3. CASE m \notin DOMAIN F /\ n \notin DOMAIN F
      <4>1. PICK x \in DOMAIN H : m = Len(F) + x /\ (F \o H)[m] = H[x]
        BY <2>5, <3>3, Zenon DEF Joins
      <4>2. PICK y \in DOMAIN H : n = Len(F) + y /\ (F \o H)[n] = H[y]
        BY <2>5, <3>3, Zenon DEF Joins
      <4> QED BY <2>4, <4>1, <4>2, Zenon
    <3> QED BY <3>1, <3>2, <3>3, Zenon
  <2>15. ASSUME NEW a \in included', NEW b \in included', Adjacent(included', a, b)
         PROVE  Candidate(a, b)' = {} \/ \E n \in DOMAIN segments' : segments'[n] = <<a, b>>
    <3>1. a \in Nat /\ b \in Nat /\ Len(keys) \in Nat
      BY <2>1, <2>2, <2>7
    <3>2. CASE a = k
      <4>1. b = r
        BY <1>3, <2>1, <2>2, <2>7, <2>15, <3>1, <3>2 DEF Adjacent, Within
      <4>2. CASE r - k > 1
        <5>1. PICK m \in DOMAIN H : H[m] = <<k, r>>
          BY <2>4, <4>2
        <5>2. \E n \in DOMAIN (F \o H) : (F \o H)[n] = <<k, r>>
          BY <2>5, <5>1, Zenon DEF Joins
        <5>3. <<k, r>> = <<a, b>>
          BY <3>2, <4>1
        <5> QED BY <2>6, <5>2, <5>3, Zenon
      <4>3. CASE ~(r - k > 1)
        <5>1. Within(k, r) = {}
          BY <1>3, <2>2, <4>3 DEF Within
        <5>2. Candidate(k, r) = {}
          BY <1>3, <2>2, <5>1, CandidateIs
        <5> QED BY <1>7, <3>2, <4>1, <5>2
      <4> QED BY <4>2, <4>3
    <3>3. CASE b = k
      <4>1. a = l
        BY <1>3, <2>1, <2>2, <2>7, <2>15, <3>1, <3>3 DEF Adjacent, Within
      <4>2. CASE k - l > 1
        <5>1. PICK m \in DOMAIN H : H[m] = <<l, k>>
          BY <2>4, <4>2
        <5>2. \E n \in DOMAIN (F \o H) : (F \o H)[n] = <<l, k>>
          BY <2>5, <5>1, Zenon DEF Joins
        <5>3. <<l, k>> = <<a, b>>
          BY <3>3, <4>1
        <5> QED BY <2>6, <5>2, <5>3, Zenon
      <4>3. CASE ~(k - l > 1)
        <5>1. Within(l, k) = {}
          BY <1>3, <2>2, <4>3 DEF Within
        <5>2. Candidate(l, k) = {}
          BY <1>3, <2>2, <5>1, CandidateIs
        <5> QED BY <1>7, <3>3, <4>1, <5>2
      <4> QED BY <4>2, <4>3
    <3>4. CASE a # k /\ b # k
      <4>1. a \in included /\ b \in included /\ Adjacent(included, a, b)
        BY <2>1, <2>15, <3>4 DEF Adjacent
      <4>2. ~(a = l /\ b = r)
        BY <1>3, <2>1, <2>2, <2>15 DEF Adjacent, Within
      <4> QED BY <1>6, <1>7, <2>5, <2>6, <4>1, <4>2, Zenon DEF Joins, F
    <3> QED BY <3>2, <3>3, <3>4
  <2>16. \A a, b \in included' :
            Adjacent(included', a, b) => Candidate(a, b)' = {} \/ \E n \in DOMAIN segments' : segments'[n] = <<a, b>>
    BY <2>15, Zenon
  <2> QED BY <2>12, <2>13, <2>14, <2>16, Zenon DEF Splitting
<1> QED BY <1>8, <1>9

-----------------------------------------------------------------------------
(* Trimming.                                                               *)

LEMMA TimesInt ==
  ASSUME NEW x \in Int, NEW y \in Int
  PROVE  x * y \in Int
OBVIOUS

LEMMA MinusInt ==
  ASSUME NEW x \in Int, NEW y \in Int
  PROVE  x - y \in Int
OBVIOUS

LEMMA AbsInt ==
  ASSUME NEW x \in Int
  PROVE  Abs(x) \in Int /\ Abs(0 - x) = Abs(x)
BY DEF Abs

LEMMA AbsSum ==
  ASSUME NEW x \in Int, NEW y \in Int, NEW z \in Int, NEW B \in Nat, NEW T \in Nat,
         Abs(x - y) <= T, Abs(y - z) <= B
  PROVE  Abs(x - z) <= B + T
BY DEF Abs

\* Without its last key a track is nearly as near.
LEMMA TrimNear ==
  ASSUME NEW ks \in Seq(TrackKey), NEW K \in SUBSET (1 .. Len(ks)), NEW B \in Nat, NEW T \in Nat,
         NEW m \in K, NEW p \in K, p < m, \A n \in K : n <= p \/ n = m, 1 \in K,
         \A k \in 1 .. Len(ks) : NearOf(ks, K, k, B),
         Abs(ks[p].value - ks[m].value) <= T,
         NEW k \in 1 .. Len(ks)
  PROVE  NearOf(ks, K \ {m}, k, B + T)
<1> DEFINE J == K \ {m}
<1>1. /\ m \in 1 .. Len(ks) /\ p \in 1 .. Len(ks) /\ Len(ks) \in Nat /\ B + T \in Nat
      /\ m \in Nat /\ p \in Nat /\ k \in Nat
  OBVIOUS
<1>2. J \in SUBSET (1 .. Len(ks)) /\ p \in J /\ 1 \in J /\ \A n \in J : n <= p
  BY <1>1
<1>3. \A n \in K : n <= m
  BY <1>1
<1>4. ks[k].value \in Int /\ ks[m].value \in Int /\ ks[p].value \in Int
  BY <1>1, ValuesAre
<1>5. NearOf(ks, K, k, B)
  OBVIOUS
<1>6. \A n \in J : n \in K
  OBVIOUS
<1> HIDE DEF J
<1>7. CASE k \in J
  BY <1>1, <1>2, <1>7, NearKey DEF J
<1>8. CASE k \notin J /\ k <= p
  <2>1. PICK l, r \in J : l < k /\ k < r /\ \A n \in J : n <= l \/ r <= n
    <3>1. J \in SUBSET (1 .. Len(ks)) /\ k \notin J /\ 1 \in J /\ 1 <= k /\ p \in J /\ k <= p
      BY <1>1, <1>2, <1>8
    <3>2. \E l, r \in J : l < k /\ k < r /\ \A n \in J : n <= l \/ r <= n
      BY ONLY <1>1, <3>1, k \in 1 .. Len(ks), GapAround
    <3> QED BY <3>2, Zenon
  <2>2. r <= p /\ l \in Nat /\ r \in Nat /\ l \in K /\ r \in K
    BY <1>1, <1>2, <1>6, <1>8, <2>1
  <2>3. \A n \in K : n <= l \/ r <= n
    <3> SUFFICES ASSUME NEW n \in K PROVE n <= l \/ r <= n
      OBVIOUS
    <3>1. CASE n = m
      BY <1>1, <2>2, <3>1
    <3>2. CASE n # m
      BY <2>1, <3>2 DEF J
    <3> QED BY <3>1, <3>2
  <2> DEFINE d == Abs((ks[l].value * (r - k) + ks[r].value * (k - l)) - ks[k].value * (r - l))
  <2>4. NearOf(ks, K, k, B) <=> d <= B * (r - l)
    BY <2>1, <2>2, <2>3, NearLine
  <2>5. NearOf(ks, J, k, B + T) <=> d <= (B + T) * (r - l)
    BY <1>1, <1>2, <2>1, NearLine
  <2>6. d \in Int
    <3>1. l \in 1 .. Len(ks) /\ r \in 1 .. Len(ks)
      BY <2>2
    <3>2. ks[l].value \in Int /\ ks[r].value \in Int
      BY <3>1, ValuesAre
    <3> DEFINE x == ks[l].value * (r - k) + ks[r].value * (k - l)
               y == ks[k].value * (r - l)
    <3>3. x \in Int /\ y \in Int
      <4>1. /\ r - k \in Int /\ k - l \in Int /\ r - l \in Int
        BY <1>1, <2>2
      <4>2. ks[l].value * (r - k) \in Int /\ ks[r].value * (k - l) \in Int /\ ks[k].value * (r - l) \in Int
        BY ONLY <1>4, <3>2, <4>1, TimesInt, Zenon
      <4> QED BY ONLY <4>2
    <3> HIDE DEF x, y
    <3>4. Abs(x - y) \in Int
      BY <3>3 DEF Abs
    <3> QED BY <3>4 DEF x, y
  <2>7. r - l \in Nat
    BY <1>1, <2>1, <2>2
  <2> HIDE DEF d
  <2>8. B * (r - l) <= (B + T) * (r - l) /\ B * (r - l) \in Int /\ (B + T) * (r - l) \in Int
    <3> DEFINE g == r - l
    <3>1. g \in Nat
      BY <2>7
    <3> HIDE DEF g
    <3>2. (B + T) * g = B * g + T * g /\ B * g \in Nat /\ T * g \in Nat
      BY <3>1
    <3>3. B * g <= (B + T) * g /\ B * g \in Int /\ (B + T) * g \in Int
      <4>1. B * g <= B * g + T * g /\ B * g + T * g \in Int
        BY ONLY <3>2
      <4> QED BY ONLY <3>2, <4>1
    <3> QED BY <3>3 DEF g
  <2>9. d <= (B + T) * (r - l)
    <3>1. d <= B * (r - l)
      BY <1>5, <2>4, Zenon
    <3> QED BY ONLY <2>6, <2>8, <3>1
  <2> QED BY <2>5, <2>9, Zenon DEF J
<1>9. CASE p < k
  <2>1. NearOf(ks, J, k, B + T) <=> Abs(ks[p].value - ks[k].value) <= B + T
    BY <1>1, <1>2, <1>9, NearEnd
  <2>2. CASE k < m
    <3>1. \A n \in K : n <= p \/ m <= n
      BY <1>1
    <3>2. Abs((ks[p].value * (m - k) + ks[m].value * (k - p)) - ks[k].value * (m - p)) <= B * (m - p)
      BY <1>5, <1>9, <2>2, <3>1, NearLine
    <3> DEFINE x == m - k
               y == k - p
    <3>3. x \in Nat /\ y \in Nat /\ x > 0 /\ y > 0 /\ m - p = x + y
      BY <1>1, <1>9, <2>2
    <3>4. Abs((ks[p].value * x + ks[m].value * y) - ks[k].value * (x + y)) <= B * (x + y)
      BY <3>2, <3>3
    <3> HIDE DEF x, y
    <3>5. Abs(ks[p].value - ks[k].value) <= B + T
      BY <1>4, <3>3, <3>4, LineToConstant
    <3> QED BY <2>1, <3>5 DEF J
  <2>3. CASE k = m
    <3>1. Abs(ks[p].value - ks[k].value) <= T
      BY <2>3, Zenon
    <3>2. Abs(ks[p].value - ks[k].value) \in Int
      <4>1. ks[p].value - ks[k].value \in Int
        BY ONLY <1>4, MinusInt, Zenon
      <4> QED BY <4>1, AbsInt, Zenon
    <3>3. Abs(ks[p].value - ks[k].value) <= B + T
      BY ONLY <3>1, <3>2, B \in Nat, T \in Nat
    <3> QED BY <2>1, <3>3 DEF J
  <2>4. CASE m < k
    <3>1. Abs(ks[m].value - ks[k].value) <= B
      BY <1>3, <1>5, <2>4, NearEnd
    <3>2. Abs(ks[p].value - ks[k].value) <= B + T
      BY <1>4, <3>1, AbsSum
    <3> QED BY <2>1, <3>2 DEF J
  <2> QED BY <1>1, <2>2, <2>3, <2>4
<1> QED BY <1>1, <1>7, <1>8, <1>9

\* And without its only one.
LEMMA TrimLastNear ==
  ASSUME NEW ks \in Seq(TrackKey), NEW B \in Nat, NEW T \in Nat, 1 \in 1 .. Len(ks),
         \A k \in 1 .. Len(ks) : NearOf(ks, {1}, k, B), Abs(0 - ks[1].value) <= T,
         NEW k \in 1 .. Len(ks)
  PROVE  NearOf(ks, {}, k, B + T)
<1>1. ks[k].value \in Int /\ ks[1].value \in Int /\ B + T \in Nat /\ k \in Nat
  BY ValuesAre
<1>2. NearOf(ks, {}, k, B + T) <=> Abs(ks[k].value) <= B + T
  BY <1>1, NearNothing
<1>3. CASE k = 1
  BY <1>1, <1>2, <1>3 DEF Abs
<1>4. CASE k # 1
  <2>1. {1} \in SUBSET (1 .. Len(ks)) /\ 1 < k /\ \A n \in {1} : n <= 1
    BY <1>1, <1>4
  <2>2. Abs(ks[1].value - ks[k].value) <= B
    BY <2>1, NearEnd
  <2> DEFINE y == ks[1].value
             z == ks[k].value
  <2>3. y \in Int /\ z \in Int /\ Abs(0 - y) <= T /\ Abs(y - z) <= B
    BY <1>1, <2>2
  <2> HIDE DEF y, z
  <2>4. Abs(0 - z) <= B + T
    BY <2>3 DEF Abs
  <2>5. Abs(z) <= B + T
    BY <2>3, <2>4, AbsInt
  <2> QED BY <1>2, <2>5 DEF z
<1> QED BY <1>3, <1>4

-----------------------------------------------------------------------------
(* The invariant of the reduction.                                         *)

\* What is left is near each key, though last keys have gone.
Trimming ==
    /\ included \in SUBSET (1 .. Len(keys)) /\ kept \in SUBSET (1 .. Len(keys))
    /\ Len(keys) >= 2 => kept \subseteq included
    /\ Len(keys) < 2 => included = {}
    /\ kept # {} => 1 \in kept
    /\ \A k \in 1 .. Len(keys) : NearOf(keys, kept, k, Allowed)
    /\ \A k \in 1 .. Len(keys) : keys[k].step /\ kept # {} => k \in kept

OptimizerInv ==
    /\ keys \in Seq(TrackKey) /\ phase \in {"none", "split", "trim", "done"}
    /\ phase = "none" => included = {}
    /\ phase \in {"none", "split"} => kept = {}
    /\ phase = "split" => Splitting
    /\ phase \in {"trim", "done"} => Trimming

LEMMA AllowedIs ==
  ASSUME NEW n \in Nat, included \in SUBSET (1 .. n)
  PROVE  Cardinality(included \ kept) \in Nat /\ Allowed \in Nat
<1>1. IsFiniteSet(1 .. n)
  BY FS_Interval
<1>2. IsFiniteSet(included \ kept)
  BY <1>1, FS_Subset
<1>3. Cardinality(included \ kept) \in Nat
  BY <1>2, FS_CardinalityType
<1> QED BY <1>3, OptimizerAssumption DEF Allowed

LEMMA BeginKeeps ==
  ASSUME OptimizerInv, NEW given \in Sources, OptimizeBegin(given)
  PROVE  OptimizerInv'
<1>1. given \in Seq(TrackKey) /\ keys' = given /\ Len(given) \in Nat /\ included = {}
  BY OptimizerAssumption DEF OptimizeBegin, OptimizerInv, TrackKey
<1>2. CASE Len(given) < 2
  <2>1. phase' = "trim" /\ kept' = 1 .. Len(given) /\ included' = {}
    BY <1>1, <1>2 DEF OptimizeBegin
  <2>2. included' \ kept' = {}
    BY <2>1
  <2>3. Allowed' \in Nat
    <3>1. Cardinality(included' \ kept') = 0
      BY <2>2, FS_EmptySet
    <3> QED BY <3>1, OptimizerAssumption DEF Allowed
  <2>4. \A k \in 1 .. Len(given) : NearOf(given, 1 .. Len(given), k, Allowed')
    BY <1>1, <2>3, NearKey
  <2>5. Trimming'
    <3>1. /\ included' \in SUBSET (1 .. Len(keys')) /\ kept' \in SUBSET (1 .. Len(keys'))
          /\ ~(Len(keys') >= 2) /\ included' = {}
          /\ kept' # {} => 1 \in kept'
      BY <1>1, <1>2, <2>1
    <3>2. \A k \in 1 .. Len(keys') : NearOf(keys', kept', k, Allowed')
      BY <1>1, <2>1, <2>4
    <3>3. \A k \in 1 .. Len(keys') : keys'[k].step /\ kept' # {} => k \in kept'
      BY <1>1, <2>1
    <3> QED BY <3>1, <3>2, <3>3, Zenon DEF Trimming
  <2> QED BY <1>1, <2>1, <2>5 DEF OptimizerInv
<1>3. CASE ~(Len(given) < 2)
  <2>1. phase' = "split" /\ segments' = <<<<1, Len(given)>>>> /\ included' = {1, Len(given)}
    BY <1>1, <1>3 DEF OptimizeBegin
  <2>a. kept' = {}
    BY <1>1, <1>3 DEF OptimizeBegin, OptimizerInv
  <2>2. /\ Len(keys') >= 2 /\ included' \in SUBSET (1 .. Len(keys')) /\ 1 \in included'
        /\ Len(keys') \in included'
    BY <1>1, <1>3, <2>1
  <2>3. segments' \in Seq(Pairs) /\ DOMAIN segments' = {1} /\ segments'[1] = <<1, Len(given)>>
    <3>1. <<1, Len(given)>> \in Pairs
      BY <1>1 DEF Pairs
    <3> DEFINE p == <<1, Len(given)>>
    <3> HIDE DEF p
    <3>2. segments' = <<p>>
      BY <2>1 DEF p
    <3>3. <<p>> \in Seq(Pairs) /\ DOMAIN <<p>> = {1} /\ <<p>>[1] = p
      BY <3>1 DEF p
    <3> QED BY <3>2, <3>3 DEF p
  <2>4. Adjacent({1, Len(given)}, 1, Len(given))
    BY <1>1, <1>3 DEF Adjacent, Within
  <2>5. \A n \in DOMAIN segments' : Adjacent(included', segments'[n][1], segments'[n][2])
    BY <2>1, <2>3, <2>4
  <2>6. \A m, n \in DOMAIN segments' : segments'[m] = segments'[n] => m = n
    BY <2>3
  <2>7. \A l, r \in included' : Adjacent(included', l, r) => \E n \in DOMAIN segments' : segments'[n] = <<l, r>>
    <3> SUFFICES ASSUME NEW l \in included', NEW r \in included', Adjacent(included', l, r)
                 PROVE  l = 1 /\ r = Len(given)
      BY <2>3
    <3> QED BY <1>1, <1>3, <2>1 DEF Adjacent
  <2>8. Splitting'
    BY <2>2, <2>3, <2>5, <2>6, <2>7, Zenon DEF Splitting
  <2> QED BY <1>1, <2>1, <2>a, <2>8 DEF OptimizerInv
<1> QED BY <1>2, <1>3

LEMMA CopyKeeps ==
  ASSUME OptimizerInv, Copy
  PROVE  OptimizerInv'
<1>1. /\ keys \in Seq(TrackKey) /\ Splitting /\ segments = <<>> /\ keys' = keys /\ included' = included
      /\ kept' = included /\ phase' = "trim"
  BY DEF OptimizerInv, Copy
<1>2. /\ Len(keys) \in Nat /\ Len(keys) >= 2 /\ included \in SUBSET (1 .. Len(keys)) /\ 1 \in included
      /\ Len(keys) \in included
  BY <1>1 DEF Splitting
<1>3. Allowed' = Tolerance /\ Tolerance \in Nat
  <2>1. included' \ kept' = {}
    BY <1>1
  <2>2. Cardinality(included' \ kept') = 0
    BY <2>1, FS_EmptySet
  <2> QED BY <2>2, OptimizerAssumption DEF Allowed
<1>4. ASSUME NEW k \in 1 .. Len(keys)
      PROVE  NearOf(keys, included, k, Tolerance) /\ (keys[k].step => k \in included)
  <2>1. CASE k \in included
    BY <1>1, <1>2, <1>3, <2>1, NearKey
  <2>2. CASE k \notin included
    <3>1. PICK l, r \in included : l < k /\ k < r /\ \A n \in included : n <= l \/ r <= n
      <4>1. 1 <= k /\ k <= Len(keys)
        BY <1>2
      <4> QED BY <1>2, <2>2, <4>1, GapAround
    <3>2. l \in 1 .. Len(keys) /\ r \in 1 .. Len(keys) /\ l \in Nat /\ r \in Nat /\ k \in Nat
      BY <1>2
    <3>3. Adjacent(included, l, r)
      BY <1>2, <3>1, <3>2 DEF Adjacent, Within
    <3>4. Candidate(l, r) = {}
      <4>1. DOMAIN segments = {}
        BY <1>1
      <4> QED BY <1>1, <3>3, <4>1, Zenon DEF Splitting
    <3>5. k \in Within(l, r)
      BY <3>1, <3>2 DEF Within
    <3>6. ~keys[k].step /\ OffLine(l, r, k) <= Tolerance * (r - l)
      BY <1>1, <3>2, <3>4, <3>5, CandidateIs
    <3>7. OffLine(l, r, k) = Abs((keys[l].value * (r - k) + keys[r].value * (k - l)) - keys[k].value * (r - l))
      BY <1>1, <3>2, OffLineIs
    <3>8. NearOf(keys, included, k, Tolerance)
      BY <1>1, <1>2, <1>3, <3>1, <3>6, <3>7, NearLine
    <3> QED BY <3>6, <3>8
  <2> QED BY <2>1, <2>2
<1>5. Trimming'
  <2>1. /\ included' \in SUBSET (1 .. Len(keys')) /\ kept' \in SUBSET (1 .. Len(keys'))
        /\ kept' \subseteq included' /\ ~(Len(keys') < 2) /\ 1 \in kept'
    BY <1>1, <1>2
  <2>2. \A k \in 1 .. Len(keys') : NearOf(keys', kept', k, Allowed')
    BY <1>1, <1>3, <1>4, Zenon
  <2>3. \A k \in 1 .. Len(keys') : keys'[k].step /\ kept' # {} => k \in kept'
    BY <1>1, <1>4, Zenon
  <2> QED BY <2>1, <2>2, <2>3, Zenon DEF Trimming
<1> QED BY <1>1, <1>5 DEF OptimizerInv

LEMMA TrimKeeps ==
  ASSUME OptimizerInv, Trim
  PROVE  OptimizerInv'
<1>1. keys \in Seq(TrackKey) /\ Trimming /\ keys' = keys /\ included' = included /\ Len(keys) \in Nat
  BY DEF OptimizerInv, Trim
<1>2. CASE ~Trimmable
  <2>1. phase' = "done" /\ kept' = kept
    BY <1>2 DEF Trim
  <2>2. Trimming'
    BY <1>1, <2>1 DEF Trimming, Allowed
  <2> QED BY <1>1, <2>1, <2>2 DEF OptimizerInv
<1>3. CASE Trimmable
  <2>1. kept' = kept \ {Back} /\ phase' = phase /\ phase = "trim" /\ kept # {}
    BY <1>3 DEF Trim, Trimmable
  <2>2. kept \subseteq 0 .. Len(keys) /\ kept \in SUBSET (1 .. Len(keys)) /\ 1 \in kept
    BY <1>1, <2>1 DEF Trimming
  <2>3. Back \in kept /\ \A y \in kept : y <= Back
    BY <1>1, <2>1, <2>2, GreatestOf DEF Back
  <2>4. Allowed \in Nat /\ Allowed' \in Nat /\ Tolerance \in Nat
        /\ (Len(keys) >= 2 => Allowed' = Allowed + Tolerance) /\ (Len(keys) < 2 => Allowed' = Allowed)
    <3> DEFINE c == Cardinality(included \ kept)
               d == Cardinality(included' \ kept')
    <3>1. c \in Nat /\ IsFiniteSet(included \ kept)
      <4>1. included \in SUBSET (1 .. Len(keys))
        BY <1>1 DEF Trimming
      <4>2. IsFiniteSet(1 .. Len(keys))
        BY <1>1, FS_Interval
      <4> QED BY <4>1, <4>2, FS_Subset, FS_CardinalityType
    <3>2. CASE Len(keys) >= 2
      <4>1. included' \ kept' = (included \ kept) \cup {Back} /\ Back \notin included \ kept
        BY <1>1, <2>1, <2>3, <3>2 DEF Trimming
      <4>2. d = c + 1
        BY <3>1, <4>1, FS_AddElement
      <4> HIDE DEF c, d
      <4>3. (1 + d) * Tolerance = (1 + c) * Tolerance + Tolerance /\ (1 + d) * Tolerance \in Nat
            /\ (1 + c) * Tolerance \in Nat
        BY <3>1, <4>2, OptimizerAssumption
      <4>4. Allowed = (1 + c) * Tolerance /\ Allowed' = (1 + d) * Tolerance
        BY DEF Allowed, c, d
      <4> QED BY <1>1, <3>2, <4>3, <4>4, OptimizerAssumption
    <3>3. CASE Len(keys) < 2
      <4>1. included' \ kept' = included \ kept
        BY <1>1, <3>3 DEF Trimming
      <4>2. Allowed' = Allowed
        BY <4>1 DEF Allowed
      <4>3. Allowed \in Nat
        BY <3>1, OptimizerAssumption DEF Allowed
      <4> QED BY <1>1, <3>3, <4>2, <4>3, OptimizerAssumption
    <3> QED BY <1>1, <3>2, <3>3
  <2>5. \A k \in 1 .. Len(keys) : NearOf(keys, kept, k, Allowed)
    BY <1>1, Zenon DEF Trimming
  <2>6. CASE LastKey
    <3>1. kept = {1} /\ Back = 1 /\ kept' = {}
      BY <2>1, <2>2, <2>6 DEF LastKey
    <3>2. Abs(0 - keys[1].value) <= Tolerance
      BY <1>3, <2>6, <3>1 DEF Trimmable, Penultimate
    <3>3. ASSUME NEW k \in 1 .. Len(keys)
          PROVE  NearOf(keys, {}, k, Allowed')
      <4>1. CASE Len(keys) >= 2
        <5>1. NearOf(keys, {}, k, Allowed + Tolerance)
          BY <1>1, <2>2, <2>4, <2>5, <3>1, <3>2, TrimLastNear
        <5> QED BY <2>4, <4>1, <5>1
      <4>2. CASE Len(keys) < 2
        <5>1. k = 1
          BY <1>1, <4>2
        <5>2. Allowed' = Tolerance
          <6>1. included' \ kept' = {}
            BY <1>1, <4>2 DEF Trimming
          <6>2. Cardinality(included' \ kept') = 0
            BY <6>1, FS_EmptySet
          <6> QED BY <6>2, OptimizerAssumption DEF Allowed
        <5>3. keys[1].value \in Int
          BY <1>1, <5>1, ValuesAre
        <5>4. Abs(keys[k].value) <= Tolerance
          BY <3>2, <5>1, <5>3, AbsInt
        <5> QED BY <1>1, <2>4, <5>2, <5>4, NearNothing
      <4> QED BY <1>1, <4>1, <4>2
    <3>4. Trimming'
      <4>1. /\ included' \in SUBSET (1 .. Len(keys')) /\ kept' = {}
            /\ Len(keys') < 2 => included' = {}
        BY <1>1, <3>1 DEF Trimming
      <4>2. \A k \in 1 .. Len(keys') : NearOf(keys', kept', k, Allowed')
        BY <1>1, <3>1, <3>3, Zenon
      <4>3. /\ kept' \in SUBSET (1 .. Len(keys')) /\ kept' \subseteq included' /\ ~(kept' # {})
        BY <4>1
      <4> QED BY <4>1, <4>2, <4>3, Zenon DEF Trimming
    <3> QED BY <1>1, <2>1, <3>4 DEF OptimizerInv
  <2>7. CASE ~LastKey
    <3>1. kept \ {Back} \subseteq 0 .. Len(keys) /\ kept \ {Back} # {}
      BY <2>2, <2>3, <2>7 DEF LastKey
    <3> DEFINE p == Max(kept \ {Back})
    <3>2. p \in kept \ {Back} /\ \A y \in kept \ {Back} : y <= p
      BY <1>1, <3>1, GreatestOf
    <3>3. Abs(keys[p].value - keys[Back].value) <= Tolerance /\ ~keys[Back].step
      BY <1>3, <2>7, Zenon DEF Trimmable, Penultimate, Decimable
    <3> HIDE DEF p
    <3>4. /\ Back \in kept /\ p \in kept /\ p < Back /\ \A n \in kept : n <= p \/ n = Back
      BY <2>2, <2>3, <3>2
    <3>5. Len(keys) >= 2
      <4>1. p \in 1 .. Len(keys) /\ Back \in 1 .. Len(keys)
        BY <2>2, <3>4
      <4> QED BY <1>1, <3>4, <4>1
    <3>6. ASSUME NEW k \in 1 .. Len(keys)
          PROVE  NearOf(keys, kept \ {Back}, k, Allowed')
      <4> DEFINE m == Back
      <4>1. /\ m \in kept /\ p < m /\ (\A n \in kept : n <= p \/ n = m)
            /\ Abs(keys[p].value - keys[m].value) <= Tolerance
        BY <3>3, <3>4
      <4> HIDE DEF m
      <4>2. NearOf(keys, kept \ {m}, k, Allowed + Tolerance)
        BY <1>1, <2>2, <2>4, <2>5, <3>4, <4>1, TrimNear
      <4> QED BY <2>4, <3>5, <4>2 DEF m
    <3>7. 1 \in kept \ {Back}
      BY <2>2, <3>2, <3>4
    <3>8. Trimming'
      <4>1. /\ included' \in SUBSET (1 .. Len(keys')) /\ kept' \in SUBSET (1 .. Len(keys'))
            /\ kept' \subseteq included' /\ ~(Len(keys') < 2)
        BY <1>1, <2>1, <2>2, <3>5 DEF Trimming
      <4>2. \A k \in 1 .. Len(keys') : NearOf(keys', kept', k, Allowed')
        BY <1>1, <2>1, <3>6, Zenon
      <4>3. \A k \in 1 .. Len(keys') : keys'[k].step /\ kept' # {} => k \in kept'
        BY <1>1, <2>1, <3>3 DEF Trimming
      <4> QED BY <2>1, <3>7, <4>1, <4>2, <4>3, Zenon DEF Trimming
    <3> QED BY <1>1, <2>1, <3>8 DEF OptimizerInv
  <2> QED BY <2>6, <2>7
<1> QED BY <1>2, <1>3

LEMMA OptimizerKeeps ==
  ASSUME OptimizerInv, OptimizerNext \/ UNCHANGED optimizerVars
  PROVE  OptimizerInv'
<1>1. ASSUME NEW given \in Sources, OptimizeBegin(given) PROVE OptimizerInv'
  BY <1>1, BeginKeeps
<1>2. CASE Split
  <2>1. keys \in Seq(TrackKey) /\ Splitting /\ keys' = keys /\ phase' = "split" /\ kept' = {}
    BY <1>2 DEF OptimizerInv, Split
  <2>2. Splitting'
    BY <1>2, <2>1, SplitKeeps
  <2> QED BY <2>1, <2>2 DEF OptimizerInv
<1>3. CASE Copy
  BY <1>3, CopyKeeps
<1>4. CASE Trim
  BY <1>4, TrimKeeps
<1>5. CASE OptimizeReturn
  <2>1. <<>> \in Seq(TrackKey)
    OBVIOUS
  <2> QED BY <1>5, <2>1 DEF OptimizeReturn, OptimizerInv
<1>6. CASE UNCHANGED optimizerVars
  <2>1. /\ keys' = keys /\ phase' = phase /\ segments' = segments /\ included' = included /\ kept' = kept
    BY <1>6 DEF optimizerVars
  <2>2. Splitting => Splitting'
    <3>1. \A a, b : Candidate(a, b)' = Candidate(a, b)
      BY <2>1, CandidatesStay
    <3> QED BY <2>1, <3>1 DEF Splitting
  <2>3. Trimming => Trimming'
    BY <2>1 DEF Trimming, Allowed
  <2> QED BY <2>1, <2>2, <2>3 DEF OptimizerInv
<1> QED BY <1>1, <1>2, <1>3, <1>4, <1>5, <1>6 DEF OptimizerNext

LEMMA OptimizerIsNear ==
  ASSUME OptimizerInv
  PROVE  DecimatedNear
<1>1. keys \in Seq(TrackKey) /\ DOMAIN keys = 1 .. Len(keys)
  BY DEF OptimizerInv
<1>2. ASSUME phase = "split", NEW n \in DOMAIN segments
      PROVE  Within(segments[n][1], segments[n][2]) \cap included = {}
  BY <1>2 DEF OptimizerInv, Splitting, Adjacent
<1>3. ASSUME phase \in {"trim", "done"}, NEW k \in DOMAIN keys
      PROVE  /\ Error(k) <= Allowed * Resampled(k).time
             /\ keys[k].step /\ kept # {} => k \in kept
  <2>1. Trimming
    BY <1>3 DEF OptimizerInv
  <2>2. NearOf(keys, kept, k, Allowed) /\ (keys[k].step /\ kept # {} => k \in kept)
    BY <1>1, <1>3, <2>1, Zenon DEF Trimming
  <2>3. Resampled(k) = SampleOf(keys, kept, k)
    BY Zenon DEF Resampled, SampleOf
  <2> QED BY <2>2, <2>3, Zenon DEF NearOf, Error
<1> QED BY <1>2, <1>3, Zenon DEF DecimatedNear

-----------------------------------------------------------------------------
(* The bounds of joints (HierarchyBuilder).                                *)

Setting == [distance : Int, tolerance : Int, scale : Int, translation : Int]
Bounds == [length : Int, scale : Int, tolerance : Int]

\* The arrays of a hierarchy and an animation of it.
Animated(p, a, n) ==
    /\ n \in Nat /\ p \in [0 .. n - 1 -> Int] /\ a \in [0 .. n - 1 -> Setting]
    /\ \A c \in 0 .. n - 1 : p[c] \in NoParent .. c - 1

-----------------------------------------------------------------------------
(* Subtrees, joint by joint.                                               *)

LEMMA SubtreeIsAfter ==
  ASSUME NEW p, NEW n \in Nat, DOMAIN p = 0 .. n - 1, \A c \in 0 .. n - 1 : p[c] \in NoParent .. c - 1,
         NEW j \in 0 .. n - 1
  PROVE  SubtreeOf(p, j) \subseteq j .. n - 1
<1>1. j .. n - 1 \subseteq DOMAIN p /\ j \in j .. n - 1
  OBVIOUS
<1>2. \A c \in DOMAIN p : p[c] \in j .. n - 1 => c \in j .. n - 1
  BY DEF NoParent
<1> QED BY <1>1, <1>2, SubtreeIsLeast

\* What is below a joint is below a child of it.
LEMMA SubtreeSplits ==
  ASSUME NEW p, NEW j \in DOMAIN p
  PROVE  \A d \in SubtreeOf(p, j) : \/ d = j
                                    \/ /\ p[d] \in SubtreeOf(p, j)
                                       /\ \E c \in DOMAIN p : p[c] = j /\ d \in SubtreeOf(p, c)
<1> DEFINE R == {d \in SubtreeOf(p, j) :
                   \/ d = j
                   \/ /\ p[d] \in SubtreeOf(p, j)
                      /\ \E c \in DOMAIN p : p[c] = j /\ d \in SubtreeOf(p, c)}
<1>1. /\ j \in SubtreeOf(p, j) /\ SubtreeOf(p, j) \subseteq DOMAIN p
      /\ \A c \in DOMAIN p : p[c] \in SubtreeOf(p, j) => c \in SubtreeOf(p, j)
  BY SubtreeIsClosed
<1>2. R \subseteq DOMAIN p /\ j \in R
  BY <1>1
<1>3. ASSUME NEW d \in DOMAIN p, p[d] \in R
      PROVE  d \in R
  <2>1. p[d] \in SubtreeOf(p, j) /\ d \in SubtreeOf(p, j)
    BY <1>1, <1>3
  <2>2. \E c \in DOMAIN p : p[c] = j /\ d \in SubtreeOf(p, c)
    <3>1. CASE p[d] = j
      BY <3>1, SubtreeIsClosed
    <3>2. CASE p[d] # j
      <4>1. PICK c \in DOMAIN p : p[c] = j /\ p[d] \in SubtreeOf(p, c)
        BY <1>3, <3>2
      <4>2. d \in SubtreeOf(p, c)
        BY <4>1, SubtreeIsClosed
      <4> QED BY <4>1, <4>2
    <3> QED BY <3>1, <3>2
  <2> QED BY <2>1, <2>2
<1> HIDE DEF R
<1>4. SubtreeOf(p, j) \subseteq R
  BY <1>2, <1>3, SubtreeIsLeast
<1> QED BY <1>4 DEF R

LEMMA SubtreeOfChild ==
  ASSUME NEW p, NEW c \in DOMAIN p, p[c] \in DOMAIN p
  PROVE  SubtreeOf(p, c) \subseteq SubtreeOf(p, p[c])
<1>1. /\ p[c] \in SubtreeOf(p, p[c]) /\ SubtreeOf(p, p[c]) \subseteq DOMAIN p
      /\ \A d \in DOMAIN p : p[d] \in SubtreeOf(p, p[c]) => d \in SubtreeOf(p, p[c])
  BY SubtreeIsClosed
<1> QED BY <1>1, SubtreeIsLeast

-----------------------------------------------------------------------------
(* What each joint is told.                                                *)

Scales(s, p, a) ==
    s = [j \in DOMAIN p |-> a[j].scale * (IF p[j] = NoParent THEN 1 ELSE s[p[j]])]

LEMMA ScalesExist ==
  ASSUME NEW p, NEW a, NEW n, Animated(p, a, n)
  PROVE  \E s \in [0 .. n - 1 -> Int] : Scales(s, p, a)
<1> DEFINE J == 0 .. n - 1
           h == [j \in J |-> j]
           F == [J -> Int]
           next(x, f) == a[x].scale * (IF p[x] = NoParent THEN 1 ELSE f[p[x]])
           step == [v \in J \X F |-> next(v[1], v[2])]
<1>1. n \in Nat /\ DOMAIN p = J /\ \A x \in J : p[x] \in NoParent .. x - 1
  BY DEF Animated
<1>2. \A x \in J : a[x].scale \in Int
  BY DEF Animated, Setting
<1>3. \A x \in J : p[x] = NoParent \/ p[x] \in J
  BY <1>1 DEF NoParent
<1>4. \A x \in J, f \in F : next(x, f) \in Int
  <2> SUFFICES ASSUME NEW x \in J, NEW f \in F
               PROVE  next(x, f) \in Int
    OBVIOUS
  <2>1. (IF p[x] = NoParent THEN 1 ELSE f[p[x]]) \in Int
    BY <1>3
  <2> QED BY <1>2, <2>1
<1>5. \A x \in J, f \in F : step[<<x, f>>] = next(x, f)
  OBVIOUS
<1>6. step \in [J \X F -> Int]
  BY <1>4
<1>7. ASSUME NEW x \in J, NEW f \in F, NEW g \in F, \A y \in J : h[y] < h[x] => f[y] = g[y]
      PROVE  step[<<x, f>>] = step[<<x, g>>]
  <2>1. next(x, f) = next(x, g)
    <3>1. CASE p[x] = NoParent
      BY <3>1
    <3>2. CASE p[x] # NoParent
      <4>1. p[x] \in J /\ p[x] < x
        BY <1>1, <1>3, <3>2
      <4>2. f[p[x]] = g[p[x]]
        BY <1>7, <4>1
      <4> QED BY <4>2
    <3> QED BY <3>1, <3>2
  <2> HIDE DEF next, step
  <2> QED BY <1>5, <2>1
<1>8. h \in [J -> 0 .. n]
  BY <1>1
<1>9. LooksDown(step, J, h, n, Int)
  <2>1. Int # {}
    BY 0 \in Int
  <2>2. \A x \in J : \A f, g \in [J -> Int] :
            (\A y \in J : h[y] < h[x] => f[y] = g[y]) => step[<<x, f>>] = step[<<x, g>>]
    <3> HIDE DEF step, next, h, J
    <3> QED BY <1>7
  <2> HIDE DEF step, next, h, J
  <2> QED BY <1>1, <1>6, <1>8, <2>1, <2>2 DEF LooksDown
<1>10. PICK f \in F : \A x \in J : f[x] = step[<<x, f>>]
  <2> HIDE DEF step, next, h, J
  <2> QED BY <1>9, RecursionEnds
<1>11. f = [j \in J |-> next(j, f)]
  BY <1>5, <1>10
<1> QED BY <1>1, <1>11 DEF Scales

LEMMA OwnSpecsAre ==
  ASSUME NEW p, NEW a, NEW n, Animated(p, a, n)
  PROVE  /\ OwnSpecs(p, a) \in [0 .. n - 1 -> Bounds]
         /\ \A j \in 0 .. n - 1 : /\ OwnSpecs(p, a)[j].length = a[j].distance * OwnSpecs(p, a)[j].scale
                                  /\ OwnSpecs(p, a)[j].tolerance = a[j].tolerance
<1> DEFINE s == CHOOSE f : Scales(f, p, a)
           own == [j \in DOMAIN p |-> [length |-> a[j].distance * s[j], scale |-> s[j],
                                       tolerance |-> a[j].tolerance]]
<1>1. OwnSpecs(p, a) = own
  BY DEF OwnSpecs, Scales
<1>2. DOMAIN p = 0 .. n - 1 /\ \A j \in 0 .. n - 1 : a[j].distance \in Int /\ a[j].tolerance \in Int
                                                     /\ a[j].scale \in Int
  BY DEF Animated, Setting
<1>3. \E f : Scales(f, p, a)
  BY ScalesExist
<1>4. Scales(s, p, a)
  <2> HIDE DEF s
  <2> QED BY <1>3 DEF s
<1>5. \A j \in 0 .. n - 1 : s[j] \in Int
  <2> DEFINE J == 0 .. n - 1
             h == [j \in J |-> j]
             S == {j \in J : s[j] \in Int}
  <2>1. n \in Nat /\ h \in [J -> Nat]
    BY DEF Animated
  <2>2. ASSUME NEW j \in J, \A y \in J : h[y] < h[j] => y \in S
        PROVE  j \in S
    <3>1. p[j] = NoParent \/ (p[j] \in J /\ p[j] < j)
      BY DEF Animated, NoParent
    <3>2. p[j] # NoParent => s[p[j]] \in Int
      BY <2>2, <3>1
    <3>3. (IF p[j] = NoParent THEN 1 ELSE s[p[j]]) \in Int
      BY <3>2
    <3>4. s[j] = a[j].scale * (IF p[j] = NoParent THEN 1 ELSE s[p[j]])
      <4> HIDE DEF s
      <4> QED BY <1>2, <1>4 DEF Scales
    <3> HIDE DEF s
    <3> QED BY <1>2, <3>3, <3>4
  <2> HIDE DEF h, s, J, S
  <2>3. J \subseteq S
    BY <2>1, <2>2, ByHeight
  <2> QED BY <2>3 DEF J, S
<1>6. own \in [0 .. n - 1 -> Bounds]
  <2> HIDE DEF s
  <2>1. \A j \in 0 .. n - 1 : own[j] \in Bounds
    BY <1>2, <1>5 DEF Bounds
  <2> QED BY <1>2, <2>1
<1> HIDE DEF s
<1> QED BY <1>1, <1>2, <1>5, <1>6

LEMMA LargerIs ==
  ASSUME NEW a \in Int, NEW b \in Int
  PROVE  /\ Max({a, b}) \in {a, b} /\ a <= Max({a, b}) /\ b <= Max({a, b})
         /\ Min({a, b}) \in {a, b} /\ Min({a, b}) <= a /\ Min({a, b}) <= b
<1>1. \E m \in {a, b} : \A k \in {a, b} : m >= k
  OBVIOUS
<1>2. \E m \in {a, b} : \A k \in {a, b} : m <= k
  OBVIOUS
<1> QED BY <1>1, <1>2 DEF Max, Min

\* The length a joint tells its parent.
Told(p, a, s, j) == s[j].length + a[j].translation * s[p[j]].scale

\* What comes of it: only the parent's bounds change, and not its scale.
TellsParent(p, a, n, s, j, t) ==
    /\ t \in [0 .. n - 1 -> Bounds]
    /\ \A k \in 0 .. n - 1 : t[k].scale = s[k].scale /\ (k # p[j] => t[k] = s[k])
    /\ p[j] \in 0 .. n - 1 =>
          /\ Told(p, a, s, j) \in Int
          /\ t[p[j]].length = Max({s[p[j]].length, Told(p, a, s, j)})
          /\ t[p[j]].tolerance = Min({s[p[j]].tolerance, s[j].tolerance})

LEMMA TellParentIs ==
  ASSUME NEW p, NEW a, NEW n, Animated(p, a, n), NEW s \in [0 .. n - 1 -> Bounds], NEW j \in 0 .. n - 1
  PROVE  TellsParent(p, a, n, s, j, TellParent(p, a, s, j))
<1> DEFINE q == p[j]
           reach == s[j].length + a[j].translation * s[q].scale
           t == TellParent(p, a, s, j)
<1> SUFFICES /\ t \in [0 .. n - 1 -> Bounds]
             /\ \A k \in 0 .. n - 1 : t[k].scale = s[k].scale /\ (k # q => t[k] = s[k])
             /\ q \in 0 .. n - 1 =>
                   /\ reach \in Int
                   /\ t[q].length = Max({s[q].length, reach})
                   /\ t[q].tolerance = Min({s[q].tolerance, s[j].tolerance})
  BY DEF TellsParent, Told
<1>1. q = NoParent \/ (q \in 0 .. n - 1 /\ q # NoParent)
  BY DEF Animated, NoParent
<1>2. CASE q = NoParent
  <2>1. t = s /\ q \notin 0 .. n - 1
    BY <1>2 DEF TellParent, NoParent
  <2> QED BY <2>1
<1>3. CASE q \in 0 .. n - 1 /\ q # NoParent
  <2> DEFINE L == Max({s[q].length, reach})
             T == Min({s[q].tolerance, s[j].tolerance})
  <2>1. a[j].translation \in Int /\ s[q] \in Bounds /\ s[j] \in Bounds
    BY <1>3 DEF Animated, Setting
  <2>2. /\ s[q].length \in Int /\ s[q].scale \in Int /\ s[q].tolerance \in Int
        /\ s[j].length \in Int /\ s[j].tolerance \in Int /\ DOMAIN s[q] = {"length", "scale", "tolerance"}
    BY <2>1 DEF Bounds
  <2>3. reach \in Int
    BY <2>1, <2>2
  <2>4. L \in Int /\ T \in Int
    <3> HIDE DEF reach
    <3> QED BY <2>2, <2>3, LargerIs
  <2>5. t = [s EXCEPT ![q].length = L, ![q].tolerance = T]
    BY <1>3 DEF TellParent
  <2> HIDE DEF L, T, reach, t
  <2>6. /\ t \in [0 .. n - 1 -> Bounds]
        /\ \A k \in 0 .. n - 1 : t[k].scale = s[k].scale /\ (k # q => t[k] = s[k])
        /\ t[q].length = L /\ t[q].tolerance = T
    <3>1. t = [k \in 0 .. n - 1 |-> IF k = q THEN [s[q] EXCEPT !.length = L, !.tolerance = T] ELSE s[k]]
      BY <1>3, <2>2, <2>5
    <3>2. [s[q] EXCEPT !.length = L, !.tolerance = T] = [length |-> L, scale |-> s[q].scale, tolerance |-> T]
      <4> DEFINE r == s[q]
      <4>1. r = [length |-> r.length, scale |-> r.scale, tolerance |-> r.tolerance]
        BY <2>1 DEF Bounds
      <4> HIDE DEF r
      <4> DEFINE l == r.length
                 u == r.scale
                 m == r.tolerance
      <4>2. r = [length |-> l, scale |-> u, tolerance |-> m]
        BY <4>1
      <4> HIDE DEF l, u, m
      <4> DEFINE w == [r EXCEPT !.length = L]
      <4>3. w = [length |-> L, scale |-> u, tolerance |-> m]
        BY <4>2
      <4>4. [r EXCEPT !.length = L, !.tolerance = T] = [w EXCEPT !.tolerance = T]
        OBVIOUS
      <4>5. [w EXCEPT !.tolerance = T] = [length |-> L, scale |-> u, tolerance |-> T]
        <5> HIDE DEF w
        <5> QED BY <4>3
      <4>6. [r EXCEPT !.length = L, !.tolerance = T] = [length |-> L, scale |-> u, tolerance |-> T]
        BY <4>4, <4>5, Zenon
      <4>7. u = r.scale
        BY DEF u
      <4> QED BY <4>6, <4>7 DEF r
    <3>3. [length |-> L, scale |-> s[q].scale, tolerance |-> T] \in Bounds
      BY <2>2, <2>4 DEF Bounds
    <3>4. \A k \in 0 .. n - 1 :
             t[k] = IF k = q THEN [length |-> L, scale |-> s[q].scale, tolerance |-> T] ELSE s[k]
      BY <3>1, <3>2
    <3> QED BY <1>3, <3>1, <3>2, <3>3, <3>4
  <2> QED BY <2>3, <2>6 DEF L, T, reach, t, Told
<1> QED BY <1>1, <1>2, <1>3

\* The specs after the last k joints have told their parents.
Tells(f, p, a) ==
    f = [k \in 0 .. Cardinality(DOMAIN p) |->
            IF k = 0 THEN OwnSpecs(p, a)
            ELSE TellParent(p, a, f[k - 1], Cardinality(DOMAIN p) - k)]

LEMMA SpecsAre ==
  ASSUME NEW p, NEW a, NEW n, Animated(p, a, n)
  PROVE  \E f \in [0 .. n -> [0 .. n - 1 -> Bounds]] :
            /\ f[0] = OwnSpecs(p, a) /\ Specs(p, a) = f[n]
            /\ \A k \in 1 .. n : f[k] = TellParent(p, a, f[k - 1], n - k)
<1> DEFINE V == [0 .. n - 1 -> Bounds]
           f == CHOOSE g : Tells(g, p, a)
<1>1. n \in Nat /\ DOMAIN p = 0 .. n - 1
  BY DEF Animated
<1>2. Cardinality(DOMAIN p) = n
  BY <1>1, FirstNumbers
<1>3. OwnSpecs(p, a) \in V
  BY OwnSpecsAre
<1>4. \A s \in V, j \in 0 .. n - 1 : TellParent(p, a, s, j) \in V
  BY TellParentIs DEF TellsParent
<1>5. \A k \in 1 .. n : n - k \in 0 .. n - 1
  BY <1>1
<1>6. \E g : Tells(g, p, a)
  <2> DEFINE step == [v \in (1 .. n) \X V |-> TellParent(p, a, v[2], n - v[1])]
  <2>1. step \in [(1 .. n) \X V -> V]
    <3> HIDE DEF V
    <3> QED BY <1>4, <1>5
  <2>2. \A k \in 1 .. n, s \in V : step[<<k, s>>] = TellParent(p, a, s, n - k)
    <3> HIDE DEF V
    <3> QED OBVIOUS
  <2> HIDE DEF step, V
  <2>3. PICK g : GoesOn(g, n, V, OwnSpecs(p, a), step)
    BY <1>1, <1>3, <2>1, CountedRecursion
  <2>4. \A k \in 1 .. n : g[k - 1] \in V
    BY <1>1, <2>3 DEF GoesOn
  <2>5. \A k \in 1 .. n : step[<<k, g[k - 1]>>] = TellParent(p, a, g[k - 1], n - k)
    BY <2>2, <2>4
  <2>6. g = [k \in 0 .. n |-> IF k = 0 THEN OwnSpecs(p, a) ELSE step[<<k, g[k - 1]>>]]
    BY <2>3 DEF GoesOn
  <2>7. g = [k \in 0 .. n |-> IF k = 0 THEN OwnSpecs(p, a) ELSE TellParent(p, a, g[k - 1], n - k)]
    BY <1>1, <2>5, <2>6
  <2> QED BY <1>2, <2>7 DEF Tells
<1>7. Tells(f, p, a)
  <2> HIDE DEF f
  <2> QED BY <1>6 DEF f
<1>8. Specs(p, a) = f[n]
  BY <1>2 DEF Specs, Tells
<1> HIDE DEF f, V
<1>9. f = [k \in 0 .. n |-> IF k = 0 THEN OwnSpecs(p, a) ELSE TellParent(p, a, f[k - 1], n - k)]
  BY <1>2, <1>7 DEF Tells
<1>10. f[0] = OwnSpecs(p, a) /\ \A k \in 1 .. n : f[k] = TellParent(p, a, f[k - 1], n - k)
  BY <1>1, <1>9
<1>11. \A k \in 0 .. n : f[k] \in V
  <2> DEFINE S == {k \in 0 .. n : f[k] \in V}
  <2>1. 0 \in S
    BY <1>1, <1>3, <1>10
  <2>2. \A k \in 1 .. n : k - 1 \in S => k \in S
    BY <1>1, <1>4, <1>5, <1>10
  <2>3. 0 .. n \subseteq S
    <3> HIDE DEF S
    <3> QED BY <1>1, <2>1, <2>2, ByNumber
  <2> QED BY <2>3
<1>12. f \in [0 .. n -> V]
  BY <1>9, <1>11
<1> QED BY <1>8, <1>10, <1>12 DEF V

-----------------------------------------------------------------------------
(* Bones.                                                                  *)

Adds(b, p, a, specs, j) ==
    b = [d \in SubtreeOf(p, j) |->
            IF d = j THEN 0 ELSE a[d].translation * specs[p[d]].scale + b[p[d]]]

LEMMA BonesExist ==
  ASSUME NEW p, NEW a, NEW n, Animated(p, a, n), NEW s \in [0 .. n - 1 -> Bounds], NEW j \in 0 .. n - 1
  PROVE  \E b : Adds(b, p, a, s, j)
<1> DEFINE N == SubtreeOf(p, j)
           h == [d \in N |-> d]
           F == [N -> Int]
           next(d, f) == IF d = j THEN 0 ELSE a[d].translation * s[p[d]].scale + f[p[d]]
           step == [v \in N \X F |-> next(v[1], v[2])]
<1>1. n \in Nat /\ DOMAIN p = 0 .. n - 1 /\ \A x \in 0 .. n - 1 : p[x] \in NoParent .. x - 1
  BY DEF Animated
<1>2. N \subseteq 0 .. n - 1 /\ \A d \in N : d = j \/ p[d] \in N
  <2>1. N \subseteq 0 .. n - 1
    BY <1>1, SubtreeIsClosed
  <2>2. \A d \in N : d = j \/ p[d] \in N
    BY <1>1, SubtreeSplits
  <2> QED BY <2>1, <2>2
<1>3. \A d \in N : d = j \/ (p[d] \in N /\ p[d] < d)
  <2>1. \A d \in 0 .. n - 1 : p[d] < d
    BY <1>1 DEF NoParent
  <2> HIDE DEF N
  <2> QED BY <1>2, <2>1
<1>4. \A d \in N, f \in F : next(d, f) \in Int
  <2> SUFFICES ASSUME NEW d \in N, NEW f \in F, d # j
               PROVE  next(d, f) \in Int
    OBVIOUS
  <2>1. p[d] \in N /\ p[d] \in 0 .. n - 1 /\ d \in 0 .. n - 1
    BY <1>2
  <2>2. s[p[d]].scale \in Int
    BY <2>1 DEF Bounds
  <2>3. a[d].translation \in Int
    BY <2>1 DEF Animated, Setting
  <2>4. f[p[d]] \in Int
    BY <2>1
  <2> QED BY <2>2, <2>3, <2>4
<1>5. \A x \in N, f \in F : step[<<x, f>>] = next(x, f)
  OBVIOUS
<1>6. step \in [N \X F -> Int]
  BY <1>4
<1>7. ASSUME NEW x \in N, NEW f \in F, NEW g \in F, \A y \in N : h[y] < h[x] => f[y] = g[y]
      PROVE  step[<<x, f>>] = step[<<x, g>>]
  <2>1. next(x, f) = next(x, g)
    <3>1. CASE x = j
      BY <3>1
    <3>2. CASE x # j
      <4>1. p[x] \in N /\ p[x] < x
        BY <1>3, <3>2
      <4>2. f[p[x]] = g[p[x]]
        BY <1>7, <4>1
      <4> QED BY <3>2, <4>2
    <3> QED BY <3>1, <3>2
  <2> HIDE DEF next, step
  <2> QED BY <1>5, <2>1
<1>8. h \in [N -> 0 .. n]
  BY <1>1, <1>2
<1>9. LooksDown(step, N, h, n, Int)
  <2>1. Int # {}
    BY 0 \in Int
  <2>2. \A x \in N : \A f, g \in [N -> Int] :
            (\A y \in N : h[y] < h[x] => f[y] = g[y]) => step[<<x, f>>] = step[<<x, g>>]
    <3> HIDE DEF step, next, h, N
    <3> QED BY <1>7
  <2> HIDE DEF step, next, h, N
  <2> QED BY <1>1, <1>6, <1>8, <2>1, <2>2 DEF LooksDown
<1>10. PICK f \in F : \A x \in N : f[x] = step[<<x, f>>]
  <2> HIDE DEF step, next, h, N
  <2> QED BY <1>9, RecursionEnds
<1>11. f = [d \in N |-> next(d, f)]
  BY <1>5, <1>10
<1> QED BY <1>11 DEF Adds

\* The bones that lead from a joint to those below it, and from its parent to them.
LeadDown(p, a, n, s, j) ==
    /\ BonesFrom(p, a, s, j)[j] = 0
    /\ \A d \in SubtreeOf(p, j) : BonesFrom(p, a, s, j)[d] \in Int
    /\ p[j] \in 0 .. n - 1 =>
          /\ a[j].translation * s[p[j]].scale \in Int
          /\ \A d \in SubtreeOf(p, j) :
                BonesFrom(p, a, s, p[j])[d]
                   = BonesFrom(p, a, s, j)[d] + a[j].translation * s[p[j]].scale

LEMMA BonesAdd ==
  ASSUME NEW p, NEW a, NEW n, Animated(p, a, n), NEW s \in [0 .. n - 1 -> Bounds], NEW j \in 0 .. n - 1
  PROVE  LeadDown(p, a, n, s, j)
<1> DEFINE J == 0 .. n - 1
           from(k) == BonesFrom(p, a, s, k)
           bone(d) == a[d].translation * s[p[d]].scale
<1>1. n \in Nat /\ DOMAIN p = J /\ \A x \in J : p[x] \in NoParent .. x - 1
  BY DEF Animated
<1>2. \A x \in J : p[x] < x
  BY <1>1 DEF NoParent
<1>3. \A x \in J : p[x] \in J => bone(x) \in Int
  <2> SUFFICES ASSUME NEW x \in J, p[x] \in J
               PROVE  bone(x) \in Int
    OBVIOUS
  <2>1. a[x].translation \in Int
    BY DEF Animated, Setting
  <2>2. s[p[x]].scale \in Int
    BY DEF Bounds
  <2> QED BY <2>1, <2>2
<1>4. ASSUME NEW k \in J
      PROVE  /\ SubtreeOf(p, k) \subseteq J /\ k \in SubtreeOf(p, k)
             /\ \A d \in SubtreeOf(p, k) : d >= k
             /\ \A d \in SubtreeOf(p, k) : d = k \/ (p[d] \in SubtreeOf(p, k) /\ p[d] \in J)
             /\ from(k)[k] = 0
             /\ \A d \in SubtreeOf(p, k) : d # k => from(k)[d] = bone(d) + from(k)[p[d]]
  <2> DEFINE N == SubtreeOf(p, k)
             b == CHOOSE f : Adds(f, p, a, s, k)
  <2>1. N \subseteq J /\ k \in N
    BY <1>1, SubtreeIsClosed
  <2>2. N \subseteq k .. n - 1
    BY <1>1, SubtreeIsAfter
  <2>3. \A d \in N : d = k \/ p[d] \in N
    BY <1>1, SubtreeSplits
  <2>4. \E f : Adds(f, p, a, s, k)
    BY BonesExist
  <2>5. Adds(b, p, a, s, k)
    <3> HIDE DEF b
    <3> QED BY <2>4 DEF b
  <2>6. from(k) = b
    BY DEF BonesFrom, Adds
  <2>7. /\ b[k] = 0
        /\ \A d \in N : d # k => b[d] = bone(d) + b[p[d]]
    <3> HIDE DEF b
    <3> QED BY <2>1, <2>5 DEF Adds
  <2> HIDE DEF b, N, from, J
  <2>8. \A d \in N : d >= k
    BY <2>2 DEF J
  <2>9. \A d \in N : d = k \/ (p[d] \in N /\ p[d] \in J)
    BY <2>1, <2>3
  <2> QED BY <2>1, <2>6, <2>7, <2>8, <2>9 DEF N
<1> HIDE DEF from, bone
<1>5. \A d \in SubtreeOf(p, j) : from(j)[d] \in Int
  <2> DEFINE R == {d \in SubtreeOf(p, j) : from(j)[d] \in Int}
  <2>1. j \in R /\ R \subseteq DOMAIN p
    BY <1>1, <1>4
  <2>2. ASSUME NEW d \in DOMAIN p, p[d] \in R
        PROVE  d \in R
    <3>1. d \in SubtreeOf(p, j) /\ p[d] >= j /\ p[d] \in J
      BY <1>1, <1>4, <2>2, SubtreeIsClosed
    <3>2. p[d] < d /\ d # j /\ d \in J
      BY <1>1, <1>2, <3>1
    <3>3. from(j)[d] = bone(d) + from(j)[p[d]] /\ bone(d) \in Int
      BY <1>3, <1>4, <3>1, <3>2
    <3> QED BY <2>2, <3>1, <3>3
  <2> HIDE DEF R
  <2>3. SubtreeOf(p, j) \subseteq R
    BY <2>1, <2>2, SubtreeIsLeast
  <2> QED BY <2>3 DEF R
<1>6. ASSUME p[j] \in J
      PROVE  \A d \in SubtreeOf(p, j) : from(p[j])[d] = from(j)[d] + bone(j)
  <2> DEFINE q == p[j]
             R == {d \in SubtreeOf(p, j) : from(q)[d] = from(j)[d] + bone(j)}
  <2>1. q < j /\ bone(j) \in Int /\ SubtreeOf(p, j) \subseteq SubtreeOf(p, q)
    BY <1>1, <1>2, <1>3, <1>6, SubtreeOfChild
  <2>2. j \in R /\ R \subseteq DOMAIN p
    <3>1. from(q)[j] = bone(j) + from(q)[q] /\ from(q)[q] = 0 /\ from(j)[j] = 0
      BY <1>4, <1>6, <2>1
    <3> QED BY <1>1, <1>4, <2>1, <3>1
  <2>3. ASSUME NEW d \in DOMAIN p, p[d] \in R
        PROVE  d \in R
    <3>1. d \in SubtreeOf(p, j) /\ p[d] >= j /\ p[d] \in J /\ p[d] \in SubtreeOf(p, j)
      BY <1>1, <1>4, <2>3, SubtreeIsClosed
    <3>2. p[d] < d /\ d # j /\ d # q /\ d \in J
      BY <1>1, <1>2, <2>1, <3>1
    <3>3. /\ from(j)[d] = bone(d) + from(j)[p[d]] /\ bone(d) \in Int
          /\ from(q)[d] = bone(d) + from(q)[p[d]]
      BY <1>3, <1>4, <1>6, <2>1, <3>1, <3>2
    <3>4. from(q)[p[d]] = from(j)[p[d]] + bone(j) /\ from(j)[p[d]] \in Int
      BY <1>5, <2>3, <3>1
    <3>5. from(q)[d] = from(j)[d] + bone(j)
      <4> DEFINE x == from(j)[p[d]]
                 y == from(q)[p[d]]
      <4>1. x \in Int /\ y = x + bone(j) /\ from(q)[d] = bone(d) + y /\ from(j)[d] = bone(d) + x
        BY <3>3, <3>4
      <4> HIDE DEF x, y, q
      <4> QED BY <2>1, <3>3, <4>1
    <3> QED BY <3>1, <3>5
  <2> HIDE DEF R
  <2>4. SubtreeOf(p, j) \subseteq R
    BY <2>2, <2>3, SubtreeIsLeast
  <2> QED BY <2>4 DEF R
<1> QED BY <1>3, <1>4, <1>5, <1>6 DEF from, bone, LeadDown

-----------------------------------------------------------------------------
(* Bounds.                                                                 *)

\* How far the points of d are from j.
Reach(p, a, s, j, d) == a[d].distance * s[d].scale + BonesFrom(p, a, s, j)[d]

\* t is the bounds of what joint j has in D.
BoundsIn(p, a, s, j, t, D) ==
    /\ \A d \in D : Reach(p, a, s, j, d) <= t.length /\ t.tolerance <= a[d].tolerance
    /\ \E d \in D : Reach(p, a, s, j, d) = t.length
    /\ \E d \in D : a[d].tolerance = t.tolerance

LEMMA BoundsGoUp ==
  ASSUME NEW p, NEW a, NEW n, Animated(p, a, n), NEW s \in [0 .. n - 1 -> Bounds],
         NEW j \in 0 .. n - 1, p[j] \in 0 .. n - 1,
         NEW t \in Bounds, NEW u \in Bounds, NEW v \in Bounds, NEW D \in SUBSET SubtreeOf(p, p[j]),
         BoundsIn(p, a, s, p[j], t, D), BoundsIn(p, a, s, j, u, SubtreeOf(p, j)),
         v.length = Max({t.length, u.length + a[j].translation * s[p[j]].scale}),
         v.tolerance = Min({t.tolerance, u.tolerance})
  PROVE  BoundsIn(p, a, s, p[j], v, D \cup SubtreeOf(p, j))
<1> DEFINE q == p[j]
           N == SubtreeOf(p, j)
           b == a[j].translation * s[q].scale
           far(k, d) == Reach(p, a, s, k, d)
           E == D \cup N
<1>1. DOMAIN p = 0 .. n - 1 /\ N \subseteq 0 .. n - 1 /\ SubtreeOf(p, q) \subseteq 0 .. n - 1
  BY SubtreeIsClosed DEF Animated
<1>2. b \in Int /\ \A d \in N : far(j, d) \in Int /\ far(q, d) = far(j, d) + b
  <2>1. b \in Int
    BY BonesAdd DEF LeadDown
  <2>2. ASSUME NEW d \in N
        PROVE  far(j, d) \in Int /\ far(q, d) = far(j, d) + b
    <3> DEFINE x == BonesFrom(p, a, s, j)[d]
               y == BonesFrom(p, a, s, q)[d]
               z == a[d].distance * s[d].scale
    <3>1. x \in Int /\ y = x + b
      <4>1. BonesFrom(p, a, s, j)[d] \in Int
        BY BonesAdd DEF LeadDown
      <4>2. BonesFrom(p, a, s, p[j])[d] = BonesFrom(p, a, s, j)[d] + a[j].translation * s[p[j]].scale
        <5>1. LeadDown(p, a, n, s, j)
          BY BonesAdd
        <5> QED BY <5>1, Zenon DEF LeadDown
      <4> QED BY <4>1, <4>2
    <3>2. z \in Int
      <4>1. a[d].distance \in Int /\ s[d].scale \in Int
        BY <1>1 DEF Animated, Setting, Bounds
      <4> QED BY <4>1
    <3>3. far(j, d) = z + x /\ far(q, d) = z + y
      BY DEF Reach
    <3> HIDE DEF x, y, z, b, far
    <3> QED BY <2>1, <3>1, <3>2, <3>3
  <2> QED BY <2>1, <2>2
<1>3. /\ t.length \in Int /\ t.tolerance \in Int /\ u.length \in Int /\ u.tolerance \in Int
      /\ \A d \in 0 .. n - 1 : a[d].tolerance \in Int
  BY DEF Bounds, Animated, Setting
<1>4. /\ \A d \in D : far(q, d) <= t.length /\ t.tolerance <= a[d].tolerance
      /\ \E d \in D : far(q, d) = t.length
      /\ \E d \in D : a[d].tolerance = t.tolerance
  BY DEF BoundsIn
<1>5. /\ \A d \in N : far(j, d) <= u.length /\ u.tolerance <= a[d].tolerance
      /\ \E d \in N : far(j, d) = u.length
      /\ \E d \in N : a[d].tolerance = u.tolerance
  BY DEF BoundsIn
<1> DEFINE w == u.length + b
<1>6. w \in Int /\ v.length = Max({t.length, w})
  BY <1>2, <1>3
<1> HIDE DEF far, b, q, N, w
<1>7. v.length \in {t.length, w} /\ t.length <= v.length /\ w <= v.length
  <2> DEFINE x == t.length
  <2>1. x \in Int
    BY <1>3
  <2> HIDE DEF x
  <2>2. Max({x, w}) \in {x, w} /\ x <= Max({x, w}) /\ w <= Max({x, w})
    BY <1>6, <2>1, LargerIs
  <2> QED BY <1>6, <2>2 DEF x
<1>8. v.tolerance \in {t.tolerance, u.tolerance} /\ v.tolerance <= t.tolerance /\ v.tolerance <= u.tolerance
  BY <1>3, LargerIs
<1>9. /\ \A d \in N : far(q, d) <= w
      /\ \E d \in N : far(q, d) = w
  BY <1>2, <1>3, <1>5 DEF w
<1>10. \A d \in D \cup N : d \in 0 .. n - 1
  BY <1>1 DEF N, q
<1>11. \E d \in D \cup N : far(q, d) = v.length
  BY <1>4, <1>7, <1>9
<1>12. \E d \in D \cup N : a[d].tolerance = v.tolerance
  BY <1>4, <1>5, <1>8
<1>13. \A d \in D \cup N : v.tolerance <= a[d].tolerance
  BY <1>3, <1>4, <1>5, <1>8, <1>10
<1>14. \A d \in N : far(q, d) \in Int
  BY <1>2
<1>15. \A d \in D \cup N : far(q, d) <= v.length
  <2>1. \A d \in D : far(q, d) \in Int
    <3> SUFFICES ASSUME NEW d \in D
                 PROVE  far(q, d) \in Int
      OBVIOUS
    <3>1. BonesFrom(p, a, s, p[j])[d] \in Int
      BY BonesAdd DEF LeadDown
    <3>2. a[d].distance \in Int /\ s[d].scale \in Int
      BY <1>10 DEF Animated, Setting, Bounds
    <3> QED BY <3>1, <3>2 DEF far, Reach, q
  <2> QED BY <1>3, <1>4, <1>6, <1>7, <1>9, <1>14, <2>1
<1> QED BY <1>11, <1>12, <1>13, <1>15 DEF BoundsIn, far, q, N

\* What joint j has been told of by the last k joints.
Heard(p, n, j, k) ==
    {d \in SubtreeOf(p, j) :
        d = j \/ \E c \in DOMAIN p : p[c] = j /\ c >= n - k /\ d \in SubtreeOf(p, c)}

LEMMA HeardIs ==
  ASSUME NEW p, NEW a, NEW n, Animated(p, a, n), NEW k \in 1 .. n, NEW j \in 0 .. n - 1
  PROVE  /\ Heard(p, n, j, 0) = {j} /\ Heard(p, n, j, n) = SubtreeOf(p, j)
         /\ Heard(p, n, j, k) \subseteq SubtreeOf(p, j)
         /\ j = n - k => Heard(p, n, j, k - 1) = SubtreeOf(p, j)
         /\ Heard(p, n, j, k) = IF j = p[n - k] THEN Heard(p, n, j, k - 1) \cup SubtreeOf(p, n - k)
                                ELSE Heard(p, n, j, k - 1)
<1> DEFINE J == 0 .. n - 1
<1>1. n \in Nat /\ DOMAIN p = J /\ \A x \in J : p[x] \in NoParent .. x - 1
  BY DEF Animated
<1>2. \A x \in J : p[x] < x
  BY <1>1 DEF NoParent
<1>3. j \in SubtreeOf(p, j)
  BY <1>1, SubtreeIsClosed
<1>4. \A d \in SubtreeOf(p, j) : d = j \/ \E c \in J : p[c] = j /\ d \in SubtreeOf(p, c)
  BY <1>1, SubtreeSplits
<1>5. \A c \in J : p[c] = j => SubtreeOf(p, c) \subseteq SubtreeOf(p, j)
  BY <1>1, SubtreeOfChild
<1>6. Heard(p, n, j, 0) = {j}
  <2>1. \A c \in J : ~(c >= n - 0)
    BY <1>1
  <2> HIDE DEF J
  <2> QED BY <1>1, <1>3, <2>1 DEF Heard
<1>7. Heard(p, n, j, n) = SubtreeOf(p, j)
  <2>1. \A c \in J : c >= n - n
    BY <1>1
  <2> HIDE DEF J
  <2> QED BY <1>1, <1>4, <2>1 DEF Heard
<1>8. ASSUME j = n - k
      PROVE  Heard(p, n, j, k - 1) = SubtreeOf(p, j)
  <2>1. \A c \in J : p[c] = j => c >= n - (k - 1)
    BY <1>1, <1>2, <1>8
  <2> HIDE DEF J
  <2> QED BY <1>1, <1>4, <2>1 DEF Heard
<1>9. Heard(p, n, j, k) = IF j = p[n - k] THEN Heard(p, n, j, k - 1) \cup SubtreeOf(p, n - k)
                          ELSE Heard(p, n, j, k - 1)
  <2>1. \A c \in J : c >= n - k <=> (c >= n - (k - 1) \/ c = n - k)
    BY <1>1
  <2>2. n - k \in J
    BY <1>1
  <2> HIDE DEF J
  <2> QED BY <1>1, <1>5, <2>1, <2>2 DEF Heard
<1> QED BY <1>6, <1>7, <1>8, <1>9 DEF Heard

LEMMA SpecsAreBounds ==
  ASSUME NEW p, NEW a, NEW n, Animated(p, a, n)
  PROVE  /\ Specs(p, a) \in [0 .. n - 1 -> Bounds]
         /\ \A j \in 0 .. n - 1 : BoundsIn(p, a, Specs(p, a), j, Specs(p, a)[j], SubtreeOf(p, j))
<1> DEFINE J == 0 .. n - 1
           V == [J -> Bounds]
           s == Specs(p, a)
<1>1. PICK f \in [0 .. n -> V] :
            /\ f[0] = OwnSpecs(p, a) /\ s = f[n]
            /\ \A k \in 1 .. n : f[k] = TellParent(p, a, f[k - 1], n - k)
  BY SpecsAre
<1>2. n \in Nat /\ DOMAIN p = J /\ s \in V
  BY <1>1 DEF Animated
<1>3. \A k \in 1 .. n : k - 1 \in 0 .. n /\ n - k \in J /\ f[k - 1] \in V
  <2>1. \A k \in 1 .. n : k - 1 \in 0 .. n /\ n - k \in J
    BY <1>2
  <2> HIDE DEF V, J
  <2> QED BY <1>1, <2>1
<1> HIDE DEF s
<1>4. ASSUME NEW k \in 1 .. n
       PROVE  TellsParent(p, a, n, f[k - 1], n - k, f[k])
  <2>1. f[k] = TellParent(p, a, f[k - 1], n - k) /\ n - k \in 0 .. n - 1 /\ f[k - 1] \in [0 .. n - 1 -> Bounds]
    BY <1>1, <1>3
  <2> QED BY <2>1, TellParentIs
<1>5. \A k \in 0 .. n : \A j \in J : f[k][j].scale = s[j].scale
  <2> DEFINE S == {k \in 0 .. n : \A j \in J : f[k][j].scale = f[0][j].scale}
  <2>1. 0 \in S
    BY <1>2
  <2>2. \A k \in 1 .. n : k - 1 \in S => k \in S
    <3> SUFFICES ASSUME NEW k \in 1 .. n, k - 1 \in S, NEW j \in J
                 PROVE  f[k][j].scale = f[0][j].scale
      BY <1>2
    <3>1. f[k][j].scale = f[k - 1][j].scale
      <4> DEFINE g == f[k - 1]
                 h == f[k]
      <4>1. TellsParent(p, a, n, g, n - k, h)
        BY <1>4
      <4> HIDE DEF g, h
      <4>2. h[j].scale = g[j].scale
        BY <4>1 DEF TellsParent
      <4> QED BY <4>2 DEF g, h
    <3> QED BY <3>1
  <2>3. 0 .. n \subseteq S
    <3> HIDE DEF S
    <3> QED BY <1>2, <2>1, <2>2, ByNumber
  <2> QED BY <1>1, <1>2, <2>3
<1> DEFINE P(k) == \A j \in J : BoundsIn(p, a, s, j, f[k][j], Heard(p, n, j, k))
           S == {k \in 0 .. n : P(k)}
<1>6. 0 \in S
  <2> SUFFICES ASSUME NEW j \in J
               PROVE  BoundsIn(p, a, s, j, f[0][j], Heard(p, n, j, 0))
    BY <1>2
  <2>1. f[0][j].length = a[j].distance * s[j].scale /\ f[0][j].tolerance = a[j].tolerance
    BY <1>1, <1>2, <1>5, OwnSpecsAre
  <2>2. BonesFrom(p, a, s, j)[j] = 0
    BY <1>2, BonesAdd DEF LeadDown
  <2>3. a[j].distance * s[j].scale \in Int /\ a[j].tolerance \in Int
    <3>1. a[j].distance \in Int /\ s[j].scale \in Int /\ a[j].tolerance \in Int
      BY <1>2 DEF Animated, Setting, Bounds
    <3> QED BY <3>1
  <2>4. Reach(p, a, s, j, j) = a[j].distance * s[j].scale
    BY <2>2, <2>3 DEF Reach
  <2>5. Heard(p, n, j, 0) = {j}
    <3>1. 1 \in 1 .. n
      BY <1>2
    <3> QED BY <3>1, HeardIs
  <2> QED BY <2>1, <2>3, <2>4, <2>5 DEF BoundsIn
<1>7. ASSUME NEW k \in 1 .. n, k - 1 \in S
      PROVE  k \in S
  <2> DEFINE c == n - k
             g == f[k - 1]
             h == f[k]
  <2>1. c \in J /\ g \in V /\ h \in V /\ h = TellParent(p, a, g, c) /\ P(k - 1) /\ k \in 0 .. n
    BY <1>1, <1>2, <1>3, <1>7
  <2> SUFFICES ASSUME NEW j \in J
               PROVE  BoundsIn(p, a, s, j, h[j], Heard(p, n, j, k))
    BY <2>1
  <2>2. /\ BoundsIn(p, a, s, j, g[j], Heard(p, n, j, k - 1))
        /\ BoundsIn(p, a, s, c, g[c], Heard(p, n, c, k - 1))
    BY <2>1
  <2>3. CASE j # p[c]
    <3>1. h[j] = g[j] /\ Heard(p, n, j, k) = Heard(p, n, j, k - 1)
      <4>1. h[j] = g[j]
        <5>1. TellsParent(p, a, n, g, c, h)
          BY <1>4
        <5> HIDE DEF g, h, c
        <5> QED BY <2>3, <5>1 DEF TellsParent
      <4>2. Heard(p, n, j, k) = IF j = p[n - k] THEN Heard(p, n, j, k - 1) \cup SubtreeOf(p, n - k)
                                ELSE Heard(p, n, j, k - 1)
        BY HeardIs
      <4> QED BY <2>3, <4>1, <4>2
    <3> QED BY <2>2, <3>1
  <2>4. CASE j = p[c]
    <3>1. /\ Heard(p, n, c, k - 1) = SubtreeOf(p, c)
          /\ Heard(p, n, j, k) = Heard(p, n, j, k - 1) \cup SubtreeOf(p, c)
      BY <2>1, <2>4, HeardIs
    <3>2. /\ h[j].length = Max({g[j].length, Told(p, a, g, c)})
          /\ h[j].tolerance = Min({g[j].tolerance, g[c].tolerance})
      <4>1. TellsParent(p, a, n, g, c, h)
        BY <1>4
      <4> HIDE DEF g, h, c
      <4> QED BY <2>4, <4>1 DEF TellsParent
    <3>3. Told(p, a, g, c) = g[c].length + a[c].translation * s[p[c]].scale
      BY <1>3, <1>5, <2>4 DEF Told
    <3>4. g[j] \in Bounds /\ g[c] \in Bounds /\ h[j] \in Bounds
      BY <2>1
    <3>5. Heard(p, n, j, k - 1) \in SUBSET SubtreeOf(p, p[c])
      BY <2>4 DEF Heard
    <3> HIDE DEF c, g, h, J, V
    <3>6. c \in 0 .. n - 1 /\ p[c] \in 0 .. n - 1 /\ s \in [0 .. n - 1 -> Bounds]
      BY <1>2, <2>1, <2>4 DEF J, V
    <3>7. BoundsIn(p, a, s, p[c], h[j], Heard(p, n, j, k - 1) \cup SubtreeOf(p, c))
      <4> DEFINE D == Heard(p, n, j, k - 1)
                 t == g[j]
                 u == g[c]
                 v == h[j]
      <4>1. /\ BoundsIn(p, a, s, p[c], t, D) /\ BoundsIn(p, a, s, c, u, SubtreeOf(p, c))
            /\ D \in SUBSET SubtreeOf(p, p[c])
            /\ t \in Bounds /\ u \in Bounds /\ v \in Bounds
        BY <2>2, <2>4, <3>1, <3>4, <3>5
      <4>2. /\ v.length = Max({t.length, u.length + a[c].translation * s[p[c]].scale})
            /\ v.tolerance = Min({t.tolerance, u.tolerance})
        BY <3>2, <3>3
      <4> HIDE DEF D, t, u, v
      <4>3. BoundsIn(p, a, s, p[c], v, D \cup SubtreeOf(p, c))
        BY <3>6, <4>1, <4>2, BoundsGoUp
      <4> QED BY <4>3 DEF D, v
    <3> QED BY <2>4, <3>1, <3>7
  <2> QED BY <2>3, <2>4
<1>8. n \in S
  <2> HIDE DEF S
  <2>1. 0 .. n \subseteq S
    BY <1>2, <1>6, <1>7, ByNumber
  <2> QED BY <1>2, <2>1
<1>9. \A j \in J : Heard(p, n, j, n) = SubtreeOf(p, j)
  <2> SUFFICES ASSUME NEW j \in J
               PROVE  Heard(p, n, j, n) = SubtreeOf(p, j)
    OBVIOUS
  <2>1. 1 \in 1 .. n
    BY <1>2
  <2> QED BY <2>1, HeardIs
<1>10. \A j \in J : BoundsIn(p, a, s, j, s[j], SubtreeOf(p, j))
  BY <1>1, <1>8, <1>9
<1> QED BY <1>2, <1>10 DEF s

\* The optimizer holds a joint to the farthest point and the least tolerance of all that is
\* below it, for any hierarchy and any animation of it (animation_optimizer.cc:57-139).
THEOREM BoundsAreOfSubtrees ==
  ASSUME NEW p, NEW a, NEW n, Animated(p, a, n)
  PROVE  BoundsOfSubtrees(p, a)
<1> DEFINE J == 0 .. n - 1
           s == Specs(p, a)
<1>1. DOMAIN p = J /\ s \in [J -> Bounds] /\ \A j \in J : BoundsIn(p, a, s, j, s[j], SubtreeOf(p, j))
  BY SpecsAreBounds DEF Animated
<1> HIDE DEF s
<1>2. ASSUME NEW j \in J
      PROVE  /\ s[j].length = Max({Reach(p, a, s, j, d) : d \in SubtreeOf(p, j)})
             /\ s[j].tolerance = Min({a[d].tolerance : d \in SubtreeOf(p, j)})
  <2> DEFINE N == SubtreeOf(p, j)
             F == {Reach(p, a, s, j, d) : d \in N}
             T == {a[d].tolerance : d \in N}
             l == s[j].length
             m == s[j].tolerance
  <2>1. N \subseteq J
    BY <1>1, SubtreeIsClosed
  <2>2. \A d \in N : a[d].tolerance \in Int
    BY <2>1 DEF Animated, Setting
  <2>3. \A d \in N : Reach(p, a, s, j, d) \in Int
    <3> SUFFICES ASSUME NEW d \in N
                 PROVE  Reach(p, a, s, j, d) \in Int
      OBVIOUS
    <3>1. BonesFrom(p, a, s, j)[d] \in Int
      BY <1>1, BonesAdd DEF LeadDown
    <3>2. a[d].distance \in Int /\ s[d].scale \in Int
      BY <1>1, <2>1 DEF Animated, Setting, Bounds
    <3> QED BY <3>1, <3>2 DEF Reach
  <2>4. /\ \A d \in N : Reach(p, a, s, j, d) <= l /\ m <= a[d].tolerance
        /\ \E d \in N : Reach(p, a, s, j, d) = l
        /\ \E d \in N : a[d].tolerance = m
    BY <1>1 DEF BoundsIn
  <2> HIDE DEF N, l, m
  <2>5. F \in SUBSET Int /\ l \in F /\ \A k \in F : k <= l
    BY <2>3, <2>4
  <2>6. T \in SUBSET Int /\ m \in T /\ \A k \in T : m <= k
    BY <2>2, <2>4
  <2> HIDE DEF F, T
  <2>7. Max(F) = l /\ Min(T) = m
    BY <2>5, <2>6, MaxIs, MinIs
  <2> QED BY <2>7 DEF F, T, N, l, m
<1> QED BY <1>1, <1>2 DEF BoundsOfSubtrees, Reach, s

-----------------------------------------------------------------------------
(* Who owns what.                                                          *)

Owned == held \cup (IF "importer" \in held THEN {"backend"} ELSE {})
                \cup (IF lost THEN {"output"} ELSE {})

\* NothingLeaks, and what there is besides while the host is called back.
OwnersKnown ==
    /\ held \cap {"backend", "lent", "output"} = {}
    /\ call \in {"none", "skeleton", "animation"}
    /\ call = "none" => heap = Owned
    /\ call = "skeleton" => heap = Owned \cup {"lent"}
    /\ call = "animation" => /\ heap \ {"output"} = Owned \cup {"animation"}
                             /\ "animation" \notin held /\ ~lost

LEMMA ImportKeepsOwners ==
  ASSUME OwnersKnown, ImporterNext
  PROVE  OwnersKnown'
<1> USE DEF OwnersKnown, Owned, Idle
<1>1. CASE ImporterCreate
  BY <1>1 DEF ImporterCreate
<1>2. CASE ImporterDestroy
  BY <1>2 DEF ImporterDestroy
<1>3. CASE RawSkeletonCreate
  BY <1>3 DEF RawSkeletonCreate
<1>4. CASE RawSkeletonDestroy
  BY <1>4 DEF RawSkeletonDestroy
<1>5. CASE \E parent \in {NoParent} \cup Indices(raw) : AddJoint(parent)
  BY <1>5 DEF AddJoint
<1>6. CASE BeginImportSkeleton
  BY <1>6 DEF BeginImportSkeleton
<1>7. ASSUME NEW ok \in BOOLEAN, NEW fits \in BOOLEAN, EndImportSkeleton(ok, fits)
      PROVE  OwnersKnown'
  <2>1. CASE ok /\ raw # <<>> /\ fits
    BY <1>7, <2>1 DEF EndImportSkeleton
  <2>2. CASE ~(ok /\ raw # <<>> /\ fits)
    BY <1>7, <2>2 DEF EndImportSkeleton
  <2> QED BY <2>1, <2>2
<1>8. CASE SkeletonBuild
  BY <1>8 DEF SkeletonBuild
<1>9. CASE SkeletonDestroy
  BY <1>9 DEF SkeletonDestroy
<1>10. CASE BeginImportAnimation
  BY <1>10 DEF BeginImportAnimation
<1>11. CASE CreateOutput
  BY <1>11 DEF CreateOutput
<1>12. ASSUME NEW ok \in BOOLEAN, EndImportAnimation(ok)
       PROVE  OwnersKnown'
  <2>1. CASE ok /\ "output" \in heap
    BY <1>12, <2>1 DEF EndImportAnimation
  <2>2. CASE ~(ok /\ "output" \in heap)
    BY <1>12, <2>2 DEF EndImportAnimation
  <2> QED BY <2>1, <2>2
<1>13. CASE OutputDestroy
  BY <1>13 DEF OutputDestroy
<1>14. CASE RawAnimationDestroy
  BY <1>14 DEF RawAnimationDestroy
<1> HIDE DEF OwnersKnown, Owned, Idle
<1> QED BY <1>1, <1>2, <1>3, <1>4, <1>5, <1>6, <1>7, <1>8, <1>9, <1>10, <1>11, <1>12, <1>13,
           <1>14 DEF ImporterNext

-----------------------------------------------------------------------------
(* What becomes of the joints.                                             *)

\* The joints of a raw skeleton name parents that were added before them, whether the host
\* added them, an importer did, or they have been flattened since; a runtime skeleton is
\* made of such a list.
JointsKnown ==
    /\ raw \in Seq(RawJoint) /\ ParentsFirst(raw)
    /\ source \in Seq(RawJoint) /\ ParentsFirst(source)
    /\ authored # <<>> => InDepthFirst(raw, authored)
    /\ skeleton # NoSkeleton => skeleton = Built(source)

LEMMA NoJoints == <<>> \in Seq(RawJoint) /\ ParentsFirst(<<>>)
BY DEF ParentsFirst, Indices

LEMMA OneMoreJoint ==
  ASSUME NEW flat \in Seq(RawJoint), ParentsFirst(flat), NEW parent \in {NoParent} \cup Indices(flat)
  PROVE  LET more == Append(flat, [parent |-> parent, name |-> Len(flat)])
         IN  more \in Seq(RawJoint) /\ ParentsFirst(more)
<1> DEFINE joint == [parent |-> parent, name |-> Len(flat)]
           more == Append(flat, joint)
<1>1. Len(flat) \in Nat /\ parent \in Int /\ parent \in NoParent .. Len(flat) - 1
  BY DEF Indices, NoParent
<1>2. joint \in RawJoint /\ joint.parent = parent
  BY <1>1 DEF RawJoint
<1> HIDE DEF joint
<1>3. /\ more \in Seq(RawJoint) /\ Len(more) = Len(flat) + 1
      /\ \A k \in 1 .. Len(flat) : more[k] = flat[k]
      /\ more[Len(flat) + 1] = joint
  BY <1>2
<1> HIDE DEF more
<1>4. ASSUME NEW k \in Indices(more)
      PROVE  ParentOf(more, k) \in NoParent .. k - 1
  <2>1. CASE k = Len(flat)
    BY <1>1, <1>2, <1>3, <2>1 DEF ParentOf
  <2>2. CASE k # Len(flat)
    <3>1. k \in Indices(flat) /\ k + 1 \in 1 .. Len(flat)
      BY <1>1, <1>3, <2>2 DEF Indices
    <3>2. ParentOf(more, k) = ParentOf(flat, k)
      BY <1>3, <3>1 DEF ParentOf
    <3> QED BY <3>1, <3>2 DEF ParentsFirst
  <2> QED BY <2>1, <2>2
<1> QED BY <1>1, <1>3, <1>4 DEF ParentsFirst, more, joint

LEMMA ImportKeepsJoints ==
  ASSUME JointsKnown, ImporterNext
  PROVE  JointsKnown'
<1>1. UNCHANGED <<raw, skeleton, authored, source>> => JointsKnown'
  BY DEF JointsKnown
<1>2. raw' = <<>> /\ authored' = <<>> /\ UNCHANGED <<skeleton, source>> => JointsKnown'
  BY NoJoints DEF JointsKnown
<1>3. CASE ImporterCreate \/ ImporterDestroy
  BY <1>1, <1>3 DEF ImporterCreate, ImporterDestroy
<1>4. CASE RawSkeletonCreate \/ RawSkeletonDestroy \/ BeginImportSkeleton
  BY <1>2, <1>4 DEF RawSkeletonCreate, RawSkeletonDestroy, BeginImportSkeleton
<1>5. ASSUME NEW parent \in {NoParent} \cup Indices(raw), AddJoint(parent)
      PROVE  JointsKnown'
  <2>1. /\ raw' = Append(raw, [parent |-> parent, name |-> Len(raw)])
        /\ authored' = <<>> /\ UNCHANGED <<skeleton, source>>
    BY <1>5 DEF AddJoint
  <2>2. raw' \in Seq(RawJoint) /\ ParentsFirst(raw')
    BY <2>1, OneMoreJoint DEF JointsKnown
  <2> QED BY <2>1, <2>2 DEF JointsKnown
<1>6. ASSUME NEW ok \in BOOLEAN, NEW fits \in BOOLEAN, EndImportSkeleton(ok, fits)
      PROVE  JointsKnown'
  <2>1. CASE ok /\ raw # <<>> /\ fits
    <3>1. raw' = Flatten(raw) /\ authored' = raw /\ UNCHANGED <<skeleton, source>>
      BY <1>6, <2>1 DEF EndImportSkeleton
    <3>2. Flatten(raw) \in Seq(RawJoint) /\ ParentsFirst(Flatten(raw)) /\ InDepthFirst(Flatten(raw), raw)
      BY FlattenKeepsHierarchies DEF JointsKnown
    <3> QED BY <3>1, <3>2 DEF JointsKnown
  <2>2. CASE ~(ok /\ raw # <<>> /\ fits)
    BY <1>2, <1>6, <2>2 DEF EndImportSkeleton
  <2> QED BY <2>1, <2>2
<1>7. CASE SkeletonBuild
  BY <1>7 DEF SkeletonBuild, JointsKnown
<1>8. CASE SkeletonDestroy
  BY <1>8, NoJoints DEF SkeletonDestroy, JointsKnown
<1>9. CASE BeginImportAnimation \/ CreateOutput \/ OutputDestroy \/ RawAnimationDestroy
  BY <1>1, <1>9 DEF BeginImportAnimation, CreateOutput, OutputDestroy, RawAnimationDestroy
<1>10. ASSUME NEW ok \in BOOLEAN, EndImportAnimation(ok)
       PROVE  JointsKnown'
  BY <1>1, <1>10 DEF EndImportAnimation
<1> QED BY <1>3, <1>4, <1>5, <1>6, <1>7, <1>8, <1>9, <1>10 DEF ImporterNext

\* What joints added in any order become.
LEMMA JointsAreWhole ==
  ASSUME JointsKnown
  PROVE  SkeletonsServe
<1>1. ASSUME JustBuilt
      PROVE  /\ Good(skeleton) /\ DOMAIN skeleton.parents = 0 .. skeleton.num_joints - 1
             /\ InDepthFirst(RuntimeJoints, source)
  <2>1. skeleton = Built(source) /\ source \in Seq(RawJoint) /\ ParentsFirst(source)
    BY <1>1 DEF JustBuilt, JointsKnown
  <2>2. Good(skeleton) /\ InDepthFirst(ListOf(skeleton, Len(source)), source)
    BY <2>1, BuiltSkeletonsAreGood
  <2>3. RuntimeJoints = ListOf(skeleton, Len(source))
    BY DEF RuntimeJoints, ListOf
  <2>4. DOMAIN skeleton.parents = 0 .. skeleton.num_joints - 1
    BY <2>2 DEF Good
  <2> QED BY <2>2, <2>3, <2>4
<1>2. HierarchyKept
  BY <1>1 DEF HierarchyKept, JointsKnown
<1>3. TraversalsComplete
  <2>1. ASSUME JustBuilt
        PROVE  /\ Walk(skeleton.parents, NoParent) = DOMAIN skeleton.parents
               /\ \A j \in DOMAIN skeleton.parents :
                     /\ Walk(skeleton.parents, j) = SubtreeOf(skeleton.parents, j)
                     /\ IsLeaf(skeleton.parents, j) <=> SubtreeOf(skeleton.parents, j) = {j}
    BY <1>1, <2>1, WalksVisitSubtrees
  <2>2. \A order \in {BreadthFirstOrder(raw)} :
           /\ Len(order) = Len(raw) /\ ToSet(order) = Indices(raw)
           /\ \A k \in Indices(raw) :
                 ParentOf(raw, k) # NoParent => PlaceIn(order, ParentOf(raw, k)) < PlaceIn(order, k)
    BY BreadthFirstVisitsAll DEF JointsKnown
  <2> QED BY <2>1, <2>2 DEF TraversalsComplete
<1>4. ASSUME JustBuilt, NEW animation \in [DOMAIN skeleton.parents -> JointSettings]
      PROVE  BoundsOfSubtrees(skeleton.parents, animation)
  <2> DEFINE p == skeleton.parents
             n == skeleton.num_joints
  <2>1. n \in Nat /\ p \in [0 .. n - 1 -> Int] /\ IsDepthFirst(p) /\ DOMAIN p = 0 .. n - 1
    BY <1>1, <1>4 DEF Good
  <2>2. animation \in [0 .. n - 1 -> Setting]
    <3>1. JointSettings \subseteq Setting
      BY OptimizerAssumption DEF Setting
    <3> QED BY <2>1, <3>1
  <2>3. \A c \in 0 .. n - 1 : p[c] \in NoParent .. c - 1
    <3> HIDE DEF p, n
    <3> QED BY <2>1 DEF IsDepthFirst, NoParent
  <2>4. Animated(p, animation, n)
    <3> HIDE DEF p, n
    <3> QED BY <2>1, <2>2, <2>3 DEF Animated
  <2> QED BY <2>4, BoundsAreOfSubtrees
<1> QED BY <1>2, <1>3, <1>4 DEF SkeletonsServe, SkeletonsWhole

-----------------------------------------------------------------------------
(* The whole.                                                              *)

\* What is allocated, and what is made of it.
HandlesMeanWhatTheyAre ==
    /\ heap \subseteq Blocks
    /\ raw # <<>> => "raw" \in heap \/ call = "skeleton"
    /\ "skeleton" \in heap <=> skeleton # NoSkeleton

\* Each layer is at most one pass, and each partial layer is one.
PassesAreCounted ==
    /\ num_passes \in Nat /\ num_partial_passes \in Nat /\ layers \in Seq(Layers)
    /\ num_partial_passes <= num_passes /\ num_passes <= Len(layers)

CharacterInv ==
    /\ OwnersKnown
    /\ HandlesMeanWhatTheyAre
    /\ JointsKnown
    /\ PassesAreCounted
    /\ Posed => hierarchy.parents = skeleton.parents
    /\ PoseInv
    /\ OptimizerInv
    /\ BlendInv
    /\ ~Posed => job = NoJob

LEMMA NoHierarchyIsGood == Good(NoHierarchy)
BY DEF NoHierarchy, Good, IsDepthFirst

LEMMA CharacterInit ==
  ASSUME Init
  PROVE  CharacterInv
<1>1. OwnersKnown
  BY DEF Init, ImporterInit, OwnersKnown, Owned
<1>2. PoseInv
  BY NoHierarchyIsGood, FreshPose DEF Init, Quiet
<1>3. BlendInv
  BY BlendStarts DEF Init
<1>4. OptimizerInv
  <2>1. <<>> \in Seq(TrackKey)
    OBVIOUS
  <2> QED BY <2>1 DEF Init, OptimizerInit, OptimizerInv
<1>5. HandlesMeanWhatTheyAre /\ ~Posed
  BY DEF Init, ImporterInit, HandlesMeanWhatTheyAre, Posed
<1>6. PassesAreCounted
  <2>1. <<>> \in Seq(Layers)
    OBVIOUS
  <2> QED BY <2>1 DEF Init, BlendInit, PassesAreCounted
<1>7. JointsKnown
  BY NoJoints DEF Init, ImporterInit, JointsKnown
<1> QED BY <1>1, <1>2, <1>3, <1>4, <1>5, <1>6, <1>7 DEF CharacterInv, Init, Quiet

LEMMA ImportKeepsHandles ==
  ASSUME HandlesMeanWhatTheyAre, OwnersKnown, ImporterNext
  PROVE  HandlesMeanWhatTheyAre'
<1> USE DEF HandlesMeanWhatTheyAre, Blocks, Idle
<1>1. "importer" # "skeleton" /\ "raw" # "skeleton"
  OBVIOUS
<1>2. CASE ImporterCreate \/ ImporterDestroy
  BY <1>2 DEF ImporterCreate, ImporterDestroy
<1>3. CASE RawSkeletonCreate \/ RawSkeletonDestroy
  BY <1>3 DEF RawSkeletonCreate, RawSkeletonDestroy
<1>4. ASSUME NEW parent, AddJoint(parent) PROVE HandlesMeanWhatTheyAre'
  BY <1>4 DEF AddJoint
<1>5. CASE BeginImportSkeleton
  BY <1>5 DEF BeginImportSkeleton
<1>6. ASSUME NEW ok \in BOOLEAN, NEW fits \in BOOLEAN, EndImportSkeleton(ok, fits)
      PROVE  HandlesMeanWhatTheyAre'
  <2>1. /\ heap' \in {(heap \ {"lent"}) \cup {"raw"}, heap \ {"lent"}} /\ skeleton' = skeleton
        /\ raw' # <<>> => "raw" \in heap'
    BY <1>6 DEF EndImportSkeleton
  <2> QED BY <2>1
<1>7. CASE SkeletonBuild
  <2>1. skeleton' = Built(raw) /\ heap' = heap \cup {"skeleton"} /\ raw' = raw /\ "raw" \in heap
    BY <1>7 DEF SkeletonBuild
  <2>2. Built(raw) # NoSkeleton
    <3>1. "names" \in DOMAIN Built(raw) /\ "names" \notin DOMAIN NoSkeleton
      BY DEF Built, NoSkeleton
    <3> QED BY <3>1
  <2> QED BY <2>1, <2>2
<1>8. CASE SkeletonDestroy
  BY <1>8 DEF SkeletonDestroy
<1>9. CASE BeginImportAnimation \/ CreateOutput
  BY <1>9 DEF BeginImportAnimation, CreateOutput
<1>10. ASSUME NEW ok \in BOOLEAN, EndImportAnimation(ok) PROVE HandlesMeanWhatTheyAre'
  <2>1. /\ heap' \in {heap \ {"output"}, heap \ {"animation"}} /\ skeleton' = skeleton /\ raw' = raw
        /\ call # "skeleton"
    BY <1>10 DEF EndImportAnimation
  <2> QED BY <2>1
<1>11. CASE OutputDestroy \/ RawAnimationDestroy
  BY <1>11 DEF OutputDestroy, RawAnimationDestroy
<1> HIDE DEF HandlesMeanWhatTheyAre, Blocks, Idle
<1> QED BY <1>2, <1>3, <1>4, <1>5, <1>6, <1>7, <1>8, <1>9, <1>10, <1>11 DEF ImporterNext

LEMMA BlendKeepsCounts ==
  ASSUME PassesAreCounted, [BlendNext]_blendVars
  PROVE  PassesAreCounted'
<1> USE DEF PassesAreCounted
<1>1. ASSUME NEW layer \in Layers, BlendLayer(layer) PROVE PassesAreCounted'
  <2>1. layers' = Append(layers, layer) /\ layers' \in Seq(Layers) /\ Len(layers') = Len(layers) + 1
    BY <1>1 DEF BlendLayer
  <2>2. CASE layer.weight <= 0
    BY <1>1, <2>1, <2>2 DEF BlendLayer
  <2>3. CASE ~(layer.weight <= 0)
    <3>1. /\ num_passes' = num_passes + 1
          /\ num_partial_passes' \in {num_partial_passes, num_partial_passes + 1}
      BY <1>1, <2>3 DEF BlendLayer
    <3> QED BY <2>1, <3>1
  <2> QED BY <2>2, <2>3
<1>2. ASSUME NEW layer \in Layers, AddLayer(layer) PROVE PassesAreCounted'
  BY <1>2 DEF AddLayer
<1>3. ASSUME NEW t \in Thresholds, BlendBegin(t) PROVE PassesAreCounted'
  BY <1>3 DEF BlendBegin
<1>4. CASE BlendRestPose \/ Normalize
  <2>1. UNCHANGED <<num_passes, num_partial_passes, layers>>
    BY <1>4, Zenon DEF BlendRestPose, Normalize
  <2> QED BY <2>1
<1>5. CASE BlendReturn
  <2>1. <<>> \in Seq(Layers)
    OBVIOUS
  <2> QED BY <1>5, <2>1 DEF BlendReturn
<1>6. CASE UNCHANGED blendVars
  BY <1>6 DEF blendVars
<1> HIDE DEF PassesAreCounted
<1> QED BY <1>1, <1>2, <1>3, <1>4, <1>5, <1>6 DEF BlendNext

LEMMA CharacterStep ==
  ASSUME CharacterInv, [Next]_vars
  PROVE  CharacterInv'
<1>1. OwnersKnown'
  <2>1. UNCHANGED importerVars => OwnersKnown'
    BY DEF CharacterInv, importerVars, OwnersKnown, Owned
  <2>2. ImporterNext => OwnersKnown'
    BY ImportKeepsOwners DEF CharacterInv
  <2> QED BY <2>1, <2>2, Zenon DEF Next, Play, Stop, vars
<1>2. PoseInv' /\ (~Posed => job = NoJob)'
  <2>1. CASE UNCHANGED poseVars
    BY <2>1, PoseStepKeeps DEF CharacterInv, Posed, poseVars
  <2>2. CASE Posed /\ PoseNext
    <3>1. hierarchy' = hierarchy
      BY <2>2 DEF PoseNext, SetLocal, SetModel, StartJob, Transpose, Write, Return
    <3> QED BY <2>2, <3>1, PoseStepKeeps DEF CharacterInv, Posed
  <2>3. CASE Play \/ Stop
    <3>1. /\ job = NoJob
          /\ PoseOf(hierarchy', locals', models', stale')
          /\ UNCHANGED <<job, i, process, lanes>>
          /\ hierarchy' \in Hierarchies \/ hierarchy' = NoHierarchy
      BY <2>3 DEF Play, Stop, CharacterInv
    <3>2. Good(hierarchy)'
      <4>1. CASE hierarchy' \in Hierarchies
        BY <4>1, PoseAssumption DEF Good
      <4>2. CASE hierarchy' = NoHierarchy
        BY <4>2, NoHierarchyIsGood DEF Good
      <4> QED BY <3>1, <4>1, <4>2
    <3> QED BY <3>1, <3>2 DEF CharacterInv, PoseInv, PoseOf, LoopInRange, Written, LanesOfBlock,
                              Resting, PartlyFollow, Joints
  <2> QED BY <2>1, <2>2, <2>3, Zenon DEF Next, vars
<1>3. BlendInv'
  <2>1. [BlendNext]_blendVars
    BY Zenon DEF Next, Play, Stop, vars
  <2> QED BY <2>1, BlendStepKeeps DEF CharacterInv
<1>4. HandlesMeanWhatTheyAre'
  <2>1. UNCHANGED importerVars => HandlesMeanWhatTheyAre'
    BY DEF CharacterInv, importerVars, HandlesMeanWhatTheyAre
  <2>2. ImporterNext => HandlesMeanWhatTheyAre'
    BY ImportKeepsHandles DEF CharacterInv
  <2> QED BY <2>1, <2>2, Zenon DEF Next, Play, Stop, vars
<1>5. PassesAreCounted'
  <2>1. [BlendNext]_blendVars
    BY Zenon DEF Next, Play, Stop, vars
  <2> QED BY <2>1, BlendKeepsCounts DEF CharacterInv
<1>6. (Posed => hierarchy.parents = skeleton.parents)'
  <2>1. CASE Play
    BY <2>1 DEF Play, importerVars
  <2>2. CASE Stop
    BY <2>2 DEF Stop, Posed
  <2>3. CASE ~Posed /\ UNCHANGED poseVars
    BY <2>3 DEF Posed, poseVars
  <2>4. CASE hierarchy' = hierarchy /\ UNCHANGED importerVars
    BY <2>4 DEF CharacterInv, Posed, importerVars
  <2>5. PoseNext => hierarchy' = hierarchy
    BY DEF PoseNext, SetLocal, SetModel, StartJob, Transpose, Write, Return
  <2>6. UNCHANGED poseVars => hierarchy' = hierarchy
    BY DEF poseVars
  <2> QED BY <2>1, <2>2, <2>3, <2>4, <2>5, <2>6, Zenon DEF Next, vars
<1>7. OptimizerInv'
  <2>1. OptimizerNext \/ UNCHANGED optimizerVars
    BY Zenon DEF Next, Play, Stop, vars
  <2> QED BY <2>1, OptimizerKeeps DEF CharacterInv
<1>8. JointsKnown'
  <2>1. UNCHANGED importerVars => JointsKnown'
    BY DEF CharacterInv, importerVars, JointsKnown
  <2>2. ImporterNext => JointsKnown'
    BY ImportKeepsJoints DEF CharacterInv
  <2> QED BY <2>1, <2>2, Zenon DEF Next, Play, Stop, vars
<1> QED BY <1>1, <1>2, <1>3, <1>7, <1>4, <1>5, <1>6, <1>8 DEF CharacterInv

LEMMA CharacterInvariant == Spec => []CharacterInv
<1>1. Init => CharacterInv
  BY CharacterInit
<1>2. CharacterInv /\ [Next]_vars => CharacterInv'
  BY CharacterStep
<1> QED BY <1>1, <1>2, PTL DEF Spec

-----------------------------------------------------------------------------

\* The arrays a skeleton hands to the jobs are ones their loops can follow, a pose is of
\* the skeleton that is alive, and what is held in handles is allocated (Importer,
\* LocalToModel).
THEOREM CharacterTypeCorrect == Spec => []TypeOK
<1>1. CharacterInv => TypeOK
  <2> SUFFICES ASSUME CharacterInv PROVE TypeOK
    OBVIOUS
  <2>1. heap \subseteq Blocks /\ held \subseteq heap
    BY DEF CharacterInv, HandlesMeanWhatTheyAre, OwnersKnown, Owned
  <2>2. raw # <<>> => {"raw", "lent"} \cap heap # {}
    BY DEF CharacterInv, HandlesMeanWhatTheyAre, OwnersKnown, Owned
  <2>3. "skeleton" \in heap <=> skeleton # NoSkeleton
    BY DEF CharacterInv, HandlesMeanWhatTheyAre
  <2>4. Posed => IsDepthFirst(hierarchy.parents) /\ hierarchy.parents = skeleton.parents
    BY DEF CharacterInv, PoseInv, Good
  <2>5. kept \subseteq DOMAIN keys /\ included \subseteq DOMAIN keys
    <3>1. DOMAIN keys = 1 .. Len(keys) /\ OptimizerInv
      BY DEF CharacterInv, OptimizerInv
    <3> QED BY <3>1 DEF OptimizerInv, Splitting, Trimming
  <2>6. num_partial_passes <= num_passes /\ num_passes <= Len(layers)
    BY DEF CharacterInv, PassesAreCounted
  <2> QED BY <2>1, <2>2, <2>3, <2>4, <2>5, <2>6 DEF TypeOK
<1> QED BY <1>1, CharacterInvariant, PTL

\* Between two calls all that is allocated is what the host has handles of and what
\* those own, whichever allocations and callbacks failed (zozz_gltf.cpp:49-97, 274-315).
THEOREM ImportsLeakNothing == Spec => []NothingLeaks
<1>1. CharacterInv => NothingLeaks
  BY DEF CharacterInv, OwnersKnown, Owned, NothingLeaks, Idle
<1> QED BY <1>1, CharacterInvariant, PTL

\* However skeletons and poses come and go, after any sequence of partial updates of
\* one the matrix of a joint is its parent's times its local transform, unless it was
\* changed since (local_to_model_job.cc:73-97).
THEOREM PosesFollow == Spec => []ModelsFollow
<1>1. CharacterInv => ModelsFollow
  BY DEF CharacterInv, PoseInv, PartlyFollow, Written, ModelsFollow, Follows
<1> QED BY <1>1, CharacterInvariant, PTL

\* No partial update writes a matrix outside its range (local_to_model_job.cc:73-97).
THEOREM PosesWriteInside == Spec => WritesInside
<1>1. CharacterInv /\ [Next]_vars
      => [job # NoJob => \A j \in Joints : models'[j] # models[j] => j \in Covered]_poseVars
  <2> SUFFICES ASSUME CharacterInv, [Next]_vars, job # NoJob
               PROVE  \/ \A j \in Joints : models'[j] # models[j] => j \in Covered
                      \/ UNCHANGED poseVars
    OBVIOUS
  <2>1. PoseNext \/ UNCHANGED poseVars
    BY DEF Next, vars, Play, Stop, CharacterInv
  <2> QED BY <2>1, StepWritesInside DEF CharacterInv
<1> QED BY <1>1, CharacterInvariant, PTL DEF Spec, WritesInside

\* A blended joint is the average of the layers by their weights at that joint, and of
\* the rest pose by what they lack of the threshold, for any layers, full, partial or
\* skipped, in any order; and its rotation can be normalized, however they are opposed
\* (blending_job.cc:206-359).
THEOREM BlendsAreAverages == Spec => []BlendIsAverage
<1>1. CharacterInv => BlendIsAverage
  BY BlendsAverage DEF CharacterInv
<1> QED BY <1>1, CharacterInvariant, PTL

\* What is left of any track is near every key that was dropped: within the tolerance
\* once segments have been split, and within as many more as last keys were trimmed; no
\* key is looked at twice, and steps stay (decimate.h:84-137).
THEOREM DecimationStaysNear == Spec => []DecimatedNear
<1>1. CharacterInv => DecimatedNear
  BY OptimizerIsNear DEF CharacterInv
<1> QED BY <1>1, CharacterInvariant, PTL

\* Whatever order joints are added in, and by whom, a built skeleton has them below the
\* same parents and beside the same siblings, depth first; every walk over it is of the
\* joints it is to be of; and the optimizer holds a joint to the bounds of all that is below
\* it (zozz_offline.cpp, skeleton_builder.cc, animation_optimizer.cc:57-139).
THEOREM SkeletonsServeTheJobs == Spec => []SkeletonsServe
<1>1. CharacterInv => SkeletonsServe
  BY JointsAreWhole DEF CharacterInv
<1> QED BY <1>1, CharacterInvariant, PTL
=============================================================================
