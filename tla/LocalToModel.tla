---------------------------- MODULE LocalToModel ---------------------------
(***************************************************************************)
(* A pose: local transforms in SoA blocks, the model matrices computed     *)
(* from them, and the job that does so for a part of the hierarchy         *)
(* (local_to_model_job.cc, zozzLocalToModel in zozz_sampling.cpp).         *)
(*                                                                         *)
(* The host owns both buffers.  It changes the local transform of a joint, *)
(* or places a joint by its matrix, and brings the rest up to date with as *)
(* small a job as will do.                                                 *)
(*                                                                         *)
(* A matrix is the sequence of the factors it is a product of.             *)
(***************************************************************************)
EXTENDS Hierarchy, Sequences

CONSTANTS
    Hierarchies,   \* the skeletons: num_joints and parents
    SoaWidth,      \* joints per SoA block, 4 in the code
    Transforms,    \* the local transforms a joint may have
    Identity,      \* the one of them that is the identity
    Root,          \* the root matrix the host passes, the identity if none
    Placed,        \* a matrix the host places a joint by
    MaxTo          \* ZOZZ_MAX_JOINTS

ASSUME PoseAssumption ==
    /\ \A h \in Hierarchies :
          /\ h.num_joints \in Nat
          /\ h.parents \in [0 .. h.num_joints - 1 -> Int]
          /\ IsDepthFirst(h.parents)
    /\ SoaWidth \in Nat \ {0}
    /\ Identity \in Transforms
    /\ MaxTo \in Nat

NoJob == [from |-> NoParent, to |-> NoParent, excluded |-> FALSE]

VARIABLES
    hierarchy,   \* the skeleton of the pose
    locals,      \* the SoA buffer: blocks of lanes
    models,      \* the matrices of the joints
    job,         \* the job that runs, or NoJob
    i,           \* Run: the joint the loop is at
    process,     \* Run: whether that one is to be processed
    lanes,       \* Run: the transforms of the block at hand; <<>> between blocks
    stale        \* history: the joints whose matrix need not follow from their parent's

poseVars == <<hierarchy, locals, models, job, i, process, lanes, stale>>

Joints == 0 .. hierarchy.num_joints - 1
parents == hierarchy.parents

SoaBlocks(num_joints) == (num_joints + SoaWidth - 1) \div SoaWidth

\* The transforms of the joints, and the blocks made of such transforms; the lanes
\* of a last, partial block are padded.
SoaToAos(soa) == [j \in Joints |-> soa[j \div SoaWidth][j % SoaWidth]]

AosToSoa(aos) ==
    [b \in 0 .. SoaBlocks(hierarchy.num_joints) - 1 |->
        [l \in 0 .. SoaWidth - 1 |->
            IF b * SoaWidth + l < hierarchy.num_joints THEN aos[b * SoaWidth + l] ELSE Identity]]

\* zozzSoaPoseSetIdentity
IdentityPose(blocks) == [b \in 0 .. blocks - 1 |-> [l \in 0 .. SoaWidth - 1 |-> Identity]]

\* What is in memory before anything was written.
Unset == <<"unset">>

\* The buffers l and m of a pose for a skeleton h, and s, the joints whose matrices
\* nobody has computed.
PoseOf(h, l, m, s) ==
    /\ l = IdentityPose(SoaBlocks(h.num_joints))
    /\ m = [j \in 0 .. h.num_joints - 1 |-> Unset]
    /\ s = 0 .. h.num_joints - 1

Quiet ==
    /\ job = NoJob
    /\ i = 0 /\ process = FALSE /\ lanes = <<>>

PoseInit ==
    /\ hierarchy \in Hierarchies
    /\ PoseOf(hierarchy, locals, models, stale)
    /\ Quiet

-----------------------------------------------------------------------------
(* The host.                                                               *)

ChildrenOf(j) == {c \in Joints : parents[c] = j}

\* Through zozzSoaPoseToLocalTransforms and zozzSoaPoseFromLocalTransforms.
SetLocal(j, t) ==
    /\ job = NoJob
    /\ locals' = AosToSoa([SoaToAos(locals) EXCEPT ![j] = t])
    /\ stale' = stale \cup {j}
    /\ UNCHANGED <<hierarchy, models, job, i, process, lanes>>

SetModel(j) ==
    /\ job = NoJob
    /\ models' = [models EXCEPT ![j] = <<Placed>>]
    /\ stale' = stale \cup {j} \cup ChildrenOf(j)
    /\ UNCHANGED <<hierarchy, locals, job, i, process, lanes>>

-----------------------------------------------------------------------------
(* The job.                                                                *)

\* The loop ends after `to`.
EndOf(to) == IF to + 1 < hierarchy.num_joints THEN to + 1 ELSE hierarchy.num_joints

\* The loop begins from `from`, or the next joint if `from` is excluded.
FirstJoint(from, excluded) == IF excluded THEN from + 1 ELSE IF from < 0 THEN 0 ELSE from

\* zozzLocalToModel's checks of the range, and the loop's initialisation.
StartJob(from, to, excluded) ==
    /\ job = NoJob
    /\ from \in {NoParent} \cup Joints
    /\ to \in 0 .. MaxTo
    /\ from >= 0 => to >= from
    /\ job' = [from |-> from, to |-> to, excluded |-> excluded]
    /\ i' = FirstJoint(from, excluded)
    /\ process' = /\ FirstJoint(from, excluded) < EndOf(to)
                  /\ excluded => parents[FirstJoint(from, excluded)] >= from
    /\ UNCHANGED <<hierarchy, locals, models, lanes, stale>>

\* Makes the local matrices of a block.
Transpose ==
    /\ process /\ lanes = <<>>
    /\ lanes' = locals[i \div SoaWidth]
    /\ UNCHANGED <<hierarchy, locals, models, job, i, process, stale>>

\* The product of the parent's matrix and the local one.
ModelOf(j, local) ==
    Append(IF parents[j] = NoParent THEN Root ELSE models[parents[j]], local)

\* Mutant: the walk goes on below the siblings of `from`.
StillBelowLate(n) == n < EndOf(job.to) /\ parents[n] >= job.from - 1

\* As long as it is a child, or a child's child, of `from`.
StillBelow(n) == n < EndOf(job.to) /\ parents[n] >= job.from

\* Mutant: the lanes are kept for the next block.
LanesKept == lanes

\* The inner loop leaves at soa_end, the beginning of the next block.
LanesAfter == IF (i + 1) % SoaWidth = 0 THEN <<>> ELSE lanes

Write ==
    /\ process /\ lanes # <<>>
    /\ models' = [models EXCEPT ![i] = ModelOf(i, lanes[i % SoaWidth])]
    /\ i' = i + 1
    /\ process' = StillBelow(i + 1)
    /\ lanes' = LanesAfter
    /\ UNCHANGED <<hierarchy, locals, job, stale>>

\* What a job is to bring up to date (zozz_sampling.h:74-79): the joints at or below
\* `from`, `from` itself if it is not excluded, up to `to`.
Covered ==
    LET below == IF job.from = NoParent THEN Joints
                 ELSE SubtreeOf(parents, job.from) \ (IF job.excluded THEN {job.from} ELSE {})
    IN  {j \in below : j <= job.to}

\* The job returns.
Return ==
    /\ job # NoJob /\ ~process
    /\ stale' = (stale \ Covered) \cup {c \in Joints \ Covered : parents[c] \in Covered}
    /\ job' = NoJob
    /\ i' = 0 /\ lanes' = <<>>
    /\ UNCHANGED <<hierarchy, locals, models, process>>

PoseNext ==
    \/ \E j \in Joints, t \in Transforms : SetLocal(j, t)
    \/ \E j \in Joints : SetModel(j)
    \/ \E from \in {NoParent} \cup Joints, to \in 0 .. MaxTo, excluded \in BOOLEAN :
          StartJob(from, to, excluded)
    \/ Transpose \/ Write \/ Return

PoseSpec == PoseInit /\ [][PoseNext]_poseVars

-----------------------------------------------------------------------------
(* Properties.                                                             *)

\* After any sequence of partial updates, the matrix of a joint is its parent's
\* times its local transform, unless the joint has been changed since the last
\* update that was to cover it (local_to_model_job.cc:73-97, zozz_sampling.h:74-79).
ModelsFollow ==
    job = NoJob =>
        \A j \in Joints \ stale : models[j] = ModelOf(j, SoaToAos(locals)[j])

\* A job leaves the matrices outside its range alone, so that a host may keep there
\* what it placed itself.
WritesInside ==
    [][job # NoJob => \A j \in Joints : models'[j] # models[j] => j \in Covered]_poseVars
=============================================================================
