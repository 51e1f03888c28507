------------------------------ MODULE Character ----------------------------
(***************************************************************************)
(* A host that brings a character to life: it authors or imports a         *)
(* skeleton and builds it (Importer), poses it and computes the matrices   *)
(* of its joints (LocalToModel); it optimizes tracks (Optimizer) and       *)
(* blends poses (Blending).                                                *)
(*                                                                         *)
(* The skeleton is what these share: the arrays SkeletonBuilder makes are  *)
(* the ones the jobs loop over, and must outlive a pose.                   *)
(*                                                                         *)
(* Bounds: what shares no state is not interleaved.  A pose is played when *)
(* nothing but the skeleton is left of the import, and tracks are          *)
(* optimized and poses blended before there is anything else.              *)
(***************************************************************************)
EXTENDS Importer, LocalToModel, Optimizer, Blending

vars == <<importerVars, poseVars, optimizerVars, blendVars>>

NoHierarchy == [num_joints |-> 0, parents |-> [j \in {} |-> NoParent]]

Posed == hierarchy # NoHierarchy

Init ==
    /\ ImporterInit /\ OptimizerInit /\ BlendInit
    /\ hierarchy = NoHierarchy /\ PoseOf(hierarchy, locals, models, stale) /\ Quiet

Fresh == heap = {} /\ phase = "none" /\ stage = "idle"

\* The host takes the skeleton and allocates the buffers of a pose, for those
\* skeletons that are posed at all.
Play ==
    /\ heap = {"skeleton"} /\ ~Posed
    /\ hierarchy' = [num_joints |-> skeleton.num_joints, parents |-> skeleton.parents]
    /\ hierarchy' \in Hierarchies
    /\ PoseOf(hierarchy', locals', models', stale')
    /\ UNCHANGED <<job, i, process, lanes>>
    /\ UNCHANGED <<importerVars, optimizerVars, blendVars>>

\* The buffers are given up between two jobs.
Stop ==
    /\ Posed /\ job = NoJob
    /\ hierarchy' = NoHierarchy
    /\ PoseOf(hierarchy', locals', models', stale')
    /\ UNCHANGED <<job, i, process, lanes>>
    /\ UNCHANGED <<importerVars, optimizerVars, blendVars>>

Next ==
    \/ /\ ~Posed /\ phase = "none" /\ stage = "idle"
       /\ ImporterNext /\ UNCHANGED <<poseVars, optimizerVars, blendVars>>
    \/ Play \/ Stop
    \/ /\ Posed
       /\ PoseNext /\ UNCHANGED <<importerVars, optimizerVars, blendVars>>
    \/ /\ Fresh \/ phase # "none"
       /\ OptimizerNext /\ UNCHANGED <<importerVars, poseVars, blendVars>>
    \/ /\ Fresh \/ stage # "idle"
       /\ BlendNext /\ UNCHANGED <<importerVars, poseVars, optimizerVars>>

Spec == Init /\ [][Next]_vars

-----------------------------------------------------------------------------
(* Properties.                                                             *)

\* The arrays a built skeleton hands to the jobs are ones their loops can follow, a
\* pose is of the skeleton that is alive, and what is held in handles is allocated.
TypeOK ==
    /\ heap \subseteq Blocks /\ held \subseteq heap
    /\ raw # <<>> => {"raw", "lent"} \cap heap # {}
    /\ "skeleton" \in heap <=> skeleton # NoSkeleton
    /\ Posed => /\ IsDepthFirst(hierarchy.parents)
                /\ hierarchy.parents = skeleton.parents
    /\ kept \subseteq DOMAIN keys /\ included \subseteq DOMAIN keys
    /\ num_partial_passes <= num_passes /\ num_passes <= Len(layers)

\* What a skeleton just built is to the jobs that follow: whole, whatever the order of
\* its joints (Importer), and such that the optimizer holds a joint to the bounds of all
\* that is below it (animation_optimizer.cc:57-139).
SkeletonsServe ==
    /\ SkeletonsWhole
    /\ JustBuilt =>
          \A animation \in [DOMAIN skeleton.parents -> JointSettings] :
              BoundsOfSubtrees(skeleton.parents, animation)
=============================================================================
