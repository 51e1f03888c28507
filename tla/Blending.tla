------------------------------ MODULE Blending -----------------------------
(***************************************************************************)
(* The blending job (blending_job.cc, zozz_blending.cpp): layers are added *)
(* up one after the other into the output, the rest pose makes up for what *)
(* their weights lack of a threshold, and the sum is normalized.  Additive *)
(* layers then go on top.                                                  *)
(*                                                                         *)
(* Joints are blended lane by lane.  A translation or a scale is told by   *)
(* the share each pose has in it; a rotation is an integer vector, so that *)
(* two of them can be opposed.  Weights are integers, in a unit in which   *)
(* One is 1.0; the product of two of them is in the square of that unit.   *)
(***************************************************************************)
EXTENDS Integers, Sequences, FiniteSetsExt

CONSTANTS
    SoaLanes,       \* the joints of the pose
    Weights,        \* of layers
    JointWeights,   \* what a layer may have per joint: functions of SoaLanes, or Full
    Full,           \* the layer has no weights of joints
    One,            \* a weight of 1.0
    Rotations,      \* rotations of layers: pairs of integers
    RestRotation,   \* that of the rest pose
    Thresholds,
    Garbage,        \* what is on the stack and in the output before the job
    MaxLayers, MaxAdditive   \* bounds

ASSUME BlendingAssumption ==
    /\ Weights \subseteq Int /\ Thresholds \subseteq Nat \ {0}
    /\ One \in Nat \ {0} /\ Garbage \in Int /\ MaxLayers \in Nat /\ MaxAdditive \in Nat
    /\ JointWeights \subseteq [SoaLanes -> Int] \cup {Full} /\ Full \notin [SoaLanes -> Int]
    /\ Rotations \cup {RestRotation} \subseteq (Int \X Int) \ {<<0, 0>>}

VARIABLES
    stage,                 \* what the job does next; "idle" when there is none
    threshold,
    layers,                \* the layers blended so far
    additive,              \* the additive layers added so far
    num_passes, num_partial_passes, accumulated_weight, accumulated_weights,
    output                 \* what each lane holds

blendVars == <<stage, threshold, layers, additive, num_passes, num_partial_passes,
               accumulated_weight, accumulated_weights, output>>

Layers == [weight : Weights, joint_weights : JointWeights, rotation : Rotations]

\* The rest pose is source 0, layer n is source n.
Poses == 0 .. MaxLayers

Untouched ==
    [j \in SoaLanes |->
        [shares |-> [s \in Poses |-> Garbage], rotation |-> <<Garbage, Garbage>>,
         divider |-> One * One, added |-> <<>>]]

BlendInit ==
    /\ stage = "idle"
    /\ threshold = 0 /\ layers = <<>> /\ additive = <<>>
    /\ num_passes = 0 /\ num_partial_passes = 0 /\ accumulated_weight = 0
    /\ accumulated_weights = [j \in SoaLanes |-> Garbage]
    /\ output = Untouched

BlendBegin(t) ==
    /\ stage = "idle"
    /\ stage' = "layers" /\ threshold' = t
    /\ UNCHANGED <<layers, additive, num_passes, num_partial_passes, accumulated_weight,
                   accumulated_weights, output>>

-----------------------------------------------------------------------------
(* Passes.                                                                 *)

Max0(w) == IF w > 0 THEN w ELSE 0

Scaled(q, w) == <<q[1] * w, q[2] * w>>

\* What a layer weighs at a joint.
WeightAt(layer, j) ==
    layer.weight * (IF layer.joint_weights = Full THEN One ELSE Max0(layer.joint_weights[j]))

\* OZZ_BLEND_1ST_PASS
FirstPass(dest, source, q, w) ==
    [dest EXCEPT !.shares = [s \in Poses |-> IF s = source THEN w ELSE 0],
                 !.rotation = Scaled(q, w)]

\* OZZ_BLEND_N_PASS: a rotation is negated if that brings it nearer.
NextPass(dest, source, q, w) ==
    LET dot  == dest.rotation[1] * q[1] + dest.rotation[2] * q[2]
        near == Scaled(q, IF dot < 0 THEN -w ELSE w)
    IN  [dest EXCEPT !.shares[source] = @ + w,
                     !.rotation = <<@[1] + near[1], @[2] + near[2]>>]

\* One turn of BlendLayers.
BlendLayer(layer) ==
    /\ stage = "layers" /\ Len(layers) < MaxLayers
    /\ layers' = Append(layers, layer)
    /\ IF layer.weight <= 0
       THEN UNCHANGED <<num_passes, num_partial_passes, accumulated_weight,
                        accumulated_weights, output>>
       ELSE /\ accumulated_weight' = accumulated_weight + layer.weight * One
            /\ num_partial_passes' =
                  num_partial_passes + (IF layer.joint_weights = Full THEN 0 ELSE 1)
            /\ accumulated_weights' =
                  [j \in SoaLanes |-> WeightAt(layer, j)
                                   + (IF num_passes = 0 THEN 0 ELSE accumulated_weights[j])]
            /\ output' =
                  [j \in SoaLanes |->
                      IF num_passes = 0
                      THEN FirstPass(output[j], Len(layers) + 1, layer.rotation, WeightAt(layer, j))
                      ELSE NextPass(output[j], Len(layers) + 1, layer.rotation, WeightAt(layer, j))]
            /\ num_passes' = num_passes + 1
    /\ UNCHANGED <<stage, threshold, additive>>

-----------------------------------------------------------------------------
(* The rest pose.                                                          *)

RestPass(dest, w) == NextPass(dest, 0, RestRotation, w)

\* Mutant: the threshold is tested globally, whatever the layers.
BlendRestPoseGlobal ==
    /\ stage = "layers"
    /\ LET lacking == threshold * One - accumulated_weight
       IN  IF lacking > 0
           THEN /\ accumulated_weight' = IF num_passes = 0 THEN One * One ELSE threshold * One
                /\ output' = [j \in SoaLanes |->
                                IF num_passes = 0
                                THEN FirstPass(output[j], 0, RestRotation, One * One)
                                ELSE RestPass(output[j], lacking)]
           ELSE UNCHANGED <<accumulated_weight, output>>
    /\ stage' = "rest"
    /\ UNCHANGED <<threshold, layers, additive, num_passes, num_partial_passes,
                   accumulated_weights>>

\* With only full layers the threshold is tested once, and with none the rest pose
\* is copied; with a partial one it is tested for each joint.
BlendRestPose ==
    /\ stage = "layers"
    /\ IF num_partial_passes = 0
       THEN LET lacking == threshold * One - accumulated_weight
            IN  IF lacking > 0
                THEN /\ accumulated_weight' = IF num_passes = 0 THEN One * One ELSE threshold * One
                     /\ output' = [j \in SoaLanes |->
                                     IF num_passes = 0
                                     THEN FirstPass(output[j], 0, RestRotation, One * One)
                                     ELSE RestPass(output[j], lacking)]
                     /\ UNCHANGED accumulated_weights
                ELSE UNCHANGED <<accumulated_weight, accumulated_weights, output>>
       ELSE /\ output' = [j \in SoaLanes |->
                            RestPass(output[j], Max0(threshold * One - accumulated_weights[j]))]
            /\ accumulated_weights' = [j \in SoaLanes |-> Max({threshold * One, accumulated_weights[j]})]
            /\ UNCHANGED accumulated_weight
    /\ stage' = "rest"
    /\ UNCHANGED <<threshold, layers, additive, num_passes, num_partial_passes>>

-----------------------------------------------------------------------------
(* Normalization and additive layers.                                      *)

\* Normalize: the shares of a lane are divided by its accumulated weight.
Normalize ==
    /\ stage = "rest"
    /\ output' = [j \in SoaLanes |->
                    [output[j] EXCEPT !.divider =
                        IF num_partial_passes = 0 THEN accumulated_weight
                        ELSE accumulated_weights[j]]]
    /\ stage' = "additive"
    /\ UNCHANGED <<threshold, layers, additive, num_passes, num_partial_passes,
                   accumulated_weight, accumulated_weights>>

\* One turn of AddLayers: the layer is added, subtracted or skipped by the sign of
\* its weight; what it weighs at a joint keeps that sign.
AddLayer(layer) ==
    /\ stage = "additive" /\ Len(additive) < MaxAdditive
    /\ additive' = Append(additive, layer)
    /\ output' = IF layer.weight = 0 THEN output
                 ELSE [j \in SoaLanes |-> [output[j] EXCEPT !.added = Append(@, WeightAt(layer, j))]]
    /\ UNCHANGED <<stage, threshold, layers, num_passes, num_partial_passes,
                   accumulated_weight, accumulated_weights>>

\* The job returns, and the host has done with its output.
BlendReturn ==
    /\ stage = "additive"
    /\ stage' = "idle"
    /\ threshold' = 0 /\ layers' = <<>> /\ additive' = <<>>
    /\ num_passes' = 0 /\ num_partial_passes' = 0 /\ accumulated_weight' = 0
    /\ accumulated_weights' = [j \in SoaLanes |-> Garbage]
    /\ output' = Untouched

BlendNext ==
    \/ \E t \in Thresholds : BlendBegin(t)
    \/ \E layer \in Layers : BlendLayer(layer) \/ AddLayer(layer)
    \/ BlendRestPose \/ Normalize \/ BlendReturn

-----------------------------------------------------------------------------
(* Properties.                                                             *)

\* w[1] + ... + w[n]
SumTo(w, n) ==
    LET sum[k \in 0 .. n] == IF k = 0 THEN 0 ELSE sum[k - 1] + w[k]
    IN  sum[n]

\* A blended joint is the average of the layers by their weights at that joint, to
\* which the rest pose adds what they lack of the threshold, whatever the mix of
\* full, partial and skipped layers: no weight is counted twice, or lost between
\* the global and the per-joint accumulation (blending_job.h:69-105).  And the sum
\* of the rotations can be normalized, however they are opposed, as the comment at
\* blending_job.cc:330-331 claims.
BlendIsAverage ==
    stage = "additive" =>
        \A j \in SoaLanes :
            LET Weight(n) == Max0(WeightAt(layers[n], j))
                total     == SumTo([n \in DOMAIN layers |-> Weight(n)], Len(layers))
                lacking   == Max0(threshold * One - total)
                Share(s)  == IF s = 0 THEN lacking
                             ELSE IF s \in DOMAIN layers THEN Weight(s) ELSE 0
            IN  /\ output[j].divider > 0
                /\ \A s \in Poses : output[j].shares[s] * (total + lacking) = Share(s) * output[j].divider
                /\ output[j].rotation # <<0, 0>>
=============================================================================
