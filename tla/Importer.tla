------------------------------ MODULE Importer -----------------------------
(***************************************************************************)
(* Authoring skeletons by hand or through an importer (zozz_offline.cpp,   *)
(* zozz_gltf.cpp), up to the runtime skeleton.                             *)
(*                                                                         *)
(* An importer calls back into the host.  import_skeleton lends the host a *)
(* raw skeleton to fill; import_animation (and each import_*_track, which  *)
(* is written in the same way) lets the host create the object and hand it *)
(* over.  Every allocation may fail, and so may every callback.            *)
(*                                                                         *)
(* Bounds: one importer, one raw skeleton and one imported animation at a  *)
(* time, kMaxJoints joints.                                                *)
(***************************************************************************)
EXTENDS Skeletons

CONSTANT KMaxJoints   \* kMaxJoints, 1024 in the code

ASSUME ImporterAssumption == KMaxJoints \in Nat \ {0}

VARIABLES
    heap,       \* the blocks that are allocated, a set of Blocks
    call,       \* the import that has called the host back; "none" outside
    raw,        \* the joints of the raw skeleton, own or lent
    skeleton,   \* the runtime skeleton, or NoSkeleton
    held,       \* history: the blocks the host is answerable for
    authored,   \* history: what the callback authored, if `raw` was imported unchanged
    source,     \* history: the flat list the runtime skeleton was built from
    lost        \* history: a callback failed after it had created its output

\* No runtime skeleton has been built: it has no arrays.
NoSkeleton == [num_joints |-> 0]

importerVars == <<heap, call, raw, skeleton, held, authored, source, lost>>

\* The importer handle and the OzzImporter behind it; the host's raw skeleton and
\* the one lent to it; the animation to be returned and the one the host creates;
\* the runtime skeleton.
Blocks == {"importer", "backend", "raw", "lent", "animation", "output", "skeleton"}

ImporterInit ==
    /\ heap = {} /\ held = {}
    /\ call = "none"
    /\ raw = <<>> /\ authored = <<>> /\ source = <<>>
    /\ skeleton = NoSkeleton
    /\ lost = FALSE

Idle == call = "none"

-----------------------------------------------------------------------------
(* Importers.                                                              *)

\* zozzImporterCreate and zozzGltfImporterCreate: the backend, which the glTF one
\* also loads, then the handle; either both stay or none.
ImporterCreate ==
    /\ Idle /\ "importer" \notin heap /\ "backend" \notin heap
    /\ \/ heap' = heap \cup {"backend", "importer"} /\ held' = held \cup {"importer"}
       \/ UNCHANGED <<heap, held>>
    /\ UNCHANGED <<call, raw, skeleton, authored, source, lost>>

ImporterDestroy ==
    /\ Idle /\ "importer" \in heap
    /\ heap' = heap \ {"importer", "backend"} /\ held' = held \ {"importer"}
    /\ UNCHANGED <<call, raw, skeleton, authored, source, lost>>

-----------------------------------------------------------------------------
(* Raw skeletons.                                                          *)

RawSkeletonCreate ==
    /\ Idle /\ "raw" \notin heap
    /\ heap' = heap \cup {"raw"} /\ held' = held \cup {"raw"}
    /\ raw' = <<>> /\ authored' = <<>>
    /\ UNCHANGED <<call, skeleton, source, lost>>

RawSkeletonDestroy ==
    /\ Idle /\ "raw" \in heap
    /\ heap' = heap \ {"raw"} /\ held' = held \ {"raw"}
    /\ raw' = <<>> /\ authored' = <<>>
    /\ UNCHANGED <<call, skeleton, source, lost>>

\* zozzRawSkeletonAddJoint, by the host or by its import_skeleton callback.
AddJoint(parent) ==
    /\ (Idle /\ "raw" \in heap) \/ call = "skeleton"
    /\ parent \in {NoParent} \cup Indices(raw)
    /\ Len(raw) < KMaxJoints
    /\ raw' = Append(raw, [parent |-> parent, name |-> Len(raw)])
    /\ authored' = <<>>
    /\ UNCHANGED <<heap, call, skeleton, held, source, lost>>

\* zozzImporterImportSkeleton: the host is called back with a skeleton to fill; if
\* that cannot be allocated the import just fails.
BeginImportSkeleton ==
    /\ Idle /\ "importer" \in heap /\ "raw" \notin heap
    /\ heap' = heap \cup {"lent"}
    /\ call' = "skeleton"
    /\ raw' = <<>> /\ authored' = <<>>
    /\ UNCHANGED <<skeleton, held, source, lost>>

\* Mutant: the lent skeleton is only destroyed when it was of use.
EndImportSkeletonKept(ok, fits) ==
    /\ call = "skeleton"
    /\ IF ok /\ raw # <<>> /\ fits
       THEN /\ heap' = (heap \ {"lent"}) \cup {"raw"} /\ held' = held \cup {"raw"}
            /\ raw' = Flatten(raw) /\ authored' = raw
       ELSE /\ heap' = heap
            /\ raw' = <<>> /\ authored' = <<>>
            /\ UNCHANGED held
    /\ call' = "none"
    /\ UNCHANGED <<skeleton, source, lost>>

\* The callback returns.  An empty skeleton is refused like a failed callback; the
\* nested one is flattened into a new handle, if that can be allocated.
EndImportSkeleton(ok, fits) ==
    /\ call = "skeleton"
    /\ IF ok /\ raw # <<>> /\ fits
       THEN /\ heap' = (heap \ {"lent"}) \cup {"raw"} /\ held' = held \cup {"raw"}
            /\ raw' = Flatten(raw) /\ authored' = raw
       ELSE /\ heap' = heap \ {"lent"}
            /\ raw' = <<>> /\ authored' = <<>>
            /\ UNCHANGED held
    /\ call' = "none"
    /\ UNCHANGED <<skeleton, source, lost>>

\* zozzSkeletonBuild; the raw skeleton stays as it is.
SkeletonBuild ==
    /\ Idle /\ "raw" \in heap /\ raw # <<>> /\ "skeleton" \notin heap
    /\ heap' = heap \cup {"skeleton"} /\ held' = held \cup {"skeleton"}
    /\ skeleton' = Built(raw) /\ source' = raw
    /\ UNCHANGED <<call, raw, authored, lost>>

\* Mutant: the handle goes, what it held is still used.
SkeletonDestroyKept ==
    /\ Idle /\ "skeleton" \in heap
    /\ heap' = heap \ {"skeleton"} /\ held' = held \ {"skeleton"}
    /\ UNCHANGED <<call, raw, skeleton, authored, source, lost>>

SkeletonDestroy ==
    /\ Idle /\ "skeleton" \in heap
    /\ heap' = heap \ {"skeleton"} /\ held' = held \ {"skeleton"}
    /\ skeleton' = NoSkeleton
    /\ source' = <<>>
    /\ UNCHANGED <<call, raw, authored, lost>>

-----------------------------------------------------------------------------
(* Animations and tracks.                                                  *)

\* zozzImporterImportAnimation: the handle first, then the callback.
BeginImportAnimation ==
    /\ Idle /\ "importer" \in heap /\ "animation" \notin heap /\ "output" \notin heap
    /\ skeleton # NoSkeleton
    /\ heap' = heap \cup {"animation"}
    /\ call' = "animation"
    /\ UNCHANGED <<raw, skeleton, held, authored, source, lost>>

\* The callback creates its output, or has no room for it.
CreateOutput ==
    /\ call = "animation" /\ "output" \notin heap
    /\ heap' = heap \cup {"output"}
    /\ UNCHANGED <<call, raw, skeleton, held, authored, source, lost>>

\* The callback returns.  Its output is moved into the handle and destroyed, or
\* the handle is; nothing is done about an output beside a report of failure.
EndImportAnimation(ok) ==
    /\ call = "animation"
    /\ IF ok /\ "output" \in heap
       THEN /\ heap' = heap \ {"output"} /\ held' = held \cup {"animation"}
            /\ UNCHANGED lost
       ELSE /\ heap' = heap \ {"animation"}
            /\ lost' = ("output" \in heap)
            /\ UNCHANGED held
    /\ call' = "none"
    /\ UNCHANGED <<raw, skeleton, authored, source>>

\* A host that knows of it destroys what it had created.
OutputDestroy ==
    /\ Idle /\ lost
    /\ heap' = heap \ {"output"} /\ lost' = FALSE
    /\ UNCHANGED <<call, raw, skeleton, held, authored, source>>

RawAnimationDestroy ==
    /\ Idle /\ "animation" \in heap
    /\ heap' = heap \ {"animation"} /\ held' = held \ {"animation"}
    /\ UNCHANGED <<call, raw, skeleton, authored, source, lost>>

ImporterNext ==
    \/ ImporterCreate \/ ImporterDestroy
    \/ RawSkeletonCreate \/ RawSkeletonDestroy
    \/ \E parent \in {NoParent} \cup Indices(raw) : AddJoint(parent)
    \/ BeginImportSkeleton
    \/ \E ok, fits \in BOOLEAN : EndImportSkeleton(ok, fits)
    \/ SkeletonBuild \/ SkeletonDestroy
    \/ BeginImportAnimation \/ CreateOutput
    \/ \E ok \in BOOLEAN : EndImportAnimation(ok)
    \/ OutputDestroy \/ RawAnimationDestroy

-----------------------------------------------------------------------------
(* Properties.                                                             *)

\* A runtime skeleton never changes: it is looked at while the raw one beside it is
\* still what it was built from.
JustBuilt == skeleton # NoSkeleton /\ Idle /\ raw = source

RuntimeJoints ==
    [k \in 1 .. Len(source) |->
        [parent |-> skeleton.parents[k - 1], name |-> skeleton.names[k - 1]]]

\* Whatever order joints were added in, an imported and a built skeleton have
\* every joint below the same parent and beside the same siblings, in an order in
\* which a subtree is a range; joints added in that order keep their indices
\* (zozz_offline.cpp, zozzSkeletonBuild; zozz_offline.h:56-66).
HierarchyKept ==
    /\ authored # <<>> => InDepthFirst(raw, authored)
    /\ JustBuilt => InDepthFirst(RuntimeJoints, source)

\* The traversals a host is offered (skeleton_utils.h, zozz_offline.cpp): depth
\* first from any joint visits what is at or below it and nothing else; a leaf is
\* a joint no other has as its parent; breadth first visits every joint once, after
\* its parent.
TraversalsComplete ==
    /\ JustBuilt =>
          /\ Walk(skeleton.parents, NoParent) = DOMAIN skeleton.parents
          /\ \A j \in DOMAIN skeleton.parents :
                /\ Walk(skeleton.parents, j) = SubtreeOf(skeleton.parents, j)
                /\ IsLeaf(skeleton.parents, j) <=> SubtreeOf(skeleton.parents, j) = {j}
    /\ \A order \in {BreadthFirstOrder(raw)} :
          /\ Len(order) = Len(raw) /\ ToSet(order) = Indices(raw)
          /\ \A i \in Indices(raw) :
                ParentOf(raw, i) # NoParent => PlaceIn(order, ParentOf(raw, i)) < PlaceIn(order, i)

\* A skeleton keeps the hierarchy it was authored or imported with, and every walk over
\* it is of the joints it is to be of (HierarchyKept, TraversalsComplete).
SkeletonsWhole == HierarchyKept /\ TraversalsComplete

\* Between two calls, what is allocated is what the host has handles of and what
\* those own, whichever allocation or callback failed before.  One case is left to
\* the host: an output it created in a callback it then reported failed.
NothingLeaks ==
    Idle => heap = held \cup (IF "importer" \in held THEN {"backend"} ELSE {})
                        \cup (IF lost THEN {"output"} ELSE {})
=============================================================================
