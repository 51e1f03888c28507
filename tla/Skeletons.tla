----------------------------- MODULE Skeletons -----------------------------
(***************************************************************************)
(* Joint hierarchies and the two orders they are kept in: the flat list a  *)
(* host authors (zozz_offline.cpp), where a joint names a parent that was  *)
(* added before it, and the depth-first arrays of a runtime skeleton.      *)
(*                                                                         *)
(* A flat list is a sequence of joints; a joint's insertion index is its   *)
(* place counted from 0.  A `name` stands for all that travels with a      *)
(* joint: its name and its rest pose.                                      *)
(***************************************************************************)
EXTENDS Hierarchy, SequencesExt

Indices(flat) == 0 .. Len(flat) - 1
ParentOf(flat, i) == flat[i + 1].parent

\* ComputeChildren: the children of p, the roots for NoParent, in insertion order.
Children(flat, p) ==
    LET Kids[n \in 0 .. Len(flat)] ==
            IF n = 0 THEN <<>>
            ELSE IF ParentOf(flat, n - 1) = p THEN Append(Kids[n - 1], n - 1) ELSE Kids[n - 1]
    IN  Kids[Len(flat)]

\* The joints of a list of siblings, each followed by what is below it
\* (FillChildren and _IterHierarchyRecurseDF).
DepthFirstOrder(flat) ==
    LET Below[i \in Indices(flat)] ==
            LET kids == Children(flat, i)
            IN  <<i>> \o FlattenSeq([k \in DOMAIN kids |-> Below[kids[k]]])
        roots == Children(flat, NoParent)
    IN  FlattenSeq([k \in DOMAIN roots |-> Below[roots[k]]])

\* IterateBreadthFirst: all siblings of a level, then what is below each.
BreadthFirstOrder(flat) ==
    LET Below[i \in Indices(flat)] ==
            LET kids == Children(flat, i)
            IN  kids \o FlattenSeq([k \in DOMAIN kids |-> Below[kids[k]]])
        roots == Children(flat, NoParent)
    IN  roots \o FlattenSeq([k \in DOMAIN roots |-> Below[roots[k]]])

\* Where a joint is in the order, counted from 0, looked for from the end.
PlaceIn(order, i) == Max({k - 1 : k \in {n \in DOMAIN order : order[n] = i}})

\* Mutant: parents keep their insertion indices.
FlattenUnmapped(flat) ==
    LET order == DepthFirstOrder(flat)
    IN  [k \in DOMAIN order |-> flat[order[k] + 1]]

\* FlattenJoint and JointLister: the joints renumbered in depth-first order.
Flatten(flat) ==
    LET order == DepthFirstOrder(flat)
    IN  [k \in DOMAIN order |->
            [name |-> flat[order[k] + 1].name,
             parent |-> LET p == ParentOf(flat, order[k])
                        IN  IF p = NoParent THEN NoParent ELSE PlaceIn(order, p)]]

\* SkeletonBuilder: the arrays of a runtime skeleton.
Built(flat) ==
    LET listed == Flatten(flat)
    IN  [num_joints |-> Len(listed),
         parents |-> [i \in Indices(listed) |-> listed[i + 1].parent],
         names   |-> [i \in Indices(listed) |-> listed[i + 1].name]]

-----------------------------------------------------------------------------
(* Traversals of a runtime skeleton; parents is an array 0 .. n-1.         *)

\* The first joint after `from` that the loops take not to be below it.
EndOfWalk(parents, from) ==
    Min({i \in DOMAIN parents : i > from /\ parents[i] < from} \cup {Cardinality(DOMAIN parents)})

\* IterateJointsDF: the joints it visits, in this order, as an interval.
Walk(parents, from) ==
    (IF from < 0 THEN 0 ELSE from) .. EndOfWalk(parents, from) - 1

\* IsLeaf: only the next joint is looked at.
IsLeaf(parents, j) == j + 1 = Cardinality(DOMAIN parents) \/ parents[j + 1] # j

-----------------------------------------------------------------------------
(* What becomes of a hierarchy when its joints are rearranged.             *)

\* What a host knows of a hierarchy: who is whose parent, by name, and the order
\* of siblings.
SameHierarchy(listed, flat) ==
    LET Name(s, i) == IF i = NoParent THEN NoParent ELSE s[i + 1].name
        Joints(s) == {<<Name(s, i), Name(s, ParentOf(s, i))>> : i \in Indices(s)}
        Elder(s)  == {<<Name(s, e[1]), Name(s, e[2])>> : e \in
                        {p \in Indices(s) \X Indices(s) :
                            p[1] < p[2] /\ ParentOf(s, p[1]) = ParentOf(s, p[2])}}
    IN  Joints(listed) = Joints(flat) /\ Elder(listed) = Elder(flat)

Parents(flat) == [i \in Indices(flat) |-> ParentOf(flat, i)]

\* `listed` is `flat` in depth-first order, and is `flat` itself where that was in
\* depth-first order already.
InDepthFirst(listed, flat) ==
    /\ SameHierarchy(listed, flat)
    /\ IsDepthFirst(Parents(listed))
    /\ IsDepthFirst(Parents(flat)) => listed = flat
=============================================================================
