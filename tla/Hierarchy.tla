----------------------------- MODULE Hierarchy -----------------------------
(***************************************************************************)
(* What a runtime skeleton's array of parents has to be for the loops over *)
(* it, said without reference to any loop.  Joints are 0 .. n-1.           *)
(***************************************************************************)
EXTENDS Integers

NoParent == -1

\* The joints at or below j: what is in every set that has j and, with a joint, its
\* children.
SubtreeOf(parents, j) ==
    {k \in DOMAIN parents :
        \A S \in SUBSET DOMAIN parents :
            /\ j \in S
            /\ \A c \in DOMAIN parents : parents[c] \in S => c \in S
            => k \in S}

\* Parents come first, and between a joint and one of its children there are only
\* joints below it.
IsDepthFirst(parents) ==
    \A c \in DOMAIN parents :
        /\ NoParent <= parents[c] /\ parents[c] < c
        /\ \A k \in DOMAIN parents : parents[c] < k /\ k < c => parents[k] >= parents[c]
=============================================================================
