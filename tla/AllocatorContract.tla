------------------------- MODULE AllocatorContract -------------------------
(***************************************************************************)
(* What the allocator seam of zozz promises its hosts, without saying how: *)
(* a block lives in the heap of the allocator that produced it, it is      *)
(* released to that heap and no other, and the allocator new blocks come   *)
(* from changes only when no block is outstanding - except from one Zig    *)
(* allocator to another, because each Zig block remembers its own.         *)
(***************************************************************************)
CONSTANTS
    Blocks,      \* addresses an allocator can hand out
    Heaps,       \* every allocator that can produce a block
    Gpas,        \* the Zig allocators among them
    FirstHeap    \* the allocator in use when the process starts

VARIABLES
    heaps,       \* heaps[a]: the blocks allocator a has produced and not had back
    held,        \* the blocks a handle or a running call still owns
    target       \* the allocator the next block comes from

vars == <<heaps, held, target>>

Outstanding == UNION {heaps[a] : a \in Heaps}

Init ==
    /\ heaps = [a \in Heaps |-> {}]
    /\ held = {}
    /\ target = FirstHeap

Make(b) ==
    /\ b \notin Outstanding
    /\ heaps' = [heaps EXCEPT ![target] = @ \cup {b}]
    /\ held' = held \cup {b}
    /\ UNCHANGED target

Release(b) ==
    /\ b \in held
    /\ \E a \in Heaps :
          /\ b \in heaps[a]
          /\ heaps' = [heaps EXCEPT ![a] = @ \ {b}]
    /\ held' = held \ {b}
    /\ UNCHANGED target

Retarget(a) ==
    /\ held = {} \/ {a, target} \subseteq Gpas
    /\ target' = a
    /\ UNCHANGED <<heaps, held>>

Next ==
    \/ \E b \in Blocks : Make(b) \/ Release(b)
    \/ \E a \in Heaps : Retarget(a)

Spec == Init /\ [][Next]_vars
=============================================================================
