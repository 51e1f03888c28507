--------------------------- MODULE AllocatorSeam ---------------------------
(***************************************************************************)
(* The process-wide allocator seam: the HostAllocator adapter and          *)
(* zozzSetAllocator (ffi/zozz_core.cpp), and the Zig bridge that is one of *)
(* the allocators a host can install (src/memory.zig).                     *)
(*                                                                         *)
(* Threads allocate and free concurrently: each call of the adapter is two *)
(* steps, the call into the allocator behind it and the update of live_.   *)
(* Installing is not synchronised; the ABI asks the host to do it while no *)
(* other thread is inside zozz (zozz_core.h, THREAD SAFETY), and that      *)
(* contract is the conjunct Quiescent of every installing action.          *)
(***************************************************************************)
EXTENDS Naturals, FiniteSets

CONSTANTS
    Threads,        \* the threads that create and destroy handles
    Blocks,         \* addresses an allocator can hand out
    WordMax,        \* the largest size_t
    Structs,        \* complete ZozzAllocator structs of C hosts, one heap each
    Malformed,      \* ZozzAllocator structs with a NULL function pointer
    Gpas,           \* Zig allocators, installed through memory.zig
    CppAllocators,  \* allocators a C++ host puts in ozz's slot itself
    CppHostCareful, \* whether that host has its blocks back when zozz retakes the slot
    Native,         \* the allocator ozz ships with: SavedDefault()
    Adapter,        \* the HostAllocator instance, as the occupant of ozz's slot
    Bridge,         \* the ZozzAllocator struct of memory.zig
    NoHost,         \* host_ = ZozzAllocator{}, and the argument NULL
    Null            \* no block, no Zig allocator, nothing saved

Heaps == {Native} \cup Structs \cup Gpas \cup CppAllocators

ASSUME SeamAssumption ==
    /\ CppHostCareful \in BOOLEAN
    /\ IsFiniteSet(Blocks)
    /\ WordMax \in Nat
    /\ Cardinality(Blocks) <= WordMax
    /\ Null \notin Blocks \cup Gpas
    /\ Native \notin Structs \cup Gpas \cup CppAllocators
    /\ Adapter \notin CppAllocators
    /\ NoHost \notin Structs \cup Malformed \cup {Bridge}
    /\ Bridge \notin Structs \cup Malformed
    /\ Structs \cap Malformed = {}
    /\ Structs \cap Gpas = {}
    /\ CppAllocators \cap (Structs \cup Gpas) = {}

VARIABLES
    slot,       \* ozz's default allocator: the adapter, or a C++ host's own
    host,       \* HostAllocator::host_
    live,       \* HostAllocator::live_
    installed,  \* memory.zig's variable: the Zig allocator the bridge calls
    saved,      \* what a host keeps from getAllocator, with the allocator it meant
    header,     \* header[b]: the gpa field memory.zig writes ahead of block b
    heaps,      \* heaps[a]: the blocks allocator a has made and not had back
    owned,      \* blocks owned by a handle: allocated, counted, not being freed
    pc,         \* where each thread is inside the adapter
    block       \* the block a thread inside the adapter works on

vars == <<slot, host, live, installed, saved, header, heaps, owned, pc, block>>

-----------------------------------------------------------------------------
Inc(n) == IF n = WordMax THEN 0 ELSE n + 1
Dec(n) == IF n = 0 THEN WordMax ELSE n - 1

Quiescent == \A t \in Threads : pc[t] = "idle"

Unused == Blocks \ UNION {heaps[a] : a \in Heaps}

\* Where the adapter sends an allocation: HostAllocator::Allocate, and behind
\* the bridge the allocator its `user` pointer leads to.
Behind ==
    IF host = NoHost THEN Native
    ELSE IF host = Bridge THEN installed
    ELSE host

\* Where an allocation made now lands.
Target == IF slot = Adapter THEN Behind ELSE slot

\* Mutant: memory.zig's deallocate using its `user` argument, not the header.
RouteByUser(b) == Target

\* Where a free of b lands now: HostAllocator::Deallocate, and behind the
\* bridge the allocator named in the block's own header.
Route(b) ==
    IF slot # Adapter THEN slot
    ELSE IF host = NoHost THEN Native
    ELSE IF host = Bridge THEN header[b]
    ELSE host

\* Mutant: the counter as it was before 0.5.0, blind to ozz's own blocks.
CountedHostOnly == slot = Adapter /\ host # NoHost

\* Whether an allocation or a free made now goes through the counting adapter.
Counted == slot = Adapter

Init ==
    /\ slot = Adapter
    /\ host = NoHost
    /\ live = 0
    /\ installed = Null
    /\ saved = Null
    /\ header = [b \in Blocks |-> Null]
    /\ heaps = [a \in Heaps |-> {}]
    /\ owned = {}
    /\ pc = [t \in Threads |-> "idle"]
    /\ block = [t \in Threads |-> Null]

-----------------------------------------------------------------------------
(* Allocating and freeing: any thread, any time.                           *)

\* The call into the allocator behind the slot. It may fail, and then the
\* entry point unwinds with nothing counted: a stuttering step.
Allocate(t) ==
    /\ pc[t] = "idle"
    /\ \E b \in Unused :
          /\ heaps' = [heaps EXCEPT ![Target] = @ \cup {b}]
          /\ header' = [header EXCEPT ![b] =
                           IF slot = Adapter /\ host = Bridge THEN installed ELSE Null]
          /\ block' = [block EXCEPT ![t] = b]
    /\ pc' = [pc EXCEPT ![t] = "count"]
    /\ UNCHANGED <<slot, host, live, installed, saved, owned>>

\* live_.fetch_add, which only the adapter does, and the block reaches its owner.
CountBlock(t) ==
    /\ pc[t] = "count"
    /\ live' = IF Counted THEN Inc(live) ELSE live
    /\ owned' = owned \cup {block[t]}
    /\ pc' = [pc EXCEPT ![t] = "idle"]
    /\ block' = [block EXCEPT ![t] = Null]
    /\ UNCHANGED <<slot, host, installed, saved, header, heaps>>

\* Deallocate, up to and including live_.fetch_sub. A NULL free returns at once.
Uncount(t, b) ==
    /\ pc[t] = "idle"
    /\ b # Null
    /\ live' = IF Counted THEN Dec(live) ELSE live
    /\ owned' = owned \ {b}
    /\ pc' = [pc EXCEPT ![t] = "free"]
    /\ block' = [block EXCEPT ![t] = b]
    /\ UNCHANGED <<slot, host, installed, saved, header, heaps>>

\* The rest of Deallocate: the free, routed by what is installed now.
FreeBlock(t) ==
    /\ pc[t] = "free"
    /\ LET b == block[t] IN
          /\ heaps' = [a \in Heaps |-> IF a = Route(b) THEN heaps[a] \ {b} ELSE heaps[a]]
          /\ header' = [header EXCEPT ![b] = Null]
    /\ pc' = [pc EXCEPT ![t] = "idle"]
    /\ block' = [block EXCEPT ![t] = Null]
    /\ UNCHANGED <<slot, host, live, installed, saved, owned>>

-----------------------------------------------------------------------------
(* Installing: zozzSetAllocator and the entry points built on it.          *)

Unchanged(alloc) == host = alloc

\* Mutants: the validation dropped; only a reset asking whether blocks are live.
SetResultUnchecked(alloc) ==
    IF ~Unchanged(alloc) /\ live # 0 THEN "allocator_in_use" ELSE "ok"
SetResultResetOnly(alloc) ==
    IF alloc = NoHost /\ live # 0 THEN "allocator_in_use"
    ELSE IF alloc \in Malformed THEN "invalid_argument"
    ELSE "ok"

SetResult(alloc) ==
    IF ~Unchanged(alloc) /\ live # 0 THEN "allocator_in_use"
    ELSE IF alloc \in Malformed THEN "invalid_argument"
    ELSE "ok"

\* Mutant: interposing left to static initialisation alone.
InterposedOnce == slot

\* The occupant of ozz's slot after Interpose().
Interposed == Adapter

\* zozzSetAllocator: Interpose() first, whatever the answer will be. A careful
\* C++ host that had the slot calls it with none of its own blocks out.
SetAllocator(alloc) ==
    /\ Quiescent
    /\ CppHostCareful => slot = Adapter \/ owned = {}
    /\ slot' = Interposed
    /\ host' = IF SetResult(alloc) = "ok" THEN alloc ELSE host
    /\ UNCHANGED <<live, header, heaps, owned, pc, block>>

\* A C host installs, or resets with NULL (also memory.zig's resetAllocator).
HostInstalls(alloc) ==
    /\ SetAllocator(alloc)
    /\ UNCHANGED <<installed, saved>>

\* Mutant: memory.zig writing `installed` whether or not the seam accepted.
InstalledEarly(gpa) == gpa

\* memory.zig writes `installed` only after the seam has accepted the bridge.
InstalledAfter(gpa) == IF SetResult(Bridge) = "ok" THEN gpa ELSE installed

\* memory.zig setAllocator.
ZigInstalls(gpa) ==
    /\ SetAllocator(Bridge)
    /\ installed' = InstalledAfter(gpa)
    /\ saved' = IF saved # Null /\ SetResult(Bridge) = "ok"
                THEN [saved EXCEPT !.zigSince = TRUE] ELSE saved

\* zozzGetAllocator / getAllocator: the host keeps the struct to put it back.
\* The ghost fields hold the allocator it stands for, and whether the bridge
\* was handed an allocator after that.
GetAllocator ==
    /\ Quiescent
    /\ saved = Null
    /\ saved' = [alloc |-> host, means |-> Behind, zigSince |-> FALSE]
    /\ UNCHANGED <<slot, host, live, installed, header, heaps, owned, pc, block>>

\* The saved struct is passed back. Refused, it is kept for another attempt.
RestoreAllocator ==
    /\ saved # Null
    /\ SetAllocator(saved.alloc)
    /\ saved' = IF SetResult(saved.alloc) = "ok" THEN Null ELSE saved
    /\ UNCHANGED installed

\* A C++ host points ozz at an allocator of its own, as zozz_core.cpp:169-172
\* foresees; a careful one, which does so with nothing outstanding.
CppHostTakesSlot(a) ==
    /\ Quiescent
    /\ owned = {}
    /\ slot' = a
    /\ UNCHANGED <<host, live, installed, saved, header, heaps, owned, pc, block>>

-----------------------------------------------------------------------------
ThreadStep(t) ==
    \/ Allocate(t)
    \/ CountBlock(t)
    \/ \E b \in owned \cup {Null} : Uncount(t, b)
    \/ FreeBlock(t)

Installing ==
    \/ \E alloc \in Structs \cup Malformed \cup {NoHost} : HostInstalls(alloc)
    \/ \E gpa \in Gpas : ZigInstalls(gpa)
    \/ GetAllocator
    \/ RestoreAllocator

Next ==
    \/ \E t \in Threads : ThreadStep(t)
    \/ Installing
    \/ \E a \in CppAllocators : CppHostTakesSlot(a)

Spec == Init /\ [][Next]_vars

-----------------------------------------------------------------------------
(* Properties.                                                             *)

InFlight == {block[t] : t \in {u \in Threads : pc[u] # "idle"}}
Outstanding == owned \cup InFlight

\* The type of every variable; in particular host_ never holds a struct with
\* a NULL function pointer (zozz_core.cpp:190-192).
TypeOK ==
    /\ slot \in {Adapter} \cup CppAllocators
    /\ host \in Structs \cup {Bridge, NoHost}
    /\ live \in 0 .. WordMax
    /\ installed \in Gpas \cup {Null}
    /\ \/ saved = Null
       \/ saved \in [alloc : Structs \cup {Bridge, NoHost},
                     means : Heaps \cup {Null}, zigSince : BOOLEAN]
    /\ header \in [Blocks -> Gpas \cup {Null}]
    /\ heaps \in [Heaps -> SUBSET Blocks]
    /\ owned \in SUBSET Blocks
    /\ pc \in [Threads -> {"idle", "count", "free"}]
    /\ block \in [Threads -> Blocks \cup {Null}]

\* zozzAllocatorLiveBlocks() is the number of blocks handed out and not yet
\* freed, except for those a running call is about to count or has just
\* uncounted, and those made while a C++ host had the slot: it neither drifts
\* nor wraps around zero (zozz_core.cpp:56, 64, 72).
CountIsExact == live = IF slot = Adapter THEN Cardinality(owned) ELSE 0

\* "Every outstanding block was produced by the allocator this adapter
\* currently forwards to" (zozz_core.cpp:73-77): wherever a free of it would
\* be routed now, that allocator produced it.
ForwardsToProducer ==
    \A b \in Outstanding : Route(b) \in Heaps /\ b \in heaps[Route(b)]

\* A struct read back with getAllocator and passed back later, when it is
\* accepted, makes allocations land where they landed when it was read
\* (memory.zig:136-139) - provided no Zig allocator was installed in between.
RestoreReturns ==
    [][/\ RestoreAllocator
       /\ SetResult(saved.alloc) = "ok"
       /\ ~saved.zigSince
       => Target' = saved.means]_vars

\* Whoever held ozz's slot before, an install that is accepted is what ozz
\* allocates through from then on (zozz_core.cpp:169-172).
AcceptedIsUsed ==
    [][/\ \A alloc \in Structs \cup {NoHost} :
             HostInstalls(alloc) /\ SetResult(alloc) = "ok"
                => Target' = IF alloc = NoHost THEN Native ELSE alloc
       /\ \A gpa \in Gpas :
             ZigInstalls(gpa) /\ SetResult(Bridge) = "ok" => Target' = gpa]_vars

\* The seam implements the contract: every free reaches the producer, and the
\* allocator changes only with nothing outstanding or between Zig allocators.
Contract == INSTANCE AllocatorContract
                WITH held <- Outstanding, target <- Target, FirstHeap <- Native

ImplementsContract == Contract!Spec
=============================================================================
