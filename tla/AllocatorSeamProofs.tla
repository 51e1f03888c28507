------------------------ MODULE AllocatorSeamProofs ------------------------
(***************************************************************************)
(* Proofs about AllocatorSeam, for any number of threads, blocks and host  *)
(* allocators.  TypeOK needs nothing beyond the module's assumption; what  *)
(* concerns producers and the counter is proved for a process whose C++    *)
(* hosts, if any, are careful: they take and give back ozz's slot with     *)
(* none of its blocks out (MCAllocatorSeamCppUncounted.cfg shows why that  *)
(* assumption is needed).                                                  *)
(***************************************************************************)
EXTENDS AllocatorSeam, FiniteSetTheorems, TLAPS

\* A thread inside the adapter works on a block.
BusyHasBlock == \A t \in Threads : pc[t] # "idle" => block[t] \in Blocks

TypeInv == TypeOK /\ BusyHasBlock

LEMMA TypeInvInit == Init => TypeInv
  BY SeamAssumption DEF Init, TypeInv, TypeOK, BusyHasBlock, Heaps

LEMMA SetAllocatorType ==
  ASSUME TypeOK, NEW alloc \in Structs \cup Malformed \cup {Bridge, NoHost},
         SetAllocator(alloc)
  PROVE  /\ slot' \in {Adapter} \cup CppAllocators
         /\ host' \in Structs \cup {Bridge, NoHost}
  BY SeamAssumption DEF TypeOK, SetAllocator, SetResult, Unchanged, Interposed

LEMMA TypeInvNext == TypeInv /\ [Next]_vars => TypeInv'
<1> SUFFICES ASSUME TypeInv, [Next]_vars PROVE TypeInv'
    OBVIOUS
<1> USE DEF TypeInv, TypeOK, BusyHasBlock
<1>1. ASSUME NEW t \in Threads, Allocate(t) PROVE TypeInv'
  <2> USE <1>1 DEF Allocate
  <2>1. PICK b \in Unused :
            /\ heaps' = [heaps EXCEPT ![Target] = @ \cup {b}]
            /\ header' = [header EXCEPT ![b] =
                             IF slot = Adapter /\ host = Bridge THEN installed ELSE Null]
            /\ block' = [block EXCEPT ![t] = b]
    OBVIOUS
  <2>2. b \in Blocks
    BY DEF Unused
  <2>3. header' \in [Blocks -> Gpas \cup {Null}]
    BY <2>1, <2>2
  <2>4. heaps' \in [Heaps -> SUBSET Blocks]
    <3> DEFINE a == Target
    <3>1. heaps' = [heaps EXCEPT ![a] = @ \cup {b}] /\ heaps \in [Heaps -> SUBSET Blocks]
      BY <2>1
    <3> HIDE DEF a
    <3> QED BY <3>1, <2>2
  <2> QED BY <2>1, <2>2, <2>3, <2>4
<1>2. ASSUME NEW t \in Threads, CountBlock(t) PROVE TypeInv'
  BY <1>2, SeamAssumption DEF CountBlock, Inc
<1>3. ASSUME NEW t \in Threads, NEW b \in owned \cup {Null}, Uncount(t, b) PROVE TypeInv'
  BY <1>3, SeamAssumption DEF Uncount, Dec
<1>4. ASSUME NEW t \in Threads, FreeBlock(t) PROVE TypeInv'
  <2>1. heaps' \in [Heaps -> SUBSET Blocks] /\ header' \in [Blocks -> Gpas \cup {Null}]
    BY <1>4 DEF FreeBlock
  <2> QED BY <1>4, <2>1 DEF FreeBlock
<1>5. ASSUME NEW alloc \in Structs \cup Malformed \cup {NoHost}, HostInstalls(alloc)
      PROVE TypeInv'
  BY <1>5, SetAllocatorType DEF HostInstalls, SetAllocator
<1>6. ASSUME NEW gpa \in Gpas, ZigInstalls(gpa) PROVE TypeInv'
  BY <1>6, SetAllocatorType DEF ZigInstalls, SetAllocator, InstalledAfter
<1>7. CASE GetAllocator
  <2>1. Behind \in Heaps \cup {Null}
    BY SeamAssumption DEF Behind, Heaps
  <2> QED BY <1>7, <2>1 DEF GetAllocator
<1>8. CASE RestoreAllocator
  BY <1>8, SetAllocatorType DEF RestoreAllocator, SetAllocator
<1>9. ASSUME NEW a \in CppAllocators, CppHostTakesSlot(a) PROVE TypeInv'
  BY <1>9 DEF CppHostTakesSlot
<1>10. CASE UNCHANGED vars
  BY <1>10 DEF vars
<1> QED
  BY <1>1, <1>2, <1>3, <1>4, <1>5, <1>6, <1>7, <1>8, <1>9, <1>10
     DEF Next, ThreadStep, Installing

\* Every variable keeps its type, whoever installs what: in particular
\* zozzSetAllocator never leaves a struct with a NULL function pointer behind
\* the adapter (zozz_core.cpp:190-192).
THEOREM TypeCorrect == Spec => []TypeOK
<1>1. TypeInv => TypeOK
  BY DEF TypeInv
<1> QED
  BY <1>1, TypeInvInit, TypeInvNext, PTL DEF Spec

-----------------------------------------------------------------------------
(* The counter and the producers.  ForwardsToProducer is not inductive: a   *)
(* swap is only harmless because the counter is exact, the counter is only  *)
(* exact because no block is in two hands at once, and a block is free for  *)
(* a new allocation only if no allocator has it.                            *)

Meaning(alloc) ==
    IF alloc = NoHost THEN Native ELSE IF alloc = Bridge THEN installed ELSE alloc

\* The bridge is never reached before memory.zig has written `installed`.
BridgeBacked ==
    /\ host = Bridge => installed \in Gpas
    /\ saved # Null =>
          /\ saved.alloc = Bridge => installed \in Gpas
          /\ ~saved.zigSince => saved.means = Meaning(saved.alloc)

\* A block is in the hands of one thread or of the handles, never of two.
OneHand ==
    \A t \in Threads : pc[t] # "idle" =>
        /\ block[t] \notin owned
        /\ \A u \in Threads \ {t} : pc[u] # "idle" => block[u] # block[t]

IInv ==
    /\ TypeInv
    /\ BridgeBacked
    /\ OneHand
    /\ ForwardsToProducer
    /\ CountIsExact

LEMMA OutstandingBlocks == TypeInv => Outstanding \subseteq Blocks
  BY DEF TypeInv, TypeOK, BusyHasBlock, Outstanding, InFlight

LEMMA IInvInit == Init => IInv
<1> SUFFICES ASSUME Init PROVE IInv
    OBVIOUS
<1>1. TypeInv
  BY TypeInvInit
<1>2. BridgeBacked /\ OneHand
  BY SeamAssumption DEF Init, BridgeBacked, OneHand
<1>3. Outstanding = {}
  BY DEF Init, Outstanding, InFlight
<1>4. ForwardsToProducer
  BY <1>3 DEF ForwardsToProducer
<1>5. CountIsExact
  BY FS_EmptySet DEF Init, CountIsExact
<1> QED BY <1>1, <1>2, <1>4, <1>5 DEF IInv

\* What the counter says when no thread is inside the adapter, and a careful
\* C++ host has its blocks back.
LEMMA ZeroMeansNone ==
  ASSUME IInv, Quiescent, live = 0, slot = Adapter \/ owned = {}
  PROVE  Outstanding = {}
<1>1. IsFiniteSet(owned)
  BY SeamAssumption, FS_Subset DEF IInv, TypeInv, TypeOK
<1>2. owned = {}
  BY <1>1, FS_EmptySet DEF IInv, CountIsExact
<1> QED BY <1>2 DEF Outstanding, InFlight, Quiescent

\* An install leaves every outstanding block routed to its producer: either it
\* changes nothing, or nothing is outstanding.
LEMMA InstallKeepsRoutes ==
  ASSUME CppHostCareful, IInv, NEW alloc \in Structs \cup Malformed \cup {Bridge, NoHost},
         SetAllocator(alloc)
  PROVE  /\ slot' = Adapter
         /\ OneHand'
         /\ ForwardsToProducer'
         /\ CountIsExact'
         /\ UNCHANGED Outstanding
         /\ Outstanding = {} \/ (host' = host /\ slot = Adapter)
<1> USE DEF SetAllocator
<1>1. UNCHANGED <<live, header, heaps, owned, pc, block>> /\ Quiescent
      /\ (slot = Adapter \/ owned = {})
  OBVIOUS
<1>2. slot' = Adapter
  BY DEF Interposed
<1>3. OneHand' /\ CountIsExact' /\ UNCHANGED Outstanding
  <2>1. OneHand' /\ UNCHANGED Outstanding
    BY <1>1 DEF IInv, OneHand, Outstanding, InFlight
  <2>2. CountIsExact'
    BY <1>1, <1>2, FS_EmptySet DEF IInv, CountIsExact
  <2> QED BY <2>1, <2>2
<1>4. Outstanding = {} \/ (host' = host /\ slot = Adapter)
  <2>1. CASE slot = Adapter
    <3>1. host' = host \/ live = 0
      BY DEF SetResult, Unchanged
    <3> QED BY <3>1, <2>1, <1>1, ZeroMeansNone
  <2>2. CASE owned = {}
    BY <2>2, <1>1 DEF Outstanding, InFlight, Quiescent
  <2> QED BY <2>1, <2>2, <1>1
<1>5. ForwardsToProducer'
  <2>1. CASE Outstanding = {}
    BY <2>1, <1>3 DEF ForwardsToProducer
  <2>2. CASE host' = host /\ slot = Adapter
    <3>1. ASSUME NEW b \in Outstanding PROVE Route(b)' = Route(b)
      BY <1>1, <1>2, <2>2 DEF Route
    <3> QED BY <3>1, <1>1, <1>3 DEF IInv, ForwardsToProducer, Heaps
  <2> QED BY <2>1, <2>2, <1>4
<1> QED BY <1>2, <1>3, <1>4, <1>5

LEMMA AllocateKeeps ==
  ASSUME IInv, NEW t \in Threads, Allocate(t), TypeInv'
  PROVE  IInv' /\ Outstanding' = Outstanding \cup {block'[t]}
               /\ block'[t] \in Unused
               /\ heaps' = [heaps EXCEPT ![Target] = @ \cup {block'[t]}]
<1> USE DEF Allocate
<1>1. PICK b \in Unused :
          /\ heaps' = [heaps EXCEPT ![Target] = @ \cup {b}]
          /\ header' = [header EXCEPT ![b] =
                           IF slot = Adapter /\ host = Bridge THEN installed ELSE Null]
          /\ block' = [block EXCEPT ![t] = b]
  OBVIOUS
<1>2. b \in Blocks /\ b \notin UNION {heaps[a] : a \in Heaps}
  BY DEF Unused
<1>3. TypeOK /\ BusyHasBlock
  BY DEF IInv, TypeInv
<1>4. b \notin Outstanding
  BY <1>2 DEF IInv, ForwardsToProducer
<1>5. block'[t] = b /\ \A u \in Threads \ {t} : block'[u] = block[u] /\ pc'[u] = pc[u]
  BY <1>1, <1>3 DEF TypeOK
<1>6. pc'[t] = "count"
  BY <1>3 DEF TypeOK
<1>7. Outstanding' = Outstanding \cup {b}
  BY <1>5, <1>6 DEF Outstanding, InFlight
<1>8. OneHand'
  BY <1>4, <1>5 DEF IInv, OneHand, Outstanding, InFlight
<1>9. BridgeBacked' /\ CountIsExact'
  BY <1>3 DEF IInv, BridgeBacked, Meaning, CountIsExact
<1>10. ForwardsToProducer'
  <2>1. ASSUME NEW c \in Outstanding PROVE Route(c)' \in Heaps /\ c \in heaps'[Route(c)']
    <3>1. Route(c) \in Heaps /\ c \in heaps[Route(c)] /\ c # b
      BY <1>4 DEF IInv, ForwardsToProducer
    <3>2. header'[c] = header[c]
      BY <1>1, <1>3, <3>1, <2>1, OutstandingBlocks DEF IInv, TypeOK
    <3>3. Route(c)' = Route(c)
      BY <3>2 DEF Route
    <3> QED BY <3>1, <3>3, <1>1, <1>3 DEF TypeOK
  <2>2. Target \in Heaps /\ Route(b)' = Target
    <3>1. header'[b] = IF slot = Adapter /\ host = Bridge THEN installed ELSE Null
      BY <1>1, <1>2, <1>3 DEF TypeOK
    <3> QED BY <3>1, <1>3 DEF IInv, BridgeBacked, Route, Target, Behind, Heaps, TypeOK
  <2>3. b \in heaps'[Target]
    BY <1>1, <1>3, <2>2 DEF TypeOK
  <2> QED BY <1>7, <2>1, <2>2, <2>3 DEF ForwardsToProducer, Heaps
<1> QED BY <1>1, <1>5, <1>7, <1>8, <1>9, <1>10 DEF IInv

LEMMA CountBlockKeeps ==
  ASSUME IInv, NEW t \in Threads, CountBlock(t), TypeInv'
  PROVE  IInv' /\ UNCHANGED <<Outstanding, heaps>>
<1> USE DEF CountBlock
<1>1. TypeOK /\ BusyHasBlock
  BY DEF IInv, TypeInv
<1>2. /\ block[t] \in Blocks /\ block[t] \notin owned
      /\ \A u \in Threads \ {t} : block'[u] = block[u] /\ pc'[u] = pc[u]
      /\ pc'[t] = "idle"
  BY <1>1 DEF TypeOK, BusyHasBlock, IInv, OneHand
<1>3. Outstanding' = Outstanding
  BY <1>2 DEF Outstanding, InFlight
<1>4. OneHand'
  BY <1>2 DEF IInv, OneHand
<1>5. IsFiniteSet(owned) /\ Cardinality(owned \cup {block[t]}) <= Cardinality(Blocks)
                         /\ Cardinality(owned \cup {block[t]}) \in Nat
  <2>1. owned \cup {block[t]} \subseteq Blocks
    BY <1>1, <1>2 DEF TypeOK
  <2> QED BY <2>1, SeamAssumption, FS_Subset, FS_CardinalityType
<1>6. Cardinality(owned \cup {block[t]}) = Cardinality(owned) + 1 /\ Cardinality(owned) \in Nat
  BY <1>2, <1>5, FS_AddElement, FS_CardinalityType
<1>7. CountIsExact'
  <2>1. Cardinality(Blocks) \in Nat
    BY SeamAssumption, FS_CardinalityType
  <2>2. CASE slot = Adapter
    <3>1. live = Cardinality(owned) /\ live' = Inc(live) /\ owned' = owned \cup {block[t]}
      BY <2>2 DEF IInv, CountIsExact, Counted
    <3> QED BY <3>1, <2>1, <2>2, <1>5, <1>6, SeamAssumption DEF CountIsExact, Inc
  <2>3. CASE slot # Adapter
    BY <2>3 DEF IInv, CountIsExact, Counted
  <2> QED BY <2>2, <2>3
<1>8. BridgeBacked' /\ ForwardsToProducer'
  BY <1>1, <1>3 DEF IInv, BridgeBacked, Meaning, ForwardsToProducer, Route, Heaps
<1> QED BY <1>3, <1>4, <1>7, <1>8 DEF IInv

LEMMA UncountKeeps ==
  ASSUME IInv, NEW t \in Threads, NEW b \in owned \cup {Null}, Uncount(t, b), TypeInv'
  PROVE  IInv' /\ UNCHANGED <<Outstanding, heaps>>
<1> USE DEF Uncount
<1>1. TypeOK /\ BusyHasBlock
  BY DEF IInv, TypeInv
<1>2. /\ b \in owned
      /\ \A u \in Threads \ {t} : block'[u] = block[u] /\ pc'[u] = pc[u]
      /\ pc'[t] = "free" /\ block'[t] = b /\ pc[t] = "idle"
  BY <1>1 DEF TypeOK
<1>3. Outstanding' = Outstanding
  BY <1>2 DEF Outstanding, InFlight
<1>4. OneHand'
  BY <1>2 DEF IInv, OneHand
<1>5. CountIsExact'
  <2>1. IsFiniteSet(owned)
    BY <1>1, SeamAssumption, FS_Subset DEF TypeOK
  <2>2. Cardinality(owned \ {b}) = Cardinality(owned) - 1 /\ Cardinality(owned) \in Nat
        /\ Cardinality(owned \ {b}) \in Nat
    BY <2>1, <1>2, FS_RemoveElement, FS_CardinalityType
  <2>3. CASE slot = Adapter
    <3>1. live = Cardinality(owned) /\ live' = Dec(live) /\ owned' = owned \ {b}
      BY <2>3 DEF IInv, CountIsExact, Counted
    <3> QED BY <3>1, <2>2, <2>3 DEF CountIsExact, Dec
  <2>4. CASE slot # Adapter
    BY <2>4 DEF IInv, CountIsExact, Counted
  <2> QED BY <2>3, <2>4
<1>6. BridgeBacked' /\ ForwardsToProducer'
  BY <1>1, <1>3 DEF IInv, BridgeBacked, Meaning, ForwardsToProducer, Route, Heaps
<1> QED BY <1>3, <1>4, <1>5, <1>6 DEF IInv

LEMMA FreeBlockKeeps ==
  ASSUME IInv, NEW t \in Threads, FreeBlock(t), TypeInv'
  PROVE  /\ IInv'
         /\ block[t] \in Outstanding /\ Outstanding' = Outstanding \ {block[t]}
         /\ heaps' = [heaps EXCEPT ![Route(block[t])] = @ \ {block[t]}]
<1> DEFINE b == block[t]
<1> USE DEF FreeBlock
<1>1. TypeOK /\ BusyHasBlock
  BY DEF IInv, TypeInv
<1>2. /\ b \in Blocks /\ b \notin owned
      /\ \A u \in Threads \ {t} : block'[u] = block[u] /\ pc'[u] = pc[u]
      /\ \A u \in Threads \ {t} : pc[u] # "idle" => block[u] # b
      /\ pc'[t] = "idle"
  BY <1>1 DEF TypeOK, BusyHasBlock, IInv, OneHand
<1>3. b \in Outstanding /\ Outstanding' = Outstanding \ {b}
  BY <1>2 DEF Outstanding, InFlight
<1>4. Route(b) \in Heaps /\ b \in heaps[Route(b)]
  BY <1>3 DEF IInv, ForwardsToProducer
<1>5. heaps' = [heaps EXCEPT ![Route(b)] = @ \ {b}]
  BY <1>1, <1>4 DEF TypeOK
<1>6. OneHand'
  BY <1>2 DEF IInv, OneHand
<1>7. BridgeBacked' /\ CountIsExact'
  BY <1>1 DEF IInv, BridgeBacked, Meaning, CountIsExact
<1>8. ForwardsToProducer'
  <2>1. ASSUME NEW c \in Outstanding, c # b PROVE Route(c)' \in Heaps /\ c \in heaps'[Route(c)']
    <3>1. Route(c) \in Heaps /\ c \in heaps[Route(c)]
      BY <2>1 DEF IInv, ForwardsToProducer
    <3>2. header'[c] = header[c]
      BY <2>1, <1>1, <1>2, OutstandingBlocks DEF IInv, TypeOK
    <3>3. Route(c)' = Route(c)
      BY <3>2 DEF Route
    <3> QED BY <3>1, <3>3, <2>1 DEF Heaps
  <2> QED BY <2>1, <1>3 DEF ForwardsToProducer, Heaps
<1> QED BY <1>3, <1>5, <1>6, <1>7, <1>8 DEF IInv

\* The three ways to install keep the invariant, and an install that is
\* accepted decides where allocations land.
LEMMA HostInstallsKeeps ==
  ASSUME CppHostCareful, IInv, NEW alloc \in Structs \cup Malformed \cup {NoHost}, HostInstalls(alloc), TypeInv'
  PROVE  IInv' /\ UNCHANGED <<Outstanding, heaps>> /\ (Outstanding = {} \/ Target' = Target)
<1> USE DEF HostInstalls
<1>1. slot' = Adapter /\ OneHand' /\ ForwardsToProducer' /\ CountIsExact'
      /\ UNCHANGED Outstanding /\ (Outstanding = {} \/ (host' = host /\ slot = Adapter))
  BY InstallKeepsRoutes
<1>2. BridgeBacked'
  <2>1. host' = Bridge => host = Bridge
    BY SeamAssumption DEF SetAllocator
  <2> QED BY <2>1 DEF IInv, BridgeBacked, Meaning
<1>3. Outstanding = {} \/ Target' = Target
  BY <1>1 DEF IInv, Target, Behind
<1> QED BY <1>1, <1>2, <1>3 DEF IInv, SetAllocator

LEMMA ZigInstallsKeeps ==
  ASSUME CppHostCareful, IInv, NEW gpa \in Gpas, ZigInstalls(gpa), TypeInv'
  PROVE  /\ IInv'
         /\ UNCHANGED <<Outstanding, heaps>>
         /\ Outstanding = {} \/ Target' = Target \/ {Target, Target'} \subseteq Gpas
<1> USE DEF ZigInstalls
<1>1. slot' = Adapter /\ OneHand' /\ ForwardsToProducer' /\ CountIsExact'
      /\ UNCHANGED Outstanding /\ (Outstanding = {} \/ (host' = host /\ slot = Adapter))
  BY InstallKeepsRoutes
<1>2. CASE SetResult(Bridge) = "ok"
  <2>1. installed' = gpa /\ host' = Bridge
    BY <1>2 DEF InstalledAfter, SetAllocator
  <2>2. BridgeBacked'
    <3>1. CASE saved = Null
      BY <3>1, <2>1 DEF BridgeBacked
    <3>2. CASE saved # Null
      <4>1. saved' = [saved EXCEPT !.zigSince = TRUE] /\ DOMAIN saved = {"alloc", "means", "zigSince"}
        BY <1>2, <3>2 DEF IInv, TypeInv, TypeOK
      <4>2. saved'.zigSince
        BY <4>1
      <4> QED BY <4>2, <2>1 DEF BridgeBacked
    <3> QED BY <3>1, <3>2
  <2>3. Outstanding = {} \/ {Target, Target'} \subseteq Gpas
    BY <1>1, <2>1, SeamAssumption DEF IInv, BridgeBacked, Target, Behind
  <2> QED BY <1>1, <2>2, <2>3 DEF IInv, SetAllocator
<1>3. CASE SetResult(Bridge) # "ok"
  <2>1. UNCHANGED <<installed, saved, host>>
    BY <1>3 DEF InstalledAfter, SetAllocator
  <2>2. BridgeBacked' /\ (Outstanding = {} \/ Target' = Target)
    BY <2>1, <1>1 DEF IInv, BridgeBacked, Meaning, Target, Behind
  <2> QED BY <1>1, <2>2 DEF IInv, SetAllocator
<1> QED BY <1>2, <1>3

LEMMA RestoreKeeps ==
  ASSUME CppHostCareful, IInv, RestoreAllocator, TypeInv'
  PROVE  /\ IInv'
         /\ UNCHANGED <<Outstanding, heaps>>
         /\ Outstanding = {} \/ Target' = Target
         /\ SetResult(saved.alloc) = "ok" /\ ~saved.zigSince => Target' = saved.means
<1> USE DEF RestoreAllocator
<1>1. saved.alloc \in Structs \cup {Bridge, NoHost} /\ SetAllocator(saved.alloc)
  BY DEF IInv, TypeInv, TypeOK
<1>2. slot' = Adapter /\ OneHand' /\ ForwardsToProducer' /\ CountIsExact'
      /\ UNCHANGED Outstanding /\ (Outstanding = {} \/ (host' = host /\ slot = Adapter))
  BY <1>1, InstallKeepsRoutes
<1>3. saved # Null /\ (host' = host \/ host' = saved.alloc) /\ UNCHANGED installed
  BY DEF SetAllocator
<1>4. BridgeBacked'
  BY <1>3 DEF IInv, BridgeBacked, Meaning
<1>5. SetResult(saved.alloc) = "ok" => Target' = Meaning(saved.alloc)
  BY <1>2, <1>3, SeamAssumption DEF SetAllocator, Target, Behind, Meaning
<1>6. ~saved.zigSince => saved.means = Meaning(saved.alloc)
  BY <1>3 DEF IInv, BridgeBacked
<1>7. Outstanding = {} \/ Target' = Target
  BY <1>2, <1>3 DEF IInv, Target, Behind
<1> QED BY <1>1, <1>2, <1>4, <1>5, <1>6, <1>7 DEF IInv, SetAllocator

LEMMA GetKeeps ==
  ASSUME IInv, GetAllocator, TypeInv'
  PROVE  IInv' /\ UNCHANGED <<Outstanding, heaps, Target>>
<1> USE DEF GetAllocator
<1>1. UNCHANGED <<Outstanding, Target>>
  BY DEF Outstanding, InFlight, Target, Behind
<1>2. OneHand' /\ CountIsExact'
  BY DEF IInv, OneHand, CountIsExact
<1>3. ForwardsToProducer'
  BY <1>1 DEF IInv, ForwardsToProducer, Route, Heaps
<1>4. BridgeBacked'
  BY SeamAssumption DEF IInv, BridgeBacked, Meaning, Target, Behind
<1> QED BY <1>1, <1>2, <1>3, <1>4 DEF IInv

\* A C++ host takes the slot with nothing outstanding, and a count of zero.
LEMMA CppHostKeeps ==
  ASSUME IInv, NEW a \in CppAllocators, CppHostTakesSlot(a), TypeInv'
  PROVE  IInv' /\ UNCHANGED <<Outstanding, heaps>> /\ Outstanding = {}
<1> USE DEF CppHostTakesSlot
<1>1. Outstanding = {} /\ UNCHANGED Outstanding
  BY DEF Outstanding, InFlight, Quiescent
<1>2. live = 0 /\ slot' = a /\ a # Adapter
  BY FS_EmptySet, SeamAssumption DEF IInv, CountIsExact
<1>3. OneHand' /\ BridgeBacked' /\ ForwardsToProducer'
  BY <1>1 DEF IInv, OneHand, BridgeBacked, Meaning, ForwardsToProducer
<1>4. CountIsExact'
  BY <1>2 DEF CountIsExact
<1> QED BY <1>1, <1>3, <1>4 DEF IInv

LEMMA StutterKeeps ==
  ASSUME IInv, UNCHANGED vars, TypeInv'
  PROVE  IInv' /\ UNCHANGED <<Outstanding, heaps, Target>>
<1> USE DEF vars
<1>1. UNCHANGED <<Outstanding, Target>>
  BY DEF Outstanding, InFlight, Target, Behind
<1>2. OneHand' /\ CountIsExact' /\ BridgeBacked'
  BY DEF IInv, OneHand, CountIsExact, BridgeBacked, Meaning
<1>3. ForwardsToProducer'
  BY <1>1 DEF IInv, ForwardsToProducer, Route, Heaps
<1> QED BY <1>1, <1>2, <1>3 DEF IInv

LEMMA IInvNext == ASSUME CppHostCareful PROVE IInv /\ [Next]_vars => IInv'
<1> SUFFICES ASSUME IInv, [Next]_vars PROVE IInv'
    OBVIOUS
<1>1. TypeInv'
  BY TypeInvNext DEF IInv
<1>2. CASE UNCHANGED vars
  BY <1>1, <1>2, StutterKeeps
<1>3. ASSUME NEW t \in Threads, ThreadStep(t) PROVE IInv'
  BY <1>1, <1>3, AllocateKeeps, CountBlockKeeps, UncountKeeps, FreeBlockKeeps DEF ThreadStep
<1>4. CASE Installing
  BY <1>1, <1>4, HostInstallsKeeps, ZigInstallsKeeps, GetKeeps, RestoreKeeps DEF Installing
<1>5. ASSUME NEW a \in CppAllocators, CppHostTakesSlot(a) PROVE IInv'
  BY <1>1, <1>5, CppHostKeeps
<1> QED BY <1>2, <1>3, <1>4, <1>5 DEF Next

LEMMA Invariance == ASSUME CppHostCareful PROVE Spec => []IInv
<1>1. IInv /\ [Next]_vars => IInv'
  BY IInvNext
<1> QED BY <1>1, IInvInit, PTL DEF Spec

\* zozzAllocatorLiveBlocks() counts the blocks handed out and not freed, for
\* any number of threads allocating and freeing at once.
THEOREM CounterCorrect == ASSUME CppHostCareful PROVE Spec => []CountIsExact
<1>1. IInv => CountIsExact
  BY DEF IInv
<1> QED BY <1>1, Invariance, PTL

\* Every outstanding block would be freed into the heap of its producer, at
\* every moment (zozz_core.cpp:73-77).
THEOREM ProducerCorrect == ASSUME CppHostCareful PROVE Spec => []ForwardsToProducer
<1>1. IInv => ForwardsToProducer
  BY DEF IInv
<1> QED BY <1>1, Invariance, PTL

\* A saved allocator that is put back means what it meant when it was read, if
\* the bridge was not handed another Zig allocator since.
THEOREM RestoreCorrect == ASSUME CppHostCareful PROVE Spec => RestoreReturns
<1>1. IInv /\ IInv' /\ [Next]_vars =>
        [/\ RestoreAllocator
         /\ SetResult(saved.alloc) = "ok"
         /\ ~saved.zigSince
         => Target' = saved.means]_vars
  BY RestoreKeeps DEF IInv
<1> QED BY <1>1, Invariance, PTL DEF Spec, RestoreReturns

\* Whoever held ozz's slot, careful or not, what zozzSetAllocator accepts is
\* what ozz allocates through from then on (zozz_core.cpp:169-172).
THEOREM AcceptedCorrect == Spec => AcceptedIsUsed
<1>1. ASSUME NEW alloc \in Structs \cup {NoHost}, HostInstalls(alloc), SetResult(alloc) = "ok"
      PROVE  Target' = IF alloc = NoHost THEN Native ELSE alloc
  BY <1>1, SeamAssumption DEF HostInstalls, SetAllocator, Interposed, Target, Behind
<1>2. ASSUME NEW gpa \in Gpas, ZigInstalls(gpa), SetResult(Bridge) = "ok"
      PROVE  Target' = gpa
  BY <1>2, SeamAssumption
     DEF ZigInstalls, SetAllocator, Interposed, InstalledAfter, Target, Behind
<1>3. [Next]_vars =>
        [/\ \A alloc \in Structs \cup {NoHost} :
               HostInstalls(alloc) /\ SetResult(alloc) = "ok"
                  => Target' = IF alloc = NoHost THEN Native ELSE alloc
         /\ \A gpa \in Gpas :
               ZigInstalls(gpa) /\ SetResult(Bridge) = "ok" => Target' = gpa]_vars
  BY <1>1, <1>2
<1> QED BY <1>3, PTL DEF Spec, AcceptedIsUsed

-----------------------------------------------------------------------------
(* The seam implements the contract.                                        *)

LEMMA InitRefines == Init => Contract!Init
<1> SUFFICES ASSUME Init PROVE Contract!Init
    OBVIOUS
<1>1. Outstanding = {} /\ Target = Native
  BY DEF Init, Outstanding, InFlight, Target, Behind
<1> QED BY <1>1 DEF Init, Contract!Init

LEMMA RetargetRefines ==
  ASSUME UNCHANGED <<Outstanding, heaps>>, Target' \in Heaps,
         Outstanding = {} \/ Target' = Target \/ {Target, Target'} \subseteq Gpas
  PROVE  Contract!Next \/ UNCHANGED Contract!vars
<1>1. CASE Target' = Target
  BY <1>1 DEF Contract!vars
<1>2. CASE Outstanding = {} \/ {Target, Target'} \subseteq Gpas
  <2>1. Contract!Retarget(Target')
    BY <1>2 DEF Contract!Retarget
  <2> QED BY <2>1 DEF Contract!Next
<1> QED BY <1>1, <1>2

LEMMA NextRefines ==
  ASSUME CppHostCareful, IInv, IInv', [Next]_vars
  PROVE  [Contract!Next]_(Contract!vars)
<1>1. Target' \in Heaps
  BY SeamAssumption DEF IInv, TypeInv, TypeOK, BridgeBacked, Target, Behind, Heaps
<1>2. TypeInv'
  BY DEF IInv
<1>3. ASSUME NEW t \in Threads, Allocate(t) PROVE Contract!Next
  <2>1. UNCHANGED Target
    BY <1>3 DEF Allocate, Target, Behind
  <2>2. Contract!Make(block'[t]) /\ block'[t] \in Blocks
    BY <1>2, <1>3, <2>1, AllocateKeeps DEF Contract!Make, Contract!Outstanding, Unused
  <2> QED BY <2>2 DEF Contract!Next
<1>4. ASSUME NEW t \in Threads, CountBlock(t) PROVE UNCHANGED Contract!vars
  <2>1. UNCHANGED Target
    BY <1>4 DEF CountBlock, Target, Behind
  <2> QED BY <1>2, <1>4, <2>1, CountBlockKeeps DEF Contract!vars
<1>5. ASSUME NEW t \in Threads, NEW b \in owned \cup {Null}, Uncount(t, b)
      PROVE  UNCHANGED Contract!vars
  <2>1. UNCHANGED Target
    BY <1>5 DEF Uncount, Target, Behind
  <2> QED BY <1>2, <1>5, <2>1, UncountKeeps DEF Contract!vars
<1>6. ASSUME NEW t \in Threads, FreeBlock(t) PROVE Contract!Next
  <2>1. UNCHANGED Target
    BY <1>6 DEF FreeBlock, Target, Behind
  <2>2. /\ block[t] \in Outstanding /\ Outstanding' = Outstanding \ {block[t]}
        /\ heaps' = [heaps EXCEPT ![Route(block[t])] = @ \ {block[t]}]
    BY <1>2, <1>6, FreeBlockKeeps
  <2>3. Route(block[t]) \in Heaps /\ block[t] \in heaps[Route(block[t])] /\ block[t] \in Blocks
    BY <2>2, OutstandingBlocks DEF IInv, ForwardsToProducer
  <2>4. Contract!Release(block[t])
    BY <2>1, <2>2, <2>3 DEF Contract!Release
  <2> QED BY <2>3, <2>4 DEF Contract!Next
<1>7. CASE Installing
  <2>1. UNCHANGED <<Outstanding, heaps>>
        /\ (Outstanding = {} \/ Target' = Target \/ {Target, Target'} \subseteq Gpas)
    BY <1>2, <1>7, HostInstallsKeeps, ZigInstallsKeeps, GetKeeps, RestoreKeeps DEF Installing
  <2> QED BY <1>1, <2>1, RetargetRefines
<1>8. CASE UNCHANGED vars
  BY <1>2, <1>8, StutterKeeps DEF Contract!vars
<1>9. ASSUME NEW a \in CppAllocators, CppHostTakesSlot(a)
      PROVE  Contract!Next \/ UNCHANGED Contract!vars
  BY <1>1, <1>2, <1>9, CppHostKeeps, RetargetRefines
<1> QED
  BY <1>3, <1>4, <1>5, <1>6, <1>7, <1>8, <1>9 DEF Next, ThreadStep

\* The two-step, counted, reroutable allocation of the code is the contract's
\* atomic one: blocks go back where they came from and the allocator changes
\* only with nothing outstanding, or between Zig allocators.
THEOREM SeamImplementsContract == ASSUME CppHostCareful PROVE Spec => ImplementsContract
<1>1. IInv /\ IInv' /\ [Next]_vars => [Contract!Next]_(Contract!vars)
  BY NextRefines
<1> QED
  BY <1>1, InitRefines, Invariance, PTL DEF Spec, ImplementsContract, Contract!Spec
=============================================================================
