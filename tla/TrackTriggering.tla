-------------------------- MODULE TrackTriggering --------------------------
(***************************************************************************)
(* Edge triggering of a float track: TrackTriggeringJob and its lazy       *)
(* iterator (track_triggering_job.cc), and the caller-owned storage the C  *)
(* ABI keeps them in (zozz_track.cpp).  The iterator points at the job     *)
(* beside it, so storage holds a pointer into itself.                      *)
(*                                                                         *)
(* The search for the next edge, operator++, is one step per key.          *)
(***************************************************************************)
EXTENDS RawTracks, FiniteSets

CONSTANTS
    Thresholds, \* thresholds it asks for
    Places,     \* the ZozzTrackTriggeringIterators a host declares
    Heads,      \* Heads[p]: ratios it asks from and to with p
    Nowhere     \* the null pointer

ASSUME TriggeringAssumption ==
    /\ Nowhere \notin Places
    /\ Thresholds \subseteq Int
    /\ \A p \in Places : Heads[p] \subseteq Int /\ \A h \in Heads[p] : Rounded(h) = h

VARIABLES
    storage,    \* storage[p]: the TriggeringState at p
    calling,    \* the place operator++ is running for, if it is
    edges       \* edges[p]: the edges the host took from p since it was run

vars == <<kind, raw, track, storage, calling, edges>>

NoEdge == [ratio |-> 0, rising |-> FALSE]
Blank == [self |-> Nowhere, magic |-> FALSE, from |-> 0, to |-> 0, threshold |-> 0,
          job |-> Nowhere, outer |-> 0, inner |-> 0, edge |-> NoEdge]

\* StateOf: both guard words must be right.
StateOf(p) == storage[p].magic /\ storage[p].self = p

\* it == job.end()
AtEnd(p) == storage[p].job = p /\ storage[p].outer = 0 /\ storage[p].inner = -2

\* The line from key k0 to key k1 at the threshold, un-lerped.
Unlerped(k0, k1, threshold) ==
    k0.ratio + (Abs(threshold - k0.value) * (k1.ratio - k0.ratio))
                    \div Abs(k1.value - k0.value)

\* Mutant: the seam from the last key to the first is not looked at.
DetectEdgeInside(i, threshold, forward) ==
    LET k0 == Key(track, Before(track, i))
        k1 == Key(track, i)
        detected == i # 0 /\ (k0.value > threshold) # (k1.value > threshold)
    IN  [detected |-> detected,
         edge |-> IF detected
                  THEN [ratio |-> IF k0.step THEN k1.ratio ELSE Unlerped(k0, k1, threshold),
                        rising |-> (k1.value > threshold) = forward]
                  ELSE NoEdge]

\* DetectEdge, between key i and the one before it.
DetectEdge(i, threshold, forward) ==
    LET k0 == Key(track, Before(track, i))
        k1 == Key(track, i)
        rising == k0.value <= threshold /\ k1.value > threshold
        falling == k0.value > threshold /\ k1.value <= threshold
    IN  [detected |-> rising \/ falling,
         edge |-> IF rising \/ falling
                  THEN [ratio |-> IF k0.step THEN k1.ratio
                                  ELSE IF i = 0 THEN 0 ELSE Unlerped(k0, k1, threshold),
                        rising |-> IF rising THEN forward ELSE ~forward]
                  ELSE NoEdge]

-----------------------------------------------------------------------------
Init ==
    /\ RawInit
    /\ storage = [p \in Places |-> Blank]
    /\ calling = Nowhere
    /\ edges = [p \in Places |-> <<>>]

\* A host edits and builds; raw tracks are not edited while a built one is in use, which
\* shares nothing with them.
Author == track = NotBuilt /\ (Authoring \/ BuildTrack) /\ UNCHANGED <<storage, calling, edges>>

\* A host destroys the track, and drops its iterators with it: they point at the track.
Destroy ==
    /\ calling = Nowhere
    /\ DestroyTrack
    /\ storage' = [p \in Places |-> Blank]
    /\ edges' = [p \in Places |-> <<>>]
    /\ UNCHANGED calling

\* zozzFloatTrackTriggeringJobRun: from a ratio to itself is the end at once,
\* otherwise the iterator looks for its first edge.  Interpolation is exact here.
Run(p, from, to, threshold) ==
    /\ calling = Nowhere
    /\ kind = "float" /\ track # NotBuilt /\ CrossesOnGrid(track, threshold)
    /\ storage' = [storage EXCEPT ![p] =
            [self |-> p, magic |-> TRUE, from |-> from, to |-> to,
             threshold |-> threshold, job |-> p, edge |-> NoEdge,
             outer |-> IF from = to THEN 0 ELSE Floor(from),
             inner |-> IF from = to THEN -2
                       ELSE IF from < to THEN 0 ELSE NumKeys(track) - 1]]
    /\ calling' = IF from = to THEN Nowhere ELSE p
    /\ edges' = [edges EXCEPT ![p] = <<>>]
    /\ UNCHANGED rawVars

\* zozzTrackTriggeringIteratorGet, then zozzTrackTriggeringIteratorNext.
Take(p) ==
    /\ calling = Nowhere
    /\ StateOf(p) /\ ~AtEnd(p)
    /\ edges' = [edges EXCEPT ![p] = Append(@, storage[p].edge)]
    /\ calling' = p
    /\ UNCHANGED <<rawVars, storage>>

\* A host copies its storage, and what it took from it, to another place.
Copy(p, q) ==
    /\ calling = Nowhere /\ p # q
    /\ storage' = [storage EXCEPT ![q] = storage[p]]
    /\ edges' = [edges EXCEPT ![q] = edges[p]]
    /\ UNCHANGED <<rawVars, calling>>

-----------------------------------------------------------------------------
\* operator++ reads its range through its pointer to the job.
It == storage[calling]
Job == storage[It.job]
Forward == Job.to > Job.from
Detected == DetectEdge(It.inner, Job.threshold, Forward)
Found == Rounded(Detected.edge.ratio + It.outer)
NextLoop == Rounded(It.outer + Unit)

Searching ==
    /\ calling # Nowhere
    /\ IF Forward THEN It.outer < Job.to ELSE NextLoop > Job.to

\* The edge is in the range; the end of a loop is when the loop is.
Kept ==
    IF Forward THEN Found >= Job.from /\ (Found < Job.to \/ Job.to >= NextLoop)
               ELSE Found >= Job.to /\ (Found < Job.from \/ Job.from >= NextLoop)

\* No further edge of this loop can be in the range.
NoneLeft ==
    LET there == Rounded(Key(track, It.inner).ratio + It.outer)
    IN  IF Forward THEN Detected.detected /\ there >= Job.to ELSE there <= Job.to

KeyLeft == It.inner \in 0 .. NumKeys(track) - 1
Step == IF Forward THEN 1 ELSE -1
Rewound == IF Forward THEN 0 ELSE NumKeys(track) - 1

\* operator++ returns with an edge.
Yield ==
    /\ Searching /\ KeyLeft /\ Detected.detected /\ Kept
    /\ storage' = [storage EXCEPT ![calling].edge = [Detected.edge EXCEPT !.ratio = Found],
                                  ![calling].inner = @ + Step]
    /\ calling' = Nowhere
    /\ UNCHANGED <<rawVars, edges>>

\* The edge of a rejected crossing stays in the iterator.
Rejected == IF Detected.detected THEN [Detected.edge EXCEPT !.ratio = Found] ELSE It.edge

\* On to the next key.
NextKey ==
    /\ Searching /\ KeyLeft /\ ~(Detected.detected /\ Kept) /\ ~NoneLeft
    /\ storage' = [storage EXCEPT ![calling].edge = Rejected, ![calling].inner = @ + Step]
    /\ UNCHANGED <<rawVars, calling, edges>>

\* Mutant: the loop is searched again.
SameLoop == [It EXCEPT !.inner = Rewound]

\* On to the next loop, from its first key.
OuterMoved ==
    [It EXCEPT !.outer = IF Forward THEN NextLoop ELSE Rounded(@ - Unit), !.inner = Rewound]

LoopOver ==
    /\ Searching
    /\ \/ ~KeyLeft /\ storage' = [storage EXCEPT ![calling] = OuterMoved]
       \/ /\ KeyLeft /\ ~(Detected.detected /\ Kept) /\ NoneLeft
          /\ storage' = [storage EXCEPT ![calling] = [OuterMoved EXCEPT !.edge = Rejected]]
    /\ UNCHANGED <<rawVars, calling, edges>>

\* The range is exhausted: the iterator becomes the end iterator of its job.
Exhausted ==
    /\ calling # Nowhere /\ ~Searching
    /\ storage' = [storage EXCEPT ![calling].outer = 0, ![calling].inner = -2]
    /\ calling' = Nowhere
    /\ UNCHANGED <<rawVars, edges>>

Search == Yield \/ NextKey \/ LoopOver \/ Exhausted

Next ==
    \/ Author \/ Destroy
    \/ \E p \in Places, threshold \in Thresholds :
          \E from, to \in Heads[p] : Run(p, from, to, threshold)
    \/ \E p \in Places : Take(p)
    \/ \E p, q \in Places : Copy(p, q)
    \/ Search

\* A call goes on by itself.
Spec == Init /\ [][Next]_vars /\ WF_vars(Search)

-----------------------------------------------------------------------------
Keys == [step : BOOLEAN, ratio : 0 .. Unit,
         value : ValuesOfKind \cup (IF kind = "float" THEN {} ELSE {Negated(q) : q \in ValuesOfKind})]

\* Type invariant: an iterator that was run stands at a key, before the first,
\* behind the last, or at the end.
TypeOK ==
    /\ calling \in Places \cup {Nowhere}
    /\ kind \in Kinds \cup {"none"}
    /\ raw \in Seq(Keys)
    /\ track = NotBuilt \/ track \in Seq(Keys)
    /\ \A p \in Places :
          /\ storage[p].self \in Places \cup {Nowhere}
          /\ storage[p].job \in Places \cup {Nowhere}
          /\ storage[p].inner \in -2 .. (IF track = NotBuilt THEN 0 ELSE NumKeys(track))
          /\ storage[p].outer % Unit = 0
          /\ storage[p].edge \in [ratio : Int, rising : BOOLEAN]
          /\ edges[p] \in Seq([ratio : Int, rising : BOOLEAN])

-----------------------------------------------------------------------------
\* The keys of all loops are numbered along the line of ratios, from key 0 of the loop at 0.
LoopOf(g) == (g \div NumKeys(track)) * Unit
KeyOfLoop(g) == g % NumKeys(track)

\* Where the track crosses on the way to key g, on the line of ratios.
Position(g, threshold) == LoopOf(g) + CrossingRatio(track, threshold, KeyOfLoop(g))

\* A ratio cuts the crossings in two; a cut between two loops puts all of the
\* first before it.
Passed(g, threshold, cut) == Position(g, threshold) < cut \/ LoopOf(g) + Unit <= cut

\* A query that an iterator s answers.
IsForward(s) == s.from < s.to
Lower(s) == IF IsForward(s) THEN s.from ELSE s.to
Upper(s) == IF IsForward(s) THEN s.to ELSE s.from

\* A crossing of the query.
Between(s, g) ==
    /\ IsCrossing(track, s.threshold, KeyOfLoop(g))
    /\ Passed(g, s.threshold, Upper(s)) /\ ~Passed(g, s.threshold, Lower(s))

\* The keys of every loop that a range can reach, and of the loop before, as the query
\* goes: how many, and the k-th of them.
Reach(s) == (Upper(s) \div Unit - Lower(s) \div Unit + 2) * NumKeys(track)
OnTheWay(s, k) ==
    IF IsForward(s) THEN (Lower(s) \div Unit - 1) * NumKeys(track) + k - 1
                    ELSE (Upper(s) \div Unit + 1) * NumKeys(track) - k

\* Its crossings, in the order a query meets them: those among the first k keys on the
\* way, for all of them.
Crossings(s) ==
    LET CrossingOf(g) == [ratio |-> Position(g, s.threshold),
                          rising |-> Rises(track, s.threshold, KeyOfLoop(g)) = IsForward(s)]
        Among[k \in 0 .. Reach(s)] ==
            IF k = 0 THEN <<>>
            ELSE IF Between(s, OnTheWay(s, k)) THEN Append(Among[k - 1], CrossingOf(OnTheWay(s, k)))
            ELSE Among[k - 1]
    IN  Among[Reach(s)]

\* What a place that may be asked has given, and what it holds.
Held(p) == IF AtEnd(p) THEN edges[p] ELSE Append(edges[p], storage[p].edge)
Answers(p) == StateOf(p) /\ calling = Nowhere

\* A query gives exactly the crossings between its two ratios, once each and
\* in order, over any number of loops and in either direction; so queries
\* that share an end neither lose nor repeat one, and a copied or reused
\* storage is refused or answers for its own job (TrackTriggeringJob, StateOf).
EdgesAreTheCrossings ==
    \A p \in Places : Answers(p) =>
        IF AtEnd(p) THEN Held(p) = Crossings(storage[p])
                    ELSE IsPrefix(Held(p), Crossings(storage[p]))

\* Whether the track is on just before the ratio h, a whole number of loops standing
\* for the end of a loop and not for its start: what the sampling job gives half a grid
\* point earlier (crossings are on the grid), or at the end.
OnBefore(threshold, h) ==
    LET s == JobSample(kind, AsVectors(track), IF h % Unit = 0 THEN 2 * Unit ELSE 2 * (h % Unit) - 1)
    IN  s.top[1] > threshold * s.over

\* A host that starts with the state of the track at `from` and follows the
\* edges has, at the end, the state of the track at `to`, and every edge
\* changed it: rising when it was off, falling when it was on.
FlagFollowsTrack ==
    \A p \in Places : Answers(p) =>
        LET s == storage[p]
            on == OnBefore(s.threshold, s.from)
        IN  /\ \A i \in DOMAIN Held(p) : Held(p)[i].rising = (on = (i % 2 = 0))
            /\ AtEnd(p) =>
                  OnBefore(s.threshold, s.to) = (on # (Len(edges[p]) % 2 = 1))

\* Edges are exactly the crossings of the track, and each one changes what a host that
\* follows them believes of it, up to the state it has at `to` (TrackTriggeringJob).
EdgesTellTheTrack == EdgesAreTheCrossings /\ FlagFollowsTrack

\* Every call returns, for any finite ratios (zozzFloatTrackTriggeringJobRun).
CallsReturn == calling # Nowhere ~> calling = Nowhere
=============================================================================
