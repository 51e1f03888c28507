------------------------- MODULE MCSamplingContext -------------------------
(***************************************************************************)
(* SamplingContext on two animations: Walk has one SoA block, keys close   *)
(* together and iframes, Wave three blocks, sparse keys and no iframe.     *)
(* They are written out, for TLC's speed, and assumed to be what the       *)
(* builder's own rules (KeySorting) make of their raw keyframes.           *)
(***************************************************************************)
EXTENDS SamplingContext, TLC

Building == INSTANCE KeySorting

CONSTANTS Walk, Wave

Indexed(row) == [k \in 0 .. Len(row) - 1 |-> row[k + 1]]

Snapshot(entries_row, last) == [entries |-> Indexed(entries_row), last |-> last]

Channel(tracks, ratios, previouses, owners, iframes) ==
    [tracks |-> tracks, keys |-> Len(ratios), ratio |-> Indexed(ratios),
     previous |-> Indexed(previouses), track |-> Indexed(owners), iframes |-> iframes]

WalkChannels ==
    << Channel(2,
           <<0, 0, 2, 1, 3, 4, 5, 6, 6>>,
           <<0, 0, 2, 2, 1, 3, 2, 2, 2>>,
           <<0, 1, 0, 1, 1, 0, 1, 0, 1>>,
           << Snapshot(<<5, 4>>, 5), Snapshot(<<7, 6>>, 7), Snapshot(<<7, 8>>, 8) >>),
       Channel(2,
           <<0, 0, 6, 4, 5, 6>>,
           <<0, 0, 2, 2, 1, 1>>,
           <<0, 1, 0, 1, 1, 1>>,
           << Snapshot(<<2, 5>>, 5) >>) >>

WaveChannels ==
    << Channel(6,
           <<0, 0, 0, 0, 0, 0, 3, 6, 4, 4, 1, 6, 2, 5, 4, 6, 5, 6, 6, 6>>,
           <<0, 0, 0, 0, 0, 0, 6, 6, 6, 6, 6, 6, 2, 1, 8, 1, 8, 8, 2, 6>>,
           <<0, 1, 2, 3, 4, 5, 0, 1, 2, 3, 4, 5, 4, 4, 0, 0, 2, 3, 2, 4>>,
           <<>>),
       Channel(6,
           <<0, 0, 0, 0, 0, 0, 6, 2, 6, 6, 6, 6, 6>>,
           <<0, 0, 0, 0, 0, 0, 6, 6, 6, 6, 6, 6, 5>>,
           <<0, 1, 2, 3, 4, 5, 0, 1, 2, 3, 4, 5, 1>>,
           <<>>) >>

MCStream == Walk :> WalkChannels @@ Wave :> WaveChannels

Built(tracks, divs) == Building!BuiltStream(tracks, Full, divs)

ASSUME WalkIsBuilt ==
    /\ WalkChannels[1] = Built(0 :> <<2, 4>> @@ 1 :> <<0, 1, 3, 5, 6>>, 3)
    /\ WalkChannels[2] = Built(0 :> <<3>> @@ 1 :> <<0, 4, 5>>, 2)

ASSUME WaveIsBuilt ==
    /\ WaveChannels[1] =
          Built(Indexed(<<<<3, 4>>, <<4>>, <<4, 5>>, <<4, 6>>, <<1, 2, 5>>>>), 0)
    /\ WaveChannels[2] = Built(Indexed(<<<<>>, <<0, 2>>, <<>>, <<>>, <<>>>>), 0)
=============================================================================
