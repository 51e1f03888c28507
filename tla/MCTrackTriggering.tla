-------------------------- MODULE MCTrackTriggering --------------------------
(* Instances of user tracks: a loop of four grid points.                    *)
EXTENDS RawAnimationTools

Linear(ratio, value) == [step |-> FALSE, ratio |-> ratio, value |-> value]
Stepped(ratio, value) == [step |-> TRUE, ratio |-> ratio, value |-> value]

\* No key, one key, a ramp whose seam falls, a peak that touches a threshold
\* from either side, steps up to the last key, a key pair off the ends, and
\* keys out of order.
MCTracks ==
    { <<>>, <<Linear(2, 1)>>, <<Linear(0, 0), Linear(4, 4)>>,
      <<Linear(0, 2), Linear(1, 1), Linear(2, 2), Linear(4, 0)>>,
      <<Stepped(0, 0), Stepped(1, 2), Stepped(3, 1), Stepped(4, 2)>>,
      <<Stepped(1, 2), Linear(3, 0)>>, <<Linear(3, 0), Linear(1, 2)>> }

TwoTracks == {<<Linear(0, 0), Linear(4, 4)>>, <<Stepped(1, 2), Linear(3, 0)>>}

\* Never across a threshold.
FlatTrack == <<Linear(0, 1), Linear(4, 1)>>

\* Two of them are refused.
MCRatios == -1 .. 5

FewHeads == {0, 3, 5}
MCHeads == [p \in Places |-> IF p = "a" THEN {-10, -4, 0, 3, 5, 8} ELSE FewHeads]

\* A second iterator is explored where both are short and the track is simple.
Few(p) == storage[p].from \in FewHeads /\ storage[p].to \in FewHeads
OneOrFew == storage["b"] = Blank \/ (raw \in TwoTracks /\ \A p \in Places : Few(p))

\* Rotations about an axis, all of length 5: the identity, one of some 106 degrees with
\* either sign, and one half a turn from it.
MCQuaternions == {<<0, 0, 0, 5>>, <<0, 0, 4, 3>>, <<0, 0, -4, -3>>, <<0, 0, 3, -4>>}

\* Tracks are authored one key after the other: those above, and any of up to three keys
\* off and on both ends, of quaternions those in order.
Simple(key) ==
    key.ratio \in {0, 1, 4} /\ (kind = "quaternion" \/ key.value \in {0, 2})
AuthoredAsAsked ==
    \/ kind = "float" /\ \E t \in MCTracks : IsPrefix(raw, t)
    \/ /\ Len(raw) <= 3 /\ \A k \in DOMAIN raw : Simple(raw[k])
       /\ kind = "quaternion" => Validate(raw)

\* Only the tracks above are triggered.
Explored ==
    /\ AuthoredAsAsked /\ OneOrFew
    /\ (kind = "float" /\ raw \in MCTracks) \/ \A p \in Places : storage[p] = Blank

-----------------------------------------------------------------------------
Key3(time, value) == [time |-> time, value |-> value]
Yaw(n) == FromEuler(<<n, 0, 0>>)
Tilted == FromEuler(<<1, 0, 1>>)
Track(translations, rotations, scales) ==
    [translations |-> translations, rotations |-> rotations, scales |-> scales]
Clip(duration, tracks) == [duration |-> duration, tracks |-> tracks]

\* A walk that turns by half a turn, with a step in the middle of it.
Walk == Track(<<Key3(0, <<1, 0, 0>>), Key3(2, <<3, 2, 2>>), Key3(4, <<5, 0, 4>>)>>,
              <<Key3(0, Yaw(0)), Key3(4, Yaw(2))>>, <<Key3(0, 1)>>)
\* Tilted all along, and turned and back.
Sway == Track(<<Key3(1, <<0, 1, 2>>), Key3(4, <<2, 1, 0>>)>>,
              <<Key3(1, Tilted), Key3(3, Times(Yaw(1), Tilted)), Key3(4, Tilted)>>,
              <<Key3(0, 1), Key3(4, 2)>>)
Still == Track(<<>>, <<>>, <<>>)
Turned == Track(<<>>, <<Key3(2, Negated(Yaw(1)))>>, <<Key3(1, 3)>>)
Posed == Track(<<Key3(4, <<0, 1, 0>>)>>, <<>>, <<>>)

\* Two keys that become one ratio, keys out of order, and no animation.
Dense == Track(<<Key3(2, <<0, 0, 0>>), Key3(3, <<1, 0, 0>>)>>, <<>>, <<>>)
Unordered == Track(<<>>, <<Key3(3, Yaw(0)), Key3(1, Yaw(1))>>, <<>>)

MCClips ==
    {Clip(4, <<t>>) : t \in {Walk, Sway, Still, Turned, Posed, Unordered}}
        \cup {Clip(8, <<Dense>>), Clip(4, <<Still, Walk>>), Clip(0, <<Still>>), Clip(4, <<>>)}

Rest(translation, rotation, scale) ==
    [translation |-> translation, rotation |-> rotation, scale |-> scale]
MCPoses ==
    {<<Rest(<<0, 1, 0>>, Yaw(1), 1)>>, <<NoPose, Rest(<<2, 2, 0>>, Tilted, 2)>>}

Settings(masks) ==
    [mask : masks, reference : {"absolute", "skeleton", "animation"},
     bake : BOOLEAN, loop : BOOLEAN]
MCPosition ==
    {p \in Settings({<<TRUE, FALSE, TRUE>>, <<TRUE, TRUE, TRUE>>}) : p.loop => p.bake}
MCRotation == {r \in Settings({<<FALSE, TRUE, FALSE>>, <<TRUE, TRUE, TRUE>>, <<TRUE, FALSE, FALSE>>}) : r.loop => r.bake}

ASSUME MCMotionIsExact == MotionIsExact

-----------------------------------------------------------------------------
\* With three bits, whole loops are rounded from 32 on.
FarHeads == [p \in Places |-> {0, 32, 40}]
ExploredFar == IsPrefix(raw, FlatTrack)
=============================================================================
