------------------------- MODULE MCAnimationBuilder ------------------------
(***************************************************************************)
(* AnimationBuilder on animations of two channels.  In the first one joint *)
(* has a run of keys close together and the others any of a few sparse     *)
(* ones, so that the dense keys come between two of a sparse track; the    *)
(* second adds time points, also some the first has not.  A few animations *)
(* are edited further.                                                     *)
(*                                                                         *)
(* Documents have a root with two children and another root, names that    *)
(* clash, and the skins and the animated curves below.                     *)
(***************************************************************************)
EXTENDS AnimationBuilder

Ascending(times) == SortSeq(Listed(times), <)

CONSTANTS DenseStep, SparseStep

Steps(step) == {n * step : n \in 0 .. Full \div step}
Sparse == {Ascending(s) : s \in SUBSET Steps(SparseStep)}
Dense == {Ascending({t \in Steps(DenseStep) : a <= t /\ t <= b}) :
             a \in Steps(SparseStep), b \in Steps(SparseStep)}

\* A track of the second channel.
Others == {<<>>, <<0, 8, 24>>, <<1, 2, 5, 7, 11, 31>>}

Animation(joints, Track(_), other) ==
    [duration |-> Full, name |-> <<>>,
     tracks |-> [joint \in 0 .. joints - 1 |->
                    <<Track(joint), IF joint = 0 THEN other ELSE <<>> >>]]

MCNames == {<<1>>}

MCDrafts == {Animation(2, LAMBDA joint : <<0, 16>>, <<8>>)}

MCRaws ==
    MCDrafts
    \cup {Animation(1, LAMBDA joint : d, o) : d \in Dense, o \in Others}
    \cup {Animation(3, LAMBDA joint : IF joint = n THEN d ELSE s, <<0, 8, 24>>) :
             n \in {0, 1}, d \in Dense, s \in Sparse}
    \cup {Animation(5, LAMBDA joint : IF joint = 1 THEN d ELSE s, o) :
             d \in Dense, s \in {<<>>, <<16>>, <<8, 24>>}, o \in Others}

MCNodes ==
    << [name |-> <<"a">>, children |-> <<2, 3>>, rest |-> <<1, 2>>],
       [name |-> <<"a", 2>>, children |-> <<>>, rest |-> <<3, 4>>],
       [name |-> <<"a">>, children |-> <<>>, rest |-> <<5, 6>>],
       [name |-> <<>>, children |-> <<>>, rest |-> <<0, 1>>] >>

Skin(joints, skeleton) == [joints |-> joints, skeleton |-> skeleton]

\* A skeleton that is the second node, or the way up from a joint; two of them, the
\* first above the second, beside it or below it; none in the scene.
MCSkins ==
    { <<>>, <<Skin(<<3>>, NoNode)>>, <<Skin(<<2>>, 2), Skin(<<>>, 4)>>,
      <<Skin(<<3>>, 1), Skin(<<2>>, NoNode)>>, <<Skin(<<4>>, NoNode), Skin(<<2>>, 2)>>,
      <<Skin(<<3>>, NoNode), Skin(<<2>>, 2)>>, <<Skin(<<2>>, NoNode), Skin(<<3>>, 4)>> }

Channel(node, path, interpolation, times, max, count) ==
    [node |-> node, path |-> path, interpolation |-> interpolation, times |-> times,
     max |-> max, values |-> [k \in 1 .. count |-> (3 * k * k) % 7]]

Curve(interpolation, times) ==
    Channel(2, 1, interpolation, times, IF times = <<>> THEN 8 ELSE times[Len(times)],
            Len(times) * (IF interpolation = "CUBICSPLINE" THEN 3 ELSE 1))

MCCurves ==
    {Curve(interpolation, times) : interpolation \in {"LINEAR", "STEP"},
        times \in {<<0>>, <<6>>, <<0, 4, 16>>, <<4, 5, 24>>, <<4, 4, 16>>, <<0, 0, 16>>, <<16, 8>>}}
    \cup {Curve("CUBICSPLINE", times) : times \in {<<0, 4>>, <<4, 8, 12>>, <<2, 4, 8>>}}
    \cup {Channel(2, 1, "LINEAR", <<0, 16>>, 16, 1), Channel(2, 1, "STEP", <<0, 16>>, 12, 2),
           Channel(2, 1, "STEP", <<0, 16>>, 16, 0), Channel(2, 1, "LINEAR", <<>>, 20, 2),
           Channel(2, 1, "SPLINE", <<0, 16>>, 16, 2)}

Document(scene, skins, channels) ==
    [nodes |-> MCNodes, scene |-> scene, skins |-> skins, channels |-> channels, name |-> <<2>>]

Others1 == <<Channel(3, 2, "LINEAR", <<0, 12>>, 12, 2), Channel(NoNode, 1, "STEP", <<0>>, 30, 1),
             Channel(2, 3, "LINEAR", <<0, 30>>, 30, 2)>>

MCDocuments ==
    {Document(<<1, 4>>, skins, <<curve>>) : curve \in MCCurves, skins \in {<<>>, <<Skin(<<2>>, 2)>>}}
    \cup {Document(scene, skins, <<Curve("STEP", <<0, 4, 16>>)>> \o Others1) :
              scene \in {<<1, 4>>, <<4, 1>>, <<1>>, <<>>}, skins \in MCSkins}

\* A step at the end of an animation that is longer than ratios are fine.
MCLateSteps == {Document(<<1, 4>>, <<>>, <<Curve("STEP", <<0, end>>)>>) : end \in {16, 32, 64}}
=============================================================================
