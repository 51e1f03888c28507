----------------------------- MODULE MCArchive -----------------------------
(* Instances of Archive: three types with tags of two lengths, the first   *)
(* bytes in common; small values.                                          *)
EXTENDS Archive

MCTypes == {"skeleton", "clip", "track"}
MCTag == [skeleton |-> <<7, 8, 0>>, clip |-> <<7, 0>>, track |-> <<7, 9, 0>>]
MCVersion == [skeleton |-> 2, clip |-> 3, track |-> 1]
MCSupported == [skeleton |-> {2}, clip |-> {3}, track |-> {0, 1}]

Object(type, data) == [kind |-> type, version |-> MCVersion[type], data |-> data]

\* A skeleton, a clip, an empty track, an integer and a byte.
MCItems ==
    { Object("skeleton", <<6>>), Object("clip", <<2>>), Object("track", <<>>),
      [kind |-> "int", version |-> 0, data |-> <<5>>],
      [kind |-> "binary", version |-> 0, data |-> <<1>>] }

\* The same types as another release writes them.
OtherItems ==
    { Object("skeleton", <<1>>), [Object("skeleton", <<1>>) EXCEPT !.version = 1],
      [Object("clip", <<2>>) EXCEPT !.version = 2] }
=============================================================================
