------------------------------ MODULE MCOptions ------------------------------
(* Options on a small instance: see MCOptions.cfg for the bounds.             *)
EXTENDS Options, TLC

CONSTANTS p1, p2, o1, o2, st, sv, Text

Of(name, kind, required, default, refused) ==
    [name |-> name, kind |-> kind, required |-> required, default |-> default,
     refused |-> refused]

\* A Boolean and a required integer of hosts; a static string that refuses Text,
\* and a static option that takes the name of a built-in one.
MCAttr == o1 :> Of("foo", "bool", FALSE, FALSE, {})
       @@ o2 :> Of("num", "int", TRUE, 0, {})
       @@ st :> Of("num", "string", FALSE, Null, {Text})
       @@ sv :> Of("version", "bool", FALSE, TRUE, {})

MCRank == "foo" :> 1 @@ "help" :> 2 @@ "num" :> 3 @@ "version" :> 4

MCNegation ==
    "foo" :> "nofoo" @@ "help" :> Null @@ "num" :> Null
    @@ "version" :> Null

\* The global parser shares no state with hosts' parsers: one side at a time.
OneSide == Global \in live \/ statics # {} => live \cap Parsers = {} /\ held = {}

ParserSymmetry == Permutations(Parsers)

Foo == [name |-> "foo", value |-> Implicit]
NoFoo == [name |-> "nofoo", value |-> Implicit]
NumIs(v) == [name |-> "num", value |-> v]
Help == [name |-> "help", value |-> Implicit]
NoHelp == [name |-> "help", value |-> 0]

MCArgLists ==
    { <<NumIs(3), Empty, NoFoo>>, <<Help>>, <<Foo, Help>>, <<NumIs(Text)>>,
      <<NumIs(1), DashDash, NumIs(3)>>, <<NoHelp, NumIs(1), NumIs(3), Foo>> }
=============================================================================
