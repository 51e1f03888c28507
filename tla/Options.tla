------------------------------ MODULE Options ------------------------------
(***************************************************************************)
(* The command-line option parser: ozz's Option and Parser                 *)
(* (libs/ozz/src/options/options.cc), the global parser static options     *)
(* register themselves with, and the reference-counted handles zozz gives  *)
(* hosts (ffi/zozz_options.cpp).                                           *)
(*                                                                         *)
(* An option is shared: by the host that created it and by every parser it *)
(* is registered with.  Whoever lets go last frees it.  A parse writes     *)
(* into the options themselves, so options also carry what earlier parses, *)
(* of any parser, have left in them.  A call that is refused changes       *)
(* nothing; what a parse answers is Verdict.                               *)
(***************************************************************************)
EXTENDS Integers, Sequences, FiniteSets

CONSTANTS
    Handles,     \* ZozzOption addresses
    Statics,     \* options declared with OZZ_OPTIONS_DECLARE_*
    Parsers,     \* ZozzOptionsParser addresses
    Global,      \* the parser of GlobalRegistrer
    Attr,        \* Attr[o]: the name, kind, required flag, default and refused values of o
    Rank,        \* Rank[n]: where strcmp puts the name n
    Negation,    \* Negation[n]: the name spelled "no" followed by n, unless it
                 \* begins with n itself; Null where no argument has it
    HelpName,    \* "help"
    VersionName, \* "version"
    Slots,       \* sizeof(options_) / sizeof(options_[0])
    IntRange,    \* 2^32
    ArgLists,    \* the command lines a host may pass, without argv[0]
    Implicit,    \* the value of an argument without '='
    Empty,       \* the argument ""
    DashDash,    \* the argument "--"
    Null         \* no name, no option

Builtins == {"help", "version"}
AllParsers == Parsers \cup {Global}

\* The option objects: those of hosts, the static ones, two in every parser.
Objects == Handles \cup Statics \cup (AllParsers \X Builtins)

ASSUME OptionsAssumption ==
    /\ IsFiniteSet(Parsers)
    /\ Global \notin Parsers
    /\ Handles \cap Statics = {}
    /\ (Handles \cup Statics) \cap (AllParsers \X Builtins) = {}
    /\ Slots \in Nat /\ Slots >= 2

VARIABLES
    refcount,    \* ZozzOption::refcount; 0 for an option that does not exist
    held,        \* the options whose host has not called zozzOptionDestroy
    statics,     \* the static options alive
    live,        \* the parsers that exist
    registered,  \* ZozzOptionsParser::registered, as the number of entries of each option
    options,     \* Parser::options_, up to options_count_
    value,       \* TypedOption::value_
    parsed       \* Option::parsed_

vars == <<refcount, held, statics, live, registered, options, value, parsed>>

-----------------------------------------------------------------------------
(* One option against one argument.                                        *)

BuiltinAttr(b) ==
    [name |-> IF b = "help" THEN HelpName ELSE VersionName,
     kind |-> "bool", required |-> FALSE, default |-> FALSE, refused |-> {}]

AttrOf == [o \in Objects |->
             IF o \in Handles \cup Statics THEN Attr[o] ELSE BuiltinAttr(o[2])]

\* Names are strings without regard to case; strcmp tells them apart.
ASSUME NamesAssumption ==
    /\ \A o \in Objects : /\ AttrOf[o].required \in BOOLEAN
                          /\ Rank[AttrOf[o].name] \in Int
    /\ \A o, q \in Objects :
          AttrOf[o].name # AttrOf[q].name => Rank[AttrOf[o].name] # Rank[AttrOf[q].name]
    /\ HelpName # VersionName

ASSUME ArgumentsAssumption ==
    \A args \in ArgLists : args \in Seq({args[i] : i \in DOMAIN args})

\* The int a long is cast to.
AsInt(n) == ((n + IntRange \div 2) % IntRange) - (IntRange \div 2)

\* The Parse overloads: whether the argument a names o and has a value of its
\* type, and that value. Words for true and false are the integers 1 and 0.
NamesNegated(o, a) ==
    /\ AttrOf[o].kind = "bool"
    /\ a.name # AttrOf[o].name
    /\ a.name = Negation[AttrOf[o].name]
    /\ a.value = Implicit

Accepts(o, a) ==
    \/ NamesNegated(o, a)
    \/ /\ a.name = AttrOf[o].name
       /\ CASE AttrOf[o].kind = "bool" -> a.value \in {Implicit, 0, 1}
            [] AttrOf[o].kind \in {"int", "float"} -> a.value \in Int
            [] AttrOf[o].kind = "string" -> a.value # Implicit

ValueFor(o, a) ==
    CASE AttrOf[o].kind = "bool" -> ~NamesNegated(o, a) /\ a.value # 0
      [] AttrOf[o].kind = "int" -> AsInt(a.value)
      [] OTHER -> a.value

-----------------------------------------------------------------------------
(* The table of a parser.                                                  *)

Listed(s) == {s[i] : i \in DOMAIN s}

Min(S) == CHOOSE i \in S : \A j \in S : i <= j

\* sort_options: required options first, then by name.
Before(o, q) ==
    \/ AttrOf[o].required /\ ~AttrOf[q].required
    \/ AttrOf[o].required = AttrOf[q].required /\ Rank[AttrOf[o].name] < Rank[AttrOf[q].name]

\* The new last option merged into the sorted ones before it.
Merged(s, o) ==
    LET after == {i \in DOMAIN s : Before(o, s[i])}
        k == IF after = {} THEN Len(s) + 1 ELSE Min(after)
    IN  SubSeq(s, 1, k - 1) \o <<o>> \o SubSeq(s, k, Len(s))

\* Mutant: names compared as strcmp would, so that every one is new.
CanRegisterAnyName(s, o) == Len(s) < Slots /\ o \notin Listed(s)

\* The conditions of Parser::RegisterOption.
CanRegister(s, o) ==
    /\ Len(s) < Slots
    /\ o \notin Listed(s)
    /\ \A q \in Listed(s) : AttrOf[q].name # AttrOf[o].name

\* Mutant: std::remove without the new count.
StillListed(s, o) == s

\* Parser::UnregisterOption.
Without(s, o) ==
    IF o \notin Listed(s) THEN s
    ELSE LET k == CHOOSE i \in DOMAIN s : s[i] = o
         IN  SubSeq(s, 1, k - 1) \o SubSeq(s, k + 1, Len(s))

\* The built-in options as the constructor registers them.
FreshTable(p) == Merged(Merged(<<>>, <<p, "version">>), <<p, "help">>)

\* GlobalRegistrer::Construct makes its parser where there is none.
TableOf(p) == IF p \in live THEN options[p] ELSE FreshTable(p)

-----------------------------------------------------------------------------
(* Parser::Parse.                                                          *)

\* The arguments before the first "--": argc_trunc of them.
Visible(args) ==
    LET dashes == {i \in DOMAIN args : args[i] = DashDash}
    IN  IF dashes = {} THEN args ELSE SubSeq(args, 1, Min(dashes) - 1)

\* Mutant: only the values restored, so that parsed_ survives a parse.
RestoredValuesOnly(s) ==
    [value |-> [o \in Listed(s) |-> AttrOf[o].default],
     parsed |-> {o \in Listed(s) : parsed[o]}, ok |-> TRUE]

\* Every option of the table at its default, nothing parsed.
Restored(s) ==
    [value |-> [o \in Listed(s) |-> AttrOf[o].default], parsed |-> {}, ok |-> TRUE]

\* One argument offered to the options in order, until one takes it that had
\* none yet. Every option that accepts it on the way has its value overwritten,
\* the parsed ones too (Option::Parse calls ParseImpl first).
Offer(s, r, a) ==
    LET accepting == {i \in DOMAIN s : Accepts(s[i], a)}
        open == {i \in accepting : s[i] \notin r.parsed}
        last == IF open = {} THEN Len(s) ELSE Min(open)
        written == {s[i] : i \in {k \in accepting : k <= last}}
    IN  [value |-> [o \in Listed(s) |-> IF o \in written THEN ValueFor(o, a) ELSE r.value[o]],
         parsed |-> IF open = {} THEN r.parsed ELSE r.parsed \cup {s[last]},
         ok |-> open # {}]

\* The loop over the arguments: empty ones are skipped, a refused one ends it.
Parsed(s, args) ==
    LET after[i \in 0 .. Len(args)] ==
            IF i = 0 THEN Restored(s)
            ELSE LET r == after[i - 1]
                 IN  IF ~r.ok \/ args[i] = Empty THEN r ELSE Offer(s, r, args[i])
    IN  after[Len(args)]

\* The checks after the loop, in the order in which they override each other.
Verdict(p, s, r, argc) ==
    LET help == r.value[<<p, "help">>]
        version == r.value[<<p, "version">>]
    IN  IF ~r.ok \/ ((help \/ version) /\ argc # 1) THEN "exit_failure"
        ELSE IF help \/ version THEN "exit_success"
        ELSE IF \E o \in Listed(s) : AttrOf[o].required /\ o \notin r.parsed THEN "exit_failure"
        ELSE IF \E o \in Listed(s) : r.value[o] \in AttrOf[o].refused THEN "exit_failure"
        ELSE "success"

-----------------------------------------------------------------------------
\* What options that no longer exist held is gone with them.
Freed(gone) ==
    /\ value' = [o \in Objects |-> IF o \in gone THEN AttrOf[o].default ELSE value[o]]
    /\ parsed' = [o \in Objects |-> o \notin gone /\ parsed[o]]

Init ==
    /\ refcount = [o \in Handles |-> 0]
    /\ held = {}
    /\ statics = {}
    /\ live = {}
    /\ registered = [p \in Parsers |-> [o \in Handles |-> 0]]
    /\ options = [p \in AllParsers |-> <<>>]
    /\ value = [o \in Objects |-> AttrOf[o].default]
    /\ parsed = [o \in Objects |-> FALSE]

\* zozz*OptionCreate: a new option belongs to its host. (With no memory left
\* nothing is made, and nothing changes.)
CreateOption(o) ==
    /\ refcount[o] = 0
    /\ refcount' = [refcount EXCEPT ![o] = 1]
    /\ held' = held \cup {o}
    /\ UNCHANGED <<statics, live, registered, options, value, parsed>>

\* zozzOptionDestroy: the host lets go. The option goes on for its parsers.
DestroyOption(o) ==
    /\ o \in held
    /\ held' = held \ {o}
    /\ refcount' = [refcount EXCEPT ![o] = @ - 1]
    /\ Freed({q \in {o} : refcount[q] = 1})
    /\ UNCHANGED <<statics, live, registered, options>>

\* zozzOptionsParserCreate, and Parser::Parser().
CreateParser(p) ==
    /\ p \notin live
    /\ live' = live \cup {p}
    /\ options' = [options EXCEPT ![p] = FreshTable(p)]
    /\ UNCHANGED <<refcount, held, statics, registered, value, parsed>>

\* Mutant: references given back twice when the parser goes.
ReleasedTwice(p) == [o \in Handles |-> refcount[o] - 2 * registered[p][o]]

ReleasedByParser(p) == [o \in Handles |-> refcount[o] - registered[p][o]]

\* zozzOptionsParserDestroy: a reference of every option still registered.
DestroyParser(p) ==
    /\ p \in live
    /\ live' = live \ {p}
    /\ refcount' = ReleasedByParser(p)
    /\ registered' = [registered EXCEPT ![p] = [o \in Handles |-> 0]]
    /\ options' = [options EXCEPT ![p] = <<>>]
    /\ Freed({p} \X Builtins \cup {o \in Handles : ReleasedByParser(p)[o] = 0})
    /\ UNCHANGED <<held, statics>>

\* zozzOptionsParserRegister, by a host that still holds the option.
Register(p, o) ==
    /\ p \in live
    /\ o \in held
    /\ CanRegister(options[p], o)
    /\ options' = [options EXCEPT ![p] = Merged(@, o)]
    /\ registered' = [registered EXCEPT ![p][o] = @ + 1]
    /\ refcount' = [refcount EXCEPT ![o] = @ + 1]
    /\ UNCHANGED <<held, statics, live, value, parsed>>

\* zozzOptionsParserUnregister. The host may have let go of the option, as
\* long as it still exists.
Unregister(p, o) ==
    /\ p \in live
    /\ refcount[o] > 0
    /\ registered[p][o] > 0
    /\ options' = [options EXCEPT ![p] = Without(@, o)]
    /\ registered' = [registered EXCEPT ![p][o] = @ - 1]
    /\ refcount' = [refcount EXCEPT ![o] = @ - 1]
    /\ Freed({q \in {o} : refcount[q] = 1})
    /\ UNCHANGED <<held, statics, live>>

\* Registrer's constructor: the first static option makes the global parser.
StaticConstructed(o) ==
    LET table == TableOf(Global)
    IN  /\ o \notin statics
        /\ statics' = statics \cup {o}
        /\ live' = live \cup {Global}
        /\ options' = [options EXCEPT ![Global] =
                          IF CanRegister(table, o) THEN Merged(table, o) ELSE table]
        /\ UNCHANGED <<refcount, held, registered, value, parsed>>

\* Registrer's destructor, before or after the global parser's.
StaticDestroyed(o) ==
    /\ o \in statics
    /\ statics' = statics \ {o}
    /\ options' = IF Global \in live
                  THEN [options EXCEPT ![Global] = Without(@, o)] ELSE options
    /\ Freed({o})
    /\ UNCHANGED <<refcount, held, live, registered>>

\* ~GlobalRegistrer.
GlobalDestroyed ==
    /\ Global \in live
    /\ live' = live \ {Global}
    /\ options' = [options EXCEPT ![Global] = <<>>]
    /\ Freed({Global} \X Builtins)
    /\ UNCHANGED <<refcount, held, statics, registered>>

\* zozzOptionsParserParseCommandLine, or ParseCommandLine for the global parser.
\* (With argc = 0 it fails before it restores anything.)
Parse(p, args) ==
    /\ p \in live \cup {Global}
    /\ live' = live \cup {p}
    /\ options' = [options EXCEPT ![p] = TableOf(p)]
    /\ \E r \in {Parsed(TableOf(p), Visible(args))} :
          /\ value' = [o \in Objects |-> IF o \in DOMAIN r.value THEN r.value[o] ELSE value[o]]
          /\ parsed' = [o \in Objects |->
                            o \in r.parsed \/ (o \notin DOMAIN r.value /\ parsed[o])]
    /\ UNCHANGED <<refcount, held, statics, registered>>

\* zozzOptionRestoreDefault.
RestoreDefault(o) ==
    /\ o \in held
    /\ value' = [value EXCEPT ![o] = Attr[o].default]
    /\ parsed' = [parsed EXCEPT ![o] = FALSE]
    /\ UNCHANGED <<refcount, held, statics, live, registered, options>>

OptionCalls ==
    \E o \in Handles : CreateOption(o) \/ DestroyOption(o) \/ RestoreDefault(o)

ParserCalls ==
    \E p \in Parsers :
        \/ CreateParser(p)
        \/ DestroyParser(p)
        \/ \E o \in Handles : Register(p, o) \/ Unregister(p, o)

StaticLifetime ==
    \/ \E o \in Statics : StaticConstructed(o) \/ StaticDestroyed(o)
    \/ GlobalDestroyed

Parsing ==
    \E p \in AllParsers, args \in ArgLists : Parse(p, args)

Next == OptionCalls \/ ParserCalls \/ StaticLifetime \/ Parsing

Spec == Init /\ [][Next]_vars

-----------------------------------------------------------------------------
(* Properties.                                                             *)

\* The type of every variable; a count never goes below zero.
TypeOK ==
    /\ refcount \in [Handles -> Nat]
    /\ held \in SUBSET Handles
    /\ statics \in SUBSET Statics
    /\ live \in SUBSET AllParsers
    /\ registered \in [Parsers -> [Handles -> Nat]]
    /\ options \in [AllParsers -> Seq(Objects)]
    /\ DOMAIN value = Objects
    /\ parsed \in [Objects -> BOOLEAN]

Holders(o) == {p \in Parsers : o \in Listed(options[p])}

\* "create: +1, register: +1, unregister/destroy: -1 ... freed only once nothing
\* references it" (zozz_options.h:9-13): the count of an option is the number
\* of parsers that would follow a pointer to it, and one for its host. So no
\* table of a live parser points to a freed option, and none outlives its use.
CountsHolders ==
    \A o \in Handles :
        refcount[o] = Cardinality(Holders(o)) + (IF o \in held THEN 1 ELSE 0)

\* The parser of ozz and the binding's own list agree about what is
\* registered, once each: else unregistering would release twice or never
\* (zozz_options.cpp:148-163). The global parser lists only static options
\* that are alive.
ListsAgree ==
    /\ \A p \in Parsers, o \in Handles :
          registered[p][o] = IF o \in Listed(options[p]) THEN 1 ELSE 0
    /\ Listed(options[Global]) \cap Statics \subseteq statics

\* An option is freed when the last of its host and the tables that point to it lets
\* go, by whichever call: the counts, the lists they are counted from and the tables of
\* ozz agree between any two calls (zozz_options.cpp:56-63, 148-163).
ReferencesAgree == CountsHolders /\ ListsAgree

InOrder(s) ==
    \A i, j \in DOMAIN s :
        i < j => Before(s[i], s[j]) /\ AttrOf[s[i]].name # AttrOf[s[j]].name

\* The table of a live parser has its built-in options, no name twice, and is
\* in the order sort_options defines, however options came and went.
TableInOrder ==
    \A p \in live :
        /\ {p} \X Builtins \subseteq Listed(options[p])
        /\ Len(options[p]) <= Slots
        /\ InOrder(options[p])

\* What a parse should do where no argument fits two options of the table s:
\* named[i] is the set of options the i-th argument names.
NamedBy(s, args) ==
    [i \in DOMAIN args |-> {o \in Listed(s) : args[i] # Empty /\ Accepts(o, args[i])}]

\* The first argument that names no option, or one named before.
FirstBad(named, args) ==
    LET bad == {i \in DOMAIN args :
                   /\ args[i] # Empty
                   /\ named[i] = {} \/ \E j \in 1 .. i - 1 : named[j] = named[i]}
    IN  IF bad = {} THEN Len(args) + 1 ELSE Min(bad)

ExpectedAnswer(s, args, named) ==
    LET given == UNION {named[i] : i \in DOMAIN args}
        values(o) == IF o \in given THEN {ValueFor(o, args[i]) : i \in {k \in DOMAIN args : o \in named[k]}}
                     ELSE {AttrOf[o].default}
        exits == \E o \in Listed(s) \ (Handles \cup Statics) : TRUE \in values(o)
    IN  IF FirstBad(named, args) <= Len(args) \/ (exits /\ Len(args) # 1) THEN "exit_failure"
        ELSE IF exits THEN "exit_success"
        ELSE IF \A o \in Listed(s) : /\ AttrOf[o].required => o \in given
                                     /\ values(o) \cap AttrOf[o].refused = {}
             THEN "success"
        ELSE "exit_failure"

\* A parse depends on its arguments and on what is registered, and on nothing
\* that came before: not on earlier parses, failed ones included, of this or
\* of another parser sharing options, nor on the order of registration. An
\* argument that names no option, or one that was named before, is fatal
\* (options.cc:465); what was parsed up to it stays.
ParseHasNoMemory ==
    \A p \in live, args \in ArgLists :
        \A s \in {options[p]}, seen \in {Visible(args)} :
        \A named \in {NamedBy(s, seen)}, r \in {Parsed(s, seen)} :
            (\A i \in DOMAIN seen : Cardinality(named[i]) <= 1) =>
                LET stop == FirstBad(named, seen)
                    naming(o) == {i \in DOMAIN seen : i <= stop /\ o \in named[i]}
                    lastOf(I) == CHOOSE i \in I : \A j \in I : j <= i
                IN  /\ Verdict(p, s, r, Len(seen)) = ExpectedAnswer(s, seen, named)
                    /\ \A o \in Listed(s) :
                          /\ o \in r.parsed <=> \E i \in naming(o) : i < stop
                          /\ r.value[o] = IF naming(o) = {} THEN AttrOf[o].default
                                          ELSE ValueFor(o, seen[lastOf(naming(o))])
=============================================================================
