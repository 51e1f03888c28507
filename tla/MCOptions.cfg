CONSTANTS
    p1 = p1
    p2 = p2
    o1 = o1
    o2 = o2
    st = st
    sv = sv
    Text = Text
    Handles = {o1, o2}
    Statics = {st, sv}
    Parsers = {p1, p2}
    Global = Global
    Attr <- MCAttr
    Rank <- MCRank
    Negation <- MCNegation
    HelpName = "help"
    VersionName = "version"
    Slots = 4
    IntRange = 4
    ArgLists <- MCArgLists
    Implicit = Implicit
    Empty = Empty
    DashDash = DashDash
    Null = Null
SPECIFICATION Spec
INVARIANTS TypeOK ReferencesAgree TableInOrder ParseHasNoMemory
CONSTRAINT OneSide
SYMMETRY ParserSymmetry
