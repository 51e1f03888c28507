--------------------------- MODULE ArchiveFormat ---------------------------
(***************************************************************************)
(* The bytes of an ozz archive (ozz/base/io/archive.h): an endianness      *)
(* byte, then items one after another.  A tagged object is its tag, its    *)
(* version, a count and that many values; an integer is one value; binary  *)
(* data is as it is.  A value takes two bytes here, enough for its order   *)
(* to matter, and the fields of an object are one sequence of values.      *)
(*                                                                         *)
(* Reading never comes up short for ozz: HostReadStream and                *)
(* ConstMemoryStream give zeros for what is missing and remember it.       *)
(***************************************************************************)
EXTENDS Naturals, Sequences, SequencesExt

CONSTANTS
    Types,      \* the tagged types
    Skeleton,   \* the one of them that is a skeleton
    Clip,       \* the one of them that is an animation
    Tag,        \* Tag[type]: the bytes of its tag
    Version,    \* Version[type]: the version this release writes
    Supported,  \* Supported[type]: the versions its Load goes on with
    Base,       \* values are below Base * Base; 256 and 4 bytes in the code
    Native,     \* the byte order of the machine
    MaxJoints   \* the limit of ozz on joints and tracks

Orders == {"big", "little"}

ASSUME FormatAssumption ==
    /\ {Skeleton, Clip} \subseteq Types
    /\ Base \in Nat \ {0, 1} /\ Native \in Orders /\ MaxJoints \in Nat
    /\ \A type \in Types :
          /\ Tag[type] \in Seq(Nat) /\ Tag[type] # <<>>
          /\ Version[type] \in 0 .. Base * Base - 1
          /\ Version[type] \in Supported[type]
          \* Each tag ends with the one zero byte of a C string.
          /\ \A i \in DOMAIN Tag[type] : (Tag[type][i] = 0) <=> (i = Len(Tag[type]))
    /\ \A t1, t2 \in Types : Tag[t1] = Tag[t2] => t1 = t2

-----------------------------------------------------------------------------
OrderByte(order) == IF order = "big" THEN 0 ELSE 1

\* Mutant: a writer that never swaps.
NativeBytes(value, order) ==
    IF Native = "big" THEN <<value \div Base, value % Base>>
                      ELSE <<value % Base, value \div Base>>

\* operator<< of a primitive: swapped when the order is not the machine's.
Bytes(value, order) ==
    IF order = "big" THEN <<value \div Base, value % Base>>
                     ELSE <<value % Base, value \div Base>>

\* operator>> of a primitive: read as the machine's, then swapped.
ValueOf(bytes, swap) ==
    IF (Native = "big") # swap THEN bytes[1] * Base + bytes[2]
                               ELSE bytes[2] * Base + bytes[1]

Values(bytes, swap) ==
    [i \in 1 .. Len(bytes) \div 2 |-> ValueOf(SubSeq(bytes, 2 * i - 1, 2 * i), swap)]

\* What archive << item writes.
Encode(item, order) ==
    LET data == FlattenSeq([i \in DOMAIN item.data |-> Bytes(item.data[i], order)])
    IN  CASE item.kind = "binary" -> item.data
          [] item.kind = "int" -> data
          [] item.kind \in Types ->
                Tag[item.kind] \o Bytes(item.version, order)
                    \o Bytes(Len(item.data), order) \o data

-----------------------------------------------------------------------------
(***************************************************************************)
(* A cursor is a stream being read: the bytes there are up to `end`, where *)
(* the source stops, the position, whether a read came up short, and the   *)
(* bytes the last read gave.                                               *)
(***************************************************************************)
Cursor(at, failed, end) == [at |-> at, failed |-> failed, end |-> end, got |-> <<>>]

\* How many of n bytes a read gives: none once a read came up short.
There(c, n) ==
    IF c.failed THEN 0 ELSE IF n < c.end - c.at THEN n ELSE c.end - c.at

\* Mutant: a short read that is not remembered.
ReadUnlatched(file, c, n) ==
    [c EXCEPT !.at = @ + There(c, n),
              !.got = [i \in 1 .. n |-> IF i <= There(c, n) THEN file[c.at + i] ELSE 0]]

\* Mutant: a short read that moves on by what was asked for.
ReadAsked(file, c, n) ==
    [c EXCEPT !.at = @ + n,
              !.failed = @ \/ There(c, n) < n,
              !.got = [i \in 1 .. n |-> IF i <= There(c, n) THEN file[c.at + i] ELSE 0]]

\* HostReadStream::Read and ConstMemoryStream::Read.
Read(file, c, n) ==
    [c EXCEPT !.at = @ + There(c, n),
              !.failed = @ \/ There(c, n) < n,
              !.got = [i \in 1 .. n |-> IF i <= There(c, n) THEN file[c.at + i] ELSE 0]]

\* archive >> object, after its tag test: the tag again, the version, and the
\* fields if Load knows the version; if not it logs, and the object is empty.
Parse(file, c, type, swap) ==
    LET version == Read(file, Read(file, c, Len(Tag[type])), 2)
        count == Read(file, version, 2)
        data == Read(file, count, 2 * ValueOf(count.got, swap))
    IN  IF ValueOf(version.got, swap) \in Supported[type]
        THEN [cursor |-> data, data |-> Values(data.got, swap)]
        ELSE [cursor |-> version, data |-> <<>>]

\* ValidateSkeleton and ValidateAnimation, whose first field is its duration.
\* Nothing is asked of a track after the parse.
Sane(type, data) ==
    /\ type \in {Skeleton, Clip} => Len(data) <= MaxJoints
    /\ type = Clip => data # <<>> /\ data[1] > 0
=============================================================================
