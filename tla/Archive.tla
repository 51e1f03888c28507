------------------------------ MODULE Archive ------------------------------
(***************************************************************************)
(* The archive entry points of the C ABI (zozz_archive.cpp): one file, a   *)
(* writer that appends items to it through the host's stream, a reader     *)
(* that takes them back through another, and the calls that save and load  *)
(* a file of one object (zozz_internal.h).                                 *)
(*                                                                         *)
(* The host's stream may come up short at any byte of any call, and its    *)
(* seek may fail; the file may grow while it is read, and stop in the      *)
(* middle of an item for good.  The reading host keeps to the order things *)
(* were saved in: it asks for an integer where one was written, and may    *)
(* test for, and try to load, any type anywhere.                           *)
(***************************************************************************)
EXTENDS ArchiveFormat

CONSTANTS
    Items,      \* what hosts save: records of kind, version and data
    MaxItems,   \* bound on how many items a file gets
    HostFails   \* whether reads and seeks of the host may fail

ASSUME ArchiveAssumption ==
    /\ HostFails \in BOOLEAN /\ MaxItems \in Nat \ {0}
    /\ Types \cap {"int", "binary"} = {}
    /\ \A item \in Items :
          /\ item.kind \in Types \cup {"int", "binary"}
          /\ item.data \in Seq(0 .. Base * Base - 1) /\ Len(item.data) < Base * Base
          /\ item.kind = "int" => Len(item.data) = 1
          /\ item.kind \in Types =>
                Sane(item.kind, item.data) /\ item.version \in 0 .. Base * Base - 1

\* A tag test looks at bytes and cannot know what they were saved as: hosts save no
\* plain data that would be taken for a tag.
ASSUME PlainAssumption ==
    \A item \in Items, type \in Types, order \in Orders :
        item.kind \notin Types =>
            \E i \in DOMAIN Encode(item, order) \cap DOMAIN Tag[type] :
                Encode(item, order)[i] # Tag[type][i]

VARIABLES
    file,       \* the bytes of the file
    writer,     \* ZozzOArchive: open, the order it writes, HostWriteStream::failed_
    reader,     \* ZozzIArchive: open, the host's position, HostReadStream::failed_, swap
    saved,      \* the items whose save was answered OK
    taken,      \* the items whose load was answered OK
    answer      \* the last answer a reading host got, if nothing was written since

vars == <<file, writer, reader, saved, taken, answer>>

Closed == [open |-> FALSE, order |-> "big", failed |-> FALSE]
Unread == [open |-> FALSE, at |-> 0, failed |-> FALSE, swap |-> FALSE]
NoAnswer == [call |-> "none", result |-> "OK"]

Prefix(bytes, n) == SubSeq(bytes, 1, n)

\* Where the host's source may stop in a call: at its end, if nothing fails.
Stops(at) == IF HostFails THEN at .. Len(file) ELSE {Len(file)}

-----------------------------------------------------------------------------
Init ==
    /\ file = <<>>
    /\ writer = Closed
    /\ reader = Unread
    /\ saved = <<>>
    /\ taken = <<>>
    /\ answer = NoAnswer

\* zozzOArchiveCreate: its answer is OK also when the endianness byte is lost.
OArchiveCreate(order) ==
    /\ ~writer.open /\ file = <<>>
    /\ \E n \in 0 .. 1 :
          /\ file' = Prefix(<<OrderByte(order)>>, n)
          /\ writer' = [open |-> TRUE, order |-> order, failed |-> n = 0]
    /\ answer' = NoAnswer
    /\ UNCHANGED <<reader, saved, taken>>

OArchiveDestroy ==
    /\ writer.open
    /\ writer' = [writer EXCEPT !.open = FALSE]
    /\ UNCHANGED <<file, reader, saved, taken, answer>>

\* HostWriteStream::Write, called for each piece of an item: the first short
\* write is the last.
Write(bytes, n) ==
    /\ ~writer.failed
    /\ file' = file \o Prefix(bytes, n)
    /\ writer' = [writer EXCEPT !.failed = n < Len(bytes)]

\* zozzOArchiveSave*: of the item's bytes, the first n arrive.
Save(item) ==
    /\ writer.open /\ Len(saved) < MaxItems
    /\ LET bytes == Encode(item, writer.order)
       IN  \E n \in 0 .. Len(bytes) :
              /\ Write(bytes, n)
              /\ saved' = IF n = Len(bytes) THEN Append(saved, item) ELSE saved
    /\ answer' = NoAnswer
    /\ UNCHANGED <<reader, taken>>

\* zozz*SaveFile, through SaveToFile: the file is truncated first, its order
\* is the machine's, and fwrite may stop anywhere.
SaveFile(item) ==
    /\ ~writer.open /\ ~reader.open /\ item.kind \in Types
    /\ LET bytes == <<OrderByte(Native)>> \o Encode(item, Native)
       IN  \E n \in 0 .. Len(bytes) :
              /\ file' = Prefix(bytes, n)
              /\ saved' = IF n = Len(bytes) THEN <<item>> ELSE <<>>
              /\ writer' = [open |-> FALSE, order |-> Native, failed |-> n < Len(bytes)]
    /\ taken' = <<>>
    /\ answer' = NoAnswer
    /\ UNCHANGED reader

-----------------------------------------------------------------------------
\* zozzIArchiveCreate: also OK when the endianness byte cannot be read.
IArchiveCreate ==
    /\ ~reader.open
    /\ \E stop \in Stops(0) :
          LET c == Read(file, Cursor(0, FALSE, stop), 1)
          IN  reader' = [open |-> TRUE, at |-> c.at, failed |-> c.failed,
                         swap |-> c.got[1] # OrderByte(Native)]
    /\ taken' = <<>>
    /\ answer' = NoAnswer
    /\ UNCHANGED <<file, writer, saved>>

IArchiveDestroy ==
    /\ reader.open
    /\ reader' = Unread
    /\ taken' = <<>>
    /\ answer' = NoAnswer
    /\ UNCHANGED <<file, writer, saved>>

\* The next item of the file, as far as its reader has come.
AtItem == Len(taken) < Len(saved)
NextItem == saved[Len(taken) + 1]

\* Mutant: a test that stays after the tag it read.
StayAfterTag(c, back) == c

\* HostReadStream::Seek, the rewind of TestTag: refused once a read failed.
Rewind(c, back) ==
    IF c.failed THEN c
    ELSE IF back >= 0 THEN [c EXCEPT !.at = back]
    ELSE [c EXCEPT !.failed = TRUE]

\* Mutant: a test that does not compare the zero that ends the tag.
TestTagUnended(c, type, back) ==
    LET tag == Read(file, c, Len(Tag[type]))
    IN  [valid |-> Front(tag.got) = Front(Tag[type]), cursor |-> Rewind(tag, back)]

\* IArchive::TestTag: reads as many bytes as the tag has, then rewinds; -1 is
\* a rewind the host's seek fails.
TestTag(c, type, back) ==
    LET tag == Read(file, c, Len(Tag[type]))
    IN  [valid |-> tag.got = Tag[type], cursor |-> Rewind(tag, back)]

\* Where TestTag's rewind leads.
Backs == IF HostFails THEN {reader.at, -1} ELSE {reader.at}

Moved(c) == [reader EXCEPT !.at = c.at, !.failed = c.failed]

\* zozzIArchiveTest*, through PeekTag.
Test(type) ==
    /\ reader.open
    /\ \E stop \in Stops(reader.at), back \in Backs :
          LET test == TestTag(Cursor(reader.at, FALSE, stop), type, back)
          IN  IF reader.failed
              THEN /\ answer' = [call |-> "test", type |-> type, result |-> "no"]
                   /\ UNCHANGED reader
              ELSE /\ answer' = [call |-> "test", type |-> type,
                                  result |-> IF test.valid THEN "yes" ELSE "no"]
                   /\ reader' = Moved(test.cursor)
    /\ UNCHANGED <<file, writer, saved, taken>>

\* Mutant: LoadTaggedObject without its last look at failed().
ResultUnchecked(test, parsed, type) ==
    IF ~test.valid THEN "BAD_FORMAT"
    ELSE IF test.cursor.failed THEN "IO"
    ELSE IF ~Sane(type, parsed.data) THEN "BAD_FORMAT"
    ELSE "OK"

\* LoadTaggedObject and LoadTagged, then the check after the parse.
Result(test, parsed, type) ==
    IF ~test.valid THEN "BAD_FORMAT"
    ELSE IF test.cursor.failed \/ parsed.cursor.failed THEN "IO"
    ELSE IF ~Sane(type, parsed.data) THEN "BAD_FORMAT"
    ELSE "OK"

\* zozzIArchiveLoad* of a tagged type: the parse starts over where the test
\* did, and its reads may come up short where the test's did not.
Load(type) ==
    /\ reader.open /\ ~reader.failed
    /\ \E stop \in Stops(reader.at), back \in Backs :
          LET test == TestTag(Cursor(reader.at, FALSE, stop), type, back)
              found == test.valid /\ ~test.cursor.failed
          IN  \E again \in IF found THEN Stops(reader.at) ELSE {stop} :
                 LET from == [test.cursor EXCEPT !.end = again]
                     parsed == Parse(file, from, type, reader.swap)
                     result == Result(test, parsed, type)
                 IN  /\ reader' = Moved(IF found THEN parsed.cursor ELSE test.cursor)
                     /\ taken' = IF result = "OK"
                                 THEN Append(taken, [kind |-> type, data |-> parsed.data])
                                 ELSE taken
                     /\ answer' = [call |-> "load", type |-> type, result |-> result]
    /\ UNCHANGED <<file, writer, saved>>

\* Whether the host asks for what comes next, or for more than there is.
InFrame(kind, size) ==
    \/ AtItem /\ NextItem.kind = kind /\ Len(Encode(NextItem, "big")) = size
    \/ ~AtItem /\ Len(file) < reader.at + size

\* zozzIArchiveLoadInt32, LoadFloat and LoadBinary.
LoadPlain(kind, size) ==
    /\ reader.open /\ ~reader.failed /\ InFrame(kind, size)
    /\ \E stop \in Stops(reader.at) :
          LET c == Read(file, Cursor(reader.at, FALSE, stop), size)
              data == IF kind = "int" THEN Values(c.got, reader.swap) ELSE c.got
          IN  /\ reader' = Moved(c)
              /\ taken' = IF c.failed THEN taken
                          ELSE Append(taken, [kind |-> kind, data |-> data])
              /\ answer' = [call |-> "plain", result |-> IF c.failed THEN "IO" ELSE "OK"]
    /\ UNCHANGED <<file, writer, saved>>

\* zozz*LoadFile, through LoadFromFile and LoadTagged: the whole file in
\* memory, then parsed there; an empty file is refused before.
LoadFile(type) ==
    /\ \E whole \in {TRUE, ~HostFails} :
          LET start == Read(file, Cursor(0, FALSE, Len(file)), 1)
              test == TestTag(start, type, start.at)
              parsed == Parse(file, test.cursor, type, start.got[1] # OrderByte(Native))
          IN  answer' =
                [call |-> "file", type |-> type, data |-> parsed.data,
                 result |-> IF file = <<>> THEN "BAD_FORMAT"
                            ELSE IF ~whole THEN "IO"
                            ELSE Result(test, parsed, type)]
    /\ UNCHANGED <<file, writer, reader, saved, taken>>

-----------------------------------------------------------------------------
Sizes == {Len(item.data) : item \in {i \in Items : i.kind = "binary"}}

Next ==
    \/ \E order \in Orders : OArchiveCreate(order)
    \/ OArchiveDestroy
    \/ \E item \in Items : Save(item) \/ SaveFile(item)
    \/ IArchiveCreate
    \/ IArchiveDestroy
    \/ \E type \in Types : Test(type) \/ Load(type) \/ LoadFile(type)
    \/ LoadPlain("int", 2)
    \/ \E size \in Sizes : LoadPlain("binary", size)

Spec == Init /\ [][Next]_vars

-----------------------------------------------------------------------------
Results == {"OK", "IO", "BAD_FORMAT"}

\* Type invariant: the file is bytes, the handles are well formed and the
\* reader is inside the file.
TypeOK ==
    /\ file \in Seq(Nat)
    /\ writer \in [open : BOOLEAN, order : Orders, failed : BOOLEAN]
    /\ reader \in [open : BOOLEAN, at : Nat, failed : BOOLEAN, swap : BOOLEAN]
    /\ reader.at <= Len(file)
    /\ saved \in Seq(Items) /\ Len(saved) <= MaxItems
    /\ \A i \in DOMAIN taken : taken[i].kind \in Types \cup {"int", "binary"}
    /\ answer.result \in Results \cup {"yes", "no"}

\* The bytes of the items 1 .. n, and where the item after them starts.
Image(n) ==
    <<OrderByte(writer.order)>>
        \o FlattenSeq([i \in 1 .. n |-> Encode(saved[i], writer.order)])
Start(n) == Len(Image(n))

\* A save answered OK is in the file whole, after the ones before it, and as
\* long as no write came up short there is nothing else (HostWriteStream).
WrittenIsSaved ==
    /\ saved # <<>> => IsPrefix(Image(Len(saved)), file)
    /\ writer.open /\ ~writer.failed => file = Image(Len(saved))

\* What a reader is given is what was saved, in order, whatever was cut short
\* on either side: a load that came up short is never answered OK, and zeros
\* put in for missing bytes never reach the host as an object.
TakenIsSaved ==
    /\ Len(taken) <= Len(saved)
    /\ \A i \in DOMAIN taken :
          taken[i].kind = saved[i].kind /\ taken[i].data = saved[i].data

\* What a save answered OK for reaches the file, and through it a reader, whole and in order,
\* whichever side is cut short on the way (HostWriteStream, HostReadStream, archive.h).
SavesReachReaders == WrittenIsSaved /\ TakenIsSaved

\* A reader nothing failed is where its next item starts, also after tests
\* and loads of the wrong type.
StaysInStep ==
    reader.open /\ ~reader.failed => reader.at = Start(Len(taken))

\* A test for a type is answered truthfully of the next item, as long as
\* nothing failed (TestTag compares the tag with its terminating zero).
TestTells ==
    answer.call = "test" /\ reader.open /\ ~reader.failed /\ AtItem =>
        (answer.result = "yes" <=> NextItem.kind = answer.type)

\* A file loaded whole holds what it was saved with, or is refused.
FileLoadsWhole ==
    answer.call = "file" /\ answer.result = "OK" =>
        /\ saved # <<>> /\ saved[1].kind = answer.type
        /\ saved[1].data = answer.data

-----------------------------------------------------------------------------
\* zozz_archive.h on tag sniffing: "Whichever answer comes back, the read
\* position is exactly where it was before the call".
SniffingKeepsPosition ==
    [][answer' # answer /\ answer'.call = "test" => reader'.at = reader.at]_vars

\* zozz_internal.h on the checks after the parse: they reject "the shape a
\* truncated or version-mismatched archive produces".
VersionMismatchRejected ==
    \A i \in DOMAIN taken :
        taken[i].kind \in {Skeleton, Clip} =>
            i <= Len(saved) /\ saved[i].version \in Supported[taken[i].kind]
=============================================================================
