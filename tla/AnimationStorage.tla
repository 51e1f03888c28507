-------------------------- MODULE AnimationStorage -------------------------
(***************************************************************************)
(* How a runtime animation keeps its streams (animation.cc): one buffer of *)
(* spans; times as indices, of one byte or of two, in a table of time      *)
(* points that all channels share; iframes encoded by group varint.  The   *)
(* builder writes it (animation_builder.cc), archives save and load it     *)
(* span by span, and the sampler reads it (sampling_job.cc).               *)
(*                                                                         *)
(* Group varint (group_varint.cc) writes integers of one to four bytes,    *)
(* four at a time behind a prefix that holds their lengths; the C ABI      *)
(* offers it to hosts as well (zozz_encode.cpp).  A byte is a digit in     *)
(* base ByteBase, least significant first; a prefix, a byte in the code    *)
(* as well, is the number it holds.  Places in a buffer count from 0.      *)
(*                                                                         *)
(* The value of a key stands for the key it was compressed from, that is   *)
(* its track, and the interval of iframes for its inverse.                 *)
(***************************************************************************)
EXTENDS KeyStream, SequencesExt

CONSTANT ByteBase    \* values of a byte; 256 in the code

\* A SoA block is of whole groups of four.
ASSUME StorageAssumption == ByteBase \in Nat \ {0, 1} /\ SoaWidth % 4 = 0

-----------------------------------------------------------------------------
(* Group varint.                                                           *)

\* What the digits of a value of four bytes count.
Weight == <<1, ByteBase, ByteBase * ByteBase, ByteBase * ByteBase * ByteBase>>

UInt32 == 0 .. Weight[4] * ByteBase - 1

\* The number of bytes of a value, less one.
tag(v) ==
    IF v >= Weight[4] THEN 3 ELSE IF v >= Weight[3] THEN 2 ELSE IF v >= Weight[2] THEN 1 ELSE 0

\* store writes four bytes; those behind the value's own are written over, or cut off.
store(v) == [n \in 1 .. tag(v) + 1 |-> (v \div Weight[n]) % ByteBase]

load(buffer, at) ==
    buffer[at + 1] + buffer[at + 2] * Weight[2] + buffer[at + 3] * Weight[3]
        + buffer[at + 4] * Weight[4]

Masked(v, length) == v % (Weight[length + 1] * ByteBase)

DecodePrefix(prefix) == <<prefix % 4, (prefix \div 4) % 4, (prefix \div 16) % 4, prefix \div 64>>

EncodeGV4(input) ==
    <<tag(input[4]) * 64 + tag(input[3]) * 16 + tag(input[2]) * 4 + tag(input[1])>>
    \o store(input[1]) \o store(input[2]) \o store(input[3]) \o store(input[4])

\* Where value n of the group at `at` starts; n = 5 for the end of the group.
Place4(buffer, at, n) ==
    LET k == DecodePrefix(buffer[at + 1])
    IN  at + n + (CASE n = 1 -> 0 [] n = 2 -> k[1] [] n = 3 -> k[1] + k[2]
                    [] n = 4 -> k[1] + k[2] + k[3] [] n = 5 -> k[1] + k[2] + k[3] + k[4])

DecodeGV4(buffer, at) ==
    [n \in 1 .. 4 |->
        Masked(load(buffer, Place4(buffer, at, n)), DecodePrefix(buffer[at + 1])[n])]

ComputeGV4WorstBufferSize(stream) == Len(stream) * 4 + Len(stream) \div 4

Group(stream, g) == SubSeq(stream, 4 * g - 3, 4 * g)

EncodeGV4Stream(stream) ==
    FlattenSeq([g \in 1 .. Len(stream) \div 4 |-> EncodeGV4(Group(stream, g))])

\* `count` values, from `at` on.
DecodeGV4Stream(buffer, at, count) ==
    LET Start[g \in 1 .. count \div 4] ==
            IF g = 1 THEN at ELSE Place4(buffer, Start[g - 1], 5)
    IN  FlattenSeq([g \in 1 .. count \div 4 |-> DecodeGV4(buffer, Start[g])])
-----------------------------------------------------------------------------
(* Time points.                                                            *)

MaxTimePoints == ByteBase * ByteBase - 1

\* sizeof_ratio in Allocate.
SizeofRatio(timepoints) == IF Len(timepoints) <= ByteBase - 1 THEN 1 ELSE 2

\* Compress: an index as it is stored.
RatioBytes(timepoints, index) ==
    IF SizeofRatio(timepoints) = 1 THEN <<index % ByteBase>>
    ELSE <<index % ByteBase, (index \div ByteBase) % ByteBase>>

\* KeyRatio.
KeyRatio(timepoints, ratios, at) ==
    LET index == IF Len(timepoints) <= ByteBase - 1 THEN ratios[at + 1]
                 ELSE ratios[2 * at + 1] + ratios[2 * at + 2] * ByteBase
    IN  timepoints[index + 1]

\* lower_bound in the sorted time points.
TimePointToIndex(timepoints, time) == Cardinality({n \in DOMAIN timepoints : timepoints[n] < time})

-----------------------------------------------------------------------------
(* Iframes.                                                                *)

Row(entries) == [n \in 1 .. Cardinality(DOMAIN entries) |-> entries[n - 1]]

Encoded(iframes) == [n \in DOMAIN iframes |-> EncodeGV4Stream(Row(iframes[n].entries))]

\* BuildIFrames: for every iframe, where its entries start and its last key.
IFrameDesc(iframes) ==
    FlattenSeq([n \in DOMAIN iframes |->
        <<Len(FlattenSeq(SubSeq(Encoded(iframes), 1, n - 1))), iframes[n].last>>])

\* The buffer entries are encoded to holds all that the encoder stores, which is four
\* bytes for the last value whatever its length.
EncodedInside(stream) ==
    Len(EncodeGV4Stream(stream)) + 3 - tag(Last(stream)) <= ComputeGV4WorstBufferSize(stream)

-----------------------------------------------------------------------------
(* The animation.                                                          *)

\* Compress, and CopyTimePoints and CopyIFrames: `keys` are the times of the stream's
\* keys and `times` the time points. Offsets are of two bytes.
StoredCtrl(s, keys, times, maxPrevious) ==
    [ratios |-> FlattenSeq([n \in 1 .. s.keys |->
                    RatioBytes(times, TimePointToIndex(times, keys[n]))]),
     previouses |-> [n \in 1 .. s.keys |-> s.previous[n - 1] % (maxPrevious + 1)],
     iframe_entries |-> FlattenSeq(Encoded(s.iframes)),
     iframe_desc |-> IFrameDesc(s.iframes),
     iframe_interval |-> IF s.iframes = <<>> THEN 1 ELSE Len(s.iframes)]

StoredValues(s) == [n \in 1 .. s.keys |-> s.track[n - 1]]

\* What the sampler finds; `after` is what follows the entries in memory.
ReadBack(animation, c, after) ==
    LET ctrl   == animation.ctrl[c]
        tracks == SoaWidth * ((animation.num_tracks + SoaWidth - 1) \div SoaWidth)
        keys   == 0 .. Len(ctrl.previouses) - 1
        bytes  == ctrl.iframe_entries \o after
        Iframe(n) ==
            LET row == DecodeGV4Stream(bytes, ctrl.iframe_desc[2 * n - 1], tracks)
            IN  [entries |-> [t \in 0 .. tracks - 1 |-> row[t + 1]], last |-> ctrl.iframe_desc[2 * n]]
    IN  [tracks   |-> tracks,
         keys     |-> Len(ctrl.previouses),
         ratio    |-> [k \in keys |-> KeyRatio(animation.timepoints, ctrl.ratios, k)],
         track    |-> [k \in keys |-> animation.values[c][k + 1]],
         previous |-> [k \in keys |-> ctrl.previouses[k + 1]],
         iframes  |-> [n \in 1 .. Len(ctrl.iframe_desc) \div 2 |-> Iframe(n)]]
-----------------------------------------------------------------------------
(* Allocation: one buffer, from which spans are served.                    *)

\* The sum of the first n of some numbers.
SumOf(numbers, n) ==
    LET Sum[k \in 0 .. Len(numbers)] == IF k = 0 THEN 0 ELSE Sum[k - 1] + numbers[k]
    IN  Sum[n]

\* A span: its elements, their size and their alignment.
Span(count, size, align) == [bytes |-> count * size, align |-> align]

SpansOf(animation) ==
    LET ctrl == animation.ctrl
        keys(c) == Len(ctrl[c].previouses)
        PerChannel(Span1(_)) == [c \in 1 .. Channels |-> Span1(c)]
        name_len == Len(animation.name)
    IN  <<Span(Len(animation.timepoints), 4, 4)>>
        \o PerChannel(LAMBDA c : Span(Len(ctrl[c].iframe_desc), 4, 4))
        \o PerChannel(LAMBDA c : Span(keys(c), 2, 2))
        \o PerChannel(LAMBDA c : Span(keys(c), 6, 2))
        \o PerChannel(LAMBDA c : Span(keys(c) * SizeofRatio(animation.timepoints), 1,
                                      SizeofRatio(animation.timepoints)))
        \o PerChannel(LAMBDA c : Span(Len(ctrl[c].iframe_entries), 1, 1))
        \o IF name_len > 0 THEN <<Span(name_len + 1, 1, 1)>> ELSE <<>>

\* What Allocate asks for.
BufferSize(animation) ==
    LET ctrl == animation.ctrl
        name_len == Len(animation.name)
        OfChannel(c) ==
            Len(ctrl[c].previouses) * (6 + SizeofRatio(animation.timepoints) + 2)
            + Len(ctrl[c].iframe_entries) + Len(ctrl[c].iframe_desc) * 4
    IN  (IF name_len > 0 THEN name_len + 1 ELSE 0)
        + Len(animation.timepoints) * 4
        + SumOf([c \in 1 .. Channels |-> OfChannel(c)], Channels)

Start(spans, n) == SumOf([k \in DOMAIN spans |-> spans[k].bytes], n - 1)

\* Every span starts at its alignment and the spans use up the buffer.
Allocated(animation) ==
    LET spans == SpansOf(animation) IN
    /\ \A n \in DOMAIN spans : Start(spans, n) % spans[n].align = 0
    /\ Start(spans, Len(spans) + 1) = BufferSize(animation)

-----------------------------------------------------------------------------
(* Archives: the counts Load needs to allocate, then the spans.            *)

Counts(animation) ==
    <<animation.duration, animation.num_tracks, Len(animation.name), Len(animation.timepoints)>>
    \o [c \in 1 .. Channels |-> Len(animation.values[c])]
    \o FlattenSeq([c \in 1 .. Channels |->
           <<Len(animation.ctrl[c].iframe_entries), Len(animation.ctrl[c].iframe_desc)>>])

\* The arrays of a channel, in the order in which they are written.
ArraysOf(animation, c) ==
    LET ctrl == animation.ctrl[c]
    IN  <<ctrl.ratios, ctrl.previouses, ctrl.iframe_entries, ctrl.iframe_desc,
          <<ctrl.iframe_interval>>, animation.values[c]>>

Save(animation) ==
    FlattenSeq(<<Counts(animation), animation.name, animation.timepoints>>
               \o FlattenSeq([c \in 1 .. Channels |-> ArraysOf(animation, c)]))

\* The sizes of the arrays of a channel, from the counts.
LoadedSizes(file, c) ==
    LET keys == file[4 + c]
        sizeof_ratio == IF file[4] <= ByteBase - 1 THEN 1 ELSE 2
    IN  <<keys * sizeof_ratio, keys, file[3 + Channels + 2 * c], file[4 + Channels + 2 * c], 1, keys>>

Load(file) ==
    LET sizes == <<4 + 3 * Channels, file[3], file[4]>>
                 \o FlattenSeq([c \in 1 .. Channels |-> LoadedSizes(file, c)])
        Part(n) == SubSeq(file, SumOf(sizes, n - 1) + 1, SumOf(sizes, n))
        Of(c, n) == Part(3 + 6 * (c - 1) + n)
    IN  [duration   |-> file[1],
         num_tracks |-> file[2],
         name       |-> Part(2),
         timepoints |-> Part(3),
         ctrl       |-> [c \in 1 .. Channels |->
                            [ratios |-> Of(c, 1), previouses |-> Of(c, 2), iframe_entries |-> Of(c, 3),
                             iframe_desc |-> Of(c, 4), iframe_interval |-> Of(c, 5)[1]]],
         values     |-> [c \in 1 .. Channels |-> Of(c, 6)]]
=============================================================================
