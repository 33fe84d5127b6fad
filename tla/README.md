# TLA+ models of bit_fields

bit_fields is a header-only C++20 library that packs and parses bit fields of
network packets and hardware registers. This directory models its run-time and
compile-time readers and writers, the cache simulator and the Ethernet parser
that the repository builds on them, checks the models with TLC on small
instances, and proves with TLAPS that the library, its compile-time twin, the
Ethernet parser and the cache keep their properties for every buffer size,
format, width, frame and geometry.
Paths such as `bitstream.h:443` are relative to `include/bit_fields/` and `examples/`.

## The system

| part | state | operations | who calls it |
|---|---|---|---|
| `PacketFormat`, `FieldDef`, `is_padding_field` (bitstream.h:22-92) | none, a constant table | `total_bits`, `field_index`, `bit_offset_of`, `field_width` | reader, writer |
| `BitWriter` (398-549) | a span of client memory, `bit_offset_` | constructor (zeroes the memory), `write_bits`, `serialize`, `write_aligned`, `skip_bits`, `align_to_byte`, `span_of_field`, `has_space`, `bytes_written` | clients, `serialize_address` |
| `BitReader` (150-396) | a span of client memory, `bit_offset_` | `reset`, `read_bits`, `read_field`, `deserialize`, `deserialize_into`, `read_aligned`, `skip_bits`, `align_to_byte`, `span_of_field`, `has_bits`, `verify_expected` | clients, `deserialize_address` |
| `ParsedPacket` (98-124) | values and a pointer to their format | lookup by index and by name | clients, `verify_expected` |
| `ConstexprBitReader`, `ConstexprBitWriter` (constexpr_bitstream.h) | an owned buffer, `bit_offset_` | as above, with `bool` and `optional` results | compile-time clients |
| predefined formats (formats.h, constexpr_bitstream.h:371) | constants | none | clients |
| `BackingMemory` (cache_example) | `storage_`, a map from line address to block | `write_byte`, `read_byte`, `fetch_line`, `store_line` | `main`, the cache |
| `DirectMapCache` (cache_example) | `lines_`, `hits_`, `misses_` | `read`, `write`, `flush`, `evict` | `main` |
| Ethernet example (basic_usage.cpp:57) | a frame, the parser's position in its calls | build, parse | `main` |

Reader, writer and client share the buffer: a writer ORs bits into it, a span
from `span_of_field` lets the client store bytes directly, a second writer over
the same memory clears it. The cache calls the memory, and both take addresses
apart with a little-endian reader over the bytes of a `uint32_t`.

Nothing here is concurrent: one thread makes every call. What is hard is the
order of calls and what they leave behind.

* The writer never clears a bit. Writing, skipping and padding are right only
  while everything after the cursor is zero, whatever mix of calls came before.
* The same bits can be read in five ways (`read_bits`, `read_field`,
  `deserialize`, `deserialize_into`, spans, and `read_aligned` for bytes), each
  with arithmetic of its own, in two bit orders.
* `serialize`, `deserialize` and `deserialize_into` can throw between two fields.
* `bit_offset_ + n` wraps `std::size_t`, and the loops index the span unchecked.
* Everything the library does exists twice, with exceptions for run time and
  with return values for compile time.
* The Ethernet parser decides from what one call returned which to make next,
  and its frame comes from a builder that ignores whether its calls succeeded.
* Allocation may fail inside a cache access, after the old line is gone.
* A client may write the memory directly under a line that the cache holds.

What makes each part correct: the cursor stays in the buffer; what was written
reads back and later calls do not disturb it; all ways of reading a field agree
with the layout of the format; a failed call leaves the cursor where it should;
the cache cannot be told from its memory, also when allocations fail.

## Modules

| module | models |
|---|---|
| `BitWire` | bytes and words as sets of bit positions; what the bit loops and byte loops compute |
| `PacketFormat` | formats as sequences of fields; `span_of_field` as a set of byte indices |
| `WireTape` | abstract: a tape of bits and a cursor, where writing and skipping set every bit |
| `BitWriter` | the writer; implements `WireTape` |
| `BitReader` | the reader, the parsed packet and `verify_expected` |
| `BitSession` | a writer and a reader over one memory, composed from the two |
| `ConstexprBitStream` | the compile-time classes: objects as values, methods as operators |
| `ConstexprTwins` | the compile-time classes making the same calls as the run-time ones, on top of `BitSession` |
| `Formats` | the predefined formats |
| `EthernetFrame` | the frame builder and the parser of Example 4, over `ConstexprBitStream` and `BitReader` |
| `CacheAddress` | tag, index and offset as arithmetic |
| `CacheAddressBits` | the same through the reader and writer loops on the real 6/3/23 layout |
| `FlatMemory` | abstract: one byte per address |
| `DirectMapCache` | cache and memory; implements `FlatMemory` |
| `WireProofs` | lemmas about bits, loops and layouts |
| `BitWriterProofs`, `BitReaderProofs`, `BitSessionProofs`, `ConstexprTwinsProofs`, `EthernetFrameProofs`, `CacheAddressBitsProofs`, `DirectMapCacheProofs` | the theorems of the module named first |
| `MCBitWriter`, `MCBitReader`, `MCBitSession`, `MCConstexprTwins`, `MCEthernetFrame`, `MCDirectMapCache` | constants for TLC |

**Words and buffers.** An unsigned integer is the set of the positions of its
1-bits: `value & (1 << k)` is `k \in value`. A byte is such a set over 0..7 and
a buffer a function from byte index to byte. Widths need no arithmetic on
powers of two, and 64-bit values are as cheap as small ones. The loops of
`read_bits_runtime` and `write_bits_runtime` are one comprehension each
(`GetBits`, `PutBits`): no iteration can fail, and no other code runs between
two of them.

**Calls.** A method is one action, guards in the order of the code's checks,
one disjunct per exception. The three methods that loop over a format are a
call frame (`call`) and one step per field, because they may throw half-way;
no other method can start while the frame is active. `outcome` (writer) and
`last` (reader) are what the client saw of its last call. `std::size_t` is
modulo `SizeMod`, 2^64 in the code and small in the runs.

**Field names** are strings; `PaddingNames` is the set of names that
`is_padding_field` accepts. Character tests on names are not modelled.

**Undefined behaviour.** The little-endian `read_aligned` shifts an `int`
(bitstream.h:370). `IntShiftedByte` sign-extends byte 3, and for bytes 4 to 7
`GetAligned` returns any of what a build may produce: the shift count masked,
zero, or the wide word.

**The writer's history.** `written` records each region with the value it
should hold, `filled` the bytes that may hold bits at or after the cursor which
the writer did not put there: those that the client stored through a span, and
those the cursor has gone back over. Neither is read by an action's guard. A
write over a filled byte ORs into what is there, so nothing is claimed for it.
The cursor goes back (`Rewind`) when `skip_bits` gets a width near 2^64:
`has_space` wraps and says yes, and the sum is a smaller position.

**Two objects, one memory.** `BitSession` instantiates `BitWriter` and
`BitReader` with the same `buffer`, each with its own cursor and call frame. A
step is a step of one of them while the other is not inside a call.

**Compile time.** A `ConstexprBitWriter` or `ConstexprBitReader` owns its bytes,
throws nothing and shares nothing, so it is a value, and a method is an operator
from value to value. Its loops are modelled as written, one bit and one cursor
step per iteration, while `BitWire` says in one comprehension what the run-time
loops compute: that the two agree is part of what `constexpr` checks and
`ConstexprTwinsProofs` proves. A
constexpr `serialize` is one step although its run-time twin is a loop, since
it has no exception to leave half-way; the comparison waits until the twin has
returned.

**Ethernet.** The frame is what the calls of the builder leave (`Build`), and the
sums of the reader are modulo `SizeMod`. One action takes the result of one reader call and makes the next.
The length of the frame is a variable; the reader is a parameterised instance of
`BitReader` for each length. Besides the frame of the example there are frames
without a tag, with a second tag and with another payload.

**The cache.** A miss whose insertion into `storage_` fails is an action of its
own (`AccessThrows`); in `flush` and the direct calls `oom` says so. The call
throws `std::bad_alloc` and leaves what it had done. `calls` counts accesses,
`bypassed` holds the addresses of cached lines whose memory a client wrote
directly: for these nothing is promised until the line leaves the cache or is
written back, and `FlatMemory` says in its `stale` what that may do. `Used` are
the addresses that clients use. `print_stats` and `dump` only print.

Operators under "Faulty variant" are the model with one plausible slip. No
specification uses them; each shows that a property notices that slip.

## Runs

| run | instance | shows |
|---|---|---|
| `writer_be` | 2 bytes, big-endian, formats 3/1/12, 8+8 with padding, 6/0, widths 0, 6 and 65 and one that wraps `SizeMod` 128, spans on both sides of the cursor | `TypeOK`, `InBounds`, `TailClear`, `FieldsPersist`, `SerializeFollowsLayout`, `BytesWrittenCovers`, `PrefixStable`, `SerializeNeverOverruns`, `ImplementsTape` |
| `reader_be` | 2 bytes, big-endian, spans of one and two bytes, `SizeMod` 128 with a width that wraps, four verification tables | `TypeOK`, `InBounds`, `LoopFollowsLayout`, `LoopStopsAtBadField`, `FailureIsAtomic`, `ReadFieldAgreesWithDeserialize`, `SpanAgreesWithReadField`, `AlignedAgreesWithBits`, `VerifySound`, `CallsReturn` |
| `reader_le` | 10 bytes, little-endian, two memories, a span of three bytes, a 72-bit field | `LoopFollowsLayout`, `LoopStopsAtBadField`, `SpanAgreesWithReadField`, `AlignedAgreesWithBits` |
| `session_le` | 2 bytes, little-endian, writer and reader in any order, stores through spans, new writers | `ReadsAsWritten` |
| `constexpr` | 2 bytes, big-endian, `SizeMod` 128 with a width that wraps | `WritersAgree`, `CursorsInBounds`, `ReadersAgree`, `CompileTimeRoundTrip` |
| `ethernet` | frames of 12 lengths up to 40 bytes, tagged once, twice or not, IPv4 or IPv6 | `ReportsWhatWasSent`, `ThrowsIfShort`, `ParserEnds` |
| `address` | all 32-bit addresses with at most three 1-bits or three 0-bits | `FieldsAreSlices`, `AddressRoundTrip`, `LineAddressesAgree` |
| `cache` | two lines of two bytes, two tags, four addresses, counters modulo 2 | `TypeOK`, `StatsCountAccesses`, `LinesAreBacked`, `CleanLinesMatch`, `FlushWritesBack`, `ImplementsFlatMemory` |

Four runs end in a violation, each of something a comment says:

| run | comment | code |
|---|---|---|
| `writer_padding` | "automatically skipped during parsing and serialization" (bitstream.h:33) | `serialize` writes the values passed for padding fields (495) |
| `reader_seek` | "Seeks to the field's position" (240) | `read_field` counts the field's offset from the cursor, not from the start (253), and throws for a field that is there |
| `reader_aligned_le` | "Read a byte-aligned unsigned integer" (347) | little-endian reads of 8 bytes shift an `int` (370) |
| `ethernet_example` | "Full Ethernet + VLAN deserializing" (basic_usage.cpp:57) | the frame needs 38 bytes and the array has 34 (89): the builder's last `serialize` returns false, the parser throws, and `basic_usage` aborts in Example 4 |

More observations have no run. "Check if there is space for N more bits"
(bitstream.h:441) is not what `has_space` does for a width that wraps the sum
(443): it says yes, and `skip_bits` moves the cursor back. `has_bits` (195) has
the same sum. The cursor stays in the buffer all the same (`writer_be`,
`reader_be`, `constexpr`, and the theorems `CursorInBounds`). `address` holds for a little-endian machine:
with `HostOrder = "BigEndian"` the fields are not the bit ranges that
cache_example.h:11-13 gives, because the reader views the bytes of the machine.
`ConstexprBitReader::read_field` (constexpr_bitstream.h:181) assigns an
`optional` to a `size_t` and cannot be instantiated. Example 6 says "version=2,
next_offset=0x040" (basic_usage.cpp:172) of bytes that, read little-endian as
the example does, hold version 4 and next offset 0x002.

**Bounds.** Two bytes hold a format whose fields cross the byte boundary, an
unaligned cursor on both sides of it, a full buffer, and room to fail one bit
short; the cursor, the formats and the widths 0 and 65 reach every check of
every method. Eight and ten bytes hold the widest aligned access and a field
over several bytes. Nothing in the code depends on the number of bytes beyond
that, and the proofs remove the bound. Values are all ones and
one asymmetric pattern: each bit of a value is copied on its own, and an order
or offset error moves a bit of the pattern. Two lines, two tags and two bytes
are what a conflict, an eviction and a neighbour to disturb take. Widths
of 122 (`writer_be`), 123 (`reader_be`) and 115 (`constexpr`) with `SizeMod` 128
wrap the sum of cursor and width, from the middle of a byte too. Spans of two
and three bytes have an order to get wrong. Four addresses (`Used`)
reach both lines, both tags and both bytes. The Ethernet frames have lengths on
both sides of the end of every header. The views of `session_le` and `constexpr`
(`MCView`) hide what a reader reports of its last call: no later call depends on
it, and the properties of these runs speak of steps. The constraint of
`constexpr` (`MCReadable`) does not read back what was written over an old part
after the cursor had wrapped.

**Fairness.** Weak fairness on `Step`, the steps of a loop that was entered:
the thread inside `serialize` or `deserialize` goes on until the method returns
or throws. The client owes nothing: it may stop calling at any time. In
`EthernetFrame` the client is the program: weak fairness on `Next` says that its
one thread runs the parser to its end.

## Proofs

| module | theorem | property |
|---|---|---|
| `BitWriterProofs` | `TypeCorrect`, `CursorInBounds` | `TypeOK`, `InBounds` |
| | `TailStaysClear`, `WrittenDataPersists` | `TailClear`, `FieldsPersist` |
| | `BytesWrittenSuffice`, `PrefixNeverChanges` | `BytesWrittenCovers`, `PrefixStable` |
| | `SerializeHasRoom`, `FieldsFollowLayout` | `SerializeNeverOverruns`, `SerializeFollowsLayout` |
| | `WriterImplementsTape` | `ImplementsTape` |
| `BitReaderProofs` | `TypeCorrect`, `CursorInBounds` | `TypeOK`, `InBounds` |
| | `LoopsFollowLayout`, `LoopsStopAtBadField` | `LoopFollowsLayout`, `LoopStopsAtBadField` |
| | `FailuresAreAtomic`, `VerifyIsSound` | `FailureIsAtomic`, `VerifySound` |
| | `AlignedReadsAgree` | `AlignedAgreesWithBits` |
| | `ReadFieldsAgree`, `SpansAgree` | `ReadFieldAgreesWithDeserialize`, `SpanAgreesWithReadField` |
| `BitSessionProofs` | `RoundTrip` | `ReadsAsWritten` |
| `ConstexprTwinsProofs` | `TwinWritersAgree`, `TwinReadersAgree` | `WritersAgree`, `ReadersAgree` |
| | `TwinCursorsInBounds`, `TwinRoundTrip` | `CursorsInBounds`, `CompileTimeRoundTrip` |
| `EthernetFrameProofs` | `ParserReportsWhatWasSent` | `ReportsWhatWasSent` |
| | `ParserThrowsIfShort` | `ThrowsIfShort` |
| `CacheAddressBitsProofs` | `AnyAddressRoundTrips` | `AddressRoundTrip` |
| | `FieldsAreBitRanges`, `LinesHaveOneAddress` | `FieldsAreSlices`, `LineAddressesAgree` |
| | `SerializeIsArithmetic`, `DeserializeIsArithmetic`, `NumbersDiffer` | (on operators: `CacheAddressBits` computes what `CacheAddress` does) |
| `DirectMapCacheProofs` | `TypeCorrect`, `LinesStayBacked` | `TypeOK`, `LinesAreBacked` |
| | `CleanLinesAlwaysMatch`, `StatsAreRight` | `CleanLinesMatch`, `StatsCountAccesses` |
| | `FlushIsComplete` | `FlushWritesBack` |
| | `CacheImplementsFlatMemory` | `ImplementsFlatMemory` |

**Assumptions.** The theorems about the library assume that buffer sizes are
numbers, that formats are sequences of fields, values are 64-bit words and
widths fit `std::size_t`, that the bits of a buffer and 64 more can be counted
in `std::size_t` (`WriterAssumption`, `ReaderAssumption`, `SessionAssumption`),
and that so can those of a buffer and a whole format (`FormatsFit`).
A table with a padding field of nearly 2^64 bits would compile; the repository
documents fields of 1 to 64 bits (README.md:243), and formats of those come
nowhere near. Widths that
clients pass may wrap it. `ConstexprTwins` also assumes that `deserialize_into`
may be given 64-bit outputs (`WordOutputs`). `EthernetFrame` assumes that a frame
and a header after it can be counted in `std::size_t` (`SizesAssumption`), that no
field of its headers has a padding name (`NoPadding`), and that a sender gives one
64-bit word per field, and no second tag's EtherType where there is no tag
(`RequestsAssumption`): such a frame would announce a tag that it does not have. `AddressAssumption` and
`CacheAssumption` say that a cache has a line and a line a byte, that bytes can
be 0, and that the addresses in use are addresses. The theorems on addresses
assume a little-endian host, `AnyAddressRoundTrips` and `NumbersDiffer` none. `MaxOnes` from 16 on
lets `CacheAddressBits` reach every address.

**Bits.** In `WireProofs`, a position is its byte and its bit
(`PositionUnique`), `value_bit` permutes the bits of a value, and what
`PutBits` and `PutAligned` do to each bit of the buffer (`PutBitsIsSet`,
`PutAlignedIsSet`). `BitLoopIs` says of any loop that sets one bit per
iteration that it is `PutBits`.

**Layouts.** Offsets are a recursive sum over the format. `WireProofs`
gets its induction from sets of numbers, which no operator parameter is needed
for: every set of numbers has a least one (`LeastNumber`), so a set that holds 0
and the successor of each of its numbers holds all (`UpTo`), so a recursive
function exists and has the equations of its definition (`Recursion`). Then
offsets grow, their last one is `total_bits`, and field i fills the bits from one
offset to the next. The lemmas on sums and first fields (`WidthsAscend`,
`SumOfWidths`, `FirstField`) ask for the widths alone, as the provers do not know
that a particular string is a string, so that they apply to the headers of
`Formats`, which are given field by field.

**The writer.** The inductive invariant is `Persistent`: types, bounds,
`TailClear`, `RegionsInPast` (every region of the history ends before the
cursor) and `FieldsPersist`. `FieldsPersist` is not inductive alone: that a new
region reads back needs zeros after the cursor, and that an old one stays needs
to know that it lies before it. Bit writes, aligned writes, skips and padding
share one form, `Appends(n, v)`: the cursor passes n bits, v lands in them
unless the client had filled some, nothing else changes. `StepKinds` sorts
every step into nothing (`Quiet`), an append, a rewind, a new writer or a store;
preservation, the action property and the refinement are then proved once for
each kind. A rewind is why the history shrinks and `filled` grows: what lies
after the new cursor is no longer clear, so nothing is claimed there.
`Room` adds that inside `serialize` what is left of the format fits behind the
cursor, so that no field can fail for lack of space. `SerializeFollowsLayout` is
inductive on top of `Persistent`: a field is an append at its own offset, and the
fields before it lie before the cursor.

**The reader.** `Inv` is `Typed` (types and bounds), `LoopInv`, `PacketInv` and
`LastInv`. `LoopInv` is the loop's invariant: the cursor is the start of the call
plus the offset of the next field, the values taken are those of the layout, no
earlier field is bad, and the rest of the format fits. `PacketInv` says the same of
the packet that the last loop left, finished or not, and `LastInv` what its
result implies. Every step is the answer of one call (`Answers`), a step of a
loop that is not over (`Silent`), or its end (`Ended`). The properties of the five
ways to read follow from `Inv` with the lemmas on layouts; for spans that
the bytes between two byte-aligned offsets, counted in wire order, are the field.

**The session.** The invariant is the writer's `Persistent` and the reader's
`Core`, the part of `Inv` that holds whatever others do to the memory. The
writer's half says of each written bit what it is, the reader's which bits a
call returns. Between two steps of one `deserialize` nothing writes, so its
values all come from one memory. `ReadsAsWritten` speaks of the steps of the
reader, which leave memory and writer alone.

**The twins.** `WriteLoopIs`, an instance of `BitLoopIs`, and `ReadLoopIs` prove by
induction on the iterations that the literal loops compute the comprehensions of `BitWire`;
`SerializeSteps` and `DeserializeSteps` do it field by field for the loops
over a format. A constexpr call is one step and its twin a loop, so the invariants
(`WritersInv`, `ReadersInv`) tie both to one starting object: after as many fields
as the twin has done it is where the twin is, and after all of them where the
compile-time object already is. When the loop is over the two agree. `TwinInv`
adds the invariant of the session, and with it the round trip of the run-time
reader becomes that of the compile-time one.

**The Ethernet example.** `BuildIs` says what the builder leaves: every header
that had room is in place (`Built`). The builder never looks at a result, so the
proof follows the bits instead: a writer is `Clear`, nothing set from the cursor
on, and each call keeps that and what lies before the cursor
(`SerializeKeeps`, `WriteBitsKeeps`), whether it succeeds or not. A header left out for lack of
room hides nothing, because everything the parser could read after it has no room
either. `ParserInv` is the parser's invariant, one clause per label of `pc`: what has
been reported, and for a `deserialize` under way (`Reading`) whether it goes on,
has returned the fields that were sent, or has thrown with no room for the header.
`ParserStep` has a lemma for each action. `ThrowsIfShort` then needs that the
reports of a parser that returned are all that the frame announces: the names of
what is reported are counted one at a time (`AllCounted`). The reader of each
frame length is a parameterised instance, so theorems of `BitReaderProofs` cannot
be cited for it; `DeserializeReads` and `LoopReads` prove what is needed here.

**Addresses.** A wire position p of a `uint32_t` holds the value's bit `place(p)`,
and `place` is its own inverse in either byte order: what is taken apart goes
back where it came from. On a little-endian host `place` is the identity, so the
fields are the bit ranges of the comment. `CacheAddress`, on which the cache is
modelled, has numbers instead of words. `Number` gives a word its value, one bit at a
time from the most significant one, so that no power of two is needed: the tag is
the number of the first 23 bits, and three more bits (`ThreeBits`) are a factor of
8. `SerializeIsArithmetic` and `DeserializeIsArithmetic` say that taking apart,
putting together and the line address come to the same number both ways, and
`NumbersDiffer` that no two words share a number: what is proved of the cache
for any geometry holds, on a little-endian machine, for the bit fields of the code.

**The cache.** Dividing an address and putting it together are inverse
(`TakeApart`, for any line size and number of lines). `LinesOK` (types, backed
lines, clean lines match, a bypassed block belongs to a cached line) and
`StatsOK` are inductive together; the abstract memory is what a read would
return, and each action changes it as an action of `FlatMemory` does or not at
all: an eviction moves a byte from line to block, and a fetch from block to line,
without changing what is read. That a dirty line lacks no block is what
makes a failing allocation harmless.

**Only model-checked.** Liveness (`CallsReturn`, `ParserEnds`), out of the
prover's reach, and the four violations, which a trace shows. Every safety property of a passing run is proved.

## Plan

Everything planned is done: what the table of modules lists, with the proofs above.
Liveness stays with TLC, and the parts below stay out.

## Not modelled

* The other examples of basic_usage.cpp and all of constexpr_usage.cpp are one
  or two calls on constant bytes, straight on; the calls are modelled.
* `main` of the cache example makes a fixed sequence of the calls that
  `DirectMapCache` makes in any order; `print_stats` and `dump` only print.
* Tests and benchmark are clients; build and packaging files have no behaviour.
* Lifetimes: a `ParsedPacket` that outlives its format, a span or a writer that
  outlives its buffer. Every later use is undefined, so nothing can be claimed.
* `ConstexprBitReader::read_field`, which does not compile when used.
* Character tests on field names, and the texts of exceptions.
