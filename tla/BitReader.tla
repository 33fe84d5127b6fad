----------------------------- MODULE BitReader -----------------------------
(***************************************************************************)
(* BitReader<Order>: a cursor over bytes it never changes.                 *)
(*                                                                         *)
(* deserialize and deserialize_into are loops that may throw between two   *)
(* fields: a call frame and one step per field.  The other methods are one *)
(* action each.  last is what the client saw of its last call and packet   *)
(* what it holds of the last loop: the ParsedPacket, or the output         *)
(* variables, of which a loop that threw has assigned only the first ones. *)
(* std::size_t arithmetic is modulo SizeMod (2^64).                        *)
(***************************************************************************)
EXTENDS BitWire, PacketFormat, FiniteSets

CONSTANTS
  Order,     \* WireOrder of the template
  BufSize,   \* buffer_.size()
  SizeMod,   \* number of values of std::size_t
  Memories,  \* contents of the buffer
  Widths,    \* run-time arguments of read_bits_runtime and skip_bits
  Formats,   \* formats parsed
  OutWidths, \* widths of the types of deserialize_into's outputs
  Tables     \* arguments of verify_expected

Cap == 8 * BufSize

\* ExpectedField and ExpectedCheck: a name and the values it accepts.
Expected == [name : STRING, accepts : SUBSET Word]

ASSUME ReaderAssumption ==
  /\ Order \in Orders
  /\ BufSize \in Nat
  /\ SizeMod \in Nat /\ Cap + 64 < SizeMod
  /\ Memories \subseteq Buffers(BufSize)
  /\ Widths \subseteq 0 .. SizeMod - 1
  /\ Formats \subseteq Seq(FieldDef)
  /\ OutWidths \subseteq {8, 16, 32, 64}
  /\ \A table \in Tables : table \in Seq(Expected)

\* Formats are compile-time tables of fields documented as 1 to 64 bits wide
\* (README.md:243): their totals do not overflow std::size_t.
ASSUME FormatsFit == \A f \in Formats : Cap + total_bits(f) < SizeMod

VARIABLES
  buffer,       \* the bytes behind the span
  bit_offset_,  \* the cursor
  call,         \* the active loop, op = "none" if there is none
  packet,       \* what the last loop gave the client
  last          \* the last call: arguments, status, value, cursor before it

vars == <<buffer, bit_offset_, call, packet, last>>

Frame(op, format, types) ==
  [op |-> op, format |-> format, types |-> types, from |-> bit_offset_, values |-> <<>>]
NoFrame == [op |-> "none", format |-> <<>>, types |-> <<>>, from |-> 0, values |-> <<>>]
Idle == call.op = "none"

Statuses == {"ok", "true", "false", "invalid_argument", "out_of_range", "logic_error"}

HasBitsAt(pos, n) == (pos + n) % SizeMod <= Cap
has_bits(n) == HasBitsAt(bit_offset_, n)

-----------------------------------------------------------------------------
(* What a call leaves behind: the call with its arguments and its result.  *)

NoCall == [op |-> "none", n |-> 0, format |-> <<>>, name |-> "", table |-> <<>>]
NumCall(op, n) == [NoCall EXCEPT !.op = op, !.n = n]
FieldCall(op, format, name) == [NoCall EXCEPT !.op = op, !.format = format, !.name = name]
TableCall(op, format, table) == [NoCall EXCEPT !.op = op, !.format = format, !.table = table]

Result(c, from, status, value) ==
  [c |-> c, from |-> from, status |-> status, value |-> value]

NoResult == Result(NoCall, 0, "ok", {})

\* c ends with status and value and leaves the cursor at pos.
EndAt(c, pos, status, value) ==
  /\ bit_offset_' = pos
  /\ last' = Result(c, bit_offset_, status, value)
  /\ UNCHANGED <<buffer, call, packet>>

Throw(c, error) == EndAt(c, bit_offset_, error, {})

Init ==
  /\ buffer \in Memories
  /\ bit_offset_ = 0
  /\ call = NoFrame
  /\ packet = NoFrame
  /\ last = NoResult

-----------------------------------------------------------------------------
reset == Idle /\ EndAt(NumCall("reset", 0), 0, "ok", {})

\* Faulty variants: one of the two limits of the width is not checked.
CanReadAt_zero(pos, n) == n <= 64 /\ HasBitsAt(pos, n)
CanReadAt_wide(pos, n) == n > 0 /\ HasBitsAt(pos, n)

CanReadAt(pos, n) == n \in 1 .. 64 /\ HasBitsAt(pos, n)

\* What read_bits_runtime throws if it cannot, in the order of its checks.
ReadError(n) == IF n \in 1 .. 64 THEN "out_of_range" ELSE "invalid_argument"

\* read_bits_runtime(n) with the cursor at pos, on behalf of the call c.
ReadAt(c, pos, n) ==
  \/ CanReadAt(pos, n) /\ EndAt(c, pos + n, "ok", GetBits(Order, buffer, pos, n))
  \/ ~CanReadAt(pos, n) /\ EndAt(c, pos, ReadError(n), {})

ReadBits(n) == Idle /\ ReadAt(NumCall("read_bits", n), bit_offset_, n)

KnownField(format, name) ==
  field_index(format, name) # 0 /\ field_width(format, name) # 0

(***************************************************************************)
(* has_bits(offset + width) counts from the cursor although offset counts  *)
(* from the start of the buffer.  The seek precedes the width check of     *)
(* read_bits_runtime, so a field wider than 64 bits throws with the cursor *)
(* already moved.                                                          *)
(***************************************************************************)
ReadField(format, name) ==
  LET c == FieldCall("read_field", format, name)
      offset == bit_offset_of(format, name)
      width == field_width(format, name)
      found == KnownField(format, name) /\ has_bits(offset + width)
  IN  /\ Idle
      /\ \/ ~found /\ Throw(c, "out_of_range")
         \/ found /\ ReadAt(c, offset, width)

ReadAligned(k) ==
  LET c == NumCall("read_aligned", k)
  IN  /\ Idle
      /\ \/ bit_offset_ % 8 # 0 /\ Throw(c, "logic_error")
         \/ bit_offset_ % 8 = 0 /\ ~has_bits(8 * k) /\ Throw(c, "out_of_range")
         \/ /\ bit_offset_ % 8 = 0 /\ has_bits(8 * k)
            /\ \E value \in GetAligned(Order, buffer, byte_idx(bit_offset_), k) :
                 EndAt(c, bit_offset_ + 8 * k, "ok", value)

SkipBits(n) ==
  LET c == NumCall("skip_bits", n)
  IN  /\ Idle
      /\ \/ ~has_bits(n) /\ Throw(c, "out_of_range")
         \/ has_bits(n) /\ EndAt(c, (bit_offset_ + n) % SizeMod, "ok", {})

\* Faulty variant: moves on from a boundary too.
AlignToByte_always ==
  Idle /\ EndAt(NumCall("align_to_byte", 0), (byte_idx(bit_offset_) + 1) * 8, "ok", {})

AlignToByte ==
  /\ Idle
  /\ EndAt(NumCall("align_to_byte", 0),
           IF bit_offset_ % 8 # 0 THEN (byte_idx(bit_offset_) + 1) * 8 ELSE bit_offset_,
           "ok", {})

-----------------------------------------------------------------------------
(* deserialize and deserialize_into.                                       *)

\* Faulty variant: the bits of the format are not checked.
Begin_unchecked(op, format, types) ==
  /\ Idle
  /\ call' = Frame(op, format, types)
  /\ last' = NoResult
  /\ UNCHANGED <<buffer, bit_offset_, packet>>

\* Both check the whole format first; types is empty for deserialize.
Begin(op, format, types) ==
  /\ Idle
  /\ \/ /\ ~has_bits(total_bits(format))
        /\ Throw(FieldCall(op, format, ""), "out_of_range")
     \/ /\ has_bits(total_bits(format))
        /\ call' = Frame(op, format, types)
        /\ last' = NoResult
        /\ UNCHANGED <<buffer, bit_offset_, packet>>

Deserialize(format) == Begin("deserialize", format, <<>>)
DeserializeInto(format, types) == Begin("deserialize_into", format, types)

\* The loop ends.  An exception takes the ParsedPacket with it, not the
\* output variables.
EndLoop(status) ==
  /\ last' = Result(FieldCall(call.op, call.format, ""), call.from, status, {})
  /\ packet' = IF status = "ok" \/ call.op = "deserialize_into" THEN call ELSE packet
  /\ call' = NoFrame
  /\ UNCHANGED <<buffer, bit_offset_>>

\* The static_cast to the type of output i.
Narrow(i, value) == IF call.types = <<>> THEN value ELSE Truncate(value, call.types[i])

NextIdx == Len(call.values) + 1

\* Faulty variants: every field takes whole bytes; the index is not advanced.
TakeField_bytes(n, value) ==
  /\ bit_offset_' = bit_offset_ + 8 * ((n + 7) \div 8)
  /\ call' = [call EXCEPT !.values = Append(@, value)]
  /\ UNCHANGED <<buffer, packet, last>>
TakeField_stuck(n, value) ==
  /\ bit_offset_' = (bit_offset_ + n) % SizeMod
  /\ UNCHANGED <<buffer, call, packet, last>>

TakeField(n, value) ==
  /\ bit_offset_' = (bit_offset_ + n) % SizeMod
  /\ call' = [call EXCEPT !.values = Append(@, value)]
  /\ UNCHANGED <<buffer, packet, last>>

LoopField ==
  /\ ~Idle /\ NextIdx <= Len(call.format)
  /\ LET n == call.format[NextIdx].bit_width
         padding == is_padding_field(call.format[NextIdx].name)
         legal == IF padding THEN has_bits(n) ELSE CanReadAt(bit_offset_, n)
     IN  \/ /\ legal
            /\ TakeField(n, IF padding THEN {}
                            ELSE Narrow(NextIdx, GetBits(Order, buffer, bit_offset_, n)))
         \/ ~legal /\ EndLoop(IF padding THEN "out_of_range" ELSE ReadError(n))

LoopReturn ==
  /\ ~Idle /\ NextIdx > Len(call.format)
  /\ EndLoop("ok")

-----------------------------------------------------------------------------
(* verify_expected, on the ParsedPacket of the last deserialize.           *)

Known(parsed, entry) == field_index(parsed.format, entry.name) # 0
Get(parsed, name) == parsed.values[field_index(parsed.format, name)]
Passes(parsed, entry) == Known(parsed, entry) /\ Get(parsed, entry.name) \in entry.accepts

\* Faulty variant: all names are looked up before any value is compared.
VerifyStatus_names_first(parsed, table) ==
  IF \E i \in 1 .. Len(table) : ~Known(parsed, table[i]) THEN "out_of_range"
  ELSE IF \A i \in 1 .. Len(table) : Passes(parsed, table[i]) THEN "true" ELSE "false"

\* The entries are tried in order and the first that does not pass decides.
VerifyStatus(parsed, table) ==
  LET stops == {i \in 1 .. Len(table) : ~Passes(parsed, table[i])}
  IN  IF stops = {} THEN "true"
      ELSE LET first == CHOOSE i \in stops : \A j \in stops : i <= j
           IN  IF Known(parsed, table[first]) THEN "false" ELSE "out_of_range"

VerifyExpected(table) ==
  /\ Idle
  /\ packet.op = "deserialize"
  /\ Throw(TableCall("verify_expected", packet.format, table), VerifyStatus(packet, table))

-----------------------------------------------------------------------------
FieldNames(format) == {format[i].name : i \in 1 .. Len(format)}

\* A name that no format has.
Unknown == "no such field"

Step == LoopField \/ LoopReturn

ApiCall ==
  \/ reset
  \/ \E n \in Widths : ReadBits(n) \/ SkipBits(n)
  \/ \E f \in Formats : \E name \in FieldNames(f) \cup {Unknown} : ReadField(f, name)
  \/ \E k \in AlignedSizes : ReadAligned(k)
  \/ AlignToByte
  \/ \E f \in Formats :
       \/ Deserialize(f)
       \/ \E types \in [1 .. Len(f) -> OutWidths] : DeserializeInto(f, types)
  \/ \E table \in Tables : VerifyExpected(table)

Next == Step \/ ApiCall

\* The thread that entered a loop runs it to its end.
Spec == Init /\ [][Next]_vars /\ WF_vars(Step)

-----------------------------------------------------------------------------
Frames ==
  [op : {"none", "deserialize", "deserialize_into"}, format : {<<>>} \cup Formats,
   types : Seq(OutWidths), from : 0 .. Cap, values : Seq(Word)]

TypeOK ==
  /\ buffer \in Memories
  /\ bit_offset_ \in Nat
  /\ call \in Frames
  /\ packet \in Frames
  /\ last.status \in Statuses
  /\ last.from \in 0 .. Cap
  /\ last.value \in Word

(***************************************************************************)
(* No sequence of calls, even with widths that wrap has_bits, moves the    *)
(* cursor past the end of the buffer, which is what keeps the unchecked    *)
(* buffer_[byte_idx] of the loops inside the span.                         *)
(***************************************************************************)
InBounds == bit_offset_ <= Cap

\* What the layout says field i of the format holds if it starts at bit from.
LayoutValue(format, from, i) ==
  IF is_padding_field(format[i].name) THEN {}
  ELSE GetBits(Order, buffer, from + FieldOffsets(format)[i - 1], format[i].bit_width)

(***************************************************************************)
(* The values that deserialize returns and deserialize_into assigns are    *)
(* those at the offsets PacketFormat computes, wherever the parse started, *)
(* cut to the output's type: the running cursor of the loop and the layout *)
(* behind read_field and span_of_field never drift apart, across padding   *)
(* and misaligned fields alike.  After a throw the outputs before the bad  *)
(* field still hold such values.                                           *)
(***************************************************************************)
LoopFollowsLayout ==
  \A i \in 1 .. Len(packet.values) :
    packet.values[i] =
      LET value == LayoutValue(packet.format, packet.from, i)
      IN  IF packet.types = <<>> THEN value ELSE Truncate(value, packet.types[i])

BadField(field) == ~is_padding_field(field.name) /\ field.bit_width \notin 1 .. 64

(***************************************************************************)
(* A loop over a format with a field of illegal width throws and leaves    *)
(* the cursor just before the first such field and only the outputs before *)
(* it assigned; padding of any width is no reason to throw.                *)
(***************************************************************************)
LoopStopsAtBadField ==
  last.c.op \in {"deserialize", "deserialize_into"} /\ last.status # "out_of_range" =>
    LET format == last.c.format
        bad == {i \in 1 .. Len(format) : BadField(format[i])}
        stop == IF bad = {} THEN Len(format) + 1 ELSE CHOOSE i \in bad : \A j \in bad : i <= j
    IN  /\ last.status = IF bad = {} THEN "ok" ELSE "invalid_argument"
        /\ bit_offset_ = last.from + FieldOffsets(format)[stop - 1]
        /\ last.c.op = "deserialize_into" => Len(packet.values) = stop - 1

(***************************************************************************)
(* out_of_range and logic_error mean that nothing was read: the cursor is  *)
(* where the call found it.  For the loops this holds because the check of *)
(* the whole format rules out running out of bits half-way.                *)
(***************************************************************************)
FailureIsAtomic ==
  last.status \in {"out_of_range", "logic_error"} => bit_offset_ = last.from

(***************************************************************************)
(* read_field, which looks the field up, returns what deserialize of the   *)
(* same format from the start of the buffer put under that name.           *)
(***************************************************************************)
ReadFieldAgreesWithDeserialize ==
  /\ last.c.op = "read_field" /\ last.status = "ok"
  /\ packet.op = "deserialize" /\ packet.from = 0 /\ packet.format = last.c.format
  /\ ~is_padding_field(last.c.name)
  => last.value = Get(packet, last.c.name)

(***************************************************************************)
(* The bytes of span_of_field, put together in wire order, are the value   *)
(* that read_field returns for the same field.                             *)
(***************************************************************************)
SpanAgreesWithReadField ==
  last.c.op = "read_field" /\ last.status = "ok" =>
    LET bytes == SpanBytes(last.c.format, last.c.name, BufSize)
    IN  bytes # {} =>
          last.value = UNION {
            ShiftedByte(buffer[b],
                        Cardinality({c \in bytes : IF Order = "BigEndian" THEN c > b ELSE c < b}))
            : b \in bytes}

(***************************************************************************)
(* The byte loop of read_aligned returns what the bit loop would.  Of the  *)
(* little-endian reads only those of at most 4 bytes do.                   *)
(***************************************************************************)
AlignedAgreesUpTo(size) ==
  last.c.op = "read_aligned" /\ last.status = "ok" /\ last.c.n <= size =>
    last.value = GetBits(Order, buffer, last.from, 8 * last.c.n)

AlignedAgreesWithBits == AlignedAgreesUpTo(IF Order = "BigEndian" THEN 8 ELSE 4)

(***************************************************************************)
(* verify_expected answers true only if every entry's field holds an       *)
(* accepted value in the buffer itself, and throws on an unknown name only *)
(* if no earlier entry had already failed.                                 *)
(***************************************************************************)
VerifySound ==
  LET format == last.c.format
      table == last.c.table
      Holds(entry) ==
        LET i == field_index(format, entry.name)
        IN  i # 0 /\ LayoutValue(format, packet.from, i) \in entry.accepts
      AllHold(n) == \A i \in 1 .. n : Holds(table[i])
  IN  last.c.op = "verify_expected" =>
        /\ last.status = "true" <=> AllHold(Len(table))
        /\ last.status = "out_of_range" <=>
             \E i \in 1 .. Len(table) :
               field_index(format, table[i].name) = 0 /\ AllHold(i - 1)

\* A loop that was entered returns or throws.
CallsReturn == ~Idle ~> Idle

-----------------------------------------------------------------------------
(* What comments in bitstream.h say and the code does not do.              *)

\* "Seeks to the field's position, reads it ... @throws std::out_of_range if
\* field not found or not enough bits" (bitstream.h:240): a field that lies in
\* the buffer is read.
ReadFieldSeeks ==
  last.c.op = "read_field" /\ last.status = "out_of_range" =>
    LET format == last.c.format
        name == last.c.name
    IN  KnownField(format, name) => bit_offset_of(format, name) + field_width(format, name) > Cap

\* "Read a byte-aligned unsigned integer" (bitstream.h:347), of 8 bytes too.
AlignedReadsInteger == AlignedAgreesUpTo(8)
=============================================================================
