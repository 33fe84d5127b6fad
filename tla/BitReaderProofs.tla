-------------------------- MODULE BitReaderProofs --------------------------
(***************************************************************************)
(* What holds of a BitReader for every buffer, both wire orders, all       *)
(* formats, names, output types and tables, and all widths, those that     *)
(* wrap std::size_t included.                                              *)
(***************************************************************************)
EXTENDS BitReader, WireProofs, FiniteSetTheorems

LEMMA CapNat == Cap \in Nat /\ Cap + 64 < SizeMod /\ SizeMod \in Nat
BY ReaderAssumption DEF Cap

\* What fits std::size_t is checked for what it is.
LEMMA HasBitsFits ==
  ASSUME NEW pos \in Nat, NEW n \in Nat, pos + n < SizeMod
  PROVE  HasBitsAt(pos, n) <=> pos + n <= Cap
BY CapNat, ModSmall DEF HasBitsAt

\* The widths that CanReadAt lets through do not wrap: the bits are really there.
LEMMA CanReadFits ==
  ASSUME NEW pos \in Nat, pos <= Cap, NEW n, CanReadAt(pos, n)
  PROVE  n \in 1 .. 64 /\ pos + n <= Cap
<1>1. n \in 1 .. 64 /\ HasBitsAt(pos, n)
  BY DEF CanReadAt
<1>2. n \in Nat /\ pos + n < SizeMod
  BY <1>1, CapNat
<1> QED
  BY <1>1, <1>2, HasBitsFits

LEMMA FormatTypes ==
  ASSUME NEW f \in Formats
  PROVE  f \in Seq(FieldDef) /\ total_bits(f) \in Nat /\ Cap + total_bits(f) < SizeMod
BY ReaderAssumption, FormatsFit, TotalBits

\* A format that passes the check of the loops is really there.
LEMMA FormatInside ==
  ASSUME NEW pos \in Nat, pos <= Cap, NEW f \in Formats, HasBitsAt(pos, total_bits(f))
  PROVE  pos + total_bits(f) <= Cap
BY FormatTypes, CapNat, HasBitsFits

\* read_bits_runtime returns a 64-bit word.
LEMMA ReadValue ==
  ASSUME NEW pos \in Nat, NEW n \in 1 .. 64, Order \in Orders
  PROVE  GetBits(Order, buffer, pos, n) \in Word
<1>1. GetBits(Order, buffer, pos, n) \in SUBSET (0 .. n - 1)
  BY GetBitsType
<1> QED
  BY <1>1 DEF Word

-----------------------------------------------------------------------------
(* The inductive invariant.                                                *)

\* The values that a loop has taken are those of the layout, none of a bad field.
Prefix(p) ==
  /\ Len(p.values) <= Len(p.format)
  /\ \A i \in 1 .. Len(p.values) :
       LET value == LayoutValue(p.format, p.from, i)
       IN  /\ ~BadField(p.format[i])
           /\ p.values[i] = IF p.types = <<>> THEN value ELSE Truncate(value, p.types[i])

\* In a loop the cursor is where the layout has the next field, and what is
\* left of the format is in the buffer.
LoopInv ==
  ~Idle =>
    /\ last = NoResult
    /\ call.format \in Formats
    /\ call.from + total_bits(call.format) <= Cap
    /\ bit_offset_ = call.from + FieldOffsets(call.format)[Len(call.values)]
    /\ Prefix(call)
    /\ call.op = "deserialize" => call.types = <<>>
    /\ call.types = <<>> \/ Len(call.types) = Len(call.format)

\* A ParsedPacket is complete; output variables may not be.
PacketInv ==
  /\ Prefix(packet)
  /\ packet.op = "deserialize" => packet.types = <<>> /\ Len(packet.values) = Len(packet.format)

\* value is what the n bits from pos on hold; they lie in the buffer.
IsRead(pos, n, value) == pos + n <= Cap /\ value = GetBits(Order, buffer, pos, n)

IsField(format, name, value) ==
  /\ format \in Formats
  /\ field_index(format, name) # 0
  /\ field_width(format, name) \in 1 .. 64
  /\ IsRead(bit_offset_of(format, name), field_width(format, name), value)

FieldInv ==
  last.c.op = "read_field" /\ last.status = "ok" => IsField(last.c.format, last.c.name, last.value)

Typed == TypeOK /\ InBounds

\* What holds of the reader itself, whatever else may write to the buffer
\* between two of its calls; the rest is about what earlier calls returned.
Core == Typed /\ LoopInv

LoopsInv == LoopInv /\ PacketInv
LastInv == FailureIsAtomic /\ LoopStopsAtBadField /\ FieldInv /\ AlignedAgreesWithBits /\ VerifySound

Inv == Typed /\ LoopsInv /\ LastInv

LEMMA Cursor ==
  ASSUME Typed
  PROVE  /\ bit_offset_ \in Nat /\ bit_offset_ <= Cap /\ bit_offset_ \in 0 .. Cap
         /\ Order \in Orders /\ BufSize \in Nat /\ buffer \in Buffers(BufSize)
BY CapNat, ReaderAssumption DEF Typed, TypeOK, InBounds

-----------------------------------------------------------------------------
(* The calls that are one action.                                          *)

SoundSize == IF Order = "BigEndian" THEN 8 ELSE 4

\* What verify_expected should answer, by the layout and the buffer.
Verdict(format, table, status) ==
  LET Holds(entry) ==
        LET i == field_index(format, entry.name)
        IN  i # 0 /\ LayoutValue(format, packet.from, i) \in entry.accepts
      AllHold(n) == \A i \in 1 .. n : Holds(table[i])
  IN  /\ status = "true" <=> AllHold(Len(table))
      /\ status = "out_of_range" <=>
           \E i \in 1 .. Len(table) : field_index(format, table[i].name) = 0 /\ AllHold(i - 1)

\* What the answer to call c must satisfy for the invariant to hold after it.
Answer(c, pos, status, value) ==
  /\ pos \in Nat /\ pos <= Cap
  /\ status \in Statuses
  /\ value \in Word
  /\ status \in {"out_of_range", "logic_error"} => pos = bit_offset_
  /\ c.op \in {"deserialize", "deserialize_into"} => status = "out_of_range"
  /\ c.op = "read_bits" /\ status = "ok" => c.n \in 1 .. 64 /\ IsRead(bit_offset_, c.n, value)
  /\ c.op = "read_field" /\ status = "ok" => IsField(c.format, c.name, value)
  /\ c.op = "read_aligned" /\ status = "ok" /\ c.n <= SoundSize =>
       IsRead(bit_offset_, 8 * c.n, value)
  /\ c.op = "verify_expected" => Verdict(c.format, c.table, status)

\* A call that answers so.
Answers ==
  \E c, pos, status, value : EndAt(c, pos, status, value) /\ Answer(c, pos, status, value)

LEMMA AnswersKeepCore ==
  ASSUME Core, Idle, Answers
  PROVE  Core'
<1>1. PICK c, pos, status, value :
        EndAt(c, pos, status, value) /\ Answer(c, pos, status, value)
  BY DEF Answers
<1>2. /\ bit_offset_' = pos /\ buffer' = buffer /\ call' = call /\ packet' = packet
      /\ last' = [c |-> c, from |-> bit_offset_, status |-> status, value |-> value]
  BY <1>1 DEF EndAt, Result
<1>3. Typed'
  BY <1>1, <1>2, Cursor DEF Core, Typed, TypeOK, InBounds, Answer
<1> QED
  BY <1>2, <1>3 DEF Core, LoopInv, Idle

LEMMA AnswersKeepInv ==
  ASSUME Inv, Idle, Answers
  PROVE  Inv'
<1>1. PICK c, pos, status, value :
        EndAt(c, pos, status, value) /\ Answer(c, pos, status, value)
  BY DEF Answers
<1>2. /\ bit_offset_' = pos /\ buffer' = buffer /\ call' = call /\ packet' = packet
      /\ last' = [c |-> c, from |-> bit_offset_, status |-> status, value |-> value]
  BY <1>1 DEF EndAt, Result
<1>3. Typed'
  BY AnswersKeepCore DEF Inv, LoopsInv, Core
<1>4. LoopsInv'
  BY <1>2 DEF Inv, LoopsInv, LoopInv, Idle, PacketInv, Prefix, LayoutValue
<1>5. FailureIsAtomic' /\ LoopStopsAtBadField' /\ FieldInv'
  BY <1>1, <1>2 DEF Answer, FailureIsAtomic, LoopStopsAtBadField, FieldInv, IsField, IsRead
<1>6. AlignedAgreesWithBits'
  BY <1>1, <1>2 DEF Answer, AlignedAgreesWithBits, AlignedAgreesUpTo, SoundSize, IsRead
<1>7. VerifySound'
  BY <1>1, <1>2 DEF Answer, VerifySound, Verdict, LayoutValue
<1> QED
  BY <1>3, <1>4, <1>5, <1>6, <1>7 DEF Inv, LastInv

\* A call that only looks at the cursor, and throws or moves it.
Plain == {"reset", "read_bits", "skip_bits", "align_to_byte"}

LEMMA PlainAnswers ==
  ASSUME Typed, NEW op \in Plain, NEW n, NEW pos \in 0 .. Cap, NEW status \in Statuses,
         NEW value \in Word, status \in {"out_of_range", "logic_error"} => pos = bit_offset_,
         op = "read_bits" /\ status = "ok" => n \in 1 .. 64 /\ IsRead(bit_offset_, n, value),
         EndAt(NumCall(op, n), pos, status, value)
  PROVE  Answers
<1> DEFINE c == NumCall(op, n)
<1>1. c.op = op /\ c.n = n
  BY DEF NumCall, NoCall
<1> HIDE DEF c
<1>2. Answer(c, pos, status, value)
  BY <1>1, CapNat DEF Answer, Plain
<1> QED
  BY <1>2 DEF Answers, c

LEMMA ResetAnswers ==
  ASSUME Typed, reset
  PROVE  Answers
<1>1. 0 \in 0 .. Cap /\ {} \in Word
  BY CapNat DEF Word
<1> QED
  BY <1>1, PlainAnswers DEF reset, Plain, Statuses

LEMMA ReadBitsAnswers ==
  ASSUME Typed, NEW n \in Widths, ReadBits(n)
  PROVE  Answers
<1> DEFINE c == NumCall("read_bits", n)
           value == GetBits(Order, buffer, bit_offset_, n)
<1>1. CASE CanReadAt(bit_offset_, n) /\ EndAt(c, bit_offset_ + n, "ok", value)
  <2>1. n \in 1 .. 64 /\ bit_offset_ + n \in 0 .. Cap
    BY <1>1, Cursor, CanReadFits
  <2>2. value \in Word /\ IsRead(bit_offset_, n, value)
    BY <2>1, Cursor, ReadValue, CapNat DEF IsRead
  <2> HIDE DEF value
  <2> QED
    BY <1>1, <2>1, <2>2, PlainAnswers DEF Plain, Statuses
<1>2. CASE EndAt(c, bit_offset_, ReadError(n), {})
  <2>1. {} \in Word /\ ReadError(n) \in Statuses /\ ReadError(n) # "ok"
    BY DEF Word, ReadError, Statuses
  <2> QED
    BY <1>2, <2>1, Cursor, PlainAnswers DEF Plain
<1> QED
  BY <1>1, <1>2 DEF ReadBits, ReadAt

LEMMA SkipBitsAnswers ==
  ASSUME Typed, NEW n \in Widths, SkipBits(n)
  PROVE  Answers
<1> DEFINE c == NumCall("skip_bits", n)
           next == (bit_offset_ + n) % SizeMod
<1>0. {} \in Word
  BY DEF Word
<1>1. CASE Throw(c, "out_of_range")
  BY <1>0, <1>1, Cursor, PlainAnswers DEF Plain, Statuses, Throw
<1>2. CASE has_bits(n) /\ EndAt(c, next, "ok", {})
  <2>1. n \in Nat /\ SizeMod > 0
    BY CapNat, ReaderAssumption
  <2>2. next \in 0 .. Cap
    BY <1>2, <2>1, Cursor, CapNat, ModType DEF has_bits, HasBitsAt
  <2> HIDE DEF next
  <2> QED
    BY <1>0, <1>2, <2>2, PlainAnswers DEF Plain, Statuses
<1> QED
  BY <1>1, <1>2 DEF SkipBits

LEMMA AlignToByteAnswers ==
  ASSUME Typed, AlignToByte
  PROVE  Answers
<1> DEFINE b == byte_idx(bit_offset_)
           pos == IF bit_offset_ % 8 # 0 THEN (b + 1) * 8 ELSE bit_offset_
<1>1. bit_offset_ \in Nat /\ bit_offset_ <= 8 * BufSize /\ BufSize \in Nat
  BY Cursor DEF Cap
<1>2. b \in Nat /\ bit_offset_ % 8 \in 0 .. 7 /\ bit_offset_ = 8 * b + (bit_offset_ % 8)
  BY <1>1, Position, Zenon
<1> HIDE DEF b
<1>3. pos \in 0 .. Cap
  BY <1>1, <1>2 DEF Cap
<1>4. EndAt(NumCall("align_to_byte", 0), pos, "ok", {})
  BY DEF AlignToByte, b
<1> HIDE DEF pos
<1> QED
  BY <1>3, <1>4, PlainAnswers DEF Plain, Statuses, Word

\* read_field: what passes its check lies in the buffer, so past the seek only
\* the width is left to fail.
LEMMA ReadFieldAnswers ==
  ASSUME Typed, NEW f \in Formats, NEW name, ReadField(f, name)
  PROVE  Answers
<1> DEFINE c == FieldCall("read_field", f, name)
           offset == bit_offset_of(f, name)
           width == field_width(f, name)
           value == GetBits(Order, buffer, offset, width)
<1>0. c.op = "read_field" /\ c.format = f /\ c.name = name /\ {} \in Word
  BY DEF FieldCall, NoCall, Word
<1> HIDE DEF c
<1>1. CASE Throw(c, "out_of_range")
  <2>1. Answer(c, bit_offset_, "out_of_range", {})
    BY <1>0, Cursor DEF Answer, Statuses
  <2> QED
    BY <1>1, <2>1 DEF Throw, Answers
<1>2. CASE KnownField(f, name) /\ has_bits(offset + width) /\ ReadAt(c, offset, width)
  <2>1. /\ field_index(f, name) # 0
        /\ offset \in Nat /\ width \in Nat /\ width # 0
        /\ offset + width <= total_bits(f)
    BY <1>2, FormatTypes, FieldInside DEF KnownField
  <2> HIDE DEF offset, width
  <2>2. offset + width \in Nat /\ bit_offset_ + (offset + width) < SizeMod
    BY <2>1, Cursor, CapNat, FormatTypes
  <2>3. bit_offset_ + (offset + width) <= Cap
    BY <1>2, <2>2, Cursor, HasBitsFits DEF has_bits
  <2>4. offset <= Cap /\ offset + width <= Cap /\ offset + width < SizeMod
    BY <2>1, <2>3, Cursor, CapNat
  <2>5. CASE CanReadAt(offset, width) /\ EndAt(c, offset + width, "ok", value)
    <3>1. value \in Word
      BY <2>1, <2>5, Cursor, ReadValue DEF CanReadAt
    <3>2. IsField(f, name, value)
      BY <2>1, <2>4, <2>5 DEF IsField, IsRead, CanReadAt, offset, width
    <3>3. Answer(c, offset + width, "ok", value)
      BY <1>0, <2>1, <2>4, <3>1, <3>2 DEF Answer, Statuses
    <3> QED
      BY <2>5, <3>3 DEF Answers
  <2>6. CASE ~CanReadAt(offset, width) /\ EndAt(c, offset, ReadError(width), {})
    <3>1. ReadError(width) = "invalid_argument"
      BY <2>1, <2>4, <2>6, HasBitsFits DEF CanReadAt, ReadError
    <3>2. Answer(c, offset, "invalid_argument", {})
      BY <1>0, <2>1, <2>4 DEF Answer, Statuses
    <3> QED
      BY <2>6, <3>1, <3>2 DEF Answers
  <2> QED
    BY <1>2, <2>5, <2>6 DEF ReadAt
<1> QED
  BY <1>1, <1>2 DEF ReadField, c

LEMMA ReadAlignedAnswers ==
  ASSUME Typed, NEW k \in AlignedSizes, ReadAligned(k)
  PROVE  Answers
<1> DEFINE c == NumCall("read_aligned", k)
           first == byte_idx(bit_offset_)
<1>0. c.op = "read_aligned" /\ c.n = k /\ {} \in Word
  BY DEF NumCall, NoCall, Word
<1> HIDE DEF c
<1>1. ASSUME NEW status \in {"logic_error", "out_of_range"}, Throw(c, status)
      PROVE  Answers
  <2>1. Answer(c, bit_offset_, status, {})
    BY <1>0, Cursor DEF Answer, Statuses
  <2> QED
    BY <1>1, <2>1 DEF Throw, Answers
<1>2. ASSUME bit_offset_ % 8 = 0, has_bits(8 * k),
             NEW value \in GetAligned(Order, buffer, first, k),
             EndAt(c, bit_offset_ + 8 * k, "ok", value)
      PROVE  Answers
  <2>1. k \in Nat /\ k <= 8 /\ 8 * k \in Nat /\ bit_offset_ + 8 * k < SizeMod
    BY Cursor, CapNat DEF AlignedSizes
  <2>2. bit_offset_ + 8 * k <= Cap
    BY <1>2, <2>1, Cursor, HasBitsFits DEF has_bits
  <2>3. first \in Nat /\ bit_offset_ = 8 * first
    BY <1>2, Cursor DEF byte_idx
  <2> HIDE DEF first
  <2>4. first + k <= BufSize
    BY <2>1, <2>2, <2>3, Cursor DEF Cap
  <2>5. value \in Word
    BY <1>2, <2>3, <2>4, Cursor, GetAlignedType
  <2>6. k <= SoundSize => value = GetBits(Order, buffer, bit_offset_, 8 * k)
    <3>1. k <= SoundSize => Order = "BigEndian" \/ k <= 4
      BY DEF SoundSize
    <3>2. k <= SoundSize => value = GetBits(Order, buffer, 8 * first, 8 * k)
      BY <1>2, <2>1, <2>3, <2>4, <3>1, Cursor, GetAlignedIsBits
    <3> QED
      BY <2>3, <3>2
  <2>7. Answer(c, bit_offset_ + 8 * k, "ok", value)
    BY <1>0, <2>1, <2>2, <2>5, <2>6, Cursor DEF Answer, Statuses, IsRead
  <2> QED
    BY <1>2, <2>7 DEF Answers
<1> QED
  BY <1>1, <1>2 DEF ReadAligned, c

\* verify_expected: the values of the packet are those of the layout.
LEMMA VerifyAnswers ==
  ASSUME Typed, LoopsInv, NEW table \in Tables, VerifyExpected(table)
  PROVE  Answers
<1> DEFINE format == packet.format
           status == VerifyStatus(packet, table)
           c == TableCall("verify_expected", format, table)
           Missing(i) == field_index(format, table[i].name) = 0
           Holds(i) == /\ field_index(format, table[i].name) # 0
                       /\ LayoutValue(format, packet.from, field_index(format, table[i].name))
                            \in table[i].accepts
           stops == {i \in 1 .. Len(table) : ~Passes(packet, table[i])}
<1>0. c.op = "verify_expected" /\ c.format = format /\ c.table = table /\ {} \in Word
  BY DEF TableCall, NoCall, Word
<1>1. Len(table) \in Nat
  BY ReaderAssumption
<1>2. /\ packet.types = <<>> /\ Len(packet.values) = Len(format)
      /\ \A i \in 1 .. Len(packet.values) :
           packet.values[i] = LayoutValue(format, packet.from, i)
  BY DEF VerifyExpected, LoopsInv, PacketInv, Prefix
<1>3. format \in Seq(FieldDef)
  <2>1. format \in {<<>>} \cup Formats
    BY DEF Typed, TypeOK, Frames
  <2>2. <<>> \in Seq(FieldDef)
    OBVIOUS
  <2> QED
    BY <2>1, <2>2, ReaderAssumption
<1>4. \A i \in 1 .. Len(table) : field_index(format, table[i].name) \in 0 .. Len(format)
  BY <1>3, FieldIndex
<1>5. \A i \in 1 .. Len(table) : Passes(packet, table[i]) <=> Holds(i)
  BY <1>2, <1>4 DEF Passes, Known, Get
<1>6. \A i \in 1 .. Len(table) : Known(packet, table[i]) <=> ~Missing(i)
  BY DEF Known
<1>7. \A i \in 1 .. Len(table) : Missing(i) => ~Holds(i)
  OBVIOUS
<1> HIDE DEF Holds, Missing
<1>8. /\ status \in {"true", "false", "out_of_range"}
      /\ status = "true" <=> \A i \in 1 .. Len(table) : Holds(i)
      /\ status = "out_of_range" <=>
           \E i \in 1 .. Len(table) : Missing(i) /\ \A j \in 1 .. i - 1 : Holds(j)
  <2>1. CASE stops = {}
    <3>1. status = "true"
      BY <2>1 DEF VerifyStatus
    <3>2. \A i \in 1 .. Len(table) : Holds(i)
      BY <1>5, <2>1
    <3> QED
      BY <1>7, <3>1, <3>2
  <2>2. CASE stops # {}
    <3> DEFINE first == CHOOSE i \in stops : \A j \in stops : i <= j
    <3>1. \E i \in stops : \A j \in stops : i <= j
      <4>1. stops \subseteq Nat
        BY <1>1
      <4> HIDE DEF stops
      <4> QED
        BY <2>2, <4>1, LeastNumber
    <3>2. first \in stops /\ \A j \in stops : first <= j
      BY <3>1
    <3>3. status = IF Known(packet, table[first]) THEN "false" ELSE "out_of_range"
      BY <2>2 DEF VerifyStatus
    <3> HIDE DEF first, status
    <3>4. first \in 1 .. Len(table) /\ ~Holds(first) /\ \A j \in 1 .. first - 1 : Holds(j)
      BY <1>1, <1>5, <3>2
    <3>5. status = "out_of_range" <=> Missing(first)
      BY <1>6, <3>3, <3>4
    <3>6. ASSUME NEW i \in 1 .. Len(table), Missing(i), \A j \in 1 .. i - 1 : Holds(j)
          PROVE  i = first
      BY <1>1, <1>7, <3>4, <3>6
    <3>7. status \in {"false", "out_of_range"}
      BY <3>3
    <3> QED
      BY <1>1, <3>4, <3>5, <3>6, <3>7
  <2> QED
    BY <2>1, <2>2
<1>9. Verdict(format, table, status)
  <2> HIDE DEF status
  <2> QED
    BY <1>8 DEF Verdict, Holds, Missing
<1>10. Answer(c, bit_offset_, status, {})
  <2> HIDE DEF status, c
  <2> QED
    BY <1>0, <1>8, <1>9, Cursor DEF Answer, Statuses
<1> QED
  BY <1>10 DEF VerifyExpected, Throw, Answers

LEMMA BeginAnswers ==
  ASSUME Typed, NEW op \in {"deserialize", "deserialize_into"}, NEW f,
         Throw(FieldCall(op, f, ""), "out_of_range")
  PROVE  Answers
<1> DEFINE c == FieldCall(op, f, "")
<1>1. c.op = op /\ {} \in Word
  BY DEF FieldCall, NoCall, Word
<1>2. Answer(c, bit_offset_, "out_of_range", {})
  <2> HIDE DEF c
  <2> QED
    BY <1>1, Cursor DEF Answer, Statuses
<1> QED
  BY <1>2 DEF Throw, Answers

-----------------------------------------------------------------------------
(* The loops.                                                              *)

\* A step that a client sees nothing of: a loop starts or takes a field.
Silent == Core' /\ last' = NoResult /\ packet' = packet /\ buffer' = buffer

\* A step that ends the loop of call: after its last field, or before the first
\* bad one.
Ended ==
  /\ Core'
  /\ ~Idle /\ call' = NoFrame /\ buffer' = buffer
  /\ last'.status \in {"ok", "invalid_argument"}
  /\ last'.status = "ok" => Len(call.values) = Len(call.format)
  /\ last'.c = FieldCall(call.op, call.format, "") /\ last'.from = call.from
  /\ packet' = IF last'.status = "ok" \/ call.op = "deserialize_into" THEN call ELSE packet
  /\ LoopStopsAtBadField'

\* The first check covers the whole format, and the loop starts at its layout.
LEMMA BeginKinds ==
  ASSUME Core, NEW op \in {"deserialize", "deserialize_into"}, NEW f \in Formats,
         NEW types \in Seq(OutWidths), op = "deserialize" => types = <<>>,
         types = <<>> \/ Len(types) = Len(f), Begin(op, f, types)
  PROVE  Answers \/ Silent
<1>0. Typed /\ Idle
  BY DEF Core, Begin
<1>1. CASE Throw(FieldCall(op, f, ""), "out_of_range")
  BY <1>0, <1>1, BeginAnswers
<1>2. CASE /\ has_bits(total_bits(f))
           /\ call' = Frame(op, f, types)
           /\ last' = NoResult
           /\ UNCHANGED <<buffer, bit_offset_, packet>>
  <2>1. bit_offset_ + total_bits(f) <= Cap
    BY <1>0, <1>2, Cursor, FormatInside DEF has_bits
  <2>2. call' = [op |-> op, format |-> f, types |-> types, from |-> bit_offset_, values |-> <<>>]
    BY <1>2 DEF Frame
  <2>3. call' \in Frames
    BY <1>0, <2>2, Cursor DEF Frames
  <2>4. last' = [c |-> NoCall, from |-> 0, status |-> "ok", value |-> {}]
    BY <1>2 DEF NoResult, Result
  <2>5. Typed'
    BY <1>0, <1>2, <2>3, <2>4, Cursor, CapNat
       DEF Typed, TypeOK, InBounds, Statuses, Word
  <2>6. FieldOffsets(f)[0] = 0 /\ Len(f) \in Nat /\ bit_offset_ \in Nat
    BY <1>0, FormatTypes, Offsets, FieldTypes, Cursor
  <2>7. LoopInv'
    BY <1>2, <2>1, <2>2, <2>6 DEF LoopInv, Prefix
  <2> QED
    BY <1>2, <2>5, <2>7 DEF Silent, Core
<1> QED
  BY <1>1, <1>2 DEF Begin

\* Where a loop stands: its next field, if there is one, is in the buffer.
LEMMA InLoop ==
  ASSUME Core, ~Idle
  PROVE  LET n == call.format[NextIdx].bit_width
         IN  /\ call.op \in {"deserialize", "deserialize_into"}
             /\ call.format \in Formats /\ call.format \in Seq(FieldDef)
             /\ Len(call.format) \in Nat /\ Len(call.values) \in Nat
             /\ call.values \in Seq(Word) /\ call.from \in 0 .. Cap
             /\ NextIdx \in 1 .. Len(call.format) + 1
             /\ bit_offset_ = call.from + FieldOffsets(call.format)[NextIdx - 1]
             /\ NextIdx <= Len(call.format) =>
                  /\ n \in Nat
                  /\ bit_offset_ + n = call.from + FieldOffsets(call.format)[NextIdx]
                  /\ bit_offset_ + n <= Cap
                  /\ HasBitsAt(bit_offset_, n)
<1> DEFINE f == call.format
           k == Len(call.values)
           n == f[k + 1].bit_width
<1>1. /\ call.op \in {"deserialize", "deserialize_into"}
      /\ call.values \in Seq(Word) /\ call.from \in 0 .. Cap
  BY DEF Core, Typed, TypeOK, Frames, Idle
<1>2. /\ f \in Formats /\ k <= Len(f) /\ bit_offset_ = call.from + FieldOffsets(f)[k]
      /\ call.from + total_bits(f) <= Cap
  BY DEF Core, LoopInv, Prefix
<1>3. f \in Seq(FieldDef) /\ Len(f) \in Nat /\ k \in Nat
  BY <1>1, <1>2, FormatTypes, FieldTypes
<1>4. ASSUME k + 1 <= Len(f)
      PROVE  /\ n \in Nat
             /\ bit_offset_ + n = call.from + FieldOffsets(f)[k + 1]
             /\ bit_offset_ + n <= Cap
             /\ HasBitsAt(bit_offset_, n)
  <2>1. k + 1 \in 1 .. Len(f) /\ k + 1 \in 0 .. Len(f) /\ (k + 1) - 1 = k
    BY <1>3, <1>4
  <2>2. /\ FieldOffsets(f)[k + 1] = FieldOffsets(f)[k] + n
        /\ n \in Nat /\ FieldOffsets(f)[k] \in Nat
        /\ FieldOffsets(f)[k + 1] <= total_bits(f) /\ total_bits(f) \in Nat
    <3>1. FieldOffsets(f)[k + 1] = FieldOffsets(f)[(k + 1) - 1] + f[k + 1].bit_width
      BY <1>3, <2>1, Offsets
    <3>2. k \in 0 .. Len(f)
      BY <1>2, <1>3
    <3>3. FieldOffsets(f)[k] \in Nat /\ FieldOffsets(f)[k + 1] <= total_bits(f)
      BY <1>3, <2>1, <3>2, TotalBits
    <3> QED
      BY <1>3, <2>1, <3>1, <3>3, FieldTypes, TotalBits
  <2>3. bit_offset_ + n = call.from + FieldOffsets(f)[k + 1] /\ bit_offset_ + n <= Cap
    <3> DEFINE a == FieldOffsets(f)[k]
               b == FieldOffsets(f)[k + 1]
               total == total_bits(f)
    <3>1. /\ a \in Nat /\ b = a + n /\ b <= total /\ n \in Nat /\ total \in Nat
          /\ bit_offset_ = call.from + a /\ call.from + total <= Cap
          /\ call.from \in Nat /\ Cap \in Nat
      BY <1>1, <1>2, <2>2, CapNat
    <3> HIDE DEF a, b, n, total
    <3>2. bit_offset_ + n = call.from + b /\ bit_offset_ + n <= Cap
      BY <3>1
    <3> QED
      BY <3>2 DEF b
  <2>4. bit_offset_ \in Nat /\ bit_offset_ + n < SizeMod
    BY <2>2, <2>3, CapNat, Cursor DEF Core
  <2> QED
    BY <2>2, <2>3, <2>4, HasBitsFits
<1>5. NextIdx = k + 1
  BY DEF NextIdx
<1>6. k + 1 \in 1 .. Len(f) + 1 /\ (k + 1) - 1 = k
  BY <1>2, <1>3
<1> HIDE DEF n
<1> QED
  BY <1>1, <1>2, <1>3, <1>4, <1>5, <1>6 DEF n

\* One field: its value is the layout's, and the cursor moves to the next.
LEMMA TakeIsSilent ==
  ASSUME Core, ~Idle, NextIdx <= Len(call.format),
         NEW value \in Word, ~BadField(call.format[NextIdx]),
         value = LET v == LayoutValue(call.format, call.from, NextIdx)
                 IN  IF call.types = <<>> THEN v ELSE Truncate(v, call.types[NextIdx]),
         TakeField(call.format[NextIdx].bit_width, value)
  PROVE  Silent
<1> DEFINE n == call.format[NextIdx].bit_width
           f == call.format
           k == Len(call.values)
<1>1. /\ k \in Nat /\ Len(f) \in Nat /\ NextIdx = k + 1 /\ k + 1 <= Len(f)
      /\ call.values \in Seq(Word) /\ n \in Nat
      /\ bit_offset_ \in Nat /\ bit_offset_ + n <= Cap
      /\ bit_offset_ + n = call.from + FieldOffsets(f)[k + 1]
  BY InLoop, Cursor DEF Core, NextIdx
<1>2. (bit_offset_ + n) % SizeMod = bit_offset_ + n
  <2>0. n \in Nat /\ bit_offset_ \in Nat /\ bit_offset_ + n <= Cap
    BY <1>1
  <2> HIDE DEF n
  <2>1. bit_offset_ + n \in Nat /\ bit_offset_ + n < SizeMod /\ SizeMod \in Nat
    BY <2>0, CapNat
  <2> QED
    BY <2>1, ModSmall
<1>3. /\ bit_offset_' = bit_offset_ + n
      /\ call' = [call EXCEPT !.values = Append(call.values, value)]
      /\ buffer' = buffer /\ packet' = packet /\ last' = last
  BY <1>2 DEF TakeField
<1>4. call \in Frames
  BY DEF Core, Typed, TypeOK
<1> DEFINE vs == Append(call.values, value)
<1>5. vs \in Seq(Word) /\ Len(vs) = k + 1 /\ vs[k + 1] = value
      /\ \A i \in 1 .. k : vs[i] = call.values[i]
  BY <1>1
<1>6. /\ call'.op = call.op /\ call'.format = call.format /\ call'.types = call.types
      /\ call'.from = call.from /\ call'.values = vs
  BY <1>3, <1>4 DEF Frames
<1>7. call' \in Frames
  BY <1>3, <1>4, <1>5 DEF Frames
<1> HIDE DEF vs
<1>8. Typed'
  BY <1>1, <1>3, <1>7 DEF Core, Typed, TypeOK, InBounds
<1>9. Prefix(call)'
  <2>1. Prefix(call)
    BY DEF Core, LoopInv
  <2>0. Len(vs) = k + 1 /\ k + 1 <= Len(f)
    BY <1>1, <1>5
  <2>5. \A i : LayoutValue(f, call.from, i)' = LayoutValue(f, call.from, i)
    BY <1>3, <1>6 DEF LayoutValue
  <2> SUFFICES ASSUME NEW i \in 1 .. k + 1
               PROVE  LET v == LayoutValue(f, call.from, i)
                      IN  /\ ~BadField(f[i])
                          /\ vs[i] = IF call.types = <<>> THEN v ELSE Truncate(v, call.types[i])
    BY <1>6, <2>0, <2>5 DEF Prefix
  <2>2. CASE i \in 1 .. k
    BY <1>5, <2>1, <2>2 DEF Prefix
  <2>3. CASE i = k + 1
    BY <1>1, <1>5, <2>3
  <2> QED
    BY <1>1, <2>2, <2>3
<1>10. LoopInv'
  <2>1. /\ call'.format \in Formats /\ call'.from + total_bits(call'.format) <= Cap
        /\ last' = NoResult /\ (call'.op = "deserialize" => call'.types = <<>>)
        /\ call'.types = <<>> \/ Len(call'.types) = Len(call'.format)
    BY <1>3, <1>6 DEF Core, LoopInv
  <2>2. bit_offset_' = call'.from + FieldOffsets(call'.format)[Len(call'.values)]
    BY <1>1, <1>3, <1>5, <1>6
  <2> QED
    BY <1>9, <2>1, <2>2 DEF LoopInv
<1>11. last' = NoResult
  BY <1>3 DEF Core, LoopInv
<1> QED
  BY <1>3, <1>8, <1>10, <1>11 DEF Silent, Core

\* A loop ends after its last field, or before the first bad one.
LEMMA EndIsEnded ==
  ASSUME Core, ~Idle, NEW status \in {"ok", "invalid_argument"}, EndLoop(status),
         status = "ok" => NextIdx = Len(call.format) + 1,
         status # "ok" => NextIdx <= Len(call.format) /\ BadField(call.format[NextIdx])
  PROVE  Ended
<1> DEFINE f == call.format
           k == Len(call.values)
           c == FieldCall(call.op, f, "")
<1>1. /\ call.op \in {"deserialize", "deserialize_into"}
      /\ k \in Nat /\ Len(f) \in Nat /\ NextIdx = k + 1 /\ k <= Len(f)
      /\ bit_offset_ = call.from + FieldOffsets(f)[k]
      /\ call.from \in 0 .. Cap
  BY InLoop DEF NextIdx
<1>2. c.op = call.op /\ c.format = f
  BY DEF FieldCall, NoCall
<1> HIDE DEF c
<1>3. /\ last' = [c |-> c, from |-> call.from, status |-> status, value |-> {}]
      /\ packet' = IF status = "ok" \/ call.op = "deserialize_into" THEN call ELSE packet
      /\ call' = NoFrame /\ buffer' = buffer /\ bit_offset_' = bit_offset_
  BY DEF EndLoop, Result, c
<1>4. Prefix(call) /\ (call.op = "deserialize" => call.types = <<>>)
  BY DEF Core, LoopInv
<1>5. Typed'
  <2>1. NoFrame \in Frames
    BY CapNat DEF NoFrame, Frames
  <2> QED
    BY <1>1, <1>3, <2>1 DEF Core, Typed, TypeOK, InBounds, Statuses, Word
<1>6. LoopInv'
  BY <1>3 DEF LoopInv, Idle, NoFrame
<1>7. LoopStopsAtBadField'
  <2> DEFINE bad == {i \in 1 .. Len(f) : BadField(f[i])}
             stop == IF bad = {} THEN Len(f) + 1
                     ELSE CHOOSE i \in bad : \A j \in bad : i <= j
  <2>1. \A i \in 1 .. k : i \notin bad
    BY <1>4 DEF Prefix
  <2>2. CASE status = "ok"
    <3>1. k = Len(f)
      BY <1>1, <2>2
    <3>2. bad = {}
      BY <2>1, <3>1
    <3>3. stop = Len(f) + 1
      BY <3>2
    <3>4. stop - 1 = k
      BY <1>1, <3>1, <3>3
    <3> QED
      BY <1>1, <1>2, <1>3, <2>2, <3>2, <3>4 DEF LoopStopsAtBadField
  <2>3. CASE status = "invalid_argument"
    <3>1. k + 1 \in bad
      BY <1>1, <2>3
    <3>2. \A j \in bad : k + 1 <= j
      BY <1>1, <2>1
    <3>3. \A i \in bad : (\A j \in bad : i <= j) => i = k + 1
      BY <1>1, <3>1, <3>2
    <3>4. stop = k + 1
      BY <3>1, <3>2, <3>3
    <3>5. stop - 1 = k
      BY <1>1, <3>4
    <3>6. bad # {}
      BY <3>1
    <3> QED
      BY <1>1, <1>2, <1>3, <2>3, <3>5, <3>6 DEF LoopStopsAtBadField
  <2> QED
    BY <2>2, <2>3
<1>8. status = "ok" => Len(call.values) = Len(call.format)
  BY <1>1
<1> QED
  BY <1>3, <1>5, <1>6, <1>7, <1>8 DEF Ended, Core, c

LEMMA LoopFieldKinds ==
  ASSUME Core, LoopField
  PROVE  Silent \/ Ended
<1> DEFINE field == call.format[NextIdx]
           n == field.bit_width
           padding == is_padding_field(field.name)
           legal == IF padding THEN has_bits(n) ELSE CanReadAt(bit_offset_, n)
           read == GetBits(Order, buffer, bit_offset_, n)
           value == IF padding THEN {} ELSE Narrow(NextIdx, read)
<1>0. ~Idle /\ NextIdx <= Len(call.format)
  BY DEF LoopField
<1>1. n \in Nat /\ HasBitsAt(bit_offset_, n)
      /\ bit_offset_ = call.from + FieldOffsets(call.format)[NextIdx - 1]
  BY <1>0, InLoop
<1>2. legal <=> ~BadField(field)
  BY <1>1 DEF has_bits, CanReadAt, BadField
<1>3. CASE legal /\ TakeField(n, value)
  <2>1. value = LET v == LayoutValue(call.format, call.from, NextIdx)
                IN  IF call.types = <<>> THEN v ELSE Truncate(v, call.types[NextIdx])
    BY <1>1 DEF LayoutValue, Narrow, Truncate
  <2>2. value \in Word
    <3>1. CASE padding
      BY <3>1 DEF Word
    <3>2. CASE ~padding
      <4>1. n \in 1 .. 64
        BY <1>3, <3>2 DEF CanReadAt
      <4>2. read \in Word
        BY <4>1, Cursor, ReadValue DEF Core
      <4> HIDE DEF read
      <4> QED
        BY <3>2, <4>2 DEF Narrow, Truncate, Word
    <3> QED
      BY <3>1, <3>2
  <2> HIDE DEF value
  <2> QED
    BY <1>0, <1>2, <1>3, <2>1, <2>2, TakeIsSilent
<1>4. CASE ~legal /\ EndLoop(IF padding THEN "out_of_range" ELSE ReadError(n))
  <2>1. BadField(field) /\ ~padding /\ n \notin 1 .. 64
    BY <1>2, <1>4 DEF BadField
  <2>2. EndLoop("invalid_argument")
    BY <1>4, <2>1 DEF ReadError
  <2> QED
    BY <1>0, <2>1, <2>2, EndIsEnded
<1> QED
  BY <1>3, <1>4 DEF LoopField

LEMMA LoopReturnEnds ==
  ASSUME Core, LoopReturn
  PROVE  Ended
<1>1. ~Idle /\ EndLoop("ok") /\ NextIdx > Len(call.format)
  BY DEF LoopReturn
<1>2. NextIdx = Len(call.format) + 1
  BY <1>1, InLoop
<1> QED
  BY <1>1, <1>2, EndIsEnded

\* What a step of the reader can be.
LEMMA NextKinds ==
  ASSUME Core, Next
  PROVE  \/ Idle /\ Answers
         \/ Silent \/ Ended
         \/ \E table \in Tables : VerifyExpected(table)
<1>0. Typed
  BY DEF Core
<1>1. CASE LoopField
  BY <1>1, LoopFieldKinds
<1>2. CASE LoopReturn
  BY <1>2, LoopReturnEnds
<1>3. CASE reset
  BY <1>0, <1>3, ResetAnswers DEF reset
<1>4. ASSUME NEW n \in Widths, ReadBits(n)
      PROVE  Idle /\ Answers
  BY <1>0, <1>4, ReadBitsAnswers DEF ReadBits
<1>5. ASSUME NEW n \in Widths, SkipBits(n)
      PROVE  Idle /\ Answers
  BY <1>0, <1>5, SkipBitsAnswers DEF SkipBits
<1>6. ASSUME NEW f \in Formats, NEW name, ReadField(f, name)
      PROVE  Idle /\ Answers
  BY <1>0, <1>6, ReadFieldAnswers DEF ReadField
<1>7. ASSUME NEW k \in AlignedSizes, ReadAligned(k)
      PROVE  Idle /\ Answers
  BY <1>0, <1>7, ReadAlignedAnswers DEF ReadAligned
<1>8. CASE AlignToByte
  BY <1>0, <1>8, AlignToByteAnswers DEF AlignToByte
<1>9. ASSUME NEW f \in Formats, Deserialize(f)
      PROVE  (Idle /\ Answers) \/ Silent
  <2>1. <<>> \in Seq(OutWidths)
    OBVIOUS
  <2>2. Answers \/ Silent
    BY <1>9, <2>1, BeginKinds DEF Deserialize
  <2> QED
    BY <1>9, <2>2 DEF Deserialize, Begin
<1>10. ASSUME NEW f \in Formats, NEW types \in [1 .. Len(f) -> OutWidths],
              DeserializeInto(f, types)
       PROVE  (Idle /\ Answers) \/ Silent
  <2>1. Len(f) \in Nat
    BY FormatTypes, FieldTypes
  <2>2. types \in Seq(OutWidths) /\ Len(types) = Len(f)
    BY <2>1
  <2>3. Answers \/ Silent
    BY <1>10, <2>2, BeginKinds DEF DeserializeInto
  <2> QED
    BY <1>10, <2>3 DEF DeserializeInto, Begin
<1> QED
  BY <1>1, <1>2, <1>3, <1>4, <1>5, <1>6, <1>7, <1>8, <1>9, <1>10 DEF Next, Step, ApiCall

LEMMA NextCore ==
  ASSUME Core, Next
  PROVE  Core' /\ buffer' = buffer
<1>1. ASSUME NEW table \in Tables, VerifyExpected(table)
      PROVE  Core' /\ buffer' = buffer
  <2> DEFINE c == TableCall("verify_expected", packet.format, table)
             status == VerifyStatus(packet, table)
  <2>1. Idle /\ EndAt(c, bit_offset_, status, {})
    BY <1>1 DEF VerifyExpected, Throw
  <2>2. status \in Statuses
    BY DEF VerifyStatus, Statuses
  <2> HIDE DEF c, status
  <2>3. /\ bit_offset_' = bit_offset_ /\ buffer' = buffer /\ call' = call /\ packet' = packet
        /\ last' = [c |-> c, from |-> bit_offset_, status |-> status, value |-> {}]
    BY <2>1 DEF EndAt, Result
  <2>4. Typed'
    BY <2>2, <2>3, Cursor DEF Core, Typed, TypeOK, InBounds, Word
  <2> QED
    BY <2>1, <2>3, <2>4 DEF Core, LoopInv, Idle
<1>2. Answers => buffer' = buffer
  BY DEF Answers, EndAt
<1> QED
  BY <1>1, <1>2, NextKinds, AnswersKeepCore DEF Silent, Ended

LEMMA SilentKeepsInv ==
  ASSUME Inv, Silent
  PROVE  Inv'
<1>1. last' = [c |-> NoCall, from |-> 0, status |-> "ok", value |-> {}]
  BY DEF Silent, NoResult, Result
<1>2. LastInv'
  BY <1>1 DEF LastInv, NoCall, FailureIsAtomic, LoopStopsAtBadField, FieldInv,
              AlignedAgreesWithBits, AlignedAgreesUpTo, VerifySound
<1>3. PacketInv'
  BY DEF Inv, LoopsInv, Silent, PacketInv, Prefix, LayoutValue
<1> QED
  BY <1>2, <1>3 DEF Inv, LoopsInv, Silent, Core

LEMMA EndedKeepsInv ==
  ASSUME Inv, Ended
  PROVE  Inv'
<1>1. /\ last'.c.op = call.op /\ call.op \in {"deserialize", "deserialize_into"}
      /\ last'.status \in {"ok", "invalid_argument"}
  BY DEF Ended, FieldCall, NoCall, Inv, Typed, TypeOK, Frames, Idle
<1>2. FailureIsAtomic' /\ FieldInv' /\ AlignedAgreesWithBits' /\ VerifySound'
  BY <1>1 DEF FailureIsAtomic, FieldInv, AlignedAgreesWithBits, AlignedAgreesUpTo, VerifySound
<1>3. Prefix(call) /\ (call.op = "deserialize" => call.types = <<>>)
  BY DEF Inv, LoopsInv, LoopInv, Ended
<1>4. Prefix(packet)'
  BY <1>3 DEF Ended, Inv, LoopsInv, PacketInv, Prefix, LayoutValue
<1>5. packet'.op = "deserialize" =>
        packet'.types = <<>> /\ Len(packet'.values) = Len(packet'.format)
  BY <1>1, <1>3 DEF Ended, Inv, LoopsInv, PacketInv
<1> QED
  BY <1>2, <1>4, <1>5 DEF Ended, Core, Inv, LoopsInv, LastInv, PacketInv

-----------------------------------------------------------------------------
(* The theorems.                                                           *)

LEMMA InitInv == Init => Inv
<1> SUFFICES ASSUME Init
             PROVE  Inv
  OBVIOUS
<1>1. /\ call = NoFrame /\ packet = NoFrame /\ bit_offset_ = 0 /\ buffer \in Memories
      /\ last = [c |-> NoCall, from |-> 0, status |-> "ok", value |-> {}]
  BY DEF Init, NoResult, Result
<1>2. Typed
  <2>1. NoFrame \in Frames
    BY CapNat DEF NoFrame, Frames
  <2> QED
    BY <1>1, <2>1, CapNat DEF Typed, TypeOK, InBounds, Statuses, Word
<1>3. LoopsInv
  BY <1>1 DEF LoopsInv, LoopInv, PacketInv, Prefix, Idle, NoFrame
<1>4. LastInv
  BY <1>1 DEF LastInv, NoCall, FailureIsAtomic, LoopStopsAtBadField, FieldInv,
              AlignedAgreesWithBits, AlignedAgreesUpTo, VerifySound
<1> QED
  BY <1>2, <1>3, <1>4 DEF Inv

LEMMA NextInv ==
  ASSUME Inv, Next
  PROVE  Inv'
<1>0. Core /\ Typed /\ LoopsInv
  BY DEF Inv, LoopsInv, Core
<1>1. ASSUME NEW table \in Tables, VerifyExpected(table)
      PROVE  Inv'
  BY <1>0, <1>1, VerifyAnswers, AnswersKeepInv DEF VerifyExpected
<1> QED
  BY <1>0, <1>1, NextKinds, AnswersKeepInv, SilentKeepsInv, EndedKeepsInv

LEMMA StutterInv ==
  ASSUME Inv, UNCHANGED vars
  PROVE  Inv'
<1>1. /\ buffer' = buffer /\ bit_offset_' = bit_offset_ /\ call' = call
      /\ packet' = packet /\ last' = last
  BY DEF vars
<1>2. Typed'
  BY <1>1 DEF Inv, Typed, TypeOK, InBounds
<1>3. LoopInv' /\ PacketInv'
  BY <1>1 DEF Inv, LoopsInv, LoopInv, Idle, PacketInv, Prefix, LayoutValue
<1>4. FailureIsAtomic' /\ LoopStopsAtBadField' /\ FieldInv'
  BY <1>1 DEF Inv, LastInv, FailureIsAtomic, LoopStopsAtBadField, FieldInv, IsField, IsRead
<1>5. AlignedAgreesWithBits'
  BY <1>1 DEF Inv, LastInv, AlignedAgreesWithBits, AlignedAgreesUpTo
<1>6. VerifySound'
  BY <1>1 DEF Inv, LastInv, VerifySound, LayoutValue
<1> QED
  BY <1>2, <1>3, <1>4, <1>5, <1>6 DEF Inv, LoopsInv, LastInv

LEMMA SpecInv == Spec => []Inv
<1>1. Inv /\ [Next]_vars => Inv'
  BY NextInv, StutterInv
<1> QED
  BY <1>1, InitInv, PTL DEF Spec

\* Type correctness of the reader.
THEOREM TypeCorrect == Spec => []TypeOK
BY SpecInv, PTL DEF Inv, Typed

\* No call, wrapping widths included, moves the cursor past the buffer.
THEOREM CursorInBounds == Spec => []InBounds
BY SpecInv, PTL DEF Inv, Typed

\* What deserialize and deserialize_into hand out is what the layout of the
\* format says, for every format and starting position.
THEOREM LoopsFollowLayout == Spec => []LoopFollowsLayout
<1>1. Inv => LoopFollowsLayout
  BY DEF Inv, LoopsInv, PacketInv, Prefix, LoopFollowsLayout
<1> QED
  BY <1>1, SpecInv, PTL

\* A loop ends early exactly at the first field of illegal width.
THEOREM LoopsStopAtBadField == Spec => []LoopStopsAtBadField
BY SpecInv, PTL DEF Inv, LastInv

\* Running out of bits, or reading unaligned, leaves the cursor alone.
THEOREM FailuresAreAtomic == Spec => []FailureIsAtomic
BY SpecInv, PTL DEF Inv, LastInv

\* The byte loop reads what the bit loop would, where no int overflows.
THEOREM AlignedReadsAgree == Spec => []AlignedAgreesWithBits
BY SpecInv, PTL DEF Inv, LastInv

\* verify_expected answers by what is in the buffer.
THEOREM VerifyIsSound == Spec => []VerifySound
BY SpecInv, PTL DEF Inv, LastInv

\* read_field after deserialize of the same format from the start of the buffer.
THEOREM ReadFieldsAgree == Spec => []ReadFieldAgreesWithDeserialize
<1>1. Inv => ReadFieldAgreesWithDeserialize
  <2> SUFFICES ASSUME Inv, last.c.op = "read_field", last.status = "ok",
                      packet.op = "deserialize", packet.from = 0,
                      packet.format = last.c.format, ~is_padding_field(last.c.name)
               PROVE  last.value = Get(packet, last.c.name)
    BY DEF ReadFieldAgreesWithDeserialize
  <2> DEFINE f == last.c.format
             name == last.c.name
             i == field_index(f, name)
  <2>1. IsField(f, name, last.value)
    BY DEF Inv, LastInv, FieldInv
  <2>2. f \in Seq(FieldDef) /\ i # 0
    BY <2>1, FormatTypes DEF IsField
  <2>3. i \in 1 .. Len(f) /\ f[i].name = name
    BY <2>2, FieldIndex
  <2>4. bit_offset_of(f, name) \in Nat /\ bit_offset_of(f, name) = FieldOffsets(f)[i - 1]
        /\ field_width(f, name) = f[i].bit_width
    BY <2>2, FieldInside DEF bit_offset_of, field_width
  <2>5. packet.values[i] = LayoutValue(f, 0, i)
    BY <2>3 DEF Inv, LoopsInv, PacketInv, Prefix
  <2>6. LayoutValue(f, 0, i) = GetBits(Order, buffer, bit_offset_of(f, name), field_width(f, name))
    BY <2>3, <2>4 DEF LayoutValue
  <2> QED
    BY <2>1, <2>5, <2>6 DEF IsField, IsRead, Get
<1> QED
  BY <1>1, SpecInv, PTL

\* How many bytes of a span are shifted below one of them.
LEMMA BytesBelow ==
  ASSUME NEW first \in Nat, NEW k \in Nat, NEW t \in 0 .. k - 1, Order \in Orders
  PROVE  LET b == first + t
         IN  Cardinality({c \in first .. first + k - 1 :
                            IF Order = "BigEndian" THEN c > b ELSE c < b})
               = byte_shift(Order, k, t)
<1>1. CASE Order = "BigEndian"
  <2>1. {c \in first .. first + k - 1 : c > first + t} = first + t + 1 .. first + k - 1
    OBVIOUS
  <2>2. Cardinality(first + t + 1 .. first + k - 1) = k - 1 - t
    BY FS_Interval
  <2> QED
    BY <1>1, <2>1, <2>2 DEF byte_shift
<1>2. CASE Order = "LittleEndian"
  <2>1. {c \in first .. first + k - 1 : c < first + t} = first .. first + t - 1
    OBVIOUS
  <2>2. Cardinality(first .. first + t - 1) = t
    BY FS_Interval
  <2> QED
    BY <1>2, <2>1, <2>2 DEF byte_shift
<1> QED
  BY <1>1, <1>2 DEF Orders

\* The bytes of span_of_field hold the value that read_field returns.
THEOREM SpansAgree == Spec => []SpanAgreesWithReadField
<1>1. Inv => SpanAgreesWithReadField
  <2> DEFINE f == last.c.format
             name == last.c.name
             bytes == SpanBytes(f, name, BufSize)
             Below(b) == Cardinality({c \in bytes :
                                        IF Order = "BigEndian" THEN c > b ELSE c < b})
  <2> SUFFICES ASSUME Inv, last.c.op = "read_field", last.status = "ok", bytes # {}
               PROVE  last.value = UNION {ShiftedByte(buffer[b], Below(b)) : b \in bytes}
    BY DEF SpanAgreesWithReadField
  <2> DEFINE offset == bit_offset_of(f, name)
             width == field_width(f, name)
             first == offset \div 8
             k == width \div 8
  <2>1. IsField(f, name, last.value)
    BY DEF Inv, LastInv, FieldInv
  <2>2. offset \in Nat /\ width \in Nat
    BY <2>1, FormatTypes, FieldInside DEF IsField
  <2>3. offset % 8 = 0 /\ width % 8 = 0 /\ first + k <= BufSize
    BY DEF SpanBytes, HasSpan
  <2>4. bytes = first .. first + k - 1
    BY DEF SpanBytes
  <2>5. last.value = GetBits(Order, buffer, offset, width)
    BY <2>1 DEF IsField, IsRead
  <2> HIDE DEF offset, width, bytes
  <2>6. first \in Nat /\ k \in Nat /\ offset = 8 * first /\ width = 8 * k
    BY <2>2, <2>3
  <2> HIDE DEF first, k
  <2>7. last.value = Joined(Order, buffer, first, k)
    BY <2>3, <2>5, <2>6, Cursor, BytesAreBits DEF Inv
  <2>8. \A t \in 0 .. k - 1 : Below(first + t) = byte_shift(Order, k, t)
    BY <2>4, <2>6, Cursor, BytesBelow DEF Inv
  <2> HIDE DEF Below
  <2>9. {ShiftedByte(buffer[b], Below(b)) : b \in bytes}
          = {ShiftedByte(buffer[first + t], byte_shift(Order, k, t)) : t \in 0 .. k - 1}
    <3>1. \A b \in bytes : b - first \in 0 .. k - 1 /\ first + (b - first) = b
      BY <2>4, <2>6
    <3>2. \A t \in 0 .. k - 1 : first + t \in bytes
      BY <2>4, <2>6
    <3>3. \A b \in bytes : Below(b) = byte_shift(Order, k, b - first)
      BY <2>8, <3>1
    <3> QED
      BY <2>8, <3>1, <3>2, <3>3
  <2> QED
    BY <2>7, <2>9 DEF Joined, Below
<1> QED
  BY <1>1, SpecInv, PTL
=============================================================================
