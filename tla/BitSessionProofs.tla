-------------------------- MODULE BitSessionProofs --------------------------
(***************************************************************************)
(* The round trip, for every memory, both wire orders, all formats, widths *)
(* and values, and every interleaving of the calls of the two objects.     *)
(*                                                                         *)
(* The writer's invariant says what each bit of the memory is, and the     *)
(* reader's, of the part that does not depend on what others write, which  *)
(* bits a call returns.  Together they say what is read.                   *)
(***************************************************************************)
EXTENDS BitSession, WireProofs

\* The two classes with what is proved of each.
WP == INSTANCE BitWriterProofs WITH bit_offset_ <- wpos, call <- wcall
RP == INSTANCE BitReaderProofs WITH bit_offset_ <- rpos, call <- rcall,
                                    Memories <- Buffers(BufSize)

\* What the session assumes is what the two classes do.
LEMMA Assumptions == WP!WriterAssumption /\ WP!FormatsFit /\ RP!ReaderAssumption /\ RP!FormatsFit
<1> USE SessionAssumption DEF W!Cap, WP!Cap, W!Orders, WP!Orders, W!Word, WP!Word,
      W!FieldDef, WP!FieldDef, W!Byte, WP!Byte, W!total_bits, WP!total_bits,
      W!FieldOffsets, WP!FieldOffsets,
      R!Cap, RP!Cap, R!Orders, RP!Orders, R!Word, RP!Word, R!FieldDef, RP!FieldDef, R!Buffers,
      RP!Buffers, R!Expected, RP!Expected, RP!Byte, R!Byte, RP!total_bits, RP!FieldOffsets
<1>1. WP!WriterAssumption
  BY DEF W!WriterAssumption, WP!WriterAssumption
<1>2. WP!FormatsFit
  BY DEF W!FormatsFit, WP!FormatsFit
<1>3. RP!ReaderAssumption
  BY DEF R!ReaderAssumption, RP!ReaderAssumption
<1>4. RP!FormatsFit
  BY DEF W!FormatsFit, RP!FormatsFit
<1> QED
  BY <1>1, <1>2, <1>3, <1>4

\* The objects of the session are those of the proofs: W and WP, R and RP, are
\* instances of the same modules.
LEMMA SameWriter == (W!Init => WP!Init) /\ (W!Next => WP!Next)
<1> USE DEF W!NoCall, WP!NoCall, W!Idle, WP!Idle, W!has_space, WP!has_space, W!Cap, WP!Cap,
            W!byte_idx, WP!byte_idx
<1>0. ASSUME NEW n, NEW v
      PROVE  /\ W!PutField(n, v) <=> WP!PutField(n, v)
             /\ W!CanWrite(n) <=> WP!CanWrite(n)
             /\ W!Claim(n, v) <=> WP!Claim(n, v)
             /\ W!ThrowWrite(n) <=> WP!ThrowWrite(n)
  BY DEF W!PutField, WP!PutField, W!PutBits, WP!PutBits, W!Claim, WP!Claim, W!Truncate, WP!Truncate,
         W!value_bit, WP!value_bit, W!bit_idx, WP!bit_idx, W!Region, WP!Region,
         W!Overlaps, WP!Overlaps, W!BitsOfByte, WP!BitsOfByte, W!CanWrite, WP!CanWrite,
         W!ThrowWrite, WP!ThrowWrite, W!Throw, WP!Throw
<1>1. W!SerializeField => WP!SerializeField
  BY <1>0 DEF W!SerializeField, WP!SerializeField
<1>2. W!SerializeReturn => WP!SerializeReturn
  BY DEF W!SerializeReturn, WP!SerializeReturn
<1>3. W!Construct => WP!Construct
  BY DEF W!Construct, WP!Construct, W!ZeroBuffer, WP!ZeroBuffer
<1>4. ASSUME NEW n, NEW v
      PROVE  W!WriteBits(n, v) => WP!WriteBits(n, v)
  BY <1>0 DEF W!WriteBits, WP!WriteBits
<1>5. ASSUME NEW f, NEW vs
      PROVE  W!Serialize(f, vs) => WP!Serialize(f, vs)
  BY DEF W!Serialize, WP!Serialize, W!Throw, WP!Throw, W!total_bits, WP!total_bits,
         W!FieldOffsets, WP!FieldOffsets
<1>6. ASSUME NEW k, NEW v
      PROVE  W!WriteAligned(k, v) => WP!WriteAligned(k, v)
  BY DEF W!WriteAligned, WP!WriteAligned, W!Throw, WP!Throw, W!PutAligned, WP!PutAligned,
         W!byte_shift, WP!byte_shift, W!Region, WP!Region
<1>7. ASSUME NEW n
      PROVE  W!SkipBits(n) => WP!SkipBits(n)
  BY <1>0 DEF W!SkipBits, WP!SkipBits, W!Throw, WP!Throw, W!Rewind, WP!Rewind
<1>8. W!AlignToByte => WP!AlignToByte
  BY <1>0 DEF W!AlignToByte, WP!AlignToByte, W!Claim, WP!Claim, W!Region, WP!Region,
         W!Overlaps, WP!Overlaps, W!BitsOfByte, WP!BitsOfByte
<1>9. ASSUME NEW f, NEW name, NEW fill
      PROVE  W!StoreSpan(f, name, fill) => WP!StoreSpan(f, name, fill)
  BY DEF W!StoreSpan, WP!StoreSpan, W!SpanBytes, WP!SpanBytes, W!HasSpan, WP!HasSpan,
         W!bit_offset_of, WP!bit_offset_of, W!field_width, WP!field_width,
         W!field_index, WP!field_index, W!FieldOffsets, WP!FieldOffsets,
         W!Overlaps, WP!Overlaps, W!BitsOfByte, WP!BitsOfByte
<1>10. W!Init => WP!Init
  BY DEF W!Init, WP!Init, W!ZeroBuffer, WP!ZeroBuffer
<1>11. W!Next => WP!Next
  BY <1>1, <1>2, <1>3, <1>4, <1>5, <1>6, <1>7, <1>8, <1>9 DEF W!Next, WP!Next, W!Step, WP!Step,
     W!ApiCall, WP!ApiCall, W!Store, WP!Store, W!FieldNames, WP!FieldNames, W!Truncate, WP!Truncate,
     W!AlignedSizes, WP!AlignedSizes
<1> QED
  BY <1>10, <1>11

LEMMA SameReader == (R!Init => RP!Init) /\ (R!Next => RP!Next)
<1> USE DEF R!NoFrame, RP!NoFrame, R!Idle, RP!Idle, R!has_bits, RP!has_bits,
            R!HasBitsAt, RP!HasBitsAt, R!Cap, RP!Cap, R!byte_idx, RP!byte_idx,
            R!Throw, RP!Throw, R!EndAt, RP!EndAt, R!Result, RP!Result,
            R!NoCall, RP!NoCall, R!NumCall, RP!NumCall, R!FieldCall, RP!FieldCall
<1>0. ASSUME NEW pos, NEW n
      PROVE  /\ R!GetBits(Order, buffer, pos, n) = RP!GetBits(Order, buffer, pos, n)
             /\ R!CanReadAt(pos, n) <=> RP!CanReadAt(pos, n)
             /\ R!ReadError(n) = RP!ReadError(n)
  BY DEF R!GetBits, RP!GetBits, R!value_bit, RP!value_bit, R!IsSet, RP!IsSet,
         R!bit_idx, RP!bit_idx, R!CanReadAt, RP!CanReadAt, R!ReadError, RP!ReadError
<1>1. ASSUME NEW f
      PROVE  /\ R!FieldOffsets(f) = RP!FieldOffsets(f)
             /\ R!total_bits(f) = RP!total_bits(f)
  BY DEF R!FieldOffsets, RP!FieldOffsets, R!total_bits, RP!total_bits
<1>2. ASSUME NEW f, NEW name
      PROVE  R!field_index(f, name) = RP!field_index(f, name)
  BY DEF R!field_index, RP!field_index
<1>3. R!reset => RP!reset
  BY DEF R!reset, RP!reset
<1>4. ASSUME NEW c, NEW pos, NEW n
      PROVE  R!ReadAt(c, pos, n) <=> RP!ReadAt(c, pos, n)
  BY <1>0 DEF R!ReadAt, RP!ReadAt
<1>5. ASSUME NEW n
      PROVE  R!ReadBits(n) => RP!ReadBits(n)
  BY <1>4 DEF R!ReadBits, RP!ReadBits
<1>6. ASSUME NEW n
      PROVE  R!SkipBits(n) => RP!SkipBits(n)
  BY DEF R!SkipBits, RP!SkipBits
<1>7. ASSUME NEW f, NEW name
      PROVE  R!ReadField(f, name) => RP!ReadField(f, name)
  BY <1>1, <1>2, <1>4 DEF R!ReadField, RP!ReadField, R!KnownField, RP!KnownField,
     R!field_width, RP!field_width, R!bit_offset_of, RP!bit_offset_of
<1>8. ASSUME NEW k
      PROVE  R!ReadAligned(k) => RP!ReadAligned(k)
  BY DEF R!ReadAligned, RP!ReadAligned, R!GetAligned, RP!GetAligned, R!ShiftedByte, RP!ShiftedByte,
         R!IntShiftedByte, RP!IntShiftedByte, R!IntShifts, RP!IntShifts
<1>9. R!AlignToByte => RP!AlignToByte
  BY DEF R!AlignToByte, RP!AlignToByte
<1>10. ASSUME NEW op, NEW f, NEW types
       PROVE  R!Begin(op, f, types) => RP!Begin(op, f, types)
  BY <1>1 DEF R!Begin, RP!Begin, R!Frame, RP!Frame, R!NoResult, RP!NoResult
<1>11. ASSUME NEW status
       PROVE  R!EndLoop(status) <=> RP!EndLoop(status)
  BY DEF R!EndLoop, RP!EndLoop
<1>12. R!LoopField => RP!LoopField
  BY <1>0, <1>11 DEF R!LoopField, RP!LoopField, R!TakeField, RP!TakeField, R!NextIdx, RP!NextIdx,
     R!Narrow, RP!Narrow, R!Truncate, RP!Truncate, R!is_padding_field, RP!is_padding_field
<1>13. R!LoopReturn => RP!LoopReturn
  BY <1>11 DEF R!LoopReturn, RP!LoopReturn, R!NextIdx, RP!NextIdx
<1>14. ASSUME NEW table
       PROVE  R!VerifyExpected(table) => RP!VerifyExpected(table)
  BY <1>2 DEF R!VerifyExpected, RP!VerifyExpected, R!TableCall, RP!TableCall,
     R!VerifyStatus, RP!VerifyStatus, R!Passes, RP!Passes, R!Known, RP!Known, R!Get, RP!Get
<1>15. R!Init => RP!Init
  BY DEF R!Init, RP!Init, R!Buffers, RP!Buffers, R!Byte, RP!Byte, R!NoResult, RP!NoResult
<1>16. R!Next => RP!Next
  BY <1>3, <1>5, <1>6, <1>7, <1>8, <1>9, <1>10, <1>12, <1>13, <1>14
     DEF R!Next, RP!Next, R!Step, RP!Step, R!ApiCall, RP!ApiCall, R!Deserialize, RP!Deserialize,
         R!DeserializeInto, RP!DeserializeInto, R!FieldNames, RP!FieldNames, R!Unknown, RP!Unknown,
         R!AlignedSizes, RP!AlignedSizes
<1> QED
  BY <1>15, <1>16

-----------------------------------------------------------------------------
(* The invariant.                                                          *)

SessionInv == WP!Persistent /\ RP!Core

\* The two classes and the session mean the same bits and the same layout.
LEMMA SameWire ==
  ASSUME NEW pos, NEW n
  PROVE  /\ WP!GetBits(Order, buffer, pos, n) = GetBits(Order, buffer, pos, n)
         /\ RP!GetBits(Order, buffer, pos, n) = GetBits(Order, buffer, pos, n)
BY DEF WP!GetBits, RP!GetBits, GetBits, WP!value_bit, RP!value_bit, value_bit,
       WP!IsSet, RP!IsSet, IsSet, WP!bit_idx, RP!bit_idx, bit_idx,
       WP!byte_idx, RP!byte_idx, byte_idx

LEMMA SameFormat ==
  ASSUME NEW f, NEW name
  PROVE  /\ RP!FieldOffsets(f) = FieldOffsets(f)
         /\ RP!total_bits(f) = total_bits(f)
         /\ RP!field_index(f, name) = field_index(f, name)
         /\ RP!bit_offset_of(f, name) = bit_offset_of(f, name)
         /\ RP!field_width(f, name) = field_width(f, name)
         /\ RP!is_padding_field(name) = is_padding_field(name)
<1>1. RP!FieldOffsets(f) = FieldOffsets(f)
  BY DEF RP!FieldOffsets, FieldOffsets
<1>2. RP!field_index(f, name) = field_index(f, name)
  BY DEF RP!field_index, field_index
<1> QED
  BY <1>1, <1>2 DEF RP!total_bits, total_bits, RP!bit_offset_of, bit_offset_of,
                    RP!field_width, field_width, RP!is_padding_field, is_padding_field

LEMMA InitSession == Init => SessionInv
<1> SUFFICES ASSUME Init
             PROVE  SessionInv
  OBVIOUS
<1>1. WP!Persistent
  BY Assumptions, SameWriter, WP!InitPersistent DEF Init
<1>2. RP!Inv
  BY Assumptions, SameReader, RP!InitInv DEF Init
<1> QED
  BY <1>1, <1>2 DEF SessionInv, RP!Inv, RP!LoopsInv, RP!Core

\* The writer leaves the reader's cursor alone, and a reader that is in no loop
\* has nothing else that depends on the buffer.
LEMMA WriterStep ==
  ASSUME SessionInv, R!Idle, W!Next, UNCHANGED readerVars
  PROVE  SessionInv'
<1>1. WP!Persistent'
  BY Assumptions, SameWriter, WP!NextPersistent DEF SessionInv
<1>2. buffer' \in Buffers(BufSize)
  BY <1>1 DEF WP!Persistent, WP!Bounded, WP!TypeOK, WP!Buffers, Buffers, WP!Byte, Byte
<1>3. rpos' = rpos /\ rcall' = rcall /\ packet' = packet /\ last' = last
  BY DEF readerVars
<1>4. RP!Typed'
  BY <1>2, <1>3 DEF SessionInv, RP!Core, RP!Typed, RP!TypeOK, RP!InBounds
<1>5. RP!LoopInv'
  BY <1>3 DEF R!Idle, RP!LoopInv, RP!Idle
<1> QED
  BY <1>1, <1>4, <1>5 DEF SessionInv, RP!Core

\* The reader writes nothing.
LEMMA ReaderStep ==
  ASSUME SessionInv, R!Next, UNCHANGED writerVars
  PROVE  SessionInv'
<1>1. RP!Core' /\ buffer' = buffer
  BY Assumptions, SameReader, RP!NextCore DEF SessionInv
<1>2. UNCHANGED WP!vars
  BY <1>1 DEF WP!vars, writerVars
<1>3. WP!Persistent'
  BY <1>2, Assumptions, WP!NextPersistent DEF SessionInv
<1> QED
  BY <1>1, <1>3 DEF SessionInv

LEMMA StutterSession ==
  ASSUME SessionInv, UNCHANGED vars
  PROVE  SessionInv'
<1>1. UNCHANGED WP!vars
  BY DEF WP!vars, vars, writerVars
<1>2. WP!Persistent'
  BY <1>1, Assumptions, WP!NextPersistent DEF SessionInv
<1>3. /\ buffer' = buffer /\ rpos' = rpos /\ rcall' = rcall /\ packet' = packet
      /\ last' = last
  BY DEF vars, readerVars
<1>4. RP!Typed'
  BY <1>3 DEF SessionInv, RP!Core, RP!Typed, RP!TypeOK, RP!InBounds
<1>5. RP!LoopInv'
  BY <1>3 DEF SessionInv, RP!Core, RP!LoopInv, RP!Idle, RP!Prefix, RP!LayoutValue
<1> QED
  BY <1>2, <1>4, <1>5 DEF SessionInv, RP!Core

LEMMA SpecSession == Spec => []SessionInv
<1>1. SessionInv /\ [Next]_vars => SessionInv'
  BY WriterStep, ReaderStep, StutterSession DEF Next
<1> QED
  BY <1>1, InitSession, PTL DEF Spec

-----------------------------------------------------------------------------
(* What is read.                                                           *)

\* The bits of the buffer are what the writer's history says.
LEMMA ReadsBack ==
  ASSUME SessionInv, NEW pos \in Nat, NEW n \in Nat, pos + n <= 8 * BufSize,
         NEW width \in Nat, NEW value,
         value = Truncate(GetBits(Order, buffer, pos, n), width)
  PROVE  AsWritten(pos, n, width, value)
<1>0. /\ Order \in Orders /\ BufSize \in Nat /\ wpos \in Nat
      /\ \A r \in written : /\ r.pos \in Nat /\ r.n \in Nat
                            /\ r.value \in SUBSET (0 .. r.n - 1)
                            /\ GetBits(Order, buffer, r.pos, r.n) = r.value
      /\ \A p \in wpos .. 8 * BufSize - 1 : IsSet(Order, buffer, p) => byte_idx(p) \in filled
  BY Assumptions, SameWire
     DEF SessionInv, WP!Persistent, WP!Bounded, WP!TypeOK, WP!RegionsInPast, WP!FieldsPersist,
         WP!TailClear, WP!Cap, WP!WriterAssumption, WP!Orders, Orders, WP!IsSet, IsSet,
         WP!bit_idx, bit_idx, WP!byte_idx, byte_idx
<1>1. value \subseteq 0 .. width - 1
  BY DEF Truncate
<1> SUFFICES ASSUME NEW i \in 0 .. n - 1, value_bit(Order, n, i) < width
             PROVE  ~Contradicts(pos + i, value_bit(Order, n, i) \in value)
  BY <1>1 DEF AsWritten
<1> DEFINE k == value_bit(Order, n, i)
           p == pos + i
<1>2. k \in 0 .. n - 1 /\ k \in 0 .. width - 1
  BY <1>0, ValueBitType
<1>3. k \in value <=> IsSet(Order, buffer, p)
  <2> DEFINE got == GetBits(Order, buffer, pos, n)
  <2>1. got \in SUBSET (0 .. n - 1)
    BY <1>0, GetBitsType
  <2>2. k \in got <=> IsSet(Order, buffer, p)
    BY <1>0, <2>1, GetBitsIff
  <2> QED
    BY <1>2, <2>2 DEF Truncate
<1>4. p \in Nat /\ p < 8 * BufSize
  BY <1>0
<1> HIDE DEF k, p
<1>5. ASSUME NEW r \in written, p \in r.pos .. r.pos + r.n - 1
      PROVE  (k \in value) = (value_bit(Order, r.n, p - r.pos) \in r.value)
  <2>1. p - r.pos \in 0 .. r.n - 1 /\ r.pos + (p - r.pos) = p
    BY <1>0, <1>4, <1>5
  <2>2. IsSet(Order, buffer, p) <=> value_bit(Order, r.n, p - r.pos) \in r.value
    BY <1>0, <2>1, GetBitsIff
  <2> QED
    BY <1>3, <2>2
<1>6. ASSUME k \in value, p >= wpos
      PROVE  byte_idx(p) \in filled
  <2>1. p \in wpos .. 8 * BufSize - 1
    BY <1>0, <1>4, <1>6
  <2> QED
    BY <1>0, <1>3, <1>6, <2>1
<1>7. ~Contradicts(p, k \in value)
  BY <1>5, <1>6 DEF Contradicts
<1> QED
  BY <1>7 DEF k, p

LEMMA TruncateWord ==
  ASSUME NEW value \in SUBSET (0 .. 63)
  PROVE  value = Truncate(value, 64)
<1>1. 0 .. 64 - 1 = 0 .. 63
  OBVIOUS
<1> QED
  BY <1>1 DEF Truncate

\* A whole value that one call returned.
LEMMA WholeReadsBack ==
  ASSUME SessionInv, NEW pos \in Nat, NEW n \in 1 .. 64, NEW value, RP!IsRead(pos, n, value)
  PROVE  AsWritten(pos, n, 64, value)
<1>1. pos + n <= 8 * BufSize /\ value = GetBits(Order, buffer, pos, n)
  BY SameWire DEF RP!IsRead, RP!Cap
<1>2. GetBits(Order, buffer, pos, n) \in SUBSET (0 .. n - 1)
  BY Assumptions, GetBitsType DEF WP!WriterAssumption, WP!Orders, Orders
<1>3. value = Truncate(GetBits(Order, buffer, pos, n), 64)
  BY <1>1, <1>2 DEF Truncate
<1> QED
  BY <1>1, <1>3, ReadsBack

\* The values that a loop has taken.
LEMMA FieldsReadBack ==
  ASSUME SessionInv, ~RP!Idle
  PROVE  FieldsAsWritten(rcall.format, rcall.from, rcall.types, rcall.values)
<1> DEFINE f == rcall.format
           from == rcall.from
           types == rcall.types
           values == rcall.values
<1>1. /\ f \in Formats /\ from + total_bits(f) <= 8 * BufSize /\ RP!Prefix(rcall)
      /\ types = <<>> \/ Len(types) = Len(f)
  BY SameFormat DEF SessionInv, RP!Core, RP!LoopInv, RP!Cap
<1>2. /\ types \in Seq(OutWidths) /\ from \in Nat /\ values \in Seq(RP!Word)
      /\ OutWidths \subseteq Nat /\ BufSize \in Nat
  BY Assumptions DEF SessionInv, RP!Core, RP!Typed, RP!TypeOK, RP!Frames, RP!Idle,
                     RP!ReaderAssumption
<1>3. f \in Seq(FieldDef)
  BY <1>1, Assumptions DEF RP!ReaderAssumption, RP!FieldDef, FieldDef
<1>4. Len(f) \in Nat /\ Len(values) \in Nat /\ Len(values) <= Len(f)
  BY <1>1, <1>2, <1>3, FieldTypes DEF RP!Prefix
<1> SUFFICES ASSUME NEW i \in 1 .. Len(values), ~is_padding_field(f[i].name)
             PROVE  AsWritten(from + FieldOffsets(f)[i - 1], f[i].bit_width,
                              IF types = <<>> THEN 64 ELSE types[i], values[i])
  <2>1. ASSUME NEW i \in 1 .. Len(values), is_padding_field(f[i].name)
        PROVE  values[i] = {}
    BY <1>1, <2>1, SameFormat DEF RP!Prefix, RP!LayoutValue, RP!Truncate
  <2> QED
    BY <2>1 DEF FieldsAsWritten
<1> DEFINE pos == from + FieldOffsets(f)[i - 1]
           n == f[i].bit_width
           width == IF types = <<>> THEN 64 ELSE types[i]
           got == GetBits(Order, buffer, pos, n)
<1>5. i \in 1 .. Len(f) /\ i \in 0 .. Len(f) /\ i - 1 \in 0 .. Len(f)
  BY <1>4
<1>6. n \in 1 .. 64
  BY <1>1, SameFormat DEF RP!Prefix, RP!BadField
<1>7. values[i] = IF types = <<>> THEN got ELSE Truncate(got, types[i])
  BY <1>1, SameFormat, SameWire DEF RP!Prefix, RP!LayoutValue, RP!Truncate, Truncate
<1>8. Order \in Orders
  BY Assumptions DEF WP!WriterAssumption, WP!Orders, Orders
<1>9. /\ FieldOffsets(f)[i] = FieldOffsets(f)[i - 1] + n
      /\ FieldOffsets(f)[i - 1] \in Nat
      /\ FieldOffsets(f)[i] <= total_bits(f) /\ total_bits(f) \in Nat
  BY <1>3, <1>5, Offsets, TotalBits
<1> HIDE DEF f, from, types, values, n
<1>10. width \in Nat
  <2>1. types # <<>> => types[i] \in OutWidths
    BY <1>1, <1>2, <1>5
  <2> QED
    BY <1>2, <2>1
<1>11. pos \in Nat /\ pos + n <= 8 * BufSize
  <2> DEFINE a == FieldOffsets(f)[i - 1]
             total == total_bits(f)
  <2>1. a \in Nat /\ total \in Nat /\ a + n <= total /\ n \in Nat
    BY <1>6, <1>9
  <2>2. from + total <= 8 * BufSize
    BY <1>1
  <2> HIDE DEF a, total
  <2>3. from + a \in Nat /\ (from + a) + n <= 8 * BufSize
    BY <1>2, <2>1, <2>2
  <2> QED
    BY <2>3 DEF a
<1> HIDE DEF pos
<1>12. got \in SUBSET (0 .. n - 1)
  BY <1>6, <1>8, <1>11, GetBitsType
<1> HIDE DEF got
<1>13. values[i] = Truncate(got, width)
  <2>1. got \subseteq 0 .. 63
    BY <1>6, <1>12
  <2>2. got = Truncate(got, 64)
    BY <2>1, TruncateWord
  <2> QED
    BY <1>7, <2>2
<1> HIDE DEF width
<1>14. AsWritten(pos, n, width, values[i])
  BY <1>6, <1>10, <1>11, <1>13, ReadsBack DEF got
<1> QED
  BY <1>14 DEF pos, n, width

-----------------------------------------------------------------------------
(* The theorem.                                                            *)

\* What the reader's step tells its client.
LEMMA ReaderReports ==
  ASSUME SessionInv, R!Next, UNCHANGED writerVars, last'.status = "ok"
  PROVE  LET c == last'.c
             from == last'.from
             value == last'.value
         IN  /\ c.op = "read_bits" => AsWritten(from, c.n, 64, value)
             /\ c.op = "read_field" =>
                  AsWritten(bit_offset_of(c.format, c.name), field_width(c.format, c.name),
                            64, value)
             /\ c.op = "read_aligned" /\ c.n \in SoundSizes => AsWritten(from, 8 * c.n, 64, value)
             /\ c.op \in {"deserialize", "deserialize_into"} =>
                  /\ Len(packet'.values) = Len(c.format)
                  /\ FieldsAsWritten(c.format, from, packet'.types, packet'.values)
<1> DEFINE Goal == LET c == last'.c
                       from == last'.from
                       value == last'.value
                   IN  /\ c.op = "read_bits" => AsWritten(from, c.n, 64, value)
                       /\ c.op = "read_field" =>
                            AsWritten(bit_offset_of(c.format, c.name),
                                      field_width(c.format, c.name), 64, value)
                       /\ c.op = "read_aligned" /\ c.n \in SoundSizes =>
                            AsWritten(from, 8 * c.n, 64, value)
                       /\ c.op \in {"deserialize", "deserialize_into"} =>
                            /\ Len(packet'.values) = Len(c.format)
                            /\ FieldsAsWritten(c.format, from, packet'.types, packet'.values)
<1>0. RP!Next /\ RP!Core
  BY SameReader DEF SessionInv
<1>1. CASE RP!Answers
  <2>1. PICK c, pos, status, value :
          RP!EndAt(c, pos, status, value) /\ RP!Answer(c, pos, status, value)
    BY <1>1 DEF RP!Answers
  <2>2. last'.c = c /\ last'.from = rpos /\ status = "ok" /\ last'.value = value
    BY <2>1 DEF RP!EndAt, RP!Result
  <2>3. rpos \in Nat
    BY <1>0 DEF RP!Core, RP!Typed, RP!TypeOK
  <2>4. c.op = "read_bits" => AsWritten(rpos, c.n, 64, value)
    BY <2>1, <2>2, <2>3, WholeReadsBack DEF RP!Answer
  <2>5. c.op = "read_field" =>
          AsWritten(bit_offset_of(c.format, c.name), field_width(c.format, c.name), 64, value)
    <3> SUFFICES ASSUME c.op = "read_field"
                 PROVE  AsWritten(bit_offset_of(c.format, c.name),
                                  field_width(c.format, c.name), 64, value)
      OBVIOUS
    <3>1. /\ c.format \in Formats /\ field_index(c.format, c.name) # 0
          /\ field_width(c.format, c.name) \in 1 .. 64
          /\ RP!IsRead(bit_offset_of(c.format, c.name), field_width(c.format, c.name), value)
      BY <2>1, <2>2, SameFormat DEF RP!Answer, RP!IsField
    <3>2. c.format \in Seq(FieldDef)
      BY <3>1, Assumptions DEF RP!ReaderAssumption, RP!FieldDef, FieldDef
    <3>3. bit_offset_of(c.format, c.name) \in Nat
      BY <3>1, <3>2, FieldInside
    <3> QED
      BY <3>1, <3>3, WholeReadsBack
  <2>6. c.op = "read_aligned" /\ c.n \in SoundSizes => AsWritten(rpos, 8 * c.n, 64, value)
    <3> SUFFICES ASSUME c.op = "read_aligned", c.n \in SoundSizes
                 PROVE  AsWritten(rpos, 8 * c.n, 64, value)
      OBVIOUS
    <3>1. c.n <= RP!SoundSize /\ 8 * c.n \in 1 .. 64
      BY DEF SoundSizes, RP!SoundSize, AlignedSizes
    <3>2. RP!IsRead(rpos, 8 * c.n, value)
      BY <2>1, <2>2, <3>1 DEF RP!Answer
    <3> QED
      BY <2>3, <3>1, <3>2, WholeReadsBack
  <2>7. c.op \notin {"deserialize", "deserialize_into"}
    BY <2>1, <2>2 DEF RP!Answer
  <2> QED
    BY <2>2, <2>4, <2>5, <2>6, <2>7
<1>2. CASE RP!Silent
  <2>1. last'.c.op = "none"
    BY <1>2 DEF RP!Silent, RP!NoResult, RP!Result, RP!NoCall
  <2> QED
    BY <2>1
<1>3. CASE RP!Ended
  <2>1. /\ last'.c.op = rcall.op /\ last'.c.format = rcall.format /\ last'.from = rcall.from
        /\ packet' = rcall /\ Len(rcall.values) = Len(rcall.format) /\ ~RP!Idle
    BY <1>3 DEF RP!Ended, RP!FieldCall, RP!NoCall
  <2>2. rcall.op \in {"deserialize", "deserialize_into"}
    BY <1>0, <2>1 DEF RP!Core, RP!Typed, RP!TypeOK, RP!Frames, RP!Idle
  <2>3. FieldsAsWritten(rcall.format, rcall.from, rcall.types, rcall.values)
    BY <2>1, FieldsReadBack
  <2> QED
    BY <2>1, <2>2, <2>3
<1>4. ASSUME NEW table \in Tables, RP!VerifyExpected(table)
      PROVE  Goal
  <2>1. last'.c.op = "verify_expected"
    BY <1>4 DEF RP!VerifyExpected, RP!Throw, RP!EndAt, RP!Result, RP!TableCall, RP!NoCall
  <2> QED
    BY <2>1
<1>5. \/ RP!Idle /\ RP!Answers
      \/ RP!Silent \/ RP!Ended
      \/ \E table \in Tables : RP!VerifyExpected(table)
  BY <1>0, Assumptions, RP!NextKinds
<1> QED
  BY <1>1, <1>2, <1>3, <1>4, <1>5

\* Round trip, for every memory, both wire orders, all formats, widths and values
\* and every interleaving of the two objects' calls.
THEOREM RoundTrip == Spec => ReadsAsWritten
<1>1. SessionInv /\ [Next]_vars => [ReadsAsWritten!1]_vars
  <2> SUFFICES ASSUME SessionInv, [Next]_vars, vars' # vars,
                      UNCHANGED <<buffer, writerVars>>, last'.status = "ok"
               PROVE  ReadsAsWritten!1
    OBVIOUS
  <2>1. CASE W!Next /\ UNCHANGED readerVars
    BY <2>1 DEF vars
  <2>2. CASE R!Next /\ UNCHANGED writerVars
    BY <2>2, ReaderReports
  <2> QED
    BY <2>1, <2>2 DEF Next
<1> QED
  BY <1>1, SpecSession, PTL DEF Spec, ReadsAsWritten

=============================================================================
