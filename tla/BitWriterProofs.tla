-------------------------- MODULE BitWriterProofs --------------------------
(***************************************************************************)
(* What holds of a BitWriter for every buffer size, both wire orders, all  *)
(* formats and all widths, those that wrap std::size_t included.           *)
(***************************************************************************)
EXTENDS BitWriter, WireProofs

LEMMA CapNat == Cap \in Nat
BY WriterAssumption DEF Cap

\* The widths that CanWrite lets through do not wrap: the space is really there.
LEMMA CanWriteFits ==
  ASSUME TypeOK, InBounds, NEW n, CanWrite(n)
  PROVE  n \in 1 .. 64 /\ bit_offset_ + n <= Cap
<1>1. n \in 1 .. 64 /\ (bit_offset_ + n) % SizeMod <= Cap
  BY DEF CanWrite, has_space
<1>2. bit_offset_ \in Nat /\ bit_offset_ <= Cap /\ Cap \in Nat
  BY CapNat DEF TypeOK, InBounds
<1>3. bit_offset_ + n \in Nat /\ SizeMod \in Nat /\ bit_offset_ + n < SizeMod
  BY <1>1, <1>2, WriterAssumption
<1> QED
  BY <1>1, <1>3, ModSmall

\* The same for write_aligned, which has no check of the width to make.
LEMMA AlignedFits ==
  ASSUME TypeOK, InBounds, NEW k \in AlignedSizes, has_space(8 * k)
  PROVE  bit_offset_ + 8 * k <= Cap
<1>1. 8 * k \in 1 .. 64
  BY DEF AlignedSizes
<1> QED
  BY <1>1, CanWriteFits DEF CanWrite

\* Padding to a byte stays in a buffer of whole bytes.
LEMMA AlignFits ==
  ASSUME TypeOK, InBounds, bit_offset_ % 8 # 0
  PROVE  /\ (byte_idx(bit_offset_) + 1) * 8 \in Nat
         /\ bit_offset_ < (byte_idx(bit_offset_) + 1) * 8
         /\ (byte_idx(bit_offset_) + 1) * 8 <= Cap
<1> DEFINE b == byte_idx(bit_offset_)
<1>1. bit_offset_ \in Nat /\ bit_offset_ <= 8 * BufSize /\ BufSize \in Nat
  BY WriterAssumption DEF TypeOK, InBounds, Cap
<1>2. b \in Nat /\ bit_offset_ % 8 \in 0 .. 7 /\ bit_offset_ = 8 * b + (bit_offset_ % 8)
  BY <1>1, Position, Zenon
<1> QED
  BY <1>1, <1>2 DEF Cap

-----------------------------------------------------------------------------
(* Type correctness and bounds.                                            *)

Bounded == TypeOK /\ InBounds

LEMMA ThrowBounded ==
  ASSUME Bounded, NEW error \in Errors, Throw(error)
  PROVE  Bounded'
BY DEF Bounded, TypeOK, InBounds, Throw, NoCall

LEMMA ThrowWriteBounded ==
  ASSUME Bounded, NEW n, ThrowWrite(n)
  PROVE  Bounded'
BY ThrowBounded DEF ThrowWrite, Errors

\* A claim adds at most one region.
LEMMA ClaimAdds ==
  ASSUME NEW n, NEW v, Claim(n, v)
  PROVE  \/ written' = written
         \/ /\ written' = written \cup {Region(bit_offset_, n, v)}
            /\ ~Overlaps(Region(bit_offset_, n, v), filled)
BY DEF Claim

LEMMA ClaimType ==
  ASSUME TypeOK, NEW n \in Nat, NEW v \in Word, Claim(n, v)
  PROVE  written' \subseteq [pos : Nat, n : Nat, value : Word]
<1>1. Region(bit_offset_, n, v) \in [pos : Nat, n : Nat, value : Word]
  BY DEF TypeOK, Region
<1> QED
  BY <1>1, ClaimAdds DEF TypeOK

LEMMA PutFieldBounded ==
  ASSUME Bounded, NEW n, NEW value, CanWrite(n), PutField(n, value)
  PROVE  /\ buffer' \in Buffers(BufSize)
         /\ bit_offset_' \in Nat /\ bit_offset_' <= Cap
         /\ written' \subseteq [pos : Nat, n : Nat, value : Word]
         /\ filled' = filled
<1>1. n \in 1 .. 64 /\ bit_offset_ + n <= Cap
  BY CanWriteFits DEF Bounded
<1>2. /\ buffer \in Buffers(BufSize) /\ BufSize \in Nat /\ Order \in Orders
      /\ bit_offset_ \in Nat /\ n \in Nat /\ n <= 64
  BY <1>1, WriterAssumption DEF Bounded, TypeOK
<1>3. buffer' \in Buffers(BufSize)
  BY <1>2, PutBitsType DEF PutField
<1>4. Truncate(value, n) \in Word
  BY <1>2 DEF Truncate, Word
<1>5. written' \subseteq [pos : Nat, n : Nat, value : Word]
  BY <1>2, <1>4, ClaimType DEF PutField, Bounded
<1> QED
  BY <1>1, <1>2, <1>3, <1>5 DEF PutField

LEMMA RewindType ==
  ASSUME TypeOK, InBounds, NEW to \in Nat, Rewind(to)
  PROVE  /\ written' \subseteq [pos : Nat, n : Nat, value : Word]
         /\ filled' \subseteq 0 .. BufSize - 1
<1>1. bit_offset_ \in Nat /\ bit_offset_ <= 8 * BufSize /\ BufSize \in Nat
  BY WriterAssumption DEF TypeOK, InBounds, Cap
<1>2. ASSUME NEW p \in to .. bit_offset_ - 1
      PROVE  byte_idx(p) \in 0 .. BufSize - 1
  <2>1. p \in 0 .. 8 * BufSize - 1
    BY <1>1
  <2> QED
    BY <1>1, <2>1, ByteInBuffer
<1> QED
  BY <1>2 DEF TypeOK, Rewind

\* Every step of every sequence of calls keeps the types and the bounds.
LEMMA NextBounded ==
  ASSUME Bounded, Next
  PROVE  Bounded'
<1> USE WriterAssumption
<1>0. /\ TypeOK /\ InBounds /\ bit_offset_ \in Nat /\ Cap \in Nat /\ BufSize \in Nat
  BY CapNat DEF Bounded, TypeOK
<1>1. CASE SerializeField
  <2> DEFINE n == call.format[call.idx].bit_width
             v == call.values[call.idx]
  <2>1. CASE CanWrite(n) /\ PutField(n, v) /\ call' = [call EXCEPT !.idx = @ + 1]
             /\ UNCHANGED outcome
    <3>1. call \in Calls
      BY <1>0, <1>1 DEF TypeOK, NoCall, SerializeField
    <3>2. call' \in Calls
      BY <1>1, <2>1, <3>1 DEF Calls, SerializeField
    <3> QED
      BY <1>0, <2>1, <3>2, PutFieldBounded DEF Bounded, TypeOK, InBounds
  <2>2. CASE ThrowWrite(n)
    BY <2>2, ThrowWriteBounded
  <2> QED
    BY <1>1, <2>1, <2>2 DEF SerializeField
<1>2. CASE SerializeReturn
  BY <1>0, <1>2 DEF SerializeReturn, Bounded, TypeOK, InBounds
<1>3. CASE Construct
  BY <1>0, <1>3 DEF Construct, Bounded, TypeOK, InBounds, ZeroBuffer, Buffers, Byte
<1>4. ASSUME NEW n \in Widths, NEW v \in Values, WriteBits(n, v)
      PROVE  Bounded'
  <2>1. CASE CanWrite(n) /\ PutField(n, v) /\ outcome' = "ok" /\ UNCHANGED call
    BY <1>0, <2>1, PutFieldBounded DEF Bounded, TypeOK, InBounds
  <2>2. CASE ThrowWrite(n)
    BY <2>2, ThrowWriteBounded
  <2> QED
    BY <1>4, <2>1, <2>2 DEF WriteBits
<1>5. ASSUME NEW f \in Formats, NEW vs \in [1 .. Len(f) -> Values], Serialize(f, vs)
      PROVE  Bounded'
  <2>1. CASE Throw("out_of_range")
    BY <2>1, ThrowBounded DEF Errors
  <2>2. CASE /\ call' = [format |-> f, values |-> vs, idx |-> 1]
             /\ outcome' = "ok"
             /\ UNCHANGED <<buffer, bit_offset_, written, filled>>
    <3>1. Len(f) \in Nat
      BY DEF FieldDef
    <3>2. vs \in Seq(Values) /\ Len(vs) = Len(f)
      BY <3>1
    <3>3. call' \in Calls
      BY <2>2, <3>1, <3>2 DEF Calls
    <3> QED
      BY <1>0, <2>2, <3>3 DEF Bounded, TypeOK, InBounds
  <2> QED
    BY <1>5, <2>1, <2>2 DEF Serialize
<1>6. ASSUME NEW k \in AlignedSizes, NEW v \in Values, WriteAligned(k, Truncate(v, 8 * k))
      PROVE  Bounded'
  <2>1. CASE Throw("logic_error") \/ Throw("out_of_range")
    BY <2>1, ThrowBounded DEF Errors
  <2>2. CASE /\ has_space(8 * k)
             /\ buffer' = PutAligned(Order, buffer, byte_idx(bit_offset_), k, Truncate(v, 8 * k))
             /\ bit_offset_' = bit_offset_ + 8 * k
             /\ outcome' = "ok"
             /\ written' = written \cup {Region(bit_offset_, 8 * k, Truncate(v, 8 * k))}
             /\ UNCHANGED <<call, filled>>
    <3>1. bit_offset_ + 8 * k <= Cap
      BY <1>0, <2>2, AlignedFits
    <3>2. k \in Nat /\ 8 * k \in 1 .. 64
      BY DEF AlignedSizes
    <3>3. byte_idx(bit_offset_) \in Nat
      BY <1>0, Position
    <3>4. buffer' \in Buffers(BufSize)
      BY <1>0, <2>2, <3>2, <3>3, PutAlignedType DEF TypeOK
    <3>5. Region(bit_offset_, 8 * k, Truncate(v, 8 * k)) \in [pos : Nat, n : Nat, value : Word]
      BY <1>0, <3>2 DEF Region, Truncate, Word
    <3> QED
      BY <1>0, <2>2, <3>1, <3>2, <3>4, <3>5 DEF Bounded, TypeOK, InBounds
  <2> QED
    BY <1>6, <2>1, <2>2 DEF WriteAligned
<1>7. ASSUME NEW n \in Widths, SkipBits(n)
      PROVE  Bounded'
  <2> DEFINE next == (bit_offset_ + n) % SizeMod
  <2>1. CASE Throw("out_of_range")
    BY <2>1, ThrowBounded DEF Errors
  <2>2. CASE has_space(n) /\ bit_offset_' = next /\ outcome' = "ok" /\ UNCHANGED <<buffer, call>>
    <3>1. n \in Nat /\ SizeMod \in Nat /\ SizeMod > 0
      BY <1>0
    <3>2. next \in Nat /\ next <= Cap
      BY <1>0, <2>2, <3>1, ModType DEF has_space
    <3> HIDE DEF next
    <3>3. CASE next < bit_offset_ /\ Rewind(next)
      BY <1>0, <2>2, <3>2, <3>3, RewindType DEF Bounded, TypeOK, InBounds
    <3>4. CASE ~(next < bit_offset_) /\ Claim(next - bit_offset_, {}) /\ UNCHANGED filled
      <4>1. next - bit_offset_ \in Nat
        BY <1>0, <3>2, <3>4, Difference
      <4> DEFINE gap == next - bit_offset_
      <4> HIDE DEF gap
      <4>2. written' \subseteq [pos : Nat, n : Nat, value : Word]
        BY <1>0, <3>4, <4>1, ClaimType DEF Word, gap
      <4> QED
        BY <1>0, <2>2, <3>2, <3>4, <4>2 DEF Bounded, TypeOK, InBounds
    <3> QED
      BY <1>7, <2>2, <3>3, <3>4 DEF SkipBits, Throw, Errors, next
  <2> QED
    BY <1>7, <2>1, <2>2 DEF SkipBits
<1>8. CASE AlignToByte
  <2>1. bit_offset_' \in Nat /\ bit_offset_ <= bit_offset_' /\ bit_offset_' <= Cap
    BY <1>0, <1>8, AlignFits DEF AlignToByte, InBounds
  <2> DEFINE gap == bit_offset_' - bit_offset_
  <2>2. Claim(gap, {}) /\ {} \in Word
    BY <1>8 DEF AlignToByte, Word
  <2>3. gap \in Nat
    BY <1>0, <2>1, Difference
  <2> HIDE DEF gap
  <2>4. written' \subseteq [pos : Nat, n : Nat, value : Word]
    BY <1>0, <2>2, <2>3, ClaimType
  <2> QED
    BY <1>0, <1>8, <2>1, <2>4 DEF AlignToByte, Bounded, TypeOK, InBounds
<1>9. ASSUME NEW f, NEW name, NEW fill \in Fills, StoreSpan(f, name, fill)
      PROVE  Bounded'
  BY <1>0, <1>9 DEF StoreSpan, Bounded, TypeOK, InBounds, Buffers
<1> QED
  BY <1>1, <1>2, <1>3, <1>4, <1>5, <1>6, <1>7, <1>8, <1>9 DEF Next, Step, ApiCall, Store

LEMMA InitBounded == Init => Bounded
BY WriterAssumption, CapNat
   DEF Init, Bounded, TypeOK, InBounds, ZeroBuffer, Buffers, Byte, NoCall

LEMMA StutterBounded == Bounded /\ UNCHANGED vars => Bounded'
BY DEF Bounded, TypeOK, InBounds, vars

LEMMA SpecBounded == Spec => []Bounded
<1>1. Bounded /\ [Next]_vars => Bounded'
  BY NextBounded, StutterBounded
<1> QED
  BY <1>1, InitBounded, PTL DEF Spec

\* Type correctness of the writer.
THEOREM TypeCorrect == Spec => []TypeOK
BY SpecBounded, PTL DEF Bounded

\* No call, wrapping widths included, moves the cursor past the buffer.
THEOREM CursorInBounds == Spec => []InBounds
BY SpecBounded, PTL DEF Bounded

-----------------------------------------------------------------------------
(* Persistence.  A bit loop that only ORs is right because everything from *)
(* the cursor on is 0 unless it is in a filled byte, and a region stays as *)
(* it was written because it ends before the cursor, calls only change     *)
(* bits after it, and a cursor that goes back gives up what it passes.     *)

RegionsInPast ==
  \A r \in written : r.pos + r.n <= bit_offset_ /\ r.value \in SUBSET (0 .. r.n - 1)

Persistent == Bounded /\ TailClear /\ RegionsInPast /\ FieldsPersist

\* The n bits from the cursor on are those of v.
Landed(n, v) ==
  \A p \in bit_offset_ .. bit_offset_ + n - 1 :
    IsSet(Order, buffer', p) <=> value_bit(Order, n, p - bit_offset_) \in v

\* What writing, skipping and padding have in common: the cursor passes n bits,
\* the other bits stay, and v lands in them outside the filled bytes.
Appends(n, v) ==
  /\ n \in Nat /\ v \in SUBSET (0 .. n - 1)
  /\ bit_offset_' = bit_offset_ + n /\ bit_offset_ + n <= Cap
  /\ filled' = filled
  /\ \A p \in 0 .. Cap - 1 :
       p \notin bit_offset_ .. bit_offset_ + n - 1
         => (IsSet(Order, buffer', p) <=> IsSet(Order, buffer, p))
  /\ \A p \in bit_offset_ .. bit_offset_ + n - 1 :
       byte_idx(p) \notin filled
         => (IsSet(Order, buffer', p) <=> value_bit(Order, n, p - bit_offset_) \in v)
  /\ \/ written' = written
     \/ Landed(n, v) /\ written' = written \cup {Region(bit_offset_, n, v)}

\* A region none of whose bits changes still reads back.
LEMMA RegionStable ==
  ASSUME Persistent, NEW r \in written,
         \A p \in r.pos .. r.pos + r.n - 1 :
           IsSet(Order, buffer', p) <=> IsSet(Order, buffer, p)
  PROVE  GetBits(Order, buffer', r.pos, r.n) = r.value
<1>1. /\ r.pos \in Nat /\ r.n \in Nat /\ r.value \in SUBSET (0 .. r.n - 1)
      /\ Order \in Orders
  BY WriterAssumption DEF Persistent, Bounded, TypeOK, RegionsInPast
<1>2. GetBits(Order, buffer, r.pos, r.n) = r.value
  BY DEF Persistent, FieldsPersist
<1>3. \A i \in 0 .. r.n - 1 :
        IsSet(Order, buffer, r.pos + i) <=> value_bit(Order, r.n, i) \in r.value
  BY <1>1, <1>2, GetBitsIff
<1>4. \A i \in 0 .. r.n - 1 :
        IsSet(Order, buffer', r.pos + i) <=> value_bit(Order, r.n, i) \in r.value
  <2> SUFFICES ASSUME NEW i \in 0 .. r.n - 1
               PROVE  IsSet(Order, buffer', r.pos + i)
                        <=> value_bit(Order, r.n, i) \in r.value
    OBVIOUS
  <2>1. r.pos + i \in r.pos .. r.pos + r.n - 1
    BY <1>1
  <2> QED
    BY <1>3, <2>1
<1> QED
  BY <1>1, <1>4, GetBitsIff

LEMMA AppendsPersistent ==
  ASSUME Persistent, Bounded', NEW n, NEW v, Appends(n, v)
  PROVE  Persistent'
<1>1. /\ bit_offset_ \in Nat /\ Cap \in Nat /\ n \in Nat /\ v \in SUBSET (0 .. n - 1)
      /\ bit_offset_' = bit_offset_ + n /\ bit_offset_ + n <= Cap
      /\ Order \in Orders
  BY CapNat, WriterAssumption DEF Persistent, Bounded, TypeOK, Appends
<1>2. TailClear'
  <2> SUFFICES ASSUME NEW p \in bit_offset_' .. Cap - 1
               PROVE  IsSet(Order, buffer', p) => byte_idx(p) \in filled'
    BY DEF TailClear, Cap
  <2>1. p \in 0 .. Cap - 1 /\ p \notin bit_offset_ .. bit_offset_ + n - 1
        /\ p \in bit_offset_ .. Cap - 1
    BY <1>1
  <2> QED
    BY <2>1 DEF Appends, Persistent, TailClear
<1>3. ASSUME NEW r \in written'
      PROVE  /\ r.pos + r.n <= bit_offset_' /\ r.value \in SUBSET (0 .. r.n - 1)
             /\ GetBits(Order, buffer', r.pos, r.n) = r.value
  <2>1. CASE r \in written
    <3>1. r.pos \in Nat /\ r.n \in Nat /\ r.pos + r.n <= bit_offset_
      BY <2>1 DEF Persistent, Bounded, TypeOK, RegionsInPast
    <3>2. ASSUME NEW p \in r.pos .. r.pos + r.n - 1
          PROVE  IsSet(Order, buffer', p) <=> IsSet(Order, buffer, p)
      <4>1. p \in 0 .. Cap - 1 /\ p \notin bit_offset_ .. bit_offset_ + n - 1
        BY <1>1, <3>1
      <4> QED
        BY <4>1 DEF Appends
    <3>3. GetBits(Order, buffer', r.pos, r.n) = r.value
      BY <2>1, <3>2, RegionStable
    <3> QED
      BY <1>1, <2>1, <3>1, <3>3 DEF Persistent, RegionsInPast
  <2>2. CASE r = Region(bit_offset_, n, v) /\ Landed(n, v)
    <3>1. r.pos = bit_offset_ /\ r.n = n /\ r.value = v
      BY <2>2 DEF Region
    <3>2. ASSUME NEW i \in 0 .. n - 1
          PROVE  IsSet(Order, buffer', bit_offset_ + i) <=> value_bit(Order, n, i) \in v
      <4>1. /\ bit_offset_ + i \in bit_offset_ .. bit_offset_ + n - 1
            /\ (bit_offset_ + i) - bit_offset_ = i
        BY <1>1
      <4> QED
        BY <2>2, <4>1 DEF Landed
    <3>3. GetBits(Order, buffer', bit_offset_, n) = v
      BY <1>1, <3>2, GetBitsIff
    <3> QED
      BY <1>1, <3>1, <3>3
  <2> QED
    BY <2>1, <2>2 DEF Appends
<1> QED
  BY <1>2, <1>3 DEF Persistent, RegionsInPast, FieldsPersist

\* A region that no filled byte overlaps has none of its bits in one.
LEMMA ApartFromFilled ==
  ASSUME NEW pos \in Nat, NEW n \in Nat, NEW v, NEW bytes, ~Overlaps(Region(pos, n, v), bytes),
         NEW p \in pos .. pos + n - 1
  PROVE  byte_idx(p) \notin bytes
<1>1. p \in Nat /\ p \in BitsOfByte(byte_idx(p))
  BY DEF BitsOfByte, byte_idx
<1> QED
  BY <1>1 DEF Overlaps, Region

LEMMA PutFieldAppends ==
  ASSUME Persistent, NEW n, NEW value, CanWrite(n), PutField(n, value)
  PROVE  Appends(n, Truncate(value, n))
<1> DEFINE v == Truncate(value, n)
<1>0. n \in 1 .. 64 /\ bit_offset_ + n <= Cap
  BY CanWriteFits DEF Persistent, Bounded
<1>1. /\ bit_offset_ \in Nat /\ Cap \in Nat /\ n \in Nat /\ bit_offset_ + n <= Cap
      /\ Order \in Orders /\ BufSize \in Nat /\ buffer \in Buffers(BufSize)
  BY <1>0, CapNat, WriterAssumption DEF Persistent, Bounded, TypeOK
<1>2. \A p \in 0 .. Cap - 1 :
        IsSet(Order, buffer', p)
          <=> \/ IsSet(Order, buffer, p)
              \/ /\ p \in bit_offset_ .. bit_offset_ + n - 1
                 /\ value_bit(Order, n, p - bit_offset_) \in value
  BY <1>1, PutBitsIsSet DEF PutField, Cap
<1>3. ASSUME NEW p \in bit_offset_ .. bit_offset_ + n - 1, byte_idx(p) \notin filled
      PROVE  IsSet(Order, buffer', p) <=> value_bit(Order, n, p - bit_offset_) \in v
  <2>1. p \in 0 .. Cap - 1 /\ p \in bit_offset_ .. Cap - 1 /\ p - bit_offset_ \in 0 .. n - 1
    BY <1>1
  <2>2. ~IsSet(Order, buffer, p)
    BY <1>3, <2>1 DEF Persistent, TailClear
  <2>3. value_bit(Order, n, p - bit_offset_) \in 0 .. n - 1
    BY <1>1, <2>1, ValueBitType
  <2> QED
    BY <1>2, <2>1, <2>2, <2>3 DEF Truncate
<1>4. v \in SUBSET (0 .. n - 1)
  BY DEF Truncate
<1> HIDE DEF v
<1>5. ~Overlaps(Region(bit_offset_, n, v), filled) => Landed(n, v)
  BY <1>1, <1>3, ApartFromFilled DEF Landed
<1>6. written' = written \/ (Landed(n, v) /\ written' = written \cup {Region(bit_offset_, n, v)})
  BY <1>5, ClaimAdds DEF PutField, v
<1> QED
  BY <1>1, <1>2, <1>3, <1>4, <1>6 DEF Appends, PutField, v

LEMMA AlignedAppends ==
  ASSUME Persistent, NEW k \in AlignedSizes, NEW v \in SUBSET (0 .. 8 * k - 1),
         bit_offset_ % 8 = 0, has_space(8 * k),
         buffer' = PutAligned(Order, buffer, byte_idx(bit_offset_), k, v),
         bit_offset_' = bit_offset_ + 8 * k, filled' = filled,
         written' = written \cup {Region(bit_offset_, 8 * k, v)}
  PROVE  Appends(8 * k, v)
<1>1. /\ bit_offset_ \in Nat /\ Cap \in Nat /\ k \in Nat /\ bit_offset_ + 8 * k <= Cap
      /\ Order \in Orders /\ BufSize \in Nat /\ buffer \in Buffers(BufSize)
  BY CapNat, AlignedFits, WriterAssumption DEF Persistent, Bounded, TypeOK, AlignedSizes
<1>2. byte_idx(bit_offset_) \in Nat /\ bit_offset_ = 8 * byte_idx(bit_offset_)
  <2>1. /\ byte_idx(bit_offset_) \in Nat
        /\ bit_offset_ = 8 * byte_idx(bit_offset_) + (bit_offset_ % 8)
    BY <1>1, Position, Zenon
  <2> QED
    BY <2>1
<1>3. \A p \in 0 .. Cap - 1 :
        IsSet(Order, buffer', p)
          <=> IF p \in bit_offset_ .. bit_offset_ + 8 * k - 1
                THEN value_bit(Order, 8 * k, p - bit_offset_) \in v
                ELSE IsSet(Order, buffer, p)
  BY <1>1, <1>2, PutAlignedIsSet DEF Cap
<1>4. bit_offset_ .. bit_offset_ + 8 * k - 1 \subseteq 0 .. Cap - 1
  BY <1>1
<1>5. Landed(8 * k, v)
  BY <1>3, <1>4 DEF Landed
<1> QED
  BY <1>1, <1>3, <1>5 DEF Appends

\* Skipped bits are zeros although nothing is written.
LEMMA GapAppends ==
  ASSUME Persistent, NEW n \in Nat, bit_offset_ + n <= Cap,
         bit_offset_' = bit_offset_ + n, buffer' = buffer, filled' = filled,
         Claim(n, {})
  PROVE  Appends(n, {})
<1>1. bit_offset_ \in Nat /\ Cap \in Nat
  BY CapNat DEF Persistent, Bounded, TypeOK
<1>2. ASSUME NEW p \in bit_offset_ .. bit_offset_ + n - 1, byte_idx(p) \notin filled
      PROVE  ~IsSet(Order, buffer, p)
  <2>1. p \in bit_offset_ .. Cap - 1
    BY <1>1
  <2> QED
    BY <1>2, <2>1 DEF Persistent, TailClear
<1>3. ~Overlaps(Region(bit_offset_, n, {}), filled) => Landed(n, {})
  BY <1>1, <1>2, ApartFromFilled DEF Landed
<1> QED
  BY <1>1, <1>2, <1>3, ClaimAdds DEF Appends

-----------------------------------------------------------------------------
(* What a step of any client may do to the buffer.                         *)

\* The bits a call appends: those of a value, or zeros.
Appended(n, v) == v = {} \/ (n \in 1 .. 64 /\ \E value \in Values : v = Truncate(value, n))

Quiet == UNCHANGED <<buffer, bit_offset_, written, filled>>

\* The cursor goes back.
Rewinds(to) ==
  /\ to \in Nat /\ to < bit_offset_ /\ bit_offset_' = to
  /\ buffer' = buffer
  /\ Rewind(to)

LEMMA StepKinds ==
  ASSUME Persistent, Next
  PROVE  \/ Quiet
         \/ \E n, v : Appends(n, v) /\ Appended(n, v)
         \/ \E to : Rewinds(to)
         \/ Construct
         \/ Store
<1>0. /\ TypeOK /\ InBounds /\ bit_offset_ \in Nat /\ Cap \in Nat /\ SizeMod \in Nat
  BY CapNat, WriterAssumption DEF Persistent, Bounded, TypeOK
<1>1. ASSUME NEW error, Throw(error)
      PROVE  Quiet
  BY <1>1 DEF Throw, Quiet
<1>2. ASSUME NEW n, NEW value \in Values, CanWrite(n), PutField(n, value)
      PROVE  \E m, v : Appends(m, v) /\ Appended(m, v)
  BY <1>2, PutFieldAppends DEF Appended, CanWrite
<1>3. CASE SerializeField
  <2>1. call.values[call.idx] \in Values
    BY <1>0, <1>3 DEF SerializeField, TypeOK, NoCall, Calls
  <2> QED
    BY <1>1, <1>2, <1>3, <2>1 DEF SerializeField, ThrowWrite
<1>4. CASE SerializeReturn
  BY <1>4 DEF SerializeReturn, Quiet
<1>5. ASSUME NEW n \in Widths, NEW v \in Values, WriteBits(n, v)
      PROVE  Quiet \/ \E m, u : Appends(m, u) /\ Appended(m, u)
  BY <1>1, <1>2, <1>5 DEF WriteBits, ThrowWrite
<1>6. ASSUME NEW f \in Formats, NEW vs, Serialize(f, vs)
      PROVE  Quiet
  BY <1>1, <1>6 DEF Serialize, Quiet
<1>7. ASSUME NEW k \in AlignedSizes, NEW v \in Values, WriteAligned(k, Truncate(v, 8 * k))
      PROVE  Quiet \/ \E m, u : Appends(m, u) /\ Appended(m, u)
  <2>1. Truncate(v, 8 * k) \in SUBSET (0 .. 8 * k - 1) /\ 8 * k \in 1 .. 64
    BY DEF Truncate, AlignedSizes
  <2>2. Appended(8 * k, Truncate(v, 8 * k))
    BY <2>1 DEF Appended
  <2>3. Quiet \/ Appends(8 * k, Truncate(v, 8 * k))
    BY <1>1, <1>7, <2>1, AlignedAppends DEF WriteAligned
  <2> QED
    BY <2>2, <2>3
<1>8. ASSUME NEW n \in Widths, SkipBits(n)
      PROVE  \/ Quiet
             \/ \E m, u : Appends(m, u) /\ Appended(m, u)
             \/ \E to : Rewinds(to)
  <2> DEFINE next == (bit_offset_ + n) % SizeMod
  <2>1. n \in Nat /\ SizeMod > 0
    BY WriterAssumption
  <2>2. next \in Nat
    BY <1>0, <2>1, ModType
  <2>3. CASE ~has_space(n) /\ Throw("out_of_range")
    BY <1>1, <2>3
  <2>4. CASE /\ has_space(n) /\ bit_offset_' = next
             /\ UNCHANGED <<buffer, call>>
             /\ IF next < bit_offset_ THEN Rewind(next)
                ELSE Claim(next - bit_offset_, {}) /\ UNCHANGED filled
    <3>1. next <= Cap
      BY <2>4 DEF has_space
    <3> HIDE DEF next
    <3>2. CASE next < bit_offset_
      BY <2>2, <2>4, <3>2 DEF Rewinds
    <3>3. CASE ~(next < bit_offset_)
      <4> DEFINE m == next - bit_offset_
      <4>1. m \in Nat /\ bit_offset_ + m = next
        BY <1>0, <2>2, <3>3, Difference
      <4>2. Claim(m, {}) /\ filled' = filled /\ buffer' = buffer
        BY <2>4, <3>3
      <4> HIDE DEF m
      <4>3. Appends(m, {})
        BY <2>4, <3>1, <4>1, <4>2, GapAppends
      <4> QED
        BY <4>3 DEF Appended
    <3> QED
      BY <3>2, <3>3
  <2> QED
    BY <1>8, <2>3, <2>4 DEF SkipBits
<1>9. CASE AlignToByte
  <2> DEFINE m == bit_offset_' - bit_offset_
  <2>1. m \in Nat /\ bit_offset_' = bit_offset_ + m /\ bit_offset_ + m <= Cap
    BY <1>0, <1>9, AlignFits DEF AlignToByte, InBounds
  <2>2. Appends(m, {})
    BY <1>9, <2>1, GapAppends DEF AlignToByte
  <2> QED
    BY <2>2 DEF Appended
<1> QED
  BY <1>3, <1>4, <1>5, <1>6, <1>7, <1>8, <1>9 DEF Next, Step, ApiCall

\* A cursor that goes back keeps the regions before it.
LEMMA RewindPersistent ==
  ASSUME Persistent, Bounded', NEW to, Rewinds(to)
  PROVE  Persistent'
<1>1. /\ to \in Nat /\ bit_offset_ \in Nat /\ Cap \in Nat /\ bit_offset_' = to
      /\ buffer' = buffer
      /\ written' = {r \in written : r.pos + r.n <= to}
      /\ filled' = filled \cup {byte_idx(p) : p \in to .. bit_offset_ - 1}
  BY CapNat DEF Persistent, Bounded, TypeOK, Rewinds, Rewind
<1>2. TailClear'
  <2> SUFFICES ASSUME NEW p \in to .. Cap - 1, IsSet(Order, buffer, p)
               PROVE  byte_idx(p) \in filled'
    BY <1>1 DEF TailClear, Cap
  <2>1. p \in to .. bit_offset_ - 1 \/ p \in bit_offset_ .. Cap - 1
    BY <1>1
  <2> QED
    BY <1>1, <2>1 DEF Persistent, TailClear
<1>3. (RegionsInPast /\ FieldsPersist)'
  BY <1>1 DEF Persistent, RegionsInPast, FieldsPersist
<1> QED
  BY <1>2, <1>3 DEF Persistent

\* A store through a span keeps the regions it does not touch.
LEMMA StorePersistent ==
  ASSUME Persistent, Bounded', Store
  PROVE  Persistent'
<1>0. PICK f, name, fill : StoreSpan(f, name, fill)
  BY DEF Store
<1> DEFINE bytes == SpanBytes(f, name, BufSize)
<1>1. /\ buffer' = [b \in DOMAIN buffer |-> IF b \in bytes THEN fill ELSE buffer[b]]
      /\ written' = {r \in written : ~Overlaps(r, bytes)}
      /\ filled' = filled \cup {b \in DOMAIN buffer : b \in bytes /\ bit_offset_ < 8 * b + 8}
      /\ bit_offset_' = bit_offset_
  BY <1>0 DEF StoreSpan
<1>2. /\ bit_offset_ \in Nat /\ Cap \in Nat /\ Order \in Orders /\ BufSize \in Nat
      /\ DOMAIN buffer = 0 .. BufSize - 1 /\ bit_offset_ <= Cap
  BY CapNat, WriterAssumption DEF Persistent, Bounded, TypeOK, InBounds, Buffers
<1> HIDE DEF bytes
<1>3. ASSUME NEW p \in 0 .. Cap - 1
      PROVE  /\ byte_idx(p) \in DOMAIN buffer
             /\ byte_idx(p) \notin bytes => (IsSet(Order, buffer', p) <=> IsSet(Order, buffer, p))
  <2>1. byte_idx(p) \in DOMAIN buffer
    BY <1>2, ByteInBuffer DEF Cap
  <2> QED
    BY <1>1, <2>1 DEF IsSet
<1>4. ASSUME NEW p \in Nat
      PROVE  /\ byte_idx(p) \in Nat
             /\ 8 * byte_idx(p) <= p /\ p <= 8 * byte_idx(p) + 7
  BY DEF byte_idx
<1>5. TailClear'
  <2> SUFFICES ASSUME NEW p \in bit_offset_ .. Cap - 1, IsSet(Order, buffer', p)
               PROVE  byte_idx(p) \in filled'
    BY <1>1 DEF TailClear, Cap
  <2>1. p \in 0 .. Cap - 1 /\ p \in Nat /\ bit_offset_ <= p
    BY <1>2
  <2>2. CASE byte_idx(p) \in bytes
    <3>1. byte_idx(p) \in DOMAIN buffer /\ bit_offset_ < 8 * byte_idx(p) + 8
      BY <1>2, <1>3, <1>4, <2>1
    <3> QED
      BY <1>1, <2>2, <3>1
  <2>3. CASE byte_idx(p) \notin bytes
    BY <1>1, <1>3, <2>1, <2>3 DEF Persistent, TailClear
  <2> QED
    BY <2>2, <2>3
<1>6. ASSUME NEW r \in written'
      PROVE  /\ r.pos + r.n <= bit_offset_' /\ r.value \in SUBSET (0 .. r.n - 1)
             /\ GetBits(Order, buffer', r.pos, r.n) = r.value
  <2>1. /\ r \in written /\ ~Overlaps(r, bytes)
        /\ r.pos \in Nat /\ r.n \in Nat /\ r.pos + r.n <= bit_offset_
        /\ r.value \in SUBSET (0 .. r.n - 1)
    BY <1>1 DEF Persistent, Bounded, TypeOK, RegionsInPast
  <2>2. ASSUME NEW p \in r.pos .. r.pos + r.n - 1
        PROVE  IsSet(Order, buffer', p) <=> IsSet(Order, buffer, p)
    <3>1. p \in 0 .. Cap - 1 /\ p \in Nat
      BY <1>2, <2>1
    <3>2. p \in BitsOfByte(byte_idx(p))
      BY <1>4, <3>1 DEF BitsOfByte
    <3>3. byte_idx(p) \notin bytes
      BY <2>1, <3>2 DEF Overlaps
    <3> QED
      BY <1>3, <3>1, <3>3
  <2> QED
    BY <1>1, <2>1, <2>2, RegionStable
<1> QED
  BY <1>5, <1>6 DEF Persistent, RegionsInPast, FieldsPersist

LEMMA ConstructPersistent ==
  ASSUME Persistent, Bounded', Construct
  PROVE  Persistent'
<1>1. buffer' = ZeroBuffer(BufSize) /\ bit_offset_' = 0 /\ written' = {}
  BY DEF Construct
<1>2. BufSize \in Nat /\ Cap \in Nat
  BY CapNat, WriterAssumption
<1>3. \A p \in 0 .. Cap - 1 : ~IsSet(Order, ZeroBuffer(BufSize), p)
  BY <1>2, ByteInBuffer DEF IsSet, ZeroBuffer, Cap
<1>4. TailClear'
  BY <1>1, <1>3 DEF TailClear, Cap
<1> QED
  BY <1>1, <1>4 DEF Persistent, RegionsInPast, FieldsPersist

LEMMA InitPersistent == Init => Persistent
<1> SUFFICES ASSUME Init PROVE Persistent
  OBVIOUS
<1>1. BufSize \in Nat /\ Cap \in Nat
  BY CapNat, WriterAssumption
<1>2. \A p \in 0 .. Cap - 1 : ~IsSet(Order, ZeroBuffer(BufSize), p)
  BY <1>1, ByteInBuffer DEF IsSet, ZeroBuffer, Cap
<1>3. TailClear
  BY <1>2 DEF Init, TailClear, Cap
<1> QED
  BY <1>3, InitBounded DEF Init, Persistent, RegionsInPast, FieldsPersist

LEMMA NextPersistent ==
  ASSUME Persistent, [Next]_vars
  PROVE  Persistent'
<1>1. Bounded'
  BY NextBounded, StutterBounded DEF Persistent
<1>2. ASSUME Quiet
      PROVE  Persistent'
  BY <1>1, <1>2 DEF Quiet, Persistent, TailClear, RegionsInPast, FieldsPersist
<1>3. CASE UNCHANGED vars
  BY <1>2, <1>3 DEF vars, Quiet
<1>4. CASE Next
  BY <1>1, <1>2, <1>4, StepKinds, AppendsPersistent, RewindPersistent, ConstructPersistent,
     StorePersistent
<1> QED
  BY <1>3, <1>4

LEMMA SpecPersistent == Spec => []Persistent
<1>1. Persistent /\ [Next]_vars => Persistent'
  BY NextPersistent
<1> QED
  BY <1>1, InitPersistent, PTL DEF Spec

\* Everything after the cursor that the client has not filled is still zero.
THEOREM TailStaysClear == Spec => []TailClear
BY SpecPersistent, PTL DEF Persistent

\* Everything written reads back as it was meant, whatever was called since.
THEOREM WrittenDataPersists == Spec => []FieldsPersist
BY SpecPersistent, PTL DEF Persistent

\* A byte that bytes_written() does not count holds no bit.
LEMMA UncountedBytesEmpty == Persistent => BytesWrittenCovers
<1> SUFFICES ASSUME Persistent, NEW b \in (0 .. BufSize - 1) \ filled, b >= bytes_written,
                    NEW j \in buffer[b]
             PROVE  FALSE
  BY DEF BytesWrittenCovers
<1>1. /\ bit_offset_ \in Nat /\ Order \in Orders /\ BufSize \in Nat /\ b \in Nat
      /\ b <= BufSize - 1 /\ buffer[b] \in Byte
  BY WriterAssumption DEF Persistent, Bounded, TypeOK, Buffers
<1>2. j \in 0 .. 7
  BY <1>1 DEF Byte
<1>3. bit_offset_ <= 8 * b
  BY <1>1 DEF bytes_written
<1> DEFINE p == 8 * b + (IF Order = "BigEndian" THEN 7 - j ELSE j)
<1>4. /\ p \in bit_offset_ .. Cap - 1
      /\ byte_idx(p) = b /\ bit_idx(Order, p) = j
  BY <1>1, <1>2, <1>3 DEF byte_idx, bit_idx, Cap, Orders
<1> HIDE DEF p
<1> QED
  BY <1>4 DEF Persistent, TailClear, IsSet

\* What a client sends, the first bytes_written() bytes, is all that was written.
THEOREM BytesWrittenSuffice == Spec => []BytesWrittenCovers
BY SpecPersistent, UncountedBytesEmpty, PTL

-----------------------------------------------------------------------------
(* Action properties.                                                      *)

LEMMA StepPrefixStable ==
  ASSUME Persistent, Next
  PROVE  \/ Construct
         \/ Store
         \/ \A p \in 0 .. bit_offset_ - 1 :
              IsSet(Order, buffer', p) <=> IsSet(Order, buffer, p)
<1>1. bit_offset_ \in Nat /\ bit_offset_ <= Cap /\ Cap \in Nat
  BY CapNat DEF Persistent, Bounded, TypeOK, InBounds
<1>2. ASSUME NEW n, NEW v, Appends(n, v), NEW p \in 0 .. bit_offset_ - 1
      PROVE  IsSet(Order, buffer', p) <=> IsSet(Order, buffer, p)
  <2>1. p \in 0 .. Cap - 1 /\ p \notin bit_offset_ .. bit_offset_ + n - 1
    BY <1>1
  <2> QED
    BY <1>2, <2>1 DEF Appends
<1> QED
  BY <1>2, StepKinds DEF Quiet, Rewinds

\* A call never changes a bit before the cursor.
THEOREM PrefixNeverChanges == Spec => PrefixStable
<1>1. Persistent /\ [Next]_vars =>
        [\/ Construct
         \/ Store
         \/ \A p \in 0 .. bit_offset_ - 1 :
              IsSet(Order, buffer', p) <=> IsSet(Order, buffer, p)]_vars
  BY StepPrefixStable
<1> QED
  BY <1>1, SpecPersistent, PTL DEF Spec, PrefixStable

\* What is left of an active serialize fits what is left of the buffer.
Room ==
  ~Idle => /\ outcome = "ok"
           /\ bit_offset_ + total_bits(call.format)
                <= Cap + FieldOffsets(call.format)[call.idx - 1]

LEMMA FormatTypes ==
  ASSUME NEW f \in Formats
  PROVE  f \in Seq(FieldDef) /\ total_bits(f) \in Nat /\ Cap + total_bits(f) < SizeMod
BY WriterAssumption, FormatsFit, TotalBits

\* The check of serialize, over the whole format, makes room for each field.
LEMMA SerializeMakesRoom ==
  ASSUME Bounded, NEW f \in Formats, NEW values, Serialize(f, values)
  PROVE  Room'
<1>1. /\ bit_offset_ \in Nat /\ bit_offset_ <= Cap /\ Cap \in Nat /\ SizeMod \in Nat
      /\ f \in Seq(FieldDef) /\ total_bits(f) \in Nat /\ Cap + total_bits(f) < SizeMod
  BY CapNat, WriterAssumption, FormatTypes DEF Bounded, TypeOK, InBounds
<1>2. CASE Throw("out_of_range")
  BY <1>2 DEF Throw, NoCall, Room, Idle
<1>3. CASE /\ has_space(total_bits(f))
           /\ call' = [format |-> f, values |-> values, idx |-> 1]
           /\ outcome' = "ok"
           /\ UNCHANGED <<buffer, bit_offset_, written, filled>>
  <2>1. bit_offset_ + total_bits(f) <= Cap
    <3>1. (bit_offset_ + total_bits(f)) % SizeMod = bit_offset_ + total_bits(f)
      BY <1>1, ModSmall
    <3> QED
      BY <1>3, <3>1 DEF has_space
  <2>2. FieldOffsets(f)[0] = 0
    BY <1>1, Offsets
  <2> QED
    BY <1>1, <1>3, <2>1, <2>2, CapNat DEF Room, Cap
<1> QED
  BY <1>2, <1>3 DEF Serialize

\* The field that serialize has reached fits.
LEMMA FieldFits ==
  ASSUME Bounded, Room, call.idx \in 1 .. Len(call.format)
  PROVE  LET f == call.format
             n == f[call.idx].bit_width
         IN  /\ n \in Nat
             /\ FieldOffsets(f)[call.idx] \in Nat
             /\ FieldOffsets(f)[call.idx] = FieldOffsets(f)[call.idx - 1] + n
             /\ has_space(n)
<1> DEFINE f == call.format
           i == call.idx
           n == f[i].bit_width
           a == FieldOffsets(f)[i - 1]
           b == FieldOffsets(f)[i]
           total == total_bits(f)
<1>1. call \in Calls /\ ~Idle
  BY DEF Bounded, TypeOK, NoCall, Idle
<1>2. f \in Formats /\ f \in Seq(FieldDef) /\ Len(f) \in Nat /\ i - 1 \in 0 .. Len(f)
  BY <1>1, FormatTypes, FieldTypes DEF Calls
<1>3. /\ a \in Nat /\ b = a + n /\ b <= total /\ b \in Nat /\ n \in Nat /\ total \in Nat
      /\ bit_offset_ + total <= Cap + a
      /\ bit_offset_ \in Nat /\ Cap \in Nat /\ SizeMod \in Nat /\ Cap < SizeMod
  <2>1. b = a + n
    BY <1>2, Offsets
  <2>2. a \in Nat /\ b \in Nat /\ b <= total /\ total \in Nat
    BY <1>2, TotalBits
  <2>3. n \in Nat
    BY <1>2, FieldTypes
  <2>4. bit_offset_ + total <= Cap + a
    BY <1>1 DEF Room
  <2>5. /\ bit_offset_ \in Nat /\ Cap \in Nat /\ SizeMod \in Nat /\ Cap < SizeMod
    BY CapNat, WriterAssumption DEF Bounded, TypeOK
  <2> QED
    BY <2>1, <2>2, <2>3, <2>4, <2>5
<1> HIDE DEF a, b, n, total
<1>4. bit_offset_ + n <= Cap /\ bit_offset_ + n \in Nat /\ bit_offset_ + n < SizeMod
  BY <1>3
<1>5. has_space(n)
  BY <1>3, <1>4, ModSmall DEF has_space
<1> QED
  BY <1>3, <1>5 DEF a, b, n

LEMMA NextRoom ==
  ASSUME Bounded, Room, [Next]_vars
  PROVE  Room' /\ (~Idle => outcome' # "out_of_range")
<1>1. CASE UNCHANGED vars
  BY <1>1 DEF vars, Room, Idle, Cap
<1>2. ASSUME NEW f \in Formats, NEW values, Serialize(f, values)
      PROVE  Room' /\ Idle
  BY <1>2, SerializeMakesRoom DEF Serialize
<1>3. CASE SerializeField
  <2> DEFINE f == call.format
             n == f[call.idx].bit_width
  <2>1. /\ call.idx \in 1 .. Len(f) /\ call \in Calls /\ ~Idle
        /\ bit_offset_ \in Nat /\ Cap \in Nat
    BY <1>3, CapNat DEF SerializeField, Bounded, TypeOK, NoCall, Idle
  <2>2. /\ n \in Nat /\ has_space(n)
        /\ FieldOffsets(f)[call.idx] \in Nat
        /\ FieldOffsets(f)[call.idx] = FieldOffsets(f)[call.idx - 1] + n
    BY <2>1, FieldFits
  <2>3. CASE /\ PutField(n, call.values[call.idx])
             /\ call' = [call EXCEPT !.idx = call.idx + 1]
             /\ UNCHANGED outcome
    <3>1. /\ bit_offset_' = bit_offset_ + n /\ outcome' = outcome
          /\ call'.format = f /\ call'.idx = call.idx + 1
      BY <2>1, <2>3 DEF PutField, Calls
    <3> DEFINE a == FieldOffsets(f)[call.idx - 1]
               b == FieldOffsets(f)[call.idx]
               total == total_bits(f)
    <3>2. /\ total \in Nat /\ outcome = "ok" /\ b = a + n /\ b \in Nat /\ n \in Nat
          /\ bit_offset_ + total <= Cap + a /\ call.idx \in Nat
      BY <2>1, <2>2, FormatTypes DEF Room, Calls
    <3>3. a = b - n
      <4>1. a \in Nat
        <5>1. f \in Seq(FieldDef) /\ Len(f) \in Nat
          BY <2>1, FormatTypes, FieldTypes DEF Calls
        <5>2. call.idx - 1 \in 0 .. Len(f)
          BY <2>1, <5>1
        <5> QED
          BY <5>1, <5>2, TotalBits
      <4> HIDE DEF a, b, n
      <4> QED
        BY <3>2, <4>1
    <3> HIDE DEF a, n, total, b
    <3>4. bit_offset_ + n + total <= Cap + b
      BY <2>1, <3>2, <3>3
    <3>5. (call.idx + 1) - 1 = call.idx
      BY <3>2
    <3> QED
      BY <3>1, <3>2, <3>4, <3>5 DEF Room, b, total, Cap
  <2>4. CASE ThrowWrite(n)
    <3>1. n \notin 1 .. 64
      BY <2>2, <2>4 DEF ThrowWrite, CanWrite
    <3>2. outcome' = "invalid_argument" /\ call' = NoCall
      BY <2>4, <3>1 DEF ThrowWrite, Throw
    <3> QED
      BY <3>2 DEF Room, Idle, NoCall
  <2> QED
    BY <1>3, <2>3, <2>4 DEF SerializeField
<1>4. CASE SerializeReturn
  <2>1. ~Idle /\ call' = NoCall /\ outcome' = outcome
    <3>1. call \in Calls \/ call = NoCall
      BY DEF Bounded, TypeOK
    <3> QED
      BY <1>4, <3>1 DEF SerializeReturn, Calls, Idle, NoCall
  <2> QED
    BY <2>1 DEF Room, Idle, NoCall
<1>5. ASSUME Idle, call' = call \/ call' = NoCall
      PROVE  Room' /\ Idle
  BY <1>5 DEF Room, Idle, NoCall
<1>6. CASE Construct
  BY <1>5, <1>6 DEF Construct
<1>7. ASSUME NEW n \in Widths, NEW v \in Values, WriteBits(n, v)
      PROVE  Room' /\ Idle
  BY <1>5, <1>7 DEF WriteBits, ThrowWrite, Throw
<1>8. ASSUME NEW k \in AlignedSizes, NEW v, WriteAligned(k, v)
      PROVE  Room' /\ Idle
  BY <1>5, <1>8 DEF WriteAligned, Throw
<1>9. ASSUME NEW n \in Widths, SkipBits(n)
      PROVE  Room' /\ Idle
  BY <1>5, <1>9 DEF SkipBits, Throw
<1>10. CASE AlignToByte
  BY <1>5, <1>10 DEF AlignToByte
<1>11. CASE Store
  BY <1>5, <1>11 DEF Store, StoreSpan
<1> QED
  BY <1>1, <1>2, <1>3, <1>4, <1>6, <1>7, <1>8, <1>9, <1>10, <1>11 DEF Next, Step, ApiCall

\* serialize never runs out of space half-way, for formats whose totals fit.
THEOREM SerializeHasRoom == Spec => SerializeNeverOverruns
<1>1. Init => Room
  BY DEF Init, Room, Idle, NoCall
<1>2. Bounded /\ Room /\ [Next]_vars => Room' /\ [~Idle => outcome' # "out_of_range"]_vars
  BY NextRoom
<1>3. Spec => []Bounded
  BY SpecPersistent, PTL DEF Persistent
<1> QED
  BY <1>1, <1>2, <1>3, PTL DEF Spec, SerializeNeverOverruns

-----------------------------------------------------------------------------
(* Where serialize puts the fields of a format.                            *)

\* Bits that do not change read the same.
LEMMA SameBits ==
  ASSUME NEW pos \in Nat, NEW n \in Nat,
         \A p \in pos .. pos + n - 1 : IsSet(Order, buffer', p) <=> IsSet(Order, buffer, p)
  PROVE  GetBits(Order, buffer', pos, n) = GetBits(Order, buffer, pos, n)
<1>1. ASSUME NEW i \in 0 .. n - 1
      PROVE  IsSet(Order, buffer', pos + i) <=> IsSet(Order, buffer, pos + i)
  <2>1. pos + i \in pos .. pos + n - 1
    OBVIOUS
  <2> QED
    BY <2>1
<1>2. {i \in 0 .. n - 1 : IsSet(Order, buffer', pos + i)}
        = {i \in 0 .. n - 1 : IsSet(Order, buffer, pos + i)}
  BY <1>1
<1> QED
  BY <1>2 DEF GetBits

LEMMA FieldKeepsLayout ==
  ASSUME Persistent, SerializeFollowsLayout, SerializeField
  PROVE  SerializeFollowsLayout'
<1> DEFINE f == call.format
           k == call.idx
           n == f[k].bit_width
           v == Truncate(call.values[k], n)
           offsets == FieldOffsets(f)
<1>1. CASE ThrowWrite(n)
  BY <1>1 DEF ThrowWrite, Throw, NoCall, SerializeFollowsLayout
<1>2. CASE /\ CanWrite(n) /\ PutField(n, call.values[k])
           /\ call' = [call EXCEPT !.idx = k + 1]
  <2>1. /\ call \in Calls /\ k \in 1 .. Len(f) /\ f \in Seq(FieldDef)
        /\ Len(f) \in Nat /\ k \in Nat
    <3>1. call \in Calls
      BY DEF SerializeField, Persistent, Bounded, TypeOK, NoCall
    <3> QED
      BY <3>1, FormatTypes, FieldTypes DEF SerializeField, Calls
  <2>2. call'.format = f /\ call'.values = call.values /\ call'.idx = k + 1
    BY <1>2, <2>1 DEF Calls
  <2>3. Appends(n, v) /\ n \in 1 .. 64
    BY <1>2, PutFieldAppends, CanWriteFits DEF Persistent, Bounded
  <2>4. /\ bit_offset_ \in Nat /\ Cap \in Nat /\ Order \in Orders /\ n \in Nat
        /\ bit_offset_' = bit_offset_ + n /\ bit_offset_ + n <= Cap /\ filled' = filled
        /\ v \in SUBSET (0 .. n - 1)
    BY <2>3, CapNat, WriterAssumption DEF Appends, Persistent, Bounded, TypeOK
  <2>5. /\ \A i \in 0 .. Len(f) : offsets[i] \in Nat
        /\ \A i \in 1 .. Len(f) :
             f[i].bit_width \in Nat /\ offsets[i] = offsets[i - 1] + f[i].bit_width
        /\ \A i \in 0 .. k - 1 : offsets[i] <= offsets[k - 1]
    <3>1. \A i \in 0 .. k - 1 : offsets[i] <= offsets[k - 1]
      BY <2>1, OffsetsAscend
    <3> QED
      BY <2>1, <3>1, FieldTypes, TotalBits, Offsets
  <2> HIDE DEF offsets
  <2>6. offsets[k] = offsets[k - 1] + n /\ offsets[k] \in Nat /\ offsets[k - 1] \in Nat
    BY <2>1, <2>5
  <2>7. ASSUME NEW i \in 1 .. k
        PROVE  LET at == bit_offset_ + n - (offsets[k] - offsets[i - 1])
                   m == f[i].bit_width
                   value == Truncate(call.values[i], m)
               IN  /\ at \in Nat
                   /\ \/ Overlaps(Region(at, m, value), filled)
                      \/ GetBits(Order, buffer', at, m) = value
    <3> DEFINE at == bit_offset_ + n - (offsets[k] - offsets[i - 1])
               m == f[i].bit_width
               value == Truncate(call.values[i], m)
    <3>1. CASE i = k
      <4>1. at = bit_offset_
        BY <2>4, <2>6, <3>1
      <4>2. ASSUME ~Overlaps(Region(bit_offset_, n, v), filled), NEW j \in 0 .. n - 1
            PROVE  IsSet(Order, buffer', bit_offset_ + j) <=> value_bit(Order, n, j) \in v
        <5>1. /\ bit_offset_ + j \in bit_offset_ .. bit_offset_ + n - 1
              /\ (bit_offset_ + j) - bit_offset_ = j
          BY <2>4
        <5>2. byte_idx(bit_offset_ + j) \notin filled
          BY <2>4, <4>2, <5>1, ApartFromFilled
        <5> QED
          BY <2>3, <5>1, <5>2 DEF Appends
      <4>3. ~Overlaps(Region(bit_offset_, n, v), filled)
              => GetBits(Order, buffer', bit_offset_, n) = v
        <5> SUFFICES ASSUME ~Overlaps(Region(bit_offset_, n, v), filled)
                     PROVE  GetBits(Order, buffer', bit_offset_, n) = v
          OBVIOUS
        <5>1. \A j \in 0 .. n - 1 :
                IsSet(Order, buffer', bit_offset_ + j) <=> value_bit(Order, n, j) \in v
          BY <4>2
        <5> HIDE DEF n, v
        <5> QED
          BY <2>4, <5>1, GetBitsIff
      <4> QED
        BY <2>4, <3>1, <4>1, <4>3
    <3>2. CASE i # k
      <4>1. i \in 1 .. k - 1 /\ i \in 1 .. Len(f) /\ i - 1 \in 0 .. Len(f) /\ i \in 0 .. k - 1
        BY <2>1, <3>2
      <4>2. /\ m \in Nat /\ offsets[i] = offsets[i - 1] + m /\ offsets[i - 1] \in Nat
            /\ offsets[i] <= offsets[k - 1]
        BY <2>5, <4>1
      <4> DEFINE old == bit_offset_ - (offsets[k - 1] - offsets[i - 1])
      <4>3. /\ old \in Nat
            /\ \/ Overlaps(Region(old, m, value), filled)
               \/ GetBits(Order, buffer, old, m) = value
        BY <4>1 DEF SerializeFollowsLayout, offsets
      <4> HIDE DEF value, m, n
      <4>4. at = old /\ old + m <= bit_offset_
        BY <2>4, <2>6, <4>2
      <4> HIDE DEF at, old
      <4>5. ASSUME NEW p \in old .. old + m - 1
            PROVE  IsSet(Order, buffer', p) <=> IsSet(Order, buffer, p)
        <5>1. p \in 0 .. Cap - 1 /\ p \notin bit_offset_ .. bit_offset_ + n - 1
          BY <2>4, <4>2, <4>3, <4>4
        <5> QED
          BY <2>3, <5>1 DEF Appends
      <4>6. GetBits(Order, buffer', old, m) = GetBits(Order, buffer, old, m)
        BY <4>2, <4>3, <4>5, SameBits
      <4> QED
        BY <4>3, <4>4, <4>6 DEF at, m, value
    <3> QED
      BY <3>1, <3>2
  <2>8. (k + 1) - 1 = k
    BY <2>1
  <2>9. FieldOffsets(call'.format) = offsets /\ call'.idx - 1 = k
    BY <2>2, <2>8 DEF offsets
  <2>10. ASSUME NEW i \in 1 .. call'.idx - 1
         PROVE  LET at == bit_offset_' - (FieldOffsets(call'.format)[call'.idx - 1]
                                            - FieldOffsets(call'.format)[i - 1])
                    m == call'.format[i].bit_width
                    value == Truncate(call'.values[i], m)
                IN  /\ at \in Nat
                    /\ \/ Overlaps(Region(at, m, value), filled')
                       \/ GetBits(Order, buffer', at, m) = value
    <3>1. i \in 1 .. k
      BY <2>9
    <3>2. /\ FieldOffsets(call'.format)[call'.idx - 1] = offsets[k]
          /\ FieldOffsets(call'.format)[i - 1] = offsets[i - 1]
      BY <2>9, Zenon
    <3>3. call'.format[i].bit_width = f[i].bit_width /\ call'.values[i] = call.values[i]
      BY <2>2, Zenon
    <3> DEFINE start == bit_offset_ + n - (offsets[k] - offsets[i - 1])
               m == f[i].bit_width
               value == Truncate(call.values[i], m)
    <3>4. /\ start \in Nat
          /\ \/ Overlaps(Region(start, m, value), filled)
             \/ GetBits(Order, buffer', start, m) = value
      BY <2>7, <3>1
    <3>5. bit_offset_' - (FieldOffsets(call'.format)[call'.idx - 1]
                            - FieldOffsets(call'.format)[i - 1]) = start
      <4>1. bit_offset_' = bit_offset_ + n /\ bit_offset_ \in Nat /\ n \in Nat
        BY <2>4
      <4> DEFINE last == offsets[k]
                 first == offsets[i - 1]
                 last_new == FieldOffsets(call'.format)[call'.idx - 1]
                 first_new == FieldOffsets(call'.format)[i - 1]
      <4>2. last \in Nat /\ first \in Nat
        BY <2>1, <2>5, <2>6, <3>1
      <4>3. last_new = last /\ first_new = first
        BY <3>2
      <4> HIDE DEF n, last, first, last_new, first_new
      <4>4. bit_offset_' - (last_new - first_new) = bit_offset_ + n - (last - first)
        BY <4>1, <4>2, <4>3
      <4> QED
        BY <4>4 DEF last, first, last_new, first_new
    <3>6. Truncate(call'.values[i], call'.format[i].bit_width) = value
      BY <3>3, Zenon
    <3> HIDE DEF start, m, value
    <3> QED
      BY <2>4, <3>3, <3>4, <3>5, <3>6, Zenon DEF m
  <2> QED
    BY <2>10 DEF SerializeFollowsLayout
<1> QED
  BY <1>1, <1>2 DEF SerializeField

LEMMA NextFollowsLayout ==
  ASSUME Persistent, SerializeFollowsLayout, [Next]_vars
  PROVE  SerializeFollowsLayout'
<1>1. ASSUME call'.idx \in {0, 1}
      PROVE  SerializeFollowsLayout'
  BY <1>1 DEF SerializeFollowsLayout
<1>2. CASE UNCHANGED vars
  BY <1>2 DEF vars, SerializeFollowsLayout
<1>3. ASSUME Idle, call' = call \/ call' = NoCall
      PROVE  SerializeFollowsLayout'
  BY <1>1, <1>3 DEF Idle, NoCall
<1>4. ASSUME NEW error, Throw(error)
      PROVE  SerializeFollowsLayout'
  BY <1>1, <1>4 DEF Throw, NoCall
<1>5. CASE SerializeReturn
  BY <1>1, <1>5 DEF SerializeReturn, NoCall
<1>6. CASE Construct
  BY <1>3, <1>6 DEF Construct
<1>7. ASSUME NEW n \in Widths, NEW v \in Values, WriteBits(n, v)
      PROVE  SerializeFollowsLayout'
  BY <1>3, <1>7 DEF WriteBits, ThrowWrite, Throw
<1>8. ASSUME NEW f \in Formats, NEW values, Serialize(f, values)
      PROVE  SerializeFollowsLayout'
  BY <1>1, <1>4, <1>8 DEF Serialize
<1>9. ASSUME NEW k \in AlignedSizes, NEW v, WriteAligned(k, v)
      PROVE  SerializeFollowsLayout'
  BY <1>3, <1>9 DEF WriteAligned, Throw
<1>10. ASSUME NEW n \in Widths, SkipBits(n)
       PROVE  SerializeFollowsLayout'
  BY <1>3, <1>10 DEF SkipBits, Throw
<1>11. CASE AlignToByte
  BY <1>3, <1>11 DEF AlignToByte
<1>12. CASE Store
  BY <1>3, <1>12 DEF Store, StoreSpan
<1> QED
  BY <1>2, <1>5, <1>6, <1>7, <1>8, <1>9, <1>10, <1>11, <1>12, FieldKeepsLayout
     DEF Next, Step, ApiCall

\* serialize puts every field of every format where a reader looks for it.
THEOREM FieldsFollowLayout == Spec => []SerializeFollowsLayout
<1>1. Init => SerializeFollowsLayout
  BY DEF Init, NoCall, SerializeFollowsLayout
<1>2. Persistent /\ SerializeFollowsLayout /\ [Next]_vars => SerializeFollowsLayout'
  BY NextFollowsLayout
<1> QED
  BY <1>1, <1>2, SpecPersistent, PTL DEF Spec

-----------------------------------------------------------------------------
(* Refinement.                                                             *)

\* The bits of the buffer in wire order.
wire == {p \in 0 .. Cap - 1 : IsSet(Order, buffer, p)}

LEMMA InitTape == Init => Tape!Init
<1> SUFFICES ASSUME Init PROVE Tape!Init
  OBVIOUS
<1>1. BufSize \in Nat /\ Cap \in Nat
  BY CapNat, WriterAssumption
<1>2. \A p \in 0 .. Cap - 1 : ~IsSet(Order, ZeroBuffer(BufSize), p)
  BY <1>1, ByteInBuffer DEF IsSet, ZeroBuffer, Cap
<1> QED
  BY <1>2 DEF Init, Tape!Init

\* Each call that appends is a Write or a Skip of the tape.
LEMMA AppendsTape ==
  ASSUME Persistent, NEW n, NEW v, Appends(n, v), Appended(n, v)
  PROVE  Tape!Next
<1>1. /\ bit_offset_ \in Nat /\ Cap \in Nat /\ n \in Nat /\ bit_offset_ + n <= Cap
      /\ bit_offset_' = bit_offset_ + n /\ filled' = filled /\ Order \in Orders
  BY CapNat, WriterAssumption DEF Persistent, Bounded, TypeOK, Appends
<1>2. wire' = {p \in 0 .. Cap - 1 : IsSet(Order, buffer', p)}
  BY DEF wire, Cap
<1>3. ASSUME NEW ones,
             \A p \in bit_offset_ .. bit_offset_ + n - 1 :
               p \in ones <=> value_bit(Order, n, p - bit_offset_) \in v
      PROVE  Tape!Advance(n, ones)
  <2>1. ASSUME NEW p \in 0 .. Cap - 1
        PROVE  IF p \in bit_offset_ .. bit_offset_ + n - 1
                 THEN byte_idx(p) \notin filled => (p \in wire' <=> p \in ones)
                 ELSE p \in wire' <=> p \in wire
    BY <1>2, <1>3 DEF Appends, wire
  <2> QED
    BY <1>1, <1>2, <2>1 DEF Tape!Advance, Tape!Cap, Cap, wire, Tape!byte_idx, byte_idx
<1>4. CASE v = {}
  <2>1. Tape!Skip(n)
    BY <1>3, <1>4 DEF Tape!Skip
  <2> QED
    BY <1>1, <2>1 DEF Tape!Next, Tape!Cap, Cap
<1>5. ASSUME NEW value \in Values, v = Truncate(value, n), n \in 1 .. 64
      PROVE  Tape!Next
  <2>1. ASSUME NEW p \in bit_offset_ .. bit_offset_ + n - 1
        PROVE  value_bit(Order, n, p - bit_offset_) \in v
                 <=> value_bit(Order, n, p - bit_offset_) \in value
    <3>1. p - bit_offset_ \in 0 .. n - 1
      BY <1>1
    <3>2. value_bit(Order, n, p - bit_offset_) \in 0 .. n - 1
      BY <1>1, <3>1, ValueBitType
    <3> QED
      BY <1>5, <3>2 DEF Truncate
  <2>2. Tape!Write(n, value)
    BY <1>3, <2>1 DEF Tape!Write, Tape!value_bit, value_bit
  <2> QED
    BY <1>5, <2>2 DEF Tape!Next
<1> QED
  BY <1>4, <1>5 DEF Appended

LEMMA RewindsTape ==
  ASSUME Persistent, NEW to, Rewinds(to)
  PROVE  Tape!Next
<1>1. to \in 0 .. Cap
  BY CapNat DEF Persistent, Bounded, TypeOK, InBounds, Rewinds
<1>2. Tape!Rewind(to)
  BY DEF Tape!Rewind, Tape!byte_idx, byte_idx, Rewinds, Rewind, Cap
<1> QED
  BY <1>1, <1>2 DEF Tape!Next, Tape!Cap, Cap

\* A store through a span is a Patch.
LEMMA StoreTape ==
  ASSUME Persistent, Store
  PROVE  Tape!Next
<1>0. PICK f, name, fill : StoreSpan(f, name, fill)
  BY DEF Store
<1> DEFINE all == SpanBytes(f, name, BufSize)
           bytes == all \cap (0 .. BufSize - 1)
<1>1. /\ filled' = filled \cup {b \in DOMAIN buffer : b \in all /\ bit_offset_ < 8 * b + 8}
      /\ buffer' = [b \in DOMAIN buffer |-> IF b \in all THEN fill ELSE buffer[b]]
      /\ bit_offset_' = bit_offset_
  BY <1>0 DEF StoreSpan
<1>2. BufSize \in Nat /\ DOMAIN buffer = 0 .. BufSize - 1 /\ Cap \in Nat
  BY CapNat, WriterAssumption DEF Persistent, Bounded, TypeOK, Buffers
<1> HIDE DEF all
<1>3. ASSUME NEW p \in 0 .. Cap - 1, byte_idx(p) \notin bytes
      PROVE  IsSet(Order, buffer', p) <=> IsSet(Order, buffer, p)
  <2>1. byte_idx(p) \in DOMAIN buffer
    BY <1>2, ByteInBuffer DEF Cap
  <2> QED
    BY <1>1, <1>2, <1>3, <2>1 DEF IsSet
<1>4. wire' = {p \in 0 .. Cap - 1 : IsSet(Order, buffer', p)}
  BY DEF wire, Cap
<1>5. filled' = filled \cup {b \in bytes : bit_offset_ < 8 * b + 8}
  BY <1>1, <1>2
<1>6. Tape!Patch(bytes)
  BY <1>1, <1>3, <1>4, <1>5 DEF Tape!Patch, Tape!Cap, Cap, wire, Tape!byte_idx, byte_idx
<1>7. bytes \in SUBSET (0 .. BufSize - 1)
  OBVIOUS
<1> QED
  BY <1>6, <1>7 DEF Tape!Next

LEMMA NextTape ==
  ASSUME Persistent, [Next]_vars
  PROVE  [Tape!Next]_(Tape!vars)
<1>1. ASSUME Quiet
      PROVE  UNCHANGED Tape!vars
  BY <1>1 DEF Quiet, Tape!vars, Cap
<1>2. CASE UNCHANGED vars
  BY <1>1, <1>2 DEF vars, Quiet
<1>3. ASSUME Construct
      PROVE  Tape!Next
  <2>1. BufSize \in Nat /\ Cap \in Nat
    BY CapNat, WriterAssumption
  <2>2. \A p \in 0 .. Cap - 1 : ~IsSet(Order, ZeroBuffer(BufSize), p)
    BY <2>1, ByteInBuffer DEF IsSet, ZeroBuffer, Cap
  <2>3. Tape!Restart
    BY <1>3, <2>2 DEF Construct, Tape!Restart, Cap
  <2> QED
    BY <2>3 DEF Tape!Next
<1>4. CASE Next
  BY <1>1, <1>3, <1>4, StepKinds, AppendsTape, RewindsTape, StoreTape
<1> QED
  BY <1>2, <1>4

\* The writer, which only ORs bits into the buffer and writes nothing to skip,
\* implements the documented tape, where writing and skipping set every bit.
THEOREM WriterImplementsTape == Spec => ImplementsTape
<1>1. Persistent /\ [Next]_vars => [Tape!Next]_(Tape!vars)
  BY NextTape
<1> QED
  BY <1>1, SpecPersistent, InitTape, PTL DEF Spec, ImplementsTape, Tape!Spec
=============================================================================
