----------------------- MODULE CacheAddressBitsProofs -----------------------
(***************************************************************************)
(* The address layout for every 32-bit address.  A wire position of the    *)
(* four bytes of a uint32_t and a bit of its value determine each other,   *)
(* on a machine of either byte order.  The numbers of its fields are those *)
(* that the arithmetic of CacheAddress computes.                           *)
(***************************************************************************)
EXTENDS CacheAddressBits, WireProofs

\* The bit of the value that is at wire position p.
place(p) == 8 * host_byte(p \div 8) + (p % 8)

LEMMA PlaceInverse ==
  ASSUME NEW p \in Bits
  PROVE  place(p) \in Bits /\ place(place(p)) = p
<1> DEFINE b == p \div 8
           j == p % 8
           h == host_byte(b)
<1>1. b \in 0 .. 3 /\ j \in 0 .. 7 /\ p = 8 * b + j
  BY DEF Bits
<1> HIDE DEF b, j
<1>2. h \in 0 .. 3 /\ host_byte(h) = b
  BY <1>1 DEF host_byte
<1>3. place(p) = 8 * h + j
  BY DEF place, b, j
<1> HIDE DEF h
<1>4. place(p) \in 0 .. 31 /\ place(p) \div 8 = h /\ place(p) % 8 = j
  BY <1>1, <1>2, <1>3
<1>5. place(place(p)) = 8 * b + j
  BY <1>2, <1>4 DEF place
<1> QED
  BY <1>1, <1>4, <1>5 DEF Bits

\* On a little-endian machine the positions are the bits.
LEMMA PlaceLittle ==
  ASSUME HostOrder = "LittleEndian", NEW p \in Bits
  PROVE  place(p) = p
BY DEF place, host_byte, Bits

LEMMA Layout ==
  /\ FieldOffsets(kCacheAddress)[0] = 0 /\ kCacheAddress[1].bit_width = 6
  /\ FieldOffsets(kCacheAddress)[1] = 6 /\ kCacheAddress[2].bit_width = 3
  /\ FieldOffsets(kCacheAddress)[2] = 9 /\ kCacheAddress[3].bit_width = 23
<1> DEFINE f == kCacheAddress
<1>1. Len(f) = 3
  BY DEF kCacheAddress
<1>2. f[1].bit_width = 6 /\ f[2].bit_width = 3 /\ f[3].bit_width = 23
  BY DEF kCacheAddress
<1> HIDE DEF f
<1>3. /\ FieldOffsets(f)[0] = 0
      /\ \A i \in 1 .. 3 : FieldOffsets(f)[i] = FieldOffsets(f)[i - 1] + f[i].bit_width
  <2>1. \A i \in 1 .. 3 : i = 1 \/ i = 2 \/ i = 3
    OBVIOUS
  <2>2. HasWidths(f)
    BY <1>1, <1>2, <2>1 DEF HasWidths
  <2> QED
    BY <1>1, <2>2, OffsetsOfWidths
<1>4. FieldOffsets(f)[1] = FieldOffsets(f)[1 - 1] + 6 /\ FieldOffsets(f)[2] = FieldOffsets(f)[2 - 1] + 3
  BY <1>2, <1>3
<1>5. 1 - 1 = 0 /\ 2 - 1 = 1
  OBVIOUS
<1> QED
  BY <1>1, <1>2, <1>3, <1>4, <1>5 DEF f

-----------------------------------------------------------------------------
(* Reading.                                                                *)

LEMMA BytesOfValue ==
  ASSUME NEW value \in Word32, NEW p \in Bits
  PROVE  IsSet("LittleEndian", as_bytes(value), p) <=> place(p) \in value
<1>1. p \div 8 \in 0 .. 3 /\ p % 8 \in 0 .. 7
  BY DEF Bits
<1> QED
  BY <1>1 DEF IsSet, as_bytes, bit_idx, byte_idx, place

\* A field holds the bits at its n wire positions from pos on.
LEMMA FieldBits ==
  ASSUME NEW value \in Word32, NEW pos \in Nat, NEW n \in Nat, pos + n <= 32
  PROVE  Truncate(GetBits("LittleEndian", as_bytes(value), pos, n), 32)
           = {x \in 0 .. n - 1 : place(pos + x) \in value}
<1> DEFINE got == GetBits("LittleEndian", as_bytes(value), pos, n)
<1>1. got = {x \in 0 .. n - 1 : IsSet("LittleEndian", as_bytes(value), pos + x)}
  BY DEF GetBits, value_bit
<1>2. \A x \in 0 .. n - 1 : pos + x \in Bits
  BY DEF Bits
<1>3. got = {x \in 0 .. n - 1 : place(pos + x) \in value}
  BY <1>1, <1>2, BytesOfValue
<1>4. 0 .. n - 1 \subseteq 0 .. 32 - 1
  OBVIOUS
<1> QED
  BY <1>3, <1>4 DEF Truncate

LEMMA Deserialized ==
  ASSUME NEW value \in Word32
  PROVE  deserialize_address(value) =
           [offset |-> {x \in 0 .. 5 : place(0 + x) \in value},
            index |-> {x \in 0 .. 2 : place(6 + x) \in value},
            tag |-> {x \in 0 .. 22 : place(9 + x) \in value}]
<1>1. 1 - 1 = 0 /\ 2 - 1 = 1 /\ 3 - 1 = 2 /\ 6 - 1 = 5 /\ 23 - 1 = 22
  OBVIOUS
<1>2. FieldAt(value, 1) = {x \in 0 .. 5 : place(0 + x) \in value}
  <2>1. Truncate(GetBits("LittleEndian", as_bytes(value), 0, 6), 32)
          = {x \in 0 .. 6 - 1 : place(0 + x) \in value}
    BY FieldBits
  <2> QED
    BY <1>1, <2>1, Layout DEF FieldAt
<1>3. FieldAt(value, 2) = {x \in 0 .. 2 : place(6 + x) \in value}
  <2>1. Truncate(GetBits("LittleEndian", as_bytes(value), 6, 3), 32)
          = {x \in 0 .. 3 - 1 : place(6 + x) \in value}
    BY FieldBits
  <2> QED
    BY <1>1, <2>1, Layout DEF FieldAt
<1>4. FieldAt(value, 3) = {x \in 0 .. 22 : place(9 + x) \in value}
  <2>1. Truncate(GetBits("LittleEndian", as_bytes(value), 9, 23), 32)
          = {x \in 0 .. 23 - 1 : place(9 + x) \in value}
    BY 9 + 23 <= 32, FieldBits
  <2> QED
    BY <1>1, <2>1, Layout DEF FieldAt
<1> QED
  BY <1>2, <1>3, <1>4 DEF deserialize_address

-----------------------------------------------------------------------------
(* Writing.                                                                *)

LEMMA ValueOfBytes ==
  ASSUME NEW bytes \in Buffers(4)
  PROVE  from_bytes(bytes) = {x \in Bits : IsSet("LittleEndian", bytes, place(x))}
<1>1. \A b \in 0 .. 3 : bytes[b] \subseteq 0 .. 7 /\ host_byte(b) \in 0 .. 3
  BY DEF Buffers, Byte, host_byte
<1>2. \A x : x \in from_bytes(bytes) <=>
               \E b \in 0 .. 3 : \E j \in bytes[b] : x = 8 * host_byte(b) + j
  BY DEF from_bytes, ShiftedByte
<1>3. ASSUME NEW b \in 0 .. 3, NEW j \in 0 .. 7
      PROVE  LET x == 8 * host_byte(b) + j
             IN  x \in Bits /\ (IsSet("LittleEndian", bytes, place(x)) <=> j \in bytes[b])
  <2> DEFINE p == 8 * b + j
             x == 8 * host_byte(b) + j
  <2>1. p \in Bits /\ p \div 8 = b /\ p % 8 = j
    BY DEF Bits
  <2>2. place(p) = x
    BY <2>1 DEF place
  <2>3. x \in Bits /\ place(x) = p
    BY <2>1, <2>2, PlaceInverse
  <2> HIDE DEF p, x
  <2>4. IsSet("LittleEndian", bytes, place(x)) <=> j \in bytes[b]
    BY <2>1, <2>3 DEF IsSet, bit_idx, byte_idx
  <2> QED
    BY <2>3, <2>4 DEF x
<1>4. ASSUME NEW x \in Bits
      PROVE  \E b \in 0 .. 3 : \E j \in 0 .. 7 : x = 8 * host_byte(b) + j
  <2> DEFINE p == place(x)
  <2>1. p \in Bits /\ place(p) = x
    BY PlaceInverse
  <2> HIDE DEF p
  <2>2. p \div 8 \in 0 .. 3 /\ p % 8 \in 0 .. 7
    BY <2>1 DEF Bits
  <2> QED
    BY <2>1, <2>2 DEF place
<1> QED
  BY <1>1, <1>2, <1>3, <1>4

\* Each of the 32 positions belongs to one of the three fields.
LEMMA Serialized ==
  ASSUME NEW tag, NEW index, NEW offset
  PROVE  serialize_address(tag, index, offset) =
           {x \in Bits : LET p == place(x)
                         IN  \/ p \in 0 .. 5 /\ p - 0 \in offset
                             \/ p \in 6 .. 8 /\ p - 6 \in index
                             \/ p \in 9 .. 31 /\ p - 9 \in tag}
<1> DEFINE b0 == ZeroBuffer(4)
           b1 == PutField(b0, 1, offset)
           b2 == PutField(b1, 2, index)
           b3 == PutField(b2, 3, tag)
<1>1. b0 \in Buffers(4) /\ \A p \in 0 .. 31 : ~IsSet("LittleEndian", b0, p)
  BY ByteInBuffer DEF ZeroBuffer, Buffers, Byte, IsSet, byte_idx
<1>2. /\ b1 = PutBits("LittleEndian", b0, 0, 6, offset)
      /\ b2 = PutBits("LittleEndian", b1, 6, 3, index)
      /\ b3 = PutBits("LittleEndian", b2, 9, 23, tag)
  <2>1. 1 - 1 = 0 /\ 2 - 1 = 1 /\ 3 - 1 = 2
    OBVIOUS
  <2> QED
    BY <2>1, Layout DEF PutField
<1> HIDE DEF b0, b1, b2, b3
<1>3. "LittleEndian" \in Orders
  BY DEF Orders
<1>4. b1 \in Buffers(4) /\ b2 \in Buffers(4) /\ b3 \in Buffers(4)
  BY <1>1, <1>2, <1>3, PutBitsType
<1>5. ASSUME NEW p \in 0 .. 8 * 4 - 1
      PROVE  IsSet("LittleEndian", b3, p) <=> \/ p \in 0 .. 5 /\ p - 0 \in offset
                                              \/ p \in 6 .. 8 /\ p - 6 \in index
                                              \/ p \in 9 .. 31 /\ p - 9 \in tag
  <2>1. IsSet("LittleEndian", b1, p) <=> \/ IsSet("LittleEndian", b0, p)
                                         \/ /\ p \in 0 .. 0 + 6 - 1
                                            /\ value_bit("LittleEndian", 6, p - 0) \in offset
    BY <1>1, <1>2, <1>3, PutBitsIsSet
  <2>2. IsSet("LittleEndian", b2, p) <=> \/ IsSet("LittleEndian", b1, p)
                                         \/ /\ p \in 6 .. 6 + 3 - 1
                                            /\ value_bit("LittleEndian", 3, p - 6) \in index
    BY <1>2, <1>3, <1>4, PutBitsIsSet
  <2>3. IsSet("LittleEndian", b3, p) <=> \/ IsSet("LittleEndian", b2, p)
                                         \/ /\ p \in 9 .. 9 + 23 - 1
                                            /\ value_bit("LittleEndian", 23, p - 9) \in tag
    BY <1>2, <1>3, <1>4, PutBitsIsSet
  <2>4. ~IsSet("LittleEndian", b0, p)
    BY <1>1
  <2> QED
    BY <2>1, <2>2, <2>3, <2>4 DEF value_bit
<1>6. from_bytes(b3) = {x \in Bits : IsSet("LittleEndian", b3, place(x))}
  BY <1>4, ValueOfBytes
<1>7. \A x \in Bits : place(x) \in 0 .. 8 * 4 - 1
  BY PlaceInverse DEF Bits
<1>8. serialize_address(tag, index, offset) = from_bytes(b3)
  BY DEF serialize_address, b0, b1, b2, b3
<1> QED
  BY <1>5, <1>6, <1>7, <1>8

-----------------------------------------------------------------------------
(* The theorems.                                                           *)

TypeOK == address \in Word32

LEMMA AddressType == Spec => []TypeOK
<1>1. Init => TypeOK
  BY DEF Init, TypeOK, Word32
<1>2. TypeOK /\ [Flip]_address => TypeOK'
  BY DEF Flip, TypeOK, Word32
<1> QED
  BY <1>1, <1>2, PTL DEF Spec

\* Taking any address apart and putting it together gives it back, on a machine
\* of either byte order.
THEOREM AnyAddressRoundTrips == Spec => []AddressRoundTrip
<1>1. ASSUME TypeOK
      PROVE  AddressRoundTrip
  <2> DEFINE f == deserialize_address(address)
             out == serialize_address(f.tag, f.index, f.offset)
  <2>1. /\ f.offset = {x \in 0 .. 5 : place(0 + x) \in address}
        /\ f.index = {x \in 0 .. 2 : place(6 + x) \in address}
        /\ f.tag = {x \in 0 .. 22 : place(9 + x) \in address}
    BY <1>1, Deserialized DEF TypeOK
  <2> HIDE DEF f
  <2>2. \A p \in Bits : (\/ p \in 0 .. 5 /\ p - 0 \in f.offset
                         \/ p \in 6 .. 8 /\ p - 6 \in f.index
                         \/ p \in 9 .. 31 /\ p - 9 \in f.tag) <=> place(p) \in address
    <3> TAKE p \in Bits
    <3>1. CASE p \in 0 .. 5
      <4>1. p - 0 \in 0 .. 5 /\ 0 + (p - 0) = p /\ p \notin 6 .. 8 /\ p \notin 9 .. 31
        BY <3>1
      <4> QED
        BY <2>1, <3>1, <4>1
    <3>2. CASE p \in 6 .. 8
      <4>1. p - 6 \in 0 .. 2 /\ 6 + (p - 6) = p /\ p \notin 0 .. 5 /\ p \notin 9 .. 31
        BY <3>2
      <4> QED
        BY <2>1, <3>2, <4>1
    <3>3. CASE p \in 9 .. 31
      <4>1. p - 9 \in 0 .. 22 /\ 9 + (p - 9) = p /\ p \notin 0 .. 5 /\ p \notin 6 .. 8
        BY <3>3
      <4> QED
        BY <2>1, <3>3, <4>1
    <3> QED
      BY <3>1, <3>2, <3>3 DEF Bits
  <2>3. out = {x \in Bits : place(place(x)) \in address}
    BY <2>2, PlaceInverse, Serialized
  <2>4. out = address
    BY <1>1, <2>3, PlaceInverse DEF TypeOK, Word32
  <2> QED
    BY <2>4 DEF AddressRoundTrip, f
<1> QED
  BY <1>1, AddressType, PTL

\* The bit ranges of the layout comment are what a little-endian machine reads.
THEOREM FieldsAreBitRanges ==
  ASSUME HostOrder = "LittleEndian"
  PROVE  Spec => []FieldsAreSlices
<1>1. ASSUME TypeOK
      PROVE  FieldsAreSlices
  <2>1. \A p \in Bits : place(p) = p
    BY PlaceLittle
  <2>2. {x \in 0 .. 5 : place(0 + x) \in address} = Slice(address, 0, 5)
    BY <2>1 DEF Slice, Bits
  <2>3. {x \in 0 .. 2 : place(6 + x) \in address} = Slice(address, 6, 8)
    BY <2>1 DEF Slice, Bits
  <2>4. {x \in 0 .. 22 : place(9 + x) \in address} = Slice(address, 9, 31)
    BY <2>1 DEF Slice, Bits
  <2> QED
    BY <1>1, <2>2, <2>3, <2>4, Deserialized DEF FieldsAreSlices, TypeOK
<1> QED
  BY <1>1, AddressType, PTL

\* A fetch and a write-back of one line use the same line address.
THEOREM LinesHaveOneAddress ==
  ASSUME HostOrder = "LittleEndian"
  PROVE  Spec => []LineAddressesAgree
<1>1. ASSUME TypeOK
      PROVE  LineAddressesAgree
  <2> DEFINE f == deserialize_address(address)
  <2>1. /\ f.offset = {x \in 0 .. 5 : place(0 + x) \in address}
        /\ f.index = {x \in 0 .. 2 : place(6 + x) \in address}
        /\ f.tag = {x \in 0 .. 22 : place(9 + x) \in address}
    BY <1>1, Deserialized DEF TypeOK
  <2> HIDE DEF f
  <2>2. \A p \in Bits : place(p) = p
    BY PlaceLittle
  <2>3. f.offset = {x \in 0 .. 5 : x \in address}
    BY <2>1, <2>2 DEF Bits
  <2>4. ASSUME NEW p \in Bits
        PROVE  (\/ p \in 0 .. 5 /\ p - 0 \in {}
                \/ p \in 6 .. 8 /\ p - 6 \in f.index
                \/ p \in 9 .. 31 /\ p - 9 \in f.tag) <=> p \in address /\ p \notin 0 .. 5
    <3>1. CASE p \in 6 .. 8
      <4>1. p - 6 \in 0 .. 2 /\ 6 + (p - 6) = p /\ p \notin 0 .. 5 /\ p \notin 9 .. 31
        BY <3>1
      <4> QED
        BY <2>1, <2>2, <3>1, <4>1
    <3>2. CASE p \in 9 .. 31
      <4>1. p - 9 \in 0 .. 22 /\ 9 + (p - 9) = p /\ p \notin 0 .. 5 /\ p \notin 6 .. 8
        BY <3>2
      <4> QED
        BY <2>1, <2>2, <3>2, <4>1
    <3> QED
      BY <3>1, <3>2 DEF Bits
  <2>5. serialize_address(f.tag, f.index, {}) = {x \in Bits : x \in address /\ x \notin 0 .. 5}
    BY <2>2, <2>4, Serialized
  <2>6. address \ f.offset = {x \in Bits : x \in address /\ x \notin 0 .. 5}
    BY <1>1, <2>3 DEF TypeOK, Word32
  <2> QED
    BY <2>3, <2>5, <2>6 DEF LineAddressesAgree, f
<1> QED
  BY <1>1, AddressType, PTL

-----------------------------------------------------------------------------
(* The bit ranges are the arithmetic of CacheAddress, with the constants   *)
(* of cache_example.h and 2^23 tags.                                       *)

kNumTags == 2048 * 4096

A == INSTANCE CacheAddress WITH kLineSize <- 64, kNumLines <- 8, NumTags <- kNumTags

Bit(word, b) == IF b \in word THEN 1 ELSE 0

\* The number that the first i bits make, from the most significant one on.
High(word) ==
  LET high[i \in 0 .. 32] == IF i = 0 THEN 0 ELSE 2 * high[i - 1] + Bit(word, 32 - i)
  IN  high

\* The value of a uint32_t.
Number(word) == High(word)[32]

LEMMA HighExists ==
  ASSUME NEW word
  PROVE  \E h \in [0 .. 32 -> Nat] :
           h = [i \in 0 .. 32 |-> IF i = 0 THEN 0 ELSE 2 * h[i - 1] + Bit(word, 32 - i)]
<1> DEFINE N == 32
           shift == [i \in 1 .. N |-> [k \in Nat |-> 2 * k + Bit(word, 32 - i)]]
<1>1. N \in Nat /\ 0 \in Nat /\ shift \in [1 .. N -> [Nat -> Nat]]
  BY DEF Bit
<1>2. \A i \in 1 .. N : \A k \in Nat : shift[i][k] = 2 * k + Bit(word, 32 - i)
  OBVIOUS
<1> HIDE DEF N, shift
<1>3. \E h \in [0 .. N -> Nat] : h[0] = 0 /\ \A i \in 1 .. N : h[i] = shift[i][h[i - 1]]
  <2> DEFINE S == Nat
             a == 0
  <2>1. N \in Nat /\ a \in S /\ shift \in [1 .. N -> [S -> S]]
    BY <1>1
  <2> HIDE DEF S, a
  <2>2. \E h \in [0 .. N -> S] : h[0] = a /\ \A i \in 1 .. N : h[i] = shift[i][h[i - 1]]
    BY <2>1, Recursion
  <2> QED
    BY <2>2 DEF S, a
<1>4. PICK h \in [0 .. N -> Nat] : h[0] = 0 /\ \A i \in 1 .. N : h[i] = shift[i][h[i - 1]]
  BY <1>3
<1>5. \A i \in 1 .. N : h[i - 1] \in Nat /\ h[i] = 2 * h[i - 1] + Bit(word, 32 - i)
  <2>1. \A i \in 1 .. N : h[i - 1] \in Nat
    BY <1>1
  <2> QED
    BY <1>2, <1>4, <2>1
<1>6. h = [i \in 0 .. N |-> h[i]]
  OBVIOUS
<1>7. \A i \in 0 .. N : h[i] = IF i = 0 THEN 0 ELSE 2 * h[i - 1] + Bit(word, 32 - i)
  BY <1>1, <1>4, <1>5
<1>8. h = [i \in 0 .. N |-> IF i = 0 THEN 0 ELSE 2 * h[i - 1] + Bit(word, 32 - i)]
  BY <1>6, <1>7
<1> QED
  BY <1>8 DEF N

LEMMA HighIs ==
  ASSUME NEW word
  PROVE  /\ \A i \in 0 .. 32 : High(word)[i] \in Nat
         /\ High(word)[0] = 0
         /\ \A i \in 1 .. 32 : High(word)[i] = 2 * High(word)[i - 1] + Bit(word, 32 - i)
<1> DEFINE high[i \in 0 .. 32] == IF i = 0 THEN 0 ELSE 2 * high[i - 1] + Bit(word, 32 - i)
<1>1. high = [i \in 0 .. 32 |-> IF i = 0 THEN 0 ELSE 2 * high[i - 1] + Bit(word, 32 - i)]
  BY HighExists, Zenon
<1>2. High(word) = high
  BY DEF High
<1> HIDE DEF high
<1>3. high[0] = 0 /\ \A i \in 1 .. 32 : high[i] = 2 * high[i - 1] + Bit(word, 32 - i)
  BY <1>1
<1> DEFINE S == {i \in 0 .. 32 : high[i] \in Nat}
<1>4. 0 \in S
  BY <1>3
<1>5. ASSUME NEW i \in 0 .. 32 - 1, i \in S
      PROVE  i + 1 \in S
  <2>1. i + 1 \in 1 .. 32 /\ (i + 1) - 1 = i
    OBVIOUS
  <2> QED
    BY <1>3, <1>5, <2>1 DEF Bit
<1>6. 0 .. 32 \subseteq S
  <2> HIDE DEF S
  <2> QED
    BY <1>4, <1>5, UpTo
<1> QED
  BY <1>2, <1>3, <1>6

LEMMA ThreeBits ==
  ASSUME NEW word, NEW i \in 0 .. 29
  PROVE  High(word)[i + 3] = 8 * High(word)[i] + 4 * Bit(word, 31 - i) + 2 * Bit(word, 30 - i)
                               + Bit(word, 29 - i)
<1> DEFINE h == High(word)
           b == Bit(word, 31 - i)
           c == Bit(word, 30 - i)
           d == Bit(word, 29 - i)
<1>1. h[i] \in Nat /\ b \in Nat /\ c \in Nat /\ d \in Nat
  BY HighIs DEF Bit
<1>2. h[i + 1] = 2 * h[i] + b
  <2>1. i + 1 \in 1 .. 32 /\ (i + 1) - 1 = i /\ 32 - (i + 1) = 31 - i
    OBVIOUS
  <2> QED
    BY <2>1, HighIs
<1>3. h[i + 2] = 2 * h[i + 1] + c
  <2>1. i + 2 \in 1 .. 32 /\ (i + 2) - 1 = i + 1 /\ 32 - (i + 2) = 30 - i
    OBVIOUS
  <2> QED
    BY <2>1, HighIs
<1>4. h[i + 3] = 2 * h[i + 2] + d
  <2>1. i + 3 \in 1 .. 32 /\ (i + 3) - 1 = i + 2 /\ 32 - (i + 3) = 29 - i
    OBVIOUS
  <2> QED
    BY <2>1, HighIs
<1> HIDE DEF h, b, c, d
<1>5. h[i + 3] = 8 * h[i] + 4 * b + 2 * c + d
  BY <1>1, <1>2, <1>3, <1>4
<1> QED
  BY <1>5 DEF h, b, c, d

LEMMA BitIs ==
  ASSUME NEW word, NEW b
  PROVE  Bit(word, b) \in 0 .. 1
BY DEF Bit

\* Three more bits.
LEMMA Grows ==
  ASSUME NEW word, NEW i \in 0 .. 29, NEW max \in Nat, High(word)[i] <= max
  PROVE  High(word)[i + 3] <= 8 * max + 7
<1> DEFINE h == High(word)[i]
           b == Bit(word, 31 - i)
           c == Bit(word, 30 - i)
           d == Bit(word, 29 - i)
<1>1. h \in Nat /\ b \in 0 .. 1 /\ c \in 0 .. 1 /\ d \in 0 .. 1
  BY BitIs, HighIs
<1>2. High(word)[i + 3] = 8 * h + 4 * b + 2 * c + d
  BY ThreeBits
<1> HIDE DEF b, c, d
<1> QED
  BY <1>1, <1>2

LEMMA LeadingZeros ==
  ASSUME NEW word, NEW m \in 0 .. 32, \A i \in 1 .. m : 32 - i \notin word
  PROVE  High(word)[m] = 0
<1> DEFINE S == {i \in 0 .. m : High(word)[i] = 0}
<1>1. 0 \in S
  BY HighIs
<1>2. ASSUME NEW i \in 0 .. m - 1, i \in S
      PROVE  i + 1 \in S
  <2>1. i + 1 \in 1 .. m /\ i + 1 \in 1 .. 32 /\ (i + 1) - 1 = i
    OBVIOUS
  <2>2. High(word)[i + 1] = 2 * High(word)[i] + Bit(word, 32 - (i + 1))
    BY <2>1, HighIs
  <2>3. Bit(word, 32 - (i + 1)) = 0
    BY <2>1 DEF Bit
  <2> QED
    BY <1>2, <2>1, <2>2, <2>3
<1>3. 0 .. m \subseteq S
  <2> HIDE DEF S
  <2> QED
    BY <1>1, <1>2, UpTo
<1> QED
  BY <1>3

\* The most significant bits of a word, moved down as a word of their own.
LEMMA MovedDown ==
  ASSUME NEW word, NEW moved, NEW s \in 0 .. 32, High(moved)[s] = 0,
         \A i \in 1 .. 32 - s : Bit(moved, 32 - (s + i)) = Bit(word, 32 - i)
  PROVE  Number(moved) = High(word)[32 - s]
<1> DEFINE m == 32 - s
           S == {i \in 0 .. m : High(moved)[s + i] = High(word)[i]}
<1>1. m \in Nat /\ 0 \in S
  BY HighIs
<1>2. ASSUME NEW i \in 0 .. m - 1, i \in S
      PROVE  i + 1 \in S
  <2>1. /\ i + 1 \in 1 .. m /\ i + 1 \in 1 .. 32 /\ (i + 1) - 1 = i
        /\ s + (i + 1) \in 1 .. 32 /\ (s + (i + 1)) - 1 = s + i
    OBVIOUS
  <2>2. High(word)[i + 1] = 2 * High(word)[i] + Bit(word, 32 - (i + 1))
    BY <2>1, HighIs
  <2>3. High(moved)[s + (i + 1)] = 2 * High(moved)[s + i] + Bit(moved, 32 - (s + (i + 1)))
    BY <2>1, HighIs
  <2>4. Bit(moved, 32 - (s + (i + 1))) = Bit(word, 32 - (i + 1))
    BY <2>1
  <2> QED
    BY <1>2, <2>1, <2>2, <2>3, <2>4
<1>3. 0 .. m \subseteq S
  <2> HIDE DEF S, m
  <2> QED
    BY <1>1, <1>2, UpTo
<1>4. m \in S /\ s + m = 32
  BY <1>3
<1> QED
  BY <1>4 DEF Number

LEMMA TagNumber ==
  ASSUME NEW word, NEW tag \in SUBSET (0 .. 22),
         \A x \in 0 .. 22 : 9 + x \in word <=> x \in tag
  PROVE  Number(tag) = High(word)[23] /\ Number(tag) \in 0 .. kNumTags - 1
<1>1. High(tag)[9] = 0
  <2>1. 9 \in 0 .. 32 /\ \A i \in 1 .. 9 : 32 - i \notin tag
    OBVIOUS
  <2> QED
    BY <2>1, LeadingZeros
<1>2. Number(tag) = High(word)[23]
  <2>1. ASSUME NEW i \in 1 .. 32 - 9
        PROVE  Bit(tag, 32 - (9 + i)) = Bit(word, 32 - i)
    <3>1. 32 - (9 + i) \in 0 .. 22 /\ 9 + (32 - (9 + i)) = 32 - i
      OBVIOUS
    <3> QED
      BY <3>1 DEF Bit
  <2>2. 9 \in 0 .. 32 /\ 32 - 9 = 23
    OBVIOUS
  <2> QED
    BY <1>1, <2>1, <2>2, MovedDown
<1>3. Number(tag) <= kNumTags - 1
  <2> DEFINE h == High(tag)
  <2>1. \A i \in 0 .. 29 : \A max \in Nat : h[i] <= max => h[i + 3] <= 8 * max + 7
    BY Grows
  <2>2. \A i \in 0 .. 32 : h[i] \in Nat
    BY HighIs
  <2>3. h[9] <= 0
    BY <1>1
  <2>4. h[31] = 2 * h[30] + Bit(tag, 1) /\ h[32] = 2 * h[31] + Bit(tag, 0)
    BY HighIs
  <2> HIDE DEF h
  <2>5. h[9 + 3] <= 7
    BY <2>1, <2>3
  <2>6. h[12 + 3] <= 63
    BY <2>1, <2>5
  <2>7. h[15 + 3] <= 511
    BY <2>1, <2>6
  <2>8. h[18 + 3] <= 4095
    BY <2>1, <2>7
  <2>9. h[21 + 3] <= 32767
    BY <2>1, <2>8
  <2>10. h[24 + 3] <= 64 * 4096 - 1
    BY <2>1, <2>9
  <2>11. h[27 + 3] <= 512 * 4096 - 1
    BY <2>1, <2>10
  <2>12. h[32] <= kNumTags - 1
    BY <2>2, <2>4, <2>11, BitIs DEF kNumTags
  <2> QED
    BY <2>12 DEF Number, h
<1>4. Number(tag) \in Nat
  BY HighIs DEF Number
<1> QED
  BY <1>2, <1>3, <1>4

LEMMA IndexNumber ==
  ASSUME NEW word, NEW index \in SUBSET (0 .. 2),
         \A x \in 0 .. 2 : 6 + x \in word <=> x \in index
  PROVE  /\ Number(index) \in 0 .. 7
         /\ High(word)[26] = 8 * High(word)[23] + Number(index)
<1> DEFINE b == Bit(index, 2)
           c == Bit(index, 1)
           d == Bit(index, 0)
<1>1. High(index)[29] = 0
  <2>1. 29 \in 0 .. 32 /\ \A i \in 1 .. 29 : 32 - i \notin index
    OBVIOUS
  <2> QED
    BY <2>1, LeadingZeros
<1>2. Number(index) = 4 * b + 2 * c + d
  <2>1. High(index)[29 + 3] = 8 * High(index)[29] + 4 * b + 2 * c + d
    <3>1. 31 - 29 = 2 /\ 30 - 29 = 1 /\ 29 - 29 = 0 /\ 29 \in 0 .. 29
      OBVIOUS
    <3> QED
      BY <3>1, ThreeBits
  <2> QED
    BY <1>1, <2>1, BitIs DEF Number
<1>3. High(word)[23 + 3] = 8 * High(word)[23] + 4 * Bit(word, 8) + 2 * Bit(word, 7) + Bit(word, 6)
  <2>1. 31 - 23 = 8 /\ 30 - 23 = 7 /\ 29 - 23 = 6 /\ 23 \in 0 .. 29
    OBVIOUS
  <2> QED
    BY <2>1, ThreeBits
<1>4. Bit(word, 8) = b /\ Bit(word, 7) = c /\ Bit(word, 6) = d
  <2>1. 6 + 2 = 8 /\ 6 + 1 = 7 /\ 6 + 0 = 6
    OBVIOUS
  <2> QED
    BY <2>1 DEF Bit
<1>5. b \in 0 .. 1 /\ c \in 0 .. 1 /\ d \in 0 .. 1 /\ High(word)[23] \in Nat
  BY BitIs, HighIs
<1>6. High(word)[26] = 8 * High(word)[23] + 4 * b + 2 * c + d
  BY <1>3, <1>4
<1> HIDE DEF b, c, d
<1>7. 4 * b + 2 * c + d \in 0 .. 7
  BY <1>5
<1> QED
  BY <1>2, <1>5, <1>6, <1>7

LEMMA OffsetNumber ==
  ASSUME NEW word, NEW offset \in SUBSET (0 .. 5),
         \A x \in 0 .. 5 : x \in word <=> x \in offset
  PROVE  /\ Number(offset) \in 0 .. 63
         /\ Number(word) = 64 * High(word)[26] + Number(offset)
<1> DEFINE b(w, k) == Bit(w, k)
           low(w) == 32 * b(w, 5) + 16 * b(w, 4) + 8 * b(w, 3) + 4 * b(w, 2) + 2 * b(w, 1) + b(w, 0)
<1>1. High(offset)[26] = 0
  <2>1. 26 \in 0 .. 32 /\ \A i \in 1 .. 26 : 32 - i \notin offset
    OBVIOUS
  <2> QED
    BY <2>1, LeadingZeros
<1>2. ASSUME NEW w
      PROVE  Number(w) = 64 * High(w)[26] + low(w)
  <2>1. High(w)[26 + 3] = 8 * High(w)[26] + 4 * b(w, 5) + 2 * b(w, 4) + b(w, 3)
    <3>1. 31 - 26 = 5 /\ 30 - 26 = 4 /\ 29 - 26 = 3 /\ 26 \in 0 .. 29
      OBVIOUS
    <3> QED
      BY <3>1, ThreeBits
  <2>2. High(w)[29 + 3] = 8 * High(w)[29] + 4 * b(w, 2) + 2 * b(w, 1) + b(w, 0)
    <3>1. 31 - 29 = 2 /\ 30 - 29 = 1 /\ 29 - 29 = 0 /\ 29 \in 0 .. 29
      OBVIOUS
    <3> QED
      BY <3>1, ThreeBits
  <2>3. High(w)[26] \in Nat /\ \A k \in 0 .. 5 : b(w, k) \in 0 .. 1
    BY BitIs, HighIs
  <2> HIDE DEF b
  <2> QED
    BY <2>1, <2>2, <2>3 DEF Number
<1>3. \A k \in 0 .. 5 : b(word, k) = b(offset, k) /\ b(offset, k) \in 0 .. 1
  BY DEF Bit
<1>4. High(word)[26] \in Nat
  BY HighIs
<1>5. /\ Number(offset) = 64 * High(offset)[26] + low(offset)
      /\ Number(word) = 64 * High(word)[26] + low(word)
  BY <1>2
<1> HIDE DEF b
<1> QED
  BY <1>1, <1>3, <1>4, <1>5

\* A word whose bit ranges are these fields has the number that the arithmetic
\* makes of their numbers.
LEMMA FieldNumbers ==
  ASSUME NEW word, NEW tag \in SUBSET (0 .. 22), NEW index \in SUBSET (0 .. 2),
         NEW offset \in SUBSET (0 .. 5),
         \A x \in 0 .. 22 : 9 + x \in word <=> x \in tag,
         \A x \in 0 .. 2 : 6 + x \in word <=> x \in index,
         \A x \in 0 .. 5 : x \in word <=> x \in offset
  PROVE  /\ Number(tag) \in A!Tags /\ Number(index) \in A!Indices /\ Number(offset) \in A!Offsets
         /\ Number(word) = A!serialize_address(Number(tag), Number(index), Number(offset))
<1>1. Number(tag) = High(word)[23] /\ Number(tag) \in 0 .. kNumTags - 1
  BY TagNumber
<1>2. Number(index) \in 0 .. 7 /\ High(word)[26] = 8 * High(word)[23] + Number(index)
  BY IndexNumber
<1>3. Number(offset) \in 0 .. 63 /\ Number(word) = 64 * High(word)[26] + Number(offset)
  BY OffsetNumber
<1> QED
  BY <1>1, <1>2, <1>3 DEF A!Tags, A!Indices, A!Offsets, A!serialize_address

\* On a little-endian machine the address that serialize_address puts together
\* is the one that DirectMapCache computes from tag, index and offset.
THEOREM SerializeIsArithmetic ==
  ASSUME HostOrder = "LittleEndian", NEW tag \in SUBSET (0 .. 22), NEW index \in SUBSET (0 .. 2),
         NEW offset \in SUBSET (0 .. 5)
  PROVE  Number(serialize_address(tag, index, offset))
           = A!serialize_address(Number(tag), Number(index), Number(offset))
<1> DEFINE word == serialize_address(tag, index, offset)
<1>1. word = {x \in Bits : \/ x \in 0 .. 5 /\ x - 0 \in offset
                           \/ x \in 6 .. 8 /\ x - 6 \in index
                           \/ x \in 9 .. 31 /\ x - 9 \in tag}
  BY PlaceLittle, Serialized
<1> HIDE DEF word
<1>2. \A x \in 0 .. 22 : 9 + x \in word <=> x \in tag
  <2> TAKE x \in 0 .. 22
  <2>1. /\ 9 + x \in Bits /\ 9 + x \notin 0 .. 5 /\ 9 + x \notin 6 .. 8
        /\ 9 + x \in 9 .. 31 /\ (9 + x) - 9 = x
    BY DEF Bits
  <2> QED
    BY <1>1, <2>1
<1>3. \A x \in 0 .. 2 : 6 + x \in word <=> x \in index
  <2> TAKE x \in 0 .. 2
  <2>1. /\ 6 + x \in Bits /\ 6 + x \notin 0 .. 5 /\ 6 + x \notin 9 .. 31
        /\ 6 + x \in 6 .. 8 /\ (6 + x) - 6 = x
    BY DEF Bits
  <2> QED
    BY <1>1, <2>1
<1>4. \A x \in 0 .. 5 : x \in word <=> x \in offset
  <2> TAKE x \in 0 .. 5
  <2>1. x \in Bits /\ x \notin 6 .. 8 /\ x \notin 9 .. 31 /\ x - 0 = x
    BY DEF Bits
  <2> QED
    BY <1>1, <2>1
<1>5. Number(word) = A!serialize_address(Number(tag), Number(index), Number(offset))
  BY <1>2, <1>3, <1>4, FieldNumbers
<1> QED
  BY <1>5 DEF word

\* On a little-endian machine every uint32_t is an address of CacheAddress, and
\* its tag, index, offset and line address are what the bit fields say.
THEOREM DeserializeIsArithmetic ==
  ASSUME HostOrder = "LittleEndian", NEW value \in Word32
  PROVE  LET f == deserialize_address(value)
             a == Number(value)
         IN  /\ a \in A!Addresses
             /\ A!tag_of(a) = Number(f.tag)
             /\ A!index_of(a) = Number(f.index)
             /\ A!offset_of(a) = Number(f.offset)
             /\ A!line_addr(a) = Number(value \ f.offset)
<1> DEFINE f == deserialize_address(value)
           t == Number(f.tag)
           i == Number(f.index)
           o == Number(f.offset)
           a == Number(value)
           line == value \ f.offset
<1>1. /\ f.offset = {x \in 0 .. 5 : place(0 + x) \in value}
      /\ f.index = {x \in 0 .. 2 : place(6 + x) \in value}
      /\ f.tag = {x \in 0 .. 22 : place(9 + x) \in value}
  BY Deserialized
<1>2. \A p \in Bits : place(p) = p
  BY PlaceLittle
<1> HIDE DEF f
<1>3. /\ f.offset \in SUBSET (0 .. 5) /\ \A x \in 0 .. 5 : x \in value <=> x \in f.offset
      /\ f.index \in SUBSET (0 .. 2) /\ \A x \in 0 .. 2 : 6 + x \in value <=> x \in f.index
      /\ f.tag \in SUBSET (0 .. 22) /\ \A x \in 0 .. 22 : 9 + x \in value <=> x \in f.tag
  BY <1>1, <1>2 DEF Bits
<1>4. /\ t \in A!Tags /\ i \in A!Indices /\ o \in A!Offsets
      /\ a = A!serialize_address(t, i, o)
  BY <1>3, FieldNumbers
<1>5. Number(line) = A!serialize_address(t, i, 0)
  <2>1. {} \in SUBSET (0 .. 5) /\ \A x \in 0 .. 5 : x \in line <=> x \in {}
    BY <1>3
  <2>2. \A x \in 0 .. 2 : 6 + x \in line <=> x \in f.index
    BY <1>3
  <2>3. \A x \in 0 .. 22 : 9 + x \in line <=> x \in f.tag
    BY <1>3
  <2> HIDE DEF line
  <2>4. Number(line) = A!serialize_address(t, i, Number({}))
    BY <1>3, <2>1, <2>2, <2>3, FieldNumbers
  <2>5. Number({}) = 0
    BY LeadingZeros DEF Number
  <2> QED
    BY <2>4, <2>5
<1> HIDE DEF t, i, o, a, line
<1>6. a \in A!Addresses
  BY <1>4 DEF A!Addresses
<1>7. t \in Nat /\ i \in 0 .. 7 /\ o \in 0 .. 63 /\ a = (t * 8 + i) * 64 + o
  BY <1>4 DEF A!Tags, A!Indices, A!Offsets, A!serialize_address
<1>8. a \div 64 = t * 8 + i /\ a % 64 = o /\ (t * 8 + i) \div 8 = t /\ (t * 8 + i) % 8 = i
  BY <1>7
<1>9. A!tag_of(a) = t /\ A!index_of(a) = i /\ A!offset_of(a) = o
  BY <1>8 DEF A!tag_of, A!index_of, A!offset_of
<1>10. A!line_addr(a) = Number(line)
  BY <1>5, <1>7, <1>9 DEF A!line_addr, A!serialize_address
<1> QED
  BY <1>6, <1>9, <1>10 DEF f, t, i, o, a, line

\* Different words are different numbers, so that two lines which the arithmetic
\* keeps apart or takes for one are so in the code.
THEOREM NumbersDiffer ==
  ASSUME NEW v \in Word32, NEW w \in Word32, Number(v) = Number(w)
  PROVE  v = w
<1> DEFINE S == {k \in 0 .. 32 : High(v)[32 - k] = High(w)[32 - k]}
<1>1. 0 \in S
  BY DEF Number
<1>2. ASSUME NEW k \in 0 .. 31, High(v)[32 - k] = High(w)[32 - k]
      PROVE  High(v)[32 - (k + 1)] = High(w)[32 - (k + 1)] /\ Bit(v, k) = Bit(w, k)
  <2> DEFINE i == 32 - k
             x == High(v)[i - 1]
             y == High(w)[i - 1]
             b == Bit(v, k)
             c == Bit(w, k)
  <2>1. i \in 1 .. 32 /\ i - 1 = 32 - (k + 1) /\ 32 - i = k
    OBVIOUS
  <2>2. x \in Nat /\ y \in Nat /\ b \in 0 .. 1 /\ c \in 0 .. 1
    <3>1. i - 1 \in 0 .. 32
      BY <2>1
    <3> QED
      BY <3>1, BitIs, HighIs
  <2>3. High(v)[i] = 2 * x + b /\ High(w)[i] = 2 * y + c
    BY <2>1, HighIs
  <2>4. High(v)[i] = High(w)[i]
    BY <1>2
  <2> HIDE DEF x, y, b, c
  <2>5. x = y /\ b = c
    BY <2>2, <2>3, <2>4
  <2> QED
    BY <2>1, <2>5 DEF x, y, b, c
<1>3. 0 .. 32 \subseteq S
  <2>1. \A k \in 0 .. 32 - 1 : k \in S => k + 1 \in S
    BY <1>2
  <2> HIDE DEF S
  <2> QED
    BY <1>1, <2>1, UpTo
<1>4. \A k \in Bits : k \in v <=> k \in w
  BY <1>2, <1>3 DEF Bit, Bits
<1> QED
  BY <1>4 DEF Word32
=============================================================================
