------------------------------ MODULE BitWire ------------------------------
(***************************************************************************)
(* Bits of a byte buffer and of an integer, as bitstream.h addresses them. *)
(*                                                                         *)
(* An unsigned integer is the set of the positions of its 1-bits, so       *)
(* "value & (1 << k)" is k \in value and "value |= 1 << k" adds k.  A byte *)
(* is such a set over 0 .. 7, a buffer a function from byte index to byte. *)
(* A wire position p is a bit offset counted from the start of the buffer. *)
(***************************************************************************)
EXTENDS Integers

Orders == {"BigEndian", "LittleEndian"}

Word == SUBSET (0 .. 63)
Byte == SUBSET (0 .. 7)
Buffers(size) == [0 .. size - 1 -> Byte]
ZeroBuffer(size) == [b \in 0 .. size - 1 |-> {}]

\* static_cast to an unsigned type of n bits
Truncate(value, n) == value \cap (0 .. n - 1)

-----------------------------------------------------------------------------
(* The loops over bits of read_bits_runtime and write_bits_runtime.        *)

byte_idx(p) == p \div 8
\* Faulty variant: counts a byte's bits from 8.
bit_idx_off_by_one(order, p) == IF order = "BigEndian" THEN 8 - (p % 8) ELSE p % 8

bit_idx(order, p) == IF order = "BigEndian" THEN 7 - (p % 8) ELSE p % 8

\* Faulty variant: the bytes of a value of whole bytes in the other order.
value_bit_bytes(order, n, i) ==
  LET byte == IF n % 8 = 0 THEN (n \div 8) - 1 - (i \div 8) ELSE i \div 8
      j == 8 * byte + (i % 8)
  IN  IF order = "BigEndian" THEN n - 1 - j ELSE j

\* Which bit of an n-bit value the i-th bit on the wire is.
value_bit(order, n, i) == IF order = "BigEndian" THEN n - 1 - i ELSE i

IsSet(order, buffer, p) == bit_idx(order, p) \in buffer[byte_idx(p)]

GetBits(order, buffer, pos, n) ==
  {value_bit(order, n, i) :
     i \in {j \in 0 .. n - 1 : IsSet(order, buffer, pos + j)}}

\* Faulty variant: the loop stops one bit early.
PutBits_short(order, buffer, pos, n, value) ==
  [b \in DOMAIN buffer |->
     buffer[b] \cup {bit_idx(order, pos + i) :
                       i \in {j \in 0 .. n - 2 : /\ byte_idx(pos + j) = b
                                                 /\ value_bit(order, n, j) \in value}}]

\* The code ORs each 1-bit into its byte and never clears one.
PutBits(order, buffer, pos, n, value) ==
  [b \in DOMAIN buffer |->
     buffer[b] \cup {bit_idx(order, pos + i) :
                       i \in {j \in 0 .. n - 1 : /\ byte_idx(pos + j) = b
                                                 /\ value_bit(order, n, j) \in value}}]

-----------------------------------------------------------------------------
(* The loops over bytes of read_aligned and write_aligned, sizeof(T) = k.  *)

AlignedSizes == {1, 2, 4, 8}

\* Faulty variant: the two orders are confused.
byte_shift_swapped(order, k, i) == IF order = "BigEndian" THEN i ELSE k - 1 - i

\* How far byte i of k is shifted, in bytes.
byte_shift(order, k, i) == IF order = "BigEndian" THEN k - 1 - i ELSE i

PutAligned(order, buffer, first, k, value) ==
  [b \in DOMAIN buffer |->
     IF b \in first .. first + k - 1
       THEN {j \in 0 .. 7 : 8 * byte_shift(order, k, b - first) + j \in value}
       ELSE buffer[b]]

ShiftedByte(byte, s) == {8 * s + j : j \in byte}

(***************************************************************************)
(* The little-endian loop shifts the byte as an int.  Byte 3 reaches the   *)
(* sign bit and is sign-extended into a 64-bit T.  For bytes 4 .. 7 the    *)
(* shift count exceeds the width of int, which C++ leaves undefined: the   *)
(* build may mask the count, yield zero, or load the wide word.            *)
(***************************************************************************)
IntShifts == {"masked", "zero", "wide"}

IntShiftedByte(byte, s, k, shift) ==
  IF s < 4
    THEN ShiftedByte(byte, s) \cup (IF s = 3 /\ 7 \in byte THEN 32 .. 8 * k - 1 ELSE {})
    ELSE CASE shift = "masked" ->
                ShiftedByte(byte, s - 4)
                  \cup (IF s = 7 /\ 7 \in byte THEN 32 .. 8 * k - 1 ELSE {})
           [] shift = "zero" -> {}
           [] shift = "wide" -> ShiftedByte(byte, s)

\* Faulty variant: the two orders are confused.
GetAligned_swapped(order, buffer, first, k) ==
  {UNION {ShiftedByte(buffer[first + i], byte_shift_swapped(order, k, i)) : i \in 0 .. k - 1}}

\* The values a build may return.
GetAligned(order, buffer, first, k) ==
  IF order = "BigEndian"
    THEN {UNION {ShiftedByte(buffer[first + i], k - 1 - i) : i \in 0 .. k - 1}}
    ELSE {UNION {IntShiftedByte(buffer[first + i], i, k, shift) : i \in 0 .. k - 1} :
            shift \in IntShifts}
=============================================================================
