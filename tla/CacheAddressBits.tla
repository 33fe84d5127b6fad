-------------------------- MODULE CacheAddressBits --------------------------
(***************************************************************************)
(* deserialize_address and serialize_address of cache_example.h on the     *)
(* real layout: a uint32_t is viewed as four bytes of host memory and its  *)
(* fields are read and written by the little-endian bit loops.  An address *)
(* is the set of its 1-bits.                                               *)
(***************************************************************************)
EXTENDS BitWire, PacketFormat, FiniteSets

CONSTANTS
  HostOrder,  \* byte order of the machine
  MaxOnes     \* bound: addresses with at most this many 1-bits ...

ASSUME HostAssumption == HostOrder \in Orders /\ MaxOnes \in Nat

VARIABLE address

Bits == 0 .. 31
Word32 == SUBSET Bits

kCacheAddress ==
  <<[name |-> "offset", bit_width |-> 6],
    [name |-> "index", bit_width |-> 3],
    [name |-> "tag", bit_width |-> 23]>>

\* Faulty variant: the object is viewed in the other byte order.
host_byte_swapped(b) == IF HostOrder = "BigEndian" THEN b ELSE 3 - b

\* How far byte b of the object is shifted in the value.
host_byte(b) == IF HostOrder = "BigEndian" THEN 3 - b ELSE b

as_bytes(value) == [b \in 0 .. 3 |-> {j \in 0 .. 7 : 8 * host_byte(b) + j \in value}]
from_bytes(bytes) == UNION {ShiftedByte(bytes[b], host_byte(b)) : b \in 0 .. 3}

FieldAt(value, i) ==
  Truncate(GetBits("LittleEndian", as_bytes(value),
                   FieldOffsets(kCacheAddress)[i - 1], kCacheAddress[i].bit_width), 32)

deserialize_address(value) ==
  [offset |-> FieldAt(value, 1), index |-> FieldAt(value, 2), tag |-> FieldAt(value, 3)]

\* Faulty variant: each field is put where it should end.
PutField_late(bytes, i, value) ==
  PutBits("LittleEndian", bytes, FieldOffsets(kCacheAddress)[i], kCacheAddress[i].bit_width, value)

PutField(bytes, i, value) ==
  PutBits("LittleEndian", bytes, FieldOffsets(kCacheAddress)[i - 1],
          kCacheAddress[i].bit_width, value)

\* Faulty variant: offset and index are passed in the wrong order.
serialize_address_swapped(tag, index, offset) ==
  from_bytes(PutField(PutField(PutField(ZeroBuffer(4), 1, index), 2, offset), 3, tag))

serialize_address(tag, index, offset) ==
  from_bytes(PutField(PutField(PutField(ZeroBuffer(4), 1, offset), 2, index), 3, tag))

-----------------------------------------------------------------------------
\* Addresses with few 1-bits, and with few 0-bits.
Init == address \in {{}, Bits}

Flip ==
  \E b \in Bits :
    /\ address' = IF b \in address THEN address \ {b} ELSE address \cup {b}
    /\ \/ Cardinality(address') <= MaxOnes
       \/ Cardinality(address') >= 32 - MaxOnes

Spec == Init /\ [][Flip]_address

-----------------------------------------------------------------------------
\* The bits from first to last, as a number of their own.
Slice(value, first, last) == {b - first : b \in value \cap (first .. last)}

(***************************************************************************)
(* "bits 31..9  bits 8..6  bits 5..0" (cache_example.h:11): the fields are *)
(* the bit ranges of the address that the arithmetic of CacheAddress uses. *)
(***************************************************************************)
FieldsAreSlices ==
  deserialize_address(address) =
    [offset |-> Slice(address, 0, 5), index |-> Slice(address, 6, 8),
     tag |-> Slice(address, 9, 31)]

\* Taking an address apart and putting it together gives it back.
AddressRoundTrip ==
  LET f == deserialize_address(address)
  IN  serialize_address(f.tag, f.index, f.offset) = address

(***************************************************************************)
(* The line address that a fetch uses, address - offset, is the one that a *)
(* write-back of that line uses, serialize_address(tag, index, 0).         *)
(***************************************************************************)
LineAddressesAgree ==
  LET f == deserialize_address(address)
  IN  /\ f.offset \subseteq address
      /\ address \ f.offset = serialize_address(f.tag, f.index, {})
=============================================================================
