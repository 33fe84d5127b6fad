---------------------------- MODULE CacheAddress ----------------------------
(***************************************************************************)
(* The address arithmetic of cache_example.h: the value of an address and  *)
(* of its tag, index and offset.  CacheAddressBitsProofs proves on the     *)
(* real layout that the bit_fields reader and writer compute the same.     *)
(***************************************************************************)
EXTENDS Integers

CONSTANTS
  kLineSize,  \* bytes of a line
  kNumLines,  \* lines of the cache
  NumTags     \* values of the tag field

ASSUME AddressAssumption ==
  /\ kLineSize \in Nat \ {0}
  /\ kNumLines \in Nat \ {0}
  /\ NumTags \in Nat \ {0}

Offsets == 0 .. kLineSize - 1
Indices == 0 .. kNumLines - 1
Tags == 0 .. NumTags - 1

serialize_address(tag, index, offset) == (tag * kNumLines + index) * kLineSize + offset

Addresses == {serialize_address(t, i, o) : t \in Tags, i \in Indices, o \in Offsets}

offset_of(address) == address % kLineSize
index_of(address) == (address \div kLineSize) % kNumLines
tag_of(address) == (address \div kLineSize) \div kNumLines

\* address - offset
line_addr(address) == address - offset_of(address)
=============================================================================
