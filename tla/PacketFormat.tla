---------------------------- MODULE PacketFormat ----------------------------
(***************************************************************************)
(* PacketFormat<N>: a sequence of fields, each a name and a width in bits. *)
(* Field i of the code is element i + 1 of the sequence.  Where the code   *)
(* returns std::nullopt, field_index is 0 and the other queries are not    *)
(* defined.                                                                *)
(***************************************************************************)
EXTENDS Integers, Sequences

CONSTANT
  PaddingNames  \* the names is_padding_field accepts: "_...", "reserved", "padding"

FieldDef == [name : STRING, bit_width : Nat]

is_padding_field(name) == name \in PaddingNames

\* FieldOffsets(format)[i] is the sum of the widths of the first i fields.
FieldOffsets(format) ==
  LET sum[i \in 0 .. Len(format)] ==
        IF i = 0 THEN 0 ELSE sum[i - 1] + format[i].bit_width
  IN  sum

total_bits(format) == FieldOffsets(format)[Len(format)]

\* The first field of that name, 0 for none.
field_index(format, name) ==
  LET hits == {i \in 1 .. Len(format) : format[i].name = name}
  IN  IF hits = {} THEN 0 ELSE CHOOSE i \in hits : \A j \in hits : i <= j

\* Faulty variant: the field's own width is counted.
bit_offset_of_end(format, name) == FieldOffsets(format)[field_index(format, name)]

bit_offset_of(format, name) == FieldOffsets(format)[field_index(format, name) - 1]
field_width(format, name) == format[field_index(format, name)].bit_width

(***************************************************************************)
(* span_of_field yields a span exactly if the field exists, starts and     *)
(* ends on a byte boundary and lies in a buffer of size bytes; the span is *)
(* then the set of byte indices SpanBytes.                                 *)
(***************************************************************************)
HasSpan(format, name, size) ==
  /\ field_index(format, name) # 0
  /\ bit_offset_of(format, name) % 8 = 0
  /\ field_width(format, name) % 8 = 0
  /\ (bit_offset_of(format, name) \div 8) + (field_width(format, name) \div 8) <= size

SpanBytes(format, name, size) ==
  IF HasSpan(format, name, size)
    THEN LET first == bit_offset_of(format, name) \div 8
         IN  first .. first + (field_width(format, name) \div 8) - 1
    ELSE {}
=============================================================================
