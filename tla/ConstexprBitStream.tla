------------------------- MODULE ConstexprBitStream -------------------------
(***************************************************************************)
(* ConstexprBitReader and ConstexprBitWriter: the reader and the writer    *)
(* once more, for constant expressions.  They own their bytes and report   *)
(* errors by what they return, so an object is a value and a method an     *)
(* operator from the object before to the object after:                    *)
(*   a writer [buffer, pos, ok], a reader [buffer, pos, ok, values].       *)
(* ok is the bool of the last call (for void methods TRUE; for a reader    *)
(* whether its optional has a value, or its packet is valid), and values   *)
(* are what the optional or the packet hold.                               *)
(***************************************************************************)
EXTENDS BitWire, PacketFormat

CONSTANTS Order, BufSize, SizeMod

Fits(pos, n) == (pos + n) % SizeMod <= 8 * BufSize

\* skip_bits and align_to_byte, the same in both classes.
skip_bits(s, n) ==
  IF Fits(s.pos, n) THEN [s EXCEPT !.pos = (@ + n) % SizeMod, !.ok = TRUE]
  ELSE [s EXCEPT !.ok = FALSE]

\* Faulty variant: moves on from a boundary too.
align_to_byte_always(s) == [s EXCEPT !.ok = TRUE, !.pos = (byte_idx(@) + 1) * 8]

align_to_byte(s) ==
  [s EXCEPT !.ok = TRUE, !.pos = IF @ % 8 # 0 THEN (byte_idx(@) + 1) * 8 ELSE @]

-----------------------------------------------------------------------------
(* ConstexprBitWriter.                                                     *)

NewWriter == [buffer |-> ZeroBuffer(BufSize), pos |-> 0, ok |-> TRUE]

\* buffer_[byte_idx] |= 1 << bit_idx
SetBit(bytes, p) == [bytes EXCEPT ![byte_idx(p)] = @ \cup {bit_idx(Order, p)}]

\* The loop: one bit, and one step of the cursor, at a time.
WriteLoop(w, n, value) ==
  LET after[i \in 0 .. n] ==
        IF i = 0 THEN w
        ELSE LET s == after[i - 1]
             IN  [s EXCEPT
                    !.pos = @ + 1,
                    !.buffer = IF value_bit(Order, n, i - 1) \in value THEN SetBit(@, s.pos)
                                                                      ELSE @]
  IN  after[n]

write_bits(w, n, value) ==
  IF n \in 1 .. 64 /\ Fits(w.pos, n) THEN WriteLoop([w EXCEPT !.ok = TRUE], n, value)
  ELSE [w EXCEPT !.ok = FALSE]

\* Faulty variant: a field that cannot be written is passed over.
SerializeLoop_on(w, format, vs) ==
  LET after[i \in 0 .. Len(format)] ==
        IF i = 0 THEN w ELSE write_bits(after[i - 1], format[i].bit_width, vs[i])
  IN  after[Len(format)]

\* The fold over the arguments; after the first failure it writes nothing more.
SerializeLoop(w, format, vs) ==
  LET after[i \in 0 .. Len(format)] ==
        IF i = 0 THEN w
        ELSE LET s == after[i - 1]
             IN  IF s.ok THEN write_bits(s, format[i].bit_width, vs[i]) ELSE s
  IN  after[Len(format)]

serialize(w, format, vs) ==
  IF Fits(w.pos, total_bits(format))
    THEN SerializeLoop([w EXCEPT !.ok = TRUE], format, vs)
    ELSE [w EXCEPT !.ok = FALSE]

-----------------------------------------------------------------------------
(* ConstexprBitReader.                                                     *)

\* The constructor copies the bytes.
NewReader(bytes) == [buffer |-> bytes, pos |-> 0, ok |-> TRUE, values |-> <<>>]

reset(r) == [r EXCEPT !.pos = 0, !.ok = TRUE]

\* Faulty variant: the first bit is the lowest in either order.
ReadLoop_lsb(r, n) ==
  [pos |-> r.pos + n, value |-> {i \in 0 .. n - 1 : IsSet(Order, r.buffer, r.pos + i)}]

\* The loop; the bit that a step reads is where the cursor has got to.
ReadLoop(r, n) ==
  LET after[i \in 0 .. n] ==
        IF i = 0 THEN [pos |-> r.pos, value |-> {}]
        ELSE LET s == after[i - 1]
             IN  [pos |-> s.pos + 1,
                  value |-> s.value \cup (IF IsSet(Order, r.buffer, s.pos)
                                            THEN {value_bit(Order, n, i - 1)} ELSE {})]
  IN  after[n]

\* Faulty variant: a width of 0 is not refused.
CanRead_zero(r, n) == n <= 64 /\ Fits(r.pos, n)

CanRead(r, n) == n \in 1 .. 64 /\ Fits(r.pos, n)

read_bits(r, n) ==
  IF CanRead(r, n)
    THEN LET end == ReadLoop(r, n)
         IN  [r EXCEPT !.pos = end.pos, !.ok = TRUE, !.values = <<end.value>>]
    ELSE [r EXCEPT !.ok = FALSE, !.values = <<>>]

\* Field i of the loop: values[i] of the packet is assigned if the field is read.
ParseField(r, field, i) ==
  LET next == IF is_padding_field(field.name) THEN skip_bits(r, field.bit_width)
              ELSE read_bits(r, field.bit_width)
      value == IF is_padding_field(field.name) THEN {} ELSE next.values[1]
  IN  [next EXCEPT !.values = IF next.ok THEN [r.values EXCEPT ![i] = value] ELSE r.values]

\* A packet starts as zeros and is handed out, not valid, also by a loop that fails.
deserialize(r, format) ==
  LET zeros == [i \in 1 .. Len(format) |-> {}]
      after[i \in 0 .. Len(format)] ==
        IF i = 0 THEN [r EXCEPT !.ok = TRUE, !.values = zeros]
        ELSE IF after[i - 1].ok THEN ParseField(after[i - 1], format[i], i)
        ELSE after[i - 1]
  IN  IF Fits(r.pos, total_bits(format)) THEN after[Len(format)]
      ELSE [r EXCEPT !.ok = FALSE, !.values = zeros]
=============================================================================
