----------------------------- MODULE BitWriter -----------------------------
(***************************************************************************)
(* BitWriter<Order>: a cursor over a byte buffer that the client owns.     *)
(*                                                                         *)
(* Every public method that changes state is an action.  serialize is a    *)
(* loop that may throw between two fields, so it is a call frame and one   *)
(* step per field; no other method can run while the frame is active.      *)
(* std::size_t arithmetic on the cursor is modulo SizeMod (2^64).          *)
(***************************************************************************)
EXTENDS BitWire, PacketFormat

CONSTANTS
  Order,     \* WireOrder of the template
  BufSize,   \* buffer_.size()
  SizeMod,   \* number of values of std::size_t
  Widths,    \* run-time arguments of write_bits_runtime and skip_bits
  Values,    \* values written
  Formats,   \* formats serialized
  Fills      \* byte patterns a client stores through span_of_field

Cap == 8 * BufSize

ASSUME WriterAssumption ==
  /\ Order \in Orders
  /\ BufSize \in Nat
  /\ SizeMod \in Nat /\ Cap + 64 < SizeMod
  /\ Widths \subseteq 0 .. SizeMod - 1
  /\ Values \subseteq Word
  /\ Formats \subseteq Seq(FieldDef)
  /\ Fills \subseteq Byte

\* Formats are compile-time tables of fields documented as 1 to 64 bits wide
\* (README.md:243): their totals do not overflow std::size_t.
ASSUME FormatsFit == \A f \in Formats : Cap + total_bits(f) < SizeMod

VARIABLES
  buffer,       \* the client's bytes
  bit_offset_,  \* the cursor
  call,         \* the active serialize, idx = 0 if there is none
  outcome,      \* the exception of the last call, or "ok"
  written,      \* history: the regions written and what they should hold
  filled        \* history: bytes that may hold bits of others at or after the cursor

vars == <<buffer, bit_offset_, call, outcome, written, filled>>

NoCall == [format |-> <<>>, values |-> <<>>, idx |-> 0]
Idle == call.idx = 0

Errors == {"invalid_argument", "out_of_range", "logic_error"}

has_space(n) == (bit_offset_ + n) % SizeMod <= Cap
\* Faulty variant: rounds down.
bytes_written_down == bit_offset_ \div 8

bytes_written == (bit_offset_ + 7) \div 8

-----------------------------------------------------------------------------
(* Regions of the history: n bits from pos on that should hold value.      *)

Region(pos, n, value) == [pos |-> pos, n |-> n, value |-> value]

\* The positions of the buffer that lie in byte b.
BitsOfByte(b) == 8 * b .. 8 * b + 7

Overlaps(r, bytes) ==
  \E b \in bytes : \E p \in BitsOfByte(b) : p \in r.pos .. r.pos + r.n - 1

\* The next n bits are claimed for value, unless the client has filled some of
\* them: what a call makes of those is no longer its value alone.
Claim(n, value) ==
  LET r == Region(bit_offset_, n, value)
  IN  written' = IF n > 0 /\ ~Overlaps(r, filled) THEN written \cup {r} ELSE written

-----------------------------------------------------------------------------
Throw(error) ==
  /\ outcome' = error
  /\ call' = NoCall
  /\ UNCHANGED <<buffer, bit_offset_, written, filled>>

CanWrite(n) == n \in 1 .. 64 /\ has_space(n)

\* write_bits_runtime, called directly or by serialize, past its checks.
PutField(n, value) ==
  /\ buffer' = PutBits(Order, buffer, bit_offset_, n, value)
  /\ bit_offset_' = bit_offset_ + n
  /\ Claim(n, Truncate(value, n))
  /\ UNCHANGED filled

\* The throws of write_bits_runtime, in the order of its checks.
ThrowWrite(n) ==
  /\ ~CanWrite(n)
  /\ Throw(IF n \in 1 .. 64 THEN "out_of_range" ELSE "invalid_argument")

Init ==
  /\ buffer = ZeroBuffer(BufSize)
  /\ bit_offset_ = 0
  /\ call = NoCall
  /\ outcome = "ok"
  /\ written = {} /\ filled = {}

\* Faulty variant: the memory is not zeroed.
Construct_dirty ==
  /\ Idle
  /\ bit_offset_' = 0
  /\ outcome' = "ok"
  /\ written' = {} /\ filled' = {}
  /\ UNCHANGED <<buffer, call>>

\* The constructor: a new writer over the same memory zeroes all of it.
Construct ==
  /\ Idle
  /\ buffer' = ZeroBuffer(BufSize)
  /\ bit_offset_' = 0
  /\ outcome' = "ok"
  /\ written' = {} /\ filled' = {}
  /\ UNCHANGED call

WriteBits(n, value) ==
  /\ Idle
  /\ \/ CanWrite(n) /\ PutField(n, value) /\ outcome' = "ok" /\ UNCHANGED call
     \/ ThrowWrite(n)

\* Faulty variant: the space of the format is not checked.
Serialize_unchecked(format, values) ==
  /\ Idle
  /\ call' = [format |-> format, values |-> values, idx |-> 1]
  /\ outcome' = "ok"
  /\ UNCHANGED <<buffer, bit_offset_, written, filled>>

Serialize(format, values) ==
  /\ Idle
  /\ \/ /\ has_space(total_bits(format))
        /\ call' = [format |-> format, values |-> values, idx |-> 1]
        /\ outcome' = "ok"
        /\ UNCHANGED <<buffer, bit_offset_, written, filled>>
     \/ /\ ~has_space(total_bits(format))
        /\ Throw("out_of_range")

\* Faulty variant: padding is passed over, and moving the cursor with it.
SerializeField_packed ==
  /\ call.idx \in 1 .. Len(call.format)
  /\ LET field == call.format[call.idx]
     IN  IF is_padding_field(field.name)
         THEN /\ call' = [call EXCEPT !.idx = @ + 1]
              /\ UNCHANGED <<buffer, bit_offset_, outcome, written, filled>>
         ELSE \/ /\ CanWrite(field.bit_width)
                 /\ PutField(field.bit_width, call.values[call.idx])
                 /\ call' = [call EXCEPT !.idx = @ + 1]
                 /\ UNCHANGED outcome
              \/ ThrowWrite(field.bit_width)

\* One element of the fold over the arguments of serialize.
SerializeField ==
  /\ call.idx \in 1 .. Len(call.format)
  /\ LET n == call.format[call.idx].bit_width
     IN  \/ /\ CanWrite(n)
            /\ PutField(n, call.values[call.idx])
            /\ call' = [call EXCEPT !.idx = @ + 1]
            /\ UNCHANGED outcome
         \/ ThrowWrite(n)

SerializeReturn ==
  /\ call.idx = Len(call.format) + 1
  /\ call' = NoCall
  /\ UNCHANGED <<buffer, bit_offset_, outcome, written, filled>>

\* Faulty variant: the alignment is not checked.
WriteAligned_anywhere(k, value) ==
  /\ Idle /\ has_space(8 * k)
  /\ buffer' = PutAligned(Order, buffer, byte_idx(bit_offset_), k, value)
  /\ bit_offset_' = bit_offset_ + 8 * k
  /\ outcome' = "ok"
  /\ written' = written \cup {Region(bit_offset_, 8 * k, value)}
  /\ UNCHANGED <<call, filled>>

WriteAligned(k, value) ==
  /\ Idle
  /\ \/ /\ bit_offset_ % 8 # 0
        /\ Throw("logic_error")
     \/ /\ bit_offset_ % 8 = 0 /\ ~has_space(8 * k)
        /\ Throw("out_of_range")
     \/ /\ bit_offset_ % 8 = 0 /\ has_space(8 * k)
        /\ buffer' = PutAligned(Order, buffer, byte_idx(bit_offset_), k, value)
        /\ bit_offset_' = bit_offset_ + 8 * k
        /\ outcome' = "ok"
        /\ written' = written \cup {Region(bit_offset_, 8 * k, value)}
        /\ UNCHANGED <<call, filled>>

\* The cursor wrapped around to a position it had passed: what was written from
\* there on is given up, and its bytes are no longer known to be clear.
Rewind(to) ==
  /\ written' = {r \in written : r.pos + r.n <= to}
  /\ filled' = filled \cup {byte_idx(p) : p \in to .. bit_offset_ - 1}

\* Faulty variant: the check wraps, in a narrower type, and the cursor does not.
SkipBits_unwrapped(n) ==
  LET next == bit_offset_ + n
  IN  /\ Idle
      /\ \/ /\ has_space(n)
            /\ bit_offset_' = next
            /\ outcome' = "ok"
            /\ Claim(next - bit_offset_, {})
            /\ UNCHANGED <<buffer, call, filled>>
         \/ ~has_space(n) /\ Throw("out_of_range")

\* The documentation promises that skipped bits are written as zeros; the code
\* relies on their being zero already.  A width near 2^64 passes has_space and
\* moves the cursor back.
SkipBits(n) ==
  LET next == (bit_offset_ + n) % SizeMod
  IN  /\ Idle
      /\ \/ /\ has_space(n)
            /\ bit_offset_' = next
            /\ outcome' = "ok"
            /\ IF next < bit_offset_ THEN Rewind(next)
               ELSE Claim(next - bit_offset_, {}) /\ UNCHANGED filled
            /\ UNCHANGED <<buffer, call>>
         \/ ~has_space(n) /\ Throw("out_of_range")

\* Rounds the cursor up to a byte boundary; a no-op on one.
AlignToByte ==
  /\ Idle
  /\ bit_offset_' = IF bit_offset_ % 8 # 0 THEN (byte_idx(bit_offset_) + 1) * 8
                                           ELSE bit_offset_
  /\ Claim(bit_offset_' - bit_offset_, {})
  /\ outcome' = "ok"
  /\ UNCHANGED <<buffer, call, filled>>

\* The client fills the span that span_of_field returns for a field, which may
\* lie on either side of the cursor.
StoreSpan(format, name, fill) ==
  LET bytes == SpanBytes(format, name, BufSize)
  IN  /\ Idle
      /\ bytes # {}
      /\ buffer' = [b \in DOMAIN buffer |-> IF b \in bytes THEN fill ELSE buffer[b]]
      /\ written' = {r \in written : ~Overlaps(r, bytes)}
      /\ filled' = filled \cup {b \in DOMAIN buffer : b \in bytes /\ bit_offset_ < 8 * b + 8}
      /\ UNCHANGED <<bit_offset_, call, outcome>>

-----------------------------------------------------------------------------
FieldNames(format) == {format[i].name : i \in 1 .. Len(format)}

Step == SerializeField \/ SerializeReturn

ApiCall ==
  \/ Construct
  \/ \E n \in Widths, v \in Values : WriteBits(n, v)
  \/ \E f \in Formats : \E vs \in [1 .. Len(f) -> Values] : Serialize(f, vs)
  \/ \E k \in AlignedSizes, v \in Values : WriteAligned(k, Truncate(v, 8 * k))
  \/ \E n \in Widths : SkipBits(n)
  \/ AlignToByte

Store ==
  \E f \in Formats : \E name \in FieldNames(f), fill \in Fills : StoreSpan(f, name, fill)

Next == Step \/ ApiCall \/ Store

\* The thread that entered serialize runs it to its end.
Spec == Init /\ [][Next]_vars /\ WF_vars(Step)

-----------------------------------------------------------------------------
\* A serialize that has one value for each field and has not run past the last.
Calls ==
  {c \in [format : Formats, values : Seq(Values), idx : Nat \ {0}] :
     Len(c.values) = Len(c.format) /\ c.idx <= Len(c.format) + 1}

TypeOK ==
  /\ buffer \in Buffers(BufSize)
  /\ bit_offset_ \in Nat
  /\ call \in {NoCall} \cup Calls
  /\ outcome \in {"ok"} \cup Errors
  /\ written \subseteq [pos : Nat, n : Nat, value : Word]
  /\ filled \subseteq 0 .. BufSize - 1

(***************************************************************************)
(* No sequence of calls, even with widths that wrap has_space, moves the   *)
(* cursor past the end of the buffer, which is what keeps the unchecked    *)
(* buffer_[byte_idx] of the loops inside the span.                         *)
(***************************************************************************)
InBounds == bit_offset_ <= Cap

(***************************************************************************)
(* Every bit at or after the cursor is 0, those of filled bytes aside:     *)
(* bytes a client stored into or the cursor went back over.                *)
(* write_bits_runtime only ORs and skip_bits and align_to_byte write       *)
(* nothing, so all three are right only because of this.                   *)
(***************************************************************************)
TailClear ==
  \A p \in bit_offset_ .. Cap - 1 : IsSet(Order, buffer, p) => byte_idx(p) \in filled

(***************************************************************************)
(* Whatever was written, by the bit loop, the byte loop, a skip or padding *)
(* to a byte, still reads back bit by bit as it was meant: an over-wide    *)
(* value does not spill into its neighbours and no later call disturbs it. *)
(***************************************************************************)
FieldsPersist ==
  \A r \in written : GetBits(Order, buffer, r.pos, r.n) = r.value

(***************************************************************************)
(* While serialize runs, the fields it has passed lie where the format     *)
(* puts them and hold the low bits of the values passed, padding included: *)
(* a reader, which adds up the widths, finds each of them there.  Bytes    *)
(* that the client had filled aside.                                       *)
(***************************************************************************)
SerializeFollowsLayout ==
  \A i \in 1 .. call.idx - 1 :
    LET offsets == FieldOffsets(call.format)
        at == bit_offset_ - (offsets[call.idx - 1] - offsets[i - 1])
        n == call.format[i].bit_width
        value == Truncate(call.values[i], n)
    IN  /\ at \in Nat
        /\ \/ Overlaps(Region(at, n, value), filled)
           \/ GetBits(Order, buffer, at, n) = value

(***************************************************************************)
(* bytes_written() counts every byte that holds a 1-bit, those that the    *)
(* filled ones aside: sending the first bytes_written() bytes sends all    *)
(* that the writer wrote.                                                  *)
(***************************************************************************)
BytesWrittenCovers ==
  \A b \in (0 .. BufSize - 1) \ filled : b >= bytes_written => buffer[b] = {}

(***************************************************************************)
(* A call on a writer never changes a bit before the cursor.  Only a new   *)
(* writer or a store through a span does.                                  *)
(***************************************************************************)
PrefixStable ==
  [][\/ Construct
     \/ Store
     \/ \A p \in 0 .. bit_offset_ - 1 :
          IsSet(Order, buffer', p) <=> IsSet(Order, buffer, p)]_vars

(***************************************************************************)
(* serialize checks the space of the whole format first: once it has begun *)
(* it never runs out of space half-way, for all formats whose total does   *)
(* not itself wrap std::size_t (FormatsFit).                               *)
(***************************************************************************)
SerializeNeverOverruns ==
  [][~Idle => outcome' # "out_of_range"]_vars

-----------------------------------------------------------------------------
(* What comments in bitstream.h say and the code does not do.              *)

\* "These fields are automatically skipped during parsing and serialization"
\* (bitstream.h:33): a padding field leaves the buffer alone.
PaddingSkipped ==
  [][(~Idle /\ call.idx <= Len(call.format)
            /\ is_padding_field(call.format[call.idx].name)) => UNCHANGED buffer]_vars

-----------------------------------------------------------------------------
(***************************************************************************)
(* The documented contract, over the bits of the buffer in wire order: a   *)
(* writer that only ORs bits in, and writes nothing to skip or to pad,     *)
(* still sets every bit it passes, those of foreign bytes aside.           *)
(***************************************************************************)
Tape == INSTANCE WireTape WITH
          tape <- {p \in 0 .. Cap - 1 : IsSet(Order, buffer, p)},
          pos <- bit_offset_,
          foreign <- filled

ImplementsTape == Tape!Spec
=============================================================================
