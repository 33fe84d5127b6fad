----------------------------- MODULE BitSession -----------------------------
(***************************************************************************)
(* A BitWriter and a BitReader over the same memory, as a client holds     *)
(* them: both keep a span of its bytes and a cursor of their own, and      *)
(* neither knows of the other.  The one thread may turn to the other       *)
(* object between any two calls, but not inside serialize or deserialize.  *)
(***************************************************************************)
EXTENDS BitWire, PacketFormat

CONSTANTS Order, BufSize, SizeMod, Widths, Values, Formats, Fills, OutWidths, Tables

VARIABLES
  buffer,                          \* the bytes both spans refer to
  wpos, wcall, outcome,            \* the writer
  written, filled,                 \* its history
  rpos, rcall, packet, last        \* the reader

W == INSTANCE BitWriter WITH bit_offset_ <- wpos, call <- wcall
R == INSTANCE BitReader WITH bit_offset_ <- rpos, call <- rcall,
                             Memories <- Buffers(BufSize)

ASSUME SessionAssumption == W!WriterAssumption /\ W!FormatsFit /\ R!ReaderAssumption

writerVars == <<wpos, wcall, outcome, written, filled>>
readerVars == <<rpos, rcall, packet, last>>
vars == <<buffer, writerVars, readerVars>>

Init == W!Init /\ R!Init

Next ==
  \/ R!Idle /\ W!Next /\ UNCHANGED readerVars
  \/ W!Idle /\ R!Next /\ UNCHANGED writerVars

Spec == Init /\ [][Next]_vars

-----------------------------------------------------------------------------
\* The writer's history says otherwise than that the bit at position p is as given.
Contradicts(p, bit) ==
  \/ \E r \in written :
       /\ p \in r.pos .. r.pos + r.n - 1
       /\ bit # (value_bit(Order, r.n, p - r.pos) \in r.value)
  \/ bit /\ p >= wpos /\ byte_idx(p) \notin filled

\* The low width bits of the n bits from pos on.
AsWritten(pos, n, width, value) ==
  /\ value \subseteq 0 .. width - 1
  /\ \A i \in 0 .. n - 1 :
       LET k == value_bit(Order, n, i)
       IN  k < width => ~Contradicts(pos + i, k \in value)

\* values are those of the first fields of format, read from position from on.
FieldsAsWritten(format, from, types, values) ==
  \A i \in 1 .. Len(values) :
    LET width == IF types = <<>> THEN 64 ELSE types[i]
    IN  IF is_padding_field(format[i].name) THEN values[i] = {}
        ELSE AsWritten(from + FieldOffsets(format)[i - 1], format[i].bit_width, width, values[i])

\* The byte loops agree with the bit loops up to this size (bitstream.h:370).
SoundSizes == IF Order = "BigEndian" THEN AlignedSizes ELSE {1, 2, 4}

(***************************************************************************)
(* Round trip: whichever way a value was written (bits, fields, whole      *)
(* bytes, a skip or padding to a byte) and whichever way it is read, at    *)
(* the same or at other field boundaries, each bit read is the one that    *)
(* was written there, and 0 where nothing was: also after a serialize that *)
(* threw half-way, behind the writer's cursor or ahead of it, and after a  *)
(* second writer has cleared the memory under the reader.                  *)
(***************************************************************************)
ReadsAsWritten ==
  [][LET c == last'.c
         from == last'.from
         value == last'.value
     IN  UNCHANGED <<buffer, writerVars>> /\ last'.status = "ok" =>
           CASE c.op = "read_bits" -> AsWritten(from, c.n, 64, value)
             [] c.op = "read_field" ->
                  AsWritten(bit_offset_of(c.format, c.name), field_width(c.format, c.name),
                            64, value)
             [] c.op = "read_aligned" /\ c.n \in SoundSizes ->
                  AsWritten(from, 8 * c.n, 64, value)
             [] c.op \in {"deserialize", "deserialize_into"} ->
                  /\ Len(packet'.values) = Len(c.format)
                  /\ FieldsAsWritten(c.format, from, packet'.types, packet'.values)
             [] OTHER -> TRUE]_vars

=============================================================================
