------------------------------ MODULE WireTape ------------------------------
(***************************************************************************)
(* What the comments and the README promise of a BitWriter, without bytes: *)
(* a tape of Cap bits and a cursor.  Writing makes the next bits equal to  *)
(* the value, skipping and padding make them zero.  The promise is for a   *)
(* tape that is the writer's own: of the bytes in foreign, into which a    *)
(* client has stored or back over which the cursor has wrapped, a later    *)
(* call may make anything.                                                 *)
(***************************************************************************)
EXTENDS BitWire

CONSTANTS Order, BufSize, Values

Cap == 8 * BufSize

VARIABLES
  tape,    \* the positions of the 1-bits
  pos,     \* the cursor
  foreign  \* bytes with bits at or after pos that the writer did not put there

vars == <<tape, pos, foreign>>

Init == tape = {} /\ pos = 0 /\ foreign = {}

\* The cursor passes n bits, of which those in ones become 1 and the others 0.
Advance(n, ones) ==
  /\ pos' = pos + n /\ pos + n <= Cap
  /\ foreign' = foreign
  /\ tape' \subseteq 0 .. Cap - 1
  /\ \A p \in 0 .. Cap - 1 :
       IF p \in pos .. pos + n - 1
         THEN byte_idx(p) \notin foreign => (p \in tape' <=> p \in ones)
         ELSE p \in tape' <=> p \in tape

\* "Write exactly N bits from value."
Write(n, value) ==
  Advance(n, {p \in pos .. pos + n - 1 : value_bit(Order, n, p - pos) \in value})

\* "Skip N bits (write zeros)." and "Pad with zeros to the next byte boundary."
Skip(n) == Advance(n, {})

\* A client stores whole bytes through a span.
Patch(bytes) ==
  /\ pos' = pos
  /\ foreign' = foreign \cup {b \in bytes : pos < 8 * b + 8}
  /\ tape' \subseteq 0 .. Cap - 1
  /\ \A p \in 0 .. Cap - 1 : byte_idx(p) \notin bytes => (p \in tape' <=> p \in tape)

\* A skip of almost 2^64 bits.
Rewind(to) ==
  /\ to < pos
  /\ pos' = to
  /\ foreign' = foreign \cup {byte_idx(p) : p \in to .. pos - 1}
  /\ tape' = tape

\* A new writer over the same memory.
Restart == tape' = {} /\ pos' = 0 /\ foreign' = {}

Next ==
  \/ \E n \in 1 .. 64, v \in Values : Write(n, v)
  \/ \E n \in 0 .. Cap : Skip(n) \/ Rewind(n)
  \/ \E bytes \in SUBSET (0 .. BufSize - 1) : Patch(bytes)
  \/ Restart

Spec == Init /\ [][Next]_vars
=============================================================================
