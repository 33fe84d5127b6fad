--------------------------- MODULE ConstexprTwins ---------------------------
(***************************************************************************)
(* The compile-time classes beside the run-time ones.  A client makes the  *)
(* same calls on a BitWriter and on a ConstexprBitWriter, then reads what  *)
(* they wrote with a BitReader over the memory and a ConstexprBitReader    *)
(* over a copy of data().  A new pair of writers starts again.             *)
(***************************************************************************)
EXTENDS BitSession

C == INSTANCE ConstexprBitStream

\* The outputs of deserialize_into are words, as the values of a packet are.
ASSUME WordOutputs == 64 \in OutWidths

VARIABLES
  phase,  \* "write", or "read" once there is a reader
  cw, cr  \* the compile-time writer and reader

twinVars == <<vars, phase, cw, cr>>

TwinInit ==
  /\ Init
  /\ phase = "write"
  /\ cw = C!NewWriter
  /\ cr = C!NewReader(ZeroBuffer(BufSize))

\* A call of the run-time class, which may be a loop, and of its twin.
WriteCall ==
  \/ \E n \in Widths : \E v \in Values : W!WriteBits(n, v) /\ cw' = C!write_bits(cw, n, v)
  \/ \E f \in Formats : \E vs \in [1 .. Len(f) -> Values] :
       W!Serialize(f, vs) /\ cw' = C!serialize(cw, f, vs)
  \/ \E n \in Widths : W!SkipBits(n) /\ cw' = C!skip_bits(cw, n)
  \/ W!AlignToByte /\ cw' = C!align_to_byte(cw)
  \/ W!Step /\ UNCHANGED cw

Write == phase = "write" /\ WriteCall /\ UNCHANGED <<readerVars, phase, cr>>

Words64(format) == [i \in 1 .. Len(format) |-> 64]

ReadCall ==
  \/ R!reset /\ cr' = C!reset(cr)
  \/ \E n \in Widths : R!ReadBits(n) /\ cr' = C!read_bits(cr, n)
  \/ \E n \in Widths : R!SkipBits(n) /\ cr' = C!skip_bits(cr, n)
  \/ R!AlignToByte /\ cr' = C!align_to_byte(cr)
  \/ \E f \in Formats :
       /\ R!Deserialize(f) \/ R!DeserializeInto(f, Words64(f))
       /\ cr' = C!deserialize(cr, f)
  \/ R!Step /\ UNCHANGED cr

Read == phase = "read" /\ ReadCall /\ UNCHANGED <<writerVars, phase, cw>>

\* make_constexpr_reader on the bytes that the writer hands out.
MakeReader ==
  /\ phase = "write" /\ W!Idle
  /\ phase' = "read"
  /\ cr' = C!NewReader(cw.buffer)
  /\ UNCHANGED <<vars, cw>>

Restart ==
  /\ phase = "read" /\ R!Idle
  /\ phase' = "write"
  /\ W!Construct
  /\ cw' = C!NewWriter /\ cr' = C!NewReader(ZeroBuffer(BufSize))
  /\ rpos' = 0 /\ rcall' = R!NoFrame /\ packet' = R!NoFrame /\ last' = R!NoResult

TwinNext == Write \/ Read \/ MakeReader \/ Restart

TwinSpec == TwinInit /\ [][TwinNext]_twinVars

-----------------------------------------------------------------------------
(***************************************************************************)
(* No cursor of the four passes the end of its bytes, also with widths     *)
(* near 2^64 that wrap has_space or has_bits, so no loop indexes outside   *)
(* of them; in a constant expression that would be a compile-time error.   *)
(***************************************************************************)
CursorsInBounds == \A pos \in {wpos, rpos, cw.pos, cr.pos} : pos <= 8 * BufSize

(***************************************************************************)
(* After the same calls the two writers hold the same bytes and cursor,    *)
(* and one returned false exactly where the other threw: also after a      *)
(* serialize that failed with fields already written.                      *)
(***************************************************************************)
WritersAgree ==
  W!Idle => cw.buffer = buffer /\ cw.pos = wpos /\ (cw.ok <=> outcome = "ok")

\* What the compile-time reader shows of the last call is what the other shows.
SameResult ==
  /\ cr.pos = rpos
  /\ cr.ok <=> last.status = "ok"
  /\ last.c.op = "read_bits" /\ cr.ok => cr.values = <<last.value>>
  /\ last.c.op = "deserialize_into" \/ (last.c.op = "deserialize" /\ cr.ok) =>
       LET got == IF last.status = "out_of_range" THEN <<>> ELSE packet.values
       IN  cr.values = [i \in 1 .. Len(last.c.format) |-> IF i <= Len(got) THEN got[i] ELSE {}]

CallEnded == phase = "read" /\ R!Idle /\ last.c.op # "none"

(***************************************************************************)
(* After the same calls the two readers have the same cursor, one had no   *)
(* value exactly where the other threw, and the values are the same; a     *)
(* packet that is not valid holds the values that deserialize_into had     *)
(* assigned when it threw, and zeros.                                      *)
(***************************************************************************)
ReadersAgree == [][CallEnded' => SameResult']_twinVars

\* Each bit of the values is the one that was written there, or 0.
ValuesAsWritten ==
  CASE last.c.op = "read_bits" -> AsWritten(last.from, last.c.n, 64, cr.values[1])
    [] last.c.op \in {"deserialize", "deserialize_into"} ->
         FieldsAsWritten(last.c.format, last.from, <<>>, cr.values)
    [] OTHER -> TRUE

(***************************************************************************)
(* Compile-time round trip: every bit of a value that a compile-time       *)
(* reader returns is the one the writers put there, or 0, also when it     *)
(* reads at other boundaries than they wrote.                              *)
(***************************************************************************)
CompileTimeRoundTrip == [][CallEnded' /\ cr'.ok => ValuesAsWritten']_twinVars
=============================================================================
