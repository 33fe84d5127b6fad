-------------------------- MODULE MCConstexprTwins --------------------------
(* Small instances of ConstexprTwins for TLC. *)
EXTENDS ConstexprTwins

Field(name, bit_width) == [name |-> name, bit_width |-> bit_width]

MCPadding == {"reserved"}

\* A field across the byte boundary, after padding; a field that nothing can
\* read or write between two that can be.
MCFormats ==
  {<<Field("reserved", 3), Field("vid", 6)>>,
   <<Field("flag", 2), Field("empty", 0), Field("code", 4)>>}

MCValues == {{0, 2, 5, 9} \cup 12 .. 63}
\* What the readers report of their last call does not influence a later one.
MCView == <<buffer, writerVars, phase, cw, rpos, rcall, cr.buffer, cr.pos>>

\* What was written over an old part, after the cursor wrapped, is not read.
MCReadable == phase = "read" => filled = {}
=============================================================================
