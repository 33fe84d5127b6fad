---------------------------- MODULE MCBitSession ----------------------------
(* Small instances of BitSession for TLC. *)
EXTENDS BitSession

Field(name, bit_width) == [name |-> name, bit_width |-> bit_width]

MCPadding == {"reserved"}

\* A field across the byte boundary, after padding; a byte of padding before a
\* byte that has a span; a field of no width after one of six bits.
MCFormats ==
  {<<Field("reserved", 3), Field("vid", 6)>>,
   <<Field("reserved", 8), Field("code", 8)>>,
   <<Field("flag", 6), Field("empty", 0)>>}

MCValues == {{0, 2, 5, 9} \cup 12 .. 63}
MCFills == {{0, 7}}

\* What the reader reports of its last call does not influence a later one: no
\* run gives verify_expected a table.
MCView == <<buffer, writerVars, rpos, rcall>>
=============================================================================
