---------------------------- MODULE MCBitWriter ----------------------------
(* Small instances of BitWriter for TLC. *)
EXTENDS BitWriter

Field(name, bit_width) == [name |-> name, bit_width |-> bit_width]

\* A format that does not divide into bytes, one with padding and a span, one
\* whose last field has no width, so that serialize throws after the first.
MCVlan == <<Field("pcp", 3), Field("dei", 1), Field("vid", 12)>>
MCPadded == <<Field("reserved", 8), Field("code", 8)>>
MCNoWidth == <<Field("flag", 6), Field("empty", 0)>>

MCFormats == {MCVlan, MCPadded, MCNoWidth}
MCPadding == {"reserved"}

MCAllOnes == 0 .. 63
MCSparse == {0, 2, 5, 9}
MCValues == {MCAllOnes, MCSparse}
MCFills == {{0, 7}}
=============================================================================
