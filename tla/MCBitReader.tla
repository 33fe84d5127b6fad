---------------------------- MODULE MCBitReader ----------------------------
(* Small instances of BitReader for TLC. *)
EXTENDS BitReader

Field(name, bit_width) == [name |-> name, bit_width |-> bit_width]
Entry(name, accepts) == [name |-> name, accepts |-> accepts]

MCPadding == {"reserved", "_gap"}

\* Two bytes.  0x2D 0xC6: every nibble, and each byte reversed, is different.
MCMemories == {[b \in 0 .. 1 |-> IF b = 0 THEN {0, 2, 3, 5} ELSE {1, 2, 6, 7}]}

\* A format that does not divide into bytes; one with a span of one byte,
\* padding after it and a name that occurs twice; one whose second field has no
\* width, after a padding field that has none either; a span of two bytes.
MCVlan == <<Field("pcp", 3), Field("dei", 1), Field("vid", 12)>>
MCPadded == <<Field("code", 8), Field("reserved", 3), Field("code", 4)>>
MCNoWidth == <<Field("_gap", 0), Field("flag", 9), Field("empty", 0)>>
MCType == <<Field("type", 16)>>
MCFormats == {MCVlan, MCPadded, MCNoWidth, MCType}

\* dei and pcp as they are in the memory read big-endian from bit 0, then an
\* unknown name; a check that fails before its unknown name is reached.
MCTables ==
  {<<Entry("dei", {{}}), Entry("pcp", {{0}, {1}})>>,
   <<Entry("pcp", {{0}}), Entry("ethertype", {{}})>>,
   <<Entry("pcp", {{2}}), Entry("ethertype", {{}})>>,
   <<Entry("code", {{0, 2, 3, 5}})>>}

-----------------------------------------------------------------------------
\* Ten bytes, for the 8-byte reads, for a field wider than 64 bits and for a
\* span of three bytes.
MCLongMemories ==
  {[b \in 0 .. 9 |-> IF b \in {3, 7} THEN {0, 1, 7} ELSE {b % 8, (b * 3 + 1) % 8}],
   [b \in 0 .. 9 |-> IF b \in {3, 7} THEN {b - 2} ELSE {b % 8, (b * 3 + 1) % 8}]}
MCWide == <<Field("head", 8), Field("blob", 72)>>
MCMac == <<Field("ig_bit", 1), Field("ul_bit", 1), Field("mac_rest", 46)>>
MCLength == <<Field("head", 8), Field("length", 24)>>
MCLongFormats == {MCWide, MCMac, MCLength}
=============================================================================
