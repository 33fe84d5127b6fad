------------------------ MODULE ConstexprTwinsProofs ------------------------
(***************************************************************************)
(* The compile-time classes follow the run-time ones, for every buffer     *)
(* size, both wire orders, all formats, values and widths, those that wrap *)
(* std::size_t included.                                                   *)
(*                                                                         *)
(* The literal loops of one bit per iteration are compared with the        *)
(* comprehensions of BitWire by induction on the iterations.  A serialize  *)
(* or deserialize of a compile-time object is one step and its twin a      *)
(* loop: while that runs, the object is where the first one was, or will   *)
(* be, after all of its fields, and the twin is where it was after some.   *)
(***************************************************************************)
EXTENDS ConstexprTwins, BitSessionProofs

\* What the assumptions say of the numbers of both classes.
LEMMA Numbers ==
  /\ Order \in Orders
  /\ BufSize \in Nat /\ SizeMod \in Nat /\ 8 * BufSize + 64 < SizeMod
  /\ Widths \subseteq 0 .. SizeMod - 1
  /\ \A f \in Formats :
       f \in Seq(FieldDef) /\ total_bits(f) \in Nat /\ 8 * BufSize + total_bits(f) < SizeMod
<1>1. /\ Order \in Orders
      /\ BufSize \in Nat /\ SizeMod \in Nat /\ 8 * BufSize + 64 < SizeMod
      /\ Widths \subseteq 0 .. SizeMod - 1
      /\ \A f \in Formats : f \in Seq(FieldDef)
  BY Assumptions DEF RP!ReaderAssumption, RP!Cap, RP!Orders, Orders, RP!FieldDef, FieldDef
<1>2. \A f \in Formats : 8 * BufSize + total_bits(f) < SizeMod
  BY Assumptions, SameFormat DEF RP!FormatsFit, RP!Cap
<1> QED
  BY <1>1, <1>2, TotalBits

\* The compile-time classes address bits as the run-time ones do.
LEMMA SameBits ==
  ASSUME NEW p, NEW n, NEW i, NEW bytes
  PROVE  /\ C!byte_idx(p) = byte_idx(p)
         /\ C!bit_idx(Order, p) = bit_idx(Order, p)
         /\ C!value_bit(Order, n, i) = value_bit(Order, n, i)
         /\ C!IsSet(Order, bytes, p) = IsSet(Order, bytes, p)
BY DEF C!byte_idx, byte_idx, C!bit_idx, bit_idx, C!value_bit, value_bit, C!IsSet, IsSet

\* They take formats apart as the run-time ones do.
LEMMA SameFields ==
  ASSUME NEW f, NEW name
  PROVE  /\ C!total_bits(f) = total_bits(f)
         /\ C!is_padding_field(name) = is_padding_field(name)
BY DEF C!total_bits, total_bits, C!FieldOffsets, FieldOffsets,
       C!is_padding_field, is_padding_field

-----------------------------------------------------------------------------
(* The loops of the compile-time classes.                                  *)

\* What fits std::size_t is checked for what it is.
LEMMA FitsPlain ==
  ASSUME NEW pos \in 0 .. 8 * BufSize, NEW n \in Nat, 8 * BufSize + n < SizeMod
  PROVE  C!Fits(pos, n) <=> pos + n <= 8 * BufSize
BY Numbers, ModSmall DEF C!Fits

\* A check that a wrapped sum passes still leaves the cursor in the buffer.
LEMMA FitsWrapped ==
  ASSUME NEW pos \in 0 .. 8 * BufSize, NEW n \in Nat, C!Fits(pos, n)
  PROVE  (pos + n) % SizeMod \in 0 .. 8 * BufSize
BY Numbers, ModType DEF C!Fits

Objects == [buffer : Buffers(BufSize), pos : 0 .. 8 * BufSize, ok : BOOLEAN]

\* write_bits one bit at a time is PutBits.
LEMMA WriteLoopIs ==
  ASSUME NEW w \in Objects, NEW n \in Nat, NEW value
  PROVE  C!WriteLoop(w, n, value) =
           [buffer |-> PutBits(Order, w.buffer, w.pos, n, value), pos |-> w.pos + n, ok |-> w.ok]
<1>1. w \in Writers(BufSize)
  BY Numbers DEF Objects, Writers
<1>2. C!WriteLoop(w, n, value) = BitLoop(Order, w, n, value)
  BY DEF C!WriteLoop, BitLoop, C!SetBit, WithBit, C!byte_idx, byte_idx, C!bit_idx, bit_idx,
         C!value_bit, value_bit
<1> QED
  BY <1>1, <1>2, Numbers, BitLoopIs

\* What write_bits makes of a writer.
LEMMA WriteBitsIs ==
  ASSUME NEW w \in Objects, NEW n \in Nat, NEW value
  PROVE  LET can == n \in 1 .. 64 /\ C!Fits(w.pos, n)
             t == C!write_bits(w, n, value)
         IN  /\ t \in Objects
             /\ t.ok <=> can
             /\ can => t.buffer = PutBits(Order, w.buffer, w.pos, n, value) /\ t.pos = w.pos + n
             /\ ~can => t.buffer = w.buffer /\ t.pos = w.pos
<1> DEFINE can == n \in 1 .. 64 /\ C!Fits(w.pos, n)
           t == C!write_bits(w, n, value)
<1>1. CASE can
  <2> DEFINE v == [w EXCEPT !.ok = TRUE]
  <2>1. v \in Objects /\ v.buffer = w.buffer /\ v.pos = w.pos /\ v.ok = TRUE
    BY DEF Objects
  <2>2. t = C!WriteLoop(v, n, value)
    BY <1>1 DEF C!write_bits
  <2> HIDE DEF t, v
  <2>3. t = [buffer |-> PutBits(Order, w.buffer, w.pos, n, value), pos |-> w.pos + n, ok |-> TRUE]
    BY <2>1, <2>2, WriteLoopIs
  <2>4. w.pos \in Nat /\ w.pos + n <= 8 * BufSize
    BY <1>1, FitsPlain, Numbers DEF Objects
  <2>5. PutBits(Order, w.buffer, w.pos, n, value) \in Buffers(BufSize)
    BY <2>4, Numbers, PutBitsType DEF Objects
  <2>6. w.pos + n \in 0 .. 8 * BufSize
    BY <2>4, Numbers
  <2> QED
    BY <1>1, <2>3, <2>5, <2>6 DEF Objects, t
<1>2. CASE ~can
  <2>1. t = [w EXCEPT !.ok = FALSE]
    BY <1>2 DEF C!write_bits
  <2> QED
    BY <1>2, <2>1 DEF Objects
<1> QED
  BY <1>1, <1>2

\* The writer after each field of serialize, as SerializeLoop goes through them.
SerializeSteps(w, format, vs) ==
  LET after[i \in 0 .. Len(format)] ==
        IF i = 0 THEN w
        ELSE LET s == after[i - 1]
             IN  IF s.ok THEN C!write_bits(s, format[i].bit_width, vs[i]) ELSE s
  IN  after

\* They are writers, and serialize ends at the last of them.
LEMMA SerializeStepsAre ==
  ASSUME NEW w \in Objects, NEW f \in Formats, NEW vs
  PROVE  LET st == SerializeSteps(w, f, vs)
         IN  /\ st \in [0 .. Len(f) -> Objects]
             /\ st[0] = w
             /\ \A i \in 1 .. Len(f) :
                  st[i] = IF st[i - 1].ok THEN C!write_bits(st[i - 1], f[i].bit_width, vs[i])
                          ELSE st[i - 1]
             /\ C!SerializeLoop(w, f, vs) = st[Len(f)]
<1> DEFINE N == Len(f)
           next(s, i) == IF s.ok THEN C!write_bits(s, f[i].bit_width, vs[i]) ELSE s
           step == [i \in 1 .. N |-> [s \in Objects |-> next(s, i)]]
           st[i \in 0 .. N] == IF i = 0 THEN w ELSE next(st[i - 1], i)
<1>1. SerializeSteps(w, f, vs) = st /\ C!SerializeLoop(w, f, vs) = st[N]
  BY DEF SerializeSteps, C!SerializeLoop
<1>2. N \in Nat /\ \A i \in 1 .. N : f[i].bit_width \in Nat
  BY Numbers, FieldTypes
<1>3. \A i \in 1 .. N : \A s \in Objects : next(s, i) \in Objects
  BY <1>2, WriteBitsIs
<1> HIDE DEF next, N
<1>4. N \in Nat /\ w \in Objects /\ step \in [1 .. N -> [Objects -> Objects]]
  BY <1>2, <1>3
<1>5. \A i \in 1 .. N : \A s \in Objects : step[i][s] = next(s, i)
  OBVIOUS
<1> HIDE DEF step
<1>6. PICK g \in [0 .. N -> Objects] : g[0] = w /\ \A i \in 1 .. N : g[i] = step[i][g[i - 1]]
  <2> DEFINE S == Objects
             a == w
  <2>1. N \in Nat /\ a \in S /\ step \in [1 .. N -> [S -> S]]
    BY <1>4
  <2> HIDE DEF S, a
  <2>2. \E s \in [0 .. N -> S] : s[0] = a /\ \A i \in 1 .. N : s[i] = step[i][s[i - 1]]
    BY <2>1, Recursion
  <2> QED
    BY <2>2 DEF S, a
<1>7. \A i \in 0 .. N : g[i] = IF i = 0 THEN w ELSE next(g[i - 1], i)
  <2>1. \A i \in 1 .. N : g[i - 1] \in Objects
    BY <1>2
  <2> QED
    BY <1>5, <1>6, <2>1
<1>8. g = [i \in 0 .. N |-> IF i = 0 THEN w ELSE next(g[i - 1], i)]
  <2>1. g = [i \in 0 .. N |-> g[i]]
    OBVIOUS
  <2> QED
    BY <1>7, <2>1, Zenon
<1>9. st = [i \in 0 .. N |-> IF i = 0 THEN w ELSE next(st[i - 1], i)]
  BY <1>8, Zenon
<1> HIDE DEF st
<1>10. st[0] = w /\ \A i \in 1 .. N : st[i] = next(st[i - 1], i)
  BY <1>2, <1>9
<1>11. st[0] = g[0] /\ \A i \in 1 .. N : st[i - 1] = g[i - 1] => st[i] = g[i]
  BY <1>2, <1>6, <1>7, <1>10
<1>12. \A i \in 0 .. N : st[i] = g[i]
  BY <1>2, <1>11, SameRecursion
<1>13. st \in [0 .. N -> Objects]
  BY <1>9, <1>12
<1> QED
  BY <1>1, <1>10, <1>13 DEF next, N

-----------------------------------------------------------------------------
(* The two writers.                                                        *)

Agree == cw.buffer = buffer /\ cw.pos = wpos /\ (cw.ok <=> outcome = "ok")

\* The compile-time writer is through with a serialize when the other enters it:
\* until that one leaves, it is where the first was after so many fields.
WritersInv ==
  /\ cw \in Objects
  /\ W!Idle => Agree
  /\ ~W!Idle =>
       /\ outcome = "ok"
       /\ \E w0 \in Objects :
            LET st == SerializeSteps(w0, wcall.format, wcall.values)
                s == st[wcall.idx - 1]
            IN  /\ cw = st[Len(wcall.format)]
                /\ s.ok /\ s.buffer = buffer /\ s.pos = wpos

\* What the session invariant says of the writer.
LEMMA WriterTypes ==
  ASSUME SessionInv
  PROVE  /\ buffer \in Buffers(BufSize) /\ wpos \in 0 .. 8 * BufSize
         /\ ~W!Idle => /\ wcall.format \in Formats
                       /\ wcall.idx \in 1 .. Len(wcall.format) + 1
                       /\ Len(wcall.format) \in Nat
<1>1. WP!TypeOK /\ wpos <= 8 * BufSize
  BY DEF SessionInv, WP!Persistent, WP!Bounded, WP!InBounds, WP!Cap
<1>2. buffer \in Buffers(BufSize) /\ wpos \in 0 .. 8 * BufSize
  BY <1>1, Numbers DEF WP!TypeOK, WP!Buffers, Buffers, WP!Byte, Byte
<1>3. ASSUME ~W!Idle
      PROVE  /\ wcall.format \in Formats
             /\ wcall.idx \in 1 .. Len(wcall.format) + 1
             /\ Len(wcall.format) \in Nat
  <2>1. wcall \in WP!Calls
    BY <1>1, <1>3 DEF WP!TypeOK, WP!NoCall, W!Idle
  <2>2. wcall.format \in Formats /\ wcall.idx \in Nat \ {0} /\ wcall.idx <= Len(wcall.format) + 1
    BY <2>1 DEF WP!Calls
  <2> QED
    BY <2>2, Numbers, FieldTypes
<1> QED
  BY <1>2, <1>3

\* The checks of the two are the same.
LEMMA SameChecks ==
  ASSUME NEW n, NEW w, w.pos = wpos
  PROVE  /\ W!has_space(n) <=> C!Fits(w.pos, n)
         /\ W!CanWrite(n) <=> n \in 1 .. 64 /\ C!Fits(w.pos, n)
BY DEF W!has_space, W!CanWrite, C!Fits, W!Cap

\* One call of both writers keeps them together, and so does the loop of serialize.
LEMMA WriteBitsTwin ==
  ASSUME SessionInv, WritersInv, NEW n \in Nat, NEW v, W!WriteBits(n, v),
         cw' = C!write_bits(cw, n, v)
  PROVE  WritersInv'
<1>1. W!Idle /\ cw \in Objects /\ cw.buffer = buffer /\ cw.pos = wpos
  BY DEF WritersInv, Agree, W!WriteBits
<1>2. /\ cw' \in Objects
      /\ cw'.ok <=> W!CanWrite(n)
      /\ W!CanWrite(n) => cw'.buffer = PutBits(Order, buffer, wpos, n, v) /\ cw'.pos = wpos + n
      /\ ~W!CanWrite(n) => cw'.buffer = buffer /\ cw'.pos = wpos
  BY <1>1, WriteBitsIs, SameChecks
<1>3. CASE W!CanWrite(n) /\ W!PutField(n, v) /\ outcome' = "ok" /\ UNCHANGED wcall
  <2>1. buffer' = PutBits(Order, buffer, wpos, n, v) /\ wpos' = wpos + n
    BY <1>3 DEF W!PutField, W!PutBits, PutBits, W!byte_idx, byte_idx, W!value_bit, value_bit,
                W!bit_idx, bit_idx
  <2> QED
    BY <1>1, <1>2, <1>3, <2>1 DEF WritersInv, Agree, W!Idle
<1>4. CASE W!ThrowWrite(n)
  <2>1. ~W!CanWrite(n) /\ buffer' = buffer /\ wpos' = wpos /\ outcome' # "ok" /\ W!Idle'
    BY <1>4 DEF W!ThrowWrite, W!Throw, W!NoCall, W!Idle
  <2> QED
    BY <1>2, <2>1 DEF WritersInv, Agree
<1> QED
  BY <1>3, <1>4 DEF W!WriteBits

LEMMA SkipBitsTwin ==
  ASSUME SessionInv, WritersInv, NEW n \in Nat, W!SkipBits(n), cw' = C!skip_bits(cw, n)
  PROVE  WritersInv'
<1>1. W!Idle /\ cw \in Objects /\ cw.buffer = buffer /\ cw.pos = wpos /\ buffer \in Buffers(BufSize)
  BY WriterTypes DEF WritersInv, Agree, W!SkipBits
<1>2. CASE W!has_space(n)
  <2>1. /\ wpos' = (wpos + n) % SizeMod /\ outcome' = "ok"
        /\ buffer' = buffer /\ wcall' = wcall
    BY <1>2 DEF W!SkipBits
  <2>2. cw' = [cw EXCEPT !.pos = (cw.pos + n) % SizeMod, !.ok = TRUE] /\ C!Fits(cw.pos, n)
    BY <1>1, <1>2, SameChecks DEF C!skip_bits
  <2>3. wpos' \in 0 .. 8 * BufSize
    BY <1>1, <2>1, <2>2, FitsWrapped DEF Objects
  <2>4. cw' \in Objects /\ cw'.buffer = buffer /\ cw'.pos = wpos' /\ cw'.ok
    BY <1>1, <2>1, <2>2, <2>3 DEF Objects
  <2> QED
    BY <1>1, <2>1, <2>4 DEF WritersInv, Agree, W!Idle
<1>3. CASE ~W!has_space(n)
  <2>1. buffer' = buffer /\ wpos' = wpos /\ outcome' # "ok" /\ W!Idle'
    BY <1>3 DEF W!SkipBits, W!Throw, W!NoCall, W!Idle
  <2>2. cw' = [cw EXCEPT !.ok = FALSE]
    BY <1>1, <1>3, SameChecks DEF C!skip_bits
  <2>3. cw' \in Objects /\ cw'.buffer = buffer /\ cw'.pos = wpos /\ ~cw'.ok
    BY <1>1, <2>2 DEF Objects
  <2> QED
    BY <2>1, <2>3 DEF WritersInv, Agree
<1> QED
  BY <1>2, <1>3

LEMMA AlignToByteTwin ==
  ASSUME SessionInv, SessionInv', WritersInv, W!AlignToByte, cw' = C!align_to_byte(cw)
  PROVE  WritersInv'
<1>1. W!Idle /\ cw \in Objects /\ cw.buffer = buffer /\ cw.pos = wpos
  BY DEF WritersInv, Agree, W!AlignToByte
<1>2. wpos' \in 0 .. 8 * BufSize
  BY Numbers DEF SessionInv, WP!Persistent, WP!Bounded, WP!TypeOK, WP!InBounds, WP!Cap
<1>3. /\ wpos' = IF wpos % 8 # 0 THEN (C!byte_idx(wpos) + 1) * 8 ELSE wpos
      /\ buffer' = buffer /\ wcall' = wcall /\ outcome' = "ok"
  BY DEF W!AlignToByte, W!byte_idx, C!byte_idx
<1>4. cw' = [cw EXCEPT !.ok = TRUE, !.pos = wpos']
  BY <1>1, <1>3 DEF C!align_to_byte
<1>5. cw' \in Objects /\ cw'.buffer = buffer /\ cw'.pos = wpos' /\ cw'.ok
  BY <1>1, <1>2, <1>4 DEF Objects
<1> QED
  BY <1>1, <1>3, <1>5 DEF WritersInv, Agree, W!Idle

LEMMA SerializeTwin ==
  ASSUME SessionInv, WritersInv, NEW f \in Formats, NEW vs, W!Serialize(f, vs),
         cw' = C!serialize(cw, f, vs)
  PROVE  WritersInv'
<1> DEFINE total == total_bits(f)
<1>1. W!Idle /\ cw \in Objects /\ cw.buffer = buffer /\ cw.pos = wpos
  BY DEF WritersInv, Agree, W!Serialize
<1>2. W!total_bits(f) = total /\ C!total_bits(f) = total
  BY SameFields DEF W!total_bits, total_bits, W!FieldOffsets, FieldOffsets
<1>3. W!has_space(total) <=> C!Fits(cw.pos, total)
  BY <1>1, SameChecks
<1> HIDE DEF total
<1>4. CASE W!has_space(total)
  <2> DEFINE w0 == [cw EXCEPT !.ok = TRUE]
             st == SerializeSteps(w0, f, vs)
  <2>1. /\ wcall' = [format |-> f, values |-> vs, idx |-> 1] /\ outcome' = "ok"
        /\ buffer' = buffer /\ wpos' = wpos
    BY <1>2, <1>4 DEF W!Serialize
  <2>2. w0 \in Objects /\ w0.ok /\ w0.buffer = buffer /\ w0.pos = wpos
    BY <1>1 DEF Objects
  <2>3. cw' = C!SerializeLoop(w0, f, vs)
    BY <1>2, <1>3, <1>4 DEF C!serialize
  <2> HIDE DEF w0
  <2>4. st \in [0 .. Len(f) -> Objects] /\ st[0] = w0 /\ cw' = st[Len(f)]
    BY <2>2, <2>3, SerializeStepsAre
  <2>5. Len(f) \in 0 .. Len(f)
    BY Numbers, FieldTypes
  <2>6. ~W!Idle' /\ cw' \in Objects
    BY <2>1, <2>4, <2>5 DEF W!Idle
  <2>7. wcall'.format = f /\ wcall'.values = vs /\ wcall'.idx - 1 = 0
    BY <2>1
  <2> QED
    BY <2>1, <2>2, <2>4, <2>6, <2>7 DEF WritersInv
<1>5. CASE ~W!has_space(total)
  <2>1. buffer' = buffer /\ wpos' = wpos /\ outcome' # "ok" /\ W!Idle'
    BY <1>2, <1>5 DEF W!Serialize, W!Throw, W!NoCall, W!Idle
  <2>2. cw' = [cw EXCEPT !.ok = FALSE]
    BY <1>2, <1>3, <1>5 DEF C!serialize
  <2>3. cw' \in Objects /\ cw'.buffer = buffer /\ cw'.pos = wpos /\ ~cw'.ok
    BY <1>1, <2>2 DEF Objects
  <2> QED
    BY <2>1, <2>3 DEF WritersInv, Agree
<1> QED
  BY <1>4, <1>5

\* Once a field has failed, the loops of serialize and deserialize do nothing more.
LEMMA FailedStepsStay ==
  ASSUME NEW N \in Nat, NEW st, \A i \in 1 .. N : ~st[i - 1].ok => st[i] = st[i - 1],
         NEW k \in 1 .. N, ~st[k].ok
  PROVE  st[N] = st[k]
<1> DEFINE S == {i \in 0 .. N : i >= k => st[i] = st[k]}
<1>1. 0 \in S
  OBVIOUS
<1>2. ASSUME NEW i \in 0 .. N - 1, i \in S
      PROVE  i + 1 \in S
  <2>1. i + 1 \in 1 .. N /\ (i + 1) - 1 = i
    OBVIOUS
  <2>2. CASE i >= k
    BY <1>2, <2>1, <2>2
  <2>3. CASE i < k
    <3>1. i + 1 >= k => i + 1 = k
      BY <2>3
    <3> QED
      BY <2>1, <3>1
  <2> QED
    BY <2>2, <2>3
<1>3. 0 .. N \subseteq S
  <2> HIDE DEF S
  <2> QED
    BY <1>1, <1>2, UpTo
<1> QED
  BY <1>3

LEMMA SerializeStepTwin ==
  ASSUME SessionInv, WritersInv, W!Step, UNCHANGED cw
  PROVE  WritersInv'
<1> DEFINE f == wcall.format
           vs == wcall.values
           i == wcall.idx
           n == f[i].bit_width
<1>0. ~W!Idle /\ cw \in Objects /\ cw' = cw /\ outcome = "ok"
  <2>1. W!Step => ~W!Idle
    BY WriterTypes DEF W!Step, W!SerializeField, W!SerializeReturn, W!Idle
  <2> QED
    BY <2>1 DEF WritersInv
<1>1. f \in Formats /\ i \in 1 .. Len(f) + 1 /\ Len(f) \in Nat
  BY <1>0, WriterTypes
<1>2. PICK w0 \in Objects :
        LET st == SerializeSteps(w0, f, vs)
        IN  /\ cw = st[Len(f)]
            /\ st[i - 1].ok /\ st[i - 1].buffer = buffer /\ st[i - 1].pos = wpos
  BY <1>0 DEF WritersInv
<1> DEFINE st == SerializeSteps(w0, f, vs)
           s == st[i - 1]
<1>3. /\ st \in [0 .. Len(f) -> Objects]
      /\ \A k \in 1 .. Len(f) :
           st[k] = IF st[k - 1].ok THEN C!write_bits(st[k - 1], f[k].bit_width, vs[k])
                   ELSE st[k - 1]
  BY <1>1, SerializeStepsAre
<1>4. s \in Objects /\ s.ok /\ s.buffer = buffer /\ s.pos = wpos /\ cw = st[Len(f)]
  <2>1. i - 1 \in 0 .. Len(f)
    BY <1>1
  <2> QED
    BY <1>2, <1>3, <2>1
<1>5. CASE W!SerializeReturn
  <2>1. i - 1 = Len(f) /\ W!Idle' /\ buffer' = buffer /\ wpos' = wpos /\ outcome' = outcome
    BY <1>1, <1>5 DEF W!SerializeReturn, W!NoCall, W!Idle
  <2> QED
    BY <1>0, <1>4, <2>1 DEF WritersInv, Agree
<1>6. CASE W!SerializeField
  <2>1. i \in 1 .. Len(f) /\ n \in Nat
    BY <1>1, <1>6, Numbers, FieldTypes DEF W!SerializeField
  <2>2. st[i] = C!write_bits(s, n, vs[i]) /\ st[i] \in Objects
    BY <1>3, <1>4, <2>1
  <2> HIDE DEF s, n
  <2>3. /\ st[i].ok <=> W!CanWrite(n)
        /\ W!CanWrite(n) => /\ st[i].buffer = PutBits(Order, buffer, wpos, n, vs[i])
                            /\ st[i].pos = wpos + n
        /\ ~W!CanWrite(n) => st[i].buffer = buffer /\ st[i].pos = wpos
    <3> DEFINE v == vs[i]
               t == st[i]
    <3>1. W!CanWrite(n) <=> n \in 1 .. 64 /\ C!Fits(s.pos, n)
      BY <1>4, SameChecks
    <3>2. t = C!write_bits(s, n, v) /\ s \in Objects /\ n \in Nat
      BY <1>4, <2>1, <2>2
    <3>3. s.buffer = buffer /\ s.pos = wpos
      BY <1>4
    <3> HIDE DEF v, t
    <3>4. /\ t.ok <=> W!CanWrite(n)
          /\ W!CanWrite(n) => t.buffer = PutBits(Order, buffer, wpos, n, v) /\ t.pos = wpos + n
          /\ ~W!CanWrite(n) => t.buffer = buffer /\ t.pos = wpos
      BY <3>1, <3>2, <3>3, WriteBitsIs
    <3> QED
      BY <3>4 DEF v, t
  <2>4. CASE W!CanWrite(n) /\ W!PutField(n, vs[i]) /\ wcall' = [wcall EXCEPT !.idx = @ + 1]
             /\ UNCHANGED outcome
    <3>1. buffer' = PutBits(Order, buffer, wpos, n, vs[i]) /\ wpos' = wpos + n
      BY <2>4 DEF W!PutField, W!PutBits, PutBits, W!byte_idx, byte_idx, W!value_bit, value_bit,
                  W!bit_idx, bit_idx
    <3>2. wcall'.format = f /\ wcall'.values = vs /\ wcall'.idx - 1 = i /\ ~W!Idle'
      <4>1. wcall \in WP!Calls
        BY <1>0 DEF SessionInv, WP!Persistent, WP!Bounded, WP!TypeOK, WP!NoCall, W!Idle
      <4>2. wcall'.format = f /\ wcall'.values = vs /\ wcall'.idx = i + 1
        BY <2>4, <4>1 DEF WP!Calls
      <4> QED
        BY <2>1, <4>2 DEF W!Idle
    <3> QED
      BY <1>0, <1>4, <2>3, <2>4, <3>1, <3>2 DEF WritersInv
  <2>5. CASE W!ThrowWrite(n)
    <3>1. ~W!CanWrite(n) /\ buffer' = buffer /\ wpos' = wpos /\ outcome' # "ok" /\ W!Idle'
      BY <2>5 DEF W!ThrowWrite, W!Throw, W!NoCall, W!Idle
    <3>2. cw = st[i]
      <4>1. \A k \in 1 .. Len(f) : ~st[k - 1].ok => st[k] = st[k - 1]
        BY <1>3
      <4>2. ~st[i].ok
        BY <2>3, <3>1
      <4> HIDE DEF st, f, i
      <4>3. st[Len(f)] = st[i]
        BY <1>1, <2>1, <4>1, <4>2, FailedStepsStay
      <4> QED
        BY <1>4, <4>3
    <3> QED
      BY <1>0, <2>3, <3>1, <3>2 DEF WritersInv, Agree
  <2> QED
    BY <1>6, <2>4, <2>5 DEF W!SerializeField, n
<1> QED
  BY <1>5, <1>6 DEF W!Step

-----------------------------------------------------------------------------
(* The loops of the compile-time reader.                                   *)

\* Readers over some bytes and with some values.
Readers(B, V) == [buffer : B, pos : 0 .. 8 * BufSize, ok : BOOLEAN, values : V]

\* read_bits one bit at a time is GetBits.
LEMMA ReadLoopIs ==
  ASSUME NEW r, r.pos \in Nat, NEW n \in Nat
  PROVE  C!ReadLoop(r, n) = [pos |-> r.pos + n, value |-> GetBits(Order, r.buffer, r.pos, n)]
<1> DEFINE Js(i) == {k \in 0 .. i - 1 : IsSet(Order, r.buffer, r.pos + k)}
           Got(i) == {value_bit(Order, n, j) : j \in Js(i)}
           next(s, i) == [pos |-> s.pos + 1,
                          value |-> s.value \cup
                                      (IF C!IsSet(Order, r.buffer, s.pos)
                                         THEN {C!value_bit(Order, n, i - 1)} ELSE {})]
           closed == [i \in 0 .. n |-> [pos |-> r.pos + i, value |-> Got(i)]]
           first == [pos |-> r.pos, value |-> {}]
           after[i \in 0 .. n] == IF i = 0 THEN first ELSE next(after[i - 1], i)
<1>1. C!ReadLoop(r, n) = after[n]
  BY DEF C!ReadLoop
<1>2. ASSUME NEW i \in 1 .. n
      PROVE  Got(i) = Got(i - 1) \cup (IF IsSet(Order, r.buffer, r.pos + (i - 1))
                                         THEN {value_bit(Order, n, i - 1)} ELSE {})
  <2> DEFINE k == i - 1
  <2>1. Js(i) = IF IsSet(Order, r.buffer, r.pos + k) THEN Js(k) \cup {k} ELSE Js(k)
    <3>1. k \in Nat /\ 0 .. i - 1 = (0 .. k - 1) \cup {k}
      OBVIOUS
    <3> QED
      BY <3>1
  <2> HIDE DEF k, Js
  <2> QED
    BY <2>1 DEF k
<1>3. closed[0] = first
  <2>1. Got(0) = {} /\ r.pos + 0 = r.pos /\ 0 \in 0 .. n
    OBVIOUS
  <2> HIDE DEF Got
  <2> QED
    BY <2>1
<1>4. ASSUME NEW i \in 1 .. n
      PROVE  closed[i] = next(closed[i - 1], i)
  <2>1. i - 1 \in 0 .. n /\ i \in 0 .. n /\ r.pos + (i - 1) + 1 = r.pos + i
    OBVIOUS
  <2> HIDE DEF Got
  <2>2. /\ closed[i - 1].pos = r.pos + (i - 1) /\ closed[i - 1].value = Got(i - 1)
        /\ closed[i] = [pos |-> r.pos + i, value |-> Got(i)]
    BY <2>1
  <2>3. /\ C!IsSet(Order, r.buffer, r.pos + (i - 1)) = IsSet(Order, r.buffer, r.pos + (i - 1))
        /\ C!value_bit(Order, n, i - 1) = value_bit(Order, n, i - 1)
    BY SameBits
  <2> HIDE DEF closed
  <2> QED
    BY <1>2, <2>1, <2>2, <2>3
<1>5. closed = [i \in 0 .. n |-> IF i = 0 THEN first ELSE next(closed[i - 1], i)]
  <2>1. closed = [i \in 0 .. n |-> closed[i]]
    OBVIOUS
  <2> HIDE DEF closed, next, first
  <2>2. \A i \in 0 .. n : closed[i] = IF i = 0 THEN first ELSE next(closed[i - 1], i)
    BY <1>3, <1>4
  <2> QED
    BY <2>1, <2>2, Zenon
<1>6. after = [i \in 0 .. n |-> IF i = 0 THEN first ELSE next(after[i - 1], i)]
  <2> HIDE DEF closed, next, first
  <2> QED
    BY <1>5, Zenon
<1> HIDE DEF after, closed, next, first
<1>7. after[0] = closed[0] /\ \A i \in 1 .. n : after[i - 1] = closed[i - 1] => after[i] = closed[i]
  BY <1>3, <1>4, <1>6
<1>8. after[n] = closed[n]
  <2>1. \A i \in 0 .. n : after[i] = closed[i]
    BY <1>7, SameRecursion
  <2> QED
    BY <2>1
<1>9. Got(n) = GetBits(Order, r.buffer, r.pos, n)
  BY DEF GetBits
<1> HIDE DEF Got
<1> QED
  BY <1>1, <1>8, <1>9 DEF closed

\* What read_bits makes of a reader.
ReadResult(B, r, n, t) ==
  /\ t \in Readers(B, Seq(Word))
  /\ t.ok <=> C!CanRead(r, n)
  /\ t.buffer = r.buffer
  /\ C!CanRead(r, n) =>
       /\ t.pos = r.pos + n /\ n \in 1 .. 64 /\ r.pos + n \in 0 .. 8 * BufSize
       /\ t.values = <<GetBits(Order, r.buffer, r.pos, n)>>
       /\ GetBits(Order, r.buffer, r.pos, n) \in Word
  /\ ~C!CanRead(r, n) => t.pos = r.pos

LEMMA ReadBitsIs ==
  ASSUME NEW B, B \subseteq Buffers(BufSize), NEW r \in Readers(B, Seq(Word)), NEW n \in Nat
  PROVE  ReadResult(B, r, n, C!read_bits(r, n))
<1> DEFINE t == C!read_bits(r, n)
           can == C!CanRead(r, n)
           value == GetBits(Order, r.buffer, r.pos, n)
<1>1. CASE can
  <2>1. r.pos \in Nat /\ n \in 1 .. 64 /\ r.pos + n \in 0 .. 8 * BufSize
    BY <1>1, FitsPlain, Numbers DEF Readers, C!CanRead
  <2>2. value \in Word
    <3>1. value \in SUBSET (0 .. n - 1)
      BY <2>1, Numbers, GetBitsType
    <3>2. 0 .. n - 1 \subseteq 0 .. 63
      BY <2>1
    <3> QED
      BY <3>1, <3>2 DEF Word
  <2>3. C!ReadLoop(r, n) = [pos |-> r.pos + n, value |-> value]
    BY <2>1, ReadLoopIs
  <2> HIDE DEF value
  <2>4. t = [r EXCEPT !.pos = r.pos + n, !.ok = TRUE, !.values = <<value>>]
    BY <1>1, <2>3 DEF C!read_bits
  <2>5. <<value>> \in Seq(Word)
    BY <2>2
  <2> QED
    BY <1>1, <2>1, <2>2, <2>4, <2>5 DEF Readers, value, ReadResult
<1>2. CASE ~can
  <2>1. t = [r EXCEPT !.ok = FALSE, !.values = <<>>] /\ <<>> \in Seq(Word)
    BY <1>2 DEF C!read_bits
  <2> QED
    BY <1>2, <2>1 DEF Readers, ReadResult
<1> QED
  BY <1>1, <1>2

\* What skip_bits makes of a reader.
LEMMA SkipBitsIs ==
  ASSUME NEW B, NEW V, NEW r \in Readers(B, V), NEW n \in Nat
  PROVE  LET t == C!skip_bits(r, n)
             can == C!Fits(r.pos, n)
         IN  /\ t \in Readers(B, V)
             /\ t.ok <=> can
             /\ t.buffer = r.buffer /\ t.values = r.values
             /\ t.pos = IF can THEN (r.pos + n) % SizeMod ELSE r.pos
<1>1. C!Fits(r.pos, n) => (r.pos + n) % SizeMod \in 0 .. 8 * BufSize
  BY FitsWrapped DEF Readers
<1> QED
  BY <1>1 DEF Readers, C!skip_bits

\* Whether the loop of deserialize can take a field, and the value it takes.
CanParse(r, field) ==
  IF is_padding_field(field.name) THEN C!Fits(r.pos, field.bit_width)
  ELSE C!CanRead(r, field.bit_width)
Parsed(r, field) ==
  IF is_padding_field(field.name) THEN {}
  ELSE GetBits(Order, r.buffer, r.pos, field.bit_width)
Assigned(values, i, value) == [values EXCEPT ![i] = value]

\* What the loop makes of a reader at field i.
LEMMA ParseFieldIs ==
  ASSUME NEW B, B \subseteq Buffers(BufSize), NEW N \in Nat,
         NEW r \in Readers(B, [1 .. N -> Word]), NEW field, NEW i \in 1 .. N,
         field.bit_width \in Nat, 8 * BufSize + field.bit_width < SizeMod
  PROVE  /\ C!ParseField(r, field, i) \in Readers(B, [1 .. N -> Word])
         /\ C!ParseField(r, field, i).ok <=> CanParse(r, field)
         /\ C!ParseField(r, field, i).buffer = r.buffer
         /\ CanParse(r, field) =>
              /\ C!ParseField(r, field, i).pos = r.pos + field.bit_width
              /\ C!ParseField(r, field, i).values = Assigned(r.values, i, Parsed(r, field))
         /\ ~CanParse(r, field) =>
              /\ C!ParseField(r, field, i).pos = r.pos
              /\ C!ParseField(r, field, i).values = r.values
<1> DEFINE n == field.bit_width
           padding == is_padding_field(field.name)
           can == IF padding THEN C!Fits(r.pos, n) ELSE C!CanRead(r, n)
           value == IF padding THEN {} ELSE GetBits(Order, r.buffer, r.pos, n)
           t == C!ParseField(r, field, i)
           next == IF padding THEN C!skip_bits(r, n) ELSE C!read_bits(r, n)
           taken == IF padding THEN {} ELSE next.values[1]
           values == IF next.ok THEN [r.values EXCEPT ![i] = taken] ELSE r.values
<1>1. t = [next EXCEPT !.values = values]
  BY SameFields DEF C!ParseField
<1>2. /\ \E V : next \in Readers(B, V)
      /\ next.ok <=> can
      /\ next.buffer = r.buffer
      /\ next.pos = IF can THEN r.pos + n ELSE r.pos
      /\ can => taken = value /\ value \in Word
  <2>1. CASE padding
    <3>1. /\ next \in Readers(B, [1 .. N -> Word])
          /\ next.ok <=> can
          /\ next.buffer = r.buffer
          /\ next.pos = IF can THEN (r.pos + n) % SizeMod ELSE r.pos
      BY <2>1, SkipBitsIs
    <3>2. (r.pos + n) % SizeMod = r.pos + n
      <4>1. r.pos + n \in Nat /\ r.pos + n < SizeMod /\ SizeMod \in Nat
        BY Numbers DEF Readers
      <4> QED
        BY <4>1, ModSmall
    <3>3. taken = {} /\ value = {} /\ {} \in Word
      BY <2>1 DEF Word
    <3> QED
      BY <3>1, <3>2, <3>3
  <2>2. CASE ~padding
    <3>1. next = C!read_bits(r, n) /\ (can <=> C!CanRead(r, n)) /\ taken = next.values[1]
          /\ value = GetBits(Order, r.buffer, r.pos, n)
      BY <2>2
    <3>0. r \in Readers(B, Seq(Word)) /\ n \in Nat
      <4>1. r.values \in Seq(Word)
        <5>1. r.values \in [1 .. N -> Word]
          BY DEF Readers
        <5> QED
          BY <5>1
      <4> QED
        BY <4>1 DEF Readers
    <3> HIDE DEF next, can, taken, value, n
    <3>2. ReadResult(B, r, n, C!read_bits(r, n))
      BY <3>0, ReadBitsIs
    <3> QED
      BY <3>1, <3>2 DEF ReadResult
  <2> QED
    BY <2>1, <2>2
<1> HIDE DEF t, next, can, value, taken, n
<1>3. r.values \in [1 .. N -> Word]
  BY DEF Readers
<1>4. values \in [1 .. N -> Word]
  BY <1>2, <1>3
<1> HIDE DEF values
<1>5. /\ t \in Readers(B, [1 .. N -> Word])
      /\ t.values = values /\ t.ok = next.ok /\ t.buffer = next.buffer /\ t.pos = next.pos
  BY <1>1, <1>2, <1>4 DEF Readers
<1> QED
  BY <1>2, <1>5 DEF values, n, can, value, t, CanParse, Parsed, Assigned

\* A reader that hands out a packet of zeros.
Zeros(r, format, ok) == [r EXCEPT !.ok = ok, !.values = [i \in 1 .. Len(format) |-> {}]]

\* The reader after each field of deserialize.
DeserializeSteps(r, format) ==
  LET zeros == [i \in 1 .. Len(format) |-> {}]
      after[i \in 0 .. Len(format)] ==
        IF i = 0 THEN [r EXCEPT !.ok = TRUE, !.values = zeros]
        ELSE IF after[i - 1].ok THEN C!ParseField(after[i - 1], format[i], i)
        ELSE after[i - 1]
  IN  after

\* No field of a format is wider than the format.
LEMMA FieldWidths ==
  ASSUME NEW f \in Formats, NEW i \in 1 .. Len(f)
  PROVE  f[i].bit_width \in Nat /\ 8 * BufSize + f[i].bit_width < SizeMod
<1>1. Len(f) \in Nat /\ f \in Seq(FieldDef) /\ f[i].bit_width \in Nat
  BY Numbers, FieldTypes
<1>2. i \in 0 .. Len(f) /\ i - 1 \in 0 .. Len(f)
  BY <1>1
<1>3. /\ FieldOffsets(f)[i] = FieldOffsets(f)[i - 1] + f[i].bit_width
      /\ FieldOffsets(f)[i - 1] \in Nat /\ FieldOffsets(f)[i] \in Nat
      /\ FieldOffsets(f)[i] <= total_bits(f)
  BY <1>1, <1>2, Offsets, TotalBits
<1>4. f[i].bit_width <= total_bits(f)
  <2> DEFINE a == FieldOffsets(f)[i - 1]
             b == FieldOffsets(f)[i]
             n == f[i].bit_width
             m == total_bits(f)
  <2>1. a \in Nat /\ b \in Nat /\ n \in Nat /\ m \in Nat /\ b = a + n /\ b <= m
    BY <1>1, <1>3, Numbers
  <2> HIDE DEF a, b, n, m
  <2>2. n <= m
    BY <2>1
  <2> QED
    BY <2>2 DEF n, m
<1> QED
  BY <1>1, <1>4, Numbers

\* They are readers, and deserialize ends at the last of them.
LEMMA DeserializeStepsAre ==
  ASSUME NEW B, B \subseteq Buffers(BufSize), NEW r \in Readers(B, Seq(Word)), NEW f \in Formats
  PROVE  LET st == DeserializeSteps(r, f)
         IN  /\ st \in [0 .. Len(f) -> Readers(B, [1 .. Len(f) -> Word])]
             /\ st[0] = Zeros(r, f, TRUE)
             /\ \A i \in 1 .. Len(f) :
                  st[i] = IF st[i - 1].ok THEN C!ParseField(st[i - 1], f[i], i) ELSE st[i - 1]
             /\ C!deserialize(r, f) =
                  IF C!Fits(r.pos, total_bits(f)) THEN st[Len(f)] ELSE Zeros(r, f, FALSE)
<1> DEFINE N == Len(f)
           S == Readers(B, [1 .. N -> Word])
           start == Zeros(r, f, TRUE)
           next(s, i) == IF s.ok THEN C!ParseField(s, f[i], i) ELSE s
           step == [i \in 1 .. N |-> [s \in S |-> next(s, i)]]
           st[i \in 0 .. N] == IF i = 0 THEN start ELSE next(st[i - 1], i)
<1>1. /\ DeserializeSteps(r, f) = st
      /\ C!deserialize(r, f) =
           IF C!Fits(r.pos, total_bits(f)) THEN st[N] ELSE Zeros(r, f, FALSE)
  BY SameFields DEF DeserializeSteps, C!deserialize, Zeros
<1>2. N \in Nat
  BY Numbers, FieldTypes
<1>3. start \in S
  <2>1. [i \in 1 .. N |-> {}] \in [1 .. N -> Word]
    BY DEF Word
  <2> QED
    BY <2>1 DEF Readers, Zeros
<1>4. \A i \in 1 .. N : \A s \in S : next(s, i) \in S
  <2> SUFFICES ASSUME NEW i \in 1 .. N, NEW s \in S
               PROVE  C!ParseField(s, f[i], i) \in S
    OBVIOUS
  <2>1. f[i].bit_width \in Nat /\ 8 * BufSize + f[i].bit_width < SizeMod
    BY FieldWidths
  <2> HIDE DEF N
  <2> QED
    BY <1>2, <2>1, ParseFieldIs
<1> HIDE DEF next, N, S, start
<1>5. N \in Nat /\ start \in S /\ step \in [1 .. N -> [S -> S]]
  BY <1>2, <1>3, <1>4
<1>6. \A i \in 1 .. N : \A s \in S : step[i][s] = next(s, i)
  OBVIOUS
<1> HIDE DEF step
<1>7. PICK g \in [0 .. N -> S] : g[0] = start /\ \A i \in 1 .. N : g[i] = step[i][g[i - 1]]
  BY <1>5, Recursion
<1>8. \A i \in 0 .. N : g[i] = IF i = 0 THEN start ELSE next(g[i - 1], i)
  <2>1. \A i \in 1 .. N : g[i - 1] \in S
    BY <1>2
  <2> QED
    BY <1>6, <1>7, <2>1
<1>9. g = [i \in 0 .. N |-> IF i = 0 THEN start ELSE next(g[i - 1], i)]
  <2>1. g = [i \in 0 .. N |-> g[i]]
    OBVIOUS
  <2> QED
    BY <1>8, <2>1, Zenon
<1>10. st = [i \in 0 .. N |-> IF i = 0 THEN start ELSE next(st[i - 1], i)]
  BY <1>9, Zenon
<1> HIDE DEF st
<1>11. st[0] = start /\ \A i \in 1 .. N : st[i] = next(st[i - 1], i)
  BY <1>2, <1>10
<1>12. st[0] = g[0] /\ \A i \in 1 .. N : st[i - 1] = g[i - 1] => st[i] = g[i]
  BY <1>2, <1>7, <1>8, <1>11
<1>13. \A i \in 0 .. N : st[i] = g[i]
  BY <1>2, <1>12, SameRecursion, ZenonT(60)
<1>14. st \in [0 .. N -> S]
  BY <1>10, <1>13
<1> QED
  BY <1>1, <1>11, <1>14 DEF next, N, S, start

-----------------------------------------------------------------------------
(* The two readers.                                                        *)

\* Values that a loop has taken, and zeros for the fields it has not come to.
Taken(values, N) == [i \in 1 .. N |-> IF i <= Len(values) THEN values[i] ELSE {}]

\* The compile-time reader is through with a deserialize when the other enters it:
\* until that one leaves, it is where the first was after so many fields.
InParse ==
  /\ rcall.types \in {<<>>, Words64(rcall.format)}
  /\ \E r0 \in Readers({buffer}, Seq(Word)) :
       LET st == DeserializeSteps(r0, rcall.format)
           s == st[Len(rcall.values)]
       IN  /\ cr = st[Len(rcall.format)]
           /\ s.ok /\ s.pos = rpos
           /\ s.values = Taken(rcall.values, Len(rcall.format))

ReadersInv ==
  /\ cr \in Readers(Buffers(BufSize), Seq(Word))
  /\ cr.buffer = buffer
  /\ R!Idle => cr.pos = rpos
  /\ ~R!Idle => InParse
  /\ R!Idle /\ last.c.op # "none" => SameResult

\* What the session invariant says of the reader.
LEMMA ReaderTypes ==
  ASSUME SessionInv
  PROVE  /\ buffer \in Buffers(BufSize) /\ rpos \in 0 .. 8 * BufSize
         /\ ~R!Idle =>
              LET k == Len(rcall.values)
                  f == rcall.format
                  n == f[k + 1].bit_width
              IN  /\ rcall \in RP!Frames
                  /\ rcall.op \in {"deserialize", "deserialize_into"}
                  /\ f \in Formats /\ Len(f) \in Nat
                  /\ k \in 0 .. Len(f) /\ rcall.values \in Seq(Word)
                  /\ k # Len(f) => n \in Nat /\ rpos + n <= 8 * BufSize
<1>1. RP!Core /\ RP!Typed /\ RP!TypeOK /\ rpos <= 8 * BufSize
  BY DEF SessionInv, RP!Core, RP!Typed, RP!InBounds, RP!Cap
<1>2. buffer \in Buffers(BufSize) /\ rpos \in 0 .. 8 * BufSize
  BY <1>1, Numbers DEF RP!TypeOK
<1>3. ASSUME ~R!Idle
      PROVE  LET k == Len(rcall.values)
                 f == rcall.format
                 n == f[k + 1].bit_width
             IN  /\ rcall \in RP!Frames
                 /\ rcall.op \in {"deserialize", "deserialize_into"}
                 /\ f \in Formats /\ Len(f) \in Nat
                 /\ k \in 0 .. Len(f) /\ rcall.values \in Seq(Word)
                 /\ k # Len(f) => n \in Nat /\ rpos + n <= 8 * BufSize
  <2> DEFINE k == Len(rcall.values)
             f == rcall.format
             n == f[k + 1].bit_width
  <2>1. ~RP!Idle
    BY <1>3 DEF R!Idle, RP!Idle
  <2>2. /\ rcall.op \in {"deserialize", "deserialize_into"}
        /\ f \in Formats /\ Len(f) \in Nat /\ k \in Nat /\ rcall.values \in Seq(RP!Word)
        /\ k + 1 \in 1 .. Len(f) + 1
        /\ k + 1 <= Len(f) => n \in Nat /\ rpos + n <= 8 * BufSize
    BY <1>1, <2>1, Assumptions, RP!InLoop DEF RP!NextIdx, RP!Cap
  <2>3. rcall \in RP!Frames
    BY <1>1 DEF RP!TypeOK
  <2>4. Seq(RP!Word) = Seq(Word)
    BY DEF RP!Word, Word
  <2> HIDE DEF n, f, k
  <2>5. k \in 0 .. Len(f) /\ (k # Len(f) => k + 1 <= Len(f))
    BY <2>2
  <2> QED
    BY <2>2, <2>3, <2>4, <2>5 DEF n, f, k
<1> QED
  BY <1>2, <1>3

\* The checks of the two, and the bits they read, are the same.
LEMMA SameReads ==
  ASSUME NEW n, NEW r, r.pos = rpos, r.buffer = buffer
  PROVE  /\ R!has_bits(n) <=> C!Fits(r.pos, n)
         /\ R!CanReadAt(rpos, n) <=> C!CanRead(r, n)
         /\ R!GetBits(Order, buffer, rpos, n) = GetBits(Order, r.buffer, r.pos, n)
BY DEF R!has_bits, R!HasBitsAt, R!CanReadAt, C!CanRead, C!Fits, R!Cap, R!GetBits, GetBits,
       R!value_bit, value_bit, R!IsSet, IsSet, R!bit_idx, bit_idx, R!byte_idx, byte_idx

\* A call that is one action, answered by the other with the same.
LEMMA AnswerTwin ==
  ASSUME R!Idle, NEW c, NEW pos, NEW status, NEW value, R!EndAt(c, pos, status, value),
         c.op \notin {"deserialize", "deserialize_into"},
         cr' \in Readers(Buffers(BufSize), Seq(Word)), cr'.buffer = buffer, cr'.pos = pos,
         cr'.ok <=> status = "ok",
         c.op = "read_bits" /\ cr'.ok => cr'.values = <<value>>
  PROVE  ReadersInv'
<1>1. /\ rpos' = pos /\ buffer' = buffer /\ rcall' = rcall
      /\ last' = [c |-> c, from |-> rpos, status |-> status, value |-> value]
  BY DEF R!EndAt, R!Result
<1>2. R!Idle'
  BY <1>1 DEF R!Idle
<1>3. SameResult'
  BY <1>1 DEF SameResult
<1> QED
  BY <1>1, <1>2, <1>3 DEF ReadersInv

LEMMA NumCallOp ==
  ASSUME NEW op, NEW n
  PROVE  R!NumCall(op, n).op = op
BY DEF R!NumCall, R!NoCall

LEMMA ResetTwin ==
  ASSUME SessionInv, ReadersInv, R!reset, cr' = C!reset(cr)
  PROVE  ReadersInv'
<1>1. cr \in Readers(Buffers(BufSize), Seq(Word)) /\ cr.buffer = buffer
  BY DEF ReadersInv
<1>2. /\ cr' \in Readers(Buffers(BufSize), Seq(Word)) /\ cr'.buffer = buffer
      /\ cr'.pos = 0 /\ cr'.ok
  <2>1. 0 \in 0 .. 8 * BufSize
    BY Numbers
  <2> QED
    BY <1>1, <2>1 DEF C!reset, Readers
<1>3. R!NumCall("reset", 0).op = "reset"
  BY NumCallOp
<1> QED
  BY <1>2, <1>3, AnswerTwin DEF R!reset

LEMMA ReadBitsTwin ==
  ASSUME SessionInv, ReadersInv, NEW n \in Nat, R!ReadBits(n), cr' = C!read_bits(cr, n)
  PROVE  ReadersInv'
<1> DEFINE c == R!NumCall("read_bits", n)
           value == GetBits(Order, buffer, rpos, n)
           t == C!read_bits(cr, n)
<1>1. /\ R!Idle /\ cr \in Readers(Buffers(BufSize), Seq(Word))
      /\ cr.buffer = buffer /\ cr.pos = rpos
  BY DEF ReadersInv, R!ReadBits
<1>2. c.op = "read_bits"
  BY NumCallOp
<1>3. (R!CanReadAt(rpos, n) <=> C!CanRead(cr, n)) /\ R!GetBits(Order, buffer, rpos, n) = value
  BY <1>1, SameReads
<1>0. ReadResult(Buffers(BufSize), cr, n, t)
  BY <1>1, ReadBitsIs
<1>4. /\ t \in Readers(Buffers(BufSize), Seq(Word)) /\ t.buffer = buffer
      /\ t.ok <=> R!CanReadAt(rpos, n)
  BY <1>1, <1>3, <1>0 DEF ReadResult
<1>5. R!CanReadAt(rpos, n) => t.pos = rpos + n /\ t.values = <<value>>
  BY <1>1, <1>3, <1>0 DEF ReadResult
<1>6. ~R!CanReadAt(rpos, n) => t.pos = rpos
  BY <1>1, <1>3, <1>0 DEF ReadResult
<1> HIDE DEF c, t, value
<1>7. CASE R!CanReadAt(rpos, n) /\ R!EndAt(c, rpos + n, "ok", value)
  BY <1>1, <1>2, <1>4, <1>5, <1>7, AnswerTwin DEF t
<1>8. CASE ~R!CanReadAt(rpos, n) /\ R!EndAt(c, rpos, R!ReadError(n), {})
  <2>1. R!ReadError(n) # "ok"
    BY DEF R!ReadError
  <2> QED
    BY <1>1, <1>2, <1>4, <1>6, <1>8, <2>1, AnswerTwin DEF t
<1> QED
  BY <1>3, <1>7, <1>8 DEF R!ReadBits, R!ReadAt, c

LEMMA ReaderSkipTwin ==
  ASSUME SessionInv, ReadersInv, NEW n \in Nat, R!SkipBits(n), cr' = C!skip_bits(cr, n)
  PROVE  ReadersInv'
<1> DEFINE c == R!NumCall("skip_bits", n)
<1>1. /\ R!Idle /\ cr \in Readers(Buffers(BufSize), Seq(Word))
      /\ cr.buffer = buffer /\ cr.pos = rpos
  BY DEF ReadersInv, R!SkipBits
<1>2. c.op = "skip_bits"
  BY NumCallOp
<1>3. R!has_bits(n) <=> C!Fits(cr.pos, n)
  BY <1>1, SameReads
<1>4. /\ cr' \in Readers(Buffers(BufSize), Seq(Word)) /\ cr'.buffer = buffer
      /\ cr'.ok <=> R!has_bits(n)
      /\ cr'.pos = IF R!has_bits(n) THEN (rpos + n) % SizeMod ELSE rpos
  BY <1>1, <1>3, SkipBitsIs
<1> HIDE DEF c
<1>5. CASE ~R!has_bits(n) /\ R!EndAt(c, rpos, "out_of_range", {})
  BY <1>1, <1>2, <1>4, <1>5, AnswerTwin
<1>6. CASE R!has_bits(n) /\ R!EndAt(c, (rpos + n) % SizeMod, "ok", {})
  BY <1>1, <1>2, <1>4, <1>6, AnswerTwin
<1> QED
  BY <1>5, <1>6 DEF R!SkipBits, R!Throw, c

LEMMA ReaderAlignTwin ==
  ASSUME SessionInv, SessionInv', ReadersInv, R!AlignToByte, cr' = C!align_to_byte(cr)
  PROVE  ReadersInv'
<1> DEFINE c == R!NumCall("align_to_byte", 0)
           pos == IF rpos % 8 # 0 THEN (R!byte_idx(rpos) + 1) * 8 ELSE rpos
<1>1. /\ R!Idle /\ cr \in Readers(Buffers(BufSize), Seq(Word))
      /\ cr.buffer = buffer /\ cr.pos = rpos
  BY DEF ReadersInv, R!AlignToByte
<1>2. c.op = "align_to_byte"
  BY NumCallOp
<1>3. R!EndAt(c, pos, "ok", {}) /\ rpos' = pos
  BY DEF R!AlignToByte, R!EndAt
<1>4. pos \in 0 .. 8 * BufSize
  BY <1>3, Numbers DEF SessionInv, RP!Core, RP!Typed, RP!TypeOK, RP!InBounds, RP!Cap
<1>5. cr' = [cr EXCEPT !.ok = TRUE, !.pos = pos]
  BY <1>1 DEF C!align_to_byte, C!byte_idx, R!byte_idx
<1> HIDE DEF c, pos
<1>6. /\ cr' \in Readers(Buffers(BufSize), Seq(Word)) /\ cr'.buffer = buffer
      /\ cr'.pos = pos /\ cr'.ok
  BY <1>1, <1>4, <1>5 DEF Readers
<1> QED
  BY <1>1, <1>2, <1>3, <1>6, AnswerTwin

\* deserialize and deserialize_into, up to their loop.
LEMMA BeginTwin ==
  ASSUME SessionInv, ReadersInv, NEW op \in {"deserialize", "deserialize_into"},
         NEW f \in Formats, NEW types \in {<<>>, Words64(f)},
         R!Begin(op, f, types), cr' = C!deserialize(cr, f)
  PROVE  ReadersInv'
<1> DEFINE total == total_bits(f)
           c == R!FieldCall(op, f, "")
           zeros == [i \in 1 .. Len(f) |-> {}]
           st == DeserializeSteps(cr, f)
<1>1. /\ R!Idle /\ cr \in Readers(Buffers(BufSize), Seq(Word))
      /\ cr.buffer = buffer /\ cr.pos = rpos
  BY DEF ReadersInv, R!Begin
<1>2. R!total_bits(f) = total
  BY DEF R!total_bits, total_bits, R!FieldOffsets, FieldOffsets
<1>3. R!has_bits(total) <=> C!Fits(cr.pos, total)
  BY <1>1, SameReads
<1>4. c.op = op /\ c.format = f
  BY DEF R!FieldCall, R!NoCall
<1>5. {buffer} \subseteq Buffers(BufSize) /\ cr \in Readers({buffer}, Seq(Word))
  BY <1>1 DEF Readers
<1>6. /\ st \in [0 .. Len(f) -> Readers({buffer}, [1 .. Len(f) -> Word])]
      /\ st[0] = Zeros(cr, f, TRUE)
  BY <1>5, DeserializeStepsAre
<1>7. cr' = IF C!Fits(cr.pos, total) THEN st[Len(f)] ELSE Zeros(cr, f, FALSE)
  BY <1>5, DeserializeStepsAre
<1>8. Len(f) \in Nat /\ zeros \in Seq(Word) /\ [1 .. Len(f) -> Word] \subseteq Seq(Word)
  <2>1. Len(f) \in Nat
    BY Numbers, FieldTypes
  <2>2. {} \in Word
    BY DEF Word
  <2> QED
    BY <2>1, <2>2
<1> HIDE DEF total, c, zeros, st
<1>9. CASE ~R!has_bits(total) /\ R!EndAt(c, rpos, "out_of_range", {})
  <2>1. /\ cr' \in Readers(Buffers(BufSize), Seq(Word)) /\ cr'.buffer = buffer
        /\ cr'.pos = rpos /\ ~cr'.ok /\ cr'.values = zeros
    BY <1>1, <1>3, <1>7, <1>8, <1>9 DEF Readers, Zeros, zeros
  <2>2. /\ rpos' = rpos /\ buffer' = buffer /\ rcall' = rcall
        /\ last' = [c |-> c, from |-> rpos, status |-> "out_of_range", value |-> {}]
    BY <1>9 DEF R!EndAt, R!Result
  <2>3. zeros = [i \in 1 .. Len(f) |-> IF i <= Len(<<>>) THEN <<>>[i] ELSE {}]
    <3>1. Len(<<>>) = 0
      OBVIOUS
    <3> QED
      BY <3>1, <1>8 DEF zeros
  <2>4. SameResult'
    BY <1>4, <2>1, <2>2, <2>3 DEF SameResult
  <2> QED
    BY <1>1, <2>1, <2>2, <2>4 DEF ReadersInv, R!Idle
<1>10. CASE R!has_bits(total) /\ rcall' = R!Frame(op, f, types) /\ UNCHANGED <<buffer, rpos>>
  <2>1. /\ rcall'.op = op /\ rcall'.format = f /\ rcall'.types = types /\ rcall'.values = <<>>
        /\ ~R!Idle'
    BY <1>10 DEF R!Frame, R!Idle
  <2>2. cr' = st[Len(f)] /\ Len(f) \in 0 .. Len(f) /\ Len(<<>>) = 0
    BY <1>3, <1>7, <1>8, <1>10
  <2>3. cr' \in Readers({buffer}, [1 .. Len(f) -> Word])
    BY <1>6, <2>2
  <2>4. cr' \in Readers(Buffers(BufSize), Seq(Word)) /\ cr'.buffer = buffer
    BY <1>5, <1>8, <2>3 DEF Readers
  <2>5. st[0].ok /\ st[0].pos = rpos /\ st[0].values = zeros
    BY <1>1, <1>6 DEF Readers, Zeros, zeros
  <2>6. zeros = Taken(<<>>, Len(f))
    BY <1>8, <2>2 DEF zeros, Taken
  <2>7. InParse'
    <3>1. buffer' = buffer /\ rpos' = rpos
      BY <1>10
    <3> QED
      BY <1>5, <2>1, <2>2, <2>5, <2>6, <3>1 DEF InParse, st
  <2> QED
    BY <1>10, <2>1, <2>4, <2>7 DEF ReadersInv
<1> QED
  BY <1>2, <1>9, <1>10 DEF R!Begin, R!Throw, c

\* One more field is taken.
LEMMA TakenAppend ==
  ASSUME NEW S, NEW values \in Seq(S), NEW N \in Nat, Len(values) < N, NEW v
  PROVE  Taken(Append(values, v), N) = [Taken(values, N) EXCEPT ![Len(values) + 1] = v]
<1> DEFINE k == Len(values)
           longer == Append(values, v)
<1>1. k \in Nat /\ k < N /\ Len(longer) = k + 1
  OBVIOUS
<1>2. longer[k + 1] = v /\ \A i \in 1 .. k : longer[i] = values[i]
  OBVIOUS
<1> HIDE DEF k, longer
<1>3. ASSUME NEW i \in 1 .. N
      PROVE  (IF i <= Len(longer) THEN longer[i] ELSE {}) =
               IF i = k + 1 THEN v ELSE IF i <= k THEN values[i] ELSE {}
  <2>1. CASE i = k + 1
    BY <1>1, <1>2, <2>1
  <2>2. CASE i <= k
    <3>1. i \in 1 .. k
      BY <1>1, <2>2
    <3> QED
      BY <1>1, <1>2, <3>1
  <2>3. CASE i > k + 1
    BY <1>1, <2>3
  <2> QED
    BY <1>1, <2>1, <2>2, <2>3
<1> QED
  BY <1>3 DEF Taken, k, longer

\* The loop of the run-time reader ends where the other has ended.
LEMMA EndLoopTwin ==
  ASSUME SessionInv, ReadersInv, ~R!Idle, NEW status \in {"ok", "invalid_argument"}, R!EndLoop(status),
         UNCHANGED cr, (cr.ok <=> status = "ok"), cr.pos = rpos,
         cr.values = Taken(rcall.values, Len(rcall.format))
  PROVE  ReadersInv'
<1>1. /\ rpos' = rpos /\ buffer' = buffer /\ R!Idle'
      /\ last'.status = status /\ last'.c.op = rcall.op /\ last'.c.format = rcall.format
      /\ status = "ok" \/ rcall.op = "deserialize_into" => packet' = rcall
  BY DEF R!EndLoop, R!Result, R!FieldCall, R!NoCall, R!NoFrame, R!Idle
<1>2. last'.c.op # "read_bits"
  BY <1>1, ReaderTypes
<1>3. SameResult'
  BY <1>1, <1>2 DEF SameResult, Taken
<1> QED
  BY <1>1, <1>3 DEF ReadersInv

LEMMA ParseStepTwin ==
  ASSUME SessionInv, ReadersInv, R!Step, UNCHANGED cr
  PROVE  ReadersInv'
<1> DEFINE f == rcall.format
           k == Len(rcall.values)
           field == f[k + 1]
           n == field.bit_width
           padding == is_padding_field(field.name)
           V == [1 .. Len(f) -> Word]
<1>0. ~R!Idle /\ cr \in Readers(Buffers(BufSize), Seq(Word)) /\ cr.buffer = buffer /\ cr' = cr
  BY DEF ReadersInv, R!Step, R!LoopField, R!LoopReturn
<1>1. /\ f \in Formats /\ Len(f) \in Nat /\ k \in 0 .. Len(f) /\ rcall.values \in Seq(Word)
      /\ rcall \in RP!Frames /\ rpos \in 0 .. 8 * BufSize /\ buffer \in Buffers(BufSize)
      /\ k # Len(f) => n \in Nat /\ rpos + n <= 8 * BufSize
  BY <1>0, ReaderTypes
<1>2. rcall.types \in {<<>>, Words64(f)}
  BY <1>0 DEF ReadersInv, InParse
<1>3. PICK r0 \in Readers({buffer}, Seq(Word)) :
        LET st == DeserializeSteps(r0, f)
        IN  /\ cr = st[Len(f)]
            /\ st[k].ok /\ st[k].pos = rpos
            /\ st[k].values = Taken(rcall.values, Len(f))
  BY <1>0 DEF ReadersInv, InParse
<1> DEFINE st == DeserializeSteps(r0, f)
           s == st[k]
<1>4. {buffer} \subseteq Buffers(BufSize)
  BY <1>1
<1>5. /\ st \in [0 .. Len(f) -> Readers({buffer}, V)]
      /\ \A i \in 1 .. Len(f) :
           st[i] = IF st[i - 1].ok THEN C!ParseField(st[i - 1], f[i], i) ELSE st[i - 1]
  BY <1>1, <1>4, DeserializeStepsAre
<1>6. /\ s \in Readers({buffer}, V) /\ s.buffer = buffer
      /\ s.ok /\ s.pos = rpos /\ s.values = Taken(rcall.values, Len(f)) /\ cr = st[Len(f)]
  BY <1>1, <1>3, <1>5 DEF Readers
<1> HIDE DEF st
<1>7. CASE R!LoopReturn
  <2>1. k = Len(f) /\ R!EndLoop("ok")
    BY <1>1, <1>7 DEF R!LoopReturn, R!NextIdx
  <2> QED
    BY <1>0, <1>6, <2>1, EndLoopTwin
<1>8. CASE R!LoopField
  <2> DEFINE t == st[k + 1]
             can == IF padding THEN C!Fits(s.pos, n) ELSE C!CanRead(s, n)
             value == IF padding THEN {} ELSE GetBits(Order, s.buffer, s.pos, n)
             legal == IF padding THEN R!has_bits(n) ELSE R!CanReadAt(rpos, n)
             taken == IF padding THEN {}
                      ELSE R!Narrow(k + 1, R!GetBits(Order, buffer, rpos, n))
  <2>1. k + 1 \in 1 .. Len(f) /\ (k + 1) - 1 = k /\ k # Len(f)
    BY <1>1, <1>8 DEF R!LoopField, R!NextIdx
  <2>2. n \in Nat /\ rpos + n <= 8 * BufSize /\ 8 * BufSize + n < SizeMod
    BY <1>1, <2>1, FieldWidths
  <2>3. t = C!ParseField(s, field, k + 1)
    BY <1>5, <1>6, <2>1
  <2> HIDE DEF s
  <2>4. /\ t \in Readers({buffer}, V)
        /\ t.ok <=> can
        /\ can => t.pos = s.pos + n /\ t.values = [s.values EXCEPT ![k + 1] = value]
        /\ ~can => t.pos = s.pos /\ t.values = s.values
    <3> DEFINE j == k + 1
               N == Len(f)
               B == {buffer}
    <3>1. /\ s \in Readers(B, [1 .. N -> Word]) /\ N \in Nat /\ j \in 1 .. N
          /\ field.bit_width \in Nat /\ 8 * BufSize + field.bit_width < SizeMod
          /\ B \subseteq Buffers(BufSize)
      BY <1>1, <1>4, <1>6, <2>1, <2>2
    <3>2. t = C!ParseField(s, field, j)
      BY <2>3
    <3> HIDE DEF j, N, B, f, k, field, t
    <3>3. C!ParseField(s, field, j) \in Readers(B, [1 .. N -> Word])
      BY <3>1, ParseFieldIs
    <3>4. C!ParseField(s, field, j).ok <=> CanParse(s, field)
      BY <3>1, ParseFieldIs
    <3>5. CanParse(s, field) =>
            /\ C!ParseField(s, field, j).pos = s.pos + field.bit_width
            /\ C!ParseField(s, field, j).values = Assigned(s.values, j, Parsed(s, field))
      BY <3>1, ParseFieldIs
    <3>6. ~CanParse(s, field) => /\ C!ParseField(s, field, j).pos = s.pos
                                 /\ C!ParseField(s, field, j).values = s.values
      BY <3>1, ParseFieldIs
    <3>7. (CanParse(s, field) <=> can) /\ Parsed(s, field) = value
      BY DEF CanParse, Parsed
    <3>8. Assigned(s.values, j, value) = [s.values EXCEPT ![k + 1] = value]
      BY DEF Assigned, j
    <3> QED
      BY <3>2, <3>3, <3>4, <3>5, <3>6, <3>7, <3>8 DEF N, B
  <2>5. /\ legal <=> can
        /\ R!GetBits(Order, buffer, rpos, n) = GetBits(Order, s.buffer, s.pos, n)
    BY <1>6, SameReads
  <2> HIDE DEF n, padding
  <2>6. can => taken = value /\ value \in Word
    <3> SUFFICES ASSUME can, ~padding
                 PROVE  taken = value /\ value \in Word
      BY DEF Word
    <3>1. n \in 1 .. 64
      BY DEF C!CanRead
    <3>2. value \in SUBSET (0 .. n - 1)
      BY <1>1, <1>6, <3>1, Numbers, GetBitsType
    <3>3. value \subseteq 0 .. 63
      <4>1. 0 .. n - 1 \subseteq 0 .. 63
        BY <3>1
      <4> HIDE DEF value
      <4> QED
        BY <3>2, <4>1, Zenon
    <3>4. value = Truncate(value, 64)
      BY <3>3, TruncateWord
    <3>5. taken = IF rcall.types = <<>> THEN value ELSE Truncate(value, rcall.types[k + 1])
      BY <2>5 DEF R!Narrow, R!Truncate, Truncate
    <3>6. rcall.types = <<>> \/ rcall.types[k + 1] = 64
      BY <1>2, <2>1 DEF Words64
    <3> QED
      BY <3>3, <3>4, <3>5, <3>6 DEF Word
  <2>7. CASE legal /\ R!TakeField(n, taken)
    <3>1. (rpos + n) % SizeMod = rpos + n
      <4>1. rpos + n \in Nat /\ rpos + n < SizeMod /\ SizeMod \in Nat
        BY <1>1, <2>2, Numbers
      <4> QED
        BY <4>1, ModSmall
    <3>2. /\ rpos' = rpos + n /\ buffer' = buffer /\ last' = last
          /\ rcall' = [rcall EXCEPT !.values = Append(rcall.values, value)]
      BY <2>5, <2>6, <2>7, <3>1 DEF R!TakeField
    <3>3. /\ rcall'.op = rcall.op /\ rcall'.format = f /\ rcall'.types = rcall.types
          /\ rcall'.values = Append(rcall.values, value)
      BY <1>1, <3>2 DEF RP!Frames
    <3>4. Len(rcall'.values) = k + 1
      BY <1>1, <3>3
    <3>5. t.ok /\ t.pos = rpos' /\ t.values = [s.values EXCEPT ![k + 1] = value]
      BY <1>6, <2>4, <2>5, <2>7, <3>2
    <3>6. Taken(rcall'.values, Len(f)) = [s.values EXCEPT ![k + 1] = value]
      <4> DEFINE N == Len(f)
                 old == rcall.values
                 v == value
      <4>1. N \in Nat /\ old \in Seq(Word) /\ Len(old) < N
        BY <1>1, <2>1
      <4>2. s.values = Taken(old, N) /\ rcall'.values = Append(old, v)
        BY <1>6, <3>3
      <4> HIDE DEF N, old, v
      <4>3. Taken(Append(old, v), N) = [Taken(old, N) EXCEPT ![Len(old) + 1] = v]
        BY <4>1, TakenAppend
      <4> QED
        BY <4>2, <4>3 DEF N, old, v
    <3> HIDE DEF t, k, f, value
    <3>7. InParse'
      BY <1>0, <1>2, <1>6, <3>2, <3>3, <3>4, <3>5, <3>6 DEF InParse, st, t
    <3>8. ~R!Idle'
      BY <1>0, <3>3 DEF R!Idle
    <3> QED
      BY <1>0, <3>2, <3>7, <3>8 DEF ReadersInv
  <2>8. CASE ~legal /\ R!EndLoop(IF padding THEN "out_of_range" ELSE R!ReadError(n))
    <3>1. ~can
      BY <2>5, <2>8
    <3>2. C!Fits(s.pos, n)
      BY <1>1, <1>6, <2>2, FitsPlain
    <3>3. ~padding /\ n \notin 1 .. 64
      BY <3>1, <3>2 DEF C!CanRead
    <3>4. R!EndLoop("invalid_argument")
      BY <2>8, <3>3 DEF R!ReadError
    <3>5. ~t.ok /\ t.pos = rpos /\ t.values = Taken(rcall.values, Len(f))
      BY <1>6, <2>4, <3>1
    <3>6. cr = t
      <4> DEFINE N == Len(f)
                 j == k + 1
      <4>1. \A i \in 1 .. N : ~st[i - 1].ok => st[i] = st[i - 1]
        BY <1>5
      <4>2. N \in Nat /\ j \in 1 .. N /\ ~st[j].ok
        BY <1>1, <2>1, <3>5
      <4> HIDE DEF N, j
      <4>3. st[N] = st[j]
        BY <4>1, <4>2, FailedStepsStay
      <4> QED
        BY <1>6, <4>3 DEF N, j
    <3> HIDE DEF t
    <3> QED
      BY <1>0, <3>4, <3>5, <3>6, EndLoopTwin
  <2> QED
    BY <1>8, <2>7, <2>8 DEF R!LoopField, R!NextIdx, R!is_padding_field, is_padding_field, n, padding
<1> QED
  BY <1>7, <1>8 DEF R!Step

-----------------------------------------------------------------------------
(* The invariant.                                                          *)

\* The reader of the write phase has not been used.
PhaseInv ==
  /\ phase \in {"write", "read"}
  /\ cr \in Readers(Buffers(BufSize), Seq(Word))
  /\ phase = "write" => R!Idle /\ last = R!NoResult /\ rpos = 0
  /\ phase = "read" => W!Idle /\ ReadersInv

TwinInv == SessionInv /\ WritersInv /\ PhaseInv

\* What the constructors make.
LEMMA NewObjects ==
  ASSUME NEW bytes \in Buffers(BufSize)
  PROVE  /\ ZeroBuffer(BufSize) \in Buffers(BufSize)
         /\ C!NewWriter \in Objects
         /\ C!NewWriter.buffer = ZeroBuffer(BufSize) /\ C!NewWriter.pos = 0 /\ C!NewWriter.ok
         /\ C!NewReader(bytes) \in Readers(Buffers(BufSize), Seq(Word))
         /\ C!NewReader(bytes).buffer = bytes /\ C!NewReader(bytes).pos = 0
<1>1. ZeroBuffer(BufSize) \in Buffers(BufSize) /\ C!ZeroBuffer(BufSize) = ZeroBuffer(BufSize)
  BY DEF ZeroBuffer, C!ZeroBuffer, Buffers, Byte
<1>2. 0 \in 0 .. 8 * BufSize /\ <<>> \in Seq(Word)
  BY Numbers
<1> QED
  BY <1>1, <1>2 DEF C!NewWriter, C!NewReader, Objects, Readers

LEMMA InitTwin == TwinInit => TwinInv
<1> SUFFICES ASSUME TwinInit
             PROVE  TwinInv
  OBVIOUS
<1>1. SessionInv
  BY InitSession DEF TwinInit
<1>2. /\ buffer = ZeroBuffer(BufSize) /\ wpos = 0 /\ outcome = "ok" /\ W!Idle
      /\ rpos = 0 /\ R!Idle /\ last = R!NoResult
  BY DEF TwinInit, Init, W!Init, R!Init, W!ZeroBuffer, ZeroBuffer, W!NoCall, W!Idle,
         R!NoFrame, R!Idle
<1>3. phase = "write" /\ cw = C!NewWriter /\ cr = C!NewReader(ZeroBuffer(BufSize))
  BY DEF TwinInit
<1>4. ZeroBuffer(BufSize) \in Buffers(BufSize)
  BY DEF ZeroBuffer, Buffers, Byte
<1>5. WritersInv
  BY <1>2, <1>3, <1>4, NewObjects DEF WritersInv, Agree
<1>6. PhaseInv
  BY <1>2, <1>3, <1>4, NewObjects DEF PhaseInv
<1> QED
  BY <1>1, <1>5, <1>6 DEF TwinInv

LEMMA WriteTwin ==
  ASSUME TwinInv, Write
  PROVE  TwinInv'
<1>0. /\ SessionInv /\ WritersInv /\ PhaseInv /\ WriteCall /\ phase = "write" /\ R!Idle
      /\ UNCHANGED readerVars /\ phase' = phase /\ cr' = cr
  BY DEF TwinInv, Write, PhaseInv
<1>1. W!Next
  BY <1>0 DEF WriteCall, W!Next, W!ApiCall
<1>2. SessionInv'
  BY <1>0, <1>1, WriterStep
<1>3. Widths \subseteq Nat
  BY Numbers
<1>4. WritersInv'
  <2>1. ASSUME NEW n \in Widths, NEW v \in Values, W!WriteBits(n, v), cw' = C!write_bits(cw, n, v)
        PROVE  WritersInv'
    BY <1>0, <1>3, <2>1, WriteBitsTwin
  <2>2. ASSUME NEW f \in Formats, NEW vs, W!Serialize(f, vs), cw' = C!serialize(cw, f, vs)
        PROVE  WritersInv'
    BY <1>0, <2>2, SerializeTwin
  <2>3. ASSUME NEW n \in Widths, W!SkipBits(n), cw' = C!skip_bits(cw, n)
        PROVE  WritersInv'
    BY <1>0, <1>3, <2>3, SkipBitsTwin
  <2>4. CASE W!AlignToByte /\ cw' = C!align_to_byte(cw)
    BY <1>0, <1>2, <2>4, AlignToByteTwin
  <2>5. CASE W!Step /\ UNCHANGED cw
    BY <1>0, <2>5, SerializeStepTwin
  <2> QED
    BY <1>0, <2>1, <2>2, <2>3, <2>4, <2>5 DEF WriteCall
<1>5. PhaseInv'
  BY <1>0 DEF PhaseInv, readerVars, R!Idle
<1> QED
  BY <1>2, <1>4, <1>5 DEF TwinInv

\* Parsing into words is one of the reader's calls.
LEMMA WordsInOutputs ==
  ASSUME NEW f \in Formats
  PROVE  Words64(f) \in [1 .. Len(f) -> OutWidths]
BY WordOutputs DEF Words64

LEMMA ReadTwin ==
  ASSUME TwinInv, Read
  PROVE  TwinInv' /\ R!Next
<1>0. /\ SessionInv /\ WritersInv /\ ReadersInv /\ ReadCall /\ phase = "read" /\ W!Idle
      /\ UNCHANGED writerVars /\ phase' = phase /\ cw' = cw
  BY DEF TwinInv, Read, PhaseInv
<1>1. R!Next
  <2>1. \A f \in Formats : R!DeserializeInto(f, Words64(f)) => R!Next
    BY WordsInOutputs DEF R!Next, R!ApiCall
  <2> QED
    BY <1>0, <2>1 DEF ReadCall, R!Next, R!ApiCall
<1>2. SessionInv'
  BY <1>0, <1>1, ReaderStep
<1>3. buffer' = buffer /\ Widths \subseteq Nat
  <2>1. buffer' = buffer
    BY <1>0, <1>1, Assumptions, SameReader, RP!NextCore DEF SessionInv
  <2> QED
    BY <2>1, Numbers
<1>4. ReadersInv'
  <2>1. CASE R!reset /\ cr' = C!reset(cr)
    BY <1>0, <2>1, ResetTwin
  <2>2. ASSUME NEW n \in Widths, R!ReadBits(n), cr' = C!read_bits(cr, n)
        PROVE  ReadersInv'
    BY <1>0, <1>3, <2>2, ReadBitsTwin
  <2>3. ASSUME NEW n \in Widths, R!SkipBits(n), cr' = C!skip_bits(cr, n)
        PROVE  ReadersInv'
    BY <1>0, <1>3, <2>3, ReaderSkipTwin
  <2>4. CASE R!AlignToByte /\ cr' = C!align_to_byte(cr)
    BY <1>0, <1>2, <2>4, ReaderAlignTwin
  <2>5. ASSUME NEW f \in Formats, R!Deserialize(f) \/ R!DeserializeInto(f, Words64(f)),
               cr' = C!deserialize(cr, f)
        PROVE  ReadersInv'
    BY <1>0, <2>5, BeginTwin DEF R!Deserialize, R!DeserializeInto
  <2>6. CASE R!Step /\ UNCHANGED cr
    BY <1>0, <2>6, ParseStepTwin
  <2> QED
    BY <1>0, <2>1, <2>2, <2>3, <2>4, <2>5, <2>6 DEF ReadCall
<1>5. /\ wpos' = wpos /\ wcall' = wcall /\ outcome' = outcome
      /\ written' = written /\ filled' = filled
  BY <1>0 DEF writerVars
<1>6. WritersInv' /\ W!Idle'
  BY <1>0, <1>3, <1>5 DEF WritersInv, Agree, W!Idle
<1>7. PhaseInv'
  BY <1>0, <1>4, <1>6 DEF PhaseInv, ReadersInv
<1> QED
  BY <1>1, <1>2, <1>6, <1>7 DEF TwinInv

LEMMA MakeReaderTwin ==
  ASSUME TwinInv, MakeReader
  PROVE  TwinInv'
<1>0. /\ SessionInv /\ WritersInv /\ PhaseInv /\ phase = "write" /\ W!Idle /\ phase' = "read"
      /\ cr' = C!NewReader(cw.buffer) /\ UNCHANGED vars /\ cw' = cw
  BY DEF TwinInv, MakeReader
<1>1. SessionInv'
  BY <1>0, StutterSession
<1>2. /\ buffer' = buffer /\ wpos' = wpos /\ wcall' = wcall /\ outcome' = outcome
      /\ rpos' = rpos /\ rcall' = rcall /\ last' = last
  BY <1>0 DEF vars, writerVars, readerVars
<1>3. WritersInv' /\ W!Idle'
  BY <1>0, <1>2 DEF WritersInv, Agree, W!Idle
<1>4. cw.buffer = buffer /\ buffer \in Buffers(BufSize)
  BY <1>0, WriterTypes DEF WritersInv, Agree
<1>5. R!Idle' /\ last'.c.op = "none" /\ rpos' = 0
  <2>1. R!Idle /\ last = R!NoResult /\ rpos = 0
    BY <1>0 DEF PhaseInv
  <2>2. R!NoResult.c.op = "none"
    BY DEF R!NoResult, R!Result, R!NoCall
  <2> QED
    BY <1>2, <2>1, <2>2 DEF R!Idle
<1>6. ReadersInv'
  BY <1>0, <1>2, <1>4, <1>5, NewObjects DEF ReadersInv
<1> QED
  BY <1>0, <1>1, <1>3, <1>6 DEF TwinInv, PhaseInv, ReadersInv

LEMMA RestartTwin ==
  ASSUME TwinInv, Restart
  PROVE  TwinInv'
<1>0. /\ SessionInv /\ phase' = "write" /\ W!Construct /\ cw' = C!NewWriter
      /\ cr' = C!NewReader(ZeroBuffer(BufSize))
      /\ rpos' = 0 /\ rcall' = R!NoFrame /\ packet' = R!NoFrame /\ last' = R!NoResult
  BY DEF TwinInv, Restart
<1>1. /\ buffer' = ZeroBuffer(BufSize) /\ wpos' = 0 /\ outcome' = "ok" /\ W!Idle'
  BY <1>0 DEF W!Construct, W!ZeroBuffer, ZeroBuffer, W!Idle
<1>2. ZeroBuffer(BufSize) \in Buffers(BufSize)
  BY DEF ZeroBuffer, Buffers, Byte
<1>3. WP!Persistent'
  <2>1. W!Next
    BY <1>0 DEF W!Next, W!ApiCall
  <2> QED
    BY <1>0, <2>1, Assumptions, SameWriter, WP!NextPersistent DEF SessionInv
<1>4. RP!Core'
  <2>1. /\ rcall' = RP!NoFrame /\ packet' = RP!NoFrame
        /\ last' = [c |-> RP!NoCall, from |-> 0, status |-> "ok", value |-> {}]
    BY <1>0 DEF R!NoFrame, RP!NoFrame, R!NoResult, R!Result, R!NoCall, RP!NoCall
  <2>2. RP!NoFrame \in RP!Frames /\ 0 \in 0 .. RP!Cap /\ {} \in RP!Word
    BY Numbers DEF RP!NoFrame, RP!Frames, RP!Cap, RP!Word
  <2>3. RP!Typed'
    BY <1>0, <1>1, <1>2, <2>1, <2>2
       DEF RP!Typed, RP!TypeOK, RP!InBounds, RP!Statuses, RP!Cap
  <2>4. RP!LoopInv'
    BY <2>1 DEF RP!LoopInv, RP!Idle, RP!NoFrame
  <2> QED
    BY <2>3, <2>4 DEF RP!Core
<1>5. WritersInv'
  BY <1>0, <1>1, <1>2, NewObjects DEF WritersInv, Agree
<1>6. PhaseInv'
  BY <1>0, <1>2, NewObjects DEF PhaseInv, R!Idle, R!NoFrame
<1> QED
  BY <1>3, <1>4, <1>5, <1>6 DEF TwinInv, SessionInv

LEMMA StutterTwin ==
  ASSUME TwinInv, UNCHANGED twinVars
  PROVE  TwinInv'
<1>1. /\ UNCHANGED vars /\ phase' = phase /\ cw' = cw /\ cr' = cr
      /\ buffer' = buffer /\ wpos' = wpos /\ wcall' = wcall /\ outcome' = outcome
      /\ rpos' = rpos /\ rcall' = rcall /\ last' = last /\ packet' = packet
  BY DEF twinVars, vars, writerVars, readerVars
<1>2. SessionInv'
  BY <1>1, StutterSession DEF TwinInv
<1>3. WritersInv'
  BY <1>1 DEF TwinInv, WritersInv, Agree, W!Idle
<1>4. PhaseInv'
  BY <1>1 DEF TwinInv, PhaseInv, W!Idle, R!Idle, ReadersInv, InParse, SameResult
<1> QED
  BY <1>2, <1>3, <1>4 DEF TwinInv

LEMMA NextTwin ==
  ASSUME TwinInv, [TwinNext]_twinVars
  PROVE  TwinInv'
BY WriteTwin, ReadTwin, MakeReaderTwin, RestartTwin, StutterTwin DEF TwinNext

LEMMA SpecTwin == TwinSpec => []TwinInv
BY InitTwin, NextTwin, PTL DEF TwinSpec

-----------------------------------------------------------------------------
(* The theorems.                                                           *)

\* The compile-time writer follows the run-time one.
THEOREM TwinWritersAgree == TwinSpec => []WritersAgree
<1>1. TwinInv => WritersAgree
  BY DEF TwinInv, WritersInv, Agree, WritersAgree
<1> QED
  BY <1>1, SpecTwin, PTL

\* None of the four cursors passes the end of its bytes.
THEOREM TwinCursorsInBounds == TwinSpec => []CursorsInBounds
<1>1. TwinInv => CursorsInBounds
  <2> SUFFICES ASSUME TwinInv
               PROVE  CursorsInBounds
    OBVIOUS
  <2>1. wpos <= 8 * BufSize /\ rpos <= 8 * BufSize
    BY WriterTypes, ReaderTypes, Numbers DEF TwinInv
  <2>2. cw.pos \in 0 .. 8 * BufSize /\ cr.pos \in 0 .. 8 * BufSize
    BY DEF TwinInv, WritersInv, PhaseInv, Objects, Readers
  <2> QED
    BY <2>1, <2>2, Numbers DEF CursorsInBounds
<1> QED
  BY <1>1, SpecTwin, PTL

\* The compile-time reader follows the run-time one.
THEOREM TwinReadersAgree == TwinSpec => ReadersAgree
<1>1. TwinInv' => (CallEnded' => SameResult')
  BY DEF TwinInv, PhaseInv, ReadersInv, CallEnded
<1>2. TwinInv /\ [TwinNext]_twinVars => [CallEnded' => SameResult']_twinVars
  BY <1>1, NextTwin
<1> QED
  BY <1>2, SpecTwin, PTL DEF TwinSpec, ReadersAgree

LEMMA NoResultOp == R!NoResult.c.op = "none" /\ RP!NoResult.c.op = "none"
BY DEF R!NoResult, R!Result, R!NoCall, RP!NoResult, RP!Result, RP!NoCall

\* The outputs of a parse that has ended well are words.
LEMMA ParsedWords ==
  ASSUME SessionInv, ReadersInv, ReadCall,
         last'.c.op \in {"deserialize", "deserialize_into"}, last'.status = "ok"
  PROVE  packet'.types = <<>> \/ packet'.types = Words64(last'.c.format)
<1>1. ASSUME NEW op, op \in {"reset", "read_bits", "skip_bits", "align_to_byte"},
             NEW n, NEW pos, NEW status, NEW value, R!EndAt(R!NumCall(op, n), pos, status, value)
      PROVE  FALSE
  BY <1>1, NumCallOp DEF R!EndAt, R!Result
<1>2. ~R!reset /\ ~R!AlignToByte
  BY <1>1 DEF R!reset, R!AlignToByte
<1>3. \A n \in Widths : ~R!ReadBits(n) /\ ~R!SkipBits(n)
  BY <1>1 DEF R!ReadBits, R!ReadAt, R!SkipBits, R!Throw
<1>4. ASSUME NEW op, NEW f, NEW types, R!Begin(op, f, types)
      PROVE  FALSE
  <2>1. CASE last' = R!NoResult
    BY <2>1, NoResultOp
  <2>2. CASE R!Throw(R!FieldCall(op, f, ""), "out_of_range")
    <3>1. last'.status = "out_of_range"
      BY <2>2 DEF R!Throw, R!EndAt, R!Result
    <3> QED
      BY <3>1
  <2> QED
    BY <1>4, <2>1, <2>2 DEF R!Begin
<1>5. R!Step
  BY <1>2, <1>3, <1>4 DEF ReadCall, R!Deserialize, R!DeserializeInto
<1>6. ~R!Idle /\ rcall.types \in {<<>>, Words64(rcall.format)}
  BY <1>5 DEF R!Step, R!LoopField, R!LoopReturn, ReadersInv, InParse
<1>7. last.c.op = "none"
  BY <1>6, NoResultOp DEF SessionInv, RP!Core, RP!LoopInv, R!Idle, RP!Idle
<1>8. PICK status : R!EndLoop(status)
  BY <1>5, <1>7 DEF R!Step, R!LoopField, R!LoopReturn, R!TakeField
<1>9. status = "ok" /\ last'.c = R!FieldCall(rcall.op, rcall.format, "")
  BY <1>8 DEF R!EndLoop, R!Result
<1>10. packet' = rcall /\ R!FieldCall(rcall.op, rcall.format, "").format = rcall.format
  BY <1>8, <1>9 DEF R!EndLoop, R!FieldCall, R!NoCall
<1> QED
  BY <1>6, <1>9, <1>10

\* What was written says the same as long as the writer does nothing.
LEMMA SameHistory ==
  ASSUME wpos' = wpos, written' = written, filled' = filled,
         NEW format, NEW from, NEW types, NEW values, FieldsAsWritten(format, from, types, values)
  PROVE  FieldsAsWritten(format, from, types, values)'
<1>1. ASSUME NEW p, NEW bit
      PROVE  Contradicts(p, bit)' <=> Contradicts(p, bit)
  BY DEF Contradicts
<1>2. ASSUME NEW pos, NEW n, NEW width, NEW value
      PROVE  AsWritten(pos, n, width, value)' <=> AsWritten(pos, n, width, value)
  BY <1>1 DEF AsWritten
<1> QED
  BY <1>2 DEF FieldsAsWritten

\* What the compile-time reader returns is what the writers wrote.
THEOREM TwinRoundTrip == TwinSpec => CompileTimeRoundTrip
<1>1. ASSUME TwinInv, [TwinNext]_twinVars, twinVars' # twinVars, CallEnded', cr'.ok
      PROVE  ValuesAsWritten'
  <2>0. SessionInv /\ PhaseInv /\ TwinInv' /\ phase' = "read"
    BY <1>1, NextTwin DEF TwinInv, CallEnded
  <2>1. CASE Read
    <3>1. /\ R!Next /\ UNCHANGED writerVars /\ phase = "read" /\ ReadCall
          /\ ReadersInv /\ ReadersInv'
      BY <2>0, <2>1, <1>1, ReadTwin DEF Read, TwinInv, PhaseInv
    <3>2. SameResult' /\ last'.status = "ok"
      BY <1>1, <3>1 DEF CallEnded, ReadersInv, SameResult
    <3>3. wpos' = wpos /\ written' = written /\ filled' = filled
      BY <3>1 DEF writerVars
    <3>4. ASSUME last'.c.op = "read_bits"
          PROVE  ValuesAsWritten'
      <4>1. cr'.values[1] = last'.value
        BY <1>1, <3>2, <3>4 DEF SameResult
      <4>2. AsWritten(last'.from, last'.c.n, 64, last'.value)
        BY <2>0, <3>1, <3>2, <3>4, ReaderReports
      <4> QED
        BY <3>3, <3>4, <4>1, <4>2 DEF ValuesAsWritten, AsWritten, Contradicts
    <3>5. ASSUME last'.c.op \in {"deserialize", "deserialize_into"}
          PROVE  ValuesAsWritten'
      <4>1. /\ Len(packet'.values) = Len(last'.c.format)
            /\ FieldsAsWritten(last'.c.format, last'.from, packet'.types, packet'.values)
        BY <2>0, <3>1, <3>2, <3>5, ReaderReports
      <4>2. packet'.types = <<>> \/ packet'.types = Words64(last'.c.format)
        BY <2>0, <3>1, <3>2, <3>5, ParsedWords
      <4> DEFINE f == last'.c.format
                 N == Len(f)
                 got == packet'.values
                 values == cr'.values
      <4>3. values = [i \in 1 .. N |-> IF i <= Len(got) THEN got[i] ELSE {}]
        BY <1>1, <3>2, <3>5 DEF SameResult
      <4>4. N \in Nat
        <5>1. (packet \in RP!Frames)'
          BY <2>0 DEF TwinInv, SessionInv, RP!Core, RP!Typed, RP!TypeOK
        <5>2. got \in Seq(RP!Word)
          BY <5>1 DEF RP!Frames
        <5> HIDE DEF got
        <5>3. Len(got) \in Nat
          BY <5>2
        <5> QED
          BY <4>1, <5>3 DEF got
      <4>5. Len(values) = N /\ \A i \in 1 .. N : values[i] = got[i]
        BY <4>1, <4>3, <4>4
      <4>6. FieldsAsWritten(f, last'.from, <<>>, values)
        BY <4>1, <4>2, <4>5 DEF FieldsAsWritten, Words64
      <4>7. FieldsAsWritten(last.c.format, last.from, <<>>, cr.values)'
        BY <3>3, <4>6, SameHistory
      <4> QED
        BY <3>5, <4>7 DEF ValuesAsWritten
    <3> QED
      BY <3>4, <3>5 DEF ValuesAsWritten
  <2>2. CASE MakeReader
    <3>1. last = R!NoResult /\ last' = last
      BY <2>0, <2>2 DEF MakeReader, PhaseInv, vars, readerVars
    <3> QED
      BY <1>1, <3>1, NoResultOp DEF CallEnded
  <2>3. CASE Write
    BY <2>0, <2>3 DEF Write
  <2>4. CASE Restart
    BY <2>0, <2>4 DEF Restart
  <2> QED
    BY <1>1, <2>1, <2>2, <2>3, <2>4 DEF TwinNext
<1>2. TwinInv /\ [TwinNext]_twinVars => [CallEnded' /\ cr'.ok => ValuesAsWritten']_twinVars
  BY <1>1
<1> QED
  BY <1>2, SpecTwin, PTL DEF TwinSpec, CompileTimeRoundTrip
=============================================================================
