----------------------------- MODULE WireProofs -----------------------------
(***************************************************************************)
(* Facts about formats, wire positions and the loops over bits and bytes   *)
(* that the proofs of every component rest on.                             *)
(*                                                                         *)
(* Offsets are a recursive sum and the loops are iterations, so much here  *)
(* is induction: a set of numbers that holds 0 and with each number the    *)
(* next holds them all, which follows from the least number that it would  *)
(* miss.                                                                   *)
(***************************************************************************)
EXTENDS BitWire, PacketFormat, WellFoundedInduction, TLAPS

-----------------------------------------------------------------------------
(* Induction on numbers and recursive functions.                           *)

Less == {pair \in Nat \X Nat : pair[1] < pair[2]}

LEMMA LessWellFounded == IsWellFoundedOn(Less, Nat)
BY NatLessThanWellFounded DEF OpToRel, Less

\* Numbers, if there are any, have a least one.
LEMMA LeastNumber ==
  ASSUME NEW S, S \subseteq Nat, S # {}
  PROVE  \E m \in S : \A k \in S : m <= k
<1>1. PICK m \in S : \A k \in S : <<k, m>> \notin Less
  BY LessWellFounded, WFMin
<1>2. ASSUME NEW k \in S
      PROVE  m <= k
  <2>1. k \in Nat /\ m \in Nat /\ <<k, m>> \notin Less
    BY <1>1
  <2> QED
    BY <2>1 DEF Less
<1> QED
  BY <1>2

\* Induction up to N, for a property given by the set of numbers that have it.
LEMMA UpTo ==
  ASSUME NEW N \in Nat, NEW S, 0 \in S, \A n \in 0 .. N - 1 : n \in S => n + 1 \in S
  PROVE  0 .. N \subseteq S
<1> SUFFICES ASSUME (0 .. N) \ S # {}
             PROVE  FALSE
  OBVIOUS
<1>1. PICK m \in (0 .. N) \ S : \A k \in (0 .. N) \ S : m <= k
  <2>1. (0 .. N) \ S \subseteq Nat
    OBVIOUS
  <2> QED
    BY <2>1, LeastNumber
<1>2. m - 1 \in 0 .. N - 1 /\ m - 1 \in S
  BY <1>1
<1> QED
  BY <1>1, <1>2

\* The first values of the function that starts with a and goes on by step.
Starts(S, a, step, n) ==
  {f \in [0 .. n -> S] : \A i \in 0 .. n : f[i] = IF i = 0 THEN a ELSE step[i][f[i - 1]]}

\* There is such a function.
LEMMA Recursion ==
  ASSUME NEW S, NEW a \in S, NEW N \in Nat, NEW step \in [1 .. N -> [S -> S]]
  PROVE  \E f \in [0 .. N -> S] :
           f[0] = a /\ \A i \in 1 .. N : f[i] = step[i][f[i - 1]]
<1> DEFINE T == {n \in Nat : Starts(S, a, step, n) # {}}
<1>1. 0 \in T
  <2>1. [i \in 0 .. 0 |-> a] \in Starts(S, a, step, 0)
    BY DEF Starts
  <2> QED
    BY <2>1
<1>2. ASSUME NEW n \in 0 .. N - 1, n \in T
      PROVE  n + 1 \in T
  <2>1. PICK f : f \in Starts(S, a, step, n)
    BY <1>2
  <2> DEFINE g == [i \in 0 .. n + 1 |-> IF i = n + 1 THEN step[n + 1][f[n]] ELSE f[i]]
  <2>2. step[n + 1][f[n]] \in S
    <3>1. n + 1 \in 1 .. N /\ f[n] \in S
      BY <2>1 DEF Starts
    <3> QED
      BY <3>1
  <2>3. g \in [0 .. n + 1 -> S]
    BY <2>1, <2>2 DEF Starts
  <2>4. \A i \in 0 .. n + 1 : g[i] = IF i = 0 THEN a ELSE step[i][g[i - 1]]
    BY <2>1 DEF Starts
  <2>5. g \in Starts(S, a, step, n + 1)
    BY <2>3, <2>4 DEF Starts
  <2> QED
    BY <2>5
<1>3. N \in T
  <2>1. 0 .. N \subseteq T
    <3> HIDE DEF T
    <3> QED
      BY <1>1, <1>2, UpTo
  <2> QED
    BY <2>1
<1>4. PICK f : f \in Starts(S, a, step, N)
  BY <1>3
<1> QED
  BY <1>4 DEF Starts

\* Two functions that start and go on alike are alike.
LEMMA SameRecursion ==
  ASSUME NEW N \in Nat, NEW f, NEW g, f[0] = g[0],
         \A i \in 1 .. N : f[i - 1] = g[i - 1] => f[i] = g[i]
  PROVE  \A i \in 0 .. N : f[i] = g[i]
<1> DEFINE S == {i \in 0 .. N : f[i] = g[i]}
<1>1. 0 \in S
  OBVIOUS
<1>2. ASSUME NEW n \in 0 .. N - 1, n \in S
      PROVE  n + 1 \in S
  <2>1. n + 1 \in 1 .. N /\ (n + 1) - 1 = n
    OBVIOUS
  <2> QED
    BY <1>2, <2>1
<1>3. 0 .. N \subseteq S
  <2> HIDE DEF S
  <2> QED
    BY <1>1, <1>2, UpTo
<1> QED
  BY <1>3

-----------------------------------------------------------------------------
(* The offsets of the fields.                                              *)

LEMMA FieldTypes ==
  ASSUME NEW format \in Seq(FieldDef)
  PROVE  /\ Len(format) \in Nat
         /\ \A i \in 1 .. Len(format) : format[i].bit_width \in Nat /\ format[i].name \in STRING
<1>1. \A i \in 1 .. Len(format) : format[i] \in FieldDef
  OBVIOUS
<1> QED
  BY <1>1 DEF FieldDef

HasWidths(format) ==
  Len(format) \in Nat /\ \A i \in 1 .. Len(format) : format[i].bit_width \in Nat

LEMMA SumExists ==
  ASSUME NEW format, HasWidths(format)
  PROVE  \E s : s = [i \in 0 .. Len(format) |->
                       IF i = 0 THEN 0 ELSE s[i - 1] + format[i].bit_width]
<1> DEFINE N == Len(format)
           add == [i \in 1 .. N |-> [k \in Nat |-> k + format[i].bit_width]]
<1>1. N \in Nat /\ 0 \in Nat /\ add \in [1 .. N -> [Nat -> Nat]]
  BY DEF HasWidths
<1>2. \A i \in 1 .. N : \A k \in Nat : add[i][k] = k + format[i].bit_width
  OBVIOUS
<1> HIDE DEF N, add
<1>3. \E s \in [0 .. N -> Nat] : s[0] = 0 /\ \A i \in 1 .. N : s[i] = add[i][s[i - 1]]
  <2> DEFINE S == Nat
             a == 0
  <2>1. N \in Nat /\ a \in S /\ add \in [1 .. N -> [S -> S]]
    BY <1>1
  <2> HIDE DEF S, a
  <2>2. \E s \in [0 .. N -> S] : s[0] = a /\ \A i \in 1 .. N : s[i] = add[i][s[i - 1]]
    BY <2>1, Recursion
  <2> QED
    BY <2>2 DEF S, a
<1>4. PICK s \in [0 .. N -> Nat] : s[0] = 0 /\ \A i \in 1 .. N : s[i] = add[i][s[i - 1]]
  BY <1>3
<1>5. \A i \in 1 .. N : s[i - 1] \in Nat /\ s[i] = s[i - 1] + format[i].bit_width
  <2>1. \A i \in 1 .. N : s[i - 1] \in Nat
    BY <1>1
  <2> QED
    BY <1>2, <1>4, <2>1
<1>6. s = [i \in 0 .. N |-> s[i]]
  OBVIOUS
<1>7. \A i \in 0 .. N : s[i] = IF i = 0 THEN 0 ELSE s[i - 1] + format[i].bit_width
  BY <1>1, <1>4, <1>5
<1>8. s = [i \in 0 .. N |-> IF i = 0 THEN 0 ELSE s[i - 1] + format[i].bit_width]
  BY <1>6, <1>7
<1> QED
  BY <1>8 DEF N

\* Offset i is the sum of the widths before it, whatever the names are ...
LEMMA OffsetsOfWidths ==
  ASSUME NEW format, HasWidths(format)
  PROVE  /\ FieldOffsets(format) \in [0 .. Len(format) -> Nat]
         /\ FieldOffsets(format)[0] = 0
         /\ \A i \in 1 .. Len(format) :
              FieldOffsets(format)[i] = FieldOffsets(format)[i - 1] + format[i].bit_width
<1> DEFINE N == Len(format)
           sum[i \in 0 .. N] == IF i = 0 THEN 0 ELSE sum[i - 1] + format[i].bit_width
<1>0. N \in Nat /\ \A i \in 1 .. N : format[i].bit_width \in Nat
  BY DEF HasWidths
<1>1. \E s : s = [i \in 0 .. N |-> IF i = 0 THEN 0 ELSE s[i - 1] + format[i].bit_width]
  BY SumExists
<1>2. sum = [i \in 0 .. N |-> IF i = 0 THEN 0 ELSE sum[i - 1] + format[i].bit_width]
  BY <1>1, Zenon
<1>3. FieldOffsets(format) = sum
  BY DEF FieldOffsets
<1> HIDE DEF sum
<1>4. sum[0] = 0 /\ \A i \in 1 .. N : sum[i] = sum[i - 1] + format[i].bit_width
  BY <1>0, <1>2
<1>5. \A i \in 0 .. N : sum[i] \in Nat
  <2> DEFINE S == {n \in 0 .. N : sum[n] \in Nat}
  <2>1. 0 \in S
    BY <1>0, <1>4
  <2>2. \A n \in 0 .. N - 1 : n \in S => n + 1 \in S
    BY <1>0, <1>4
  <2>3. 0 .. N \subseteq S
    <3> HIDE DEF S, N
    <3> QED
      BY <1>0, <2>1, <2>2, UpTo
  <2> QED
    BY <2>3
<1>6. sum \in [0 .. N -> Nat]
  BY <1>2, <1>5
<1> QED
  BY <1>3, <1>4, <1>6

\* ... and so for every format.
LEMMA Offsets ==
  ASSUME NEW format \in Seq(FieldDef)
  PROVE  /\ FieldOffsets(format) \in [0 .. Len(format) -> Nat]
         /\ FieldOffsets(format)[0] = 0
         /\ \A i \in 1 .. Len(format) :
              FieldOffsets(format)[i] = FieldOffsets(format)[i - 1] + format[i].bit_width
BY FieldTypes, OffsetsOfWidths DEF HasWidths

\* Later fields are not before earlier ones, and all are within total_bits.
LEMMA WidthsAscend ==
  ASSUME NEW format, HasWidths(format), NEW i \in 0 .. Len(format), NEW j \in 0 .. Len(format),
         i <= j
  PROVE  FieldOffsets(format)[i] <= FieldOffsets(format)[j]
<1> DEFINE N == Len(format)
           offset == FieldOffsets(format)
           S == {n \in 0 .. N : i <= n => offset[i] <= offset[n]}
<1>0. N \in Nat /\ \A n \in 1 .. N : format[n].bit_width \in Nat
  BY DEF HasWidths
<1>1. /\ \A n \in 0 .. N : offset[n] \in Nat
      /\ \A n \in 1 .. N : offset[n] = offset[n - 1] + format[n].bit_width
  BY OffsetsOfWidths
<1> HIDE DEF offset
<1>2. 0 \in S
  BY <1>0, <1>1
<1>3. ASSUME NEW n \in 0 .. N - 1, n \in S
      PROVE  n + 1 \in S
  <2>1. n + 1 \in 1 .. N /\ (n + 1) - 1 = n
    BY <1>0
  <2>2. /\ offset[i] \in Nat /\ offset[n] \in Nat /\ offset[n + 1] \in Nat
        /\ format[n + 1].bit_width \in Nat
        /\ offset[n + 1] = offset[n] + format[n + 1].bit_width
    BY <1>0, <1>1, <2>1
  <2>3. CASE i = n + 1
    BY <1>0, <2>2, <2>3
  <2>4. CASE i <= n
    BY <1>0, <1>3, <2>2, <2>4
  <2>5. CASE i > n + 1
    BY <1>0, <2>5
  <2> QED
    BY <1>0, <2>3, <2>4, <2>5
<1>4. 0 .. N \subseteq S
  <2> HIDE DEF S, N
  <2> QED
    BY <1>0, <1>2, <1>3, UpTo
<1> QED
  BY <1>4 DEF offset

LEMMA OffsetsAscend ==
  ASSUME NEW format \in Seq(FieldDef), NEW i \in 0 .. Len(format), NEW j \in 0 .. Len(format),
         i <= j
  PROVE  FieldOffsets(format)[i] <= FieldOffsets(format)[j]
BY FieldTypes, WidthsAscend DEF HasWidths

LEMMA SumOfWidths ==
  ASSUME NEW format, HasWidths(format)
  PROVE  /\ total_bits(format) \in Nat
         /\ \A i \in 0 .. Len(format) :
              FieldOffsets(format)[i] \in Nat /\ FieldOffsets(format)[i] <= total_bits(format)
<1>1. Len(format) \in Nat /\ Len(format) \in 0 .. Len(format)
  BY DEF HasWidths
<1>2. \A i \in 0 .. Len(format) : i <= Len(format)
  BY <1>1
<1> QED
  BY <1>1, <1>2, OffsetsOfWidths, WidthsAscend DEF total_bits

LEMMA TotalBits ==
  ASSUME NEW format \in Seq(FieldDef)
  PROVE  /\ total_bits(format) \in Nat
         /\ \A i \in 0 .. Len(format) :
              FieldOffsets(format)[i] \in Nat /\ FieldOffsets(format)[i] <= total_bits(format)
BY FieldTypes, SumOfWidths DEF HasWidths

-----------------------------------------------------------------------------
(* Looking a field up by name.                                             *)

\* field_index finds the first field of the name, if there is one.
LEMMA FirstField ==
  ASSUME NEW format, Len(format) \in Nat, NEW name
  PROVE  LET i == field_index(format, name)
         IN  /\ i \in 0 .. Len(format)
             /\ i # 0 => /\ format[i].name = name
                         /\ \A j \in 1 .. i - 1 : format[j].name # name
             /\ i = 0 => \A j \in 1 .. Len(format) : format[j].name # name
<1> DEFINE hits == {i \in 1 .. Len(format) : format[i].name = name}
<1>1. CASE hits = {}
  BY <1>1 DEF field_index
<1>2. CASE hits # {}
  <2>1. \E i \in hits : \A j \in hits : i <= j
    <3>1. hits \subseteq Nat
      OBVIOUS
    <3> QED
      BY <1>2, <3>1, LeastNumber
  <2> DEFINE first == CHOOSE i \in hits : \A j \in hits : i <= j
  <2>2. first \in hits /\ \A j \in hits : first <= j
    BY <2>1
  <2>3. field_index(format, name) = first
    BY <1>2 DEF field_index
  <2> HIDE DEF first
  <2> QED
    BY <2>2, <2>3
<1> QED
  BY <1>1, <1>2

LEMMA FieldIndex ==
  ASSUME NEW format \in Seq(FieldDef), NEW name
  PROVE  LET i == field_index(format, name)
         IN  /\ i \in 0 .. Len(format)
             /\ i # 0 => /\ format[i].name = name
                         /\ \A j \in 1 .. i - 1 : format[j].name # name
             /\ i = 0 => \A j \in 1 .. Len(format) : format[j].name # name
BY FieldTypes, FirstField

\* The field of a name lies inside the format.
LEMMA FieldInside ==
  ASSUME NEW format \in Seq(FieldDef), NEW name, field_index(format, name) # 0
  PROVE  /\ bit_offset_of(format, name) \in Nat
         /\ field_width(format, name) \in Nat
         /\ bit_offset_of(format, name) + field_width(format, name) <= total_bits(format)
<1> DEFINE i == field_index(format, name)
<1>1. i \in 1 .. Len(format) /\ Len(format) \in Nat
  BY FieldIndex, FieldTypes
<1>2. /\ FieldOffsets(format)[i - 1] \in Nat
      /\ FieldOffsets(format)[i] <= total_bits(format)
      /\ FieldOffsets(format)[i] = FieldOffsets(format)[i - 1] + format[i].bit_width
      /\ format[i].bit_width \in Nat
  BY <1>1, Offsets, TotalBits, FieldTypes
<1> QED
  BY <1>2 DEF bit_offset_of, field_width

-----------------------------------------------------------------------------
(* Wire positions: which position a loop sets, and that no two positions   *)
(* share a bit.                                                            *)

\* The remainder of a number below the modulus.
LEMMA ModSmall ==
  ASSUME NEW a \in Nat, NEW m \in Nat, a < m
  PROVE  a % m = a
OBVIOUS

LEMMA ModType ==
  ASSUME NEW a \in Nat, NEW m \in Nat, m > 0
  PROVE  a % m \in 0 .. m - 1
OBVIOUS

LEMMA Difference ==
  ASSUME NEW a \in Nat, NEW b \in Nat, a <= b
  PROVE  b - a \in Nat
OBVIOUS

\* A position is its byte and its place in the byte.
LEMMA Position ==
  ASSUME NEW p \in Nat
  PROVE  /\ byte_idx(p) \in Nat
         /\ p % 8 \in 0 .. 7
         /\ p = 8 * byte_idx(p) + (p % 8)
BY DEF byte_idx

LEMMA BitIdxType ==
  ASSUME NEW order \in Orders, NEW p \in Nat
  PROVE  bit_idx(order, p) \in 0 .. 7
BY DEF bit_idx, Orders

\* A position inside the buffer is in one of its bytes.
LEMMA ByteInBuffer ==
  ASSUME NEW size \in Nat, NEW p \in Nat
  PROVE  p < 8 * size <=> byte_idx(p) \in 0 .. size - 1
BY DEF byte_idx

\* Two positions with the same byte and the same bit are the same.
LEMMA PositionUnique ==
  ASSUME NEW order \in Orders, NEW p \in Nat, NEW q \in Nat,
         byte_idx(p) = byte_idx(q), bit_idx(order, p) = bit_idx(order, q)
  PROVE  p = q
<1>1. p % 8 = q % 8
  BY DEF bit_idx, Orders
<1> QED
  BY <1>1, Position

\* The bits of an n-bit value are those that value_bit enumerates.
LEMMA ValueBitType ==
  ASSUME NEW order \in Orders, NEW n \in Nat, NEW i \in 0 .. n - 1
  PROVE  value_bit(order, n, i) \in 0 .. n - 1
BY DEF value_bit, Orders

LEMMA ValueBitOnto ==
  ASSUME NEW order \in Orders, NEW n \in Nat, NEW j \in 0 .. n - 1
  PROVE  value_bit(order, n, value_bit(order, n, j)) = j
BY DEF value_bit, Orders

-----------------------------------------------------------------------------
(* The bit loop of write_bits_runtime.                                     *)

LEMMA PutBitsType ==
  ASSUME NEW order \in Orders, NEW size \in Nat, NEW buffer \in Buffers(size),
         NEW pos \in Nat, NEW n \in Nat, NEW value
  PROVE  PutBits(order, buffer, pos, n, value) \in Buffers(size)
<1>1. DOMAIN buffer = 0 .. size - 1
  BY DEF Buffers
<1>2. ASSUME NEW b \in 0 .. size - 1
      PROVE  PutBits(order, buffer, pos, n, value)[b] \in Byte
  <2>1. buffer[b] \in Byte
    BY DEF Buffers
  <2>2. \A i \in 0 .. n - 1 : bit_idx(order, pos + i) \in 0 .. 7
    BY BitIdxType
  <2> QED
    BY <1>1, <2>1, <2>2 DEF PutBits, Byte
<1> QED
  BY <1>1, <1>2 DEF PutBits, Buffers

\* Writing sets exactly the positions of the value's 1-bits and clears none.
LEMMA PutBitsIsSet ==
  ASSUME NEW order \in Orders, NEW size \in Nat, NEW buffer \in Buffers(size),
         NEW pos \in Nat, NEW n \in Nat, NEW value,
         NEW p \in 0 .. 8 * size - 1
  PROVE  IsSet(order, PutBits(order, buffer, pos, n, value), p)
           <=> \/ IsSet(order, buffer, p)
               \/ /\ p \in pos .. pos + n - 1
                  /\ value_bit(order, n, p - pos) \in value
<1> DEFINE b == byte_idx(p)
           J == {j \in 0 .. n - 1 : /\ byte_idx(pos + j) = b
                                    /\ value_bit(order, n, j) \in value}
<1>1. b \in DOMAIN buffer
  BY ByteInBuffer DEF Buffers
<1>2. PutBits(order, buffer, pos, n, value)[b]
        = buffer[b] \cup {bit_idx(order, pos + i) : i \in J}
  BY <1>1 DEF PutBits
<1>3. ASSUME NEW i \in J, bit_idx(order, p) = bit_idx(order, pos + i)
      PROVE  p = pos + i
  BY <1>3, PositionUnique
<1>4. bit_idx(order, p) \in {bit_idx(order, pos + i) : i \in J}
        <=> /\ p \in pos .. pos + n - 1
            /\ value_bit(order, n, p - pos) \in value
  <2>1. ASSUME bit_idx(order, p) \in {bit_idx(order, pos + i) : i \in J}
        PROVE  /\ p \in pos .. pos + n - 1
               /\ value_bit(order, n, p - pos) \in value
    <3>1. PICK i \in J : bit_idx(order, p) = bit_idx(order, pos + i)
      BY <2>1
    <3>2. p = pos + i /\ i = p - pos
      BY <3>1, <1>3
    <3> QED
      BY <3>2
  <2>2. ASSUME p \in pos .. pos + n - 1, value_bit(order, n, p - pos) \in value
        PROVE  bit_idx(order, p) \in {bit_idx(order, pos + i) : i \in J}
    <3>1. p - pos \in J /\ pos + (p - pos) = p
      BY <2>2
    <3> QED
      BY <3>1
  <2> QED
    BY <2>1, <2>2
<1> QED
  BY <1>2, <1>4 DEF IsSet

-----------------------------------------------------------------------------
(* The same loop as the compile-time writer has it: one bit, and one step  *)
(* of the cursor, per iteration.                                           *)

Writers(size) == [buffer : Buffers(size), pos : Nat, ok : BOOLEAN]

WithBit(order, bytes, p) == [bytes EXCEPT ![byte_idx(p)] = @ \cup {bit_idx(order, p)}]

BitLoop(order, w, n, value) ==
  LET after[i \in 0 .. n] ==
        IF i = 0 THEN w
        ELSE LET s == after[i - 1]
             IN  [s EXCEPT
                    !.pos = @ + 1,
                    !.buffer = IF value_bit(order, n, i - 1) \in value
                                 THEN WithBit(order, @, s.pos) ELSE @]
  IN  after[n]

\* It is PutBits.
LEMMA BitLoopIs ==
  ASSUME NEW order \in Orders, NEW size \in Nat, NEW w \in Writers(size), NEW n \in Nat, NEW value
  PROVE  BitLoop(order, w, n, value) =
           [buffer |-> PutBits(order, w.buffer, w.pos, n, value), pos |-> w.pos + n, ok |-> w.ok]
<1> DEFINE Js(i, b) == {k \in 0 .. i - 1 : /\ byte_idx(w.pos + k) = b
                                           /\ value_bit(order, n, k) \in value}
           Put(i) == [b \in DOMAIN w.buffer |->
                        w.buffer[b] \cup {bit_idx(order, w.pos + j) : j \in Js(i, b)}]
           next(s, i) == [s EXCEPT
                            !.pos = @ + 1,
                            !.buffer = IF value_bit(order, n, i - 1) \in value
                                         THEN WithBit(order, @, s.pos) ELSE @]
           closed == [i \in 0 .. n |-> [buffer |-> Put(i), pos |-> w.pos + i, ok |-> w.ok]]
           after[i \in 0 .. n] == IF i = 0 THEN w ELSE next(after[i - 1], i)
<1>0. w.pos \in Nat /\ w = [buffer |-> w.buffer, pos |-> w.pos, ok |-> w.ok]
  BY DEF Writers
<1>1. BitLoop(order, w, n, value) = after[n]
  BY DEF BitLoop
<1>2. ASSUME NEW i \in 1 .. n
      PROVE  Put(i) = IF value_bit(order, n, i - 1) \in value
                        THEN WithBit(order, Put(i - 1), w.pos + (i - 1))
                        ELSE Put(i - 1)
  <2> DEFINE k == i - 1
  <2>1. \A b : Js(i, b) = IF byte_idx(w.pos + k) = b /\ value_bit(order, n, k) \in value
                            THEN Js(k, b) \cup {k} ELSE Js(k, b)
    <3>1. k \in Nat /\ 0 .. i - 1 = (0 .. k - 1) \cup {k}
      OBVIOUS
    <3> QED
      BY <3>1
  <2> HIDE DEF k, Js
  <2>2. DOMAIN Put(i) = DOMAIN w.buffer /\ DOMAIN Put(k) = DOMAIN w.buffer
    OBVIOUS
  <2>3. ASSUME NEW b \in DOMAIN w.buffer
        PROVE  Put(i)[b] = IF byte_idx(w.pos + k) = b /\ value_bit(order, n, k) \in value
                             THEN Put(k)[b] \cup {bit_idx(order, w.pos + k)} ELSE Put(k)[b]
    BY <2>1
  <2> QED
    BY <2>2, <2>3 DEF k, WithBit
<1>3. closed[0] = w
  <2>1. Put(0) = w.buffer
    <3>1. w.buffer = [b \in DOMAIN w.buffer |-> w.buffer[b]]
      BY DEF Writers, Buffers
    <3>2. \A b : Js(0, b) = {}
      OBVIOUS
    <3> HIDE DEF Js
    <3>3. \A b \in DOMAIN w.buffer : {bit_idx(order, w.pos + j) : j \in Js(0, b)} = {}
      BY <3>2
    <3> QED
      BY <3>1, <3>3
  <2> HIDE DEF Put
  <2> QED
    BY <1>0, <2>1
<1>4. ASSUME NEW i \in 1 .. n
      PROVE  closed[i] = next(closed[i - 1], i)
  <2> DEFINE s == closed[i - 1]
             t == next(s, i)
             S == [buffer : {Put(i - 1), Put(i)}, pos : Nat, ok : BOOLEAN]
  <2>1. /\ i - 1 \in 0 .. n /\ w.pos + (i - 1) \in Nat /\ w.pos + i \in Nat
        /\ w.pos + (i - 1) + 1 = w.pos + i
        /\ w.ok \in BOOLEAN
    BY <1>0 DEF Writers
  <2> HIDE DEF Put
  <2>2. s = [buffer |-> Put(i - 1), pos |-> w.pos + (i - 1), ok |-> w.ok] /\ s \in S
    BY <2>1
  <2>3. closed[i] = [buffer |-> Put(i), pos |-> w.pos + i, ok |-> w.ok] /\ closed[i] \in S
    BY <2>1
  <2> HIDE DEF s
  <2>5. t.buffer = Put(i)
    BY <1>2, <2>2
  <2>6. t.pos = w.pos + i /\ t.ok = w.ok
    BY <2>1, <2>2
  <2>7. t \in S
    BY <2>2, <2>5, <2>1
  <2> HIDE DEF t, closed, next
  <2>8. t = closed[i]
    BY <2>3, <2>5, <2>6, <2>7
  <2> QED
    BY <2>8 DEF s, t
<1>5. closed = [i \in 0 .. n |-> IF i = 0 THEN w ELSE next(closed[i - 1], i)]
  <2>1. closed = [i \in 0 .. n |-> closed[i]]
    OBVIOUS
  <2> HIDE DEF closed, next
  <2>2. \A i \in 0 .. n : closed[i] = IF i = 0 THEN w ELSE next(closed[i - 1], i)
    BY <1>3, <1>4
  <2> QED
    BY <2>1, <2>2, Zenon
<1>6. after = [i \in 0 .. n |-> IF i = 0 THEN w ELSE next(after[i - 1], i)]
  <2> HIDE DEF closed, next
  <2> QED
    BY <1>5, Zenon
<1> HIDE DEF after, closed, next
<1>7. after[0] = closed[0] /\ \A i \in 1 .. n : after[i - 1] = closed[i - 1] => after[i] = closed[i]
  BY <1>3, <1>4, <1>6
<1>8. after[n] = closed[n]
  <2>1. \A i \in 0 .. n : after[i] = closed[i]
    BY <1>7, SameRecursion
  <2> QED
    BY <2>1
<1>9. Put(n) = PutBits(order, w.buffer, w.pos, n, value)
  BY DEF PutBits
<1> HIDE DEF Put
<1> QED
  BY <1>1, <1>8, <1>9 DEF closed

-----------------------------------------------------------------------------
(* The byte loop of write_aligned.                                         *)

LEMMA PutAlignedType ==
  ASSUME NEW order \in Orders, NEW size \in Nat, NEW buffer \in Buffers(size),
         NEW first \in Nat, NEW k \in Nat, NEW value
  PROVE  PutAligned(order, buffer, first, k, value) \in Buffers(size)
BY DEF PutAligned, Buffers, Byte

\* It overwrites 8k positions with the bits that the bit loop would put there.
LEMMA PutAlignedIsSet ==
  ASSUME NEW order \in Orders, NEW size \in Nat, NEW buffer \in Buffers(size),
         NEW first \in Nat, NEW k \in Nat, NEW value,
         NEW p \in 0 .. 8 * size - 1
  PROVE  IsSet(order, PutAligned(order, buffer, first, k, value), p)
           <=> IF p \in 8 * first .. 8 * first + 8 * k - 1
                 THEN value_bit(order, 8 * k, p - 8 * first) \in value
                 ELSE IsSet(order, buffer, p)
<1> DEFINE b == byte_idx(p)
           new == PutAligned(order, buffer, first, k, value)
<1>0. b \in Nat /\ p % 8 \in 0 .. 7 /\ p = 8 * b + (p % 8)
  <2>1. p \in Nat
    OBVIOUS
  <2> QED
    BY <2>1, Position, Zenon
<1>1. b \in DOMAIN buffer
  BY ByteInBuffer DEF Buffers
<1>2. p \in 8 * first .. 8 * first + 8 * k - 1 <=> b \in first .. first + k - 1
  BY DEF byte_idx
<1>3. CASE b \in first .. first + k - 1
  <2>1. new[b] = {j \in 0 .. 7 : 8 * byte_shift(order, k, b - first) + j \in value}
    BY <1>1, <1>3 DEF PutAligned
  <2>2. 8 * byte_shift(order, k, b - first) + bit_idx(order, p)
          = value_bit(order, 8 * k, p - 8 * first)
    <3> HIDE DEF b
    <3>1. CASE order = "BigEndian"
      BY <1>0, <1>3, <3>1 DEF byte_shift, bit_idx, value_bit
    <3>2. CASE order = "LittleEndian"
      BY <1>0, <1>3, <3>2 DEF byte_shift, bit_idx, value_bit
    <3> QED
      BY <3>1, <3>2 DEF Orders
  <2> QED
    BY <1>2, <1>3, <2>1, <2>2, BitIdxType DEF IsSet
<1>4. CASE b \notin first .. first + k - 1
  BY <1>1, <1>2, <1>4 DEF PutAligned, IsSet
<1> QED
  BY <1>3, <1>4

-----------------------------------------------------------------------------
(* The bit loop of read_bits_runtime.                                      *)

\* Reading yields v exactly if every position holds the bit of v it stands for.
LEMMA GetBitsIff ==
  ASSUME NEW order \in Orders, NEW buffer, NEW pos \in Nat, NEW n \in Nat,
         NEW v \in SUBSET (0 .. n - 1)
  PROVE  GetBits(order, buffer, pos, n) = v
           <=> \A i \in 0 .. n - 1 :
                 IsSet(order, buffer, pos + i) <=> value_bit(order, n, i) \in v
<1> DEFINE g == GetBits(order, buffer, pos, n)
<1>1. \A i \in 0 .. n - 1 : value_bit(order, n, i) \in g <=> IsSet(order, buffer, pos + i)
  <2> SUFFICES ASSUME NEW i \in 0 .. n - 1
               PROVE  value_bit(order, n, i) \in g <=> IsSet(order, buffer, pos + i)
    OBVIOUS
  <2>1. ASSUME NEW j \in 0 .. n - 1, value_bit(order, n, j) = value_bit(order, n, i)
        PROVE  i = j
    BY <2>1 DEF value_bit, Orders
  <2> QED
    BY <2>1 DEF GetBits
<1>2. g \subseteq 0 .. n - 1
  BY ValueBitType DEF GetBits
<1>3. \A j \in 0 .. n - 1 : \E i \in 0 .. n - 1 : j = value_bit(order, n, i)
  BY ValueBitType, ValueBitOnto
<1>4. ASSUME \A i \in 0 .. n - 1 : value_bit(order, n, i) \in g <=> value_bit(order, n, i) \in v
      PROVE  g = v
  <2>1. \A j \in 0 .. n - 1 : j \in g <=> j \in v
    BY <1>3, <1>4
  <2> QED
    BY <1>2, <2>1
<1>5. g = v <=> \A i \in 0 .. n - 1 : value_bit(order, n, i) \in g <=> value_bit(order, n, i) \in v
  BY <1>4
<1> QED
  BY <1>1, <1>5

LEMMA GetBitsType ==
  ASSUME NEW order \in Orders, NEW buffer, NEW pos \in Nat, NEW n \in Nat
  PROVE  GetBits(order, buffer, pos, n) \in SUBSET (0 .. n - 1)
BY ValueBitType DEF GetBits

-----------------------------------------------------------------------------
(* The byte loop of read_aligned.                                          *)

\* The k bytes from first on, put together in wire order ...
Joined(order, buffer, first, k) ==
  UNION {ShiftedByte(buffer[first + t], byte_shift(order, k, t)) : t \in 0 .. k - 1}

\* ... are the bits in wire order.
LEMMA BytesAreBits ==
  ASSUME NEW order \in Orders, NEW size \in Nat, NEW buffer \in Buffers(size),
         NEW first \in Nat, NEW k \in Nat, first + k <= size
  PROVE  Joined(order, buffer, first, k) = GetBits(order, buffer, 8 * first, 8 * k)
<1> DEFINE value == Joined(order, buffer, first, k)
           pos == 8 * first
           n == 8 * k
<1>0. \A t \in 0 .. k - 1 : buffer[first + t] \subseteq 0 .. 7
  BY DEF Buffers, Byte
<1>1. \A x : x \in value <=> \E t \in 0 .. k - 1 : \E j \in buffer[first + t] :
                               x = 8 * byte_shift(order, k, t) + j
  BY DEF ShiftedByte, Joined
<1> HIDE DEF value
<1>2. \A t \in 0 .. k - 1 : byte_shift(order, k, t) \in 0 .. k - 1
  BY DEF byte_shift, Orders
<1>3. value \in SUBSET (0 .. 8 * k - 1)
  <2> SUFFICES ASSUME NEW x \in value
               PROVE  x \in 0 .. 8 * k - 1
    OBVIOUS
  <2>1. PICK t \in 0 .. k - 1 : \E j \in buffer[first + t] : x = 8 * byte_shift(order, k, t) + j
    BY <1>1
  <2>2. PICK j \in 0 .. 7 : x = 8 * byte_shift(order, k, t) + j
    BY <1>0, <2>1
  <2> DEFINE s == byte_shift(order, k, t)
  <2>3. s \in 0 .. k - 1
    BY <1>2
  <2> HIDE DEF s
  <2> QED
    BY <2>2, <2>3 DEF s
<1>4. ASSUME NEW i \in 0 .. 8 * k - 1
      PROVE  IsSet(order, buffer, 8 * first + i) <=> value_bit(order, 8 * k, i) \in value
  <2> DEFINE t == i \div 8
             p == 8 * first + i
  <2>1. t \in 0 .. k - 1 /\ i % 8 \in 0 .. 7 /\ i = 8 * t + (i % 8)
    OBVIOUS
  <2>2. byte_idx(p) = first + t /\ p % 8 = i % 8
    BY <2>1 DEF byte_idx
  <2>3. bit_idx(order, p) \in 0 .. 7
    BY <2>1, <2>2 DEF bit_idx, Orders
  <2>4. value_bit(order, 8 * k, i) = 8 * byte_shift(order, k, t) + bit_idx(order, p)
    <3> HIDE DEF t
    <3>1. CASE order = "BigEndian"
      BY <2>1, <2>2, <3>1 DEF value_bit, byte_shift, bit_idx
    <3>2. CASE order = "LittleEndian"
      BY <2>1, <2>2, <3>2 DEF value_bit, byte_shift, bit_idx
    <3> QED
      BY <3>1, <3>2 DEF Orders
  <2> HIDE DEF t, p
  <2>5. ASSUME NEW u \in 0 .. k - 1, NEW j \in 0 .. 7,
               8 * byte_shift(order, k, t) + bit_idx(order, p) = 8 * byte_shift(order, k, u) + j
        PROVE  u = t /\ j = bit_idx(order, p)
    <3> DEFINE a == byte_shift(order, k, t)
               b == byte_shift(order, k, u)
               c == bit_idx(order, p)
    <3>1. a \in Nat /\ b \in Nat /\ c \in 0 .. 7 /\ 8 * a + c = 8 * b + j
      BY <1>2, <2>1, <2>3, <2>5
    <3>2. a = b => u = t
      BY <2>1 DEF byte_shift, Orders
    <3> HIDE DEF a, b, c
    <3>3. a = b /\ j = c
      BY <3>1
    <3> QED
      BY <3>2, <3>3 DEF c
  <2>6. value_bit(order, 8 * k, i) \in value <=> bit_idx(order, p) \in buffer[first + t]
    BY <1>0, <1>1, <2>1, <2>4, <2>5
  <2> QED
    BY <2>2, <2>6 DEF IsSet, p
<1>5. pos \in Nat /\ n \in Nat
  OBVIOUS
<1> HIDE DEF pos, n
<1>6. /\ value \in SUBSET (0 .. n - 1)
      /\ \A i \in 0 .. n - 1 :
           IsSet(order, buffer, pos + i) <=> value_bit(order, n, i) \in value
  BY <1>3, <1>4 DEF pos, n
<1>7. GetBits(order, buffer, pos, n) = value
  BY <1>5, <1>6, GetBitsIff
<1> QED
  BY <1>7 DEF value, pos, n

\* read_aligned returns the bits that the bit loop would read: big-endian always,
\* little-endian if no byte is shifted past the sign bit of an int.
LEMMA GetAlignedIsBits ==
  ASSUME NEW order \in Orders, NEW size \in Nat, NEW buffer \in Buffers(size),
         NEW first \in Nat, NEW k \in Nat, first + k <= size, order = "BigEndian" \/ k <= 4
  PROVE  \A value \in GetAligned(order, buffer, first, k) :
           value = GetBits(order, buffer, 8 * first, 8 * k)
<1> SUFFICES ASSUME NEW value \in GetAligned(order, buffer, first, k)
             PROVE  value = GetBits(order, buffer, 8 * first, 8 * k)
  OBVIOUS
<1>0. Joined(order, buffer, first, k) = GetBits(order, buffer, 8 * first, 8 * k)
  BY BytesAreBits
<1>1. CASE order = "BigEndian"
  <2>1. value = Joined(order, buffer, first, k)
    BY <1>1 DEF GetAligned, byte_shift, Joined
  <2> QED
    BY <1>0, <2>1
<1>2. CASE order = "LittleEndian" /\ k <= 4
  <2>1. PICK shift \in IntShifts :
          value = UNION {IntShiftedByte(buffer[first + t], t, k, shift) : t \in 0 .. k - 1}
    BY <1>2 DEF GetAligned
  <2>2. ASSUME NEW t \in 0 .. k - 1
        PROVE  IntShiftedByte(buffer[first + t], t, k, shift)
                 = ShiftedByte(buffer[first + t], byte_shift(order, k, t))
    <3>1. t < 4 /\ (t = 3 => 32 .. 8 * k - 1 = {})
      BY <1>2
    <3> QED
      BY <1>2, <3>1 DEF IntShiftedByte, byte_shift
  <2>3. value = Joined(order, buffer, first, k)
    BY <2>1, <2>2 DEF Joined
  <2> QED
    BY <1>0, <2>3
<1> QED
  BY <1>1, <1>2 DEF Orders

LEMMA GetAlignedType ==
  ASSUME NEW order \in Orders, NEW size \in Nat, NEW buffer \in Buffers(size),
         NEW first \in Nat, NEW k \in AlignedSizes, first + k <= size
  PROVE  GetAligned(order, buffer, first, k) \subseteq Word
<1> SUFFICES ASSUME NEW value \in GetAligned(order, buffer, first, k), NEW x \in value
             PROVE  x \in 0 .. 63
  BY DEF Word
<1>0. k \in 1 .. 8 /\ \A t \in 0 .. k - 1 : buffer[first + t] \subseteq 0 .. 7
  BY DEF AlignedSizes, Buffers, Byte
<1>1. CASE order = "BigEndian"
  <2>1. PICK t \in 0 .. k - 1 : x \in ShiftedByte(buffer[first + t], k - 1 - t)
    BY <1>1 DEF GetAligned
  <2>2. PICK j \in 0 .. 7 : x = 8 * (k - 1 - t) + j
    BY <1>0, <2>1 DEF ShiftedByte
  <2> QED
    BY <1>0, <2>2
<1>2. CASE order = "LittleEndian"
  <2>1. PICK shift \in IntShifts, t \in 0 .. k - 1 :
          x \in IntShiftedByte(buffer[first + t], t, k, shift)
    BY <1>2 DEF GetAligned
  <2> DEFINE byte == buffer[first + t]
  <2>2. \/ x \in ShiftedByte(byte, t)
        \/ x \in ShiftedByte(byte, t - 4) /\ t >= 4
        \/ x \in 32 .. 8 * k - 1
    <3>1. CASE t < 4
      BY <2>1, <3>1 DEF IntShiftedByte
    <3>2. CASE t >= 4
      BY <2>1, <3>2 DEF IntShiftedByte, IntShifts
    <3> QED
      BY <3>1, <3>2
  <2>3. \/ x \in 8 * t .. 8 * t + 7
        \/ x \in 8 * (t - 4) .. 8 * (t - 4) + 7 /\ t >= 4
        \/ x \in 32 .. 8 * k - 1
    <3>1. byte \subseteq 0 .. 7
      BY <1>0
    <3> QED
      BY <2>2, <3>1 DEF ShiftedByte
  <2> QED
    BY <1>0, <2>3
<1> QED
  BY <1>1, <1>2 DEF Orders
=============================================================================
