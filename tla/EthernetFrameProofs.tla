------------------------ MODULE EthernetFrameProofs ------------------------
(***************************************************************************)
(* The parser of the Ethernet example, for frames of every length and      *)
(* content.  The builder ignores whether its calls succeed, so the frame   *)
(* holds the headers that had room, each where the ones before it end; the *)
(* parser reads a header only where the length lets it, and what it has    *)
(* read tells it which header is next.                                     *)
(***************************************************************************)
EXTENDS EthernetFrame, WireProofs, FiniteSetTheorems

Headers == {kEthernetHeader, kVlanTag, kIpv4Header}

\* What the bytes hold where field i of a header would be that starts at bit from.
FieldAt(bytes, from, format, i) ==
  GetBits("BigEndian", bytes, from + FieldOffsets(format)[i - 1], format[i].bit_width)

\* The header with these values starts at bit from.
Holds(bytes, from, format, vs) ==
  \A i \in 1 .. Len(format) :
    FieldAt(bytes, from, format, i) = Truncate(vs[i], format[i].bit_width)

Outer(f) == IF f.tag = <<>> THEN f.ethertype ELSE Vlan

\* The bit after the last EtherType.
Payload(f) == IF f.tag = <<>> THEN 112 ELSE 144

\* Whatever is left out for lack of room, the rest of the frame is in place.
Built(n, f, bytes) ==
  /\ bytes \in Buffers(n)
  /\ 112 <= 8 * n => Holds(bytes, 0, kEthernetHeader, Append(f.macs, Outer(f)))
  /\ f.tag # <<>> /\ 128 <= 8 * n => Holds(bytes, 112, kVlanTag, f.tag)
  /\ f.tag # <<>> /\ 144 <= 8 * n => GetBits("BigEndian", bytes, 128, 16) = f.ethertype
  /\ f.ethertype = Ipv4 /\ Payload(f) + 160 <= 8 * n =>
       Holds(bytes, Payload(f), kIpv4Header, f.ipv4)

-----------------------------------------------------------------------------
(* The inductive invariant.                                                *)

Idle == call.op = "none"

\* vs are the first values of a header that starts at bit from.
Prefix(vs, format, from) ==
  /\ vs \in Seq(Word) /\ Len(vs) <= Len(format)
  /\ \A i \in 1 .. Len(vs) : vs[i] = FieldAt(buffer, from, format, i)

\* The call frame of a deserialize of that header.
Loops(format, from) ==
  call = [op |-> "deserialize", format |-> format, types |-> <<>>, from |-> from,
          values |-> call.values]

\* A deserialize of a header at bit from goes on, has returned, or has thrown.
Reading(format, from) ==
  LET fits == from + total_bits(format) <= 8 * size
  IN  \/ /\ fits /\ Loops(format, from) /\ Prefix(call.values, format, from)
         /\ bit_offset_ = from + FieldOffsets(format)[Len(call.values)]
      \/ /\ fits /\ Idle /\ last.status = "ok"
         /\ packet.format = format /\ Prefix(packet.values, format, from)
         /\ Len(packet.values) = Len(format)
         /\ bit_offset_ = from + total_bits(format)
      \/ ~fits /\ Idle /\ last.status = "out_of_range"

\* The names under which each call lets the parser report.
EthernetNames == {"dest_mac", "src_mac", "ethertype"}
VlanNames == {"vid"}
InnerNames == {"inner"}
Ipv4Names == {"version", "ttl", "protocol"}

\* What is to be reported of the Ethernet header and the tag, and of all.
LinkNames(f) ==
  EthernetNames \cup (IF f.tag = <<>> THEN {} ELSE VlanNames \cup InnerNames)
AllNames(f) == LinkNames(f) \cup (IF f.ethertype = Ipv4 THEN Ipv4Names ELSE {})

Reported(names) == {<<name, Sent(frame, name)>> : name \in names}

Fits(bits) == bits <= 8 * size

\* What holds while the parser waits for each of its calls.
AtStart == Idle /\ bit_offset_ = 0 /\ reports = {}
AtEthernet == Reading(kEthernetHeader, 0) /\ reports = {}
AtVlan ==
  /\ frame.tag # <<>> /\ Fits(112)
  /\ Reading(kVlanTag, 112)
  /\ reports = Reported(EthernetNames)
AtInner ==
  /\ frame.tag # <<>> /\ Fits(128) /\ Idle
  /\ IF Fits(144) THEN last.status = "ok" /\ last.value = frame.ethertype /\ bit_offset_ = 144
                  ELSE last.status = "out_of_range"
  /\ reports = Reported(EthernetNames \cup VlanNames)
AtIpv4 ==
  /\ frame.ethertype = Ipv4 /\ Fits(Payload(frame))
  /\ Reading(kIpv4Header, Payload(frame))
  /\ reports = Reported(LinkNames(frame))
AtDone == Announced(frame) <= size /\ reports = Reported(AllNames(frame))
AtThrown == Announced(frame) > size /\ reports \subseteq Reported(AllNames(frame))

ParserInv ==
  /\ frame \in Requests /\ size \in Sizes
  /\ buffer = Build(size, frame)
  /\ \/ pc = "start" /\ AtStart
     \/ pc = "ethernet" /\ AtEthernet
     \/ pc = "vlan" /\ AtVlan
     \/ pc = "inner" /\ AtInner
     \/ pc = "ipv4" /\ AtIpv4
     \/ pc = "done" /\ AtDone
     \/ pc = "thrown" /\ AtThrown

-----------------------------------------------------------------------------
(* The layout of the three headers.                                        *)

LEMMA FieldsAre ==
  ASSUME NEW names, NEW widths, Len(names) \in Nat
  PROVE  /\ Len(Fields(names, widths)) = Len(names)
         /\ \A i \in 1 .. Len(names) :
              /\ Fields(names, widths)[i].name = names[i]
              /\ Fields(names, widths)[i].bit_width = widths[i]
BY DEF Fields

LEMMA EthernetLayout ==
  /\ HasWidths(kEthernetHeader) /\ Len(kEthernetHeader) = 3
  /\ \A i \in 1 .. 3 : kEthernetHeader[i].bit_width \in 1 .. 64
  /\ kEthernetHeader[1].name = "dest_mac" /\ kEthernetHeader[2].name = "src_mac"
  /\ kEthernetHeader[3].name = "ethertype" /\ kEthernetHeader[3].bit_width = 16
  /\ total_bits(kEthernetHeader) = 112
<1> DEFINE names == <<"dest_mac", "src_mac", "ethertype">>
           widths == <<48, 48, 16>>
           f == kEthernetHeader
<1>1. Len(names) = 3
  OBVIOUS
<1>2. Len(f) = 3 /\ \A i \in 1 .. 3 : f[i].name = names[i] /\ f[i].bit_width = widths[i]
  BY <1>1, FieldsAre DEF kEthernetHeader
<1>3. /\ f[1].name = "dest_mac" /\ f[2].name = "src_mac" /\ f[3].name = "ethertype"
      /\ f[1].bit_width = 48 /\ f[2].bit_width = 48 /\ f[3].bit_width = 16
  BY <1>2
<1> HIDE DEF f, names, widths
<1>4. \A i \in 1 .. 3 : f[i].bit_width \in 1 .. 64
  BY <1>3
<1>5. HasWidths(f)
  BY <1>2, <1>4 DEF HasWidths
<1>6. /\ FieldOffsets(f)[0] = 0
      /\ \A i \in 1 .. 3 : FieldOffsets(f)[i] = FieldOffsets(f)[i - 1] + f[i].bit_width
  BY <1>2, <1>5, OffsetsOfWidths
<1>7. FieldOffsets(f)[1] = 48 /\ FieldOffsets(f)[2] = 96 /\ FieldOffsets(f)[3] = 112
  BY <1>3, <1>6
<1> QED
  BY <1>2, <1>3, <1>4, <1>5, <1>7 DEF total_bits, f

LEMMA VlanLayout ==
  /\ HasWidths(kVlanTag) /\ Len(kVlanTag) = 3
  /\ \A i \in 1 .. 3 : kVlanTag[i].bit_width \in 1 .. 64
  /\ kVlanTag[3].name = "vid"
  /\ total_bits(kVlanTag) = 16
<1> DEFINE names == <<"pcp", "dei", "vid">>
           widths == <<3, 1, 12>>
           f == kVlanTag
<1>1. Len(names) = 3
  OBVIOUS
<1>2. Len(f) = 3 /\ \A i \in 1 .. 3 : f[i].name = names[i] /\ f[i].bit_width = widths[i]
  BY <1>1, FieldsAre DEF kVlanTag
<1>3. f[3].name = "vid" /\ f[1].bit_width = 3 /\ f[2].bit_width = 1 /\ f[3].bit_width = 12
  BY <1>2
<1> HIDE DEF f, names, widths
<1>4. \A i \in 1 .. 3 : f[i].bit_width \in 1 .. 64
  BY <1>3
<1>5. HasWidths(f)
  BY <1>2, <1>4 DEF HasWidths
<1>6. /\ FieldOffsets(f)[0] = 0
      /\ \A i \in 1 .. 3 : FieldOffsets(f)[i] = FieldOffsets(f)[i - 1] + f[i].bit_width
  BY <1>2, <1>5, OffsetsOfWidths
<1>7. FieldOffsets(f)[1] = 3 /\ FieldOffsets(f)[2] = 4 /\ FieldOffsets(f)[3] = 16
  BY <1>3, <1>6
<1> QED
  BY <1>2, <1>3, <1>4, <1>5, <1>7 DEF total_bits, f

LEMMA Ipv4Layout ==
  /\ HasWidths(kIpv4Header) /\ Len(kIpv4Header) = 13
  /\ \A i \in 1 .. 13 : kIpv4Header[i].bit_width \in 1 .. 64
  /\ kIpv4Header[1].name = "version"
  /\ kIpv4Header[9].name = "ttl" /\ kIpv4Header[10].name = "protocol"
  /\ total_bits(kIpv4Header) = 160
<1> DEFINE names == <<"version", "ihl", "dscp", "ecn", "total_length", "identification", "flags",
                      "fragment_offset", "ttl", "protocol", "header_checksum", "src_ip", "dst_ip">>
           widths == <<4, 4, 6, 2, 16, 16, 3, 13, 8, 8, 16, 32, 32>>
           f == kIpv4Header
<1>1. Len(names) = 13
  OBVIOUS
<1>2. Len(f) = 13 /\ \A i \in 1 .. 13 : f[i].name = names[i] /\ f[i].bit_width = widths[i]
  <2>1. f = Fields(names, widths)
    BY DEF kIpv4Header
  <2> HIDE DEF f, names, widths
  <2>2. Len(names) \in Nat
    BY <1>1
  <2>3. /\ Len(f) = Len(names)
        /\ \A i \in 1 .. Len(names) : f[i].name = names[i] /\ f[i].bit_width = widths[i]
    BY <2>1, <2>2, FieldsAre
  <2> QED
    BY <1>1, <2>3
<1>3. f[1].name = "version" /\ f[9].name = "ttl" /\ f[10].name = "protocol"
  BY <1>2
<1>4. /\ f[1].bit_width = 4 /\ f[2].bit_width = 4 /\ f[3].bit_width = 6 /\ f[4].bit_width = 2
      /\ f[5].bit_width = 16 /\ f[6].bit_width = 16 /\ f[7].bit_width = 3
      /\ f[8].bit_width = 13 /\ f[9].bit_width = 8 /\ f[10].bit_width = 8
      /\ f[11].bit_width = 16 /\ f[12].bit_width = 32 /\ f[13].bit_width = 32
  BY <1>2
<1> HIDE DEF f, names, widths
<1>5. \A i \in 1 .. 13 : f[i].bit_width \in 1 .. 64
  BY <1>4
<1>6. HasWidths(f)
  BY <1>2, <1>5 DEF HasWidths
<1>7. /\ FieldOffsets(f)[0] = 0
      /\ \A i \in 1 .. 13 : FieldOffsets(f)[i] = FieldOffsets(f)[i - 1] + f[i].bit_width
  BY <1>2, <1>6, OffsetsOfWidths, ZenonT(30)
<1>8. /\ FieldOffsets(f)[1] = 4 /\ FieldOffsets(f)[2] = 8 /\ FieldOffsets(f)[3] = 14
      /\ FieldOffsets(f)[4] = 16 /\ FieldOffsets(f)[5] = 32
  BY <1>4, <1>7
<1>9. /\ FieldOffsets(f)[6] = 48 /\ FieldOffsets(f)[7] = 51 /\ FieldOffsets(f)[8] = 64
      /\ FieldOffsets(f)[9] = 72 /\ FieldOffsets(f)[10] = 80
  BY <1>4, <1>7, <1>8
<1>10. FieldOffsets(f)[13] = 160
  <2>1. FieldOffsets(f)[11] = 96 /\ FieldOffsets(f)[12] = 128
    BY <1>4, <1>7, <1>9
  <2> QED
    BY <1>4, <1>7, <2>1
<1> QED
  BY <1>2, <1>3, <1>5, <1>6, <1>10 DEF total_bits, f

\* What the loops need of a header.
LEMMA HeadersAre ==
  ASSUME NEW format \in Headers
  PROVE  /\ HasWidths(format) /\ Len(format) \in Nat
         /\ total_bits(format) \in 0 .. 160
         /\ FieldOffsets(format)[0] = 0 /\ FieldOffsets(format)[Len(format)] = total_bits(format)
         /\ \A i \in 1 .. Len(format) :
              /\ format[i].bit_width \in 1 .. 64
              /\ ~is_padding_field(format[i].name)
              /\ FieldOffsets(format)[i - 1] \in Nat /\ FieldOffsets(format)[i] \in Nat
              /\ FieldOffsets(format)[i] = FieldOffsets(format)[i - 1] + format[i].bit_width
              /\ FieldOffsets(format)[i] <= total_bits(format)
<1>1. /\ HasWidths(format) /\ Len(format) \in Nat /\ total_bits(format) \in 0 .. 160
      /\ \A i \in 1 .. Len(format) : format[i].bit_width \in 1 .. 64
  <2>1. CASE format = kEthernetHeader
    BY <2>1, EthernetLayout
  <2>2. CASE format = kVlanTag
    BY <2>2, VlanLayout
  <2>3. CASE format = kIpv4Header
    BY <2>3, Ipv4Layout
  <2> QED
    BY <2>1, <2>2, <2>3 DEF Headers
<1>2. \A i \in 1 .. Len(format) : ~is_padding_field(format[i].name)
  BY NoPadding DEF Headers
<1>3. \A i \in 1 .. Len(format) : i \in 0 .. Len(format) /\ i - 1 \in 0 .. Len(format)
  BY <1>1
<1> QED
  BY <1>1, <1>2, <1>3, OffsetsOfWidths, SumOfWidths DEF total_bits

LEMMA IndexOf ==
  ASSUME NEW format, Len(format) \in Nat, NEW k \in 1 .. Len(format)
  PROVE  /\ field_index(format, format[k].name) \in 1 .. Len(format)
         /\ format[field_index(format, format[k].name)].name = format[k].name
<1> DEFINE name == format[k].name
           i == field_index(format, name)
<1>1. /\ i \in 0 .. Len(format)
      /\ i # 0 => format[i].name = name
      /\ i = 0 => \A j \in 1 .. Len(format) : format[j].name # name
  BY FirstField
<1> QED
  BY <1>1

\* What the parser reads of a header is there under its name.
LEMMA Indices ==
  /\ field_index(kEthernetHeader, "dest_mac") = 1
  /\ field_index(kEthernetHeader, "src_mac") = 2
  /\ field_index(kEthernetHeader, "ethertype") = 3
  /\ field_index(kVlanTag, "vid") \in 1 .. 3
  /\ \A name \in Ipv4Names : field_index(kIpv4Header, name) \in 1 .. 13
<1>1. ASSUME NEW k \in 1 .. 3
      PROVE  field_index(kEthernetHeader, kEthernetHeader[k].name) = k
  <2>1. LET i == field_index(kEthernetHeader, kEthernetHeader[k].name)
        IN  i \in 1 .. 3 /\ kEthernetHeader[i].name = kEthernetHeader[k].name
    <3>1. Len(kEthernetHeader) = 3 /\ Len(kEthernetHeader) \in Nat
      BY EthernetLayout
    <3> QED
      BY <3>1, IndexOf
  <2> QED
    BY <2>1, EthernetLayout
<1>2. ASSUME NEW k \in 1 .. 3
      PROVE  field_index(kVlanTag, kVlanTag[k].name) \in 1 .. 3
  <2>1. Len(kVlanTag) = 3 /\ Len(kVlanTag) \in Nat
    BY VlanLayout
  <2> QED
    BY <2>1, IndexOf
<1>3. ASSUME NEW k \in 1 .. 13
      PROVE  field_index(kIpv4Header, kIpv4Header[k].name) \in 1 .. 13
  <2>1. Len(kIpv4Header) = 13 /\ Len(kIpv4Header) \in Nat
    BY Ipv4Layout
  <2> QED
    BY <2>1, IndexOf
<1> QED
  BY <1>1, <1>2, <1>3, EthernetLayout, VlanLayout, Ipv4Layout DEF Ipv4Names

-----------------------------------------------------------------------------
(* The builder.  Its buffer starts as zeros and a call writes only behind  *)
(* the cursor, so what is written stays.                                   *)

\* Writers of n bytes that have not written past their cursor.
Clear(n) ==
  {w \in Writers(n) : /\ w.pos <= 8 * n
                      /\ \A p \in w.pos .. 8 * n - 1 : ~IsSet("BigEndian", w.buffer, p)}

\* From w to t nothing before the cursor of w changes.
Keeps(w, t) ==
  /\ w.pos <= t.pos
  /\ \A p \in 0 .. w.pos - 1 : IsSet("BigEndian", t.buffer, p) <=> IsSet("BigEndian", w.buffer, p)

LEMMA SizesAre ==
  ASSUME NEW n \in Sizes
  PROVE  n \in Nat /\ SizeMod \in Nat /\ 8 * n + 160 < SizeMod
BY SizesAssumption, Ipv4Layout

LEMMA KeepsBits ==
  ASSUME NEW w, NEW t, w.pos \in Nat, Keeps(w, t),
         NEW from \in Nat, NEW m \in Nat, from + m <= w.pos
  PROVE  GetBits("BigEndian", t.buffer, from, m) = GetBits("BigEndian", w.buffer, from, m)
<1>1. \A i \in 0 .. m - 1 : IsSet("BigEndian", t.buffer, from + i)
                              <=> IsSet("BigEndian", w.buffer, from + i)
  BY DEF Keeps
<1> QED
  BY <1>1 DEF GetBits

LEMMA KeepsHeader ==
  ASSUME NEW n \in Sizes, NEW w \in Clear(n), NEW t, Keeps(w, t), NEW format \in Headers,
         NEW from \in Nat, NEW vs, from + total_bits(format) <= w.pos,
         Holds(w.buffer, from, format, vs)
  PROVE  Holds(t.buffer, from, format, vs)
<1> SUFFICES ASSUME NEW i \in 1 .. Len(format)
             PROVE  FieldAt(t.buffer, from, format, i) = FieldAt(w.buffer, from, format, i)
  BY DEF Holds
<1> DEFINE offset == FieldOffsets(format)[i - 1]
           m == format[i].bit_width
           at == from + offset
<1>1. offset \in Nat /\ m \in Nat /\ total_bits(format) \in Nat /\ offset + m <= total_bits(format)
  <2> DEFINE next == FieldOffsets(format)[i]
             total == total_bits(format)
  <2>1. /\ offset \in Nat /\ m \in 1 .. 64 /\ total \in 0 .. 160
        /\ next = offset + m /\ next <= total
    BY HeadersAre
  <2> HIDE DEF offset, m, next, total
  <2>2. offset \in Nat /\ m \in Nat /\ total \in Nat /\ offset + m <= total
    BY <2>1
  <2> QED
    BY <2>2 DEF total
<1>2. w.pos \in Nat
  BY DEF Clear, Writers
<1> HIDE DEF offset, m
<1>3. at \in Nat /\ m \in Nat /\ at + m <= w.pos
  BY <1>1, <1>2
<1> HIDE DEF at
<1>4. GetBits("BigEndian", t.buffer, at, m) = GetBits("BigEndian", w.buffer, at, m)
  BY ONLY <1>2, <1>3, KeepsBits, Keeps(w, t)
<1> QED
  BY <1>4 DEF FieldAt, offset, m, at

LEMMA KeepsThrough ==
  ASSUME NEW n \in Sizes, NEW w \in Clear(n), NEW t \in Clear(n), NEW u \in Clear(n),
         Keeps(w, t), Keeps(t, u)
  PROVE  Keeps(w, u)
<1>1. w.pos \in Nat /\ t.pos \in Nat /\ u.pos \in Nat
  BY DEF Clear, Writers
<1> QED
  BY <1>1 DEF Keeps

\* The check of a call, whose sums stay below SizeMod.
LEMMA RoomIs ==
  ASSUME NEW n \in Sizes, NEW pos \in 0 .. 8 * n, NEW m \in 0 .. 160
  PROVE  C(n)!Fits(pos, m) <=> pos + m <= 8 * n
<1>1. pos + m \in Nat /\ SizeMod \in Nat /\ pos + m < SizeMod
  BY SizesAre
<1>2. (pos + m) % SizeMod = pos + m
  BY <1>1, ModSmall
<1> QED
  BY <1>2 DEF C!Fits

\* What write_bits makes of a writer.
LEMMA WriteBitsIs ==
  ASSUME NEW n \in Sizes, NEW w \in Clear(n), NEW m \in 1 .. 64, NEW value
  PROVE  LET t == C(n)!write_bits(w, m, value)
         IN  IF w.pos + m <= 8 * n
               THEN t = [buffer |-> PutBits("BigEndian", w.buffer, w.pos, m, value),
                         pos |-> w.pos + m, ok |-> TRUE]
               ELSE t = [w EXCEPT !.ok = FALSE]
<1>1. n \in Nat /\ w \in Writers(n) /\ w.pos \in 0 .. 8 * n
  BY SizesAre DEF Clear, Writers
<1>2. C(n)!Fits(w.pos, m) <=> w.pos + m <= 8 * n
  BY <1>1, RoomIs
<1>3. CASE w.pos + m <= 8 * n
  <2> DEFINE v == [w EXCEPT !.ok = TRUE]
  <2>1. v \in Writers(n) /\ v.buffer = w.buffer /\ v.pos = w.pos /\ v.ok = TRUE
    BY <1>1 DEF Writers
  <2>2. C(n)!write_bits(w, m, value) = C(n)!WriteLoop(v, m, value)
    BY <1>2, <1>3 DEF C!write_bits
  <2> HIDE DEF v
  <2>3. C(n)!WriteLoop(v, m, value) = BitLoop("BigEndian", v, m, value)
    BY DEF C!WriteLoop, BitLoop, C!SetBit, WithBit, C!byte_idx, byte_idx, C!bit_idx, bit_idx,
           C!value_bit, value_bit
  <2>4. BitLoop("BigEndian", v, m, value) =
          [buffer |-> PutBits("BigEndian", v.buffer, v.pos, m, value), pos |-> v.pos + m, ok |-> v.ok]
    BY <1>1, <2>1, BitLoopIs DEF Orders
  <2> QED
    BY <1>3, <2>1, <2>2, <2>3, <2>4
<1>4. CASE ~(w.pos + m <= 8 * n)
  BY <1>2, <1>4 DEF C!write_bits
<1> QED
  BY <1>3, <1>4

\* It writes its value at the cursor or nothing.
LEMMA WriteBitsKeeps ==
  ASSUME NEW n \in Sizes, NEW w \in Clear(n), NEW m \in 1 .. 64, NEW value
  PROVE  LET t == C(n)!write_bits(w, m, value)
         IN  /\ t \in Clear(n) /\ Keeps(w, t)
             /\ IF w.pos + m <= 8 * n
                  THEN /\ t.ok /\ t.pos = w.pos + m
                       /\ GetBits("BigEndian", t.buffer, w.pos, m) = Truncate(value, m)
                  ELSE t.pos = w.pos
<1> DEFINE t == C(n)!write_bits(w, m, value)
<1>1. /\ n \in Nat /\ w \in Writers(n) /\ w.buffer \in Buffers(n) /\ w.pos \in 0 .. 8 * n
      /\ "BigEndian" \in Orders
      /\ \A p \in w.pos .. 8 * n - 1 : ~IsSet("BigEndian", w.buffer, p)
  BY SizesAre DEF Clear, Writers, Orders
<1>2. CASE w.pos + m <= 8 * n
  <2> DEFINE bytes == PutBits("BigEndian", w.buffer, w.pos, m, value)
  <2>1. t = [buffer |-> bytes, pos |-> w.pos + m, ok |-> TRUE]
    BY <1>2, WriteBitsIs
  <2>2. bytes \in Buffers(n)
    BY <1>1, PutBitsType
  <2>3. \A p \in 0 .. 8 * n - 1 :
          IsSet("BigEndian", bytes, p) <=> \/ IsSet("BigEndian", w.buffer, p)
                                           \/ /\ p \in w.pos .. w.pos + m - 1
                                              /\ value_bit("BigEndian", m, p - w.pos) \in value
    BY <1>1, PutBitsIsSet
  <2> HIDE DEF bytes, t
  <2>4. t \in Writers(n) /\ t.buffer = bytes /\ t.pos = w.pos + m /\ t.ok
    BY <1>1, <2>1, <2>2 DEF Writers
  <2>5. \A p \in w.pos + m .. 8 * n - 1 : ~IsSet("BigEndian", bytes, p)
    <3>1. \A p \in w.pos + m .. 8 * n - 1 :
            p \in 0 .. 8 * n - 1 /\ p \in w.pos .. 8 * n - 1 /\ p \notin w.pos .. w.pos + m - 1
      BY <1>1
    <3> QED
      BY <1>1, <2>3, <3>1
  <2>6. t \in Clear(n)
    BY <1>2, <2>4, <2>5 DEF Clear
  <2>7. Keeps(w, t)
    <3>1. \A p \in 0 .. w.pos - 1 : p \in 0 .. 8 * n - 1 /\ p \notin w.pos .. w.pos + m - 1
      BY <1>1
    <3> QED
      BY <1>1, <2>3, <2>4, <3>1 DEF Keeps
  <2>8. GetBits("BigEndian", bytes, w.pos, m) = Truncate(value, m)
    <3>1. Truncate(value, m) \in SUBSET (0 .. m - 1)
      BY DEF Truncate
    <3>2. ASSUME NEW i \in 0 .. m - 1
          PROVE  IsSet("BigEndian", bytes, w.pos + i)
                   <=> value_bit("BigEndian", m, i) \in Truncate(value, m)
      <4>1. /\ w.pos + i \in 0 .. 8 * n - 1 /\ w.pos + i \in w.pos .. 8 * n - 1
            /\ w.pos + i \in w.pos .. w.pos + m - 1 /\ (w.pos + i) - w.pos = i
        BY <1>1, <1>2
      <4>2. value_bit("BigEndian", m, i) \in 0 .. m - 1
        BY <1>1, ValueBitType
      <4> QED
        BY <1>1, <2>3, <4>1, <4>2 DEF Truncate
    <3>3. w.pos \in Nat /\ m \in Nat
      BY <1>1
    <3> DEFINE v == Truncate(value, m)
    <3> HIDE DEF v
    <3>4. v \in SUBSET (0 .. m - 1)
          /\ \A i \in 0 .. m - 1 : IsSet("BigEndian", bytes, w.pos + i) <=> value_bit("BigEndian", m, i) \in v
      BY <3>1, <3>2 DEF v
    <3>5. GetBits("BigEndian", bytes, w.pos, m) = v
      BY <1>1, <3>3, <3>4, GetBitsIff
    <3> QED
      BY <3>5 DEF v
  <2> QED
    BY <1>2, <2>4, <2>6, <2>7, <2>8 DEF t
<1>3. CASE ~(w.pos + m <= 8 * n)
  <2>1. t = [w EXCEPT !.ok = FALSE]
    BY <1>3, WriteBitsIs
  <2> HIDE DEF t
  <2>2. t \in Writers(n) /\ t.buffer = w.buffer /\ t.pos = w.pos
    BY <1>1, <2>1 DEF Writers
  <2>3. t \in Clear(n) /\ Keeps(w, t)
    BY <1>1, <2>2 DEF Clear, Keeps
  <2> QED
    BY <1>3, <2>2, <2>3 DEF t
<1> QED
  BY <1>2, <1>3

\* The writer after each field of serialize, as SerializeLoop goes through them.
SerializeSteps(n, w, format, vs) ==
  LET after[i \in 0 .. Len(format)] ==
        IF i = 0 THEN w
        ELSE LET s == after[i - 1]
             IN  IF s.ok THEN C(n)!write_bits(s, format[i].bit_width, vs[i]) ELSE s
  IN  after

LEMMA SerializeStepsAre ==
  ASSUME NEW n \in Sizes, NEW w \in Clear(n), NEW format \in Headers, NEW vs
  PROVE  LET st == SerializeSteps(n, w, format, vs)
         IN  /\ st \in [0 .. Len(format) -> Clear(n)]
             /\ st[0] = w
             /\ \A i \in 1 .. Len(format) :
                  st[i] = IF st[i - 1].ok
                            THEN C(n)!write_bits(st[i - 1], format[i].bit_width, vs[i])
                            ELSE st[i - 1]
             /\ C(n)!SerializeLoop(w, format, vs) = st[Len(format)]
<1> DEFINE N == Len(format)
           S == Clear(n)
           next(s, i) == IF s.ok THEN C(n)!write_bits(s, format[i].bit_width, vs[i]) ELSE s
           step == [i \in 1 .. N |-> [s \in S |-> next(s, i)]]
           st[i \in 0 .. N] == IF i = 0 THEN w ELSE next(st[i - 1], i)
<1>1. SerializeSteps(n, w, format, vs) = st /\ C(n)!SerializeLoop(w, format, vs) = st[N]
  BY DEF SerializeSteps, C!SerializeLoop
<1>2. N \in Nat /\ w \in S
  BY HeadersAre
<1>3. \A i \in 1 .. N : \A s \in S : next(s, i) \in S
  BY HeadersAre, WriteBitsKeeps
<1> HIDE DEF next, N, S
<1>4. step \in [1 .. N -> [S -> S]] /\ \A i \in 1 .. N : \A s \in S : step[i][s] = next(s, i)
  BY <1>3
<1> HIDE DEF step
<1>5. PICK g \in [0 .. N -> S] : g[0] = w /\ \A i \in 1 .. N : g[i] = step[i][g[i - 1]]
  <2> DEFINE a == w
  <2>1. N \in Nat /\ a \in S /\ step \in [1 .. N -> [S -> S]]
    BY <1>2, <1>4
  <2> HIDE DEF a
  <2>2. \E f \in [0 .. N -> S] : f[0] = a /\ \A i \in 1 .. N : f[i] = step[i][f[i - 1]]
    BY <2>1, Recursion, SMTT(30)
  <2> QED
    BY <2>2 DEF a
<1>6. \A i \in 0 .. N : g[i] = IF i = 0 THEN w ELSE next(g[i - 1], i)
  <2>1. \A i \in 1 .. N : g[i - 1] \in S
    BY <1>2
  <2> QED
    BY <1>4, <1>5, <2>1
<1>7. g = [i \in 0 .. N |-> IF i = 0 THEN w ELSE next(g[i - 1], i)]
  <2>1. g = [i \in 0 .. N |-> g[i]]
    OBVIOUS
  <2> QED
    BY <1>6, <2>1, Zenon
<1>8. st = [i \in 0 .. N |-> IF i = 0 THEN w ELSE next(st[i - 1], i)]
  BY <1>7, Zenon
<1> HIDE DEF st
<1>9. st[0] = w /\ \A i \in 1 .. N : st[i] = next(st[i - 1], i)
  BY <1>2, <1>8
<1>10. st[0] = g[0] /\ \A i \in 1 .. N : st[i - 1] = g[i - 1] => st[i] = g[i]
  BY <1>2, <1>5, <1>6, <1>9
<1>11. \A i \in 0 .. N : st[i] = g[i]
  <2> DEFINE same == {i \in 0 .. N : st[i] = g[i]}
  <2>1. N \in Nat /\ 0 \in same
    BY <1>2, <1>10
  <2>2. ASSUME NEW k \in 0 .. N - 1, k \in same
        PROVE  k + 1 \in same
    <3>1. k + 1 \in 1 .. N /\ (k + 1) - 1 = k
      BY <2>1
    <3> QED
      BY <1>10, <2>2, <3>1
  <2>3. 0 .. N \subseteq same
    <3> HIDE DEF same
    <3> QED
      BY <2>1, <2>2, UpTo
  <2> QED
    BY <2>3
<1>12. st \in [0 .. N -> S]
  BY <1>8, <1>11
<1> QED
  BY <1>1, <1>9, <1>12 DEF next, N, S

\* A header that has room is written where the cursor is, another not at all.
LEMMA SerializeKeeps ==
  ASSUME NEW n \in Sizes, NEW w \in Clear(n), NEW format \in Headers, NEW vs
  PROVE  LET t == C(n)!serialize(w, format, vs)
         IN  /\ t \in Clear(n) /\ Keeps(w, t)
             /\ IF w.pos + total_bits(format) <= 8 * n
                  THEN /\ t.pos = w.pos + total_bits(format)
                       /\ Holds(t.buffer, w.pos, format, vs)
                  ELSE t.pos = w.pos
<1> DEFINE t == C(n)!serialize(w, format, vs)
           N == Len(format)
           total == total_bits(format)
           offset == FieldOffsets(format)
<1>1. n \in Nat /\ w \in Writers(n) /\ w.pos \in 0 .. 8 * n
  BY SizesAre DEF Clear, Writers
<1>2. N \in Nat /\ total \in 0 .. 160 /\ offset[0] = 0 /\ offset[N] = total
  BY HeadersAre
<1>3. C(n)!Fits(w.pos, C(n)!total_bits(format)) <=> w.pos + total <= 8 * n
  <2>1. C(n)!total_bits(format) = total
    BY DEF C!total_bits, total_bits, C!FieldOffsets, FieldOffsets
  <2> HIDE DEF total
  <2> QED
    BY <1>1, <1>2, <2>1, RoomIs
<1> HIDE DEF total
<1>4. CASE ~(w.pos + total <= 8 * n)
  <2>1. t = [w EXCEPT !.ok = FALSE]
    BY <1>3, <1>4 DEF C!serialize
  <2> HIDE DEF t
  <2>2. t \in Writers(n) /\ t.buffer = w.buffer /\ t.pos = w.pos
    BY <1>1, <2>1 DEF Writers
  <2>3. t \in Clear(n) /\ Keeps(w, t)
    BY <1>1, <2>2 DEF Clear, Keeps
  <2> QED
    BY <1>4, <2>2, <2>3 DEF t, total
<1>5. CASE w.pos + total <= 8 * n
  <2> DEFINE v == [w EXCEPT !.ok = TRUE]
  <2>1. v \in Clear(n) /\ v.buffer = w.buffer /\ v.pos = w.pos /\ v.ok = TRUE
    BY DEF Clear, Writers
  <2>2. t = C(n)!SerializeLoop(v, format, vs)
    BY <1>3, <1>5 DEF C!serialize
  <2> HIDE DEF v
  <2> DEFINE st == SerializeSteps(n, v, format, vs)
  <2>3. /\ st \in [0 .. N -> Clear(n)]
        /\ st[0] = v /\ C(n)!SerializeLoop(v, format, vs) = st[N]
        /\ \A i \in 1 .. N :
             st[i] = IF st[i - 1].ok
                       THEN C(n)!write_bits(st[i - 1], format[i].bit_width, vs[i])
                       ELSE st[i - 1]
    BY <2>1, SerializeStepsAre
  <2> HIDE DEF t, st
  <2> DEFINE Done(k) ==
               /\ st[k].ok /\ st[k].pos = w.pos + offset[k] /\ Keeps(w, st[k])
               /\ \A i \in 1 .. k : FieldAt(st[k].buffer, w.pos, format, i)
                                      = Truncate(vs[i], format[i].bit_width)
             S == {k \in 0 .. N : Done(k)}
  <2>4. 0 \in S
    BY <1>1, <1>2, <2>1, <2>3 DEF Keeps
  <2>5. ASSUME NEW k \in 0 .. N - 1, k \in S
        PROVE  k + 1 \in S
    <3> DEFINE i == k + 1
               m == format[i].bit_width
               s == st[k]
               u == st[i]
    <3>1. /\ i \in 1 .. N /\ i \in 0 .. N /\ i - 1 = k /\ k \in 0 .. N
      BY <1>2
    <3>2. /\ m \in 1 .. 64 /\ offset[k] \in Nat /\ offset[i] \in Nat
          /\ offset[i] = offset[k] + m /\ offset[i] <= total
      BY <3>1, HeadersAre DEF total
    <3>3. s \in Clear(n) /\ Done(k)
      BY <2>3, <2>5, <3>1
    <3>4. u = C(n)!write_bits(s, m, vs[i])
      BY <2>3, <3>1, <3>3
    <3> HIDE DEF s, u, m, offset
    <3>5. s.pos + m <= 8 * n /\ s.pos = w.pos + offset[k]
      <4> DEFINE o == offset[k]
                 q == offset[i]
      <4>1. s.pos = w.pos + o
        BY <3>3 DEF s
      <4>2. o \in Nat /\ q = o + m /\ q <= total /\ m \in 1 .. 64
        BY <3>2
      <4> HIDE DEF o, q
      <4>3. s.pos + m <= 8 * n
        BY <1>1, <1>2, <1>5, <4>1, <4>2
      <4> QED
        BY <4>1, <4>3 DEF o
    <3>6. /\ u \in Clear(n) /\ Keeps(s, u) /\ u.ok /\ u.pos = s.pos + m
          /\ GetBits("BigEndian", u.buffer, s.pos, m) = Truncate(vs[i], m)
      BY <3>2, <3>3, <3>4, <3>5, WriteBitsKeeps
    <3>7. Keeps(w, u)
      BY <3>3, <3>6, KeepsThrough DEF s
    <3>8. u.pos = w.pos + offset[i]
      BY <1>1, <3>2, <3>5, <3>6, SMTT(30)
    <3>9. FieldAt(u.buffer, w.pos, format, i) = Truncate(vs[i], m)
      BY <3>1, <3>5, <3>6 DEF FieldAt, m, offset
    <3>10. ASSUME NEW j \in 1 .. k
           PROVE  FieldAt(u.buffer, w.pos, format, j) = Truncate(vs[j], format[j].bit_width)
      <4> DEFINE at == w.pos + offset[j - 1]
                 l == format[j].bit_width
      <4>1. j \in 1 .. N /\ j \in 0 .. N /\ j <= k
        BY <1>2
      <4>2. l \in 1 .. 64 /\ offset[j - 1] \in Nat /\ offset[j] = offset[j - 1] + l
        BY <4>1, HeadersAre DEF offset
      <4>3. offset[j] <= offset[k]
        BY <3>1, <4>1, HeadersAre, WidthsAscend DEF offset
      <4> HIDE DEF l
      <4>4. at \in Nat /\ l \in Nat /\ at + l <= s.pos /\ s.pos \in Nat
        <5> DEFINE o == offset[j - 1]
                   p == offset[j]
                   q == offset[k]
        <5>1. o \in Nat /\ q \in Nat /\ p = o + l /\ p <= q /\ l \in 1 .. 64 /\ s.pos = w.pos + q
          BY <3>2, <3>5, <4>2, <4>3
        <5> HIDE DEF o, p, q
        <5>2. w.pos + o \in Nat /\ l \in Nat /\ w.pos + o + l <= s.pos /\ s.pos \in Nat
          BY <1>1, <5>1, SMTT(30)
        <5> QED
          BY <5>2 DEF o
      <4> HIDE DEF at
      <4>5. GetBits("BigEndian", u.buffer, at, l) = GetBits("BigEndian", s.buffer, at, l)
        BY <3>6, <4>4, KeepsBits
      <4>6. FieldAt(s.buffer, w.pos, format, j) = Truncate(vs[j], format[j].bit_width)
        BY <3>3 DEF s
      <4> QED
        BY <4>5, <4>6 DEF FieldAt, at, l, offset
    <3>11. \A j \in 1 .. i : j \in 1 .. k \/ j = i
      BY <3>1
    <3> QED
      BY <3>1, <3>6, <3>7, <3>8, <3>9, <3>10, <3>11 DEF u, m
  <2>6. N \in S
    <3>1. 0 .. N \subseteq S
      <4> HIDE DEF S
      <4> QED
        BY <1>2, <2>4, <2>5, UpTo
    <3> QED
      BY <1>2, <3>1
  <2>7. t = st[N] /\ st[N] \in Clear(n)
    BY <1>2, <2>2, <2>3
  <2> QED
    BY <1>2, <1>5, <2>6, <2>7 DEF t, total, Holds
<1> QED
  BY <1>4, <1>5 DEF t, total

LEMMA RequestsAre ==
  ASSUME NEW f \in Requests
  PROVE  /\ f.macs \in Seq(Word) /\ Len(f.macs) = 2
         /\ f.tag = <<>> \/ (f.tag \in Seq(Word) /\ Len(f.tag) = 3)
         /\ f.ethertype \in SUBSET (0 .. 15) /\ Outer(f) \in SUBSET (0 .. 15)
         /\ Outer(f) = Vlan <=> f.tag # <<>>
         /\ f.ipv4 \in Seq(Word) /\ Len(f.ipv4) = 13
<1>1. /\ f.macs \in Seq(Word) /\ Len(f.macs) = 2
      /\ f.tag = <<>> \/ (f.tag \in Seq(Word) /\ Len(f.tag) = 3)
      /\ f.ethertype \in SUBSET (0 .. 15) /\ (f.tag = <<>> => f.ethertype # Vlan)
      /\ f.ipv4 \in Seq(Word) /\ Len(f.ipv4) = 13
  BY RequestsAssumption, VlanLayout, Ipv4Layout
<1>2. Vlan \in SUBSET (0 .. 15)
  BY DEF Vlan
<1>3. Outer(f) \in SUBSET (0 .. 15) /\ (Outer(f) = Vlan <=> f.tag # <<>>)
  BY <1>1, <1>2 DEF Outer
<1> QED
  BY <1>1, <1>3

LEMMA EmptyIsClear ==
  ASSUME NEW n \in Sizes
  PROVE  C(n)!NewWriter \in Clear(n) /\ C(n)!NewWriter.pos = 0
<1>1. n \in Nat
  BY SizesAre
<1>2. C(n)!NewWriter = [buffer |-> ZeroBuffer(n), pos |-> 0, ok |-> TRUE]
  BY DEF C!NewWriter, C!ZeroBuffer, ZeroBuffer
<1>3. ZeroBuffer(n) \in Buffers(n)
  BY DEF ZeroBuffer, Buffers, Byte
<1>4. \A p \in 0 .. 8 * n - 1 : ~IsSet("BigEndian", ZeroBuffer(n), p)
  BY <1>1, ByteInBuffer DEF IsSet, ZeroBuffer
<1>5. C(n)!NewWriter \in Writers(n)
  BY <1>2, <1>3 DEF Writers
<1> QED
  BY <1>1, <1>2, <1>4, <1>5 DEF Clear

\* The builder as a chain of calls.
LEMMA BuildIs ==
  ASSUME NEW n \in Sizes, NEW f \in Requests
  PROVE  Built(n, f, Build(n, f))
<1> DEFINE h == C(n)!serialize(C(n)!NewWriter, kEthernetHeader, Append(f.macs, Outer(f)))
           v == C(n)!serialize(h, kVlanTag, f.tag)
           x == C(n)!write_bits(v, 16, f.ethertype)
           y == IF f.tag = <<>> THEN h ELSE x
           z == C(n)!serialize(y, kIpv4Header, f.ipv4)
           whole == IF f.ethertype # Ipv4 THEN y ELSE z
           macs == Append(f.macs, Outer(f))
           E(w) == 112 <= 8 * n => w.pos >= 112 /\ Holds(w.buffer, 0, kEthernetHeader, macs)
           V(w) == 128 <= 8 * n => w.pos >= 128 /\ Holds(w.buffer, 112, kVlanTag, f.tag)
           X(w) == 144 <= 8 * n =>
                     w.pos >= 144 /\ GetBits("BigEndian", w.buffer, 128, 16) = f.ethertype
<1>0. Build(n, f) = whole.buffer
  BY DEF Build, Outer
<1>1. /\ n \in Nat /\ Headers = {kEthernetHeader, kVlanTag, kIpv4Header}
      /\ total_bits(kEthernetHeader) = 112 /\ total_bits(kVlanTag) = 16
      /\ total_bits(kIpv4Header) = 160
  BY SizesAre, EthernetLayout, VlanLayout, Ipv4Layout DEF Headers
<1>2. ASSUME NEW w \in Clear(n), NEW t \in Clear(n), Keeps(w, t)
      PROVE  (E(w) => E(t)) /\ (V(w) => V(t)) /\ (X(w) => X(t))
  <2>1. w.pos \in Nat /\ t.pos \in Nat /\ w.pos <= t.pos
    BY <1>2 DEF Clear, Writers, Keeps
  <2>2. E(w) => E(t)
    BY <1>1, <1>2, <2>1, KeepsHeader
  <2>3. V(w) => V(t)
    BY <1>1, <1>2, <2>1, KeepsHeader
  <2>4. X(w) => X(t)
    BY <1>2, <2>1, KeepsBits
  <2> QED
    BY <2>2, <2>3, <2>4
<1>3. h \in Clear(n) /\ E(h) /\ (112 <= 8 * n => h.pos = 112)
  BY <1>1, EmptyIsClear, SerializeKeeps
<1>4. v \in Clear(n) /\ E(v) /\ V(v) /\ (128 <= 8 * n => v.pos = 128) /\ (112 <= 8 * n /\ 8 * n < 128 => v.pos = 112)
  <2> HIDE DEF h, E
  <2>1. /\ v \in Clear(n) /\ Keeps(h, v)
        /\ IF h.pos + 16 <= 8 * n
             THEN v.pos = h.pos + 16 /\ Holds(v.buffer, h.pos, kVlanTag, f.tag)
             ELSE v.pos = h.pos
    BY <1>1, <1>3, SerializeKeeps
  <2> HIDE DEF v
  <2>2. E(v)
    BY <1>2, <1>3, <2>1
  <2> QED
    BY <1>1, <1>3, <2>1, <2>2
<1>5. /\ x \in Clear(n) /\ E(x) /\ V(x) /\ X(x)
      /\ 144 <= 8 * n => x.pos = 144
      /\ 112 <= 8 * n => x.pos >= 112
  <2> HIDE DEF v, E, V
  <2>1. /\ x \in Clear(n) /\ Keeps(v, x)
        /\ IF v.pos + 16 <= 8 * n
             THEN /\ x.pos = v.pos + 16
                  /\ GetBits("BigEndian", x.buffer, v.pos, 16) = Truncate(f.ethertype, 16)
             ELSE x.pos = v.pos
    BY <1>4, WriteBitsKeeps
  <2> HIDE DEF x
  <2>2. E(x) /\ V(x)
    BY <1>2, <1>4, <2>1
  <2>3. Truncate(f.ethertype, 16) = f.ethertype
    BY RequestsAre DEF Truncate
  <2> QED
    BY <1>1, <1>4, <2>1, <2>2, <2>3
<1>6. /\ y \in Clear(n) /\ E(y)
      /\ f.tag # <<>> => V(y) /\ X(y)
      /\ Payload(f) <= 8 * n => y.pos = Payload(f)
  <2> HIDE DEF h, v, x, E, V, X
  <2> QED
    BY <1>3, <1>4, <1>5 DEF Payload
<1>7. /\ whole \in Clear(n) /\ E(whole)
      /\ f.tag # <<>> => V(whole) /\ X(whole)
      /\ f.ethertype = Ipv4 /\ Payload(f) + 160 <= 8 * n =>
           Holds(whole.buffer, Payload(f), kIpv4Header, f.ipv4)
  <2> HIDE DEF y, E, V, X
  <2>1. /\ z \in Clear(n) /\ Keeps(y, z)
        /\ y.pos + 160 <= 8 * n => Holds(z.buffer, y.pos, kIpv4Header, f.ipv4)
    BY <1>1, <1>6, SerializeKeeps
  <2> HIDE DEF z
  <2>2. E(z) /\ (f.tag # <<>> => V(z) /\ X(z))
    BY <1>2, <1>6, <2>1
  <2>3. Payload(f) \in Nat
    BY DEF Payload
  <2> QED
    BY <1>1, <1>6, <2>1, <2>2, <2>3
<1> HIDE DEF whole
<1>8. whole.buffer \in Buffers(n)
  BY <1>7 DEF Clear, Writers
<1> QED
  BY <1>0, <1>7, <1>8 DEF Built

-----------------------------------------------------------------------------
(* The reader.                                                             *)

\* It addresses fields and bits as the builder does.
LEMMA SameReader ==
  ASSUME NEW n, NEW format, NEW name, NEW bytes, NEW pos, NEW m
  PROVE  /\ R(n)!field_index(format, name) = field_index(format, name)
         /\ R(n)!total_bits(format) = total_bits(format)
         /\ R(n)!is_padding_field(name) = is_padding_field(name)
         /\ R(n)!GetBits("BigEndian", bytes, pos, m) = GetBits("BigEndian", bytes, pos, m)
BY DEF R!field_index, field_index, R!total_bits, total_bits, R!FieldOffsets, FieldOffsets,
       R!is_padding_field, is_padding_field, R!GetBits, GetBits, R!IsSet, IsSet,
       R!bit_idx, bit_idx, R!byte_idx, byte_idx, R!value_bit, value_bit

LEMMA GetIs ==
  ASSUME NEW n, NEW name
  PROVE  R(n)!Get(packet, name) = packet.values[field_index(packet.format, name)]
BY SameReader DEF R!Get

LEMMA HasBitsIs ==
  ASSUME NEW n \in Sizes, NEW pos \in 0 .. 8 * n, NEW m \in 0 .. 160
  PROVE  /\ (pos + m) % SizeMod = pos + m
         /\ R(n)!HasBitsAt(pos, m) <=> pos + m <= 8 * n
<1>1. pos + m \in Nat /\ SizeMod \in Nat /\ pos + m < SizeMod
  BY SizesAre
<1>2. (pos + m) % SizeMod = pos + m
  BY <1>1, ModSmall
<1> QED
  BY <1>2 DEF R!HasBitsAt, R!Cap

\* A deserialize of a header reads it or throws.
LEMMA DeserializeReads ==
  ASSUME NEW n \in Sizes, n = size, size' = size, NEW format \in Headers,
         NEW from \in 0 .. 8 * n, bit_offset_ = from, R(n)!Deserialize(format)
  PROVE  Reading(format, from)' /\ buffer' = buffer
<1> DEFINE total == total_bits(format)
<1>1. total \in 0 .. 160 /\ FieldOffsets(format)[0] = 0 /\ Len(format) \in Nat
  BY HeadersAre
<1>2. R(n)!has_bits(R(n)!total_bits(format)) <=> from + total <= 8 * n
  <2>1. R(n)!total_bits(format) = total
    BY SameReader
  <2> HIDE DEF total
  <2> QED
    BY <1>1, <2>1, HasBitsIs DEF R!has_bits
<1>3. CASE from + total <= 8 * n
  <2>1. /\ call' = [op |-> "deserialize", format |-> format, types |-> <<>>, from |-> from,
                    values |-> <<>>]
        /\ bit_offset_' = from /\ buffer' = buffer
    BY <1>2, <1>3 DEF R!Deserialize, R!Begin, R!Frame
  <2>2. call'.values = <<>> /\ Len(call'.values) = 0
    BY <2>1
  <2>3. Loops(format, from)'
    BY <2>1, <2>2 DEF Loops
  <2>4. Prefix(call.values, format, from)'
    BY <1>1, <2>2 DEF Prefix
  <2>5. bit_offset_' = from + FieldOffsets(format)[Len(call'.values)]
    BY <1>1, <2>1, <2>2
  <2> QED
    BY <1>3, <2>1, <2>3, <2>4, <2>5 DEF Reading
<1>4. CASE ~(from + total <= 8 * n)
  <2>1. /\ call' = call /\ buffer' = buffer /\ call.op = "none"
        /\ last'.status = "out_of_range"
    <3>1. R(n)!Idle /\ R(n)!Throw(R(n)!FieldCall("deserialize", format, ""), "out_of_range")
      BY <1>2, <1>4 DEF R!Deserialize, R!Begin
    <3> QED
      BY <3>1 DEF R!Throw, R!EndAt, R!Result, R!Idle
  <2> QED
    BY <1>4, <2>1 DEF Reading, Idle
<1> QED
  BY <1>3, <1>4

\* The loop reads field after field.
LEMMA LoopReads ==
  ASSUME NEW n \in Sizes, n = size, size' = size, NEW format \in Headers,
         NEW from \in Nat, Reading(format, from), R(n)!Step
  PROVE  Reading(format, from)' /\ buffer' = buffer
<1> DEFINE total == total_bits(format)
           N == Len(format)
           vs == call.values
           k == Len(vs)
           i == k + 1
           m == format[i].bit_width
<1>1. N \in Nat /\ total \in 0 .. 160 /\ FieldOffsets(format)[N] = total
  BY HeadersAre
<1>2. ~Idle
  BY DEF R!Step, R!LoopField, R!LoopReturn, R!Idle, Idle
<1>3. /\ from + total <= 8 * n /\ Loops(format, from) /\ Prefix(vs, format, from)
      /\ bit_offset_ = from + FieldOffsets(format)[k]
  BY <1>2 DEF Reading
<1>4. vs \in Seq(Word) /\ k \in 0 .. N /\ \A j \in 1 .. k : vs[j] = FieldAt(buffer, from, format, j)
  BY <1>1, <1>3 DEF Prefix
<1>5. /\ call.op = "deserialize" /\ call.format = format /\ call.types = <<>> /\ call.from = from
      /\ R(n)!NextIdx = i
  BY <1>3 DEF Loops, R!NextIdx
<1>6. CASE k = N
  <2>1. R(n)!LoopReturn
    BY <1>1, <1>5, <1>6 DEF R!Step, R!LoopField
  <2>2. /\ last'.status = "ok" /\ packet' = call /\ call'.op = "none"
        /\ buffer' = buffer /\ bit_offset_' = bit_offset_
    BY <2>1 DEF R!LoopReturn, R!EndLoop, R!Result, R!NoFrame
  <2>3. packet'.values = vs /\ packet'.format = format
    BY <1>5, <2>2
  <2>4. Prefix(packet.values, format, from)'
    BY <1>1, <1>4, <2>2, <2>3 DEF Prefix
  <2> QED
    BY <1>1, <1>3, <1>6, <2>2, <2>3, <2>4 DEF Reading, Idle
<1>7. CASE k < N
  <2>1. i \in 1 .. N /\ i \in Nat /\ i - 1 = k
    BY <1>1, <1>4, <1>7
  <2>2. /\ m \in 1 .. 64 /\ ~is_padding_field(format[i].name)
        /\ FieldOffsets(format)[k] \in Nat /\ FieldOffsets(format)[i] \in Nat
        /\ FieldOffsets(format)[i] = FieldOffsets(format)[k] + m
        /\ FieldOffsets(format)[i] <= total
    BY <2>1, HeadersAre
  <2> DEFINE o == FieldOffsets(format)[k]
             q == FieldOffsets(format)[i]
             value == GetBits("BigEndian", buffer, bit_offset_, m)
  <2>3. o \in Nat /\ q = o + m /\ q <= total /\ bit_offset_ = from + o /\ m \in 1 .. 64
    BY <1>3, <2>2
  <2> HIDE DEF o, q, m, i, k, total
  <2>4. /\ bit_offset_ \in 0 .. 8 * n /\ m \in 0 .. 160
        /\ bit_offset_ + m <= 8 * n /\ bit_offset_ + m = from + q
    BY <1>1, <1>3, <2>3, SizesAre, SMTT(30)
  <2>5. R(n)!CanReadAt(bit_offset_, m) /\ (bit_offset_ + m) % SizeMod = from + q
    BY <2>3, <2>4, HasBitsIs DEF R!CanReadAt
  <2>6. R(n)!LoopField /\ ~R(n)!is_padding_field(call.format[i].name)
    BY <1>1, <1>5, <1>7, <2>1, <2>2, SameReader, SMTT(30) DEF R!Step, R!LoopReturn, i
  <2>7. R(n)!TakeField(m, R(n)!Narrow(i, R(n)!GetBits("BigEndian", buffer, bit_offset_, m)))
    BY <1>5, <2>5, <2>6 DEF R!LoopField, m
  <2>8. R(n)!Narrow(i, R(n)!GetBits("BigEndian", buffer, bit_offset_, m)) = value
    BY <1>5, SameReader DEF R!Narrow
  <2>9. /\ bit_offset_' = from + q /\ buffer' = buffer
        /\ call' = [call EXCEPT !.values = Append(vs, value)]
    BY <2>5, <2>7, <2>8 DEF R!TakeField
  <2>10. call'.values = Append(vs, value) /\ Loops(format, from)'
    <3> DEFINE new == Append(vs, value)
    <3>1. call = [op |-> "deserialize", format |-> format, types |-> <<>>, from |-> from,
                  values |-> vs]
      BY <1>3 DEF Loops
    <3> HIDE DEF vs, value, new
    <3>2. call' = [op |-> "deserialize", format |-> format, types |-> <<>>, from |-> from,
                   values |-> new]
      BY <2>9, <3>1 DEF new
    <3>3. call'.values = new
      BY <3>2
    <3> QED
      BY <3>2, <3>3 DEF Loops, new
  <2>11. value \in Word
    <3>1. value \in SUBSET (0 .. m - 1)
      BY <2>4, GetBitsType DEF Orders
    <3> QED
      BY <2>3, <3>1 DEF Word
  <2>12. value = FieldAt(buffer, from, format, i)
    BY <2>1, <2>3 DEF FieldAt, m, o
  <2> HIDE DEF value, vs
  <2>13. /\ call'.values \in Seq(Word) /\ Len(call'.values) = i /\ i <= N
         /\ \A j \in 1 .. i : call'.values[j] = FieldAt(buffer, from, format, j)
    BY <1>4, <2>1, <2>10, <2>11, <2>12 DEF i, k
  <2>14. Prefix(call.values, format, from)'
    BY <2>9, <2>13 DEF Prefix
  <2> QED
    BY <1>3, <2>9, <2>10, <2>13, <2>14 DEF Reading, q, total
<1> QED
  BY <1>1, <1>4, <1>6, <1>7

-----------------------------------------------------------------------------
(* What is read is what was sent.                                          *)

\* A deserialize that returned found room for the header, one that threw none.
LEMMA ReadingEnds ==
  ASSUME NEW format \in Headers, NEW from, Reading(format, from), Idle
  PROVE  /\ last.status = "ok" =>
              /\ Fits(from + total_bits(format)) /\ packet.format = format
              /\ \A i \in 1 .. Len(format) : packet.values[i] = FieldAt(buffer, from, format, i)
              /\ bit_offset_ = from + total_bits(format)
         /\ last.status # "ok" => ~Fits(from + total_bits(format))
BY DEF Reading, Idle, Loops, Prefix, Fits

\* The value that the parser takes from a packet by name.
LEMMA GetIsSent ==
  ASSUME NEW n, NEW format \in Headers, NEW from, NEW vs, NEW name,
         Reading(format, from), Idle, last.status = "ok", Holds(buffer, from, format, vs),
         field_index(format, name) \in 1 .. Len(format)
  PROVE  LET i == field_index(format, name)
         IN  R(n)!Get(packet, name) = Truncate(vs[i], format[i].bit_width)
BY ReadingEnds, GetIs DEF Holds

LEMMA ReportIs ==
  ASSUME NEW names, \A name \in names : R(0)!Get(packet, name) = Sent(frame, name)
  PROVE  Report(names) = Reported(names)
BY DEF Report, Reported

LEMMA EthernetReport ==
  ASSUME frame \in Requests, NEW n, size \in Sizes, Built(size, frame, buffer),
         AtEthernet, Idle, last.status = "ok"
  PROVE  /\ Fits(112) /\ bit_offset_ = 112
         /\ R(n)!Get(packet, "ethertype") = Outer(frame)
         /\ Report({"dest_mac", "src_mac", "ethertype"}) = Reported(EthernetNames)
<1> DEFINE macs == Append(frame.macs, Outer(frame))
<1>1. /\ kEthernetHeader \in Headers /\ Len(kEthernetHeader) = 3
      /\ total_bits(kEthernetHeader) = 112 /\ kEthernetHeader[3].bit_width = 16
  BY EthernetLayout DEF Headers
<1>2. Fits(112) /\ bit_offset_ = 112
  BY <1>1, ReadingEnds DEF AtEthernet
<1>3. Holds(buffer, 0, kEthernetHeader, macs)
  BY <1>2 DEF Built, Fits
<1>4. macs[1] = frame.macs[1] /\ macs[2] = frame.macs[2] /\ macs[3] = Outer(frame)
  <2>1. frame.macs \in Seq(Word) /\ Len(frame.macs) = 2
    BY RequestsAre
  <2> QED
    BY <2>1
<1> HIDE DEF macs
<1>5. ASSUME NEW m, NEW name, field_index(kEthernetHeader, name) \in 1 .. 3
      PROVE  LET i == field_index(kEthernetHeader, name)
             IN  R(m)!Get(packet, name) = Truncate(macs[i], kEthernetHeader[i].bit_width)
  <2>1. /\ Reading(kEthernetHeader, 0) /\ kEthernetHeader \in Headers
        /\ field_index(kEthernetHeader, name) \in 1 .. Len(kEthernetHeader)
    BY <1>1, <1>5 DEF AtEthernet
  <2> QED
    BY <1>3, <2>1, GetIsSent
<1>6. Truncate(Outer(frame), 16) = Outer(frame)
  BY RequestsAre DEF Truncate
<1>7. \A m : R(m)!Get(packet, "ethertype") = Outer(frame)
  BY <1>1, <1>4, <1>5, <1>6, Indices
<1>8. ASSUME NEW name \in {"dest_mac", "src_mac"}
      PROVE  R(0)!Get(packet, name) = Sent(frame, name)
  BY <1>4, <1>5, Indices DEF Sent, field_width
<1>9. R(0)!Get(packet, "ethertype") = Sent(frame, "ethertype")
  BY <1>7 DEF Sent, Outer
<1> QED
  BY <1>2, <1>7, <1>8, <1>9, ReportIs DEF EthernetNames

LEMMA VlanReport ==
  ASSUME frame \in Requests, size \in Sizes, Built(size, frame, buffer),
         AtVlan, Idle, last.status = "ok"
  PROVE  Fits(128) /\ bit_offset_ = 128 /\ Report({"vid"}) = Reported(VlanNames)
<1>1. kVlanTag \in Headers /\ Len(kVlanTag) = 3 /\ total_bits(kVlanTag) = 16
  BY VlanLayout DEF Headers
<1>2. Fits(128) /\ bit_offset_ = 128
  BY <1>1, ReadingEnds DEF AtVlan
<1>3. Holds(buffer, 112, kVlanTag, frame.tag)
  BY <1>2 DEF Built, Fits, AtVlan
<1>4. R(0)!Get(packet, "vid") = Sent(frame, "vid")
  <2>1. LET i == field_index(kVlanTag, "vid")
        IN  R(0)!Get(packet, "vid") = Truncate(frame.tag[i], kVlanTag[i].bit_width)
    <3>1. field_index(kVlanTag, "vid") \in 1 .. Len(kVlanTag)
      BY <1>1, Indices
    <3>2. Reading(kVlanTag, 112) /\ kVlanTag \in Headers
      BY <1>1 DEF AtVlan
    <3> DEFINE vs == frame.tag
               from == 112
    <3>3. Holds(buffer, from, kVlanTag, vs) /\ Reading(kVlanTag, from) /\ kVlanTag \in Headers
      BY <1>3, <3>2
    <3> HIDE DEF vs, from
    <3>4. LET i == field_index(kVlanTag, "vid")
          IN  R(0)!Get(packet, "vid") = Truncate(vs[i], kVlanTag[i].bit_width)
      BY <3>1, <3>3, GetIsSent
    <3> QED
      BY <3>4 DEF vs
  <2> QED
    BY <2>1 DEF Sent, field_width
<1> QED
  BY <1>2, <1>4, ReportIs DEF VlanNames

LEMMA Ipv4Report ==
  ASSUME frame \in Requests, size \in Sizes, Built(size, frame, buffer),
         AtIpv4, Idle, last.status = "ok"
  PROVE  /\ Fits(Payload(frame) + 160)
         /\ Report({"version", "ttl", "protocol"}) = Reported(Ipv4Names)
<1>1. kIpv4Header \in Headers /\ Len(kIpv4Header) = 13 /\ total_bits(kIpv4Header) = 160
  BY Ipv4Layout DEF Headers
<1>2. Fits(Payload(frame) + 160)
  BY <1>1, ReadingEnds DEF AtIpv4
<1>3. Holds(buffer, Payload(frame), kIpv4Header, frame.ipv4)
  BY <1>2 DEF Built, Fits, AtIpv4
<1>4. ASSUME NEW name \in Ipv4Names
      PROVE  R(0)!Get(packet, name) = Sent(frame, name)
  <2>1. LET i == field_index(kIpv4Header, name)
        IN  R(0)!Get(packet, name) = Truncate(frame.ipv4[i], kIpv4Header[i].bit_width)
    <3>1. field_index(kIpv4Header, name) \in 1 .. Len(kIpv4Header)
      BY <1>1, Indices
    <3>2. Reading(kIpv4Header, Payload(frame)) /\ kIpv4Header \in Headers
      BY <1>1 DEF AtIpv4
    <3> DEFINE vs == frame.ipv4
               from == Payload(frame)
    <3>3. Holds(buffer, from, kIpv4Header, vs) /\ Reading(kIpv4Header, from) /\ kIpv4Header \in Headers
      BY <1>3, <3>2
    <3> HIDE DEF vs, from
    <3>4. LET i == field_index(kIpv4Header, name)
          IN  R(0)!Get(packet, name) = Truncate(vs[i], kIpv4Header[i].bit_width)
      BY <3>1, <3>3, GetIsSent
    <3> QED
      BY <3>4 DEF vs
  <2> QED
    BY <2>1 DEF Sent, field_width, Ipv4Names
<1> QED
  BY <1>2, <1>4, ReportIs DEF Ipv4Names

\* Reports add up.
LEMMA ReportedUnion ==
  ASSUME NEW a, NEW b
  PROVE  Reported(a) \cup Reported(b) = Reported(a \cup b)
BY DEF Reported

-----------------------------------------------------------------------------
(* The steps of the parser.                                                *)

LEMMA AnnouncedIs ==
  ASSUME NEW f
  PROVE  /\ Payload(f) \in Nat /\ Announced(f) \in Nat
         /\ 8 * Announced(f) = IF f.ethertype = Ipv4 THEN Payload(f) + 160 ELSE Payload(f)
BY DEF Announced, Payload

LEMMA Place ==
  ASSUME ParserInv
  PROVE  /\ frame \in Requests /\ size \in Sizes /\ size \in Nat
         /\ Built(size, frame, buffer)
         /\ pc = "start" => AtStart
         /\ pc = "ethernet" => AtEthernet
         /\ pc = "vlan" => AtVlan
         /\ pc = "inner" => AtInner
         /\ pc = "ipv4" => AtIpv4
         /\ pc = "done" => AtDone
         /\ pc = "thrown" => AtThrown
<1>1. frame \in Requests /\ size \in Sizes /\ buffer = Build(size, frame)
  BY DEF ParserInv
<1>2. size \in Nat /\ Built(size, frame, buffer)
  BY <1>1, SizesAre, BuildIs
<1> QED
  BY <1>1, <1>2 DEF ParserInv

LEMMA StartStep ==
  ASSUME ParserInv, UNCHANGED <<frame, size>>, NEW n, n = size, Start(n)
  PROVE  ParserInv'
<1>1. Idle /\ bit_offset_ = 0 /\ reports = {} /\ n \in Sizes /\ n \in Nat
  BY Place DEF Start, AtStart
<1>2. kEthernetHeader \in Headers /\ 0 \in 0 .. 8 * n
  BY <1>1 DEF Headers
<1>3. Reading(kEthernetHeader, 0)' /\ buffer' = buffer
  BY <1>1, <1>2, DeserializeReads DEF Start
<1> QED
  BY <1>1, <1>3 DEF Start, ParserInv, AtEthernet

\* The parser goes on to the payload, or is through.
LEMMA ContinueStep ==
  ASSUME ParserInv, UNCHANGED <<frame, size>>, NEW n, n = size, Fits(Payload(frame)),
         bit_offset_ = Payload(frame), reports' = Reported(LinkNames(frame)),
         Continue(n, frame.ethertype)
  PROVE  ParserInv'
<1>1. frame \in Requests /\ n \in Sizes /\ n \in Nat
  BY Place
<1>2. CASE frame.ethertype = Ipv4
  <2>1. R(n)!Deserialize(kIpv4Header) /\ pc' = "ipv4"
    BY <1>2 DEF Continue
  <2>2. PICK from : from = Payload(frame)
    OBVIOUS
  <2>3. kIpv4Header \in Headers /\ from \in 0 .. 8 * n /\ bit_offset_ = from
    BY <1>1, <2>2, AnnouncedIs DEF Headers, Fits
  <2>4. Reading(kIpv4Header, from)' /\ buffer' = buffer
    BY <1>1, <2>1, <2>3, DeserializeReads
  <2>5. from = Payload(frame)'
    BY <2>2
  <2>6. AtIpv4'
    BY <1>2, <2>4, <2>5 DEF AtIpv4, Fits, Reported
  <2> QED
    BY <2>1, <2>4, <2>6 DEF ParserInv
<1>3. CASE frame.ethertype # Ipv4
  <2>1. pc' = "done" /\ buffer' = buffer
    BY <1>3 DEF Continue, readerVars
  <2>2. Announced(frame) <= size
    BY <1>1, <1>3, AnnouncedIs DEF Fits
  <2>3. AllNames(frame) = LinkNames(frame)
    BY <1>3 DEF AllNames
  <2>4. AtDone'
    BY <2>2, <2>3 DEF AtDone, Reported
  <2> QED
    BY <2>1, <2>4 DEF ParserInv
<1> QED
  BY <1>2, <1>3

LEMMA EthernetStep ==
  ASSUME ParserInv, UNCHANGED <<frame, size>>, NEW n, n = size, AfterEthernet(n)
  PROVE  ParserInv'
<1> DEFINE ethertype == R(n)!Get(packet, "ethertype")
<1>1. /\ frame \in Requests /\ n \in Sizes /\ n \in Nat /\ Built(size, frame, buffer)
      /\ AtEthernet /\ Idle /\ last.status = "ok"
  BY Place DEF AfterEthernet, Returned, R!Idle, Idle
<1>2. Fits(112) /\ bit_offset_ = 112 /\ ethertype = Outer(frame)
  BY <1>1, EthernetReport
<1>3. reports' = Reported(EthernetNames)
  BY <1>1, EthernetReport DEF AfterEthernet, AtEthernet
<1>4. Outer(frame) = Vlan <=> frame.tag # <<>>
  BY <1>1, RequestsAre
<1> HIDE DEF ethertype
<1>5. CASE ethertype = Vlan
  <2>1. R(n)!Deserialize(kVlanTag) /\ pc' = "vlan" /\ frame.tag # <<>>
    BY <1>2, <1>4, <1>5 DEF AfterEthernet, ethertype
  <2>2. kVlanTag \in Headers /\ 112 \in 0 .. 8 * n
    BY <1>1, <1>2 DEF Headers, Fits
  <2>3. Reading(kVlanTag, 112)' /\ buffer' = buffer
    BY <1>1, <1>2, <2>1, <2>2, DeserializeReads
  <2>4. AtVlan'
    BY <1>2, <1>3, <2>1, <2>3 DEF AtVlan, Fits, Reported
  <2> QED
    BY <2>1, <2>3, <2>4 DEF ParserInv
<1>6. CASE ethertype # Vlan
  <2>1. frame.tag = <<>> /\ Continue(n, ethertype)
    BY <1>2, <1>4, <1>6 DEF AfterEthernet, ethertype
  <2>2. ethertype = frame.ethertype /\ Payload(frame) = 112 /\ LinkNames(frame) = EthernetNames
    BY <1>2, <2>1 DEF Outer, Payload, LinkNames
  <2> QED
    BY <1>2, <1>3, <2>1, <2>2, ContinueStep
<1> QED
  BY <1>5, <1>6

LEMMA VlanStep ==
  ASSUME ParserInv, UNCHANGED <<frame, size>>, NEW n, n = size, AfterVlan(n)
  PROVE  ParserInv'
<1>1. /\ frame \in Requests /\ n \in Sizes /\ n \in Nat /\ Built(size, frame, buffer)
      /\ AtVlan /\ Idle /\ last.status = "ok"
  BY Place DEF AfterVlan, Returned, R!Idle, Idle
<1>2. Fits(128) /\ bit_offset_ = 128 /\ frame.tag # <<>>
  BY <1>1, VlanReport DEF AtVlan
<1>3. reports' = Reported(EthernetNames \cup VlanNames)
  BY <1>1, VlanReport, ReportedUnion DEF AfterVlan, AtVlan
<1>4. R(n)!has_bits(16) <=> Fits(144)
  <2>1. 128 \in 0 .. 8 * n
    BY <1>1, <1>2 DEF Fits
  <2> QED
    BY <1>1, <1>2, <2>1, HasBitsIs DEF R!has_bits, Fits
<1>5. R(n)!ReadAligned(2) /\ pc' = "inner"
  BY DEF AfterVlan
<1>6. CASE Fits(144)
  <2>1. PICK value \in R(n)!GetAligned("BigEndian", buffer, 16, 2) :
          bit_offset_' = 144 /\ last'.status = "ok" /\ last'.value = value
          /\ buffer' = buffer /\ call' = call
    BY <1>2, <1>4, <1>5, <1>6 DEF R!ReadAligned, R!Throw, R!EndAt, R!Result, R!byte_idx
  <2>2. value \in GetAligned("BigEndian", buffer, 16, 2)
    BY DEF R!GetAligned, GetAligned, R!ShiftedByte, ShiftedByte
  <2>3. value = GetBits("BigEndian", buffer, 128, 16)
    <3>1. n \in Nat /\ buffer \in Buffers(n) /\ 16 + 2 <= n /\ "BigEndian" \in Orders
      BY <1>1, <1>6 DEF Built, Fits, Orders
    <3>2. value = GetBits("BigEndian", buffer, 8 * 16, 8 * 2)
      BY <2>2, <3>1, GetAlignedIsBits
    <3> QED
      BY <3>2
  <2>4. value = frame.ethertype
    BY <1>2, <1>6, <2>3, <1>1 DEF Built, Fits
  <2>5. AtInner'
    BY <1>1, <1>2, <1>3, <1>6, <2>1, <2>4 DEF AtInner, Fits, Idle, Reported
  <2> QED
    BY <1>5, <2>1, <2>5 DEF ParserInv
<1>7. CASE ~Fits(144)
  <2>1. last'.status = "out_of_range" /\ buffer' = buffer /\ call' = call
    BY <1>2, <1>4, <1>5, <1>7 DEF R!ReadAligned, R!Throw, R!EndAt, R!Result
  <2>2. AtInner'
    BY <1>1, <1>2, <1>3, <1>7, <2>1 DEF AtInner, Fits, Idle, Reported
  <2> QED
    BY <1>5, <2>1, <2>2 DEF ParserInv
<1> QED
  BY <1>6, <1>7

LEMMA InnerStep ==
  ASSUME ParserInv, UNCHANGED <<frame, size>>, NEW n, n = size, AfterInner(n)
  PROVE  ParserInv'
<1>1. AtInner /\ last.status = "ok"
  BY Place DEF AfterInner, Returned
<1>2. /\ frame.tag # <<>> /\ Fits(144) /\ bit_offset_ = 144 /\ last.value = frame.ethertype
      /\ reports = Reported(EthernetNames \cup VlanNames)
  BY <1>1 DEF AtInner
<1>3. Payload(frame) = 144
  BY <1>2 DEF Payload
<1>4. {<<"inner", last.value>>} = Reported(InnerNames)
  BY <1>2 DEF Reported, InnerNames, Sent
<1>5. reports' = Reported(LinkNames(frame))
  <2>1. reports' = Reported(EthernetNames \cup VlanNames) \cup Reported(InnerNames)
    BY <1>2, <1>4 DEF AfterInner
  <2>2. LinkNames(frame) = (EthernetNames \cup VlanNames) \cup InnerNames
    BY <1>2 DEF LinkNames
  <2> QED
    BY <2>1, <2>2, ReportedUnion
<1>6. Continue(n, frame.ethertype)
  BY <1>2 DEF AfterInner
<1> QED
  BY <1>2, <1>3, <1>5, <1>6, ContinueStep

LEMMA Ipv4Step ==
  ASSUME ParserInv, UNCHANGED <<frame, size>>, AfterIpv4
  PROVE  ParserInv'
<1>1. /\ frame \in Requests /\ size \in Sizes /\ size \in Nat /\ Built(size, frame, buffer)
      /\ AtIpv4 /\ Idle /\ last.status = "ok"
  BY Place DEF AfterIpv4, Returned, R!Idle, Idle
<1>2. frame.ethertype = Ipv4 /\ reports = Reported(LinkNames(frame))
  BY <1>1 DEF AtIpv4
<1>3. reports' = Reported(AllNames(frame))
  <2>1. reports' = Reported(LinkNames(frame)) \cup Reported(Ipv4Names)
    BY <1>1, <1>2, Ipv4Report DEF AfterIpv4
  <2>2. AllNames(frame) = LinkNames(frame) \cup Ipv4Names
    BY <1>2 DEF AllNames
  <2> QED
    BY <2>1, <2>2, ReportedUnion
<1>4. Announced(frame) <= size
  BY <1>1, <1>2, Ipv4Report, AnnouncedIs DEF Fits
<1>5. pc' = "done" /\ buffer' = buffer
  BY DEF AfterIpv4, readerVars
<1>6. AtDone'
  BY <1>3, <1>4 DEF AtDone, Reported
<1> QED
  BY <1>5, <1>6 DEF ParserInv

\* The loop of a deserialize goes on only where the parser waits for one.
LEMMA LoopStep ==
  ASSUME ParserInv, UNCHANGED <<frame, size>>, NEW n, n = size, Loop(n)
  PROVE  ParserInv'
<1>1. frame \in Requests /\ n \in Sizes /\ n \in Nat
  BY Place
<1>2. R(n)!Step /\ pc' = pc /\ reports' = reports
  BY DEF Loop
<1>3. ~Idle /\ buffer' = buffer
  <2>1. CASE R(n)!LoopField
    BY <2>1 DEF R!LoopField, R!TakeField, R!EndLoop, R!Idle, Idle
  <2>2. CASE R(n)!LoopReturn
    BY <2>2 DEF R!LoopReturn, R!EndLoop, R!Idle, Idle
  <2> QED
    BY <1>2, <2>1, <2>2 DEF R!Step
<1>4. kEthernetHeader \in Headers /\ kVlanTag \in Headers /\ kIpv4Header \in Headers
  BY DEF Headers
<1>5. CASE pc = "ethernet"
  <2>1. AtEthernet
    BY <1>5, Place
  <2>2. Reading(kEthernetHeader, 0)'
    BY <1>1, <1>2, <1>4, <2>1, LoopReads DEF AtEthernet
  <2> QED
    BY <1>2, <1>3, <1>5, <2>1, <2>2 DEF ParserInv, AtEthernet
<1>6. CASE pc = "vlan"
  <2>1. AtVlan
    BY <1>6, Place
  <2>2. Reading(kVlanTag, 112)'
    BY <1>1, <1>2, <1>4, <2>1, LoopReads DEF AtVlan
  <2> QED
    BY <1>2, <1>3, <1>6, <2>1, <2>2 DEF ParserInv, AtVlan, Fits, Reported
<1>7. CASE pc = "ipv4"
  <2>1. AtIpv4
    BY <1>7, Place
  <2>2. PICK from : from = Payload(frame)
    OBVIOUS
  <2>3. from \in Nat /\ Reading(kIpv4Header, from)
    BY <2>1, <2>2, AnnouncedIs DEF AtIpv4
  <2>4. Reading(kIpv4Header, from)'
    BY <1>1, <1>2, <1>4, <2>3, LoopReads
  <2>5. from = Payload(frame)'
    BY <2>2
  <2> QED
    BY <1>2, <1>3, <1>7, <2>1, <2>4, <2>5 DEF ParserInv, AtIpv4, Fits, Reported
<1>8. CASE pc = "done"
  <2>1. AtDone
    BY <1>8, Place
  <2> QED
    BY <1>2, <1>3, <1>8, <2>1 DEF ParserInv, AtDone, Reported
<1>9. CASE pc = "thrown"
  <2>1. AtThrown
    BY <1>9, Place
  <2> QED
    BY <1>2, <1>3, <1>9, <2>1 DEF ParserInv, AtThrown, Reported
<1>10. pc \notin {"start", "inner"}
  BY <1>3, Place DEF AtStart, AtInner
<1> QED
  BY <1>5, <1>6, <1>7, <1>8, <1>9, <1>10 DEF ParserInv

\* Only a header for which the frame has no room throws.
LEMMA ThrowsStep ==
  ASSUME ParserInv, UNCHANGED <<frame, size>>, Throws
  PROVE  ParserInv'
<1>1. frame \in Requests /\ size \in Sizes /\ size \in Nat
  BY Place
<1>2. /\ pc \notin {"start", "done", "thrown"} /\ Idle /\ last.status # "ok"
      /\ pc' = "thrown" /\ reports' = reports /\ buffer' = buffer
  BY DEF Throws, readerVars, R!Idle, Idle
<1>3. /\ kEthernetHeader \in Headers /\ kVlanTag \in Headers /\ kIpv4Header \in Headers
      /\ total_bits(kEthernetHeader) = 112 /\ total_bits(kVlanTag) = 16
      /\ total_bits(kIpv4Header) = 160
  BY EthernetLayout, VlanLayout, Ipv4Layout DEF Headers
<1>4. \A names : names \subseteq AllNames(frame) => Reported(names) \subseteq Reported(AllNames(frame))
  BY DEF Reported
<1>5. /\ Payload(frame) \in Nat /\ Announced(frame) \in Nat
      /\ 8 * Announced(frame) = IF frame.ethertype = Ipv4 THEN Payload(frame) + 160
                                ELSE Payload(frame)
      /\ Payload(frame) = IF frame.tag = <<>> THEN 112 ELSE 144
  BY AnnouncedIs DEF Payload
<1>6. Announced(frame) > size /\ reports \subseteq Reported(AllNames(frame))
  <2>1. CASE pc = "ethernet"
    <3>1. AtEthernet
      BY <2>1, Place
    <3>2. ~Fits(112) /\ reports = {}
      BY <1>2, <1>3, <3>1, ReadingEnds DEF AtEthernet
    <3> QED
      BY <1>1, <1>5, <3>2 DEF Fits
  <2>2. CASE pc = "vlan"
    <3>1. AtVlan
      BY <2>2, Place
    <3>2. ~Fits(128) /\ frame.tag # <<>> /\ reports = Reported(EthernetNames)
      BY <1>2, <1>3, <3>1, ReadingEnds DEF AtVlan
    <3>3. EthernetNames \subseteq AllNames(frame)
      BY DEF AllNames, LinkNames
    <3> QED
      BY <1>1, <1>4, <1>5, <3>2, <3>3 DEF Fits
  <2>3. CASE pc = "inner"
    <3>1. AtInner
      BY <2>3, Place
    <3>2. ~Fits(144) /\ frame.tag # <<>> /\ reports = Reported(EthernetNames \cup VlanNames)
      BY <1>2, <3>1 DEF AtInner
    <3>3. EthernetNames \cup VlanNames \subseteq AllNames(frame)
      BY <3>2 DEF AllNames, LinkNames
    <3> QED
      BY <1>1, <1>4, <1>5, <3>2, <3>3 DEF Fits
  <2>4. CASE pc = "ipv4"
    <3>1. AtIpv4
      BY <2>4, Place
    <3>2. /\ ~Fits(Payload(frame) + 160) /\ frame.ethertype = Ipv4
          /\ reports = Reported(LinkNames(frame))
      BY <1>2, <1>3, <3>1, ReadingEnds DEF AtIpv4
    <3>3. LinkNames(frame) \subseteq AllNames(frame)
      BY DEF AllNames
    <3> QED
      BY <1>1, <1>4, <1>5, <3>2, <3>3 DEF Fits
  <2> QED
    BY <1>2, <2>1, <2>2, <2>3, <2>4 DEF ParserInv
<1>7. AtThrown'
  BY <1>2, <1>6 DEF AtThrown, Reported
<1> QED
  BY <1>2, <1>7 DEF ParserInv

LEMMA ParserStep == ParserInv /\ [Next]_vars => ParserInv'
<1> SUFFICES ASSUME ParserInv, [Next]_vars
             PROVE  ParserInv'
  OBVIOUS
<1>1. CASE Next
  <2>1. UNCHANGED <<frame, size>>
    BY <1>1 DEF Next
  <2>2. PICK n \in {size} :
          Start(n) \/ AfterEthernet(n) \/ AfterVlan(n) \/ AfterInner(n) \/ AfterIpv4
            \/ Loop(n) \/ Throws
    BY <1>1 DEF Next
  <2> QED
    BY <2>1, <2>2, StartStep, EthernetStep, VlanStep, InnerStep, Ipv4Step, LoopStep, ThrowsStep
<1>2. CASE UNCHANGED vars
  BY <1>2 DEF vars, clientVars, readerVars, ParserInv, AtStart, AtEthernet, AtVlan, AtInner,
              AtIpv4, AtDone, AtThrown, Idle, Reading, Loops, Prefix, Fits, Reported
<1> QED
  BY <1>1, <1>2

LEMMA ParserStarts == Init => ParserInv
BY DEF Init, ParserInv, AtStart, Idle, R!NoFrame

\* The inductive invariant.
THEOREM ParserHolds == Spec => []ParserInv
BY ParserStarts, ParserStep, PTL DEF Spec

-----------------------------------------------------------------------------
(* The properties.                                                         *)

\* Every name is reported once.
Counted(names, n) == IsFiniteSet(Reported(names)) /\ Cardinality(Reported(names)) = n

LEMMA OneMore ==
  ASSUME NEW names, NEW n \in Nat, Counted(names, n), NEW name, name \notin names
  PROVE  Counted(names \cup {name}, n + 1)
<1> DEFINE S == Reported(names)
           r == <<name, Sent(frame, name)>>
<1>1. Reported(names \cup {name}) = S \cup {r} /\ r \notin S
  BY DEF Reported
<1>2. IsFiniteSet(S) /\ Cardinality(S) = n
  BY DEF Counted
<1> HIDE DEF S, r
<1>3. IsFiniteSet(S \cup {r}) /\ Cardinality(S \cup {r}) = n + 1
  BY <1>1, <1>2, FS_AddElement
<1> QED
  BY <1>1, <1>3 DEF Counted

LEMMA ThreeMore ==
  ASSUME NEW names, NEW n \in Nat, Counted(names, n), NEW a, NEW b, NEW c,
         a # b, b # c, a # c, a \notin names, b \notin names, c \notin names
  PROVE  Counted(names \cup {a, b, c}, n + 3)
<1>1. Counted(names \cup {a}, n + 1)
  BY OneMore
<1>2. Counted((names \cup {a}) \cup {b}, (n + 1) + 1)
  BY <1>1, OneMore
<1>3. Counted(((names \cup {a}) \cup {b}) \cup {c}, ((n + 1) + 1) + 1)
  BY <1>2, OneMore
<1>4. ((names \cup {a}) \cup {b}) \cup {c} = names \cup {a, b, c} /\ ((n + 1) + 1) + 1 = n + 3
  OBVIOUS
<1> QED
  BY <1>3, <1>4

LEMMA AllCounted ==
  Counted(AllNames(frame), 3 + (IF frame.tag = <<>> THEN 0 ELSE 2)
                             + (IF frame.ethertype = Ipv4 THEN 3 ELSE 0))
<1> DEFINE link == IF frame.tag = <<>> THEN 3 ELSE 5
<1>1. Counted({}, 0)
  BY FS_EmptySet DEF Counted, Reported
<1>2. Counted(EthernetNames, 3)
  <2>1. Counted({} \cup {"dest_mac", "src_mac", "ethertype"}, 0 + 3)
    BY <1>1, ThreeMore
  <2> QED
    BY <2>1 DEF EthernetNames
<1>3. Counted(LinkNames(frame), link)
  <2>1. CASE frame.tag = <<>>
    BY <1>2, <2>1 DEF LinkNames
  <2>2. CASE frame.tag # <<>>
    <3>1. Counted(EthernetNames \cup {"vid"}, 3 + 1)
      BY <1>2, OneMore DEF EthernetNames
    <3>2. Counted((EthernetNames \cup {"vid"}) \cup {"inner"}, (3 + 1) + 1)
      BY <3>1, OneMore DEF EthernetNames
    <3>3. (EthernetNames \cup {"vid"}) \cup {"inner"} = LinkNames(frame)
      <4>1. LinkNames(frame) = EthernetNames \cup (VlanNames \cup InnerNames)
        BY <2>2 DEF LinkNames
      <4>2. VlanNames = {"vid"} /\ InnerNames = {"inner"}
        BY DEF VlanNames, InnerNames
      <4> QED
        BY <4>1, <4>2
    <3>4. link = (3 + 1) + 1
      BY <2>2
    <3> HIDE DEF link
    <3> QED
      BY <3>2, <3>3, <3>4
  <2> QED
    BY <2>1, <2>2
<1>4. CASE frame.ethertype = Ipv4
  <2>1. /\ link \in Nat
        /\ "version" \notin LinkNames(frame) /\ "ttl" \notin LinkNames(frame)
        /\ "protocol" \notin LinkNames(frame)
    BY DEF LinkNames, EthernetNames, VlanNames, InnerNames
  <2>2. Counted(LinkNames(frame) \cup {"version", "ttl", "protocol"}, link + 3)
    BY <1>3, <2>1, ThreeMore
  <2>3. AllNames(frame) = LinkNames(frame) \cup {"version", "ttl", "protocol"}
    BY <1>4 DEF AllNames, Ipv4Names
  <2> QED
    BY <1>4, <2>2, <2>3
<1>5. CASE frame.ethertype # Ipv4
  BY <1>3, <1>5 DEF AllNames
<1> QED
  BY <1>4, <1>5

\* Whatever is reported is among what is to be reported.
LEMMA ReportsAmong ==
  ASSUME ParserInv
  PROVE  reports \subseteq Reported(AllNames(frame))
<1>1. AtStart \/ AtEthernet \/ AtVlan \/ AtInner \/ AtIpv4 \/ AtDone \/ AtThrown
  BY DEF ParserInv
<1>2. AtVlan \/ AtInner => frame.tag # <<>>
  BY DEF AtVlan, AtInner
<1>3. reports = {} \/ \E names : names \subseteq AllNames(frame) /\ reports \subseteq Reported(names)
  BY <1>1, <1>2 DEF AtStart, AtEthernet, AtVlan, AtInner, AtIpv4, AtDone, AtThrown, AllNames,
                    LinkNames
<1> QED
  BY <1>3 DEF Reported

(***************************************************************************)
(* Whatever the parser prints is what the sender asked for under that      *)
(* name, for frames of every length: no header is taken for another, and   *)
(* none that the builder left out is reported.                             *)
(***************************************************************************)
THEOREM ParserReportsWhatWasSent == Spec => []ReportsWhatWasSent
<1>1. ParserInv => ReportsWhatWasSent
  <2> SUFFICES ASSUME ParserInv, NEW r \in reports
               PROVE  /\ r[1] \in {"vid", "inner"} => frame.tag # <<>>
                      /\ r[1] \in {"version", "ttl", "protocol"} => frame.ethertype = Ipv4
                      /\ r[2] = Sent(frame, r[1])
    BY DEF ReportsWhatWasSent
  <2>1. PICK name \in AllNames(frame) : r = <<name, Sent(frame, name)>>
    BY ReportsAmong DEF Reported
  <2>2. r[1] = name /\ r[2] = Sent(frame, name)
    BY <2>1
  <2>3. /\ name \in {"vid", "inner"} => frame.tag # <<>>
        /\ name \in {"version", "ttl", "protocol"} => frame.ethertype = Ipv4
    BY DEF AllNames, LinkNames, EthernetNames, VlanNames, InnerNames, Ipv4Names
  <2> QED
    BY <2>2, <2>3
<1> QED
  BY <1>1, ParserHolds, PTL

(***************************************************************************)
(* The parser throws exactly if the frame is shorter than the headers it   *)
(* announces, and otherwise reports all of them, for frames of every       *)
(* length.                                                                 *)
(***************************************************************************)
THEOREM ParserThrowsIfShort == Spec => []ThrowsIfShort
<1>1. ParserInv => ThrowsIfShort
  <2> SUFFICES ASSUME ParserInv, Ended
               PROVE  /\ pc = "thrown" <=> Announced(frame) > size
                      /\ pc = "done" => Cardinality(reports)
                                          = 3 + (IF frame.tag = <<>> THEN 0 ELSE 2)
                                              + (IF frame.ethertype = Ipv4 THEN 3 ELSE 0)
    BY DEF ThrowsIfShort
  <2>1. size \in Nat /\ Announced(frame) \in Nat
    BY Place, AnnouncedIs
  <2>2. CASE pc = "thrown"
    BY <2>1, <2>2, Place DEF AtThrown
  <2>3. CASE pc = "done"
    <3>1. Announced(frame) <= size /\ reports = Reported(AllNames(frame))
      BY <2>3, Place DEF AtDone
    <3> QED
      BY <2>1, <2>3, <3>1, AllCounted DEF Counted
  <2> QED
    BY <2>2, <2>3 DEF Ended
<1> QED
  BY <1>1, ParserHolds, PTL
=============================================================================
