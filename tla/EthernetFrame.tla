--------------------------- MODULE EthernetFrame ---------------------------
(***************************************************************************)
(* example_ethernet_vlan (examples/basic_usage.cpp): a frame is built with *)
(* a ConstexprBitWriter, whose return values nobody looks at, and taken    *)
(* apart by example_deserialize_ethernet_frame, a chain of BitReader calls *)
(* in which what one call returns decides on the next.  No exception is    *)
(* caught.  Senders that add no tag, or another payload than IPv4, are     *)
(* modelled beside the example's.                                          *)
(***************************************************************************)
EXTENDS Formats, BitWire, FiniteSets

CONSTANTS
  SizeMod,  \* number of values of std::size_t
  Sizes,    \* lengths of a frame, in bytes
  Requests  \* what a sender asks for

Vlan == {8, 15}  \* 0x8100
Ipv4 == {11}     \* 0x0800

\* The bits of a frame and of a header can be counted in std::size_t.
ASSUME SizesAssumption ==
  /\ SizeMod \in Nat
  /\ \A n \in Sizes : n \in Nat /\ 8 * n + total_bits(kIpv4Header) < SizeMod

\* No field of these headers has a name that is_padding_field accepts.
ASSUME NoPadding ==
  \A format \in {kEthernetHeader, kVlanTag, kIpv4Header} :
    \A i \in 1 .. Len(format) : ~is_padding_field(format[i].name)

\* tag is empty in a frame without a VLAN tag.
ASSUME RequestsAssumption ==
  \A f \in Requests :
    /\ f.macs \in Seq(Word) /\ Len(f.macs) = 2
    /\ f.tag = <<>> \/ (f.tag \in Seq(Word) /\ Len(f.tag) = Len(kVlanTag))
    /\ f.ethertype \in SUBSET (0 .. 15) /\ (f.tag = <<>> => f.ethertype # Vlan)
    /\ f.ipv4 \in Seq(Word) /\ Len(f.ipv4) = Len(kIpv4Header)

VARIABLES
  frame, size,                                \* what was asked for, and the bytes there are
  pc,                                         \* the call the parser waits for
  reports,                                    \* what it has printed
  buffer, bit_offset_, call, packet, last     \* its reader

clientVars == <<frame, size, pc, reports>>
readerVars == <<buffer, bit_offset_, call, packet, last>>
vars == <<clientVars, readerVars>>

\* Writer and reader of a frame of n bytes, both in network order.
C(n) == INSTANCE ConstexprBitStream WITH Order <- "BigEndian", BufSize <- n
R(n) == INSTANCE BitReader WITH
          Order <- "BigEndian", BufSize <- n, Memories <- {}, Widths <- {}, Formats <- {},
          OutWidths <- {}, Tables <- {}

Build(n, f) ==
  LET outer == IF f.tag = <<>> THEN f.ethertype ELSE Vlan
      header == C(n)!serialize(C(n)!NewWriter, kEthernetHeader, Append(f.macs, outer))
      tagged == IF f.tag = <<>> THEN header
                ELSE C(n)!write_bits(C(n)!serialize(header, kVlanTag, f.tag), 16, f.ethertype)
      whole == IF f.ethertype # Ipv4 THEN tagged
               ELSE C(n)!serialize(tagged, kIpv4Header, f.ipv4)
  IN  whole.buffer

Init ==
  /\ frame \in Requests /\ size \in Sizes
  /\ buffer = Build(size, frame)
  /\ pc = "start"
  /\ reports = {}
  /\ bit_offset_ = 0
  /\ call = R(0)!NoFrame /\ packet = R(0)!NoFrame /\ last = R(0)!NoResult

-----------------------------------------------------------------------------
(* The parser.  Each action takes the result of one call and makes the     *)
(* next; a call that loops goes on in Loop.                                *)

Report(names) == {<<name, R(0)!Get(packet, name)>> : name \in names}

\* The call that the parser waits for at label has returned.
Returned(label) == pc = label /\ R(0)!Idle /\ last.status = "ok"

Start(n) ==
  /\ pc = "start"
  /\ R(n)!Deserialize(kEthernetHeader)
  /\ pc' = "ethernet"
  /\ UNCHANGED reports

\* Faulty variant: every payload is taken for IPv4.
Continue_always(n, ethertype) == R(n)!Deserialize(kIpv4Header) /\ pc' = "ipv4"

Continue(n, ethertype) ==
  \/ /\ ethertype = Ipv4
     /\ R(n)!Deserialize(kIpv4Header)
     /\ pc' = "ipv4"
  \/ /\ ethertype # Ipv4
     /\ pc' = "done"
     /\ UNCHANGED readerVars

\* Faulty variant: the tag is taken for the payload.
AfterEthernet_untagged(n) ==
  /\ Returned("ethernet")
  /\ reports' = reports \cup Report({"dest_mac", "src_mac", "ethertype"})
  /\ Continue(n, R(n)!Get(packet, "ethertype"))

AfterEthernet(n) ==
  LET ethertype == R(n)!Get(packet, "ethertype")
  IN  /\ Returned("ethernet")
      /\ reports' = reports \cup Report({"dest_mac", "src_mac", "ethertype"})
      /\ \/ ethertype = Vlan /\ R(n)!Deserialize(kVlanTag) /\ pc' = "vlan"
         \/ ethertype # Vlan /\ Continue(n, ethertype)

AfterVlan(n) ==
  /\ Returned("vlan")
  /\ reports' = reports \cup Report({"vid"})
  /\ R(n)!ReadAligned(2)
  /\ pc' = "inner"

AfterInner(n) ==
  /\ Returned("inner")
  /\ reports' = reports \cup {<<"inner", last.value>>}
  /\ Continue(n, last.value)

AfterIpv4 ==
  /\ Returned("ipv4")
  /\ reports' = reports \cup Report({"version", "ttl", "protocol"})
  /\ pc' = "done"
  /\ UNCHANGED readerVars

Loop(n) == R(n)!Step /\ UNCHANGED <<pc, reports>>

\* Faulty variant: the parser catches the exception and tries again.
Throws_retry ==
  /\ pc \notin {"start", "done", "thrown"}
  /\ R(0)!Idle /\ last.status # "ok"
  /\ pc' = "start"
  /\ UNCHANGED <<reports, readerVars>>

\* An exception leaves the parser, and the program.
Throws ==
  /\ pc \notin {"start", "done", "thrown"}
  /\ R(0)!Idle /\ last.status # "ok"
  /\ pc' = "thrown"
  /\ UNCHANGED <<reports, readerVars>>

Next ==
  /\ UNCHANGED <<frame, size>>
  /\ \E n \in {size} :
       \/ Start(n) \/ AfterEthernet(n) \/ AfterVlan(n) \/ AfterInner(n) \/ AfterIpv4
       \/ Loop(n) \/ Throws

\* Everything is done by the one thread of the program, which goes on.
Spec == Init /\ [][Next]_vars /\ WF_vars(Next)

-----------------------------------------------------------------------------
Ended == pc \in {"done", "thrown"}

\* The bytes of the headers that a frame announces.
Announced(f) ==
  14 + (IF f.tag = <<>> THEN 0 ELSE 4) + (IF f.ethertype = Ipv4 THEN 20 ELSE 0)

\* What a field of a frame should read as.
Sent(f, name) ==
  LET Of(format, values) == Truncate(values[field_index(format, name)], field_width(format, name))
  IN  CASE name \in {"dest_mac", "src_mac"} -> Of(kEthernetHeader, f.macs)
        [] name = "ethertype" -> IF f.tag = <<>> THEN f.ethertype ELSE Vlan
        [] name = "inner" -> f.ethertype
        [] name = "vid" -> Of(kVlanTag, f.tag)
        [] OTHER -> Of(kIpv4Header, f.ipv4)

(***************************************************************************)
(* Whatever the parser prints is what the sender asked for under that      *)
(* name, with or without a tag and whatever follows it: no field is taken  *)
(* from the place of another, and a header that the ignored return values  *)
(* of the builder say is missing is never reported as zeros.               *)
(***************************************************************************)
ReportsWhatWasSent ==
  \A r \in reports : /\ r[1] \in {"vid", "inner"} => frame.tag # <<>>
                     /\ r[1] \in {"version", "ttl", "protocol"} => frame.ethertype = Ipv4
                     /\ r[2] = Sent(frame, r[1])

(***************************************************************************)
(* The parser throws exactly if the frame is shorter than the headers it   *)
(* announces, and otherwise reports all of them.                           *)
(***************************************************************************)
ThrowsIfShort ==
  Ended =>
    /\ pc = "thrown" <=> Announced(frame) > size
    /\ pc = "done" => Cardinality(reports) = 3 + (IF frame.tag = <<>> THEN 0 ELSE 2)
                                               + (IF frame.ethertype = Ipv4 THEN 3 ELSE 0)

\* The parser ends, by return or by exception.
ParserEnds == <>Ended

-----------------------------------------------------------------------------
\* "Example 4: Full Ethernet + VLAN deserializing" (basic_usage.cpp:57): of the
\* frame that the example builds for itself, the parser reads every header.
ExampleCompletes == pc # "thrown"
=============================================================================
