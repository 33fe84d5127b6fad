------------------------------ MODULE Formats ------------------------------
(***************************************************************************)
(* The predefined formats of formats.h.  constexpr_formats repeats the     *)
(* first four and kPcieExtCapHeader.                                       *)
(***************************************************************************)
EXTENDS PacketFormat

Fields(names, widths) ==
  [i \in 1 .. Len(names) |-> [name |-> names[i], bit_width |-> widths[i]]]

kVlanTag == Fields(<<"pcp", "dei", "vid">>, <<3, 1, 12>>)

kDestMacWithExplicitBits == Fields(<<"ig_bit", "ul_bit", "mac_rest">>, <<1, 1, 46>>)

kEthernetHeader == Fields(<<"dest_mac", "src_mac", "ethertype">>, <<48, 48, 16>>)

kIpv4Header ==
  Fields(<<"version", "ihl", "dscp", "ecn", "total_length", "identification", "flags",
           "fragment_offset", "ttl", "protocol", "header_checksum", "src_ip", "dst_ip">>,
         <<4, 4, 6, 2, 16, 16, 3, 13, 8, 8, 16, 32, 32>>)

kTcpHeader ==
  Fields(<<"src_port", "dst_port", "seq_num", "ack_num", "data_offset", "reserved", "flags",
           "window_size", "checksum", "urgent_ptr">>,
         <<16, 16, 32, 32, 4, 3, 9, 16, 16, 16>>)

kUdpHeader == Fields(<<"src_port", "dst_port", "length", "checksum">>, <<16, 16, 16, 16>>)

kArpHeader ==
  Fields(<<"hw_type", "proto_type", "hw_addr_len", "proto_addr_len", "operation",
           "sender_hw_addr", "sender_proto_addr", "target_hw_addr", "target_proto_addr">>,
         <<16, 16, 8, 8, 16, 48, 32, 48, 32>>)

kIcmpHeader == Fields(<<"type", "code", "checksum", "rest_of_header">>, <<8, 8, 16, 32>>)

kPcieExtCapHeader == Fields(<<"capability_id", "version", "next_offset">>, <<16, 4, 12>>)

kPciCapHeader == Fields(<<"capability_id", "next_ptr">>, <<8, 8>>)

kPciMemoryBar32 ==
  Fields(<<"io_space", "type", "prefetchable", "base_address">>, <<1, 2, 1, 28>>)

kPciIoBar == Fields(<<"io_space", "reserved", "base_address">>, <<1, 1, 30>>)

\* The sizes that the comment above each format gives.
ASSUME DocumentedSizes ==
  /\ total_bits(kVlanTag) = 16 /\ total_bits(kPciCapHeader) = 16
  /\ \A f \in {kPcieExtCapHeader, kPciMemoryBar32, kPciIoBar} : total_bits(f) = 32
  /\ total_bits(kDestMacWithExplicitBits) = 48
  /\ \A f \in {kUdpHeader, kIcmpHeader} : total_bits(f) = 64
  /\ total_bits(kEthernetHeader) = 112
  /\ \A f \in {kIpv4Header, kTcpHeader} : total_bits(f) = 160
  /\ total_bits(kArpHeader) = 224
=============================================================================
