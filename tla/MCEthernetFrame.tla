-------------------------- MODULE MCEthernetFrame --------------------------
(* Small instances of EthernetFrame for TLC. *)
EXTENDS EthernetFrame

MCPadding == {"reserved"}

\* The values of example_ethernet_vlan.
MCMacs == <<{1, 2, 5, 6, 8, 10, 12, 14, 18, 22, 24, 25, 28, 29, 33, 37, 40, 44},
            {0, 1, 2, 3, 4, 5, 6, 7, 9, 10, 11, 13, 14, 15, 16, 18, 19, 20, 22, 23, 26, 27,
             30, 31, 32, 33, 35, 36, 37, 39, 41, 43, 45, 47}>>
MCTag == <<{0, 1}, {0}, {1, 3, 5}>>
MCIpv4 == <<{2}, {0, 2}, {}, {}, {3, 5}, {}, {}, {}, {6}, {1, 2}, {},
            {0, 8, 19, 21, 23, 30, 31}, {1, 8, 19, 21, 23, 30, 31}>>

Frame(tag, ethertype) ==
  [macs |-> MCMacs, tag |-> tag, ethertype |-> ethertype, ipv4 |-> MCIpv4]

MCExample == {Frame(MCTag, Ipv4)}

\* Also without a tag, with a second tag, and with IPv6; a tag whose values are
\* wider than their fields.
MCRequests ==
  {Frame(tag, Ipv4) : tag \in {<<>>, MCTag, <<0 .. 63, {1}, {0, 11, 12}>>}}
    \cup {Frame(MCTag, Vlan), Frame(<<>>, {0, 2, 3, 4, 6, 7, 9, 10, 15})}
=============================================================================
