------------------------------ MODULE MCPacketPath ------------------------------
(* Addresses 4 and 5 are one network.  The rules overlap:                   *)
(* one allows and shows what another denies.                                *)
EXTENDS PacketPath, TLC

Packet(eth, room, proto, src, len, id) ==
  [eth |-> eth, room |-> room, proto |-> proto, src |-> src, dest |-> 8,
   s_port |-> 0, d_port |-> 0, len |-> len, id |-> id]
Rule(proto, src, s_block, allow) ==
  [proto |-> proto, src |-> src, s_block |-> s_block, dest |-> 0, d_block |-> 16,
   s_port |-> 0, d_port |-> 0, allow |-> allow]

UdpA == Packet("IP", "all", 17, 5, 3, "a")
IcmpB == Packet("IP", "ip", 1, 4, 1, "b")
CutUdp == Packet("IP", "ip", 17, 5, 1, "b")
Arp == Packet("ARP", "eth", 0, 0, 1, "b")

TwoSizes == {UdpA, IcmpB}
EveryKind == {UdpA, IcmpB, CutUdp, Arp}
MCRules == {Rule(0, 5, 2, {"ALLOW", "MONITOR"}), Rule(0, 5, 1, {"MONITOR"})}
NoRules == {}
Symmetry == Permutations(Clients)
=============================================================================
