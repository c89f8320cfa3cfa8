------------------------------ MODULE MCBridge ------------------------------
(* Bridge on a small network.  Clients, addresses and transactions are      *)
(* interchangeable: no definition of Bridge names or orders them.           *)
EXTENDS Bridge, TLC
MCSymmetry ==
  Permutations(ClientMacs) \cup Permutations(HostIps) \cup Permutations(Xids)
=============================================================================
