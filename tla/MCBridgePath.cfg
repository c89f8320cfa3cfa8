SPECIFICATION Spec
CONSTANTS
  FDB_SIZE = 1
  FDB_TTL_S = 1
  XID_MAP_SIZE = 1
  XID_TTL_S = 1
  MaxNow = 1
  Kinds = {"arp", "ip", "mdns", "dhcp_request", "dhcp_reply", "other", "runt"}
  HostIps = {h1}
  Xids = {x1, x2}
  ClientMacs = {m1, m2}
  PeerMacs = {router}
  StaIps = {lease}
  StaMac = StaMac
  ApMac = ApMac
  BcastMac = BcastMac
  NoIp = NoIp
  ApIp = ApIp
  McastIp = McastIp
INVARIANTS
  OwnAddressNeverLearned
  ClientsHidden
  ReplyToAsker
SYMMETRY MCSymmetry
