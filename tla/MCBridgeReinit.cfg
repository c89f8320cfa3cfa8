SPECIFICATION Spec
CONSTANTS
  FDB_SIZE = 1
  FDB_TTL_S = 1
  XID_MAP_SIZE = 1
  XID_TTL_S = 1
  MaxNow = 1
  Kinds = {"ip"}
  HostIps = {h1}
  Xids = {x1}
  ClientMacs = {m1, m2}
  PeerMacs = {router}
  StaIps = {lease}
  StaMac = StaMac
  ApMac = ApMac
  BcastMac = BcastMac
  NoIp = NoIp
  ApIp = ApIp
  McastIp = McastIp
INVARIANTS
  OriginalsSaved
SYMMETRY MCSymmetry
