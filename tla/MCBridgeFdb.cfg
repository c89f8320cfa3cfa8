SPECIFICATION Spec
CONSTANTS
  FDB_SIZE = 2
  FDB_TTL_S = 2
  XID_MAP_SIZE = 1
  XID_TTL_S = 1
  MaxNow = 3
  Kinds = {"ip"}
  HostIps = {h1, h2, h3}
  Xids = {x1}
  ClientMacs = {m1, m2}
  PeerMacs = {router}
  StaIps = {lease}
  StaMac = StaMac
  ApMac = ApMac
  BcastMac = BcastMac
  NoIp = NoIp
  ApIp = ApIp
  McastIp = McastIp
INVARIANTS
  LookupSound
  LookupComplete
SYMMETRY MCSymmetry
