SPECIFICATION Spec
CONSTANTS
  MAX_ACL_ENTRIES = 2
  Rules <- MCRules
  RuledLists = {1}
  MaxRules = 2
  MaxCount = 0
  Capacity = 5
  Garbage = Garbage
  Clients = {c1, c2}
  NONE = NONE
  HEADER = 1
  TIGHT = 4
  CUT = 1
  SEND_MAX = 2
  MaxLen = 3
  MonitorModes = {"on", "acl"}
  MAX_TOKEN_RATIO = 1
  SECOND = 1
  KBYTE = 1
  WORD = 2
  Shaped = {}
  Rates = {}
  DailyLimits = {0}
  Intervals = {1}
  Packets <- TwoSizes
  MaxBytes = 0
SYMMETRY Symmetry
INVARIANTS
  BufferWhileOn
  IdleHasRoom
PROPERTIES
  KeepsRecords
  DeniedNeverPasses
