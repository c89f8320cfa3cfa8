SPECIFICATION Spec
CONSTANTS
  MAX_ACL_ENTRIES = 2
  Rules <- MCRules
  RuledLists = {0, 2}
  MaxRules = 1
  MaxCount = 1
  Capacity = 4
  Garbage = Garbage
  Clients = {}
  NONE = NONE
  HEADER = 1
  TIGHT = 4
  CUT = 1
  SEND_MAX = 2
  MaxLen = 3
  MonitorModes = {}
  MAX_TOKEN_RATIO = 1
  SECOND = 2
  KBYTE = 2
  WORD = 8
  Shaped = {"us"}
  Rates = {0, 3}
  DailyLimits = {0, 1}
  Intervals = {1, 3}
  Packets <- EveryKind
  MaxBytes = 5
INVARIANTS
  TypeOK
  RateLimit
  DailyLimit
  HitsCounted
