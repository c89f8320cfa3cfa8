SPECIFICATION DeviceSpec
CONSTANTS
  Args <- MCArgs
  Requests <- MCRequests
  Routes = {r1}
  DefaultPortmap = 2
  MaxTable = 3
  MinWatchdog = 2
  MaxClients = 8
  HoldTicks = 6
  HoldMs = 3000
  MaxCmds = 3
INVARIANTS TypeOK PortmapsAreOurs LockIsSaved WatchdogsExact
PROPERTY HeldLongEnough
