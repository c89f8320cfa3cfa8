SPECIFICATION GpioSpec
CONSTANTS
  Pins = {1, 2, 3}
  Inputs = {1, 3}
  Links <- MCLinks
  MaxCmds = 2
  MaxEdges = 2
CHECK_DEADLOCK FALSE
INVARIANTS LevelSeen TimerReverts SwitchShows
