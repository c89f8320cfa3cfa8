SPECIFICATION ConsoleSpec
CONSTANTS
  Conns = {c1, c2, c3}
  Local = {c1, c2}
  ConfigAccess = {"LOCAL"}
  Words <- MCWords
  Tables = {0, 30}
  PingCount = 1
  UpdateTexts = 1
  MaxInputs = 3
CHECK_DEADLOCK FALSE
INVARIANTS NothingStranded AnswersReachAsker QuitReachesAsker
