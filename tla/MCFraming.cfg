CONSTANTS
  HeaderSize = 2
  PayloadSizes = {0, 2}
  DownRoom = 3
  MaxCommands = 2
  MaxEvents = 1
  MaxTimeouts = 1
  MaxConnections = 2
SPECIFICATION FairSpec
CHECK_DEADLOCK FALSE
INVARIANTS NothingLeftBehind InStepUnlessCut
PROPERTIES CommandsFramed AnswersArrive
