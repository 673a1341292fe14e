CONSTANTS
  Kinds <- AnyInput
  MaxLines = 3
  MaxEvents = 2
SPECIFICATION FairSpec
CHECK_DEADLOCK FALSE
PROPERTIES LinesRun SocketNoticed
