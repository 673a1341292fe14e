CONSTANTS
  f1 = f1  f2 = f2  alice = alice  t1 = t1  c1 = c1
  general = general
  Fds <- OneFd
  Users <- OneUser
  Teams <- OneTeam
  Channels <- OneChannel
  Threads = {}
  Names <- OneName
  Contexts <- MCContexts
  NoContext <- MCNoContext
  Kinds <- SessionKinds
  NoCommand = NoCommand
  NoUser = NoUser
  Nothing = Nothing
  BadSize = BadSize
  BadText = BadText
  None = None
  Seconds = {0}
  MaxMessages = 0
  MaxReplies = 0
  FailingFiles = {}
  MaxTimeouts = 0
  MaxInTransit = 4
SPECIFICATION SystemSpec
CONSTRAINT NothingSaved
PROPERTY CreatedAsAsked
