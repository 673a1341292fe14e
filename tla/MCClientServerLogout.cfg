CONSTANTS
  f1 = f1  f2 = f2  alice = alice  t1 = t1  c1 = c1
  general = general
  Fds <- OneFd
  Users <- OneUser
  Teams <- OneTeam
  Channels = {}
  Threads = {}
  Names <- OneName
  Contexts <- MCContexts
  NoContext <- MCNoContext
  Kinds <- TimeoutKinds
  NoCommand = NoCommand
  NoUser = NoUser
  Nothing = Nothing
  BadSize = BadSize
  BadText = BadText
  None = None
  Seconds = {0}
  MaxMessages = 0
  MaxReplies = 0
  FailingFiles = {}
  MaxTimeouts = 1
  MaxInTransit = 4
SPECIFICATION SystemSpec
CONSTRAINT NothingSaved
PROPERTY LogoutMakesLoginPossible
