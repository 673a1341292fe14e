CONSTANTS
  f1 = f1  f2 = f2  alice = alice  t1 = t1  c1 = c1
  general = general
  Fds <- TwoFds
  Users <- OneUser
  Teams <- OneTeam
  Channels = {}
  Threads = {}
  Names <- OneName
  Contexts <- MCContexts
  NoContext <- MCNoContext
  Kinds <- InterleavedKinds
  NoCommand = NoCommand
  NoUser = NoUser
  Nothing = Nothing
  BadSize = BadSize
  BadText = BadText
  None = None
  Seconds = {0}
  MaxMessages = 0
  MaxReplies = 0
  FailingFiles = {}
  MaxTimeouts = 0
  MaxInTransit = 3
SPECIFICATION SystemSpec
CONSTRAINT NothingSaved
SYMMETRY Interchangeable
VIEW WithoutOutput
INVARIANTS ClientKnowsSession SelectedContextIsUsed RepliesUnderstood
