CONSTANTS
  f1 = f1  f2 = f2  alice = alice  bob = bob
  t1 = t1  c1 = c1  h1 = h1  h2 = h2
  general = general
  Fds <- TwoFds
  Users <- TwoUsers
  Teams <- OneTeam
  Channels <- OneChannel
  Threads <- TwoThreads
  Names <- OneName
  Contexts <- MCContexts
  NoContext <- MCNoContext
  NoUser = NoUser
  Nothing = Nothing
  BadSize = BadSize
  BadText = BadText
  None = None
  Seconds = {0}
  MaxMessages = 0
  MaxReplies = 1
  FailingFiles = {"users", "threads"}
SPECIFICATION WorkspaceSpec
CONSTRAINT OneLater
VIEW WithoutOutput
SYMMETRY Interchangeable
INVARIANTS SubscribedOnce EntriesDistinct ReferencesResolve
PROPERTIES ContentStaysInTeam ContentWrittenAndAnnouncedInTeam AnswersComplete
