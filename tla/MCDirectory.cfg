CONSTANTS
  f1 = f1  f2 = f2
  alice = alice  bob = bob  carol = carol
  noContext = noContext
  Fds <- MCFds
  Users <- MCUsers
  Contexts <- MCContexts
  NoContext = noContext
  NoUser = NoUser
  Nothing = Nothing
  BadSize = BadSize
  BadText = BadText
  Seconds = {0, 1}
  MaxMessages = 2
SPECIFICATION DirectorySpec
CONSTRAINT NothingSaved
SYMMETRY Interchangeable
INVARIANTS StatusShownIsTrue ConversationShown
