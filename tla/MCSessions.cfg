CONSTANTS
  f1 = f1  f2 = f2  f3 = f3
  alice = alice  bob = bob
  noContext = noContext  general = general
  Fds <- MCFds
  Users <- MCUsers
  Contexts <- MCContexts
  NoContext = noContext
  NoUser = NoUser
  Nothing = Nothing
  BadSize = BadSize
  BadText = BadText
  Seconds = {0}
  MaxMessages = 1
SPECIFICATION Spec
SYMMETRY Interchangeable
INVARIANTS LoginsCountSessions RoutesSound MessagesReachOnlyTheirReceiver
PROPERTIES RouteLostOnlyByDisconnection PresenceChangesAnnounced OneReplyPerCommand ImplementsPresence
