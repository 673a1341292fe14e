------------------------------ MODULE Sessions ------------------------------
(***************************************************************************)
(* The server's connections and sessions: who is authenticated on which    *)
(* descriptor, which descriptors a user's private messages go to, the      *)
(* login counter of every account and the context of every connection.     *)
(*                                                                         *)
(* The server is one thread around poll(): each handler below runs to its  *)
(* end before the next one starts, so a handler is one action.  A user's   *)
(* uuid is drawn once and never changes, so the account stands for both    *)
(* its name and its uuid.  The names of the definitions are the code's.    *)
(***************************************************************************)
EXTENDS Integers, Sequences, FiniteSets

CONSTANTS
  Fds,          (* Descriptors the kernel may give to a client connection. *)
  Users,        (* Account names.                                          *)
  NoUser,       (* What byFd holds for a descriptor it has no entry for.   *)
  Contexts,     (* (team, channel, thread) selections CMD_USE may carry.   *)
  NoContext,    (* The empty selection of a new connection.                *)
  Nothing,      (* A payload of size 0.                                    *)
  BadSize,      (* A payload whose size the handler refuses.               *)
  BadText,      (* A payload of the right size that does not decode.       *)
  Seconds,      (* Values std::time may return, in any order: clocks are set. *)
  MaxMessages   (* Bound on the private messages of a behaviour.           *)

ASSUME FdsFinite      == IsFiniteSet(Fds)
ASSUME NoUserIsNoUser == NoUser \notin Users
ASSUME NoContextValid == NoContext \in Contexts
ASSUME PayloadsDiffer ==
  /\ BadSize # BadText
  /\ BadSize # Nothing
  /\ {BadSize, BadText} \intersect (Users \union Contexts \union {NoUser}) = {}

VARIABLES
  running,      (* runPollLoop is between its load and its save.           *)
  conns,        (* Keys of clientSockets, clientManager and pollFds.       *)
  known,        (* The accounts in _users.                                 *)
  logins,       (* User::is_logged_in_ of each account.                    *)
  byFd,         (* authenticatedUsersByFd.                                 *)
  routes,       (* authenticatedUsersByUUID: how often each descriptor     *)
                (* stands in a user's vector; an absent entry and an empty *)
                (* vector are the same to every handler (operator[]).      *)
  context,      (* Client's three context uuids.                           *)
  messages,     (* _messages, the private messages kept.                   *)
  disk,         (* What the database files hold.                           *)
  queued        (* The packets the last step appended to each connection's *)
                (* outgoing buffer.                                        *)

sessionVars == <<running, conns, known, logins, byFd, routes, context,
                 messages, disk>>
vars == <<sessionVars, queued>>

-----------------------------------------------------------------------------
(* Data *)

Message == [author : Users, receiver : Users, createdAt : Seconds]

StatusCodes == {"RPL_OK", "ERR_BAD_REQUEST", "ERR_UNAUTHORIZED",
                "ERR_NOT_FOUND", "ERR_ALREADY_EXIST"}
EventCodes == {"EVT_LOGGED_IN", "EVT_LOGGED_OUT", "EVT_PRIVATE_MSG_RCVD"}

\* What a packet tells the client: its code and whom or what it is about.
Packet == [code : StatusCodes \union EventCodes,
           about : Users \union {NoUser} \union Message]

Status(code) == [code |-> code, about |-> NoUser]
Event(code, subject) == [code |-> code, about |-> subject]

SessionsOf(u) == {f \in Fds : byFd[f] = u}
Authenticated == {f \in Fds : byFd[f] # NoUser}
Online(u) == logins[u] >= 1

-----------------------------------------------------------------------------
(* Queueing packets *)

\* One packet for each descriptor of a set, and what follows it.
To(receivers, packet) ==
  [f \in Fds |-> IF f \in receivers THEN <<packet>> ELSE <<>>]
Then(first, second) == [f \in Fds |-> first[f] \o second[f]]
Silence == [f \in Fds |-> <<>>]

\* ClientManager::queueDataToSend drops what is for an unknown descriptor.
Queue(packets) ==
  queued' = [f \in Fds |-> IF f \in conns THEN packets[f] ELSE <<>>]

\* A handler that answers with a status and changes nothing.
Answer(fd, code) ==
  /\ Queue(To({fd}, Status(code)))
  /\ UNCHANGED sessionVars

-----------------------------------------------------------------------------
(* User's login counter.  The counter of an account that is not in _users is *)
(* kept at 0.                                                                *)

addLoggedIn(u) == [logins EXCEPT ![u] = @ + 1]

\* Slip: the counter treated as a flag.
removeLoggedInAsFlag(u) == [logins EXCEPT ![u] = 0]
removeLoggedIn(u) == [logins EXCEPT ![u] = IF @ <= 0 THEN 0 ELSE @ - 1]

resetLoggedIn(count) == 0

-----------------------------------------------------------------------------
(* authenticatedUsersByUUID *)

NoRoutes == [u \in Users |-> [f \in Fds |-> 0]]

pushRoute(u, fd) == [routes EXCEPT ![u][fd] = @ + 1]
eraseRoutes(u) == [routes EXCEPT ![u] = [f \in Fds |-> 0]]

\* Slips: logout drops the whole vector, or leaves the descriptor in it.
removeEveryRoute(u, fd) == eraseRoutes(u)
removeNoRoute(u, fd) == routes
removeRoute(u, fd) == [routes EXCEPT ![u][fd] = 0]

-----------------------------------------------------------------------------
(* The process *)

NoLogins == [u \in Users |-> 0]
Anonymous == [f \in Fds |-> NoUser]
NoContexts == [f \in Fds |-> NoContext]

Init ==
  /\ running = FALSE
  /\ conns = {}
  /\ known = {}
  /\ logins = NoLogins
  /\ byFd = Anonymous
  /\ routes = NoRoutes
  /\ context = NoContexts
  /\ messages = <<>>
  /\ disk = [users |-> {}, online |-> {}, messages |-> <<>>]
  /\ queued = Silence

\* An account saved while it was logged in is loaded as logged in.
loadedLogins(u) == IF u \in disk.online THEN 1 ELSE 0

\* A process starts: it loads the files and then resets every counter.
Start ==
  /\ ~running
  /\ running' = TRUE
  /\ known' = disk.users
  /\ logins' = [u \in Users |-> resetLoggedIn(loadedLogins(u))]
  /\ messages' = disk.messages
  /\ queued' = Silence
  /\ UNCHANGED <<conns, byFd, routes, context, disk>>

\* The end of the process takes its sockets, its maps and its vectors.
Exit ==
  /\ running
  /\ running' = FALSE
  /\ conns' = {}
  /\ known' = {}
  /\ logins' = NoLogins
  /\ byFd' = Anonymous
  /\ routes' = NoRoutes
  /\ context' = NoContexts
  /\ messages' = <<>>
  /\ queued' = Silence

\* SIGINT or SIGTERM ends the loop: the state is written, with the login flags
\* as they are.  This is a save that writes every file; one that fails in some
\* of them, or dies in one, is save of Workspace.
Stop ==
  /\ Exit
  /\ disk' = [users |-> known, online |-> {u \in known : Online(u)},
              messages |-> messages]

\* The process ends without reaching the save: accept() failed, an exception
\* no handler catches left the loop, or it was killed.
Crash == Exit /\ UNCHANGED disk

-----------------------------------------------------------------------------
(* Connections *)

\* The listening socket is readable.  The kernel hands out any descriptor
\* that is not open, those of closed connections included; addClient is an
\* emplace, which leaves a Client it finds as it is.
Accept(fd) ==
  /\ running
  /\ fd \notin conns
  /\ conns' = conns \union {fd}
  /\ queued' = Silence
  /\ UNCHANGED <<running, known, logins, byFd, routes, context, messages, disk>>

removeClient(fd) == [context EXCEPT ![fd] = NoContext]

\* Slip: only the other sessions of the user are told.
announceToOwnSessions(u, excluded) ==
  To(SessionsOf(u) \ {excluded}, Event("EVT_LOGGED_OUT", u))
broadcastLoggedOutEvent(u, excluded) ==
  To(Authenticated \ {excluded}, Event("EVT_LOGGED_OUT", u))

\* handleClientDisconnection takes fd out of the user's vector and then erases
\* the user's whole entry.  Slip: it forgets the map of vectors.
routesKeptAfterDisconnection(fd) == routes
routesAfterDisconnection(fd) ==
  IF byFd[fd] = NoUser THEN routes ELSE eraseRoutes(byFd[fd])

\* Slip: the counter is forgotten when the connection goes.
loginsKeptAfterDisconnection(fd) == logins
loginsAfterDisconnection(fd) ==
  IF byFd[fd] \in known THEN removeLoggedIn(byFd[fd]) ELSE logins

handleClientDisconnection(fd) ==
  /\ byFd' = [byFd EXCEPT ![fd] = NoUser]
  /\ routes' = routesAfterDisconnection(fd)
  /\ logins' = loginsAfterDisconnection(fd)
  /\ Queue(IF byFd[fd] \in known THEN broadcastLoggedOutEvent(byFd[fd], fd)
                                 ELSE Silence)

\* The connection failed, was closed by its peer, or could not be written to.
removeClientAt(fd) ==
  /\ fd \in conns
  /\ handleClientDisconnection(fd)
  /\ conns' = conns \ {fd}
  /\ context' = removeClient(fd)
  /\ UNCHANGED <<running, known, messages, disk>>

-----------------------------------------------------------------------------
(* Command handlers.  Each has the status it refuses a request with, checked *)
(* in the code's order, and what it does with a request it accepts.          *)

loginStatus(fd, name) ==
  IF name = BadSize THEN "ERR_BAD_REQUEST"
  ELSE IF byFd[fd] # NoUser THEN "ERR_ALREADY_EXIST"
  ELSE IF name = BadText THEN "ERR_BAD_REQUEST"
  ELSE "RPL_OK"

completeLogin(fd, u) ==
  /\ byFd' = [byFd EXCEPT ![fd] = u]
  /\ routes' = pushRoute(u, fd)
  /\ Queue(Then(To({fd}, Status("RPL_OK")),
                To(Authenticated \union {fd}, Event("EVT_LOGGED_IN", u))))
  /\ UNCHANGED <<running, conns, context, messages, disk>>

LoginNewUser(fd, u) ==
  /\ u \notin known
  /\ known' = known \union {u}
  /\ logins' = [logins EXCEPT ![u] = 1]
  /\ completeLogin(fd, u)

LoginExistingUser(fd, u) ==
  /\ u \in known
  /\ logins' = addLoggedIn(u)
  /\ UNCHANGED known
  /\ completeLogin(fd, u)

handleLoginCommand(fd, name) ==
  /\ fd \in conns
  /\ \/ /\ loginStatus(fd, name) # "RPL_OK"
        /\ Answer(fd, loginStatus(fd, name))
     \/ /\ loginStatus(fd, name) = "RPL_OK"
        /\ LoginNewUser(fd, name) \/ LoginExistingUser(fd, name)

logoutStatus(fd, payload) ==
  IF payload # Nothing THEN "ERR_BAD_REQUEST"
  ELSE IF byFd[fd] = NoUser THEN "ERR_UNAUTHORIZED"
  ELSE "RPL_OK"

\* The connection stays open and its context stays as it is.  An account that
\* is gone from _users ends the session with an error.
logoutSession(fd) ==
  LET u == byFd[fd]
      toSelf == Then(To({fd}, Status("RPL_OK")),
                     To({fd}, Event("EVT_LOGGED_OUT", u)))
  IN
  /\ byFd' = [byFd EXCEPT ![fd] = NoUser]
  /\ routes' = removeRoute(u, fd)
  /\ logins' = IF u \in known THEN removeLoggedIn(u) ELSE logins
  /\ Queue(IF u \in known THEN Then(toSelf, broadcastLoggedOutEvent(u, fd))
                          ELSE To({fd}, Status("ERR_UNAUTHORIZED")))
  /\ UNCHANGED <<running, conns, known, context, messages, disk>>

handleLogoutCommand(fd, payload) ==
  /\ fd \in conns
  /\ \/ /\ logoutStatus(fd, payload) # "RPL_OK"
        /\ Answer(fd, logoutStatus(fd, payload))
     \/ /\ logoutStatus(fd, payload) = "RPL_OK"
        /\ logoutSession(fd)

useStatus(fd, c) ==
  IF c = BadSize THEN "ERR_BAD_REQUEST"
  ELSE IF byFd[fd] = NoUser THEN "ERR_UNAUTHORIZED"
  ELSE IF c = BadText THEN "ERR_BAD_REQUEST"
  ELSE "RPL_OK"

\* What the uuids name is not looked up.
setContext(fd, c) ==
  /\ context' = [context EXCEPT ![fd] = c]
  /\ Queue(To({fd}, Status("RPL_OK")))
  /\ UNCHANGED <<running, conns, known, logins, byFd, routes, messages, disk>>

handleUseCommand(fd, c) ==
  /\ fd \in conns
  /\ \/ useStatus(fd, c) # "RPL_OK" /\ Answer(fd, useStatus(fd, c))
     \/ useStatus(fd, c) = "RPL_OK" /\ setContext(fd, c)

sendStatus(fd, target) ==
  IF target = BadSize THEN "ERR_BAD_REQUEST"
  ELSE IF byFd[fd] = NoUser THEN "ERR_UNAUTHORIZED"
  ELSE IF target = BadText THEN "ERR_BAD_REQUEST"
  ELSE IF target \notin known THEN "ERR_NOT_FOUND"
  ELSE "RPL_OK"

\* One event for each time a descriptor stands in the receiver's vector.
messageEvents(m) ==
  [f \in Fds |-> [i \in 1 .. routes[m.receiver][f] |->
                    Event("EVT_PRIVATE_MSG_RCVD", m)]]

\* Slip: the reply sits in the loop over the receiver's descriptors.
replyInLoop(fd, m) ==
  Then(messageEvents(m),
       [f \in Fds |-> IF f = fd /\ messageEvents(m) # Silence
                        THEN <<Status("RPL_OK")>> ELSE <<>>])
sendMessage(fd, m) ==
  Then(messageEvents(m), To({fd}, Status("RPL_OK")))

storeAndSend(fd, m) ==
  /\ Len(messages) < MaxMessages
  /\ messages' = Append(messages, m)
  /\ Queue(sendMessage(fd, m))
  /\ UNCHANGED <<running, conns, known, logins, byFd, routes, context, disk>>

handleSendCommand(fd, target) ==
  /\ fd \in conns
  /\ \/ /\ sendStatus(fd, target) # "RPL_OK"
        /\ Answer(fd, sendStatus(fd, target))
     \/ /\ sendStatus(fd, target) = "RPL_OK"
        /\ \E now \in Seconds :
             storeAndSend(fd, [author |-> byFd[fd], receiver |-> target,
                               createdAt |-> now])

-----------------------------------------------------------------------------
(* Specification *)

Command(fd) ==
  \/ \E name \in Users \union {BadSize, BadText} : handleLoginCommand(fd, name)
  \/ \E payload \in {Nothing, BadSize} : handleLogoutCommand(fd, payload)
  \/ \E c \in Contexts \union {BadSize, BadText} : handleUseCommand(fd, c)
  \/ \E target \in Users \union {BadSize, BadText} :
       handleSendCommand(fd, target)

Next ==
  \/ Start
  \/ Stop
  \/ Crash
  \/ \E fd \in Fds : Accept(fd) \/ removeClientAt(fd) \/ Command(fd)

Spec == Init /\ [][Next]_vars

-----------------------------------------------------------------------------
(* Properties *)

\* Every variable holds what its C++ counterpart can hold; in particular a
\* context is one that CMD_USE decodes and combines, so /create and /list meet
\* no other.
StateTyped ==
  /\ running \in BOOLEAN
  /\ conns \subseteq Fds
  /\ known \subseteq Users
  /\ logins \in [Users -> Nat]
  /\ byFd \in [Fds -> Users \union {NoUser}]
  /\ routes \in [Users -> [Fds -> Nat]]
  /\ context \in [Fds -> Contexts]
  /\ messages \in Seq(Message)
  /\ disk \in [users : SUBSET Users, online : SUBSET Users,
               messages : Seq(Message)]
QueuedTyped == queued \in [Fds -> Seq(Packet)]
TypeOK == StateTyped /\ QueuedTyped

\* The counter incremented and decremented by hand in three handlers, and
\* loaded from a file, is always the number of connections that are
\* authenticated as the user, so the status a user is listed with is right.
LoginsCountSessions ==
  \A u \in Users : logins[u] = Cardinality(SessionsOf(u))

\* The map from users to descriptors never holds a descriptor that speaks for
\* somebody else now, or for nobody, or is closed, and holds none twice: a
\* reused descriptor does not inherit the routes of the connection before it.
RoutesSound ==
  \A u \in Users, f \in Fds :
    /\ routes[u][f] \in {0, 1}
    /\ routes[u][f] = 1 => byFd[f] = u /\ f \in conns

\* A private message is only ever queued to connections of its receiver, each
\* of them at most once.
MessagesReachOnlyTheirReceiver ==
  \A f \in Fds : \A i, j \in DOMAIN queued[f] :
    /\ queued[f][i].code = "EVT_PRIVATE_MSG_RCVD" =>
         byFd[f] = queued[f][i].about.receiver
    /\ queued[f][i].code = "EVT_PRIVATE_MSG_RCVD" /\ queued[f][i] = queued[f][j]
         => i = j

\* A connection that stays signed in stops receiving private messages only
\* when another connection of the same user is closed: neither a logout, nor
\* anybody else's session, nor a new login can take its route away.
RouteLostOnlyByDisconnection ==
  [][\A f \in conns \intersect conns' : \A u \in Users :
       /\ byFd[f] = u /\ byFd'[f] = u
       /\ routes[u][f] > 0 /\ routes'[u][f] = 0
       => \E g \in conns \ conns' : byFd[g] = u]_vars

\* Whatever makes a user come online or go offline while the server runs, a
\* login, a logout or a lost connection, every authenticated connection is
\* told about that user in the same step.
PresenceChangesAnnounced ==
  [][running /\ running' =>
       \A u \in Users : Online(u) # Online(u)' =>
         \A f \in Fds : byFd'[f] # NoUser =>
           \E i \in DOMAIN queued'[f] :
             queued'[f][i] = Event(IF Online(u) THEN "EVT_LOGGED_OUT"
                                                ELSE "EVT_LOGGED_IN", u)]_vars

\* The replies among the packets queued to a connection, by their places.
Replies(packets) == {i \in DOMAIN packets : packets[i].code \in StatusCodes}

\* A command, which is every step that opens and closes no connection, is
\* answered with exactly one reply, to one connection, and if the command
\* changed somebody's session or context, to that connection, whatever events
\* the handler queues before and after: the client pairs replies with commands
\* by counting them.
OneReplyPerCommand ==
  [][running' = running /\ conns' = conns =>
       \E fd \in conns : \A f \in Fds :
         /\ Cardinality(Replies(queued'[f])) = (IF f = fd THEN 1 ELSE 0)
         /\ byFd'[f] # byFd[f] \/ context'[f] # context[f] => f = fd]_vars

\* A descriptor that the kernel hands out again starts with no user, no
\* context and no route, whatever its last connection was doing when it ended.
NewConnectionIsAnonymous ==
  [][\A f \in conns' \ conns :
       /\ byFd'[f] = NoUser
       /\ context'[f] = NoContext
       /\ \A u \in Users : routes'[u][f] = 0]_vars

\* The maps and the counter together implement the abstract presence service.
PresenceService == INSTANCE Presence
  WITH Connections <- Fds, Nobody <- NoUser,
       session <- byFd, online <- {u \in Users : Online(u)}

ImplementsPresence == PresenceService!Spec

-----------------------------------------------------------------------------
(* What the protocol document promises and the server does not keep *)

\* "EVT_PRIVATE_MSG_RCVD: A private message was received": a message that is
\* stored is announced to every connection its receiver is signed in through.
EverySessionIsNotified ==
  [][\A f \in Fds :
       /\ Len(messages') = Len(messages) + 1
       /\ byFd[f] = messages'[Len(messages')].receiver
       => \E i \in DOMAIN queued'[f] :
            queued'[f][i].code = "EVT_PRIVATE_MSG_RCVD"]_vars
=============================================================================
