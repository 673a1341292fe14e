--------------------------- MODULE SessionsProofs ---------------------------
(***************************************************************************)
(* Proofs about Sessions, for every set of users, every finite set of      *)
(* descriptors and every set of contexts.                                  *)
(*                                                                         *)
(* The inductive invariant is Inv below.  The login counter is right only  *)
(* because no session outlives its connection, no account is known before  *)
(* its first login and a session's account is always known; the routes are *)
(* right only because a session exists wherever a route does.              *)
(***************************************************************************)
EXTENDS Sessions, FiniteSetTheorems, TLAPS

\* Sessions live on open connections and belong to accounts the server knows.
SessionsAnchored ==
  \A f \in Fds : byFd[f] # NoUser => f \in conns /\ byFd[f] \in known

\* A closed descriptor has the context of a new connection.
ClosedForgotten == \A f \in Fds \ conns : context[f] = NoContext

\* Without a process there are no connections.
DownMeansClosed == ~running => conns = {}

SessionsSound ==
  /\ StateTyped
  /\ LoginsCountSessions
  /\ RoutesSound
  /\ SessionsAnchored
  /\ ClosedForgotten
  /\ DownMeansClosed

Inv == SessionsSound /\ QueuedTyped

-----------------------------------------------------------------------------
(* Packets *)

\* The queueing helpers build one sequence of packets per descriptor.
LEMMA PacketsTyped ==
  /\ Silence \in [Fds -> Seq(Packet)]
  /\ \A S, p : p \in Packet => To(S, p) \in [Fds -> Seq(Packet)]
  /\ \A a, b \in [Fds -> Seq(Packet)] : Then(a, b) \in [Fds -> Seq(Packet)]
  /\ \A a \in [Fds -> Seq(Packet)] :
       Queue(a) => queued' \in [Fds -> Seq(Packet)]
<1>1. <<>> \in Seq(Packet) /\ \A p \in Packet : <<p>> \in Seq(Packet)
  OBVIOUS
<1>2. Silence \in [Fds -> Seq(Packet)]
  BY <1>1 DEF Silence
<1>3. ASSUME NEW S, NEW p \in Packet
      PROVE  To(S, p) \in [Fds -> Seq(Packet)]
  BY <1>1 DEF To
<1>4. ASSUME NEW a \in [Fds -> Seq(Packet)], NEW b \in [Fds -> Seq(Packet)]
      PROVE  Then(a, b) \in [Fds -> Seq(Packet)]
  <2>1. \A f \in Fds : a[f] \o b[f] \in Seq(Packet)
    OBVIOUS
  <2>. QED
    BY <2>1 DEF Then
<1>5. ASSUME NEW a \in [Fds -> Seq(Packet)], Queue(a)
      PROVE  queued' \in [Fds -> Seq(Packet)]
  BY <1>1, <1>5 DEF Queue
<1>. QED
  BY <1>2, <1>3, <1>4, <1>5

\* The elements of a concatenation beyond its first part.
LEMMA ConcatSecond ==
  ASSUME NEW S, NEW a \in Seq(S), NEW b \in Seq(S),
         NEW k \in Len(a) + 1 .. Len(a) + Len(b)
  PROVE  (a \o b)[k] = b[k - Len(a)] /\ k - Len(a) \in DOMAIN b
<1>1. k - Len(a) \in 1 .. Len(b)
  OBVIOUS
<1>. QED
  BY <1>1

LEMMA StatusTyped == \A c \in StatusCodes : Status(c) \in Packet
  BY DEF Status, Packet

LEMMA EventTyped ==
  \A c \in EventCodes, s \in Users \union Message : Event(c, s) \in Packet
  BY DEF Event, Packet

LEMMA MessageEventsTyped ==
  ASSUME StateTyped, NEW m \in Message
  PROVE  messageEvents(m) \in [Fds -> Seq(Packet)]
<1>1. Event("EVT_PRIVATE_MSG_RCVD", m) \in Packet
  BY EventTyped DEF EventCodes
<1>2. m.receiver \in Users
  BY DEF Message
<1>3. \A f \in Fds : routes[m.receiver][f] \in Nat
  BY <1>2 DEF StateTyped
<1>4. \A f \in Fds : [i \in 1 .. routes[m.receiver][f] |->
                        Event("EVT_PRIVATE_MSG_RCVD", m)] \in Seq(Packet)
  BY <1>1, <1>3
<1>. QED
  BY <1>4 DEF messageEvents

\* No packet of a family announces a private message.
NoMessage(packets) ==
  \A f \in Fds : \A i \in DOMAIN packets[f] :
    packets[f][i].code # "EVT_PRIVATE_MSG_RCVD"

LEMMA NoMessageTo ==
  ASSUME NEW S, NEW p, p.code # "EVT_PRIVATE_MSG_RCVD"
  PROVE  NoMessage(To(S, p))
  BY DEF NoMessage, To

LEMMA NoMessageThen ==
  ASSUME NEW a \in [Fds -> Seq(Packet)], NEW b \in [Fds -> Seq(Packet)],
         NoMessage(a), NoMessage(b)
  PROVE  NoMessage(Then(a, b))
<1>. SUFFICES ASSUME NEW f \in Fds, NEW i \in DOMAIN (a[f] \o b[f])
              PROVE  (a[f] \o b[f])[i].code # "EVT_PRIVATE_MSG_RCVD"
  BY DEF NoMessage, Then
<1>1. a[f] \in Seq(Packet) /\ b[f] \in Seq(Packet)
  OBVIOUS
<1>2. CASE i \in 1 .. Len(a[f])
  BY <1>1, <1>2 DEF NoMessage
<1>3. CASE i \in Len(a[f]) + 1 .. Len(a[f]) + Len(b[f])
  BY <1>1, <1>3 DEF NoMessage
<1>. QED
  BY <1>1, <1>2, <1>3

LEMMA NoMessageQueued ==
  ASSUME NEW a \in [Fds -> Seq(Packet)], NoMessage(a), Queue(a)
  PROVE  MessagesReachOnlyTheirReceiver'
<1>1. \A f \in Fds : \A i \in DOMAIN queued'[f] :
        queued'[f][i].code # "EVT_PRIVATE_MSG_RCVD"
  BY DEF Queue, NoMessage
<1>. QED
  BY <1>1 DEF MessagesReachOnlyTheirReceiver

-----------------------------------------------------------------------------
(* Sessions and the login counter *)

LEMMA SessionsFinite ==
  ASSUME StateTyped, NEW u \in Users
  PROVE  /\ IsFiniteSet(SessionsOf(u))
         /\ Cardinality(SessionsOf(u)) \in Nat
<1>1. SessionsOf(u) \in SUBSET Fds
  BY DEF SessionsOf
<1>2. IsFiniteSet(SessionsOf(u))
  BY <1>1, FdsFinite, FS_Subset
<1>. QED
  BY <1>2, FS_CardinalityType

\* Adding a session and one to the counter keeps them equal.
LEMMA SessionAdded ==
  ASSUME StateTyped, LoginsCountSessions,
         NEW fd \in Fds, NEW u \in Users, byFd[fd] = NoUser,
         byFd' = [byFd EXCEPT ![fd] = u],
         logins' = [logins EXCEPT ![u] = @ + 1]
  PROVE  LoginsCountSessions'
<1>. SUFFICES ASSUME NEW v \in Users
              PROVE  logins'[v] = Cardinality(SessionsOf(v)')
  BY DEF LoginsCountSessions
<1>1. logins[v] = Cardinality(SessionsOf(v))
  BY DEF LoginsCountSessions
<1>2. CASE v = u
  <2>1. SessionsOf(v)' = SessionsOf(v) \union {fd}
    BY <1>2 DEF SessionsOf, StateTyped
  <2>2. fd \notin SessionsOf(v)
    BY NoUserIsNoUser DEF SessionsOf
  <2>3. Cardinality(SessionsOf(v)') = Cardinality(SessionsOf(v)) + 1
    BY <2>1, <2>2, SessionsFinite, FS_AddElement
  <2>. QED
    BY <1>1, <1>2, <2>3 DEF StateTyped
<1>3. CASE v # u
  <2>1. SessionsOf(v)' = SessionsOf(v)
    BY <1>3, NoUserIsNoUser DEF SessionsOf, StateTyped
  <2>. QED
    BY <1>1, <1>3, <2>1 DEF StateTyped
<1>. QED
  BY <1>2, <1>3

\* Removing a session and, when it is not 0, one from the counter does too.
LEMMA SessionRemoved ==
  ASSUME StateTyped, LoginsCountSessions,
         NEW fd \in Fds, NEW u \in Users, byFd[fd] = u,
         byFd' = [byFd EXCEPT ![fd] = NoUser],
         logins' = removeLoggedIn(u)
  PROVE  LoginsCountSessions'
<1>. SUFFICES ASSUME NEW v \in Users
              PROVE  logins'[v] = Cardinality(SessionsOf(v)')
  BY DEF LoginsCountSessions
<1>1. logins[v] = Cardinality(SessionsOf(v)) /\ logins[v] \in Nat
  BY DEF LoginsCountSessions, StateTyped
<1>2. CASE v = u
  <2>1. SessionsOf(v)' = SessionsOf(v) \ {fd}
    BY <1>2, NoUserIsNoUser DEF SessionsOf, StateTyped
  <2>2. fd \in SessionsOf(v)
    BY <1>2 DEF SessionsOf
  <2>3. Cardinality(SessionsOf(v)') = Cardinality(SessionsOf(v)) - 1
    BY <2>1, <2>2, SessionsFinite, FS_RemoveElement
  <2>4. SessionsOf(v)' = SessionsOf(v) \ {fd} /\ IsFiniteSet(SessionsOf(v) \ {fd})
    BY <2>1, SessionsFinite, FS_RemoveElement
  <2>5. Cardinality(SessionsOf(v)') \in Nat
    BY <2>4, FS_CardinalityType
  <2>6. logins'[v] = IF logins[v] <= 0 THEN 0 ELSE logins[v] - 1
    BY <1>2 DEF removeLoggedIn, StateTyped
  <2>. QED
    BY <1>1, <2>3, <2>5, <2>6
<1>3. CASE v # u
  <2>1. SessionsOf(v)' = SessionsOf(v)
    BY <1>3, NoUserIsNoUser DEF SessionsOf, StateTyped
  <2>2. logins'[v] = logins[v]
    BY <1>3 DEF removeLoggedIn, StateTyped
  <2>. QED
    BY <1>1, <2>1, <2>2
<1>. QED
  BY <1>2, <1>3
-----------------------------------------------------------------------------
(* The invariant holds initially *)

LEMMA InitInv == Init => Inv
<1>. SUFFICES ASSUME Init PROVE Inv
  OBVIOUS
<1>. USE DEF Init, NoLogins, Anonymous, NoRoutes, NoContexts
<1>1. TypeOK
  <2>1. queued \in [Fds -> Seq(Packet)]
    BY PacketsTyped
  <2>2. disk \in [users : SUBSET Users, online : SUBSET Users,
                  messages : Seq(Message)]
    OBVIOUS
  <2>. QED
    BY <2>1, <2>2, NoContextValid DEF TypeOK, StateTyped, QueuedTyped
<1>2. LoginsCountSessions
  <2>1. \A u \in Users : SessionsOf(u) = {}
    BY NoUserIsNoUser DEF SessionsOf
  <2>. QED
    BY <2>1, FS_EmptySet DEF LoginsCountSessions
<1>3. RoutesSound
  BY DEF RoutesSound
<1>4. SessionsAnchored /\ ClosedForgotten /\ DownMeansClosed
  BY DEF SessionsAnchored, ClosedForgotten, DownMeansClosed
<1>. QED
  BY <1>1, <1>2, <1>3, <1>4 DEF Inv, SessionsSound, TypeOK

-----------------------------------------------------------------------------
(* Every action preserves it *)

\* Steps that leave the sessions, their routes and the counter alone.
LEMMA SessionsUntouched ==
  ASSUME SessionsSound, UNCHANGED <<logins, byFd, routes>>,
         conns \subseteq conns', known \subseteq known'
  PROVE  LoginsCountSessions' /\ RoutesSound' /\ SessionsAnchored'
BY DEF SessionsSound, LoginsCountSessions, SessionsOf, RoutesSound, SessionsAnchored

LEMMA StartInv == SessionsSound /\ Start => Inv'
<1>. SUFFICES ASSUME SessionsSound, Start PROVE Inv'
  OBVIOUS
<1>1. conns = {}
  BY DEF SessionsSound, DownMeansClosed, Start
<1>2. \A f \in Fds : byFd[f] = NoUser
  BY <1>1 DEF SessionsSound, SessionsAnchored
<1>3. TypeOK'
  <2>1. queued' \in [Fds -> Seq(Packet)]
    BY PacketsTyped DEF Start
  <2>. QED
    BY <2>1 DEF Inv, SessionsSound, TypeOK, StateTyped, QueuedTyped, Start, resetLoggedIn
<1>4. LoginsCountSessions'
  <2>1. \A u \in Users : SessionsOf(u)' = {}
    BY <1>2, NoUserIsNoUser DEF SessionsOf, Start
  <2>. QED
    BY <2>1, FS_EmptySet DEF LoginsCountSessions, Start, resetLoggedIn
<1>5. RoutesSound'
  BY DEF SessionsSound, RoutesSound, Start
<1>6. SessionsAnchored' /\ ClosedForgotten' /\ DownMeansClosed'
  BY <1>2 DEF SessionsSound, SessionsAnchored, ClosedForgotten, DownMeansClosed, Start
<1>. QED
  BY <1>3, <1>4, <1>5, <1>6 DEF Inv, SessionsSound, TypeOK

LEMMA ExitInv ==
  ASSUME SessionsSound, Exit,
         disk' \in [users : SUBSET Users, online : SUBSET Users,
                    messages : Seq(Message)]
  PROVE  Inv'
<1>. USE DEF Exit, NoLogins, Anonymous, NoRoutes, NoContexts
<1>1. TypeOK'
  <2>1. queued' \in [Fds -> Seq(Packet)]
    BY PacketsTyped
  <2>2. /\ logins' \in [Users -> Nat]
        /\ byFd' \in [Fds -> Users \union {NoUser}]
        /\ routes' \in [Users -> [Fds -> Nat]]
    OBVIOUS
  <2>3. context' \in [Fds -> Contexts] /\ messages' \in Seq(Message)
    BY NoContextValid
  <2>. QED
    BY <2>1, <2>2, <2>3 DEF TypeOK, StateTyped, QueuedTyped
<1>2. LoginsCountSessions'
  <2>1. \A u \in Users : SessionsOf(u)' = {}
    BY NoUserIsNoUser DEF SessionsOf
  <2>. QED
    BY <2>1, FS_EmptySet DEF LoginsCountSessions
<1>3. RoutesSound'
  BY DEF RoutesSound
<1>4. SessionsAnchored' /\ ClosedForgotten' /\ DownMeansClosed'
  BY DEF SessionsAnchored, ClosedForgotten, DownMeansClosed
<1>. QED
  BY <1>1, <1>2, <1>3, <1>4 DEF Inv, SessionsSound, TypeOK

LEMMA StopInv == SessionsSound /\ Stop => Inv'
<1>. SUFFICES ASSUME SessionsSound, Stop PROVE Inv'
  OBVIOUS
<1>1. disk' \in [users : SUBSET Users, online : SUBSET Users,
                 messages : Seq(Message)]
  BY DEF SessionsSound, StateTyped, Stop
<1>. QED
  BY <1>1, ExitInv DEF Stop

LEMMA CrashInv == SessionsSound /\ Crash => Inv'
<1>. SUFFICES ASSUME SessionsSound, Crash PROVE Inv'
  OBVIOUS
<1>1. disk' \in [users : SUBSET Users, online : SUBSET Users,
                 messages : Seq(Message)]
  BY DEF SessionsSound, StateTyped, Crash
<1>. QED
  BY <1>1, ExitInv DEF Crash

LEMMA AcceptInv ==
  ASSUME SessionsSound, NEW fd \in Fds, Accept(fd)
  PROVE  Inv'
<1>1. LoginsCountSessions' /\ RoutesSound' /\ SessionsAnchored'
  BY SessionsUntouched DEF Accept
<1>2. TypeOK'
  BY PacketsTyped DEF Inv, SessionsSound, TypeOK, StateTyped, QueuedTyped, Accept
<1>3. ClosedForgotten' /\ DownMeansClosed'
  BY DEF SessionsSound, ClosedForgotten, DownMeansClosed, Accept
<1>. QED
  BY <1>1, <1>2, <1>3 DEF Inv, SessionsSound, TypeOK

LEMMA AnswerInv ==
  ASSUME SessionsSound, NEW fd \in Fds, NEW code \in StatusCodes, Answer(fd, code)
  PROVE  Inv'
<1>1. LoginsCountSessions' /\ RoutesSound' /\ SessionsAnchored'
  BY SessionsUntouched DEF Answer, sessionVars
<1>2. queued' \in [Fds -> Seq(Packet)]
  BY PacketsTyped, StatusTyped DEF Answer
<1>3. TypeOK'
  BY <1>2 DEF Inv, SessionsSound, TypeOK, StateTyped, QueuedTyped, Answer, sessionVars
<1>4. ClosedForgotten' /\ DownMeansClosed'
  BY DEF SessionsSound, ClosedForgotten, DownMeansClosed, Answer, sessionVars
<1>. QED
  BY <1>1, <1>3, <1>4 DEF Inv, SessionsSound, TypeOK

\* The packets a logout or a lost connection announces.
LEMMA BroadcastTyped ==
  ASSUME NEW u \in Users, NEW fd
  PROVE  broadcastLoggedOutEvent(u, fd) \in [Fds -> Seq(Packet)]
BY PacketsTyped, EventTyped DEF broadcastLoggedOutEvent, EventCodes

LEMMA RemoveClientInv ==
  ASSUME SessionsSound, NEW fd \in Fds, removeClientAt(fd)
  PROVE  Inv'
<1>. USE DEF removeClientAt, handleClientDisconnection
<1>1. TypeOK'
  <2>1. queued' \in [Fds -> Seq(Packet)]
    BY PacketsTyped, BroadcastTyped DEF SessionsSound, StateTyped
  <2>2. logins' \in [Users -> Nat]
    BY DEF SessionsSound, StateTyped, loginsAfterDisconnection, removeLoggedIn
  <2>3. routes' \in [Users -> [Fds -> Nat]]
    BY DEF SessionsSound, StateTyped, routesAfterDisconnection, eraseRoutes
  <2>4. context' \in [Fds -> Contexts] /\ byFd' \in [Fds -> Users \union {NoUser}]
    BY NoContextValid DEF SessionsSound, StateTyped, removeClient
  <2>. QED
    BY <2>1, <2>2, <2>3, <2>4 DEF Inv, SessionsSound, TypeOK, StateTyped, QueuedTyped
<1>2. LoginsCountSessions'
  <2>1. CASE byFd[fd] = NoUser
    <3>1. byFd' = byFd /\ logins' = logins
      BY <2>1, NoUserIsNoUser
      DEF SessionsSound, StateTyped, loginsAfterDisconnection
    <3>. QED
      BY <3>1 DEF SessionsSound, LoginsCountSessions, SessionsOf
  <2>2. CASE byFd[fd] # NoUser
    <3>1. byFd[fd] \in Users /\ byFd[fd] \in known
      BY <2>2 DEF SessionsSound, StateTyped, SessionsAnchored
    <3>. QED
      BY <3>1, SessionRemoved DEF SessionsSound, loginsAfterDisconnection
  <2>. QED
    BY <2>1, <2>2
<1>3. RoutesSound'
  <2>. SUFFICES ASSUME NEW u \in Users, NEW f \in Fds
                PROVE  /\ routes'[u][f] \in {0, 1}
                       /\ routes'[u][f] = 1 => byFd'[f] = u /\ f \in conns'
    BY DEF RoutesSound
  <2>1. /\ routes[u][f] \in {0, 1}
        /\ routes[u][f] = 1 => byFd[f] = u /\ f \in conns
    BY DEF SessionsSound, RoutesSound
  <2>2. routes'[u][f] = IF byFd[fd] = u THEN 0 ELSE routes[u][f]
    BY NoUserIsNoUser DEF SessionsSound, StateTyped, routesAfterDisconnection, eraseRoutes
  <2>. QED
    BY <2>1, <2>2 DEF SessionsSound, StateTyped
<1>4. SessionsAnchored' /\ ClosedForgotten' /\ DownMeansClosed'
  BY DEF SessionsSound, StateTyped, SessionsAnchored, ClosedForgotten, DownMeansClosed,
         removeClient
<1>. QED
  BY <1>1, <1>2, <1>3, <1>4 DEF Inv, SessionsSound, TypeOK

\* Both kinds of login, whose counters differ only in how they reach 1.
LEMMA CompleteLoginInv ==
  ASSUME SessionsSound, NEW fd \in Fds, NEW u \in Users, fd \in conns,
         byFd[fd] = NoUser, completeLogin(fd, u),
         known' = known \union {u},
         logins' = [logins EXCEPT ![u] = @ + 1]
  PROVE  Inv'
<1>. USE DEF completeLogin
<1>1. TypeOK'
  <2>1. /\ Status("RPL_OK") \in Packet
        /\ Event("EVT_LOGGED_IN", u) \in Packet
    BY StatusTyped, EventTyped DEF StatusCodes, EventCodes
  <2>2. queued' \in [Fds -> Seq(Packet)]
    BY <2>1, PacketsTyped
  <2>3. logins' \in [Users -> Nat] /\ routes' \in [Users -> [Fds -> Nat]]
    BY DEF SessionsSound, StateTyped, pushRoute
  <2>. QED
    BY <2>2, <2>3 DEF Inv, SessionsSound, TypeOK, StateTyped, QueuedTyped
<1>2. LoginsCountSessions'
  BY SessionAdded DEF SessionsSound, TypeOK
<1>3. RoutesSound'
  <2>. SUFFICES ASSUME NEW v \in Users, NEW f \in Fds
                PROVE  /\ routes'[v][f] \in {0, 1}
                       /\ routes'[v][f] = 1 => byFd'[f] = v /\ f \in conns'
    BY DEF RoutesSound
  <2>1. /\ routes[v][f] \in {0, 1}
        /\ routes[v][f] = 1 => byFd[f] = v /\ f \in conns
    BY DEF SessionsSound, RoutesSound
  <2>2. routes'[v][f] = IF v = u /\ f = fd THEN routes[v][f] + 1 ELSE routes[v][f]
    BY DEF SessionsSound, StateTyped, pushRoute
  <2>3. f = fd => routes[v][f] = 0
    BY <2>1, NoUserIsNoUser
  <2>. QED
    BY <2>1, <2>2, <2>3 DEF SessionsSound, StateTyped
<1>4. SessionsAnchored' /\ ClosedForgotten' /\ DownMeansClosed'
  BY DEF SessionsSound, StateTyped, SessionsAnchored, ClosedForgotten, DownMeansClosed
<1>. QED
  BY <1>1, <1>2, <1>3, <1>4 DEF Inv, SessionsSound, TypeOK

LEMMA LoginInv ==
  ASSUME SessionsSound, NEW fd \in Fds, NEW name \in Users \union {BadSize, BadText},
         handleLoginCommand(fd, name)
  PROVE  Inv'
<1>1. CASE /\ loginStatus(fd, name) # "RPL_OK"
           /\ Answer(fd, loginStatus(fd, name))
  <2>1. loginStatus(fd, name) \in StatusCodes
    BY DEF loginStatus, StatusCodes
  <2>. QED
    BY <1>1, <2>1, AnswerInv
<1>2. CASE /\ loginStatus(fd, name) = "RPL_OK"
           /\ LoginNewUser(fd, name) \/ LoginExistingUser(fd, name)
  <2>1. name \in Users /\ byFd[fd] = NoUser /\ fd \in conns
    BY <1>2 DEF loginStatus, handleLoginCommand
  <2>2. CASE LoginNewUser(fd, name)
    <3>1. SessionsOf(name) = {}
      BY <2>2, NoUserIsNoUser, <2>1 DEF SessionsSound, SessionsAnchored, SessionsOf, LoginNewUser
    <3>2. logins[name] = 0
      BY <2>1, <3>1, FS_EmptySet DEF SessionsSound, LoginsCountSessions
    <3>3. logins' = [logins EXCEPT ![name] = @ + 1]
      BY <2>1, <2>2, <3>2 DEF LoginNewUser, SessionsSound, StateTyped
    <3>. QED
      BY <2>1, <2>2, <3>3, CompleteLoginInv DEF LoginNewUser
  <2>3. CASE LoginExistingUser(fd, name)
    <3>1. known' = known \union {name}
      BY <2>3 DEF LoginExistingUser
    <3>. QED
      BY <2>1, <2>3, <3>1, CompleteLoginInv DEF LoginExistingUser, addLoggedIn
  <2>. QED
    BY <1>2, <2>2, <2>3
<1>. QED
  BY <1>1, <1>2 DEF handleLoginCommand

LEMMA LogoutSessionInv ==
  ASSUME SessionsSound, NEW fd \in Fds, fd \in conns, byFd[fd] # NoUser, logoutSession(fd)
  PROVE  Inv'
<1>. DEFINE u == byFd[fd]
<1>. USE DEF logoutSession
<1>1. u \in Users /\ u \in known
  BY DEF SessionsSound, StateTyped, SessionsAnchored
<1>2. TypeOK'
  <2>1. /\ Status("RPL_OK") \in Packet
        /\ Event("EVT_LOGGED_OUT", u) \in Packet
    BY <1>1, StatusTyped, EventTyped DEF StatusCodes, EventCodes
  <2>2. queued' \in [Fds -> Seq(Packet)]
    BY <1>1, <2>1, PacketsTyped, BroadcastTyped
  <2>3. logins' \in [Users -> Nat] /\ routes' \in [Users -> [Fds -> Nat]]
    BY <1>1 DEF SessionsSound, StateTyped, removeLoggedIn, removeRoute
  <2>. QED
    BY <2>2, <2>3 DEF Inv, SessionsSound, TypeOK, StateTyped, QueuedTyped
<1>3. LoginsCountSessions'
  BY <1>1, SessionRemoved DEF SessionsSound, TypeOK
<1>4. RoutesSound'
  <2>. SUFFICES ASSUME NEW v \in Users, NEW f \in Fds
                PROVE  /\ routes'[v][f] \in {0, 1}
                       /\ routes'[v][f] = 1 => byFd'[f] = v /\ f \in conns'
    BY DEF RoutesSound
  <2>1. /\ routes[v][f] \in {0, 1}
        /\ routes[v][f] = 1 => byFd[f] = v /\ f \in conns
    BY DEF SessionsSound, RoutesSound
  <2>2. routes'[v][f] = IF v = u /\ f = fd THEN 0 ELSE routes[v][f]
    BY <1>1 DEF SessionsSound, StateTyped, removeRoute
  <2>. QED
    BY <2>1, <2>2 DEF SessionsSound, StateTyped
<1>5. SessionsAnchored' /\ ClosedForgotten' /\ DownMeansClosed'
  BY DEF SessionsSound, StateTyped, SessionsAnchored, ClosedForgotten, DownMeansClosed
<1>. QED
  BY <1>2, <1>3, <1>4, <1>5 DEF Inv, SessionsSound, TypeOK

LEMMA LogoutInv ==
  ASSUME SessionsSound, NEW fd \in Fds, NEW payload, handleLogoutCommand(fd, payload)
  PROVE  Inv'
<1>1. CASE /\ logoutStatus(fd, payload) # "RPL_OK"
           /\ Answer(fd, logoutStatus(fd, payload))
  <2>1. logoutStatus(fd, payload) \in StatusCodes
    BY DEF logoutStatus, StatusCodes
  <2>. QED
    BY <1>1, <2>1, AnswerInv
<1>2. CASE logoutStatus(fd, payload) = "RPL_OK" /\ logoutSession(fd)
  BY <1>2, LogoutSessionInv DEF logoutStatus, handleLogoutCommand
<1>. QED
  BY <1>1, <1>2 DEF handleLogoutCommand

LEMMA UseInv ==
  ASSUME SessionsSound, NEW fd \in Fds, NEW c \in Contexts \union {BadSize, BadText},
         handleUseCommand(fd, c)
  PROVE  Inv'
<1>1. CASE /\ useStatus(fd, c) # "RPL_OK"
           /\ Answer(fd, useStatus(fd, c))
  <2>1. useStatus(fd, c) \in StatusCodes
    BY DEF useStatus, StatusCodes
  <2>. QED
    BY <1>1, <2>1, AnswerInv
<1>2. CASE useStatus(fd, c) = "RPL_OK" /\ setContext(fd, c)
  <2>. USE <1>2 DEF setContext
  <2>1. c \in Contexts /\ fd \in conns
    BY DEF useStatus, handleUseCommand
  <2>2. queued' \in [Fds -> Seq(Packet)]
    BY PacketsTyped, StatusTyped DEF StatusCodes
  <2>3. TypeOK'
    BY <2>1, <2>2 DEF Inv, SessionsSound, TypeOK, StateTyped, QueuedTyped
  <2>4. LoginsCountSessions' /\ RoutesSound' /\ SessionsAnchored'
    BY SessionsUntouched
  <2>5. ClosedForgotten' /\ DownMeansClosed'
    BY <2>1 DEF SessionsSound, StateTyped, ClosedForgotten, DownMeansClosed
  <2>. QED
    BY <2>3, <2>4, <2>5 DEF Inv, SessionsSound, TypeOK
<1>. QED
  BY <1>1, <1>2 DEF handleUseCommand

LEMMA SendInv ==
  ASSUME SessionsSound, NEW fd \in Fds, NEW target \in Users \union {BadSize, BadText},
         handleSendCommand(fd, target)
  PROVE  Inv'
<1>. DEFINE msg(now) == [author |-> byFd[fd], receiver |-> target,
                         createdAt |-> now]
<1>1. CASE /\ sendStatus(fd, target) # "RPL_OK"
           /\ Answer(fd, sendStatus(fd, target))
  <2>1. sendStatus(fd, target) \in StatusCodes
    BY DEF sendStatus, StatusCodes
  <2>. QED
    BY <1>1, <2>1, AnswerInv
<1>2. ASSUME NEW now \in Seconds, sendStatus(fd, target) = "RPL_OK",
             storeAndSend(fd, msg(now))
      PROVE  Inv'
  <2>. DEFINE m == msg(now)
  <2>. USE <1>2 DEF storeAndSend
  <2>1. m \in Message
    BY DEF sendStatus, Message, SessionsSound, StateTyped
  <2>2. queued' \in [Fds -> Seq(Packet)]
    <3>1. Status("RPL_OK") \in Packet
      BY StatusTyped DEF StatusCodes
    <3>2. messageEvents(m) \in [Fds -> Seq(Packet)]
      BY <2>1, MessageEventsTyped DEF SessionsSound, TypeOK
    <3>3. sendMessage(fd, m) \in [Fds -> Seq(Packet)]
      BY <3>1, <3>2, PacketsTyped DEF sendMessage
    <3>. QED
      BY <3>3, PacketsTyped
  <2>3. TypeOK'
    BY <2>1, <2>2 DEF Inv, SessionsSound, TypeOK, StateTyped, QueuedTyped
  <2>4. LoginsCountSessions' /\ RoutesSound' /\ SessionsAnchored'
    BY SessionsUntouched
  <2>5. ClosedForgotten' /\ DownMeansClosed'
    BY DEF SessionsSound, ClosedForgotten, DownMeansClosed
  <2>. QED
    BY <2>3, <2>4, <2>5 DEF Inv, SessionsSound, TypeOK
<1>. QED
  BY <1>1, <1>2 DEF handleSendCommand

\* What is queued plays no part in what the sessions do.
LEMMA SessionsStutter ==
  SessionsSound /\ UNCHANGED sessionVars => SessionsSound'
BY DEF SessionsSound, sessionVars, StateTyped, LoginsCountSessions, SessionsOf,
       RoutesSound, SessionsAnchored, ClosedForgotten, DownMeansClosed

LEMMA SessionsStep == SessionsSound /\ Next => Inv'
<1>. SUFFICES ASSUME SessionsSound, Next PROVE Inv'
  OBVIOUS
<1>1. CASE Start
  BY <1>1, StartInv
<1>2. CASE Stop
  BY <1>2, StopInv
<1>3. CASE Crash
  BY <1>3, CrashInv
<1>4. ASSUME NEW fd \in Fds, Accept(fd) PROVE Inv'
  BY <1>4, AcceptInv
<1>5. ASSUME NEW fd \in Fds, removeClientAt(fd) PROVE Inv'
  BY <1>5, RemoveClientInv
<1>6. ASSUME NEW fd \in Fds, Command(fd) PROVE Inv'
  BY <1>6, LoginInv, LogoutInv, UseInv, SendInv DEF Command
<1>. QED
  BY <1>1, <1>2, <1>3, <1>4, <1>5, <1>6 DEF Next

LEMMA NextInv == Inv /\ [Next]_vars => Inv'
BY SessionsStep, SessionsStutter DEF Inv, vars, QueuedTyped

\* The invariant that the theorems below are read off.
THEOREM Invariance == Spec => []Inv
BY InitInv, NextInv, PTL DEF Spec

\* Every variable keeps its type, whatever the commands, disconnections,
\* crashes and restarts.
THEOREM TypeCorrect == Spec => []TypeOK
BY Invariance, PTL DEF Inv, SessionsSound, TypeOK

\* The login counter of every account is the number of its sessions.
THEOREM LoginCounterCorrect == Spec => []LoginsCountSessions
BY Invariance, PTL DEF Inv, SessionsSound, TypeOK

\* The map that private messages are routed by names only the receiver's own
\* open sessions, each once.
THEOREM RoutesCorrect == Spec => []RoutesSound
BY Invariance, PTL DEF Inv, SessionsSound, TypeOK

-----------------------------------------------------------------------------
(* Who is told about a private message *)

LEMMA SilenceHasNoMessage == NoMessage(Silence)
BY DEF NoMessage, Silence

LEMMA StatusHasNoMessage ==
  ASSUME NEW S, NEW c \in StatusCodes
  PROVE  /\ NoMessage(To(S, Status(c)))
         /\ To(S, Status(c)) \in [Fds -> Seq(Packet)]
<1>1. Status(c) \in Packet
  BY StatusTyped
<1>2. Status(c).code # "EVT_PRIVATE_MSG_RCVD"
  BY DEF Status, StatusCodes
<1>. QED
  BY <1>1, <1>2, NoMessageTo, PacketsTyped

LEMMA PresenceHasNoMessage ==
  ASSUME NEW S, NEW u \in Users,
         NEW c \in {"EVT_LOGGED_IN", "EVT_LOGGED_OUT"}
  PROVE  /\ NoMessage(To(S, Event(c, u)))
         /\ To(S, Event(c, u)) \in [Fds -> Seq(Packet)]
<1>1. Event(c, u) \in Packet
  BY EventTyped DEF EventCodes
<1>2. Event(c, u).code # "EVT_PRIVATE_MSG_RCVD"
  BY DEF Event
<1>. QED
  BY <1>1, <1>2, NoMessageTo, PacketsTyped

LEMMA AnswerMessages ==
  ASSUME NEW fd, NEW c \in StatusCodes, Answer(fd, c)
  PROVE  MessagesReachOnlyTheirReceiver'
BY StatusHasNoMessage, NoMessageQueued DEF Answer

LEMMA LoginMessages ==
  ASSUME SessionsSound, NEW fd \in Fds, NEW u \in Users, completeLogin(fd, u)
  PROVE  MessagesReachOnlyTheirReceiver'
<1>. DEFINE a == To({fd}, Status("RPL_OK"))
            b == To(Authenticated \union {fd}, Event("EVT_LOGGED_IN", u))
<1>1. NoMessage(a) /\ a \in [Fds -> Seq(Packet)]
  BY StatusHasNoMessage DEF StatusCodes
<1>2. NoMessage(b) /\ b \in [Fds -> Seq(Packet)]
  BY PresenceHasNoMessage
<1>3. Queue(Then(a, b))
  BY DEF completeLogin
<1>4. NoMessage(Then(a, b)) /\ Then(a, b) \in [Fds -> Seq(Packet)]
  BY <1>1, <1>2, NoMessageThen, PacketsTyped
<1>. QED
  BY <1>3, <1>4, NoMessageQueued

LEMMA LogoutMessages ==
  ASSUME SessionsSound, NEW fd \in Fds, byFd[fd] # NoUser, logoutSession(fd)
  PROVE  MessagesReachOnlyTheirReceiver'
<1>. DEFINE u == byFd[fd]
            a == To({fd}, Status("RPL_OK"))
            b == To({fd}, Event("EVT_LOGGED_OUT", u))
            c == broadcastLoggedOutEvent(u, fd)
<1>1. u \in Users /\ u \in known
  BY DEF SessionsSound, StateTyped, SessionsAnchored
<1>2. NoMessage(a) /\ a \in [Fds -> Seq(Packet)]
  BY StatusHasNoMessage DEF StatusCodes
<1>3. NoMessage(b) /\ b \in [Fds -> Seq(Packet)]
  BY <1>1, PresenceHasNoMessage
<1>4. NoMessage(c) /\ c \in [Fds -> Seq(Packet)]
  BY <1>1, PresenceHasNoMessage DEF broadcastLoggedOutEvent
<1>5. Queue(Then(Then(a, b), c))
  BY <1>1 DEF logoutSession
<1>. HIDE DEF a, b, c
<1>6. NoMessage(Then(a, b)) /\ Then(a, b) \in [Fds -> Seq(Packet)]
  BY <1>2, <1>3, NoMessageThen, PacketsTyped
<1>7. /\ NoMessage(Then(Then(a, b), c))
      /\ Then(Then(a, b), c) \in [Fds -> Seq(Packet)]
  BY <1>4, <1>6, NoMessageThen, PacketsTyped
<1>. QED
  BY <1>5, <1>7, NoMessageQueued

LEMMA DisconnectionMessages ==
  ASSUME SessionsSound, NEW fd \in Fds, removeClientAt(fd)
  PROVE  MessagesReachOnlyTheirReceiver'
<1>1. CASE byFd[fd] \in known
  <2>1. Queue(broadcastLoggedOutEvent(byFd[fd], fd))
    BY <1>1 DEF removeClientAt, handleClientDisconnection
  <2>2. byFd[fd] \in Users
    BY <1>1 DEF SessionsSound, StateTyped
  <2>. QED
    BY <2>1, <2>2, PresenceHasNoMessage, NoMessageQueued
    DEF broadcastLoggedOutEvent
<1>2. CASE byFd[fd] \notin known
  BY <1>2, SilenceHasNoMessage, PacketsTyped, NoMessageQueued
  DEF removeClientAt, handleClientDisconnection
<1>. QED
  BY <1>1, <1>2

\* The one handler that announces messages follows the routes, which are sound
\* and hold a descriptor at most once.
LEMMA SendMessages ==
  ASSUME SessionsSound, NEW fd \in Fds, NEW m \in Message, storeAndSend(fd, m)
  PROVE  MessagesReachOnlyTheirReceiver'
<1>. DEFINE events(f) == [i \in 1 .. routes[m.receiver][f] |->
                            Event("EVT_PRIVATE_MSG_RCVD", m)]
            reply(f) == To({fd}, Status("RPL_OK"))[f]
<1>. SUFFICES ASSUME NEW f \in Fds,
                     NEW i \in DOMAIN queued'[f], NEW j \in DOMAIN queued'[f],
                     queued'[f][i].code = "EVT_PRIVATE_MSG_RCVD"
              PROVE  /\ byFd'[f] = queued'[f][i].about.receiver
                     /\ queued'[f][i] = queued'[f][j] => i = j
  BY DEF MessagesReachOnlyTheirReceiver
<1>1. /\ m.receiver \in Users
      /\ routes[m.receiver][f] \in {0, 1}
      /\ routes[m.receiver][f] = 1 => byFd[f] = m.receiver
  BY DEF SessionsSound, RoutesSound, Message
<1>2. queued'[f] = events(f) \o reply(f)
  <2>1. queued'[f] = IF f \in conns THEN sendMessage(fd, m)[f] ELSE <<>>
    BY DEF storeAndSend, Queue
  <2>2. f \in conns
    BY <2>1
  <2>3. sendMessage(fd, m)[f] = messageEvents(m)[f] \o reply(f)
    BY DEF sendMessage, Then
  <2>4. messageEvents(m)[f] = events(f)
    BY DEF messageEvents
  <2>. QED
    BY <2>1, <2>2, <2>3, <2>4
<1>3. /\ events(f) \in Seq(Packet)
      /\ Len(events(f)) = routes[m.receiver][f]
      /\ \A k \in DOMAIN events(f) : events(f)[k] = Event("EVT_PRIVATE_MSG_RCVD", m)
  <2>1. Event("EVT_PRIVATE_MSG_RCVD", m) \in Packet
    BY EventTyped DEF EventCodes
  <2>. QED
    BY <1>1, <2>1
<1>4. reply(f) \in Seq(Packet) /\ NoMessage(To({fd}, Status("RPL_OK")))
  BY StatusHasNoMessage DEF StatusCodes
<1>5. \A k \in DOMAIN reply(f) : reply(f)[k].code # "EVT_PRIVATE_MSG_RCVD"
  BY <1>4 DEF NoMessage
<1>. HIDE DEF events, reply
<1>6. \A k \in DOMAIN queued'[f] :
        queued'[f][k].code = "EVT_PRIVATE_MSG_RCVD" =>
          /\ k = 1
          /\ routes[m.receiver][f] = 1
          /\ queued'[f][k] = Event("EVT_PRIVATE_MSG_RCVD", m)
  <2>. SUFFICES ASSUME NEW k \in DOMAIN queued'[f],
                       queued'[f][k].code = "EVT_PRIVATE_MSG_RCVD"
                PROVE  /\ k = 1
                       /\ routes[m.receiver][f] = 1
                       /\ queued'[f][k] = Event("EVT_PRIVATE_MSG_RCVD", m)
    OBVIOUS
  <2>1. k \in 1 .. Len(events(f)) + Len(reply(f))
    BY <1>2, <1>3, <1>4
  <2>2. CASE k \in 1 .. Len(events(f))
    BY <1>1, <1>2, <1>3, <1>4, <2>2
  <2>3. CASE k \in Len(events(f)) + 1 .. Len(events(f)) + Len(reply(f))
    <3>1. /\ queued'[f][k] = reply(f)[k - Len(events(f))]
          /\ k - Len(events(f)) \in DOMAIN reply(f)
      BY <1>2, <1>3, <1>4, <2>3, ConcatSecond
    <3>. QED
      BY <3>1, <1>5
  <2>. QED
    BY <1>1, <1>3, <1>4, <2>1, <2>2, <2>3
<1>7. byFd' = byFd
  BY DEF storeAndSend
<1>8. byFd'[f] = queued'[f][i].about.receiver
  BY <1>1, <1>6, <1>7 DEF Event
<1>9. queued'[f][i] = queued'[f][j] => i = j
  BY <1>6
<1>. QED
  BY <1>8, <1>9

LEMMA CommandMessages ==
  ASSUME SessionsSound, NEW fd \in Fds, Command(fd)
  PROVE  MessagesReachOnlyTheirReceiver'
<1>1. ASSUME NEW name \in Users \union {BadSize, BadText},
             handleLoginCommand(fd, name)
      PROVE  MessagesReachOnlyTheirReceiver'
  <2>1. loginStatus(fd, name) \in StatusCodes
    BY DEF loginStatus, StatusCodes
  <2>2. loginStatus(fd, name) = "RPL_OK" => name \in Users
    BY DEF loginStatus
  <2>. QED
    BY <1>1, <2>1, <2>2, AnswerMessages, LoginMessages
    DEF handleLoginCommand, LoginNewUser, LoginExistingUser
<1>2. ASSUME NEW payload, handleLogoutCommand(fd, payload)
      PROVE  MessagesReachOnlyTheirReceiver'
  <2>1. logoutStatus(fd, payload) \in StatusCodes
    BY DEF logoutStatus, StatusCodes
  <2>2. logoutStatus(fd, payload) = "RPL_OK" => byFd[fd] # NoUser
    BY DEF logoutStatus
  <2>. QED
    BY <1>2, <2>1, <2>2, AnswerMessages, LogoutMessages
    DEF handleLogoutCommand
<1>3. ASSUME NEW c, handleUseCommand(fd, c)
      PROVE  MessagesReachOnlyTheirReceiver'
  <2>1. useStatus(fd, c) \in StatusCodes
    BY DEF useStatus, StatusCodes
  <2>2. setContext(fd, c) => MessagesReachOnlyTheirReceiver'
    BY StatusHasNoMessage, NoMessageQueued DEF setContext, StatusCodes
  <2>. QED
    BY <1>3, <2>1, <2>2, AnswerMessages DEF handleUseCommand
<1>4. ASSUME NEW target \in Users \union {BadSize, BadText},
             handleSendCommand(fd, target)
      PROVE  MessagesReachOnlyTheirReceiver'
  <2>1. sendStatus(fd, target) \in StatusCodes
    BY DEF sendStatus, StatusCodes
  <2>. DEFINE msg(now) == [author |-> byFd[fd], receiver |-> target,
                           createdAt |-> now]
  <2>2. ASSUME NEW now \in Seconds, sendStatus(fd, target) = "RPL_OK",
               storeAndSend(fd, msg(now))
        PROVE  MessagesReachOnlyTheirReceiver'
    <3>1. msg(now) \in Message
      BY <2>2 DEF sendStatus, Message, SessionsSound, StateTyped
    <3>. QED
      BY <2>2, <3>1, SendMessages
  <2>. QED
    BY <1>4, <2>1, <2>2, AnswerMessages DEF handleSendCommand
<1>. QED
  BY <1>1, <1>2, <1>3, <1>4 DEF Command

LEMMA NextMessages ==
  ASSUME Inv, MessagesReachOnlyTheirReceiver, [Next]_vars
  PROVE  MessagesReachOnlyTheirReceiver'
<1>1. ASSUME queued' = Silence PROVE MessagesReachOnlyTheirReceiver'
  BY <1>1 DEF Silence, MessagesReachOnlyTheirReceiver
<1>2. CASE UNCHANGED vars
  BY <1>2 DEF vars, sessionVars, MessagesReachOnlyTheirReceiver
<1>. QED
  BY <1>1, <1>2, DisconnectionMessages, CommandMessages
  DEF Inv, Next, Start, Stop, Crash, Exit, Accept

\* A private message is announced to nobody but its receiver, across logouts,
\* reused descriptors, crashes and restarts.
THEOREM MessagesPrivate == Spec => []MessagesReachOnlyTheirReceiver
<1>1. Init => MessagesReachOnlyTheirReceiver
  BY DEF Init, Silence, MessagesReachOnlyTheirReceiver
<1>. QED
  BY <1>1, NextMessages, Invariance, PTL DEF Spec

-----------------------------------------------------------------------------
(* Routes and announcements *)

\* An account that the server does not know has no session.
LEMMA UnknownOffline ==
  ASSUME SessionsSound, NEW u \in Users, u \notin known
  PROVE  logins[u] = 0
<1>1. SessionsOf(u) = {}
  BY NoUserIsNoUser DEF SessionsSound, SessionsAnchored, SessionsOf
<1>2. Cardinality({}) = 0
  BY FS_EmptySet
<1>. QED
  BY <1>1, <1>2 DEF SessionsSound, LoginsCountSessions

\* What a step of a running server does to the users' sessions: nothing, or a
\* login, a logout or a lost connection.
SessionChange ==
  \/ UNCHANGED <<logins, byFd, routes>> /\ conns \subseteq conns'
  \/ \E fd \in conns \intersect Fds, u \in Users :
       /\ byFd[fd] = NoUser
       /\ logins' = [logins EXCEPT ![u] = @ + 1]
       /\ completeLogin(fd, u)
  \/ \E fd \in conns \intersect Fds : byFd[fd] # NoUser /\ logoutSession(fd)
  \/ \E fd \in Fds : removeClientAt(fd)

LEMMA StepsOfSessions ==
  ASSUME SessionsSound, [Next]_vars
  PROVE  SessionChange \/ Start \/ Exit
<1>. DEFINE Same == UNCHANGED <<logins, byFd, routes>> /\ conns \subseteq conns'
<1>1. ASSUME UNCHANGED vars PROVE Same
  BY <1>1 DEF vars, sessionVars
<1>2. ASSUME NEW fd \in Fds, Accept(fd) PROVE Same
  BY <1>2 DEF Accept
<1>3. ASSUME NEW fd, NEW code, Answer(fd, code) PROVE Same
  BY <1>3 DEF Answer, sessionVars
<1>4. ASSUME NEW fd \in Fds, NEW name \in Users \union {BadSize, BadText},
             handleLoginCommand(fd, name)
      PROVE  SessionChange
  <2>1. fd \in conns
    BY <1>4 DEF handleLoginCommand
  <2>2. CASE Answer(fd, loginStatus(fd, name))
    BY <1>3, <2>2 DEF SessionChange
  <2>3. CASE /\ loginStatus(fd, name) = "RPL_OK"
             /\ LoginNewUser(fd, name) \/ LoginExistingUser(fd, name)
    <3>1. name \in Users /\ byFd[fd] = NoUser
      BY <2>3 DEF loginStatus
    <3>2. completeLogin(fd, name)
      BY <2>3 DEF LoginNewUser, LoginExistingUser
    <3>3. logins' = [logins EXCEPT ![name] = @ + 1]
      <4>1. CASE LoginExistingUser(fd, name)
        BY <4>1 DEF LoginExistingUser, addLoggedIn
      <4>2. CASE LoginNewUser(fd, name)
        <5>1. logins[name] = 0
          BY <3>1, <4>2, UnknownOffline DEF LoginNewUser
        <5>. QED
          BY <4>2, <5>1 DEF LoginNewUser
      <4>. QED
        BY <2>3, <4>1, <4>2
    <3>. QED
      BY <2>1, <3>1, <3>2, <3>3 DEF SessionChange
  <2>. QED
    BY <1>4, <2>2, <2>3 DEF handleLoginCommand
<1>5. ASSUME NEW fd \in Fds, NEW payload, handleLogoutCommand(fd, payload)
      PROVE  SessionChange
  <2>1. CASE Answer(fd, logoutStatus(fd, payload))
    BY <1>3, <2>1 DEF SessionChange
  <2>2. CASE logoutStatus(fd, payload) = "RPL_OK" /\ logoutSession(fd)
    <3>1. byFd[fd] # NoUser
      BY <2>2 DEF logoutStatus
    <3>. QED
      BY <1>5, <2>2, <3>1 DEF SessionChange, handleLogoutCommand
  <2>. QED
    BY <1>5, <2>1, <2>2 DEF handleLogoutCommand
<1>6. ASSUME NEW fd \in Fds, NEW c, handleUseCommand(fd, c) PROVE Same
  BY <1>3, <1>6 DEF handleUseCommand, setContext
<1>7. ASSUME NEW fd \in Fds, NEW target, handleSendCommand(fd, target) PROVE Same
  BY <1>3, <1>7 DEF handleSendCommand, storeAndSend
<1>8. ASSUME NEW fd \in Fds, Command(fd) PROVE SessionChange
  BY <1>4, <1>5, <1>6, <1>7, <1>8 DEF Command, SessionChange
<1>. QED
  BY <1>1, <1>2, <1>8 DEF Next, Stop, Crash, SessionChange

LEMMA RouteKept ==
  ASSUME SessionsSound, SessionChange \/ Start \/ Exit,
         NEW f \in conns \intersect conns', NEW u \in Users,
         byFd[f] = u, byFd'[f] = u, routes[u][f] > 0, routes'[u][f] = 0
  PROVE  \E g \in conns \ conns' : byFd[g] = u
<1>. USE DEF SessionsSound, StateTyped
<1>1. f \in Fds /\ routes[u][f] \in Nat /\ routes \in [Users -> [Fds -> Nat]]
  OBVIOUS
<1>2. routes' # routes
  BY <1>1
<1>3. ~Start /\ ~Exit
  BY <1>2 DEF Start, Exit
<1>4. ASSUME NEW fd \in Fds, NEW v \in Users, completeLogin(fd, v) PROVE FALSE
  <2>1. routes' = [routes EXCEPT ![v][fd] = @ + 1]
    BY <1>4 DEF completeLogin, pushRoute
  <2>2. routes'[u][f] \in {routes[u][f], routes[u][f] + 1}
    BY <1>1, <2>1
  <2>. QED
    BY <1>1, <2>2
<1>5. ASSUME NEW fd \in conns \intersect Fds, logoutSession(fd) PROVE FALSE
  <2>1. f # fd
    BY <1>5, NoUserIsNoUser DEF logoutSession
  <2>2. routes'[u][f] = routes[u][f]
    BY <1>1, <1>5, <2>1 DEF logoutSession, removeRoute
  <2>. QED
    BY <1>1, <2>2
<1>6. ASSUME NEW fd \in Fds, removeClientAt(fd)
      PROVE  \E g \in conns \ conns' : byFd[g] = u
  <2>1. fd \in conns \ conns'
    BY <1>6 DEF removeClientAt
  <2>2. routes' = routesAfterDisconnection(fd)
    BY <1>6 DEF removeClientAt, handleClientDisconnection
  <2>3. routes' = eraseRoutes(byFd[fd])
    BY <1>2, <2>2 DEF routesAfterDisconnection
  <2>4. byFd[fd] # u => routes'[u][f] = routes[u][f]
    BY <1>1, <2>3 DEF eraseRoutes
  <2>. QED
    BY <1>1, <2>1, <2>4
<1>. QED
  BY <1>2, <1>3, <1>4, <1>5, <1>6 DEF SessionChange

\* A connection that stays signed in loses its route only together with
\* another connection of the same user.
THEOREM RoutesLast == Spec => RouteLostOnlyByDisconnection
<1>1. ASSUME Inv, [Next]_vars
      PROVE  [\A f \in conns \intersect conns' : \A u \in Users :
                /\ byFd[f] = u /\ byFd'[f] = u
                /\ routes[u][f] > 0 /\ routes'[u][f] = 0
                => \E g \in conns \ conns' : byFd[g] = u]_vars
  BY <1>1, StepsOfSessions, RouteKept DEF Inv
<1>. QED
  BY <1>1, Invariance, PTL DEF Spec, RouteLostOnlyByDisconnection

\* A packet that follows whatever a connection is sent is among its packets.
LEMMA LastOfThen ==
  ASSUME NEW a \in [Fds -> Seq(Packet)], NEW p \in Packet, NEW S, NEW f \in Fds,
         f \in S, f \in conns, Queue(Then(a, To(S, p)))
  PROVE  \E i \in DOMAIN queued'[f] : queued'[f][i] = p
<1>1. a[f] \in Seq(Packet) /\ queued'[f] = a[f] \o <<p>>
  BY DEF Queue, Then, To
<1>2. Len(a[f]) + 1 \in DOMAIN (a[f] \o <<p>>) /\ (a[f] \o <<p>>)[Len(a[f]) + 1] = p
  BY <1>1
<1>. QED
  BY <1>1, <1>2

LEMMA ChangeAnnounced ==
  ASSUME SessionsSound, SessionChange,
         NEW u \in Users, Online(u) # Online(u)', NEW f \in Fds, byFd'[f] # NoUser
  PROVE  \E i \in DOMAIN queued'[f] :
           queued'[f][i] = Event(IF Online(u) THEN "EVT_LOGGED_OUT"
                                              ELSE "EVT_LOGGED_IN", u)
<1>. DEFINE out(v) == Event("EVT_LOGGED_OUT", v)
            in(v) == Event("EVT_LOGGED_IN", v)
<1>1. /\ logins \in [Users -> Nat] /\ byFd \in [Fds -> Users \union {NoUser}]
      /\ \A g \in Fds : byFd[g] # NoUser => g \in conns
  BY DEF SessionsSound, StateTyped, SessionsAnchored
<1>2. logins'[u] # logins[u]
  BY DEF Online
<1>3. \A v \in Users : out(v) \in Packet /\ in(v) \in Packet
  BY EventTyped DEF EventCodes
<1>4. Status("RPL_OK") \in Packet
  BY StatusTyped DEF StatusCodes
<1>5. \A S : To(S, Status("RPL_OK")) \in [Fds -> Seq(Packet)]
  BY <1>4, PacketsTyped
<1>. HIDE DEF out, in
<1>6. ASSUME NEW fd \in Fds, NEW v \in Users, logins' = removeLoggedIn(v)
      PROVE  u = v /\ Online(u)
  <2>1. u = v
    BY <1>1, <1>2, <1>6 DEF removeLoggedIn
  <2>2. logins[u] \in Nat /\ logins'[u] = IF logins[u] <= 0 THEN 0 ELSE logins[u] - 1
    BY <1>1, <1>6, <2>1 DEF removeLoggedIn
  <2>3. logins[u] >= 1
    BY <1>2, <2>2
  <2>. QED
    BY <2>1, <2>3 DEF Online
<1>7. ASSUME NEW fd \in conns \intersect Fds, NEW v \in Users,
             logins' = [logins EXCEPT ![v] = @ + 1], completeLogin(fd, v)
      PROVE  ~Online(u) /\ \E i \in DOMAIN queued'[f] : queued'[f][i] = in(u)
  <2>1. u = v
    BY <1>1, <1>2, <1>7
  <2>2. logins[u] \in Nat /\ logins'[u] = logins[u] + 1
    BY <1>1, <1>7, <2>1
  <2>3. ~Online(u)
    BY <2>2 DEF Online
  <2>4. f \in Authenticated \union {fd} /\ f \in conns
    BY <1>1, <1>7 DEF completeLogin, Authenticated
  <2>. DEFINE reply == To({fd}, Status("RPL_OK"))
              S == Authenticated \union {fd}
  <2>5. Queue(Then(reply, To(S, in(u)))) /\ reply \in [Fds -> Seq(Packet)]
    BY <1>5, <1>7, <2>1 DEF completeLogin, in
  <2>. HIDE DEF reply, S
  <2>6. in(u) \in Packet /\ f \in S
    BY <1>3, <2>4 DEF S
  <2>7. \E i \in DOMAIN queued'[f] : queued'[f][i] = in(u)
    <3>. DEFINE p == in(u)
    <3>1. Queue(Then(reply, To(S, p))) /\ p \in Packet
      BY <2>5, <2>6
    <3>2. f \in Fds /\ f \in S /\ f \in conns /\ reply \in [Fds -> Seq(Packet)]
      BY <2>4, <2>5, <2>6
    <3>. HIDE DEF p
    <3>3. \E i \in DOMAIN queued'[f] : queued'[f][i] = p
      BY <3>1, <3>2, LastOfThen
    <3>. QED
      BY <3>3 DEF p
  <2>. QED
    BY <2>3, <2>7
<1>8. ASSUME NEW fd \in conns \intersect Fds, byFd[fd] # NoUser, logoutSession(fd)
      PROVE  Online(u) /\ \E i \in DOMAIN queued'[f] : queued'[f][i] = out(u)
  <2>. DEFINE v == byFd[fd]
  <2>1. v \in Users /\ logins' = IF v \in known THEN removeLoggedIn(v) ELSE logins
    BY <1>1, <1>8 DEF logoutSession
  <2>2. v \in known /\ logins' = removeLoggedIn(v)
    BY <1>2, <2>1
  <2>3. u = v /\ Online(u)
    BY <1>6, <2>1, <2>2
  <2>4. f # fd /\ byFd[f] # NoUser
    BY <1>1, <1>8 DEF logoutSession
  <2>5. f \in Authenticated \ {fd} /\ f \in conns
    BY <1>1, <2>4 DEF Authenticated
  <2>. DEFINE toSelf == Then(To({fd}, Status("RPL_OK")), To({fd}, out(v)))
  <2>6. toSelf \in [Fds -> Seq(Packet)]
    <3>1. To({fd}, out(v)) \in [Fds -> Seq(Packet)]
      BY <1>3, <2>1, PacketsTyped
    <3>. QED
      BY <1>5, <3>1, PacketsTyped
  <2>7. Queue(Then(toSelf, To(Authenticated \ {fd}, out(v))))
    BY <1>8, <2>2 DEF logoutSession, broadcastLoggedOutEvent, out
  <2>. DEFINE S == Authenticated \ {fd}
  <2>8. f \in S /\ f \in conns /\ out(v) \in Packet
    BY <1>3, <2>1, <2>5
  <2>. HIDE DEF toSelf, v
  <2>9. \E i \in DOMAIN queued'[f] : queued'[f][i] = out(v)
    <3>. HIDE DEF S
    <3>1. Queue(Then(toSelf, To(S, out(v))))
      BY <2>7 DEF S
    <3>. QED
      BY <2>6, <2>8, <3>1, LastOfThen, Zenon
  <2>. QED
    BY <2>3, <2>9
<1>9. ASSUME NEW fd \in Fds, removeClientAt(fd)
      PROVE  Online(u) /\ \E i \in DOMAIN queued'[f] : queued'[f][i] = out(u)
  <2>. DEFINE v == byFd[fd]
  <2>1. logins' = IF v \in known THEN removeLoggedIn(v) ELSE logins
    BY <1>9 DEF removeClientAt, handleClientDisconnection, loginsAfterDisconnection
  <2>2. v \in known /\ v \in Users /\ logins' = removeLoggedIn(v)
    BY <1>2, <2>1 DEF SessionsSound, StateTyped
  <2>3. u = v /\ Online(u)
    BY <1>6, <2>2
  <2>4. f # fd /\ byFd[f] # NoUser
    BY <1>1, <1>9 DEF removeClientAt, handleClientDisconnection
  <2>5. f \in Authenticated \ {fd} /\ f \in conns
    BY <1>1, <2>4 DEF Authenticated
  <2>6. queued'[f] = To(Authenticated \ {fd}, out(v))[f]
    BY <1>9, <2>2, <2>5
    DEF removeClientAt, handleClientDisconnection, broadcastLoggedOutEvent, Queue, out
  <2>7. queued'[f] = <<out(u)>>
    BY <2>3, <2>5, <2>6 DEF To
  <2>. QED
    BY <2>3, <2>7
<1>. QED
  BY <1>2, <1>7, <1>8, <1>9 DEF SessionChange, out, in

\* Whoever comes online or goes offline while the server runs, everybody who is
\* signed in is told in the same step.
THEOREM PresenceAnnounced == Spec => PresenceChangesAnnounced
<1>1. ASSUME Inv, [Next]_vars
      PROVE  [running /\ running' =>
                \A u \in Users : Online(u) # Online(u)' =>
                  \A f \in Fds : byFd'[f] # NoUser =>
                    \E i \in DOMAIN queued'[f] :
                      queued'[f][i] = Event(IF Online(u) THEN "EVT_LOGGED_OUT"
                                                         ELSE "EVT_LOGGED_IN", u)]_vars
  BY <1>1, StepsOfSessions, ChangeAnnounced DEF Inv, Start, Exit
<1>. QED
  BY <1>1, Invariance, PTL DEF Spec, PresenceChangesAnnounced

-----------------------------------------------------------------------------
(* One reply for each command *)

NoReply(packets) == Replies(packets) = {}
SingleReply(packets) == \E n : Replies(packets) = {n}

Events(packets) == \A f \in Fds : NoReply(packets[f])
ReplyTo(fd, packets) ==
  \A f \in Fds : IF f = fd THEN SingleReply(packets[f]) ELSE NoReply(packets[f])

\* The replies of a concatenation are those of its parts.
LEMMA RepliesConcat ==
  ASSUME NEW a \in Seq(Packet), NEW b \in Seq(Packet)
  PROVE  /\ NoReply(b) => Replies(a \o b) = Replies(a)
         /\ NoReply(a) => Replies(a \o b) = {Len(a) + n : n \in Replies(b)}
<1>1. /\ Len(a) \in Nat /\ Len(b) \in Nat
      /\ DOMAIN a = 1 .. Len(a) /\ DOMAIN b = 1 .. Len(b)
      /\ DOMAIN (a \o b) = 1 .. Len(a) + Len(b)
      /\ \A i \in 1 .. Len(a) : (a \o b)[i] = a[i]
      /\ \A i \in 1 .. Len(b) : (a \o b)[Len(a) + i] = b[i]
  OBVIOUS
<1>2. \A i \in DOMAIN (a \o b) :
        i \notin DOMAIN a => i - Len(a) \in DOMAIN b /\ (a \o b)[i] = b[i - Len(a)]
  BY <1>1
<1>3. ASSUME NoReply(b) PROVE Replies(a \o b) = Replies(a)
  <2>1. ASSUME NEW i \in Replies(a \o b) PROVE i \in Replies(a)
    BY <1>1, <1>2, <1>3 DEF NoReply, Replies
  <2>2. ASSUME NEW i \in Replies(a) PROVE i \in Replies(a \o b)
    BY <1>1 DEF Replies
  <2>. QED
    BY <2>1, <2>2
<1>4. ASSUME NoReply(a) PROVE Replies(a \o b) = {Len(a) + n : n \in Replies(b)}
  <2>1. ASSUME NEW i \in Replies(a \o b)
        PROVE  i - Len(a) \in Replies(b) /\ i = Len(a) + (i - Len(a))
    BY <1>1, <1>2, <1>4 DEF NoReply, Replies
  <2>2. ASSUME NEW n \in Replies(b) PROVE Len(a) + n \in Replies(a \o b)
    BY <1>1 DEF Replies
  <2>. QED
    BY <2>1, <2>2
<1>. QED
  BY <1>3, <1>4

LEMMA RepliesThen ==
  ASSUME NEW a \in [Fds -> Seq(Packet)], NEW b \in [Fds -> Seq(Packet)], NEW fd
  PROVE  /\ Events(a) /\ Events(b) => Events(Then(a, b))
         /\ ReplyTo(fd, a) /\ Events(b) => ReplyTo(fd, Then(a, b))
         /\ Events(a) /\ ReplyTo(fd, b) => ReplyTo(fd, Then(a, b))
<1>1. ASSUME NEW f \in Fds
      PROVE  /\ NoReply(a[f]) /\ NoReply(b[f]) => NoReply(a[f] \o b[f])
             /\ SingleReply(a[f]) /\ NoReply(b[f]) => SingleReply(a[f] \o b[f])
             /\ NoReply(a[f]) /\ SingleReply(b[f]) => SingleReply(a[f] \o b[f])
  <2>1. a[f] \in Seq(Packet) /\ b[f] \in Seq(Packet)
    OBVIOUS
  <2>2. /\ NoReply(b[f]) => Replies(a[f] \o b[f]) = Replies(a[f])
        /\ NoReply(a[f]) => Replies(a[f] \o b[f]) = {Len(a[f]) + n : n \in Replies(b[f])}
    BY <2>1, RepliesConcat
  <2>3. ASSUME NoReply(a[f]), NEW n, Replies(b[f]) = {n}
        PROVE  Replies(a[f] \o b[f]) = {Len(a[f]) + n}
    BY <2>2, <2>3
  <2>. QED
    BY <2>2, <2>3 DEF NoReply, SingleReply
<1>2. \A f \in Fds : Then(a, b)[f] = a[f] \o b[f]
  BY DEF Then
<1>. QED
  BY <1>1, <1>2 DEF Events, ReplyTo

LEMMA StatusReplies ==
  ASSUME NEW fd, NEW c \in StatusCodes
  PROVE  ReplyTo(fd, To({fd}, Status(c))) /\ To({fd}, Status(c)) \in [Fds -> Seq(Packet)]
<1>1. DOMAIN <<Status(c)>> = {1} /\ <<Status(c)>>[1].code = c
  BY DEF Status
<1>2. Replies(<<Status(c)>>) = {1} /\ Replies(<<>>) = {}
  BY <1>1 DEF Replies
<1>3. Status(c) \in Packet
  BY StatusTyped
<1>. QED
  BY <1>2, <1>3, PacketsTyped DEF ReplyTo, SingleReply, NoReply, To

LEMMA EventNoReply ==
  ASSUME NEW S, NEW c \in EventCodes, NEW about \in Users
  PROVE  Events(To(S, Event(c, about))) /\ To(S, Event(c, about)) \in [Fds -> Seq(Packet)]
<1>1. c \notin StatusCodes
  BY DEF StatusCodes, EventCodes
<1>2. DOMAIN <<Event(c, about)>> = {1} /\ <<Event(c, about)>>[1].code = c
  BY DEF Event
<1>3. Replies(<<Event(c, about)>>) = {} /\ Replies(<<>>) = {}
  BY <1>1, <1>2 DEF Replies
<1>4. Event(c, about) \in Packet
  BY EventTyped
<1>. QED
  BY <1>3, <1>4, PacketsTyped DEF Events, NoReply, To

\* What a command does: it answers the connection it came from, and changes no
\* other connection's user or context.
CommandAnswers(fd) ==
  \E packets : /\ Queue(packets) /\ ReplyTo(fd, packets)
               /\ \A f \in Fds \ {fd} : byFd'[f] = byFd[f] /\ context'[f] = context[f]

LEMMA RefusalAnswersOnce ==
  ASSUME NEW fd, NEW c \in StatusCodes, Answer(fd, c)
  PROVE  CommandAnswers(fd)
BY StatusReplies DEF Answer, CommandAnswers, sessionVars

LEMMA LoginAnswersOnce ==
  ASSUME StateTyped, NEW fd \in Fds, NEW u \in Users, completeLogin(fd, u)
  PROVE  CommandAnswers(fd)
<1>. DEFINE a == To({fd}, Status("RPL_OK"))
            b == To(Authenticated \union {fd}, Event("EVT_LOGGED_IN", u))
<1>1. ReplyTo(fd, a) /\ a \in [Fds -> Seq(Packet)]
  BY StatusReplies DEF StatusCodes
<1>2. Events(b) /\ b \in [Fds -> Seq(Packet)]
  BY EventNoReply DEF EventCodes
<1>3. Queue(Then(a, b))
  BY DEF completeLogin
<1>4. \A f \in Fds \ {fd} : byFd'[f] = byFd[f] /\ context'[f] = context[f]
  BY DEF completeLogin, StateTyped
<1>. HIDE DEF a, b
<1>5. ReplyTo(fd, Then(a, b))
  BY <1>1, <1>2, RepliesThen
<1>. QED
  BY <1>3, <1>4, <1>5 DEF CommandAnswers

LEMMA LogoutAnswersOnce ==
  ASSUME SessionsSound, NEW fd \in Fds, byFd[fd] # NoUser, logoutSession(fd)
  PROVE  CommandAnswers(fd)
<1>. DEFINE u == byFd[fd]
            a == To({fd}, Status("RPL_OK"))
            b == To({fd}, Event("EVT_LOGGED_OUT", u))
            d == broadcastLoggedOutEvent(u, fd)
<1>1. u \in Users /\ u \in known
  BY DEF SessionsSound, StateTyped, SessionsAnchored
<1>2. ReplyTo(fd, a) /\ a \in [Fds -> Seq(Packet)]
  BY StatusReplies DEF StatusCodes
<1>3. Events(b) /\ b \in [Fds -> Seq(Packet)]
  BY <1>1, EventNoReply DEF EventCodes
<1>4. Events(d) /\ d \in [Fds -> Seq(Packet)]
  BY <1>1, EventNoReply DEF EventCodes, broadcastLoggedOutEvent
<1>5. Queue(Then(Then(a, b), d))
  BY <1>1 DEF logoutSession
<1>6. \A f \in Fds \ {fd} : byFd'[f] = byFd[f] /\ context'[f] = context[f]
  BY DEF logoutSession, SessionsSound, StateTyped
<1>. HIDE DEF a, b, d
<1>7. ReplyTo(fd, Then(a, b)) /\ Then(a, b) \in [Fds -> Seq(Packet)]
  BY <1>2, <1>3, RepliesThen, PacketsTyped
<1>8. ReplyTo(fd, Then(Then(a, b), d))
  BY <1>4, <1>7, RepliesThen
<1>. QED
  BY <1>5, <1>6, <1>8 DEF CommandAnswers

LEMMA SendAnswersOnce ==
  ASSUME StateTyped, NEW fd \in Fds, NEW m \in Message, storeAndSend(fd, m)
  PROVE  CommandAnswers(fd)
<1>. DEFINE a == messageEvents(m)
            b == To({fd}, Status("RPL_OK"))
<1>1. Events(a)
  <2>1. "EVT_PRIVATE_MSG_RCVD" \notin StatusCodes
    BY DEF StatusCodes
  <2>2. \A f \in Fds : \A i \in DOMAIN a[f] : a[f][i].code = "EVT_PRIVATE_MSG_RCVD"
    BY DEF messageEvents, Event
  <2>. QED
    BY <2>1, <2>2 DEF Events, NoReply, Replies
<1>2. a \in [Fds -> Seq(Packet)]
  BY MessageEventsTyped
<1>3. ReplyTo(fd, b) /\ b \in [Fds -> Seq(Packet)]
  BY StatusReplies DEF StatusCodes
<1>4. Queue(Then(a, b))
  BY DEF storeAndSend, sendMessage
<1>5. \A f \in Fds \ {fd} : byFd'[f] = byFd[f] /\ context'[f] = context[f]
  BY DEF storeAndSend
<1>. HIDE DEF a, b
<1>6. ReplyTo(fd, Then(a, b))
  BY <1>1, <1>2, <1>3, RepliesThen
<1>. QED
  BY <1>4, <1>5, <1>6 DEF CommandAnswers

LEMMA CommandsAnswerOnce ==
  ASSUME SessionsSound, NEW fd \in Fds, Command(fd)
  PROVE  fd \in conns /\ CommandAnswers(fd)
<1>. USE DEF StatusCodes
<1>1. StateTyped
  BY DEF SessionsSound
<1>2. ASSUME NEW name \in Users \union {BadSize, BadText}, handleLoginCommand(fd, name)
      PROVE  fd \in conns /\ CommandAnswers(fd)
  <2>1. loginStatus(fd, name) \in StatusCodes
    BY DEF loginStatus
  <2>2. loginStatus(fd, name) = "RPL_OK" => name \in Users
    BY DEF loginStatus
  <2>3. \/ Answer(fd, loginStatus(fd, name))
        \/ loginStatus(fd, name) = "RPL_OK" /\ completeLogin(fd, name)
    BY <1>2 DEF handleLoginCommand, LoginNewUser, LoginExistingUser
  <2>4. fd \in conns
    BY <1>2 DEF handleLoginCommand
  <2>. QED
    BY <1>1, <2>1, <2>2, <2>3, <2>4, RefusalAnswersOnce, LoginAnswersOnce
<1>3. ASSUME NEW payload, handleLogoutCommand(fd, payload)
      PROVE  fd \in conns /\ CommandAnswers(fd)
  <2>1. logoutStatus(fd, payload) \in StatusCodes
    BY DEF logoutStatus
  <2>2. logoutStatus(fd, payload) = "RPL_OK" => byFd[fd] # NoUser
    BY DEF logoutStatus
  <2>. QED
    BY <1>3, <2>1, <2>2, RefusalAnswersOnce, LogoutAnswersOnce DEF handleLogoutCommand
<1>4. ASSUME NEW c, handleUseCommand(fd, c)
      PROVE  fd \in conns /\ CommandAnswers(fd)
  <2>1. useStatus(fd, c) \in StatusCodes
    BY DEF useStatus
  <2>2. ASSUME setContext(fd, c) PROVE CommandAnswers(fd)
    BY <1>1, <2>2, StatusReplies DEF setContext, CommandAnswers, StateTyped
  <2>. QED
    BY <1>4, <2>1, <2>2, RefusalAnswersOnce DEF handleUseCommand
<1>5. ASSUME NEW target \in Users \union {BadSize, BadText}, handleSendCommand(fd, target)
      PROVE  fd \in conns /\ CommandAnswers(fd)
  <2>1. sendStatus(fd, target) \in StatusCodes
    BY DEF sendStatus
  <2>2. ASSUME sendStatus(fd, target) = "RPL_OK", NEW now \in Seconds
        PROVE  [author |-> byFd[fd], receiver |-> target, createdAt |-> now] \in Message
    <3>1. byFd[fd] \in Users /\ target \in Users
      BY <1>1, <2>2 DEF sendStatus, StateTyped
    <3>. QED
      BY <3>1 DEF Message
  <2>. QED
    BY <1>1, <1>5, <2>1, <2>2, RefusalAnswersOnce, SendAnswersOnce DEF handleSendCommand
<1>. QED
  BY <1>2, <1>3, <1>4, <1>5 DEF Command

\* What is queued for a connection is counted only where there is one.
LEMMA OneReplyQueued ==
  ASSUME NEW fd \in conns, CommandAnswers(fd), NEW f \in Fds
  PROVE  /\ Cardinality(Replies(queued'[f])) = (IF f = fd THEN 1 ELSE 0)
         /\ byFd'[f] # byFd[f] \/ context'[f] # context[f] => f = fd
<1>1. PICK packets : /\ Queue(packets) /\ ReplyTo(fd, packets)
                     /\ \A g \in Fds \ {fd} : byFd'[g] = byFd[g] /\ context'[g] = context[g]
  BY DEF CommandAnswers
<1>2. Cardinality({}) = 0 /\ \A n : Cardinality({n}) = 1
  BY FS_EmptySet, FS_Singleton
<1>3. Replies(<<>>) = {}
  BY DEF Replies
<1>4. CASE f = fd
  BY <1>1, <1>2, <1>4 DEF Queue, ReplyTo, SingleReply
<1>5. CASE f # fd
  BY <1>1, <1>2, <1>3, <1>5 DEF Queue, ReplyTo, NoReply
<1>. QED
  BY <1>4, <1>5

\* Every command gets exactly one reply, whatever the events around it.
THEOREM RepliesPaired == Spec => OneReplyPerCommand
<1>1. ASSUME Inv, [Next]_vars
      PROVE  [running' = running /\ conns' = conns =>
                \E fd \in conns : \A f \in Fds :
                  /\ Cardinality(Replies(queued'[f])) = (IF f = fd THEN 1 ELSE 0)
                  /\ byFd'[f] # byFd[f] \/ context'[f] # context[f] => f = fd]_vars
  <2>. SUFFICES ASSUME Next, running' = running, conns' = conns
                PROVE  \E fd \in conns : \A f \in Fds :
                  /\ Cardinality(Replies(queued'[f])) = (IF f = fd THEN 1 ELSE 0)
                  /\ byFd'[f] # byFd[f] \/ context'[f] # context[f] => f = fd
    BY <1>1
  <2>1. PICK fd \in Fds : Command(fd)
    BY DEF Next, Start, Stop, Crash, Exit, Accept, removeClientAt
  <2>2. fd \in conns /\ CommandAnswers(fd)
    BY <1>1, <2>1, CommandsAnswerOnce DEF Inv
  <2>. QED
    BY <2>2, OneReplyQueued
<1>. QED
  BY <1>1, Invariance, PTL DEF Spec, OneReplyPerCommand

-----------------------------------------------------------------------------
(* Descriptors and presence *)

\* A descriptor that is accepted again inherits nothing.
THEOREM DescriptorsReusedClean == Spec => NewConnectionIsAnonymous
<1>1. ASSUME Inv, [Next]_vars
      PROVE  [\A f \in conns' \ conns :
                /\ byFd'[f] = NoUser
                /\ context'[f] = NoContext
                /\ \A u \in Users : routes'[u][f] = 0]_vars
  <2>. SUFFICES ASSUME Next, NEW f \in conns' \ conns
                PROVE  /\ byFd'[f] = NoUser
                       /\ context'[f] = NoContext
                       /\ \A u \in Users : routes'[u][f] = 0
    BY <1>1
  <2>1. PICK fd \in Fds : Accept(fd)
    BY DEF Next, Start, Stop, Crash, Exit, removeClientAt, Command,
           handleLoginCommand, LoginNewUser, LoginExistingUser, completeLogin,
           handleLogoutCommand, logoutSession, handleUseCommand, setContext,
           handleSendCommand, storeAndSend, Answer, sessionVars
  <2>2. f = fd /\ byFd' = byFd /\ context' = context /\ routes' = routes
    BY <2>1 DEF Accept
  <2>3. \A u \in Users : routes[u][f] \in {0, 1} /\ routes[u][f] # 1
    BY <1>1, <2>2 DEF Inv, SessionsSound, RoutesSound
  <2>. QED
    BY <1>1, <2>2, <2>3 DEF Inv, SessionsSound, SessionsAnchored, ClosedForgotten
<1>. QED
  BY <1>1, Invariance, PTL DEF NewConnectionIsAnonymous, Spec

LEMMA PositiveMeansNonempty ==
  ASSUME NEW S \in SUBSET Fds
  PROVE  Cardinality(S) >= 1 <=> S # {}
<1>1. IsFiniteSet(S)
  BY FdsFinite, FS_Subset
<1>. QED
  BY <1>1, FS_CardinalityType, FS_EmptySet

LEMMA NextPresence ==
  ASSUME Inv, Inv', [Next]_vars
  PROVE  [PresenceService!Next]_(PresenceService!vars)
<1>. DEFINE on == {u \in Users : Online(u)}
<1>. USE DEF PresenceService!Next, PresenceService!vars, PresenceService!SignIn,
             PresenceService!SignOut, PresenceService!Reset
<1>1. /\ on = {u \in Users : \E f \in Fds : byFd[f] = u}
      /\ on' = {u \in Users : \E f \in Fds : byFd'[f] = u}
  <2>1. ASSUME NEW u \in Users
        PROVE  Online(u) <=> \E f \in Fds : byFd[f] = u
    <3>1. logins[u] >= 1 <=> SessionsOf(u) # {}
      BY PositiveMeansNonempty DEF Inv, SessionsSound, LoginsCountSessions, SessionsOf
    <3>. QED
      BY <3>1 DEF Online, SessionsOf
  <2>2. ASSUME NEW u \in Users
        PROVE  Online(u)' <=> \E f \in Fds : byFd'[f] = u
    <3>1. logins'[u] >= 1 <=> SessionsOf(u)' # {}
      BY PositiveMeansNonempty DEF Inv, SessionsSound, LoginsCountSessions, SessionsOf
    <3>. QED
      BY <3>1 DEF Online, SessionsOf
  <2>. QED
    BY <2>1, <2>2
<1>. HIDE DEF on
<1>2. byFd \in [Fds -> Users \union {NoUser}]
  BY DEF Inv, SessionsSound, TypeOK, StateTyped, QueuedTyped
<1>3. ASSUME byFd' = byFd
      PROVE  [PresenceService!Next]_(PresenceService!vars)
  BY <1>1, <1>3 DEF on
<1>4. ASSUME byFd' = Anonymous
      PROVE  PresenceService!Reset
  BY <1>1, <1>4, NoUserIsNoUser DEF Anonymous, on
<1>5. ASSUME NEW fd \in Fds, NEW u \in Users, byFd[fd] = NoUser,
             byFd' = [byFd EXCEPT ![fd] = u]
      PROVE  PresenceService!SignIn(fd, u)
  <2>1. on' = on \union {u}
    BY <1>1, <1>2, <1>5, NoUserIsNoUser
  <2>. QED
    BY <1>5, <2>1 DEF on
<1>6. ASSUME NEW fd \in Fds, byFd[fd] # NoUser,
             byFd' = [byFd EXCEPT ![fd] = NoUser]
      PROVE  PresenceService!SignOut(fd)
  <2>1. CASE \E d \in Fds \ {fd} : byFd[d] = byFd[fd]
    <3>1. on' = on
      BY <1>1, <1>2, <1>6, <2>1, NoUserIsNoUser
    <3>. QED
      BY <1>6, <2>1, <3>1 DEF on
  <2>2. CASE ~\E d \in Fds \ {fd} : byFd[d] = byFd[fd]
    <3>1. on' = on \ {byFd[fd]}
      BY <1>1, <1>2, <1>6, <2>2, NoUserIsNoUser
    <3>. QED
      BY <1>6, <2>2, <3>1 DEF on
  <2>. QED
    BY <2>1, <2>2
<1>7. CASE UNCHANGED vars
  BY <1>3, <1>7 DEF vars, sessionVars
<1>8. CASE Start
  BY <1>3, <1>8 DEF Start
<1>9. CASE Stop \/ Crash
  BY <1>4, <1>9 DEF Stop, Crash, Exit
<1>10. ASSUME NEW fd \in Fds, Accept(fd)
       PROVE  [PresenceService!Next]_(PresenceService!vars)
  BY <1>3, <1>10 DEF Accept
<1>11. ASSUME NEW fd \in Fds, removeClientAt(fd)
       PROVE  [PresenceService!Next]_(PresenceService!vars)
  <2>1. byFd' = [byFd EXCEPT ![fd] = NoUser]
    BY <1>11 DEF removeClientAt, handleClientDisconnection
  <2>2. CASE byFd[fd] = NoUser
    BY <1>2, <1>3, <2>1, <2>2
  <2>3. CASE byFd[fd] # NoUser
    BY <1>6, <2>1, <2>3
  <2>. QED
    BY <2>2, <2>3
<1>12. ASSUME NEW fd \in Fds, NEW name \in Users \union {BadSize, BadText},
              handleLoginCommand(fd, name)
       PROVE  [PresenceService!Next]_(PresenceService!vars)
  <2>1. CASE UNCHANGED byFd
    BY <1>3, <2>1
  <2>2. CASE ~UNCHANGED byFd
    <3>1. loginStatus(fd, name) = "RPL_OK" /\ completeLogin(fd, name)
      BY <1>12, <2>2 DEF handleLoginCommand, Answer, sessionVars,
                         LoginNewUser, LoginExistingUser
    <3>2. name \in Users /\ byFd[fd] = NoUser
      BY <3>1 DEF loginStatus
    <3>. QED
      BY <1>5, <3>1, <3>2 DEF completeLogin
  <2>. QED
    BY <2>1, <2>2
<1>13. ASSUME NEW fd \in Fds, NEW payload, handleLogoutCommand(fd, payload)
       PROVE  [PresenceService!Next]_(PresenceService!vars)
  <2>1. CASE UNCHANGED byFd
    BY <1>3, <2>1
  <2>2. CASE ~UNCHANGED byFd
    <3>1. byFd[fd] # NoUser /\ logoutSession(fd)
      BY <1>13, <2>2 DEF handleLogoutCommand, logoutStatus, Answer, sessionVars
    <3>. QED
      BY <1>6, <3>1 DEF logoutSession
  <2>. QED
    BY <2>1, <2>2
<1>14. ASSUME NEW fd \in Fds, NEW c,
              handleUseCommand(fd, c) \/ handleSendCommand(fd, c)
       PROVE  [PresenceService!Next]_(PresenceService!vars)
  BY <1>3, <1>14 DEF handleUseCommand, setContext, handleSendCommand,
                     storeAndSend, Answer, sessionVars
<1>. QED
  BY <1>7, <1>8, <1>9, <1>10, <1>11, <1>12, <1>13, <1>14 DEF Next, Command

\* The map, the counters and the handlers that keep them implement the
\* abstract service in which a user is online while somebody is signed in.
THEOREM PresenceImplemented == Spec => ImplementsPresence
<1>1. Init => PresenceService!Init
  BY DEF Init, PresenceService!Init, Anonymous, NoLogins, Online
<1>. QED
  BY <1>1, Invariance, NextPresence, PTL
  DEF ImplementsPresence, PresenceService!Spec, Spec
=============================================================================
