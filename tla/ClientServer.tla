---------------------------- MODULE ClientServer ----------------------------
(***************************************************************************)
(* The clients, each on a connection to the server of module Workspace.    *)
(* A client sends one command, then reads packets until that command's     *)
(* answer is complete, printing the events in between; when it has no      *)
(* command it reads what has arrived, prints the events and drops the      *)
(* rest.  It gives an answer up when nothing has arrived for five seconds. *)
(*                                                                         *)
(* A connection carries whole packets in order.  A client is known by its  *)
(* descriptor in the server.  When the server ends, its clients end.       *)
(***************************************************************************)
EXTENDS Workspace

CONSTANTS
  Kinds,         (* The commands the clients' users type.                  *)
  NoCommand,     (* A client that waits for no answer.                     *)
  MaxTimeouts,   (* Bound on the answers a client gives up.                *)
  MaxInTransit   (* Bound on the packets under way in each direction.      *)

VARIABLES
  client,        (* client::Client and, while a handler waits for its       *)
                 (* answer, its command and the list code it has seen.      *)
  toServer,      (* Commands sent and not yet dispatched by the server.     *)
  toClient,      (* Packets queued by the server and not yet read.          *)
  timeouts,      (* History: the answers given up on this connection.       *)
  astray         (* History: an answer that was given up may still come.    *)

clientVars == <<client, toServer, toClient, timeouts, astray>>
serverVars == <<vars, workspaceVars, fileVars>>
systemVars == <<serverVars, clientVars>>

ClientKinds == {"login", "logout", "use", "create", "subscribe", "unsubscribe",
                "subscribed", "list", "info", "users", "user", "messages", "send"}

ASSUME KindsKnown == Kinds \subseteq ClientKinds
Commands ==
  [kind : ClientKinds,
   arg : Users \union Contexts \union Teams \union CreatePayload \union {Nothing}]
ASSUME NoCommandIsNone == NoCommand \notin Commands

NewClient == [connected |-> FALSE, username |-> NoUser, context |-> NoContext,
              pending |-> NoCommand, expected |-> "none"]

\* A step of a client: the server queues nothing in it.
ServerIdle == queued' = Silence /\ UNCHANGED <<sessionVars, workspaceVars, fileVars>>

Waiting(f) == client[f].pending # NoCommand
IsEvent(p) == p.code \in EventCodes \union
                {"EVT_TEAM_CREATED", "EVT_CHANNEL_CREATED",
                 "EVT_THREAD_CREATED", "EVT_REPLY_CREATED"}
AnswerIn(packets) == \E i \in DOMAIN packets : ~IsEvent(packets[i])

-----------------------------------------------------------------------------
(* Sending.  What each handler checks before it sends, and what it sends.    *)

inferCreateTargetFromContext(c) == Shape(c)

Arguments(f, kind) ==
  LET c == client[f] IN
  CASE kind = "login" -> IF c.connected THEN {} ELSE Users
    [] kind = "logout" -> IF c.connected THEN {Nothing} ELSE {}
    [] kind = "use" -> Contexts
    [] kind = "create" ->
         IF c.connected
           THEN [shape : {inferCreateTargetFromContext(c.context)}, text : Names]
           ELSE {}
    [] kind \in {"subscribe", "unsubscribe"} -> Teams
    [] kind = "subscribed" -> Teams \union {Nothing}
    [] kind \in {"list", "info", "users"} -> {Nothing}
    [] kind \in {"user", "messages", "send"} -> Users

Send(f) ==
  \E kind \in Kinds : \E arg \in Arguments(f, kind) :
    /\ f \in conns
    /\ ~Waiting(f)
    /\ Len(toServer[f]) < MaxInTransit
    /\ client' = [client EXCEPT ![f].pending = [kind |-> kind, arg |-> arg],
                                ![f].expected = "none"]
    /\ toServer' = [toServer EXCEPT ![f] = Append(@, [kind |-> kind, arg |-> arg])]
    /\ ServerIdle
    /\ UNCHANGED <<toClient, timeouts, astray>>

-----------------------------------------------------------------------------
(* The server takes the first command of a connection.                       *)

dispatchCommand(f, kind, arg) ==
  \/ kind = "login" /\ handleLoginCommand(f, arg) /\ KeepWorkspace
  \/ kind = "logout" /\ handleLogoutCommand(f, arg) /\ KeepWorkspace
  \/ kind = "use" /\ handleUseCommand(f, arg) /\ KeepWorkspace
  \/ kind = "send" /\ handleSendCommand(f, arg) /\ KeepWorkspace
  \/ kind = "users" /\ handleUsersCommand(f, arg) /\ KeepWorkspace
  \/ kind = "user" /\ handleUserCommand(f, arg) /\ KeepWorkspace
  \/ kind = "messages" /\ handleMessagesCommand(f, arg) /\ KeepWorkspace
  \/ kind = "create" /\ handleCreateCommand(f, arg)
  \/ kind = "subscribe" /\ handleSubscribeCommand(f, arg)
  \/ kind = "unsubscribe" /\ handleUnsubscribeCommand(f, arg)
  \/ kind = "subscribed" /\ handleSubscribedListCommand(f, arg)
  \/ kind = "list" /\ handleListCommand(f, arg)
  \/ kind = "info" /\ handleInfoCommand(f, arg)

\* What the step queued follows what is on its way already.
Deliver ==
  /\ toClient' = [f \in Fds |-> toClient[f] \o queued'[f]]
  /\ \A f \in Fds : Len(toClient'[f]) <= MaxInTransit

Serve(f) ==
  /\ toServer[f] # <<>>
  /\ dispatchCommand(f, Head(toServer[f]).kind, Head(toServer[f]).arg)
  /\ Deliver
  /\ toServer' = [toServer EXCEPT ![f] = Tail(@)]
  /\ UNCHANGED <<client, timeouts, astray>>

-----------------------------------------------------------------------------
(* Reading *)

ListCodes(command) ==
  CASE command.kind = "list" ->
         {"RPL_TEAMS_LIST", "RPL_CHANNELS_LIST", "RPL_THREADS_LIST",
          "RPL_REPLIES_LIST"}
    [] command.kind = "subscribed" ->
         IF command.arg = Nothing THEN {"RPL_SUBSCRIBED_LIST"}
                                  ELSE {"RPL_USERS_LIST"}
    [] command.kind = "users" -> {"RPL_USERS_LIST"}
    [] command.kind = "messages" -> {"RPL_MESSAGES_LIST"}
    [] command.kind = "user" -> {"RPL_OK"}
    [] OTHER -> {}

\* The reply is an element of a list, and the handler reads on.
\* Slip: the handler is content with the first packet.
onlyReply(c, code) == FALSE
moreFollows(c, code) ==
  /\ code \in ListCodes(c.pending)
  /\ c.pending.kind = "list" => c.expected \in {"none", code}

\* The other replies a handler has a case for; each ends its command.
finalCodes(command) ==
  LET refusals == {"ERR_UNAUTHORIZED", "ERR_NOT_FOUND"} IN
  CASE command.kind = "login" -> {"RPL_OK", "ERR_BAD_REQUEST"}
    [] command.kind \in {"logout", "use"} ->
         {"RPL_OK", "ERR_UNAUTHORIZED", "ERR_BAD_REQUEST"}
    [] command.kind = "create" ->
         refusals \union {"RPL_CREATED", "ERR_ALREADY_EXIST", "ERR_BAD_REQUEST"}
    [] command.kind \in {"subscribe", "unsubscribe"} ->
         refusals \union {"RPL_OK", "RPL_USERS_LIST", "ERR_ALREADY_EXIST",
                          "ERR_FORBIDDEN"}
    [] command.kind = "subscribed" -> refusals \union {"RPL_OK", "ERR_FORBIDDEN"}
    [] command.kind = "list" ->
         refusals \union {"RPL_OK", "ERR_FORBIDDEN", "ERR_BAD_REQUEST"}
    [] command.kind = "info" ->
         refusals \union {"RPL_USER_INFO", "RPL_TEAMS_LIST", "RPL_CHANNELS_LIST",
                          "RPL_THREADS_LIST", "ERR_BAD_REQUEST"}
    [] command.kind = "users" -> {"RPL_OK", "ERR_UNAUTHORIZED", "ERR_BAD_REQUEST"}
    [] command.kind = "user" -> refusals \union {"RPL_USER_INFO", "ERR_BAD_REQUEST"}
    [] command.kind \in {"messages", "send"} ->
         refusals \union {"RPL_OK", "ERR_BAD_REQUEST"}

\* What the handler makes of the reply that ends its command.
\* Slip: the context is kept before the server has accepted it.
loggedOut(c) == [NewClient EXCEPT !.pending = c.pending]
afterAnyUse(c, code) ==
  CASE c.pending.kind = "login" /\ code = "RPL_OK" ->
         [c EXCEPT !.connected = TRUE, !.username = c.pending.arg]
    [] c.pending.kind = "logout" /\ code = "RPL_OK" -> loggedOut(c)
    [] c.pending.kind = "use" -> [c EXCEPT !.context = c.pending.arg]
    [] OTHER -> c
afterReply(c, code) ==
  CASE c.pending.kind = "login" /\ code = "RPL_OK" ->
         [c EXCEPT !.connected = TRUE, !.username = c.pending.arg]
    [] c.pending.kind = "logout" /\ code = "RPL_OK" -> loggedOut(c)
    [] c.pending.kind = "use" /\ code = "RPL_OK" ->
         [c EXCEPT !.context = c.pending.arg]
    [] OTHER -> c

idle(c) == [c EXCEPT !.pending = NoCommand, !.expected = "none"]

\* Once nothing is left of the answers given up, client and server are in step.
settles(f, packets) ==
  astray' = [astray EXCEPT ![f] = @ /\ (toServer[f] # <<>> \/ AnswerIn(packets))]

readServerPacket(f) ==
  /\ toClient[f] # <<>>
  /\ toClient' = [toClient EXCEPT ![f] = Tail(@)]
  /\ ServerIdle
  /\ UNCHANGED <<toServer, timeouts>>

\* handleAsyncEventPacket, in a handler's wait or in handleEvent.
readEvent(f) ==
  /\ readServerPacket(f)
  /\ IsEvent(Head(toClient[f]))
  /\ UNCHANGED <<client, astray>>

\* handleEvent ignores what handleAsyncEventPacket did not know.
\* Slip: it stops at such a packet and leaves it where it is.
leaveReply(f) == FALSE
dropReply(f) ==
  /\ readServerPacket(f)
  /\ ~IsEvent(Head(toClient[f]))
  /\ ~Waiting(f)
  /\ settles(f, Tail(toClient[f]))
  /\ UNCHANGED client

readServerReply(f) ==
  LET c == client[f]
      code == Head(toClient[f]).code
  IN
  /\ readServerPacket(f)
  /\ ~IsEvent(Head(toClient[f]))
  /\ Waiting(f)
  /\ \/ /\ moreFollows(c, code)
        /\ client' = [client EXCEPT ![f].expected = code]
        /\ UNCHANGED astray
     \/ /\ ~moreFollows(c, code)
        /\ client' = [client EXCEPT ![f] = idle(afterReply(c, code))]
        /\ settles(f, Tail(toClient[f]))

Receive(f) == readEvent(f) \/ dropReply(f) \/ readServerReply(f)

\* readExact throws; the command has failed and the client goes on.
giveUp(f) ==
  /\ Waiting(f)
  /\ timeouts[f] < MaxTimeouts
  /\ client' = [client EXCEPT ![f] = idle(@)]
  /\ timeouts' = [timeouts EXCEPT ![f] = @ + 1]
  /\ astray' = [astray EXCEPT ![f] = TRUE]
  /\ ServerIdle
  /\ UNCHANGED <<toServer, toClient>>

-----------------------------------------------------------------------------
(* Connecting and disconnecting *)

Forget(gone) ==
  /\ client' = [f \in Fds |-> IF f \in gone THEN NewClient ELSE client[f]]
  /\ toServer' = [f \in Fds |-> IF f \in gone THEN <<>> ELSE toServer[f]]
  /\ timeouts' = [f \in Fds |-> IF f \in gone THEN 0 ELSE timeouts[f]]
  /\ astray' = [f \in Fds |-> IF f \in gone THEN FALSE ELSE astray[f]]

Connect(f) == Accept(f) /\ KeepWorkspace /\ UNCHANGED clientVars

Disconnect(f) ==
  /\ removeClientAt(f)
  /\ KeepWorkspace
  /\ Forget({f})
  /\ toClient' = [g \in Fds |-> IF g = f THEN <<>> ELSE toClient[g] \o queued'[g]]
  /\ \A g \in Fds : Len(toClient'[g]) <= MaxInTransit

ServerEnds == (save \/ crash) /\ Forget(Fds) /\ toClient' = Silence

ServerStarts == load /\ UNCHANGED clientVars

SystemInit ==
  /\ WorkspaceInit
  /\ client = [f \in Fds |-> NewClient]
  /\ toServer = [f \in Fds |-> <<>>]
  /\ toClient = Silence
  /\ timeouts = [f \in Fds |-> 0]
  /\ astray = [f \in Fds |-> FALSE]

SystemNext ==
  \/ ServerStarts
  \/ ServerEnds
  \/ \E f \in Fds : \/ Connect(f)
                    \/ Disconnect(f)
                    \/ Send(f)
                    \/ Serve(f)
                    \/ Receive(f)
                    \/ giveUp(f)

SystemSpec == SystemInit /\ [][SystemNext]_systemVars

\* poll() reports every readable connection in every round and the loop visits
\* each, and the client's wait for its answer reads whatever arrives.
FairSystemSpec ==
  SystemSpec /\ \A f \in Fds : /\ WF_systemVars(Serve(f))
                               /\ WF_systemVars(Receive(f))

-----------------------------------------------------------------------------
(* Properties *)

\* Client and server never lose step: unless an answer was given up that may
\* still come, an idle client has no answer on its way, and a waiting one has
\* either its command or its answer on its way, not both.  So events between
\* the packets of an answer, empty lists and errors confuse no client, and a
\* client is in step again once what it gave up has been dropped.
InStep ==
  \A f \in conns : ~astray[f] =>
    IF Waiting(f) THEN (toServer[f] = <<>>) <=> AnswerIn(toClient[f])
                  ELSE toServer[f] = <<>> /\ ~AnswerIn(toClient[f])

\* A client that never gave an answer up knows, between two commands, whether
\* and as whom it is signed in.
ClientKnowsSession ==
  \A f \in conns : timeouts[f] = 0 /\ ~Waiting(f) =>
    byFd[f] = IF client[f].connected THEN client[f].username ELSE NoUser

\* A context the client shows as selected is the one the server acts in,
\* whatever the server refused and whoever signed in or out in between.
SelectedContextIsUsed ==
  \A f \in conns :
    timeouts[f] = 0 /\ ~Waiting(f) /\ client[f].context # NoContext =>
      context[f] = client[f].context

\* Unless the client gave an answer up before, every reply that reaches a
\* handler is one that the handler has a case for: "Server returned unexpected
\* status" and "Unexpected response" are never printed.
RepliesUnderstood ==
  \A f \in conns :
    /\ timeouts[f] = 0
    /\ Waiting(f)
    /\ toClient[f] # <<>>
    /\ ~IsEvent(Head(toClient[f]))
    => Head(toClient[f]).code \in
         ListCodes(client[f].pending) \union finalCodes(client[f].pending)

\* Every command a client sends is finished, answered or given up, also behind
\* answers that came too late for the command before.
CommandsFinish == \A f \in Fds : Waiting(f) ~> ~Waiting(f)

\* After a timeout, client and server come back into step if the user lets the
\* late answer arrive before typing the next command.
ResynchronisesWhenIdle ==
  \A f \in Fds : astray[f] /\ ~Waiting(f) ~> ~astray[f] \/ Waiting(f)

-----------------------------------------------------------------------------
(* What the client and the document tell the user and do not keep *)

\* The command of f that this step finishes, and the reply that finished it.
Finishes(f, kind, code) ==
  /\ Waiting(f)
  /\ client[f].pending.kind = kind
  /\ toClient[f] # <<>>
  /\ Head(toClient[f]).code = code
  /\ toClient'[f] = Tail(toClient[f])

\* "CMD_CREATE (team): PayloadReqCreateTeam, RPL_CREATED + EVT_TEAM_CREATED":
\* what a client sends as a team, since it shows no selected context, and what
\* it then prints as a created team, is a team.
CreatedAsAsked ==
  [][\A f \in Fds :
       Finishes(f, "create", "RPL_CREATED") /\ client[f].context.team = None =>
         "team" \notin DOMAIN Head(toClient[f]).about]_systemVars

\* "You are already logged in ... Use /logout first.": when the server has
\* answered /logout, /login is no longer refused so, even after a timeout.
LogoutMakesLoginPossible ==
  [][\A f \in Fds :
       Finishes(f, "logout", "RPL_OK") \/ Finishes(f, "logout", "ERR_UNAUTHORIZED")
       => ~client'[f].connected]_systemVars
=============================================================================
