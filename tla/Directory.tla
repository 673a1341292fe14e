----------------------------- MODULE Directory -----------------------------
(***************************************************************************)
(* The commands that only read the accounts and the private messages:      *)
(* CMD_USERS, CMD_USER_INFO and CMD_MESSAGES.  They show what the handlers *)
(* of module Sessions keep.                                                *)
(***************************************************************************)
EXTENDS Sessions, SequencesExt

\* A user as RPL_USERS_LIST and RPL_USER_INFO show it.
Shown(u) == [user |-> u, status |-> Online(u)]

Each(entries, packet(_)) == [i \in DOMAIN entries |-> packet(entries[i])]

\* A list: one packet for each element and RPL_OK at the end.
\* Slips: the RPL_OK is forgotten, or nothing is sent for an empty list.
queueWithoutEnd(fd, packets) ==
  [f \in Fds |-> IF f = fd THEN packets ELSE <<>>]
queueOnlyElements(fd, packets) ==
  [f \in Fds |-> IF f = fd /\ packets # <<>>
                   THEN Append(packets, Status("RPL_OK")) ELSE <<>>]
queuePayloadArray(fd, packets) ==
  [f \in Fds |-> IF f = fd THEN Append(packets, Status("RPL_OK")) ELSE <<>>]

\* What a vector has of a set, in the vector's order.
Among(entries, S) ==
  LET kept[n \in 0 .. Len(entries)] ==
        IF n = 0 THEN <<>>
        ELSE IF entries[n] \in S THEN Append(kept[n - 1], entries[n])
        ELSE kept[n - 1]
  IN kept[Len(entries)]

Read(packets) == Queue(packets) /\ UNCHANGED sessionVars

-----------------------------------------------------------------------------

usersStatus(fd, payload) ==
  IF payload # Nothing THEN "ERR_BAD_REQUEST"
  ELSE IF byFd[fd] = NoUser THEN "ERR_UNAUTHORIZED"
  ELSE "RPL_OK"

\* The order of _users is not kept: the accounts come in some fixed order.
handleUsersCommand(fd, payload) ==
  LET status == usersStatus(fd, payload) IN
  /\ fd \in conns
  /\ \/ status # "RPL_OK" /\ Answer(fd, status)
     \/ /\ status = "RPL_OK"
        /\ Read(queuePayloadArray(fd,
             Each(SetToSeq(known), LAMBDA u : Event("RPL_USERS_LIST", Shown(u)))))

\* The uuid's form is not checked here, so a malformed one is just unknown.
handleUserCommand(fd, target) ==
  /\ fd \in conns
  /\ \/ /\ target = BadSize
        /\ Answer(fd, "ERR_BAD_REQUEST")
     \/ /\ target # BadSize /\ byFd[fd] = NoUser
        /\ Answer(fd, "ERR_UNAUTHORIZED")
     \/ /\ target = BadText /\ byFd[fd] # NoUser
        /\ Answer(fd, "ERR_BAD_REQUEST")
     \/ /\ target \in Users \ known /\ byFd[fd] # NoUser
        /\ Read(To({fd}, Event("ERR_NOT_FOUND", target)))
     \/ /\ target \in known /\ byFd[fd] # NoUser
        /\ Read(To({fd}, Event("RPL_USER_INFO", Shown(target))))

\* The messages of a conversation in the order they were sent.
\* Slip: the target's messages to anyone are taken.
sentByTarget(u, v) ==
  Among(messages, {m \in Message : \/ m.author = v
                                   \/ m.author = u /\ m.receiver = v})
conversation(u, v) ==
  Among(messages, {m \in Message : \/ m.author = v /\ m.receiver = u
                                   \/ m.author = u /\ m.receiver = v})

\* std::sort by createdAt leaves messages of the same second in any order.
\* Slip: the sort is left out.
unsorted(entries) == {entries}
sorted(entries) ==
  {[i \in DOMAIN entries |-> entries[p[i]]] :
     p \in {p \in [DOMAIN entries -> DOMAIN entries] :
             /\ IsInjective(p)
             /\ \A i, j \in DOMAIN entries :
                  i < j => entries[p[i]].createdAt <= entries[p[j]].createdAt}}

messagesStatus(fd, target) ==
  IF target = BadSize THEN "ERR_BAD_REQUEST"
  ELSE IF byFd[fd] = NoUser THEN "ERR_UNAUTHORIZED"
  ELSE IF target = BadText THEN "ERR_BAD_REQUEST"
  ELSE IF target \notin known THEN "ERR_NOT_FOUND"
  ELSE "RPL_OK"

handleMessagesCommand(fd, target) ==
  LET status == messagesStatus(fd, target) IN
  /\ fd \in conns
  /\ \/ status # "RPL_OK" /\ Answer(fd, status)
     \/ /\ status = "RPL_OK"
        /\ \E shown \in sorted(conversation(byFd[fd], target)) :
             Read(queuePayloadArray(fd,
               Each(shown, LAMBDA m : Event("RPL_MESSAGES_LIST", m))))

-----------------------------------------------------------------------------
(* Specification: the steps of Sessions and the commands above. *)

DirectoryCommand(fd) ==
  \/ \E payload \in {Nothing, BadSize} : handleUsersCommand(fd, payload)
  \/ \E target \in Users \union {BadSize, BadText} :
       handleUserCommand(fd, target) \/ handleMessagesCommand(fd, target)

DirectoryNext == Next \/ \E fd \in Fds : DirectoryCommand(fd)

DirectorySpec == Init /\ [][DirectoryNext]_vars

-----------------------------------------------------------------------------
(* Properties *)

\* The status a user is listed or looked up with says whether some connection
\* is signed in as that user at that moment, after any logins, logouts and
\* lost connections of any of the user's sessions.
StatusShownIsTrue ==
  \A f \in Fds : \A i \in DOMAIN queued[f] :
    queued[f][i].code \in {"RPL_USERS_LIST", "RPL_USER_INFO"} =>
      LET shown == queued[f][i].about
      IN shown.status <=> SessionsOf(shown.user) # {}

\* The packets show all the messages between u and some user v, each as often
\* as it was sent, none of a third user's, and never a later one before an
\* earlier one.
WholeConversation(packets, u, sent) ==
  LET shown == {i \in DOMAIN packets : packets[i].code = "RPL_MESSAGES_LIST"}
      message(i) == packets[i].about
  IN shown # {} =>
       /\ \E v \in Users : \A m \in ToSet(sent) \union {message(i) : i \in shown} :
            Cardinality({i \in shown : message(i) = m}) =
              IF {m.author, m.receiver} = {u, v}
                THEN Cardinality({i \in DOMAIN sent : sent[i] = m}) ELSE 0
       /\ \A i, j \in shown : i < j => message(i).createdAt <= message(j).createdAt

\* What CMD_MESSAGES shows is one whole conversation of the user who asks.
ConversationShown == \A f \in Fds : WholeConversation(queued[f], byFd[f], messages)
=============================================================================
