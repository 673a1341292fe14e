----------------------------- MODULE Workspace -----------------------------
(***************************************************************************)
(* Teams, their channels, threads and replies, who is subscribed to a      *)
(* team, and the commands that read and write them.  The commands act on   *)
(* what the sessions of module Sessions provide: who a descriptor speaks   *)
(* for and the context its client selected.  A step is a step of Sessions, *)
(* with what it does to the workspace, one of the commands below, or a     *)
(* save, which writes the files one by one, each of which may fail.        *)
(*                                                                         *)
(* An entry is its uuid and its name (a thread's name is its title);       *)
(* descriptions, bodies and times are left out.  Each vector of the code   *)
(* is a sequence, kept at the uuid of the entry that owns it.              *)
(***************************************************************************)
EXTENDS Directory

CONSTANTS
  Teams, Channels, Threads,   (* The uuids generateUuid may draw.          *)
  Names,                      (* Team and channel names, thread titles.    *)
  None,                       (* An empty uuid in a context.               *)
  MaxReplies,                 (* Bound on the replies of a thread.         *)
  FailingFiles                (* Bound: the files whose write may fail.    *)

\* isContextCombinationValid
ASSUME ContextsCombine ==
  /\ Contexts = {c \in [team : Teams \union {None},
                        channel : Channels \union {None},
                        thread : Threads \union {None}] :
                   /\ c.channel # None => c.team # None
                   /\ c.thread # None => c.channel # None}
  /\ NoContext = [team |-> None, channel |-> None, thread |-> None]
  /\ None \notin Teams \union Channels \union Threads
  /\ BadText \notin Names

VARIABLES
  teams,        (* _teams                                                  *)
  subscribers,  (* Team::subscribed_user_uuids_ of each team               *)
  channels,     (* Team::channels_ of each team                            *)
  threads,      (* Channel::threads_ of each channel                       *)
  replies,      (* Thread::replies_ of each thread: their authors          *)
  saved,        (* What teams.txt ... messages.txt hold                    *)
  accountsLost  (* History: users.txt was once not written whole.          *)

workspace == [teams |-> teams, subscribers |-> subscribers,
              channels |-> channels, threads |-> threads, replies |-> replies]
workspaceVars == <<teams, subscribers, channels, threads, replies>>
fileVars == <<saved, accountsLost>>
allVars == <<vars, workspaceVars, fileVars>>

Empty(owners) == [o \in owners |-> <<>>]
NoWorkspace == [teams |-> <<>>, subscribers |-> Empty(Teams),
                channels |-> Empty(Teams), threads |-> Empty(Channels),
                replies |-> Empty(Threads)]

Entry(id, name) == [id |-> id, name |-> name]
ThreadEntry(id, name, u) == [id |-> id, name |-> name, author |-> u]

\* find...ByUuid and the loops over names.
Has(entries, id) == \E i \in DOMAIN entries : entries[i].id = id
Named(entries, name) == \E i \in DOMAIN entries : entries[i].name = name
Find(entries, id) == SelectSeq(entries, LAMBDA e : e.id = id)[1]
IdsOf(entries) == {entries[i].id : i \in DOMAIN entries}

-----------------------------------------------------------------------------
(* Packets *)

Content(code, t, item) ==
  [code |-> code, about |-> [team |-> t, item |-> item]]

queuePacketToLogedUser(packet) == To(Authenticated, packet)

isUserSubscribed(t, u) == \E i \in DOMAIN subscribers[t] : subscribers[t][i] = u

\* Slip: an event of a team goes to everyone who is logged in.
queuePacketToEveryone(t, packet) == queuePacketToLogedUser(packet)
queuePacketToTeamSubscribers(t, packet) ==
  To({f \in Authenticated : isUserSubscribed(t, byFd[f])}, packet)

\* A handler that answers and changes nothing.
Reply(packets) == Queue(packets) /\ UNCHANGED <<sessionVars, workspaceVars, fileVars>>
Refuse(fd, code) == Reply(To({fd}, Status(code)))

-----------------------------------------------------------------------------
(* What a context leads to, in the order create, list and info look it up.   *)

\* Slip: the subscription is not looked at.
resolveAnyTeam(u, t) == IF Has(teams, t) THEN "RPL_OK" ELSE "ERR_NOT_FOUND"
resolveTeam(u, t) ==
  IF ~Has(teams, t) THEN "ERR_NOT_FOUND"
  ELSE IF ~isUserSubscribed(t, u) THEN "ERR_UNAUTHORIZED"
  ELSE "RPL_OK"

resolveContextTeamChannel(u, t, ch) ==
  IF resolveTeam(u, t) # "RPL_OK" THEN resolveTeam(u, t)
  ELSE IF Has(channels[t], ch) THEN "RPL_OK"
  ELSE "ERR_NOT_FOUND"

resolveThread(u, t, ch, th) ==
  IF resolveContextTeamChannel(u, t, ch) # "RPL_OK"
    THEN resolveContextTeamChannel(u, t, ch)
  ELSE IF Has(threads[ch], th) THEN "RPL_OK"
  ELSE "ERR_NOT_FOUND"

resolveContext(u, c) ==
  CASE c.team = None -> "RPL_OK"
    [] c.team # None /\ c.channel = None -> resolveTeam(u, c.team)
    [] c.channel # None /\ c.thread = None ->
         resolveContextTeamChannel(u, c.team, c.channel)
    [] c.thread # None -> resolveThread(u, c.team, c.channel, c.thread)

-----------------------------------------------------------------------------
(* CMD_SUBSCRIBE, CMD_UNSUBSCRIBE, CMD_SUBSCRIBED_LIST *)

parseTeamUuidFromPayload(target) == target \in Teams

subscriptionStatus(fd, target) ==
  IF byFd[fd] \notin known THEN "ERR_UNAUTHORIZED"
  ELSE IF ~parseTeamUuidFromPayload(target) THEN "ERR_BAD_REQUEST"
  ELSE IF ~Has(teams, target) THEN "ERR_NOT_FOUND"
  ELSE "RPL_OK"

addSubscribedUser(t, u) == [subscribers EXCEPT ![t] = Append(@, u)]
removeSubscribedUser(t, u) ==
  [subscribers EXCEPT ![t] = Among(@, Users \ {u})]

\* The membership changes and the user is told with RPL_USERS_LIST.
changeSubscribers(fd, after) ==
  /\ subscribers' = after
  /\ Queue(To({fd}, Event("RPL_USERS_LIST", Shown(byFd[fd]))))
  /\ UNCHANGED <<sessionVars, teams, channels, threads, replies, fileVars>>

\* Slip: who is subscribed already is added again.
neverSubscribed(t, u) == FALSE
alreadySubscribed(t, u) == isUserSubscribed(t, u)

handleSubscribeCommand(fd, target) ==
  LET u == byFd[fd]
      status == subscriptionStatus(fd, target)
  IN
  /\ fd \in conns
  /\ \/ status # "RPL_OK" /\ Refuse(fd, status)
     \/ /\ status = "RPL_OK"
        /\ alreadySubscribed(target, u)
        /\ Reply(To({fd}, Status("RPL_OK")))
     \/ /\ status = "RPL_OK"
        /\ ~alreadySubscribed(target, u)
        /\ changeSubscribers(fd, addSubscribedUser(target, u))

handleUnsubscribeCommand(fd, target) ==
  LET u == byFd[fd]
      status == subscriptionStatus(fd, target)
  IN
  /\ fd \in conns
  /\ \/ status # "RPL_OK" /\ Refuse(fd, status)
     \/ /\ status = "RPL_OK"
        /\ ~isUserSubscribed(target, u)
        /\ Reply(To({fd}, Status("RPL_OK")))
     \/ /\ status = "RPL_OK"
        /\ isUserSubscribed(target, u)
        /\ changeSubscribers(fd, removeSubscribedUser(target, u))

\* Any user may list the subscribers of any team.
handleSubscribedListCommand(fd, target) ==
  LET status == IF target = Nothing /\ byFd[fd] \in known
                  THEN "RPL_OK" ELSE subscriptionStatus(fd, target)
      own == Among(teams, {t \in ToSet(teams) : isUserSubscribed(t.id, byFd[fd])})
      found == Among(subscribers[target], known)
  IN
  /\ fd \in conns
  /\ \/ status # "RPL_OK" /\ Refuse(fd, status)
     \/ /\ status = "RPL_OK" /\ target = Nothing
        /\ Reply(queuePayloadArray(fd,
             Each(own, LAMBDA t : Event("RPL_SUBSCRIBED_LIST", t))))
     \/ /\ status = "RPL_OK" /\ target # Nothing
        /\ Reply(queuePayloadArray(fd,
             Each(found, LAMBDA u : Event("RPL_USERS_LIST", Shown(u)))))

-----------------------------------------------------------------------------
(* CMD_CREATE.  What is created follows from the context: a team without one, *)
(* then a channel of its team, a thread of its channel, a reply to its        *)
(* thread.  The sizes of the payloads of a team and of a channel are equal,   *)
(* those of a thread and of a reply are their own.                            *)

Shape(c) == CASE c.channel = None -> "named"
              [] c.channel # None /\ c.thread = None -> "thread"
              [] c.thread # None -> "reply"
CreatePayload == [shape : {"named", "thread", "reply"}, text : Names \union {BadText}]

Siblings(c) == IF c.team = None THEN teams
               ELSE IF c.channel = None THEN channels[c.team]
               ELSE threads[c.channel]

\* Slip: a name may be taken twice.
createStatusNamesake(fd, p) ==
  IF byFd[fd] \notin known THEN "ERR_UNAUTHORIZED"
  ELSE IF p.shape # Shape(context[fd]) \/ p.text = BadText THEN "ERR_BAD_REQUEST"
  ELSE resolveContext(byFd[fd], context[fd])
createStatus(fd, p) ==
  LET c == context[fd]
      resolved == resolveContext(byFd[fd], c)
  IN
  IF byFd[fd] \notin known THEN "ERR_UNAUTHORIZED"
  ELSE IF p.shape # Shape(c) \/ p.text = BadText THEN "ERR_BAD_REQUEST"
  ELSE IF resolved # "RPL_OK" THEN resolved
  ELSE IF p.shape # "reply" /\ Named(Siblings(c), p.text) THEN "ERR_ALREADY_EXIST"
  ELSE "RPL_OK"

\* generateUnique...Uuid: drawn again until no entry anywhere has it.
generateUniqueTeamUuid == {t \in Teams : ~Has(teams, t)}
isChannelUuidUsed(id) == \E t \in Teams : Has(channels[t], id)
isThreadUuidUsed(id) == \E ch \in Channels : Has(threads[ch], id)

handleCreateTeam(fd, name) ==
  \E id \in generateUniqueTeamUuid :
    /\ teams' = Append(teams, Entry(id, name))
    /\ subscribers' = addSubscribedUser(id, byFd[fd])
    /\ Queue(Then(To({fd}, Event("RPL_CREATED", Entry(id, name))),
                  queuePacketToLogedUser(
                    Event("EVT_TEAM_CREATED", Entry(id, name)))))
    /\ UNCHANGED <<sessionVars, channels, threads, replies, fileVars>>

\* The creator of an item of team t is told, then every subscriber.
announceCreation(fd, t, event, item) ==
  Queue(Then(To({fd}, Content("RPL_CREATED", t, item)),
             queuePacketToTeamSubscribers(t, Content(event, t, item))))

handleCreateChannel(fd, name) ==
  LET c == context[fd] IN
  \E id \in Channels :
    /\ ~isChannelUuidUsed(id)
    /\ channels' = [channels EXCEPT ![c.team] = Append(@, Entry(id, name))]
    /\ announceCreation(fd, c.team, "EVT_CHANNEL_CREATED", Entry(id, name))
    /\ UNCHANGED <<sessionVars, teams, subscribers, threads, replies, fileVars>>

handleCreateThread(fd, title) ==
  LET c == context[fd] IN
  \E id \in Threads :
    LET thread == ThreadEntry(id, title, byFd[fd]) IN
    /\ ~isThreadUuidUsed(id)
    /\ threads' = [threads EXCEPT ![c.channel] = Append(@, thread)]
    /\ announceCreation(fd, c.team, "EVT_THREAD_CREATED", thread)
    /\ UNCHANGED <<sessionVars, teams, subscribers, channels, replies, fileVars>>

\* Bodies are not kept, so the uuid of a reply, which nothing looks up, is not.
handleCreateReply(fd) ==
  LET c == context[fd]
      reply == ThreadEntry(c.thread, None, byFd[fd])
  IN
  /\ Len(replies[c.thread]) < MaxReplies
  /\ replies' = [replies EXCEPT ![c.thread] = Append(@, byFd[fd])]
  /\ announceCreation(fd, c.team, "EVT_REPLY_CREATED", reply)
  /\ UNCHANGED <<sessionVars, teams, subscribers, channels, threads, fileVars>>

handleCreateCommand(fd, p) ==
  LET c == context[fd]
      status == createStatus(fd, p)
  IN
  /\ fd \in conns
  /\ \/ status # "RPL_OK" /\ Refuse(fd, status)
     \/ /\ status = "RPL_OK"
        /\ \/ c.team = None /\ handleCreateTeam(fd, p.text)
           \/ c.team # None /\ c.channel = None /\ handleCreateChannel(fd, p.text)
           \/ c.channel # None /\ c.thread = None /\ handleCreateThread(fd, p.text)
           \/ c.thread # None /\ handleCreateReply(fd)

-----------------------------------------------------------------------------
(* CMD_LIST and CMD_INFO *)

contextStatus(fd, payload) ==
  IF payload # Nothing THEN "ERR_BAD_REQUEST"
  ELSE IF byFd[fd] \notin known THEN "ERR_UNAUTHORIZED"
  ELSE resolveContext(byFd[fd], context[fd])

listEntries(c) ==
  CASE c.team = None -> Each(teams, LAMBDA t : Event("RPL_TEAMS_LIST", t))
    [] c.team # None /\ c.channel = None ->
         Each(channels[c.team],
              LAMBDA ch : Content("RPL_CHANNELS_LIST", c.team, ch))
    [] c.channel # None /\ c.thread = None ->
         Each(threads[c.channel],
              LAMBDA th : Content("RPL_THREADS_LIST", c.team, th))
    [] c.thread # None ->
         Each(replies[c.thread],
              LAMBDA u : Content("RPL_REPLIES_LIST", c.team,
                                 ThreadEntry(c.thread, None, u)))

handleListCommand(fd, payload) ==
  LET status == contextStatus(fd, payload) IN
  /\ fd \in conns
  /\ \/ status # "RPL_OK" /\ Refuse(fd, status)
     \/ /\ status = "RPL_OK"
        /\ Reply(queuePayloadArray(fd, listEntries(context[fd])))

infoPacket(u, c) ==
  CASE c.team = None -> Event("RPL_USER_INFO", Shown(u))
    [] c.team # None /\ c.channel = None ->
         Event("RPL_TEAMS_LIST", Find(teams, c.team))
    [] c.channel # None /\ c.thread = None ->
         Content("RPL_CHANNELS_LIST", c.team, Find(channels[c.team], c.channel))
    [] c.thread # None ->
         Content("RPL_THREADS_LIST", c.team, Find(threads[c.channel], c.thread))

handleInfoCommand(fd, payload) ==
  LET status == contextStatus(fd, payload) IN
  /\ fd \in conns
  /\ \/ status # "RPL_OK" /\ Refuse(fd, status)
     \/ status = "RPL_OK" /\ Reply(To({fd}, infoPacket(byFd[fd], context[fd])))

-----------------------------------------------------------------------------
(* The files.  An account is written to users.txt, what it does to the others. *)
(* Of a file that is cut short whole entries are left: the last row, if it     *)
(* still parses, is an entry with a shorter description or body, which is left *)
(* out, or a subscription or private message whose last uuid is cut, which is  *)
(* nobody's and left out (module Persistence has them).                        *)

\* The files in the order of save().  Slip: the accounts at the end.
accountsLast == <<"teams", "team_subscriptions", "channels", "threads",
                  "messages", "privateMessages", "users">>
outputFiles == <<"users", "teams", "team_subscriptions", "channels", "threads",
                 "messages", "privateMessages">>

ASSUME FailingFilesKnown ==
  FailingFiles \subseteq {outputFiles[i] : i \in DOMAIN outputFiles}

\* How far a save gets: to the end, past the files it cannot open, or up to a
\* file in which, or before which, the process dies (before the first one, also
\* where the directory cannot be made).
Reached == {Len(outputFiles)} \union
           UNION {{i - 1, i} : i \in {j \in DOMAIN outputFiles :
                                        outputFiles[j] \in FailingFiles}}

\* The beginnings of the rows of some vectors, one owner's after the other's.
cutAt(vectors, whole, last, rows) ==
  [o \in DOMAIN vectors |->
     IF o \in whole THEN vectors[o] ELSE IF o = last THEN rows ELSE <<>>]
Beginnings(vectors) ==
  UNION {{cutAt(vectors, whole, last, rows) : rows \in Prefixes(vectors[last])} :
         whole \in SUBSET DOMAIN vectors, last \in DOMAIN vectors}

\* The vectors of the owners there are: what has no owner is skipped.
ofKnown(vectors, owners) ==
  [o \in DOMAIN vectors |-> IF o \in owners THEN vectors[o] ELSE <<>>]
loaded(w) ==
  LET ids(vectors) == UNION {IdsOf(vectors[o]) : o \in DOMAIN vectors}
      chs == ofKnown(w.channels, IdsOf(w.teams))
      ths == ofKnown(w.threads, ids(chs))
  IN  [teams |-> w.teams, subscribers |-> ofKnown(w.subscribers, IdsOf(w.teams)),
       channels |-> chs, threads |-> ths, replies |-> ofKnown(w.replies, ids(ths))]

-----------------------------------------------------------------------------
(* The process: the workspace is loaded with the accounts, written with them  *)
(* by a shutdown and lost in a crash.  save and load keep the order of every  *)
(* vector.                                                                    *)

becomes(w) ==
  /\ teams' = w.teams
  /\ subscribers' = w.subscribers
  /\ channels' = w.channels
  /\ threads' = w.threads
  /\ replies' = w.replies

load == Start /\ becomes(loaded(saved)) /\ UNCHANGED fileVars

\* Every file that is reached is replaced, or fails: then it is as it was, if it
\* did not open, or has the beginning of what was to be written (any of the
\* accounts, whose order the model does not keep).
save ==
  /\ Exit
  /\ becomes(NoWorkspace)
  /\ \E n \in Reached :
       LET reached == {outputFiles[i] : i \in 1 .. n} IN
       \E failed \in SUBSET (FailingFiles \intersect reached) :
         LET left(file, old, new, parts) ==
               IF file \in failed THEN {old} \union parts
               ELSE IF file \in reached THEN {new} ELSE {old}
             flags(users) == [users |-> users, online |-> {u \in users : Online(u)}]
         IN
         /\ \E accounts \in left("users",
                              [users |-> disk.users, online |-> disk.online],
                              flags(known), {flags(users) : users \in SUBSET known}),
               private \in left("privateMessages", disk.messages, messages,
                                Prefixes(messages)) :
              disk' = [users |-> accounts.users, online |-> accounts.online,
                       messages |-> private]
         /\ saved' \in
              [teams : left("teams", saved.teams, teams, Prefixes(teams)),
               subscribers : left("team_subscriptions", saved.subscribers,
                                  subscribers, Beginnings(subscribers)),
               channels : left("channels", saved.channels, channels,
                               Beginnings(channels)),
               threads : left("threads", saved.threads, threads,
                              Beginnings(threads)),
               replies : left("messages", saved.replies, replies,
                              Beginnings(replies))]
         /\ accountsLost' = (accountsLost \/ "users" \in failed)

\* A crash outside the save leaves the files as they are.
crash == Crash /\ becomes(NoWorkspace) /\ UNCHANGED fileVars

\* Who is named by an entry, a subscription or a message.
UsersNamed(w) ==
  UNION {ToSet(w.subscribers[t]) : t \in Teams}
  \union UNION {{w.threads[ch][i].author : i \in DOMAIN w.threads[ch]} : ch \in Channels}
  \union UNION {ToSet(w.replies[th]) : th \in Threads}
Correspondents ==
  UNION {{messages[i].author, messages[i].receiver} : i \in DOMAIN messages}

\* A step of the sessions.  The uuid of a new account is nobody's before it: an
\* account that was lost with users.txt does not come back.
KeepWorkspace ==
  /\ UNCHANGED <<workspaceVars, fileVars>>
  /\ (known' \ known) \intersect
       (UsersNamed(workspace) \union UsersNamed(saved) \union Correspondents) = {}

WorkspaceInit ==
  /\ Init
  /\ teams = NoWorkspace.teams
  /\ subscribers = NoWorkspace.subscribers
  /\ channels = NoWorkspace.channels
  /\ threads = NoWorkspace.threads
  /\ replies = NoWorkspace.replies
  /\ saved = NoWorkspace
  /\ accountsLost = FALSE

SessionStep(fd) ==
  /\ Accept(fd) \/ removeClientAt(fd) \/ Command(fd)
  /\ KeepWorkspace

WorkspaceCommand(fd) ==
  \/ \E t \in Teams \union {BadText} :
       handleSubscribeCommand(fd, t) \/ handleUnsubscribeCommand(fd, t)
  \/ \E t \in Teams \union {BadText, Nothing} :
       handleSubscribedListCommand(fd, t)
  \/ \E p \in CreatePayload : handleCreateCommand(fd, p)
  \/ \E payload \in {Nothing, BadSize} :
       handleListCommand(fd, payload) \/ handleInfoCommand(fd, payload)

WorkspaceNext ==
  \/ load
  \/ save
  \/ crash
  \/ \E fd \in Fds : SessionStep(fd) \/ WorkspaceCommand(fd)

WorkspaceSpec == WorkspaceInit /\ [][WorkspaceNext]_allVars

-----------------------------------------------------------------------------
(* Properties *)

ContentEvents == {"EVT_CHANNEL_CREATED", "EVT_THREAD_CREATED",
                  "EVT_REPLY_CREATED"}
ContentLists == {"RPL_CHANNELS_LIST", "RPL_THREADS_LIST", "RPL_REPLIES_LIST"}

Distinct(entries) ==
  \A i, j \in DOMAIN entries :
    i # j => entries[i].id # entries[j].id /\ entries[i].name # entries[j].name
Disjoint(vectors) ==
  \A o, p \in DOMAIN vectors : o # p =>
    \A i \in DOMAIN vectors[o] : ~Has(vectors[p], vectors[o][i].id)
DistinctIn(w) ==
  /\ Distinct(w.teams)
  /\ \A t \in Teams : Distinct(w.channels[t])
  /\ \A ch \in Channels : Distinct(w.threads[ch])
  /\ Disjoint(w.channels)
  /\ Disjoint(w.threads)

\* In memory and in the files, however each save ended, teams have different
\* names and uuids, so have the channels of a team and the threads of a channel;
\* and no uuid is used in two teams or two channels, so the context of a client
\* selects one entry.
EntriesDistinct == DistinctIn(workspace) /\ DistinctIn(saved)

\* A user is in a team's vector of subscribers at most once, however often and
\* from however many connections the user subscribes, so that one unsubscribe
\* ends the subscription and no list names a subscriber twice.
SubscribedOnce == \A t \in Teams : IsInjective(subscribers[t])

Resolves(w, accounts) ==
  /\ \A t \in Teams :
       /\ ToSet(w.subscribers[t]) \subseteq accounts
       /\ w.subscribers[t] # <<>> \/ w.channels[t] # <<>> => Has(w.teams, t)
  /\ \A ch \in Channels :
       /\ \A i \in DOMAIN w.threads[ch] : w.threads[ch][i].author \in accounts
       /\ w.threads[ch] # <<>> => \E t \in Teams : Has(w.channels[t], ch)
  /\ \A th \in Threads :
       /\ ToSet(w.replies[th]) \subseteq accounts
       /\ w.replies[th] # <<>> => \E ch \in Channels : Has(w.threads[ch], th)

\* Every uuid resolves, in memory and in what the next process will load, after
\* any series of shutdowns, of crashes between saves, and of saves that failed in
\* some files or died between two or within one: no entry is under an owner that
\* is gone, and no subscription and no author is of an unknown user unless
\* users.txt itself was once not written whole, because the accounts are written
\* before what names them.  A subscription cut within the uuid, which names
\* nobody, is not in the model.
ReferencesResolve ==
  LET orAnybody(accounts) == IF accountsLost THEN Users ELSE accounts
  IN  /\ Resolves(workspace, orAnybody(known))
      /\ Resolves(loaded(saved), orAnybody(disk.users))

\* The last step queued what is in a team to its subscribers only.
ContentKeptInTeam ==
  \A f \in Fds : \A i \in DOMAIN queued[f] :
    queued[f][i].code \in ContentEvents \union ContentLists =>
      /\ byFd[f] # NoUser
      /\ isUserSubscribed(queued[f][i].about.team, byFd[f])

\* What is in a team is shown, by an event, a list or an info reply, only to
\* connections whose user is subscribed to that team when it is queued,
\* whatever their contexts were set to while they were subscribed.
ContentStaysInTeam == [][ContentKeptInTeam']_allVars

\* All there is below a team.
TeamContent(t) ==
  LET chs == IdsOf(channels[t])
      ths == UNION {IdsOf(threads[ch]) : ch \in chs}
  IN <<channels[t], [ch \in chs |-> threads[ch]], [th \in ths |-> replies[th]]>>

\* While the server runs, the content of a team changes only by a command of a
\* connection that is in that team and whose user is subscribed to it; no other
\* team changes with it, and exactly the connections of its subscribers get the
\* event, the creator's other connections among them.
ContentWrittenAndAnnouncedInTeam ==
  [][running /\ running' =>
       \A t \in Teams : TeamContent(t)' # TeamContent(t) =>
         /\ \E fd \in conns : /\ context[fd].team = t
                              /\ byFd[fd] # NoUser
                              /\ isUserSubscribed(t, byFd[fd])
                              /\ queued'[fd][1].code = "RPL_CREATED"
         /\ \A s \in Teams \ {t} : TeamContent(s)' = TeamContent(s)
         /\ \A f \in Fds :
              (\E i \in DOMAIN queued'[f] : queued'[f][i].code \in ContentEvents)
              <=> (byFd[f] # NoUser /\ isUserSubscribed(t, byFd[f]))]_allVars

AllEventCodes == EventCodes \union ContentEvents \union {"EVT_TEAM_CREATED"}

\* The packets of an answer among those queued to a connection, by their places.
AnswerPlaces(packets) == {i \in DOMAIN packets : packets[i].code \notin AllEventCodes}
WholeAnswer(packets) ==
  LET answer == AnswerPlaces(packets)
  IN  \E last \in answer :
        /\ \A i \in answer : i <= last
        /\ answer # {last} => packets[last] = Status("RPL_OK")
        /\ \A i, j \in answer \ {last} : packets[i].code = packets[j].code

\* Every command is answered to one connection, with one packet or with
\* packets of one code and the RPL_OK that ends them, whatever the events
\* around them: a client that reads until its reply is complete stops after
\* exactly this command's packets.
AnswersComplete ==
  [][running' = running /\ conns' = conns =>
       \E fd \in conns : \A f \in Fds :
         IF f = fd THEN WholeAnswer(queued'[f])
         ELSE AnswerPlaces(queued'[f]) = {}]_allVars
=============================================================================
