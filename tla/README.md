# Models, checks and proofs of teams-mirror

A TLA+ development of the server (`src/server`) and the client (`src/client`)
of a small team chat: accounts, private messages, and teams with channels,
threads and replies, over a binary protocol described in
`src/protocol_documentation.md`. Every definition is translated from the C++
code; `PROJECT.json` names the lines of each.

## The system

The server is one thread around `poll()`. Each round it visits the readable
and writable descriptors; a client's complete packets are dispatched to
handlers, each of which runs to its end and appends its replies and events to
the outgoing buffers of clients. State is in memory; seven text files are read
at start and written by an orderly shutdown. The client is one thread as well:
it runs one command at a time, reading packets until that command's answer is
complete, and reads what has arrived between two commands.

| Component | State | Operations | Talks to | Hard about it |
|---|---|---|---|---|
| Sessions (`login`, `logout`, disconnection, `User`) | `authenticatedUsersByFd`, `authenticatedUsersByUUID`, `User::is_logged_in_` | log in, log out, lose a connection | poll loop, private messages, every handler that asks who is there | two maps and a counter kept in step by hand; several sessions of one user; reused descriptors |
| Context (`use`, `ClientManager`) | three uuids per connection | `/use` | workspace commands | nothing is looked up; outlives logout and unsubscription |
| Private messages (`send`, `messages`) | `_messages` | send, list | sessions (routes) | routes that are lost or stale; sort by seconds |
| User directory (`users`, `user`) | reads `_users` | list, look up | sessions (counter) | status comes from the counter |
| Workspace (`create`, `list`, `info`, models) | teams > channels > threads > replies | create, list, show | contexts, subscriptions, sessions | uniqueness by search, events to subscribers only |
| Subscriptions | one vector of users per team | subscribe, unsubscribe, list | workspace | a user with several connections |
| Dispatch and packets | incoming and outgoing bytes | cut, dispatch, queue | poll loop, handlers | answers and events share a stream |
| Poll loop, network layer | sockets, `pollFds`, `_isRunning` | accept, read, write, drop, stop | all | stale readiness, blocking writes, signals, exceptions that leave the loop, descriptors |
| Persistence | seven files | load, save | poll loop | only at shutdown, file by file; escaped fields |
| Client | session, context, pending command | 13 commands, events, timeout | server | its own copy of session and context; late answers |

What makes each correct is stated with the properties below; every hazard with
its line is in `PROJECT.json`.

## Modules

```
Presence                     what the server promises about presence
   ^ implemented by
Sessions  <-- Directory  <-- Workspace  <-- ClientServer
   ^              ^               ^               ^
SessionsProofs <- DirectoryProofs <- WorkspaceProofs <- ClientServerProofs
                  (each EXTENDS what its arrows point at)

PacketStream                 what one direction of a connection promises
   ^ implemented by
Framing  <-- FramingProofs   bytes, buffers and packets of one connection

PollLoop  <-- PollLoopProofs the server's thread, its peers and a signal
ClientLoop                   the client's thread, standard input, its socket
Persistence  <-- PersistenceProofs   the seven files

Recursion                    induction over numbers and functions defined by
                             recursion, for the proofs

MCSessions MCDirectory MCWorkspace MCClientServer MCFraming MCPollLoop
MCClientLoop MCPersistence   instances for TLC
```

The first group models what commands mean, on whole packets; the other
modules model what carries it. They meet at narrow places: Framing shows that
`processClientIncomingPackets` hands whole commands to the handlers, in order
and each once, which Sessions, Workspace and ClientServer assume; PollLoop shows
when a client is visited, dropped and when the process ends, which is `Accept`,
`removeClientAt`, `Stop` and `Crash` there; Persistence shows what `Start` finds
after a `Stop`, a `Crash` or a save that fails, row by row and character by
character; ClientLoop shows when a client types (`Send`) and
when an idle one reads (`Receive`).

A handler is one action, because nothing runs beside it. Where the server is
concerned, `queued` holds the packets the last step appended to each outgoing
buffer: properties about events and answers are about `queued'`. Packets are
records of a code and what they tell about.

**Sessions** has one action for each of `handleLoginCommand`,
`handleLogoutCommand`, `handleUseCommand`, `handleSendCommand`,
`removeClientAt` (with `handleClientDisconnection`) and `Accept`, and for the
process `Start` (load and reset the counters), `Stop` (leave the loop and
save) and `Crash`. A handler's `...Status` operator is the list of its early
returns in the code's order. Inputs are well-formed values, `BadSize` (a
payload whose size the handler refuses) and `BadText` (one that does not
decode). An account stands for its name and its uuid, which is drawn once.
`routes[u][f]` counts how often `f` stands in the user's vector, so a doubled
entry would show. An absent vector and an empty one are the same to every
handler, since all of them use `operator[]`.

**Directory** has `/users`, `/user` and `/messages`. The sort by seconds is a
choice among all permutations that order the seconds: `std::sort` is not
stable. The clock may take any value at any time.

**Workspace** adds the vectors of `Team`, `Channel` and `Thread` as functions
from the owner's uuid to the sequence of entries, and one action for each
command on them. `createStatus` and `resolveContext` give the early returns in
order: form of the payload, team, subscription, channel, thread, name. `load`
and `crash` extend `Start` and `Crash` of Sessions. `save` writes file after file
in the order of `outputFiles`: each one it reaches is replaced, or stays as it was
if it does not open, or holds a beginning of what was to be written; the process
may die before or in any file; where nothing fails it is `Stop`. `saved` is
therefore a mixture of what several saves wrote, and `load` keeps what has an
owner in it (`loaded`). Every vector keeps its order. `accountsLost` is history:
`users.txt` was once not written whole. An account lost that way does not come
back, because whoever takes the name again gets a new uuid (`KeepWorkspace`).

**ClientServer** puts a client behind every descriptor: whole packets travel in
order in both directions, the server takes one command at a time (`Serve`), and
the client reads one packet at a time, as an event, as a reply of its command or
as one that `handleEvent` drops. `giveUp` is the exception of `readExact`.
`timeouts` and `astray` are history variables.

**PollLoop** follows `runPollLoop` step by step, because readiness is old when
it is used: `phase` says where the thread stands, `index` is the loop's own.
`Wake` copies what `poll()` reports into `revents`; each visit is one action
(`Accept`, `DropLost`, `Read` then `Write` or `NothingToWrite`, `DropIdle`), and
the peers may connect, ask, read, close or reset between any two of them.
Requests and replies are counted only: `Read` empties what has arrived, answers
it and may queue an event for any other client. `Read` models one `read()` that
takes all there is; 4096 bytes hold the requests of the instance. The server's
sockets block, so `Write`, `WriteMore` and `WriteReturns` are one `::write`,
which ends when the buffer is through, at a reset, or at a signal. Descriptors
are numbers because `accept()` takes the lowest free one, `Socket(int)`
duplicates it, and every read and write makes a copy as well; `limit` is what
the process may hold. `SocketClosed` and `SystemException` are no
`ServerException`: `ReadFails` and `WriteFails` end the process (a write to a
connection that was reset may also raise SIGPIPE, which ends it too). A signal
before `installSignalHandler` kills; after it, `handleSignal` clears
`_isRunning` at any point. The kernel and the peers are external.

**ClientLoop** is `runLoop` of the client: `handlingInput` asks `poll()` about
descriptor 0 and then calls `std::getline`, which reads through the buffer of
stdio; `handleEvent` follows. A line is written as two halves, so that a pipe
may deliver a part of one, one, or several at once. `stream` is what the kernel
holds, cut as reads return it: a terminal gives a line at a time, a pipe and a
file all there is. `buffered` is what stdio has read ahead. A terminal's end of
file is one empty read; a pipe whose writer has left is `POLLHUP` and not
`POLLIN`, so the last piece in the buffer stays there. A command reads its
answer and shows the events in front of it; what it means is in ClientServer.

**Framing** has one connection. A byte is its packet and its place in it. The
kernel hands on pieces of any size; `ServerRead` is `readClientData` and the
whole loop of `processClientIncomingPackets`, whose cuts are the function
`Cuts`; the client's `readExact` is `MoreMissing`, `HeaderRead` and
`PayloadRead`. Bytes that are no header and are taken for one may announce any
size and any code. A timeout inside a command is caught and the client goes on
(`CommandTimesOut`); inside `handleEvent` it ends the client (`EventTimesOut`).

**Persistence** keeps the state as rows of fields, fields as sequences of
characters, and files as text. `escapeField`, `splitEscapedLine` and the two
line conversions are folds over characters. `load` filters as the loader does:
lines that do not parse, duplicate uuids, unknown owners, bad times. The save
writes file after file; a file may not open (the save goes on), be cut short
after any number of characters (the error of the last flush is noticed by
nobody), and the process may die in a file or between two. The handlers that
change what is saved are reduced to the rows they add or remove. `kept`,
`last`, `before`, `failed` and `tornNow` are history.

Operators marked *Slip* are mistakes somebody could make in that place; no
action uses them. Each is the counter-check of a property: with the slip in
place of the real definition the property is violated.

## What is checked

| Run | Instance | Shows |
|---|---|---|
| `sessions` | 3 descriptors, 2 users, 1 context besides none, 1 message | `LoginsCountSessions`, `RoutesSound`, `MessagesReachOnlyTheirReceiver`, `RouteLostOnlyByDisconnection`, `PresenceChangesAnnounced`, `OneReplyPerCommand`, and that Sessions implements `Presence` |
| `directory` | 2 descriptors, 3 users, 2 messages, 2 seconds | `StatusShownIsTrue`, `ConversationShown` |
| `workspace_shared` | 2 descriptors, 2 users, one team, channel, name and reply, two uuids for threads; `users.txt` and `threads.txt` may fail in any save, which may also end before or in them | `SubscribedOnce`, `EntriesDistinct`, `ReferencesResolve`, `ContentStaysInTeam`, `ContentWrittenAndAnnouncedInTeam`, `AnswersComplete` |
| `client_server` | 2 clients of 1 user, 12 of the 13 commands, no timeout | `ClientKnowsSession`, `SelectedContextIsUsed`, `RepliesUnderstood` |
| `client_timeout` | 1 client, 1 timeout, fairness | `InStep`, `CommandsFinish`, `ResynchronisesWhenIdle` |
| `poll_loop` | 2 clients of which one may stop reading, 3 or 4 descriptors, buffers of 1, one signal, fairness | `DescriptorsAgree`, `EveryReadyVisited`, `SpareDescriptor`, `EndingsExplained`, `OnlyDepartedDropped`, `RequestsServed`, `OutputSent`, `StopHonoured` |
| `client_loop` | 3 lines from a terminal, a pipe or a file, 2 events, fairness | `LinesRun`, `SocketNoticed` |
| `framing` | header of 2 bytes, payloads of 0 or 2, 2 commands, 1 event, 1 timeout, 2 connections, room for 3 bytes, fairness | `CommandsFramed` (implements `PacketStream`), `NothingLeftBehind`, `InStepUnlessCut`, `AnswersArrive` |
| `persistence` | one saved entry of each kind, 2 changes, 1 failed or torn file, a crash anywhere, 2 starts; lines of up to 2 fields of up to 2 of 7 characters | `SplitUndoesJoin`, `SaveLoadIdentity`, `LossOnlyBelowTear`, `UsersResolve`, `NothingInvented` |

Three descriptors give one user two sessions while a third connection watches,
and let a descriptor be reused while others stay; with two there are still two
sessions of one user, or of two users. Two users tell a right receiver from a
wrong one, and the third user of `directory` is the one whose messages must not
be shown. A second uuid for threads, with one name, is drawn only if a namesake
is accepted; a clash of uuids or of parents in a larger tree is left to the
proofs, which have any number of each. The bounds are `MaxMessages`,
`MaxReplies`, `MaxTimeouts`, `MaxInTransit` (which also stops a client from
typing, never the server from answering for good) and the constraint
`NothingSaved`, which in `directory`, `client_server` and the two violations
found with its module ends a behaviour at the first shutdown that has something
to save. In `workspace_shared` the processes that follow have one connection at a
time (`OneLater`), so that the files may be a mixture of several saves; `sessions`
goes on without end. `FailingFiles` names the files whose write may fail: none in
the runs of ClientServer; in `workspace_shared` the accounts, which others name,
and a file with both authors and an owner; `persistence` has every file, in one
save. `client_server` and `workspace_shared` compare states without `queued`,
which no step reads (what a step queues is checked of the step), the latter also
without the flags in `users.txt`, which a start resets. Symmetry is used in runs
without liveness only.

In `poll_loop` two clients suffice for a client visited before and after
another, for an entry erased in front of another, and for one that blocks the
server while the other waits; with 3 descriptors the second `accept()` fails,
with 4 a reader's copy just fits. `MaxAsked` and `MaxOutgoing` cap what the
peers ask for, never what the server does. In `framing` a piece may end before,
inside and after a header and a payload, and three bytes of room let the
server's `::write` wait in the middle of a packet. In `client_loop` three lines
let a pipe deliver one alone, one and a half, or several at once, with a line
still to come. In `persistence` every character of every file is a place to
tear; two changes let an entry name a user the same save adds; the last process
only loads. The texts hold the delimiter, the escape character and a line end.

**Fairness.** Only `client_timeout`, `poll_loop`, `framing` and `client_loop`
assume any. In `poll_loop` the server's thread runs whenever it is not blocked
in `poll()` or `::write`, a client counted among the `Readers` goes on reading,
and the kernel of a client that has left answers with a reset. `RequestsServed`,
`OutputSent` and `StopHonoured` except a server that is blocked for ever in
`::write` by a client that does not read: the code has no way out of it. In
`framing` the server reads and writes what it can (`poll()` reports it) and the
client reads what has arrived. In `client_timeout`: a command that has arrived
is served (`poll()` reports every readable descriptor and the loop visits all of
them each round), and a client reads what has arrived (a waiting handler polls
its socket every 2 ms, an idle client every 5 ms). In `client_loop` the client's
thread runs unless it is blocked in `getline`. `LinesRun` excepts a pipe that
delivers several lines at once and then nothing more, which stdio has and
`poll()` does not report; `SocketNoticed` excepts a pipe that delivers a part of
a line and then nothing more, for whose end `getline` waits. Users need not
type, clients need not time out. `/create` and `/send` are left out of that run
because a bound of the model could leave them unanswered.

## Where code and text differ

| Run | The code | The text |
|---|---|---|
| `every_session_notified` | losing one connection of a user erases the routes of all (`logout_command.cpp:83`), and the others get no more private messages | `EVT_PRIVATE_MSG_RCVD`: "A private message was received" |
| `created_as_asked` | after `/use`, `/logout`, `/login` the server still has the context that the client has cleared: a team the client asks for becomes a channel | `CMD_CREATE` (team) is answered with a created team |
| `logout_makes_login_possible` | after a late answer to `/logout`, every further one is refused and the client stays "connected" | "Use /logout first." |

Two codes differ from `protocol_documentation.md` without more than that: a
subscription is confirmed with `RPL_USERS_LIST` (line 409 has "`RPL_USER_INFO`
or `RPL_OK`"), and an authenticated user who is not subscribed to a team is
refused with `ERR_UNAUTHORIZED` (line 162: "Action requires authentication").
The models have the codes of the source.

What the properties about the loops and the bytes except is what the code does
there: a signal between `installSignalHandler` and `_isRunning.store(true)` is
lost, one between the test of `_isRunning` and `poll()` waits for the next
event; an `accept()` without two descriptors ends the process without the save,
and so does a connection that is reset between `poll()` and its read or write; a
timeout inside a packet leaves the client out of step for good; if `users.txt`
cannot be written, or only in part, the other files may name users it does not
have (`ReferencesResolve` and `UsersResolve` except that); and commands piped
into the client may wait in stdio for the next one.

`EVT_LOGGED_OUT` ("A user has disconnected") is sent for each session that ends,
also while the user stays online through another one; the models keep that and
no property forbids it.

`RouteLostOnlyByDisconnection` states what remains true beside the first of
them: nothing else takes a route away. The second is the other side of
`SelectedContextIsUsed`: a context a client *shows* is the server's, the
absence of one may not be.

## What is proved

Every safety invariant, action property and refinement that a passing run checks
is a theorem too; what is left to TLC alone is liveness. Eight modules hold
proofs: the seven below and `Recursion`. Each theorem holds for every set of
users, descriptors, uuids, names and commands, for texts and packets of any
length and for every bound, from the named assumptions of the modules only
(finitely many descriptors, constants that differ, a limit of at least two
descriptors, uuids that do not repeat, a first state on the disk that the server
could have saved).

**SessionsProofs**: `TypeCorrect`, `LoginCounterCorrect`, `RoutesCorrect`,
`MessagesPrivate`, `DescriptorsReusedClean`, `RoutesLast`, `PresenceAnnounced`,
`RepliesPaired` and `PresenceImplemented`.

The properties are not inductive by themselves. `Inv` joins to `TypeOK`,
`LoginsCountSessions` and `RoutesSound`:

- `SessionsAnchored`: whoever a descriptor speaks for is a known account and
  the descriptor is open. Without it the decrement of a disconnection, which
  the code guards with the account's presence, could be skipped, and a route
  could survive its connection.
- `ClosedForgotten`: a closed descriptor has no context and no user, which
  makes `Accept` clean.
- `DownMeansClosed`: between two processes nothing is open, so `Start` may set
  all counters to 0.

The counting step is a lemma on finite sets: when one descriptor changes its
user, the sessions of the old user lose one element and those of the new one
gain one. `MessagesPrivate` is then a step property: an event is queued along
the routes of the state before, which `RoutesSound` ties to the receiver, and
sending changes no session. `PresenceImplemented` maps each action to `SignIn`,
`SignOut`, `Reset` or a stutter; the counter reaches 0 exactly with the last
session because it is their number.

**DirectoryProofs**: `StatusAlwaysTrue` and `ConversationsWhole`. The latter
counts: `Among` keeps every entry of a set as often as the vector holds it
(`AmongCounts`, by induction over the vector), and a sort is a bijection between
the places of an entry before and after (`SortedPermutes`). The soundness of the
sessions is restated as `SessionsSound`, a state predicate every handler of the
layers above is shown to keep, so that the other modules build on it.

**WorkspaceProofs**: `TeamsPrivate`, `SubscribedOnceAlways`,
`EntriesStayDistinct`, `ReferencesAlwaysResolve`, `WritesAnnounced`,
`AnswersAlwaysComplete` and `SessionsStaySound`, with saves that fail or die in
any files. `WorkspaceInv` says `Sound` of the workspace in memory next to the
accounts in memory: the types with what `SubscribedOnce`, `EntriesDistinct` and
`ReferencesResolve` say, which are inductive only together. Of the files it says
less, `FilesSound`: each file for itself has the types, distinct entries, no uuid
under two owners, and only users of `users.txt` (anybody once that was lost), but
an owner may be in no other file. That is closed under any mixture of old, new
and cut files (`MixtureSound`), because a process keeps the accounts it loaded
(`AccountsKept`) and `users.txt` is written first (`SaveLeaves`); and what is
loaded from such files is `Sound` again, because `load` drops what has no owner
(`LoadedSound`). That the vectors of different owners share no uuid ties
a context to one team: `resolveContext` asks only whether the team has the
channel and the channel the thread, and a thread's uuid is looked up without its
team. That nothing is kept under a uuid that no entry has makes a new team start
with its creator as the only subscriber. `ContentStaysInTeam` then follows for
each step. `AnswersAlwaysComplete` looks at what each handler queues: one reply
with events around it, or the elements of one vector, which have one code, and
the `RPL_OK` behind them (`ReplyWhole`, `ArrayWhole`); for the commands of the
sessions it is `CommandsAnswerOnce`, the lemma of `RepliesPaired`.

**PollLoopProofs**: `DescriptorSpared`, `ConnectionsInStep`, `RoundComplete`,
`EveryEndingExplained` and `NoClientDroppedInError`, for any number of clients
and any limit. The invariant (`LoopInvariant`) joins to the types:

- `SpareDescriptor`: `accept()` needs two free descriptors and keeps one of them
  (`OneLeft`, a lemma on finite sets), so `recvBytes` and `sendBytes` find one
  for their copy of the socket.
- `ConnectionsKnown`: a peer has one connection, accepted or in the backlog.
  With it and `EntriesAgree` (one entry for each socket, `listenFd` among them)
  appending and erasing an entry keeps the three containers in step.
- `EntriesCleared`: an entry in front of `index` has no `revents` left. Erasing
  one moves the others and the index with it, so none is skipped and none
  visited twice.
- `ReadinessExplained`: what `poll()` reported of an entry that is still to be
  visited is true, or the peer has left since. That makes "dropped" imply
  "gone", and a `SocketClosed` in a read imply a reset in this round.
- `StopsExplained`: only a signal clears `_isRunning`.

**ClientServerProofs**: `StepKept`, `SessionKnown`, `ContextUsed` and
`EveryReplyUnderstood`, for any number of clients that send commands of all
kinds, and any number of packets on their way. `SystemInv` joins to
`WorkspaceInv` that every client that gave no answer up is in one of three
states: it waits for nothing and only events are on their way to it; its command
is still on its way, behind only events; or the answer is on its way and is an
`AnswerTo` the command. An answer is a sequence with a last reply that ends the
command: in front of it are elements of its list and events in any order (with
one code for all elements of a `/list`), behind it only events. Each handler is
shown to queue exactly that for the sender and only events for everybody else
(`Answered`), and what the last reply makes of the client's session and context
is shown to be what the handler made of the server's. Reading a packet then
shortens an answer or concludes it. `StepKept` covers clients that gave
answers up, too: of theirs it says something only once what they gave up has
been dropped.

**FramingProofs**: `FramingTypeCorrect`, `EverythingDispatched`,
`InStepWithoutCut` and `CommandsFramedAlways`, for headers, payloads, pieces and
buffers of any size. One lemma carries them: `Cuts`, the loop of
`processClientIncomingPackets`, returns the packets of a sequence that stands at
the front of a stream and leaves the rest (`CutAll`, by induction over the
steps of the loop; `StreamGrows` for streams that are joined). The two directions
have an invariant each:

- `UpInv`: what the server has read and not cut, followed by what is still under
  way, is exactly the commands not yet dispatched, and no complete packet waits
  in the incoming buffer. A read then dispatches exactly the commands it
  completed, which is a step or a stutter of `PacketStream`.
- `DownInv`: as long as nothing was cut, what the client has read of a packet,
  what the kernel holds and the outgoing buffer make up the packets queued and
  not read; `readExact` is after a header first, and then after as many bytes as
  that header announces. After a cut only the types remain: the bytes a header
  is read from may then be any.

**PersistenceProofs**: `WrittenIsReadBack`, `SavedIsLoadedAgain`,
`LossIsBelowTear`, `NamedUsersResolve` and `NothingIsInvented`, for rows, fields
and texts of any number and length, any number of changes, starts, files that do
not open, cuts and crashes.

- Characters. The conversions are folds; `Recursion` gives each as the function
  it computes one character at a time. The splitter, fed an escaped field,
  arrives at that field with nothing pending (`WrittenIsReadBack`). Fed the
  beginning of a line, it has the first fields and a beginning of the next one,
  perhaps with the escape character at its end (`CutLine`), and the line reader
  likewise with lines; so the beginning of a file is read as its first rows and
  at most one damaged row (`RecordsOfCut`).
- Tables. `load` takes sound tables to themselves without the rows whose owner is
  missing (`LoadLoads`): nothing is sorted out as a duplicate or for its time,
  because a cut never reaches the columns of the uuid and the time.
- The invariant (`Inv`). A save in progress leaves a mixture of files, so what
  is on the disk is compared with two states: `kept`, which the process
  started with, and `memory`. Each file is `Old` (the rows of `kept`, and
  perhaps others that no owner will claim), `Fresh` (what memory writes) or
  `Torn` (a beginning of that). `Kept` says that nothing but subscriptions is
  ever deleted, and every new uuid is drawn outside `Known`, the ones used so
  far: therefore a file of the old generation beside one of the new neither
  loses an owner nor gains one by accident. `users.txt` is written first, so
  unless it failed it is `Fresh`, or nothing has been written (`SaveInv`); with `NamesInv`
  that is why the users that entries name are accounts. `Start` makes the mixture
  that was loaded the next `kept`, which closes the circle.

The helpers the proofs need are recursive functions (`Among`, what a vector keeps
of a set), folds or set expressions and never recursive operators. `Recursion`
derives what takes their place in the provers: a set of numbers that has 0 and
every successor has all of them, a function given step by step exists, a fold
over a sequence is such a function, and `FlattenSeq` of a longer sequence is that
of the shorter one with the last element behind it.

**Only model-checked**: liveness, which is out of the provers' reach:
`CommandsFinish` and `ResynchronisesWhenIdle` (ClientServer), `RequestsServed`,
`OutputSent` and `StopHonoured` (PollLoop), `AnswersArrive` (Framing), and
`LinesRun` and `SocketNoticed`, all that is stated of ClientLoop.

## What is not modelled

- A file that exists and cannot be opened by the loader (it counts as empty, and
  the next save overwrites it), the very first start without files, the loss of
  power (the models know the order of writes of one process, not of the disk).
- Half-closed connections: a peer that closes stops reading as well.
- Failures before the loop (`socket`, `bind`, `listen`): nothing has happened.
- The logger throws when the library reports an error, which ends the process:
  `Crash` has the effect.
- Descriptions, bodies and times in Workspace, the printer, the parser, `/help`
  and the vendored library.

## Plan

All parts of the system that have state of their own are modelled, and what the
runs check of their safety is proved. What may be added:

1. The invariants behind the liveness properties (in ClientLoop: a line is in one
   place at a time and is run in the order it was typed), stated as properties
   of their own.
2. `save` and `load` of Workspace as abstractions of those of Persistence, whose
   rows have the same owners and uuids, shown by a refinement mapping.
3. The loader's files that exist and cannot be opened.
