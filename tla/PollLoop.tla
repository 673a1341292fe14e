------------------------------ MODULE PollLoop ------------------------------
(***************************************************************************)
(* The server's only thread around poll(): accept, read, dispatch, write,  *)
(* drop, stop and save, beside the peers that connect, ask, read, leave or *)
(* reset their connection between any two of its steps, and a signal that  *)
(* asks it to stop at any point.                                           *)
(*                                                                         *)
(* Requests, replies and events are counted, not looked at: what handlers  *)
(* do is in Workspace, where packets are cut in Framing.  The kernel's     *)
(* part (readiness, descriptors, socket buffers) is external; descriptors  *)
(* are numbers because accept() and dup() return the lowest free one.      *)
(***************************************************************************)
EXTENDS Integers, Sequences, FiniteSets, Functions, SequencesExt, FiniteSetsExt

CONSTANTS
  Peers,        (* Client processes, one connection each at a time.        *)
  Readers,      (* Those that keep reading what they are sent.             *)
  Limits,       (* How many descriptors the process may be allowed.        *)
  Room,         (* What the kernel buffers of a connection hold.           *)
  MaxAsked,     (* Bound on requests that have arrived and are not read.   *)
  MaxOutgoing   (* Bound on an outgoing buffer: the code has none.         *)

ASSUME PollLoopConstants ==
  /\ Limits \subseteq Nat \ {0, 1} /\ Room \in Nat \ {0}
  /\ MaxAsked \in Nat \ {0} /\ MaxOutgoing \in Nat \ {0}
  /\ Readers \subseteq Peers

VARIABLES
  limit,      (* The descriptors this process may hold are 1..limit        *)
  phase,      (* Where runPollLoop stands                                  *)
  isRunning,  (* _isRunning                                                *)
  sockets,    (* clientSockets: the peer behind each descriptor            *)
  outgoing,   (* ClientManager::_clients: the size of outgoingBuffer       *)
  pollFds, index,
  moved,      (* What the ::write under way has transferred                *)
  link,       (* A peer's connection: none, open, closed (FIN) or reset    *)
  backlog,    (* Peers connected and not accepted yet                      *)
  asked,      (* Requests in the kernel's receive buffer                   *)
  room,       (* Free space of the kernel's send buffer                    *)
  signalled,  (* History: where the stop signal arrived                    *)
  outcome,    (* How the process ended                                     *)
  late        (* History: peers that reset during this round               *)

serverVars == <<phase, isRunning, sockets, outgoing, pollFds, index, moved,
                outcome>>
kernelVars == <<link, backlog, asked, room>>
vars == <<limit, serverVars, kernelVars, signalled, late>>

listenFd == 1
Fds == 1..limit
Free == Fds \ ({listenFd} \union DOMAIN sockets)

Phases == {"loading", "armed", "test", "entering", "asleep", "round", "flush",
           "writing", "saving", "down"}
Outcomes == {"none", "killed", "exception", "terminated", "saved"}

current == pollFds[index]
peerAt(fd) == sockets[fd]

-----------------------------------------------------------------------------
(* Readiness                                                                *)

Entry(fd, events) == [fd |-> fd, events |-> events, revents |-> {}]

hasPendingWrite(fd) == fd \in DOMAIN outgoing /\ outgoing[fd] > 0

\* Slips: output queued for a client is watched only once it has been visited;
\* a client with output is not listened to.
interestKept(e) == [e EXCEPT !.revents = {}]
interestInOutput(e) == Entry(e.fd, IF hasPendingWrite(e.fd) THEN {"OUT"} ELSE {"IN"})
refreshClientPollInterest(e) ==
  Entry(e.fd, {"IN"} \union (IF hasPendingWrite(e.fd) THEN {"OUT"} ELSE {}))

refreshAllPollInterests ==
  [i \in DOMAIN pollFds |->
     IF pollFds[i].fd = listenFd THEN Entry(listenFd, {"IN"})
     ELSE refreshClientPollInterest(pollFds[i])]

\* What poll() reports.  A FIN is readable, only a reset is POLLERR | POLLHUP.
Ready(e) ==
  IF e.fd = listenFd THEN (IF backlog # {} THEN {"IN"} ELSE {})
  ELSE LET p == peerAt(e.fd)
       IN  {x \in e.events :
              \/ link[p] = "reset"
              \/ x = "IN" /\ (asked[p] > 0 \/ link[p] = "closed")
              \/ x = "OUT" /\ room[p] > 0}
           \union (IF link[p] = "reset" THEN {"HUP"} ELSE {})

SomethingReady == \E i \in DOMAIN pollFds : Ready(pollFds[i]) # {}

-----------------------------------------------------------------------------
(* The process starts, waits and ends                                       *)

Load ==
  /\ phase = "loading"
  /\ phase' = "armed"                         \* installSignalHandler
  /\ UNCHANGED <<limit, isRunning, sockets, outgoing, pollFds, index, moved, outcome,
                 kernelVars, signalled, late>>

EnterLoop ==
  /\ phase = "armed"
  /\ phase' = "test"
  /\ isRunning' = TRUE
  /\ pollFds' = <<Entry(listenFd, {"IN"})>>
  /\ UNCHANGED <<limit, sockets, outgoing, index, moved, outcome, kernelVars,
                 signalled, late>>

Test ==
  /\ phase = "test"
  /\ isRunning
  /\ phase' = "entering"
  /\ pollFds' = refreshAllPollInterests
  /\ UNCHANGED <<limit, isRunning, sockets, outgoing, index, moved, outcome,
                 kernelVars, signalled, late>>

\* poll() with an infinite timeout is called.
Sleep ==
  /\ phase = "entering"
  /\ phase' = "asleep"
  /\ UNCHANGED <<limit, isRunning, sockets, outgoing, pollFds, index, moved, outcome,
                 kernelVars, signalled, late>>

\* logoutUsers and clientSockets.clear(), then the save.
leaveLoop ==
  /\ phase' = "saving"
  /\ sockets' = <<>>
  /\ link' = [p \in Peers |-> "none"] /\ backlog' = {}
  /\ asked' = [p \in Peers |-> 0] /\ room' = [p \in Peers |-> Room]
  /\ UNCHANGED <<limit, index, outgoing, pollFds, moved, outcome, isRunning,
                 signalled, late>>

LeaveLoop ==
  /\ phase = "test"
  /\ ~isRunning
  /\ leaveLoop

Wake ==
  /\ phase = "asleep"
  /\ SomethingReady
  /\ isRunning
  /\ pollFds' = [i \in DOMAIN pollFds |->
                   [pollFds[i] EXCEPT !.revents = Ready(pollFds[i])]]
  /\ phase' = "round"
  /\ index' = 1
  /\ UNCHANGED <<limit, isRunning, sockets, outgoing, moved, outcome, kernelVars,
                 signalled, late>>

\* The test behind poll(): an event wakes a loop that has been told to stop.
WakeToLeave ==
  /\ phase = "asleep"
  /\ SomethingReady
  /\ ~isRunning
  /\ leaveLoop

Save ==
  /\ phase = "saving"
  /\ phase' = "down"
  /\ outcome' = "saved"
  /\ UNCHANGED <<limit, isRunning, sockets, outgoing, pollFds, index, moved,
                 kernelVars, signalled, late>>

\* ServerException is caught by run; whatever else leaves the loop is not.
die(how) ==
  /\ phase' = "down"
  /\ outcome' = how
  /\ UNCHANGED <<limit, isRunning, sockets, outgoing, pollFds, index, moved,
                 kernelVars, signalled, late>>

-----------------------------------------------------------------------------
(* One visit of a round                                                     *)

Visiting(ph) == phase = ph /\ index <= Len(pollFds)

RoundOver ==
  /\ phase = "round"
  /\ index > Len(pollFds)
  /\ phase' = "test"
  /\ index' = 1
  /\ late' = {}
  /\ UNCHANGED <<limit, isRunning, sockets, outgoing, pollFds, moved, outcome,
                 kernelVars, signalled>>

Skip ==
  /\ Visiting("round")
  /\ current.revents = {}
  /\ index' = index + 1
  /\ UNCHANGED <<limit, phase, isRunning, sockets, outgoing, pollFds, moved, outcome,
                 kernelVars, signalled, late>>

\* accept() takes the lowest free descriptor, Socket(int) duplicates it to the
\* next one, which stays, and the first is closed again.
\* Slip: the descriptor of accept() itself stays.
Below(fd) == {free \in Free : free < fd}
acceptedInPlace == {fd \in Free : Cardinality(Below(fd)) = 0}
accepted == {fd \in Free : Cardinality(Below(fd)) = 1}

\* What is there under the key stays.
emplace(map, key, value) ==
  [k \in DOMAIN map \union {key} |-> IF k \in DOMAIN map THEN map[k] ELSE value]

Accept ==
  /\ Visiting("round")
  /\ current.fd = listenFd /\ "IN" \in current.revents
  /\ \E fd \in accepted, p \in backlog :
       /\ backlog' = backlog \ {p}
       /\ sockets' = emplace(sockets, fd, p)
       /\ outgoing' = emplace(outgoing, fd, 0)
       /\ pollFds' = Append([pollFds EXCEPT ![index].revents = {}],
                            Entry(fd, {"IN"}))
  /\ index' = index + 1
  /\ UNCHANGED <<limit, phase, isRunning, moved, outcome, link, asked, room,
                 signalled, late>>

\* SocketAcceptException, a ServerException.
AcceptFails ==
  /\ Visiting("round")
  /\ current.fd = listenFd /\ "IN" \in current.revents
  /\ Cardinality(Free) < 2
  /\ die("exception")

\* removeClientAt.  Slips: the next entry is passed over; the socket stays.
passedOver == index + 1
nextAfterErase == index
keepSocket(fd) == sockets
forgetSocket(fd) == Restrict(sockets, DOMAIN sockets \ {fd})
removeClientAt ==
  /\ phase' = "round"
  /\ pollFds' = RemoveAt(pollFds, index)
  /\ index' = nextAfterErase
  /\ sockets' = forgetSocket(current.fd)
  /\ outgoing' = Restrict(outgoing, DOMAIN outgoing \ {current.fd})
  /\ link' = [link EXCEPT ![peerAt(current.fd)] = "none"]
  /\ asked' = [asked EXCEPT ![peerAt(current.fd)] = 0]
  /\ room' = [room EXCEPT ![peerAt(current.fd)] = Room]
  /\ UNCHANGED <<limit, isRunning, moved, outcome, backlog, signalled, late>>

\* The order of shouldKeepClientConnected.  Slip: a lost connection counts
\* only when there is nothing to read.
lostLast(e) == "HUP" \in e.revents /\ "IN" \notin e.revents
lostFirst(e) == "HUP" \in e.revents

isClient == current.fd # listenFd /\ current.revents # {}

DropLost ==
  /\ Visiting("round")
  /\ isClient
  /\ lostFirst(current)
  /\ removeClientAt

wantsRead == isClient /\ ~lostFirst(current) /\ "IN" \in current.revents

\* SocketClosed and SystemException: the connection was reset after poll().
ReadFails ==
  /\ Visiting("round")
  /\ wantsRead
  /\ Free # {}
  /\ asked[peerAt(current.fd)] = 0 /\ link[peerAt(current.fd)] = "reset"
  /\ die("terminated")

\* All that has arrived is read and every request dispatched: it answers its
\* own client and may queue events for any others (MaxOutgoing caps these).
Read ==
  /\ Visiting("round")
  /\ wantsRead
  /\ Free # {}
  /\ LET p == peerAt(current.fd)
     IN  /\ asked[p] > 0
         /\ asked' = [asked EXCEPT ![p] = 0]
         /\ \E told \in SUBSET {fd \in DOMAIN outgoing \ {current.fd} :
                                  outgoing[fd] < MaxOutgoing} :
              outgoing' = [fd \in DOMAIN outgoing |->
                             outgoing[fd]
                             + (IF fd = current.fd THEN asked[p] ELSE 0)
                             + (IF fd \in told THEN 1 ELSE 0)]
  /\ phase' = "flush"
  /\ UNCHANGED <<limit, isRunning, sockets, pollFds, index, moved, outcome, link,
                 backlog, room, signalled, late>>

\* The visit comes to its POLLOUT part, with or without a read before.
AtWrite ==
  /\ index <= Len(pollFds)
  /\ \/ phase = "flush"
     \/ /\ phase = "round"
        /\ isClient
        /\ ~lostFirst(current)
        /\ "IN" \notin current.revents

\* The visit ends and the connection is kept.
keep(out) ==
  /\ phase' = "round"
  /\ outgoing' = out
  /\ pollFds' = [pollFds EXCEPT ![index] =
                   Entry(current.fd,
                         {"IN"} \union (IF out[current.fd] > 0
                                        THEN {"OUT"} ELSE {}))]
  /\ index' = index + 1

\* handleWritableEvent.  Slip: output is flushed as soon as there is some.
wantsWriteAtOnce == hasPendingWrite(current.fd)
wantsWrite == "OUT" \in current.revents /\ hasPendingWrite(current.fd)

NothingToWrite ==
  /\ AtWrite
  /\ ~wantsWrite
  /\ keep(outgoing)
  /\ UNCHANGED <<limit, isRunning, sockets, moved, outcome, kernelVars, signalled, late>>

\* Socket::read returns nothing at the end of the stream, Socket::write when
\* there is no room; both need a free descriptor for their copy of the socket.
readsNothing ==
  /\ phase = "round" /\ wantsRead
  /\ \/ Free = {}
     \/ asked[peerAt(current.fd)] = 0 /\ link[peerAt(current.fd)] # "reset"
writesNothing ==
  /\ AtWrite /\ wantsWrite
  /\ \/ Free = {}
     \/ room[peerAt(current.fd)] = 0 /\ link[peerAt(current.fd)] # "reset"

DropIdle ==
  /\ index <= Len(pollFds)
  /\ readsNothing \/ writesNothing
  /\ removeClientAt

WriteFails ==
  /\ AtWrite
  /\ wantsWrite
  /\ Free # {}
  /\ link[peerAt(current.fd)] = "reset"
  /\ die("terminated")

\* The sockets block: ::write takes what there is room for and waits until it
\* has taken all of the buffer.
Write ==
  /\ AtWrite
  /\ wantsWrite
  /\ Free # {}
  /\ LET p == peerAt(current.fd)
         n == Min({room[p], outgoing[current.fd]})
     IN  /\ link[p] # "reset" /\ room[p] > 0
         /\ room' = [room EXCEPT ![p] = @ - n]
         /\ moved' = n
  /\ phase' = "writing"
  /\ UNCHANGED <<limit, isRunning, sockets, outgoing, pollFds, index, outcome, link,
                 backlog, asked, signalled, late>>

WriteMore ==
  /\ Visiting("writing")
  /\ LET p == peerAt(current.fd)
         n == Min({room[p], outgoing[current.fd] - moved})
     IN  /\ link[p] # "reset" /\ n > 0
         /\ room' = [room EXCEPT ![p] = @ - n]
         /\ moved' = moved + n
  /\ UNCHANGED <<limit, phase, isRunning, sockets, outgoing, pollFds, index, outcome,
                 link, backlog, asked, signalled, late>>

\* A reset, like a signal, ends ::write with the count of what it transferred.
consumeQueuedData == [outgoing EXCEPT ![current.fd] = @ - moved]

WriteReturns ==
  /\ Visiting("writing")
  /\ \/ moved = outgoing[current.fd]
     \/ link[peerAt(current.fd)] = "reset"
  /\ keep(consumeQueuedData)
  /\ moved' = 0
  /\ UNCHANGED <<limit, isRunning, sockets, outcome, kernelVars, signalled, late>>

-----------------------------------------------------------------------------
(* The stop signal and the peers                                            *)

\* handleSignal.  One signal: bound.
handleSignal ==
  /\ signalled = "no"
  /\ signalled' = IF phase \in {"armed", "entering"} THEN phase ELSE "later"
  /\ isRunning' = FALSE
  /\ UNCHANGED <<limit, sockets, kernelVars, outcome, late>>

\* Before the handler is installed a signal kills the process.
SignalKills ==
  /\ phase = "loading"
  /\ signalled = "no"
  /\ signalled' = "loading"
  /\ phase' = "down" /\ outcome' = "killed"
  /\ UNCHANGED <<limit, isRunning, sockets, outgoing, pollFds, index, moved,
                 kernelVars, late>>

\* poll() fails with EINTR, and pollSockets reports no descriptor.
\* Slip: it calls poll() again.
pollAgain == "asleep"
afterEINTR == "test"

SignalWakes ==
  /\ phase = "asleep"
  /\ handleSignal
  /\ phase' = afterEINTR
  /\ UNCHANGED <<limit, outgoing, pollFds, index, moved>>

SignalEndsWrite ==
  /\ Visiting("writing")
  /\ handleSignal
  /\ keep(consumeQueuedData)
  /\ moved' = 0

SignalElsewhere ==
  /\ phase \notin {"loading", "asleep", "writing", "down"}
  /\ handleSignal
  /\ UNCHANGED <<limit, phase, outgoing, pollFds, index, moved>>

Signal == SignalKills \/ SignalWakes \/ SignalEndsWrite \/ SignalElsewhere

Connect(p) ==
  /\ link[p] = "none" /\ phase # "saving"
  /\ link' = [link EXCEPT ![p] = "open"]
  /\ backlog' = backlog \union {p}
  /\ UNCHANGED <<limit, serverVars, asked, room, signalled, late>>

\* Bound: a peer asks while what it has asked for fits MaxAsked and MaxOutgoing.
Owed(p) ==
  asked[p] + SumSet({outgoing[fd] : fd \in {g \in DOMAIN sockets : sockets[g] = p}})

Ask(p) ==
  /\ link[p] = "open"
  /\ asked[p] < MaxAsked /\ Owed(p) < MaxOutgoing
  /\ asked' = [asked EXCEPT ![p] = @ + 1]
  /\ UNCHANGED <<limit, serverVars, link, backlog, room, signalled, late>>

Receive(p) ==
  /\ link[p] = "open"
  /\ room[p] < Room
  /\ room' = [room EXCEPT ![p] = Room]
  /\ UNCHANGED <<limit, serverVars, link, backlog, asked, signalled, late>>

Close(p) ==
  /\ link[p] = "open"
  /\ link' = [link EXCEPT ![p] = "closed"]
  /\ UNCHANGED <<limit, serverVars, backlog, asked, room, signalled, late>>

\* The connection is reset, with or without what the server has not read yet.
reset(p) ==
  /\ link' = [link EXCEPT ![p] = "reset"]
  /\ \E n \in {0, asked[p]} : asked' = [asked EXCEPT ![p] = n]
  /\ room' = [room EXCEPT ![p] = Room]
  /\ late' = IF phase \in {"round", "flush", "writing"} THEN late \union {p}
             ELSE late
  /\ UNCHANGED <<limit, serverVars, backlog, signalled>>

Reset(p) == link[p] \in {"open", "closed"} /\ reset(p)

\* What reaches a peer after its close is answered with a reset.
Refuse(p) == link[p] = "closed" /\ room[p] < Room /\ reset(p)

-----------------------------------------------------------------------------
Init ==
  /\ limit \in Limits
  /\ phase = "loading" /\ isRunning = TRUE
  /\ sockets = <<>> /\ outgoing = <<>>
  /\ pollFds = <<>> /\ index = 1 /\ moved = 0
  /\ link = [p \in Peers |-> "none"] /\ backlog = {}
  /\ asked = [p \in Peers |-> 0] /\ room = [p \in Peers |-> Room]
  /\ signalled = "no" /\ outcome = "none" /\ late = {}

ServerStep ==
  \/ Load \/ EnterLoop \/ Test \/ Sleep \/ Wake \/ WakeToLeave \/ LeaveLoop
  \/ Save \/ RoundOver \/ Skip \/ Accept \/ AcceptFails \/ DropLost
  \/ ReadFails \/ Read \/ NothingToWrite \/ DropIdle \/ WriteFails \/ Write \/ WriteMore
  \/ WriteReturns

\* The model ends with the server's process.
PeerStep ==
  /\ phase # "down"
  /\ \E p \in Peers : Connect(p) \/ Ask(p) \/ Receive(p) \/ Close(p)
                      \/ Reset(p) \/ Refuse(p)

Next == ServerStep \/ Signal \/ PeerStep

\* The server runs whenever it can go on; a reader reads; a peer's kernel
\* answers what comes after the close.
Fairness ==
  /\ WF_vars(ServerStep)
  /\ \A p \in Readers : WF_vars(phase # "down" /\ Receive(p))
  /\ \A p \in Peers : WF_vars(phase # "down" /\ Refuse(p))

Spec == Init /\ [][Next]_vars
FairSpec == Spec /\ Fairness

-----------------------------------------------------------------------------
(* What must hold                                                           *)

\* Every variable has its type.
TypeOK ==
  /\ limit \in Limits
  /\ phase \in Phases /\ outcome \in Outcomes
  /\ isRunning \in BOOLEAN
  /\ DOMAIN sockets \subseteq Fds \ {listenFd} /\ Range(sockets) \subseteq Peers
  /\ DOMAIN outgoing \subseteq Fds /\ Range(outgoing) \subseteq Nat
  /\ pollFds \in Seq([fd : Fds, events : SUBSET {"IN", "OUT"},
                      revents : SUBSET {"IN", "OUT", "HUP"}])
  /\ index \in 1..(Len(pollFds) + 1) /\ moved \in Nat
  /\ link \in [Peers -> {"none", "open", "closed", "reset"}]
  /\ backlog \subseteq Peers /\ late \subseteq Peers
  /\ asked \in [Peers -> 0..MaxAsked] /\ room \in [Peers -> 0..Room]
  /\ signalled \in {"no", "loading", "armed", "entering", "later"}

Looping == phase \in {"test", "entering", "asleep", "round", "flush", "writing"}

\* clientSockets, ClientManager and pollFds hold the same connections, each
\* once, however descriptors are closed and reused: an entry that outlived its
\* connection would be polled for whoever gets the descriptor next.
DescriptorsAgree ==
  Looping =>
    /\ \A i, j \in DOMAIN pollFds : pollFds[i].fd = pollFds[j].fd => i = j
    /\ {pollFds[i].fd : i \in DOMAIN pollFds} = DOMAIN sockets \union {listenFd}
    /\ DOMAIN outgoing = DOMAIN sockets
    /\ {p \in Peers : link[p] # "none"} = Range(sockets) \union backlog

\* A round visits every descriptor poll() reported, although visits erase and
\* append entries of the vector the loop runs over.
EveryReadyVisited ==
  phase = "test" => \A i \in DOMAIN pollFds : pollFds[i].revents = {}

\* recvBytes and sendBytes duplicate the descriptor they use: one is always
\* free for that, because accept() needed two.
SpareDescriptor == Free # {}

\* The readiness poll() reported may be stale when it is used.  Still no client
\* is dropped that has not left: what was readable or had room still is.
OnlyDepartedDropped ==
  [][\A fd \in DOMAIN sockets \ DOMAIN sockets' :
       phase' = "round" => link[sockets[fd]] # "open"]_vars

\* How the process can end: by the save, only when it was asked to stop; by
\* ServerException, only for want of two descriptors; by an exception nobody
\* catches, only if the connection being visited was reset after poll().
EndingsExplained ==
  /\ outcome = "saved" => signalled \notin {"no", "loading", "armed"}
  /\ outcome = "exception" => Cardinality(Free) < 2
  /\ outcome = "terminated" => peerAt(current.fd) \in late

\* The server waits inside ::write for a peer that does not read.
BlockedOnWrite ==
  /\ phase = "writing"
  /\ peerAt(current.fd) \notin Readers

Ended == phase \in {"saving", "down"}

\* What a connected client has asked is read and dispatched, unless the server
\* stays blocked on a client that does not read (or ends).
RequestsServed ==
  \/ \A p \in Peers :
       (link[p] = "open" /\ asked[p] > 0)
         ~> (asked[p] = 0 \/ link[p] # "open" \/ Ended)
  \/ <>[]BlockedOnWrite

\* The output of a client that reads is sent, with the same exception.
HasOutput(p) == \E fd \in DOMAIN sockets : sockets[fd] = p /\ hasPendingWrite(fd)

OutputSent ==
  \/ \A p \in Readers : HasOutput(p) ~> (~HasOutput(p) \/ Ended)
  \/ <>[]BlockedOnWrite

\* A stop that is asked anywhere but in two windows (after the handler is
\* installed and before _isRunning is set; between the test of _isRunning and
\* poll()) ends the process, with the same exception.
StopHonoured ==
  \/ (signalled = "later") ~> (phase = "down")
  \/ <>[]BlockedOnWrite
=============================================================================
