--------------------------- MODULE PollLoopProofs ---------------------------
(***************************************************************************)
(* Proofs about PollLoop, for every set of peers, every limit of at least  *)
(* two descriptors and every size of the buffers.                          *)
(*                                                                         *)
(* The inductive invariant is Inv below.  The entries of pollFds agree     *)
(* with the sockets only because accept() takes a descriptor that is free  *)
(* and a peer that has no other connection; and a client that is dropped   *)
(* has left only because what poll() reported of it is used up by nobody   *)
(* but its own visit.                                                      *)
(***************************************************************************)
EXTENDS PollLoop, FiniteSetTheorems, TLAPS

-----------------------------------------------------------------------------
(* The inductive invariant                                                  *)

\* A peer has one connection, which is either accepted or in the backlog.
ConnectionsKnown ==
  phase # "down" =>
    /\ \A f, g \in DOMAIN sockets : sockets[f] = sockets[g] => f = g
    /\ \A f \in DOMAIN sockets : sockets[f] \notin backlog
    /\ \A p \in Peers :
         link[p] # "none" <=> p \in backlog \/ \E f \in DOMAIN sockets : sockets[f] = p

\* Before and after the loop there is no socket.
NoneOutsideLoop ==
  /\ phase \in {"loading", "armed"} =>
       DOMAIN sockets = {} /\ DOMAIN outgoing = {} /\ pollFds = <<>>
  /\ phase = "saving" => DOMAIN sockets = {}

\* The entries of pollFds are the listening socket and the clients.
EntriesAgree ==
  Looping =>
    /\ \A i, j \in DOMAIN pollFds : pollFds[i].fd = pollFds[j].fd => i = j
    /\ \A i \in DOMAIN pollFds : pollFds[i].fd \in DOMAIN sockets \union {listenFd}
    /\ \A f \in DOMAIN sockets \union {listenFd} :
         \E i \in DOMAIN pollFds : pollFds[i].fd = f
    /\ DOMAIN outgoing = DOMAIN sockets

\* A visit that came to writing is one of a client that was not reset when
\* poll() looked.
ClientVisited ==
  phase \in {"flush", "writing"} =>
    /\ index \in DOMAIN pollFds
    /\ current.fd # listenFd
    /\ current.revents # {} /\ "HUP" \notin current.revents
    /\ phase = "writing" => moved <= outgoing[current.fd]

\* What poll() reported is cleared by the visit; between two rounds there is
\* nothing left of it.
EntriesCleared ==
  Looping =>
    \A i \in DOMAIN pollFds :
      (phase \in {"round", "flush", "writing"} => i < index)
        => pollFds[i].revents = {}

\* What poll() reported of entry i and this round has not used yet may be
\* stale, but only because the peer left; and who was reset since is in late.
StillTrue(i) ==
  LET e == pollFds[i]
      p == peerAt(e.fd)
  IN  /\ "HUP" \in e.revents => link[p] = "reset"
      /\ e.revents # {} /\ "HUP" \notin e.revents /\ link[p] = "reset" => p \in late
      /\ "IN" \in e.revents /\ (phase = "round" \/ index < i)
         => asked[p] > 0 \/ link[p] \in {"closed", "reset"}
      /\ "OUT" \in e.revents /\ (phase # "writing" \/ index < i)
         => room[p] > 0 \/ link[p] # "open"

ReadinessExplained ==
  phase \in {"round", "flush", "writing"} =>
    \A i \in DOMAIN pollFds : index <= i /\ pollFds[i].fd # listenFd => StillTrue(i)

\* The flag is cleared by a signal only, and a stop in the loop is not undone.
StopsExplained ==
  /\ phase = "loading" => signalled = "no"
  /\ phase = "armed" => signalled \in {"no", "armed"}
  /\ Looping /\ ~isRunning => signalled \in {"entering", "later"}
  /\ phase = "saving" => signalled \in {"entering", "later"}
  /\ phase # "down" => outcome = "none"
  /\ EndingsExplained

Inv ==
  /\ TypeOK
  /\ SpareDescriptor
  /\ ConnectionsKnown
  /\ NoneOutsideLoop
  /\ EntriesAgree
  /\ ClientVisited
  /\ EntriesCleared
  /\ ReadinessExplained
  /\ StopsExplained

-----------------------------------------------------------------------------
(* The descriptor that stays free                                           *)

\* SpareDescriptor is inductive with the range of the limit: it is the number
\* of a descriptor that is free before the first connection.
SpareInv == limit \in Limits /\ SpareDescriptor

\* Below the descriptor that accept() leaves in use there is one that is free.
LEMMA OneLeft ==
  ASSUME NEW fd \in accepted
  PROVE  Free \ {fd} # {}
<1>1. Cardinality({}) = 0
  BY FS_EmptySet
<1>2. PICK free \in Below(fd) : TRUE
  BY <1>1 DEF accepted
<1>3. free \in Free /\ free < fd /\ fd \in Int /\ free \in Int
  BY <1>2 DEF Below, accepted, Free, Fds
<1>. QED
  BY <1>3

\* A step that forgets sockets, or leaves them alone, frees no descriptor for
\* anybody else.
LEMMA FewerSockets ==
  ASSUME SpareInv, limit' = limit, DOMAIN sockets' \subseteq DOMAIN sockets
  PROVE  SpareInv'
BY DEF SpareInv, SpareDescriptor, Free, Fds, listenFd

LEMMA AcceptSpares ==
  ASSUME SpareInv, Accept
  PROVE  SpareInv'
<1>1. PICK fd \in accepted, p \in backlog : sockets' = emplace(sockets, fd, p)
  BY DEF Accept
<1>3. DOMAIN sockets' = DOMAIN sockets \union {fd}
  BY <1>1 DEF emplace
<1>4. limit' = limit
  BY DEF Accept
<1>5. Free' = Free \ {fd}
  BY <1>3, <1>4 DEF Free, Fds, listenFd
<1>6. Free \ {fd} # {}
  BY OneLeft
<1>. QED
  BY <1>4, <1>5, <1>6 DEF SpareInv, SpareDescriptor

LEMMA DropSpares ==
  ASSUME SpareInv, removeClientAt
  PROVE  SpareInv'
<1>1. DOMAIN sockets' \subseteq DOMAIN sockets
  BY DEF removeClientAt, forgetSocket, Restrict
<1>. QED
  BY <1>1, FewerSockets DEF removeClientAt

\* Leaving the loop clears the sockets.
LEMMA LeavingSpares ==
  ASSUME SpareInv, leaveLoop
  PROVE  SpareInv'
<1>1. DOMAIN sockets' = {} /\ limit' = limit
  BY DEF leaveLoop
<1>. QED
  BY <1>1, FewerSockets

\* Whatever else the server, a signal or a peer does, sockets stay.
LEMMA ServerSpares ==
  ASSUME SpareInv, ServerStep
  PROVE  SpareInv'
<1>1. CASE Accept
  BY <1>1, AcceptSpares
<1>2. CASE DropLost \/ DropIdle
  BY <1>2, DropSpares DEF DropLost, DropIdle
<1>3. CASE LeaveLoop \/ WakeToLeave
  BY <1>3, LeavingSpares DEF LeaveLoop, WakeToLeave
<1>4. CASE \/ Load \/ EnterLoop \/ Test \/ Sleep \/ Wake \/ Save \/ RoundOver
           \/ Skip
  <2>1. limit' = limit /\ sockets' = sockets
    BY <1>4 DEF Load, EnterLoop, Test, Sleep, Wake, Save, RoundOver, Skip
  <2>. QED
    BY <2>1, FewerSockets
<1>5. CASE \/ AcceptFails \/ ReadFails \/ Read \/ NothingToWrite \/ WriteFails
           \/ Write \/ WriteMore \/ WriteReturns
  <2>1. limit' = limit /\ sockets' = sockets
    BY <1>5 DEF AcceptFails, ReadFails, Read, NothingToWrite, WriteFails,
                Write, WriteMore, WriteReturns, die
  <2>. QED
    BY <2>1, FewerSockets
<1>. QED
  BY <1>1, <1>2, <1>3, <1>4, <1>5 DEF ServerStep

LEMMA OthersSpare ==
  ASSUME SpareInv, Signal \/ PeerStep
  PROVE  SpareInv'
<1>1. CASE Signal
  <2>1. limit' = limit /\ sockets' = sockets
    BY <1>1 DEF Signal, SignalKills, SignalWakes, SignalEndsWrite,
                SignalElsewhere, handleSignal
  <2>. QED
    BY <2>1, FewerSockets
<1>2. CASE PeerStep
  <2>1. limit' = limit /\ sockets' = sockets
    BY <1>2 DEF PeerStep, Connect, Ask, Receive, Close, Reset, Refuse, reset,
                serverVars
  <2>. QED
    BY <2>1, FewerSockets
<1>. QED
  BY <1>1, <1>2

LEMMA SpareInit == Init => SpareInv
<1>. SUFFICES ASSUME Init PROVE SpareInv
  OBVIOUS
<1>1. limit \in Limits /\ DOMAIN sockets = {}
  BY DEF Init
<1>2. 2 \in Free
  BY <1>1, PollLoopConstants DEF Free, Fds, listenFd
<1>. QED
  BY <1>1, <1>2 DEF SpareInv, SpareDescriptor

-----------------------------------------------------------------------------
(* Sequences, numbers and entries                                           *)

LEMMA RemoveAtProperties ==
  ASSUME NEW S, NEW s \in Seq(S), NEW i \in 1..Len(s)
  PROVE  /\ RemoveAt(s, i) \in Seq(S)
         /\ Len(RemoveAt(s, i)) = Len(s) - 1
         /\ \A j \in 1..(Len(s) - 1) :
              RemoveAt(s, i)[j] = IF j < i THEN s[j] ELSE s[j + 1]
<1>. DEFINE before == SubSeq(s, 1, i - 1)
            after == SubSeq(s, i + 1, Len(s))
<1>1. before \in Seq(S) /\ Len(before) = i - 1
      /\ \A j \in 1..(i - 1) : before[j] = s[j]
  OBVIOUS
<1>2. after \in Seq(S) /\ Len(after) = Len(s) - i
      /\ \A j \in 1..(Len(s) - i) : after[j] = s[i + j]
  OBVIOUS
<1>3. RemoveAt(s, i) = before \o after
  BY DEF RemoveAt
<1>. HIDE DEF before, after
<1>4. before \o after \in Seq(S) /\ Len(before \o after) = Len(s) - 1
  BY <1>1, <1>2
<1>5. ASSUME NEW j \in 1..(Len(s) - 1)
      PROVE  (before \o after)[j] = IF j < i THEN s[j] ELSE s[j + 1]
  <2>. DEFINE joined == before \o after
  <2>0. j \in Int /\ i \in Int
    OBVIOUS
  <2>1. CASE j < i
    <3>1. j \in 1..(i - 1)
      BY <2>0, <2>1
    <3>2. joined[j] = before[j]
      BY <1>1, <1>2, <3>1
    <3>. QED
      BY <1>1, <2>1, <3>1, <3>2
  <2>2. CASE ~(j < i)
    <3>1. j - Len(before) \in 1..(Len(s) - i) /\ j - Len(before) = j - i + 1
      BY <1>1, <2>0, <2>2
    <3>2. joined[j] = after[j - Len(before)]
      BY <1>1, <1>2, <2>2, <3>1
    <3>3. after[j - Len(before)] = s[i + (j - Len(before))]
      BY <1>2, <3>1
    <3>4. i + (j - Len(before)) = j + 1
      BY <2>0, <3>1
    <3>. QED
      BY <2>2, <3>2, <3>3, <3>4
  <2>. QED
    BY <2>1, <2>2
<1>. QED
  BY <1>3, <1>4, <1>5

LEMMA MinOfTwo ==
  ASSUME NEW a \in Nat, NEW b \in Nat
  PROVE  Min({a, b}) \in Nat /\ Min({a, b}) <= a /\ Min({a, b}) <= b
<1>1. \E m \in {a, b} : \A x \in {a, b} : m <= x
  OBVIOUS
<1>. QED
  BY <1>1 DEF Min

Entries == [fd : Fds, events : SUBSET {"IN", "OUT"},
            revents : SUBSET {"IN", "OUT", "HUP"}]

LEMMA EntryTyped ==
  ASSUME NEW fd \in Fds, NEW events \in SUBSET {"IN", "OUT"}
  PROVE  Entry(fd, events) \in Entries
BY DEF Entry, Entries

LEMMA ListenFdTyped ==
  ASSUME limit \in Limits
  PROVE  listenFd \in Fds
BY PollLoopConstants DEF listenFd, Fds

LEMMA RefreshTyped ==
  ASSUME TypeOK
  PROVE  refreshAllPollInterests \in Seq(Entries)
         /\ Len(refreshAllPollInterests) = Len(pollFds)
         /\ \A i \in 1..Len(pollFds) : refreshAllPollInterests[i].fd = pollFds[i].fd
<1>1. pollFds \in Seq(Entries) /\ listenFd \in Fds
  BY ListenFdTyped DEF TypeOK, Entries
<1>2. ASSUME NEW i \in 1..Len(pollFds)
      PROVE  /\ refreshClientPollInterest(pollFds[i]) \in Entries
             /\ refreshClientPollInterest(pollFds[i]).fd = pollFds[i].fd
             /\ Entry(listenFd, {"IN"}) \in Entries
             /\ Entry(listenFd, {"IN"}).fd = listenFd
  <2>. DEFINE e == pollFds[i]
  <2>1. e \in Entries
    BY <1>1
  <2>2. e.fd \in Fds
    BY <2>1 DEF Entries
  <2>3. \A fd \in Fds : \A events \in SUBSET {"IN", "OUT"} :
          Entry(fd, events) \in Entries /\ Entry(fd, events).fd = fd
    BY EntryTyped DEF Entry
  <2>4. {"IN"} \union (IF hasPendingWrite(e.fd) THEN {"OUT"} ELSE {})
          \in SUBSET {"IN", "OUT"}
    OBVIOUS
  <2>. HIDE DEF e
  <2>5. /\ refreshClientPollInterest(e) \in Entries
        /\ refreshClientPollInterest(e).fd = e.fd
    BY <2>2, <2>3, <2>4 DEF refreshClientPollInterest
  <2>6. /\ Entry(listenFd, {"IN"}) \in Entries
        /\ Entry(listenFd, {"IN"}).fd = listenFd
    BY <1>1, <2>3
  <2>. QED
    BY <2>5, <2>6 DEF e
<1>. QED
  BY <1>1, <1>2 DEF refreshAllPollInterests

LEMMA WokenTyped ==
  ASSUME TypeOK
  PROVE  LET woken == [i \in DOMAIN pollFds |->
                         [pollFds[i] EXCEPT !.revents = Ready(pollFds[i])]]
         IN  /\ woken \in Seq(Entries) /\ Len(woken) = Len(pollFds)
             /\ \A i \in 1..Len(pollFds) :
                  woken[i] = [pollFds[i] EXCEPT !.revents = Ready(pollFds[i])]
<1>1. pollFds \in Seq(Entries)
  BY DEF TypeOK, Entries
<1>2. ASSUME NEW e \in Entries
      PROVE  [e EXCEPT !.revents = Ready(e)] \in Entries
  <2>1. e.events \subseteq {"IN", "OUT"}
    BY DEF Entries
  <2>2. Ready(e) \in SUBSET {"IN", "OUT", "HUP"}
    BY <2>1 DEF Ready
  <2>3. ASSUME NEW r \in SUBSET {"IN", "OUT", "HUP"}
        PROVE  [e EXCEPT !.revents = r] \in Entries
    BY DEF Entries
  <2>. QED
    BY <2>2, <2>3
<1>3. \A i \in 1..Len(pollFds) :
         [pollFds[i] EXCEPT !.revents = Ready(pollFds[i])] \in Entries
  BY <1>1, <1>2
<1>. DEFINE w(i) == [pollFds[i] EXCEPT !.revents = Ready(pollFds[i])]
            woken == [i \in DOMAIN pollFds |-> w(i)]
<1>. HIDE DEF w
<1>4. /\ DOMAIN pollFds = 1..Len(pollFds) /\ Len(pollFds) \in Nat
      /\ \A i \in 1..Len(pollFds) : w(i) \in Entries
  BY <1>1, <1>3 DEF w
<1>5. woken \in Seq(Entries) /\ Len(woken) = Len(pollFds)
      /\ \A i \in 1..Len(pollFds) : woken[i] = w(i)
  BY <1>4
<1>. QED
  BY <1>5, Zenon DEF w

\* The entry at the index is written, the others stay.
LEMMA EntrySet ==
  ASSUME TypeOK, index \in DOMAIN pollFds, NEW e \in Entries
  PROVE  /\ [pollFds EXCEPT ![index] = e] \in Seq(Entries)
         /\ Len([pollFds EXCEPT ![index] = e]) = Len(pollFds)
BY DEF TypeOK, Entries

-----------------------------------------------------------------------------
(* Type correctness                                                         *)

LEMMA TypeRemoved ==
  ASSUME TypeOK, index \in DOMAIN pollFds, current.fd \in DOMAIN sockets,
         removeClientAt
  PROVE  TypeOK'
<1>1. pollFds \in Seq(Entries) /\ index \in 1..Len(pollFds)
  BY DEF TypeOK, Entries
<1>2. pollFds' \in Seq(Entries) /\ Len(pollFds') = Len(pollFds) - 1
  BY <1>1, RemoveAtProperties DEF removeClientAt
<1>3. index' \in 1..(Len(pollFds') + 1)
  BY <1>1, <1>2 DEF removeClientAt, nextAfterErase
<1>4. DOMAIN sockets' \subseteq Fds \ {listenFd} /\ Range(sockets') \subseteq Peers
  BY DEF TypeOK, removeClientAt, forgetSocket, Restrict, Range
<1>5. DOMAIN outgoing' \subseteq Fds /\ Range(outgoing') \subseteq Nat
  BY DEF TypeOK, removeClientAt, Restrict, Range
<1>6. peerAt(current.fd) \in Peers
  BY DEF TypeOK, Range, peerAt
<1>7. link' \in [Peers -> {"none", "open", "closed", "reset"}]
      /\ asked' \in [Peers -> 0..MaxAsked] /\ room' \in [Peers -> 0..Room]
  BY <1>6, PollLoopConstants DEF TypeOK, removeClientAt
<1>8. UNCHANGED <<limit, isRunning, moved, outcome, backlog, signalled, late>>
      /\ phase' = "round"
  BY DEF removeClientAt
<1>. QED
  BY <1>2, <1>3, <1>4, <1>5, <1>7, <1>8 DEF TypeOK, Phases, Entries, Fds

LEMMA TypeKept ==
  ASSUME TypeOK, index \in DOMAIN pollFds, NEW out, keep(out),
         DOMAIN out \subseteq Fds, Range(out) \subseteq Nat, moved' \in Nat,
         signalled' \in {"no", "loading", "armed", "entering", "later"},
         isRunning' \in BOOLEAN,
         UNCHANGED <<limit, sockets, outcome, kernelVars, late>>
  PROVE  TypeOK'
<1>. DEFINE e == Entry(current.fd, {"IN"} \union (IF out[current.fd] > 0
                                                   THEN {"OUT"} ELSE {}))
<1>1. index \in 1..Len(pollFds) /\ pollFds \in Seq(Entries)
  BY DEF TypeOK, Entries
<1>2. current \in Entries
  BY <1>1 DEF current
<1>3. e \in Entries
  BY <1>2, EntryTyped DEF Entries
<1>4. pollFds' = [pollFds EXCEPT ![index] = e] /\ index' = index + 1
      /\ phase' = "round" /\ outgoing' = out
  BY DEF keep
<1>. HIDE DEF e
<1>5. pollFds' \in Seq(Entries) /\ Len(pollFds') = Len(pollFds)
  BY <1>1, <1>3, <1>4, EntrySet
<1>6. index' \in 1..(Len(pollFds') + 1)
  BY <1>1, <1>4, <1>5
<1>. QED
  BY <1>4, <1>5, <1>6 DEF TypeOK, Phases, Entries, Fds, kernelVars

LEMMA TypeAccept ==
  ASSUME TypeOK, Accept
  PROVE  TypeOK'
<1>1. PICK fd \in accepted, p \in backlog :
        /\ backlog' = backlog \ {p}
        /\ sockets' = emplace(sockets, fd, p)
        /\ outgoing' = emplace(outgoing, fd, 0)
        /\ pollFds' = Append([pollFds EXCEPT ![index].revents = {}],
                             Entry(fd, {"IN"}))
  BY DEF Accept
<1>2. fd \in Fds /\ fd # listenFd /\ p \in Peers
  BY DEF accepted, Free, TypeOK
<1>3. index \in 1..Len(pollFds) /\ pollFds \in Seq(Entries)
  BY DEF Accept, Visiting, TypeOK, Entries
<1>4. \A e \in Entries : [e EXCEPT !.revents = {}] \in Entries
  BY DEF Entries
<1>5. [pollFds EXCEPT ![index].revents = {}] \in Seq(Entries)
      /\ Len([pollFds EXCEPT ![index].revents = {}]) = Len(pollFds)
  BY <1>3, <1>4
<1>6. Entry(fd, {"IN"}) \in Entries
  BY <1>2, EntryTyped
<1>7. pollFds' \in Seq(Entries) /\ Len(pollFds') = Len(pollFds) + 1
  BY <1>1, <1>5, <1>6
<1>8. DOMAIN sockets' \subseteq Fds \ {listenFd} /\ Range(sockets') \subseteq Peers
  BY <1>1, <1>2 DEF TypeOK, emplace, Range
<1>9. DOMAIN outgoing' \subseteq Fds /\ Range(outgoing') \subseteq Nat
  <2>1. \A f \in DOMAIN outgoing : f \in Fds /\ outgoing[f] \in Nat
    BY DEF TypeOK, Range
  <2>2. outgoing' = [f \in DOMAIN outgoing \union {fd} |->
                       IF f \in DOMAIN outgoing THEN outgoing[f] ELSE 0]
    BY <1>1 DEF emplace
  <2>3. \A f \in DOMAIN outgoing' : f \in Fds /\ outgoing'[f] \in Nat
    BY <1>2, <2>1, <2>2
  <2>. QED
    BY <2>3 DEF Range
<1>10. index' \in 1..(Len(pollFds') + 1)
  BY <1>3, <1>7 DEF Accept
<1>11. backlog' \subseteq Peers
  BY <1>1 DEF TypeOK
<1>12. UNCHANGED <<limit, phase, isRunning, moved, outcome, link, asked, room,
                   signalled, late>>
  BY DEF Accept
<1>. QED
  BY <1>7, <1>8, <1>9, <1>10, <1>11, <1>12 DEF TypeOK, Entries, Fds

LEMMA TypeRead ==
  ASSUME TypeOK, Read, peerAt(current.fd) \in Peers
  PROVE  TypeOK'
<1>. DEFINE p == peerAt(current.fd)
<1>1. asked' = [asked EXCEPT ![p] = 0] /\ 0 \in 0..MaxAsked
  BY PollLoopConstants DEF Read
<1>2. asked' \in [Peers -> 0..MaxAsked]
  BY <1>1 DEF TypeOK
<1>3. PICK told \in SUBSET {fd \in DOMAIN outgoing \ {current.fd} :
                              outgoing[fd] < MaxOutgoing} :
        outgoing' = [fd \in DOMAIN outgoing |->
                       outgoing[fd]
                       + (IF fd = current.fd THEN asked[p] ELSE 0)
                       + (IF fd \in told THEN 1 ELSE 0)]
  BY DEF Read
<1>4. asked[p] \in Nat
  BY DEF TypeOK
<1>5. \A fd \in DOMAIN outgoing : fd \in Fds /\ outgoing[fd] \in Nat
  BY DEF TypeOK, Range
<1>6. \A fd \in DOMAIN outgoing' : fd \in Fds /\ outgoing'[fd] \in Nat
  BY <1>3, <1>4, <1>5
<1>7. DOMAIN outgoing' \subseteq Fds /\ Range(outgoing') \subseteq Nat
  BY <1>6 DEF Range
<1>. QED
  BY <1>2, <1>7 DEF TypeOK, Read, Phases, Fds

\* The visited entry that is not the listening socket is a client's.
LEMMA VisitedClient ==
  ASSUME TypeOK, EntriesAgree, Looping, index \in DOMAIN pollFds,
         current.fd # listenFd
  PROVE  /\ current.fd \in DOMAIN sockets /\ DOMAIN outgoing = DOMAIN sockets
         /\ peerAt(current.fd) \in Peers
         /\ outgoing[current.fd] \in Nat
<1>1. current.fd \in DOMAIN sockets /\ DOMAIN outgoing = DOMAIN sockets
  BY DEF EntriesAgree, current
<1>. QED
  BY <1>1 DEF TypeOK, Range, peerAt

LEMMA TypeWrite ==
  ASSUME TypeOK, Write \/ WriteMore, peerAt(current.fd) \in Peers,
         outgoing[current.fd] \in Nat,
         phase = "writing" => moved <= outgoing[current.fd]
  PROVE  TypeOK' /\ moved' <= outgoing'[current'.fd]
<1>. DEFINE p == peerAt(current.fd)
<1>1. room[p] \in 0..Room /\ moved \in Nat /\ Room \in Nat
  BY PollLoopConstants DEF TypeOK
<1>2. CASE Write
  <2>. DEFINE n == Min({room[p], outgoing[current.fd]})
  <2>1. n \in Nat /\ n <= room[p] /\ n <= outgoing[current.fd]
    <3>1. room[p] \in Nat
      BY <1>1
    <3>. QED
      BY <3>1, MinOfTwo
  <2>2. room' = [room EXCEPT ![p] = @ - n] /\ moved' = n
    BY <1>2 DEF Write
  <2>. HIDE DEF n
  <2>3. room' \in [Peers -> 0..Room]
    BY <1>1, <2>1, <2>2 DEF TypeOK
  <2>. QED
    BY <1>2, <2>1, <2>2, <2>3 DEF TypeOK, Write, Phases, Fds, current
<1>3. CASE WriteMore
  <2>. DEFINE n == Min({room[p], outgoing[current.fd] - moved})
  <2>1. n \in Nat /\ n <= room[p] /\ n <= outgoing[current.fd] - moved
    <3>1. room[p] \in Nat
      BY <1>1
    <3>2. moved <= outgoing[current.fd]
      BY <1>3 DEF WriteMore, Visiting
    <3>3. outgoing[current.fd] - moved \in Nat
      BY <1>1, <3>2
    <3>. QED
      BY <3>1, <3>3, MinOfTwo
  <2>2. room' = [room EXCEPT ![p] = @ - n] /\ moved' = moved + n
    BY <1>3 DEF WriteMore
  <2>. HIDE DEF n
  <2>3. room' \in [Peers -> 0..Room]
    BY <1>1, <2>1, <2>2 DEF TypeOK
  <2>. QED
    <3>1. moved' \in Nat /\ moved' <= outgoing[current.fd]
      BY <1>1, <2>1, <2>2
    <3>2. /\ UNCHANGED <<limit, phase, isRunning, sockets, outgoing, pollFds, index,
                         outcome, link, backlog, asked, signalled, late>>
      BY <1>3 DEF WriteMore
    <3>. QED
      BY <2>3, <3>1, <3>2 DEF TypeOK, Fds, current
<1>. QED
  BY <1>2, <1>3

LEMMA ConsumedTyped ==
  ASSUME TypeOK, current.fd \in DOMAIN outgoing, moved <= outgoing[current.fd]
  PROVE  /\ DOMAIN consumeQueuedData = DOMAIN outgoing
         /\ DOMAIN consumeQueuedData \subseteq Fds
         /\ Range(consumeQueuedData) \subseteq Nat
<1>1. \A fd \in DOMAIN outgoing : fd \in Fds /\ outgoing[fd] \in Nat
  BY DEF TypeOK, Range
<1>2. moved \in Nat
  BY DEF TypeOK
<1>3. DOMAIN consumeQueuedData = DOMAIN outgoing
  BY DEF consumeQueuedData
<1>4. \A fd \in DOMAIN consumeQueuedData : consumeQueuedData[fd] \in Nat
  BY <1>1, <1>2 DEF consumeQueuedData
<1>. QED
  BY <1>1, <1>3, <1>4 DEF Range

LEMMA TypeSimple ==
  ASSUME TypeOK, NoneOutsideLoop,
         \/ Load \/ EnterLoop \/ Test \/ Sleep \/ Wake \/ WakeToLeave \/ LeaveLoop
         \/ Save \/ RoundOver \/ Skip \/ AcceptFails \/ ReadFails \/ WriteFails
  PROVE  TypeOK'
<1>1. CASE EnterLoop
  <2>1. Entry(listenFd, {"IN"}) \in Entries
    BY EntryTyped, ListenFdTyped DEF TypeOK
  <2>2. pollFds' \in Seq(Entries) /\ Len(pollFds') = 1
    BY <1>1, <2>1 DEF EnterLoop
  <2>3. index \in 1..2
    BY <1>1 DEF EnterLoop, TypeOK, NoneOutsideLoop
  <2>. QED
    BY <1>1, <2>2, <2>3 DEF TypeOK, EnterLoop, Phases, Entries, Fds, kernelVars
<1>2. CASE Test
  <2>1. pollFds' \in Seq(Entries) /\ Len(pollFds') = Len(pollFds)
    BY <1>2, RefreshTyped DEF Test
  <2>. QED
    BY <1>2, <2>1 DEF TypeOK, Test, Phases, Entries, Fds, kernelVars
<1>3. CASE Wake
  <2>1. pollFds' \in Seq(Entries) /\ Len(pollFds') = Len(pollFds)
    BY <1>3, WokenTyped DEF Wake
  <2>. QED
    BY <1>3, <2>1 DEF TypeOK, Wake, Phases, Entries, Fds, kernelVars
<1>4. CASE WakeToLeave \/ LeaveLoop
  <2>1. leaveLoop
    BY <1>4 DEF WakeToLeave, LeaveLoop
  <2>2. DOMAIN sockets' = {} /\ Range(sockets') = {}
    BY <2>1 DEF leaveLoop, Range
  <2>3. asked' \in [Peers -> 0..MaxAsked] /\ room' \in [Peers -> 0..Room]
    BY <2>1, PollLoopConstants DEF leaveLoop
  <2>. QED
    BY <2>1, <2>2, <2>3 DEF TypeOK, leaveLoop, Phases, Fds
<1>5. CASE Load \/ Sleep
  BY <1>5 DEF TypeOK, Load, Sleep, Phases, Fds, kernelVars
<1>8. CASE Save
  <2>1. phase' \in Phases /\ outcome' \in Outcomes /\ isRunning' \in BOOLEAN
    BY <1>8 DEF Save, TypeOK, Phases, Outcomes
  <2>2. UNCHANGED <<limit, sockets, outgoing, pollFds, index, moved,
                    link, backlog, asked, room, signalled, late>>
    BY <1>8 DEF Save, kernelVars
  <2>. QED
    BY <2>1, <2>2 DEF TypeOK, Fds
<1>6. CASE RoundOver \/ Skip
  <2>1. index' \in 1..(Len(pollFds) + 1)
    BY <1>6 DEF TypeOK, RoundOver, Skip, Visiting
  <2>2. phase' \in Phases /\ late' \subseteq Peers
    BY <1>6 DEF TypeOK, RoundOver, Skip, Phases
  <2>3. UNCHANGED <<limit, isRunning, sockets, outgoing, pollFds, moved, outcome,
                    link, backlog, asked, room, signalled>>
    BY <1>6 DEF RoundOver, Skip, kernelVars
  <2>. QED
    BY <2>1, <2>2, <2>3 DEF TypeOK, Fds
<1>7. CASE AcceptFails \/ ReadFails \/ WriteFails
  BY <1>7 DEF TypeOK, AcceptFails, ReadFails, WriteFails, die, Phases, Outcomes,
              Fds, kernelVars
<1>. QED
  BY <1>1, <1>2, <1>3, <1>4, <1>5, <1>6, <1>7, <1>8

\* What an action that visits a client knows of it.
LEMMA Visits ==
  ASSUME TypeOK, EntriesAgree, ClientVisited,
         \/ DropLost \/ ReadFails \/ Read \/ NothingToWrite \/ DropIdle
         \/ WriteFails \/ Write \/ WriteMore \/ WriteReturns
         \/ SignalEndsWrite
  PROVE  /\ phase \in {"round", "flush", "writing"}
         /\ index \in DOMAIN pollFds /\ index \in 1..Len(pollFds)
         /\ current.fd # listenFd /\ current.revents # {}
         /\ current.fd \in DOMAIN sockets /\ DOMAIN outgoing = DOMAIN sockets
         /\ peerAt(current.fd) \in Peers
         /\ outgoing[current.fd] \in Nat
         /\ phase = "writing" => moved <= outgoing[current.fd]
<1>1. phase \in {"round", "flush", "writing"}
  BY DEF DropLost, ReadFails, Read, NothingToWrite, DropIdle, WriteFails, Write,
         WriteMore, WriteReturns, SignalEndsWrite, Visiting, AtWrite,
         readsNothing, writesNothing
<1>2. index <= Len(pollFds)
  BY DEF DropLost, ReadFails, Read, NothingToWrite, DropIdle, WriteFails, Write,
         WriteMore, WriteReturns, SignalEndsWrite, Visiting, AtWrite
<1>3. index \in 1..Len(pollFds) /\ index \in DOMAIN pollFds
  BY <1>2 DEF TypeOK
<1>4. phase = "round" => current.fd # listenFd /\ current.revents # {}
  BY DEF DropLost, ReadFails, Read, NothingToWrite, DropIdle, WriteFails, Write,
         WriteMore, WriteReturns, SignalEndsWrite, Visiting, AtWrite,
         readsNothing, writesNothing, wantsRead, isClient
<1>5. current.fd # listenFd /\ current.revents # {}
  BY <1>1, <1>4 DEF ClientVisited
<1>. QED
  BY <1>1, <1>3, <1>5, VisitedClient DEF Looping, ClientVisited

LEMMA TypeVisit ==
  ASSUME TypeOK, EntriesAgree, ClientVisited,
         \/ DropLost \/ Read \/ NothingToWrite \/ DropIdle \/ Write \/ WriteMore
         \/ WriteReturns \/ SignalEndsWrite
  PROVE  TypeOK'
<1>1. CASE DropLost \/ DropIdle
  BY <1>1, Visits, TypeRemoved DEF DropLost, DropIdle
<1>2. CASE Read
  BY <1>2, Visits, TypeRead
<1>3. CASE Write \/ WriteMore
  BY <1>3, Visits, TypeWrite
<1>4. CASE NothingToWrite
  <2>1. keep(outgoing) /\ moved' = moved
        /\ UNCHANGED <<limit, isRunning, sockets, outcome, kernelVars, signalled, late>>
    BY <1>4 DEF NothingToWrite
  <2>2. /\ DOMAIN outgoing \subseteq Fds /\ Range(outgoing) \subseteq Nat
        /\ moved' \in Nat /\ isRunning' \in BOOLEAN
        /\ signalled' \in {"no", "loading", "armed", "entering", "later"}
    BY <2>1 DEF TypeOK
  <2>. QED
    BY <1>4, <2>1, <2>2, Visits, TypeKept
<1>5. CASE WriteReturns \/ SignalEndsWrite
  <2>1. keep(consumeQueuedData) /\ moved' = 0 /\ phase = "writing"
        /\ UNCHANGED <<limit, sockets, outcome, kernelVars, late>>
    BY <1>5 DEF WriteReturns, SignalEndsWrite, handleSignal, Visiting
  <2>2. /\ DOMAIN consumeQueuedData \subseteq Fds
        /\ Range(consumeQueuedData) \subseteq Nat
    BY <1>5, <2>1, Visits, ConsumedTyped
  <2>3. /\ isRunning' \in BOOLEAN
        /\ signalled' \in {"no", "loading", "armed", "entering", "later"}
    BY <1>5, <2>1 DEF TypeOK, WriteReturns, SignalEndsWrite, handleSignal
  <2>4. index \in DOMAIN pollFds
    BY <1>5, Visits
  <2>. QED
    BY <2>1, <2>2, <2>3, <2>4, TypeKept
<1>. QED
  BY <1>1, <1>2, <1>3, <1>4, <1>5

LEMMA TypeSignal ==
  ASSUME TypeOK, SignalKills \/ SignalWakes \/ SignalElsewhere
  PROVE  TypeOK'
<1>1. UNCHANGED <<limit, sockets, outgoing, pollFds, index, moved, link, backlog,
                  asked, room, late>>
  BY DEF SignalKills, SignalWakes, SignalElsewhere, handleSignal, kernelVars
<1>2. phase' \in Phases /\ outcome' \in Outcomes /\ isRunning' \in BOOLEAN
      /\ signalled' \in {"no", "loading", "armed", "entering", "later"}
  BY DEF TypeOK, SignalKills, SignalWakes, SignalElsewhere, handleSignal,
         afterEINTR, Phases, Outcomes
<1>. QED
  BY <1>1, <1>2 DEF TypeOK, Fds

LEMMA TypePeer ==
  ASSUME TypeOK, PeerStep
  PROVE  TypeOK'
<1>1. PICK p \in Peers : Connect(p) \/ Ask(p) \/ Receive(p) \/ Close(p)
                          \/ Reset(p) \/ Refuse(p)
  BY DEF PeerStep
<1>2. UNCHANGED <<limit, phase, isRunning, sockets, outgoing, pollFds, index,
                  moved, outcome, signalled>>
  BY <1>1 DEF Connect, Ask, Receive, Close, Reset, Refuse, reset, serverVars
<1>3. Room \in 0..Room /\ MaxAsked \in Nat /\ 0 \in 0..MaxAsked
  BY PollLoopConstants
<1>4. link' \in [Peers -> {"none", "open", "closed", "reset"}]
  BY <1>1 DEF TypeOK, Connect, Ask, Receive, Close, Reset, Refuse, reset
<1>5. asked' \in [Peers -> 0..MaxAsked]
  <2>1. CASE Ask(p)
    <3>1. asked[p] \in 0..MaxAsked /\ asked[p] < MaxAsked
      BY <2>1 DEF TypeOK, Ask
    <3>2. asked[p] + 1 \in 0..MaxAsked
      BY <1>3, <3>1
    <3>3. asked' = [asked EXCEPT ![p] = asked[p] + 1]
      BY <2>1 DEF Ask
    <3>. QED
      BY <3>2, <3>3 DEF TypeOK
  <2>2. CASE Reset(p) \/ Refuse(p)
    <3>1. PICK n \in {0, asked[p]} : asked' = [asked EXCEPT ![p] = n]
      BY <2>2 DEF Reset, Refuse, reset
    <3>2. asked[p] \in 0..MaxAsked
      BY DEF TypeOK
    <3>3. n \in 0..MaxAsked
      BY <1>3, <3>2
    <3>. QED
      BY <3>1, <3>3 DEF TypeOK
  <2>. QED
    BY <1>1, <2>1, <2>2 DEF TypeOK, Connect, Receive, Close
<1>6. room' \in [Peers -> 0..Room]
  BY <1>1, <1>3 DEF TypeOK, Connect, Ask, Receive, Close, Reset, Refuse, reset
<1>7. backlog' \subseteq Peers /\ late' \subseteq Peers
  BY <1>1 DEF TypeOK, Connect, Ask, Receive, Close, Reset, Refuse, reset
<1>. QED
  BY <1>2, <1>4, <1>5, <1>6, <1>7 DEF TypeOK, Fds

LEMMA TypeStep ==
  ASSUME TypeOK, NoneOutsideLoop, EntriesAgree, ClientVisited, Next
  PROVE  TypeOK'
BY TypeSimple, TypeAccept, TypeVisit, TypeSignal, TypePeer
   DEF Next, ServerStep, Signal
-----------------------------------------------------------------------------
(* Sockets, buffers and entries                                             *)

\* Nothing happens after the process has ended.
LEMMA NotDown ==
  ASSUME Next
  PROVE  phase # "down"
<1>1. ASSUME ServerStep PROVE phase # "down"
  BY <1>1 DEF ServerStep, Load, EnterLoop, Test, Sleep, Wake, WakeToLeave, LeaveLoop,
              Save, RoundOver, Skip, Accept, AcceptFails, DropLost, ReadFails,
              Read, NothingToWrite, DropIdle, WriteFails, Write, WriteMore,
              WriteReturns, Visiting, AtWrite, readsNothing, writesNothing
<1>2. ASSUME Signal PROVE phase # "down"
  BY <1>2 DEF Signal, SignalKills, SignalWakes, SignalEndsWrite,
              SignalElsewhere, Visiting
<1>. QED
  BY <1>1, <1>2 DEF Next, PeerStep

LEMMA RemovedEntries ==
  ASSUME TypeOK, index \in DOMAIN pollFds, removeClientAt
  PROVE  /\ DOMAIN pollFds' = 1..(Len(pollFds) - 1)
         /\ \A j \in DOMAIN pollFds' :
              /\ j < index => j \in DOMAIN pollFds /\ pollFds'[j] = pollFds[j]
              /\ index <= j => j + 1 \in DOMAIN pollFds /\ pollFds'[j] = pollFds[j + 1]
<1>1. pollFds \in Seq(Entries) /\ index \in 1..Len(pollFds)
  BY DEF TypeOK, Entries
<1>2. /\ pollFds' \in Seq(Entries) /\ Len(pollFds') = Len(pollFds) - 1
      /\ \A j \in 1..(Len(pollFds) - 1) :
           pollFds'[j] = IF j < index THEN pollFds[j] ELSE pollFds[j + 1]
  BY <1>1, RemoveAtProperties DEF removeClientAt
<1>3. DOMAIN pollFds' = 1..(Len(pollFds) - 1)
  BY <1>2
<1>. QED
  BY <1>1, <1>2, <1>3

LEMMA EntriesRemoved ==
  ASSUME TypeOK, EntriesAgree, Looping, index \in DOMAIN pollFds,
         current.fd # listenFd, removeClientAt
  PROVE  EntriesAgree'
<1>. DEFINE c == current.fd
<1>1. index \in 1..Len(pollFds) /\ DOMAIN pollFds = 1..Len(pollFds)
      /\ Len(pollFds) \in Nat
  BY DEF TypeOK
<1>2. DOMAIN sockets' = DOMAIN sockets \ {c} /\ DOMAIN outgoing' = DOMAIN outgoing \ {c}
  BY DEF removeClientAt, forgetSocket, Restrict
<1>3. \A i, j \in DOMAIN pollFds : pollFds[i].fd = pollFds[j].fd => i = j
  BY DEF EntriesAgree
<1>. DEFINE old(j) == IF j < index THEN j ELSE j + 1
<1>4. \A j \in DOMAIN pollFds' :
        old(j) \in DOMAIN pollFds \ {index} /\ pollFds'[j] = pollFds[old(j)]
  BY <1>1, RemovedEntries
<1>5. \A i, j \in DOMAIN pollFds' : old(i) = old(j) => i = j
  <2>1. DOMAIN pollFds' \subseteq Int
    BY RemovedEntries
  <2>. QED
    BY <1>1, <2>1
<1>6. \A i \in DOMAIN pollFds \ {index} : \E j \in DOMAIN pollFds' : old(j) = i
  <2>. SUFFICES ASSUME NEW i \in DOMAIN pollFds \ {index}
                PROVE  \E j \in DOMAIN pollFds' : old(j) = i
    OBVIOUS
  <2>1. CASE i < index
    <3>1. i \in 1..(Len(pollFds) - 1)
      BY <1>1, <2>1
    <3>. QED
      BY <2>1, <3>1, RemovedEntries
  <2>2. CASE i > index
    <3>1. i - 1 \in 1..(Len(pollFds) - 1) /\ old(i - 1) = i
      BY <1>1, <2>2
    <3>. QED
      BY <3>1, RemovedEntries
  <2>. QED
    BY <1>1, <2>1, <2>2
<1>. HIDE DEF old
<1>7. \A i \in DOMAIN pollFds \ {index} : pollFds[i].fd # c
  BY <1>3 DEF current
<1>8. \A i, j \in DOMAIN pollFds' : pollFds'[i].fd = pollFds'[j].fd => i = j
  BY <1>3, <1>4, <1>5
<1>9. \A i \in DOMAIN pollFds' : pollFds'[i].fd \in DOMAIN sockets' \union {listenFd}
  BY <1>2, <1>4, <1>7 DEF EntriesAgree
<1>10. ASSUME NEW f \in DOMAIN sockets' \union {listenFd}
       PROVE  \E i \in DOMAIN pollFds' : pollFds'[i].fd = f
  <2>1. f \in DOMAIN sockets \union {listenFd} /\ f # c
    BY <1>2
  <2>2. PICK i \in DOMAIN pollFds : pollFds[i].fd = f
    BY <2>1 DEF EntriesAgree
  <2>3. i \in DOMAIN pollFds \ {index}
    BY <2>1, <2>2 DEF current
  <2>4. PICK j \in DOMAIN pollFds' : old(j) = i
    BY <1>6, <2>3
  <2>. QED
    BY <1>4, <2>2, <2>4
<1>11. DOMAIN outgoing' = DOMAIN sockets'
  BY <1>2 DEF EntriesAgree
<1>. QED
  BY <1>8, <1>9, <1>10, <1>11 DEF EntriesAgree, listenFd

\* The entries keep their descriptors, so do the sockets.
LEMMA EntriesKept ==
  ASSUME EntriesAgree, Looping,
         DOMAIN pollFds' = DOMAIN pollFds,
         \A i \in DOMAIN pollFds : pollFds'[i].fd = pollFds[i].fd,
         sockets' = sockets, DOMAIN outgoing' = DOMAIN outgoing
  PROVE  EntriesAgree'
BY DEF EntriesAgree, listenFd

LEMMA KeptEntries ==
  ASSUME TypeOK, index \in DOMAIN pollFds, NEW out, keep(out)
  PROVE  /\ DOMAIN pollFds' = DOMAIN pollFds
         /\ \A i \in DOMAIN pollFds : pollFds'[i].fd = pollFds[i].fd
         /\ \A i \in DOMAIN pollFds \ {index} : pollFds'[i] = pollFds[i]
BY DEF keep, current, Entry

LEMMA AcceptedEntries ==
  ASSUME TypeOK, Accept
  PROVE  /\ index \in 1..Len(pollFds) /\ DOMAIN pollFds = 1..Len(pollFds)
         /\ DOMAIN pollFds' = 1..(Len(pollFds) + 1)
         /\ \A i \in DOMAIN pollFds : pollFds'[i].fd = pollFds[i].fd
         /\ \A i \in DOMAIN pollFds \ {index} : pollFds'[i] = pollFds[i]
         /\ pollFds'[index].revents = {}
         /\ \E fd \in Free, p \in backlog :
              /\ sockets' = emplace(sockets, fd, p)
              /\ outgoing' = emplace(outgoing, fd, 0)
              /\ backlog' = backlog \ {p}
              /\ pollFds'[Len(pollFds) + 1] = Entry(fd, {"IN"})
<1>1. PICK fd \in accepted, p \in backlog :
        /\ backlog' = backlog \ {p}
        /\ sockets' = emplace(sockets, fd, p)
        /\ outgoing' = emplace(outgoing, fd, 0)
        /\ pollFds' = Append([pollFds EXCEPT ![index].revents = {}],
                             Entry(fd, {"IN"}))
  BY DEF Accept
<1>2. index \in 1..Len(pollFds) /\ DOMAIN pollFds = 1..Len(pollFds)
      /\ pollFds \in Seq(Entries)
  BY DEF Accept, Visiting, TypeOK, Entries
<1>. DEFINE kept == [pollFds EXCEPT ![index].revents = {}]
<1>3. \A e \in Entries : [e EXCEPT !.revents = {}] \in Entries
                         /\ [e EXCEPT !.revents = {}].fd = e.fd
                         /\ [e EXCEPT !.revents = {}].revents = {}
  BY DEF Entries
<1>4. kept \in Seq(Entries) /\ Len(kept) = Len(pollFds)
      /\ (\A i \in DOMAIN pollFds : kept[i].fd = pollFds[i].fd)
      /\ (\A i \in DOMAIN pollFds \ {index} : kept[i] = pollFds[i])
      /\ kept[index].revents = {}
  BY <1>2, <1>3
<1>. HIDE DEF kept
<1>5. pollFds' = Append(kept, Entry(fd, {"IN"}))
  BY <1>1 DEF kept
<1>6. /\ DOMAIN pollFds' = 1..(Len(pollFds) + 1)
      /\ \A i \in 1..Len(pollFds) : pollFds'[i] = kept[i]
      /\ pollFds'[Len(pollFds) + 1] = Entry(fd, {"IN"})
  BY <1>4, <1>5
<1>. QED
  BY <1>1, <1>2, <1>4, <1>6 DEF accepted

LEMMA EntriesAccepted ==
  ASSUME TypeOK, EntriesAgree, Accept
  PROVE  EntriesAgree'
<1>1. PICK fd \in Free, p \in backlog :
        /\ sockets' = emplace(sockets, fd, p)
        /\ outgoing' = emplace(outgoing, fd, 0)
        /\ pollFds'[Len(pollFds) + 1] = Entry(fd, {"IN"})
  BY AcceptedEntries
<1>2. /\ DOMAIN sockets' = DOMAIN sockets \union {fd}
      /\ DOMAIN outgoing' = DOMAIN outgoing \union {fd}
  BY <1>1 DEF emplace
<1>3. fd \notin DOMAIN sockets \union {listenFd}
  BY DEF Free
<1>. DEFINE last == Len(pollFds) + 1
<1>4. /\ DOMAIN pollFds' = DOMAIN pollFds \union {last} /\ last \notin DOMAIN pollFds
      /\ \A i \in DOMAIN pollFds : pollFds'[i].fd = pollFds[i].fd
  <2>1. Len(pollFds) \in Nat
    BY DEF TypeOK
  <2>. QED
    BY <2>1, AcceptedEntries
<1>5. pollFds'[last].fd = fd
  BY <1>1 DEF Entry
<1>. HIDE DEF last
<1>6. Looping
  BY DEF Accept, Visiting, Looping
<1>. QED
  BY <1>2, <1>3, <1>4, <1>5, <1>6 DEF EntriesAgree, listenFd

LEMMA ConnectionsSame ==
  ASSUME ConnectionsKnown, phase # "down",
         UNCHANGED <<sockets, backlog>>,
         \A p \in Peers : link'[p] # "none" <=> link[p] # "none"
  PROVE  ConnectionsKnown'
BY DEF ConnectionsKnown

LEMMA ConnectionsAccepted ==
  ASSUME TypeOK, ConnectionsKnown, Accept
  PROVE  ConnectionsKnown'
<1>1. PICK fd \in Free, p \in backlog :
        /\ sockets' = emplace(sockets, fd, p)
        /\ backlog' = backlog \ {p}
  BY AcceptedEntries
<1>2. phase # "down" /\ phase' # "down" /\ link' = link
  BY DEF Accept, Visiting
<1>3. fd \notin DOMAIN sockets /\ p \in Peers
  BY DEF Free, TypeOK
<1>4. /\ DOMAIN sockets' = DOMAIN sockets \union {fd}
      /\ \A f \in DOMAIN sockets : sockets'[f] = sockets[f]
      /\ sockets'[fd] = p
  BY <1>1, <1>3 DEF emplace
<1>. QED
  BY <1>1, <1>2, <1>3, <1>4 DEF ConnectionsKnown

LEMMA ConnectionsRemoved ==
  ASSUME TypeOK, ConnectionsKnown, phase # "down", current.fd \in DOMAIN sockets,
         peerAt(current.fd) \in Peers, removeClientAt
  PROVE  ConnectionsKnown'
<1>. DEFINE c == current.fd
            p == peerAt(current.fd)
<1>1. DOMAIN sockets' = DOMAIN sockets \ {c}
      /\ \A f \in DOMAIN sockets' : sockets'[f] = sockets[f]
  BY DEF removeClientAt, forgetSocket, Restrict
<1>2. backlog' = backlog /\ link' = [link EXCEPT ![p] = "none"]
  BY DEF removeClientAt
<1>3. p = sockets[c]
  BY DEF peerAt
<1>4. \A q \in Peers : link'[q] = IF q = p THEN "none" ELSE link[q]
  BY <1>2 DEF TypeOK
<1>. HIDE DEF c, p
<1>5. c \in DOMAIN sockets
  BY DEF c
<1>. QED
  BY <1>1, <1>2, <1>3, <1>4, <1>5 DEF ConnectionsKnown

\* A step that leaves descriptors, sockets and buffers where they are.
StaysPut == pollFds' = pollFds /\ sockets' = sockets /\ outgoing' = outgoing

LEMMA EntriesStep ==
  ASSUME TypeOK, NoneOutsideLoop, EntriesAgree, ClientVisited, Next
  PROVE  EntriesAgree'
<1>. SUFFICES ASSUME Looping'
              PROVE  EntriesAgree'
  BY DEF EntriesAgree
<1>1. CASE EnterLoop
  <2>1. DOMAIN sockets' = {} /\ DOMAIN outgoing' = {} /\ sockets' = sockets
        /\ pollFds' = <<Entry(listenFd, {"IN"})>>
    BY <1>1 DEF EnterLoop, NoneOutsideLoop
  <2>2. DOMAIN pollFds' = {1} /\ pollFds'[1].fd = listenFd
    BY <2>1 DEF Entry
  <2>. QED
    BY <2>1, <2>2 DEF EntriesAgree, listenFd
<1>2. CASE Test
  <2>1. Looping /\ pollFds' = refreshAllPollInterests /\ sockets' = sockets
        /\ outgoing' = outgoing
    BY <1>2 DEF Test, Looping
  <2>2. DOMAIN pollFds' = DOMAIN pollFds
        /\ \A i \in DOMAIN pollFds : pollFds'[i].fd = pollFds[i].fd
    <3>1. pollFds \in Seq(Entries) /\ pollFds' \in Seq(Entries)
          /\ Len(pollFds') = Len(pollFds)
      BY <2>1, RefreshTyped DEF TypeOK, Entries
    <3>2. \A i \in 1..Len(pollFds) : pollFds'[i].fd = pollFds[i].fd
      BY <2>1, RefreshTyped
    <3>. QED
      BY <3>1, <3>2
  <2>. QED
    BY <2>1, <2>2, EntriesKept
<1>3. CASE Wake
  <2>1. Looping /\ sockets' = sockets /\ outgoing' = outgoing
        /\ pollFds' = [i \in DOMAIN pollFds |->
                         [pollFds[i] EXCEPT !.revents = Ready(pollFds[i])]]
    BY <1>3 DEF Wake, Looping
  <2>2. \A e \in Entries : \A r : [e EXCEPT !.revents = r].fd = e.fd
    BY DEF Entries
  <2>3. DOMAIN pollFds' = DOMAIN pollFds
        /\ \A i \in DOMAIN pollFds : pollFds'[i].fd = pollFds[i].fd
    <3>1. pollFds \in Seq(Entries)
      BY DEF TypeOK, Entries
    <3>2. \A i \in DOMAIN pollFds : pollFds[i] \in Entries
      BY <3>1
    <3>. QED
      BY <2>1, <2>2, <3>2
  <2>. QED
    BY <2>1, <2>3, EntriesKept
<1>4. CASE Accept
  BY <1>4, EntriesAccepted
<1>5. CASE DropLost \/ DropIdle
  BY <1>5, Visits, EntriesRemoved DEF DropLost, DropIdle, Looping
<1>6. CASE NothingToWrite \/ WriteReturns \/ SignalEndsWrite
  <2>1. PICK out \in {outgoing, consumeQueuedData} : keep(out)
    BY <1>6 DEF NothingToWrite, WriteReturns, SignalEndsWrite
  <2>2. sockets' = sockets /\ outgoing' = out
    BY <1>6, <2>1 DEF NothingToWrite, WriteReturns, SignalEndsWrite,
                      handleSignal, keep
  <2>3. DOMAIN outgoing' = DOMAIN outgoing
    BY <2>1, <2>2 DEF consumeQueuedData
  <2>4. Looping
    BY <1>6, Visits DEF Looping
  <2>. QED
    BY <1>6, <2>1, <2>2, <2>3, <2>4, Visits, KeptEntries, EntriesKept
<1>7. CASE Read
  <2>1. DOMAIN outgoing' = DOMAIN outgoing /\ pollFds' = pollFds /\ sockets' = sockets
    BY <1>7 DEF Read
  <2>. QED
    BY <1>7, <2>1, Visits, EntriesKept DEF Looping
<1>8. CASE Sleep \/ RoundOver \/ Skip \/ Write \/ WriteMore
  <2>1. StaysPut /\ Looping
    BY <1>8 DEF StaysPut, Sleep, RoundOver, Skip, Write, WriteMore, AtWrite,
                Visiting, Looping
  <2>. QED
    BY <2>1, EntriesKept DEF StaysPut
<1>9. CASE SignalWakes \/ SignalElsewhere
  <2>1. StaysPut /\ Looping
    BY <1>9 DEF StaysPut, SignalWakes, SignalElsewhere, handleSignal, Looping
  <2>. QED
    BY <2>1, EntriesKept DEF StaysPut
<1>10. CASE PeerStep
  <2>1. StaysPut /\ phase' = phase
    BY <1>10 DEF PeerStep, StaysPut, serverVars, Connect, Ask, Receive, Close,
                 Reset, Refuse, reset
  <2>. QED
    BY <2>1, EntriesKept DEF StaysPut, Looping
<1>11. CASE \/ Load \/ Save \/ LeaveLoop \/ WakeToLeave \/ AcceptFails
            \/ ReadFails \/ WriteFails \/ SignalKills
  BY <1>11 DEF Load, Save, LeaveLoop, WakeToLeave, leaveLoop, AcceptFails,
               ReadFails, WriteFails, die, SignalKills, Looping
<1>. QED
  BY <1>1, <1>2, <1>3, <1>4, <1>5, <1>6, <1>7, <1>8, <1>9, <1>10, <1>11
     DEF Next, ServerStep, Signal

LEMMA ConnectionsStep ==
  ASSUME TypeOK, EntriesAgree, ClientVisited, ConnectionsKnown, Next
  PROVE  ConnectionsKnown'
<1>0. phase # "down"
  BY NotDown
<1>1. CASE Accept
  BY <1>1, ConnectionsAccepted
<1>2. CASE DropLost \/ DropIdle
  BY <1>0, <1>2, Visits, ConnectionsRemoved DEF DropLost, DropIdle
<1>3. CASE LeaveLoop \/ WakeToLeave
  <2>1. DOMAIN sockets' = {} /\ backlog' = {} /\ \A p \in Peers : link'[p] = "none"
    BY <1>3 DEF LeaveLoop, WakeToLeave, leaveLoop
  <2>. QED
    BY <2>1 DEF ConnectionsKnown
<1>4. CASE PeerStep
  <2>1. PICK p \in Peers : Connect(p) \/ Ask(p) \/ Receive(p) \/ Close(p)
                            \/ Reset(p) \/ Refuse(p)
    BY <1>4 DEF PeerStep
  <2>2. CASE Connect(p)
    <3>1. link[p] = "none" /\ backlog' = backlog \union {p} /\ sockets' = sockets
      BY <2>2 DEF Connect, serverVars
    <3>2. \A q \in Peers : link'[q] = IF q = p THEN "open" ELSE link[q]
      BY <2>2 DEF Connect, TypeOK
    <3>. QED
      BY <1>0, <3>1, <3>2 DEF ConnectionsKnown
  <2>3. CASE ~Connect(p)
    <3>1. UNCHANGED <<sockets, backlog>>
      BY <2>1, <2>3 DEF Ask, Receive, Close, Reset, Refuse, reset, serverVars
    <3>2. \A q \in Peers : link'[q] # "none" <=> link[q] # "none"
      BY <2>1, <2>3 DEF Ask, Receive, Close, Reset, Refuse, reset, TypeOK
    <3>. QED
      BY <1>0, <3>1, <3>2, ConnectionsSame
  <2>. QED
    BY <2>2, <2>3
<1>5. CASE \/ Load \/ EnterLoop \/ Test \/ Sleep \/ Wake \/ Save \/ RoundOver \/ Skip
           \/ AcceptFails \/ ReadFails \/ Read \/ NothingToWrite \/ WriteFails
           \/ Write \/ WriteMore \/ WriteReturns \/ Signal
  <2>1. UNCHANGED <<sockets, backlog, link>>
    BY <1>5 DEF Load, EnterLoop, Test, Sleep, Wake, Save, RoundOver, Skip,
                AcceptFails, ReadFails, Read, NothingToWrite, WriteFails, Write,
                WriteMore, WriteReturns, Signal, SignalKills, SignalWakes,
                SignalEndsWrite, SignalElsewhere, handleSignal, die, kernelVars
  <2>. QED
    BY <1>0, <2>1, ConnectionsSame
<1>. QED
  BY <1>1, <1>2, <1>3, <1>4, <1>5 DEF Next, ServerStep

LEMMA OutsideStep ==
  ASSUME TypeOK, NoneOutsideLoop, Next
  PROVE  NoneOutsideLoop'
<1>1. CASE ServerStep
  BY <1>1 DEF NoneOutsideLoop, ServerStep, Load, EnterLoop, Test, Sleep, Wake,
              WakeToLeave, LeaveLoop, leaveLoop, Save, RoundOver, Skip, Accept,
              AcceptFails, DropLost, ReadFails, Read, NothingToWrite, DropIdle,
              WriteFails, Write, WriteMore, WriteReturns, Visiting, AtWrite,
              removeClientAt, keep, die
<1>2. CASE Signal
  BY <1>2 DEF NoneOutsideLoop, Signal, SignalKills, SignalWakes, afterEINTR,
              SignalEndsWrite, SignalElsewhere, handleSignal, keep
<1>3. CASE PeerStep
  BY <1>3 DEF NoneOutsideLoop, PeerStep, serverVars, Connect, Ask, Receive, Close,
              Reset, Refuse, reset
<1>. QED
  BY <1>1, <1>2, <1>3 DEF Next

LEMMA VisitedStep ==
  ASSUME TypeOK, EntriesAgree, ClientVisited, Next
  PROVE  ClientVisited'
<1>. SUFFICES ASSUME phase' \in {"flush", "writing"}
              PROVE  ClientVisited'
  BY DEF ClientVisited
<1>1. CASE Read
  BY <1>1, Visits DEF Read, wantsRead, isClient, lostFirst, ClientVisited, current
<1>2. CASE Write \/ WriteMore
  <2>1. moved' <= outgoing'[current'.fd]
    BY <1>2, Visits, TypeWrite
  <2>2. index' = index /\ pollFds' = pollFds
    BY <1>2 DEF Write, WriteMore
  <2>3. "HUP" \notin current.revents
    BY <1>2 DEF Write, WriteMore, AtWrite, Visiting, lostFirst, ClientVisited
  <2>. QED
    BY <1>2, <2>1, <2>2, <2>3, Visits DEF ClientVisited, current
<1>3. CASE SignalElsewhere
  BY <1>3 DEF SignalElsewhere, handleSignal, ClientVisited, current
<1>4. CASE PeerStep
  <2>1. UNCHANGED <<phase, index, pollFds, moved, outgoing>>
    BY <1>4 DEF PeerStep, serverVars, Connect, Ask, Receive, Close,
                Reset, Refuse, reset
  <2>. QED
    BY <2>1 DEF ClientVisited, current
<1>5. CASE ServerStep /\ ~Read /\ ~Write /\ ~WriteMore
  BY <1>5 DEF ServerStep, Load, EnterLoop, Test, Sleep, Wake,
              WakeToLeave, LeaveLoop, leaveLoop, Save, RoundOver, Skip, Accept,
              AcceptFails, DropLost, ReadFails, NothingToWrite, DropIdle,
              WriteFails, WriteReturns, Visiting, removeClientAt, keep, die
<1>6. CASE SignalKills \/ SignalWakes \/ SignalEndsWrite
  BY <1>6 DEF SignalKills, SignalWakes, afterEINTR, SignalEndsWrite, keep
<1>. QED
  BY <1>1, <1>2, <1>3, <1>4, <1>5, <1>6 DEF Next, Signal

-----------------------------------------------------------------------------
(* What poll() reported                                                     *)

\* Another client's entry has another peer.
LEMMA OtherPeers ==
  ASSUME TypeOK, EntriesAgree, ConnectionsKnown, Looping,
         NEW i \in DOMAIN pollFds, pollFds[i].fd # listenFd
  PROVE  /\ pollFds[i].fd \in DOMAIN sockets
         /\ peerAt(pollFds[i].fd) \in Peers
         /\ link[peerAt(pollFds[i].fd)] # "none"
         /\ i # index /\ index \in DOMAIN pollFds /\ current.fd # listenFd =>
              /\ pollFds[i].fd # current.fd
              /\ peerAt(pollFds[i].fd) # peerAt(current.fd)
<1>1. pollFds[i].fd \in DOMAIN sockets
  BY DEF EntriesAgree
<1>2. peerAt(pollFds[i].fd) \in Peers
  BY <1>1 DEF TypeOK, Range, peerAt
<1>3. link[peerAt(pollFds[i].fd)] # "none"
  BY <1>1, <1>2 DEF ConnectionsKnown, peerAt, Looping
<1>4. ASSUME i # index, index \in DOMAIN pollFds, current.fd # listenFd
      PROVE  /\ pollFds[i].fd # current.fd
             /\ peerAt(pollFds[i].fd) # peerAt(current.fd)
  <2>1. pollFds[i].fd # current.fd /\ current.fd \in DOMAIN sockets
    BY <1>4 DEF EntriesAgree, current
  <2>. QED
    BY <1>1, <2>1 DEF ConnectionsKnown, peerAt, Looping
<1>. QED
  BY <1>1, <1>2, <1>3, <1>4

\* poll() itself reports the truth.
LEMMA ReadinessWoken ==
  ASSUME TypeOK, Wake
  PROVE  ReadinessExplained'
<1>. SUFFICES ASSUME NEW i \in DOMAIN pollFds', pollFds'[i].fd # listenFd
              PROVE  StillTrue(i)'
  BY DEF ReadinessExplained, listenFd
<1>1. pollFds' = [j \in DOMAIN pollFds |->
                    [pollFds[j] EXCEPT !.revents = Ready(pollFds[j])]]
      /\ UNCHANGED <<sockets, link, asked, room, late>>
  BY DEF Wake, kernelVars
<1>2. i \in DOMAIN pollFds /\ pollFds[i] \in Entries
  <2>1. pollFds \in Seq(Entries) /\ DOMAIN pollFds' = DOMAIN pollFds
    BY <1>1 DEF TypeOK, Entries
  <2>. QED
    BY <2>1
<1>. DEFINE e == pollFds[i]
            p == peerAt(e.fd)
<1>3. pollFds'[i].fd = e.fd /\ pollFds'[i].revents = Ready(e)
  BY <1>1, <1>2 DEF Entries
<1>4. e.fd # listenFd /\ e.events \subseteq {"IN", "OUT"}
  BY <1>2, <1>3 DEF Entries
<1>. HIDE DEF e
<1>5. /\ "HUP" \in Ready(e) <=> link[p] = "reset"
      /\ "IN" \in Ready(e) => asked[p] > 0 \/ link[p] \in {"closed", "reset"}
      /\ "OUT" \in Ready(e) => room[p] > 0 \/ link[p] # "open"
  BY <1>4 DEF Ready
<1>. QED
  BY <1>1, <1>3, <1>5 DEF StillTrue, peerAt

\* A step that leaves the entries behind the index, and all that is known of
\* their peers, as they are.
LEMMA ReadinessKept ==
  ASSUME TypeOK, EntriesAgree, ConnectionsKnown, ReadinessExplained,
         phase \in {"round", "flush", "writing"},
         index' = index + 1 \/ (index' = index /\ phase' = phase),
         DOMAIN pollFds' = DOMAIN pollFds,
         \A i \in DOMAIN pollFds : pollFds'[i].fd = pollFds[i].fd,
         \A i \in DOMAIN pollFds : index' <= i => pollFds'[i] = pollFds[i],
         UNCHANGED <<sockets, link, asked, room, late>>
  PROVE  ReadinessExplained'
<1>. SUFFICES ASSUME NEW i \in DOMAIN pollFds, index' <= i, pollFds'[i].fd # listenFd
              PROVE  StillTrue(i)'
  BY DEF ReadinessExplained, listenFd
<1>1. i \in Int /\ index \in Int
  BY DEF TypeOK
<1>2. index <= i /\ (index' = index + 1 => index < i)
  BY <1>1
<1>3. StillTrue(i) /\ pollFds'[i] = pollFds[i]
  BY <1>2 DEF ReadinessExplained
<1>. QED
  BY <1>1, <1>2, <1>3 DEF StillTrue, peerAt

LEMMA ReadinessAccepted ==
  ASSUME TypeOK, EntriesAgree, ConnectionsKnown, ReadinessExplained, Accept
  PROVE  ReadinessExplained'
<1>1. PICK fd \in Free, p \in backlog :
        /\ sockets' = emplace(sockets, fd, p)
        /\ pollFds'[Len(pollFds) + 1] = Entry(fd, {"IN"})
  BY AcceptedEntries
<1>2. phase = "round" /\ Looping /\ index' = index + 1
      /\ UNCHANGED <<phase, link, asked, room, late>>
  BY DEF Accept, Visiting, Looping
<1>. SUFFICES ASSUME NEW i \in DOMAIN pollFds', index' <= i, pollFds'[i].fd # listenFd
              PROVE  StillTrue(i)'
  BY DEF ReadinessExplained, listenFd
<1>3. Len(pollFds) \in Nat /\ index \in Int /\ i \in 1..(Len(pollFds) + 1)
      /\ DOMAIN pollFds = 1..Len(pollFds)
  BY AcceptedEntries DEF TypeOK
<1>4. CASE i = Len(pollFds) + 1
  <2>1. pollFds'[i].revents = {}
    BY <1>1, <1>4 DEF Entry
  <2>. QED
    BY <2>1 DEF StillTrue
<1>5. CASE i \in DOMAIN pollFds
  <2>1. i # index /\ index < i
    BY <1>2, <1>3
  <2>2. pollFds'[i] = pollFds[i]
    BY <1>5, <2>1, AcceptedEntries
  <2>3. StillTrue(i)
    BY <1>3, <1>5, <1>2, <2>1, <2>2 DEF ReadinessExplained
  <2>4. pollFds[i].fd \in DOMAIN sockets
    BY <1>2, <1>5, <2>2, OtherPeers
  <2>5. sockets'[pollFds[i].fd] = sockets[pollFds[i].fd]
    BY <1>1, <2>4 DEF emplace
  <2>. QED
    BY <1>2, <2>1, <2>2, <2>3, <2>5 DEF StillTrue, peerAt
<1>. QED
  BY <1>3, <1>4, <1>5

LEMMA ReadinessRemoved ==
  ASSUME TypeOK, EntriesAgree, ConnectionsKnown, ReadinessExplained,
         phase \in {"round", "flush", "writing"}, index \in DOMAIN pollFds,
         current.fd # listenFd, removeClientAt
  PROVE  ReadinessExplained'
<1>. SUFFICES ASSUME NEW j \in DOMAIN pollFds', index' <= j, pollFds'[j].fd # listenFd
              PROVE  StillTrue(j)'
  BY DEF ReadinessExplained, listenFd
<1>. DEFINE i == j + 1
            f == pollFds[i].fd
<1>1. index' = index /\ phase' = "round" /\ late' = late
  BY DEF removeClientAt, nextAfterErase
<1>2. j \in Int /\ index \in Int /\ i \in DOMAIN pollFds /\ pollFds'[j] = pollFds[i]
  BY <1>1, RemovedEntries DEF TypeOK
<1>3. index < i /\ index <= i /\ i # index /\ index <= j
  BY <1>1, <1>2
<1>4. f # listenFd /\ Looping
  BY <1>2 DEF Looping
<1>5. StillTrue(i)
  BY <1>2, <1>3, <1>4 DEF ReadinessExplained
<1>6. f \in DOMAIN sockets /\ f # current.fd /\ peerAt(f) # peerAt(current.fd)
  BY <1>2, <1>3, <1>4, OtherPeers
<1>7. sockets'[f] = sockets[f]
  BY <1>6 DEF removeClientAt, forgetSocket, Restrict
<1>8. /\ link'[sockets[f]] = link[sockets[f]]
      /\ asked'[sockets[f]] = asked[sockets[f]]
      /\ room'[sockets[f]] = room[sockets[f]]
  BY <1>2, <1>4, <1>6, OtherPeers DEF removeClientAt, peerAt, TypeOK
<1>. HIDE DEF i
<1>. QED
  BY <1>1, <1>2, <1>3, <1>5, <1>7, <1>8 DEF StillTrue, peerAt

\* Reading and writing use up what was reported of the visited client only.
LEMMA ReadinessUsed ==
  ASSUME TypeOK, EntriesAgree, ConnectionsKnown, ClientVisited,
         ReadinessExplained, Read \/ Write \/ WriteMore
  PROVE  ReadinessExplained'
<1>1. /\ phase \in {"round", "flush", "writing"} /\ index \in DOMAIN pollFds
      /\ current.fd # listenFd /\ peerAt(current.fd) \in Peers
  BY Visits
<1>2. UNCHANGED <<sockets, pollFds, index, link, late>>
  BY DEF Read, Write, WriteMore
<1>3. \/ Read /\ phase = "round" /\ phase' = "flush" /\ room' = room
      \/ (Write \/ WriteMore) /\ phase' = "writing" /\ asked' = asked
  BY DEF Read, Write, WriteMore, Visiting
<1>. SUFFICES ASSUME NEW i \in DOMAIN pollFds, index <= i, pollFds[i].fd # listenFd
              PROVE  StillTrue(i)'
  BY <1>2 DEF ReadinessExplained, listenFd
<1>. DEFINE p == peerAt(pollFds[i].fd)
<1>4. i \in Int /\ index \in Int
  BY DEF TypeOK
<1>5. StillTrue(i)
  BY <1>1 DEF ReadinessExplained
<1>6. CASE i = index
  BY <1>2, <1>3, <1>4, <1>5, <1>6 DEF StillTrue, peerAt
<1>7. CASE i # index
  <2>1. index < i
    BY <1>4, <1>7
  <2>2. p # peerAt(current.fd) /\ p \in Peers
    BY <1>1, <1>7, OtherPeers DEF Looping
  <2>3. asked'[p] = asked[p] /\ room'[p] = room[p]
    BY <1>3, <2>2 DEF Read, Write, WriteMore, TypeOK
  <2>. QED
    BY <1>2, <1>5, <2>1, <2>3 DEF StillTrue, peerAt
<1>. QED
  BY <1>6, <1>7

LEMMA ReadinessPeer ==
  ASSUME TypeOK, EntriesAgree, ConnectionsKnown, ReadinessExplained, PeerStep
  PROVE  ReadinessExplained'
<1>1. PICK q \in Peers : Connect(q) \/ Ask(q) \/ Receive(q) \/ Close(q)
                          \/ Reset(q) \/ Refuse(q)
  BY DEF PeerStep
<1>2. UNCHANGED <<phase, sockets, pollFds, index>>
  BY <1>1 DEF Connect, Ask, Receive, Close, Reset, Refuse, reset, serverVars
<1>. SUFFICES ASSUME phase \in {"round", "flush", "writing"},
                     NEW i \in DOMAIN pollFds, index <= i, pollFds[i].fd # listenFd
              PROVE  StillTrue(i)'
  BY <1>2 DEF ReadinessExplained, listenFd
<1>. DEFINE p == peerAt(pollFds[i].fd)
<1>3. StillTrue(i)
  BY DEF ReadinessExplained
<1>4. p \in Peers /\ link[p] # "none"
  BY OtherPeers DEF Looping
<1>5. late \subseteq late'
  BY <1>1 DEF Connect, Ask, Receive, Close, Reset, Refuse, reset
<1>6. CASE p # q
  <2>1. link'[p] = link[p] /\ asked'[p] = asked[p] /\ room'[p] = room[p]
    BY <1>1, <1>4, <1>6 DEF Connect, Ask, Receive, Close, Reset, Refuse, reset,
                            TypeOK
  <2>. QED
    BY <1>2, <1>3, <1>5, <2>1 DEF StillTrue, peerAt
<1>7. CASE p = q /\ (Reset(q) \/ Refuse(q))
  <2>1. link'[p] = "reset" /\ p \in late'
    BY <1>4, <1>7 DEF Reset, Refuse, reset, TypeOK
  <2>. QED
    BY <1>2, <2>1 DEF StillTrue, peerAt
<1>8. CASE p = q /\ Close(q)
  <2>1. link[p] = "open" /\ link'[p] = "closed" /\ asked' = asked /\ room' = room
    BY <1>4, <1>8 DEF Close, TypeOK
  <2>. QED
    BY <1>2, <1>3, <2>1 DEF StillTrue, peerAt
<1>9. CASE p = q /\ Ask(q)
  <2>1. link' = link /\ room' = room /\ late' = late
    BY <1>9 DEF Ask
  <2>2. asked'[p] = asked[p] + 1 /\ asked[p] \in Nat
    BY <1>4, <1>9 DEF Ask, TypeOK
  <2>3. asked'[p] > 0
    BY <2>2
  <2>. QED
    BY <1>2, <1>3, <2>1, <2>3 DEF StillTrue, peerAt
<1>10. CASE p = q /\ Receive(q)
  <2>1. link' = link /\ asked' = asked /\ late' = late
    BY <1>10 DEF Receive
  <2>2. room'[p] > 0
    BY <1>4, <1>10, PollLoopConstants DEF Receive, TypeOK
  <2>. QED
    BY <1>2, <1>3, <2>1, <2>2 DEF StillTrue, peerAt
<1>. QED
  BY <1>1, <1>4, <1>6, <1>7, <1>8, <1>9, <1>10 DEF Connect

LEMMA ReadinessStep ==
  ASSUME TypeOK, EntriesAgree, ConnectionsKnown, ClientVisited,
         ReadinessExplained, Next
  PROVE  ReadinessExplained'
<1>. SUFFICES ASSUME phase' \in {"round", "flush", "writing"}
              PROVE  ReadinessExplained'
  BY DEF ReadinessExplained
<1>1. CASE Wake
  BY <1>1, ReadinessWoken
<1>2. CASE Accept
  BY <1>2, ReadinessAccepted
<1>3. CASE DropLost \/ DropIdle
  BY <1>3, Visits, ReadinessRemoved DEF DropLost, DropIdle
<1>4. CASE Read \/ Write \/ WriteMore
  BY <1>4, ReadinessUsed
<1>5. CASE PeerStep
  BY <1>5, ReadinessPeer
<1>6. CASE NothingToWrite \/ WriteReturns \/ SignalEndsWrite
  <2>1. PICK out \in {outgoing, consumeQueuedData} : keep(out)
    BY <1>6 DEF NothingToWrite, WriteReturns, SignalEndsWrite
  <2>2. UNCHANGED <<sockets, link, asked, room, late>> /\ index' = index + 1
    BY <1>6, <2>1 DEF NothingToWrite, WriteReturns, SignalEndsWrite,
                      handleSignal, keep, kernelVars
  <2>3. /\ DOMAIN pollFds' = DOMAIN pollFds
        /\ \A i \in DOMAIN pollFds : pollFds'[i].fd = pollFds[i].fd
        /\ \A i \in DOMAIN pollFds \ {index} : pollFds'[i] = pollFds[i]
    BY <1>6, <2>1, Visits, KeptEntries
  <2>4. index \in Int /\ DOMAIN pollFds \subseteq Int
    BY DEF TypeOK
  <2>5. \A i \in DOMAIN pollFds : index' <= i => pollFds'[i] = pollFds[i]
    BY <2>2, <2>3, <2>4
  <2>. QED
    BY <1>6, <2>2, <2>3, <2>5, Visits, ReadinessKept
<1>7. CASE Skip
  <2>1. phase = "round" /\ index' = index + 1 /\ pollFds' = pollFds
        /\ UNCHANGED <<sockets, link, asked, room, late>>
    BY <1>7 DEF Skip, Visiting, kernelVars
  <2>. QED
    BY <2>1, ReadinessKept
<1>8. CASE SignalElsewhere
  <2>1. UNCHANGED <<phase, index, pollFds, sockets, link, asked, room, late>>
    BY <1>8 DEF SignalElsewhere, handleSignal, kernelVars
  <2>. QED
    BY <2>1, ReadinessKept
<1>9. CASE \/ Load \/ EnterLoop \/ Test \/ Sleep \/ WakeToLeave \/ LeaveLoop \/ Save
           \/ RoundOver \/ AcceptFails \/ ReadFails \/ WriteFails
           \/ SignalKills \/ SignalWakes
  BY <1>9 DEF Load, EnterLoop, Test, Sleep, WakeToLeave, LeaveLoop, leaveLoop, Save,
              RoundOver, AcceptFails, ReadFails, WriteFails, die, SignalKills,
              SignalWakes, afterEINTR
<1>. QED
  BY <1>1, <1>2, <1>3, <1>4, <1>5, <1>6, <1>7, <1>8, <1>9
     DEF Next, ServerStep, Signal

\* Inside a round only removeClientAt forgets a socket.
LEMMA SocketsLost ==
  ASSUME TypeOK, Next, phase' = "round", DOMAIN sockets \ DOMAIN sockets' # {}
  PROVE  DropLost \/ DropIdle
<1>1. ASSUME Accept PROVE FALSE
  <2>1. DOMAIN sockets \subseteq DOMAIN sockets'
    BY <1>1 DEF Accept, emplace
  <2>. QED
    BY <2>1
<1>2. ASSUME LeaveLoop \/ WakeToLeave PROVE FALSE
  BY <1>2 DEF LeaveLoop, WakeToLeave, leaveLoop
<1>3. ASSUME \/ Load \/ EnterLoop \/ Test \/ Sleep \/ Wake \/ Save \/ RoundOver \/ Skip
             \/ AcceptFails \/ ReadFails \/ Read \/ NothingToWrite \/ WriteFails
             \/ Write \/ WriteMore \/ WriteReturns \/ Signal \/ PeerStep
      PROVE  sockets' = sockets
  BY <1>3 DEF Load, EnterLoop, Test, Sleep, Wake, Save, RoundOver, Skip,
              AcceptFails, ReadFails, Read, NothingToWrite, WriteFails, Write,
              WriteMore, WriteReturns, Signal, SignalKills, SignalWakes,
              SignalEndsWrite, SignalElsewhere, handleSignal, die, PeerStep,
              serverVars, Connect, Ask, Receive, Close, Reset, Refuse, reset
<1>. QED
  BY <1>1, <1>2, <1>3 DEF Next, ServerStep

-----------------------------------------------------------------------------
(* The visits of a round                                                    *)

LEMMA ClearedInLoop ==
  ASSUME TypeOK, EntriesAgree, ClientVisited, EntriesCleared,
         \/ DropLost \/ DropIdle \/ NothingToWrite \/ WriteReturns
         \/ SignalEndsWrite \/ Accept \/ Skip
  PROVE  EntriesCleared'
<1>0. phase \in {"round", "flush", "writing"} /\ Looping /\ index \in 1..Len(pollFds)
      /\ index \in DOMAIN pollFds
  <2>1. ASSUME Accept \/ Skip
        PROVE  phase = "round" /\ index \in 1..Len(pollFds)
               /\ index \in DOMAIN pollFds
    BY <2>1 DEF Accept, Skip, Visiting, TypeOK
  <2>. QED
    BY <2>1, Visits DEF Looping
<1>1. \A i \in DOMAIN pollFds : i \in Int /\ (i < index => pollFds[i].revents = {})
  BY <1>0 DEF EntriesCleared, TypeOK
<1>2. index \in Int
  BY DEF TypeOK
<1>3. CASE DropLost \/ DropIdle
  <2>1. removeClientAt /\ index' = index /\ phase' = "round"
    BY <1>3 DEF DropLost, DropIdle, removeClientAt, nextAfterErase
  <2>. QED
    BY <1>0, <1>1, <2>1, RemovedEntries DEF EntriesCleared
<1>4. CASE NothingToWrite \/ WriteReturns \/ SignalEndsWrite
  <2>1. PICK out \in {outgoing, consumeQueuedData} : keep(out)
    BY <1>4 DEF NothingToWrite, WriteReturns, SignalEndsWrite
  <2>2. index' = index + 1 /\ phase' = "round" /\ pollFds'[index].revents = {}
    BY <1>0, <2>1 DEF keep, Entry
  <2>3. /\ DOMAIN pollFds' = DOMAIN pollFds
        /\ \A i \in DOMAIN pollFds \ {index} : pollFds'[i] = pollFds[i]
    BY <1>0, <2>1, KeptEntries
  <2>. QED
    BY <1>1, <1>2, <2>2, <2>3 DEF EntriesCleared
<1>5. CASE Accept
  <2>1. /\ DOMAIN pollFds = 1..Len(pollFds) /\ DOMAIN pollFds' = 1..(Len(pollFds) + 1)
        /\ \A i \in DOMAIN pollFds \ {index} : pollFds'[i] = pollFds[i]
    BY <1>5, AcceptedEntries
  <2>2. pollFds'[index].revents = {}
    BY <1>5, AcceptedEntries
  <2>3. index' = index + 1 /\ phase' = "round" /\ Len(pollFds) \in Nat
    BY <1>5 DEF Accept, Visiting, TypeOK
  <2>. QED
    BY <1>0, <1>1, <2>1, <2>2, <2>3 DEF EntriesCleared
<1>6. CASE Skip
  <2>1. pollFds' = pollFds /\ index' = index + 1 /\ phase' = "round"
        /\ pollFds[index].revents = {}
    BY <1>6 DEF Skip, Visiting, current
  <2>. QED
    BY <1>1, <1>2, <2>1 DEF EntriesCleared
<1>. QED
  BY <1>3, <1>4, <1>5, <1>6 DEF EntriesCleared

LEMMA ClearedStep ==
  ASSUME TypeOK, NoneOutsideLoop, EntriesAgree, ClientVisited, EntriesCleared, Next
  PROVE  EntriesCleared'
<1>. SUFFICES ASSUME Looping'
              PROVE  EntriesCleared'
  BY DEF EntriesCleared
<1>1. CASE \/ DropLost \/ DropIdle \/ NothingToWrite \/ WriteReturns
           \/ SignalEndsWrite \/ Accept \/ Skip
  BY <1>1, ClearedInLoop
<1>2. CASE EnterLoop
  <2>1. DOMAIN pollFds' = {1} /\ pollFds'[1].revents = {}
    BY <1>2 DEF EnterLoop, Entry
  <2>. QED
    BY <2>1 DEF EntriesCleared
<1>3. CASE Test
  <2>1. \A i \in DOMAIN pollFds' : pollFds'[i].revents = {}
    BY <1>3 DEF Test, refreshAllPollInterests, refreshClientPollInterest, Entry
  <2>. QED
    BY <2>1 DEF EntriesCleared
<1>4. CASE Wake
  <2>1. index' = 1 /\ phase' = "round" /\ DOMAIN pollFds' = DOMAIN pollFds
    BY <1>4 DEF Wake
  <2>2. \A i \in DOMAIN pollFds : ~(i < 1)
    BY DEF TypeOK
  <2>. QED
    BY <2>1, <2>2 DEF EntriesCleared
<1>5. CASE RoundOver
  <2>1. /\ Looping /\ phase = "round" /\ pollFds' = pollFds
        /\ \A i \in DOMAIN pollFds : i < index
    BY <1>5 DEF RoundOver, Looping, TypeOK
  <2>. QED
    BY <2>1 DEF EntriesCleared
<1>6. CASE Read \/ Write \/ WriteMore
  <2>1. UNCHANGED <<pollFds, index>> /\ phase' \in {"flush", "writing"}
        /\ phase \in {"round", "flush", "writing"}
    BY <1>6, Visits DEF Read, Write, WriteMore, Visiting
  <2>. QED
    BY <2>1 DEF EntriesCleared, Looping
<1>7. CASE Sleep \/ SignalWakes
  <2>1. UNCHANGED pollFds /\ phase \in {"entering", "asleep"}
    BY <1>7 DEF Sleep, SignalWakes
  <2>. QED
    BY <2>1 DEF EntriesCleared, Looping
<1>8. CASE SignalElsewhere \/ PeerStep
  <2>1. UNCHANGED <<pollFds, index, phase>>
    BY <1>8 DEF SignalElsewhere, PeerStep, serverVars, Connect, Ask, Receive, Close,
                Reset, Refuse, reset
  <2>. QED
    BY <2>1 DEF EntriesCleared, Looping
<1>9. CASE \/ Load \/ Save \/ LeaveLoop \/ WakeToLeave \/ AcceptFails
           \/ ReadFails \/ WriteFails \/ SignalKills
  BY <1>9 DEF Load, Save, LeaveLoop, WakeToLeave, leaveLoop, AcceptFails,
              ReadFails, WriteFails, die, SignalKills, Looping
<1>. QED
  BY <1>1, <1>2, <1>3, <1>4, <1>5, <1>6, <1>7, <1>8, <1>9
     DEF Next, ServerStep, Signal

-----------------------------------------------------------------------------
(* How it ends                                                              *)

LEMMA StopsServer ==
  ASSUME TypeOK, EntriesAgree, ConnectionsKnown, ClientVisited,
         ReadinessExplained, StopsExplained, ServerStep
  PROVE  StopsExplained'
<1>1. phase # "down" /\ outcome = "none" /\ signalled' = signalled
  <2>1. phase # "down"
    BY NotDown DEF Next
  <2>2. signalled' = signalled
    BY DEF ServerStep, Load, EnterLoop, Test, Sleep, Wake, WakeToLeave, LeaveLoop,
           leaveLoop, Save, RoundOver, Skip, Accept, AcceptFails, DropLost,
           ReadFails, Read, NothingToWrite, DropIdle, WriteFails, Write,
           WriteMore, WriteReturns, removeClientAt, die
  <2>. QED
    BY <2>1, <2>2 DEF StopsExplained
<1>2. CASE Load \/ EnterLoop
  BY <1>1, <1>2 DEF StopsExplained, EndingsExplained, Load, EnterLoop, Looping
<1>3. CASE LeaveLoop \/ WakeToLeave
  BY <1>1, <1>3 DEF StopsExplained, EndingsExplained, LeaveLoop, WakeToLeave,
                    leaveLoop, Looping
<1>4. CASE Save
  BY <1>1, <1>4 DEF StopsExplained, EndingsExplained, Save, Looping
<1>5. CASE AcceptFails
  BY <1>1, <1>5 DEF StopsExplained, EndingsExplained, AcceptFails, die, Looping,
                    Free, Fds, listenFd
<1>6. CASE ReadFails \/ WriteFails
  <2>1. /\ index \in DOMAIN pollFds /\ current.fd # listenFd
        /\ phase \in {"round", "flush", "writing"} /\ current.revents # {}
    BY <1>6, Visits
  <2>2. link[peerAt(current.fd)] = "reset"
    BY <1>6 DEF ReadFails, WriteFails
  <2>3. "HUP" \notin current.revents
    BY <1>6 DEF ReadFails, WriteFails, AtWrite, Visiting, wantsRead, lostFirst,
                ClientVisited
  <2>4. index <= index
    BY DEF TypeOK
  <2>5. peerAt(current.fd) \in late
    BY <2>1, <2>2, <2>3, <2>4 DEF ReadinessExplained, StillTrue, current
  <2>6. UNCHANGED <<sockets, pollFds, index, late>>
        /\ phase' = "down" /\ outcome' = "terminated"
    BY <1>6 DEF ReadFails, WriteFails, die
  <2>. QED
    BY <1>1, <2>5, <2>6 DEF StopsExplained, EndingsExplained, Looping, peerAt,
                            current
<1>7. CASE \/ Test \/ Sleep \/ Wake \/ RoundOver \/ Skip \/ Accept \/ DropLost \/ Read
           \/ NothingToWrite \/ DropIdle \/ Write \/ WriteMore \/ WriteReturns
  <2>1. isRunning' = isRunning /\ outcome' = outcome
    BY <1>7 DEF Test, Sleep, Wake, RoundOver, Skip, Accept, DropLost, Read,
                NothingToWrite, DropIdle, Write, WriteMore, WriteReturns,
                removeClientAt
  <2>2. Looping /\ Looping' /\ phase' \notin {"loading", "armed", "saving", "down"}
    BY <1>7 DEF Test, Sleep, Wake, RoundOver, Skip, Accept, DropLost, Read,
                NothingToWrite, DropIdle, Write, WriteMore, WriteReturns,
                removeClientAt, keep, Visiting, AtWrite, Looping,
                readsNothing, writesNothing
  <2>. QED
    BY <1>1, <2>1, <2>2 DEF StopsExplained, EndingsExplained
<1>. QED
  BY <1>2, <1>3, <1>4, <1>5, <1>6, <1>7 DEF ServerStep

LEMMA StopsSignal ==
  ASSUME TypeOK, StopsExplained, Signal
  PROVE  StopsExplained'
<1>1. phase # "down" /\ outcome = "none" /\ signalled = "no"
  <2>1. phase # "down"
    BY NotDown DEF Next
  <2>. QED
    BY <2>1 DEF StopsExplained, Signal, SignalKills, SignalWakes, SignalEndsWrite,
                SignalElsewhere, handleSignal
<1>2. CASE SignalKills
  BY <1>2 DEF SignalKills, StopsExplained, EndingsExplained, Looping
<1>3. CASE SignalWakes \/ SignalEndsWrite
  BY <1>1, <1>3 DEF SignalWakes, SignalEndsWrite, handleSignal, keep, afterEINTR,
                    Visiting, StopsExplained, EndingsExplained, Looping
<1>4. CASE SignalElsewhere
  BY <1>1, <1>4 DEF SignalElsewhere, handleSignal, StopsExplained,
                    EndingsExplained, Looping
<1>. QED
  BY <1>2, <1>3, <1>4 DEF Signal

LEMMA StopsPeer ==
  ASSUME TypeOK, StopsExplained, PeerStep
  PROVE  StopsExplained'
<1>1. UNCHANGED <<phase, isRunning, outcome, signalled>> /\ phase # "down"
  BY DEF PeerStep, serverVars, Connect, Ask, Receive, Close, Reset, Refuse, reset
<1>. QED
  BY <1>1 DEF StopsExplained, EndingsExplained, Looping

-----------------------------------------------------------------------------
(* Theorems                                                                 *)

LEMMA InvInit == Init => Inv
<1>. SUFFICES ASSUME Init PROVE Inv
  OBVIOUS
<1>1. TypeOK
  <2>1. 0 \in 0..MaxAsked /\ Room \in 0..Room /\ limit \in Limits
        /\ pollFds \in Seq(Entries) /\ Len(pollFds) = 0
    BY PollLoopConstants DEF Init
  <2>2. DOMAIN sockets = {} /\ DOMAIN outgoing = {}
    BY DEF Init
  <2>3. Range(sockets) = {} /\ Range(outgoing) = {}
    BY <2>2 DEF Range
  <2>. QED
    BY <2>1, <2>2, <2>3 DEF TypeOK, Init, Entries, Phases, Outcomes
<1>2. SpareDescriptor
  BY SpareInit DEF SpareInv
<1>3. ConnectionsKnown
  BY DEF Init, ConnectionsKnown
<1>4. NoneOutsideLoop /\ EntriesAgree /\ ClientVisited /\ EntriesCleared
      /\ ReadinessExplained
  BY DEF Init, NoneOutsideLoop, EntriesAgree, ClientVisited, EntriesCleared,
         ReadinessExplained, Looping
<1>5. StopsExplained
  BY DEF Init, StopsExplained, EndingsExplained, Looping
<1>. QED
  BY <1>1, <1>2, <1>3, <1>4, <1>5 DEF Inv

LEMMA InvNext == Inv /\ [Next]_vars => Inv'
<1>. SUFFICES ASSUME Inv, [Next]_vars PROVE Inv'
  OBVIOUS
<1>1. CASE Next
  <2>1. TypeOK' /\ NoneOutsideLoop' /\ EntriesAgree' /\ ConnectionsKnown'
        /\ ClientVisited' /\ EntriesCleared' /\ ReadinessExplained'
    BY <1>1, TypeStep, OutsideStep, EntriesStep, ConnectionsStep, VisitedStep,
       ClearedStep, ReadinessStep DEF Inv
  <2>2. StopsExplained'
    BY <1>1, StopsServer, StopsSignal, StopsPeer DEF Inv, Next
  <2>3. SpareDescriptor'
    BY <1>1, ServerSpares, OthersSpare DEF Inv, Next, SpareInv, TypeOK
  <2>. QED
    BY <2>1, <2>2, <2>3 DEF Inv
<1>2. CASE UNCHANGED vars
  <2>1. UNCHANGED <<limit, phase, isRunning, sockets, outgoing, pollFds, index,
                    moved, outcome, link, backlog, asked, room, signalled, late>>
    BY <1>2 DEF vars, serverVars, kernelVars
  <2>. QED
    BY <2>1 DEF Inv, TypeOK, Fds, SpareDescriptor, Free, ConnectionsKnown,
                NoneOutsideLoop, EntriesAgree, ClientVisited, EntriesCleared,
                ReadinessExplained, StillTrue, StopsExplained, EndingsExplained, Looping, peerAt,
                current
<1>. QED
  BY <1>1, <1>2

\* Type correctness and everything Inv joins to it hold in every state.
THEOREM LoopInvariant == Spec => []Inv
BY InvInit, InvNext, PTL DEF Spec

\* A descriptor is always free for the copy of the socket that recvBytes and
\* sendBytes make (dup in the constructor of Socket): accept() itself fails
\* unless it finds two, so that no number of connections, under no limit, makes a
\* read or a write fail for want of one.
THEOREM DescriptorSpared == Spec => []SpareDescriptor
<1>1. Inv => SpareDescriptor
  BY DEF Inv
<1>. QED
  BY <1>1, LoopInvariant, PTL

\* clientSockets, ClientManager and pollFds hold the same connections, each
\* once, and every connected peer is in them or in the backlog: for any number of
\* clients that come, leave and are dropped in any order, and any number of
\* descriptors.
THEOREM ConnectionsInStep == Spec => []DescriptorsAgree
<1>1. Inv => DescriptorsAgree
  <2>. SUFFICES ASSUME Inv, Looping PROVE DescriptorsAgree
    BY DEF DescriptorsAgree
  <2>1. {pollFds[i].fd : i \in DOMAIN pollFds} = DOMAIN sockets \union {listenFd}
    BY DEF Inv, EntriesAgree
  <2>2. {p \in Peers : link[p] # "none"} = Range(sockets) \union backlog
    <3>1. Range(sockets) \subseteq Peers /\ backlog \subseteq Peers
      BY DEF Inv, TypeOK
    <3>. QED
      BY <3>1 DEF Inv, ConnectionsKnown, Looping, Range
  <2>. QED
    BY <2>1, <2>2 DEF Inv, EntriesAgree, DescriptorsAgree
<1>. QED
  BY <1>1, LoopInvariant, PTL

\* A round leaves no descriptor that poll() reported unvisited, whatever its
\* visits erase and append.
THEOREM RoundComplete == Spec => []EveryReadyVisited
<1>1. Inv => EveryReadyVisited
  BY DEF Inv, EntriesCleared, EveryReadyVisited, Looping
<1>. QED
  BY <1>1, LoopInvariant, PTL

\* However the process ends, it is for the reason EndingsExplained gives.
THEOREM EveryEndingExplained == Spec => []EndingsExplained
<1>1. Inv => EndingsExplained
  BY DEF Inv, StopsExplained
<1>. QED
  BY <1>1, LoopInvariant, PTL

\* removeClientAt is only ever called for a client that has left, although what
\* poll() reported may be stale when it is used.
THEOREM NoClientDroppedInError == Spec => OnlyDepartedDropped
<1>. DEFINE Departed ==
       \A fd \in DOMAIN sockets \ DOMAIN sockets' :
         phase' = "round" => link[sockets[fd]] # "open"
<1>1. Inv /\ [Next]_vars => [Departed]_vars
  <2>. SUFFICES ASSUME Inv, Next, NEW fd \in DOMAIN sockets \ DOMAIN sockets',
                       phase' = "round"
                PROVE  link[sockets[fd]] # "open"
    OBVIOUS
  <2>1. DropLost \/ DropIdle
    BY SocketsLost DEF Inv
  <2>2. /\ phase \in {"round", "flush", "writing"} /\ index \in DOMAIN pollFds
        /\ current.fd # listenFd
    BY <2>1, Visits DEF Inv
  <2>3. fd = current.fd
    BY <2>1 DEF DropLost, DropIdle, removeClientAt, forgetSocket, Restrict
  <2>4. index <= index
    BY DEF Inv, TypeOK
  <2>5. StillTrue(index)
    BY <2>2, <2>4 DEF Inv, ReadinessExplained, current
  <2>. DEFINE p == peerAt(current.fd)
  <2>6. CASE DropLost
    BY <2>3, <2>5, <2>6 DEF DropLost, lostFirst, StillTrue, peerAt, current
  <2>7. CASE DropIdle
    <3>1. Free # {}
      BY DEF Inv, SpareDescriptor
    <3>2. p \in Peers /\ asked[p] \in Nat /\ room[p] \in Nat
      BY <2>7, Visits DEF Inv, TypeOK
    <3>3. CASE readsNothing
      BY <2>3, <2>5, <3>1, <3>2, <3>3 DEF readsNothing, wantsRead, StillTrue,
                                          peerAt, current
    <3>4. CASE writesNothing
      BY <2>3, <2>5, <3>1, <3>2, <3>4 DEF writesNothing, AtWrite, wantsWrite,
                                          StillTrue, peerAt, current
    <3>. QED
      BY <2>7, <3>3, <3>4 DEF DropIdle
  <2>. QED
    BY <2>1, <2>6, <2>7
<1>. QED
  BY <1>1, LoopInvariant, PTL DEF Spec, OnlyDepartedDropped
=============================================================================
