------------------------------ MODULE Framing ------------------------------
(***************************************************************************)
(* One connection as the stream of bytes it is.  The client writes a       *)
(* command at a time and reads with readExact, first a header and then the *)
(* payload it announces; the server reads what there is, cuts it into      *)
(* packets and appends to one outgoing buffer.  The kernel hands bytes on  *)
(* in pieces of any size.                                                  *)
(*                                                                         *)
(* A byte is known by its packet and its place in it.  The first           *)
(* HeaderSize bytes are the header, from which code and payload_size are   *)
(* read; bytes that are no header, taken for one, may mean anything.       *)
(***************************************************************************)
EXTENDS Naturals, Sequences, FiniteSets, SequencesExt

CONSTANTS
  HeaderSize,     (* sizeof(PacketHeader)                                  *)
  PayloadSizes,   (* Payload sizes in use                                  *)
  DownRoom,       (* What the kernel buffers towards the client hold       *)
  MaxCommands, MaxEvents, MaxTimeouts, MaxConnections   (* Bounds          *)

ASSUME FramingConstants ==
  /\ HeaderSize \in Nat \ {0}
  /\ PayloadSizes \subseteq Nat /\ PayloadSizes # {}
  /\ DownRoom \in Nat \ {0}
  /\ MaxCommands \in Nat /\ MaxEvents \in Nat
  /\ MaxTimeouts \in Nat /\ MaxConnections \in Nat

VARIABLES
  (* the server's end *)
  incoming,      (* Client::incomingBuffer                                 *)
  outgoing,      (* Client::outgoingBuffer                                 *)
  blocked,       (* ::write waits for room                                 *)
  (* the kernel's buffers *)
  up, down,
  (* the client *)
  client,        (* Connected and idle, in a command; gone; off            *)
  header,        (* outHeader: its bytes, once they are complete           *)
  buffer,        (* readExact's buffer                                     *)
  wantedSize,    (* What readExact is to read                              *)
  (* history of the connection *)
  commands, dispatched,   (* Packets sent to the server and dispatched     *)
  queuedPackets, read,    (* Packets sent to the client and read           *)
  cut,           (* A timeout struck inside a packet                       *)
  timeouts, connections

serverVars == <<incoming, outgoing, blocked>>
clientVars == <<client, header, buffer, wantedSize>>
upHistory == <<commands, dispatched>>
downHistory == <<queuedPackets, read>>
bounds == <<timeouts, connections>>
vars == <<serverVars, up, down, clientVars, upHistory, downHistory, cut, bounds>>

Codes == {"command", "reply", "event"}
Connected == client \in {"idle", "command"}

-----------------------------------------------------------------------------
(* Packets and their bytes                                                  *)

\* buildPacket, on both sides.
buildPacket(id, code, size) ==
  [i \in 1..(HeaderSize + size) |->
     [packet |-> id, code |-> code, size |-> size, at |-> i]]

Bytes == [packet : Nat, code : Codes, size : PayloadSizes, at : Nat]

\* The first bytes of s are those of a packet, in order.
IsHeader(s) ==
  \A i \in 1..HeaderSize :
    s[i] = [s[1] EXCEPT !.at = i]

\* header.payload_size.  The server never looks elsewhere (CommandsFramed).
payloadSize(s) == IF IsHeader(s) THEN s[1].size ELSE 0
packetSize(s) == HeaderSize + payloadSize(s)

\* The conditions of the two early returns.  Slip: one byte more is awaited.
completeAndMore(s) == Len(s) >= HeaderSize /\ Len(s) > packetSize(s)
complete(s) == Len(s) >= HeaderSize /\ Len(s) >= packetSize(s)

-----------------------------------------------------------------------------
(* processClientIncomingPackets                                             *)

From(s, n) == SubSeq(s, n + 1, Len(s))

\* Where the loop has cut s after n iterations; a packet is at least a byte.
nextCut(s, n) ==
  IF complete(From(s, n)) THEN n + packetSize(From(s, n)) ELSE n

Cuts(s) ==
  LET cutAt[n \in 0..Len(s)] == IF n = 0 THEN 0 ELSE nextCut(s, cutAt[n - 1])
  IN  cutAt

\* The number of iterations that dispatch.  Slip: an if in place of the loop.
Iterations(s) == {n \in 1..Len(s) : Cuts(s)[n] # Cuts(s)[n - 1]}
oneIteration(s) == Cardinality(Iterations(s) \intersect {1})
iterations(s) == Cardinality(Iterations(s))

cutPackets(s) ==
  [n \in 1..iterations(s) |-> SubSeq(s, Cuts(s)[n - 1] + 1, Cuts(s)[n])]
rest(s) == From(s, Cuts(s)[iterations(s)])

\* Reciever::readClientData, then every complete packet is dispatched and
\* answered.  The buffer of one read is large enough for whatever n is.
ServerRead ==
  /\ ~blocked /\ client # "off"
  /\ \E n \in 1..Len(up) :
       LET s == incoming \o SubSeq(up, 1, n)
       IN  /\ up' = From(up, n)
           /\ incoming' = rest(s)
           /\ dispatched' = dispatched \o cutPackets(s)
           /\ \E sizes \in [1..iterations(s) -> PayloadSizes] :
                LET replies == [i \in 1..iterations(s) |->
                                  buildPacket(Len(queuedPackets) + i, "reply", sizes[i])]
                IN  /\ queuedPackets' = queuedPackets \o replies
                    /\ outgoing' = outgoing \o FlattenSeq(replies)
  /\ UNCHANGED <<blocked, down, clientVars, commands, read, cut, bounds>>

\* A command of another client sends this one an event.
QueueEvent ==
  /\ ~blocked /\ client # "off"
  /\ Cardinality({i \in DOMAIN queuedPackets :
                    queuedPackets[i][1].code = "event"}) < MaxEvents
  /\ \E size \in PayloadSizes :
       LET event == buildPacket(Len(queuedPackets) + 1, "event", size)
       IN  /\ queuedPackets' = Append(queuedPackets, event)
           /\ outgoing' = outgoing \o event
  /\ UNCHANGED <<incoming, blocked, up, down, clientVars, upHistory, read, cut,
                 bounds>>

\* Sender::flushClientData hands over the whole buffer; ::write takes what
\* there is room for and waits, the server with it, until all is taken.
consumeQueuedData(n) == From(outgoing, n)

ServerWrite ==
  /\ client # "off"
  /\ outgoing # <<>> /\ Len(down) < DownRoom
  /\ LET free == DownRoom - Len(down)
         n == IF Len(outgoing) <= free THEN Len(outgoing) ELSE free
     IN  /\ down' = down \o SubSeq(outgoing, 1, n)
         /\ outgoing' = consumeQueuedData(n)
         /\ blocked' = (outgoing' # <<>>)
  /\ UNCHANGED <<incoming, up, clientVars, upHistory, downHistory, cut, bounds>>

\* removeClientAt, once the client has left; unread bytes are lost.
\* Slip: the buffers stay and addClient finds them.
keptIncoming == incoming
erasedIncoming == <<>>

ServerDrop ==
  /\ client = "gone"
  /\ client' = "off"
  /\ incoming' = erasedIncoming /\ outgoing' = <<>> /\ blocked' = FALSE
  /\ up' = <<>> /\ down' = <<>>
  /\ UNCHANGED <<header, buffer, wantedSize, upHistory, downHistory, cut, bounds>>

-----------------------------------------------------------------------------
(* The client                                                               *)

AtBoundary == header = <<>> /\ buffer = <<>>
startPacket == header' = <<>> /\ buffer' = <<>> /\ wantedSize' = HeaderSize

\* sendPacket.  The kernel holds the few commands a client can have under way,
\* so that writing one never waits.
ClientSend ==
  /\ client = "idle" /\ AtBoundary
  /\ Len(commands) < MaxCommands
  /\ \E size \in PayloadSizes :
       LET command == buildPacket(Len(commands) + 1, "command", size)
       IN  /\ commands' = Append(commands, command)
           /\ up' = up \o command
  /\ client' = "command"
  /\ UNCHANGED <<serverVars, down, header, buffer, wantedSize, dispatched,
                 downHistory, cut, bounds>>

\* readExact asks for what is still missing.  Slip: for all of it again.
wantedAgain == wantedSize
missing == wantedSize - Len(buffer)

\* socket.read(wantedSize - buffer.size()): some bytes, at most so many.
chunk(n) == SubSeq(down, 1, n)
chunkSizes == {n \in 1..Len(down) : n <= missing}

MoreMissing ==
  /\ Connected
  /\ \E n \in chunkSizes :
       /\ Len(buffer) + n < wantedSize
       /\ buffer' = buffer \o chunk(n)
       /\ down' = From(down, n)
  /\ UNCHANGED <<serverVars, up, client, header, wantedSize, upHistory,
                 downHistory, cut, bounds>>

\* What the bytes of a header say, or what any bytes might.
sizesIn(s) == IF IsHeader(s) THEN {s[1].size} ELSE PayloadSizes
codesIn(s) == IF IsHeader(s) THEN {s[1].code} ELSE Codes

\* The packet is complete: an event leaves a command waiting for its reply.
packetRead(s) ==
  /\ read' = Append(read, s)
  /\ startPacket
  /\ \E code \in codesIn(s) :
       client' = IF code = "event" THEN client ELSE "idle"

HeaderRead ==
  /\ Connected
  /\ header = <<>>
  /\ \E n \in chunkSizes :
       LET got == buffer \o chunk(n)
       IN  /\ Len(got) >= wantedSize
           /\ \E size \in sizesIn(got) :
                IF size = 0 THEN packetRead(got)
                ELSE /\ header' = got /\ buffer' = <<>> /\ wantedSize' = size
                     /\ UNCHANGED <<client, read>>
           /\ down' = From(down, n)
  /\ UNCHANGED <<serverVars, up, upHistory, queuedPackets, cut, bounds>>

PayloadRead ==
  /\ Connected
  /\ header # <<>>
  /\ \E n \in chunkSizes :
       /\ Len(buffer) + n >= wantedSize
       /\ packetRead(header \o buffer \o chunk(n))
       /\ down' = From(down, n)
  /\ UNCHANGED <<serverVars, up, upHistory, queuedPackets, cut, bounds>>

\* Too many empty reads in a command: what was read is lost with the exception,
\* handlingInput reports it and the client goes on.
CommandTimesOut ==
  /\ client = "command" /\ down = <<>>
  /\ timeouts < MaxTimeouts
  /\ timeouts' = timeouts + 1
  /\ cut' = (cut \/ ~AtBoundary)
  /\ client' = "idle"
  /\ startPacket
  /\ UNCHANGED <<serverVars, up, down, upHistory, downHistory, connections>>

\* In handleEvent nothing catches it before main does.
EventTimesOut ==
  /\ client = "idle" /\ ~AtBoundary /\ down = <<>>
  /\ timeouts < MaxTimeouts
  /\ timeouts' = timeouts + 1
  /\ client' = "gone"
  /\ UNCHANGED <<serverVars, up, down, header, buffer, wantedSize, upHistory,
                 downHistory, cut, connections>>

\* The client's process ends, wherever it stands; another one connects.
Quit ==
  /\ Connected
  /\ client' = "gone"
  /\ UNCHANGED <<serverVars, up, down, header, buffer, wantedSize, upHistory,
                 downHistory, cut, bounds>>

Connect ==
  /\ client = "off"
  /\ connections < MaxConnections
  /\ connections' = connections + 1
  /\ client' = "idle"
  /\ startPacket
  /\ commands' = <<>> /\ dispatched' = <<>>
  /\ queuedPackets' = <<>> /\ read' = <<>>
  /\ cut' = FALSE
  /\ UNCHANGED <<serverVars, up, down, timeouts>>

-----------------------------------------------------------------------------
Init ==
  /\ incoming = <<>> /\ outgoing = <<>> /\ blocked = FALSE
  /\ up = <<>> /\ down = <<>>
  /\ client = "off"
  /\ header = <<>> /\ buffer = <<>> /\ wantedSize = HeaderSize
  /\ commands = <<>> /\ dispatched = <<>> /\ queuedPackets = <<>> /\ read = <<>>
  /\ cut = FALSE /\ timeouts = 0 /\ connections = 0

ClientReads == MoreMissing \/ HeaderRead \/ PayloadRead

Next ==
  \/ ServerRead \/ QueueEvent \/ ServerWrite \/ ServerDrop
  \/ ClientSend \/ MoreMissing \/ HeaderRead \/ PayloadRead
  \/ CommandTimesOut \/ EventTimesOut \/ Quit \/ Connect

\* poll() reports what has arrived and what there is room for; a client polls
\* every 5 ms, and every 2 ms inside a command.
Fairness ==
  WF_vars(ServerRead \/ ServerWrite) /\ WF_vars(ClientReads)

Spec == Init /\ [][Next]_vars
FairSpec == Spec /\ Fairness

-----------------------------------------------------------------------------
(* What must hold                                                           *)

\* However the stream is cut into reads, the server dispatches exactly the
\* packets the client sent, whole and in order, and none of an earlier
\* connection.
UpStream == INSTANCE PacketStream
  WITH Packets <- {buildPacket(id, "command", size) :
                     id \in 1..MaxCommands, size \in PayloadSizes},
       sent <- commands, received <- dispatched
CommandsFramed == UpStream!Spec

\* poll() reports only what the kernel still holds, so a complete packet left in
\* the incoming buffer would wait for a further one: when everything has been
\* read, everything has been dispatched.
NothingLeftBehind == up = <<>> /\ client # "off" => dispatched = commands

\* As long as no timeout has struck inside a packet, the client reads exactly
\* the packets queued for it: timeouts between two packets do no harm.
InStepUnlessCut == ~cut => IsPrefix(read, queuedPackets)

\* Every command is answered in the end, behind whatever events are queued before
\* the answer and whatever pieces they come in, as long as the client stays and
\* no timeout has cut a packet.
Answers == Cardinality({i \in DOMAIN read : read[i][1].code = "reply"})
AnswersArrive ==
  Connected ~> (Answers = Len(commands) \/ cut \/ ~Connected)
=============================================================================
