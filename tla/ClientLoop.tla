----------------------------- MODULE ClientLoop -----------------------------
(***************************************************************************)
(* The client's loop between standard input and the socket: poll() on      *)
(* descriptor 0, std::getline, one command, then whatever the server has   *)
(* sent.  What commands and packets mean is in ClientServer.               *)
(*                                                                         *)
(* poll() asks the kernel, std::getline reads through the buffer of stdio: *)
(* a read takes all a pipe or a file holds, and one line of a terminal.    *)
(* Standard input, stdio and the server are external.                      *)
(*                                                                         *)
(* Line i is written as the halves 2i-1 and 2i, the second with its end.   *)
(***************************************************************************)
EXTENDS Naturals, Sequences, SequencesExt

CONSTANTS
  Kinds,       (* What standard input may be: terminal, pipe or file.      *)
  MaxLines,    (* Bound on the lines written.                              *)
  MaxEvents    (* Bound on the packets the server sends unasked.           *)

ASSUME ClientLoopConstants ==
  /\ Kinds \subseteq {"terminal", "pipe", "file"}
  /\ MaxLines \in Nat /\ MaxEvents \in Nat

VARIABLES
  kind,
  typed,       (* Halves written so far                                    *)
  stream,      (* What the kernel holds, as a read returns it              *)
  inputClosed,
  buffered,    (* What stdio has read and getline has not taken            *)
  cin,         (* Its state: good, eof or fail                             *)
  phase,       (* Where runLoop stands: input, getline, events, ended      *)
  ran,         (* Lines dispatched as commands                             *)
  sent, arrived,  (* Packets the server sent, and those not yet read       *)
  server

inputVars == <<kind, typed, stream, inputClosed>>
lineVars == <<buffered, cin, ran>>
socketVars == <<sent, arrived, server>>
vars == <<inputVars, lineVars, socketVars, phase>>

Halves(first, last) == [i \in 1..(last - first + 1) |-> first + i - 1]
EndsLine(half) == half % 2 = 0
Line(i) == <<2 * i - 1, 2 * i>>

-----------------------------------------------------------------------------
(* Standard input and the server                                            *)

TypeLine ==
  /\ kind = "terminal"
  /\ typed + 2 <= 2 * MaxLines
  /\ stream' = Append(stream, Halves(typed + 1, typed + 2))
  /\ typed' = typed + 2
  /\ UNCHANGED <<kind, inputClosed, lineVars, socketVars, phase>>

\* The end of file of a terminal is a read of nothing; typing may go on.
TypeEnd ==
  /\ kind = "terminal"
  /\ ~inputClosed
  /\ inputClosed' = TRUE
  /\ stream' = Append(stream, <<>>)
  /\ UNCHANGED <<kind, typed, lineVars, socketVars, phase>>

WritePipe ==
  /\ kind = "pipe"
  /\ ~inputClosed
  /\ \E last \in (typed + 1)..(2 * MaxLines) :
       /\ stream' = <<FlattenSeq(stream) \o Halves(typed + 1, last)>>
       /\ typed' = last
  /\ UNCHANGED <<kind, inputClosed, lineVars, socketVars, phase>>

ClosePipe ==
  /\ kind = "pipe"
  /\ ~inputClosed
  /\ inputClosed' = TRUE
  /\ UNCHANGED <<kind, typed, stream, lineVars, socketVars, phase>>

SendEvent ==
  /\ server = "up"
  /\ sent < MaxEvents
  /\ sent' = sent + 1
  /\ arrived' = arrived + 1
  /\ UNCHANGED <<inputVars, lineVars, server, phase>>

ServerLeaves ==
  /\ server = "up"
  /\ server' = "gone"
  /\ UNCHANGED <<inputVars, lineVars, sent, arrived, phase>>

-----------------------------------------------------------------------------
(* handlingInput                                                            *)

\* A file is always readable; a pipe without a writer is POLLHUP, not POLLIN.
\* Slip: standard input is read without being asked.
readStdin == TRUE
canReadStdin == kind = "file" \/ stream # <<>>

CheckInput ==
  /\ phase = "input"
  /\ phase' = IF canReadStdin THEN "getline" ELSE "events"
  /\ UNCHANGED <<inputVars, lineVars, socketVars>>

\* The command reads its answer and shows the events before it.
dispatchCommand(line) ==
  /\ ran' = Append(ran, line)
  /\ arrived' \in 0..arrived
  /\ phase' = "events"

LineRead == \E i \in DOMAIN buffered : EndsLine(buffered[i])
LineLength == CHOOSE i \in DOMAIN buffered :
                /\ EndsLine(buffered[i])
                /\ \A j \in 1..(i - 1) : ~EndsLine(buffered[j])

\* Slip: what was read behind the line is lost.
nothingBehind == <<>>
behindLine == SubSeq(buffered, LineLength + 1, Len(buffered))

GetLine ==
  /\ phase = "getline"
  /\ cin = "good"
  /\ LineRead
  /\ buffered' = behindLine
  /\ dispatchCommand(SubSeq(buffered, 1, LineLength))
  /\ UNCHANGED <<inputVars, cin, sent, server>>

Fill ==
  /\ phase = "getline"
  /\ cin = "good"
  /\ ~LineRead
  /\ stream # <<>> /\ Head(stream) # <<>>
  /\ buffered' = buffered \o Head(stream)
  /\ stream' = Tail(stream)
  /\ UNCHANGED <<kind, typed, inputClosed, cin, ran, socketVars, phase>>

atEnd == IF stream = <<>> THEN inputClosed /\ kind # "terminal"
                          ELSE Head(stream) = <<>>

\* The last line may have no end: it is run as it stands.
GetRest ==
  /\ phase = "getline"
  /\ cin = "good"
  /\ ~LineRead /\ atEnd
  /\ buffered # <<>>
  /\ buffered' = <<>>
  /\ cin' = "eof"
  /\ stream' = <<>>
  /\ dispatchCommand(buffered)
  /\ UNCHANGED <<kind, typed, inputClosed, sent, server>>

\* Nothing was read: an empty command, which is ignored.
GetNothing ==
  /\ phase = "getline"
  /\ \/ cin # "good" /\ UNCHANGED stream
     \/ /\ cin = "good"
        /\ buffered = <<>> /\ atEnd
        /\ stream' = IF stream = <<>> THEN <<>> ELSE Tail(stream)
  /\ cin' = "fail"
  /\ phase' = "events"
  /\ UNCHANGED <<kind, typed, inputClosed, buffered, ran, socketVars>>

-----------------------------------------------------------------------------
(* handleEvent                                                              *)

ShowEvent ==
  /\ phase = "events"
  /\ arrived > 0
  /\ arrived' = arrived - 1
  /\ UNCHANGED <<inputVars, lineVars, sent, server, phase>>

\* The end of the stream reads as nothing until the read gives up; nobody
\* catches that outside a command.
ConnectionLost ==
  /\ phase = "events"
  /\ arrived = 0
  /\ server = "gone"
  /\ phase' = "ended"
  /\ UNCHANGED <<inputVars, lineVars, socketVars>>

NoMoreEvents ==
  /\ phase = "events"
  /\ arrived = 0
  /\ server = "up"
  /\ phase' = "input"
  /\ UNCHANGED <<inputVars, lineVars, socketVars>>

-----------------------------------------------------------------------------
Init ==
  /\ kind \in Kinds
  /\ inputClosed = (kind = "file")
  /\ typed = IF kind = "file" THEN 2 * MaxLines ELSE 0
  /\ stream = IF kind = "file" THEN <<Halves(1, 2 * MaxLines)>> ELSE <<>>
  /\ buffered = <<>> /\ cin = "good" /\ ran = <<>>
  /\ phase = "input"
  /\ sent = 0 /\ arrived = 0 /\ server = "up"

ClientStep ==
  CheckInput \/ GetLine \/ Fill \/ GetRest \/ GetNothing
  \/ ShowEvent \/ ConnectionLost \/ NoMoreEvents

\* The model ends with the client's process.
Outside ==
  /\ phase # "ended"
  /\ TypeLine \/ TypeEnd \/ WritePipe \/ ClosePipe \/ SendEvent \/ ServerLeaves

Next == ClientStep \/ Outside

\* The client's thread runs unless it is blocked.
FairSpec == Init /\ [][Next]_vars /\ WF_vars(ClientStep)

-----------------------------------------------------------------------------
(* What must hold                                                           *)

\* stdio has lines that poll() on descriptor 0 knows nothing of.
Overlooked ==
  /\ kind = "pipe" /\ LineRead
  /\ phase # "getline" /\ ~canReadStdin

\* Every line that is written to standard input is run as a command, while the
\* client lives and no end of file was typed before it.  The exception is a
\* pipe that delivers several lines at once and then nothing more.
LinesRun ==
  \/ \A i \in 1..MaxLines :
       (typed >= 2 * i) ~>
         \/ \E n \in DOMAIN ran : ran[n] = Line(i)
         \/ phase = "ended"
         \/ kind = "terminal" /\ cin # "good"
  \/ <>[]Overlooked

\* getline waits for the end of a line that a pipe has delivered in part.
WaitsForLine ==
  /\ kind = "pipe" /\ phase = "getline"
  /\ buffered # <<>> /\ stream = <<>> /\ ~inputClosed

\* Whatever the user types, packets the server sends unasked are shown, and
\* the client notices that the server is gone: standard input never holds it
\* up, except by a line in a pipe that is not finished.
SocketNoticed ==
  \/ /\ (arrived > 0) ~> (arrived = 0)
     /\ (server = "gone") ~> (phase = "ended")
  \/ <>[]WaitsForLine
=============================================================================
