--------------------------- MODULE PacketStream ---------------------------
(***************************************************************************)
(* What one direction of a connection promises to the handlers and the     *)
(* commands above it: packets are received whole, in the order they were   *)
(* sent, each once; when the connection ends, what is under way is lost    *)
(* and the next connection begins with nothing.                            *)
(***************************************************************************)
EXTENDS Naturals, Sequences

CONSTANT Packets
VARIABLES sent, received

Init == sent = <<>> /\ received = <<>>

Send(p) == sent' = Append(sent, p) /\ UNCHANGED received

Receive(n) ==
  /\ n > Len(received)
  /\ received' = SubSeq(sent, 1, n)
  /\ UNCHANGED sent

End == sent' = <<>> /\ received' = <<>>

Next ==
  \/ \E p \in Packets : Send(p)
  \/ \E n \in 1..Len(sent) : Receive(n)
  \/ End

Spec == Init /\ [][Next]_<<sent, received>>
=============================================================================
