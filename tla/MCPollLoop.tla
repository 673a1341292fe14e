---------------------------- MODULE MCPollLoop ----------------------------
(* Two client processes, of which one may stop reading, and one descriptor    *)
(* less than they need together.                                             *)
EXTENDS PollLoop

CONSTANTS p1, p2
MCPeers == {p1, p2}
MCReaders == {p1}
=============================================================================
