---------------------------- MODULE MCClientLoop ----------------------------
(* Three lines from a terminal, a pipe or a file and two events.            *)
EXTENDS ClientLoop

AnyInput == {"terminal", "pipe", "file"}
=============================================================================
