----------------------------- MODULE MCFraming -----------------------------
(* A header of two bytes, payloads of none to two: a piece may end before, in *)
(* and after either part.                                                   *)
EXTENDS Framing
=============================================================================
