------------------------------ MODULE Presence ------------------------------
(***************************************************************************)
(* What the server promises about presence, without its bookkeeping: a     *)
(* connection speaks for at most one user, and a user is online exactly    *)
(* while some connection speaks for it.  Sessions, which maintains a map   *)
(* from descriptors to users and a login counter per user by hand,         *)
(* implements this specification.                                          *)
(***************************************************************************)
CONSTANTS
  Connections,   (* What a user may be signed in through.                  *)
  Users,         (* The accounts.                                          *)
  Nobody         (* The owner of a connection nobody is signed in through. *)

VARIABLES
  session,       (* The user each connection speaks for, or Nobody.        *)
  online         (* The users reported as logged in.                       *)

vars == <<session, online>>

Init ==
  /\ session = [c \in Connections |-> Nobody]
  /\ online = {}

SignIn(c, u) ==
  /\ session[c] = Nobody
  /\ session' = [session EXCEPT ![c] = u]
  /\ online' = online \union {u}

SignOut(c) ==
  /\ session[c] # Nobody
  /\ session' = [session EXCEPT ![c] = Nobody]
  /\ online' = IF \E d \in Connections \ {c} : session[d] = session[c]
                 THEN online
                 ELSE online \ {session[c]}

\* The server stopped, one way or another.
Reset ==
  /\ session' = [c \in Connections |-> Nobody]
  /\ online' = {}

Next ==
  \/ \E c \in Connections : SignOut(c) \/ \E u \in Users : SignIn(c, u)
  \/ Reset

Spec == Init /\ [][Next]_vars
=============================================================================
