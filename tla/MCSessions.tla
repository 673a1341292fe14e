----------------------------- MODULE MCSessions -----------------------------
(* Three descriptors and two users: a user can hold two sessions while a     *)
(* third connection watches, and descriptors are reused.                     *)
EXTENDS Sessions, TLC

CONSTANTS f1, f2, f3, alice, bob, noContext, general

MCFds == {f1, f2, f3}
MCUsers == {alice, bob}
MCContexts == {noContext, general}

\* Descriptors and users are interchangeable.
Interchangeable == Permutations(MCFds) \union Permutations(MCUsers)
=============================================================================
