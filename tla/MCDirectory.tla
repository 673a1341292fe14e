---------------------------- MODULE MCDirectory ----------------------------
(* Two descriptors and three users, so that a message can be somebody else's, *)
(* and two seconds, which the clock may return in either order.               *)
EXTENDS Directory

CONSTANTS f1, f2, alice, bob, carol, noContext

MCFds == {f1, f2}
MCUsers == {alice, bob, carol}
MCContexts == {noContext}

\* Bound: a shutdown that saves something ends the behaviour.
NothingSaved == disk.users = {}

Interchangeable == Permutations(MCFds) \union Permutations(MCUsers)
=============================================================================
