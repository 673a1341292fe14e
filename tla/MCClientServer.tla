--------------------------- MODULE MCClientServer ---------------------------
(* The contexts and the sets of clients, users and entries of the            *)
(* configurations.                                                           *)
EXTENDS ClientServer

CONSTANTS f1, f2, alice, t1, c1, general

MCContexts ==
  {c \in [team : Teams \union {None}, channel : Channels \union {None},
          thread : Threads \union {None}] :
     /\ c.channel # None => c.team # None
     /\ c.thread # None => c.channel # None}
MCNoContext == [team |-> None, channel |-> None, thread |-> None]

OneFd == {f1}
TwoFds == {f1, f2}
OneUser == {alice}
OneTeam == {t1}
OneChannel == {c1}
OneName == {general}

\* No command that a bound of the model could leave unanswered.
AnsweredKinds == {"login", "logout", "users", "user"}
InterleavedKinds == ClientKinds \ {"user"}
SessionKinds == {"login", "logout", "use", "create"}
TimeoutKinds == {"login", "logout"}

NothingSaved == saved = NoWorkspace /\ disk.users = {}

\* What a step can depend on: queued is only an output.
WithoutOutput == <<sessionVars, workspaceVars, fileVars, clientVars>>
Interchangeable == UNION {Permutations(S) : S \in {Fds, Users}}
=============================================================================
