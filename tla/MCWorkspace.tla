---------------------------- MODULE MCWorkspace ----------------------------
(* The contexts a client can select, from the uuids of the configuration,    *)
(* and the symmetries of a configuration.                                    *)
EXTENDS Workspace

CONSTANTS f1, f2, alice, bob, t1, c1, h1, h2, general

MCContexts ==
  {c \in [team : Teams \union {None}, channel : Channels \union {None},
          thread : Threads \union {None}] :
     /\ c.channel # None => c.team # None
     /\ c.thread # None => c.channel # None}
MCNoContext == [team |-> None, channel |-> None, thread |-> None]

\* Two connections and two users who share one team.
TwoFds == {f1, f2}
TwoUsers == {alice, bob}
OneTeam == {t1}
OneChannel == {c1}
OneName == {general}

\* The second uuid, with one name, is only drawn for a namesake.
TwoThreads == {h1, h2}

\* Bound: a shutdown that saves something ends the behaviour.
NothingSaved == saved = NoWorkspace /\ disk.users = {}

\* Bound: a process that follows one that saved something has one connection at
\* a time.
OneLater == NothingSaved \/ Cardinality(conns) <= 1

\* What a step can depend on: queued is only an output, and the flags in
\* users.txt are reset when they are loaded.
WithoutOutput ==
  <<running, conns, known, logins, byFd, routes, context, messages,
    [disk EXCEPT !.online = {}], workspaceVars, fileVars>>

Interchangeable ==
  UNION {Permutations(S) : S \in {Fds, Users, Teams, Channels, Threads, Names}}
=============================================================================
