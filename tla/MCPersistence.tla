--------------------------- MODULE MCPersistence ---------------------------
(* A saved state with one entry of each kind, written by one user, and texts  *)
(* made of what the files treat specially.                                  *)
EXTENDS Persistence

Uuid(c) == <<c, c>>
MCTexts == {<<"\\", "|">>}
MCTime == <<"7">>
MCUuids == <<Uuid("x"), Uuid("y")>>
Plain == <<"\n">>

MCSeed ==
  [users |-> << <<Uuid("a"), Plain, <<"0">> >> >>,
   teams |-> << <<Uuid("t"), Plain, Plain>>, <<Uuid("s"), Plain, Plain>> >>,
   team_subscriptions |-> << <<Uuid("t"), Uuid("a")>> >>,
   channels |-> << <<Uuid("t"), Uuid("c"), Plain, Plain>> >>,
   threads |-> << <<Uuid("c"), Uuid("h"), Uuid("a"), MCTime, Plain, Plain>> >>,
   messages |-> << <<Uuid("h"), Uuid("m"), Uuid("a"), MCTime, Plain>> >>,
   privateMessages |-> << <<Uuid("p"), Uuid("a"), MCTime, Plain, Uuid("a")>> >>]

MCAlphabet == {"a", "n", "r", "|", "\\", "\n", "\r"}
=============================================================================
