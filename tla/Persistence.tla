---------------------------- MODULE Persistence ----------------------------
(***************************************************************************)
(* The seven files of server_data: how the server's state becomes lines of *)
(* escaped fields, how DatabaseSaver writes one file after the other, what *)
(* a failed write or a crash leaves of them, and what DatabaseLoader makes *)
(* of whatever it finds.                                                   *)
(*                                                                         *)
(* The state is kept as the rows of the files: each field a sequence of    *)
(* characters, a row per account, team, subscription, channel, thread,     *)
(* reply and private message.  An entry's owner is its first field, as in  *)
(* the files; the vectors of the code are the rows of one owner in order.  *)
(***************************************************************************)
EXTENDS Naturals, Sequences, FiniteSets, SequencesExt

CONSTANTS
  Seed,        (* A state the server has saved before                      *)
  Uuids,       (* The uuids still to be drawn, in order                    *)
  Texts,       (* Names, titles, descriptions and bodies                   *)
  Time,        (* Seconds, in digits                                       *)
  Alphabet, MaxText, MaxFields,     (* Bounds of SplitUndoesJoin           *)
  MaxChanges, MaxTears, MaxStarts   (* Bounds                              *)

VARIABLES
  phase,       (* The process: down, loaded, up, saving                    *)
  memory,      (* _users, _teams, _messages: rows by table                 *)
  files,       (* The text of each file                                    *)
  serialized,  (* What is to be written                                    *)
  written,     (* How many files the save is done with                     *)
  saveSuccess, (* What save returned; FALSE if it did not return           *)
  kept,        (* History: the state the process started with              *)
  last, before,   (* History: memory and kept of the process before it     *)
  failed,      (* History: files some save did not write whole             *)
  tornNow,     (* History: those the last save wrote a part of             *)
  drawn, changes, tears, starts

bounds == <<drawn, changes, tears, starts>>
history == <<kept, last, before>>
vars == <<phase, memory, files, serialized, written, saveSuccess, history, failed,
          tornNow, bounds>>

\* The files in the order of save().  Slip: the accounts at the end.
accountsLast == <<"teams", "team_subscriptions", "channels", "threads",
                  "messages", "privateMessages", "users">>
outputFiles == <<"users", "teams", "team_subscriptions", "channels", "threads",
                 "messages", "privateMessages">>
Tables == {"users", "teams", "team_subscriptions", "channels", "threads",
           "messages", "privateMessages"}

NoRows == [t \in Tables |-> <<>>]
Column(rows, n) == {rows[i][n] : i \in DOMAIN rows}

\* The rows at some of the places, in order.
rowsAt(rows, places) ==
  FlattenSeq([i \in DOMAIN rows |-> IF i \in places THEN <<rows[i]>> ELSE <<>>])

-----------------------------------------------------------------------------
(* Lines and fields                                                         *)

\* Slip: the escape character is not escaped itself.
EscapedDelimiter(c) ==
  CASE c = "|"  -> <<"\\", c>>
    [] c = "\n" -> <<"\\", "n">>
    [] c = "\r" -> <<"\\", "r">>
    [] OTHER    -> <<c>>
Escaped(c) == IF c = "\\" THEN <<"\\", c>> ELSE EscapedDelimiter(c)

escapeField(value) == FlattenSeq([i \in DOMAIN value |-> Escaped(value[i])])

joinEscapedFields(fields) ==
  FlattenSeq([i \in DOMAIN fields |->
                (IF i > 1 THEN <<"|">> ELSE <<>>) \o escapeField(fields[i])])

\* One character of splitEscapedLine.
splitCharacter(s, c) ==
  CASE s.escaping ->
         [s EXCEPT !.escaping = FALSE,
                   !.currentField = Append(@, CASE c = "n" -> "\n"
                                                [] c = "r" -> "\r"
                                                [] OTHER   -> c)]
    [] ~s.escaping /\ c = "\\" -> [s EXCEPT !.escaping = TRUE]
    [] ~s.escaping /\ c = "|" ->
         [s EXCEPT !.fields = Append(@, s.currentField), !.currentField = <<>>]
    [] OTHER -> [s EXCEPT !.currentField = Append(@, c)]

splitEscapedLine(line) ==
  LET s == FoldLeft(splitCharacter,
                    [fields |-> <<>>, currentField |-> <<>>, escaping |-> FALSE],
                    line)
  IN  Append(s.fields,
             IF s.escaping THEN Append(s.currentField, "\\") ELSE s.currentField)

\* writeLines and readTextFile.
textOf(lines) == FlattenSeq([i \in DOMAIN lines |-> Append(lines[i], "\n")])

readCharacter(s, c) ==
  IF c = "\n" THEN [lines |-> Append(s.lines, s.line), line |-> <<>>]
  ELSE [s EXCEPT !.line = Append(@, c)]

linesOf(text) ==
  LET s == FoldLeft(readCharacter, [lines |-> <<>>, line |-> <<>>], text)
  IN  IF s.line = <<>> THEN s.lines ELSE Append(s.lines, s.line)

-----------------------------------------------------------------------------
(* DatabaseSaver::save                                                      *)

\* The rows of each owner in turn; n is the owner's uuid column.
byOwner(rows, owners, n) ==
  FlattenSeq([i \in DOMAIN owners |->
                rowsAt(rows, {j \in DOMAIN rows : rows[j][1] = owners[i][n]})])

\* The order in which serializeData comes upon the rows.
inOrder(m) ==
  LET channels == byOwner(m["channels"], m["teams"], 1)
      threads == byOwner(m["threads"], channels, 2)
  IN  [m EXCEPT !["team_subscriptions"] = byOwner(@, m["teams"], 1),
                !["channels"] = channels,
                !["threads"] = threads,
                !["messages"] = byOwner(@, threads, 2)]

serializeData(m) ==
  [t \in Tables |->
     LET rows == inOrder(m)[t]
     IN  textOf([i \in DOMAIN rows |-> joinEscapedFields(rows[i])])]

-----------------------------------------------------------------------------
(* DatabaseLoader::load                                                     *)

FieldCount == [users |-> 3, teams |-> 3, team_subscriptions |-> 2, channels |-> 4,
               threads |-> 6, messages |-> 5, privateMessages |-> 5]
requireFirstField == Tables \ {"users"}
requireSecondField == Tables \ {"users", "teams"}

wellFormed(t, fields) ==
  /\ Len(fields) = FieldCount[t]
  /\ t \in requireFirstField => fields[1] # <<>>
  /\ t \in requireSecondField => fields[2] # <<>>

\* parseRecord of every line.  Slips: a line that does not parse is kept;
\* missing fields are taken for empty ones.
everyRecord(t, text) ==
  LET lines == linesOf(text)
  IN  [i \in DOMAIN lines |-> splitEscapedLine(lines[i])]
parsed(t, rows) == rowsAt(rows, {i \in DOMAIN rows : wellFormed(t, rows[i])})
paddedRecords(t, text) ==
  LET lines == everyRecord(t, text)
  IN  parsed(t, [i \in DOMAIN lines |->
                   [n \in 1..FieldCount[t] |->
                      IF n <= Len(lines[i]) THEN lines[i][n] ELSE <<>>]])
records(t, text) == parsed(t, everyRecord(t, text))

parseTimeValue(field) ==
  /\ field # <<>>
  /\ \A i \in DOMAIN field :
       field[i] \in {"0", "1", "2", "3", "4", "5", "6", "7", "8", "9"}

\* The first row with a uuid in column n counts.
firstOfEach(rows, n) ==
  rowsAt(rows, {i \in DOMAIN rows : \A j \in 1..(i - 1) : rows[j][n] # rows[i][n]})

ofKnown(rows, owners) == rowsAt(rows, {i \in DOMAIN rows : rows[i][1] \in owners})
timed(rows, n) == rowsAt(rows, {i \in DOMAIN rows : parseTimeValue(rows[i][n])})

load(texts) ==
  LET rows == [t \in Tables |-> records(t, texts[t])]
      teams == firstOfEach(rows["teams"], 1)
      channels == firstOfEach(ofKnown(rows["channels"], Column(teams, 1)), 2)
      threads == firstOfEach(
                   timed(ofKnown(rows["threads"], Column(channels, 2)), 4), 2)
  IN  [rows EXCEPT
         !["teams"] = teams,
         !["team_subscriptions"] = ofKnown(@, Column(teams, 1)),
         !["channels"] = channels,
         !["threads"] = threads,
         !["messages"] = timed(ofKnown(@, Column(threads, 2)), 4),
         !["privateMessages"] = timed(@, 3)]

-----------------------------------------------------------------------------
(* The server's life                                                        *)

resetLoggedIn(m) ==
  [m EXCEPT !["users"] = [i \in DOMAIN @ |-> [@[i] EXCEPT ![3] = <<"0">>]]]

Start ==
  /\ phase = "down" /\ starts < MaxStarts
  /\ phase' = "loaded" /\ starts' = starts + 1
  /\ memory' = resetLoggedIn(load(files))
  /\ kept' = memory' /\ last' = memory /\ before' = kept
  /\ UNCHANGED <<files, serialized, written, saveSuccess, failed, tornNow, drawn,
                 changes, tears>>

\* Bound: the last process only loads.
Running == phase \in {"loaded", "up"} /\ starts < MaxStarts

\* A handler changes the rows of one table; uuids are drawn fresh.
change(t, rows, uuids) ==
  /\ Running /\ changes < MaxChanges
  /\ drawn + uuids <= Len(Uuids)
  /\ memory' = [memory EXCEPT ![t] = rows]
  /\ phase' = "up"
  /\ changes' = changes + 1 /\ drawn' = drawn + uuids
  /\ UNCHANGED <<files, serialized, written, saveSuccess, history, failed,
                 tornNow, tears, starts>>

add(t, row, uuids) == change(t, Append(memory[t], row), uuids)
generateUuid == Uuids[drawn + 1]
accounts == Column(memory["users"], 1)
teamUuids == Column(memory["teams"], 1)

LoginNewUser ==
  \E name \in Texts : add("users", <<generateUuid, name, <<"1">> >>, 1)

\* The creator of a team is its first subscriber.
CreateTeam ==
  /\ Running /\ changes < MaxChanges /\ drawn < Len(Uuids)
  /\ \E u \in accounts, text \in Texts :
       memory' = [memory EXCEPT
                    !["teams"] = Append(@, <<generateUuid, text, text>>),
                    !["team_subscriptions"] = Append(@, <<generateUuid, u>>)]
  /\ phase' = "up"
  /\ changes' = changes + 1 /\ drawn' = drawn + 1
  /\ UNCHANGED <<files, serialized, written, saveSuccess, history, failed,
                 tornNow, tears, starts>>

CreateChannel ==
  \E team \in teamUuids, text \in Texts :
    add("channels", <<team, generateUuid, text, text>>, 1)

CreateThread ==
  \E channel \in Column(memory["channels"], 2), u \in accounts, text \in Texts :
    add("threads", <<channel, generateUuid, u, Time, text, text>>, 1)

CreateReply ==
  \E thread \in Column(memory["threads"], 2), u \in accounts, text \in Texts :
    add("messages", <<thread, generateUuid, u, Time, text>>, 1)

Subscribe ==
  \E team \in teamUuids, u \in accounts :
    /\ ~Contains(memory["team_subscriptions"], <<team, u>>)
    /\ add("team_subscriptions", <<team, u>>, 0)

Unsubscribe ==
  \E subscription \in ToSet(memory["team_subscriptions"]) :
    LET rows == memory["team_subscriptions"]
    IN  change("team_subscriptions",
               rowsAt(rows, {i \in DOMAIN rows : rows[i] # subscription}), 0)

Send ==
  \E author, receiver \in accounts, text \in Texts :
    add("privateMessages", <<generateUuid, author, Time, text, receiver>>, 1)

-----------------------------------------------------------------------------
(* The save                                                                 *)

BeginSave ==
  /\ Running
  /\ phase' = "saving"
  /\ serialized' = serializeData(memory)
  /\ written' = 0 /\ saveSuccess' = TRUE /\ tornNow' = {}
  /\ UNCHANGED <<memory, files, history, failed, bounds>>

\* The directory cannot be made, or the process dies before it saves.
NoSave ==
  /\ Running
  /\ phase' = "down"
  /\ saveSuccess' = FALSE /\ tornNow' = {}
  /\ UNCHANGED <<memory, files, serialized, written, history, failed, bounds>>

Writing == phase = "saving" /\ written < Len(outputFiles)
current == outputFiles[written + 1]

WriteFile ==
  /\ Writing
  /\ files' = [files EXCEPT ![current] = serialized[current]]
  /\ written' = written + 1
  /\ UNCHANGED <<phase, memory, serialized, saveSuccess, history, failed, tornNow,
                 bounds>>

\* writeLines fails, and the next file is written all the same.
FileNotOpened ==
  /\ Writing
  /\ tears < MaxTears /\ tears' = tears + 1
  /\ written' = written + 1
  /\ failed' = failed \union {current}
  /\ saveSuccess' = FALSE
  /\ UNCHANGED <<phase, memory, files, serialized, history, tornNow, drawn, changes,
                 starts>>

\* The file was truncated when it was opened; n characters reached it.
tearFile(n) ==
  /\ tears < MaxTears /\ tears' = tears + 1
  /\ files' = [files EXCEPT ![current] = SubSeq(serialized[current], 1, n)]
  /\ failed' = failed \union {current} /\ tornNow' = tornNow \union {current}

\* good() is asked before the file is closed: an error of the last flush is
\* noticed by nobody.
FileCutShort ==
  /\ Writing
  /\ \E n \in 0..(Len(serialized[current]) - 1) : tearFile(n)
  /\ saveSuccess' \in {FALSE, saveSuccess}
  /\ written' = written + 1
  /\ UNCHANGED <<phase, memory, serialized, history, drawn, changes, starts>>

CrashInFile ==
  /\ Writing
  /\ \E n \in 0..(Len(serialized[current]) - 1) : tearFile(n)
  /\ phase' = "down"
  /\ saveSuccess' = FALSE
  /\ UNCHANGED <<memory, serialized, written, history, drawn, changes, starts>>

\* A file is opened when it is its turn.  Slip: all are opened at first.
allOpened ==
  LET done == {outputFiles[i] : i \in 1..written}
  IN  [t \in Tables |-> IF t \in done THEN files[t] ELSE <<>>]
openedInTurn == files

CrashBetweenFiles ==
  /\ Writing
  /\ phase' = "down"
  /\ files' = openedInTurn
  /\ saveSuccess' = FALSE
  /\ UNCHANGED <<memory, serialized, written, history, failed, tornNow, bounds>>

EndSave ==
  /\ phase = "saving" /\ written = Len(outputFiles)
  /\ phase' = "down"
  /\ UNCHANGED <<memory, files, serialized, written, saveSuccess, history, failed,
                 tornNow, bounds>>

-----------------------------------------------------------------------------
(* A state such as a server saves                                           *)

Owner == [team_subscriptions |-> "teams", channels |-> "teams",
          threads |-> "channels", messages |-> "threads"]
UuidColumn == [users |-> 1, teams |-> 1, channels |-> 2, threads |-> 2,
               messages |-> 2, privateMessages |-> 1]
TimeColumn == [threads |-> 4, messages |-> 4, privateMessages |-> 3]

Shaped(t, row) ==
  /\ wellFormed(t, row)
  /\ t = "users" => row[1] # <<>>
  /\ t \in DOMAIN TimeColumn => parseTimeValue(row[TimeColumn[t]])

uuidsOf(m, t) == Column(m[t], UuidColumn[t])
Owned(m) == \A t \in DOMAIN Owner : Column(m[t], 1) \subseteq uuidsOf(m, Owner[t])

Distinct(rows, n) ==
  \A i, j \in DOMAIN rows : rows[i][n] = rows[j][n] => i = j
OwnersDistinct(m) ==
  \A t \in {"teams", "channels", "threads"} : Distinct(m[t], UuidColumn[t])

\* The users that entries name: in the middle of a line, and at its end.
UsersNamed(m) ==
  Column(m["threads"], 3) \union Column(m["messages"], 3)
    \union Column(m["privateMessages"], 2)

Saved(m) ==
  /\ m \in [Tables -> Seq(Seq(Seq(STRING)))]
  /\ \A t \in Tables : \A i \in DOMAIN m[t] : Shaped(t, m[t][i])
  /\ Owned(m) /\ OwnersDistinct(m)
  /\ UsersNamed(m) \subseteq uuidsOf(m, "users")
  /\ Column(m["team_subscriptions"], 2) \subseteq uuidsOf(m, "users")
  /\ Column(m["privateMessages"], 5) \subseteq uuidsOf(m, "users")

\* generateUuid never repeats itself.
ASSUME PersistenceConstants ==
  /\ Saved(Seed)
  /\ Uuids \in Seq(Seq(STRING) \ {<<>>})
  /\ \A i, j \in DOMAIN Uuids : Uuids[i] = Uuids[j] => i = j
  /\ \A t \in DOMAIN UuidColumn : uuidsOf(Seed, t) \intersect ToSet(Uuids) = {}
  /\ Texts \subseteq Seq(STRING)
  /\ Time \in Seq(STRING) /\ parseTimeValue(Time)
  /\ Alphabet \subseteq STRING /\ MaxText \in Nat /\ MaxFields \in Nat
  /\ MaxChanges \in Nat /\ MaxTears \in Nat /\ MaxStarts \in Nat

-----------------------------------------------------------------------------
Init ==
  /\ phase = "down"
  /\ memory = Seed /\ files = serializeData(Seed)
  /\ kept = Seed /\ last = Seed /\ before = Seed
  /\ serialized = files /\ written = Len(outputFiles) /\ saveSuccess = TRUE
  /\ failed = {} /\ tornNow = {}
  /\ drawn = 0 /\ changes = 0 /\ tears = 0 /\ starts = 0

Next ==
  \/ Start \/ LoginNewUser \/ CreateTeam \/ CreateChannel \/ CreateThread
  \/ CreateReply \/ Subscribe \/ Unsubscribe \/ Send
  \/ BeginSave \/ NoSave \/ WriteFile \/ FileNotOpened \/ FileCutShort
  \/ CrashInFile \/ CrashBetweenFiles \/ EndSave

Spec == Init /\ [][Next]_vars

-----------------------------------------------------------------------------
(* What must hold                                                           *)

\* Splitting a line gives back the fields it was joined from, and reading the
\* text of a file its lines, whatever the fields are made of: the delimiter, the
\* escape character, line ends, the letters that stand for them.
SplitUndoesJoin ==
  phase = "down" /\ starts = 0 =>
    \A fields \in UNION {[1..n -> BoundedSeq(Alphabet, MaxText)] : n \in 1..MaxFields} :
      LET line == joinEscapedFields(fields)
      IN  /\ splitEscapedLine(line) = fields
          /\ line # <<>> => linesOf(textOf(<<line, line>>)) = <<line, line>>

\* What a process saved, every file whole, is what the next one starts with:
\* accounts, teams, channels, threads, replies, subscriptions and messages, each
\* in its owner and in order; only who is logged in is forgotten.
SaveLoadIdentity ==
  phase = "loaded" /\ saveSuccess /\ tornNow = {} =>
    memory = resetLoggedIn(inOrder(last))

\* A save that fails or is cut short costs nothing of what was on the disk
\* before, except entries of the files it tore and what they own.
Owners == [users |-> {}, teams |-> {}, channels |-> {"teams"},
           threads |-> {"teams", "channels"},
           messages |-> {"teams", "channels", "threads"}, privateMessages |-> {}]
LossOnlyBelowTear ==
  phase = "loaded" =>
    \A t \in DOMAIN Owners :
      tornNow \intersect (Owners[t] \union {t}) = {} =>
        uuidsOf(before, t) \subseteq uuidsOf(memory, t)

\* Whatever a crash leaves, the users an entry names are accounts, because
\* users.txt is written first and accounts are never deleted: unless users.txt
\* itself could not be written (the save goes on with the other files), or the
\* file whose lines end in the uuid of a user was torn.
UsersResolve ==
  phase = "loaded" /\ "users" \notin failed =>
    /\ UsersNamed(memory) \subseteq accounts
    /\ "team_subscriptions" \notin failed =>
         Column(memory["team_subscriptions"], 2) \subseteq accounts
    /\ "privateMessages" \notin failed =>
         Column(memory["privateMessages"], 5) \subseteq accounts

\* Nothing is loaded that was in neither generation of the state, but for one row:
\* a torn line that still parses is an entry of which only the last field is
\* damaged, cut short, perhaps at a backslash that escaped the next character.
CutOf(f, whole) ==
  \/ IsPrefix(f, whole)
  \/ f # <<>> /\ Last(f) = "\\" /\ IsPrefix(Front(f), whole)
Damaged(row, whole) ==
  Front(row) = Front(whole) /\ CutOf(Last(row), Last(whole))
NothingInvented ==
  phase = "loaded" =>
    \A t \in Tables \ {"users"} :
      LET genuine == ToSet(last[t]) \union ToSet(before[t])
      IN  \A i \in DOMAIN memory[t] :
            \/ memory[t][i] \in genuine
            \/ /\ t \in tornNow /\ i = Len(memory[t])
               /\ \E whole \in genuine : Damaged(memory[t][i], whole)
=============================================================================
