------------------------- MODULE ClientServerProofs -------------------------
(***************************************************************************)
(* Proofs about ClientServer: for any number of clients, users and packets *)
(* on their way, a client that gave no answer up stays in step with the    *)
(* server, understands every reply and knows its session.                  *)
(***************************************************************************)
EXTENDS ClientServer, WorkspaceProofs

-----------------------------------------------------------------------------
(* Sequences of packets *)

IsSeq(s) == s \in Seq(ToSet(s))
Quiet(s) == IsSeq(s) /\ \A i \in DOMAIN s : IsEvent(s[i])

LEMMA SeqIsSeq ==
  ASSUME NEW T, NEW s \in Seq(T)
  PROVE  IsSeq(s)
<1>1. \A i \in DOMAIN s : s[i] \in ToSet(s)
  BY DEF ToSet
<1>. QED
  BY <1>1 DEF IsSeq

LEMMA ConcatSeq ==
  ASSUME NEW a, NEW b, IsSeq(a), IsSeq(b)
  PROVE  /\ IsSeq(a \o b)
         /\ Len(a) \in Nat /\ Len(b) \in Nat
         /\ DOMAIN a = 1 .. Len(a) /\ DOMAIN b = 1 .. Len(b)
         /\ DOMAIN (a \o b) = 1 .. Len(a) + Len(b)
         /\ \A i \in DOMAIN a : (a \o b)[i] = a[i]
         /\ \A i \in DOMAIN b : (a \o b)[Len(a) + i] = b[i]
         /\ \A i \in DOMAIN (a \o b) : i \notin DOMAIN a =>
              i - Len(a) \in DOMAIN b /\ (a \o b)[i] = b[i - Len(a)]
<1>. DEFINE T == ToSet(a) \union ToSet(b)
<1>1. a \in Seq(ToSet(a)) /\ b \in Seq(ToSet(b))
  BY DEF IsSeq
<1>. HIDE DEF IsSeq
<1>2. a \in Seq(T) /\ b \in Seq(T)
  BY <1>1
<1>. HIDE DEF T
<1>3. a \o b \in Seq(T)
  BY <1>2
<1>4. IsSeq(a \o b)
  BY <1>3, SeqIsSeq
<1>. QED
  BY <1>2, <1>4

LEMMA FirstPart ==
  ASSUME NEW a, NEW b, IsSeq(a), IsSeq(b), NEW i \in DOMAIN a
  PROVE  (a \o b)[i] = a[i]
BY ConcatSeq

LEMMA TailSeq ==
  ASSUME NEW s, IsSeq(s), s # <<>>
  PROVE  /\ IsSeq(Tail(s))
         /\ Len(s) \in Nat /\ DOMAIN s = 1 .. Len(s) /\ 1 \in DOMAIN s
         /\ Head(s) = s[1]
         /\ DOMAIN Tail(s) = 1 .. Len(s) - 1
         /\ \A i \in DOMAIN Tail(s) : i + 1 \in DOMAIN s /\ Tail(s)[i] = s[i + 1]
<1>1. s \in Seq(ToSet(s))
  BY DEF IsSeq
<1>2. Tail(s) \in Seq(ToSet(s))
  BY <1>1
<1>3. IsSeq(Tail(s))
  BY <1>2, SeqIsSeq
<1>. QED
  BY <1>1, <1>3

-----------------------------------------------------------------------------
(* Answers *)

\* The n-th packet of s ends the answer to a command: what precedes it are
\* elements of its list, of one code where the client insists on one, and
\* events, and only events follow.
AnswerTo(cmd, s, n) ==
  /\ IsSeq(s)
  /\ n \in DOMAIN s
  /\ ~IsEvent(s[n])
  /\ s[n].code \notin ListCodes(cmd)
  /\ \A i \in DOMAIN s : i > n => IsEvent(s[i])
  /\ \A i \in DOMAIN s : i < n /\ ~IsEvent(s[i]) =>
       /\ s[i].code \in ListCodes(cmd)
       /\ cmd.kind = "list" =>
            \A j \in DOMAIN s : j < n /\ ~IsEvent(s[j]) => s[j].code = s[i].code

LEMMA AnswerAfterEvents ==
  ASSUME NEW cmd, NEW a, NEW b, NEW n, Quiet(a), AnswerTo(cmd, b, n),
         NEW s, s = a \o b
  PROVE  AnswerTo(cmd, s, Len(a) + n)
<1>1. IsSeq(a) /\ IsSeq(b) /\ n \in DOMAIN b
  BY DEF Quiet, AnswerTo
<1>. DEFINE k == Len(a)
<1>2. /\ IsSeq(s) /\ k \in Nat /\ Len(b) \in Nat
      /\ DOMAIN a = 1 .. k /\ DOMAIN b = 1 .. Len(b)
      /\ DOMAIN s = 1 .. k + Len(b)
      /\ \A i \in DOMAIN a : s[i] = a[i]
      /\ \A i \in DOMAIN b : s[k + i] = b[i]
      /\ \A i \in DOMAIN s : i \notin DOMAIN a =>
           i - k \in DOMAIN b /\ s[i] = b[i - k]
  BY <1>1, ConcatSeq
<1>. HIDE DEF k
<1>3. k + n \in DOMAIN s /\ s[k + n] = b[n]
  BY <1>1, <1>2
<1>4. \A i \in DOMAIN s : ~IsEvent(s[i]) => i - k \in DOMAIN b /\ s[i] = b[i - k]
  BY <1>2 DEF Quiet
<1>5. ASSUME NEW i \in DOMAIN s, i > k + n
      PROVE  IsEvent(s[i])
  BY <1>1, <1>2, <1>4, <1>5 DEF AnswerTo
<1>6. ASSUME NEW i \in DOMAIN s, i < k + n, ~IsEvent(s[i])
      PROVE  /\ s[i].code \in ListCodes(cmd)
             /\ i - k \in DOMAIN b /\ i - k < n /\ s[i] = b[i - k]
  BY <1>1, <1>2, <1>4, <1>6 DEF AnswerTo
<1>7. ASSUME NEW i \in DOMAIN s, i < k + n, ~IsEvent(s[i]), cmd.kind = "list",
             NEW j \in DOMAIN s, j < k + n, ~IsEvent(s[j])
      PROVE  s[j].code = s[i].code
  BY <1>6, <1>7 DEF AnswerTo
<1>8. ASSUME NEW m, m = k + n
      PROVE  AnswerTo(cmd, s, m)
  <2>1. /\ m \in DOMAIN s /\ ~IsEvent(s[m]) /\ s[m].code \notin ListCodes(cmd)
        /\ \A i \in DOMAIN s : i > m => IsEvent(s[i])
    BY <1>3, <1>5, <1>8 DEF AnswerTo
  <2>2. ASSUME NEW i \in DOMAIN s, i < m, ~IsEvent(s[i])
        PROVE  /\ s[i].code \in ListCodes(cmd)
               /\ cmd.kind = "list" =>
                    \A j \in DOMAIN s : j < m /\ ~IsEvent(s[j]) => s[j].code = s[i].code
    BY <1>6, <1>7, <1>8, <2>2
  <2>. QED
    BY <1>2, <2>1, <2>2, Zenon DEF AnswerTo
<1>. QED
  BY <1>8 DEF k

LEMMA EventsAfterAnswer ==
  ASSUME NEW cmd, NEW a, NEW b, NEW n, AnswerTo(cmd, a, n), Quiet(b),
         NEW s, s = a \o b
  PROVE  AnswerTo(cmd, s, n)
<1>1. IsSeq(a) /\ IsSeq(b) /\ n \in DOMAIN a
  BY DEF Quiet, AnswerTo
<1>2. /\ IsSeq(s) /\ Len(a) \in Nat /\ Len(b) \in Nat
      /\ DOMAIN a = 1 .. Len(a)
      /\ DOMAIN s = 1 .. Len(a) + Len(b)
      /\ \A i \in DOMAIN a : s[i] = a[i]
      /\ \A i \in DOMAIN s : i \notin DOMAIN a =>
           i - Len(a) \in DOMAIN b /\ s[i] = b[i - Len(a)]
  BY <1>1, ConcatSeq
<1>3. \A i \in DOMAIN s : ~IsEvent(s[i]) => i \in DOMAIN a /\ s[i] = a[i]
  BY <1>2 DEF Quiet
<1>4. n \in DOMAIN s /\ s[n] = a[n]
  BY <1>1, <1>2
<1>5. AnswerTo(cmd, s, n)
  BY <1>2, <1>3, <1>4 DEF AnswerTo
<1>. QED
  BY <1>4, <1>5

LEMMA QuietConcat ==
  ASSUME NEW a, NEW b, Quiet(a), Quiet(b)
  PROVE  Quiet(a \o b)
<1>1. IsSeq(a) /\ IsSeq(b)
  BY DEF Quiet
<1>. QED
  BY <1>1, ConcatSeq DEF Quiet

LEMMA QuietTail ==
  ASSUME NEW s, Quiet(s), s # <<>>
  PROVE  Quiet(Tail(s)) /\ IsEvent(Head(s))
BY TailSeq DEF Quiet

LEMMA AnswerTail ==
  ASSUME NEW cmd, NEW s, NEW n, AnswerTo(cmd, s, n)
  PROVE  /\ s # <<>> /\ IsSeq(s)
         /\ n = 1 => Head(s) = s[1] /\ Quiet(Tail(s))
         /\ n # 1 => AnswerTo(cmd, Tail(s), n - 1) /\ Tail(s)[n - 1] = s[n]
<1>1. IsSeq(s) /\ s # <<>>
  BY DEF AnswerTo
<1>2. /\ IsSeq(Tail(s))
      /\ Len(s) \in Nat /\ DOMAIN s = 1 .. Len(s) /\ 1 \in DOMAIN s
      /\ Head(s) = s[1]
      /\ DOMAIN Tail(s) = 1 .. Len(s) - 1
      /\ \A i \in DOMAIN Tail(s) : i + 1 \in DOMAIN s /\ Tail(s)[i] = s[i + 1]
  BY <1>1, TailSeq
<1>3. n \in 1 .. Len(s)
  BY <1>2 DEF AnswerTo
<1>4. n = 1 => Quiet(Tail(s))
  BY <1>2 DEF AnswerTo, Quiet
<1>5. CASE n # 1
  <2>1. n - 1 \in DOMAIN Tail(s) /\ Tail(s)[n - 1] = s[n]
    BY <1>2, <1>3, <1>5
  <2>2. AnswerTo(cmd, Tail(s), n - 1)
    BY <1>2, <1>3, <2>1 DEF AnswerTo
  <2>. QED
    BY <1>1, <1>5, <2>1, <2>2
<1>. QED
  BY <1>1, <1>2, <1>4, <1>5

-----------------------------------------------------------------------------
(* Commands and clients *)

\* What a command carries.
ArgumentsOf(kind) ==
  CASE kind \in {"login", "user", "messages", "send"} -> Users
    [] kind \in {"logout", "list", "info", "users"} -> {Nothing}
    [] kind = "use" -> Contexts
    [] kind = "create" -> CreatePayload
    [] kind \in {"subscribe", "unsubscribe"} -> Teams
    [] kind = "subscribed" -> Teams \union {Nothing}

Served == {cmd \in Commands : cmd.arg \in ArgumentsOf(cmd.kind)}

Expectations == {"none", "RPL_TEAMS_LIST", "RPL_CHANNELS_LIST", "RPL_THREADS_LIST",
                 "RPL_REPLIES_LIST", "RPL_SUBSCRIBED_LIST", "RPL_USERS_LIST",
                 "RPL_MESSAGES_LIST", "RPL_OK"}

ClientStates == [connected : BOOLEAN, username : Users \union {NoUser},
                 context : Contexts, pending : Served \union {NoCommand},
                 expected : Expectations]

\* Client c is right about the user and the context the server has for it.
Agree(user, ctx, c) ==
  /\ user = IF c.connected THEN c.username ELSE NoUser
  /\ c.context # NoContext => ctx = c.context

\* Where a client and its connection may be while no answer is astray: nothing
\* is asked, a command is on its way, or its answer is; and then the client is
\* right, or will be with the reply that ends the answer, unless it gave up an
\* answer before.
IdleWith(c, sent, arriving, user, ctx, t) ==
  /\ c.pending = NoCommand
  /\ sent = <<>>
  /\ Quiet(arriving)
  /\ t = 0 => Agree(user, ctx, c)

AskedWith(c, sent, arriving, user, ctx, t) ==
  /\ c.pending # NoCommand
  /\ c.expected = "none"
  /\ sent = <<c.pending>>
  /\ Quiet(arriving)
  /\ t = 0 => /\ Agree(user, ctx, c)
              /\ c.pending.kind = "login" => ~c.connected

Expecting(c, arriving, n) ==
  c.pending.kind = "list" =>
    \/ c.expected = "none"
    \/ \A i \in DOMAIN arriving :
         i < n /\ ~IsEvent(arriving[i]) => arriving[i].code = c.expected

Concludes(c, code, user, ctx) ==
  /\ code \in finalCodes(c.pending)
  /\ Agree(user, ctx, afterReply(c, code))

AnsweredWith(c, sent, arriving, user, ctx, t) ==
  /\ c.pending # NoCommand
  /\ sent = <<>>
  /\ \E n : /\ AnswerTo(c.pending, arriving, n)
            /\ Expecting(c, arriving, n)
            /\ t = 0 => Concludes(c, arriving[n].code, user, ctx)

\* All that is true of one connection.
Good(c, sent, arriving, user, ctx, t, stray) ==
  /\ c \in ClientStates
  /\ sent \in Seq(Served)
  /\ IsSeq(arriving)
  /\ t \in Nat /\ stray \in BOOLEAN
  /\ stray => t > 0
  /\ ~stray => \/ IdleWith(c, sent, arriving, user, ctx, t)
              \/ AskedWith(c, sent, arriving, user, ctx, t)
              \/ AnsweredWith(c, sent, arriving, user, ctx, t)

\* Whatever client sent the command cmd, right before it, the packets s answer
\* it so that the client is right after it.
Answers(cmd, s, user, ctx, newUser, newCtx) ==
  \E n : /\ AnswerTo(cmd, s, n)
        /\ \A c \in ClientStates :
             /\ c.pending = cmd
             /\ Agree(user, ctx, c)
             /\ cmd.kind = "login" => ~c.connected
             => Concludes(c, s[n].code, newUser, newCtx)

LEMMA NoCommandServed == NoCommand \notin Served
BY NoCommandIsNone DEF Served

LEMMA NewIsGood ==
  ASSUME NEW arriving, NEW ctx, Quiet(arriving)
  PROVE  Good(NewClient, <<>>, arriving, NoUser, ctx, 0, FALSE)
<1>1. /\ NewClient.pending = NoCommand /\ NewClient.connected = FALSE
      /\ NewClient.context = NoContext
  BY DEF NewClient
<1>2. NewClient \in ClientStates
  BY NoContextValid DEF NewClient, ClientStates, Expectations
<1>3. IdleWith(NewClient, <<>>, arriving, NoUser, ctx, 0)
  BY <1>1 DEF IdleWith, Agree
<1>. QED
  BY <1>2, <1>3 DEF Good, Quiet

asking(c, cmd) == [c EXCEPT !.pending = cmd, !.expected = "none"]
MaySend(c, cmd) == cmd.kind = "login" => ~c.connected

LEMMA SendGood ==
  ASSUME NEW c, NEW sent, NEW arriving, NEW user, NEW ctx, NEW t, NEW stray,
         Good(c, sent, arriving, user, ctx, t, stray), c.pending = NoCommand,
         NEW cmd \in Served, MaySend(c, cmd)
  PROVE  Good(asking(c, cmd), Append(sent, cmd), arriving, user, ctx, t, stray)
<1>. DEFINE d == asking(c, cmd)
<1>1. /\ d \in ClientStates
      /\ d.pending = cmd /\ d.expected = "none" /\ d.connected = c.connected
      /\ d.username = c.username /\ d.context = c.context
  <2>1. c \in ClientStates
    BY DEF Good
  <2>. QED
    BY <2>1 DEF ClientStates, Expectations, asking
<1>. HIDE DEF d
<1>2. cmd # NoCommand
  BY NoCommandServed
<1>3. Append(sent, cmd) \in Seq(Served)
  BY DEF Good
<1>4. ~stray => AskedWith(d, Append(sent, cmd), arriving, user, ctx, t)
  <2>. SUFFICES ASSUME ~stray
                PROVE  AskedWith(d, Append(sent, cmd), arriving, user, ctx, t)
    OBVIOUS
  <2>1. IdleWith(c, sent, arriving, user, ctx, t)
    BY DEF Good, AskedWith, AnsweredWith
  <2>2. Append(sent, cmd) = <<cmd>>
    BY <2>1 DEF IdleWith
  <2>. QED
    BY <1>1, <1>2, <2>1, <2>2 DEF IdleWith, AskedWith, Agree, MaySend
<1>5. Good(d, Append(sent, cmd), arriving, user, ctx, t, stray)
  BY <1>1, <1>3, <1>4 DEF Good
<1>. QED
  BY <1>5 DEF d

\* Events reach a connection.
LEMMA EventsGood ==
  ASSUME NEW c, NEW sent, NEW arriving, NEW user, NEW ctx, NEW t, NEW stray,
         Good(c, sent, arriving, user, ctx, t, stray), NEW q, Quiet(q)
  PROVE  Good(c, sent, arriving \o q, user, ctx, t, stray)
<1>. SUFFICES ASSUME NEW s, s = arriving \o q
              PROVE  Good(c, sent, s, user, ctx, t, stray)
  OBVIOUS
<1>1. /\ IsSeq(s) /\ IsSeq(arriving)
      /\ \A i \in DOMAIN s : ~IsEvent(s[i]) => i \in DOMAIN arriving
      /\ \A i \in DOMAIN arriving : s[i] = arriving[i]
  <2>1. IsSeq(arriving) /\ IsSeq(q) /\ \A i \in DOMAIN q : IsEvent(q[i])
    BY DEF Good, Quiet
  <2>. QED
    BY <2>1, ConcatSeq
<1>2. Quiet(arriving) => Quiet(s)
  BY QuietConcat
<1>3. ASSUME NEW n, AnswerTo(c.pending, arriving, n), Expecting(c, arriving, n)
      PROVE  /\ AnswerTo(c.pending, s, n) /\ s[n] = arriving[n]
             /\ Expecting(c, s, n)
  <2>1. AnswerTo(c.pending, s, n)
    BY <1>3, EventsAfterAnswer
  <2>2. s[n] = arriving[n]
    BY <1>1, <1>3 DEF AnswerTo
  <2>. QED
    BY <1>1, <1>3, <2>1, <2>2 DEF Expecting
<1>4. AnsweredWith(c, sent, arriving, user, ctx, t) => AnsweredWith(c, sent, s, user, ctx, t)
  BY <1>3 DEF AnsweredWith
<1>. QED
  BY <1>1, <1>2, <1>4 DEF Good, IdleWith, AskedWith

\* The server answers the first command of a connection.
LEMMA ServeGood ==
  ASSUME NEW c, NEW sent, NEW arriving, NEW user, NEW ctx, NEW t, NEW stray,
         Good(c, sent, arriving, user, ctx, t, stray), sent # <<>>,
         NEW q, NEW newUser, NEW newCtx,
         Answers(Head(sent), q, user, ctx, newUser, newCtx)
  PROVE  Good(c, Tail(sent), arriving \o q, newUser, newCtx, t, stray)
<1>1. PICK n : /\ AnswerTo(Head(sent), q, n)
               /\ \A d \in ClientStates :
                    /\ d.pending = Head(sent)
                    /\ Agree(user, ctx, d)
                    /\ Head(sent).kind = "login" => ~d.connected
                    => Concludes(d, q[n].code, newUser, newCtx)
  BY DEF Answers
<1>. SUFFICES ASSUME NEW s, s = arriving \o q
              PROVE  Good(c, Tail(sent), s, newUser, newCtx, t, stray)
  OBVIOUS
<1>2. IsSeq(s)
  BY <1>1, ConcatSeq DEF Good, AnswerTo
<1>3. Tail(sent) \in Seq(Served)
  BY DEF Good
<1>4. ASSUME ~stray
      PROVE  AnsweredWith(c, Tail(sent), s, newUser, newCtx, t)
  <2>1. AskedWith(c, sent, arriving, user, ctx, t)
    BY <1>4 DEF Good, IdleWith, AnsweredWith
  <2>2. Head(sent) = c.pending /\ Tail(sent) = <<>>
    BY <2>1 DEF AskedWith
  <2>. DEFINE m == Len(arriving) + n
  <2>3. AnswerTo(c.pending, s, m) /\ s[m] = q[n]
    <3>1. AnswerTo(c.pending, q, n) /\ Quiet(arriving)
      BY <1>1, <2>1, <2>2 DEF AskedWith
    <3>2. AnswerTo(c.pending, s, m)
      BY <3>1, AnswerAfterEvents
    <3>3. IsSeq(arriving) /\ IsSeq(q) /\ n \in DOMAIN q
      BY <3>1 DEF Quiet, AnswerTo
    <3>4. s[m] = q[n]
      BY <3>3, ConcatSeq
    <3>. QED
      BY <3>2, <3>4
  <2>. HIDE DEF m
  <2>4. Expecting(c, s, m)
    BY <2>1 DEF AskedWith, Expecting
  <2>5. t = 0 => Concludes(c, s[m].code, newUser, newCtx)
    BY <1>1, <2>1, <2>2, <2>3 DEF AskedWith, Good
  <2>. QED
    BY <2>1, <2>2, <2>3, <2>4, <2>5 DEF AnsweredWith, AskedWith
<1>. QED
  BY <1>2, <1>3, <1>4 DEF Good

LEMMA IdleState ==
  ASSUME NEW c \in ClientStates
  PROVE  /\ idle(c) \in ClientStates
         /\ idle(c).pending = NoCommand
         /\ \A user, ctx : Agree(user, ctx, idle(c)) <=> Agree(user, ctx, c)
<1>1. /\ idle(c) \in ClientStates
      /\ idle(c).pending = NoCommand /\ idle(c).connected = c.connected
      /\ idle(c).username = c.username /\ idle(c).context = c.context
  BY DEF idle, ClientStates, Expectations
<1>. QED
  BY <1>1 DEF Agree

LEMMA ServedCommand ==
  ASSUME NEW cmd \in Served
  PROVE  /\ cmd.kind \in ClientKinds /\ cmd.arg \in ArgumentsOf(cmd.kind)
         /\ cmd # NoCommand
BY NoCommandServed DEF Served, Commands

LEMMA AfterReplyState ==
  ASSUME NEW c \in ClientStates, c.pending # NoCommand, NEW code
  PROVE  afterReply(c, code) \in ClientStates
<1>1. c.pending \in Served
  BY DEF ClientStates
<1>2. c.pending.kind = "login" => c.pending.arg \in Users
  BY <1>1, ServedCommand DEF ArgumentsOf
<1>3. c.pending.kind = "use" => c.pending.arg \in Contexts
  BY <1>1, ServedCommand DEF ArgumentsOf
<1>4. CASE c.pending.kind = "login" /\ code = "RPL_OK"
  <2>1. afterReply(c, code) = [c EXCEPT !.connected = TRUE, !.username = c.pending.arg]
    BY <1>4 DEF afterReply
  <2>. QED
    BY <1>2, <1>4, <2>1 DEF ClientStates
<1>5. CASE c.pending.kind = "logout" /\ code = "RPL_OK"
  <2>1. afterReply(c, code) = loggedOut(c)
    BY <1>5 DEF afterReply
  <2>. QED
    BY <1>1, <2>1, NoContextValid DEF loggedOut, NewClient, ClientStates, Expectations
<1>6. CASE c.pending.kind = "use" /\ code = "RPL_OK"
  <2>1. afterReply(c, code) = [c EXCEPT !.context = c.pending.arg]
    BY <1>6 DEF afterReply
  <2>. QED
    BY <1>3, <1>6, <2>1 DEF ClientStates
<1>7. CASE ~(c.pending.kind \in {"login", "logout", "use"} /\ code = "RPL_OK")
  BY <1>7 DEF afterReply
<1>. QED
  BY <1>4, <1>5, <1>6, <1>7

\* No answer is left on the way to a client that has read the rest of it.
LEMMA SettledQuiet ==
  ASSUME NEW s, IsSeq(s), ~AnswerIn(s)
  PROVE  Quiet(s)
BY DEF Quiet, AnswerIn

LEMMA SettledGood ==
  ASSUME NEW c \in ClientStates, c.pending = NoCommand, NEW sent \in Seq(Served),
         NEW rest, IsSeq(rest), NEW user, NEW ctx, NEW t \in Nat, t > 0
  PROVE  Good(c, sent, rest, user, ctx, t, sent # <<>> \/ AnswerIn(rest))
BY SettledQuiet DEF Good, IdleWith

LEMMA GiveUpGood ==
  ASSUME NEW c, NEW sent, NEW arriving, NEW user, NEW ctx, NEW t, NEW stray,
         Good(c, sent, arriving, user, ctx, t, stray)
  PROVE  Good(idle(c), sent, arriving, user, ctx, t + 1, TRUE)
BY IdleState DEF Good

LEMMA ReadEventGood ==
  ASSUME NEW c, NEW sent, NEW arriving, NEW user, NEW ctx, NEW t, NEW stray,
         Good(c, sent, arriving, user, ctx, t, stray),
         arriving # <<>>, IsEvent(Head(arriving))
  PROVE  Good(c, sent, Tail(arriving), user, ctx, t, stray)
<1>1. IsSeq(arriving)
  BY DEF Good
<1>2. /\ IsSeq(Tail(arriving)) /\ Head(arriving) = arriving[1]
      /\ DOMAIN arriving = 1 .. Len(arriving) /\ Len(arriving) \in Nat
      /\ DOMAIN Tail(arriving) = 1 .. Len(arriving) - 1
      /\ \A i \in DOMAIN Tail(arriving) :
           i + 1 \in DOMAIN arriving /\ Tail(arriving)[i] = arriving[i + 1]
  BY <1>1, TailSeq
<1>3. Quiet(arriving) => Quiet(Tail(arriving))
  BY QuietTail
<1>4. ASSUME NEW n, AnswerTo(c.pending, arriving, n), Expecting(c, arriving, n),
             t = 0 => Concludes(c, arriving[n].code, user, ctx)
      PROVE  /\ AnswerTo(c.pending, Tail(arriving), n - 1)
             /\ Expecting(c, Tail(arriving), n - 1)
             /\ t = 0 => Concludes(c, Tail(arriving)[n - 1].code, user, ctx)
  <2>1. n # 1 /\ n \in 1 .. Len(arriving)
    BY <1>2, <1>4 DEF AnswerTo
  <2>2. AnswerTo(c.pending, Tail(arriving), n - 1)
    BY <1>4, <2>1, AnswerTail
  <2>3. Tail(arriving)[n - 1] = arriving[n]
    BY <1>2, <2>1
  <2>4. \A i \in DOMAIN Tail(arriving) : i < n - 1 => i + 1 < n
    BY <1>2, <2>1
  <2>5. Expecting(c, Tail(arriving), n - 1)
    BY <1>2, <1>4, <2>4 DEF Expecting
  <2>. QED
    BY <1>4, <2>2, <2>3, <2>5
<1>5. AnsweredWith(c, sent, arriving, user, ctx, t)
        => AnsweredWith(c, sent, Tail(arriving), user, ctx, t)
  BY <1>4 DEF AnsweredWith
<1>. QED
  BY <1>2, <1>3, <1>5 DEF Good, IdleWith, AskedWith

\* A client that asked nothing drops what is left of an answer it gave up.
LEMMA DropGood ==
  ASSUME NEW c, NEW sent, NEW arriving, NEW user, NEW ctx, NEW t, NEW stray,
         Good(c, sent, arriving, user, ctx, t, stray), c.pending = NoCommand,
         arriving # <<>>, ~IsEvent(Head(arriving))
  PROVE  Good(c, sent, Tail(arriving), user, ctx, t,
              stray /\ (sent # <<>> \/ AnswerIn(Tail(arriving))))
<1>1. stray
  BY QuietTail DEF Good, IdleWith, AskedWith, AnsweredWith
<1>2. IsSeq(Tail(arriving))
  BY TailSeq DEF Good
<1>3. Good(c, sent, Tail(arriving), user, ctx, t,
           sent # <<>> \/ AnswerIn(Tail(arriving)))
  BY <1>1, <1>2, SettledGood DEF Good
<1>4. (stray /\ (sent # <<>> \/ AnswerIn(Tail(arriving))))
        = (sent # <<>> \/ AnswerIn(Tail(arriving)))
  BY <1>1
<1>. QED
  BY <1>3, <1>4, Zenon

\* What a reply does to a client does not depend on the list it was reading.
LEMMA ConcludesAnyway ==
  ASSUME NEW c \in ClientStates, NEW e \in Expectations, c.pending # NoCommand,
         NEW code, NEW user, NEW ctx, Concludes(c, code, user, ctx)
  PROVE  Concludes([c EXCEPT !.expected = e], code, user, ctx)
<1>. DEFINE after == afterReply(c, code)
<1>. SUFFICES ASSUME NEW d, d = [c EXCEPT !.expected = e]
              PROVE  Concludes(d, code, user, ctx)
  OBVIOUS
<1>1. /\ d \in ClientStates /\ d.pending = c.pending
      /\ d.connected = c.connected /\ d.username = c.username
      /\ d.context = c.context
  BY DEF ClientStates
<1>2. CASE c.pending.kind = "login" /\ code = "RPL_OK"
  <2>1. /\ afterReply(d, code) = [d EXCEPT !.connected = TRUE, !.username = d.pending.arg]
        /\ after = [c EXCEPT !.connected = TRUE, !.username = c.pending.arg]
    BY <1>1, <1>2 DEF afterReply
  <2>2. /\ afterReply(d, code).connected = after.connected
        /\ afterReply(d, code).username = after.username
        /\ afterReply(d, code).context = after.context
    <3>. HIDE DEF after
    <3>. QED
      BY <1>1, <2>1 DEF ClientStates
  <2>. QED
    <3>1. code \in finalCodes(d.pending) /\ Agree(user, ctx, after)
      BY <1>1 DEF Concludes
    <3>. HIDE DEF after
    <3>2. Agree(user, ctx, afterReply(d, code))
      BY <2>2, <3>1 DEF Agree
    <3>. QED
      BY <3>1, <3>2 DEF Concludes
<1>3. CASE c.pending.kind = "logout" /\ code = "RPL_OK"
  <2>1. afterReply(d, code) = loggedOut(d) /\ after = loggedOut(c)
    BY <1>1, <1>3 DEF afterReply
  <2>2. loggedOut(d) = loggedOut(c)
    BY <1>1 DEF loggedOut
  <2>. QED
    BY <1>1, <2>1, <2>2 DEF Concludes
<1>4. CASE c.pending.kind = "use" /\ code = "RPL_OK"
  <2>1. /\ afterReply(d, code) = [d EXCEPT !.context = d.pending.arg]
        /\ after = [c EXCEPT !.context = c.pending.arg]
    BY <1>1, <1>4 DEF afterReply
  <2>2. /\ afterReply(d, code).connected = after.connected
        /\ afterReply(d, code).username = after.username
        /\ afterReply(d, code).context = after.context
    BY <1>1, <2>1 DEF ClientStates
  <2>. QED
    BY <1>1, <2>2 DEF Concludes, Agree
<1>5. CASE ~(c.pending.kind \in {"login", "logout", "use"} /\ code = "RPL_OK")
  <2>1. afterReply(d, code) = d /\ after = c
    BY <1>1, <1>5 DEF afterReply
  <2>. QED
    BY <1>1, <2>1 DEF Concludes, Agree
<1>. QED
  BY <1>2, <1>3, <1>4, <1>5

LEMMA ListCodesExpected ==
  ASSUME NEW cmd \in Served
  PROVE  ListCodes(cmd) \subseteq Expectations
BY ServedCommand DEF ListCodes, Expectations, ClientKinds

\* The handler reads an element of its list.
LEMMA ReadMoreGood ==
  ASSUME NEW c, NEW sent, NEW arriving, NEW user, NEW ctx, NEW t, NEW stray,
         Good(c, sent, arriving, user, ctx, t, stray), c.pending # NoCommand,
         arriving # <<>>, ~IsEvent(Head(arriving)),
         moreFollows(c, Head(arriving).code)
  PROVE  Good([c EXCEPT !.expected = Head(arriving).code], sent, Tail(arriving),
              user, ctx, t, stray)
<1>. DEFINE code == Head(arriving).code
            d == [c EXCEPT !.expected = code]
<1>1. c \in ClientStates /\ c.pending \in Served /\ IsSeq(arriving)
  BY DEF Good, ClientStates
<1>2. /\ IsSeq(Tail(arriving)) /\ Head(arriving) = arriving[1]
      /\ DOMAIN arriving = 1 .. Len(arriving) /\ Len(arriving) \in Nat
      /\ 1 \in DOMAIN arriving
      /\ DOMAIN Tail(arriving) = 1 .. Len(arriving) - 1
      /\ \A i \in DOMAIN Tail(arriving) :
           i + 1 \in DOMAIN arriving /\ Tail(arriving)[i] = arriving[i + 1]
  BY <1>1, TailSeq
<1>3. code \in ListCodes(c.pending) /\ code \in Expectations
  BY <1>1, ListCodesExpected DEF moreFollows
<1>. HIDE DEF code
<1>4. d \in ClientStates /\ d.pending = c.pending /\ d.expected = code
  BY <1>1, <1>3 DEF ClientStates
<1>5. \A x : Concludes(c, x, user, ctx) => Concludes(d, x, user, ctx)
  BY <1>1, <1>3, ConcludesAnyway
<1>. HIDE DEF d
<1>6. ASSUME NEW n, AnswerTo(c.pending, arriving, n),
             t = 0 => Concludes(c, arriving[n].code, user, ctx)
      PROVE  /\ AnswerTo(c.pending, Tail(arriving), n - 1)
             /\ Expecting(d, Tail(arriving), n - 1)
             /\ t = 0 => Concludes(d, Tail(arriving)[n - 1].code, user, ctx)
  <2>1. n \in 1 .. Len(arriving) /\ arriving[n].code \notin ListCodes(c.pending)
    BY <1>2, <1>6 DEF AnswerTo
  <2>2. n # 1
    BY <1>2, <1>3, <2>1 DEF code
  <2>3. AnswerTo(c.pending, Tail(arriving), n - 1)
    BY <1>6, <2>2, AnswerTail
  <2>4. Tail(arriving)[n - 1] = arriving[n]
    BY <1>2, <2>1, <2>2
  <2>5. ASSUME c.pending.kind = "list", NEW i \in DOMAIN Tail(arriving), i < n - 1,
               ~IsEvent(Tail(arriving)[i])
        PROVE  Tail(arriving)[i].code = code
    <3>1. i + 1 \in DOMAIN arriving /\ i + 1 < n /\ Tail(arriving)[i] = arriving[i + 1]
      BY <1>2, <2>1, <2>5
    <3>2. 1 < n /\ 1 \in DOMAIN arriving /\ ~IsEvent(arriving[1])
      BY <1>2, <2>1, <2>2
    <3>3. arriving[i + 1].code = arriving[1].code
      BY <1>6, <2>5, <3>1, <3>2 DEF AnswerTo
    <3>. QED
      BY <1>2, <3>1, <3>3 DEF code
  <2>6. Expecting(d, Tail(arriving), n - 1)
    BY <1>4, <2>5 DEF Expecting
  <2>. QED
    BY <1>5, <1>6, <2>3, <2>4, <2>6
<1>7. ~stray => AnsweredWith(d, sent, Tail(arriving), user, ctx, t)
  <2>1. ~stray => AnsweredWith(c, sent, arriving, user, ctx, t)
    BY <1>2 DEF Good, IdleWith, AskedWith, Quiet
  <2>. QED
    BY <1>4, <1>6, <2>1 DEF AnsweredWith
<1>8. Good(d, sent, Tail(arriving), user, ctx, t, stray)
  BY <1>2, <1>4, <1>7 DEF Good
<1>. QED
  BY <1>8 DEF d, code

\* The handler reads the reply that ends its command.
LEMMA ReadFinalGood ==
  ASSUME NEW c, NEW sent, NEW arriving, NEW user, NEW ctx, NEW t, NEW stray,
         Good(c, sent, arriving, user, ctx, t, stray), c.pending # NoCommand,
         arriving # <<>>, ~IsEvent(Head(arriving)),
         ~moreFollows(c, Head(arriving).code)
  PROVE  Good(idle(afterReply(c, Head(arriving).code)), sent, Tail(arriving),
              user, ctx, t,
              stray /\ (sent # <<>> \/ AnswerIn(Tail(arriving))))
<1>. DEFINE code == Head(arriving).code
            d == idle(afterReply(c, code))
            left == sent # <<>> \/ AnswerIn(Tail(arriving))
<1>1. /\ c \in ClientStates /\ IsSeq(arriving) /\ t \in Nat /\ stray \in BOOLEAN
      /\ sent \in Seq(Served)
      /\ stray => t > 0
  BY DEF Good
<1>2. afterReply(c, code) \in ClientStates
  BY <1>1, AfterReplyState
<1>3. /\ d \in ClientStates /\ d.pending = NoCommand
      /\ Agree(user, ctx, d) <=> Agree(user, ctx, afterReply(c, code))
  BY <1>2, IdleState
<1>. HIDE DEF d
<1>4. /\ IsSeq(Tail(arriving)) /\ Head(arriving) = arriving[1]
      /\ DOMAIN arriving = 1 .. Len(arriving) /\ Len(arriving) \in Nat
      /\ 1 \in DOMAIN arriving
  BY <1>1, TailSeq
<1>5. CASE stray
  <2>1. Good(d, sent, Tail(arriving), user, ctx, t, left)
    <3>1. t > 0
      BY <1>1, <1>5, Zenon
    <3>2. d \in ClientStates /\ d.pending = NoCommand
      BY <1>3
    <3>3. t \in Nat /\ sent \in Seq(Served) /\ IsSeq(Tail(arriving))
      BY <1>1, <1>4, Zenon
    <3>. QED
      BY <3>1, <3>2, <3>3, SettledGood
  <2>2. (stray /\ left) = left
    BY <1>5
  <2>. HIDE DEF left
  <2>3. Good(d, sent, Tail(arriving), user, ctx, t, stray /\ left)
    BY <2>1, <2>2, Zenon
  <2>. QED
    BY <2>3 DEF d, left
<1>6. CASE ~stray
  <2>1. AnsweredWith(c, sent, arriving, user, ctx, t)
    BY <1>4, <1>6 DEF Good, IdleWith, AskedWith, Quiet
  <2>2. PICK n : /\ AnswerTo(c.pending, arriving, n)
                 /\ Expecting(c, arriving, n)
                 /\ t = 0 => Concludes(c, arriving[n].code, user, ctx)
    BY <2>1 DEF AnsweredWith
  <2>3. n = 1
    <3>. SUFFICES ASSUME n # 1 PROVE FALSE
      OBVIOUS
    <3>1. 1 < n /\ ~IsEvent(arriving[1])
      BY <1>4, <2>2 DEF AnswerTo
    <3>2. arriving[1].code \in ListCodes(c.pending)
      BY <1>4, <2>2, <3>1 DEF AnswerTo
    <3>3. c.pending.kind = "list" => c.expected \in {"none", arriving[1].code}
      BY <1>4, <2>2, <3>1 DEF Expecting
    <3>. QED
      BY <1>4, <3>2, <3>3 DEF moreFollows
  <2>4. Quiet(Tail(arriving))
    BY <2>2, <2>3, AnswerTail
  <2>5. t = 0 => Agree(user, ctx, d)
    BY <1>3, <1>4, <2>2, <2>3 DEF Concludes
  <2>6. IdleWith(d, sent, Tail(arriving), user, ctx, t)
    BY <1>3, <2>1, <2>4, <2>5 DEF IdleWith, AnsweredWith
  <2>7. Good(d, sent, Tail(arriving), user, ctx, t, FALSE)
    BY <1>1, <1>3, <1>4, <2>6 DEF Good
  <2>8. (stray /\ left) = FALSE
    BY <1>6
  <2>. HIDE DEF left
  <2>9. Good(d, sent, Tail(arriving), user, ctx, t, stray /\ left)
    BY <2>7, <2>8, Zenon
  <2>. QED
    BY <2>9 DEF d, left
<1>. QED
  BY <1>1, <1>5, <1>6

-----------------------------------------------------------------------------
(* What the server queues *)

LEMMA RepliesAreNoEvents ==
  ASSUME NEW p,
         p.code \in StatusCodes \union Expectations \union
                    {"RPL_CREATED", "RPL_USER_INFO", "ERR_FORBIDDEN"}
  PROVE  ~IsEvent(p)
BY DEF StatusCodes, Expectations, EventCodes, IsEvent

\* A reply that a handler ends on is neither an event nor a list's element.
LEMMA FinalReplies ==
  ASSUME NEW cmd \in Served, NEW p, p.code \in finalCodes(cmd)
  PROVE  p.code \notin ListCodes(cmd) /\ ~IsEvent(p)
<1>1. cmd.kind \in ClientKinds
  BY ServedCommand
<1>2. p.code \in StatusCodes \union Expectations \union
                 {"RPL_CREATED", "RPL_USER_INFO", "ERR_FORBIDDEN"}
  BY <1>1 DEF finalCodes, StatusCodes, Expectations, ClientKinds
<1>3. p.code \notin ListCodes(cmd)
  BY <1>1 DEF finalCodes, ListCodes, ClientKinds
<1>. QED
  BY <1>2, <1>3, RepliesAreNoEvents

LEMMA OnePacket ==
  ASSUME NEW p
  PROVE  /\ IsSeq(<<p>>) /\ DOMAIN <<p>> = {1} /\ <<p>>[1] = p
         /\ IsEvent(p) => Quiet(<<p>>)
         /\ Quiet(<<>>)
<1>1. <<p>> \in Seq({p}) /\ <<>> \in Seq({p})
  OBVIOUS
<1>2. IsSeq(<<p>>) /\ IsSeq(<<>>)
  BY <1>1, SeqIsSeq
<1>. QED
  BY <1>2 DEF Quiet

\* One reply, and events after it.
LEMMA OneReply ==
  ASSUME NEW cmd, NEW p, ~IsEvent(p), p.code \notin ListCodes(cmd),
         NEW rest, Quiet(rest), NEW s, s = <<p>> \o rest
  PROVE  AnswerTo(cmd, s, 1) /\ s[1] = p
<1>1. AnswerTo(cmd, <<p>>, 1)
  BY OnePacket DEF AnswerTo
<1>2. AnswerTo(cmd, s, 1)
  BY <1>1, EventsAfterAnswer
<1>3. s[1] = p
  BY OnePacket, ConcatSeq DEF Quiet
<1>. QED
  BY <1>2, <1>3

\* The elements of a list and the reply that ends it.
LEMMA ListReply ==
  ASSUME NEW cmd, NEW T, NEW packets \in Seq(T), NEW code \in ListCodes(cmd),
         \A i \in DOMAIN packets : packets[i].code = code,
         NEW end, ~IsEvent(end), end.code \notin ListCodes(cmd),
         NEW s, s = Append(packets, end)
  PROVE  /\ AnswerTo(cmd, s, Len(packets) + 1)
         /\ s[Len(packets) + 1] = end
<1>. DEFINE k == Len(packets)
<1>1. s \in Seq(T \union {end})
  <2>1. packets \in Seq(T \union {end})
    OBVIOUS
  <2>. QED
    BY <2>1
<1>2. IsSeq(s)
  BY <1>1, SeqIsSeq
<1>3. /\ k \in Nat /\ DOMAIN packets = 1 .. k /\ DOMAIN s = 1 .. k + 1
      /\ s[k + 1] = end
      /\ \A i \in DOMAIN packets : s[i] = packets[i]
  OBVIOUS
<1>. HIDE DEF k
<1>4. \A i \in DOMAIN s : i < k + 1 => s[i].code = code
  BY <1>3
<1>5. ASSUME NEW n, n = k + 1
      PROVE  AnswerTo(cmd, s, n)
  <2>1. n \in DOMAIN s /\ ~IsEvent(s[n]) /\ s[n].code \notin ListCodes(cmd)
    BY <1>3, <1>5
  <2>2. \A i \in DOMAIN s : ~(i > n)
    BY <1>3, <1>5
  <2>3. \A i \in DOMAIN s : i < n => s[i].code = code
    BY <1>4, <1>5
  <2>. QED
    BY <1>2, <2>1, <2>2, <2>3, Zenon DEF AnswerTo
<1>. QED
  BY <1>3, <1>5 DEF k

\* A command of connection fd is answered there, and elsewhere only events
\* are queued.
Answered(fd, cmd) ==
  /\ Answers(cmd, queued'[fd], byFd[fd], context[fd], byFd'[fd], context'[fd])
  /\ \A g \in Fds \ {fd} : /\ Quiet(queued'[g])
                           /\ byFd'[g] = byFd[g] /\ context'[g] = context[g]

\* Commands that change nobody's session and nobody's context.
OnlyReplies == ClientKinds \ {"login", "logout", "use"}

LEMMA QueuedAnswer ==
  ASSUME NEW fd \in conns, conns \subseteq Fds, NEW cmd \in Served,
         cmd.kind \in OnlyReplies,
         NEW packets, Queue(packets), NEW n, AnswerTo(cmd, packets[fd], n),
         packets[fd][n].code \in finalCodes(cmd),
         \A g \in Fds \ {fd} : Quiet(packets[g]),
         byFd' = byFd, context' = context
  PROVE  Answered(fd, cmd)
<1>1. /\ queued'[fd] = packets[fd]
      /\ \A g \in Fds \ {fd} : Quiet(queued'[g])
  BY OnePacket DEF Queue
<1>2. ASSUME NEW c \in ClientStates, c.pending = cmd, NEW code
      PROVE  afterReply(c, code) = c
  BY <1>2 DEF afterReply, OnlyReplies
<1>3. ASSUME NEW c \in ClientStates, c.pending = cmd, Agree(byFd[fd], context[fd], c)
      PROVE  Concludes(c, packets[fd][n].code, byFd[fd], context[fd])
  BY <1>2, <1>3 DEF Concludes
<1>4. Answers(cmd, packets[fd], byFd[fd], context[fd], byFd[fd], context[fd])
  BY <1>3 DEF Answers
<1>. QED
  BY <1>1, <1>4 DEF Answered

LEMMA StatusAnswers ==
  ASSUME NEW fd \in conns, conns \subseteq Fds, NEW cmd \in Served,
         cmd.kind \in OnlyReplies,
         NEW p, p.code \in finalCodes(cmd), Queue(To({fd}, p)),
         byFd' = byFd, context' = context
  PROVE  Answered(fd, cmd)
<1>. DEFINE packets == To({fd}, p)
<1>1. ~IsEvent(p) /\ p.code \notin ListCodes(cmd)
  BY FinalReplies
<1>2. packets[fd] = <<p>> /\ \A g \in Fds \ {fd} : packets[g] = <<>>
  BY DEF To
<1>3. AnswerTo(cmd, packets[fd], 1) /\ packets[fd][1] = p
  <2>1. ASSUME NEW s, s = <<p>>
        PROVE  AnswerTo(cmd, s, 1) /\ s[1] = p
    <3>1. IsSeq(s) /\ DOMAIN s = {1} /\ s[1] = p
      BY <2>1, OnePacket
    <3>2. 1 \in DOMAIN s
      BY <3>1
    <3>. QED
      BY <1>1, <3>1, <3>2 DEF AnswerTo
  <2>. QED
    BY <1>2, <2>1
<1>4. \A g \in Fds \ {fd} : Quiet(packets[g])
  BY <1>2, OnePacket
<1>. HIDE DEF packets
<1>. QED
  BY <1>3, <1>4, QueuedAnswer DEF packets

LEMMA ListAnswers ==
  ASSUME NEW fd \in conns, conns \subseteq Fds, NEW cmd \in Served,
         cmd.kind \in OnlyReplies, "RPL_OK" \in finalCodes(cmd),
         NEW T, NEW list \in Seq(T), NEW code \in ListCodes(cmd),
         \A i \in DOMAIN list : list[i].code = code,
         Queue(queuePayloadArray(fd, list)),
         byFd' = byFd, context' = context
  PROVE  Answered(fd, cmd)
<1>. DEFINE packets == queuePayloadArray(fd, list)
            end == Status("RPL_OK")
            n == Len(list) + 1
<1>1. end.code = "RPL_OK"
  BY DEF Status
<1>. HIDE DEF end
<1>2. ~IsEvent(end) /\ end.code \notin ListCodes(cmd)
  BY <1>1, FinalReplies
<1>3. packets[fd] = Append(list, end) /\ \A g \in Fds \ {fd} : packets[g] = <<>>
  BY DEF queuePayloadArray, end
<1>. HIDE DEF packets, n
<1>4. AnswerTo(cmd, packets[fd], n) /\ packets[fd][n] = end
  <2>1. ASSUME NEW s, s = Append(list, end)
        PROVE  AnswerTo(cmd, s, n) /\ s[n] = end
    <3>1. code \in ListCodes(cmd) /\ \A i \in DOMAIN list : list[i].code = code
      OBVIOUS
    <3>2. AnswerTo(cmd, s, Len(list) + 1)
      BY <1>2, <2>1, <3>1, ListReply
    <3>3. s[Len(list) + 1] = end
      BY <2>1
    <3>. QED
      BY <3>2, <3>3 DEF n
  <2>. QED
    BY <1>3, <2>1
<1>5. \A g \in Fds \ {fd} : Quiet(packets[g])
  BY <1>3, OnePacket
<1>. QED
  BY <1>1, <1>4, <1>5, QueuedAnswer DEF packets

LEMMA QuietTo ==
  ASSUME NEW S, NEW p, IsEvent(p), NEW g \in Fds
  PROVE  Quiet(To(S, p)[g])
BY OnePacket DEF To

LEMMA LoginAnswers ==
  ASSUME SessionsSound, NEW fd \in Fds, NEW cmd \in Served, cmd.kind = "login",
         handleLoginCommand(fd, cmd.arg)
  PROVE  Answered(fd, cmd)
<1>. DEFINE u == cmd.arg
<1>1. u \in Users /\ u \notin {BadSize, BadText} /\ u # NoUser
  BY ServedCommand, PayloadsDiffer, NoUserIsNoUser DEF ArgumentsOf
<1>2. ListCodes(cmd) = {}
  BY DEF ListCodes
<1>3. fd \in conns /\ byFd \in [Fds -> Users \union {NoUser}]
  BY DEF handleLoginCommand, SessionsSound, StateTyped
<1>4. CASE byFd[fd] # NoUser
  <2>. DEFINE p == Status("ERR_ALREADY_EXIST")
  <2>1. Answer(fd, "ERR_ALREADY_EXIST")
    BY <1>1, <1>4 DEF handleLoginCommand, loginStatus
  <2>2. /\ queued' = [f \in Fds |-> IF f \in conns THEN To({fd}, p)[f] ELSE <<>>]
        /\ byFd' = byFd /\ context' = context
    BY <2>1 DEF Answer, Queue, sessionVars
  <2>3. queued'[fd] = <<p>> /\ \A g \in Fds \ {fd} : queued'[g] = <<>>
    BY <1>3, <2>2 DEF To
  <2>4. ~IsEvent(p)
    BY RepliesAreNoEvents DEF Status, StatusCodes
  <2>. HIDE DEF p
  <2>5. AnswerTo(cmd, queued'[fd], 1)
    BY <1>2, <2>3, <2>4, OnePacket DEF AnswerTo
  <2>6. \A c : Agree(byFd[fd], context[fd], c) => c.connected
    BY <1>4 DEF Agree
  <2>7. Answers(cmd, queued'[fd], byFd[fd], context[fd], byFd'[fd], context'[fd])
    BY <2>5, <2>6 DEF Answers
  <2>. QED
    BY <2>2, <2>3, <2>7, OnePacket DEF Answered
<1>5. CASE byFd[fd] = NoUser
  <2>. DEFINE p == Status("RPL_OK")
              e == Event("EVT_LOGGED_IN", u)
              S == Authenticated \union {fd}
              rest == To(S, e)
  <2>1. completeLogin(fd, u)
    BY <1>1, <1>5 DEF handleLoginCommand, loginStatus, LoginNewUser, LoginExistingUser
  <2>2. /\ byFd' = [byFd EXCEPT ![fd] = u] /\ context' = context
        /\ queued' = [f \in Fds |-> IF f \in conns THEN Then(To({fd}, p), rest)[f]
                                                   ELSE <<>>]
    BY <2>1 DEF completeLogin, Queue
  <2>3. /\ To({fd}, p)[fd] = <<p>>
        /\ \A g \in Fds \ {fd} : To({fd}, p)[g] = <<>>
    BY DEF To
  <2>4. IsEvent(e)
    BY DEF e, Event, IsEvent, EventCodes
  <2>. HIDE DEF e, S
  <2>5. \A g \in Fds : Quiet(rest[g])
    BY <2>4, QuietTo
  <2>6. ~IsEvent(p) /\ p.code = "RPL_OK"
    BY RepliesAreNoEvents DEF Status, StatusCodes
  <2>. HIDE DEF p, rest
  <2>7. /\ queued'[fd] = <<p>> \o rest[fd]
        /\ \A g \in Fds \ {fd} : queued'[g] = <<>> \o rest[g] \/ queued'[g] = <<>>
    BY <1>3, <2>2, <2>3 DEF Then
  <2>8. AnswerTo(cmd, queued'[fd], 1) /\ queued'[fd][1] = p
    <3>1. p.code \notin ListCodes(cmd)
      BY <1>2
    <3>2. ASSUME NEW s, s = <<p>> \o rest[fd]
          PROVE  AnswerTo(cmd, s, 1) /\ s[1] = p
      BY <2>5, <2>6, <3>1, <3>2, OneReply
    <3>. QED
      BY <2>7, <3>2
  <2>9. \A g \in Fds \ {fd} : Quiet(queued'[g])
    BY <2>5, <2>7, OnePacket, QuietConcat
  <2>10. byFd'[fd] = u /\ \A g \in Fds \ {fd} : byFd'[g] = byFd[g]
    BY <1>3, <2>2
  <2>11. ASSUME NEW c \in ClientStates, c.pending = cmd,
                Agree(byFd[fd], context[fd], c)
         PROVE  Concludes(c, "RPL_OK", u, context[fd])
    <3>. DEFINE d == afterReply(c, "RPL_OK")
    <3>1. d = [c EXCEPT !.connected = TRUE, !.username = u]
      BY <2>11 DEF afterReply
    <3>2. d.connected /\ d.username = u /\ d.context = c.context
      BY <3>1 DEF ClientStates
    <3>. HIDE DEF d
    <3>3. Agree(u, context[fd], d)
      BY <2>11, <3>2 DEF Agree
    <3>4. "RPL_OK" \in finalCodes(c.pending)
      BY <2>11 DEF finalCodes
    <3>. QED
      BY <3>3, <3>4 DEF Concludes, d
  <2>12. Answers(cmd, queued'[fd], byFd[fd], context[fd], byFd'[fd], context'[fd])
    BY <2>2, <2>6, <2>8, <2>10, <2>11 DEF Answers
  <2>. QED
    BY <2>2, <2>9, <2>10, <2>12 DEF Answered
<1>. QED
  BY <1>4, <1>5

\* One status for fd, and no other packet.
LEMMA StatusQueued ==
  ASSUME NEW fd \in conns, conns \subseteq Fds, NEW cmd, ListCodes(cmd) = {},
         NEW code \in StatusCodes, Queue(To({fd}, Status(code)))
  PROVE  /\ AnswerTo(cmd, queued'[fd], 1)
         /\ queued'[fd][1].code = code
         /\ \A g \in Fds \ {fd} : Quiet(queued'[g])
<1>. DEFINE p == Status(code)
<1>1. p.code = code /\ ~IsEvent(p)
  BY RepliesAreNoEvents DEF Status
<1>2. queued'[fd] = <<p>> /\ \A g \in Fds \ {fd} : queued'[g] = <<>>
  BY DEF Queue, To
<1>. HIDE DEF p
<1>. QED
  BY <1>1, <1>2, OnePacket DEF AnswerTo

LEMMA LogoutAnswers ==
  ASSUME SessionsSound, NEW fd \in Fds, NEW cmd \in Served, cmd.kind = "logout",
         handleLogoutCommand(fd, cmd.arg)
  PROVE  Answered(fd, cmd)
<1>. DEFINE u == byFd[fd]
<1>1. /\ ListCodes(cmd) = {} /\ cmd.arg = Nothing
      /\ {"RPL_OK", "ERR_UNAUTHORIZED"} \subseteq finalCodes(cmd)
  BY ServedCommand DEF ListCodes, ArgumentsOf, finalCodes
<1>2. /\ fd \in conns /\ conns \subseteq Fds
      /\ byFd \in [Fds -> Users \union {NoUser}]
  BY DEF handleLogoutCommand, SessionsSound, StateTyped
<1>3. CASE u = NoUser
  <2>1. Answer(fd, "ERR_UNAUTHORIZED")
    BY <1>1, <1>3 DEF handleLogoutCommand, logoutStatus
  <2>2. /\ Queue(To({fd}, Status("ERR_UNAUTHORIZED")))
        /\ byFd' = byFd /\ context' = context
    BY <2>1 DEF Answer, sessionVars
  <2>3. /\ AnswerTo(cmd, queued'[fd], 1)
        /\ queued'[fd][1].code = "ERR_UNAUTHORIZED"
        /\ \A g \in Fds \ {fd} : Quiet(queued'[g])
    BY <1>1, <1>2, <2>2, StatusQueued DEF StatusCodes
  <2>4. ASSUME NEW c \in ClientStates, c.pending = cmd
        PROVE  afterReply(c, "ERR_UNAUTHORIZED") = c
    BY <2>4 DEF afterReply
  <2>5. Answers(cmd, queued'[fd], byFd[fd], context[fd], byFd'[fd], context'[fd])
    BY <1>1, <2>2, <2>3, <2>4 DEF Answers, Concludes
  <2>. QED
    BY <2>2, <2>3, <2>5 DEF Answered
<1>4. CASE u # NoUser
  <2>. DEFINE p == Status("RPL_OK")
              e == Event("EVT_LOGGED_OUT", u)
              toSelf == Then(To({fd}, p), To({fd}, e))
              rest == broadcastLoggedOutEvent(u, fd)
  <2>1. u \in known
    BY <1>4 DEF SessionsSound, SessionsAnchored
  <2>2. logoutSession(fd)
    BY <1>1, <1>4 DEF handleLogoutCommand, logoutStatus
  <2>3. /\ byFd' = [byFd EXCEPT ![fd] = NoUser] /\ context' = context
        /\ Queue(Then(toSelf, rest))
    BY <2>1, <2>2 DEF logoutSession
  <2>4. /\ toSelf[fd] = <<p>> \o <<e>>
        /\ \A g \in Fds \ {fd} : toSelf[g] = <<>> \o <<>>
    BY DEF To, Then
  <2>5. IsEvent(e)
    BY DEF Event, IsEvent, EventCodes
  <2>6. ~IsEvent(p) /\ p.code = "RPL_OK"
    BY RepliesAreNoEvents DEF Status, StatusCodes
  <2>7. \A g \in Fds : Quiet(rest[g])
    BY <2>5, QuietTo DEF broadcastLoggedOutEvent
  <2>8. p.code \notin ListCodes(cmd)
    BY <1>1
  <2>. HIDE DEF p, e, rest, toSelf
  <2>9. /\ queued'[fd] = toSelf[fd] \o rest[fd]
        /\ \A g \in Fds \ {fd} : queued'[g] = toSelf[g] \o rest[g] \/ queued'[g] = <<>>
    BY <1>2, <2>3 DEF Then, Queue
  <2>10. AnswerTo(cmd, queued'[fd], 1) /\ queued'[fd][1].code = "RPL_OK"
    <3>1. AnswerTo(cmd, toSelf[fd], 1) /\ toSelf[fd][1] = p
      <4>1. ASSUME NEW s, s = <<p>> \o <<e>>
            PROVE  AnswerTo(cmd, s, 1) /\ s[1] = p
        <5>1. Quiet(<<e>>)
          BY <2>5, OnePacket
        <5>. QED
          BY <2>6, <2>8, <4>1, <5>1, OneReply
      <4>. QED
        BY <2>4, <4>1
    <3>2. AnswerTo(cmd, queued'[fd], 1)
      BY <2>7, <2>9, <3>1, EventsAfterAnswer
    <3>3. IsSeq(toSelf[fd]) /\ IsSeq(rest[fd]) /\ 1 \in DOMAIN toSelf[fd]
      BY <2>7, <3>1 DEF AnswerTo, Quiet
    <3>4. (toSelf[fd] \o rest[fd])[1] = toSelf[fd][1]
      <4>1. \A i \in DOMAIN toSelf[fd] : (toSelf[fd] \o rest[fd])[i] = toSelf[fd][i]
        BY <3>3, FirstPart, Zenon
      <4>. QED
        BY <3>3, <4>1
    <3>. QED
      BY <2>6, <2>9, <3>1, <3>2, <3>4
  <2>11. ASSUME NEW g \in Fds \ {fd}
         PROVE  Quiet(queued'[g])
    <3>1. Quiet(<<>>)
      BY OnePacket
    <3>2. Quiet(toSelf[g])
      BY <2>4, <3>1, QuietConcat
    <3>3. Quiet(toSelf[g] \o rest[g])
      BY <2>7, <3>2, QuietConcat
    <3>. QED
      BY <2>9, <3>1, <3>3
  <2>12. byFd'[fd] = NoUser /\ \A g \in Fds \ {fd} : byFd'[g] = byFd[g]
    BY <1>2, <2>3
  <2>13. ASSUME NEW c \in ClientStates, c.pending = cmd
         PROVE  Concludes(c, "RPL_OK", NoUser, context[fd])
    <3>1. afterReply(c, "RPL_OK") = loggedOut(c)
      BY <2>13 DEF afterReply
    <3>2. ~loggedOut(c).connected /\ loggedOut(c).context = NoContext
      BY DEF loggedOut, NewClient
    <3>. QED
      BY <1>1, <2>13, <3>1, <3>2 DEF Concludes, Agree
  <2>14. Answers(cmd, queued'[fd], byFd[fd], context[fd], byFd'[fd], context'[fd])
    BY <2>3, <2>10, <2>12, <2>13 DEF Answers
  <2>. QED
    BY <2>3, <2>11, <2>12, <2>14 DEF Answered
<1>. QED
  BY <1>3, <1>4

LEMMA UseAnswers ==
  ASSUME SessionsSound, NEW fd \in Fds, NEW cmd \in Served, cmd.kind = "use",
         handleUseCommand(fd, cmd.arg)
  PROVE  Answered(fd, cmd)
<1>1. /\ ListCodes(cmd) = {} /\ cmd.arg \in Contexts
      /\ {"RPL_OK", "ERR_UNAUTHORIZED", "ERR_BAD_REQUEST"} \subseteq finalCodes(cmd)
  BY ServedCommand DEF ListCodes, ArgumentsOf, finalCodes
<1>2. /\ fd \in conns /\ conns \subseteq Fds /\ context \in [Fds -> Contexts]
  BY DEF handleUseCommand, SessionsSound, StateTyped
<1>3. CASE useStatus(fd, cmd.arg) # "RPL_OK"
  <2>. DEFINE code == useStatus(fd, cmd.arg)
  <2>1. code \in {"ERR_UNAUTHORIZED", "ERR_BAD_REQUEST"}
    BY <1>3 DEF useStatus
  <2>2. Answer(fd, code)
    BY <1>3 DEF handleUseCommand
  <2>. HIDE DEF code
  <2>3. /\ Queue(To({fd}, Status(code))) /\ byFd' = byFd /\ context' = context
    BY <2>2 DEF Answer, sessionVars
  <2>4. /\ AnswerTo(cmd, queued'[fd], 1)
        /\ queued'[fd][1].code = code
        /\ \A g \in Fds \ {fd} : Quiet(queued'[g])
    BY <1>1, <1>2, <2>1, <2>3, StatusQueued DEF StatusCodes
  <2>5. ASSUME NEW c \in ClientStates, c.pending = cmd
        PROVE  afterReply(c, code) = c
    BY <2>1, <2>5 DEF afterReply
  <2>6. Answers(cmd, queued'[fd], byFd[fd], context[fd], byFd'[fd], context'[fd])
    BY <1>1, <2>1, <2>3, <2>4, <2>5 DEF Answers, Concludes
  <2>. QED
    BY <2>3, <2>4, <2>6 DEF Answered
<1>4. CASE useStatus(fd, cmd.arg) = "RPL_OK"
  <2>1. /\ Queue(To({fd}, Status("RPL_OK"))) /\ byFd' = byFd
        /\ context' = [context EXCEPT ![fd] = cmd.arg]
    BY <1>4 DEF handleUseCommand, setContext
  <2>2. /\ AnswerTo(cmd, queued'[fd], 1)
        /\ queued'[fd][1].code = "RPL_OK"
        /\ \A g \in Fds \ {fd} : Quiet(queued'[g])
    BY <1>1, <1>2, <2>1, StatusQueued DEF StatusCodes
  <2>3. context'[fd] = cmd.arg /\ \A g \in Fds \ {fd} : context'[g] = context[g]
    BY <1>2, <2>1
  <2>4. ASSUME NEW c \in ClientStates, c.pending = cmd,
               Agree(byFd[fd], context[fd], c)
        PROVE  Concludes(c, "RPL_OK", byFd[fd], cmd.arg)
    <3>. DEFINE d == afterReply(c, "RPL_OK")
    <3>1. d = [c EXCEPT !.context = cmd.arg]
      BY <2>4 DEF afterReply
    <3>2. d.connected = c.connected /\ d.username = c.username /\ d.context = cmd.arg
      BY <3>1 DEF ClientStates
    <3>. HIDE DEF d
    <3>3. Agree(byFd[fd], cmd.arg, d)
      BY <2>4, <3>2 DEF Agree
    <3>. QED
      BY <1>1, <2>4, <3>3 DEF Concludes, d
  <2>5. Answers(cmd, queued'[fd], byFd[fd], context[fd], byFd'[fd], context'[fd])
    BY <2>1, <2>2, <2>3, <2>4 DEF Answers
  <2>. QED
    BY <2>1, <2>2, <2>3, <2>5 DEF Answered
<1>. QED
  BY <1>3, <1>4

LEMMA SendAnswers ==
  ASSUME SessionsSound, NEW fd \in Fds, NEW cmd \in Served, cmd.kind = "send",
         handleSendCommand(fd, cmd.arg)
  PROVE  Answered(fd, cmd)
<1>1. cmd.kind \in OnlyReplies
  BY DEF OnlyReplies, ClientKinds
<1>2. fd \in conns /\ conns \subseteq Fds
  BY DEF handleSendCommand, SessionsSound, StateTyped
<1>3. {"RPL_OK", "ERR_UNAUTHORIZED", "ERR_NOT_FOUND", "ERR_BAD_REQUEST"}
        \subseteq finalCodes(cmd)
  BY DEF finalCodes
<1>4. CASE Answer(fd, sendStatus(fd, cmd.arg))
  <2>1. sendStatus(fd, cmd.arg) \in finalCodes(cmd)
    BY <1>3 DEF sendStatus
  <2>2. Status(sendStatus(fd, cmd.arg)).code \in finalCodes(cmd)
    BY <2>1 DEF Status
  <2>3. /\ Queue(To({fd}, Status(sendStatus(fd, cmd.arg))))
        /\ byFd' = byFd /\ context' = context
    BY <1>4 DEF Answer, sessionVars
  <2>. QED
    BY <1>1, <1>2, <2>2, <2>3, StatusAnswers
<1>5. ASSUME NEW m, storeAndSend(fd, m), m.receiver \in Users
      PROVE  Answered(fd, cmd)
  <2>. DEFINE p == Status("RPL_OK")
              e == Event("EVT_PRIVATE_MSG_RCVD", m)
              events == messageEvents(m)
              packets == sendMessage(fd, m)
              n == Len(events[fd]) + 1
  <2>1. Queue(packets) /\ byFd' = byFd /\ context' = context
    BY <1>5 DEF storeAndSend
  <2>2. IsEvent(e)
    BY DEF Event, IsEvent, EventCodes
  <2>3. ASSUME NEW g \in Fds
        PROVE  Quiet(events[g])
    <3>1. routes[m.receiver][g] \in Nat
      BY <1>5 DEF SessionsSound, StateTyped
    <3>2. events[g] = [i \in 1 .. routes[m.receiver][g] |-> e]
      BY DEF messageEvents
    <3>. HIDE DEF e, events
    <3>3. events[g] \in Seq({e}) /\ \A i \in DOMAIN events[g] : events[g][i] = e
      BY <3>1, <3>2
    <3>. QED
      BY <2>2, <3>3, SeqIsSeq DEF Quiet
  <2>4. p.code \in finalCodes(cmd)
    BY <1>3 DEF Status
  <2>5. To({fd}, p)[fd] = <<p>> /\ \A g \in Fds \ {fd} : To({fd}, p)[g] = <<>>
    BY DEF To
  <2>6. /\ packets[fd] = events[fd] \o <<p>>
        /\ \A g \in Fds \ {fd} : packets[g] = events[g] \o <<>>
    BY <2>5 DEF sendMessage, Then
  <2>. HIDE DEF p, e, events, packets, n
  <2>7. AnswerTo(cmd, <<p>>, 1)
    BY <2>4, FinalReplies, OnePacket DEF AnswerTo
  <2>8. AnswerTo(cmd, packets[fd], n)
    <3>1. ASSUME NEW s, s = events[fd] \o <<p>>
          PROVE  AnswerTo(cmd, s, n)
      BY <2>3, <2>7, <3>1, AnswerAfterEvents DEF n
    <3>. QED
      BY <2>6, <3>1
  <2>9. packets[fd][n] = p
    <3>1. /\ IsSeq(events[fd]) /\ IsSeq(<<p>>)
          /\ DOMAIN <<p>> = {1} /\ <<p>>[1] = p
      BY <2>3, OnePacket DEF Quiet
    <3>2. \A i \in DOMAIN <<p>> : (events[fd] \o <<p>>)[Len(events[fd]) + i] = <<p>>[i]
      <4>. DEFINE a == events[fd]
                  b == <<p>>
      <4>1. IsSeq(a) /\ IsSeq(b)
        BY <3>1
      <4>. HIDE DEF a, b
      <4>2. \A i \in DOMAIN b : (a \o b)[Len(a) + i] = b[i]
        BY <4>1, ConcatSeq, SMTT(20)
      <4>. QED
        BY <4>2 DEF a, b
    <3>. QED
      BY <2>6, <3>1, <3>2 DEF n
  <2>10. \A g \in Fds \ {fd} : Quiet(packets[g])
    BY <2>3, <2>6, OnePacket, QuietConcat
  <2>. QED
    BY <1>1, <1>2, <2>1, <2>4, <2>8, <2>9, <2>10, QueuedAnswer
<1>6. cmd.arg \in Users
  BY ServedCommand DEF ArgumentsOf
<1>. QED
  BY <1>4, <1>5, <1>6 DEF handleSendCommand

\* A handler that refuses with one of its statuses.
LEMMA RefusalAnswers ==
  ASSUME NEW fd \in conns, conns \subseteq Fds, NEW cmd \in Served,
         cmd.kind \in OnlyReplies,
         NEW code \in finalCodes(cmd), Answer(fd, code) \/ Refuse(fd, code)
  PROVE  Answered(fd, cmd)
<1>1. Status(code).code \in finalCodes(cmd)
  BY DEF Status
<1>2. Queue(To({fd}, Status(code))) /\ byFd' = byFd /\ context' = context
  BY DEF Answer, Refuse, Reply, sessionVars
<1>. QED
  BY <1>1, <1>2, StatusAnswers

LEMMA UsersAnswers ==
  ASSUME SessionsSound, AccountsFinite, NEW fd \in Fds, NEW cmd \in Served,
         cmd.kind = "users", handleUsersCommand(fd, cmd.arg)
  PROVE  Answered(fd, cmd)
<1>1. cmd.kind \in OnlyReplies /\ "RPL_USERS_LIST" \in ListCodes(cmd)
  BY DEF OnlyReplies, ClientKinds, ListCodes
<1>2. fd \in conns /\ conns \subseteq Fds
  BY DEF handleUsersCommand, SessionsSound, StateTyped
<1>3. {"RPL_OK", "ERR_UNAUTHORIZED", "ERR_BAD_REQUEST"} \subseteq finalCodes(cmd)
  BY DEF finalCodes
<1>4. usersStatus(fd, cmd.arg) \in finalCodes(cmd)
  BY <1>3 DEF usersStatus
<1>. DEFINE users == SetToSeq(known)
            list == Each(users, LAMBDA u : Event("RPL_USERS_LIST", Shown(u)))
<1>5. CASE Read(queuePayloadArray(fd, list))
  <2>1. users \in Seq(known)
    BY SetToSeqTyped DEF AccountsFinite
  <2>. HIDE DEF users
  <2>2. list = [i \in DOMAIN users |-> Event("RPL_USERS_LIST", Shown(users[i]))]
    BY DEF Each
  <2>. HIDE DEF list
  <2>3. /\ list \in Seq({Event("RPL_USERS_LIST", Shown(u)) : u \in known})
        /\ \A i \in DOMAIN list : list[i].code = "RPL_USERS_LIST"
    BY <2>1, <2>2 DEF Event
  <2>4. Queue(queuePayloadArray(fd, list)) /\ byFd' = byFd /\ context' = context
    BY <1>5 DEF Read, sessionVars
  <2>. QED
    BY <1>1, <1>2, <1>3, <2>3, <2>4, ListAnswers
<1>. QED
  BY <1>1, <1>2, <1>4, <1>5, RefusalAnswers DEF handleUsersCommand

LEMMA UserAnswers ==
  ASSUME SessionsSound, NEW fd \in Fds, NEW cmd \in Served, cmd.kind = "user",
         handleUserCommand(fd, cmd.arg)
  PROVE  Answered(fd, cmd)
<1>1. cmd.kind \in OnlyReplies
  BY DEF OnlyReplies, ClientKinds
<1>2. fd \in conns /\ conns \subseteq Fds
  BY DEF handleUserCommand, SessionsSound, StateTyped
<1>3. {"ERR_UNAUTHORIZED", "ERR_NOT_FOUND", "RPL_USER_INFO", "ERR_BAD_REQUEST"}
        \subseteq finalCodes(cmd)
  BY DEF finalCodes
<1>4. ASSUME NEW p, p.code \in finalCodes(cmd), Read(To({fd}, p))
      PROVE  Answered(fd, cmd)
  BY <1>1, <1>2, <1>4, StatusAnswers DEF Read, sessionVars
<1>5. CASE Read(To({fd}, Event("ERR_NOT_FOUND", cmd.arg)))
  BY <1>3, <1>4, <1>5 DEF Event
<1>6. CASE Read(To({fd}, Event("RPL_USER_INFO", Shown(cmd.arg))))
  BY <1>3, <1>4, <1>6 DEF Event
<1>7. CASE Answer(fd, "ERR_BAD_REQUEST") \/ Answer(fd, "ERR_UNAUTHORIZED")
  BY <1>1, <1>2, <1>3, <1>7, RefusalAnswers
<1>. QED
  BY <1>5, <1>6, <1>7 DEF handleUserCommand

LEMMA MessagesAnswers ==
  ASSUME SessionsSound, NEW fd \in Fds, NEW cmd \in Served,
         cmd.kind = "messages", handleMessagesCommand(fd, cmd.arg)
  PROVE  Answered(fd, cmd)
<1>1. cmd.kind \in OnlyReplies /\ "RPL_MESSAGES_LIST" \in ListCodes(cmd)
  BY DEF OnlyReplies, ClientKinds, ListCodes
<1>2. fd \in conns /\ conns \subseteq Fds
  BY DEF handleMessagesCommand, SessionsSound, StateTyped
<1>3. {"RPL_OK", "ERR_UNAUTHORIZED", "ERR_NOT_FOUND", "ERR_BAD_REQUEST"}
        \subseteq finalCodes(cmd)
  BY DEF finalCodes
<1>4. messagesStatus(fd, cmd.arg) \in finalCodes(cmd)
  BY <1>3 DEF messagesStatus
<1>. DEFINE entries == conversation(byFd[fd], cmd.arg)
            packets(shown) == Each(shown, LAMBDA m : Event("RPL_MESSAGES_LIST", m))
<1>5. ASSUME NEW shown \in sorted(entries),
             Read(queuePayloadArray(fd, packets(shown)))
      PROVE  Answered(fd, cmd)
  <2>1. entries \in Seq(Message)
    <3>1. messages \in Seq(Message)
      BY DEF SessionsSound, StateTyped
    <3>. QED
      BY <3>1, AmongFilters DEF Filters, conversation
  <2>. HIDE DEF entries
  <2>2. shown \in Seq(Message)
    BY <1>5, <2>1, SortedTyped
  <2>. DEFINE list == packets(shown)
  <2>3. list = [i \in DOMAIN shown |-> Event("RPL_MESSAGES_LIST", shown[i])]
    BY DEF Each
  <2>4. Queue(queuePayloadArray(fd, list)) /\ byFd' = byFd /\ context' = context
    BY <1>5 DEF Read, sessionVars
  <2>. HIDE DEF list
  <2>5. /\ list \in Seq({Event("RPL_MESSAGES_LIST", m) : m \in Message})
        /\ \A i \in DOMAIN list : list[i].code = "RPL_MESSAGES_LIST"
    BY <2>2, <2>3 DEF Event
  <2>. QED
    BY <1>1, <1>2, <1>3, <2>4, <2>5, ListAnswers
<1>. QED
  BY <1>1, <1>2, <1>4, <1>5, RefusalAnswers DEF handleMessagesCommand

LEMMA ReplyAnswers ==
  ASSUME NEW fd \in conns, conns \subseteq Fds, NEW cmd \in Served,
         cmd.kind \in OnlyReplies,
         NEW p, p.code \in finalCodes(cmd), Reply(To({fd}, p))
  PROVE  Answered(fd, cmd)
BY StatusAnswers DEF Reply, sessionVars

LEMMA ArrayAnswers ==
  ASSUME NEW fd \in conns, conns \subseteq Fds, NEW cmd \in Served,
         cmd.kind \in OnlyReplies, "RPL_OK" \in finalCodes(cmd),
         NEW T, NEW list \in Seq(T), NEW code \in ListCodes(cmd),
         \A i \in DOMAIN list : list[i].code = code,
         Reply(queuePayloadArray(fd, list))
  PROVE  Answered(fd, cmd)
<1>1. Queue(queuePayloadArray(fd, list)) /\ byFd' = byFd /\ context' = context
  BY DEF Reply, sessionVars
<1>. QED
  BY <1>1, ListAnswers

\* handleSubscribeCommand and handleUnsubscribeCommand.
LEMMA SubscriptionAnswers ==
  ASSUME SessionsSound, NEW fd \in Fds, NEW cmd \in Served,
         cmd.kind \in {"subscribe", "unsubscribe"},
         handleSubscribeCommand(fd, cmd.arg) \/ handleUnsubscribeCommand(fd, cmd.arg)
  PROVE  Answered(fd, cmd)
<1>1. cmd.kind \in OnlyReplies /\ cmd.arg \in Teams
  BY ServedCommand DEF OnlyReplies, ClientKinds, ArgumentsOf
<1>2. fd \in conns /\ conns \subseteq Fds
  BY DEF handleSubscribeCommand, handleUnsubscribeCommand, SessionsSound, StateTyped
<1>3. {"RPL_OK", "RPL_USERS_LIST", "ERR_UNAUTHORIZED", "ERR_NOT_FOUND"}
        \subseteq finalCodes(cmd)
  BY DEF finalCodes
<1>4. CASE /\ subscriptionStatus(fd, cmd.arg) # "RPL_OK"
           /\ Refuse(fd, subscriptionStatus(fd, cmd.arg))
  <2>1. subscriptionStatus(fd, cmd.arg) \in finalCodes(cmd)
    BY <1>1, <1>3, <1>4 DEF subscriptionStatus, parseTeamUuidFromPayload
  <2>. QED
    BY <1>1, <1>2, <1>4, <2>1, RefusalAnswers
<1>5. CASE Reply(To({fd}, Status("RPL_OK")))
  <2>1. Status("RPL_OK").code \in finalCodes(cmd)
    BY <1>3 DEF Status
  <2>. QED
    BY <1>1, <1>2, <1>5, <2>1, ReplyAnswers
<1>6. ASSUME NEW after, changeSubscribers(fd, after)
      PROVE  Answered(fd, cmd)
  <2>. DEFINE p == Event("RPL_USERS_LIST", Shown(byFd[fd]))
  <2>1. p.code \in finalCodes(cmd)
    BY <1>3 DEF Event
  <2>2. Queue(To({fd}, p)) /\ byFd' = byFd /\ context' = context
    BY <1>6 DEF changeSubscribers, sessionVars
  <2>. HIDE DEF p
  <2>. QED
    BY <1>1, <1>2, <2>1, <2>2, StatusAnswers
<1>. QED
  BY <1>4, <1>5, <1>6 DEF handleSubscribeCommand, handleUnsubscribeCommand

LEMMA SubscribedListAnswers ==
  ASSUME WorkspaceInv, NEW fd \in Fds, NEW cmd \in Served,
         cmd.kind = "subscribed", handleSubscribedListCommand(fd, cmd.arg)
  PROVE  Answered(fd, cmd)
<1>. DEFINE target == cmd.arg
            status == IF target = Nothing /\ byFd[fd] \in known
                        THEN "RPL_OK" ELSE subscriptionStatus(fd, target)
            own == Among(teams,
                         {t \in ToSet(teams) : isUserSubscribed(t.id, byFd[fd])})
            found == Among(subscribers[target], known)
            ownPackets == Each(own, LAMBDA t : Event("RPL_SUBSCRIBED_LIST", t))
            foundPackets == Each(found, LAMBDA u : Event("RPL_USERS_LIST", Shown(u)))
<1>1. cmd.kind \in OnlyReplies /\ cmd.arg \in Teams \union {Nothing}
  BY ServedCommand DEF OnlyReplies, ClientKinds, ArgumentsOf
<1>2. fd \in conns /\ conns \subseteq Fds
  BY DEF handleSubscribedListCommand, WorkspaceInv, SessionsSound, StateTyped
<1>3. {"RPL_OK", "ERR_UNAUTHORIZED", "ERR_NOT_FOUND"} \subseteq finalCodes(cmd)
  BY DEF finalCodes
<1>4. CASE status # "RPL_OK" /\ Refuse(fd, status)
  <2>1. status \in finalCodes(cmd)
    BY <1>1, <1>3, <1>4 DEF subscriptionStatus, parseTeamUuidFromPayload
  <2>. HIDE DEF status
  <2>. QED
    BY <1>1, <1>2, <1>4, <2>1, RefusalAnswers
<1>5. CASE target = Nothing /\ Reply(queuePayloadArray(fd, ownPackets))
  <2>1. own \in Seq(TeamEntries)
    <3>1. teams \in Seq(TeamEntries)
      BY DEF WorkspaceInv, Sound, Typed, workspace
    <3>. QED
      BY <3>1, AmongFilters DEF Filters
  <2>. HIDE DEF own
  <2>2. ownPackets = [i \in DOMAIN own |-> Event("RPL_SUBSCRIBED_LIST", own[i])]
    BY DEF Each
  <2>. HIDE DEF ownPackets
  <2>3. /\ ownPackets \in Seq({Event("RPL_SUBSCRIBED_LIST", t) : t \in TeamEntries})
        /\ \A i \in DOMAIN ownPackets : ownPackets[i].code = "RPL_SUBSCRIBED_LIST"
    BY <2>1, <2>2 DEF Event
  <2>4. "RPL_SUBSCRIBED_LIST" \in ListCodes(cmd)
    BY <1>5 DEF ListCodes
  <2>. QED
    BY <1>1, <1>2, <1>3, <1>5, <2>3, <2>4, ArrayAnswers
<1>6. CASE /\ status = "RPL_OK" /\ target # Nothing
           /\ Reply(queuePayloadArray(fd, foundPackets))
  <2>1. found \in Seq(Users)
    <3>1. subscribers[target] \in Seq(Users)
      BY <1>1, <1>6 DEF WorkspaceInv, Sound, Typed, workspace
    <3>. QED
      BY <3>1, AmongFilters DEF Filters
  <2>. HIDE DEF found
  <2>2. foundPackets = [i \in DOMAIN found |-> Event("RPL_USERS_LIST", Shown(found[i]))]
    BY DEF Each
  <2>. HIDE DEF foundPackets
  <2>3. /\ foundPackets \in Seq({Event("RPL_USERS_LIST", Shown(u)) : u \in Users})
        /\ \A i \in DOMAIN foundPackets : foundPackets[i].code = "RPL_USERS_LIST"
    BY <2>1, <2>2 DEF Event
  <2>4. "RPL_USERS_LIST" \in ListCodes(cmd)
    BY <1>6 DEF ListCodes
  <2>. QED
    BY <1>1, <1>2, <1>3, <1>6, <2>3, <2>4, ArrayAnswers
<1>. QED
  BY <1>4, <1>5, <1>6 DEF handleSubscribedListCommand

\* What resolveContext refuses with.
LEMMA ResolveRefusals ==
  ASSUME NEW u, NEW c \in Contexts
  PROVE  resolveContext(u, c) \in {"RPL_OK", "ERR_NOT_FOUND", "ERR_UNAUTHORIZED"}
<1>1. (c.channel # None => c.team # None) /\ (c.thread # None => c.channel # None)
  BY ContextsCombine
<1>. DEFINE R == {"RPL_OK", "ERR_NOT_FOUND", "ERR_UNAUTHORIZED"}
<1>2. \A t : resolveTeam(u, t) \in R
  BY DEF resolveTeam
<1>3. \A t, ch : resolveContextTeamChannel(u, t, ch) \in R
  BY <1>2 DEF resolveContextTeamChannel
<1>4. \A t, ch, th : resolveThread(u, t, ch, th) \in R
  BY <1>3 DEF resolveThread
<1>. QED
  BY <1>1, <1>2, <1>3, <1>4 DEF resolveContext

LEMMA ListCommandAnswers ==
  ASSUME WorkspaceInv, NEW fd \in Fds, NEW cmd \in Served,
         cmd.kind = "list", handleListCommand(fd, cmd.arg)
  PROVE  Answered(fd, cmd)
<1>. DEFINE c == context[fd]
            status == contextStatus(fd, cmd.arg)
            packets == listEntries(c)
<1>1. cmd.kind \in OnlyReplies
  BY DEF OnlyReplies, ClientKinds
<1>2. fd \in conns /\ conns \subseteq Fds /\ c \in Contexts
  BY DEF handleListCommand, WorkspaceInv, SessionsSound, StateTyped
<1>3. {"RPL_OK", "ERR_UNAUTHORIZED", "ERR_NOT_FOUND", "ERR_BAD_REQUEST"}
        \subseteq finalCodes(cmd)
  BY DEF finalCodes
<1>4. CASE status # "RPL_OK" /\ Refuse(fd, status)
  <2>1. status \in finalCodes(cmd)
    BY <1>2, <1>3, ResolveRefusals DEF contextStatus
  <2>. HIDE DEF status
  <2>. QED
    BY <1>1, <1>2, <1>4, <2>1, RefusalAnswers
<1>5. CASE status = "RPL_OK" /\ Reply(queuePayloadArray(fd, packets))
  <2>1. resolveContext(byFd[fd], c) = "RPL_OK"
    BY <1>5, ContextStatuses
  <2>2. (c.channel # None => c.team # None) /\ (c.thread # None => c.channel # None)
    BY <1>2, ContextsCombine
  <2>3. /\ c.team # None => c.team \in Teams
        /\ c.channel # None => c.channel \in Channels
        /\ c.thread # None => c.thread \in Threads
    BY <1>2, <2>1, Resolved
  <2>4. /\ teams \in Seq(TeamEntries)
        /\ channels \in [Teams -> Seq(ChannelEntries)]
        /\ threads \in [Channels -> Seq(ThreadEntries)]
        /\ replies \in [Threads -> Seq(Users)]
    BY DEF WorkspaceInv, Sound, Typed, workspace
  <2>5. ASSUME NEW code, code \in {"RPL_TEAMS_LIST", "RPL_CHANNELS_LIST",
                                   "RPL_THREADS_LIST", "RPL_REPLIES_LIST"},
               NEW T, packets \in Seq(T),
               \A i \in DOMAIN packets : packets[i].code = code
        PROVE  Answered(fd, cmd)
    <3>1. code \in ListCodes(cmd)
      BY <2>5 DEF ListCodes
    <3>. HIDE DEF packets, c
    <3>. QED
      BY <1>1, <1>2, <1>3, <1>5, <2>5, <3>1, ArrayAnswers
  <2>6. CASE c.team = None
    <3>1. packets = [i \in DOMAIN teams |-> Event("RPL_TEAMS_LIST", teams[i])]
      BY <2>2, <2>6, Zenon DEF listEntries, Each
    <3>2. packets \in Seq({Event("RPL_TEAMS_LIST", t) : t \in TeamEntries})
      BY <2>4, <3>1
    <3>3. \A i \in DOMAIN packets : packets[i].code = "RPL_TEAMS_LIST"
      BY <3>1 DEF Event
    <3>. HIDE DEF packets
    <3>. QED
      BY <2>5, <3>2, <3>3
  <2>7. CASE c.team # None /\ c.channel = None
    <3>. DEFINE s == channels[c.team]
    <3>1. s \in Seq(ChannelEntries)
      BY <2>2, <2>3, <2>4, <2>7
    <3>2. packets = [i \in 1 .. Len(s) |->
                      Content("RPL_CHANNELS_LIST", c.team, s[i])]
      <4>1. DOMAIN s = 1 .. Len(s)
        BY <3>1
      <4>2. packets = [i \in DOMAIN s |-> Content("RPL_CHANNELS_LIST", c.team, s[i])]
        BY <2>2, <2>7, Zenon DEF listEntries, Each
      <4>. QED
        BY <4>1, <4>2, Zenon
    <3>. HIDE DEF s, packets
    <3>3. packets \in Seq({Content("RPL_CHANNELS_LIST", c.team, x) :
                            x \in ChannelEntries})
      <4>. DEFINE V == {Content("RPL_CHANNELS_LIST", c.team, x) : x \in ChannelEntries}
      <4>1. \A i \in 1 .. Len(s) : Content("RPL_CHANNELS_LIST", c.team, s[i]) \in V
        BY <3>1
      <4>2. Len(s) \in Nat
        BY <3>1
      <4>. HIDE DEF V
      <4>3. packets \in Seq(V)
        BY <3>2, <4>1, <4>2
      <4>. QED
        BY <4>3 DEF V
    <3>4. \A i \in DOMAIN packets : packets[i].code = "RPL_CHANNELS_LIST"
      BY <3>1, <3>2 DEF Content
    <3>. QED
      BY <2>5, <3>3, <3>4
  <2>8. CASE c.channel # None /\ c.thread = None
    <3>. DEFINE s == threads[c.channel]
    <3>1. s \in Seq(ThreadEntries)
      BY <2>2, <2>3, <2>4, <2>8
    <3>2. packets = [i \in 1 .. Len(s) |->
                      Content("RPL_THREADS_LIST", c.team, s[i])]
      BY <2>2, <2>8, <3>1 DEF listEntries, Each
    <3>. HIDE DEF s, packets
    <3>3. packets \in Seq({Content("RPL_THREADS_LIST", c.team, x) :
                            x \in ThreadEntries})
      BY <3>1, <3>2
    <3>4. \A i \in DOMAIN packets : packets[i].code = "RPL_THREADS_LIST"
      BY <3>1, <3>2 DEF Content
    <3>. QED
      BY <2>5, <3>3, <3>4
  <2>9. CASE c.thread # None
    <3>. DEFINE s == replies[c.thread]
    <3>1. s \in Seq(Users)
      BY <2>2, <2>3, <2>4, <2>9
    <3>2. packets = [i \in 1 .. Len(s) |->
                      Content("RPL_REPLIES_LIST", c.team, ThreadEntry(c.thread, None, s[i]))]
      BY <2>2, <2>9, <3>1 DEF listEntries, Each
    <3>. HIDE DEF s, packets
    <3>3. packets \in Seq({Content("RPL_REPLIES_LIST", c.team, ThreadEntry(c.thread, None, x)) :
                            x \in Users})
      BY <3>1, <3>2
    <3>4. \A i \in DOMAIN packets : packets[i].code = "RPL_REPLIES_LIST"
      BY <3>1, <3>2 DEF Content
    <3>. QED
      BY <2>5, <3>3, <3>4
  <2>. QED
    BY <2>6, <2>7, <2>8, <2>9
<1>. QED
  BY <1>4, <1>5 DEF handleListCommand

LEMMA InfoAnswers ==
  ASSUME WorkspaceInv, NEW fd \in Fds, NEW cmd \in Served,
         cmd.kind = "info", handleInfoCommand(fd, cmd.arg)
  PROVE  Answered(fd, cmd)
<1>. DEFINE c == context[fd]
            status == contextStatus(fd, cmd.arg)
            packet == infoPacket(byFd[fd], c)
<1>1. cmd.kind \in OnlyReplies
  BY DEF OnlyReplies, ClientKinds
<1>2. fd \in conns /\ conns \subseteq Fds /\ c \in Contexts
  BY DEF handleInfoCommand, WorkspaceInv, SessionsSound, StateTyped
<1>3. {"ERR_UNAUTHORIZED", "ERR_NOT_FOUND", "ERR_BAD_REQUEST", "RPL_USER_INFO",
       "RPL_TEAMS_LIST", "RPL_CHANNELS_LIST", "RPL_THREADS_LIST"}
        \subseteq finalCodes(cmd)
  BY DEF finalCodes
<1>4. CASE status # "RPL_OK" /\ Refuse(fd, status)
  <2>1. status \in finalCodes(cmd)
    BY <1>2, <1>3, <1>4, ResolveRefusals DEF contextStatus
  <2>. HIDE DEF status
  <2>. QED
    BY <1>1, <1>2, <1>4, <2>1, RefusalAnswers
<1>5. CASE status = "RPL_OK" /\ Reply(To({fd}, packet))
  <2>1. (c.channel # None => c.team # None) /\ (c.thread # None => c.channel # None)
    BY <1>2, ContextsCombine
  <2>2. packet.code \in {"RPL_USER_INFO", "RPL_TEAMS_LIST", "RPL_CHANNELS_LIST",
                         "RPL_THREADS_LIST"}
    BY <2>1 DEF infoPacket, Event, Content
  <2>. HIDE DEF packet
  <2>. QED
    BY <1>1, <1>2, <1>3, <1>5, <2>2, ReplyAnswers
<1>. QED
  BY <1>4, <1>5 DEF handleInfoCommand

\* RPL_CREATED and the events that announce what was created.
LEMMA CreatedAnswers ==
  ASSUME NEW fd \in conns, conns \subseteq Fds, NEW cmd \in Served,
         cmd.kind \in OnlyReplies, NEW p, p.code \in finalCodes(cmd),
         NEW S, NEW e, IsEvent(e), Queue(Then(To({fd}, p), To(S, e))),
         UNCHANGED sessionVars
  PROVE  Answered(fd, cmd)
<1>. DEFINE packets == Then(To({fd}, p), To(S, e))
<1>1. ~IsEvent(p) /\ p.code \notin ListCodes(cmd)
  BY FinalReplies
<1>2. /\ To({fd}, p)[fd] = <<p>>
      /\ \A g \in Fds \ {fd} : To({fd}, p)[g] = <<>>
  BY DEF To
<1>3. /\ packets[fd] = <<p>> \o To(S, e)[fd]
      /\ \A g \in Fds \ {fd} : packets[g] = <<>> \o To(S, e)[g]
  BY <1>2 DEF Then
<1>4. \A g \in Fds : Quiet(To(S, e)[g])
  BY QuietTo
<1>. HIDE DEF packets
<1>5. AnswerTo(cmd, packets[fd], 1) /\ packets[fd][1] = p
  <2>. DEFINE rest == To(S, e)[fd]
  <2>1. Quiet(rest) /\ packets[fd] = <<p>> \o rest
    BY <1>3, <1>4
  <2>. HIDE DEF rest
  <2>2. ASSUME NEW s, s = <<p>> \o rest
        PROVE  AnswerTo(cmd, s, 1) /\ s[1] = p
    BY <1>1, <2>1, <2>2, OneReply
  <2>. QED
    BY <2>1, <2>2
<1>6. \A g \in Fds \ {fd} : Quiet(packets[g])
  BY <1>3, <1>4, OnePacket, QuietConcat
<1>. QED
  BY <1>5, <1>6, QueuedAnswer DEF packets, sessionVars

LEMMA CreateAnswers ==
  ASSUME WorkspaceInv, NEW fd \in Fds, NEW cmd \in Served,
         cmd.kind = "create", handleCreateCommand(fd, cmd.arg)
  PROVE  Answered(fd, cmd)
<1>. DEFINE c == context[fd]
            status == createStatus(fd, cmd.arg)
<1>1. /\ cmd.kind \in OnlyReplies
      /\ {"RPL_CREATED", "ERR_UNAUTHORIZED", "ERR_NOT_FOUND", "ERR_ALREADY_EXIST",
          "ERR_BAD_REQUEST"} \subseteq finalCodes(cmd)
      /\ fd \in conns /\ conns \subseteq Fds /\ c \in Contexts
  <2>1. fd \in conns /\ conns \subseteq Fds /\ c \in Contexts
    BY DEF handleCreateCommand, WorkspaceInv, SessionsSound, StateTyped
  <2>2. /\ cmd.kind \in OnlyReplies
        /\ {"RPL_CREATED", "ERR_UNAUTHORIZED", "ERR_NOT_FOUND", "ERR_ALREADY_EXIST",
            "ERR_BAD_REQUEST"} \subseteq finalCodes(cmd)
    BY DEF OnlyReplies, ClientKinds, finalCodes
  <2>. QED
    BY <2>1, <2>2
<1>2. CASE status # "RPL_OK" /\ Refuse(fd, status)
  <2>1. status \in finalCodes(cmd)
    BY <1>1, <1>2, CreateStatuses DEF StatusCodes
  <2>. HIDE DEF status
  <2>. QED
    BY <1>1, <1>2, <2>1, RefusalAnswers
<1>3. ASSUME NEW event \in {"EVT_CHANNEL_CREATED", "EVT_THREAD_CREATED",
                            "EVT_REPLY_CREATED"},
             NEW t, NEW item,
             announceCreation(fd, t, event, item), UNCHANGED sessionVars
      PROVE  Answered(fd, cmd)
  <2>. DEFINE p == Content("RPL_CREATED", t, item)
              e == Content(event, t, item)
              S == {f \in Authenticated : isUserSubscribed(t, byFd[f])}
  <2>1. p.code \in finalCodes(cmd) /\ IsEvent(e)
    BY <1>1, <1>3 DEF Content, IsEvent
  <2>2. Queue(Then(To({fd}, p), To(S, e)))
    BY <1>3 DEF announceCreation, queuePacketToTeamSubscribers
  <2>. HIDE DEF p, e, S
  <2>. QED
    BY <1>1, <1>3, <2>1, <2>2, CreatedAnswers
<1>4. CASE handleCreateTeam(fd, cmd.arg.text)
  <2>1. PICK id \in generateUniqueTeamUuid :
          /\ Queue(Then(To({fd}, Event("RPL_CREATED", Entry(id, cmd.arg.text))),
                        queuePacketToLogedUser(
                          Event("EVT_TEAM_CREATED", Entry(id, cmd.arg.text)))))
          /\ UNCHANGED sessionVars
    BY <1>4 DEF handleCreateTeam
  <2>. DEFINE p == Event("RPL_CREATED", Entry(id, cmd.arg.text))
              e == Event("EVT_TEAM_CREATED", Entry(id, cmd.arg.text))
  <2>2. p.code \in finalCodes(cmd) /\ IsEvent(e)
    BY <1>1 DEF Event, IsEvent
  <2>3. Queue(Then(To({fd}, p), To(Authenticated, e)))
    BY <2>1 DEF queuePacketToLogedUser
  <2>. HIDE DEF p, e
  <2>. QED
    BY <1>1, <2>1, <2>2, <2>3, CreatedAnswers
<1>5. CASE handleCreateChannel(fd, cmd.arg.text)
  <2>1. PICK id \in Channels :
          /\ announceCreation(fd, c.team, "EVT_CHANNEL_CREATED",
                              Entry(id, cmd.arg.text))
          /\ UNCHANGED sessionVars
    BY <1>5 DEF handleCreateChannel
  <2>. HIDE DEF c
  <2>. QED
    BY <1>3, <2>1
<1>6. CASE handleCreateThread(fd, cmd.arg.text)
  <2>1. PICK id \in Threads :
          /\ announceCreation(fd, c.team, "EVT_THREAD_CREATED",
                              ThreadEntry(id, cmd.arg.text, byFd[fd]))
          /\ UNCHANGED sessionVars
    BY <1>6 DEF handleCreateThread
  <2>. HIDE DEF c
  <2>. QED
    BY <1>3, <2>1
<1>7. CASE handleCreateReply(fd)
  <2>1. /\ announceCreation(fd, c.team, "EVT_REPLY_CREATED",
                            ThreadEntry(c.thread, None, byFd[fd]))
        /\ UNCHANGED sessionVars
    BY <1>7 DEF handleCreateReply
  <2>. HIDE DEF c
  <2>. QED
    BY <1>3, <2>1
<1>. QED
  BY <1>2, <1>4, <1>5, <1>6, <1>7 DEF handleCreateCommand

-----------------------------------------------------------------------------
(* Every command *)

LEMMA CommandAnswered ==
  ASSUME WorkspaceInv, AccountsFinite, NEW fd \in Fds, NEW cmd \in Served,
         dispatchCommand(fd, cmd.kind, cmd.arg)
  PROVE  Answered(fd, cmd)
<1>1. SessionsSound
  BY DEF WorkspaceInv
<1>2. CASE cmd.kind = "login" /\ handleLoginCommand(fd, cmd.arg)
  BY <1>1, <1>2, LoginAnswers
<1>3. CASE cmd.kind = "logout" /\ handleLogoutCommand(fd, cmd.arg)
  BY <1>1, <1>3, LogoutAnswers
<1>4. CASE cmd.kind = "use" /\ handleUseCommand(fd, cmd.arg)
  BY <1>1, <1>4, UseAnswers
<1>5. CASE cmd.kind = "send" /\ handleSendCommand(fd, cmd.arg)
  BY <1>1, <1>5, SendAnswers
<1>6. CASE cmd.kind = "users" /\ handleUsersCommand(fd, cmd.arg)
  BY <1>1, <1>6, UsersAnswers
<1>7. CASE cmd.kind = "user" /\ handleUserCommand(fd, cmd.arg)
  BY <1>1, <1>7, UserAnswers
<1>8. CASE cmd.kind = "messages" /\ handleMessagesCommand(fd, cmd.arg)
  BY <1>1, <1>8, MessagesAnswers
<1>9. CASE cmd.kind = "create" /\ handleCreateCommand(fd, cmd.arg)
  BY <1>9, CreateAnswers
<1>10. CASE cmd.kind = "subscribe" /\ handleSubscribeCommand(fd, cmd.arg)
  BY <1>1, <1>10, SubscriptionAnswers
<1>11. CASE cmd.kind = "unsubscribe" /\ handleUnsubscribeCommand(fd, cmd.arg)
  BY <1>1, <1>11, SubscriptionAnswers
<1>12. CASE cmd.kind = "subscribed" /\ handleSubscribedListCommand(fd, cmd.arg)
  BY <1>12, SubscribedListAnswers
<1>13. CASE cmd.kind = "list" /\ handleListCommand(fd, cmd.arg)
  BY <1>13, ListCommandAnswers
<1>14. CASE cmd.kind = "info" /\ handleInfoCommand(fd, cmd.arg)
  BY <1>14, InfoAnswers
<1>. QED
  BY <1>2, <1>3, <1>4, <1>5, <1>6, <1>7, <1>8, <1>9, <1>10, <1>11, <1>12, <1>13,
     <1>14 DEF dispatchCommand

\* The server stays sound.
ServerSound == WorkspaceInv /\ AccountsFinite

LEMMA SessionsAdvance ==
  ASSUME ServerSound, NEW fd \in Fds,
         Accept(fd) \/ removeClientAt(fd) \/ Command(fd), KeepWorkspace
  PROVE  ServerSound'
<1>1. SessionStep(fd) /\ Next
  BY DEF SessionStep, Next
<1>. QED
  BY <1>1, SessionStepInv, AccountsStayFinite DEF ServerSound

LEMMA ServerUntouched ==
  ASSUME ServerSound, UNCHANGED <<sessionVars, workspaceVars, fileVars>>
  PROVE  ServerSound'
<1>1. UNCHANGED <<running, conns, known, logins, byFd, routes, context, messages, disk>>
  BY DEF sessionVars
<1>2. UNCHANGED <<teams, subscribers, channels, threads, replies, saved, accountsLost>>
  BY DEF workspaceVars, fileVars
<1>3. SessionsSound'
  BY SessionsStutter DEF ServerSound, WorkspaceInv
<1>4. workspace' = workspace
  BY <1>2 DEF workspace
<1>5. /\ Sound(workspace, Accounts)'
      /\ FilesSound(saved, OrAnybody(disk.users))'
      /\ AccountsKept'
  BY <1>1, <1>2, <1>4 DEF ServerSound, WorkspaceInv, Accounts, OrAnybody, AccountsKept
<1>. QED
  BY <1>1, <1>3, <1>5 DEF ServerSound, WorkspaceInv, AccountsFinite

LEMMA CommandAdvances ==
  ASSUME ServerSound, NEW fd \in Fds, NEW cmd \in Served,
         dispatchCommand(fd, cmd.kind, cmd.arg)
  PROVE  ServerSound'
<1>1. cmd.arg \in ArgumentsOf(cmd.kind)
  BY ServedCommand
<1>2. CASE /\ cmd.kind = "login" /\ handleLoginCommand(fd, cmd.arg)
           /\ KeepWorkspace
  BY <1>1, <1>2, SessionsAdvance DEF Command, ArgumentsOf
<1>3. CASE /\ cmd.kind = "logout" /\ handleLogoutCommand(fd, cmd.arg)
           /\ KeepWorkspace
  BY <1>1, <1>3, SessionsAdvance DEF Command, ArgumentsOf
<1>4. CASE /\ cmd.kind = "use" /\ handleUseCommand(fd, cmd.arg)
           /\ KeepWorkspace
  BY <1>1, <1>4, SessionsAdvance DEF Command, ArgumentsOf
<1>5. CASE /\ cmd.kind = "send" /\ handleSendCommand(fd, cmd.arg)
           /\ KeepWorkspace
  BY <1>1, <1>5, SessionsAdvance DEF Command, ArgumentsOf
<1>6. CASE /\ \/ cmd.kind = "users" /\ handleUsersCommand(fd, cmd.arg)
              \/ cmd.kind = "user" /\ handleUserCommand(fd, cmd.arg)
              \/ cmd.kind = "messages" /\ handleMessagesCommand(fd, cmd.arg)
           /\ KeepWorkspace
  <2>1. UNCHANGED sessionVars
    BY <1>6 DEF handleUsersCommand, handleUserCommand, handleMessagesCommand,
                Answer, Read
  <2>. QED
    BY <1>6, <2>1, ServerUntouched DEF KeepWorkspace
<1>7. ASSUME WorkspaceCommand(fd), UNCHANGED <<known, disk>>
      PROVE  ServerSound'
  BY <1>7, WorkspaceCommandInv DEF ServerSound, AccountsFinite
<1>8. CASE cmd.kind = "create" /\ handleCreateCommand(fd, cmd.arg)
  <2>1. WorkspaceCommand(fd)
    BY <1>1, <1>8 DEF WorkspaceCommand, ArgumentsOf
  <2>2. UNCHANGED <<known, disk>>
    BY <1>8 DEF handleCreateCommand, handleCreateTeam, handleCreateChannel,
                handleCreateThread, handleCreateReply, Refuse, Reply, sessionVars
  <2>. QED
    BY <1>7, <2>1, <2>2
<1>9. CASE \/ cmd.kind = "subscribe" /\ handleSubscribeCommand(fd, cmd.arg)
           \/ cmd.kind = "unsubscribe" /\ handleUnsubscribeCommand(fd, cmd.arg)
  <2>1. WorkspaceCommand(fd)
    BY <1>1, <1>9 DEF WorkspaceCommand, ArgumentsOf
  <2>2. UNCHANGED <<known, disk>>
    BY <1>9 DEF handleSubscribeCommand, handleUnsubscribeCommand,
                changeSubscribers, Refuse, Reply, sessionVars
  <2>. QED
    BY <1>7, <2>1, <2>2
<1>10. CASE cmd.kind = "subscribed" /\ handleSubscribedListCommand(fd, cmd.arg)
  <2>1. WorkspaceCommand(fd)
    BY <1>1, <1>10 DEF WorkspaceCommand, ArgumentsOf
  <2>2. UNCHANGED <<known, disk>>
    BY <1>10 DEF handleSubscribedListCommand, Refuse, Reply, sessionVars
  <2>. QED
    BY <1>7, <2>1, <2>2
<1>11. CASE \/ cmd.kind = "list" /\ handleListCommand(fd, cmd.arg)
            \/ cmd.kind = "info" /\ handleInfoCommand(fd, cmd.arg)
  <2>1. WorkspaceCommand(fd)
    BY <1>1, <1>11 DEF WorkspaceCommand, ArgumentsOf
  <2>2. UNCHANGED <<known, disk>>
    BY <1>11 DEF handleListCommand, handleInfoCommand, Refuse, Reply, sessionVars
  <2>. QED
    BY <1>7, <2>1, <2>2
<1>. QED
  BY <1>2, <1>3, <1>4, <1>5, <1>6, <1>8, <1>9, <1>10, <1>11 DEF dispatchCommand

-----------------------------------------------------------------------------
(* The system *)

\* Functions of the connections.
OfConnections(g) == g = [f \in Fds |-> g[f]]

ConnectionsTyped ==
  /\ OfConnections(client)
  /\ OfConnections(toServer)
  /\ OfConnections(toClient)
  /\ OfConnections(timeouts)
  /\ OfConnections(astray)

GoodAt(f) == Good(client[f], toServer[f], toClient[f], byFd[f], context[f],
                  timeouts[f], astray[f])

SystemInv == ServerSound /\ ConnectionsTyped /\ \A f \in Fds : GoodAt(f)

\* A step of one client.
LEMMA ClientStep ==
  ASSUME SystemInv, ServerIdle, NEW f \in Fds, GoodAt(f)', ConnectionsTyped',
         \A g \in Fds \ {f} :
           /\ client'[g] = client[g] /\ toServer'[g] = toServer[g]
           /\ toClient'[g] = toClient[g] /\ timeouts'[g] = timeouts[g]
           /\ astray'[g] = astray[g]
  PROVE  SystemInv'
<1>1. ServerSound'
  BY ServerUntouched DEF SystemInv, ServerIdle
<1>2. byFd' = byFd /\ context' = context
  BY DEF ServerIdle, sessionVars
<1>3. ASSUME NEW g \in Fds \ {f}
      PROVE  GoodAt(g)'
  BY <1>2, <1>3 DEF SystemInv, GoodAt
<1>. QED
  BY <1>1, <1>3 DEF SystemInv

LEMMA CommandsServed ==
  ASSUME NEW f \in Fds, client[f] \in ClientStates, NEW kind \in Kinds,
         NEW arg \in Arguments(f, kind)
  PROVE  /\ [kind |-> kind, arg |-> arg] \in Served
         /\ kind = "login" => ~client[f].connected
<1>. DEFINE c == client[f]
<1>1. kind \in ClientKinds
  BY KindsKnown
<1>2. c.context \in Contexts
  BY DEF ClientStates
<1>3. inferCreateTargetFromContext(c.context) \in {"named", "thread", "reply"}
  BY DEF inferCreateTargetFromContext, Shape
<1>. HIDE DEF c
<1>4. CASE kind = "create"
  <2>1. arg \in [shape : {inferCreateTargetFromContext(c.context)}, text : Names]
    BY <1>4 DEF Arguments, c
  <2>2. arg \in CreatePayload
    BY <1>3, <2>1 DEF CreatePayload
  <2>. QED
    BY <1>1, <1>4, <2>2 DEF Served, Commands, ArgumentsOf
<1>5. CASE kind # "create"
  <2>1. arg \in ArgumentsOf(kind) /\ (kind = "login" => ~c.connected)
    BY <1>1, <1>5 DEF Arguments, ArgumentsOf, ClientKinds, c
  <2>2. arg \in Users \union Contexts \union Teams \union {Nothing}
    BY <1>1, <1>5, <2>1 DEF ArgumentsOf, ClientKinds
  <2>. QED
    BY <1>1, <2>1, <2>2 DEF Served, Commands, c
<1>. QED
  BY <1>4, <1>5

LEMMA SendStep ==
  ASSUME SystemInv, NEW f \in Fds, Send(f)
  PROVE  SystemInv'
<1>0. PICK kind \in Kinds :
        \E arg \in Arguments(f, kind) :
          /\ ~Waiting(f)
          /\ client' = [client EXCEPT ![f].pending = [kind |-> kind, arg |-> arg],
                                      ![f].expected = "none"]
          /\ toServer' = [toServer EXCEPT ![f] = Append(@, [kind |-> kind, arg |-> arg])]
          /\ ServerIdle
          /\ UNCHANGED <<toClient, timeouts, astray>>
  BY DEF Send
<1>1. PICK arg \in Arguments(f, kind) :
        /\ ~Waiting(f)
        /\ client' = [client EXCEPT ![f].pending = [kind |-> kind, arg |-> arg],
                                    ![f].expected = "none"]
        /\ toServer' = [toServer EXCEPT ![f] = Append(@, [kind |-> kind, arg |-> arg])]
        /\ ServerIdle
        /\ UNCHANGED <<toClient, timeouts, astray>>
  BY <1>0
<1>2. GoodAt(f) /\ client[f] \in ClientStates /\ client[f].pending = NoCommand
  BY <1>1 DEF SystemInv, GoodAt, Good, Waiting
<1>. DEFINE cmd == [kind |-> kind, arg |-> arg]
            d == asking(client[f], cmd)
            sent == Append(toServer[f], cmd)
<1>3. cmd \in Served /\ MaySend(client[f], cmd)
  BY <1>2, CommandsServed DEF MaySend
<1>4. client' = [client EXCEPT ![f] = d] /\ toServer' = [toServer EXCEPT ![f] = sent]
  BY <1>1 DEF SystemInv, ConnectionsTyped, OfConnections, asking
<1>5. byFd' = byFd /\ context' = context
  BY <1>1 DEF ServerIdle, sessionVars
<1>6. Good(d, sent, toClient[f], byFd[f], context[f], timeouts[f], astray[f])
  <2>. HIDE DEF cmd
  <2>. QED
    BY <1>2, <1>3, SendGood DEF GoodAt
<1>. HIDE DEF d, sent
<1>7. /\ OfConnections(client)' /\ client'[f] = d
      /\ \A g \in Fds \ {f} : client'[g] = client[g]
  BY <1>4 DEF SystemInv, ConnectionsTyped, OfConnections
<1>8. /\ OfConnections(toServer)' /\ toServer'[f] = sent
      /\ \A g \in Fds \ {f} : toServer'[g] = toServer[g]
  BY <1>4 DEF SystemInv, ConnectionsTyped, OfConnections
<1>9. GoodAt(f)'
  BY <1>1, <1>5, <1>6, <1>7, <1>8 DEF GoodAt
<1>10. ConnectionsTyped'
  BY <1>1, <1>7, <1>8 DEF SystemInv, ConnectionsTyped
<1>. QED
  BY <1>1, <1>7, <1>8, <1>9, <1>10, ClientStep

\* What every step that reads a packet does to the connections.
LEMMA PacketRead ==
  ASSUME SystemInv, NEW f \in Fds, readServerPacket(f)
  PROVE  /\ toClient[f] # <<>> /\ ServerIdle
         /\ OfConnections(toClient)' /\ toClient'[f] = Tail(toClient[f])
         /\ \A g \in Fds \ {f} : toClient'[g] = toClient[g]
         /\ toServer' = toServer /\ timeouts' = timeouts
         /\ byFd' = byFd /\ context' = context
         /\ OfConnections(toServer)' /\ OfConnections(timeouts)'
<1>1. toClient' = [toClient EXCEPT ![f] = Tail(@)]
  BY DEF readServerPacket
<1>2. /\ OfConnections(toClient)' /\ toClient'[f] = Tail(toClient[f])
      /\ \A g \in Fds \ {f} : toClient'[g] = toClient[g]
  BY <1>1 DEF SystemInv, ConnectionsTyped, OfConnections
<1>. QED
  BY <1>2 DEF readServerPacket, ServerIdle, sessionVars, SystemInv, ConnectionsTyped

LEMMA SettledConnections ==
  ASSUME SystemInv, NEW f \in Fds, NEW packets, settles(f, packets)
  PROVE  /\ OfConnections(astray)'
         /\ astray'[f] = (astray[f] /\ (toServer[f] # <<>> \/ AnswerIn(packets)))
         /\ \A g \in Fds \ {f} : astray'[g] = astray[g]
BY DEF settles, SystemInv, ConnectionsTyped, OfConnections

LEMMA ReadEventStep ==
  ASSUME SystemInv, NEW f \in Fds, readEvent(f)
  PROVE  SystemInv'
<1>1. readServerPacket(f) /\ IsEvent(Head(toClient[f])) /\ client' = client /\ astray' = astray
  BY DEF readEvent
<1>2. Good(client[f], toServer[f], Tail(toClient[f]), byFd[f], context[f],
           timeouts[f], astray[f])
  BY <1>1, PacketRead, ReadEventGood DEF SystemInv, GoodAt
<1>3. GoodAt(f)'
  BY <1>1, <1>2, PacketRead DEF GoodAt
<1>4. ConnectionsTyped'
  BY <1>1, PacketRead DEF SystemInv, ConnectionsTyped
<1>. QED
  BY <1>1, <1>3, <1>4, PacketRead, ClientStep

LEMMA DropStep ==
  ASSUME SystemInv, NEW f \in Fds, dropReply(f)
  PROVE  SystemInv'
<1>1. /\ readServerPacket(f) /\ ~IsEvent(Head(toClient[f]))
      /\ client[f].pending = NoCommand /\ client' = client
      /\ settles(f, Tail(toClient[f]))
  BY DEF dropReply, Waiting
<1>2. Good(client[f], toServer[f], Tail(toClient[f]), byFd[f], context[f],
           timeouts[f],
           astray[f] /\ (toServer[f] # <<>> \/ AnswerIn(Tail(toClient[f]))))
  BY <1>1, PacketRead, DropGood DEF SystemInv, GoodAt
<1>3. Good(client[f], toServer[f], Tail(toClient[f]), byFd[f], context[f],
           timeouts[f], astray'[f])
  BY <1>1, <1>2, SettledConnections, Zenon
<1>4. GoodAt(f)'
  BY <1>1, <1>3, PacketRead DEF GoodAt
<1>5. ConnectionsTyped'
  BY <1>1, PacketRead, SettledConnections DEF SystemInv, ConnectionsTyped
<1>. QED
  BY <1>1, <1>4, <1>5, PacketRead, SettledConnections, ClientStep

LEMMA ReadReplyStep ==
  ASSUME SystemInv, NEW f \in Fds, readServerReply(f)
  PROVE  SystemInv'
<1>. DEFINE c == client[f]
            code == Head(toClient[f]).code
            more == [c EXCEPT !.expected = code]
            done == idle(afterReply(c, code))
<1>1. /\ readServerPacket(f) /\ ~IsEvent(Head(toClient[f]))
      /\ c.pending # NoCommand
  BY DEF readServerReply, Waiting
<1>2. GoodAt(f)
  BY DEF SystemInv
<1>3. CASE /\ moreFollows(c, code)
           /\ client' = [client EXCEPT ![f].expected = code]
           /\ astray' = astray
  <2>1. Good(more, toServer[f], Tail(toClient[f]), byFd[f], context[f],
             timeouts[f], astray[f])
    BY <1>1, <1>2, <1>3, PacketRead, ReadMoreGood DEF GoodAt
  <2>2. client' = [client EXCEPT ![f] = more]
    BY <1>3
  <2>. HIDE DEF more
  <2>3. /\ OfConnections(client)' /\ client'[f] = more
        /\ \A g \in Fds \ {f} : client'[g] = client[g]
    BY <2>2 DEF SystemInv, ConnectionsTyped, OfConnections
  <2>4. GoodAt(f)'
    BY <1>1, <1>3, <2>1, <2>3, PacketRead DEF GoodAt
  <2>5. ConnectionsTyped'
    BY <1>1, <1>3, <2>3, PacketRead DEF SystemInv, ConnectionsTyped
  <2>. QED
    BY <1>1, <1>3, <2>3, <2>4, <2>5, PacketRead, ClientStep
<1>4. CASE /\ ~moreFollows(c, code)
           /\ client' = [client EXCEPT ![f] = done]
           /\ settles(f, Tail(toClient[f]))
  <2>1. Good(done, toServer[f], Tail(toClient[f]), byFd[f], context[f],
             timeouts[f],
             astray[f] /\ (toServer[f] # <<>> \/ AnswerIn(Tail(toClient[f]))))
    BY <1>1, <1>2, <1>4, PacketRead, ReadFinalGood DEF GoodAt
  <2>. HIDE DEF done
  <2>2. Good(done, toServer[f], Tail(toClient[f]), byFd[f], context[f],
             timeouts[f], astray'[f])
    BY <1>4, <2>1, SettledConnections, Zenon
  <2>3. /\ OfConnections(client)' /\ client'[f] = done
        /\ \A g \in Fds \ {f} : client'[g] = client[g]
    BY <1>4 DEF SystemInv, ConnectionsTyped, OfConnections
  <2>4. GoodAt(f)'
    BY <1>1, <2>2, <2>3, PacketRead DEF GoodAt
  <2>5. ConnectionsTyped'
    BY <1>1, <1>4, <2>3, PacketRead, SettledConnections DEF SystemInv, ConnectionsTyped
  <2>. QED
    BY <1>1, <1>4, <2>3, <2>4, <2>5, PacketRead, SettledConnections, ClientStep
<1>. QED
  BY <1>3, <1>4 DEF readServerReply

LEMMA GiveUpStep ==
  ASSUME SystemInv, NEW f \in Fds, giveUp(f)
  PROVE  SystemInv'
<1>1. /\ client' = [client EXCEPT ![f] = idle(client[f])]
      /\ timeouts' = [timeouts EXCEPT ![f] = timeouts[f] + 1]
      /\ astray' = [astray EXCEPT ![f] = TRUE]
      /\ ServerIdle /\ toServer' = toServer /\ toClient' = toClient
  BY DEF giveUp
<1>2. Good(idle(client[f]), toServer[f], toClient[f], byFd[f], context[f],
           timeouts[f] + 1, TRUE)
  BY GiveUpGood DEF SystemInv, GoodAt
<1>3. /\ OfConnections(client)' /\ client'[f] = idle(client[f])
      /\ \A g \in Fds \ {f} : client'[g] = client[g]
  BY <1>1 DEF SystemInv, ConnectionsTyped, OfConnections
<1>4. /\ OfConnections(timeouts)' /\ timeouts'[f] = timeouts[f] + 1
      /\ \A g \in Fds \ {f} : timeouts'[g] = timeouts[g]
  BY <1>1 DEF SystemInv, ConnectionsTyped, OfConnections
<1>5. /\ OfConnections(astray)' /\ astray'[f] = TRUE
      /\ \A g \in Fds \ {f} : astray'[g] = astray[g]
  BY <1>1 DEF SystemInv, ConnectionsTyped, OfConnections
<1>6. byFd' = byFd /\ context' = context
  BY <1>1 DEF ServerIdle, sessionVars
<1>7. GoodAt(f)'
  BY <1>1, <1>2, <1>3, <1>4, <1>5, <1>6, Zenon DEF GoodAt
<1>8. ConnectionsTyped'
  BY <1>1, <1>3, <1>4, <1>5 DEF SystemInv, ConnectionsTyped
<1>. QED
  BY <1>1, <1>3, <1>4, <1>5, <1>7, <1>8, ClientStep

LEMMA ServeStep ==
  ASSUME SystemInv, NEW f \in Fds, Serve(f)
  PROVE  SystemInv'
<1>. DEFINE cmd == Head(toServer[f])
<1>1. /\ toServer[f] # <<>>
      /\ dispatchCommand(f, cmd.kind, cmd.arg)
      /\ toClient' = [g \in Fds |-> toClient[g] \o queued'[g]]
      /\ toServer' = [toServer EXCEPT ![f] = Tail(toServer[f])]
      /\ client' = client /\ timeouts' = timeouts /\ astray' = astray
  BY DEF Serve, Deliver
<1>2. ServerSound /\ GoodAt(f)
  BY DEF SystemInv
<1>3. toServer[f] \in Seq(Served)
  BY <1>2 DEF GoodAt, Good
<1>4. cmd \in Served
  BY <1>1, <1>3
<1>. HIDE DEF cmd
<1>5. Answered(f, cmd)
  BY <1>1, <1>2, <1>4, CommandAnswered DEF ServerSound
<1>6. ServerSound'
  BY <1>1, <1>2, <1>4, CommandAdvances
<1>7. /\ OfConnections(toServer)' /\ toServer'[f] = Tail(toServer[f])
      /\ \A g \in Fds \ {f} : toServer'[g] = toServer[g]
  BY <1>1 DEF SystemInv, ConnectionsTyped, OfConnections
<1>8. /\ OfConnections(toClient)'
      /\ \A g \in Fds : toClient'[g] = toClient[g] \o queued'[g]
  BY <1>1 DEF OfConnections
<1>9. GoodAt(f)'
  <2>1. Answers(Head(toServer[f]), queued'[f], byFd[f], context[f], byFd'[f], context'[f])
    BY <1>5 DEF Answered, cmd
  <2>2. Good(client[f], Tail(toServer[f]), toClient[f] \o queued'[f], byFd'[f],
             context'[f], timeouts[f], astray[f])
    BY <1>1, <1>2, <2>1, ServeGood DEF GoodAt
  <2>. QED
    BY <1>1, <1>7, <1>8, <2>2 DEF GoodAt
<1>10. ASSUME NEW g \in Fds \ {f}
       PROVE  GoodAt(g)'
  <2>1. Quiet(queued'[g]) /\ byFd'[g] = byFd[g] /\ context'[g] = context[g]
    BY <1>5 DEF Answered
  <2>2. Good(client[g], toServer[g], toClient[g] \o queued'[g], byFd[g],
             context[g], timeouts[g], astray[g])
    BY <2>1, EventsGood DEF SystemInv, GoodAt
  <2>. QED
    BY <1>1, <1>7, <1>8, <2>1, <2>2 DEF GoodAt
<1>11. ConnectionsTyped'
  BY <1>1, <1>7, <1>8 DEF SystemInv, ConnectionsTyped
<1>. QED
  BY <1>6, <1>9, <1>10, <1>11 DEF SystemInv

LEMMA ConnectStep ==
  ASSUME SystemInv, NEW f \in Fds, Connect(f)
  PROVE  SystemInv'
<1>1. ServerSound'
  BY SessionsAdvance DEF SystemInv, Connect
<1>2. /\ byFd' = byFd /\ context' = context
      /\ client' = client /\ toServer' = toServer /\ toClient' = toClient
      /\ timeouts' = timeouts /\ astray' = astray
  BY DEF Connect, Accept, clientVars
<1>. QED
  BY <1>1, <1>2 DEF SystemInv, ConnectionsTyped, OfConnections, GoodAt

LEMMA DisconnectStep ==
  ASSUME SystemInv, NEW f \in Fds, Disconnect(f)
  PROVE  SystemInv'
<1>1. ServerSound'
  BY SessionsAdvance DEF SystemInv, Disconnect
<1>2. /\ OfConnections(client)' /\ client'[f] = NewClient
      /\ \A g \in Fds \ {f} : client'[g] = client[g]
  BY DEF Disconnect, Forget, OfConnections
<1>3. /\ OfConnections(toServer)' /\ toServer'[f] = <<>>
      /\ \A g \in Fds \ {f} : toServer'[g] = toServer[g]
  BY DEF Disconnect, Forget, OfConnections
<1>4. /\ OfConnections(toClient)' /\ toClient'[f] = <<>>
      /\ \A g \in Fds \ {f} : toClient'[g] = toClient[g] \o queued'[g]
  BY DEF Disconnect, OfConnections
<1>5. /\ OfConnections(timeouts)' /\ timeouts'[f] = 0
      /\ \A g \in Fds \ {f} : timeouts'[g] = timeouts[g]
  BY DEF Disconnect, Forget, OfConnections
<1>6. /\ OfConnections(astray)' /\ astray'[f] = FALSE
      /\ \A g \in Fds \ {f} : astray'[g] = astray[g]
  BY DEF Disconnect, Forget, OfConnections
<1>7. /\ byFd' = [byFd EXCEPT ![f] = NoUser]
      /\ context' = [context EXCEPT ![f] = NoContext]
      /\ \/ Queue(broadcastLoggedOutEvent(byFd[f], f))
         \/ Queue(Silence)
  BY DEF Disconnect, removeClientAt, handleClientDisconnection, removeClient
<1>8. byFd \in [Fds -> Users \union {NoUser}] /\ context \in [Fds -> Contexts]
  BY DEF SystemInv, ServerSound, WorkspaceInv, SessionsSound, StateTyped
<1>9. /\ byFd'[f] = NoUser
      /\ \A g \in Fds \ {f} : byFd'[g] = byFd[g] /\ context'[g] = context[g]
  BY <1>7, <1>8
<1>10. \A g \in Fds : Quiet(queued'[g])
  <2>1. IsEvent(Event("EVT_LOGGED_OUT", byFd[f]))
    BY DEF Event, IsEvent, EventCodes
  <2>2. \A g \in Fds : Quiet(broadcastLoggedOutEvent(byFd[f], f)[g])
    BY <2>1, QuietTo DEF broadcastLoggedOutEvent
  <2>3. Quiet(<<>>) /\ \A g \in Fds : Silence[g] = <<>>
    BY OnePacket DEF Silence
  <2>. QED
    BY <1>7, <2>2, <2>3 DEF Queue
<1>11. GoodAt(f)'
  <2>1. Good(NewClient, <<>>, <<>>, NoUser, context'[f], 0, FALSE)
    BY OnePacket, NewIsGood
  <2>. QED
    BY <1>2, <1>3, <1>4, <1>5, <1>6, <1>9, <2>1, Zenon DEF GoodAt
<1>12. ASSUME NEW g \in Fds \ {f}
       PROVE  GoodAt(g)'
  <2>1. Good(client[g], toServer[g], toClient[g] \o queued'[g], byFd[g],
             context[g], timeouts[g], astray[g])
    BY <1>10, EventsGood DEF SystemInv, GoodAt
  <2>. QED
    BY <1>2, <1>3, <1>4, <1>5, <1>6, <1>9, <2>1 DEF GoodAt
<1>13. ConnectionsTyped'
  BY <1>2, <1>3, <1>4, <1>5, <1>6 DEF ConnectionsTyped
<1>. QED
  BY <1>1, <1>11, <1>12, <1>13 DEF SystemInv

LEMMA ServerEndsStep ==
  ASSUME SystemInv, ServerEnds
  PROVE  SystemInv'
<1>1. ServerSound'
  <2>1. WorkspaceInv'
    BY ProcessInv DEF SystemInv, ServerSound, ServerEnds
  <2>2. WorkspaceInv /\ AccountsFinite /\ (save \/ crash)
    BY DEF SystemInv, ServerSound, ServerEnds
  <2>3. known' = {} /\ (disk'.users \subseteq known \/ disk'.users = disk.users)
    BY <2>2, SaveLeaves DEF save, crash, Crash, Exit
  <2>4. AccountsFinite'
    BY <2>2, <2>3, FS_EmptySet, FS_Subset DEF AccountsFinite
  <2>. QED
    BY <2>1, <2>4 DEF ServerSound
<1>2. /\ client' = [f \in Fds |-> NewClient] /\ toServer' = [f \in Fds |-> <<>>]
      /\ timeouts' = [f \in Fds |-> 0] /\ astray' = [f \in Fds |-> FALSE]
      /\ toClient' = [f \in Fds |-> <<>>]
  BY DEF ServerEnds, Forget, Silence
<1>3. byFd' = [f \in Fds |-> NoUser]
  BY DEF ServerEnds, save, crash, Crash, Exit, Anonymous
<1>4. ASSUME NEW f \in Fds
      PROVE  GoodAt(f)'
  <2>1. Good(NewClient, <<>>, <<>>, NoUser, context'[f], 0, FALSE)
    BY OnePacket, NewIsGood
  <2>2. /\ client'[f] = NewClient /\ toServer'[f] = <<>> /\ toClient'[f] = <<>>
        /\ timeouts'[f] = 0 /\ byFd'[f] = NoUser /\ astray'[f] = FALSE
    BY <1>2, <1>3
  <2>. QED
    BY <2>1, <2>2, Zenon DEF GoodAt
<1>5. ConnectionsTyped'
  BY <1>2 DEF ConnectionsTyped, OfConnections
<1>. QED
  BY <1>1, <1>4, <1>5 DEF SystemInv

LEMMA ServerStartsStep ==
  ASSUME SystemInv, ServerStarts
  PROVE  SystemInv'
<1>1. ServerSound'
  <2>1. WorkspaceInv'
    BY ProcessInv DEF SystemInv, ServerSound, ServerStarts
  <2>2. AccountsFinite'
    BY AccountsStayFinite DEF SystemInv, ServerSound, ServerStarts, load, Next
  <2>. QED
    BY <2>1, <2>2 DEF ServerSound
<1>2. /\ byFd' = byFd /\ context' = context
      /\ client' = client /\ toServer' = toServer /\ toClient' = toClient
      /\ timeouts' = timeouts /\ astray' = astray
  BY DEF ServerStarts, load, Start, clientVars
<1>. QED
  BY <1>1, <1>2 DEF SystemInv, ConnectionsTyped, OfConnections, GoodAt

LEMMA InitSystemInv == SystemInit => SystemInv
<1>. SUFFICES ASSUME SystemInit PROVE SystemInv
  OBVIOUS
<1>1. WorkspaceInv
  BY InitWorkspaceInv DEF SystemInit
<1>2. AccountsFinite
  BY FS_EmptySet DEF SystemInit, WorkspaceInit, Init, AccountsFinite
<1>3. /\ client = [f \in Fds |-> NewClient] /\ toServer = [f \in Fds |-> <<>>]
      /\ toClient = [f \in Fds |-> <<>>] /\ timeouts = [f \in Fds |-> 0]
      /\ astray = [f \in Fds |-> FALSE] /\ byFd = [f \in Fds |-> NoUser]
  BY DEF SystemInit, WorkspaceInit, Init, Silence, Anonymous
<1>4. ASSUME NEW f \in Fds
      PROVE  GoodAt(f)
  <2>1. Good(NewClient, <<>>, <<>>, NoUser, context[f], 0, FALSE)
    BY OnePacket, NewIsGood
  <2>2. /\ client[f] = NewClient /\ toServer[f] = <<>> /\ toClient[f] = <<>>
        /\ timeouts[f] = 0 /\ byFd[f] = NoUser /\ astray[f] = FALSE
    BY <1>3
  <2>. QED
    BY <2>1, <2>2, Zenon DEF GoodAt
<1>5. ConnectionsTyped
  BY <1>3 DEF ConnectionsTyped, OfConnections
<1>. QED
  BY <1>1, <1>2, <1>4, <1>5 DEF SystemInv, ServerSound

LEMMA SystemStep == SystemInv /\ [SystemNext]_systemVars => SystemInv'
<1>. SUFFICES ASSUME SystemInv, [SystemNext]_systemVars PROVE SystemInv'
  OBVIOUS
<1>1. CASE ServerStarts
  BY <1>1, ServerStartsStep
<1>2. CASE ServerEnds
  BY <1>2, ServerEndsStep
<1>3. ASSUME NEW f \in Fds, Connect(f)
      PROVE  SystemInv'
  BY <1>3, ConnectStep
<1>4. ASSUME NEW f \in Fds, Disconnect(f)
      PROVE  SystemInv'
  BY <1>4, DisconnectStep
<1>5. ASSUME NEW f \in Fds, Send(f)
      PROVE  SystemInv'
  BY <1>5, SendStep
<1>6. ASSUME NEW f \in Fds, Serve(f)
      PROVE  SystemInv'
  BY <1>6, ServeStep
<1>7. ASSUME NEW f \in Fds, Receive(f)
      PROVE  SystemInv'
  BY <1>7, ReadEventStep, DropStep, ReadReplyStep DEF Receive
<1>8. ASSUME NEW f \in Fds, giveUp(f)
      PROVE  SystemInv'
  BY <1>8, GiveUpStep
<1>9. CASE UNCHANGED systemVars
  <2>1. UNCHANGED <<sessionVars, workspaceVars, fileVars>> /\ UNCHANGED clientVars
    BY <1>9 DEF systemVars, serverVars, vars
  <2>2. ServerSound'
    BY <2>1, ServerUntouched DEF SystemInv
  <2>3. /\ byFd' = byFd /\ context' = context
        /\ client' = client /\ toServer' = toServer /\ toClient' = toClient
        /\ timeouts' = timeouts /\ astray' = astray
    BY <2>1 DEF sessionVars, clientVars
  <2>. QED
    BY <2>2, <2>3 DEF SystemInv, ConnectionsTyped, OfConnections, GoodAt
<1>. QED
  BY <1>1, <1>2, <1>3, <1>4, <1>5, <1>6, <1>7, <1>8, <1>9 DEF SystemNext

\* The strengthening holds in every state of the system.
THEOREM SystemInvariance == SystemSpec => []SystemInv
BY InitSystemInv, SystemStep, PTL DEF SystemSpec

\* What the invariant says of one connection.
LEMMA GoodMeans ==
  ASSUME NEW c, NEW sent, NEW arriving, NEW user, NEW ctx, NEW t, NEW stray,
         Good(c, sent, arriving, user, ctx, t, stray)
  PROVE  /\ ~stray =>
              IF c.pending # NoCommand
                THEN (sent = <<>>) <=> AnswerIn(arriving)
                ELSE sent = <<>> /\ ~AnswerIn(arriving)
         /\ t = 0 /\ c.pending = NoCommand => Agree(user, ctx, c)
         /\ t = 0 /\ c.pending # NoCommand /\ arriving # <<>>
              /\ ~IsEvent(Head(arriving))
              => Head(arriving).code \in ListCodes(c.pending) \union finalCodes(c.pending)
<1>1. stray \in BOOLEAN /\ (stray => t > 0)
  BY DEF Good
<1>2. CASE stray
  <2>1. t # 0
    <3>1. t \in Nat
      BY DEF Good
    <3>2. t > 0
      BY <1>1, <1>2
    <3>. QED
      BY <3>1, <3>2
  <2>. QED
    BY <1>2, <2>1
<1>3. CASE ~stray /\ IdleWith(c, sent, arriving, user, ctx, t)
  BY <1>3 DEF IdleWith, Quiet, AnswerIn
<1>4. CASE ~stray /\ AskedWith(c, sent, arriving, user, ctx, t)
  <2>1. sent # <<>> /\ ~AnswerIn(arriving) /\ c.pending # NoCommand
    BY <1>4 DEF AskedWith, Quiet, AnswerIn
  <2>2. arriving # <<>> => IsEvent(Head(arriving))
    BY <1>4, QuietTail DEF AskedWith
  <2>. QED
    BY <2>1, <2>2
<1>5. CASE ~stray /\ AnsweredWith(c, sent, arriving, user, ctx, t)
  <2>1. PICK n : /\ AnswerTo(c.pending, arriving, n)
                 /\ t = 0 => Concludes(c, arriving[n].code, user, ctx)
    BY <1>5 DEF AnsweredWith
  <2>2. sent = <<>> /\ AnswerIn(arriving) /\ c.pending # NoCommand
    BY <1>5, <2>1 DEF AnsweredWith, AnswerTo, AnswerIn
  <2>3. ASSUME t = 0, ~IsEvent(Head(arriving))
        PROVE  Head(arriving).code \in ListCodes(c.pending) \union finalCodes(c.pending)
    <3>1. /\ Head(arriving) = arriving[1] /\ 1 \in DOMAIN arriving
          /\ DOMAIN arriving = 1 .. Len(arriving) /\ n \in DOMAIN arriving
      <4>1. IsSeq(arriving) /\ arriving # <<>> /\ n \in DOMAIN arriving
        BY <2>1, AnswerTail DEF AnswerTo
      <4>. QED
        BY <4>1, TailSeq
    <3>2. CASE n = 1
      BY <2>1, <2>3, <3>1, <3>2 DEF Concludes
    <3>3. CASE 1 < n
      BY <2>1, <2>3, <3>1, <3>3 DEF AnswerTo
    <3>. QED
      BY <3>1, <3>2, <3>3
  <2>. QED
    BY <2>2, <2>3
<1>. QED
  BY <1>1, <1>2, <1>3, <1>4, <1>5 DEF Good

LEMMA InStepAlways == SystemInv => InStep
<1>. SUFFICES ASSUME SystemInv, NEW f \in conns, ~astray[f]
              PROVE  IF Waiting(f) THEN (toServer[f] = <<>>) <=> AnswerIn(toClient[f])
                                   ELSE toServer[f] = <<>> /\ ~AnswerIn(toClient[f])
  BY DEF InStep
<1>1. GoodAt(f)
  BY DEF SystemInv, ServerSound, WorkspaceInv, SessionsSound, StateTyped
<1>. QED
  BY <1>1, GoodMeans DEF GoodAt, Waiting

LEMMA ClientAgrees ==
  ASSUME SystemInv, NEW f \in conns, timeouts[f] = 0, ~Waiting(f)
  PROVE  Agree(byFd[f], context[f], client[f])
<1>1. GoodAt(f)
  BY DEF SystemInv, ServerSound, WorkspaceInv, SessionsSound, StateTyped
<1>. QED
  BY <1>1, GoodMeans DEF GoodAt, Waiting

LEMMA RepliesAlwaysUnderstood == SystemInv => RepliesUnderstood
<1>. SUFFICES ASSUME SystemInv, NEW f \in conns, timeouts[f] = 0, Waiting(f),
                     toClient[f] # <<>>, ~IsEvent(Head(toClient[f]))
              PROVE  Head(toClient[f]).code \in
                       ListCodes(client[f].pending) \union finalCodes(client[f].pending)
  BY DEF RepliesUnderstood
<1>1. GoodAt(f)
  BY DEF SystemInv, ServerSound, WorkspaceInv, SessionsSound, StateTyped
<1>. QED
  BY <1>1, GoodMeans DEF GoodAt, Waiting

\* However many clients send whatever commands, and however the events that
\* they cause arrive between the packets of the answers: no client loses step
\* with the server unless it gives an answer up.
THEOREM StepKept == SystemSpec => []InStep
BY SystemInvariance, InStepAlways, PTL

\* A client that gave no answer up knows whether and as whom it is signed in.
THEOREM SessionKnown == SystemSpec => []ClientKnowsSession
<1>1. SystemInv => ClientKnowsSession
  BY ClientAgrees DEF ClientKnowsSession, Agree
<1>. QED
  BY <1>1, SystemInvariance, PTL

\* The context a client shows is the one its commands act in.
THEOREM ContextUsed == SystemSpec => []SelectedContextIsUsed
<1>1. SystemInv => SelectedContextIsUsed
  BY ClientAgrees DEF SelectedContextIsUsed, Agree
<1>. QED
  BY <1>1, SystemInvariance, PTL

\* No handler of a client that gave no answer up meets a reply it has no case
\* for.
THEOREM EveryReplyUnderstood == SystemSpec => []RepliesUnderstood
BY SystemInvariance, RepliesAlwaysUnderstood, PTL
=============================================================================
