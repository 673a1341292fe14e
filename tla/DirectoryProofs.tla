-------------------------- MODULE DirectoryProofs --------------------------
(***************************************************************************)
(* Proofs about Directory: what Among returns, that the status a user is   *)
(* shown with is true, and that a conversation is shown as it was.         *)
(***************************************************************************)
EXTENDS Directory, SessionsProofs, Recursion, FunctionTheorems

-----------------------------------------------------------------------------
(* Vectors *)

\* The elements that Among keeps of the first n: they are elements of the
\* vector, and none stands twice where the vector holds none twice.
Filters(k, entries, T, n) ==
  /\ k \in Seq(T)
  /\ ToSet(k) \subseteq {entries[i] : i \in 1 .. n}
  /\ IsInjective(entries) => IsInjective(k)

LEMMA ToSetAppend ==
  ASSUME NEW T, NEW s \in Seq(T), NEW e \in T
  PROVE  ToSet(Append(s, e)) = ToSet(s) \union {e}
<1>1. DOMAIN Append(s, e) = DOMAIN s \union {Len(s) + 1}
  OBVIOUS
<1>2. \A i \in DOMAIN s : Append(s, e)[i] = s[i]
  OBVIOUS
<1>3. Append(s, e)[Len(s) + 1] = e
  OBVIOUS
<1>. QED
  BY <1>1, <1>2, <1>3, Zenon DEF ToSet

LEMMA InjectiveAppend ==
  ASSUME NEW T, NEW s \in Seq(T), NEW e \in T, IsInjective(s), e \notin ToSet(s)
  PROVE  IsInjective(Append(s, e))
<1>1. DOMAIN Append(s, e) = DOMAIN s \union {Len(s) + 1}
  OBVIOUS
<1>2. \A i \in DOMAIN s : Append(s, e)[i] = s[i] /\ s[i] # e
  BY DEF ToSet
<1>3. Append(s, e)[Len(s) + 1] = e
  OBVIOUS
<1>. QED
  BY <1>1, <1>2, <1>3 DEF IsInjective

\* The equations of the recursive function in Among, for a vector of length n.
Solves(k, entries, S, n) ==
  k = [i \in 0 .. n |->
        IF i = 0 THEN <<>>
        ELSE IF entries[i] \in S THEN Append(k[i - 1], entries[i])
        ELSE k[i - 1]]

LEMMA AmongSolvable ==
  ASSUME NEW entries, NEW S, NEW n \in Nat
  PROVE  \E k : Solves(k, entries, S, n)
<1>. DEFINE rhs(k, i) == IF i = 0 THEN <<>>
                         ELSE IF entries[i] \in S
                                THEN Append(k[i - 1], entries[i])
                         ELSE k[i - 1]
            Solvable == {m \in Nat : \E k : Solves(k, entries, S, m)}
<1>1. 0 \in Solvable
  <2>. DEFINE k == [i \in 0 .. 0 |-> <<>>]
  <2>1. Solves(k, entries, S, 0)
    BY DEF Solves
  <2>. QED
    BY <2>1
<1>2. ASSUME NEW m \in Nat, m \in Solvable
      PROVE  m + 1 \in Solvable
  <2>1. PICK k : k = [i \in 0 .. m |-> rhs(k, i)]
    BY <1>2 DEF Solves
  <2>. DEFINE h == [i \in 0 .. m + 1 |-> IF i = m + 1 THEN rhs(k, i) ELSE k[i]]
  <2>2. \A i \in 0 .. m : h[i] = k[i]
    OBVIOUS
  <2>3. ASSUME NEW i \in 0 .. m + 1
        PROVE  rhs(h, i) = rhs(k, i)
    <3>1. i # 0 => i - 1 \in 0 .. m
      OBVIOUS
    <3>. QED
      BY <3>1, <2>2
  <2>4. \A i \in 0 .. m : k[i] = rhs(k, i)
    BY <2>1
  <2>. HIDE DEF rhs
  <2>5. \A i \in 0 .. m + 1 : h[i] = rhs(h, i)
    BY <2>3, <2>4
  <2>6. h = [i \in 0 .. m + 1 |-> rhs(h, i)]
    BY <2>5
  <2>. HIDE DEF h
  <2>. USE DEF rhs
  <2>7. Solves(h, entries, S, m + 1)
    BY <2>6, Zenon DEF Solves
  <2>. QED
    BY <2>7
<1>. HIDE DEF Solvable
<1>3. n \in Solvable
  BY <1>1, <1>2, Induction
<1>. QED
  BY <1>3 DEF Solvable

\* The steps of Among: one entry after the other is kept or passed over.
Steps(kept, entries, S) ==
  \A n \in Nat : n + 1 <= Len(entries) =>
    kept[n + 1] = IF entries[n + 1] \in S THEN Append(kept[n], entries[n + 1])
                                          ELSE kept[n]

LEMMA AmongSteps ==
  ASSUME NEW T, NEW entries \in Seq(T), NEW S
  PROVE  \E kept : /\ Among(entries, S) = kept[Len(entries)]
                   /\ kept[0] = <<>>
                   /\ Steps(kept, entries, S)
<1>. DEFINE N == Len(entries)
            kept == CHOOSE k : Solves(k, entries, S, N)
<1>1. N \in Nat
  OBVIOUS
<1>2. kept = [i \in 0 .. N |->
               IF i = 0 THEN <<>>
               ELSE IF entries[i] \in S THEN Append(kept[i - 1], entries[i])
               ELSE kept[i - 1]]
  <2>1. Solves(kept, entries, S, N)
    BY <1>1, AmongSolvable, Zenon
  <2>. HIDE DEF kept
  <2>. QED
    BY <2>1 DEF Solves
<1>3. Among(entries, S) = kept[N]
  BY DEF Among, Solves
<1>. HIDE DEF kept
<1>4. kept[0] = <<>>
  BY <1>1, <1>2
<1>5. ASSUME NEW n \in Nat, n + 1 <= N
      PROVE  kept[n + 1] = IF entries[n + 1] \in S
                             THEN Append(kept[n], entries[n + 1]) ELSE kept[n]
  <2>1. n + 1 \in 0 .. N /\ n + 1 # 0 /\ (n + 1) - 1 = n
    BY <1>1, <1>5
  <2>. QED
    BY <1>2, <2>1, Zenon
<1>6. Steps(kept, entries, S)
  BY <1>5 DEF Steps
<1>. QED
  BY <1>3, <1>4, <1>6

LEMMA AmongFilters ==
  ASSUME NEW T, NEW entries \in Seq(T), NEW S
  PROVE  Filters(Among(entries, S), entries, T, Len(entries))
<1>. DEFINE N == Len(entries)
<1>1. N \in Nat
  OBVIOUS
<1>2. PICK kept : /\ Among(entries, S) = kept[N]
                  /\ kept[0] = <<>>
                  /\ Steps(kept, entries, S)
  BY AmongSteps, Zenon
<1>. USE DEF Steps
<1>3. Among(entries, S) = kept[N]
  BY <1>2
<1>. DEFINE Good == {n \in Nat : n <= N => Filters(kept[n], entries, T, n)}
<1>4. 0 \in Good
  <2>1. Filters(<<>>, entries, T, 0)
    BY DEF Filters, ToSet, IsInjective
  <2>. QED
    BY <1>2, <2>1
<1>5. ASSUME NEW n \in Nat, n \in Good
      PROVE  n + 1 \in Good
  <2>. SUFFICES ASSUME n + 1 <= N
                PROVE  Filters(kept[n + 1], entries, T, n + 1)
    OBVIOUS
  <2>1. Filters(kept[n], entries, T, n)
    BY <1>1, <1>5
  <2>2. kept[n + 1] = IF entries[n + 1] \in S
                        THEN Append(kept[n], entries[n + 1]) ELSE kept[n]
    BY <1>2
  <2>3. {entries[i] : i \in 1 .. n} \union {entries[n + 1]}
          = {entries[i] : i \in 1 .. n + 1}
    OBVIOUS
  <2>4. CASE entries[n + 1] \notin S
    BY <2>1, <2>2, <2>3, <2>4 DEF Filters
  <2>5. CASE entries[n + 1] \in S
    <3>1. entries[n + 1] \in T
      BY <1>1
    <3>2. ToSet(kept[n + 1]) = ToSet(kept[n]) \union {entries[n + 1]}
      BY <2>1, <2>2, <2>5, <3>1, ToSetAppend DEF Filters
    <3>3. ASSUME IsInjective(entries)
          PROVE  IsInjective(kept[n + 1])
      <4>1. \A i \in 1 .. n : entries[i] # entries[n + 1]
        BY <1>1, <3>3 DEF IsInjective
      <4>2. entries[n + 1] \notin ToSet(kept[n])
        BY <2>1, <4>1 DEF Filters
      <4>. QED
        BY <2>1, <2>2, <2>5, <3>1, <3>3, <4>2, InjectiveAppend DEF Filters
    <3>. QED
      BY <2>1, <2>2, <2>3, <2>5, <3>1, <3>2, <3>3 DEF Filters
  <2>. QED
    BY <2>4, <2>5
<1>. HIDE DEF Good
<1>6. N \in Good
  BY <1>1, <1>4, <1>5, Induction
<1>. QED
  BY <1>1, <1>3, <1>6 DEF Good

-----------------------------------------------------------------------------
(* Packets *)

\* The packets of a list are its elements' packets and RPL_OK.
LEMMA ArrayPackets ==
  ASSUME NEW fd \in Fds, NEW T, NEW packets \in Seq(T), NEW f \in Fds,
         NEW i \in DOMAIN queuePayloadArray(fd, packets)[f]
  PROVE  /\ f = fd
         /\ \/ queuePayloadArray(fd, packets)[f][i] = Status("RPL_OK")
            \/ /\ i \in DOMAIN packets
               /\ queuePayloadArray(fd, packets)[f][i] = packets[i]
<1>1. f = fd /\ queuePayloadArray(fd, packets)[f] = Append(packets, Status("RPL_OK"))
  BY DEF queuePayloadArray
<1>2. DOMAIN Append(packets, Status("RPL_OK")) = DOMAIN packets \union {Len(packets) + 1}
  OBVIOUS
<1>3. /\ \A j \in DOMAIN packets : Append(packets, Status("RPL_OK"))[j] = packets[j]
      /\ Append(packets, Status("RPL_OK"))[Len(packets) + 1] = Status("RPL_OK")
  OBVIOUS
<1>. QED
  BY <1>1, <1>2, <1>3

-----------------------------------------------------------------------------
(* The accounts are finitely many *)

AccountsFinite == IsFiniteSet(known) /\ IsFiniteSet(disk.users)

\* What any step of the sessions does to the accounts.
LEMMA AccountsStayFinite == AccountsFinite /\ Next => AccountsFinite'
<1>. SUFFICES ASSUME AccountsFinite, Next PROVE AccountsFinite'
  OBVIOUS
<1>. USE DEF AccountsFinite
<1>1. CASE Start
  BY <1>1 DEF Start
<1>2. CASE Stop
  BY <1>2, FS_EmptySet DEF Stop, Exit
<1>3. CASE Crash
  BY <1>3, FS_EmptySet DEF Crash, Exit
<1>4. ASSUME NEW fd, Accept(fd) \/ removeClientAt(fd)
      PROVE  AccountsFinite'
  BY <1>4 DEF Accept, removeClientAt
<1>5. ASSUME NEW fd, NEW name, handleLoginCommand(fd, name)
      PROVE  AccountsFinite'
  BY <1>5, FS_AddElement
     DEF handleLoginCommand, LoginNewUser, LoginExistingUser, completeLogin,
         Answer, sessionVars
<1>6. ASSUME NEW fd, NEW payload, handleLogoutCommand(fd, payload)
      PROVE  AccountsFinite'
  BY <1>6 DEF handleLogoutCommand, logoutSession, Answer, sessionVars
<1>7. ASSUME NEW fd, NEW c, handleUseCommand(fd, c)
      PROVE  AccountsFinite'
  BY <1>7 DEF handleUseCommand, setContext, Answer, sessionVars
<1>8. ASSUME NEW fd, NEW target, handleSendCommand(fd, target)
      PROVE  AccountsFinite'
  BY <1>8 DEF handleSendCommand, storeAndSend, Answer, sessionVars
<1>. QED
  BY <1>1, <1>2, <1>3, <1>4, <1>5, <1>6, <1>7, <1>8 DEF Next, Command

LEMMA SetToSeqTyped ==
  ASSUME NEW S, IsFiniteSet(S)
  PROVE  SetToSeq(S) \in Seq(S)
<1>1. Cardinality(S) \in Nat /\ \E f \in [1 .. Cardinality(S) -> S] : IsInjective(f)
  BY FS_CardinalityType DEF ExistsBijection, Bijection, Injection
<1>2. SetToSeq(S) \in [1 .. Cardinality(S) -> S]
  BY <1>1, Zenon DEF SetToSeq
<1>. QED
  BY <1>1, <1>2

-----------------------------------------------------------------------------
(* The status of a user *)

Shows == {"RPL_USERS_LIST", "RPL_USER_INFO"}

\* Packets that show every user as the sessions are.
Truthful(packets) ==
  \A f \in Fds : \A i \in DOMAIN packets[f] :
    packets[f][i].code \in Shows =>
      LET shown == packets[f][i].about
      IN shown.status <=> SessionsOf(shown.user) # {}

DirectoryInv == SessionsSound /\ AccountsFinite /\ StatusShownIsTrue

LEMMA ShownIsTrue ==
  ASSUME SessionsSound, NEW u \in Users
  PROVE  Shown(u).user = u /\ (Shown(u).status <=> SessionsOf(u) # {})
<1>1. logins[u] = Cardinality(SessionsOf(u))
  BY DEF SessionsSound, LoginsCountSessions
<1>2. SessionsOf(u) \subseteq Fds
  BY DEF SessionsOf
<1>. QED
  BY <1>1, <1>2, PositiveMeansNonempty DEF Shown, Online

LEMMA ReadKeeps ==
  ASSUME DirectoryInv, NEW packets, Truthful(packets), Read(packets)
  PROVE  DirectoryInv'
<1>1. UNCHANGED sessionVars /\ Queue(packets)
  BY DEF Read
<1>2. SessionsSound'
  BY <1>1, SessionsStutter DEF DirectoryInv
<1>3. AccountsFinite'
  BY <1>1 DEF DirectoryInv, AccountsFinite, sessionVars
<1>4. StatusShownIsTrue'
  BY <1>1 DEF Truthful, Queue, StatusShownIsTrue, Shows, SessionsOf, sessionVars
<1>. QED
  BY <1>2, <1>3, <1>4 DEF DirectoryInv

LEMMA AnswerKeeps ==
  ASSUME DirectoryInv, NEW fd, NEW code \in StatusCodes, Answer(fd, code)
  PROVE  DirectoryInv'
<1>1. Truthful(To({fd}, Status(code)))
  BY DEF Truthful, To, Status, Shows, StatusCodes
<1>2. Read(To({fd}, Status(code)))
  BY DEF Read, Answer
<1>. QED
  BY <1>1, <1>2, ReadKeeps

LEMMA UsersKeeps ==
  ASSUME DirectoryInv, NEW fd \in Fds, NEW payload, handleUsersCommand(fd, payload)
  PROVE  DirectoryInv'
<1>. DEFINE users == SetToSeq(known)
            packets == Each(users, LAMBDA u : Event("RPL_USERS_LIST", Shown(u)))
            array == queuePayloadArray(fd, packets)
<1>1. usersStatus(fd, payload) \in StatusCodes
  BY DEF usersStatus, StatusCodes
<1>2. CASE Read(array)
  <2>1. users \in Seq(Users)
    <3>1. users \in Seq(known) /\ known \subseteq Users
      BY SetToSeqTyped DEF DirectoryInv, AccountsFinite, SessionsSound, StateTyped
    <3>. QED
      BY <3>1
  <2>. HIDE DEF users
  <2>2. packets = [i \in DOMAIN users |-> Event("RPL_USERS_LIST", Shown(users[i]))]
    BY DEF Each
  <2>. HIDE DEF packets
  <2>3. packets \in Seq({Event("RPL_USERS_LIST", Shown(u)) : u \in Users})
    BY <2>1, <2>2
  <2>4. \A i \in DOMAIN packets :
          /\ users[i] \in Users
          /\ packets[i].about = Shown(users[i])
    BY <2>1, <2>2 DEF Event
  <2>5. Truthful(array)
    <3>. SUFFICES ASSUME NEW f \in Fds, NEW i \in DOMAIN array[f],
                         array[f][i].code \in Shows
                  PROVE  LET shown == array[f][i].about
                         IN shown.status <=> SessionsOf(shown.user) # {}
      BY DEF Truthful
    <3>1. Status("RPL_OK").code \notin Shows
      BY DEF Status, Shows
    <3>2. i \in DOMAIN packets /\ array[f][i] = packets[i]
      BY <2>3, <3>1, ArrayPackets
    <3>. HIDE DEF array
    <3>. QED
      BY <2>4, <3>2, ShownIsTrue DEF DirectoryInv
  <2>. QED
    BY <1>2, <2>5, ReadKeeps
<1>. QED
  BY <1>1, <1>2, AnswerKeeps DEF handleUsersCommand

LEMMA UserKeeps ==
  ASSUME DirectoryInv, NEW fd \in Fds, NEW target, handleUserCommand(fd, target)
  PROVE  DirectoryInv'
<1>1. ASSUME NEW code \in {"ERR_BAD_REQUEST", "ERR_UNAUTHORIZED"}, Answer(fd, code)
      PROVE  DirectoryInv'
  BY <1>1, AnswerKeeps DEF StatusCodes
<1>2. CASE Read(To({fd}, Event("ERR_NOT_FOUND", target)))
  <2>1. Truthful(To({fd}, Event("ERR_NOT_FOUND", target)))
    BY DEF Truthful, To, Event, Shows
  <2>. QED
    BY <1>2, <2>1, ReadKeeps
<1>3. CASE target \in known /\ Read(To({fd}, Event("RPL_USER_INFO", Shown(target))))
  <2>1. target \in Users
    BY <1>3 DEF DirectoryInv, SessionsSound, StateTyped
  <2>2. Truthful(To({fd}, Event("RPL_USER_INFO", Shown(target))))
    BY <2>1, ShownIsTrue DEF Truthful, To, Event, DirectoryInv
  <2>. QED
    BY <1>3, <2>2, ReadKeeps
<1>. QED
  BY <1>1, <1>2, <1>3 DEF handleUserCommand

\* What std::sort makes of a vector is a vector of the same length.
LEMMA SortedTyped ==
  ASSUME NEW entries \in Seq(Message), NEW shown \in sorted(entries)
  PROVE  shown \in Seq(Message)
<1>1. PICK p \in [DOMAIN entries -> DOMAIN entries] :
        shown = [i \in DOMAIN entries |-> entries[p[i]]]
  BY DEF sorted
<1>2. DOMAIN entries = 1 .. Len(entries) /\ Len(entries) \in Nat
  OBVIOUS
<1>. QED
  BY <1>1, <1>2

LEMMA MessagesKeep ==
  ASSUME DirectoryInv, NEW fd \in Fds, NEW target,
         handleMessagesCommand(fd, target)
  PROVE  DirectoryInv'
<1>. DEFINE entries == conversation(byFd[fd], target)
            packets(shown) == Each(shown, LAMBDA m : Event("RPL_MESSAGES_LIST", m))
<1>1. messagesStatus(fd, target) \in StatusCodes
  BY DEF messagesStatus, StatusCodes
<1>2. ASSUME NEW shown \in sorted(entries),
             Read(queuePayloadArray(fd, packets(shown)))
      PROVE  DirectoryInv'
  <2>1. entries \in Seq(Message)
    <3>1. messages \in Seq(Message)
      BY DEF DirectoryInv, SessionsSound, StateTyped
    <3>. QED
      BY <3>1, AmongFilters DEF Filters, conversation
  <2>. HIDE DEF entries
  <2>2. shown \in Seq(Message)
    BY <2>1, SortedTyped
  <2>. DEFINE list == packets(shown)
  <2>3. list = [i \in DOMAIN shown |-> Event("RPL_MESSAGES_LIST", shown[i])]
    BY DEF Each
  <2>4. Read(queuePayloadArray(fd, list))
    BY <1>2
  <2>. HIDE DEF list
  <2>5. list \in Seq({Event("RPL_MESSAGES_LIST", m) : m \in Message})
    BY <2>2, <2>3
  <2>6. \A i \in DOMAIN list : list[i].code \notin Shows
    BY <2>3 DEF Event, Shows
  <2>7. Truthful(queuePayloadArray(fd, list))
    <3>1. Status("RPL_OK").code \notin Shows
      BY DEF Status, Shows
    <3>. QED
      BY <2>5, <2>6, <3>1, ArrayPackets DEF Truthful
  <2>. QED
    BY <2>4, <2>7, ReadKeeps
<1>. QED
  BY <1>1, <1>2, AnswerKeeps DEF handleMessagesCommand

LEMMA DirectoryStep == DirectoryInv /\ [DirectoryNext]_vars => DirectoryInv'
<1>. SUFFICES ASSUME DirectoryInv, [DirectoryNext]_vars PROVE DirectoryInv'
  OBVIOUS
<1>1. CASE UNCHANGED vars
  <2>1. SessionsSound'
    BY <1>1, SessionsStutter DEF vars, DirectoryInv
  <2>. QED
    BY <1>1, <2>1 DEF vars, sessionVars, DirectoryInv, AccountsFinite,
                      StatusShownIsTrue, SessionsOf
<1>2. CASE Next
  <2>1. Inv' /\ AccountsFinite'
    BY <1>2, SessionsStep, AccountsStayFinite DEF DirectoryInv
  <2>2. \A p \in Packet : p.code \notin Shows
    BY DEF Packet, StatusCodes, EventCodes, Shows
  <2>3. StatusShownIsTrue'
    BY <2>1, <2>2 DEF Inv, QueuedTyped, StatusShownIsTrue, Shows
  <2>. QED
    BY <2>1, <2>3 DEF Inv, DirectoryInv
<1>3. ASSUME NEW fd \in Fds, DirectoryCommand(fd)
      PROVE  DirectoryInv'
  BY <1>3, UsersKeeps, UserKeeps, MessagesKeep DEF DirectoryCommand
<1>. QED
  BY <1>1, <1>2, <1>3 DEF DirectoryNext

\* A user is shown as online exactly while some connection is signed in as that
\* user, in every list and every look-up.
THEOREM StatusAlwaysTrue == DirectorySpec => []StatusShownIsTrue
<1>1. Init => DirectoryInv
  BY InitInv, FS_EmptySet
     DEF Init, Inv, DirectoryInv, AccountsFinite, StatusShownIsTrue, Silence
<1>. QED
  BY <1>1, DirectoryStep, PTL DEF DirectorySpec, DirectoryInv

-----------------------------------------------------------------------------
(* Conversations *)

\* The places where a vector holds an entry, and those among its first n.
Places(entries, e) == {i \in DOMAIN entries : entries[i] = e}
FirstPlaces(entries, e, n) == {i \in 1 .. n : entries[i] = e}

LEMMA PlacesFinite ==
  ASSUME NEW T, NEW s \in Seq(T), NEW e
  PROVE  IsFiniteSet(Places(s, e)) /\ Cardinality(Places(s, e)) \in Nat
<1>1. Len(s) \in Nat /\ Places(s, e) \subseteq 1 .. Len(s)
  BY DEF Places
<1>2. IsFiniteSet(1 .. Len(s))
  BY <1>1, FS_Interval
<1>3. IsFiniteSet(Places(s, e))
  BY <1>1, <1>2, FS_Subset
<1>. QED
  BY <1>3, FS_CardinalityType

LEMMA PlacesAppend ==
  ASSUME NEW T, NEW s \in Seq(T), NEW x \in T, NEW e
  PROVE  Cardinality(Places(Append(s, x), e)) =
           IF x = e THEN Cardinality(Places(s, e)) + 1 ELSE Cardinality(Places(s, e))
<1>1. /\ Len(s) \in Nat /\ DOMAIN s = 1 .. Len(s)
      /\ DOMAIN Append(s, x) = 1 .. Len(s) + 1
      /\ \A i \in DOMAIN s : Append(s, x)[i] = s[i]
      /\ Append(s, x)[Len(s) + 1] = x
  OBVIOUS
<1>2. Places(Append(s, x), e) =
        IF x = e THEN Places(s, e) \union {Len(s) + 1} ELSE Places(s, e)
  BY <1>1 DEF Places
<1>3. Len(s) + 1 \notin Places(s, e)
  BY <1>1 DEF Places
<1>. QED
  BY <1>2, <1>3, PlacesFinite, FS_AddElement

LEMMA FirstPlacesStep ==
  ASSUME NEW T, NEW s \in Seq(T), NEW e, NEW n \in Nat, n + 1 <= Len(s)
  PROVE  /\ Cardinality(FirstPlaces(s, e, n)) \in Nat
         /\ Cardinality(FirstPlaces(s, e, n + 1)) =
              IF s[n + 1] = e THEN Cardinality(FirstPlaces(s, e, n)) + 1
                              ELSE Cardinality(FirstPlaces(s, e, n))
<1>1. FirstPlaces(s, e, n + 1) =
        IF s[n + 1] = e THEN FirstPlaces(s, e, n) \union {n + 1}
                        ELSE FirstPlaces(s, e, n)
  BY DEF FirstPlaces
<1>2. n + 1 \notin FirstPlaces(s, e, n) /\ FirstPlaces(s, e, n) \subseteq 1 .. n
  BY DEF FirstPlaces
<1>3. IsFiniteSet(FirstPlaces(s, e, n))
  <2>1. IsFiniteSet(1 .. n)
    BY FS_Interval
  <2>. QED
    BY <1>2, <2>1, FS_Subset
<1>. QED
  BY <1>1, <1>2, <1>3, FS_AddElement, FS_CardinalityType

\* Among keeps every entry of the set as often as the vector holds it.
LEMMA AmongCounts ==
  ASSUME NEW T, NEW entries \in Seq(T), NEW S, NEW e
  PROVE  Cardinality(Places(Among(entries, S), e)) =
           IF e \in S THEN Cardinality(Places(entries, e)) ELSE 0
<1>. DEFINE N == Len(entries)
            Counts(k, n) == /\ k \in Seq(T)
                            /\ Cardinality(Places(k, e)) =
                                 IF e \in S THEN Cardinality(FirstPlaces(entries, e, n))
                                            ELSE 0
<1>1. N \in Nat
  OBVIOUS
<1>2. PICK kept : /\ Among(entries, S) = kept[N]
                  /\ kept[0] = <<>>
                  /\ Steps(kept, entries, S)
  BY AmongSteps, Zenon
<1>. USE DEF Steps
<1>. DEFINE Good == {n \in Nat : n <= N => Counts(kept[n], n)}
<1>3. 0 \in Good
  <2>1. Places(<<>>, e) = {} /\ FirstPlaces(entries, e, 0) = {}
    BY DEF Places, FirstPlaces
  <2>2. <<>> \in Seq(T) /\ Cardinality({}) = 0
    BY FS_EmptySet
  <2>3. Counts(<<>>, 0)
    <3>1. Cardinality(Places(<<>>, e)) = 0
      BY <2>1, <2>2
    <3>2. Cardinality(FirstPlaces(entries, e, 0)) = 0
      BY <2>1, <2>2
    <3>. QED
      BY <2>2, <3>1, <3>2
  <2>4. Counts(kept[0], 0)
    BY <1>2, <2>3
  <2>. QED
    BY <2>4
<1>4. ASSUME NEW n \in Nat, n \in Good
      PROVE  n + 1 \in Good
  <2>. SUFFICES ASSUME n + 1 <= N
                PROVE  Counts(kept[n + 1], n + 1)
    OBVIOUS
  <2>1. Counts(kept[n], n)
    BY <1>1, <1>4
  <2>2. entries[n + 1] \in T
    BY <1>1
  <2>3. /\ Cardinality(FirstPlaces(entries, e, n)) \in Nat
        /\ Cardinality(FirstPlaces(entries, e, n + 1)) =
             IF entries[n + 1] = e THEN Cardinality(FirstPlaces(entries, e, n)) + 1
                                   ELSE Cardinality(FirstPlaces(entries, e, n))
    BY FirstPlacesStep
  <2>4. CASE entries[n + 1] \notin S
    BY <1>2, <2>1, <2>3, <2>4
  <2>5. CASE entries[n + 1] \in S
    <3>1. kept[n + 1] = Append(kept[n], entries[n + 1])
      BY <1>2, <2>5
    <3>2. Cardinality(Places(kept[n + 1], e)) =
            IF entries[n + 1] = e THEN Cardinality(Places(kept[n], e)) + 1
                                  ELSE Cardinality(Places(kept[n], e))
      BY <2>1, <2>2, <3>1, PlacesAppend
    <3>3. kept[n + 1] \in Seq(T)
      BY <2>1, <2>2, <3>1
    <3>. QED
      BY <2>1, <2>3, <2>5, <3>2, <3>3
  <2>. QED
    BY <2>4, <2>5
<1>. HIDE DEF Good
<1>5. N \in Good
  BY <1>1, <1>3, <1>4, Induction
<1>6. FirstPlaces(entries, e, N) = Places(entries, e)
  BY DEF FirstPlaces, Places
<1>. QED
  BY <1>1, <1>2, <1>5, <1>6 DEF Good

\* Sorting changes the places of the entries only, and puts them in order.
LEMMA SortedPermutes ==
  ASSUME NEW entries \in Seq(Message), NEW shown \in sorted(entries), NEW e
  PROVE  /\ Cardinality(Places(shown, e)) = Cardinality(Places(entries, e))
         /\ \A i, j \in DOMAIN shown : i < j => shown[i].createdAt <= shown[j].createdAt
<1>. DEFINE D == DOMAIN entries
            A == Places(shown, e)
            B == Places(entries, e)
<1>1. PICK p \in [D -> D] :
        /\ shown = [i \in D |-> entries[p[i]]]
        /\ \A i, j \in D : p[i] = p[j] => i = j
        /\ \A i, j \in D : i < j => entries[p[i]].createdAt <= entries[p[j]].createdAt
  BY DEF sorted, IsInjective
<1>2. IsFiniteSet(D)
  <2>1. D = 1 .. Len(entries) /\ Len(entries) \in Nat
    OBVIOUS
  <2>. QED
    BY <2>1, FS_Interval
<1>3. p \in Injection(D, D)
  BY <1>1, Fun_IsInj
<1>4. p \in Surjection(D, D)
  BY <1>2, <1>3, FS_Injection
<1>5. \A b \in D : \E a \in D : p[a] = b
  BY <1>4, Fun_SurjectionProperties
<1>6. A = {i \in D : entries[p[i]] = e} /\ B = {i \in D : entries[i] = e}
  BY <1>1 DEF Places
<1>. DEFINE q == [i \in A |-> p[i]]
<1>7. q \in [A -> B] /\ \A i, j \in A : q[i] = q[j] => i = j
  BY <1>1, <1>6
<1>8. \A b \in B : \E a \in A : q[a] = b
  BY <1>5, <1>6
<1>. HIDE DEF q, A, B
<1>9. q \in Bijection(A, B)
  BY <1>7, <1>8, Fun_IsBij
<1>10. IsFiniteSet(A)
  BY <1>2, <1>6, FS_Subset
<1>11. ExistsBijection(A, B)
  BY <1>9, Fun_ExistsBij
<1>12. Cardinality(A) = Cardinality(B)
  BY <1>10, <1>11, FS_Bijection
<1>. QED
  BY <1>1, <1>12 DEF A, B

\* No packet of a family shows a message of a conversation.
NoConversation(packets) ==
  \A f \in Fds : \A i \in DOMAIN packets[f] : packets[f][i].code # "RPL_MESSAGES_LIST"

LEMMA NothingShown ==
  ASSUME NoConversation(queued)'
  PROVE  ConversationShown'
BY DEF NoConversation, ConversationShown, WholeConversation

LEMMA OtherPackets ==
  ASSUME NEW packets, NoConversation(packets), Queue(packets)
  PROVE  ConversationShown'
<1>1. NoConversation(queued')
  BY DEF NoConversation, Queue
<1>. QED
  BY <1>1, NothingShown

LEMMA OnePacketShowsNothing ==
  ASSUME NEW S, NEW p, p.code # "RPL_MESSAGES_LIST"
  PROVE  NoConversation(To(S, p))
BY DEF NoConversation, To

LEMMA AnswerShowsNothing ==
  ASSUME NEW fd, NEW code \in StatusCodes, Answer(fd, code)
  PROVE  ConversationShown'
<1>1. Status(code).code # "RPL_MESSAGES_LIST"
  BY DEF Status, StatusCodes
<1>. QED
  BY <1>1, OnePacketShowsNothing, OtherPackets DEF Answer

LEMMA UsersShowNothing ==
  ASSUME SessionsSound, AccountsFinite, NEW fd \in Fds, NEW payload,
         handleUsersCommand(fd, payload)
  PROVE  ConversationShown'
<1>. DEFINE users == SetToSeq(known)
            packets == Each(users, LAMBDA u : Event("RPL_USERS_LIST", Shown(u)))
<1>1. usersStatus(fd, payload) \in StatusCodes
  BY DEF usersStatus, StatusCodes
<1>2. CASE Read(queuePayloadArray(fd, packets))
  <2>1. users \in Seq(known)
    BY SetToSeqTyped DEF AccountsFinite
  <2>. HIDE DEF users
  <2>2. packets = [i \in DOMAIN users |-> Event("RPL_USERS_LIST", Shown(users[i]))]
    BY DEF Each
  <2>. HIDE DEF packets
  <2>3. packets \in Seq({Event("RPL_USERS_LIST", Shown(u)) : u \in known})
    BY <2>1, <2>2
  <2>4. \A i \in DOMAIN packets : packets[i].code # "RPL_MESSAGES_LIST"
    BY <2>2 DEF Event
  <2>5. Status("RPL_OK").code # "RPL_MESSAGES_LIST"
    BY DEF Status
  <2>6. NoConversation(queuePayloadArray(fd, packets))
    BY <2>3, <2>4, <2>5, ArrayPackets DEF NoConversation
  <2>. QED
    BY <1>2, <2>6, OtherPackets DEF Read
<1>. QED
  BY <1>1, <1>2, AnswerShowsNothing DEF handleUsersCommand

LEMMA UserShowsNothing ==
  ASSUME NEW fd \in Fds, NEW target, handleUserCommand(fd, target)
  PROVE  ConversationShown'
<1>1. ASSUME NEW code \in {"ERR_BAD_REQUEST", "ERR_UNAUTHORIZED"}, Answer(fd, code)
      PROVE  ConversationShown'
  BY <1>1, AnswerShowsNothing DEF StatusCodes
<1>2. ASSUME NEW code \in {"ERR_NOT_FOUND", "RPL_USER_INFO"}, NEW about,
             Read(To({fd}, Event(code, about)))
      PROVE  ConversationShown'
  <2>1. Event(code, about).code # "RPL_MESSAGES_LIST"
    BY <1>2 DEF Event
  <2>. QED
    BY <1>2, <2>1, OnePacketShowsNothing, OtherPackets DEF Read
<1>. QED
  BY <1>1, <1>2 DEF handleUserCommand

\* The messages of two users, in the words of the handler and of the property.
LEMMA BothSides ==
  ASSUME NEW u, NEW v, NEW m
  PROVE  {m.author, m.receiver} = {u, v} <=> \/ m.author = v /\ m.receiver = u
                                             \/ m.author = u /\ m.receiver = v
OBVIOUS

LEMMA MessagesShown ==
  ASSUME SessionsSound, NEW fd \in Fds, NEW target,
         messagesStatus(fd, target) = "RPL_OK", fd \in conns,
         NEW shown \in sorted(conversation(byFd[fd], target)),
         Read(queuePayloadArray(fd, Each(shown, LAMBDA m : Event("RPL_MESSAGES_LIST", m))))
  PROVE  ConversationShown'
<1>. DEFINE u == byFd[fd]
            entries == conversation(u, target)
            list == Each(shown, LAMBDA m : Event("RPL_MESSAGES_LIST", m))
            ofBoth == {m \in Message : \/ m.author = target /\ m.receiver = u
                                       \/ m.author = u /\ m.receiver = target}
<1>1. /\ messages \in Seq(Message) /\ target \in Users
      /\ messages' = messages /\ byFd' = byFd
  BY DEF SessionsSound, StateTyped, messagesStatus, Read, sessionVars
<1>2. entries = Among(messages, ofBoth)
  BY DEF conversation
<1>3. entries \in Seq(Message)
  BY <1>1, <1>2, AmongFilters DEF Filters
<1>4. \A m : Cardinality(Places(entries, m)) =
               IF m \in ofBoth THEN Cardinality(Places(messages, m)) ELSE 0
  BY <1>1, <1>2, AmongCounts
<1>. HIDE DEF entries
<1>5. shown \in Seq(Message)
  BY <1>3, SortedTyped DEF entries
<1>6. /\ \A m : Cardinality(Places(shown, m)) = Cardinality(Places(entries, m))
      /\ \A i, j \in DOMAIN shown : i < j => shown[i].createdAt <= shown[j].createdAt
  BY <1>3, SortedPermutes DEF entries
<1>7. list = [i \in DOMAIN shown |-> Event("RPL_MESSAGES_LIST", shown[i])]
  BY DEF Each
<1>8. /\ queued'[fd] = Append(list, Status("RPL_OK"))
      /\ \A f \in Fds \ {fd} : queued'[f] = <<>>
  BY DEF Read, Queue, queuePayloadArray
<1>. HIDE DEF list
<1>9. list \in Seq({Event("RPL_MESSAGES_LIST", m) : m \in Message})
  BY <1>5, <1>7
<1>10. /\ DOMAIN list = DOMAIN shown
       /\ \A i \in DOMAIN list : /\ list[i].code = "RPL_MESSAGES_LIST"
                                 /\ list[i].about = shown[i]
  BY <1>7 DEF Event
<1>11. /\ DOMAIN queued'[fd] = DOMAIN list \union {Len(list) + 1}
       /\ \A i \in DOMAIN list : queued'[fd][i] = list[i]
       /\ queued'[fd][Len(list) + 1] = Status("RPL_OK")
  <2>1. \A T, s, e : s \in Seq(T) =>
          /\ DOMAIN Append(s, e) = DOMAIN s \union {Len(s) + 1}
          /\ \A i \in DOMAIN s : Append(s, e)[i] = s[i]
          /\ Append(s, e)[Len(s) + 1] = e
    OBVIOUS
  <2>. QED
    BY <1>8, <1>9, <2>1
<1>12. Status("RPL_OK").code = "RPL_OK"
  BY DEF Status
<1>. DEFINE places == {i \in DOMAIN queued'[fd] : queued'[fd][i].code = "RPL_MESSAGES_LIST"}
<1>13. /\ places = DOMAIN shown
       /\ \A i \in places : queued'[fd][i].about = shown[i]
  BY <1>10, <1>11, <1>12
<1>. HIDE DEF places, ofBoth
<1>14. \A m : {i \in places : queued'[fd][i].about = m} = Places(shown, m)
  BY <1>13 DEF Places
<1>15. ASSUME NEW m \in ToSet(messages) \union {queued'[fd][i].about : i \in places}
       PROVE  Cardinality({i \in places : queued'[fd][i].about = m}) =
                IF {m.author, m.receiver} = {u, target}
                  THEN Cardinality({i \in DOMAIN messages : messages[i] = m}) ELSE 0
  <2>1. m \in Message
    BY <1>1, <1>5, <1>13, <1>15 DEF ToSet
  <2>2. m \in ofBoth <=> {m.author, m.receiver} = {u, target}
    BY <2>1, BothSides DEF ofBoth
  <2>3. Cardinality(Places(shown, m)) =
          IF m \in ofBoth THEN Cardinality(Places(messages, m)) ELSE 0
    BY <1>4, <1>6
  <2>. QED
    BY <1>14, <2>2, <2>3 DEF Places
<1>16. \A i, j \in places :
         i < j => queued'[fd][i].about.createdAt <= queued'[fd][j].about.createdAt
  BY <1>6, <1>13
<1>17. ASSUME NEW f \in Fds \ {fd}
       PROVE  {i \in DOMAIN queued'[f] : queued'[f][i].code = "RPL_MESSAGES_LIST"} = {}
  BY <1>8
<1>18. WholeConversation(queued'[fd], u, messages)
  <2>. HIDE DEF u
  <2>. QED
    BY <1>1, <1>15, <1>16 DEF WholeConversation, places
<1>19. ASSUME NEW f \in Fds \ {fd}
       PROVE  WholeConversation(queued'[f], byFd'[f], messages')
  BY <1>17 DEF WholeConversation
<1>. QED
  BY <1>1, <1>18, <1>19 DEF ConversationShown

\* Every list of messages that is shown is one whole conversation, in the order
\* of the clock, whatever was sent in the same second.
THEOREM ConversationsWhole == DirectorySpec => []ConversationShown
<1>1. Init => DirectoryInv /\ ConversationShown
  BY InitInv, FS_EmptySet
     DEF Init, Inv, DirectoryInv, AccountsFinite, StatusShownIsTrue,
         ConversationShown, WholeConversation, Silence
<1>2. ASSUME DirectoryInv, ConversationShown, [DirectoryNext]_vars
      PROVE  ConversationShown'
  <2>1. SessionsSound /\ AccountsFinite
    BY <1>2 DEF DirectoryInv
  <2>2. CASE UNCHANGED vars
    BY <1>2, <2>2 DEF vars, sessionVars, ConversationShown
  <2>3. CASE Next
    <3>1. queued' \in [Fds -> Seq(Packet)]
      BY <2>1, <2>3, SessionsStep DEF Inv, QueuedTyped
    <3>2. \A p \in Packet : p.code # "RPL_MESSAGES_LIST"
      BY DEF Packet, StatusCodes, EventCodes
    <3>3. NoConversation(queued')
      BY <3>1, <3>2 DEF NoConversation
    <3>. QED
      BY <3>3, NothingShown
  <2>4. ASSUME NEW fd \in Fds, NEW target, handleMessagesCommand(fd, target)
        PROVE  ConversationShown'
    <3>1. messagesStatus(fd, target) \in StatusCodes
      BY DEF messagesStatus, StatusCodes
    <3>. QED
      BY <2>1, <2>4, <3>1, AnswerShowsNothing, MessagesShown DEF handleMessagesCommand
  <2>5. ASSUME NEW fd \in Fds, DirectoryCommand(fd)
        PROVE  ConversationShown'
    BY <2>1, <2>4, <2>5, UsersShowNothing, UserShowsNothing DEF DirectoryCommand
  <2>. QED
    BY <1>2, <2>2, <2>3, <2>5 DEF DirectoryNext
<1>. QED
  BY <1>1, <1>2, DirectoryStep, PTL DEF DirectorySpec
=============================================================================
