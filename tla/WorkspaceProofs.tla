-------------------------- MODULE WorkspaceProofs --------------------------
(***************************************************************************)
(* Proofs about Workspace, for every set of users, descriptors, uuids and  *)
(* names and any number of replies.                                        *)
(*                                                                         *)
(* The inductive invariant is WorkspaceInv: the sessions are sound, and so *)
(* are the workspace in memory next to the accounts in memory, and each    *)
(* file by itself next to the accounts in the files, whatever mixture of   *)
(* old, new and cut files the last save left.  Uuids are only drawn among  *)
(* unused ones, and a team's first subscriber is its only one, because     *)
(* nothing is kept under a uuid that no entry has; and a context leads to  *)
(* one team because no uuid is in two.                                     *)
(***************************************************************************)
EXTENDS Workspace, DirectoryProofs

-----------------------------------------------------------------------------
(* Entries *)

\* What appending an entry to a vector does to the look-ups.
LEMMA HasAppend ==
  ASSUME NEW T, NEW s \in Seq(T), NEW e \in T, NEW x
  PROVE  /\ Has(Append(s, e), x) <=> Has(s, x) \/ x = e.id
         /\ Append(s, e) # <<>>
         /\ Append(s, e) \in Seq(T)
<1>1. DOMAIN Append(s, e) = DOMAIN s \union {Len(s) + 1}
  OBVIOUS
<1>2. \A i \in DOMAIN s : Append(s, e)[i] = s[i]
  OBVIOUS
<1>3. Append(s, e)[Len(s) + 1] = e
  OBVIOUS
<1>4. Append(s, e) \in Seq(T)
  OBVIOUS
<1>5. Len(Append(s, e)) = Len(s) + 1 /\ Len(s) \in Nat /\ Len(<<>>) = 0
  OBVIOUS
<1>6. Append(s, e) # <<>>
  BY <1>5
<1>. QED
  BY <1>1, <1>2, <1>3, <1>4, <1>6, Zenon DEF Has

LEMMA DistinctAppend ==
  ASSUME NEW T, NEW s \in Seq(T), NEW e \in T,
         Distinct(s), ~Has(s, e.id), ~Named(s, e.name)
  PROVE  Distinct(Append(s, e))
<1>1. DOMAIN Append(s, e) = DOMAIN s \union {Len(s) + 1}
  OBVIOUS
<1>2. \A i \in DOMAIN s :
        Append(s, e)[i] = s[i] /\ s[i].id # e.id /\ s[i].name # e.name
  BY DEF Has, Named
<1>3. Append(s, e)[Len(s) + 1] = e
  OBVIOUS
<1>. QED
  BY <1>1, <1>2, <1>3 DEF Distinct

LEMMA DisjointAppend ==
  ASSUME NEW T, NEW O, NEW v \in [O -> Seq(T)], NEW o \in O, NEW e \in T,
         Disjoint(v), \A p \in O : ~Has(v[p], e.id)
  PROVE  Disjoint([v EXCEPT ![o] = Append(@, e)])
<1>. DEFINE w == [v EXCEPT ![o] = Append(@, e)]
<1>1. /\ DOMAIN w = O /\ DOMAIN v = O
      /\ w[o] = Append(v[o], e)
      /\ \A p \in O \ {o} : w[p] = v[p]
  OBVIOUS
<1>2. /\ DOMAIN w[o] = DOMAIN v[o] \union {Len(v[o]) + 1}
      /\ w[o][Len(v[o]) + 1] = e
      /\ \A i \in DOMAIN v[o] : w[o][i] = v[o][i]
  BY <1>1
<1>3. \A x : Has(w[o], x) <=> Has(v[o], x) \/ x = e.id
  BY <1>1, HasAppend
<1>. HIDE DEF w
<1>4. ASSUME NEW p \in O \ {o}, NEW i \in DOMAIN w[p]
      PROVE  ~Has(w[o], w[p][i].id)
  <2>1. ~Has(v[o], v[p][i].id)
    BY <1>1, <1>4 DEF Disjoint
  <2>2. v[p][i].id # e.id
    BY <1>1, <1>4 DEF Has
  <2>. QED
    BY <1>1, <1>3, <2>1, <2>2
<1>5. ASSUME NEW p \in O \ {o}, NEW i \in DOMAIN w[o]
      PROVE  ~Has(w[p], w[o][i].id)
  BY <1>1, <1>2, <1>5 DEF Disjoint
<1>6. ASSUME NEW p \in O \ {o}, NEW q \in O \ {o}, p # q, NEW i \in DOMAIN w[p]
      PROVE  ~Has(w[q], w[p][i].id)
  BY <1>1, <1>6 DEF Disjoint
<1>7. Disjoint(w)
  BY <1>1, <1>4, <1>5, <1>6 DEF Disjoint
<1>. QED
  BY <1>7 DEF w

-----------------------------------------------------------------------------
(* The workspace *)

TeamEntries == [id : Teams, name : Names]
ChannelEntries == [id : Channels, name : Names]
ThreadEntries == [id : Threads, name : Names, author : Users]

Typed(w) ==
  /\ w.teams \in Seq(TeamEntries)
  /\ w.subscribers \in [Teams -> Seq(Users)]
  /\ w.channels \in [Teams -> Seq(ChannelEntries)]
  /\ w.threads \in [Channels -> Seq(ThreadEntries)]
  /\ w.replies \in [Threads -> Seq(Users)]

\* What a workspace is, in memory or in the files, next to its accounts.
Sound(w, accounts) ==
  /\ Typed(w)
  /\ \A t \in Teams : IsInjective(w.subscribers[t])
  /\ DistinctIn(w)
  /\ Resolves(w, accounts)

LEMMA EmptySound == \A A : Sound(NoWorkspace, A)
<1>1. /\ NoWorkspace.teams = <<>>
      /\ \A t \in Teams : /\ NoWorkspace.subscribers[t] = <<>>
                          /\ NoWorkspace.channels[t] = <<>>
      /\ \A ch \in Channels : NoWorkspace.threads[ch] = <<>>
      /\ \A th \in Threads : NoWorkspace.replies[th] = <<>>
      /\ DOMAIN NoWorkspace.channels = Teams
      /\ DOMAIN NoWorkspace.threads = Channels
  BY DEF NoWorkspace, Empty
<1>2. Typed(NoWorkspace)
  BY DEF Typed, NoWorkspace, Empty
<1>3. DistinctIn(NoWorkspace)
  BY <1>1 DEF DistinctIn, Distinct, Disjoint
<1>4. \A A : Resolves(NoWorkspace, A)
  BY <1>1 DEF Resolves, ToSet
<1>5. \A t \in Teams : IsInjective(NoWorkspace.subscribers[t])
  BY <1>1 DEF IsInjective
<1>. QED
  BY <1>2, <1>3, <1>4, <1>5 DEF Sound

\* Accounts are only ever added while a workspace stays as it is.
LEMMA MoreAccounts ==
  ASSUME NEW w, NEW A, NEW B, Sound(w, A), A \subseteq B
  PROVE  Sound(w, B)
BY DEF Sound, Resolves

\* Only the five vectors count.
LEMMA SameSound ==
  ASSUME NEW w, NEW A, Sound(w, A)
  PROVE  Sound([teams |-> w.teams, subscribers |-> w.subscribers,
                channels |-> w.channels, threads |-> w.threads,
                replies |-> w.replies], A)
BY DEF Sound, Typed, DistinctIn, Resolves

\* A vector of subscribers is replaced by one without repetitions of accounts.
LEMMA SubscribersSound ==
  ASSUME NEW w, NEW v, NEW A, A \subseteq Users, Sound(w, A),
         NEW t \in Teams, Has(w.teams, t), NEW s \in Seq(Users),
         IsInjective(s), ToSet(s) \subseteq A,
         v.subscribers = [w.subscribers EXCEPT ![t] = s],
         v.teams = w.teams, v.channels = w.channels,
         v.threads = w.threads, v.replies = w.replies
  PROVE  Sound(v, A)
<1>1. /\ v.subscribers[t] = s
      /\ \A o \in Teams \ {t} : v.subscribers[o] = w.subscribers[o]
  BY DEF Sound, Typed
<1>2. Typed(v)
  BY DEF Sound, Typed
<1>3. \A o \in Teams : IsInjective(v.subscribers[o])
  BY <1>1 DEF Sound
<1>4. DistinctIn(v)
  BY DEF Sound, DistinctIn
<1>5. Resolves(v, A)
  BY <1>1 DEF Sound, Resolves
<1>. QED
  BY <1>2, <1>3, <1>4, <1>5 DEF Sound

LEMMA CreateTeamSound ==
  ASSUME NEW w, NEW v, NEW A, A \subseteq Users, Sound(w, A),
         NEW id \in Teams, NEW name \in Names, NEW u \in A,
         ~Has(w.teams, id), ~Named(w.teams, name),
         v.teams = Append(w.teams, Entry(id, name)),
         v.subscribers = [w.subscribers EXCEPT ![id] = Append(@, u)],
         v.channels = w.channels, v.threads = w.threads, v.replies = w.replies
  PROVE  Sound(v, A)
<1>. DEFINE e == Entry(id, name)
<1>1. e \in TeamEntries /\ e.id = id /\ e.name = name
  BY DEF Entry, TeamEntries
<1>2. w.teams \in Seq(TeamEntries) /\ w.subscribers[id] = <<>>
  BY DEF Sound, Typed, Resolves
<1>3. /\ v.subscribers[id] = <<u>>
      /\ \A t \in Teams \ {id} : v.subscribers[t] = w.subscribers[t]
  BY <1>2 DEF Sound, Typed
<1>. HIDE DEF e
<1>4. v.teams = Append(w.teams, e)
  BY DEF e
<1>5. /\ \A t : Has(v.teams, t) <=> Has(w.teams, t) \/ t = id
      /\ v.teams \in Seq(TeamEntries)
  BY <1>1, <1>2, <1>4, HasAppend
<1>6. Typed(v)
  BY <1>5 DEF Sound, Typed
<1>7. \A t \in Teams : IsInjective(v.subscribers[t])
  BY <1>3 DEF Sound, IsInjective
<1>8. Distinct(v.teams)
  BY <1>1, <1>2, <1>4, DistinctAppend DEF Sound, DistinctIn
<1>9. DistinctIn(v)
  BY <1>8 DEF Sound, DistinctIn
<1>10. ToSet(v.subscribers[id]) = {u}
  BY <1>3 DEF ToSet
<1>11. Resolves(v, A)
  BY <1>3, <1>5, <1>10 DEF Sound, Resolves
<1>. QED
  BY <1>6, <1>7, <1>9, <1>11 DEF Sound

LEMMA CreateChannelSound ==
  ASSUME NEW w, NEW v, NEW A, Sound(w, A),
         NEW t \in Teams, NEW id \in Channels, NEW name \in Names,
         Has(w.teams, t), ~Named(w.channels[t], name),
         \A o \in Teams : ~Has(w.channels[o], id),
         v.channels = [w.channels EXCEPT ![t] = Append(@, Entry(id, name))],
         v.teams = w.teams, v.subscribers = w.subscribers,
         v.threads = w.threads, v.replies = w.replies
  PROVE  Sound(v, A)
<1>. DEFINE e == Entry(id, name)
<1>1. e \in ChannelEntries /\ e.id = id /\ e.name = name
  BY DEF Entry, ChannelEntries
<1>. HIDE DEF e
<1>2. /\ w.channels \in [Teams -> Seq(ChannelEntries)]
      /\ v.channels = [w.channels EXCEPT ![t] = Append(@, e)]
  BY DEF Sound, Typed, e
<1>3. /\ v.channels[t] = Append(w.channels[t], e)
      /\ \A o \in Teams \ {t} : v.channels[o] = w.channels[o]
  BY <1>2
<1>4. /\ \A x : Has(v.channels[t], x) <=> Has(w.channels[t], x) \/ x = id
      /\ v.channels[t] \in Seq(ChannelEntries)
  BY <1>1, <1>2, <1>3, HasAppend
<1>5. v.channels \in [Teams -> Seq(ChannelEntries)]
  BY <1>2, <1>3, <1>4
<1>6. Typed(v)
  BY <1>5 DEF Sound, Typed
<1>7. Distinct(v.channels[t])
  BY <1>1, <1>2, <1>3, DistinctAppend DEF Sound, DistinctIn
<1>8. Disjoint(v.channels)
  <2>1. Disjoint(w.channels) /\ \A o \in Teams : ~Has(w.channels[o], e.id)
    BY <1>1 DEF Sound, DistinctIn
  <2>2. Disjoint([w.channels EXCEPT ![t] = Append(@, e)])
    BY <1>1, <1>2, <2>1, DisjointAppend, Zenon
  <2>. QED
    BY <1>2, <2>2
<1>9. DistinctIn(v)
  BY <1>3, <1>7, <1>8 DEF Sound, DistinctIn
<1>10. \A o \in Teams : \A x : Has(w.channels[o], x) => Has(v.channels[o], x)
  BY <1>3, <1>4
<1>11. Resolves(v, A)
  BY <1>3, <1>10 DEF Sound, Resolves
<1>. QED
  BY <1>6, <1>9, <1>11 DEF Sound

LEMMA CreateThreadSound ==
  ASSUME NEW w, NEW v, NEW A, Sound(w, A),
         NEW ch \in Channels, NEW e \in ThreadEntries, e.author \in A,
         \E t \in Teams : Has(w.channels[t], ch),
         ~Named(w.threads[ch], e.name),
         \A o \in Channels : ~Has(w.threads[o], e.id),
         v.threads = [w.threads EXCEPT ![ch] = Append(@, e)],
         v.teams = w.teams, v.subscribers = w.subscribers,
         v.channels = w.channels, v.replies = w.replies
  PROVE  Sound(v, A)
<1>1. w.threads \in [Channels -> Seq(ThreadEntries)]
  BY DEF Sound, Typed
<1>2. /\ v.threads[ch] = Append(w.threads[ch], e)
      /\ \A o \in Channels \ {ch} : v.threads[o] = w.threads[o]
  BY <1>1
<1>3. /\ \A x : Has(v.threads[ch], x) <=> Has(w.threads[ch], x) \/ x = e.id
      /\ v.threads[ch] \in Seq(ThreadEntries)
  BY <1>1, <1>2, HasAppend
<1>4. v.threads \in [Channels -> Seq(ThreadEntries)]
  BY <1>1, <1>2, <1>3
<1>5. Typed(v)
  BY <1>4 DEF Sound, Typed
<1>6. Distinct(v.threads[ch])
  BY <1>1, <1>2, DistinctAppend DEF Sound, DistinctIn
<1>7. Disjoint(v.threads)
  <2>1. Disjoint(w.threads) /\ \A o \in Channels : ~Has(w.threads[o], e.id)
    BY DEF Sound, DistinctIn
  <2>2. Disjoint([w.threads EXCEPT ![ch] = Append(@, e)])
    BY <1>1, <2>1, DisjointAppend, Zenon
  <2>. QED
    BY <1>1, <2>2
<1>8. DistinctIn(v)
  BY <1>2, <1>6, <1>7 DEF Sound, DistinctIn
<1>9. \A o \in Channels : \A x : Has(w.threads[o], x) => Has(v.threads[o], x)
  BY <1>2, <1>3
<1>10. \A i \in DOMAIN v.threads[ch] : v.threads[ch][i].author \in A
  <2>1. \A i \in DOMAIN w.threads[ch] : w.threads[ch][i].author \in A
    BY DEF Sound, Resolves
  <2>. QED
    BY <1>1, <1>2, <2>1
<1>11. \A o \in Channels : /\ \A i \in DOMAIN v.threads[o] : v.threads[o][i].author \in A
                           /\ v.threads[o] # <<>> =>
                                \E p \in Teams : Has(v.channels[p], o)
  BY <1>2, <1>10 DEF Sound, Resolves
<1>12. \A th \in Threads : /\ ToSet(v.replies[th]) \subseteq A
                          /\ v.replies[th] # <<>> =>
                               \E o \in Channels : Has(v.threads[o], th)
  BY <1>9 DEF Sound, Resolves
<1>13. Resolves(v, A)
  BY <1>11, <1>12 DEF Sound, Resolves
<1>. QED
  BY <1>5, <1>8, <1>13 DEF Sound

LEMMA CreateReplySound ==
  ASSUME NEW w, NEW v, NEW A, A \subseteq Users, Sound(w, A),
         NEW th \in Threads, NEW u \in A, NEW ch \in Channels,
         Has(w.threads[ch], th),
         v.replies = [w.replies EXCEPT ![th] = Append(@, u)],
         v.teams = w.teams, v.subscribers = w.subscribers,
         v.channels = w.channels, v.threads = w.threads
  PROVE  Sound(v, A)
<1>1. w.replies \in [Threads -> Seq(Users)] /\ u \in Users
  BY DEF Sound, Typed
<1>2. /\ v.replies[th] = Append(w.replies[th], u)
      /\ \A o \in Threads \ {th} : v.replies[o] = w.replies[o]
  BY <1>1
<1>3. Typed(v)
  BY <1>1, <1>2 DEF Sound, Typed
<1>4. DistinctIn(v)
  BY DEF Sound, DistinctIn
<1>5. ToSet(v.replies[th]) = ToSet(w.replies[th]) \union {u}
  BY <1>1, <1>2, ToSetAppend
<1>6. Resolves(v, A)
  BY <1>2, <1>5 DEF Sound, Resolves
<1>. QED
  BY <1>3, <1>4, <1>6 DEF Sound

-----------------------------------------------------------------------------
(* The files.  Each is sound by itself: a save leaves an old one, a new one   *)
(* or the beginning of a new one, and of which generation the others are is   *)
(* of no concern to it.                                                       *)

TeamsFile(s) == s \in Seq(TeamEntries) /\ Distinct(s)
SubscribersFile(v, A) ==
  /\ v \in [Teams -> Seq(Users)]
  /\ \A t \in Teams : IsInjective(v[t]) /\ ToSet(v[t]) \subseteq A
ChannelsFile(v) ==
  /\ v \in [Teams -> Seq(ChannelEntries)]
  /\ \A t \in Teams : Distinct(v[t])
  /\ Disjoint(v)
ThreadsFile(v, A) ==
  /\ v \in [Channels -> Seq(ThreadEntries)]
  /\ \A ch \in Channels : Distinct(v[ch])
  /\ Disjoint(v)
  /\ \A ch \in Channels : \A i \in DOMAIN v[ch] : v[ch][i].author \in A
RepliesFile(v, A) ==
  /\ v \in [Threads -> Seq(Users)]
  /\ \A th \in Threads : ToSet(v[th]) \subseteq A

FilesSound(w, A) ==
  /\ TeamsFile(w.teams)
  /\ SubscribersFile(w.subscribers, A)
  /\ ChannelsFile(w.channels)
  /\ ThreadsFile(w.threads, A)
  /\ RepliesFile(w.replies, A)

LEMMA SoundFiles ==
  ASSUME NEW w, NEW A, Sound(w, A)
  PROVE  FilesSound(w, A)
BY DEF Sound, Typed, DistinctIn, Resolves, FilesSound, TeamsFile, SubscribersFile,
       ChannelsFile, ThreadsFile, RepliesFile

LEMMA MoreAccountsInFiles ==
  ASSUME NEW w, NEW A, NEW B, FilesSound(w, A), A \subseteq B
  PROVE  FilesSound(w, B)
BY DEF FilesSound, SubscribersFile, ThreadsFile, RepliesFile

\* What has no entry that the others do not have at the same place.
Within(r, s) == DOMAIN r \subseteq DOMAIN s /\ \A i \in DOMAIN r : r[i] = s[i]

LEMMA PrefixWithin ==
  ASSUME NEW T, NEW s \in Seq(T), NEW r \in Prefixes(s)
  PROVE  r \in Seq(T) /\ Within(r, s)
<1>1. PICK n \in 0 .. Len(s) : r = SubSeq(s, 1, n)
  BY DEF Prefixes
<1>2. /\ n \in Nat /\ Len(s) \in Nat /\ DOMAIN s = 1 .. Len(s)
      /\ \A i \in 1 .. Len(s) : s[i] \in T
  OBVIOUS
<1>3. r = [i \in 1 .. n |-> s[i]]
  BY <1>1, <1>2
<1>. QED
  BY <1>2, <1>3 DEF Within

LEMMA BeginningsWithin ==
  ASSUME NEW T, NEW O, NEW v \in [O -> Seq(T)], NEW r \in Beginnings(v)
  PROVE  r \in [O -> Seq(T)] /\ \A o \in O : Within(r[o], v[o])
<1>1. PICK whole \in SUBSET O, last \in O :
        \E s \in Prefixes(v[last]) : r = cutAt(v, whole, last, s)
  BY DEF Beginnings
<1>s. PICK s \in Prefixes(v[last]) : r = cutAt(v, whole, last, s)
  BY <1>1
<1>2. s \in Seq(T) /\ Within(s, v[last])
  BY PrefixWithin
<1>3. <<>> \in Seq(T) /\ \A o \in O : Within(<<>>, v[o]) /\ Within(v[o], v[o])
  BY DEF Within
<1>. QED
  BY <1>s, <1>2, <1>3 DEF cutAt

LEMMA KnownWithin ==
  ASSUME NEW T, NEW O, NEW v \in [O -> Seq(T)], NEW owners
  PROVE  ofKnown(v, owners) \in [O -> Seq(T)]
         /\ \A o \in O : Within(ofKnown(v, owners)[o], v[o])
<1>1. <<>> \in Seq(T) /\ \A o \in O : Within(<<>>, v[o]) /\ Within(v[o], v[o])
  BY DEF Within
<1>. QED
  BY <1>1 DEF ofKnown

LEMMA WithinTeams ==
  ASSUME NEW s, TeamsFile(s), NEW r \in Seq(TeamEntries), Within(r, s)
  PROVE  TeamsFile(r)
BY DEF TeamsFile, Distinct, Within

LEMMA WithinSubscribers ==
  ASSUME NEW v, NEW A, SubscribersFile(v, A), NEW r \in [Teams -> Seq(Users)],
         \A t \in Teams : Within(r[t], v[t])
  PROVE  SubscribersFile(r, A)
BY DEF SubscribersFile, IsInjective, ToSet, Within

LEMMA WithinDisjoint ==
  ASSUME NEW T, NEW O, NEW v \in [O -> Seq(T)], NEW r \in [O -> Seq(T)],
         Disjoint(v), \A o \in O : Within(r[o], v[o])
  PROVE  Disjoint(r)
<1>. SUFFICES ASSUME NEW o \in O, NEW p \in O, o # p, NEW i \in DOMAIN r[o],
                     Has(r[p], r[o][i].id)
              PROVE  FALSE
  BY DEF Disjoint
<1>1. i \in DOMAIN v[o] /\ v[o][i] = r[o][i]
  BY DEF Within
<1>2. Has(v[p], r[o][i].id)
  BY DEF Within, Has
<1>. QED
  BY <1>1, <1>2 DEF Disjoint

LEMMA WithinChannels ==
  ASSUME NEW v, ChannelsFile(v), NEW r \in [Teams -> Seq(ChannelEntries)],
         \A t \in Teams : Within(r[t], v[t])
  PROVE  ChannelsFile(r)
<1>1. Disjoint(r)
  BY WithinDisjoint DEF ChannelsFile
<1>2. \A t \in Teams : Distinct(r[t])
  BY DEF ChannelsFile, Distinct, Within
<1>. QED
  BY <1>1, <1>2 DEF ChannelsFile

LEMMA WithinThreads ==
  ASSUME NEW v, NEW A, ThreadsFile(v, A), NEW r \in [Channels -> Seq(ThreadEntries)],
         \A ch \in Channels : Within(r[ch], v[ch])
  PROVE  ThreadsFile(r, A)
<1>1. Disjoint(r)
  BY WithinDisjoint DEF ThreadsFile
<1>2. \A ch \in Channels : Distinct(r[ch])
  BY DEF ThreadsFile, Distinct, Within
<1>3. \A ch \in Channels : \A i \in DOMAIN r[ch] : r[ch][i].author \in A
  BY DEF ThreadsFile, Within
<1>. QED
  BY <1>1, <1>2, <1>3 DEF ThreadsFile

LEMMA WithinReplies ==
  ASSUME NEW v, NEW A, RepliesFile(v, A), NEW r \in [Threads -> Seq(Users)],
         \A th \in Threads : Within(r[th], v[th])
  PROVE  RepliesFile(r, A)
BY DEF RepliesFile, ToSet, Within

\* Any choice of what is there and of what is written, whole or cut, is sound.
LEMMA MixtureSound ==
  ASSUME NEW old, NEW new, NEW mixture, NEW A, FilesSound(old, A), FilesSound(new, A),
         mixture.teams \in {old.teams, new.teams} \union Prefixes(new.teams),
         mixture.subscribers \in {old.subscribers, new.subscribers}
                                 \union Beginnings(new.subscribers),
         mixture.channels \in {old.channels, new.channels}
                              \union Beginnings(new.channels),
         mixture.threads \in {old.threads, new.threads}
                             \union Beginnings(new.threads),
         mixture.replies \in {old.replies, new.replies}
                             \union Beginnings(new.replies)
  PROVE  FilesSound(mixture, A)
<1>1. TeamsFile(mixture.teams)
  <2>1. new.teams \in Seq(TeamEntries)
    BY DEF FilesSound, TeamsFile
  <2>2. \A r \in Prefixes(new.teams) : TeamsFile(r)
    BY <2>1, PrefixWithin, WithinTeams DEF FilesSound
  <2>. QED
    BY <2>2 DEF FilesSound
<1>2. SubscribersFile(mixture.subscribers, A)
  <2>1. new.subscribers \in [Teams -> Seq(Users)]
    BY DEF FilesSound, SubscribersFile
  <2>2. \A r \in Beginnings(new.subscribers) : SubscribersFile(r, A)
    BY <2>1, BeginningsWithin, WithinSubscribers DEF FilesSound
  <2>. QED
    BY <2>2 DEF FilesSound
<1>3. ChannelsFile(mixture.channels)
  <2>1. new.channels \in [Teams -> Seq(ChannelEntries)]
    BY DEF FilesSound, ChannelsFile
  <2>2. \A r \in Beginnings(new.channels) : ChannelsFile(r)
    BY <2>1, BeginningsWithin, WithinChannels DEF FilesSound
  <2>. QED
    BY <2>2 DEF FilesSound
<1>4. ThreadsFile(mixture.threads, A)
  <2>1. new.threads \in [Channels -> Seq(ThreadEntries)]
    BY DEF FilesSound, ThreadsFile
  <2>2. \A r \in Beginnings(new.threads) : ThreadsFile(r, A)
    BY <2>1, BeginningsWithin, WithinThreads DEF FilesSound
  <2>. QED
    BY <2>2 DEF FilesSound
<1>5. RepliesFile(mixture.replies, A)
  <2>1. new.replies \in [Threads -> Seq(Users)]
    BY DEF FilesSound, RepliesFile
  <2>2. \A r \in Beginnings(new.replies) : RepliesFile(r, A)
    BY <2>1, BeginningsWithin, WithinReplies DEF FilesSound
  <2>. QED
    BY <2>2 DEF FilesSound
<1>. QED
  BY <1>1, <1>2, <1>3, <1>4, <1>5 DEF FilesSound

\* What is made of the files has its owners too.
LEMMA LoadedSound ==
  ASSUME NEW w, NEW A, FilesSound(w, A)
  PROVE  Sound(loaded(w), A)
<1>. DEFINE v == loaded(w)
            ids(vectors) == UNION {IdsOf(vectors[o]) : o \in DOMAIN vectors}
<1>1. /\ v.teams = w.teams
      /\ v.subscribers = ofKnown(w.subscribers, IdsOf(w.teams))
      /\ v.channels = ofKnown(w.channels, IdsOf(w.teams))
      /\ v.threads = ofKnown(w.threads, ids(v.channels))
      /\ v.replies = ofKnown(w.replies, ids(v.threads))
  BY DEF loaded
<1>. HIDE DEF v
<1>2. /\ v.subscribers \in [Teams -> Seq(Users)]
      /\ \A t \in Teams : Within(v.subscribers[t], w.subscribers[t])
  BY <1>1, KnownWithin DEF FilesSound, SubscribersFile
<1>3. /\ v.channels \in [Teams -> Seq(ChannelEntries)]
      /\ \A t \in Teams : Within(v.channels[t], w.channels[t])
  BY <1>1, KnownWithin DEF FilesSound, ChannelsFile
<1>. HIDE DEF ids
<1>4. /\ v.threads \in [Channels -> Seq(ThreadEntries)]
      /\ \A ch \in Channels : Within(v.threads[ch], w.threads[ch])
  BY <1>1, KnownWithin DEF FilesSound, ThreadsFile
<1>5. /\ v.replies \in [Threads -> Seq(Users)]
      /\ \A th \in Threads : Within(v.replies[th], w.replies[th])
  BY <1>1, KnownWithin DEF FilesSound, RepliesFile
<1>6. FilesSound(v, A)
  BY <1>1, <1>2, <1>3, <1>4, <1>5, WithinSubscribers, WithinChannels, WithinThreads,
     WithinReplies DEF FilesSound
<1>7. \A x, entries : x \in IdsOf(entries) => Has(entries, x)
  BY DEF IdsOf, Has
<1>8. \A t \in Teams : v.subscribers[t] # <<>> \/ v.channels[t] # <<>>
                         => Has(v.teams, t)
  BY <1>1, <1>7 DEF ofKnown, FilesSound, SubscribersFile, ChannelsFile
<1>9. \A ch \in Channels : v.threads[ch] # <<>> => \E t \in Teams : Has(v.channels[t], ch)
  <2>1. \A ch \in Channels : v.threads[ch] # <<>> => ch \in ids(v.channels)
    BY <1>1 DEF ofKnown, FilesSound, ThreadsFile
  <2>2. DOMAIN v.channels = Teams
    BY <1>3
  <2>. QED
    BY <1>7, <2>1, <2>2 DEF ids
<1>10. \A th \in Threads : v.replies[th] # <<>> => \E ch \in Channels : Has(v.threads[ch], th)
  <2>1. \A th \in Threads : v.replies[th] # <<>> => th \in ids(v.threads)
    BY <1>1 DEF ofKnown, FilesSound, RepliesFile
  <2>2. DOMAIN v.threads = Channels
    BY <1>4
  <2>. QED
    BY <1>7, <2>1, <2>2 DEF ids
<1>11. Sound(v, A)
  BY <1>6, <1>8, <1>9, <1>10
     DEF FilesSound, TeamsFile, SubscribersFile, ChannelsFile, ThreadsFile, RepliesFile,
         Sound, Typed, DistinctIn, Resolves
<1>. QED
  BY <1>11 DEF v

-----------------------------------------------------------------------------
(* Packets *)

ContentCodes == ContentEvents \union ContentLists

\* Packets that show nothing of any team.
ShowNothing(packets) ==
  \A f \in Fds : \A i \in DOMAIN packets[f] :
    packets[f][i].code \notin ContentCodes

\* Packets that show what is in a team only to its subscribers.
StayInTeam(packets) ==
  \A f \in Fds : \A i \in DOMAIN packets[f] :
    packets[f][i].code \in ContentCodes =>
      /\ byFd[f] # NoUser
      /\ isUserSubscribed(packets[f][i].about.team, byFd[f])

LEMMA QueuedShowsNothing ==
  ASSUME NEW packets, ShowNothing(packets), Queue(packets)
  PROVE  ContentKeptInTeam'
BY DEF ShowNothing, Queue, ContentKeptInTeam, ContentCodes

LEMMA QueuedStaysInTeam ==
  ASSUME NEW packets, StayInTeam(packets), Queue(packets),
         UNCHANGED <<byFd, subscribers>>
  PROVE  ContentKeptInTeam'
BY DEF StayInTeam, Queue, ContentKeptInTeam, ContentCodes, isUserSubscribed

LEMMA ToShowsNothing ==
  \A S, p : p.code \notin ContentCodes => ShowNothing(To(S, p))
BY DEF ShowNothing, To

\* Concatenation: a packet of a \o b is a packet of a or of b.
LEMMA ThenPackets ==
  ASSUME NEW S, NEW R, NEW p, NEW q, NEW f \in Fds,
         NEW i \in DOMAIN Then(To(S, p), To(R, q))[f]
  PROVE  \/ f \in S /\ Then(To(S, p), To(R, q))[f][i] = p
         \/ f \in R /\ Then(To(S, p), To(R, q))[f][i] = q
<1>1. Then(To(S, p), To(R, q))[f] =
        (IF f \in S THEN <<p>> ELSE <<>>) \o (IF f \in R THEN <<q>> ELSE <<>>)
  BY DEF Then, To
<1>2. CASE f \in S /\ f \in R
  <2>1. <<p>> \in Seq({p, q}) /\ <<q>> \in Seq({p, q})
    OBVIOUS
  <2>2. /\ DOMAIN (<<p>> \o <<q>>) = {1, 2}
        /\ (<<p>> \o <<q>>)[1] = p
        /\ (<<p>> \o <<q>>)[2] = q
    BY <2>1
  <2>. QED
    BY <1>1, <1>2, <2>2
<1>3. CASE f \in S /\ f \notin R
  <2>1. Then(To(S, p), To(R, q))[f] = <<p>>
    BY <1>1, <1>3
  <2>. QED
    BY <1>3, <2>1
<1>4. CASE f \notin S /\ f \in R
  <2>1. Then(To(S, p), To(R, q))[f] = <<q>>
    BY <1>1, <1>4
  <2>. QED
    BY <1>4, <2>1
<1>5. CASE f \notin S /\ f \notin R
  <2>1. Then(To(S, p), To(R, q))[f] = <<>>
    BY <1>1, <1>5
  <2>. QED
    BY <2>1
<1>. QED
  BY <1>2, <1>3, <1>4, <1>5

-----------------------------------------------------------------------------
(* The invariant *)

\* The accounts that may be named: anybody's once users.txt has been lost.
OrAnybody(accounts) == IF accountsLost THEN Users ELSE accounts
Accounts == OrAnybody(known)

\* A process keeps the accounts it has loaded.
AccountsKept == running => disk.users \subseteq known

WorkspaceInv ==
  /\ SessionsSound
  /\ Sound(workspace, Accounts)
  /\ FilesSound(saved, OrAnybody(disk.users))
  /\ AccountsKept

\* What a command does to the workspace in memory.
CommandKeeps == Sound(workspace, Accounts)' /\ ContentKeptInTeam'

LEMMA AccountsBetween ==
  ASSUME WorkspaceInv
  PROVE  known \subseteq Accounts /\ Accounts \subseteq Users
BY DEF WorkspaceInv, SessionsSound, StateTyped, Accounts, OrAnybody

LEMMA AccountsSame ==
  ASSUME known' = known, accountsLost' = accountsLost
  PROVE  Accounts' = Accounts
BY DEF Accounts, OrAnybody

LEMMA ReplyKeeps ==
  ASSUME WorkspaceInv, NEW packets, StayInTeam(packets), Reply(packets)
  PROVE  CommandKeeps
<1>1. UNCHANGED <<sessionVars, workspaceVars, fileVars>> /\ Queue(packets)
  BY DEF Reply
<1>2. workspace' = workspace /\ Accounts' = Accounts
  BY <1>1, AccountsSame DEF workspace, workspaceVars, sessionVars, fileVars
<1>3. Sound(workspace, Accounts)'
  BY <1>2 DEF WorkspaceInv
<1>4. ContentKeptInTeam'
  BY <1>1, QueuedStaysInTeam DEF sessionVars, workspaceVars
<1>. QED
  BY <1>3, <1>4 DEF CommandKeeps

LEMMA StatusCodesShowNothing == StatusCodes \intersect ContentCodes = {}
BY DEF StatusCodes, ContentCodes, ContentEvents, ContentLists

LEMMA RefuseKeeps ==
  ASSUME WorkspaceInv, NEW fd, NEW code \in StatusCodes, Refuse(fd, code)
  PROVE  CommandKeeps
<1>1. ShowNothing(To({fd}, Status(code)))
  BY ToShowsNothing, StatusCodesShowNothing DEF Status
<1>2. StayInTeam(To({fd}, Status(code)))
  BY <1>1 DEF ShowNothing, StayInTeam
<1>. QED
  BY <1>2, ReplyKeeps DEF Refuse

LEMMA OkKeeps ==
  ASSUME WorkspaceInv, NEW fd, Reply(To({fd}, Status("RPL_OK")))
  PROVE  CommandKeeps
BY RefuseKeeps DEF Refuse, StatusCodes

LEMMA SubscriptionStatuses ==
  \A fd, target : subscriptionStatus(fd, target) \in StatusCodes
BY DEF subscriptionStatus, StatusCodes

LEMMA SubscribersKeep ==
  ASSUME WorkspaceInv, NEW fd, NEW t \in Teams, Has(teams, t),
         NEW s \in Seq(Users), IsInjective(s), ToSet(s) \subseteq Accounts,
         NEW after, after = [subscribers EXCEPT ![t] = s],
         changeSubscribers(fd, after)
  PROVE  CommandKeeps
<1>1. /\ workspace'.subscribers = [workspace.subscribers EXCEPT ![t] = s]
      /\ workspace'.teams = workspace.teams
      /\ workspace'.channels = workspace.channels
      /\ workspace'.threads = workspace.threads
      /\ workspace'.replies = workspace.replies
      /\ Has(workspace.teams, t)
  BY DEF changeSubscribers, workspace
<1>2. /\ Accounts' = Accounts /\ Accounts \subseteq Users
      /\ Sound(workspace, Accounts)
  BY AccountsSame, AccountsBetween
     DEF changeSubscribers, sessionVars, fileVars, WorkspaceInv
<1>3. Sound(workspace', Accounts)
  BY <1>1, <1>2, SubscribersSound
<1>4. ShowNothing(To({fd}, Event("RPL_USERS_LIST", Shown(byFd[fd]))))
  BY ToShowsNothing DEF Event, ContentCodes, ContentEvents, ContentLists
<1>5. ContentKeptInTeam'
  BY <1>4, QueuedShowsNothing DEF changeSubscribers
<1>. QED
  BY <1>2, <1>3, <1>5 DEF CommandKeeps

LEMMA SubscribeKeeps ==
  ASSUME WorkspaceInv, NEW fd \in Fds, NEW target,
         handleSubscribeCommand(fd, target)
  PROVE  CommandKeeps
<1>. DEFINE u == byFd[fd]
            status == subscriptionStatus(fd, target)
<1>1. CASE status # "RPL_OK" /\ Refuse(fd, status)
  BY <1>1, RefuseKeeps, SubscriptionStatuses
<1>2. CASE Reply(To({fd}, Status("RPL_OK")))
  BY <1>2, OkKeeps
<1>3. CASE /\ status = "RPL_OK"
           /\ ~alreadySubscribed(target, u)
           /\ changeSubscribers(fd, addSubscribedUser(target, u))
  <2>1. u \in known /\ target \in Teams /\ Has(teams, target)
    BY <1>3 DEF subscriptionStatus, parseTeamUuidFromPayload
  <2>2. /\ subscribers \in [Teams -> Seq(Users)]
        /\ IsInjective(subscribers[target])
        /\ ToSet(subscribers[target]) \subseteq Accounts
        /\ u \in Users /\ u \in Accounts
    BY <2>1, AccountsBetween DEF WorkspaceInv, SessionsSound, StateTyped, Sound, Typed, Resolves,
                workspace
  <2>. DEFINE s == Append(subscribers[target], u)
  <2>3. u \notin ToSet(subscribers[target])
    BY <1>3 DEF alreadySubscribed, isUserSubscribed, ToSet
  <2>4. s \in Seq(Users) /\ IsInjective(s) /\ ToSet(s) \subseteq Accounts
    BY <2>1, <2>2, <2>3, InjectiveAppend, ToSetAppend
  <2>5. addSubscribedUser(target, u) = [subscribers EXCEPT ![target] = s]
    BY DEF addSubscribedUser
  <2>. HIDE DEF s
  <2>. QED
    BY <1>3, <2>1, <2>4, <2>5, SubscribersKeep, Zenon
<1>. QED
  BY <1>1, <1>2, <1>3 DEF handleSubscribeCommand

LEMMA UnsubscribeKeeps ==
  ASSUME WorkspaceInv, NEW fd \in Fds, NEW target,
         handleUnsubscribeCommand(fd, target)
  PROVE  CommandKeeps
<1>. DEFINE u == byFd[fd]
            status == subscriptionStatus(fd, target)
<1>1. CASE status # "RPL_OK" /\ Refuse(fd, status)
  BY <1>1, RefuseKeeps, SubscriptionStatuses
<1>2. CASE Reply(To({fd}, Status("RPL_OK")))
  BY <1>2, OkKeeps
<1>3. CASE /\ status = "RPL_OK"
           /\ changeSubscribers(fd, removeSubscribedUser(target, u))
  <2>1. target \in Teams /\ Has(teams, target)
    BY <1>3 DEF subscriptionStatus, parseTeamUuidFromPayload
  <2>2. /\ subscribers[target] \in Seq(Users)
        /\ IsInjective(subscribers[target])
        /\ ToSet(subscribers[target]) \subseteq Accounts
    BY <2>1 DEF WorkspaceInv, Sound, Typed, Resolves, workspace
  <2>. DEFINE s == Among(subscribers[target], Users \ {u})
  <2>3. Filters(s, subscribers[target], Users, Len(subscribers[target]))
    BY <2>2, AmongFilters
  <2>4. removeSubscribedUser(target, u) = [subscribers EXCEPT ![target] = s]
    BY DEF removeSubscribedUser
  <2>. HIDE DEF s
  <2>5. {subscribers[target][i] : i \in 1 .. Len(subscribers[target])}
          = ToSet(subscribers[target])
    BY <2>2 DEF ToSet
  <2>6. s \in Seq(Users) /\ IsInjective(s) /\ ToSet(s) \subseteq Accounts
    BY <2>2, <2>3, <2>5 DEF Filters
  <2>. QED
    BY <1>3, <2>1, <2>4, <2>6, SubscribersKeep, Zenon
<1>. QED
  BY <1>1, <1>2, <1>3 DEF handleUnsubscribeCommand

\* What a context that resolves leads to.
LEMMA Resolved ==
  ASSUME NEW u, NEW c \in Contexts, resolveContext(u, c) = "RPL_OK"
  PROVE  /\ c.team # None => /\ c.team \in Teams
                             /\ Has(teams, c.team)
                             /\ isUserSubscribed(c.team, u)
         /\ c.channel # None => /\ c.channel \in Channels
                                /\ c.team # None
                                /\ Has(channels[c.team], c.channel)
         /\ c.thread # None => /\ c.thread \in Threads
                               /\ c.channel # None
                               /\ Has(threads[c.channel], c.thread)
<1>1. /\ c.team \in Teams \union {None}
      /\ c.channel \in Channels \union {None}
      /\ c.thread \in Threads \union {None}
      /\ c.channel # None => c.team # None
      /\ c.thread # None => c.channel # None
  BY ContextsCombine
<1>2. CASE c.team = None
  BY <1>1, <1>2
<1>3. CASE c.team # None /\ c.channel = None
  <2>1. resolveTeam(u, c.team) = "RPL_OK"
    BY <1>1, <1>3 DEF resolveContext
  <2>. QED
    BY <1>1, <1>3, <2>1 DEF resolveTeam
<1>4. CASE c.channel # None /\ c.thread = None
  <2>1. resolveContextTeamChannel(u, c.team, c.channel) = "RPL_OK"
    BY <1>1, <1>4 DEF resolveContext
  <2>. QED
    BY <1>1, <1>4, <2>1 DEF resolveTeam, resolveContextTeamChannel
<1>5. CASE c.thread # None
  <2>1. resolveThread(u, c.team, c.channel, c.thread) = "RPL_OK"
    BY <1>1, <1>5 DEF resolveContext
  <2>. QED
    BY <1>1, <1>5, <2>1 DEF resolveTeam, resolveContextTeamChannel, resolveThread
<1>. QED
  BY <1>1, <1>2, <1>3, <1>4, <1>5

LEMMA ResolveStatuses ==
  \A u, c : c \in Contexts => resolveContext(u, c) \in StatusCodes
<1>. SUFFICES ASSUME NEW u, NEW c \in Contexts
              PROVE  resolveContext(u, c) \in StatusCodes
  OBVIOUS
<1>1. (c.channel # None => c.team # None) /\ (c.thread # None => c.channel # None)
  BY ContextsCombine
<1>2. \A t : resolveTeam(u, t) \in StatusCodes
  BY DEF resolveTeam, StatusCodes
<1>3. \A t, ch : resolveContextTeamChannel(u, t, ch) \in StatusCodes
  BY <1>2 DEF resolveContextTeamChannel, StatusCodes
<1>4. \A t, ch, th : resolveThread(u, t, ch, th) \in StatusCodes
  BY <1>3 DEF resolveThread, StatusCodes
<1>5. "RPL_OK" \in StatusCodes
  BY DEF StatusCodes
<1>. QED
  BY <1>1, <1>2, <1>3, <1>4, <1>5 DEF resolveContext

\* A list stays in the team it is about.
LEMMA ListKeeps ==
  ASSUME WorkspaceInv, NEW fd \in Fds, NEW T, NEW packets \in Seq(T),
         \A i \in DOMAIN packets : packets[i].code \in ContentCodes =>
           /\ byFd[fd] # NoUser
           /\ isUserSubscribed(packets[i].about.team, byFd[fd]),
         Reply(queuePayloadArray(fd, packets))
  PROVE  CommandKeeps
<1>1. Status("RPL_OK").code \notin ContentCodes
  BY StatusCodesShowNothing DEF Status, StatusCodes
<1>2. StayInTeam(queuePayloadArray(fd, packets))
  <2>. SUFFICES ASSUME NEW f \in Fds,
                       NEW i \in DOMAIN queuePayloadArray(fd, packets)[f],
                       queuePayloadArray(fd, packets)[f][i].code \in ContentCodes
                PROVE  LET p == queuePayloadArray(fd, packets)[f][i] IN
                       byFd[f] # NoUser /\ isUserSubscribed(p.about.team, byFd[f])
    BY DEF StayInTeam
  <2>1. /\ f = fd
        /\ i \in DOMAIN packets
        /\ queuePayloadArray(fd, packets)[f][i] = packets[i]
    BY <1>1, ArrayPackets
  <2>. QED
    BY <2>1
<1>. QED
  BY <1>2, ReplyKeeps

LEMMA ContextStatuses ==
  ASSUME WorkspaceInv, NEW fd \in Fds, NEW payload
  PROVE  /\ contextStatus(fd, payload) \in StatusCodes
         /\ context[fd] \in Contexts
         /\ contextStatus(fd, payload) = "RPL_OK" =>
              /\ byFd[fd] \in known /\ byFd[fd] # NoUser
              /\ resolveContext(byFd[fd], context[fd]) = "RPL_OK"
<1>1. context[fd] \in Contexts /\ known \subseteq Users
  BY DEF WorkspaceInv, SessionsSound, StateTyped
<1>. QED
  BY <1>1, ResolveStatuses, NoUserIsNoUser DEF contextStatus, StatusCodes

LEMMA ListCommandKeeps ==
  ASSUME WorkspaceInv, NEW fd \in Fds, NEW payload, handleListCommand(fd, payload)
  PROVE  CommandKeeps
<1>. DEFINE c == context[fd]
            u == byFd[fd]
            status == contextStatus(fd, payload)
            packets == listEntries(c)
<1>1. CASE status # "RPL_OK" /\ Refuse(fd, status)
  BY <1>1, RefuseKeeps, ContextStatuses
<1>2. CASE status = "RPL_OK" /\ Reply(queuePayloadArray(fd, packets))
  <2>1. c \in Contexts /\ u # NoUser /\ resolveContext(u, c) = "RPL_OK"
    BY <1>2, ContextStatuses
  <2>2. (c.channel # None => c.team # None) /\ (c.thread # None => c.channel # None)
    BY <2>1, ContextsCombine
  <2>3. /\ c.team # None => c.team \in Teams /\ isUserSubscribed(c.team, u)
        /\ c.channel # None => c.channel \in Channels
        /\ c.thread # None => c.thread \in Threads
    BY <2>1, Resolved
  <2>4. /\ teams \in Seq(TeamEntries)
        /\ channels \in [Teams -> Seq(ChannelEntries)]
        /\ threads \in [Channels -> Seq(ThreadEntries)]
        /\ replies \in [Threads -> Seq(Users)]
    BY DEF WorkspaceInv, Sound, Typed, workspace
  <2>5. CASE c.team = None
    <3>1. packets = [i \in DOMAIN teams |-> Event("RPL_TEAMS_LIST", teams[i])]
      BY <2>2, <2>5, Zenon DEF listEntries, Each
    <3>2. packets \in Seq({Event("RPL_TEAMS_LIST", t) : t \in TeamEntries})
      BY <2>4, <3>1
    <3>3. \A i \in DOMAIN packets : packets[i].code \notin ContentCodes
      BY <3>1 DEF Event, ContentCodes, ContentEvents, ContentLists
    <3>. HIDE DEF packets
    <3>. QED
      BY <1>2, <3>2, <3>3, ListKeeps
  <2>6. CASE c.team # None /\ c.channel = None
    <3>. DEFINE s == channels[c.team]
    <3>1. s \in Seq(ChannelEntries)
      BY <2>2, <2>3, <2>4, <2>6
    <3>2. packets = [i \in 1 .. Len(s) |->
                      Content("RPL_CHANNELS_LIST", c.team, s[i])]
      <4>1. DOMAIN s = 1 .. Len(s)
        BY <3>1
      <4>2. packets = [i \in DOMAIN s |-> Content("RPL_CHANNELS_LIST", c.team, s[i])]
        BY <2>2, <2>6, Zenon DEF listEntries, Each
      <4>. QED
        BY <4>1, <4>2, Zenon
    <3>. HIDE DEF s, packets
    <3>3. packets \in Seq({Content("RPL_CHANNELS_LIST", c.team, x) :
                            x \in ChannelEntries})
      <4>. DEFINE V == {Content("RPL_CHANNELS_LIST", c.team, x) : x \in ChannelEntries}
      <4>1. \A i \in 1 .. Len(s) : Content("RPL_CHANNELS_LIST", c.team, s[i]) \in V
        BY <3>1
      <4>2. Len(s) \in Nat
        BY <3>1
      <4>. HIDE DEF V
      <4>3. packets \in Seq(V)
        BY <3>2, <4>1, <4>2
      <4>. QED
        BY <4>3 DEF V
    <3>4. \A i \in DOMAIN packets : packets[i].about.team = c.team
      BY <3>1, <3>2 DEF Content
    <3>5. u # NoUser /\ isUserSubscribed(c.team, u)
      BY <2>1, <2>2, <2>3, <2>6
    <3>. QED
      BY <1>2, <3>3, <3>4, <3>5, ListKeeps
  <2>7. CASE c.channel # None /\ c.thread = None
    <3>. DEFINE s == threads[c.channel]
    <3>1. s \in Seq(ThreadEntries)
      BY <2>2, <2>3, <2>4, <2>7
    <3>2. packets = [i \in 1 .. Len(s) |->
                      Content("RPL_THREADS_LIST", c.team, s[i])]
      BY <2>2, <2>7, <3>1 DEF listEntries, Each
    <3>. HIDE DEF s, packets
    <3>3. packets \in Seq({Content("RPL_THREADS_LIST", c.team, x) :
                            x \in ThreadEntries})
      BY <3>1, <3>2
    <3>4. \A i \in DOMAIN packets : packets[i].about.team = c.team
      BY <3>1, <3>2 DEF Content
    <3>5. u # NoUser /\ isUserSubscribed(c.team, u)
      BY <2>1, <2>2, <2>3, <2>7
    <3>. QED
      BY <1>2, <3>3, <3>4, <3>5, ListKeeps
  <2>8. CASE c.thread # None
    <3>. DEFINE s == replies[c.thread]
    <3>1. s \in Seq(Users)
      BY <2>2, <2>3, <2>4, <2>8
    <3>2. packets = [i \in 1 .. Len(s) |->
                      Content("RPL_REPLIES_LIST", c.team, ThreadEntry(c.thread, None, s[i]))]
      BY <2>2, <2>8, <3>1 DEF listEntries, Each
    <3>. HIDE DEF s, packets
    <3>3. packets \in Seq({Content("RPL_REPLIES_LIST", c.team, ThreadEntry(c.thread, None, x)) :
                            x \in Users})
      BY <3>1, <3>2
    <3>4. \A i \in DOMAIN packets : packets[i].about.team = c.team
      BY <3>1, <3>2 DEF Content
    <3>5. u # NoUser /\ isUserSubscribed(c.team, u)
      BY <2>1, <2>2, <2>3, <2>8
    <3>. QED
      BY <1>2, <3>3, <3>4, <3>5, ListKeeps
  <2>. QED
    BY <2>5, <2>6, <2>7, <2>8
<1>. QED
  BY <1>1, <1>2 DEF handleListCommand

LEMMA InfoCommandKeeps ==
  ASSUME WorkspaceInv, NEW fd \in Fds, NEW payload, handleInfoCommand(fd, payload)
  PROVE  CommandKeeps
<1>. DEFINE c == context[fd]
            u == byFd[fd]
            status == contextStatus(fd, payload)
            packet == infoPacket(u, c)
<1>1. CASE status # "RPL_OK" /\ Refuse(fd, status)
  BY <1>1, RefuseKeeps, ContextStatuses
<1>2. CASE status = "RPL_OK" /\ Reply(To({fd}, packet))
  <2>1. c \in Contexts /\ u # NoUser /\ resolveContext(u, c) = "RPL_OK"
    BY <1>2, ContextStatuses
  <2>2. (c.channel # None => c.team # None) /\ (c.thread # None => c.channel # None)
    BY <2>1, ContextsCombine
  <2>3. c.team # None => isUserSubscribed(c.team, u)
    BY <2>1, Resolved
  <2>4. c.team = None => packet = Event("RPL_USER_INFO", Shown(u))
    BY <2>2 DEF infoPacket
  <2>5. c.team # None /\ c.channel = None =>
          packet = Event("RPL_TEAMS_LIST", Find(teams, c.team))
    BY <2>2 DEF infoPacket
  <2>6. c.channel # None => packet.about.team = c.team
    BY <2>2 DEF infoPacket, Content
  <2>. HIDE DEF packet
  <2>7. packet.code \in ContentCodes =>
          u # NoUser /\ isUserSubscribed(packet.about.team, u)
    BY <2>1, <2>2, <2>3, <2>4, <2>5, <2>6
       DEF Event, ContentCodes, ContentEvents, ContentLists
  <2>8. StayInTeam(To({fd}, packet))
    BY <2>7 DEF StayInTeam, To
  <2>. QED
    BY <1>2, <2>8, ReplyKeeps
<1>. QED
  BY <1>1, <1>2 DEF handleInfoCommand

LEMMA SubscribedListKeeps ==
  ASSUME WorkspaceInv, NEW fd \in Fds, NEW target,
         handleSubscribedListCommand(fd, target)
  PROVE  CommandKeeps
<1>. DEFINE status == IF target = Nothing /\ byFd[fd] \in known
                        THEN "RPL_OK" ELSE subscriptionStatus(fd, target)
            own == Among(teams,
                         {t \in ToSet(teams) : isUserSubscribed(t.id, byFd[fd])})
            found == Among(subscribers[target], known)
            ownPackets == Each(own, LAMBDA t : Event("RPL_SUBSCRIBED_LIST", t))
            foundPackets == Each(found, LAMBDA u : Event("RPL_USERS_LIST", Shown(u)))
<1>1. CASE status # "RPL_OK" /\ Refuse(fd, status)
  <2>1. status \in StatusCodes
    BY SubscriptionStatuses DEF StatusCodes
  <2>. QED
    BY <1>1, <2>1, RefuseKeeps
<1>2. CASE Reply(queuePayloadArray(fd, ownPackets))
  <2>1. own \in Seq(TeamEntries)
    <3>1. teams \in Seq(TeamEntries)
      BY DEF WorkspaceInv, Sound, Typed, workspace
    <3>. QED
      BY <3>1, AmongFilters DEF Filters
  <2>. HIDE DEF own
  <2>2. ownPackets = [i \in DOMAIN own |-> Event("RPL_SUBSCRIBED_LIST", own[i])]
    BY DEF Each
  <2>. HIDE DEF ownPackets
  <2>3. ownPackets \in Seq({Event("RPL_SUBSCRIBED_LIST", t) : t \in TeamEntries})
    BY <2>1, <2>2
  <2>4. \A i \in DOMAIN ownPackets : ownPackets[i].code \notin ContentCodes
    BY <2>2 DEF Event, ContentCodes, ContentEvents, ContentLists
  <2>. QED
    BY <1>2, <2>3, <2>4, ListKeeps
<1>3. CASE /\ status = "RPL_OK" /\ target # Nothing
           /\ Reply(queuePayloadArray(fd, foundPackets))
  <2>1. found \in Seq(Users)
    <3>1. target \in Teams
      BY <1>3 DEF subscriptionStatus, parseTeamUuidFromPayload
    <3>2. subscribers[target] \in Seq(Users)
      BY <3>1 DEF WorkspaceInv, Sound, Typed, workspace
    <3>. QED
      BY <3>2, AmongFilters DEF Filters
  <2>. HIDE DEF found
  <2>2. foundPackets = [i \in DOMAIN found |-> Event("RPL_USERS_LIST", Shown(found[i]))]
    BY DEF Each
  <2>. HIDE DEF foundPackets
  <2>3. foundPackets \in Seq({Event("RPL_USERS_LIST", Shown(u)) : u \in Users})
    BY <2>1, <2>2
  <2>4. \A i \in DOMAIN foundPackets : foundPackets[i].code \notin ContentCodes
    BY <2>2 DEF Event, ContentCodes, ContentEvents, ContentLists
  <2>. QED
    BY <1>3, <2>3, <2>4, ListKeeps
<1>. QED
  BY <1>1, <1>2, <1>3 DEF handleSubscribedListCommand

LEMMA AnnouncementStays ==
  ASSUME WorkspaceInv, NEW fd \in Fds, NEW t, NEW event, NEW item,
         announceCreation(fd, t, event, item), UNCHANGED <<byFd, subscribers>>
  PROVE  ContentKeptInTeam'
<1>. DEFINE p == Content("RPL_CREATED", t, item)
            q == Content(event, t, item)
            R == {f \in Authenticated : isUserSubscribed(t, byFd[f])}
            packets == Then(To({fd}, p), To(R, q))
<1>1. p.code \notin ContentCodes
  BY DEF Content, ContentCodes, ContentEvents, ContentLists
<1>2. q.about.team = t
  BY DEF Content
<1>3. \A f \in R : byFd[f] # NoUser /\ isUserSubscribed(t, byFd[f])
  BY DEF Authenticated
<1>4. Queue(packets)
  BY DEF announceCreation, queuePacketToTeamSubscribers
<1>. HIDE DEF p, q, R
<1>5. StayInTeam(packets)
  BY <1>1, <1>2, <1>3, ThenPackets DEF StayInTeam
<1>. QED
  BY <1>4, <1>5, QueuedStaysInTeam

LEMMA CreateStatuses ==
  ASSUME WorkspaceInv, NEW fd \in Fds, NEW p
  PROVE  /\ createStatus(fd, p) \in StatusCodes
         /\ context[fd] \in Contexts
         /\ createStatus(fd, p) = "RPL_OK" =>
              /\ byFd[fd] \in known
              /\ p.text # BadText
              /\ resolveContext(byFd[fd], context[fd]) = "RPL_OK"
              /\ p.shape = Shape(context[fd])
              /\ p.shape # "reply" => ~Named(Siblings(context[fd]), p.text)
<1>1. context[fd] \in Contexts
  BY DEF WorkspaceInv, SessionsSound, StateTyped
<1>. QED
  BY <1>1, ResolveStatuses DEF createStatus, StatusCodes

LEMMA CreateTeamKeeps ==
  ASSUME WorkspaceInv, NEW fd \in Fds, NEW name \in Names, byFd[fd] \in known,
         ~Named(teams, name), handleCreateTeam(fd, name)
  PROVE  CommandKeeps
<1>1. PICK id \in generateUniqueTeamUuid :
        /\ teams' = Append(teams, Entry(id, name))
        /\ subscribers' = addSubscribedUser(id, byFd[fd])
        /\ Queue(Then(To({fd}, Event("RPL_CREATED", Entry(id, name))),
                      queuePacketToLogedUser(
                        Event("EVT_TEAM_CREATED", Entry(id, name)))))
        /\ UNCHANGED <<sessionVars, channels, threads, replies, fileVars>>
  BY DEF handleCreateTeam
<1>2. id \in Teams /\ ~Has(teams, id)
  BY DEF generateUniqueTeamUuid
<1>3. /\ Accounts' = Accounts /\ byFd[fd] \in Accounts
      /\ Accounts \subseteq Users /\ Sound(workspace, Accounts)
  BY <1>1, AccountsSame, AccountsBetween DEF sessionVars, fileVars, WorkspaceInv
<1>4. /\ workspace.teams = teams
      /\ workspace'.teams = Append(workspace.teams, Entry(id, name))
      /\ workspace'.subscribers =
           [workspace.subscribers EXCEPT ![id] = Append(@, byFd[fd])]
      /\ workspace'.channels = workspace.channels
      /\ workspace'.threads = workspace.threads
      /\ workspace'.replies = workspace.replies
  BY <1>1 DEF workspace, addSubscribedUser
<1>5. Sound(workspace', Accounts)
  BY <1>2, <1>3, <1>4, CreateTeamSound
<1>. DEFINE p == Event("RPL_CREATED", Entry(id, name))
            q == Event("EVT_TEAM_CREATED", Entry(id, name))
<1>6. p.code \notin ContentCodes /\ q.code \notin ContentCodes
  BY DEF Event, ContentCodes, ContentEvents, ContentLists
<1>7. Queue(Then(To({fd}, p), To(Authenticated, q)))
  BY <1>1 DEF queuePacketToLogedUser
<1>. HIDE DEF p, q
<1>8. ShowNothing(Then(To({fd}, p), To(Authenticated, q)))
  BY <1>6, ThenPackets DEF ShowNothing
<1>. QED
  BY <1>3, <1>5, <1>7, <1>8, QueuedShowsNothing DEF CommandKeeps

LEMMA CreateChannelKeeps ==
  ASSUME WorkspaceInv, NEW fd \in Fds, NEW name \in Names,
         context[fd].team \in Teams, Has(teams, context[fd].team),
         ~Named(channels[context[fd].team], name), handleCreateChannel(fd, name)
  PROVE  CommandKeeps
<1>. DEFINE t == context[fd].team
<1>1. PICK id \in Channels :
        /\ ~isChannelUuidUsed(id)
        /\ channels' = [channels EXCEPT ![t] = Append(@, Entry(id, name))]
        /\ announceCreation(fd, t, "EVT_CHANNEL_CREATED", Entry(id, name))
        /\ UNCHANGED <<sessionVars, teams, subscribers, threads, replies, fileVars>>
  BY DEF handleCreateChannel
<1>2. Accounts' = Accounts /\ Sound(workspace, Accounts)
  BY <1>1, AccountsSame DEF sessionVars, fileVars, WorkspaceInv
<1>3. /\ workspace.channels = channels
      /\ workspace.teams = teams
      /\ workspace'.channels =
           [workspace.channels EXCEPT ![t] = Append(@, Entry(id, name))]
      /\ workspace'.teams = workspace.teams
      /\ workspace'.subscribers = workspace.subscribers
      /\ workspace'.threads = workspace.threads
      /\ workspace'.replies = workspace.replies
  BY <1>1 DEF workspace
<1>4. \A o \in Teams : ~Has(channels[o], id)
  BY <1>1 DEF isChannelUuidUsed
<1>5. Sound(workspace', Accounts)
  BY <1>2, <1>3, <1>4, CreateChannelSound
<1>6. ContentKeptInTeam'
  BY <1>1, AnnouncementStays DEF sessionVars
<1>. QED
  BY <1>2, <1>5, <1>6 DEF CommandKeeps

LEMMA CreateThreadKeeps ==
  ASSUME WorkspaceInv, NEW fd \in Fds, NEW title \in Names, byFd[fd] \in known,
         NEW t \in Teams, context[fd].channel \in Channels,
         Has(channels[t], context[fd].channel),
         ~Named(threads[context[fd].channel], title), handleCreateThread(fd, title)
  PROVE  CommandKeeps
<1>. DEFINE ch == context[fd].channel
            entry(id) == ThreadEntry(id, title, byFd[fd])
<1>1. PICK id \in Threads :
        /\ ~isThreadUuidUsed(id)
        /\ threads' = [threads EXCEPT ![ch] = Append(@, entry(id))]
        /\ announceCreation(fd, context[fd].team, "EVT_THREAD_CREATED", entry(id))
        /\ UNCHANGED <<sessionVars, teams, subscribers, channels, replies, fileVars>>
  BY DEF handleCreateThread
<1>2. /\ Accounts' = Accounts /\ byFd[fd] \in Accounts
      /\ Accounts \subseteq Users /\ Sound(workspace, Accounts)
  BY <1>1, AccountsSame, AccountsBetween DEF sessionVars, fileVars, WorkspaceInv
<1>3. /\ workspace.threads = threads
      /\ workspace.channels = channels
      /\ workspace'.threads = [workspace.threads EXCEPT ![ch] = Append(@, entry(id))]
      /\ workspace'.teams = workspace.teams
      /\ workspace'.subscribers = workspace.subscribers
      /\ workspace'.channels = workspace.channels
      /\ workspace'.replies = workspace.replies
  BY <1>1 DEF workspace
<1>4. /\ Has(workspace.channels[t], ch)
      /\ ~Named(workspace.threads[ch], title)
      /\ \A o \in Channels : ~Has(workspace.threads[o], id)
  BY <1>1, <1>3 DEF isThreadUuidUsed
<1>5. Sound(workspace', Accounts)
  <2>. DEFINE e == entry(id)
  <2>1. e \in ThreadEntries /\ e.id = id /\ e.name = title /\ e.author \in Accounts
    BY <1>2 DEF ThreadEntry, ThreadEntries
  <2>2. workspace'.threads = [workspace.threads EXCEPT ![ch] = Append(@, e)]
    BY <1>3
  <2>. HIDE DEF e
  <2>. QED
    BY <1>2, <1>3, <1>4, <2>1, <2>2, CreateThreadSound
<1>6. ContentKeptInTeam'
  BY <1>1, AnnouncementStays DEF sessionVars
<1>. QED
  BY <1>2, <1>5, <1>6 DEF CommandKeeps

LEMMA CreateReplyKeeps ==
  ASSUME WorkspaceInv, NEW fd \in Fds, byFd[fd] \in known,
         NEW ch \in Channels, context[fd].thread \in Threads,
         Has(threads[ch], context[fd].thread), handleCreateReply(fd)
  PROVE  CommandKeeps
<1>. DEFINE th == context[fd].thread
<1>1. /\ replies' = [replies EXCEPT ![th] = Append(@, byFd[fd])]
      /\ announceCreation(fd, context[fd].team, "EVT_REPLY_CREATED",
                          ThreadEntry(th, None, byFd[fd]))
      /\ UNCHANGED <<sessionVars, teams, subscribers, channels, threads, fileVars>>
  BY DEF handleCreateReply
<1>2. /\ Accounts' = Accounts /\ byFd[fd] \in Accounts
      /\ Accounts \subseteq Users /\ Sound(workspace, Accounts)
  BY <1>1, AccountsSame, AccountsBetween DEF sessionVars, fileVars, WorkspaceInv
<1>3. /\ workspace.threads = threads
      /\ workspace'.replies = [workspace.replies EXCEPT ![th] = Append(@, byFd[fd])]
      /\ workspace'.teams = workspace.teams
      /\ workspace'.subscribers = workspace.subscribers
      /\ workspace'.channels = workspace.channels
      /\ workspace'.threads = workspace.threads
  BY <1>1 DEF workspace
<1>4. Sound(workspace', Accounts)
  BY <1>2, <1>3, CreateReplySound
<1>5. ContentKeptInTeam'
  BY <1>1, AnnouncementStays DEF sessionVars
<1>. QED
  BY <1>2, <1>4, <1>5 DEF CommandKeeps

LEMMA CreateKeeps ==
  ASSUME WorkspaceInv, NEW fd \in Fds, NEW p \in CreatePayload,
         handleCreateCommand(fd, p)
  PROVE  CommandKeeps
<1>. DEFINE c == context[fd]
            u == byFd[fd]
            status == createStatus(fd, p)
<1>1. CASE status # "RPL_OK" /\ Refuse(fd, status)
  BY <1>1, RefuseKeeps, CreateStatuses
<1>2. ASSUME status = "RPL_OK"
      PROVE  /\ c \in Contexts /\ u \in known /\ p.text \in Names
             /\ resolveContext(u, c) = "RPL_OK" /\ p.shape = Shape(c)
             /\ p.shape # "reply" => ~Named(Siblings(c), p.text)
             /\ c.channel # None => c.team # None
             /\ c.thread # None => c.channel # None
  BY <1>2, CreateStatuses, ContextsCombine DEF CreatePayload
<1>3. CASE status = "RPL_OK" /\ c.team = None /\ handleCreateTeam(fd, p.text)
  <2>1. ~Named(teams, p.text)
    BY <1>2, <1>3 DEF Shape, Siblings
  <2>. QED
    BY <1>2, <1>3, <2>1, CreateTeamKeeps
<1>4. CASE /\ status = "RPL_OK" /\ c.team # None /\ c.channel = None
           /\ handleCreateChannel(fd, p.text)
  <2>1. ~Named(channels[c.team], p.text)
    BY <1>2, <1>4 DEF Shape, Siblings
  <2>2. c.team \in Teams /\ Has(teams, c.team)
    BY <1>2, <1>4, Resolved
  <2>. QED
    BY <1>2, <1>4, <2>1, <2>2, CreateChannelKeeps
<1>5. CASE /\ status = "RPL_OK" /\ c.channel # None /\ c.thread = None
           /\ handleCreateThread(fd, p.text)
  <2>1. ~Named(threads[c.channel], p.text)
    BY <1>2, <1>5 DEF Shape, Siblings
  <2>2. /\ c.team \in Teams /\ c.channel \in Channels
        /\ Has(channels[c.team], c.channel)
    BY <1>2, <1>5, Resolved
  <2>. QED
    BY <1>2, <1>5, <2>1, <2>2, CreateThreadKeeps
<1>6. CASE status = "RPL_OK" /\ c.thread # None /\ handleCreateReply(fd)
  <2>1. /\ c.channel \in Channels /\ c.thread \in Threads
        /\ Has(threads[c.channel], c.thread)
    BY <1>2, <1>6, Resolved
  <2>. QED
    BY <1>2, <1>6, <2>1, CreateReplyKeeps
<1>. QED
  BY <1>1, <1>3, <1>4, <1>5, <1>6 DEF handleCreateCommand

-----------------------------------------------------------------------------
(* Steps *)

LEMMA InitWorkspaceInv == WorkspaceInit => WorkspaceInv /\ ContentKeptInTeam
<1>. SUFFICES ASSUME WorkspaceInit PROVE WorkspaceInv /\ ContentKeptInTeam
  OBVIOUS
<1>1. SessionsSound
  BY InitInv DEF WorkspaceInit, Inv
<1>2. workspace = NoWorkspace /\ saved = NoWorkspace /\ ~running
  BY DEF WorkspaceInit, Init, workspace, NoWorkspace
<1>3. \A f \in Fds : queued[f] = <<>>
  BY DEF WorkspaceInit, Init, Silence
<1>4. ContentKeptInTeam
  BY <1>3 DEF ContentKeptInTeam
<1>. QED
  BY <1>1, <1>2, <1>4, EmptySound, SoundFiles DEF WorkspaceInv, AccountsKept

\* A session step adds accounts or none, and writes no file.
LEMMA SessionStepAccounts ==
  ASSUME NEW fd \in Fds, Accept(fd) \/ removeClientAt(fd) \/ Command(fd)
  PROVE  known \subseteq known' /\ disk' = disk /\ running' = running
<1>1. Accept(fd) \/ removeClientAt(fd) => known \subseteq known' /\ disk' = disk /\ running' = running
  BY DEF Accept, removeClientAt
<1>2. ASSUME NEW name, handleLoginCommand(fd, name)
      PROVE  known \subseteq known' /\ disk' = disk /\ running' = running
  BY <1>2 DEF handleLoginCommand, LoginNewUser, LoginExistingUser, completeLogin,
              Answer, sessionVars
<1>3. ASSUME NEW payload, handleLogoutCommand(fd, payload)
      PROVE  known \subseteq known' /\ disk' = disk /\ running' = running
  BY <1>3 DEF handleLogoutCommand, logoutSession, Answer, sessionVars
<1>4. ASSUME NEW c, handleUseCommand(fd, c)
      PROVE  known \subseteq known' /\ disk' = disk /\ running' = running
  BY <1>4 DEF handleUseCommand, setContext, Answer, sessionVars
<1>5. ASSUME NEW target, handleSendCommand(fd, target)
      PROVE  known \subseteq known' /\ disk' = disk /\ running' = running
  BY <1>5 DEF handleSendCommand, storeAndSend, Answer, sessionVars
<1>. QED
  BY <1>1, <1>2, <1>3, <1>4, <1>5 DEF Command

\* The packets of the sessions show nothing of any team.
LEMMA SessionPacketsShowNothing == QueuedTyped => ContentKeptInTeam
<1>1. \A p \in Packet : p.code \notin ContentCodes
  BY DEF Packet, StatusCodes, EventCodes, ContentCodes, ContentEvents, ContentLists
<1>. QED
  BY <1>1 DEF QueuedTyped, ContentKeptInTeam, ContentCodes

LEMMA SessionStepInv ==
  ASSUME WorkspaceInv, NEW fd \in Fds, SessionStep(fd)
  PROVE  WorkspaceInv' /\ ContentKeptInTeam'
<1>1. /\ Accept(fd) \/ removeClientAt(fd) \/ Command(fd)
      /\ UNCHANGED <<workspaceVars, fileVars>>
  BY DEF SessionStep, KeepWorkspace
<1>2. Inv'
  BY <1>1, SessionsStep DEF Next, WorkspaceInv
<1>3. workspace' = workspace /\ saved' = saved /\ accountsLost' = accountsLost
  BY <1>1 DEF workspace, workspaceVars, fileVars
<1>4. known \subseteq known' /\ disk' = disk /\ (running' => running)
  BY <1>1, SessionStepAccounts
<1>5. Accounts \subseteq Accounts'
  BY <1>3, <1>4 DEF Accounts, OrAnybody
<1>6. Sound(workspace, Accounts)'
  BY <1>3, <1>5, MoreAccounts DEF WorkspaceInv
<1>7. FilesSound(saved, OrAnybody(disk.users))' /\ AccountsKept'
  BY <1>3, <1>4 DEF WorkspaceInv, OrAnybody, AccountsKept
<1>8. ContentKeptInTeam'
  BY <1>2, SessionPacketsShowNothing, PTL DEF Inv
<1>. QED
  BY <1>2, <1>6, <1>7, <1>8 DEF WorkspaceInv, Inv

LEMMA WorkspaceCommandInv ==
  ASSUME WorkspaceInv, NEW fd \in Fds, WorkspaceCommand(fd)
  PROVE  WorkspaceInv' /\ ContentKeptInTeam'
<1>1. CommandKeeps
  BY SubscribeKeeps, UnsubscribeKeeps, SubscribedListKeeps, CreateKeeps,
     ListCommandKeeps, InfoCommandKeeps DEF WorkspaceCommand
<1>2. UNCHANGED <<sessionVars, fileVars>>
  BY DEF WorkspaceCommand, handleSubscribeCommand, handleUnsubscribeCommand,
         handleSubscribedListCommand, handleCreateCommand, handleListCommand,
         handleInfoCommand, Refuse, Reply, changeSubscribers, handleCreateTeam,
         handleCreateChannel, handleCreateThread, handleCreateReply
<1>3. SessionsSound'
  BY <1>2, SessionsStutter DEF WorkspaceInv
<1>4. FilesSound(saved, OrAnybody(disk.users))' /\ AccountsKept'
  BY <1>2 DEF WorkspaceInv, sessionVars, fileVars, OrAnybody, AccountsKept
<1>. QED
  BY <1>1, <1>3, <1>4 DEF CommandKeeps, WorkspaceInv

\* A process starts with what is left of the files.
LEMMA LoadInv ==
  ASSUME WorkspaceInv, load
  PROVE  WorkspaceInv' /\ ContentKeptInTeam'
<1>1. Inv'
  BY SessionsStep DEF load, Next, WorkspaceInv
<1>2. ContentKeptInTeam'
  BY <1>1, SessionPacketsShowNothing, PTL DEF Inv
<1>3. /\ known' = disk.users /\ disk' = disk /\ saved' = saved
      /\ accountsLost' = accountsLost
  BY DEF load, Start, fileVars
<1>. DEFINE w == loaded(saved)
<1>4. Sound(w, OrAnybody(disk.users))
  BY LoadedSound DEF WorkspaceInv
<1>5. workspace' = [teams |-> w.teams, subscribers |-> w.subscribers,
                    channels |-> w.channels, threads |-> w.threads,
                    replies |-> w.replies]
  BY DEF load, becomes, workspace
<1>. HIDE DEF w
<1>6. Sound(workspace', OrAnybody(disk.users))
  BY <1>4, <1>5, SameSound
<1>7. /\ Sound(workspace, Accounts)'
      /\ FilesSound(saved, OrAnybody(disk.users))'
      /\ AccountsKept'
  BY <1>3, <1>6 DEF WorkspaceInv, Accounts, OrAnybody, AccountsKept
<1>. QED
  BY <1>1, <1>2, <1>7 DEF WorkspaceInv, Inv

\* What a save leaves, file by file: the accounts are written before what names
\* them, so the files only name accounts of users.txt or users.txt is lost.
LEMMA SaveLeaves ==
  ASSUME WorkspaceInv, save
  PROVE  /\ disk' \in [users : SUBSET Users, online : SUBSET Users,
                       messages : Seq(Message)]
         /\ disk'.users \subseteq known \/ disk'.users = disk.users
         /\ FilesSound(saved, OrAnybody(disk.users))'
<1>. DEFINE left(reached, failed, file, old, new, parts) ==
              IF file \in failed THEN {old} \union parts
              ELSE IF file \in reached THEN {new} ELSE {old}
            flags(users) == [users |-> users, online |-> {u \in users : Online(u)}]
            R(n) == {outputFiles[i] : i \in 1 .. n}
            before == [users |-> disk.users, online |-> disk.online]
            cut == {flags(users) : users \in SUBSET known}
<1>1. PICK n \in Reached : \E failed \in SUBSET (FailingFiles \intersect R(n)) :
         /\ \E accounts \in left(R(n), failed, "users", before, flags(known), cut),
               private \in left(R(n), failed, "privateMessages", disk.messages,
                                messages, Prefixes(messages)) :
              disk' = [users |-> accounts.users, online |-> accounts.online,
                       messages |-> private]
         /\ saved' \in
              [teams : left(R(n), failed, "teams", saved.teams, teams, Prefixes(teams)),
               subscribers : left(R(n), failed, "team_subscriptions", saved.subscribers,
                                  subscribers, Beginnings(subscribers)),
               channels : left(R(n), failed, "channels", saved.channels, channels,
                               Beginnings(channels)),
               threads : left(R(n), failed, "threads", saved.threads, threads,
                              Beginnings(threads)),
               replies : left(R(n), failed, "messages", saved.replies, replies,
                              Beginnings(replies))]
         /\ accountsLost' = (accountsLost \/ "users" \in failed)
  BY Zenon DEF save
<1>2. PICK failed \in SUBSET (FailingFiles \intersect R(n)) :
         /\ \E accounts \in left(R(n), failed, "users", before, flags(known), cut),
               private \in left(R(n), failed, "privateMessages", disk.messages,
                                messages, Prefixes(messages)) :
              disk' = [users |-> accounts.users, online |-> accounts.online,
                       messages |-> private]
         /\ saved' \in
              [teams : left(R(n), failed, "teams", saved.teams, teams, Prefixes(teams)),
               subscribers : left(R(n), failed, "team_subscriptions", saved.subscribers,
                                  subscribers, Beginnings(subscribers)),
               channels : left(R(n), failed, "channels", saved.channels, channels,
                               Beginnings(channels)),
               threads : left(R(n), failed, "threads", saved.threads, threads,
                              Beginnings(threads)),
               replies : left(R(n), failed, "messages", saved.replies, replies,
                              Beginnings(replies))]
         /\ accountsLost' = (accountsLost \/ "users" \in failed)
  BY <1>1, Zenon
<1>3. PICK accounts \in left(R(n), failed, "users", before, flags(known), cut),
           private \in left(R(n), failed, "privateMessages", disk.messages, messages,
                            Prefixes(messages)) :
        disk' = [users |-> accounts.users, online |-> accounts.online,
                 messages |-> private]
  BY <1>2, Zenon
<1>4. /\ accounts \in {before, flags(known)} \union cut
      /\ private \in {disk.messages, messages} \union Prefixes(messages)
  BY <1>3
<1>5. /\ messages \in Seq(Message) /\ known \subseteq Users
      /\ disk \in [users : SUBSET Users, online : SUBSET Users,
                   messages : Seq(Message)]
      /\ running
  BY DEF WorkspaceInv, SessionsSound, StateTyped, save, Exit
<1>6. private \in Seq(Message)
  BY <1>4, <1>5, PrefixWithin
<1>7. accounts = before \/ \E users \in SUBSET known : accounts = flags(users)
  BY <1>4
<1>8. /\ accounts.users \in SUBSET Users /\ accounts.online \in SUBSET Users
      /\ accounts.users \subseteq known \/ accounts.users = disk.users
  BY <1>5, <1>7
<1>9. n = 0 \/ (n \in Nat /\ n >= 1)
  BY DEF Reached, outputFiles
<1>10. CASE n = 0
  <2>1. R(n) = {} /\ failed = {}
    BY <1>10
  <2>2. disk'.users = disk.users /\ saved' = [teams |-> saved.teams,
          subscribers |-> saved.subscribers, channels |-> saved.channels,
          threads |-> saved.threads, replies |-> saved.replies]
    <3>1. accounts = before
      BY <1>3, <2>1
    <3>2. saved' \in [teams : {saved.teams}, subscribers : {saved.subscribers},
                      channels : {saved.channels}, threads : {saved.threads},
                      replies : {saved.replies}]
      BY <1>2, <2>1
    <3>. QED
      BY <1>3, <3>1, <3>2
  <2>3. accountsLost' <=> accountsLost
    BY <1>2, <2>1
  <2>4. OrAnybody(disk.users)' = OrAnybody(disk.users)
    BY <2>2, <2>3 DEF OrAnybody
  <2>5. FilesSound(saved', OrAnybody(disk.users))
    BY <2>2 DEF WorkspaceInv, FilesSound
  <2>. QED
    BY <1>3, <1>6, <1>8, <2>4, <2>5
<1>11. CASE n \in Nat /\ n >= 1
  <2>. DEFINE A == OrAnybody(disk.users)'
  <2>1. "users" \in R(n)
    BY <1>11 DEF outputFiles
  <2>2. OrAnybody(disk.users) \subseteq A /\ Accounts \subseteq A
    <3>1. CASE accountsLost'
      BY <1>5, <3>1 DEF OrAnybody, Accounts
    <3>2. CASE ~accountsLost'
      <4>1. ~accountsLost /\ "users" \notin failed
        BY <1>2, <3>2
      <4>2. disk'.users = known
        BY <1>3, <2>1, <4>1
      <4>. QED
        BY <1>5, <3>2, <4>1, <4>2 DEF OrAnybody, Accounts, WorkspaceInv, AccountsKept
    <3>. QED
      BY <3>1, <3>2
  <2>3. FilesSound(saved, A)
    BY <2>2, MoreAccountsInFiles DEF WorkspaceInv
  <2>4. FilesSound(workspace, A)
    BY <2>2, SoundFiles, MoreAccountsInFiles DEF WorkspaceInv
  <2>. HIDE DEF A
  <2>5. /\ saved'.teams \in {saved.teams, teams} \union Prefixes(teams)
        /\ saved'.subscribers \in {saved.subscribers, subscribers}
                                  \union Beginnings(subscribers)
        /\ saved'.channels \in {saved.channels, channels} \union Beginnings(channels)
        /\ saved'.threads \in {saved.threads, threads} \union Beginnings(threads)
        /\ saved'.replies \in {saved.replies, replies} \union Beginnings(replies)
    BY <1>2
  <2>6. FilesSound(saved', A)
    BY <2>3, <2>4, <2>5, MixtureSound DEF workspace
  <2>. QED
    BY <1>3, <1>6, <1>8, <2>6 DEF A
<1>. QED
  BY <1>9, <1>10, <1>11

LEMMA EndInv ==
  ASSUME WorkspaceInv, save \/ crash
  PROVE  WorkspaceInv' /\ ContentKeptInTeam'
<1>1. Exit /\ becomes(NoWorkspace)
  BY DEF save, crash, Crash
<1>2. /\ disk' \in [users : SUBSET Users, online : SUBSET Users,
                    messages : Seq(Message)]
      /\ FilesSound(saved, OrAnybody(disk.users))'
  <2>1. CASE save
    BY <2>1, SaveLeaves
  <2>2. CASE crash
    BY <2>2 DEF crash, Crash, fileVars, OrAnybody, WorkspaceInv, SessionsSound,
                StateTyped
  <2>. QED
    BY <2>1, <2>2
<1>3. Inv'
  BY <1>1, <1>2, ExitInv DEF WorkspaceInv
<1>4. ContentKeptInTeam'
  BY <1>3, SessionPacketsShowNothing, PTL DEF Inv
<1>5. workspace' = NoWorkspace /\ ~running'
  BY <1>1 DEF Exit, becomes, workspace, NoWorkspace
<1>6. Sound(workspace, Accounts)' /\ AccountsKept'
  BY <1>5, EmptySound DEF AccountsKept
<1>. QED
  BY <1>2, <1>3, <1>4, <1>6 DEF WorkspaceInv, Inv

LEMMA ProcessInv ==
  ASSUME WorkspaceInv, load \/ save \/ crash
  PROVE  WorkspaceInv' /\ ContentKeptInTeam'
BY LoadInv, EndInv

LEMMA WorkspaceStep ==
  WorkspaceInv /\ ContentKeptInTeam /\ [WorkspaceNext]_allVars
    => WorkspaceInv' /\ ContentKeptInTeam'
<1>. SUFFICES ASSUME WorkspaceInv, ContentKeptInTeam, [WorkspaceNext]_allVars
              PROVE  WorkspaceInv' /\ ContentKeptInTeam'
  OBVIOUS
<1>1. CASE UNCHANGED allVars
  <2>1. UNCHANGED <<sessionVars, queued, workspaceVars, fileVars>>
    BY <1>1 DEF allVars, vars
  <2>2. SessionsSound'
    BY <2>1, SessionsStutter DEF WorkspaceInv
  <2>3. /\ workspace' = workspace /\ known' = known /\ disk' = disk
        /\ running' = running /\ saved' = saved /\ accountsLost' = accountsLost
    BY <2>1 DEF workspace, workspaceVars, sessionVars, fileVars
  <2>4. ContentKeptInTeam'
    BY <2>1 DEF ContentKeptInTeam, isUserSubscribed, workspaceVars, sessionVars
  <2>. QED
    BY <2>2, <2>3, <2>4 DEF WorkspaceInv, Accounts, OrAnybody, AccountsKept
<1>. QED
  BY <1>1, ProcessInv, SessionStepInv, WorkspaceCommandInv DEF WorkspaceNext

\* The invariant, and the property of packets that its steps give.
THEOREM WorkspaceInvariance ==
  WorkspaceSpec => [](WorkspaceInv /\ ContentKeptInTeam)
BY InitWorkspaceInv, WorkspaceStep, PTL DEF WorkspaceSpec

\* No connection is ever shown what is in a team its user is not subscribed to.
THEOREM TeamsPrivate == WorkspaceSpec => ContentStaysInTeam
BY WorkspaceInvariance, PTL DEF ContentStaysInTeam

\* A user is subscribed to a team once or not at all.
THEOREM SubscribedOnceAlways == WorkspaceSpec => []SubscribedOnce
<1>1. WorkspaceInv => SubscribedOnce
  BY DEF WorkspaceInv, Sound, SubscribedOnce, workspace
<1>. QED
  BY <1>1, WorkspaceInvariance, PTL

\* Names and uuids stay distinct, in memory and in the files, however each save
\* ended.
THEOREM EntriesStayDistinct == WorkspaceSpec => []EntriesDistinct
<1>1. WorkspaceInv => EntriesDistinct
  BY DEF WorkspaceInv, Sound, FilesSound, TeamsFile, ChannelsFile, ThreadsFile,
         EntriesDistinct, DistinctIn
<1>. QED
  BY <1>1, WorkspaceInvariance, PTL

\* Every uuid resolves, in memory and in what the files are loaded as, whichever
\* files each save left old, new or cut, unless users.txt itself was lost.
THEOREM ReferencesAlwaysResolve == WorkspaceSpec => []ReferencesResolve
<1>1. WorkspaceInv => ReferencesResolve
  <2>. SUFFICES ASSUME WorkspaceInv PROVE ReferencesResolve
    OBVIOUS
  <2>1. Resolves(workspace, OrAnybody(known))
    BY DEF WorkspaceInv, Sound, Accounts
  <2>2. Resolves(loaded(saved), OrAnybody(disk.users))
    BY LoadedSound DEF WorkspaceInv, Sound
  <2>. QED
    BY <2>1, <2>2 DEF ReferencesResolve, OrAnybody
<1>. QED
  BY <1>1, WorkspaceInvariance, PTL

\* The sessions' own invariant with every command of the server: no workspace
\* command disturbs the login counter or the routes.
THEOREM SessionsStaySound == WorkspaceSpec => [](LoginsCountSessions /\ RoutesSound)
<1>1. WorkspaceInv => LoginsCountSessions /\ RoutesSound
  BY DEF WorkspaceInv, SessionsSound
<1>. QED
  BY <1>1, WorkspaceInvariance, PTL

-----------------------------------------------------------------------------
(* The content of a team *)

ChannelsIn(t) == IdsOf(channels[t])
ThreadsIn(t) == UNION {IdsOf(threads[ch]) : ch \in ChannelsIn(t)}

LEMMA ContentSame ==
  ASSUME NEW t, channels'[t] = channels[t],
         \A ch \in ChannelsIn(t) : threads'[ch] = threads[ch],
         \A th \in ThreadsIn(t) : replies'[th] = replies[th]
  PROVE  TeamContent(t)' = TeamContent(t)
<1>1. TeamContent(t) = <<channels[t], [ch \in ChannelsIn(t) |-> threads[ch]],
                         [th \in ThreadsIn(t) |-> replies[th]]>>
  BY DEF TeamContent, ChannelsIn, ThreadsIn, IdsOf
<1>2. TeamContent(t)' = <<channels'[t], [ch \in ChannelsIn(t)' |-> threads'[ch]],
                          [th \in ThreadsIn(t)' |-> replies'[th]]>>
  BY DEF TeamContent, ChannelsIn, ThreadsIn, IdsOf
<1>3. ChannelsIn(t)' = ChannelsIn(t)
  BY DEF ChannelsIn
<1>4. ThreadsIn(t)' = ThreadsIn(t)
  BY <1>3 DEF ThreadsIn
<1>5. [ch \in ChannelsIn(t)' |-> threads'[ch]] = [ch \in ChannelsIn(t) |-> threads[ch]]
  BY <1>3
<1>6. [th \in ThreadsIn(t)' |-> replies'[th]] = [th \in ThreadsIn(t) |-> replies[th]]
  BY <1>4
<1>. QED
  BY <1>1, <1>2, <1>5, <1>6

\* A channel is in one team, a thread in one channel and so in one team.
LEMMA OneTeam ==
  ASSUME WorkspaceInv, NEW t \in Teams, NEW s \in Teams \ {t}
  PROVE  /\ \A ch : Has(channels[t], ch) => ch \notin ChannelsIn(s)
         /\ \A ch \in Channels, th \in Threads :
              Has(channels[t], ch) /\ Has(threads[ch], th) => th \notin ThreadsIn(s)
<1>1. /\ Disjoint(channels) /\ Disjoint(threads)
      /\ DOMAIN channels = Teams /\ DOMAIN threads = Channels
      /\ channels[s] \in Seq(ChannelEntries)
  BY DEF WorkspaceInv, Sound, Typed, DistinctIn, workspace
<1>2. ASSUME NEW ch, Has(channels[t], ch)
      PROVE  ch \notin ChannelsIn(s)
  <2>1. PICK i \in DOMAIN channels[t] : channels[t][i].id = ch
    BY <1>2 DEF Has
  <2>2. ~Has(channels[s], ch)
    BY <1>1, <2>1 DEF Disjoint
  <2>. QED
    BY <2>2 DEF ChannelsIn, IdsOf, Has
<1>3. ASSUME NEW ch \in Channels, NEW th, Has(channels[t], ch), Has(threads[ch], th)
      PROVE  th \notin ThreadsIn(s)
  <2>. SUFFICES ASSUME NEW o \in ChannelsIn(s), th \in IdsOf(threads[o])
                PROVE  FALSE
    BY DEF ThreadsIn
  <2>1. o \in Channels
    <3>1. PICK i \in DOMAIN channels[s] : channels[s][i].id = o
      BY DEF ChannelsIn, IdsOf
    <3>2. channels[s][i] \in ChannelEntries
      BY <1>1, <3>1
    <3>. QED
      BY <3>1, <3>2 DEF ChannelEntries
  <2>2. o # ch
    BY <1>2, <1>3
  <2>3. PICK i \in DOMAIN threads[ch] : threads[ch][i].id = th
    BY <1>3 DEF Has
  <2>4. ~Has(threads[o], th)
    BY <1>1, <2>1, <2>2, <2>3 DEF Disjoint
  <2>. QED
    BY <2>4 DEF IdsOf, Has
<1>. QED
  BY <1>2, <1>3

\* The property of one step.
WrittenAndAnnounced ==
  \A t \in Teams : TeamContent(t)' # TeamContent(t) =>
    /\ \E fd \in conns : /\ context[fd].team = t
                         /\ byFd[fd] # NoUser
                         /\ isUserSubscribed(t, byFd[fd])
                         /\ queued'[fd][1].code = "RPL_CREATED"
    /\ \A s \in Teams \ {t} : TeamContent(s)' = TeamContent(s)
    /\ \A f \in Fds :
         (\E i \in DOMAIN queued'[f] : queued'[f][i].code \in ContentEvents)
         <=> (byFd[f] # NoUser /\ isUserSubscribed(t, byFd[f]))

LEMMA NothingWritten ==
  UNCHANGED <<channels, threads, replies>> => WrittenAndAnnounced
BY ContentSame DEF WrittenAndAnnounced

\* The creation of an item of team t: the other teams stay as they are, and
\* announceCreation tells its subscribers.
LEMMA CreationAnnounced ==
  ASSUME WorkspaceInv, NEW fd \in conns, NEW t \in Teams, context[fd].team = t,
         byFd[fd] # NoUser, isUserSubscribed(t, byFd[fd]),
         NEW event \in ContentEvents, NEW item, announceCreation(fd, t, event, item),
         \A s \in Teams \ {t} : TeamContent(s)' = TeamContent(s)
  PROVE  WrittenAndAnnounced
<1>. DEFINE p == Content("RPL_CREATED", t, item)
            q == Content(event, t, item)
            R == {f \in Authenticated : isUserSubscribed(t, byFd[f])}
            packets == Then(To({fd}, p), To(R, q))
<1>1. p.code = "RPL_CREATED" /\ q.code = event /\ "RPL_CREATED" \notin ContentEvents
  BY DEF Content, ContentEvents
<1>2. queued' = [f \in Fds |-> IF f \in conns THEN packets[f] ELSE <<>>]
  BY DEF announceCreation, queuePacketToTeamSubscribers, Queue
<1>3. \A f \in Fds : f \in R <=> byFd[f] # NoUser /\ isUserSubscribed(t, byFd[f])
  BY DEF Authenticated
<1>4. R \subseteq conns /\ conns \subseteq Fds
  BY DEF WorkspaceInv, SessionsSound, SessionsAnchored, StateTyped, Authenticated
<1>5. fd \in R /\ fd \in Fds
  BY <1>3, <1>4
<1>6. \A f \in Fds : packets[f] = (IF f = fd THEN <<p>> ELSE <<>>)
                                  \o (IF f \in R THEN <<q>> ELSE <<>>)
  BY DEF Then, To
<1>. HIDE DEF p, q, R
<1>7. <<p>> \in Seq({p, q}) /\ <<q>> \in Seq({p, q}) /\ <<>> \in Seq({p, q})
  OBVIOUS
<1>8. /\ (<<p>> \o <<q>>)[1] = p /\ (<<p>> \o <<q>>)[2] = q
      /\ 2 \in DOMAIN (<<p>> \o <<q>>)
      /\ (<<>> \o <<q>>)[1] = q /\ 1 \in DOMAIN (<<>> \o <<q>>)
      /\ <<>> \o <<>> = <<>>
  BY <1>7
<1>9. queued'[fd][1] = p
  BY <1>2, <1>5, <1>6, <1>8
<1>10. ASSUME NEW f \in Fds
       PROVE  (\E i \in DOMAIN queued'[f] : queued'[f][i].code \in ContentEvents)
              <=> f \in R
  <2>1. CASE f \in R
    <3>1. queued'[f] = (IF f = fd THEN <<p>> ELSE <<>>) \o <<q>>
      BY <1>2, <1>4, <1>6, <2>1
    <3>2. \E i \in DOMAIN queued'[f] : queued'[f][i] = q
      BY <1>8, <3>1
    <3>. QED
      BY <1>1, <2>1, <3>2
  <2>2. CASE f \notin R
    <3>1. queued'[f] = <<>>
      BY <1>2, <1>5, <1>6, <1>8, <2>2
    <3>. QED
      BY <2>2, <3>1
  <2>. QED
    BY <2>1, <2>2
<1>. QED
  BY <1>1, <1>3, <1>9, <1>10 DEF WrittenAndAnnounced

LEMMA CreateWrites ==
  ASSUME WorkspaceInv, NEW fd \in Fds, NEW p \in CreatePayload,
         handleCreateCommand(fd, p)
  PROVE  WrittenAndAnnounced
<1>. DEFINE c == context[fd]
            u == byFd[fd]
            status == createStatus(fd, p)
<1>1. CASE Refuse(fd, status)
  BY <1>1, NothingWritten DEF Refuse, Reply, workspaceVars
<1>2. CASE handleCreateTeam(fd, p.text)
  BY <1>2, NothingWritten DEF handleCreateTeam
<1>3. ASSUME status = "RPL_OK", c.team # None
      PROVE  /\ c.team \in Teams /\ u # NoUser /\ isUserSubscribed(c.team, u)
             /\ c.channel # None => /\ c.channel \in Channels
                                    /\ Has(channels[c.team], c.channel)
             /\ c.thread # None => /\ c.channel # None
                                   /\ c.thread \in Threads
                                   /\ Has(threads[c.channel], c.thread)
  <2>1. c \in Contexts /\ u \in known /\ resolveContext(u, c) = "RPL_OK"
    BY <1>3, CreateStatuses
  <2>2. u # NoUser
    BY <2>1, NoUserIsNoUser DEF WorkspaceInv, SessionsSound, StateTyped
  <2>. QED
    BY <1>3, <2>1, <2>2, Resolved
<1>4. /\ channels \in [Teams -> Seq(ChannelEntries)]
      /\ threads \in [Channels -> Seq(ThreadEntries)]
      /\ replies \in [Threads -> Seq(Users)]
      /\ fd \in conns
  BY DEF WorkspaceInv, Sound, Typed, workspace, handleCreateCommand
<1>5. c.channel # None => c.team # None
  BY ContextsCombine DEF WorkspaceInv, SessionsSound, StateTyped
<1>6. /\ "EVT_CHANNEL_CREATED" \in ContentEvents
      /\ "EVT_THREAD_CREATED" \in ContentEvents
      /\ "EVT_REPLY_CREATED" \in ContentEvents
  BY DEF ContentEvents
<1>7. CASE status = "RPL_OK" /\ c.team # None /\ handleCreateChannel(fd, p.text)
  <2>1. PICK id \in Channels :
          /\ channels' = [channels EXCEPT ![c.team] = Append(@, Entry(id, p.text))]
          /\ announceCreation(fd, c.team, "EVT_CHANNEL_CREATED", Entry(id, p.text))
          /\ UNCHANGED <<threads, replies>>
    BY <1>7 DEF handleCreateChannel
  <2>2. \A s \in Teams \ {c.team} : channels'[s] = channels[s]
    BY <1>4, <2>1
  <2>3. \A s \in Teams \ {c.team} : TeamContent(s)' = TeamContent(s)
    BY <2>1, <2>2, ContentSame
  <2>. QED
    BY <1>3, <1>4, <1>6, <1>7, <2>1, <2>3, CreationAnnounced
<1>8. CASE status = "RPL_OK" /\ c.channel # None /\ handleCreateThread(fd, p.text)
  <2>1. PICK id \in Threads :
          LET thread == ThreadEntry(id, p.text, u) IN
          /\ threads' = [threads EXCEPT ![c.channel] = Append(@, thread)]
          /\ announceCreation(fd, c.team, "EVT_THREAD_CREATED", thread)
          /\ UNCHANGED <<channels, replies>>
    BY <1>8 DEF handleCreateThread
  <2>2. ASSUME NEW s \in Teams \ {c.team}
        PROVE  TeamContent(s)' = TeamContent(s)
    <3>1. c.channel \notin ChannelsIn(s)
      BY <1>3, <1>5, <1>8, OneTeam
    <3>2. \A ch \in ChannelsIn(s) : threads'[ch] = threads[ch]
      BY <1>4, <2>1, <3>1
    <3>. QED
      BY <2>1, <3>2, ContentSame
  <2>. QED
    BY <1>3, <1>4, <1>5, <1>6, <1>8, <2>1, <2>2, CreationAnnounced
<1>9. CASE status = "RPL_OK" /\ c.thread # None /\ handleCreateReply(fd)
  <2>1. LET reply == ThreadEntry(c.thread, None, u) IN
        /\ replies' = [replies EXCEPT ![c.thread] = Append(@, u)]
        /\ announceCreation(fd, c.team, "EVT_REPLY_CREATED", reply)
        /\ UNCHANGED <<channels, threads>>
    BY <1>9 DEF handleCreateReply
  <2>2. c.channel # None /\ c.team # None
    BY <1>5, <1>9, ContextsCombine DEF WorkspaceInv, SessionsSound, StateTyped
  <2>3. ASSUME NEW s \in Teams \ {c.team}
        PROVE  TeamContent(s)' = TeamContent(s)
    <3>1. c.thread \notin ThreadsIn(s)
      BY <1>3, <1>9, <2>2, OneTeam
    <3>2. \A th \in ThreadsIn(s) : replies'[th] = replies[th]
      BY <1>4, <2>1, <3>1
    <3>. QED
      BY <2>1, <3>2, ContentSame
  <2>. QED
    BY <1>3, <1>4, <1>6, <1>9, <2>1, <2>2, <2>3, CreationAnnounced
<1>. QED
  BY <1>1, <1>2, <1>5, <1>7, <1>8, <1>9, ContextsCombine
     DEF handleCreateCommand, WorkspaceInv, SessionsSound, StateTyped

LEMMA StepWrites ==
  WorkspaceInv /\ [WorkspaceNext]_allVars =>
    (running /\ running' => WrittenAndAnnounced)
<1>. SUFFICES ASSUME WorkspaceInv, [WorkspaceNext]_allVars, running, running'
              PROVE  WrittenAndAnnounced
  OBVIOUS
<1>1. CASE UNCHANGED allVars
  BY <1>1, NothingWritten DEF allVars, workspaceVars
<1>2. ~load /\ ~save /\ ~crash
  BY DEF load, save, crash, Start, Stop, Crash, Exit
<1>3. ASSUME NEW fd \in Fds, SessionStep(fd)
      PROVE  WrittenAndAnnounced
  BY <1>3, NothingWritten DEF SessionStep, KeepWorkspace, workspaceVars
<1>4. ASSUME NEW fd \in Fds, WorkspaceCommand(fd)
      PROVE  WrittenAndAnnounced
  <2>1. CASE \E p \in CreatePayload : handleCreateCommand(fd, p)
    BY <2>1, CreateWrites
  <2>2. CASE \E t \in Teams \union {BadText} :
               handleSubscribeCommand(fd, t) \/ handleUnsubscribeCommand(fd, t)
    BY <2>2, NothingWritten
       DEF handleSubscribeCommand, handleUnsubscribeCommand, changeSubscribers,
           Refuse, Reply, workspaceVars
  <2>3. CASE \E t \in Teams \union {BadText, Nothing} :
               handleSubscribedListCommand(fd, t)
    BY <2>3, NothingWritten DEF handleSubscribedListCommand, Refuse, Reply, workspaceVars
  <2>4. CASE \E payload \in {Nothing, BadSize} :
               handleListCommand(fd, payload) \/ handleInfoCommand(fd, payload)
    BY <2>4, NothingWritten
       DEF handleListCommand, handleInfoCommand, Refuse, Reply, workspaceVars
  <2>. QED
    BY <1>4, <2>1, <2>2, <2>3, <2>4 DEF WorkspaceCommand
<1>. QED
  BY <1>1, <1>2, <1>3, <1>4 DEF WorkspaceNext

\* What is in a team changes only by a command of one of its subscribers, with
\* no other team, and exactly its subscribers are told.
THEOREM WritesAnnounced == WorkspaceSpec => ContentWrittenAndAnnouncedInTeam
<1>1. WorkspaceInv /\ [WorkspaceNext]_allVars =>
        [running /\ running' => WrittenAndAnnounced]_allVars
  BY StepWrites
<1>. QED
  BY <1>1, WorkspaceInvariance, PTL
     DEF WorkspaceSpec, ContentWrittenAndAnnouncedInTeam, WrittenAndAnnounced

-----------------------------------------------------------------------------
(* Whole answers *)

WholeAnswerTo(fd, packets) ==
  \A f \in Fds : IF f = fd THEN WholeAnswer(packets[f])
                 ELSE AnswerPlaces(packets[f]) = {}

LEMMA OneIsWhole ==
  ASSUME NEW s, NEW n \in Nat, AnswerPlaces(s) = {n}
  PROVE  WholeAnswer(s)
BY DEF WholeAnswer

LEMMA QueuedWhole ==
  ASSUME NEW fd \in conns, NEW packets, WholeAnswerTo(fd, packets), Queue(packets)
  PROVE  WholeAnswerTo(fd, queued')
<1>1. AnswerPlaces(<<>>) = {}
  BY DEF AnswerPlaces
<1>. QED
  BY <1>1 DEF Queue, WholeAnswerTo

\* One reply, and events of at most one kind behind it.
LEMMA ReplyWhole ==
  ASSUME NEW fd, NEW p, p.code \notin AllEventCodes
  PROVE  /\ WholeAnswerTo(fd, To({fd}, p))
         /\ \A R, q : q.code \in AllEventCodes =>
              WholeAnswerTo(fd, Then(To({fd}, p), To(R, q)))
<1>1. AnswerPlaces(<<>>) = {} /\ AnswerPlaces(<<p>>) = {1}
  BY DEF AnswerPlaces
<1>2. ASSUME NEW q, q.code \in AllEventCodes
      PROVE  /\ AnswerPlaces(<<p>> \o <<q>>) = {1} /\ AnswerPlaces(<<>> \o <<q>>) = {}
             /\ <<p>> \o <<>> = <<p>> /\ <<>> \o <<>> = <<>>
  <2>1. <<p>> \in Seq({p, q}) /\ <<q>> \in Seq({p, q}) /\ <<>> \in Seq({p, q})
    OBVIOUS
  <2>2. /\ DOMAIN (<<p>> \o <<q>>) = {1, 2}
        /\ (<<p>> \o <<q>>)[1] = p /\ (<<p>> \o <<q>>)[2] = q
        /\ <<>> \o <<q>> = <<q>> /\ <<p>> \o <<>> = <<p>> /\ <<>> \o <<>> = <<>>
    BY <2>1
  <2>3. AnswerPlaces(<<q>>) = {}
    BY <1>2 DEF AnswerPlaces
  <2>4. AnswerPlaces(<<p>> \o <<q>>) = {1}
    BY <1>2, <2>2 DEF AnswerPlaces
  <2>. QED
    BY <2>2, <2>3, <2>4
<1>3. WholeAnswerTo(fd, To({fd}, p))
  BY <1>1, OneIsWhole DEF WholeAnswerTo, To
<1>4. ASSUME NEW R, NEW q, q.code \in AllEventCodes
      PROVE  WholeAnswerTo(fd, Then(To({fd}, p), To(R, q)))
  <2>1. \A f \in Fds : Then(To({fd}, p), To(R, q))[f]
                         = (IF f = fd THEN <<p>> ELSE <<>>) \o (IF f \in R THEN <<q>> ELSE <<>>)
    BY DEF Then, To
  <2>2. ASSUME NEW f \in Fds
        PROVE  AnswerPlaces(Then(To({fd}, p), To(R, q))[f]) = IF f = fd THEN {1} ELSE {}
    BY <1>1, <1>2, <1>4, <2>1
  <2>. QED
    BY <2>2, OneIsWhole DEF WholeAnswerTo
<1>. QED
  BY <1>3, <1>4

\* A list of elements of one code, and the RPL_OK behind it.
LEMMA ArrayWhole ==
  ASSUME NEW fd, NEW T, NEW packets \in Seq(T), NEW code, code \notin AllEventCodes,
         \A i \in DOMAIN packets : packets[i].code = code
  PROVE  WholeAnswerTo(fd, queuePayloadArray(fd, packets))
<1>. DEFINE ok == Status("RPL_OK")
            s == Append(packets, ok)
            last == Len(packets) + 1
<1>1. ok.code \notin AllEventCodes
  BY DEF Status, AllEventCodes, EventCodes, ContentEvents
<1>. HIDE DEF ok
<1>2. /\ DOMAIN s = 1 .. last /\ last \in Nat \ {0} /\ s[last] = ok
      /\ DOMAIN packets = 1 .. last - 1
      /\ \A i \in 1 .. last - 1 : s[i] = packets[i]
  OBVIOUS
<1>. HIDE DEF s, last
<1>3. AnswerPlaces(s) = 1 .. last
  BY <1>1, <1>2 DEF AnswerPlaces
<1>4. \A i \in 1 .. last : i # last => i \in DOMAIN packets /\ s[i].code = code
  BY <1>2
<1>5. /\ last \in AnswerPlaces(s) /\ \A i \in AnswerPlaces(s) : i <= last
      /\ \A i, j \in AnswerPlaces(s) \ {last} : s[i].code = s[j].code
  BY <1>2, <1>3, <1>4
<1>6. WholeAnswer(s)
  <2>1. s[last] = Status("RPL_OK")
    BY <1>2 DEF ok
  <2>2. \E k \in AnswerPlaces(s) :
          /\ \A i \in AnswerPlaces(s) : i <= k
          /\ AnswerPlaces(s) # {k} => s[k] = Status("RPL_OK")
          /\ \A i, j \in AnswerPlaces(s) \ {k} : s[i].code = s[j].code
    BY <1>5, <2>1
  <2>. QED
    BY <2>2 DEF WholeAnswer
<1>7. AnswerPlaces(<<>>) = {}
  BY DEF AnswerPlaces
<1>8. \A f \in Fds : queuePayloadArray(fd, packets)[f] = IF f = fd THEN s ELSE <<>>
  BY DEF queuePayloadArray, s, ok
<1>. QED
  BY <1>6, <1>7, <1>8 DEF WholeAnswerTo

\* The same, for the elements of a vector.
LEMMA EachWhole ==
  ASSUME NEW fd, NEW T, NEW s \in Seq(T), NEW packets, NEW code,
         code \notin AllEventCodes,
         DOMAIN packets = DOMAIN s, packets = [i \in DOMAIN packets |-> packets[i]],
         \A i \in DOMAIN s : packets[i].code = code
  PROVE  WholeAnswerTo(fd, queuePayloadArray(fd, packets))
<1>1. DOMAIN s = 1 .. Len(s) /\ Len(s) \in Nat
  OBVIOUS
<1>. DEFINE V == {packets[i] : i \in DOMAIN s}
<1>2. packets = [i \in 1 .. Len(s) |-> packets[i]] /\ \A i \in 1 .. Len(s) : packets[i] \in V
  BY <1>1
<1>. HIDE DEF V
<1>3. packets \in Seq(V)
  BY <1>1, <1>2
<1>. QED
  BY <1>3, ArrayWhole

\* What a step answers, and to whom.
AnswersWhole == \E fd \in conns : WholeAnswerTo(fd, queued')

LEMMA OneReplyWhole ==
  ASSUME NEW fd \in conns, NEW p, p.code \notin AllEventCodes, Queue(To({fd}, p))
  PROVE  AnswersWhole
BY ReplyWhole, QueuedWhole DEF AnswersWhole

LEMMA RefuseWhole ==
  ASSUME NEW fd \in conns, NEW code \in StatusCodes, Refuse(fd, code)
  PROVE  AnswersWhole
BY OneReplyWhole DEF Refuse, Reply, Status, StatusCodes, AllEventCodes, EventCodes,
                     ContentEvents

LEMMA OkWhole ==
  ASSUME NEW fd \in conns, Reply(To({fd}, Status("RPL_OK")))
  PROVE  AnswersWhole
BY RefuseWhole DEF Refuse, StatusCodes

LEMMA ListWhole ==
  ASSUME NEW fd \in conns, NEW T, NEW s \in Seq(T), NEW packets, NEW code,
         code \notin AllEventCodes,
         DOMAIN packets = DOMAIN s, packets = [i \in DOMAIN packets |-> packets[i]],
         \A i \in DOMAIN s : packets[i].code = code,
         Reply(queuePayloadArray(fd, packets))
  PROVE  AnswersWhole
BY EachWhole, QueuedWhole DEF AnswersWhole, Reply

\* The commands of the sessions: one reply, and every other packet an event.
LEMMA SessionCommandWhole ==
  ASSUME WorkspaceInv, NEW fd \in Fds, Command(fd)
  PROVE  AnswersWhole
<1>1. fd \in conns /\ CommandAnswers(fd)
  BY CommandsAnswerOnce DEF WorkspaceInv
<1>2. PICK packets : Queue(packets) /\ ReplyTo(fd, packets)
  BY <1>1 DEF CommandAnswers
<1>3. queued' \in [Fds -> Seq(Packet)]
  <2>1. Inv'
    BY SessionsStep DEF Next, WorkspaceInv
  <2>. QED
    BY <2>1 DEF Inv, QueuedTyped
<1>4. /\ \A c \in StatusCodes : c \notin AllEventCodes
      /\ \A p \in Packet : p.code \in AllEventCodes \/ p.code \in StatusCodes
  BY DEF Packet, StatusCodes, AllEventCodes, EventCodes, ContentEvents
<1>5. ASSUME NEW f \in Fds
      PROVE  AnswerPlaces(queued'[f]) = Replies(queued'[f]) /\ Replies(queued'[f]) \subseteq Nat
  BY <1>3, <1>4 DEF AnswerPlaces, Replies
<1>6. WholeAnswer(queued'[fd])
  <2>1. queued'[fd] = packets[fd] /\ SingleReply(packets[fd])
    BY <1>1, <1>2 DEF Queue, ReplyTo
  <2>2. PICK n : Replies(queued'[fd]) = {n}
    BY <2>1 DEF SingleReply
  <2>. QED
    BY <1>5, <2>2, OneIsWhole
<1>7. ASSUME NEW f \in Fds, f # fd
      PROVE  AnswerPlaces(queued'[f]) = {}
  <2>1. Replies(<<>>) = {}
    BY DEF Replies
  <2>. QED
    BY <1>2, <1>5, <1>7, <2>1 DEF Queue, ReplyTo, NoReply
<1>. QED
  BY <1>1, <1>6, <1>7 DEF AnswersWhole, WholeAnswerTo

LEMMA SubscriptionWhole ==
  ASSUME NEW fd \in Fds, NEW target,
         handleSubscribeCommand(fd, target) \/ handleUnsubscribeCommand(fd, target)
  PROVE  AnswersWhole
<1>1. fd \in conns
  BY DEF handleSubscribeCommand, handleUnsubscribeCommand
<1>2. "RPL_USERS_LIST" \notin AllEventCodes
  BY DEF AllEventCodes, EventCodes, ContentEvents
<1>3. \A after : changeSubscribers(fd, after) => AnswersWhole
  BY <1>1, <1>2, OneReplyWhole DEF changeSubscribers, Event
<1>4. subscriptionStatus(fd, target) \in StatusCodes
  BY SubscriptionStatuses
<1>. QED
  BY <1>1, <1>3, <1>4, RefuseWhole, OkWhole
     DEF handleSubscribeCommand, handleUnsubscribeCommand

LEMMA SubscribedListWhole ==
  ASSUME WorkspaceInv, NEW fd \in Fds, NEW target,
         handleSubscribedListCommand(fd, target)
  PROVE  AnswersWhole
<1>. DEFINE status == IF target = Nothing /\ byFd[fd] \in known
                        THEN "RPL_OK" ELSE subscriptionStatus(fd, target)
            own == Among(teams,
                         {t \in ToSet(teams) : isUserSubscribed(t.id, byFd[fd])})
            found == Among(subscribers[target], known)
            ownPackets == Each(own, LAMBDA t : Event("RPL_SUBSCRIBED_LIST", t))
            foundPackets == Each(found, LAMBDA u : Event("RPL_USERS_LIST", Shown(u)))
<1>0. fd \in conns
  BY DEF handleSubscribedListCommand
<1>1. CASE status # "RPL_OK" /\ Refuse(fd, status)
  <2>1. status \in StatusCodes
    BY SubscriptionStatuses DEF StatusCodes
  <2>. QED
    BY <1>0, <1>1, <2>1, RefuseWhole
<1>2. CASE Reply(queuePayloadArray(fd, ownPackets))
  <2>1. own \in Seq(TeamEntries)
    <3>1. teams \in Seq(TeamEntries)
      BY DEF WorkspaceInv, Sound, Typed, workspace
    <3>. QED
      BY <3>1, AmongFilters DEF Filters
  <2>. HIDE DEF own
  <2>2. ownPackets = [i \in DOMAIN own |-> Event("RPL_SUBSCRIBED_LIST", own[i])]
    BY DEF Each
  <2>. HIDE DEF ownPackets
  <2>3. /\ \A i \in DOMAIN own : ownPackets[i].code = "RPL_SUBSCRIBED_LIST"
        /\ "RPL_SUBSCRIBED_LIST" \notin AllEventCodes
    BY <2>2 DEF Event, AllEventCodes, EventCodes, ContentEvents
  <2>. QED
    BY <1>0, <1>2, <2>1, <2>2, <2>3, ListWhole
<1>3. CASE /\ status = "RPL_OK" /\ target # Nothing
           /\ Reply(queuePayloadArray(fd, foundPackets))
  <2>1. found \in Seq(Users)
    <3>1. target \in Teams
      BY <1>3 DEF subscriptionStatus, parseTeamUuidFromPayload
    <3>2. subscribers[target] \in Seq(Users)
      BY <3>1 DEF WorkspaceInv, Sound, Typed, workspace
    <3>. QED
      BY <3>2, AmongFilters DEF Filters
  <2>. HIDE DEF found
  <2>2. foundPackets = [i \in DOMAIN found |-> Event("RPL_USERS_LIST", Shown(found[i]))]
    BY DEF Each
  <2>. HIDE DEF foundPackets
  <2>3. /\ \A i \in DOMAIN found : foundPackets[i].code = "RPL_USERS_LIST"
        /\ "RPL_USERS_LIST" \notin AllEventCodes
    BY <2>2 DEF Event, AllEventCodes, EventCodes, ContentEvents
  <2>. QED
    BY <1>0, <1>3, <2>1, <2>2, <2>3, ListWhole
<1>. QED
  BY <1>1, <1>2, <1>3 DEF handleSubscribedListCommand

LEMMA CreateWhole ==
  ASSUME WorkspaceInv, NEW fd \in Fds, NEW p, handleCreateCommand(fd, p)
  PROVE  AnswersWhole
<1>1. fd \in conns /\ createStatus(fd, p) \in StatusCodes
  BY CreateStatuses DEF handleCreateCommand
<1>2. /\ "RPL_CREATED" \notin AllEventCodes
      /\ {"EVT_TEAM_CREATED", "EVT_CHANNEL_CREATED", "EVT_THREAD_CREATED",
          "EVT_REPLY_CREATED"} \subseteq AllEventCodes
  BY DEF AllEventCodes, EventCodes, ContentEvents
<1>3. ASSUME NEW r, NEW R, NEW q, r.code = "RPL_CREATED", q.code \in AllEventCodes,
             Queue(Then(To({fd}, r), To(R, q)))
      PROVE  AnswersWhole
  BY <1>1, <1>2, <1>3, ReplyWhole, QueuedWhole DEF AnswersWhole
<1>4. ASSUME NEW t, NEW event \in AllEventCodes, NEW item, announceCreation(fd, t, event, item)
      PROVE  AnswersWhole
  <2>1. Content("RPL_CREATED", t, item).code = "RPL_CREATED" /\ Content(event, t, item).code = event
    BY DEF Content
  <2>. QED
    BY <1>3, <1>4, <2>1 DEF announceCreation, queuePacketToTeamSubscribers
<1>5. ASSUME NEW name, handleCreateTeam(fd, name)
      PROVE  AnswersWhole
  <2>1. PICK id : Queue(Then(To({fd}, Event("RPL_CREATED", Entry(id, name))),
                             To(Authenticated, Event("EVT_TEAM_CREATED", Entry(id, name)))))
    BY <1>5 DEF handleCreateTeam, queuePacketToLogedUser
  <2>2. \A c, e : Event(c, e).code = c
    BY DEF Event
  <2>. QED
    BY <1>2, <1>3, <2>1, <2>2
<1>6. ASSUME NEW name, (handleCreateChannel(fd, name) \/ handleCreateThread(fd, name)
                          \/ handleCreateReply(fd))
      PROVE  AnswersWhole
  BY <1>2, <1>4, <1>6 DEF handleCreateChannel, handleCreateThread, handleCreateReply
<1>. QED
  BY <1>1, <1>5, <1>6, RefuseWhole DEF handleCreateCommand

LEMMA ListCommandWhole ==
  ASSUME WorkspaceInv, NEW fd \in Fds, NEW payload, handleListCommand(fd, payload)
  PROVE  AnswersWhole
<1>. DEFINE c == context[fd]
            u == byFd[fd]
            status == contextStatus(fd, payload)
            packets == listEntries(c)
<1>0. fd \in conns
  BY DEF handleListCommand
<1>1. CASE status # "RPL_OK" /\ Refuse(fd, status)
  BY <1>0, <1>1, RefuseWhole, ContextStatuses
<1>2. CASE status = "RPL_OK" /\ Reply(queuePayloadArray(fd, packets))
  <2>1. c \in Contexts /\ u # NoUser /\ resolveContext(u, c) = "RPL_OK"
    BY <1>2, ContextStatuses
  <2>2. (c.channel # None => c.team # None) /\ (c.thread # None => c.channel # None)
    BY <2>1, ContextsCombine
  <2>3. /\ c.team # None => c.team \in Teams
        /\ c.channel # None => c.channel \in Channels
        /\ c.thread # None => c.thread \in Threads
    BY <2>1, Resolved
  <2>4. /\ teams \in Seq(TeamEntries)
        /\ channels \in [Teams -> Seq(ChannelEntries)]
        /\ threads \in [Channels -> Seq(ThreadEntries)]
        /\ replies \in [Threads -> Seq(Users)]
    BY DEF WorkspaceInv, Sound, Typed, workspace
  <2>5. {"RPL_TEAMS_LIST", "RPL_CHANNELS_LIST", "RPL_THREADS_LIST", "RPL_REPLIES_LIST"}
          \intersect AllEventCodes = {}
    BY DEF AllEventCodes, EventCodes, ContentEvents
  <2>6. ASSUME NEW T, NEW s \in Seq(T), NEW code, code \notin AllEventCodes,
               DOMAIN packets = DOMAIN s, packets = [i \in DOMAIN packets |-> packets[i]],
               \A i \in DOMAIN s : packets[i].code = code
        PROVE  AnswersWhole
    BY <1>0, <1>2, <2>6, ListWhole
  <2>7. CASE c.team = None
    <3>1. packets = [i \in DOMAIN teams |-> Event("RPL_TEAMS_LIST", teams[i])]
      BY <2>2, <2>7, Zenon DEF listEntries, Each
    <3>. HIDE DEF packets
    <3>. QED
      BY <2>4, <2>5, <2>6, <3>1 DEF Event
  <2>8. CASE c.team # None /\ c.channel = None
    <3>. DEFINE s == channels[c.team]
    <3>1. s \in Seq(ChannelEntries)
      BY <2>2, <2>3, <2>4, <2>8
    <3>2. packets = [i \in DOMAIN s |-> Content("RPL_CHANNELS_LIST", c.team, s[i])]
      BY <2>2, <2>8, Zenon DEF listEntries, Each
    <3>. HIDE DEF s, packets
    <3>. QED
      BY <2>5, <2>6, <3>1, <3>2 DEF Content
  <2>9. CASE c.channel # None /\ c.thread = None
    <3>. DEFINE s == threads[c.channel]
    <3>1. s \in Seq(ThreadEntries)
      BY <2>2, <2>3, <2>4, <2>9
    <3>2. packets = [i \in DOMAIN s |-> Content("RPL_THREADS_LIST", c.team, s[i])]
      BY <2>2, <2>9 DEF listEntries, Each
    <3>. HIDE DEF s, packets
    <3>. QED
      BY <2>5, <2>6, <3>1, <3>2 DEF Content
  <2>10. CASE c.thread # None
    <3>. DEFINE s == replies[c.thread]
    <3>1. s \in Seq(Users)
      BY <2>2, <2>3, <2>4, <2>10
    <3>2. packets = [i \in DOMAIN s |->
                      Content("RPL_REPLIES_LIST", c.team, ThreadEntry(c.thread, None, s[i]))]
      BY <2>2, <2>10 DEF listEntries, Each
    <3>. HIDE DEF s, packets
    <3>. QED
      BY <2>5, <2>6, <3>1, <3>2 DEF Content
  <2>. QED
    BY <2>7, <2>8, <2>9, <2>10
<1>. QED
  BY <1>1, <1>2 DEF handleListCommand

LEMMA InfoWhole ==
  ASSUME WorkspaceInv, NEW fd \in Fds, NEW payload, handleInfoCommand(fd, payload)
  PROVE  AnswersWhole
<1>. DEFINE c == context[fd]
            packet == infoPacket(byFd[fd], c)
            status == contextStatus(fd, payload)
<1>1. status \in StatusCodes /\ c \in Contexts /\ fd \in conns
  BY ContextStatuses DEF handleInfoCommand
<1>2. (c.channel # None => c.team # None) /\ (c.thread # None => c.channel # None)
  BY <1>1, ContextsCombine
<1>3. packet.code \in {"RPL_USER_INFO", "RPL_TEAMS_LIST", "RPL_CHANNELS_LIST",
                       "RPL_THREADS_LIST"}
  BY <1>2 DEF infoPacket, Event, Content
<1>4. packet.code \notin AllEventCodes
  BY <1>3 DEF AllEventCodes, EventCodes, ContentEvents
<1>. HIDE DEF packet
<1>5. Reply(To({fd}, packet)) => AnswersWhole
  BY <1>1, <1>4, OneReplyWhole DEF Reply
<1>. QED
  BY <1>1, <1>5, RefuseWhole DEF handleInfoCommand, packet

\* Whatever a connection asks for, the answer it gets is whole, and nobody else
\* gets a packet that is not an event.
THEOREM AnswersAlwaysComplete == WorkspaceSpec => AnswersComplete
<1>1. ASSUME WorkspaceInv, [WorkspaceNext]_allVars
      PROVE  [running' = running /\ conns' = conns => AnswersWhole]_allVars
  <2>. SUFFICES ASSUME WorkspaceNext, running' = running, conns' = conns
                PROVE  AnswersWhole
    BY <1>1
  <2>1. ~load /\ ~save /\ ~crash
    BY DEF load, save, crash, Start, Stop, Crash, Exit
  <2>2. PICK fd \in Fds : SessionStep(fd) \/ WorkspaceCommand(fd)
    BY <2>1 DEF WorkspaceNext
  <2>3. CASE SessionStep(fd)
    <3>1. Command(fd)
      BY <2>3 DEF SessionStep, Accept, removeClientAt
    <3>. QED
      BY <1>1, <3>1, SessionCommandWhole
  <2>4. CASE WorkspaceCommand(fd)
    BY <1>1, <2>4, SubscriptionWhole, SubscribedListWhole, CreateWhole,
       ListCommandWhole, InfoWhole DEF WorkspaceCommand
  <2>. QED
    BY <2>2, <2>3, <2>4
<1>. QED
  BY <1>1, WorkspaceInvariance, PTL
     DEF WorkspaceSpec, AnswersComplete, AnswersWhole, WholeAnswerTo
=============================================================================
