----------------------------- MODULE Recursion -----------------------------
(***************************************************************************)
(* Induction over the natural numbers, stated for a set instead of a       *)
(* predicate, so that it can be cited: a nonempty set of naturals has a    *)
(* least element, because < is well-founded.  From it, that functions      *)
(* defined by recursion exist, for an interval and for the subsets of one, *)
(* and what FlattenSeq returns.                                            *)
(***************************************************************************)
EXTENDS Naturals, SequencesExt, WellFoundedInduction, SequenceTheorems, TLAPS

Less == {p \in Nat \X Nat : p[1] < p[2]}

LEMMA LessIsWellFounded == IsWellFoundedOn(Less, Nat)
<1>1. Less = OpToRel(<, Nat)
  BY DEF OpToRel, Less
<1>. QED
  BY <1>1, NatLessThanWellFounded

LEMMA LeastElement ==
  ASSUME NEW S, S \subseteq Nat, S # {}
  PROVE  \E n \in S : \A m \in S : n <= m
<1>1. PICK n \in S : \A m \in S : <<m, n>> \notin Less
  BY WFMin, LessIsWellFounded, Zenon
<1>2. \A m \in S : ~(m < n)
  BY <1>1 DEF Less
<1>. QED
  BY <1>2

\* A set that has 0, and with a number its successor, has all of Nat.
LEMMA Induction ==
  ASSUME NEW S, 0 \in S, \A n \in Nat : n \in S => n + 1 \in S
  PROVE  Nat \subseteq S
<1>. DEFINE T == Nat \ S
<1>. SUFFICES ASSUME T # {} PROVE FALSE
  OBVIOUS
<1>1. T \subseteq Nat
  OBVIOUS
<1>. HIDE DEF T
<1>2. PICK n \in T : \A m \in T : n <= m
  BY <1>1, LeastElement
<1>. USE DEF T
<1>3. n - 1 \in Nat /\ n - 1 \notin T
  BY <1>2
<1>. QED
  BY <1>2, <1>3
-----------------------------------------------------------------------------
(* Functions defined by recursion                                           *)

\* A function that is given at 0 and, step by step, at each successor.
LEMMA RecursiveFunction ==
  ASSUME NEW V, NEW base \in V, NEW n \in Nat, NEW step \in [1 .. n -> [V -> V]]
  PROVE  \E f \in [0 .. n -> V] :
           f[0] = base /\ \A i \in 1 .. n : f[i] = step[i][f[i - 1]]
<1>. DEFINE Solves(f, m) == /\ f \in [0 .. m -> V] /\ f[0] = base
                            /\ \A i \in 1 .. m : f[i] = step[i][f[i - 1]]
            Solvable == {m \in Nat : m <= n => \E f : Solves(f, m)}
<1>1. 0 \in Solvable
  <2>1. Solves([i \in 0 .. 0 |-> base], 0)
    OBVIOUS
  <2>. QED
    BY <2>1
<1>2. ASSUME NEW m \in Nat, m \in Solvable
      PROVE  m + 1 \in Solvable
  <2>. SUFFICES ASSUME m + 1 <= n PROVE \E f : Solves(f, m + 1)
    OBVIOUS
  <2>1. PICK f : Solves(f, m)
    BY <1>2
  <2>. DEFINE g == [i \in 0 .. m + 1 |-> IF i = m + 1 THEN step[m + 1][f[m]] ELSE f[i]]
  <2>2. step[m + 1][f[m]] \in V
    <3>1. step[m + 1] \in [V -> V] /\ f[m] \in V
      BY <2>1
    <3>. QED
      BY <3>1
  <2>3. g \in [0 .. m + 1 -> V] /\ g[0] = base
    BY <2>1, <2>2
  <2>4. \A i \in 1 .. m + 1 : g[i] = step[i][g[i - 1]]
    BY <2>1
  <2>. QED
    BY <2>3, <2>4
<1>. HIDE DEF Solvable
<1>3. n \in Solvable
  BY <1>1, <1>2, Induction
<1>. QED
  BY <1>3 DEF Solvable

LEMMA MaxOfInterval ==
  ASSUME NEW n \in Nat, NEW s \in SUBSET (1 .. n + 1), n + 1 \in s
  PROVE  Max(s) = n + 1
<1>1. n + 1 \in s /\ \A y \in s : n + 1 >= y
  OBVIOUS
<1>2. \A x \in s : (\A y \in s : x >= y) => x = n + 1
  OBVIOUS
<1>. QED
  BY <1>1, <1>2 DEF Max

LEMMA MaxWithin ==
  ASSUME NEW n \in Nat, NEW s \in SUBSET (1 .. n), s # {}
  PROVE  Max(s) \in s
<1>. DEFINE T == {n - x : x \in s}
<1>1. T \subseteq Nat /\ T # {}
  <2>1. \A x \in s : n - x \in Nat
    OBVIOUS
  <2>2. \E x \in s : n - x \in T
    OBVIOUS
  <2>. QED
    BY <2>1, <2>2
<1>. HIDE DEF T
<1>2. PICK m \in T : \A k \in T : m <= k
  BY <1>1, LeastElement
<1>3. PICK x \in s : m = n - x
  BY DEF T
<1>4. \A y \in s : x >= y
  <2>. TAKE y \in s
  <2>1. n - x <= n - y
    BY <1>2, <1>3 DEF T
  <2>. QED
    BY <2>1
<1>5. \E z \in s : \A y \in s : z >= y
  BY <1>4
<1>. QED
  BY <1>5, Zenon DEF Max

\* The recursion of MapThenFoldSet, when it takes the largest element first.
FoldsFromMax(f, n, base, step) ==
  \A s \in SUBSET (1 .. n) :
    f[s] = IF s = {} THEN base ELSE step[Max(s)][f[s \ {Max(s)}]]

LEMMA FoldFunctionExists ==
  ASSUME NEW V, NEW base \in V, NEW n \in Nat, NEW step \in [1 .. n -> [V -> V]]
  PROVE  \E f \in [SUBSET (1 .. n) -> V] : FoldsFromMax(f, n, base, step)
<1>. DEFINE Rhs(f, s) == IF s = {} THEN base ELSE step[Max(s)][f[s \ {Max(s)}]]
            Solves(f, m) == /\ f \in [SUBSET (1 .. m) -> V]
                            /\ \A s \in SUBSET (1 .. m) : f[s] = Rhs(f, s)
            Solvable == {m \in Nat : m <= n => \E f : Solves(f, m)}
<1>1. 0 \in Solvable
  <2>1. SUBSET (1 .. 0) = {{}}
    OBVIOUS
  <2>. DEFINE g == [s \in SUBSET (1 .. 0) |-> base]
  <2>2. g \in [SUBSET (1 .. 0) -> V]
    OBVIOUS
  <2>3. \A s \in SUBSET (1 .. 0) : g[s] = base /\ s = {}
    BY <2>1
  <2>. HIDE DEF g
  <2>4. Solves(g, 0)
    BY <2>2, <2>3, Zenon
  <2>. HIDE DEF Solves
  <2>. QED
    BY <2>4
<1>2. ASSUME NEW m \in Nat, m \in Solvable
      PROVE  m + 1 \in Solvable
  <2>. SUFFICES ASSUME m + 1 <= n PROVE \E f : Solves(f, m + 1)
    <3>. HIDE DEF Solves
    <3>. QED
      OBVIOUS
  <2>1. PICK f : Solves(f, m)
    <3>. HIDE DEF Solves
    <3>. QED
      BY <1>2
  <2>. DEFINE R == SUBSET (1 .. m)
              S == SUBSET (1 .. m + 1)
              g == [s \in S |-> IF m + 1 \in s THEN step[m + 1][f[s \ {m + 1}]]
                                                ELSE f[s]]
  <2>2. f \in [R -> V] /\ \A s \in R : f[s] = Rhs(f, s)
    BY <2>1, Zenon
  <2>3. \A s \in R : s \in S /\ m + 1 \notin s
    OBVIOUS
  <2>4. \A s \in S : g[s] = IF m + 1 \in s THEN step[m + 1][f[s \ {m + 1}]] ELSE f[s]
    BY Zenon
  <2>. HIDE DEF Solves, Rhs
  <2>5. ASSUME NEW s \in S, m + 1 \in s
        PROVE  g[s] \in V /\ g[s] = Rhs(g, s)
    <3>1. Max(s) = m + 1
      BY <2>5, MaxOfInterval
    <3>2. s \ {m + 1} \in R
      OBVIOUS
    <3>3. g[s \ {m + 1}] = f[s \ {m + 1}]
      BY <2>3, <2>4, <3>2, Zenon
    <3>4. g[s] = step[m + 1][f[s \ {m + 1}]]
      BY <2>4, <2>5, Zenon
    <3>5. f[s \ {m + 1}] \in V
      BY <2>2, <3>2, Zenon
    <3>6. step[m + 1] \in [V -> V]
      OBVIOUS
    <3>. HIDE DEF g, R, S
    <3>7. step[m + 1][f[s \ {m + 1}]] \in V
      BY <3>5, <3>6, Zenon
    <3>8. s # {}
      BY <2>5
    <3>9. Rhs(g, s) = step[m + 1][g[s \ {m + 1}]]
      BY <3>1, <3>8, Zenon DEF Rhs
    <3>. QED
      BY <3>3, <3>4, <3>7, <3>9, Zenon
  <2>6. ASSUME NEW s \in S, m + 1 \notin s
        PROVE  g[s] \in V /\ g[s] = Rhs(g, s)
    <3>1. s \in R
      BY <2>6
    <3>2. g[s] = f[s] /\ f[s] \in V /\ f[s] = Rhs(f, s)
      BY <2>2, <2>4, <2>6, <3>1, Zenon
    <3>3. s \ {Max(s)} \in R
      BY <3>1
    <3>4. g[s \ {Max(s)}] = f[s \ {Max(s)}]
      BY <2>3, <2>4, <3>3, Zenon
    <3>. HIDE DEF g, R, S
    <3>5. Rhs(g, s) = Rhs(f, s)
      BY <3>4, Zenon DEF Rhs
    <3>. QED
      BY <3>2, <3>5, Zenon
  <2>7. \A s \in S : g[s] \in V /\ g[s] = Rhs(g, s)
    BY <2>5, <2>6, Zenon
  <2>8. g \in [S -> V]
    BY <2>7
  <2>. HIDE DEF g
  <2>9. Solves(g, m + 1)
    BY <2>7, <2>8, Zenon DEF Solves
  <2>. QED
    BY <2>9, Zenon
<1>. HIDE DEF Solvable
<1>3. n \in Solvable
  BY <1>1, <1>2, Induction
<1>4. \E f : Solves(f, n)
  <2>. HIDE DEF Solves
  <2>. QED
    BY <1>3 DEF Solvable
<1>. QED
  BY <1>4, Zenon DEF FoldsFromMax

\* The states a fold goes through, from the first element to the last.
FoldsWithin(g, V, n, base, step) ==
  /\ g[{}] = base
  /\ \A s \in SUBSET (1 .. n) : s # {} /\ g[s \ {Max(s)}] \in V =>
       g[s] = step[Max(s)][g[s \ {Max(s)}]]

StepByStep(h, n, base, step) ==
  h[0] = base /\ \A i \in 1 .. n : h[i] = step[i][h[i - 1]]

LEMMA FoldStates ==
  ASSUME NEW V, NEW base \in V, NEW n \in Nat, NEW step \in [1 .. n -> [V -> V]],
         NEW g, FoldsWithin(g, V, n, base, step)
  PROVE  \E h \in [0 .. n -> V] : StepByStep(h, n, base, step) /\ h[n] = g[1 .. n]
<1>. DEFINE h == [i \in 0 .. n |-> g[1 .. i]]
<1>1. h[0] = base
  <2>1. 1 .. 0 = {} /\ 0 \in 0 .. n
    OBVIOUS
  <2>. QED
    BY <2>1 DEF FoldsWithin
<1>2. ASSUME NEW i \in 1 .. n, h[i - 1] \in V
      PROVE  h[i] = step[i][h[i - 1]]
  <2>1. 1 .. i \in SUBSET (1 .. n) /\ 1 .. i # {} /\ i \in 0 .. n /\ i - 1 \in 0 .. n
    <3>1. i \in 1 .. i /\ \A k \in 1 .. i : k \in 1 .. n
      OBVIOUS
    <3>2. i \in 0 .. n /\ i - 1 \in 0 .. n
      OBVIOUS
    <3>. HIDE DEF h
    <3>. QED
      BY <3>1, <3>2, Zenon
  <2>2. Max(1 .. i) = i /\ (1 .. i) \ {i} = 1 .. i - 1
    <3>1. i - 1 \in Nat /\ i = (i - 1) + 1 /\ 1 .. i \in SUBSET (1 .. (i - 1) + 1)
          /\ (i - 1) + 1 \in 1 .. i
      OBVIOUS
    <3>2. Max(1 .. i) = (i - 1) + 1
      BY <3>1, MaxOfInterval
    <3>. QED
      BY <3>1, <3>2
  <2>3. h[i] = g[1 .. i] /\ h[i - 1] = g[(1 .. i) \ {Max(1 .. i)}]
    BY <2>1, <2>2
  <2>. HIDE DEF h
  <2>4. g[1 .. i] = step[Max(1 .. i)][g[(1 .. i) \ {Max(1 .. i)}]]
    BY <1>2, <2>1, <2>3 DEF FoldsWithin
  <2>. QED
    BY <2>2, <2>3, <2>4
<1>3. h[n] = g[1 .. n]
  OBVIOUS
<1>4. h \in [0 .. n -> V]
  <2>. HIDE DEF h
  <2>. DEFINE Good == {m \in Nat : m \in 0 .. n => h[m] \in V}
  <2>1. 0 \in Good
    BY <1>1
  <2>2. ASSUME NEW m \in Nat, m \in Good
        PROVE  m + 1 \in Good
    <3>. SUFFICES ASSUME m + 1 \in 0 .. n PROVE h[m + 1] \in V
      OBVIOUS
    <3>1. m + 1 \in 1 .. n /\ m \in 0 .. n /\ (m + 1) - 1 = m
      OBVIOUS
    <3>2. h[m] \in V /\ step[m + 1] \in [V -> V]
      BY <2>2, <3>1
    <3>3. h[m + 1] = step[m + 1][h[m]]
      BY <1>2, <3>1, <3>2
    <3>. QED
      BY <3>2, <3>3
  <2>. HIDE DEF Good
  <2>3. Nat \subseteq Good
    BY <2>1, <2>2, Induction
  <2>4. \A m \in 0 .. n : h[m] \in V
    BY <2>3 DEF Good
  <2>. QED
    BY <2>4 DEF h
<1>. HIDE DEF h
<1>5. \A i \in 1 .. n : h[i] = step[i][h[i - 1]]
  <2>. TAKE i \in 1 .. n
  <2>1. i - 1 \in 0 .. n
    OBVIOUS
  <2>. QED
    BY <1>2, <1>4, <2>1
<1>. QED
  BY <1>1, <1>3, <1>4, <1>5 DEF StepByStep

-----------------------------------------------------------------------------
(* Sequences                                                                *)

\* A set that has the empty sequence, and with a sequence every longer one by an
\* element, has all of them.
LEMMA SequenceInduction ==
  ASSUME NEW T, NEW S, <<>> \in S,
         \A v \in Seq(T), e \in T : v \in S => Append(v, e) \in S
  PROVE  Seq(T) \subseteq S
<1>. DEFINE Good == {n \in Nat : \A v \in Seq(T) : Len(v) = n => v \in S}
<1>1. 0 \in Good
  <2>1. \A v \in Seq(T) : Len(v) = 0 => v = <<>>
    OBVIOUS
  <2>. QED
    BY <2>1
<1>2. ASSUME NEW n \in Nat, n \in Good
      PROVE  n + 1 \in Good
  <2>. SUFFICES ASSUME NEW v \in Seq(T), Len(v) = n + 1 PROVE v \in S
    OBVIOUS
  <2>. DEFINE w == SubSeq(v, 1, n)
              e == v[n + 1]
  <2>1. w \in Seq(T) /\ Len(w) = n /\ e \in T
    OBVIOUS
  <2>2. v = Append(w, e)
    <3>1. v \in Seq(T) /\ v # <<>> /\ Len(v) - 1 = n
      OBVIOUS
    <3>2. v = Append(SubSeq(v, 1, Len(v) - 1), v[Len(v)])
      BY <3>1, AppendProperties, SubSeqProperties, SeqEqual
    <3>. QED
      BY <3>1, <3>2
  <2>3. w \in S
    BY <1>2, <2>1
  <2>. HIDE DEF w, e
  <2>. QED
    BY <2>1, <2>2, <2>3
<1>. HIDE DEF Good
<1>3. Nat \subseteq Good
  BY <1>1, <1>2, Induction
<1>. QED
  BY <1>3 DEF Good

-----------------------------------------------------------------------------
(* FlattenSeq                                                               *)

LEMMA FlattenEmpty == FlattenSeq(<<>>) = <<>>
  BY DEF FlattenSeq

\* Concatenation, one sequence after the other.
LEMMA FlattenSteps ==
  ASSUME NEW T, NEW seqs \in Seq(Seq(T))
  PROVE  \E f \in [0 .. Len(seqs) -> Seq(T)] :
           /\ f[0] = <<>>
           /\ \A i \in 1 .. Len(seqs) : f[i] = f[i - 1] \o seqs[i]
           /\ f[Len(seqs)] = FlattenSeq(seqs)
<1>. DEFINE V == Seq(T)
            n == Len(seqs)
            step == [i \in 1 .. n |-> [v \in V |-> v \o seqs[i]]]
<1>1. n \in Nat /\ \A i \in 1 .. n : seqs[i] \in V
  OBVIOUS
<1>2. step \in [1 .. n -> [V -> V]]
  BY <1>1
<1>. DEFINE base == <<>>
<1>3. base \in V
  OBVIOUS
<1>. HIDE DEF n, V, base
<1>4. \E f \in [0 .. n -> V] :
        f[0] = base /\ \A i \in 1 .. n : f[i] = step[i][f[i - 1]]
  <2>. HIDE DEF step
  <2>1. n \in Nat
    BY <1>1
  <2>. QED
    BY <2>1, <1>2, <1>3, RecursiveFunction
<1>5. PICK f \in [0 .. n -> V] :
             f[0] = <<>> /\ \A i \in 1 .. n : f[i] = step[i][f[i - 1]]
  BY <1>4, Zenon DEF base
<1>6. \A i \in 1 .. n : f[i] = f[i - 1] \o seqs[i]
  <2>. TAKE i \in 1 .. n
  <2>1. i - 1 \in 0 .. n
    BY <1>1
  <2>2. f[i - 1] \in V
    BY <2>1
  <2>3. step[i][f[i - 1]] = f[i - 1] \o seqs[i]
    BY <2>2
  <2>. HIDE DEF step
  <2>. QED
    BY <1>5, <2>3
<1>. HIDE DEF step
<1>7. CASE n = 0
  BY <1>5, <1>6, <1>7 DEF FlattenSeq, n, V
<1>8. CASE n # 0
  <2>. DEFINE Solves(g) == g = [i \in 1 .. n |-> IF i = 1 THEN seqs[i]
                                                 ELSE g[i - 1] \o seqs[i]]
              flatten == CHOOSE g : Solves(g)
              g0 == [i \in 1 .. n |-> f[i]]
  <2>1. f[1] = seqs[1]
    <3>1. 1 \in 1 .. n /\ seqs[1] \in V
      BY <1>1, <1>8
    <3>2. <<>> \o seqs[1] = seqs[1]
      BY <3>1 DEF V
    <3>3. f[1] = f[1 - 1] \o seqs[1]
      BY <1>6, <3>1
    <3>4. 1 - 1 = 0 /\ f[0] = <<>>
      BY <1>5
    <3>. QED
      BY <3>2, <3>3, <3>4, Zenon
  <2>2. Solves(g0)
    <3>1. \A i \in 1 .. n : i # 1 => i - 1 \in 1 .. n
      BY <1>1
    <3>2. \A i \in 1 .. n : i # 1 => g0[i - 1] = f[i - 1]
      BY <3>1
    <3>3. \A i \in 1 .. n : g0[i] = IF i = 1 THEN seqs[i] ELSE g0[i - 1] \o seqs[i]
      BY <1>6, <2>1, <3>2
    <3>. QED
      BY <3>3
  <2>3. Solves(flatten)
    <3>. HIDE DEF Solves, g0
    <3>. QED
      BY <2>2, Zenon
  <2>4. FlattenSeq(seqs) = flatten[n]
    BY <1>8 DEF FlattenSeq, n
  <2>. HIDE DEF flatten
  <2>. DEFINE Good == {m \in Nat : m \in 1 .. n => flatten[m] = f[m]}
  <2>5. 0 \in Good
    OBVIOUS
  <2>6. ASSUME NEW m \in Nat, m \in Good
        PROVE  m + 1 \in Good
    <3>. SUFFICES ASSUME m + 1 \in 1 .. n PROVE flatten[m + 1] = f[m + 1]
      OBVIOUS
    <3>1. flatten[m + 1] = IF m + 1 = 1 THEN seqs[m + 1]
                           ELSE flatten[(m + 1) - 1] \o seqs[m + 1]
      BY <2>3
    <3>2. (m + 1) - 1 = m
      OBVIOUS
    <3>3. f[m + 1] = f[m] \o seqs[m + 1]
      BY <1>6, <3>2
    <3>4. CASE m = 0
      BY <2>1, <3>1, <3>4
    <3>5. CASE m # 0
      <4>1. m \in 1 .. n /\ m + 1 # 1
        BY <1>1, <3>5
      <4>. QED
        BY <2>6, <3>1, <3>2, <3>3, <4>1
    <3>. QED
      BY <3>4, <3>5
  <2>. HIDE DEF Good
  <2>7. n \in Good
    BY <1>1, <2>5, <2>6, Induction
  <2>8. flatten[n] = f[n]
    BY <1>1, <1>8, <2>7 DEF Good
  <2>. QED
    BY <1>5, <1>6, <2>4, <2>8 DEF n, V
<1>. QED
  BY <1>7, <1>8

LEMMA FlattenTyped ==
  ASSUME NEW T, NEW seqs \in Seq(Seq(T))
  PROVE  FlattenSeq(seqs) \in Seq(T)
<1>1. PICK f \in [0 .. Len(seqs) -> Seq(T)] : f[Len(seqs)] = FlattenSeq(seqs)
  BY FlattenSteps
<1>2. Len(seqs) \in 0 .. Len(seqs)
  OBVIOUS
<1>. QED
  BY <1>1, <1>2

LEMMA FlattenAppend ==
  ASSUME NEW T, NEW seqs \in Seq(Seq(T)), NEW e \in Seq(T)
  PROVE  FlattenSeq(Append(seqs, e)) = FlattenSeq(seqs) \o e
<1>. DEFINE all == Append(seqs, e)
            n == Len(seqs)
<1>1. /\ n \in Nat /\ all \in Seq(Seq(T)) /\ Len(all) = n + 1 /\ all[n + 1] = e
      /\ \A i \in 1 .. n : all[i] = seqs[i]
  OBVIOUS
<1>. HIDE DEF all
<1>2. PICK f \in [0 .. n -> Seq(T)] :
        /\ f[0] = <<>>
        /\ \A i \in 1 .. n : f[i] = f[i - 1] \o seqs[i]
        /\ f[n] = FlattenSeq(seqs)
  BY FlattenSteps
<1>3. PICK g \in [0 .. n + 1 -> Seq(T)] :
        /\ g[0] = <<>>
        /\ \A i \in 1 .. n + 1 : g[i] = g[i - 1] \o all[i]
        /\ g[n + 1] = FlattenSeq(all)
  <2>1. \E g \in [0 .. Len(all) -> Seq(T)] :
          /\ g[0] = <<>>
          /\ \A i \in 1 .. Len(all) : g[i] = g[i - 1] \o all[i]
          /\ g[Len(all)] = FlattenSeq(all)
    BY <1>1, FlattenSteps
  <2>. QED
    BY <1>1, <2>1
<1>. HIDE DEF n
<1>. DEFINE Good == {m \in Nat : m <= n => g[m] = f[m]}
<1>4. 0 \in Good
  BY <1>2, <1>3
<1>5. ASSUME NEW m \in Nat, m \in Good
      PROVE  m + 1 \in Good
  <2>. SUFFICES ASSUME m + 1 <= n PROVE g[m + 1] = f[m + 1]
    OBVIOUS
  <2>1. m + 1 \in 1 .. n /\ m + 1 \in 1 .. n + 1 /\ (m + 1) - 1 = m /\ m <= n
    BY <1>1
  <2>2. g[m + 1] = g[m] \o all[m + 1] /\ f[m + 1] = f[m] \o seqs[m + 1]
    BY <1>2, <1>3, <2>1
  <2>. QED
    BY <1>1, <1>5, <2>1, <2>2
<1>. HIDE DEF Good
<1>6. n \in Good
  BY <1>1, <1>4, <1>5, Induction
<1>7. g[n] = f[n]
  BY <1>1, <1>6 DEF Good
<1>8. n + 1 \in 1 .. n + 1 /\ (n + 1) - 1 = n
  BY <1>1
<1>9. g[n + 1] = g[n] \o all[n + 1]
  BY <1>3, <1>8
<1>. QED
  BY <1>1, <1>2, <1>3, <1>7, <1>9 DEF all

LEMMA FlattenConcat ==
  ASSUME NEW T, NEW a \in Seq(Seq(T)), NEW b \in Seq(Seq(T))
  PROVE  FlattenSeq(a \o b) = FlattenSeq(a) \o FlattenSeq(b)
<1>. DEFINE S == Seq(T)
            F(n) == FlattenSeq(a \o SubSeq(b, 1, n))
                      = FlattenSeq(a) \o FlattenSeq(SubSeq(b, 1, n))
            Good == {n \in Nat : n <= Len(b) => F(n)}
<1>1. F(0)
  <2>1. SubSeq(b, 1, 0) = <<>> /\ a \o <<>> = a
    BY SubSeqEmpty, ConcatEmptySeq
  <2>2. FlattenSeq(a) \in Seq(T)
    BY FlattenTyped
  <2>3. FlattenSeq(a) \o <<>> = FlattenSeq(a)
    BY <2>2, ConcatEmptySeq
  <2>. QED
    BY <2>1, <2>3, FlattenEmpty
<1>2. ASSUME NEW n \in Nat, F(n), n + 1 <= Len(b)
      PROVE  F(n + 1)
  <2>. DEFINE p == SubSeq(b, 1, n)
              e == b[n + 1]
  <2>1. p \in Seq(S) /\ e \in S
    BY <1>2
  <2>2. SubSeq(b, 1, n + 1) = Append(p, e)
    BY <1>2
  <2>3. a \o Append(p, e) = Append(a \o p, e) /\ a \o p \in Seq(S)
    <3>. HIDE DEF p, e, S
    <3>1. a \in Seq(S)
      BY DEF S
    <3>. QED
      BY <2>1, <3>1
  <2>4. FlattenSeq(a \o p) = FlattenSeq(a) \o FlattenSeq(p)
    BY <1>2
  <2>. HIDE DEF p, e
  <2>5. /\ FlattenSeq(a) \in Seq(T) /\ FlattenSeq(p) \in Seq(T)
        /\ FlattenSeq(Append(a \o p, e)) = FlattenSeq(a \o p) \o e
        /\ FlattenSeq(Append(p, e)) = FlattenSeq(p) \o e
    BY <2>1, <2>3, FlattenTyped, FlattenAppend, Zenon
  <2>6. (FlattenSeq(a) \o FlattenSeq(p)) \o e = FlattenSeq(a) \o (FlattenSeq(p) \o e)
    <3>1. e \in Seq(T) /\ FlattenSeq(a) \in Seq(T) /\ FlattenSeq(p) \in Seq(T)
      BY <2>1, <2>5
    <3>2. \A x, y, z \in Seq(T) : (x \o y) \o z = x \o (y \o z)
      BY ConcatAssociative
    <3>. QED
      BY <3>1, <3>2, Zenon
  <2>. QED
    BY <2>2, <2>3, <2>4, <2>5, <2>6, Zenon
<1>. HIDE DEF F
<1>3. \A n \in Nat : n \in Good => n + 1 \in Good
  BY <1>2
<1>4. 0 \in Good
  BY <1>1
<1>. HIDE DEF Good
<1>5. Len(b) \in Good
  <2>1. Len(b) \in Nat
    OBVIOUS
  <2>. QED
    BY <1>3, <1>4, <2>1, Induction
<1>6. F(Len(b))
  BY <1>5 DEF Good
<1>. QED
  BY <1>6, SubSeqFull DEF F

=============================================================================
