------------------------- MODULE PersistenceProofs -------------------------
(***************************************************************************)
(* Proofs about Persistence, for characters, fields, lines and rows of any *)
(* number.                                                                 *)
(***************************************************************************)
EXTENDS Persistence, Recursion

-----------------------------------------------------------------------------
(* Characters and the split, one character at a time                        *)

\* STRING; the provers do not know that a literal belongs to it.
Characters == STRING \union {"|", "\\", "\n", "\r", "n", "r", "0", "1"}
Text == Seq(Characters)

LEMMA SpecialCharacters ==
  /\ "|" \in Characters /\ "\\" \in Characters /\ "\n" \in Characters
  /\ "\r" \in Characters /\ "n" \in Characters /\ "r" \in Characters
  /\ "0" \in Characters /\ "1" \in Characters
  BY DEF Characters

LEMMA TextFacts ==
  /\ <<>> \in Text
  /\ \A v \in Text : v \o <<>> = v /\ <<>> \o v = v /\ Len(v) \in Nat
  /\ \A v \in Text, c \in Characters :
       /\ Append(v, c) \in Text /\ Append(v, c) = v \o <<c>> /\ <<c>> \in Text
       /\ Append(v, c) # <<>>
  /\ \A v, w \in Text : v \o w \in Text /\ Len(v \o w) = Len(v) + Len(w)
  /\ \A u, v, w \in Text : (u \o v) \o w = u \o (v \o w)
  /\ \A u, v \in Text, c \in Characters : u \o Append(v, c) = Append(u \o v, c)
<1>1. <<>> \in Text
  BY DEF Text
<1>2. \A v \in Text : v \o <<>> = v /\ <<>> \o v = v /\ Len(v) \in Nat
  BY ConcatEmptySeq DEF Text
<1>3. \A v \in Text, c \in Characters :
       /\ Append(v, c) \in Text /\ Append(v, c) = v \o <<c>> /\ <<c>> \in Text
       /\ Append(v, c) # <<>>
  BY AppendIsConcat DEF Text
<1>4. \A v, w \in Text : v \o w \in Text /\ Len(v \o w) = Len(v) + Len(w)
  BY ConcatProperties DEF Text
<1>5. \A u, v, w \in Text : (u \o v) \o w = u \o (v \o w)
  BY ConcatAssociative DEF Text
<1>6. \A u, v \in Text, c \in Characters : u \o Append(v, c) = Append(u \o v, c)
  <2>. TAKE u, v \in Text, c \in Characters
  <2>1. Append(v, c) = v \o <<c>> /\ <<c>> \in Text /\ u \o v \in Text
    BY <1>3, <1>4
  <2>2. Append(u \o v, c) = (u \o v) \o <<c>>
    BY <1>3, <2>1
  <2>3. (u \o v) \o <<c>> = u \o (v \o <<c>>)
    BY <1>5, <2>1
  <2>. QED
    BY <2>1, <2>2, <2>3
<1>. QED
  BY <1>1, <1>2, <1>3, <1>4, <1>5, <1>6

\* The same, one fact at a time.
LEMMA TextAppend ==
  \A v \in Text, c \in Characters :
    /\ Append(v, c) \in Text /\ Append(v, c) = v \o <<c>> /\ <<c>> \in Text
    /\ Append(v, c) # <<>>
  BY TextFacts, Zenon

LEMMA TextRegroup == \A u, v, w \in Text : (u \o v) \o w = u \o (v \o w)
  BY TextFacts, Zenon

LEMMA TextAppendRight ==
  \A u, v \in Text, c \in Characters : u \o Append(v, c) = Append(u \o v, c)
  BY TextFacts, Zenon

SplitState == [fields : Seq(Text), currentField : Text, escaping : BOOLEAN]
splitStart == [fields |-> <<>>, currentField |-> <<>>, escaping |-> FALSE]
splitRun(line) == FoldLeft(splitCharacter, splitStart, line)

LEMMA SplitTyped ==
  /\ splitStart \in SplitState
  /\ \A s \in SplitState, c \in Characters : splitCharacter(s, c) \in SplitState
<1>1. splitStart \in SplitState
  BY DEF splitStart, SplitState, Text
<1>2. ASSUME NEW s \in SplitState, NEW c \in Characters
      PROVE  splitCharacter(s, c) \in SplitState
  <2>1. \A d \in Characters : Append(s.currentField, d) \in Text
    BY TextFacts DEF SplitState
  <2>2. Append(s.fields, s.currentField) \in Seq(Text) /\ <<>> \in Text
    BY TextFacts DEF SplitState
  <2>. QED
    BY <2>1, <2>2, SpecialCharacters DEF splitCharacter, SplitState
<1>. QED
  BY <1>1, <1>2

\* The states of the split, from character to character.
LEMMA SplitSteps ==
  ASSUME NEW line \in Text
  PROVE  \E f \in [0 .. Len(line) -> SplitState] :
           /\ f[0] = splitStart
           /\ \A i \in 1 .. Len(line) : f[i] = splitCharacter(f[i - 1], line[i])
           /\ f[Len(line)] = splitRun(line)
<1>. DEFINE V == SplitState
            n == Len(line)
            step == [i \in 1 .. n |-> [v \in V |-> splitCharacter(v, line[i])]]
            Solves(g) == g = [s \in SUBSET (1 .. n) |->
                                IF s = {} THEN splitStart
                                ELSE splitCharacter(g[s \ {Max(s)}], line[Max(s)])]
            iter == CHOOSE g : Solves(g)
<1>1. n \in Nat /\ DOMAIN line = 1 .. n /\ \A i \in 1 .. n : line[i] \in Characters
  BY DEF Text
<1>2. splitRun(line) = iter[1 .. n]
  <2>1. splitRun(line) = (CHOOSE g : g = [s \in SUBSET (DOMAIN line) |->
                            IF s = {} THEN splitStart
                            ELSE splitCharacter(g[s \ {Max(s)}], line[Max(s)])])[DOMAIN line]
    BY Zenon DEF splitRun, FoldLeft, MapThenFoldSet
  <2>. QED
    BY <1>1, <2>1
<1>3. step \in [1 .. n -> [V -> V]]
  BY <1>1, SplitTyped
<1>. HIDE DEF n, V
<1>4. PICK f \in [SUBSET (1 .. n) -> V] : FoldsFromMax(f, n, splitStart, step)
  <2>. HIDE DEF step, iter, Solves
  <2>1. splitStart \in V
    BY SplitTyped DEF V
  <2>2. n \in Nat
    BY <1>1
  <2>. QED
    BY <1>3, <2>1, <2>2, FoldFunctionExists
<1>5. \A s \in SUBSET (1 .. n) :
        f[s] = IF s = {} THEN splitStart ELSE step[Max(s)][f[s \ {Max(s)}]]
  <2>. HIDE DEF step
  <2>. QED
    BY <1>4 DEF FoldsFromMax
<1>6. Solves(f)
  <2>1. ASSUME NEW s \in SUBSET (1 .. n), s # {}
        PROVE  step[Max(s)][f[s \ {Max(s)}]] = splitCharacter(f[s \ {Max(s)}], line[Max(s)])
    <3>1. Max(s) \in 1 .. n
      BY <1>1, <2>1, MaxWithin
    <3>2. f[s \ {Max(s)}] \in V
      OBVIOUS
    <3>. QED
      BY <3>1, <3>2
  <2>. HIDE DEF step
  <2>. QED
    BY <1>5, <2>1
<1>7. Solves(iter)
  <2>. HIDE DEF Solves
  <2>. QED
    BY <1>6, Zenon
<1>. HIDE DEF iter
<1>8. iter[{}] = splitStart
  BY <1>7
<1>9. ASSUME NEW s \in SUBSET (1 .. n), s # {}, iter[s \ {Max(s)}] \in V
      PROVE  iter[s] = step[Max(s)][iter[s \ {Max(s)}]]
  <2>1. Max(s) \in 1 .. n
    BY <1>1, <1>9, MaxWithin
  <2>2. iter[s] = splitCharacter(iter[s \ {Max(s)}], line[Max(s)])
    BY <1>7, <1>9
  <2>. QED
    BY <1>9, <2>1, <2>2
<1>. HIDE DEF step, Solves
<1>10. PICK h \in [0 .. n -> V] :
         StepByStep(h, n, splitStart, step) /\ h[n] = iter[1 .. n]
  <2>1. splitStart \in V
    BY SplitTyped DEF V
  <2>2. n \in Nat
    BY <1>1
  <2>3. FoldsWithin(iter, V, n, splitStart, step)
    BY <1>8, <1>9 DEF FoldsWithin
  <2>. QED
    BY <1>3, <2>1, <2>2, <2>3, FoldStates
<1>11. /\ h[0] = splitStart
       /\ \A i \in 1 .. n : h[i] = step[i][h[i - 1]]
  BY <1>10 DEF StepByStep
<1>12. \A i \in 1 .. n : h[i] = splitCharacter(h[i - 1], line[i])
  <2>. TAKE i \in 1 .. n
  <2>1. i - 1 \in 0 .. n
    BY <1>1
  <2>2. h[i - 1] \in V
    BY <2>1
  <2>3. step[i][h[i - 1]] = splitCharacter(h[i - 1], line[i])
    BY <2>2 DEF step
  <2>. QED
    BY <1>11, <2>3
<1>. QED
  BY <1>2, <1>10, <1>11, <1>12 DEF n, V

LEMMA SplitGrows ==
  /\ splitRun(<<>>) = splitStart
  /\ \A line \in Text : splitRun(line) \in SplitState
  /\ \A line \in Text, c \in Characters :
       splitRun(Append(line, c)) = splitCharacter(splitRun(line), c)
<1>1. splitRun(<<>>) = splitStart
  <2>1. <<>> \in Text /\ Len(<<>>) = 0
    BY TextFacts
  <2>2. PICK f \in [0 .. Len(<<>>) -> SplitState] :
          f[0] = splitStart /\ f[Len(<<>>)] = splitRun(<<>>)
    BY <2>1, SplitSteps
  <2>. QED
    BY <2>1, <2>2
<1>2. ASSUME NEW line \in Text
      PROVE  splitRun(line) \in SplitState
  <2>1. PICK f \in [0 .. Len(line) -> SplitState] : f[Len(line)] = splitRun(line)
    BY SplitSteps
  <2>2. Len(line) \in 0 .. Len(line)
    BY DEF Text
  <2>. QED
    BY <2>1, <2>2
<1>3. ASSUME NEW line \in Text, NEW c \in Characters
      PROVE  splitRun(Append(line, c)) = splitCharacter(splitRun(line), c)
  <2>. DEFINE all == Append(line, c)
              n == Len(line)
  <2>1. /\ n \in Nat /\ all \in Text /\ Len(all) = n + 1 /\ all[n + 1] = c
        /\ \A i \in 1 .. n : all[i] = line[i]
    BY DEF Text
  <2>. HIDE DEF all
  <2>2. PICK f \in [0 .. n -> SplitState] :
          /\ f[0] = splitStart
          /\ \A i \in 1 .. n : f[i] = splitCharacter(f[i - 1], line[i])
          /\ f[n] = splitRun(line)
    BY SplitSteps
  <2>3. PICK g \in [0 .. n + 1 -> SplitState] :
          /\ g[0] = splitStart
          /\ \A i \in 1 .. n + 1 : g[i] = splitCharacter(g[i - 1], all[i])
          /\ g[n + 1] = splitRun(all)
    <3>1. PICK g \in [0 .. Len(all) -> SplitState] :
            /\ g[0] = splitStart
            /\ \A i \in 1 .. Len(all) : g[i] = splitCharacter(g[i - 1], all[i])
            /\ g[Len(all)] = splitRun(all)
      BY <2>1, SplitSteps
    <3>. QED
      BY <2>1, <3>1
  <2>. HIDE DEF n
  <2>. DEFINE Same == {m \in Nat : m \in 0 .. n => f[m] = g[m]}
  <2>4. 0 \in Same
    BY <2>2, <2>3
  <2>5. ASSUME NEW m \in Nat, m \in Same
        PROVE  m + 1 \in Same
    <3>. SUFFICES ASSUME m + 1 \in 0 .. n PROVE f[m + 1] = g[m + 1]
      OBVIOUS
    <3>1. m \in 0 .. n /\ m + 1 \in 1 .. n /\ m + 1 \in 1 .. n + 1 /\ (m + 1) - 1 = m
      BY <2>1
    <3>2. f[m] = g[m] /\ all[m + 1] = line[m + 1]
      BY <2>1, <2>5, <3>1
    <3>3. f[m + 1] = splitCharacter(f[m], line[m + 1])
      BY <2>2, <3>1
    <3>4. g[m + 1] = splitCharacter(g[m], all[m + 1])
      BY <2>3, <3>1
    <3>. QED
      BY <3>2, <3>3, <3>4
  <2>. HIDE DEF Same
  <2>6. n \in Same
    BY <2>1, <2>4, <2>5, Induction
  <2>7. f[n] = g[n]
    BY <2>1, <2>6 DEF Same
  <2>8. n + 1 \in 1 .. n + 1 /\ (n + 1) - 1 = n
    BY <2>1
  <2>9. g[n + 1] = splitCharacter(g[n], all[n + 1])
    BY <2>3, <2>8
  <2>. QED
    BY <2>1, <2>2, <2>3, <2>7, <2>9 DEF all
<1>. QED
  BY <1>1, <1>2, <1>3

-----------------------------------------------------------------------------
(* Reading lines, one character at a time                                   *)

ReadState == [lines : Seq(Text), line : Text]
readStart == [lines |-> <<>>, line |-> <<>>]
readRun(text) == FoldLeft(readCharacter, readStart, text)

LEMMA ReadTyped ==
  /\ readStart \in ReadState
  /\ \A s \in ReadState, c \in Characters : readCharacter(s, c) \in ReadState
<1>1. readStart \in ReadState
  BY DEF readStart, ReadState, Text
<1>2. ASSUME NEW s \in ReadState, NEW c \in Characters
      PROVE  readCharacter(s, c) \in ReadState
  <2>1. Append(s.line, c) \in Text
    BY TextFacts DEF ReadState
  <2>2. Append(s.lines, s.line) \in Seq(Text) /\ <<>> \in Text
    BY TextFacts DEF ReadState
  <2>. QED
    BY <2>1, <2>2 DEF readCharacter, ReadState
<1>. QED
  BY <1>1, <1>2

\* The states of the reader, from character to character.
LEMMA ReadSteps ==
  ASSUME NEW text \in Text
  PROVE  \E f \in [0 .. Len(text) -> ReadState] :
           /\ f[0] = readStart
           /\ \A i \in 1 .. Len(text) : f[i] = readCharacter(f[i - 1], text[i])
           /\ f[Len(text)] = readRun(text)
<1>. DEFINE V == ReadState
            n == Len(text)
            step == [i \in 1 .. n |-> [v \in V |-> readCharacter(v, text[i])]]
            Solves(g) == g = [s \in SUBSET (1 .. n) |->
                                IF s = {} THEN readStart
                                ELSE readCharacter(g[s \ {Max(s)}], text[Max(s)])]
            iter == CHOOSE g : Solves(g)
<1>1. n \in Nat /\ DOMAIN text = 1 .. n /\ \A i \in 1 .. n : text[i] \in Characters
  BY DEF Text
<1>2. readRun(text) = iter[1 .. n]
  <2>1. readRun(text) = (CHOOSE g : g = [s \in SUBSET (DOMAIN text) |->
                            IF s = {} THEN readStart
                            ELSE readCharacter(g[s \ {Max(s)}], text[Max(s)])])[DOMAIN text]
    BY Zenon DEF readRun, FoldLeft, MapThenFoldSet
  <2>. QED
    BY <1>1, <2>1
<1>3. step \in [1 .. n -> [V -> V]]
  BY <1>1, ReadTyped
<1>. HIDE DEF n, V
<1>4. PICK f \in [SUBSET (1 .. n) -> V] : FoldsFromMax(f, n, readStart, step)
  <2>. HIDE DEF step, iter, Solves
  <2>1. readStart \in V
    BY ReadTyped DEF V
  <2>2. n \in Nat
    BY <1>1
  <2>. QED
    BY <1>3, <2>1, <2>2, FoldFunctionExists
<1>5. \A s \in SUBSET (1 .. n) :
        f[s] = IF s = {} THEN readStart ELSE step[Max(s)][f[s \ {Max(s)}]]
  <2>. HIDE DEF step
  <2>. QED
    BY <1>4 DEF FoldsFromMax
<1>6. Solves(f)
  <2>1. ASSUME NEW s \in SUBSET (1 .. n), s # {}
        PROVE  step[Max(s)][f[s \ {Max(s)}]] = readCharacter(f[s \ {Max(s)}], text[Max(s)])
    <3>1. Max(s) \in 1 .. n
      BY <1>1, <2>1, MaxWithin
    <3>2. f[s \ {Max(s)}] \in V
      OBVIOUS
    <3>. QED
      BY <3>1, <3>2
  <2>. HIDE DEF step
  <2>. QED
    BY <1>5, <2>1
<1>7. Solves(iter)
  <2>. HIDE DEF Solves
  <2>. QED
    BY <1>6, Zenon
<1>. HIDE DEF iter
<1>8. iter[{}] = readStart
  BY <1>7
<1>9. ASSUME NEW s \in SUBSET (1 .. n), s # {}, iter[s \ {Max(s)}] \in V
      PROVE  iter[s] = step[Max(s)][iter[s \ {Max(s)}]]
  <2>1. Max(s) \in 1 .. n
    BY <1>1, <1>9, MaxWithin
  <2>2. iter[s] = readCharacter(iter[s \ {Max(s)}], text[Max(s)])
    BY <1>7, <1>9
  <2>. QED
    BY <1>9, <2>1, <2>2
<1>. HIDE DEF step, Solves
<1>10. PICK h \in [0 .. n -> V] :
         StepByStep(h, n, readStart, step) /\ h[n] = iter[1 .. n]
  <2>1. readStart \in V
    BY ReadTyped DEF V
  <2>2. n \in Nat
    BY <1>1
  <2>3. FoldsWithin(iter, V, n, readStart, step)
    BY <1>8, <1>9 DEF FoldsWithin
  <2>. QED
    BY <1>3, <2>1, <2>2, <2>3, FoldStates
<1>11. /\ h[0] = readStart
       /\ \A i \in 1 .. n : h[i] = step[i][h[i - 1]]
  BY <1>10 DEF StepByStep
<1>12. \A i \in 1 .. n : h[i] = readCharacter(h[i - 1], text[i])
  <2>. TAKE i \in 1 .. n
  <2>1. i - 1 \in 0 .. n
    BY <1>1
  <2>2. h[i - 1] \in V
    BY <2>1
  <2>3. step[i][h[i - 1]] = readCharacter(h[i - 1], text[i])
    BY <2>2 DEF step
  <2>. QED
    BY <1>11, <2>3
<1>. QED
  BY <1>2, <1>10, <1>11, <1>12 DEF n, V

LEMMA ReadGrows ==
  /\ readRun(<<>>) = readStart
  /\ \A text \in Text : readRun(text) \in ReadState
  /\ \A text \in Text, c \in Characters :
       readRun(Append(text, c)) = readCharacter(readRun(text), c)
<1>1. readRun(<<>>) = readStart
  <2>1. <<>> \in Text /\ Len(<<>>) = 0
    BY TextFacts
  <2>2. PICK f \in [0 .. Len(<<>>) -> ReadState] :
          f[0] = readStart /\ f[Len(<<>>)] = readRun(<<>>)
    BY <2>1, ReadSteps
  <2>. QED
    BY <2>1, <2>2
<1>2. ASSUME NEW text \in Text
      PROVE  readRun(text) \in ReadState
  <2>1. PICK f \in [0 .. Len(text) -> ReadState] : f[Len(text)] = readRun(text)
    BY ReadSteps
  <2>2. Len(text) \in 0 .. Len(text)
    BY DEF Text
  <2>. QED
    BY <2>1, <2>2
<1>3. ASSUME NEW text \in Text, NEW c \in Characters
      PROVE  readRun(Append(text, c)) = readCharacter(readRun(text), c)
  <2>. DEFINE all == Append(text, c)
              n == Len(text)
  <2>1. /\ n \in Nat /\ all \in Text /\ Len(all) = n + 1 /\ all[n + 1] = c
        /\ \A i \in 1 .. n : all[i] = text[i]
    BY DEF Text
  <2>. HIDE DEF all
  <2>2. PICK f \in [0 .. n -> ReadState] :
          /\ f[0] = readStart
          /\ \A i \in 1 .. n : f[i] = readCharacter(f[i - 1], text[i])
          /\ f[n] = readRun(text)
    BY ReadSteps
  <2>3. PICK g \in [0 .. n + 1 -> ReadState] :
          /\ g[0] = readStart
          /\ \A i \in 1 .. n + 1 : g[i] = readCharacter(g[i - 1], all[i])
          /\ g[n + 1] = readRun(all)
    <3>1. PICK g \in [0 .. Len(all) -> ReadState] :
            /\ g[0] = readStart
            /\ \A i \in 1 .. Len(all) : g[i] = readCharacter(g[i - 1], all[i])
            /\ g[Len(all)] = readRun(all)
      BY <2>1, ReadSteps
    <3>. QED
      BY <2>1, <3>1
  <2>. HIDE DEF n
  <2>. DEFINE Same == {m \in Nat : m \in 0 .. n => f[m] = g[m]}
  <2>4. 0 \in Same
    BY <2>2, <2>3
  <2>5. ASSUME NEW m \in Nat, m \in Same
        PROVE  m + 1 \in Same
    <3>. SUFFICES ASSUME m + 1 \in 0 .. n PROVE f[m + 1] = g[m + 1]
      OBVIOUS
    <3>1. m \in 0 .. n /\ m + 1 \in 1 .. n /\ m + 1 \in 1 .. n + 1 /\ (m + 1) - 1 = m
      BY <2>1
    <3>2. f[m] = g[m] /\ all[m + 1] = text[m + 1]
      BY <2>1, <2>5, <3>1
    <3>3. f[m + 1] = readCharacter(f[m], text[m + 1])
      BY <2>2, <3>1
    <3>4. g[m + 1] = readCharacter(g[m], all[m + 1])
      BY <2>3, <3>1
    <3>. QED
      BY <3>2, <3>3, <3>4
  <2>. HIDE DEF Same
  <2>6. n \in Same
    BY <2>1, <2>4, <2>5, Induction
  <2>7. f[n] = g[n]
    BY <2>1, <2>6 DEF Same
  <2>8. n + 1 \in 1 .. n + 1 /\ (n + 1) - 1 = n
    BY <2>1
  <2>9. g[n + 1] = readCharacter(g[n], all[n + 1])
    BY <2>3, <2>8
  <2>. QED
    BY <2>1, <2>2, <2>3, <2>7, <2>9 DEF all
<1>. QED
  BY <1>1, <1>2, <1>3

-----------------------------------------------------------------------------
(* Fields and lines                                                         *)

LEMMA EscapedShape ==
  ASSUME NEW c \in Characters
  PROVE  /\ Escaped(c) \in Text
         /\ \/ c \notin {"|", "\\", "\n", "\r"} /\ Escaped(c) = <<c>>
            \/ c \in {"|", "\\"} /\ Escaped(c) = Append(<<"\\">>, c)
            \/ c = "\n" /\ Escaped(c) = Append(<<"\\">>, "n")
            \/ c = "\r" /\ Escaped(c) = Append(<<"\\">>, "r")
<1>1. \A d \in Characters : <<d>> \in Text /\ <<"\\", d>> = Append(<<"\\">>, d)
                             /\ Append(<<"\\">>, d) \in Text
  <2>. TAKE d \in Characters
  <2>1. <<"\\">> \in Text /\ <<d>> \in Text
    BY SpecialCharacters, TextFacts
  <2>2. Append(<<"\\">>, d) \in Text
    BY <2>1, TextFacts
  <2>3. <<"\\", d>> = Append(<<"\\">>, d)
    OBVIOUS
  <2>. QED
    BY <2>1, <2>2, <2>3
<1>2. \/ c \notin {"|", "\\", "\n", "\r"} /\ Escaped(c) = <<c>>
      \/ c \in {"|", "\\"} /\ Escaped(c) = <<"\\", c>>
      \/ c = "\n" /\ Escaped(c) = <<"\\", "n">>
      \/ c = "\r" /\ Escaped(c) = <<"\\", "r">>
  BY DEF Escaped, EscapedDelimiter
<1>. QED
  BY <1>1, <1>2, SpecialCharacters, Zenon

LEMMA EscapeGrows ==
  /\ escapeField(<<>>) = <<>>
  /\ \A v \in Text, c \in Characters :
       escapeField(Append(v, c)) = escapeField(v) \o Escaped(c)
  /\ \A v \in Text : escapeField(v) \in Text
<1>1. escapeField(<<>>) = <<>>
  <2>1. [i \in DOMAIN <<>> |-> Escaped(<<>>[i])] = <<>>
    OBVIOUS
  <2>. QED
    BY <2>1, FlattenEmpty DEF escapeField
<1>. DEFINE parts(v) == [i \in DOMAIN v |-> Escaped(v[i])]
<1>2. ASSUME NEW v \in Text
      PROVE  parts(v) \in Seq(Text) /\ Len(parts(v)) = Len(v)
  <2>1. DOMAIN v = 1 .. Len(v) /\ Len(v) \in Nat /\ \A i \in 1 .. Len(v) : v[i] \in Characters
    BY DEF Text
  <2>2. \A i \in 1 .. Len(v) : Escaped(v[i]) \in Text
    BY <2>1, EscapedShape
  <2>. QED
    BY <2>1, <2>2
<1>3. ASSUME NEW v \in Text, NEW c \in Characters
      PROVE  parts(Append(v, c)) = Append(parts(v), Escaped(c))
  <2>1. /\ Append(v, c) \in Text /\ Len(Append(v, c)) = Len(v) + 1 /\ Len(v) \in Nat
        /\ \A i \in 1 .. Len(v) : Append(v, c)[i] = v[i]
        /\ Append(v, c)[Len(v) + 1] = c
    BY DEF Text
  <2>2. Escaped(c) \in Text
    BY EscapedShape
  <2>. DEFINE a == parts(Append(v, c))
              p == parts(v)
              b == Append(p, Escaped(c))
  <2>3. a \in Seq(Text) /\ Len(a) = Len(v) + 1 /\ p \in Seq(Text) /\ Len(p) = Len(v)
    BY <1>2, <2>1
  <2>4. /\ \A i \in 1 .. Len(v) + 1 : a[i] = Escaped(Append(v, c)[i])
        /\ \A i \in 1 .. Len(v) : p[i] = Escaped(v[i])
    BY <2>1 DEF Text
  <2>. HIDE DEF a, p
  <2>5. /\ b \in Seq(Text) /\ Len(b) = Len(v) + 1 /\ b[Len(v) + 1] = Escaped(c)
        /\ \A i \in 1 .. Len(v) : b[i] = p[i]
    BY <2>2, <2>3
  <2>. HIDE DEF b
  <2>6. \A i \in 1 .. Len(v) + 1 : a[i] = b[i]
    <3>. TAKE i \in 1 .. Len(v) + 1
    <3>1. i \in 1 .. Len(v) \/ i = Len(v) + 1
      BY <2>1
    <3>. QED
      BY <2>1, <2>4, <2>5, <3>1
  <2>7. a = b
    BY <2>3, <2>5, <2>6, SeqEqual
  <2>. QED
    BY <2>7 DEF a, b, p
<1>. HIDE DEF parts
<1>4. \A v : escapeField(v) = FlattenSeq(parts(v))
  BY DEF escapeField, parts
<1>5. ASSUME NEW v \in Text, NEW c \in Characters
      PROVE  escapeField(Append(v, c)) = escapeField(v) \o Escaped(c)
  <2>1. parts(v) \in Seq(Seq(Characters)) /\ Escaped(c) \in Seq(Characters)
    BY <1>2, EscapedShape DEF Text
  <2>2. FlattenSeq(Append(parts(v), Escaped(c))) = FlattenSeq(parts(v)) \o Escaped(c)
    BY <2>1, FlattenAppend
  <2>. QED
    BY <1>3, <1>4, <2>2
<1>6. ASSUME NEW v \in Text
      PROVE  escapeField(v) \in Text
  <2>1. parts(v) \in Seq(Seq(Characters))
    BY <1>2 DEF Text
  <2>. QED
    BY <1>4, <2>1, FlattenTyped DEF Text
<1>. QED
  BY <1>1, <1>5, <1>6

\* The split between two characters neither of which is escaped by the other.
between(fields, field) ==
  [fields |-> fields, currentField |-> field, escaping |-> FALSE]

LEMMA OneMoreEscaped ==
  ASSUME NEW l \in Text, NEW w \in Text, NEW c \in Characters
  PROVE  l \o escapeField(Append(w, c)) = (l \o escapeField(w)) \o Escaped(c)
<1>1. escapeField(w) \in Text /\ Escaped(c) \in Text
  BY EscapeGrows, EscapedShape
<1>2. escapeField(Append(w, c)) = escapeField(w) \o Escaped(c)
  BY EscapeGrows
<1>3. ASSUME NEW a \in Text, NEW b \in Text
      PROVE  (l \o a) \o b = l \o (a \o b)
  BY TextRegroup
<1>. QED
  BY <1>1, <1>2, <1>3

\* An escaped field is taken for what it was, character by character.
LEMMA FieldSplits ==
  ASSUME NEW l \in Text, NEW fields, NEW f \in Text,
         splitRun(l) = between(fields, f), NEW v \in Text
  PROVE  splitRun(l \o escapeField(v)) = between(fields, f \o v)
<1>. DEFINE Splits == {w \in Text : splitRun(l \o escapeField(w)) = between(fields, f \o w)}
<1>1. <<>> \in Splits
  BY TextFacts, EscapeGrows
<1>2. ASSUME NEW w \in Text, NEW c \in Characters, w \in Splits
      PROVE  Append(w, c) \in Splits
  <2>. DEFINE t == l \o escapeField(w)
              u == between(fields, f \o w)
              target == between(fields, Append(f \o w, c))
  <2>1. t \in Text /\ Append(w, c) \in Text /\ w \in Text
    BY TextFacts, EscapeGrows
  <2>2. splitRun(t) = u
    BY <1>2
  <2>5. l \o escapeField(Append(w, c)) = t \o Escaped(c)
    BY OneMoreEscaped
  <2>6. between(fields, f \o Append(w, c)) = target
    <3>1. f \o Append(w, c) = Append(f \o w, c)
      BY TextAppendRight
    <3>. QED
      BY <3>1, Zenon
  <2>. HIDE DEF t
  <2>7. splitRun(t \o Escaped(c)) = target
    <3>1. CASE c \notin {"|", "\\", "\n", "\r"} /\ Escaped(c) = <<c>>
      <4>1. splitRun(Append(t, c)) = splitCharacter(u, c)
        BY <2>1, <2>2, SplitGrows
      <4>2. splitCharacter(u, c) = target
        BY <3>1 DEF splitCharacter, between
      <4>3. t \o <<c>> = Append(t, c)
        BY <2>1, TextFacts
      <4>. QED
        BY <3>1, <4>1, <4>2, <4>3
    <3>2. ASSUME NEW d \in Characters, Escaped(c) = Append(<<"\\">>, d),
                 c = CASE d = "n" -> "\n" [] d = "r" -> "\r" [] OTHER -> d
          PROVE  splitRun(t \o Escaped(c)) = target
      <4>. DEFINE e == [fields |-> fields, currentField |-> f \o w, escaping |-> TRUE]
      <4>1. splitRun(Append(t, "\\")) = splitCharacter(u, "\\")
        BY <2>1, <2>2, SplitGrows, SpecialCharacters
      <4>2. splitCharacter(u, "\\") = e
        BY DEF splitCharacter, between
      <4>3. Append(t, "\\") \in Text
        BY <2>1, TextAppend, SpecialCharacters, Zenon
      <4>4. splitRun(Append(Append(t, "\\"), d)) = splitCharacter(e, d)
        <5>. DEFINE b == Append(t, "\\")
        <5>1. b \in Text /\ splitRun(b) = e
          BY <4>1, <4>2, <4>3
        <5>. HIDE DEF b, e
        <5>2. splitRun(Append(b, d)) = splitCharacter(e, d)
          BY <5>1, SplitGrows
        <5>. QED
          BY <5>2 DEF b
      <4>5. splitCharacter(e, d) = target
        BY <3>2 DEF splitCharacter, between
      <4>6. t \o Append(<<"\\">>, d) = Append(Append(t, "\\"), d)
        <5>1. <<"\\">> \in Text /\ t \o <<"\\">> = Append(t, "\\")
          BY <2>1, TextAppend, SpecialCharacters, Zenon
        <5>2. t \o Append(<<"\\">>, d) = Append(t \o <<"\\">>, d)
          BY <2>1, <5>1, TextAppendRight, Zenon
        <5>. QED
          BY <5>1, <5>2
      <4>. QED
        BY <3>2, <4>4, <4>5, <4>6
    <3>3. CASE c \in {"|", "\\"} /\ Escaped(c) = Append(<<"\\">>, c)
      <4>1. c = CASE c = "n" -> "\n" [] c = "r" -> "\r" [] OTHER -> c
        BY <3>3
      <4>. QED
        BY <3>2, <3>3, <4>1
    <3>4. CASE c = "\n" /\ Escaped(c) = Append(<<"\\">>, "n")
      <4>1. c = CASE "n" = "n" -> "\n" [] "n" = "r" -> "\r" [] OTHER -> "n"
        BY <3>4
      <4>. QED
        BY <3>2, <3>4, <4>1, SpecialCharacters
    <3>5. CASE c = "\r" /\ Escaped(c) = Append(<<"\\">>, "r")
      <4>1. c = CASE "r" = "n" -> "\n" [] "r" = "r" -> "\r" [] OTHER -> "r"
        BY <3>5
      <4>. QED
        BY <3>2, <3>5, <4>1, SpecialCharacters
    <3>. QED
      BY <3>1, <3>3, <3>4, <3>5, EscapedShape
  <2>. QED
    BY <2>1, <2>5, <2>6, <2>7
<1>3. Text \subseteq Splits
  <2>. HIDE DEF Splits
  <2>. QED
    BY <1>1, <1>2, SequenceInduction DEF Text
<1>. QED
  BY <1>3

\* A field of a line with the delimiter before it, unless it is the first.
joinedField(fields, i) ==
  (IF i > 1 THEN <<"|">> ELSE <<>>) \o escapeField(fields[i])

LEMMA JoinedFieldTyped ==
  ASSUME NEW fields \in Seq(Text), NEW i \in 1 .. Len(fields)
  PROVE  joinedField(fields, i) \in Text
<1>1. escapeField(fields[i]) \in Text
  BY EscapeGrows
<1>2. <<"|">> \in Text /\ <<>> \in Text
  BY SpecialCharacters, TextFacts
<1>. QED
  BY <1>1, <1>2, TextFacts DEF joinedField

LEMMA JoinGrows ==
  /\ \A fields \in Seq(Text) : joinEscapedFields(fields) \in Text
  /\ \A v \in Text : joinEscapedFields(<<v>>) = escapeField(v)
  /\ \A fields \in Seq(Text), v \in Text : fields # <<>> =>
       joinEscapedFields(Append(fields, v))
         = joinEscapedFields(fields) \o (<<"|">> \o escapeField(v))
<1>. DEFINE parts(fields) == [i \in DOMAIN fields |-> joinedField(fields, i)]
<1>1. ASSUME NEW fields \in Seq(Text)
      PROVE  /\ parts(fields) \in Seq(Text) /\ Len(parts(fields)) = Len(fields)
             /\ \A i \in 1 .. Len(fields) : parts(fields)[i] = joinedField(fields, i)
  <2>1. DOMAIN fields = 1 .. Len(fields) /\ Len(fields) \in Nat
    OBVIOUS
  <2>2. \A i \in 1 .. Len(fields) : joinedField(fields, i) \in Text
    BY JoinedFieldTyped
  <2>. QED
    BY <2>1, <2>2
<1>2. \A fields : joinEscapedFields(fields) = FlattenSeq(parts(fields))
  BY DEF joinEscapedFields, joinedField
<1>3. ASSUME NEW fields \in Seq(Text), NEW v \in Text
      PROVE  parts(Append(fields, v))
               = Append(parts(fields),
                        (IF Len(fields) > 0 THEN <<"|">> ELSE <<>>) \o escapeField(v))
  <2>. DEFINE all == Append(fields, v)
              n == Len(fields)
              e == (IF n > 0 THEN <<"|">> ELSE <<>>) \o escapeField(v)
              a == parts(all)
              p == parts(fields)
              b == Append(p, e)
  <2>1. /\ n \in Nat /\ all \in Seq(Text) /\ Len(all) = n + 1 /\ all[n + 1] = v
        /\ \A i \in 1 .. n : all[i] = fields[i]
    OBVIOUS
  <2>. HIDE DEF all
  <2>2. /\ a \in Seq(Text) /\ Len(a) = n + 1
        /\ \A i \in 1 .. n + 1 : a[i] = joinedField(all, i)
    BY <1>1, <2>1
  <2>3. /\ p \in Seq(Text) /\ Len(p) = n
        /\ \A i \in 1 .. n : p[i] = joinedField(fields, i)
    BY <1>1
  <2>4. e = joinedField(all, n + 1)
    BY <2>1 DEF joinedField
  <2>5. e \in Text
    <3>1. n + 1 \in 1 .. Len(all)
      BY <2>1
    <3>. QED
      BY <2>1, <2>4, <3>1, JoinedFieldTyped
  <2>. HIDE DEF e, a, p
  <2>6. /\ b \in Seq(Text) /\ Len(b) = n + 1 /\ b[n + 1] = e
        /\ \A i \in 1 .. n : b[i] = p[i]
    BY <2>3, <2>5
  <2>. HIDE DEF b
  <2>7. \A i \in 1 .. n + 1 : a[i] = b[i]
    <3>. TAKE i \in 1 .. n + 1
    <3>1. CASE i = n + 1
      BY <2>2, <2>4, <2>6, <3>1
    <3>2. CASE i \in 1 .. n
      <4>1. a[i] = joinedField(all, i) /\ b[i] = joinedField(fields, i)
        BY <2>1, <2>2, <2>3, <2>6, <3>2
      <4>2. all[i] = fields[i]
        BY <2>1, <3>2
      <4>. QED
        BY <4>1, <4>2 DEF joinedField
    <3>. QED
      BY <2>1, <3>1, <3>2
  <2>8. a = b
    BY <2>2, <2>6, <2>7, SeqEqual
  <2>. QED
    BY <2>8 DEF a, b, p, all, e
<1>. HIDE DEF parts
<1>4. ASSUME NEW fields \in Seq(Text)
      PROVE  joinEscapedFields(fields) \in Text
  <2>1. parts(fields) \in Seq(Seq(Characters))
    BY <1>1 DEF Text
  <2>. QED
    BY <1>2, <2>1, FlattenTyped DEF Text
<1>5. ASSUME NEW fields \in Seq(Text), NEW v \in Text
      PROVE  joinEscapedFields(Append(fields, v))
               = joinEscapedFields(fields)
                   \o ((IF Len(fields) > 0 THEN <<"|">> ELSE <<>>) \o escapeField(v))
  <2>. DEFINE e == (IF Len(fields) > 0 THEN <<"|">> ELSE <<>>) \o escapeField(v)
  <2>1. parts(fields) \in Seq(Seq(Characters))
    BY <1>1 DEF Text
  <2>2. e \in Seq(Characters)
    <3>1. escapeField(v) \in Text /\ <<"|">> \in Text /\ <<>> \in Text
      BY EscapeGrows, SpecialCharacters, TextFacts
    <3>. QED
      BY <3>1, TextFacts DEF Text
  <2>3. parts(Append(fields, v)) = Append(parts(fields), e)
    BY <1>3
  <2>. HIDE DEF e
  <2>4. FlattenSeq(Append(parts(fields), e)) = FlattenSeq(parts(fields)) \o e
    BY <2>1, <2>2, FlattenAppend
  <2>. QED
    BY <1>2, <2>3, <2>4 DEF e
<1>6. ASSUME NEW v \in Text
      PROVE  joinEscapedFields(<<v>>) = escapeField(v)
  <2>1. <<v>> = Append(<<>>, v) /\ <<>> \in Seq(Text) /\ ~(Len(<<>>) > 0)
    OBVIOUS
  <2>2. parts(<<>>) = <<>>
    BY DEF parts
  <2>3. joinEscapedFields(<<>>) = <<>>
    BY <1>2, <2>2, FlattenEmpty
  <2>4. joinEscapedFields(<<v>>) = <<>> \o (<<>> \o escapeField(v))
    BY <1>5, <2>1, <2>3
  <2>. QED
    BY <2>4, EscapeGrows, TextFacts
<1>. QED
  BY <1>4, <1>5, <1>6

\* Splitting a joined line gives the fields back.
LEMMA JoinSplits ==
  ASSUME NEW fields \in Seq(Text), NEW v \in Text
  PROVE  splitRun(joinEscapedFields(Append(fields, v))) = between(fields, v)
<1>. DEFINE Splits == {f \in Seq(Text) : \A w \in Text :
                         splitRun(joinEscapedFields(Append(f, w))) = between(f, w)}
<1>1. <<>> \in Splits
  <2>1. ASSUME NEW w \in Text
        PROVE  splitRun(joinEscapedFields(Append(<<>>, w))) = between(<<>>, w)
    <3>1. Append(<<>>, w) = <<w>> /\ <<>> \in Text
      BY TextFacts
    <3>2. splitRun(<<>>) = between(<<>>, <<>>)
      BY SplitGrows DEF between, splitStart
    <3>3. splitRun(<<>> \o escapeField(w)) = between(<<>>, <<>> \o w)
      <4>. DEFINE e == <<>>
      <4>1. e \in Text /\ splitRun(e) = between(e, e)
        BY <3>1, <3>2
      <4>. HIDE DEF e
      <4>2. splitRun(e \o escapeField(w)) = between(e, e \o w)
        BY <4>1, FieldSplits
      <4>. QED
        BY <4>2 DEF e
    <3>4. <<>> \o escapeField(w) = escapeField(w) /\ <<>> \o w = w
      BY EscapeGrows, TextFacts
    <3>. QED
      BY <3>1, <3>3, <3>4, JoinGrows
  <2>2. <<>> \in Seq(Text)
    OBVIOUS
  <2>. QED
    BY <2>1, <2>2
<1>2. ASSUME NEW f \in Seq(Text), NEW u \in Text, f \in Splits
      PROVE  Append(f, u) \in Splits
  <2>. DEFINE g == Append(f, u)
  <2>1. g \in Seq(Text) /\ g # <<>>
    OBVIOUS
  <2>2. ASSUME NEW w \in Text
        PROVE  splitRun(joinEscapedFields(Append(g, w))) = between(g, w)
    <3>. DEFINE l == joinEscapedFields(g)
    <3>1. l \in Text /\ splitRun(l) = between(f, u)
      BY <1>2, <2>1, JoinGrows
    <3>. HIDE DEF g, l
    <3>2. joinEscapedFields(Append(g, w)) = l \o (<<"|">> \o escapeField(w))
      BY <2>1, JoinGrows DEF l
    <3>3. /\ <<"|">> \in Text /\ "|" \in Characters /\ <<>> \in Text
          /\ escapeField(w) \in Text /\ <<>> \o w = w
      BY SpecialCharacters, TextFacts, EscapeGrows
    <3>4. Append(l, "|") \in Text /\ Append(l, "|") = l \o <<"|">>
      BY <3>1, <3>3, TextFacts
    <3>5. (l \o <<"|">>) \o escapeField(w) = l \o (<<"|">> \o escapeField(w))
      BY <3>1, <3>3, TextRegroup, Zenon
    <3>6. splitRun(Append(l, "|")) = splitCharacter(between(f, u), "|")
      BY <3>1, <3>3, SplitGrows
    <3>7. splitCharacter(between(f, u), "|") = between(g, <<>>)
      BY DEF splitCharacter, between, g
    <3>8. splitRun(Append(l, "|") \o escapeField(w)) = between(g, <<>> \o w)
      <4>. DEFINE t == Append(l, "|")
      <4>1. t \in Text /\ splitRun(t) = between(g, <<>>)
        BY <3>4, <3>6, <3>7
      <4>. HIDE DEF t
      <4>2. splitRun(t \o escapeField(w)) = between(g, <<>> \o w)
        <5>. DEFINE empty == <<>>
        <5>1. empty \in Text
          BY <3>3
        <5>2. t \in Text /\ splitRun(t) = between(g, empty)
          BY <4>1
        <5>. HIDE DEF empty, Splits
        <5>3. splitRun(t \o escapeField(w)) = between(g, empty \o w)
          BY <5>1, <5>2, FieldSplits
        <5>. QED
          BY <5>3 DEF empty
      <4>. QED
        BY <4>2 DEF t
    <3>. QED
      BY <3>2, <3>3, <3>4, <3>5, <3>8
  <2>. QED
    BY <2>1, <2>2
<1>3. Seq(Text) \subseteq Splits
  <2>. HIDE DEF Splits
  <2>. QED
    BY <1>1, <1>2, SequenceInduction
<1>. QED
  BY <1>3

LEMMA SplitJoined ==
  ASSUME NEW fields \in Seq(Text), fields # <<>>
  PROVE  splitEscapedLine(joinEscapedFields(fields)) = fields
<1>. DEFINE f == SubSeq(fields, 1, Len(fields) - 1)
            v == fields[Len(fields)]
<1>1. f \in Seq(Text) /\ v \in Text /\ fields = Append(f, v)
  <2>1. Len(fields) \in Nat \ {0}
    OBVIOUS
  <2>2. f \in Seq(Text) /\ v \in Text
    BY <2>1
  <2>3. fields = Append(f, v)
    BY <2>1, AppendProperties, SubSeqProperties, SeqEqual
  <2>. QED
    BY <2>2, <2>3
<1>. HIDE DEF f, v
<1>2. splitRun(joinEscapedFields(fields)) = between(f, v)
  BY <1>1, JoinSplits
<1>3. splitEscapedLine(joinEscapedFields(fields)) = Append(f, v)
  BY <1>2 DEF splitEscapedLine, splitRun, splitStart, between
<1>. QED
  BY <1>1, <1>3

-----------------------------------------------------------------------------
(* Lines and texts                                                          *)

\* What has no line end in it.
Unbroken == Seq(Characters \ {"\n"})

LEMMA UnbrokenIsText == Unbroken \subseteq Text
  BY DEF Unbroken, Text

LEMMA EscapedUnbroken ==
  /\ \A v \in Text : escapeField(v) \in Unbroken
  /\ \A fields \in Seq(Text) : joinEscapedFields(fields) \in Unbroken
<1>. DEFINE C == Characters \ {"\n"}
<1>1. "|" \in C /\ "\\" \in C /\ "n" \in C /\ "r" \in C
  BY SpecialCharacters
<1>2. ASSUME NEW c \in Characters
      PROVE  Escaped(c) \in Seq(C)
  <2>1. \A d \in C : <<d>> \in Seq(C) /\ Append(<<"\\">>, d) \in Seq(C)
    BY <1>1
  <2>2. CASE c \notin {"|", "\\", "\n", "\r"} /\ Escaped(c) = <<c>>
    BY <2>1, <2>2
  <2>3. CASE c \in {"|", "\\"} /\ Escaped(c) = Append(<<"\\">>, c)
    BY <1>1, <2>1, <2>3
  <2>4. CASE Escaped(c) \in {Append(<<"\\">>, "n"), Append(<<"\\">>, "r")}
    BY <1>1, <2>1, <2>4
  <2>. QED
    BY <2>2, <2>3, <2>4, EscapedShape
<1>. HIDE DEF C
<1>3. ASSUME NEW v \in Text
      PROVE  escapeField(v) \in Seq(C)
  <2>. DEFINE parts == [i \in DOMAIN v |-> Escaped(v[i])]
  <2>1. DOMAIN v = 1 .. Len(v) /\ Len(v) \in Nat /\ \A i \in 1 .. Len(v) : v[i] \in Characters
    BY DEF Text
  <2>2. \A i \in 1 .. Len(v) : Escaped(v[i]) \in Seq(C)
    BY <1>2, <2>1
  <2>3. parts \in Seq(Seq(C))
    BY <2>1, <2>2
  <2>. HIDE DEF parts
  <2>4. FlattenSeq(parts) \in Seq(C)
    BY <2>3, FlattenTyped
  <2>. QED
    BY <2>4 DEF escapeField, parts
<1>4. ASSUME NEW fields \in Seq(Text)
      PROVE  joinEscapedFields(fields) \in Seq(C)
  <2>. DEFINE parts == [i \in DOMAIN fields |-> joinedField(fields, i)]
  <2>1. DOMAIN fields = 1 .. Len(fields) /\ Len(fields) \in Nat
    OBVIOUS
  <2>2. ASSUME NEW i \in 1 .. Len(fields)
        PROVE  joinedField(fields, i) \in Seq(C)
    <3>1. escapeField(fields[i]) \in Seq(C) /\ <<"|">> \in Seq(C) /\ <<>> \in Seq(C)
      BY <1>1, <1>3
    <3>. QED
      BY <3>1, ConcatProperties DEF joinedField
  <2>3. parts \in Seq(Seq(C))
    BY <2>1, <2>2
  <2>. HIDE DEF parts
  <2>4. FlattenSeq(parts) \in Seq(C)
    BY <2>3, FlattenTyped
  <2>. QED
    BY <2>4 DEF joinEscapedFields, joinedField, parts
<1>. QED
  BY <1>3, <1>4 DEF Unbroken, C

\* The reader at the beginning of a line, and in one.
reading(lines, line) == [lines |-> lines, line |-> line]

LEMMA LineRead ==
  ASSUME NEW t \in Text, NEW lines, readRun(t) = reading(lines, <<>>),
         NEW l \in Unbroken
  PROVE  readRun(t \o l) = reading(lines, l)
<1>. DEFINE Reads == {k \in Unbroken : readRun(t \o k) = reading(lines, k)}
<1>1. <<>> \in Reads
  BY TextFacts DEF Unbroken
<1>2. ASSUME NEW k \in Unbroken, NEW c \in Characters \ {"\n"}, k \in Reads
      PROVE  Append(k, c) \in Reads
  <2>1. k \in Text /\ Append(k, c) \in Unbroken
    BY UnbrokenIsText DEF Unbroken
  <2>2. t \o k \in Text /\ t \o Append(k, c) = Append(t \o k, c)
    BY <2>1, TextFacts
  <2>3. readRun(Append(t \o k, c)) = readCharacter(reading(lines, k), c)
    BY <1>2, <2>2, ReadGrows
  <2>4. readCharacter(reading(lines, k), c) = reading(lines, Append(k, c))
    BY DEF readCharacter, reading
  <2>. QED
    BY <2>1, <2>2, <2>3, <2>4
<1>3. Unbroken \subseteq Reads
  <2>. HIDE DEF Reads
  <2>. QED
    BY <1>1, <1>2, SequenceInduction DEF Unbroken
<1>. QED
  BY <1>3

LEMMA TextGrows ==
  /\ textOf(<<>>) = <<>>
  /\ \A lines \in Seq(Text) : textOf(lines) \in Text
  /\ \A lines \in Seq(Text), l \in Text :
       textOf(Append(lines, l)) = textOf(lines) \o Append(l, "\n")
<1>. DEFINE parts(lines) == [i \in DOMAIN lines |-> Append(lines[i], "\n")]
<1>1. ASSUME NEW lines \in Seq(Text)
      PROVE  /\ parts(lines) \in Seq(Text) /\ Len(parts(lines)) = Len(lines)
             /\ \A i \in 1 .. Len(lines) : parts(lines)[i] = Append(lines[i], "\n")
  <2>1. DOMAIN lines = 1 .. Len(lines) /\ Len(lines) \in Nat
    OBVIOUS
  <2>2. \A i \in 1 .. Len(lines) : Append(lines[i], "\n") \in Text
    <3>. TAKE i \in 1 .. Len(lines)
    <3>1. lines[i] \in Text /\ "\n" \in Characters
      BY SpecialCharacters
    <3>. QED
      BY <3>1, TextFacts
  <2>. QED
    BY <2>1, <2>2
<1>2. \A lines : textOf(lines) = FlattenSeq(parts(lines))
  BY DEF textOf
<1>3. ASSUME NEW lines \in Seq(Text), NEW l \in Text
      PROVE  parts(Append(lines, l)) = Append(parts(lines), Append(l, "\n"))
  <2>. DEFINE all == Append(lines, l)
              n == Len(lines)
              e == Append(l, "\n")
              a == parts(all)
              p == parts(lines)
              b == Append(p, e)
  <2>1. /\ n \in Nat /\ all \in Seq(Text) /\ Len(all) = n + 1 /\ all[n + 1] = l
        /\ \A i \in 1 .. n : all[i] = lines[i]
    OBVIOUS
  <2>. HIDE DEF all
  <2>2. /\ a \in Seq(Text) /\ Len(a) = n + 1
        /\ \A i \in 1 .. n + 1 : a[i] = Append(all[i], "\n")
    BY <1>1, <2>1
  <2>3. /\ p \in Seq(Text) /\ Len(p) = n
        /\ \A i \in 1 .. n : p[i] = Append(lines[i], "\n")
    BY <1>1
  <2>4. e \in Text
    BY SpecialCharacters, TextFacts
  <2>. HIDE DEF a, p
  <2>5. e = Append(all[n + 1], "\n")
    BY <2>1
  <2>. HIDE DEF e
  <2>6. /\ b \in Seq(Text) /\ Len(b) = n + 1 /\ b[n + 1] = e
        /\ \A i \in 1 .. n : b[i] = p[i]
    BY <2>3, <2>4
  <2>. HIDE DEF b
  <2>7. \A i \in 1 .. n + 1 : a[i] = b[i]
    <3>. TAKE i \in 1 .. n + 1
    <3>1. CASE i = n + 1
      BY <2>2, <2>5, <2>6, <3>1
    <3>2. CASE i \in 1 .. n
      BY <2>1, <2>2, <2>3, <2>6, <3>2
    <3>. QED
      BY <2>1, <3>1, <3>2
  <2>8. a = b
    BY <2>2, <2>6, <2>7, SeqEqual
  <2>. QED
    BY <2>8 DEF a, b, p, all, e
<1>. HIDE DEF parts
<1>4. ASSUME NEW lines \in Seq(Text)
      PROVE  textOf(lines) \in Text
  <2>1. parts(lines) \in Seq(Seq(Characters))
    BY <1>1 DEF Text
  <2>. QED
    BY <1>2, <2>1, FlattenTyped DEF Text
<1>5. ASSUME NEW lines \in Seq(Text), NEW l \in Text
      PROVE  textOf(Append(lines, l)) = textOf(lines) \o Append(l, "\n")
  <2>. DEFINE e == Append(l, "\n")
  <2>1. parts(lines) \in Seq(Seq(Characters)) /\ e \in Seq(Characters)
    BY <1>1, SpecialCharacters, TextFacts DEF Text
  <2>. HIDE DEF e
  <2>2. FlattenSeq(Append(parts(lines), e)) = FlattenSeq(parts(lines)) \o e
    BY <2>1, FlattenAppend
  <2>. QED
    BY <1>2, <1>3, <2>2 DEF e
<1>6. textOf(<<>>) = <<>>
  <2>1. parts(<<>>) = <<>>
    BY DEF parts
  <2>. QED
    BY <1>2, <2>1, FlattenEmpty
<1>. QED
  BY <1>4, <1>5, <1>6

\* Reading a text gives the lines it was written from.
LEMMA LinesReadBack ==
  ASSUME NEW lines \in Seq(Unbroken)
  PROVE  readRun(textOf(lines)) = reading(lines, <<>>) /\ linesOf(textOf(lines)) = lines
<1>. DEFINE Reads == {ls \in Seq(Unbroken) : readRun(textOf(ls)) = reading(ls, <<>>)}
<1>1. <<>> \in Reads
  BY TextGrows, ReadGrows DEF reading, readStart
<1>2. ASSUME NEW ls \in Seq(Unbroken), NEW l \in Unbroken, ls \in Reads
      PROVE  Append(ls, l) \in Reads
  <2>1. /\ ls \in Seq(Text) /\ l \in Text /\ Append(ls, l) \in Seq(Unbroken)
        /\ "\n" \in Characters
    BY UnbrokenIsText, SpecialCharacters
  <2>. DEFINE t == textOf(ls)
  <2>2. t \in Text /\ textOf(Append(ls, l)) = t \o Append(l, "\n")
    BY <2>1, TextGrows
  <2>3. readRun(t) = reading(ls, <<>>)
    BY <1>2
  <2>. HIDE DEF t
  <2>4. readRun(t \o l) = reading(ls, l)
    BY <2>2, <2>3, LineRead
  <2>5. t \o l \in Text /\ t \o Append(l, "\n") = Append(t \o l, "\n")
    BY <2>1, <2>2, TextFacts
  <2>6. readRun(Append(t \o l, "\n")) = readCharacter(reading(ls, l), "\n")
    BY <2>1, <2>4, <2>5, ReadGrows
  <2>7. readCharacter(reading(ls, l), "\n") = reading(Append(ls, l), <<>>)
    BY DEF readCharacter, reading
  <2>. QED
    BY <2>1, <2>2, <2>5, <2>6, <2>7
<1>3. Seq(Unbroken) \subseteq Reads
  <2>. HIDE DEF Reads
  <2>. QED
    BY <1>1, <1>2, SequenceInduction
<1>4. readRun(textOf(lines)) = reading(lines, <<>>)
  BY <1>3
<1>5. linesOf(textOf(lines)) = lines
  BY <1>4 DEF linesOf, readRun, readStart, reading
<1>. QED
  BY <1>4, <1>5

\* The theorem behind SplitUndoesJoin, for fields of any number and length.
LEMMA FieldsAndLines ==
  ASSUME NEW fields \in Seq(Text), fields # <<>>
  PROVE  LET line == joinEscapedFields(fields)
         IN  /\ splitEscapedLine(line) = fields
             /\ linesOf(textOf(<<line, line>>)) = <<line, line>>
<1>. DEFINE line == joinEscapedFields(fields)
<1>1. line \in Unbroken
  BY EscapedUnbroken
<1>2. splitEscapedLine(line) = fields
  BY SplitJoined
<1>. HIDE DEF line
<1>3. <<line, line>> \in Seq(Unbroken)
  BY <1>1
<1>4. linesOf(textOf(<<line, line>>)) = <<line, line>>
  BY <1>3, LinesReadBack
<1>. QED
  BY <1>2, <1>4 DEF line

\* What is written is read back, for every alphabet and within all bounds.
THEOREM WrittenIsReadBack == Spec => []SplitUndoesJoin
<1>1. SplitUndoesJoin
  <2>. SUFFICES ASSUME NEW n \in 1 .. MaxFields,
                       NEW fields \in [1 .. n -> BoundedSeq(Alphabet, MaxText)]
                PROVE  LET line == joinEscapedFields(fields)
                       IN  /\ splitEscapedLine(line) = fields
                           /\ line # <<>> => linesOf(textOf(<<line, line>>)) = <<line, line>>
    BY DEF SplitUndoesJoin
  <2>1. BoundedSeq(Alphabet, MaxText) \subseteq Text
    <3>1. Alphabet \subseteq Characters /\ MaxText \in Nat
      BY PersistenceConstants DEF Characters
    <3>. QED
      BY <3>1 DEF BoundedSeq, SeqOf, Text
  <2>2. n \in Nat /\ n >= 1
    BY PersistenceConstants
  <2>3. fields \in Seq(Text) /\ fields # <<>>
    BY <2>1, <2>2
  <2>. QED
    BY <2>3, FieldsAndLines
<1>. QED
  BY <1>1, PTL

-----------------------------------------------------------------------------
(* What a text cut short gives                                              *)

\* A split that may still lead to the fields.
SplitsTowards(s, fields) ==
  /\ Len(s.fields) < Len(fields)
  /\ s.fields = SubSeq(fields, 1, Len(s.fields))
  /\ \E x \in Text : s.currentField \o x = fields[Len(s.fields) + 1]

LEMMA SplitCameThere ==
  ASSUME NEW fields \in Seq(Text), NEW s \in SplitState, NEW c \in Characters,
         SplitsTowards(splitCharacter(s, c), fields)
  PROVE  SplitsTowards(s, fields)
<1>. DEFINE f == s.currentField
            k == Len(s.fields)
<1>1. f \in Text /\ s.fields \in Seq(Text) /\ k \in Nat /\ Len(fields) \in Nat
  BY DEF SplitState
<1>2. CASE \E d \in Characters :
             /\ splitCharacter(s, c).fields = s.fields
             /\ splitCharacter(s, c).currentField = Append(f, d)
  <2>1. PICK d \in Characters :
             /\ splitCharacter(s, c).fields = s.fields
             /\ splitCharacter(s, c).currentField = Append(f, d)
    BY <1>2
  <2>2. /\ k < Len(fields) /\ s.fields = SubSeq(fields, 1, k)
        /\ \E x \in Text : Append(f, d) \o x = fields[k + 1]
    BY <2>1 DEF SplitsTowards
  <2>3. PICK x \in Text : Append(f, d) \o x = fields[k + 1]
    BY <2>2
  <2>. HIDE DEF f, k
  <2>4. <<d>> \in Text /\ Append(f, d) = f \o <<d>>
    BY <1>1, TextFacts
  <2>5. <<d>> \o x \in Text /\ (f \o <<d>>) \o x = f \o (<<d>> \o x)
    BY <1>1, <2>4, TextFacts
  <2>6. f \o (<<d>> \o x) = fields[k + 1]
    BY <2>3, <2>4, <2>5
  <2>. QED
    BY <2>2, <2>5, <2>6 DEF SplitsTowards, f, k
<1>3. CASE splitCharacter(s, c).fields = s.fields /\ splitCharacter(s, c).currentField = f
  BY <1>3 DEF SplitsTowards
<1>4. CASE splitCharacter(s, c).fields = Append(s.fields, f)
  <2>. DEFINE g == Append(s.fields, f)
  <2>1. g \in Seq(Text) /\ Len(g) = k + 1 /\ g[k + 1] = f /\ \A i \in 1 .. k : g[i] = s.fields[i]
    BY <1>1
  <2>2. Len(g) < Len(fields) /\ g = SubSeq(fields, 1, Len(g))
    BY <1>4 DEF SplitsTowards
  <2>. HIDE DEF g, k, f
  <2>3. k + 1 < Len(fields) /\ k < Len(fields) /\ g = SubSeq(fields, 1, k + 1)
    BY <1>1, <2>1, <2>2
  <2>4. \A i \in 1 .. k + 1 : g[i] = fields[i]
    BY <1>1, <2>3
  <2>5. s.fields = SubSeq(fields, 1, k)
    <3>. DEFINE h == SubSeq(fields, 1, k)
    <3>1. h \in Seq(Text) /\ Len(h) = k /\ \A i \in 1 .. k : h[i] = fields[i]
      BY <1>1, <2>3
    <3>. HIDE DEF h
    <3>2. \A i \in 1 .. k : s.fields[i] = h[i]
      BY <1>1, <2>1, <2>4, <3>1
    <3>3. Len(s.fields) = k
      BY DEF k
    <3>4. s.fields = h
      BY <1>1, <3>1, <3>2, <3>3, SeqEqual
    <3>. QED
      BY <3>4 DEF h
  <2>6. fields[k + 1] = f
    BY <1>1, <2>1, <2>4
  <2>7. <<>> \in Text /\ f \o <<>> = f
    BY <1>1, TextFacts
  <2>. QED
    BY <2>3, <2>5, <2>6, <2>7 DEF SplitsTowards, k, f
<1>. QED
  BY <1>2, <1>3, <1>4, SpecialCharacters DEF splitCharacter, SplitState

LEMMA SplitOfBeginning ==
  ASSUME NEW fields \in Seq(Text), NEW p \in Text, NEW r \in Text,
         SplitsTowards(splitRun(p \o r), fields)
  PROVE  SplitsTowards(splitRun(p), fields)
<1>. DEFINE Good == {x \in Text : SplitsTowards(splitRun(p \o x), fields)
                                    => SplitsTowards(splitRun(p), fields)}
<1>1. <<>> \in Good
  BY TextFacts
<1>2. ASSUME NEW x \in Text, NEW c \in Characters, x \in Good
      PROVE  Append(x, c) \in Good
  <2>1. p \o x \in Text /\ p \o Append(x, c) = Append(p \o x, c) /\ Append(x, c) \in Text
    BY TextFacts
  <2>2. splitRun(Append(p \o x, c)) = splitCharacter(splitRun(p \o x), c)
        /\ splitRun(p \o x) \in SplitState
    BY <2>1, SplitGrows
  <2>3. SplitsTowards(splitRun(p \o Append(x, c)), fields)
          => SplitsTowards(splitRun(p \o x), fields)
    BY <2>1, <2>2, SplitCameThere
  <2>. QED
    BY <1>2, <2>1, <2>3
<1>3. Text \subseteq Good
  <2>. HIDE DEF Good
  <2>. QED
    BY <1>1, <1>2, SequenceInduction DEF Text
<1>. QED
  BY <1>3

\* A reader that may still read the lines.
ReadsTowards(s, lines) ==
  /\ Len(s.lines) <= Len(lines)
  /\ s.lines = SubSeq(lines, 1, Len(s.lines))
  /\ \/ s.line = <<>>
     \/ /\ Len(s.lines) < Len(lines)
        /\ \E x \in Text : s.line \o x = lines[Len(s.lines) + 1]

LEMMA ReaderCameThere ==
  ASSUME NEW lines \in Seq(Text), NEW s \in ReadState, NEW c \in Characters,
         ReadsTowards(readCharacter(s, c), lines)
  PROVE  ReadsTowards(s, lines)
<1>. DEFINE f == s.line
            k == Len(s.lines)
<1>1. f \in Text /\ s.lines \in Seq(Text) /\ k \in Nat /\ Len(lines) \in Nat
  BY DEF ReadState
<1>2. CASE /\ readCharacter(s, c).lines = s.lines
           /\ readCharacter(s, c).line = Append(f, c)
  <2>1. Append(f, c) # <<>>
    BY <1>1, TextFacts
  <2>2. /\ k < Len(lines) /\ s.lines = SubSeq(lines, 1, k)
        /\ \E x \in Text : Append(f, c) \o x = lines[k + 1]
    BY <1>2, <2>1 DEF ReadsTowards
  <2>3. PICK x \in Text : Append(f, c) \o x = lines[k + 1]
    BY <2>2
  <2>. HIDE DEF f, k
  <2>4. <<c>> \in Text /\ Append(f, c) = f \o <<c>>
    BY <1>1, TextFacts
  <2>5. <<c>> \o x \in Text /\ (f \o <<c>>) \o x = f \o (<<c>> \o x)
    BY <1>1, <2>4, TextFacts
  <2>6. f \o (<<c>> \o x) = lines[k + 1]
    BY <2>3, <2>4, <2>5
  <2>7. k <= Len(lines)
    BY <1>1, <2>2
  <2>. QED
    BY <2>2, <2>5, <2>6, <2>7 DEF ReadsTowards, f, k
<1>3. CASE readCharacter(s, c).lines = Append(s.lines, f)
  <2>. DEFINE g == Append(s.lines, f)
  <2>1. g \in Seq(Text) /\ Len(g) = k + 1 /\ g[k + 1] = f /\ \A i \in 1 .. k : g[i] = s.lines[i]
    BY <1>1
  <2>2. Len(g) <= Len(lines) /\ g = SubSeq(lines, 1, Len(g))
    BY <1>3 DEF ReadsTowards
  <2>. HIDE DEF g, k, f
  <2>3. k + 1 <= Len(lines) /\ k < Len(lines) /\ k <= Len(lines) /\ g = SubSeq(lines, 1, k + 1)
    BY <1>1, <2>1, <2>2
  <2>4. \A i \in 1 .. k + 1 : g[i] = lines[i]
    BY <1>1, <2>3
  <2>5. s.lines = SubSeq(lines, 1, k)
    <3>. DEFINE h == SubSeq(lines, 1, k)
    <3>1. h \in Seq(Text) /\ Len(h) = k /\ \A i \in 1 .. k : h[i] = lines[i]
      BY <1>1, <2>3
    <3>. HIDE DEF h
    <3>2. \A i \in 1 .. k : s.lines[i] = h[i]
      <4>. TAKE i \in 1 .. k
      <4>1. i \in 1 .. k + 1
        BY <1>1
      <4>2. g[i] = lines[i] /\ g[i] = s.lines[i] /\ h[i] = lines[i]
        BY <2>1, <2>4, <3>1, <4>1
      <4>. QED
        BY <4>2
    <3>3. Len(s.lines) = k
      BY DEF k
    <3>4. s.lines = h
      BY <1>1, <3>1, <3>2, <3>3, SeqEqual
    <3>. QED
      BY <3>4 DEF h
  <2>6. lines[k + 1] = f
    BY <1>1, <2>1, <2>4
  <2>7. <<>> \in Text /\ f \o <<>> = f
    BY <1>1, TextFacts
  <2>. QED
    BY <2>3, <2>5, <2>6, <2>7 DEF ReadsTowards, k, f
<1>. QED
  BY <1>2, <1>3 DEF readCharacter, ReadState

LEMMA ReadOfBeginning ==
  ASSUME NEW lines \in Seq(Text), NEW p \in Text, NEW r \in Text,
         ReadsTowards(readRun(p \o r), lines)
  PROVE  ReadsTowards(readRun(p), lines)
<1>. DEFINE Good == {x \in Text : ReadsTowards(readRun(p \o x), lines)
                                    => ReadsTowards(readRun(p), lines)}
<1>1. <<>> \in Good
  BY TextFacts
<1>2. ASSUME NEW x \in Text, NEW c \in Characters, x \in Good
      PROVE  Append(x, c) \in Good
  <2>1. p \o x \in Text /\ p \o Append(x, c) = Append(p \o x, c) /\ Append(x, c) \in Text
    BY TextFacts
  <2>2. readRun(Append(p \o x, c)) = readCharacter(readRun(p \o x), c)
        /\ readRun(p \o x) \in ReadState
    BY <2>1, ReadGrows
  <2>3. ReadsTowards(readRun(p \o Append(x, c)), lines)
          => ReadsTowards(readRun(p \o x), lines)
    BY <2>1, <2>2, ReaderCameThere
  <2>. QED
    BY <1>2, <2>1, <2>3
<1>3. Text \subseteq Good
  <2>. HIDE DEF Good
  <2>. QED
    BY <1>1, <1>2, SequenceInduction DEF Text
<1>. QED
  BY <1>3

-----------------------------------------------------------------------------
(* Rows at some of the places                                               *)

Row == Seq(Text)
Rows == Seq(Row)

LEMMA RowsGrow ==
  ASSUME NEW rows \in Rows, NEW e \in Row
  PROVE  LET all == Append(rows, e)
             n == Len(rows)
         IN  /\ n \in Nat /\ DOMAIN rows = 1 .. n
             /\ all \in Rows /\ Len(all) = n + 1 /\ DOMAIN all = 1 .. n + 1
             /\ all[n + 1] = e /\ \A i \in 1 .. n : all[i] = rows[i]
             /\ ToSet(all) = ToSet(rows) \union {e}
             /\ \A i \in 1 .. n + 1 : i = n + 1 \/ i \in 1 .. n
<1>. DEFINE all == Append(rows, e)
            n == Len(rows)
<1>1. n \in Nat /\ DOMAIN rows = 1 .. n /\ \A i \in 1 .. n + 1 : i = n + 1 \/ i \in 1 .. n
  BY DEF Rows
<1>2. /\ all \in Rows /\ Len(all) = n + 1 /\ DOMAIN all = 1 .. n + 1
      /\ all[n + 1] = e /\ \A i \in 1 .. n : all[i] = rows[i]
  BY DEF Rows
<1>. HIDE DEF all, n
<1>3. ToSet(all) = ToSet(rows) \union {e}
  <2>1. \A i \in 1 .. n : i \in 1 .. n + 1
    BY <1>1
  <2>2. n + 1 \in 1 .. n + 1
    BY <1>1
  <2>. QED
    BY <1>1, <1>2, <2>1, <2>2 DEF ToSet
<1>. QED
  BY <1>1, <1>2, <1>3 DEF all, n

LEMMA RowsAtGrows ==
  /\ \A P : rowsAt(<<>>, P) = <<>>
  /\ \A P : \A rows \in Rows : rowsAt(rows, P) \in Rows
  /\ \A P : \A rows \in Rows, e \in Row :
       rowsAt(Append(rows, e), P) =
         IF Len(rows) + 1 \in P THEN Append(rowsAt(rows, P), e) ELSE rowsAt(rows, P)
<1>. DEFINE part(r, P, i) == IF i \in P THEN <<r[i]>> ELSE <<>>
            parts(r, P) == [i \in DOMAIN r |-> part(r, P, i)]
<1>1. \A P : rowsAt(<<>>, P) = <<>>
  <2>. TAKE P
  <2>1. parts(<<>>, P) = <<>>
    OBVIOUS
  <2>. QED
    BY <2>1, FlattenEmpty DEF rowsAt
<1>2. ASSUME NEW P, NEW r \in Rows
      PROVE  /\ parts(r, P) \in Seq(Rows) /\ Len(parts(r, P)) = Len(r)
             /\ \A i \in 1 .. Len(r) : parts(r, P)[i] = part(r, P, i)
  <2>1. DOMAIN r = 1 .. Len(r) /\ Len(r) \in Nat /\ \A i \in 1 .. Len(r) : r[i] \in Row
    BY DEF Rows
  <2>2. \A i \in 1 .. Len(r) : part(r, P, i) \in Rows
    BY <2>1 DEF Rows
  <2>. HIDE DEF part
  <2>. QED
    BY <2>1, <2>2
<1>3. ASSUME NEW P, NEW r \in Rows
      PROVE  rowsAt(r, P) = FlattenSeq(parts(r, P))
  BY DEF rowsAt
<1>4. ASSUME NEW P, NEW r \in Rows
      PROVE  rowsAt(r, P) \in Rows
  <2>. HIDE DEF parts
  <2>1. parts(r, P) \in Seq(Seq(Row))
    BY <1>2 DEF Rows
  <2>. QED
    BY <1>3, <2>1, FlattenTyped DEF Rows
<1>5. ASSUME NEW P, NEW r \in Rows, NEW e \in Row
      PROVE  rowsAt(Append(r, e), P) =
               IF Len(r) + 1 \in P THEN Append(rowsAt(r, P), e) ELSE rowsAt(r, P)
  <2>. DEFINE all == Append(r, e)
              n == Len(r)
              new == IF n + 1 \in P THEN <<e>> ELSE <<>>
              a == parts(all, P)
              b == parts(r, P)
  <2>1. /\ n \in Nat /\ all \in Rows /\ Len(all) = n + 1 /\ all[n + 1] = e
        /\ \A i \in 1 .. n : all[i] = r[i]
        /\ \A i \in 1 .. n + 1 : i = n + 1 \/ i \in 1 .. n
    BY RowsGrow
  <2>2. new \in Seq(Row)
    OBVIOUS
  <2>. HIDE DEF all, n
  <2>3. /\ a \in Seq(Rows) /\ Len(a) = n + 1
        /\ b \in Seq(Rows) /\ Len(b) = n
        /\ \A i \in 1 .. n + 1 : a[i] = part(all, P, i)
        /\ \A i \in 1 .. n : b[i] = part(r, P, i)
    <3>. HIDE DEF parts, part
    <3>1. /\ a \in Seq(Rows) /\ Len(a) = Len(all)
          /\ \A i \in 1 .. Len(all) : a[i] = part(all, P, i)
      BY <1>2, <2>1
    <3>2. /\ b \in Seq(Rows) /\ Len(b) = Len(r)
          /\ \A i \in 1 .. Len(r) : b[i] = part(r, P, i)
      BY <1>2
    <3>3. n = Len(r)
      BY DEF n
    <3>. QED
      BY <2>1, <3>1, <3>2, <3>3
  <2>4. part(all, P, n + 1) = new /\ \A i \in 1 .. n : part(all, P, i) = part(r, P, i)
    BY <2>1
  <2>. HIDE DEF a, b, part, new
  <2>5. a = Append(b, new)
    <3>. DEFINE c == Append(b, new)
    <3>1. /\ c \in Seq(Rows) /\ Len(c) = n + 1 /\ c[n + 1] = new
          /\ \A i \in 1 .. n : c[i] = b[i]
      BY <2>2, <2>3 DEF Rows
    <3>. HIDE DEF c
    <3>2. \A i \in 1 .. n : a[i] = c[i]
      <4>1. \A i \in 1 .. n : i \in 1 .. n + 1
        BY <2>1
      <4>. QED
        BY <2>3, <2>4, <3>1, <4>1
    <3>3. a[n + 1] = c[n + 1]
      <4>1. n + 1 \in 1 .. n + 1
        BY <2>1
      <4>. QED
        BY <2>3, <2>4, <3>1, <4>1
    <3>4. \A i \in 1 .. Len(a) : a[i] = c[i]
      BY <2>1, <2>3, <3>2, <3>3
    <3>5. a = c
      BY <2>3, <3>1, <3>4, SeqEqual
    <3>. QED
      BY <3>5 DEF c
  <2>6. FlattenSeq(Append(b, new)) = FlattenSeq(b) \o new
    BY <2>2, <2>3, FlattenAppend DEF Rows
  <2>7. rowsAt(all, P) = FlattenSeq(a) /\ rowsAt(r, P) = FlattenSeq(b)
    BY <1>3, <2>1 DEF a, b
  <2>8. rowsAt(r, P) \in Rows
    BY <1>4
  <2>9. rowsAt(all, P) = rowsAt(r, P) \o new
    BY <2>5, <2>6, <2>7
  <2>10. rowsAt(r, P) \o <<>> = rowsAt(r, P) /\ rowsAt(r, P) \o <<e>> = Append(rowsAt(r, P), e)
    <3>. DEFINE x == rowsAt(r, P)
    <3>1. x \in Seq(Row)
      BY <2>8 DEF Rows
    <3>. HIDE DEF x
    <3>2. x \o <<>> = x /\ x \o <<e>> = Append(x, e)
      BY <3>1, ConcatEmptySeq, AppendIsConcat
    <3>. QED
      BY <3>2 DEF x
  <2>. QED
    BY <2>9, <2>10 DEF all, n, new
<1>. QED
  BY <1>1, <1>4, <1>5, Zenon

LEMMA RowsAtNone == ASSUME NEW P PROVE rowsAt(<<>>, P) = <<>>
  BY RowsAtGrows, Zenon

LEMMA RowsAtTyped == ASSUME NEW P, NEW rows \in Rows PROVE rowsAt(rows, P) \in Rows
  BY RowsAtGrows, Zenon

LEMMA RowsAtAppend ==
  ASSUME NEW P, NEW rows \in Rows, NEW e \in Row
  PROVE  rowsAt(Append(rows, e), P) =
           IF Len(rows) + 1 \in P THEN Append(rowsAt(rows, P), e) ELSE rowsAt(rows, P)
  BY RowsAtGrows, Zenon

\* Which rows they are; and nothing is lost of what told rows apart.
LEMMA RowsAtRows ==
  ASSUME NEW rows \in Rows, NEW P
  PROVE  /\ ToSet(rowsAt(rows, P)) = {rows[i] : i \in DOMAIN rows \intersect P}
         /\ DOMAIN rows \subseteq P => rowsAt(rows, P) = rows
         /\ \A n : Distinct(rows, n) => Distinct(rowsAt(rows, P), n)
<1>. DEFINE Good(r) ==
              /\ ToSet(rowsAt(r, P)) = {r[i] : i \in DOMAIN r \intersect P}
              /\ DOMAIN r \subseteq P => rowsAt(r, P) = r
              /\ \A n : Distinct(r, n) => Distinct(rowsAt(r, P), n)
            All == {r \in Rows : Good(r)}
<1>1. <<>> \in All
  <2>1. rowsAt(<<>>, P) = <<>> /\ <<>> \in Rows /\ DOMAIN <<>> = {}
    BY RowsAtNone DEF Rows
  <2>. QED
    BY <2>1 DEF ToSet, Distinct
<1>2. ASSUME NEW r \in Rows, NEW e \in Row, r \in All
      PROVE  Append(r, e) \in All
  <2>. DEFINE all == Append(r, e)
              n == Len(r)
              a == rowsAt(all, P)
              b == rowsAt(r, P)
  <2>1. /\ n \in Nat /\ DOMAIN r = 1 .. n
        /\ all \in Rows /\ DOMAIN all = 1 .. n + 1 /\ all[n + 1] = e
        /\ \A i \in 1 .. n : all[i] = r[i]
        /\ \A i \in 1 .. n + 1 : i = n + 1 \/ i \in 1 .. n
    BY RowsGrow
  <2>2. a = IF n + 1 \in P THEN Append(b, e) ELSE b
    BY RowsAtAppend
  <2>3. b \in Rows
    BY RowsAtTyped
  <2>4. Good(r)
    BY <1>2
  <2>5. \A i \in 1 .. n : i \in 1 .. n + 1
    BY <2>1
  <2>6. n + 1 \in 1 .. n + 1 /\ n + 1 \notin 1 .. n
    BY <2>1
  <2>. DEFINE m == Len(b)
              c == Append(b, e)
  <2>7. /\ m \in Nat /\ DOMAIN b = 1 .. m
        /\ c \in Rows /\ DOMAIN c = 1 .. m + 1 /\ c[m + 1] = e
        /\ \A i \in 1 .. m : c[i] = b[i]
        /\ ToSet(c) = ToSet(b) \union {e}
        /\ \A i \in 1 .. m + 1 : i = m + 1 \/ i \in 1 .. m
    BY <2>3, RowsGrow
  <2>8. a = IF n + 1 \in P THEN c ELSE b
    BY <2>2
  <2>. HIDE DEF all, n, m, c
  <2>9. ToSet(a) = {all[i] : i \in DOMAIN all \intersect P}
    <3>1. ToSet(b) = {r[i] : i \in DOMAIN r \intersect P}
      BY <2>4
    <3>2. ToSet(b) = {all[i] : i \in (1 .. n) \intersect P}
      BY <2>1, <3>1
    <3>. HIDE DEF a, b
    <3>. QED
      BY <2>1, <2>5, <2>6, <2>7, <2>8, <3>2
  <2>10. ASSUME DOMAIN all \subseteq P
         PROVE  a = all
    <3>1. DOMAIN r \subseteq P /\ n + 1 \in P
      BY <2>1, <2>5, <2>6, <2>10
    <3>. QED
      BY <2>4, <2>8, <3>1 DEF all, c
  <2>11. ASSUME NEW k, Distinct(all, k)
         PROVE  Distinct(a, k)
    <3>1. \A i, j \in 1 .. n + 1 : all[i][k] = all[j][k] => i = j
      BY <2>1, <2>11, Zenon DEF Distinct
    <3>2. \A i, j \in 1 .. n : r[i][k] = r[j][k] => i = j
      BY <2>1, <2>5, <3>1
    <3>3. Distinct(b, k)
      BY <2>1, <2>4, <3>2 DEF Distinct
    <3>4. CASE n + 1 \notin P
      BY <2>8, <3>3, <3>4
    <3>5. CASE n + 1 \in P
      <4>1. \A i \in 1 .. m : \E j \in 1 .. n : b[i] = all[j]
        <5>1. ToSet(b) = {r[i] : i \in DOMAIN r \intersect P}
          BY <2>4
        <5>. HIDE DEF b
        <5>2. \A i \in 1 .. m : b[i] \in ToSet(b)
          BY <2>7, Zenon DEF ToSet
        <5>. QED
          BY <2>1, <5>1, <5>2
      <4>2. \A i \in 1 .. m : b[i][k] # e[k]
        BY <2>1, <2>5, <2>6, <3>1, <4>1
      <4>3. \A i, j \in 1 .. m : b[i][k] = b[j][k] => i = j
        BY <2>7, <3>3 DEF Distinct
      <4>4. \A i, j \in 1 .. m + 1 : c[i][k] = c[j][k] => i = j
        <5>. HIDE DEF b
        <5>. TAKE i, j \in 1 .. m + 1
        <5>. SUFFICES ASSUME c[i][k] = c[j][k] PROVE i = j
          OBVIOUS
        <5>. QED
          BY <2>7, <4>2, <4>3
      <4>. QED
        BY <2>7, <2>8, <3>5, <4>4, Zenon DEF Distinct
    <3>. QED
      BY <3>4, <3>5
  <2>. HIDE DEF a
  <2>12. Good(all)
    BY <2>9, <2>10, <2>11 DEF a
  <2>. HIDE DEF Good
  <2>. QED
    BY <2>1, <2>12 DEF all
<1>3. Rows \subseteq All
  <2>. HIDE DEF All
  <2>. QED
    BY <1>1, <1>2, SequenceInduction DEF Rows
<1>. QED
  BY <1>3

LEMMA ColumnOfRows ==
  ASSUME NEW rows, NEW n
  PROVE  Column(rows, n) = {row[n] : row \in ToSet(rows)}
  BY DEF Column, ToSet

\* The rows of known owners; all of them when every owner is known.
LEMMA KnownRows ==
  ASSUME NEW rows \in Rows, NEW owners
  PROVE  /\ ofKnown(rows, owners) \in Rows
         /\ ToSet(ofKnown(rows, owners)) = {row \in ToSet(rows) : row[1] \in owners}
         /\ Column(rows, 1) \subseteq owners => ofKnown(rows, owners) = rows
         /\ \A n : Distinct(rows, n) => Distinct(ofKnown(rows, owners), n)
<1>. DEFINE P == {i \in DOMAIN rows : rows[i][1] \in owners}
<1>1. ofKnown(rows, owners) = rowsAt(rows, P)
  BY DEF ofKnown
<1>2. {rows[i] : i \in DOMAIN rows \intersect P} = {row \in ToSet(rows) : row[1] \in owners}
  BY DEF ToSet
<1>3. Column(rows, 1) \subseteq owners => DOMAIN rows \subseteq P
  BY DEF Column
<1>. HIDE DEF P
<1>. QED
  BY <1>1, <1>2, <1>3, RowsAtTyped, RowsAtRows

\* A row at the end stays there, or goes.
LEMMA LastOfKnown ==
  ASSUME NEW rows \in Rows, NEW e \in Row, NEW owners
  PROVE  \E x \in Rows : /\ ToSet(x) \subseteq ToSet(rows)
                         /\ ofKnown(Append(rows, e), owners) \in {x, Append(x, e)}
<1>. DEFINE all == Append(rows, e)
            P == {i \in DOMAIN all : all[i][1] \in owners}
            x == rowsAt(rows, P)
<1>1. ofKnown(all, owners) = rowsAt(all, P)
  BY DEF ofKnown
<1>2. rowsAt(all, P) = IF Len(rows) + 1 \in P THEN Append(x, e) ELSE x
  <2>. HIDE DEF P
  <2>. QED
    BY RowsAtAppend
<1>. HIDE DEF P, all
<1>3. x \in Rows
  BY RowsAtTyped
<1>4. ToSet(x) = {rows[i] : i \in DOMAIN rows \intersect P}
  BY RowsAtRows
<1>5. ToSet(x) \subseteq ToSet(rows)
  <2>. HIDE DEF x
  <2>. QED
    BY <1>4 DEF ToSet
<1>. HIDE DEF x
<1>6. ofKnown(all, owners) \in {x, Append(x, e)}
  BY <1>1, <1>2
<1>. QED
  BY <1>3, <1>5, <1>6 DEF all

LEMMA TimedRows ==
  ASSUME NEW rows \in Rows, NEW n, \A row \in ToSet(rows) : parseTimeValue(row[n])
  PROVE  timed(rows, n) = rows
<1>. DEFINE P == {i \in DOMAIN rows : parseTimeValue(rows[i][n])}
<1>1. DOMAIN rows \subseteq P
  BY DEF ToSet
<1>2. timed(rows, n) = rowsAt(rows, P)
  BY DEF timed
<1>. HIDE DEF P
<1>. QED
  BY <1>1, <1>2, RowsAtRows

LEMMA DistinctRows ==
  ASSUME NEW rows \in Rows, NEW n, Distinct(rows, n)
  PROVE  firstOfEach(rows, n) = rows
<1>. DEFINE P == {i \in DOMAIN rows : \A j \in 1..(i - 1) : rows[j][n] # rows[i][n]}
<1>1. DOMAIN rows = 1 .. Len(rows) /\ Len(rows) \in Nat
  BY DEF Rows
<1>2. DOMAIN rows \subseteq P
  <2>. SUFFICES ASSUME NEW i \in DOMAIN rows, NEW j \in 1 .. (i - 1)
                PROVE  rows[j][n] # rows[i][n]
    OBVIOUS
  <2>1. j \in DOMAIN rows /\ j # i
    BY <1>1
  <2>. QED
    BY <2>1 DEF Distinct
<1>3. firstOfEach(rows, n) = rowsAt(rows, P)
  BY DEF firstOfEach
<1>. HIDE DEF P
<1>. QED
  BY <1>2, <1>3, RowsAtRows

\* Lines that parse are kept, and one at the end that does not is dropped.
LEMMA ParsedRows ==
  ASSUME NEW rows \in Rows, NEW t, \A row \in ToSet(rows) : wellFormed(t, row)
  PROVE  /\ parsed(t, rows) = rows
         /\ \A e \in Row : parsed(t, Append(rows, e)) =
              IF wellFormed(t, e) THEN Append(rows, e) ELSE rows
<1>1. parsed(t, rows) = rows
  <2>. DEFINE P == {i \in DOMAIN rows : wellFormed(t, rows[i])}
  <2>1. DOMAIN rows \subseteq P
    BY DEF ToSet
  <2>2. parsed(t, rows) = rowsAt(rows, P)
    BY DEF parsed
  <2>. HIDE DEF P
  <2>. QED
    BY <2>1, <2>2, RowsAtRows
<1>2. ASSUME NEW e \in Row
      PROVE  parsed(t, Append(rows, e)) = IF wellFormed(t, e) THEN Append(rows, e) ELSE rows
  <2>. DEFINE all == Append(rows, e)
              n == Len(rows)
              P == {i \in DOMAIN all : wellFormed(t, all[i])}
  <2>1. /\ n \in Nat /\ DOMAIN rows = 1 .. n /\ DOMAIN all = 1 .. n + 1
        /\ all[n + 1] = e /\ \A i \in 1 .. n : all[i] = rows[i]
    BY RowsGrow
  <2>2. parsed(t, all) = rowsAt(all, P)
    BY DEF parsed
  <2>. HIDE DEF all, n
  <2>3. DOMAIN rows \subseteq P
    <3>1. \A i \in 1 .. n : i \in 1 .. n + 1 /\ wellFormed(t, rows[i])
      BY <2>1 DEF ToSet
    <3>. QED
      BY <2>1, <3>1
  <2>4. n + 1 \in P <=> wellFormed(t, e)
    <3>1. n + 1 \in 1 .. n + 1
      BY <2>1
    <3>. QED
      BY <2>1, <3>1
  <2>. HIDE DEF P
  <2>5. rowsAt(rows, P) = rows
    BY <2>3, RowsAtRows
  <2>6. rowsAt(all, P) = IF n + 1 \in P THEN Append(rows, e) ELSE rows
    BY <2>5, RowsAtAppend DEF all, n
  <2>. QED
    BY <2>2, <2>4, <2>6 DEF all
<1>. QED
  BY <1>1, <1>2

-----------------------------------------------------------------------------
(* The rows of each owner in turn                                           *)

rowsOf(rows, uuid) == rowsAt(rows, {j \in DOMAIN rows : rows[j][1] = uuid})

LEMMA RowsOfOne ==
  ASSUME NEW rows \in Rows, NEW uuid
  PROVE  /\ rowsOf(rows, uuid) \in Rows
         /\ ToSet(rowsOf(rows, uuid)) = {row \in ToSet(rows) : row[1] = uuid}
         /\ \A n : Distinct(rows, n) => Distinct(rowsOf(rows, uuid), n)
<1>. DEFINE P == {j \in DOMAIN rows : rows[j][1] = uuid}
<1>1. rowsOf(rows, uuid) = rowsAt(rows, P)
  BY DEF rowsOf
<1>2. {rows[i] : i \in DOMAIN rows \intersect P} = {row \in ToSet(rows) : row[1] = uuid}
  BY DEF ToSet
<1>. HIDE DEF P
<1>. QED
  BY <1>1, <1>2, RowsAtTyped, RowsAtRows

LEMMA ByOwnerGrows ==
  ASSUME NEW rows \in Rows, NEW n
  PROVE  /\ byOwner(rows, <<>>, n) = <<>>
         /\ \A owners \in Rows : byOwner(rows, owners, n) \in Rows
         /\ \A owners \in Rows, e \in Row :
              byOwner(rows, Append(owners, e), n)
                = byOwner(rows, owners, n) \o rowsOf(rows, e[n])
<1>. DEFINE parts(o) == [i \in DOMAIN o |-> rowsOf(rows, o[i][n])]
<1>1. ASSUME NEW o \in Rows
      PROVE  /\ parts(o) \in Seq(Rows) /\ Len(parts(o)) = Len(o)
             /\ \A i \in 1 .. Len(o) : parts(o)[i] = rowsOf(rows, o[i][n])
             /\ byOwner(rows, o, n) = FlattenSeq(parts(o))
  <2>1. DOMAIN o = 1 .. Len(o) /\ Len(o) \in Nat
    BY DEF Rows
  <2>2. \A i \in 1 .. Len(o) : rowsOf(rows, o[i][n]) \in Rows
    BY RowsOfOne
  <2>3. byOwner(rows, o, n) = FlattenSeq(parts(o))
    BY Zenon DEF byOwner, rowsOf
  <2>. QED
    BY <2>1, <2>2, <2>3
<1>2. byOwner(rows, <<>>, n) = <<>>
  <2>1. parts(<<>>) = <<>>
    OBVIOUS
  <2>2. byOwner(rows, <<>>, n) = FlattenSeq(parts(<<>>))
    BY Zenon DEF byOwner, rowsOf
  <2>. QED
    BY <2>1, <2>2, FlattenEmpty
<1>3. ASSUME NEW o \in Rows
      PROVE  byOwner(rows, o, n) \in Rows
  <2>1. parts(o) \in Seq(Seq(Row)) /\ byOwner(rows, o, n) = FlattenSeq(parts(o))
    BY <1>1 DEF Rows
  <2>. HIDE DEF parts
  <2>. QED
    BY <2>1, FlattenTyped DEF Rows
<1>4. ASSUME NEW o \in Rows, NEW e \in Row
      PROVE  byOwner(rows, Append(o, e), n) = byOwner(rows, o, n) \o rowsOf(rows, e[n])
  <2>. DEFINE all == Append(o, e)
              k == Len(o)
              new == rowsOf(rows, e[n])
              a == parts(all)
              b == parts(o)
  <2>1. /\ k \in Nat /\ all \in Rows /\ Len(all) = k + 1 /\ all[k + 1] = e
        /\ \A i \in 1 .. k : all[i] = o[i]
        /\ \A i \in 1 .. k + 1 : i = k + 1 \/ i \in 1 .. k
    BY RowsGrow
  <2>2. new \in Rows
    BY RowsOfOne
  <2>. HIDE DEF all, k
  <2>3. /\ a \in Seq(Rows) /\ Len(a) = k + 1
        /\ \A i \in 1 .. k + 1 : a[i] = rowsOf(rows, all[i][n])
        /\ byOwner(rows, all, n) = FlattenSeq(a)
    BY <1>1, <2>1
  <2>4. /\ b \in Seq(Rows) /\ Len(b) = k
        /\ \A i \in 1 .. k : b[i] = rowsOf(rows, o[i][n])
        /\ byOwner(rows, o, n) = FlattenSeq(b)
    BY <1>1 DEF k
  <2>. HIDE DEF a, b, parts
  <2>5. a = Append(b, new)
    <3>. DEFINE c == Append(b, new)
    <3>1. /\ c \in Seq(Rows) /\ Len(c) = k + 1 /\ c[k + 1] = new
          /\ \A i \in 1 .. k : c[i] = b[i]
      BY <2>2, <2>4
    <3>. HIDE DEF c
    <3>2. \A i \in 1 .. k : a[i] = c[i]
      <4>1. \A i \in 1 .. k : i \in 1 .. k + 1
        BY <2>1
      <4>. QED
        BY <2>1, <2>3, <2>4, <3>1, <4>1
    <3>3. a[k + 1] = c[k + 1]
      <4>1. k + 1 \in 1 .. k + 1
        BY <2>1
      <4>. QED
        BY <2>1, <2>3, <3>1, <4>1
    <3>4. \A i \in 1 .. Len(a) : a[i] = c[i]
      BY <2>1, <2>3, <3>2, <3>3
    <3>5. a = c
      BY <2>3, <3>1, <3>4, SeqEqual
    <3>. QED
      BY <3>5 DEF c
  <2>. HIDE DEF new
  <2>6. FlattenSeq(Append(b, new)) = FlattenSeq(b) \o new
    <3>1. b \in Seq(Seq(Row)) /\ new \in Seq(Row)
      BY <2>2, <2>4 DEF Rows
    <3>. QED
      BY <3>1, FlattenAppend
  <2>. QED
    BY <2>3, <2>4, <2>5, <2>6 DEF all, new
<1>. QED
  BY <1>2, <1>3, <1>4

LEMMA ConcatRows ==
  ASSUME NEW a \in Rows, NEW b \in Rows
  PROVE  /\ a \o b \in Rows
         /\ ToSet(a \o b) = ToSet(a) \union ToSet(b)
         /\ \A n : /\ Distinct(a, n) /\ Distinct(b, n)
                   /\ \A x \in ToSet(a), y \in ToSet(b) : x[n] # y[n]
                   => Distinct(a \o b, n)
<1>. DEFINE c == a \o b
            k == Len(a)
            m == Len(b)
<1>1. /\ k \in Nat /\ m \in Nat /\ c \in Rows /\ Len(c) = k + m
      /\ DOMAIN a = 1 .. k /\ DOMAIN b = 1 .. m /\ DOMAIN c = 1 .. k + m
      /\ \A i \in 1 .. k + m : c[i] = IF i <= k THEN a[i] ELSE b[i - k]
  BY ConcatProperties DEF Rows
<1>. HIDE DEF c, k, m
<1>2. \A i \in 1 .. k : i \in 1 .. k + m /\ c[i] = a[i]
  BY <1>1
<1>3. \A i \in 1 .. m : i + k \in 1 .. k + m /\ c[i + k] = b[i]
  BY <1>1
<1>4. \A i \in 1 .. k + m : i \in 1 .. k \/ i - k \in 1 .. m
  BY <1>1
<1>5. \A i \in 1 .. k + m : (i \in 1 .. k /\ c[i] = a[i]) \/ (i - k \in 1 .. m /\ c[i] = b[i - k])
  BY <1>1, <1>4
<1>6. ToSet(c) = ToSet(a) \union ToSet(b)
  <2>1. \A x \in ToSet(a) : x \in ToSet(c)
    BY <1>1, <1>2 DEF ToSet
  <2>2. \A x \in ToSet(b) : x \in ToSet(c)
    <3>1. \A i \in DOMAIN b : i + k \in DOMAIN c /\ c[i + k] = b[i]
      BY <1>1, <1>3
    <3>. QED
      BY <3>1 DEF ToSet
  <2>3. \A x \in ToSet(c) : x \in ToSet(a) \/ x \in ToSet(b)
    BY <1>1, <1>5 DEF ToSet
  <2>. QED
    BY <2>1, <2>2, <2>3
<1>7. ASSUME NEW n, Distinct(a, n), Distinct(b, n),
             \A x \in ToSet(a), y \in ToSet(b) : x[n] # y[n]
      PROVE  Distinct(c, n)
  <2>. SUFFICES ASSUME NEW i \in 1 .. k + m, NEW j \in 1 .. k + m, c[i][n] = c[j][n]
                PROVE  i = j
    BY <1>1 DEF Distinct
  <2>0. i \in Int /\ j \in Int /\ k \in Int
    BY <1>1
  <2>1. CASE i \in 1 .. k /\ c[i] = a[i] /\ j \in 1 .. k /\ c[j] = a[j]
    BY <1>1, <1>7, <2>1 DEF Distinct
  <2>2. CASE i \in 1 .. k /\ c[i] = a[i] /\ j - k \in 1 .. m /\ c[j] = b[j - k]
    BY <1>1, <1>7, <2>2 DEF ToSet
  <2>3. CASE i - k \in 1 .. m /\ c[i] = b[i - k] /\ j \in 1 .. k /\ c[j] = a[j]
    BY <1>1, <1>7, <2>3 DEF ToSet
  <2>4. CASE i - k \in 1 .. m /\ c[i] = b[i - k] /\ j - k \in 1 .. m /\ c[j] = b[j - k]
    <3>1. i - k = j - k
      BY <1>1, <1>7, <2>4 DEF Distinct
    <3>. QED
      BY <2>0, <3>1
  <2>. QED
    BY <1>5, <2>1, <2>2, <2>3, <2>4
<1>. QED
  BY <1>1, <1>6, <1>7 DEF c

LEMMA ByOwnerTyped ==
  ASSUME NEW rows \in Rows, NEW owners \in Rows, NEW n
  PROVE  byOwner(rows, owners, n) \in Rows
  BY ByOwnerGrows, Zenon

LEMMA ByOwnerAppend ==
  ASSUME NEW rows \in Rows, NEW owners \in Rows, NEW e \in Row, NEW n
  PROVE  byOwner(rows, Append(owners, e), n) = byOwner(rows, owners, n) \o rowsOf(rows, e[n])
<1>. DEFINE appended(o, d) ==
              byOwner(rows, Append(o, d), n) = byOwner(rows, o, n) \o rowsOf(rows, d[n])
<1>1. \A o \in Rows, d \in Row : appended(o, d)
  BY ByOwnerGrows, Zenon
<1>. HIDE DEF appended
<1>2. appended(owners, e)
  BY <1>1
<1>. QED
  BY <1>2 DEF appended

\* Every row of an owner is there, and no two are confused.
LEMMA ByOwnerRows ==
  ASSUME NEW rows \in Rows, NEW owners \in Rows, NEW n
  PROVE  /\ byOwner(rows, owners, n) \in Rows
         /\ ToSet(byOwner(rows, owners, n))
              = {row \in ToSet(rows) : row[1] \in Column(owners, n)}
         /\ \A k : Distinct(owners, n) /\ Distinct(rows, k)
                     => Distinct(byOwner(rows, owners, n), k)
<1>. DEFINE Good(o) ==
              /\ ToSet(byOwner(rows, o, n)) = {row \in ToSet(rows) : row[1] \in Column(o, n)}
              /\ \A k : Distinct(o, n) /\ Distinct(rows, k) => Distinct(byOwner(rows, o, n), k)
            All == {o \in Rows : Good(o)}
<1>1. <<>> \in All
  <2>1. byOwner(rows, <<>>, n) = <<>> /\ <<>> \in Rows /\ DOMAIN <<>> = {}
    BY ByOwnerGrows DEF Rows
  <2>2. ToSet(<<>>) = {} /\ Column(<<>>, n) = {} /\ \A k : Distinct(<<>>, k)
    BY <2>1 DEF ToSet, Column, Distinct
  <2>. QED
    BY <2>1, <2>2
<1>2. ASSUME NEW o \in Rows, NEW e \in Row, o \in All
      PROVE  Append(o, e) \in All
  <2>. DEFINE all == Append(o, e)
              m == Len(o)
              a == byOwner(rows, o, n)
              b == rowsOf(rows, e[n])
  <2>1. /\ m \in Nat /\ DOMAIN o = 1 .. m
        /\ all \in Rows /\ DOMAIN all = 1 .. m + 1 /\ all[m + 1] = e
        /\ \A i \in 1 .. m : all[i] = o[i]
        /\ ToSet(all) = ToSet(o) \union {e}
    BY RowsGrow
  <2>2. byOwner(rows, all, n) = a \o b
    BY ByOwnerAppend
  <2>3. a \in Rows
    BY ByOwnerTyped
  <2>4. /\ b \in Rows /\ ToSet(b) = {row \in ToSet(rows) : row[1] = e[n]}
        /\ \A k : Distinct(rows, k) => Distinct(b, k)
    BY RowsOfOne
  <2>5. Good(o)
    BY <1>2
  <2>6. /\ ToSet(a) = {row \in ToSet(rows) : row[1] \in Column(o, n)}
        /\ \A k : Distinct(o, n) /\ Distinct(rows, k) => Distinct(a, k)
    BY <2>5
  <2>. HIDE DEF all, m, a, b, Good
  <2>7. Column(all, n) = Column(o, n) \union {e[n]}
    BY <2>1, ColumnOfRows
  <2>8. ToSet(a \o b) = {row \in ToSet(rows) : row[1] \in Column(all, n)}
    <3>1. ToSet(a \o b) = ToSet(a) \union ToSet(b)
      BY <2>3, <2>4, ConcatRows
    <3>. QED
      BY <2>4, <2>6, <2>7, <3>1
  <2>9. ASSUME NEW k, Distinct(all, n), Distinct(rows, k)
        PROVE  Distinct(a \o b, k)
    <3>1. Distinct(o, n) /\ e[n] \notin Column(o, n)
      <4>1. \A i \in 1 .. m : i \in 1 .. m + 1 /\ i # m + 1
        BY <2>1
      <4>2. m + 1 \in 1 .. m + 1
        BY <2>1
      <4>3. \A i, j \in 1 .. m + 1 : all[i][n] = all[j][n] => i = j
        BY <2>1, <2>9, Zenon DEF Distinct
      <4>4. \A i, j \in 1 .. m : o[i][n] = o[j][n] => i = j
        BY <2>1, <4>1, <4>3
      <4>5. \A i \in 1 .. m : o[i][n] # e[n]
        BY <2>1, <4>1, <4>2, <4>3
      <4>. QED
        BY <2>1, <4>4, <4>5 DEF Distinct, Column
    <3>2. Distinct(a, k) /\ Distinct(b, k)
      BY <2>4, <2>6, <2>9, <3>1
    <3>3. ASSUME NEW x \in ToSet(a), NEW y \in ToSet(b), x[k] = y[k]
          PROVE  FALSE
      <4>1. x \in ToSet(rows) /\ y \in ToSet(rows) /\ x[1] # y[1]
        BY <2>4, <2>6, <3>1
      <4>2. x = y
        BY <2>9, <3>3, <4>1 DEF ToSet, Distinct
      <4>. QED
        BY <4>1, <4>2
    <3>. QED
      BY <2>3, <2>4, <3>2, <3>3, ConcatRows
  <2>10. Good(all)
    BY <2>2, <2>8, <2>9 DEF Good
  <2>. QED
    BY <2>1, <2>10 DEF all
<1>3. Rows \subseteq All
  <2>. HIDE DEF All
  <2>. QED
    BY <1>1, <1>2, SequenceInduction DEF Rows
<1>4. Good(owners)
  <2>. HIDE DEF Good
  <2>. QED
    BY <1>3
<1>. QED
  BY <1>4, ByOwnerGrows

LEMMA ByOwnerDistinct ==
  ASSUME NEW rows \in Rows, NEW owners \in Rows, NEW n, NEW k,
         Distinct(owners, n), Distinct(rows, k)
  PROVE  Distinct(byOwner(rows, owners, n), k)
  BY ByOwnerRows, Zenon

LEMMA ByOwnerOfAll ==
  ASSUME NEW rows \in Rows, NEW owners \in Rows, NEW n,
         Column(rows, 1) \subseteq Column(owners, n)
  PROVE  /\ byOwner(rows, owners, n) \in Rows
         /\ ToSet(byOwner(rows, owners, n)) = ToSet(rows)
<1>. DEFINE b == byOwner(rows, owners, n)
<1>1. b \in Rows /\ ToSet(b) = {row \in ToSet(rows) : row[1] \in Column(owners, n)}
  BY ByOwnerRows, Zenon
<1>. HIDE DEF b
<1>2. \A row \in ToSet(rows) : row[1] \in Column(owners, n)
  BY ColumnOfRows
<1>3. ToSet(b) = ToSet(rows)
  BY <1>1, <1>2
<1>. QED
  BY <1>1, <1>3 DEF b

-----------------------------------------------------------------------------
(* Tables                                                                   *)

State == [Tables -> Rows]
OwnerTables == {"teams", "channels", "threads"}

LEMMA TableFacts ==
  /\ DOMAIN Owner = {"team_subscriptions", "channels", "threads", "messages"}
  /\ Owner["team_subscriptions"] = "teams" /\ Owner["channels"] = "teams"
  /\ Owner["threads"] = "channels" /\ Owner["messages"] = "threads"
  /\ DOMAIN UuidColumn = Tables \ {"team_subscriptions"}
  /\ UuidColumn["users"] = 1 /\ UuidColumn["teams"] = 1
  /\ UuidColumn["channels"] = 2 /\ UuidColumn["threads"] = 2
  /\ UuidColumn["messages"] = 2 /\ UuidColumn["privateMessages"] = 1
  /\ DOMAIN TimeColumn = {"threads", "messages", "privateMessages"}
  /\ TimeColumn["threads"] = 4 /\ TimeColumn["messages"] = 4
  /\ TimeColumn["privateMessages"] = 3
  BY DEF Owner, UuidColumn, TimeColumn, Tables

LEMMA FieldCounts ==
  /\ FieldCount["users"] = 3 /\ FieldCount["teams"] = 3
  /\ FieldCount["team_subscriptions"] = 2 /\ FieldCount["channels"] = 4
  /\ FieldCount["threads"] = 6 /\ FieldCount["messages"] = 5
  /\ FieldCount["privateMessages"] = 5
  BY DEF FieldCount

LEMMA OwnerIsTable ==
  /\ DOMAIN Owner \subseteq Tables /\ OwnerTables \subseteq Tables
  /\ \A t \in DOMAIN Owner : Owner[t] \in OwnerTables
  BY TableFacts DEF Tables, OwnerTables

\* What serializeData makes of the tables.
LEMMA InOrderValues ==
  ASSUME NEW m \in State
  PROVE  LET o == inOrder(m)
         IN  /\ DOMAIN o = Tables
             /\ o["users"] = m["users"] /\ o["teams"] = m["teams"]
             /\ o["privateMessages"] = m["privateMessages"]
             /\ o["team_subscriptions"] = byOwner(m["team_subscriptions"], m["teams"], 1)
             /\ o["channels"] = byOwner(m["channels"], m["teams"], 1)
             /\ o["threads"] = byOwner(m["threads"], o["channels"], 2)
             /\ o["messages"] = byOwner(m["messages"], o["threads"], 2)
<1>. DEFINE ch == byOwner(m["channels"], m["teams"], 1)
            th == byOwner(m["threads"], ch, 2)
            ts == byOwner(m["team_subscriptions"], m["teams"], 1)
            me == byOwner(m["messages"], th, 2)
            o == [m EXCEPT !["team_subscriptions"] = ts, !["channels"] = ch,
                           !["threads"] = th, !["messages"] = me]
<1>1. inOrder(m) = o
  BY DEF inOrder
<1>. HIDE DEF ch, th, ts, me
<1>2. DOMAIN m = Tables
  BY DEF State
<1>3. /\ DOMAIN o = Tables
      /\ o["users"] = m["users"] /\ o["teams"] = m["teams"]
      /\ o["privateMessages"] = m["privateMessages"]
      /\ o["team_subscriptions"] = ts /\ o["channels"] = ch
      /\ o["threads"] = th /\ o["messages"] = me
  BY <1>2 DEF Tables
<1>. HIDE DEF o
<1>. QED
  BY <1>1, <1>3, Zenon DEF ch, th, ts, me

\* The same rows in each table, and owners as distinct as before.
LEMMA InOrderRows ==
  ASSUME NEW m \in State, Owned(m), OwnersDistinct(m)
  PROVE  /\ inOrder(m) \in State
         /\ \A t \in Tables : ToSet(inOrder(m)[t]) = ToSet(m[t])
         /\ OwnersDistinct(inOrder(m))
<1>. DEFINE o == inOrder(m)
<1>1. /\ DOMAIN o = Tables
      /\ o["users"] = m["users"] /\ o["teams"] = m["teams"]
      /\ o["privateMessages"] = m["privateMessages"]
      /\ o["team_subscriptions"] = byOwner(m["team_subscriptions"], m["teams"], 1)
      /\ o["channels"] = byOwner(m["channels"], m["teams"], 1)
      /\ o["threads"] = byOwner(m["threads"], o["channels"], 2)
      /\ o["messages"] = byOwner(m["messages"], o["threads"], 2)
  BY InOrderValues
<1>. HIDE DEF o
<1>2. \A t \in Tables : m[t] \in Rows
  BY DEF State
<1>3. /\ m["users"] \in Rows /\ m["teams"] \in Rows /\ m["privateMessages"] \in Rows
      /\ m["team_subscriptions"] \in Rows /\ m["channels"] \in Rows
      /\ m["threads"] \in Rows /\ m["messages"] \in Rows
  BY <1>2 DEF Tables
<1>4. /\ Column(m["team_subscriptions"], 1) \subseteq Column(m["teams"], 1)
      /\ Column(m["channels"], 1) \subseteq Column(m["teams"], 1)
      /\ Column(m["threads"], 1) \subseteq Column(m["channels"], 2)
      /\ Column(m["messages"], 1) \subseteq Column(m["threads"], 2)
  BY TableFacts DEF Owned, uuidsOf
<1>5. Distinct(m["teams"], 1) /\ Distinct(m["channels"], 2) /\ Distinct(m["threads"], 2)
  BY TableFacts DEF OwnersDistinct
<1>7. ASSUME NEW r, NEW s, ToSet(r) = ToSet(s), NEW n
      PROVE  Column(r, n) = Column(s, n)
  BY <1>7, ColumnOfRows
<1>8. o["channels"] \in Rows /\ ToSet(o["channels"]) = ToSet(m["channels"])
  BY <1>1, <1>3, <1>4, ByOwnerOfAll
<1>9. Column(o["channels"], 2) = Column(m["channels"], 2)
  BY <1>7, <1>8
<1>10. o["threads"] \in Rows /\ ToSet(o["threads"]) = ToSet(m["threads"])
  BY <1>1, <1>3, <1>4, <1>8, <1>9, ByOwnerOfAll
<1>11. Column(o["threads"], 2) = Column(m["threads"], 2)
  BY <1>7, <1>10
<1>12. o["messages"] \in Rows /\ ToSet(o["messages"]) = ToSet(m["messages"])
  BY <1>1, <1>3, <1>4, <1>10, <1>11, ByOwnerOfAll
<1>13. /\ o["team_subscriptions"] \in Rows
       /\ ToSet(o["team_subscriptions"]) = ToSet(m["team_subscriptions"])
  BY <1>1, <1>3, <1>4, ByOwnerOfAll
<1>14. \A t \in Tables : o[t] \in Rows /\ ToSet(o[t]) = ToSet(m[t])
  BY <1>1, <1>3, <1>8, <1>10, <1>12, <1>13 DEF Tables
<1>15. Distinct(o["channels"], 2)
  BY <1>1, <1>3, <1>5, ByOwnerDistinct
<1>16. Distinct(o["threads"], 2)
  BY <1>1, <1>3, <1>5, <1>8, <1>15, ByOwnerDistinct
<1>17. OwnersDistinct(o)
  BY <1>1, <1>5, <1>15, <1>16, TableFacts DEF OwnersDistinct
<1>18. o \in State
  <2>1. inOrder(m) = [t \in DOMAIN m |-> inOrder(m)[t]]
    BY DEF inOrder
  <2>2. DOMAIN m = Tables
    BY DEF State
  <2>. QED
    BY <1>14, <2>1, <2>2 DEF State, o
<1>. QED
  BY <1>14, <1>17, <1>18 DEF o

-----------------------------------------------------------------------------
(* The load                                                                 *)

recordsOf(texts) == [t \in Tables |-> records(t, texts[t])]

\* What it comes to when all rows parse and no uuid of an owner occurs twice.
Loads(l, r) ==
  /\ l \in State
  /\ \A t \in Tables \ DOMAIN Owner : l[t] = r[t]
  /\ \A t \in DOMAIN Owner : l[t] = ofKnown(r[t], uuidsOf(l, Owner[t]))

AllShaped(m) == \A t \in Tables : \A row \in ToSet(m[t]) : Shaped(t, row)

LEMMA LoadLoads ==
  ASSUME NEW texts, recordsOf(texts) \in State,
         AllShaped(recordsOf(texts)), OwnersDistinct(recordsOf(texts))
  PROVE  Loads(load(texts), recordsOf(texts))
<1>. DEFINE r == recordsOf(texts)
            te == firstOfEach(r["teams"], 1)
            ch == firstOfEach(ofKnown(r["channels"], Column(te, 1)), 2)
            th == firstOfEach(timed(ofKnown(r["threads"], Column(ch, 2)), 4), 2)
            ts == ofKnown(r["team_subscriptions"], Column(te, 1))
            me == timed(ofKnown(r["messages"], Column(th, 2)), 4)
            pm == timed(r["privateMessages"], 3)
            l == [r EXCEPT !["teams"] = te, !["team_subscriptions"] = ts,
                           !["channels"] = ch, !["threads"] = th,
                           !["messages"] = me, !["privateMessages"] = pm]
<1>1. load(texts) = l
  BY Zenon DEF load, recordsOf
<1>. HIDE DEF r, te, ch, th, ts, me, pm
<1>2. r \in State /\ AllShaped(r) /\ OwnersDistinct(r)
  BY DEF r
<1>3. DOMAIN r = Tables /\ \A t \in Tables : r[t] \in Rows
  BY <1>2 DEF State
<1>4. /\ DOMAIN l = Tables /\ l["users"] = r["users"] /\ l["teams"] = te
      /\ l["team_subscriptions"] = ts /\ l["channels"] = ch /\ l["threads"] = th
      /\ l["messages"] = me /\ l["privateMessages"] = pm
      /\ l = [t \in Tables |-> l[t]]
  BY <1>3 DEF Tables
<1>. HIDE DEF l
<1>5. /\ r["users"] \in Rows /\ r["teams"] \in Rows /\ r["privateMessages"] \in Rows
      /\ r["team_subscriptions"] \in Rows /\ r["channels"] \in Rows
      /\ r["threads"] \in Rows /\ r["messages"] \in Rows
  BY <1>3 DEF Tables
<1>6. Distinct(r["teams"], 1) /\ Distinct(r["channels"], 2) /\ Distinct(r["threads"], 2)
  BY <1>2, TableFacts DEF OwnersDistinct
<1>7. /\ \A row \in ToSet(r["threads"]) : parseTimeValue(row[4])
      /\ \A row \in ToSet(r["messages"]) : parseTimeValue(row[4])
      /\ \A row \in ToSet(r["privateMessages"]) : parseTimeValue(row[3])
  <2>1. ASSUME NEW t \in DOMAIN TimeColumn, NEW row \in ToSet(r[t])
        PROVE  parseTimeValue(row[TimeColumn[t]])
    BY <1>2, TableFacts DEF AllShaped, Shaped, Tables
  <2>2. /\ "threads" \in DOMAIN TimeColumn /\ "messages" \in DOMAIN TimeColumn
        /\ "privateMessages" \in DOMAIN TimeColumn
    BY TableFacts
  <2>. QED
    BY <2>1, <2>2, TableFacts
<1>8. te = r["teams"]
  BY <1>5, <1>6, DistinctRows DEF te
<1>9. pm = r["privateMessages"]
  BY <1>5, <1>7, TimedRows DEF pm
<1>10. ASSUME NEW t \in {"channels", "threads", "messages", "team_subscriptions"}, NEW owners
       PROVE  /\ ofKnown(r[t], owners) \in Rows
              /\ ToSet(ofKnown(r[t], owners)) \subseteq ToSet(r[t])
              /\ \A n : Distinct(r[t], n) => Distinct(ofKnown(r[t], owners), n)
  <2>1. r[t] \in Rows
    BY <1>5
  <2>. QED
    BY <2>1, KnownRows
<1>11. ch = ofKnown(r["channels"], Column(te, 1))
  <2>. DEFINE x == ofKnown(r["channels"], Column(te, 1))
  <2>1. x \in Rows /\ Distinct(x, 2)
    BY <1>6, <1>10
  <2>. HIDE DEF x
  <2>2. firstOfEach(x, 2) = x
    BY <2>1, DistinctRows
  <2>. QED
    BY <2>2 DEF x, ch
<1>12. th = ofKnown(r["threads"], Column(ch, 2))
  <2>. DEFINE x == ofKnown(r["threads"], Column(ch, 2))
  <2>1. x \in Rows /\ Distinct(x, 2) /\ ToSet(x) \subseteq ToSet(r["threads"])
    BY <1>6, <1>10
  <2>. HIDE DEF x
  <2>2. timed(x, 4) = x
    BY <1>7, <2>1, TimedRows
  <2>3. firstOfEach(x, 2) = x
    BY <2>1, DistinctRows
  <2>. QED
    BY <2>2, <2>3 DEF x, th
<1>13. me = ofKnown(r["messages"], Column(th, 2))
  <2>. DEFINE x == ofKnown(r["messages"], Column(th, 2))
  <2>1. x \in Rows /\ ToSet(x) \subseteq ToSet(r["messages"])
    BY <1>10
  <2>. HIDE DEF x
  <2>2. timed(x, 4) = x
    BY <1>7, <2>1, TimedRows
  <2>. QED
    BY <2>2 DEF x, me
<1>14. ch \in Rows /\ th \in Rows /\ me \in Rows /\ ts \in Rows
  BY <1>10, <1>11, <1>12, <1>13 DEF ts
<1>15. l \in State
  <2>1. \A t \in Tables : l[t] \in Rows
    BY <1>4, <1>5, <1>8, <1>9, <1>14 DEF Tables
  <2>. QED
    BY <1>4, <2>1 DEF State
<1>16. \A t \in Tables \ DOMAIN Owner : l[t] = r[t]
  BY <1>4, <1>8, <1>9, TableFacts DEF Tables
<1>17. \A t \in DOMAIN Owner : l[t] = ofKnown(r[t], uuidsOf(l, Owner[t]))
  <2>1. /\ l["team_subscriptions"] = ofKnown(r["team_subscriptions"], Column(l["teams"], 1))
        /\ l["channels"] = ofKnown(r["channels"], Column(l["teams"], 1))
        /\ l["threads"] = ofKnown(r["threads"], Column(l["channels"], 2))
        /\ l["messages"] = ofKnown(r["messages"], Column(l["threads"], 2))
    BY <1>4, <1>11, <1>12, <1>13, Zenon DEF ts
  <2>. QED
    BY <2>1, TableFacts DEF uuidsOf
<1>. QED
  BY <1>1, <1>15, <1>16, <1>17 DEF Loads, r

-----------------------------------------------------------------------------
(* A file as it was written, and one cut short                              *)

LEMMA LastApart ==
  ASSUME NEW T, NEW s \in Seq(T), s # <<>>
  PROVE  /\ Len(s) \in Nat \ {0} /\ Len(s) - 1 \in Nat
         /\ SubSeq(s, 1, Len(s) - 1) \in Seq(T) /\ s[Len(s)] \in T
         /\ Len(SubSeq(s, 1, Len(s) - 1)) = Len(s) - 1
         /\ s = Append(SubSeq(s, 1, Len(s) - 1), s[Len(s)])
<1>1. Len(s) \in Nat \ {0} /\ Len(s) - 1 \in Nat
  OBVIOUS
<1>2. /\ SubSeq(s, 1, Len(s) - 1) \in Seq(T) /\ s[Len(s)] \in T
      /\ Len(SubSeq(s, 1, Len(s) - 1)) = Len(s) - 1
  <2>. DEFINE n == Len(s) - 1
  <2>1. n \in Nat /\ Len(s) \in 1 .. Len(s) /\ \A i \in 1 .. n : i \in 1 .. Len(s)
    BY <1>1
  <2>2. s[Len(s)] \in T /\ \A i \in 1 .. n : s[i] \in T
    BY <2>1
  <2>. HIDE DEF n
  <2>3. SubSeq(s, 1, n) \in Seq(T) /\ Len(SubSeq(s, 1, n)) = n
    BY <2>1, <2>2, SubSeqProperties
  <2>. QED
    BY <2>2, <2>3 DEF n
<1>3. s = Append(SubSeq(s, 1, Len(s) - 1), s[Len(s)])
  BY <1>1, AppendProperties, SubSeqProperties, SeqEqual
<1>. QED
  BY <1>1, <1>2, <1>3

LEMMA FrontAndLast ==
  ASSUME NEW T, NEW s \in Seq(T), NEW e \in T
  PROVE  /\ Append(s, e) \in Seq(T) /\ Append(s, e) # <<>>
         /\ Len(Append(s, e)) = Len(s) + 1 /\ Len(s) \in Nat
         /\ Front(Append(s, e)) = s /\ Last(Append(s, e)) = e
<1>. DEFINE a == Append(s, e)
            n == Len(s)
<1>1. /\ a \in Seq(T) /\ a # <<>> /\ Len(a) = n + 1 /\ n \in Nat
      /\ a[n + 1] = e /\ \A i \in 1 .. n : a[i] = s[i]
  OBVIOUS
<1>. HIDE DEF a
<1>2. SubSeq(a, 1, n) = s
  <2>. DEFINE b == SubSeq(a, 1, n)
  <2>1. b \in Seq(T) /\ Len(b) = n /\ \A i \in 1 .. n : b[i] = a[i]
    BY <1>1
  <2>. HIDE DEF b
  <2>2. \A i \in 1 .. n : b[i] = s[i]
    BY <1>1, <2>1
  <2>3. b = s
    BY <2>1, <2>2, SeqEqual
  <2>. QED
    BY <2>3 DEF b
<1>3. Len(a) - 1 = n
  BY <1>1
<1>. HIDE DEF n
<1>4. Front(a) = s /\ Last(a) = e
  BY <1>1, <1>2, <1>3 DEF Front, Last
<1>. QED
  BY <1>1, <1>4 DEF a, n

LEMMA BeginningIsPrefix ==
  ASSUME NEW u \in Text, NEW v \in Text
  PROVE  IsPrefix(u, u \o v)
<1>. DEFINE w == u \o v
            n == Len(u)
<1>1. /\ w \in Text /\ n \in Nat /\ n <= Len(w) /\ Len(w) \in Nat
      /\ \A i \in 1 .. n : w[i] = u[i]
  BY ConcatProperties DEF Text
<1>. HIDE DEF w
<1>2. SubSeq(u, 1, n) = u
  BY SubSeqFull DEF Text
<1>3. SubSeq(w, 1, n) = u
  <2>. DEFINE b == SubSeq(w, 1, n)
  <2>1. b \in Text /\ Len(b) = n /\ \A i \in 1 .. n : b[i] = w[i]
    BY <1>1 DEF Text
  <2>. HIDE DEF b
  <2>2. \A i \in 1 .. n : b[i] = u[i]
    BY <1>1, <2>1
  <2>3. b = u
    BY <2>1, <2>2, SeqEqual DEF Text
  <2>. QED
    BY <2>3 DEF b
<1>. QED
  BY <1>1, <1>2, <1>3 DEF IsPrefix, w

\* The beginning of a line splits into the fields before the cut, and what is
\* left of the one it goes through.
LEMMA CutLine ==
  ASSUME NEW row \in Row, row # <<>>, NEW l \in Text, NEW x \in Text,
         l \o x = joinEscapedFields(row)
  PROVE  /\ splitEscapedLine(l) \in Row
         /\ Len(splitEscapedLine(l)) = Len(row) => Damaged(splitEscapedLine(l), row)
<1>. DEFINE f == SubSeq(row, 1, Len(row) - 1)
            v == row[Len(row)]
            m == Len(row)
<1>1. /\ row = Append(f, v) /\ f \in Seq(Text) /\ v \in Text
      /\ m \in Nat /\ m - 1 \in Nat /\ Len(f) = m - 1
  BY LastApart DEF Row
<1>. HIDE DEF f, v
<1>2. splitRun(l \o x) = between(f, v)
  BY <1>1, JoinSplits
<1>3. SplitsTowards(between(f, v), row)
  <2>1. Len(f) < m /\ Len(f) + 1 = m
    BY <1>1
  <2>2. v \o <<>> = v /\ <<>> \in Text
    BY <1>1, TextFacts
  <2>3. f = SubSeq(row, 1, Len(f)) /\ v = row[Len(f) + 1]
    BY <1>1, <2>1 DEF f, v
  <2>. QED
    BY <2>1, <2>2, <2>3 DEF SplitsTowards, between
<1>. DEFINE s == splitRun(l)
            c == s.currentField
            k == Len(s.fields)
            e == IF s.escaping THEN Append(c, "\\") ELSE c
            d == Append(s.fields, e)
<1>4. SplitsTowards(s, row)
  BY <1>2, <1>3, SplitOfBeginning DEF Row
<1>5. s \in SplitState
  BY SplitGrows
<1>6. s.fields \in Seq(Text) /\ c \in Text /\ s.escaping \in BOOLEAN /\ k \in Nat
  BY <1>5 DEF SplitState
<1>7. e \in Text
  BY <1>6, TextAppend, SpecialCharacters, Zenon
<1>8. splitEscapedLine(l) = d
  BY Zenon DEF splitEscapedLine, splitRun, splitStart
<1>9. s.fields = SubSeq(row, 1, k)
  BY <1>4, Zenon DEF SplitsTowards
<1>10. PICK y \in Text : c \o y = row[k + 1]
  BY <1>4, Zenon DEF SplitsTowards
<1>. HIDE DEF s
<1>11. d \in Seq(Text) /\ Len(d) = k + 1 /\ Front(d) = s.fields /\ Last(d) = e
  <2>. HIDE DEF e
  <2>. QED
    BY <1>6, <1>7, FrontAndLast
<1>12. CutOf(e, row[k + 1])
  <2>1. IsPrefix(c, row[k + 1])
    BY <1>6, <1>10, BeginningIsPrefix, Zenon
  <2>2. CASE s.escaping
    <3>1. e = Append(c, "\\")
      BY <2>2
    <3>2. e # <<>> /\ Last(e) = "\\" /\ Front(e) = c
      <4>1. c \in Seq(Characters) /\ "\\" \in Characters
        BY <1>6, SpecialCharacters DEF Text
      <4>. HIDE DEF c, e
      <4>. QED
        BY <3>1, <4>1, FrontAndLast
    <3>. HIDE DEF c, e
    <3>. QED
      BY <2>1, <3>2 DEF CutOf
  <2>3. CASE ~s.escaping
    BY <2>1, <2>3 DEF CutOf
  <2>. QED
    BY <2>2, <2>3
<1>. HIDE DEF d, e, c
<1>13. ASSUME Len(d) = m
       PROVE  Damaged(d, row)
  <2>1. k = m - 1 /\ k + 1 = m
    BY <1>1, <1>6, <1>11, <1>13
  <2>. HIDE DEF k
  <2>2. Front(row) = s.fields /\ Last(row) = row[k + 1]
    BY <1>9, <2>1 DEF Front, Last
  <2>. QED
    BY <1>11, <1>12, <2>2 DEF Damaged
<1>. QED
  BY <1>8, <1>11, <1>13 DEF Row

\* The text of a table.
textOfRows(rows) == textOf([i \in DOMAIN rows |-> joinEscapedFields(rows[i])])

LEMMA LinesOfRows ==
  ASSUME NEW rows \in Rows
  PROVE  LET lines == [i \in DOMAIN rows |-> joinEscapedFields(rows[i])]
         IN  /\ lines \in Seq(Unbroken) /\ lines \in Seq(Text) /\ Len(lines) = Len(rows)
             /\ \A i \in 1 .. Len(rows) : lines[i] = joinEscapedFields(rows[i])
<1>. DEFINE line(i) == joinEscapedFields(rows[i])
            lines == [i \in DOMAIN rows |-> line(i)]
<1>1. DOMAIN rows = 1 .. Len(rows) /\ Len(rows) \in Nat
  BY DEF Rows
<1>2. \A i \in 1 .. Len(rows) : line(i) \in Unbroken
  <2>. TAKE i \in 1 .. Len(rows)
  <2>1. rows[i] \in Seq(Text)
    BY DEF Rows, Row
  <2>. QED
    BY <2>1, EscapedUnbroken
<1>. HIDE DEF line
<1>3. /\ lines \in Seq(Unbroken) /\ Len(lines) = Len(rows)
      /\ \A i \in 1 .. Len(rows) : lines[i] = line(i)
  BY <1>1, <1>2
<1>. HIDE DEF lines
<1>4. lines \in Seq(Text)
  BY <1>3, UnbrokenIsText, SeqMonotonic
<1>. QED
  BY <1>3, <1>4 DEF lines, line

LEMMA RecordsBack ==
  ASSUME NEW t \in Tables, NEW rows \in Rows, \A row \in ToSet(rows) : wellFormed(t, row)
  PROVE  textOfRows(rows) \in Text /\ records(t, textOfRows(rows)) = rows
<1>. DEFINE lines == [i \in DOMAIN rows |-> joinEscapedFields(rows[i])]
            n == Len(rows)
<1>1. /\ lines \in Seq(Unbroken) /\ lines \in Seq(Text) /\ Len(lines) = n
      /\ \A i \in 1 .. n : lines[i] = joinEscapedFields(rows[i])
  BY LinesOfRows
<1>2. textOfRows(rows) = textOf(lines)
  BY DEF textOfRows
<1>. HIDE DEF lines
<1>3. textOf(lines) \in Text /\ linesOf(textOf(lines)) = lines
  BY <1>1, TextGrows, LinesReadBack
<1>4. \A i \in 1 .. n : splitEscapedLine(lines[i]) = rows[i]
  <2>. TAKE i \in 1 .. n
  <2>1. rows[i] \in Row /\ rows[i] \in ToSet(rows)
    BY DEF Rows, ToSet
  <2>2. rows[i] # <<>>
    <3>1. Len(rows[i]) = FieldCount[t]
      BY <2>1 DEF wellFormed
    <3>. QED
      BY <3>1, FieldCounts DEF Tables
  <2>. QED
    BY <1>1, <2>1, <2>2, SplitJoined DEF Row
<1>5. everyRecord(t, textOf(lines)) = rows
  <2>1. everyRecord(t, textOf(lines)) = [i \in DOMAIN lines |-> splitEscapedLine(lines[i])]
    BY <1>3 DEF everyRecord
  <2>2. DOMAIN lines = 1 .. n /\ DOMAIN rows = 1 .. n /\ rows = [i \in DOMAIN rows |-> rows[i]]
    BY <1>1 DEF Rows
  <2>. QED
    BY <1>4, <2>1, <2>2
<1>6. parsed(t, rows) = rows
  BY ParsedRows, Zenon
<1>. QED
  BY <1>2, <1>3, <1>5, <1>6 DEF records

\* Whole rows, then perhaps one of which the last field is damaged.
CutRows(t, rows, whole) ==
  \E k \in 0 .. Len(whole) :
    \/ rows = SubSeq(whole, 1, k)
    \/ /\ k < Len(whole)
       /\ \E d \in Row : /\ wellFormed(t, d) /\ Damaged(d, whole[k + 1])
                         /\ rows = Append(SubSeq(whole, 1, k), d)

LEMMA RecordsOfCut ==
  ASSUME NEW t \in Tables, NEW rows \in Rows, \A row \in ToSet(rows) : wellFormed(t, row),
         NEW p \in Text, NEW q \in Text, p \o q = textOfRows(rows)
  PROVE  CutRows(t, records(t, p), rows)
<1>. DEFINE lines == [i \in DOMAIN rows |-> joinEscapedFields(rows[i])]
            n == Len(rows)
<1>1. /\ lines \in Seq(Unbroken) /\ lines \in Seq(Text) /\ Len(lines) = n /\ n \in Nat
      /\ \A i \in 1 .. n : lines[i] = joinEscapedFields(rows[i])
  BY LinesOfRows DEF Rows
<1>2. textOfRows(rows) = textOf(lines)
  BY DEF textOfRows
<1>. HIDE DEF lines
<1>3. readRun(p \o q) = reading(lines, <<>>)
  BY <1>1, <1>2, LinesReadBack
<1>4. ReadsTowards(reading(lines, <<>>), lines)
  <2>1. SubSeq(lines, 1, Len(lines)) = lines /\ Len(lines) \in Nat
    BY <1>1, SubSeqFull
  <2>. QED
    BY <2>1 DEF ReadsTowards, reading
<1>. DEFINE s == readRun(p)
            l == s.line
            k == Len(s.lines)
            whole == SubSeq(rows, 1, k)
<1>5. ReadsTowards(s, lines)
  BY <1>1, <1>3, <1>4, ReadOfBeginning
<1>6. s \in ReadState
  BY ReadGrows
<1>7. s.lines \in Seq(Text) /\ l \in Text /\ k \in Nat
  BY <1>6 DEF ReadState
<1>8. /\ k <= n /\ s.lines = SubSeq(lines, 1, k)
      /\ l = <<>> \/ (k < n /\ \E x \in Text : l \o x = lines[k + 1])
  BY <1>1, <1>5, Zenon DEF ReadsTowards
<1>9. linesOf(p) = IF l = <<>> THEN s.lines ELSE Append(s.lines, l)
  BY Zenon DEF linesOf, readRun, readStart
<1>. HIDE DEF s
<1>10. k \in 0 .. n
  BY <1>1, <1>7, <1>8
<1>11. /\ whole \in Rows /\ Len(whole) = k /\ \A i \in 1 .. k : whole[i] = rows[i]
       /\ \A i \in 1 .. k : i \in 1 .. n /\ s.lines[i] = lines[i]
  <2>1. k \in Nat /\ n \in Nat /\ k <= n /\ s.lines = SubSeq(lines, 1, k)
    BY <1>1, <1>7, <1>8
  <2>. HIDE DEF k, n, l
  <2>2. \A i \in 1 .. k : i \in 1 .. n
    BY <2>1
  <2>3. \A i \in 1 .. k : rows[i] \in Row /\ lines[i] \in Text
    BY <1>1, <2>2 DEF Rows, n
  <2>4. whole \in Rows /\ Len(whole) = k /\ \A i \in 1 .. k : whole[i] = rows[i]
    BY <2>1, <2>3, SubSeqProperties DEF Rows
  <2>5. \A i \in 1 .. k : s.lines[i] = lines[i]
    BY <2>1, <2>3, SubSeqProperties
  <2>. QED
    BY <2>2, <2>4, <2>5
<1>. HIDE DEF whole
<1>12. \A row \in ToSet(whole) : wellFormed(t, row)
  <2>1. DOMAIN whole = 1 .. k
    BY <1>11 DEF Rows
  <2>2. \A i \in 1 .. k : rows[i] \in ToSet(rows)
    BY <1>11 DEF ToSet, Rows
  <2>. QED
    BY <1>11, <2>1, <2>2 DEF ToSet
<1>13. \A i \in 1 .. n : rows[i] \in Row /\ rows[i] # <<>> /\ rows[i] \in ToSet(rows)
  <2>. TAKE i \in 1 .. n
  <2>1. rows[i] \in Row /\ rows[i] \in ToSet(rows)
    BY DEF Rows, ToSet
  <2>2. rows[i] # <<>>
    <3>1. Len(rows[i]) = FieldCount[t]
      BY <2>1 DEF wellFormed
    <3>. QED
      BY <3>1, FieldCounts DEF Tables
  <2>. QED
    BY <2>1, <2>2
<1>14. \A i \in 1 .. k : splitEscapedLine(s.lines[i]) = whole[i]
  <2>. TAKE i \in 1 .. k
  <2>1. i \in 1 .. n /\ rows[i] \in Row /\ rows[i] # <<>>
    BY <1>11, <1>13
  <2>2. s.lines[i] = joinEscapedFields(rows[i])
    BY <1>1, <1>11, <2>1
  <2>. QED
    BY <1>11, <2>1, <2>2, SplitJoined DEF Row
<1>15. CASE l = <<>>
  <2>1. everyRecord(t, p) = [i \in DOMAIN s.lines |-> splitEscapedLine(s.lines[i])]
    BY <1>9, <1>15, Zenon DEF everyRecord
  <2>2. /\ DOMAIN s.lines = 1 .. k /\ DOMAIN whole = 1 .. k
        /\ whole = [i \in DOMAIN whole |-> whole[i]]
    BY <1>7, <1>11 DEF Rows
  <2>3. everyRecord(t, p) = whole
    BY <1>14, <2>1, <2>2
  <2>4. parsed(t, whole) = whole
    BY <1>11, <1>12, ParsedRows, Zenon
  <2>5. records(t, p) = SubSeq(rows, 1, k)
    BY <2>3, <2>4, Zenon DEF records, whole
  <2>. QED
    BY <1>10, <2>5, Zenon DEF CutRows
<1>16. CASE l # <<>>
  <2>1. PICK x \in Text : k < n /\ l \o x = lines[k + 1]
    BY <1>8, <1>16
  <2>. DEFINE d == splitEscapedLine(l)
              whol == rows[k + 1]
  <2>2. k + 1 \in 1 .. n
    BY <1>7, <2>1
  <2>3. whol \in Row /\ whol # <<>> /\ wellFormed(t, whol)
    BY <1>13, <2>2
  <2>4. l \o x = joinEscapedFields(whol)
    BY <1>1, <2>1, <2>2
  <2>. HIDE DEF whol
  <2>5. d \in Row /\ (Len(d) = Len(whol) => Damaged(d, whol))
    BY <1>7, <2>3, <2>4, CutLine
  <2>. DEFINE ls == Append(s.lines, l)
  <2>6. everyRecord(t, p) = [i \in DOMAIN ls |-> splitEscapedLine(ls[i])]
    BY <1>9, <1>16, Zenon DEF everyRecord
  <2>7. /\ DOMAIN ls = 1 .. k + 1 /\ ls[k + 1] = l
        /\ \A i \in 1 .. k : ls[i] = s.lines[i]
        /\ \A i \in 1 .. k + 1 : i \in 1 .. k \/ i = k + 1
    BY <1>7
  <2>. HIDE DEF ls, d
  <2>8. /\ DOMAIN Append(whole, d) = 1 .. k + 1 /\ Append(whole, d)[k + 1] = d
        /\ \A i \in 1 .. k : Append(whole, d)[i] = whole[i]
        /\ Append(whole, d) = [i \in 1 .. k + 1 |-> Append(whole, d)[i]]
    <3>1. whole \in Rows /\ d \in Row /\ Len(whole) = k
      BY <1>11, <2>5
    <3>. DEFINE a == Append(whole, d)
    <3>2. DOMAIN a = 1 .. k + 1 /\ a[k + 1] = d /\ \A i \in 1 .. k : a[i] = whole[i]
      BY <3>1, RowsGrow
    <3>3. a \in Rows
      BY <3>1, RowsGrow
    <3>. HIDE DEF a, k
    <3>4. a = [i \in 1 .. k + 1 |-> a[i]]
      BY <3>2, <3>3 DEF Rows
    <3>. QED
      BY <3>2, <3>4 DEF a
  <2>9. \A i \in 1 .. k + 1 : splitEscapedLine(ls[i]) = Append(whole, d)[i]
    <3>. DEFINE a == Append(whole, d)
    <3>1. a[k + 1] = d /\ \A i \in 1 .. k : a[i] = whole[i]
      BY <2>8
    <3>. HIDE DEF a, k
    <3>2. \A i \in 1 .. k : splitEscapedLine(ls[i]) = a[i]
      BY <1>14, <2>7, <3>1
    <3>3. splitEscapedLine(ls[k + 1]) = a[k + 1]
      BY <2>7, <3>1 DEF d
    <3>4. \A i \in 1 .. k + 1 : splitEscapedLine(ls[i]) = a[i]
      BY <2>7, <3>2, <3>3
    <3>. QED
      BY <3>4 DEF a
  <2>10. everyRecord(t, p) = Append(whole, d)
    <3>. DEFINE a == Append(whole, d)
    <3>1. a = [i \in 1 .. k + 1 |-> a[i]] /\ \A i \in 1 .. k + 1 : splitEscapedLine(ls[i]) = a[i]
      BY <2>8, <2>9
    <3>. HIDE DEF a, k
    <3>2. everyRecord(t, p) = a
      BY <2>6, <2>7, <3>1
    <3>. QED
      BY <3>2 DEF a
  <2>11. records(t, p) = IF wellFormed(t, d) THEN Append(whole, d) ELSE whole
    <3>1. \A e \in Row : parsed(t, Append(whole, e)) =
                            IF wellFormed(t, e) THEN Append(whole, e) ELSE whole
      BY <1>11, <1>12, ParsedRows, Zenon
    <3>. QED
      BY <2>5, <2>10, <3>1, Zenon DEF records
  <2>12. CASE wellFormed(t, d)
    <3>1. Len(d) = Len(whol)
      BY <2>3, <2>12 DEF wellFormed
    <3>2. Damaged(d, rows[k + 1])
      BY <2>5, <3>1 DEF whol
    <3>3. records(t, p) = Append(SubSeq(rows, 1, k), d)
      BY <2>11, <2>12, Zenon DEF whole
    <3>. QED
      BY <1>10, <2>1, <2>5, <2>12, <3>2, <3>3, Zenon DEF CutRows
  <2>13. CASE ~wellFormed(t, d)
    <3>1. records(t, p) = SubSeq(rows, 1, k)
      BY <2>11, <2>13, Zenon DEF whole
    <3>. QED
      BY <1>10, <3>1, Zenon DEF CutRows
  <2>. QED
    BY <2>12, <2>13
<1>. QED
  BY <1>15, <1>16

-----------------------------------------------------------------------------
(* Sound tables                                                             *)

\* A table as a server keeps it: K is the set of the uuids that owners have.
SoundTable(t, rows, K) ==
  /\ rows \in Rows
  /\ \A row \in ToSet(rows) : Shaped(t, row)
  /\ t \in OwnerTables => Distinct(rows, UuidColumn[t])
  /\ t \in OwnerTables => Column(rows, UuidColumn[t]) \subseteq K
  /\ t \in DOMAIN Owner => Column(rows, 1) \subseteq K

Sound(m, K) == m \in State /\ \A t \in Tables : SoundTable(t, m[t], K)

\* Rows that agree but for the last field.
Agrees(t, row, whole) == \A n \in 1 .. FieldCount[t] - 1 : row[n] = whole[n]

LEMMA ColumnsInside ==
  ASSUME NEW t \in Tables
  PROVE  /\ FieldCount[t] \in Nat \ {0, 1} /\ 1 \in 1 .. FieldCount[t] - 1
         /\ t \in DOMAIN UuidColumn => UuidColumn[t] \in 1 .. FieldCount[t] - 1
         /\ t \in DOMAIN TimeColumn => TimeColumn[t] \in 1 .. FieldCount[t] - 1
         /\ t \in requireSecondField /\ t # "team_subscriptions" => 2 \in 1 .. FieldCount[t] - 1
         /\ t \in OwnerTables => t \in DOMAIN UuidColumn
  BY TableFacts, FieldCounts DEF Tables, OwnerTables

LEMMA FrontFields ==
  ASSUME NEW row \in Row, NEW n \in 1 .. Len(row) - 1
  PROVE  Front(row)[n] = row[n]
  BY DEF Front, Row

LEMMA DamagedRow ==
  ASSUME NEW t \in Tables, NEW whole \in Row, Shaped(t, whole),
         NEW d \in Row, wellFormed(t, d), Damaged(d, whole)
  PROVE  Shaped(t, d) /\ Agrees(t, d, whole)
<1>1. Len(d) = FieldCount[t] /\ Len(whole) = FieldCount[t]
  BY DEF Shaped, wellFormed
<1>2. Agrees(t, d, whole)
  <2>. SUFFICES ASSUME NEW n \in 1 .. FieldCount[t] - 1 PROVE d[n] = whole[n]
    BY DEF Agrees
  <2>1. Front(d) = Front(whole)
    BY DEF Damaged
  <2>. QED
    BY <1>1, <2>1, FrontFields
<1>3. Shaped(t, d)
  <2>1. t = "users" => d[1] # <<>>
    BY <1>2, ColumnsInside DEF Shaped, Agrees
  <2>2. t \in DOMAIN TimeColumn => parseTimeValue(d[TimeColumn[t]])
    BY <1>2, ColumnsInside DEF Shaped, Agrees
  <2>. QED
    BY <2>1, <2>2 DEF Shaped
<1>. QED
  BY <1>2, <1>3

\* A table is sound when every row is like one of a sound table.
LEMMA SoundLike ==
  ASSUME NEW t \in Tables, NEW K, NEW whole, SoundTable(t, whole, K),
         NEW rows \in Rows, \A row \in ToSet(rows) : Shaped(t, row),
         \A row \in ToSet(rows) : \E w \in ToSet(whole) : Agrees(t, row, w),
         t \in OwnerTables => Distinct(rows, UuidColumn[t])
  PROVE  SoundTable(t, rows, K)
<1>1. ASSUME NEW n \in 1 .. FieldCount[t] - 1, Column(whole, n) \subseteq K
      PROVE  Column(rows, n) \subseteq K
  <2>1. \A row \in ToSet(rows) : \E w \in ToSet(whole) : row[n] = w[n]
    BY DEF Agrees
  <2>. QED
    BY <1>1, <2>1, ColumnOfRows
<1>. QED
  BY <1>1, ColumnsInside DEF SoundTable

LEMMA AgreesItself == \A t, row : Agrees(t, row, row)
  BY DEF Agrees

LEMMA SoundSome ==
  ASSUME NEW t \in Tables, NEW K, NEW whole, SoundTable(t, whole, K),
         NEW rows \in Rows, ToSet(rows) \subseteq ToSet(whole),
         t \in OwnerTables => Distinct(rows, UuidColumn[t])
  PROVE  SoundTable(t, rows, K)
<1>1. \A row \in ToSet(rows) : Shaped(t, row)
  BY DEF SoundTable
<1>2. \A row \in ToSet(rows) : \E w \in ToSet(whole) : Agrees(t, row, w)
  BY AgreesItself
<1>. QED
  BY <1>1, <1>2, SoundLike

LEMMA SoundKnown ==
  ASSUME NEW t \in Tables, NEW K, NEW rows, SoundTable(t, rows, K), NEW owners
  PROVE  SoundTable(t, ofKnown(rows, owners), K)
<1>. DEFINE x == ofKnown(rows, owners)
<1>1. rows \in Rows
  BY DEF SoundTable
<1>2. x \in Rows
  BY <1>1, KnownRows
<1>3. ToSet(x) = {row \in ToSet(rows) : row[1] \in owners}
  BY <1>1, KnownRows
<1>4. \A n : Distinct(rows, n) => Distinct(x, n)
  BY <1>1, KnownRows
<1>. HIDE DEF x
<1>5. ToSet(x) \subseteq ToSet(rows)
  BY <1>3
<1>6. t \in OwnerTables => Distinct(x, UuidColumn[t])
  BY <1>4 DEF SoundTable
<1>7. SoundTable(t, x, K)
  BY <1>2, <1>5, <1>6, SoundSome
<1>. QED
  BY <1>7 DEF x

\* What is left of a table that was cut, row by row.
LEMMA CutAgrees ==
  ASSUME NEW t \in Tables, NEW K, NEW whole, SoundTable(t, whole, K),
         NEW rows, CutRows(t, rows, whole)
  PROVE  /\ rows \in Rows /\ Len(rows) <= Len(whole)
         /\ \A i \in 1 .. Len(rows) : Shaped(t, rows[i]) /\ Agrees(t, rows[i], whole[i])
<1>1. whole \in Rows /\ Len(whole) \in Nat
  BY DEF SoundTable, Rows
<1>2. \A i \in 1 .. Len(whole) : whole[i] \in Row /\ Shaped(t, whole[i])
  BY <1>1 DEF SoundTable, Rows, ToSet
<1>3. PICK k \in 0 .. Len(whole) :
        \/ rows = SubSeq(whole, 1, k)
        \/ /\ k < Len(whole)
           /\ \E d \in Row : /\ wellFormed(t, d) /\ Damaged(d, whole[k + 1])
                             /\ rows = Append(SubSeq(whole, 1, k), d)
  BY Zenon DEF CutRows
<1>. DEFINE b == SubSeq(whole, 1, k)
<1>4. k \in Nat /\ k <= Len(whole) /\ \A i \in 1 .. k : i \in 1 .. Len(whole)
  BY <1>1
<1>5. b \in Rows /\ Len(b) = k /\ \A i \in 1 .. k : b[i] = whole[i]
  <2>1. \A i \in 1 .. k : whole[i] \in Row
    BY <1>2, <1>4
  <2>. QED
    BY <1>4, <2>1, SubSeqProperties DEF Rows
<1>. HIDE DEF b
<1>6. CASE rows = b
  BY <1>2, <1>4, <1>5, <1>6, AgreesItself
<1>7. ASSUME k < Len(whole), NEW d \in Row, wellFormed(t, d), Damaged(d, whole[k + 1]),
             rows = Append(b, d)
      PROVE  /\ rows \in Rows /\ Len(rows) <= Len(whole)
             /\ \A i \in 1 .. Len(rows) : Shaped(t, rows[i]) /\ Agrees(t, rows[i], whole[i])
  <2>1. k + 1 \in 1 .. Len(whole) /\ k + 1 <= Len(whole)
    BY <1>1, <1>4, <1>7
  <2>2. Shaped(t, d) /\ Agrees(t, d, whole[k + 1])
    BY <1>2, <1>7, <2>1, DamagedRow
  <2>3. /\ rows \in Rows /\ Len(rows) = k + 1 /\ rows[k + 1] = d
        /\ \A i \in 1 .. k : rows[i] = b[i]
        /\ \A i \in 1 .. k + 1 : i = k + 1 \/ i \in 1 .. k
    BY <1>5, <1>7, RowsGrow
  <2>4. \A i \in 1 .. k : Shaped(t, rows[i]) /\ Agrees(t, rows[i], whole[i])
    BY <1>2, <1>4, <1>5, <2>3, AgreesItself
  <2>. QED
    BY <2>1, <2>2, <2>3, <2>4
<1>. QED
  BY <1>3, <1>6, <1>7 DEF b

LEMMA SoundCut ==
  ASSUME NEW t \in Tables, NEW K, NEW whole, SoundTable(t, whole, K),
         NEW rows, CutRows(t, rows, whole)
  PROVE  SoundTable(t, rows, K)
<1>1. /\ rows \in Rows /\ Len(rows) <= Len(whole)
      /\ \A i \in 1 .. Len(rows) : Shaped(t, rows[i]) /\ Agrees(t, rows[i], whole[i])
  BY CutAgrees
<1>2. /\ DOMAIN rows = 1 .. Len(rows) /\ DOMAIN whole = 1 .. Len(whole)
      /\ \A i \in 1 .. Len(rows) : i \in 1 .. Len(whole)
  <2>1. whole \in Rows
    BY DEF SoundTable
  <2>. QED
    BY <1>1, <2>1 DEF Rows
<1>3. \A row \in ToSet(rows) : Shaped(t, row)
  BY <1>1, <1>2 DEF ToSet
<1>4. \A row \in ToSet(rows) : \E w \in ToSet(whole) : Agrees(t, row, w)
  BY <1>1, <1>2 DEF ToSet
<1>5. ASSUME t \in OwnerTables
      PROVE  Distinct(rows, UuidColumn[t])
  <2>. DEFINE n == UuidColumn[t]
  <2>1. n \in 1 .. FieldCount[t] - 1
    BY <1>5, ColumnsInside
  <2>2. Distinct(whole, n)
    BY <1>5 DEF SoundTable
  <2>3. \A i \in 1 .. Len(rows) : rows[i][n] = whole[i][n]
    BY <1>1, <2>1 DEF Agrees
  <2>. QED
    BY <1>2, <2>2, <2>3 DEF Distinct
<1>. QED
  BY <1>1, <1>3, <1>4, <1>5, SoundLike

\* More uuids can be known.
LEMMA SoundMore ==
  ASSUME NEW m, NEW K, NEW L, K \subseteq L, Sound(m, K)
  PROVE  Sound(m, L)
  BY DEF Sound, SoundTable

LEMMA SoundParts ==
  ASSUME NEW m, NEW K, Sound(m, K)
  PROVE  m \in State /\ AllShaped(m) /\ OwnersDistinct(m)
<1>1. \A t \in OwnerTables : Distinct(m[t], UuidColumn[t])
  BY OwnerIsTable DEF Sound, SoundTable
<1>. QED
  BY <1>1 DEF Sound, SoundTable, AllShaped, OwnersDistinct, OwnerTables

LEMMA SoundInOrder ==
  ASSUME NEW m, NEW K, Sound(m, K), Owned(m)
  PROVE  Sound(inOrder(m), K)
<1>1. m \in State /\ OwnersDistinct(m)
  BY SoundParts
<1>. DEFINE o == inOrder(m)
<1>2. /\ o \in State /\ OwnersDistinct(o)
      /\ \A t \in Tables : ToSet(o[t]) = ToSet(m[t])
  BY <1>1, InOrderRows
<1>. HIDE DEF o
<1>3. \A t \in OwnerTables : Distinct(o[t], UuidColumn[t])
  BY <1>2 DEF OwnersDistinct, OwnerTables
<1>4. ASSUME NEW t \in Tables
      PROVE  SoundTable(t, o[t], K)
  <2>1. o[t] \in Rows /\ SoundTable(t, m[t], K)
    BY <1>2 DEF State, Sound
  <2>. QED
    BY <1>2, <1>3, <2>1, SoundSome
<1>5. Sound(o, K)
  BY <1>2, <1>4 DEF Sound
<1>. QED
  BY <1>5 DEF o

-----------------------------------------------------------------------------
(* The constants                                                            *)

\* The uuids that owners have had so far.
Known(n) ==
  (UNION {uuidsOf(Seed, t) : t \in OwnerTables}) \union {Uuids[i] : i \in 1 .. n}

LEMMA StringsAreText ==
  /\ Seq(STRING) \subseteq Text
  /\ Seq(Seq(STRING)) \subseteq Row
  /\ Seq(Seq(Seq(STRING))) \subseteq Rows
<1>1. ASSUME NEW S, NEW T, S \subseteq T
      PROVE  Seq(S) \subseteq Seq(T)
  BY <1>1
<1>2. Seq(STRING) \subseteq Text
  BY <1>1 DEF Text, Characters
<1>3. Seq(Seq(STRING)) \subseteq Row
  BY <1>1, <1>2 DEF Row
<1>. QED
  BY <1>1, <1>2, <1>3 DEF Rows

LEMMA ConstantTexts ==
  /\ Texts \subseteq Text
  /\ Time \in Text /\ Time # <<>> /\ parseTimeValue(Time)
  /\ Len(Uuids) \in Nat
  /\ \A i \in 1 .. Len(Uuids) : Uuids[i] \in Text /\ Uuids[i] # <<>>
<1>1. Uuids \in Seq(Seq(STRING) \ {<<>>})
  BY PersistenceConstants
<1>2. Len(Uuids) \in Nat /\ \A i \in 1 .. Len(Uuids) : Uuids[i] \in Seq(STRING) \ {<<>>}
  BY <1>1
<1>3. Time # <<>>
  BY PersistenceConstants DEF parseTimeValue
<1>4. Texts \subseteq Seq(STRING) /\ Time \in Seq(STRING) /\ parseTimeValue(Time)
  BY PersistenceConstants
<1>5. Seq(STRING) \subseteq Text
  BY StringsAreText
<1>. QED
  BY <1>2, <1>3, <1>4, <1>5

LEMMA FreshUuid ==
  ASSUME NEW n \in Nat, n + 1 <= Len(Uuids)
  PROVE  /\ Uuids[n + 1] \in Text /\ Uuids[n + 1] # <<>>
         /\ Uuids[n + 1] \notin Known(n)
         /\ Known(n + 1) = Known(n) \union {Uuids[n + 1]}
<1>1. Len(Uuids) \in Nat /\ n + 1 \in 1 .. Len(Uuids)
  BY ConstantTexts
<1>2. DOMAIN Uuids = 1 .. Len(Uuids)
  BY PersistenceConstants
<1>3. \A i \in 1 .. n : i \in DOMAIN Uuids /\ Uuids[i] # Uuids[n + 1]
  <2>1. \A i, j \in DOMAIN Uuids : Uuids[i] = Uuids[j] => i = j
    BY PersistenceConstants
  <2>. QED
    BY <1>1, <1>2, <2>1
<1>4. Uuids[n + 1] \in ToSet(Uuids)
  BY <1>1, <1>2 DEF ToSet
<1>5. \A t \in OwnerTables : Uuids[n + 1] \notin uuidsOf(Seed, t)
  <2>1. \A t \in DOMAIN UuidColumn : uuidsOf(Seed, t) \intersect ToSet(Uuids) = {}
    BY PersistenceConstants
  <2>. QED
    BY <1>4, <2>1, TableFacts DEF OwnerTables, Tables
<1>6. Uuids[n + 1] \notin Known(n)
  <2>. DEFINE u == Uuids[n + 1]
              drawnOnes == {Uuids[i] : i \in 1 .. n}
              seeded == UNION {uuidsOf(Seed, t) : t \in OwnerTables}
  <2>1. u \notin drawnOnes
    BY <1>3
  <2>2. u \notin seeded
    BY <1>5
  <2>3. Known(n) = seeded \union drawnOnes
    BY DEF Known
  <2>. HIDE DEF u, drawnOnes, seeded
  <2>4. u \notin Known(n)
    BY <2>1, <2>2, <2>3
  <2>. QED
    BY <2>4 DEF u
<1>7. Known(n + 1) = Known(n) \union {Uuids[n + 1]}
  <2>1. \A i : i \in 1 .. n + 1 <=> i \in 1 .. n \/ i = n + 1
    OBVIOUS
  <2>2. {Uuids[i] : i \in 1 .. n + 1} = {Uuids[i] : i \in 1 .. n} \union {Uuids[n + 1]}
    BY <2>1
  <2>. DEFINE a == {Uuids[i] : i \in 1 .. n + 1}
              b == {Uuids[i] : i \in 1 .. n}
              seeded == UNION {uuidsOf(Seed, t) : t \in OwnerTables}
  <2>3. Known(n + 1) = seeded \union a /\ Known(n) = seeded \union b
    BY DEF Known
  <2>4. a = b \union {Uuids[n + 1]}
    BY <2>2
  <2>. HIDE DEF a, b, seeded
  <2>. QED
    BY <2>3, <2>4
<1>. QED
  BY <1>1, <1>6, <1>7, ConstantTexts

LEMMA SeedIsSound == Sound(Seed, Known(0)) /\ Owned(Seed)
<1>1. /\ Seed \in [Tables -> Seq(Seq(Seq(STRING)))]
      /\ \A t \in Tables : \A i \in DOMAIN Seed[t] : Shaped(t, Seed[t][i])
      /\ Owned(Seed) /\ OwnersDistinct(Seed)
  BY PersistenceConstants DEF Saved
<1>2. Seed \in State
  BY <1>1, StringsAreText DEF State
<1>3. \A t \in OwnerTables : uuidsOf(Seed, t) \subseteq Known(0)
  BY DEF Known
<1>4. ASSUME NEW t \in Tables
      PROVE  SoundTable(t, Seed[t], Known(0))
  <2>1. Seed[t] \in Rows
    BY <1>2 DEF State
  <2>2. \A row \in ToSet(Seed[t]) : Shaped(t, row)
    BY <1>1 DEF ToSet
  <2>3. t \in OwnerTables => Distinct(Seed[t], UuidColumn[t])
    BY <1>1 DEF OwnersDistinct, OwnerTables
  <2>4. t \in OwnerTables => Column(Seed[t], UuidColumn[t]) \subseteq Known(0)
    BY <1>3 DEF uuidsOf
  <2>5. t \in DOMAIN Owner => Column(Seed[t], 1) \subseteq Known(0)
    BY <1>1, <1>3, OwnerIsTable DEF Owned
  <2>. QED
    BY <2>1, <2>2, <2>3, <2>4, <2>5 DEF SoundTable
<1>. QED
  BY <1>1, <1>2, <1>4 DEF Sound

-----------------------------------------------------------------------------
(* Rows added to a table                                                    *)

LEMMA ColumnGrows ==
  ASSUME NEW rows \in Rows, NEW row \in Row, NEW n
  PROVE  Column(Append(rows, row), n) = Column(rows, n) \union {row[n]}
<1>. DEFINE all == Append(rows, row)
<1>1. ToSet(all) = ToSet(rows) \union {row}
  BY RowsGrow
<1>. HIDE DEF all
<1>2. Column(all, n) = Column(rows, n) \union {row[n]}
  BY <1>1, ColumnOfRows
<1>. QED
  BY <1>2 DEF all

\* What a handler may put at the end of a table: L are the uuids known then.
Addable(m, K, L, t, row) ==
  /\ row \in Row /\ Shaped(t, row)
  /\ t \in OwnerTables => row[UuidColumn[t]] \in L \ K
  /\ t \in DOMAIN Owner => row[1] \in uuidsOf(m, Owner[t])

LEMMA SoundTableGrows ==
  ASSUME NEW m, NEW K, NEW L, NEW t \in Tables, NEW row, NEW rows,
         SoundTable(t, rows, K), K \subseteq L, Addable(m, K, L, t, row),
         t \in DOMAIN Owner => uuidsOf(m, Owner[t]) \subseteq L
  PROVE  SoundTable(t, Append(rows, row), L)
<1>. DEFINE all == Append(rows, row)
<1>1. rows \in Rows /\ row \in Row /\ Shaped(t, row)
  BY DEF SoundTable, Addable
<1>2. /\ Len(rows) \in Nat /\ DOMAIN rows = 1 .. Len(rows)
      /\ all \in Rows /\ DOMAIN all = 1 .. Len(rows) + 1
      /\ all[Len(rows) + 1] = row /\ \A i \in 1 .. Len(rows) : all[i] = rows[i]
      /\ ToSet(all) = ToSet(rows) \union {row}
      /\ \A i \in 1 .. Len(rows) + 1 : i = Len(rows) + 1 \/ i \in 1 .. Len(rows)
  BY <1>1, RowsGrow
<1>3. \A n : Column(all, n) = Column(rows, n) \union {row[n]}
  BY <1>1, ColumnGrows
<1>. HIDE DEF all
<1>4. \A r \in ToSet(all) : Shaped(t, r)
  BY <1>1, <1>2 DEF SoundTable
<1>5. ASSUME t \in OwnerTables
      PROVE  Distinct(all, UuidColumn[t]) /\ Column(all, UuidColumn[t]) \subseteq L
  <2>. DEFINE n == UuidColumn[t]
  <2>1. Distinct(rows, n) /\ Column(rows, n) \subseteq K
    BY <1>5 DEF SoundTable
  <2>2. row[n] \in L /\ row[n] \notin K
    BY <1>5 DEF Addable
  <2>. HIDE DEF n
  <2>3. \A i \in DOMAIN rows : rows[i][n] # row[n]
    BY <2>1, <2>2 DEF Column
  <2>4. Distinct(all, n)
    BY <1>2, <2>1, <2>3 DEF Distinct
  <2>5. Column(all, n) \subseteq L
    BY <1>3, <2>1, <2>2
  <2>. QED
    BY <2>4, <2>5 DEF n
<1>6. t \in DOMAIN Owner => Column(all, 1) \subseteq L
  <2>1. t \in DOMAIN Owner => Column(rows, 1) \subseteq L /\ row[1] \in L
    BY DEF SoundTable, Addable
  <2>. QED
    BY <1>3, <2>1
<1>7. SoundTable(t, all, L)
  BY <1>2, <1>4, <1>5, <1>6 DEF SoundTable
<1>. QED
  BY <1>7 DEF all

\* One table is changed, the others are not.
Replaced(m, t, rows) == [m EXCEPT ![t] = rows]

LEMMA ReplacedTables ==
  ASSUME NEW m \in State, NEW t \in Tables, NEW rows \in Rows
  PROVE  /\ Replaced(m, t, rows) \in State
         /\ Replaced(m, t, rows)[t] = rows
         /\ \A s \in Tables : s # t => Replaced(m, t, rows)[s] = m[s]
  BY DEF Replaced, State

LEMMA SoundReplaced ==
  ASSUME NEW m, NEW K, NEW L, K \subseteq L, Sound(m, K),
         NEW t \in Tables, NEW rows, SoundTable(t, rows, L)
  PROVE  Sound(Replaced(m, t, rows), L)
<1>. DEFINE o == Replaced(m, t, rows)
<1>1. m \in State /\ rows \in Rows
  BY DEF Sound, SoundTable
<1>2. o \in State /\ o[t] = rows /\ \A s \in Tables : s # t => o[s] = m[s]
  BY <1>1, ReplacedTables
<1>3. Sound(m, L)
  BY SoundMore
<1>. HIDE DEF o
<1>4. \A s \in Tables : SoundTable(s, o[s], L)
  BY <1>2, <1>3 DEF Sound
<1>5. Sound(o, L)
  BY <1>2, <1>4 DEF Sound
<1>. QED
  BY <1>5 DEF o

\* The state with one more row.
Added(m, t, row) == Replaced(m, t, Append(m[t], row))

LEMMA AddedColumns ==
  ASSUME NEW m \in State, NEW t \in Tables, NEW row \in Row
  PROVE  /\ Added(m, t, row) \in State
         /\ \A s \in Tables : ToSet(m[s]) \subseteq ToSet(Added(m, t, row)[s])
         /\ \A n : Column(Added(m, t, row)[t], n) = Column(m[t], n) \union {row[n]}
         /\ \A s \in Tables : \A n : s # t => Column(Added(m, t, row)[s], n) = Column(m[s], n)
<1>. DEFINE all == Append(m[t], row)
<1>1. m[t] \in Rows
  BY DEF State
<1>2. all \in Rows /\ ToSet(all) = ToSet(m[t]) \union {row}
  BY <1>1, RowsGrow
<1>3. \A n : Column(all, n) = Column(m[t], n) \union {row[n]}
  BY <1>1, ColumnGrows
<1>. HIDE DEF all
<1>. DEFINE o == Replaced(m, t, all)
<1>4. o \in State /\ o[t] = all /\ \A s \in Tables : s # t => o[s] = m[s]
  BY <1>2, ReplacedTables
<1>5. Added(m, t, row) = o
  BY DEF Added, all
<1>. HIDE DEF o
<1>6. \A s \in Tables : ToSet(m[s]) \subseteq ToSet(o[s])
  BY <1>2, <1>4
<1>7. /\ \A n : Column(o[t], n) = Column(m[t], n) \union {row[n]}
      /\ \A s \in Tables : \A n : s # t => Column(o[s], n) = Column(m[s], n)
  BY <1>3, <1>4
<1>. QED
  BY <1>4, <1>5, <1>6, <1>7

LEMMA AddedColumn ==
  ASSUME NEW m \in State, NEW t \in Tables, NEW row \in Row, NEW n
  PROVE  Column(Added(m, t, row)[t], n) = Column(m[t], n) \union {row[n]}
<1>. HIDE DEF Added
<1>1. \A k : Column(Added(m, t, row)[t], k) = Column(m[t], k) \union {row[k]}
  BY AddedColumns
<1>. QED
  BY <1>1

LEMMA OtherColumns ==
  ASSUME NEW m \in State, NEW t \in Tables, NEW row \in Row,
         NEW s \in Tables, s # t, NEW n
  PROVE  Column(Added(m, t, row)[s], n) = Column(m[s], n)
<1>1. \A x \in Tables : \A k :
        x # t => Column(Added(m, t, row)[x], k) = Column(m[x], k)
  BY AddedColumns
<1>. QED
  BY <1>1

LEMMA SoundAdded ==
  ASSUME NEW m, NEW K, NEW L, K \subseteq L, Sound(m, K), Owned(m),
         NEW t \in Tables, NEW row, Addable(m, K, L, t, row)
  PROVE  Sound(Added(m, t, row), L) /\ Owned(Added(m, t, row))
<1>. DEFINE o == Added(m, t, row)
<1>1. m \in State /\ row \in Row
  BY DEF Sound, Addable
<1>2. /\ \A n : Column(o[t], n) = Column(m[t], n) \union {row[n]}
      /\ \A s \in Tables : \A n : s # t => Column(o[s], n) = Column(m[s], n)
  BY <1>1, AddedColumn, OtherColumns
<1>3. \A s \in OwnerTables : uuidsOf(m, s) \subseteq L
  <2>1. ASSUME NEW s \in OwnerTables
        PROVE  Column(m[s], UuidColumn[s]) \subseteq L
    <3>1. SoundTable(s, m[s], K)
      BY OwnerIsTable DEF Sound
    <3>. QED
      BY <3>1 DEF SoundTable
  <2>. QED
    BY <2>1 DEF uuidsOf
<1>4. SoundTable(t, Append(m[t], row), L)
  <2>1. SoundTable(t, m[t], K)
    BY DEF Sound
  <2>2. t \in DOMAIN Owner => uuidsOf(m, Owner[t]) \subseteq L
    BY <1>3, OwnerIsTable
  <2>. QED
    BY <2>1, <2>2, SoundTableGrows
<1>5. Sound(o, L)
  BY <1>4, SoundReplaced DEF Added
<1>. HIDE DEF o
<1>6. ASSUME NEW s \in DOMAIN Owner
      PROVE  Column(o[s], 1) \subseteq uuidsOf(o, Owner[s])
  <2>1. s \in Tables /\ Owner[s] \in Tables
    BY OwnerIsTable
  <2>2. uuidsOf(m, Owner[s]) \subseteq uuidsOf(o, Owner[s])
    BY <1>2, <2>1 DEF uuidsOf
  <2>3. Column(m[s], 1) \subseteq uuidsOf(m, Owner[s])
    BY DEF Owned
  <2>4. s = t => row[1] \in uuidsOf(m, Owner[s])
    BY DEF Addable
  <2>. QED
    BY <1>2, <2>1, <2>2, <2>3, <2>4
<1>7. Owned(o)
  BY <1>6 DEF Owned
<1>. QED
  BY <1>5, <1>7 DEF o

-----------------------------------------------------------------------------
(* The invariant                                                            *)

onDisk == recordsOf(files)

Types ==
  /\ phase \in {"down", "loaded", "up", "saving"}
  /\ files \in [Tables -> Text]
  /\ kept \in State
  /\ written \in 0 .. 7 /\ saveSuccess \in BOOLEAN
  /\ drawn \in 0 .. Len(Uuids)
  /\ tornNow \subseteq failed

MemoryInv == Sound(memory, Known(drawn)) /\ Owned(memory)

\* Nothing but subscriptions is ever deleted.
Kept(k, m) == \A t \in Tables \ {"team_subscriptions"} : ToSet(k[t]) \subseteq ToSet(m[t])
KeptInv == Owned(kept) /\ Kept(kept, memory)

\* The users that entries name are accounts, as far as the files written say so.
NamesResolve(m, bad) ==
  /\ UsersNamed(m) \subseteq Column(m["users"], 1)
  /\ "team_subscriptions" \notin bad =>
       Column(m["team_subscriptions"], 2) \subseteq Column(m["users"], 1)
  /\ "privateMessages" \notin bad =>
       Column(m["privateMessages"], 5) \subseteq Column(m["users"], 1)
NamesInv ==
  "users" \notin failed => NamesResolve(memory, failed) /\ NamesResolve(kept, failed)

\* A file on the disk is of the generation the process started with (and what else
\* it holds will not be loaded, its owners being of no generation), or of the one
\* that is being saved, or a beginning of that.
Reached(m, t, row) == t \in DOMAIN Owner => row[1] \in uuidsOf(m, Owner[t])
OldTable(t, rows, k, m) ==
  IF t = "users" THEN Column(k, 1) \subseteq Column(rows, 1)
  ELSE /\ ToSet(k) \subseteq ToSet(rows)
       /\ \A row \in ToSet(rows) : Reached(m, t, row) => row \in ToSet(k)
Old(t) == OldTable(t, onDisk[t], kept[t], memory)
Fresh(t) == onDisk[t] = inOrder(memory)[t]
Torn(t) == t \in tornNow /\ CutRows(t, onDisk[t], inOrder(memory)[t])

DiskInv ==
  /\ Sound(onDisk, Known(drawn))
  /\ phase \in {"loaded", "up"} => \A t \in Tables : Old(t)
  /\ phase \in {"saving", "down"} => \A t \in Tables : Old(t) \/ Fresh(t) \/ Torn(t)
SaveInv ==
  /\ phase = "saving" => serialized = serializeData(memory)
  /\ phase = "saving" /\ written = 0 => \A t \in Tables : Old(t)
  /\ phase = "saving" /\ written > 0 /\ "users" \notin failed => Fresh("users")
  /\ phase = "down" /\ "users" \notin failed =>
       Fresh("users") \/ \A t \in Tables : Old(t)
  /\ phase \in {"saving", "down"} /\ saveSuccess /\ tornNow = {} =>
       \A i \in 1 .. written : Fresh(outputFiles[i])
  /\ phase = "down" /\ saveSuccess => written = 7

Inv == Types /\ MemoryInv /\ KeptInv /\ NamesInv /\ DiskInv /\ SaveInv

\* What a change of memory does to what it owes to the files.
Changes(m, n, K, L) ==
  /\ Sound(n, L) /\ Owned(n) /\ Kept(m, n)
  /\ \A t \in OwnerTables : uuidsOf(n, t) \ uuidsOf(m, t) \subseteq L \ K
  /\ \A bad : NamesResolve(m, bad) => NamesResolve(n, bad)

LEMMA OldStays ==
  ASSUME NEW m, NEW n, NEW K, NEW t \in Tables, NEW rows, NEW k, SoundTable(t, rows, K),
         \A s \in OwnerTables : (uuidsOf(n, s) \ uuidsOf(m, s)) \intersect K = {},
         OldTable(t, rows, k, m)
  PROVE  OldTable(t, rows, k, n)
<1>1. ASSUME t # "users", NEW row \in ToSet(rows), Reached(n, t, row)
      PROVE  row \in ToSet(k)
  <2>1. ASSUME t \in DOMAIN Owner
        PROVE  row[1] \in uuidsOf(m, Owner[t])
    <3>1. row[1] \in Column(rows, 1) /\ Column(rows, 1) \subseteq K
      BY <1>1, <2>1, ColumnOfRows DEF SoundTable
    <3>2. row[1] \in uuidsOf(n, Owner[t])
      BY <1>1, <2>1 DEF Reached
    <3>3. (uuidsOf(n, Owner[t]) \ uuidsOf(m, Owner[t])) \intersect K = {}
      BY <2>1, OwnerIsTable
    <3>. QED
      BY <3>1, <3>2, <3>3
  <2>2. Reached(m, t, row)
    BY <2>1 DEF Reached
  <2>. QED
    BY <1>1, <2>2 DEF OldTable
<1>. QED
  BY <1>1 DEF OldTable

LEMMA ChangeKeeps ==
  ASSUME Inv, phase \in {"loaded", "up"}, phase' = "up",
         UNCHANGED <<files, written, saveSuccess, kept, failed, tornNow>>,
         drawn' \in 0 .. Len(Uuids), Known(drawn) \subseteq Known(drawn'),
         Changes(memory, memory', Known(drawn), Known(drawn'))
  PROVE  Inv'
<1>. DEFINE K == Known(drawn)
            L == Known(drawn')
<1>1. Types'
  BY DEF Inv, Types
<1>2. MemoryInv'
  BY DEF Changes, MemoryInv
<1>3. KeptInv'
  BY DEF Changes, Inv, KeptInv, Kept
<1>4. NamesInv'
  BY DEF Changes, Inv, NamesInv
<1>5. onDisk' = onDisk
  BY DEF onDisk
<1>6. Sound(onDisk, K) /\ \A t \in Tables : Old(t)
  BY DEF Inv, DiskInv
<1>7. Sound(onDisk, L)
  BY <1>6, SoundMore
<1>8. \A s \in OwnerTables : (uuidsOf(memory', s) \ uuidsOf(memory, s)) \intersect K = {}
  BY DEF Changes
<1>9. ASSUME NEW t \in Tables
      PROVE  OldTable(t, onDisk[t], kept[t], memory')
  <2>1. SoundTable(t, onDisk[t], K) /\ OldTable(t, onDisk[t], kept[t], memory)
    BY <1>6 DEF Sound, Old
  <2>. HIDE DEF K
  <2>. QED
    BY <1>8, <2>1, OldStays
<1>10. DiskInv'
  BY <1>5, <1>7, <1>9 DEF DiskInv, Old
<1>11. SaveInv'
  BY DEF SaveInv
<1>. QED
  BY <1>1, <1>2, <1>3, <1>4, <1>10, <1>11 DEF Inv

-----------------------------------------------------------------------------
(* The handlers                                                             *)

\* The users a row names.
RowResolves(m, t, row) ==
  LET known == Column(m["users"], 1)
  IN  /\ t \in {"threads", "messages"} => row[3] \in known
      /\ t \in {"privateMessages", "team_subscriptions"} => row[2] \in known
      /\ t = "privateMessages" => row[5] \in known

LEMMA AddedResolves ==
  ASSUME NEW m \in State, NEW t \in Tables, NEW row \in Row, RowResolves(m, t, row),
         NEW bad, NamesResolve(m, bad)
  PROVE  NamesResolve(Added(m, t, row), bad)
<1>. DEFINE o == Added(m, t, row)
<1>1. /\ \A n : Column(o[t], n) = Column(m[t], n) \union {row[n]}
      /\ \A s \in Tables : \A n : s # t => Column(o[s], n) = Column(m[s], n)
  BY AddedColumn, OtherColumns
<1>. HIDE DEF o
<1>2. ASSUME NEW s \in Tables, NEW n, NEW known, Column(m[s], n) \subseteq known,
             s = t => row[n] \in known
      PROVE  Column(o[s], n) \subseteq known
  BY <1>1, <1>2
<1>. DEFINE known == Column(m["users"], 1)
<1>3. known \subseteq Column(o["users"], 1)
  BY <1>1 DEF Tables
<1>4. /\ Column(m["threads"], 3) \subseteq known
      /\ Column(m["messages"], 3) \subseteq known
      /\ Column(m["privateMessages"], 2) \subseteq known
  BY DEF NamesResolve, UsersNamed
<1>5. /\ "team_subscriptions" \notin bad => Column(m["team_subscriptions"], 2) \subseteq known
      /\ "privateMessages" \notin bad => Column(m["privateMessages"], 5) \subseteq known
  BY DEF NamesResolve
<1>6. /\ t = "threads" => row[3] \in known
      /\ t = "messages" => row[3] \in known
      /\ t = "privateMessages" => row[2] \in known /\ row[5] \in known
      /\ t = "team_subscriptions" => row[2] \in known
  BY DEF RowResolves
<1>. HIDE DEF known
<1>7. /\ Column(o["threads"], 3) \subseteq known
      /\ Column(o["messages"], 3) \subseteq known
      /\ Column(o["privateMessages"], 2) \subseteq known
  BY <1>2, <1>4, <1>6 DEF Tables
<1>8. /\ "team_subscriptions" \notin bad => Column(o["team_subscriptions"], 2) \subseteq known
      /\ "privateMessages" \notin bad => Column(o["privateMessages"], 5) \subseteq known
  BY <1>2, <1>5, <1>6 DEF Tables
<1>9. NamesResolve(o, bad)
  BY <1>3, <1>7, <1>8 DEF NamesResolve, UsersNamed
<1>. QED
  BY <1>9 DEF o

LEMMA AddedChanges ==
  ASSUME NEW m, NEW K, NEW L, K \subseteq L, Sound(m, K), Owned(m),
         NEW t \in Tables, NEW row, Addable(m, K, L, t, row), RowResolves(m, t, row)
  PROVE  Changes(m, Added(m, t, row), K, L)
<1>. DEFINE o == Added(m, t, row)
<1>1. m \in State /\ row \in Row
  BY DEF Sound, Addable
<1>2. Sound(o, L) /\ Owned(o)
  BY SoundAdded
<1>3. \A bad : NamesResolve(m, bad) => NamesResolve(o, bad)
  BY <1>1, AddedResolves
<1>0. \A s \in Tables : ToSet(m[s]) \subseteq ToSet(o[s])
  BY <1>1, AddedColumns
<1>4. /\ \A n : Column(o[t], n) = Column(m[t], n) \union {row[n]}
      /\ \A s \in Tables : \A n : s # t => Column(o[s], n) = Column(m[s], n)
  BY <1>1, AddedColumn, OtherColumns
<1>. HIDE DEF o
<1>5. Kept(m, o)
  BY <1>0 DEF Kept
<1>6. ASSUME NEW s \in OwnerTables
      PROVE  uuidsOf(o, s) \ uuidsOf(m, s) \subseteq L \ K
  <2>1. s \in Tables
    BY OwnerIsTable
  <2>2. CASE s # t
    BY <1>4, <2>1, <2>2 DEF uuidsOf
  <2>3. CASE s = t
    <3>1. row[UuidColumn[t]] \in L \ K
      BY <2>3 DEF Addable
    <3>. QED
      BY <1>4, <2>3, <3>1 DEF uuidsOf
  <2>. QED
    BY <2>2, <2>3
<1>7. Changes(m, o, K, L)
  BY <1>2, <1>3, <1>5, <1>6 DEF Changes
<1>. QED
  BY <1>7 DEF o

LEMMA AddKeeps ==
  ASSUME Inv, NEW t \in Tables, NEW row, NEW uuids \in {0, 1}, add(t, row, uuids),
         Addable(memory, Known(drawn), Known(drawn + uuids), t, row),
         RowResolves(memory, t, row)
  PROVE  Inv'
<1>1. /\ phase \in {"loaded", "up"} /\ phase' = "up"
      /\ UNCHANGED <<files, written, saveSuccess, kept, failed, tornNow>>
      /\ drawn' = drawn + uuids /\ drawn + uuids <= Len(Uuids)
      /\ memory' = Added(memory, t, row)
  BY DEF add, change, Running, history, Added, Replaced
<1>2. drawn \in Nat /\ drawn' \in 0 .. Len(Uuids)
  BY <1>1, ConstantTexts DEF Inv, Types
<1>3. Known(drawn) \subseteq Known(drawn')
  <2>1. uuids = 0 => Known(drawn) = Known(drawn')
    BY <1>1, <1>2
  <2>2. uuids = 1 => Known(drawn) \subseteq Known(drawn + 1)
    BY <1>1, <1>2, FreshUuid
  <2>. QED
    BY <1>1, <2>1, <2>2
<1>4. Changes(memory, memory', Known(drawn), Known(drawn'))
  BY <1>1, <1>3, AddedChanges DEF Inv, MemoryInv
<1>. QED
  BY <1>1, <1>2, <1>3, <1>4, ChangeKeeps

LEMMA UuidTexts ==
  ASSUME NEW m, NEW K, Sound(m, K), NEW t \in DOMAIN UuidColumn, NEW x \in uuidsOf(m, t)
  PROVE  x \in Text /\ x # <<>>
<1>1. t \in Tables /\ SoundTable(t, m[t], K)
  BY TableFacts DEF Sound
<1>2. PICK row \in ToSet(m[t]) : x = row[UuidColumn[t]]
  BY ColumnOfRows DEF uuidsOf
<1>3. row \in Row /\ Shaped(t, row)
  <2>1. m[t] \in Rows
    BY <1>1 DEF SoundTable
  <2>2. ToSet(m[t]) \subseteq Row
    BY <2>1 DEF Rows, ToSet
  <2>. QED
    BY <1>1, <2>2 DEF SoundTable
<1>4. wellFormed(t, row) /\ (t = "users" => row[1] # <<>>)
  BY <1>3 DEF Shaped
<1>5. Len(row) = FieldCount[t] /\ UuidColumn[t] \in 1 .. FieldCount[t]
  <2>1. FieldCount[t] \in Nat /\ UuidColumn[t] \in 1 .. FieldCount[t] - 1
    BY <1>1, ColumnsInside
  <2>2. Len(row) = FieldCount[t]
    BY <1>4 DEF wellFormed
  <2>. QED
    BY <2>1, <2>2
<1>6. x \in Text
  BY <1>2, <1>3, <1>5 DEF Row
<1>7. x # <<>>
  <2>1. UuidColumn[t] = 1 \/ (UuidColumn[t] = 2 /\ t \in requireSecondField)
    BY TableFacts DEF requireSecondField, Tables
  <2>2. t # "users" => row[1] # <<>>
    BY <1>1, <1>4 DEF wellFormed, requireFirstField
  <2>3. t \in requireSecondField => row[2] # <<>>
    BY <1>4 DEF wellFormed
  <2>. QED
    BY <1>2, <1>4, <2>1, <2>2, <2>3
<1>. QED
  BY <1>6, <1>7

LEMMA RowOfTexts ==
  ASSUME NEW a \in Text, NEW b \in Text
  PROVE  /\ <<a, b>> \in Row
         /\ \A c \in Text : <<a, b, c>> \in Row
         /\ \A c, d \in Text : <<a, b, c, d>> \in Row
         /\ \A c, d, e \in Text : <<a, b, c, d, e>> \in Row
         /\ \A c, d, e, f \in Text : <<a, b, c, d, e, f>> \in Row
  BY DEF Row

LEMMA ShapedRow ==
  ASSUME NEW t \in Tables, NEW row, Len(row) = FieldCount[t], row[1] # <<>>,
         t \in requireSecondField => row[2] # <<>>,
         t \in DOMAIN TimeColumn => parseTimeValue(row[TimeColumn[t]])
  PROVE  Shaped(t, row)
  BY DEF Shaped, wellFormed

LEMMA UserUuids ==
  ASSUME Inv, NEW u \in accounts
  PROVE  u \in Text /\ u # <<>>
  BY UuidTexts, TableFacts DEF Inv, MemoryInv, accounts, uuidsOf, Tables

LEMMA OwnerUuids ==
  ASSUME Inv, NEW t \in OwnerTables, NEW x \in Column(memory[t], UuidColumn[t])
  PROVE  x \in Text /\ x # <<>>
  BY UuidTexts, ColumnsInside, OwnerIsTable DEF Inv, MemoryInv, uuidsOf

LEMMA NewUuid ==
  ASSUME Inv, drawn + 1 <= Len(Uuids)
  PROVE  /\ generateUuid \in Text /\ generateUuid # <<>>
         /\ generateUuid \in Known(drawn + 1) \ Known(drawn)
  BY FreshUuid, ConstantTexts DEF generateUuid, Inv, Types

LEMMA AddRoom ==
  ASSUME NEW t, NEW row, add(t, row, 1)
  PROVE  drawn + 1 <= Len(Uuids)
  BY DEF add, change

LEMMA LoginKeeps == Inv /\ LoginNewUser => Inv'
<1>. SUFFICES ASSUME Inv, NEW name \in Texts, add("users", <<generateUuid, name, <<"1">> >>, 1)
     PROVE  Inv'
  BY DEF LoginNewUser
<1>. DEFINE one == <<"1">>
            row == <<generateUuid, name, one>>
<1>1. generateUuid \in Text /\ generateUuid # <<>>
  BY NewUuid, AddRoom
<1>2. name \in Text /\ one \in Text
  BY ConstantTexts, SpecialCharacters, TextFacts
<1>3. add("users", row, 1)
  OBVIOUS
<1>. HIDE DEF one
<1>4. row \in Row /\ Len(row) = 3 /\ row[1] = generateUuid
  BY <1>1, <1>2, RowOfTexts
<1>. HIDE DEF row
<1>5. Shaped("users", row)
  BY <1>1, <1>4, ShapedRow, FieldCounts, TableFacts DEF Tables, requireSecondField
<1>6. Addable(memory, Known(drawn), Known(drawn + 1), "users", row)
  BY <1>4, <1>5, TableFacts DEF Addable, OwnerTables
<1>7. RowResolves(memory, "users", row)
  BY DEF RowResolves
<1>. QED
  BY <1>3, <1>6, <1>7, AddKeeps DEF Tables

LEMMA CreateChannelKeeps == Inv /\ CreateChannel => Inv'
<1>. SUFFICES ASSUME Inv, NEW team \in teamUuids, NEW text \in Texts,
                     add("channels", <<team, generateUuid, text, text>>, 1)
     PROVE  Inv'
  BY DEF CreateChannel
<1>. DEFINE row == <<team, generateUuid, text, text>>
<1>1. /\ generateUuid \in Text /\ generateUuid # <<>>
      /\ generateUuid \in Known(drawn + 1) \ Known(drawn)
  BY NewUuid, AddRoom
<1>2. text \in Text
  BY ConstantTexts
<1>3. team \in uuidsOf(memory, "teams") /\ team \in Text /\ team # <<>>
  BY OwnerUuids, TableFacts DEF teamUuids, uuidsOf, OwnerTables
<1>4. add("channels", row, 1)
  OBVIOUS
<1>5. row \in Row /\ Len(row) = 4 /\ row[1] = team /\ row[2] = generateUuid
  BY <1>1, <1>2, <1>3, RowOfTexts
<1>. HIDE DEF row
<1>6. Shaped("channels", row)
  BY <1>1, <1>3, <1>5, ShapedRow, FieldCounts, TableFacts DEF Tables, requireSecondField
<1>7. Addable(memory, Known(drawn), Known(drawn + 1), "channels", row)
  BY <1>1, <1>3, <1>5, <1>6, TableFacts DEF Addable, OwnerTables
<1>8. RowResolves(memory, "channels", row)
  BY DEF RowResolves
<1>. QED
  BY <1>4, <1>7, <1>8, AddKeeps DEF Tables

LEMMA CreateThreadKeeps == Inv /\ CreateThread => Inv'
<1>. SUFFICES ASSUME Inv, NEW channel \in Column(memory["channels"], 2),
                     NEW u \in accounts, NEW text \in Texts,
                     add("threads", <<channel, generateUuid, u, Time, text, text>>, 1)
     PROVE  Inv'
  BY DEF CreateThread
<1>. DEFINE row == <<channel, generateUuid, u, Time, text, text>>
<1>1. /\ generateUuid \in Text /\ generateUuid # <<>>
      /\ generateUuid \in Known(drawn + 1) \ Known(drawn)
  BY NewUuid, AddRoom
<1>2. text \in Text /\ Time \in Text /\ parseTimeValue(Time) /\ u \in Text
  BY ConstantTexts, UserUuids
<1>3. channel \in uuidsOf(memory, "channels") /\ channel \in Text /\ channel # <<>>
  BY OwnerUuids, TableFacts DEF uuidsOf, OwnerTables
<1>4. add("threads", row, 1)
  OBVIOUS
<1>5. /\ row \in Row /\ Len(row) = 6 /\ row[1] = channel /\ row[2] = generateUuid
      /\ row[3] = u /\ row[4] = Time
  BY <1>1, <1>2, <1>3, RowOfTexts
<1>. HIDE DEF row
<1>6. Shaped("threads", row)
  BY <1>1, <1>2, <1>3, <1>5, ShapedRow, FieldCounts, TableFacts
     DEF Tables, requireSecondField
<1>7. Addable(memory, Known(drawn), Known(drawn + 1), "threads", row)
  BY <1>1, <1>3, <1>5, <1>6, TableFacts DEF Addable, OwnerTables
<1>8. RowResolves(memory, "threads", row)
  BY <1>5 DEF RowResolves, accounts
<1>. QED
  BY <1>4, <1>7, <1>8, AddKeeps DEF Tables

LEMMA CreateReplyKeeps == Inv /\ CreateReply => Inv'
<1>. SUFFICES ASSUME Inv, NEW thread \in Column(memory["threads"], 2),
                     NEW u \in accounts, NEW text \in Texts,
                     add("messages", <<thread, generateUuid, u, Time, text>>, 1)
     PROVE  Inv'
  BY DEF CreateReply
<1>. DEFINE row == <<thread, generateUuid, u, Time, text>>
<1>1. generateUuid \in Text /\ generateUuid # <<>>
  BY NewUuid, AddRoom
<1>2. text \in Text /\ Time \in Text /\ parseTimeValue(Time) /\ u \in Text
  BY ConstantTexts, UserUuids
<1>3. thread \in uuidsOf(memory, "threads") /\ thread \in Text /\ thread # <<>>
  BY OwnerUuids, TableFacts DEF uuidsOf, OwnerTables
<1>4. add("messages", row, 1)
  OBVIOUS
<1>5. /\ row \in Row /\ Len(row) = 5 /\ row[1] = thread /\ row[2] = generateUuid
      /\ row[3] = u /\ row[4] = Time
  BY <1>1, <1>2, <1>3, RowOfTexts
<1>. HIDE DEF row
<1>6. Shaped("messages", row)
  BY <1>1, <1>2, <1>3, <1>5, ShapedRow, FieldCounts, TableFacts
     DEF Tables, requireSecondField
<1>7. Addable(memory, Known(drawn), Known(drawn + 1), "messages", row)
  BY <1>3, <1>5, <1>6, TableFacts DEF Addable, OwnerTables
<1>8. RowResolves(memory, "messages", row)
  BY <1>5 DEF RowResolves, accounts
<1>. QED
  BY <1>4, <1>7, <1>8, AddKeeps DEF Tables

LEMMA SubscribeKeeps == Inv /\ Subscribe => Inv'
<1>. SUFFICES ASSUME Inv, NEW team \in teamUuids, NEW u \in accounts,
                     add("team_subscriptions", <<team, u>>, 0)
     PROVE  Inv'
  BY DEF Subscribe
<1>. DEFINE row == <<team, u>>
<1>1. u \in Text /\ u # <<>>
  BY UserUuids
<1>2. team \in uuidsOf(memory, "teams") /\ team \in Text /\ team # <<>>
  BY OwnerUuids, TableFacts DEF teamUuids, uuidsOf, OwnerTables
<1>3. add("team_subscriptions", row, 0)
  OBVIOUS
<1>4. row \in Row /\ Len(row) = 2 /\ row[1] = team /\ row[2] = u
  BY <1>1, <1>2, RowOfTexts
<1>. HIDE DEF row
<1>5. Shaped("team_subscriptions", row)
  BY <1>1, <1>2, <1>4, ShapedRow, FieldCounts, TableFacts DEF Tables, requireSecondField
<1>6. Addable(memory, Known(drawn), Known(drawn + 0), "team_subscriptions", row)
  BY <1>2, <1>4, <1>5, TableFacts DEF Addable, OwnerTables
<1>7. RowResolves(memory, "team_subscriptions", row)
  BY <1>4 DEF RowResolves, accounts
<1>. QED
  BY <1>3, <1>6, <1>7, AddKeeps DEF Tables

LEMMA SendKeeps == Inv /\ Send => Inv'
<1>. SUFFICES ASSUME Inv, NEW author \in accounts, NEW receiver \in accounts,
                     NEW text \in Texts,
                     add("privateMessages", <<generateUuid, author, Time, text, receiver>>, 1)
     PROVE  Inv'
  BY DEF Send
<1>. DEFINE row == <<generateUuid, author, Time, text, receiver>>
<1>1. generateUuid \in Text /\ generateUuid # <<>>
  BY NewUuid, AddRoom
<1>2. /\ text \in Text /\ Time \in Text /\ parseTimeValue(Time)
      /\ author \in Text /\ author # <<>> /\ receiver \in Text
  BY ConstantTexts, UserUuids
<1>3. add("privateMessages", row, 1)
  OBVIOUS
<1>4. /\ row \in Row /\ Len(row) = 5 /\ row[1] = generateUuid /\ row[2] = author
      /\ row[3] = Time /\ row[5] = receiver
  BY <1>1, <1>2, RowOfTexts
<1>. HIDE DEF row
<1>5. Shaped("privateMessages", row)
  BY <1>1, <1>2, <1>4, ShapedRow, FieldCounts, TableFacts DEF Tables, requireSecondField
<1>6. Addable(memory, Known(drawn), Known(drawn + 1), "privateMessages", row)
  BY <1>4, <1>5, TableFacts DEF Addable, OwnerTables
<1>7. RowResolves(memory, "privateMessages", row)
  BY <1>4 DEF RowResolves, accounts
<1>. QED
  BY <1>3, <1>6, <1>7, AddKeeps DEF Tables

LEMMA CreateTeamKeeps == Inv /\ CreateTeam => Inv'
<1>. SUFFICES ASSUME Inv, CreateTeam PROVE Inv'
  OBVIOUS
<1>1. PICK u \in accounts, text \in Texts :
        memory' = [memory EXCEPT
                     !["teams"] = Append(@, <<generateUuid, text, text>>),
                     !["team_subscriptions"] = Append(@, <<generateUuid, u>>)]
  BY DEF CreateTeam
<1>. DEFINE team == <<generateUuid, text, text>>
            row == <<generateUuid, u>>
            m == Added(memory, "teams", team)
            K == Known(drawn)
            L == Known(drawn + 1)
<1>2. drawn \in Nat /\ drawn + 1 <= Len(Uuids)
  BY ConstantTexts DEF CreateTeam, Inv, Types
<1>3. /\ generateUuid \in Text /\ generateUuid # <<>> /\ generateUuid \in L \ K
      /\ K \subseteq L
  BY <1>2, NewUuid, FreshUuid
<1>4. text \in Text /\ u \in Text /\ u # <<>>
  BY ConstantTexts, UserUuids
<1>5. Sound(memory, K) /\ Owned(memory) /\ memory \in State
  BY DEF Inv, MemoryInv, Sound
<1>6. team \in Row /\ Len(team) = 3 /\ team[1] = generateUuid
  BY <1>3, <1>4, RowOfTexts
<1>7. row \in Row /\ Len(row) = 2 /\ row[1] = generateUuid /\ row[2] = u
  BY <1>3, <1>4, RowOfTexts
<1>8. memory' = Added(m, "team_subscriptions", row)
  BY <1>1, <1>5 DEF Added, Replaced, State, Tables
<1>. HIDE DEF team, row, K, L
<1>9. Shaped("teams", team)
  BY <1>3, <1>6, ShapedRow, FieldCounts, TableFacts DEF Tables, requireSecondField
<1>10. Addable(memory, K, L, "teams", team)
  BY <1>3, <1>6, <1>9, TableFacts DEF Addable, OwnerTables
<1>11. RowResolves(memory, "teams", team)
  BY DEF RowResolves
<1>12. Changes(memory, m, K, L)
  BY <1>3, <1>5, <1>10, <1>11, AddedChanges DEF Tables
<1>13. /\ generateUuid \in uuidsOf(m, "teams")
       /\ Column(m["users"], 1) = Column(memory["users"], 1)
  <2>1. /\ \A n : Column(m["teams"], n) = Column(memory["teams"], n) \union {team[n]}
        /\ \A s \in Tables : \A n : s # "teams" => Column(m[s], n) = Column(memory[s], n)
    <3>1. "teams" \in Tables
      BY DEF Tables
    <3>. QED
      BY <1>5, <1>6, <3>1, AddedColumn, OtherColumns
  <2>2. Column(m["teams"], 1) = Column(memory["teams"], 1) \union {generateUuid}
    BY <1>6, <2>1
  <2>3. Column(m["users"], 1) = Column(memory["users"], 1)
    BY <2>1 DEF Tables
  <2>. QED
    BY <2>2, <2>3, TableFacts DEF uuidsOf
<1>. HIDE DEF m
<1>14. Sound(m, L) /\ Owned(m)
  BY <1>12 DEF Changes
<1>15. Shaped("team_subscriptions", row)
  BY <1>3, <1>4, <1>7, ShapedRow, FieldCounts, TableFacts DEF Tables, requireSecondField
<1>16. Addable(m, L, L, "team_subscriptions", row)
  BY <1>7, <1>13, <1>15, TableFacts DEF Addable, OwnerTables
<1>17. RowResolves(m, "team_subscriptions", row)
  BY <1>7, <1>13 DEF RowResolves, accounts
<1>18. Changes(m, memory', L, L)
  BY <1>8, <1>14, <1>16, <1>17, AddedChanges DEF Tables
<1>19. Changes(memory, memory', K, L)
  <2>1. Kept(memory, memory')
    BY <1>12, <1>18 DEF Changes, Kept
  <2>2. ASSUME NEW s \in OwnerTables
        PROVE  uuidsOf(memory', s) \ uuidsOf(memory, s) \subseteq L \ K
    <3>1. /\ uuidsOf(memory', s) \ uuidsOf(m, s) \subseteq L \ L
          /\ uuidsOf(m, s) \ uuidsOf(memory, s) \subseteq L \ K
      BY <1>12, <1>18 DEF Changes
    <3>. QED
      BY <3>1
  <2>3. \A bad : NamesResolve(memory, bad) => NamesResolve(memory', bad)
    BY <1>12, <1>18 DEF Changes
  <2>. QED
    BY <1>18, <2>1, <2>2, <2>3 DEF Changes
<1>20. /\ phase \in {"loaded", "up"} /\ phase' = "up" /\ drawn' = drawn + 1
       /\ UNCHANGED <<files, written, saveSuccess, kept, failed, tornNow>>
  BY DEF CreateTeam, Running, history
<1>21. drawn' \in 0 .. Len(Uuids)
  BY <1>2, <1>20, ConstantTexts
<1>. QED
  BY <1>3, <1>19, <1>20, <1>21, ChangeKeeps DEF K, L

LEMMA RowsAtAmong ==
  ASSUME NEW rows \in Rows, NEW P
  PROVE  ToSet(rowsAt(rows, P)) \subseteq ToSet(rows)
<1>1. ToSet(rowsAt(rows, P)) = {rows[i] : i \in DOMAIN rows \intersect P}
  BY RowsAtRows, Zenon
<1>. HIDE DEF rowsAt
<1>. QED
  BY <1>1 DEF ToSet

LEMMA UnsubscribeKeeps == Inv /\ Unsubscribe => Inv'
<1>. SUFFICES ASSUME Inv, Unsubscribe PROVE Inv'
  OBVIOUS
<1>. DEFINE t == "team_subscriptions"
            K == Known(drawn)
<1>1. PICK subscription \in ToSet(memory[t]) :
        change(t, rowsAt(memory[t], {i \in DOMAIN memory[t] : memory[t][i] # subscription}), 0)
  BY DEF Unsubscribe
<1>. DEFINE rows == rowsAt(memory[t], {i \in DOMAIN memory[t] : memory[t][i] # subscription})
            o == Replaced(memory, t, rows)
<1>2. Sound(memory, K) /\ Owned(memory) /\ memory \in State /\ memory[t] \in Rows
  BY DEF Inv, MemoryInv, Sound, State, Tables
<1>3. rows \in Rows /\ ToSet(rows) \subseteq ToSet(memory[t])
  <2>1. rows \in Rows
    BY <1>2, RowsAtTyped
  <2>2. ToSet(rows) \subseteq ToSet(memory[t])
    BY <1>2, RowsAtAmong
  <2>. QED
    BY <2>1, <2>2
<1>4. /\ phase \in {"loaded", "up"} /\ phase' = "up" /\ drawn' = drawn + 0
      /\ UNCHANGED <<files, written, saveSuccess, kept, failed, tornNow>>
      /\ memory' = o
  BY <1>1 DEF change, Running, history, Replaced
<1>5. drawn' = drawn /\ drawn' \in 0 .. Len(Uuids)
  BY <1>4, ConstantTexts DEF Inv, Types
<1>. HIDE DEF rows, K
<1>6. t \in Tables /\ t \notin OwnerTables
  BY DEF Tables, OwnerTables
<1>7. SoundTable(t, rows, K)
  BY <1>2, <1>3, <1>6, SoundSome DEF Sound
<1>8. Sound(o, K)
  BY <1>2, <1>6, <1>7, SoundReplaced
<1>9. o[t] = rows /\ \A s \in Tables : s # t => o[s] = memory[s]
  BY <1>2, <1>3, <1>6, ReplacedTables
<1>. HIDE DEF o
<1>10. \A n : Column(o[t], n) \subseteq Column(memory[t], n)
  BY <1>3, <1>9, ColumnOfRows
<1>11. \A s \in OwnerTables : uuidsOf(o, s) = uuidsOf(memory, s)
  BY <1>6, <1>9, OwnerIsTable DEF uuidsOf
<1>12. Owned(o)
  <2>1. ASSUME NEW s \in DOMAIN Owner
        PROVE  Column(o[s], 1) \subseteq uuidsOf(o, Owner[s])
    <3>1. Column(memory[s], 1) \subseteq uuidsOf(o, Owner[s])
      BY <1>2, <1>11, OwnerIsTable DEF Owned
    <3>2. Column(o[s], 1) \subseteq Column(memory[s], 1)
      <4>1. CASE s = t
        BY <1>10, <4>1
      <4>2. CASE s # t
        BY <1>9, <4>2, OwnerIsTable
      <4>. QED
        BY <4>1, <4>2
    <3>. QED
      BY <3>1, <3>2
  <2>. QED
    BY <2>1 DEF Owned
<1>13. Kept(memory, o)
  BY <1>9 DEF Kept
<1>14. ASSUME NEW bad, NamesResolve(memory, bad)
       PROVE  NamesResolve(o, bad)
  <2>1. /\ o["users"] = memory["users"] /\ o["threads"] = memory["threads"]
        /\ o["messages"] = memory["messages"]
        /\ o["privateMessages"] = memory["privateMessages"]
    BY <1>9 DEF Tables
  <2>. QED
    BY <1>10, <1>14, <2>1 DEF NamesResolve, UsersNamed
<1>15. Changes(memory, memory', K, K)
  BY <1>4, <1>8, <1>11, <1>12, <1>13, <1>14 DEF Changes
<1>. QED
  BY <1>4, <1>5, <1>15, ChangeKeeps DEF K

-----------------------------------------------------------------------------
(* The save                                                                 *)

LEMMA FilesInTurn ==
  /\ Len(outputFiles) = 7 /\ outputFiles[1] = "users"
  /\ \A i \in 1 .. 7 : outputFiles[i] \in Tables
  /\ \A t \in Tables : \E i \in 1 .. 7 : outputFiles[i] = t
<1>1. /\ Len(outputFiles) = 7
      /\ outputFiles[1] = "users" /\ outputFiles[2] = "teams"
      /\ outputFiles[3] = "team_subscriptions" /\ outputFiles[4] = "channels"
      /\ outputFiles[5] = "threads" /\ outputFiles[6] = "messages"
      /\ outputFiles[7] = "privateMessages"
  BY DEF outputFiles
<1>2. \A i \in 1 .. 7 : i \in {1, 2, 3, 4, 5, 6, 7}
  OBVIOUS
<1>3. \A i \in {1, 2, 3, 4, 5, 6, 7} : i \in 1 .. 7
  OBVIOUS
<1>4. \A i \in 1 .. 7 : outputFiles[i] \in Tables
  BY <1>1, <1>2 DEF Tables
<1>5. \A t \in Tables : \E i \in {1, 2, 3, 4, 5, 6, 7} : outputFiles[i] = t
  BY <1>1 DEF Tables
<1>. QED
  BY <1>1, <1>3, <1>4, <1>5

LEMMA SerializedText ==
  ASSUME NEW m, NEW t \in Tables
  PROVE  serializeData(m)[t] = textOfRows(inOrder(m)[t])
  BY DEF serializeData, textOfRows

\* What is to be written of a table.
LEMMA ToWrite ==
  ASSUME NEW m, NEW K, Sound(m, K), Owned(m), NEW t \in Tables
  PROVE  /\ SoundTable(t, inOrder(m)[t], K) /\ inOrder(m)[t] \in Rows
         /\ \A row \in ToSet(inOrder(m)[t]) : wellFormed(t, row)
         /\ ToSet(inOrder(m)[t]) = ToSet(m[t])
<1>1. Sound(inOrder(m), K)
  BY SoundInOrder
<1>2. SoundTable(t, inOrder(m)[t], K)
  BY <1>1 DEF Sound
<1>3. inOrder(m)[t] \in Rows /\ \A row \in ToSet(inOrder(m)[t]) : wellFormed(t, row)
  BY <1>2 DEF SoundTable, Shaped
<1>4. ToSet(inOrder(m)[t]) = ToSet(m[t])
  BY SoundParts, InOrderRows
<1>. QED
  BY <1>2, <1>3, <1>4

\* A file written whole is read as the rows it was written from.
LEMMA WrittenWhole ==
  ASSUME NEW m, NEW K, Sound(m, K), Owned(m), NEW t \in Tables
  PROVE  /\ serializeData(m)[t] \in Text
         /\ records(t, serializeData(m)[t]) = inOrder(m)[t]
<1>. DEFINE rows == inOrder(m)[t]
<1>1. rows \in Rows /\ \A row \in ToSet(rows) : wellFormed(t, row)
  BY ToWrite
<1>2. serializeData(m)[t] = textOfRows(rows)
  BY SerializedText
<1>. HIDE DEF rows
<1>3. textOfRows(rows) \in Text /\ records(t, textOfRows(rows)) = rows
  BY <1>1, RecordsBack
<1>. QED
  BY <1>2, <1>3 DEF rows

LEMMA TextCut ==
  ASSUME NEW s \in Text, NEW n \in 0 .. Len(s) - 1
  PROVE  \E q \in Text : SubSeq(s, 1, n) \in Text /\ SubSeq(s, 1, n) \o q = s
<1>. DEFINE q == SubSeq(s, n + 1, Len(s))
            p == SubSeq(s, 1, n)
<1>1. s \in Seq(Characters) /\ Len(s) \in Nat /\ n \in Nat /\ n <= Len(s)
  BY DEF Text
<1>2. q \in Seq(Characters) /\ Len(q) = Len(s) - n
      /\ \A i \in 1 .. Len(s) - n : q[i] = s[n + i]
  <2>1. \A i \in n + 1 .. Len(s) : s[i] \in Characters
    BY <1>1
  <2>2. /\ q \in Seq(Characters)
        /\ Len(q) = IF n + 1 <= Len(s) THEN Len(s) - (n + 1) + 1 ELSE 0
        /\ \A i \in 1 .. Len(s) - (n + 1) + 1 : q[i] = s[n + 1 + i - 1]
    BY <1>1, <2>1, SubSeqProperties
  <2>. HIDE DEF q
  <2>. QED
    BY <1>1, <2>2
<1>3. p \in Seq(Characters) /\ Len(p) = n /\ \A i \in 1 .. n : p[i] = s[i]
  <2>1. \A i \in 1 .. n : s[i] \in Characters
    BY <1>1
  <2>2. /\ p \in Seq(Characters)
        /\ Len(p) = IF 1 <= n THEN n - 1 + 1 ELSE 0
        /\ \A i \in 1 .. n - 1 + 1 : p[i] = s[1 + i - 1]
    BY <1>1, <2>1, SubSeqProperties
  <2>. HIDE DEF p
  <2>. QED
    BY <1>1, <2>2
<1>. HIDE DEF p, q
<1>4. p \o q = s
  <2>0. /\ p \o q \in Seq(Characters) /\ Len(p \o q) = Len(p) + Len(q)
        /\ \A i \in 1 .. Len(p) + Len(q) :
             (p \o q)[i] = IF i <= Len(p) THEN p[i] ELSE q[i - Len(p)]
    BY <1>2, <1>3, ConcatProperties
  <2>1. p \o q \in Seq(Characters) /\ Len(p \o q) = Len(s)
    BY <1>1, <1>2, <1>3, <2>0
  <2>2. ASSUME NEW i \in 1 .. Len(s)
        PROVE  (p \o q)[i] = s[i]
    BY <1>1, <1>2, <1>3, <2>0
  <2>. QED
    BY <1>1, <2>1, <2>2, SeqEqual
<1>5. p \in Text /\ q \in Text
  BY <1>2, <1>3 DEF Text
<1>. QED
  BY <1>4, <1>5 DEF p

\* A file cut short is read as the first rows it was written from, and perhaps a
\* damaged one.
LEMMA WrittenInPart ==
  ASSUME NEW m, NEW K, Sound(m, K), Owned(m), NEW t \in Tables,
         NEW n \in 0 .. Len(serializeData(m)[t]) - 1
  PROVE  /\ SubSeq(serializeData(m)[t], 1, n) \in Text
         /\ CutRows(t, records(t, SubSeq(serializeData(m)[t], 1, n)), inOrder(m)[t])
<1>. DEFINE rows == inOrder(m)[t]
            s == serializeData(m)[t]
            p == SubSeq(s, 1, n)
<1>1. rows \in Rows /\ \A row \in ToSet(rows) : wellFormed(t, row)
  BY ToWrite
<1>2. s = textOfRows(rows) /\ s \in Text
  BY SerializedText, WrittenWhole
<1>3. n \in 0 .. Len(s) - 1
  OBVIOUS
<1>. HIDE DEF rows, s
<1>4. PICK q \in Text : p \in Text /\ p \o q = s
  BY <1>2, <1>3, TextCut
<1>. HIDE DEF p
<1>5. CutRows(t, records(t, p), rows)
  BY <1>1, <1>2, <1>4, RecordsOfCut
<1>. QED
  BY <1>4, <1>5 DEF p, s, rows

\* One file is written, whole or in part.
LEMMA WriteTable ==
  ASSUME Inv, phase = "saving", phase' \in {"saving", "down"},
         UNCHANGED <<memory, kept, drawn>>, tornNow \subseteq tornNow',
         NEW c \in Tables, NEW text \in Text, files' = [files EXCEPT ![c] = text],
         \/ records(c, text) = inOrder(memory)[c]
         \/ c \in tornNow' /\ CutRows(c, records(c, text), inOrder(memory)[c])
  PROVE  /\ files' \in [Tables -> Text] /\ DiskInv'
         /\ onDisk'[c] = records(c, text)
         /\ \A t \in Tables : t # c => onDisk'[t] = onDisk[t]
<1>. DEFINE K == Known(drawn)
<1>1. files \in [Tables -> Text] /\ Sound(memory, K) /\ Owned(memory) /\ Sound(onDisk, K)
  BY DEF Inv, Types, MemoryInv, DiskInv
<1>2. files' \in [Tables -> Text] /\ files'[c] = text
      /\ \A t \in Tables : t # c => files'[t] = files[t]
  BY <1>1
<1>3. /\ onDisk'[c] = records(c, text)
      /\ \A t \in Tables : t # c => onDisk'[t] = onDisk[t]
  BY <1>2 DEF onDisk, recordsOf
<1>4. onDisk' = Replaced(onDisk, c, records(c, text))
  <2>1. /\ onDisk' = [t \in Tables |-> onDisk'[t]]
        /\ onDisk = [t \in Tables |-> onDisk[t]]
    BY DEF onDisk, recordsOf
  <2>. QED
    BY <1>3, <2>1 DEF Replaced
<1>5. SoundTable(c, records(c, text), K)
  <2>1. SoundTable(c, inOrder(memory)[c], K)
    BY <1>1, ToWrite
  <2>. QED
    BY <2>1, SoundCut
<1>6. Sound(onDisk', Known(drawn)')
  <2>1. Known(drawn)' = K
    BY DEF Known
  <2>. HIDE DEF K
  <2>2. Sound(Replaced(onDisk, c, records(c, text)), K)
    BY <1>1, <1>5, SoundReplaced
  <2>. QED
    BY <1>4, <2>1, <2>2
<1>7. \A t \in Tables : Old(t)' \/ Fresh(t)' \/ Torn(t)'
  <2>1. Fresh(c)' \/ Torn(c)'
    BY <1>3 DEF Fresh, Torn
  <2>2. ASSUME NEW t \in Tables, t # c
        PROVE  Old(t)' \/ Fresh(t)' \/ Torn(t)'
    <3>1. Old(t) \/ Fresh(t) \/ Torn(t)
      BY DEF Inv, DiskInv
    <3>2. onDisk'[t] = onDisk[t]
      BY <1>3, <2>2
    <3>. QED
      BY <3>1, <3>2 DEF Old, Fresh, Torn
  <2>. QED
    BY <2>1, <2>2
<1>8. DiskInv'
  BY <1>6, <1>7 DEF DiskInv
<1>. QED
  BY <1>2, <1>3, <1>8

\* The memory and its history stay as they are in a save.
LEMMA SaveFrame ==
  ASSUME Inv, UNCHANGED <<memory, kept, drawn>>, failed \subseteq failed'
  PROVE  MemoryInv' /\ KeptInv' /\ NamesInv'
<1>1. MemoryInv' /\ KeptInv'
  BY DEF Inv, MemoryInv, KeptInv, Known
<1>2. NamesInv'
  BY DEF Inv, NamesInv, NamesResolve
<1>. QED
  BY <1>1, <1>2

LEMMA OnDiskFrame ==
  ASSUME UNCHANGED <<files, memory, kept, tornNow>>, NEW t
  PROVE  onDisk' = onDisk /\ (Old(t)' <=> Old(t)) /\ (Fresh(t)' <=> Fresh(t))
         /\ (Torn(t)' <=> Torn(t))
<1>1. onDisk' = onDisk
  BY DEF onDisk
<1>. QED
  BY <1>1 DEF Old, Fresh, Torn

LEMMA BeginSaveKeeps == Inv /\ BeginSave => Inv'
<1>. SUFFICES ASSUME Inv, BeginSave PROVE Inv'
  OBVIOUS
<1>1. /\ phase \in {"loaded", "up"} /\ phase' = "saving"
      /\ serialized' = serializeData(memory)
      /\ written' = 0 /\ saveSuccess' = TRUE /\ tornNow' = {}
      /\ UNCHANGED <<memory, files, kept, failed, drawn>>
  BY DEF BeginSave, Running, history, bounds
<1>2. \A t \in Tables : Old(t)
  BY <1>1 DEF Inv, DiskInv
<1>3. onDisk' = onDisk /\ \A t \in Tables : Old(t)'
  BY <1>1, <1>2 DEF onDisk, Old
<1>4. Types'
  BY <1>1 DEF Inv, Types
<1>5. MemoryInv' /\ KeptInv' /\ NamesInv'
  BY <1>1, SaveFrame
<1>6. DiskInv'
  BY <1>1, <1>3 DEF Inv, DiskInv, Known
<1>7. SaveInv'
  BY <1>1, <1>3 DEF SaveInv
<1>. QED
  BY <1>4, <1>5, <1>6, <1>7 DEF Inv

LEMMA NoSaveKeeps == Inv /\ NoSave => Inv'
<1>. SUFFICES ASSUME Inv, NoSave PROVE Inv'
  OBVIOUS
<1>1. /\ phase \in {"loaded", "up"} /\ phase' = "down"
      /\ saveSuccess' = FALSE /\ tornNow' = {}
      /\ UNCHANGED <<memory, files, kept, failed, written, drawn>>
  BY DEF NoSave, Running, history, bounds
<1>2. \A t \in Tables : Old(t)
  BY <1>1 DEF Inv, DiskInv
<1>3. onDisk' = onDisk /\ \A t \in Tables : Old(t)'
  BY <1>1, <1>2 DEF onDisk, Old
<1>4. Types'
  BY <1>1 DEF Inv, Types
<1>5. MemoryInv' /\ KeptInv' /\ NamesInv'
  BY <1>1, SaveFrame
<1>6. DiskInv'
  BY <1>1, <1>3 DEF Inv, DiskInv, Known
<1>7. SaveInv'
  BY <1>1, <1>3 DEF SaveInv
<1>. QED
  BY <1>4, <1>5, <1>6, <1>7 DEF Inv

LEMMA EndSaveKeeps == Inv /\ EndSave => Inv'
<1>. SUFFICES ASSUME Inv, EndSave PROVE Inv'
  OBVIOUS
<1>1. /\ phase = "saving" /\ phase' = "down" /\ written = 7
      /\ UNCHANGED <<memory, files, kept, failed, written, saveSuccess, tornNow, drawn>>
  BY FilesInTurn DEF EndSave, history, bounds
<1>2. /\ onDisk' = onDisk
      /\ \A t : (Old(t)' <=> Old(t)) /\ (Fresh(t)' <=> Fresh(t)) /\ (Torn(t)' <=> Torn(t))
  BY <1>1, OnDiskFrame
<1>3. Types'
  BY <1>1 DEF Inv, Types
<1>4. MemoryInv' /\ KeptInv' /\ NamesInv'
  BY <1>1, SaveFrame
<1>5. DiskInv'
  BY <1>1, <1>2 DEF Inv, DiskInv, Known
<1>6. SaveInv'
  BY <1>1, <1>2 DEF Inv, SaveInv
<1>. QED
  BY <1>3, <1>4, <1>5, <1>6 DEF Inv

LEMMA CrashBetweenFilesKeeps == Inv /\ CrashBetweenFiles => Inv'
<1>. SUFFICES ASSUME Inv, CrashBetweenFiles PROVE Inv'
  OBVIOUS
<1>1. /\ phase = "saving" /\ phase' = "down" /\ saveSuccess' = FALSE
      /\ UNCHANGED <<memory, files, kept, failed, written, tornNow, drawn>>
  BY DEF CrashBetweenFiles, Writing, openedInTurn, history, bounds
<1>2. /\ onDisk' = onDisk
      /\ \A t : (Old(t)' <=> Old(t)) /\ (Fresh(t)' <=> Fresh(t)) /\ (Torn(t)' <=> Torn(t))
  BY <1>1, OnDiskFrame
<1>3. Types'
  BY <1>1 DEF Inv, Types
<1>4. MemoryInv' /\ KeptInv' /\ NamesInv'
  BY <1>1, SaveFrame
<1>5. DiskInv'
  BY <1>1, <1>2 DEF Inv, DiskInv, Known
<1>6. written \in Nat /\ (written = 0 \/ written > 0)
  BY DEF Inv, Types
<1>7. SaveInv'
  BY <1>1, <1>2, <1>6 DEF Inv, SaveInv
<1>. QED
  BY <1>3, <1>4, <1>5, <1>7 DEF Inv

\* The file whose turn it is.
LEMMA CurrentFile ==
  ASSUME Inv, Writing
  PROVE  /\ written \in 0 .. 6 /\ written + 1 \in 1 .. 7
         /\ current = outputFiles[written + 1] /\ current \in Tables
         /\ written = 0 => current = "users"
         /\ phase = "saving" /\ serialized = serializeData(memory)
<1>1. written \in 0 .. 6 /\ written + 1 \in 1 .. 7
  BY FilesInTurn DEF Writing, Inv, Types
<1>2. current = outputFiles[written + 1]
  BY DEF current
<1>3. written = 0 => current = "users"
  BY <1>2, FilesInTurn
<1>4. phase = "saving" /\ serialized = serializeData(memory)
  BY DEF Writing, Inv, SaveInv
<1>. QED
  BY <1>1, <1>2, <1>3, <1>4, FilesInTurn

LEMMA FileNotOpenedKeeps == Inv /\ FileNotOpened => Inv'
<1>. SUFFICES ASSUME Inv, FileNotOpened PROVE Inv'
  OBVIOUS
<1>1. /\ written \in 0 .. 6 /\ current \in Tables
      /\ written = 0 => current = "users"
      /\ phase = "saving" /\ serialized = serializeData(memory)
  BY CurrentFile DEF FileNotOpened
<1>2. /\ phase' = "saving" /\ saveSuccess' = FALSE /\ written' = written + 1
      /\ failed' = failed \union {current} /\ serialized' = serialized
      /\ UNCHANGED <<memory, files, kept, tornNow, drawn>>
  BY <1>1 DEF FileNotOpened, history
<1>3. /\ onDisk' = onDisk
      /\ \A t : (Old(t)' <=> Old(t)) /\ (Fresh(t)' <=> Fresh(t)) /\ (Torn(t)' <=> Torn(t))
  BY <1>2, OnDiskFrame
<1>4. Types'
  <2>1. written' \in 0 .. 7
    BY <1>1, <1>2
  <2>2. tornNow' \subseteq failed' /\ saveSuccess' \in BOOLEAN
    BY <1>2 DEF Inv, Types
  <2>. QED
    BY <1>2, <2>1, <2>2 DEF Inv, Types
<1>5. MemoryInv' /\ KeptInv' /\ NamesInv'
  BY <1>2, SaveFrame
<1>6. DiskInv'
  BY <1>1, <1>2, <1>3 DEF Inv, DiskInv, Known
<1>7. SaveInv'
  <2>1. "users" \notin failed' => Fresh("users")'
    <3>1. "users" \notin failed' => written > 0 /\ "users" \notin failed
      BY <1>1, <1>2
    <3>. QED
      BY <1>1, <1>3, <3>1 DEF Inv, SaveInv
  <2>. QED
    BY <1>1, <1>2, <2>1 DEF SaveInv
<1>. QED
  BY <1>4, <1>5, <1>6, <1>7 DEF Inv

LEMMA WriteFileKeeps == Inv /\ WriteFile => Inv'
<1>. SUFFICES ASSUME Inv, WriteFile PROVE Inv'
  OBVIOUS
<1>1. PICK c \in Tables : c = current
  BY CurrentFile DEF WriteFile
<1>. DEFINE text == serializeData(memory)[c]
<1>2. /\ written \in 0 .. 6 /\ written + 1 \in 1 .. 7
      /\ c = outputFiles[written + 1]
      /\ written = 0 => c = "users"
      /\ phase = "saving" /\ serialized = serializeData(memory)
  BY <1>1, CurrentFile DEF WriteFile
<1>3. /\ phase' = "saving" /\ written' = written + 1
      /\ files' = [files EXCEPT ![c] = text]
      /\ UNCHANGED <<memory, serialized, saveSuccess, kept, failed, tornNow, drawn>>
  BY <1>1, <1>2 DEF WriteFile, history, bounds
<1>4. text \in Text /\ records(c, text) = inOrder(memory)[c]
  BY WrittenWhole DEF Inv, MemoryInv
<1>. HIDE DEF text
<1>5. /\ files' \in [Tables -> Text] /\ DiskInv'
      /\ onDisk'[c] = records(c, text)
      /\ \A t \in Tables : t # c => onDisk'[t] = onDisk[t]
  BY <1>2, <1>3, <1>4, WriteTable
<1>6. Fresh(c)' /\ \A t \in Tables : Fresh(t) => Fresh(t)'
  <2>1. inOrder(memory)' = inOrder(memory)
    BY <1>3 DEF inOrder
  <2>2. Fresh(c)'
    BY <1>3, <1>4, <1>5 DEF Fresh
  <2>3. ASSUME NEW t \in Tables, Fresh(t), t # c
        PROVE  Fresh(t)'
    BY <1>3, <1>5, <2>3 DEF Fresh
  <2>. QED
    BY <2>2, <2>3
<1>7. Types'
  BY <1>2, <1>3, <1>5 DEF Inv, Types
<1>8. MemoryInv' /\ KeptInv' /\ NamesInv'
  BY <1>3, SaveFrame
<1>9. "users" \in Tables /\ \A i \in 1 .. 7 : outputFiles[i] \in Tables
  BY FilesInTurn DEF Tables
<1>10. SaveInv'
  <2>1. "users" \notin failed' => Fresh("users")'
    <3>1. CASE written = 0
      BY <1>2, <1>6, <3>1
    <3>2. CASE written > 0
      BY <1>2, <1>3, <1>6, <1>9, <3>2 DEF Inv, SaveInv
    <3>. QED
      BY <1>2, <3>1, <3>2
  <2>2. ASSUME saveSuccess', tornNow' = {}, NEW i \in 1 .. written'
        PROVE  Fresh(outputFiles[i])'
    <3>1. CASE i = written + 1
      BY <1>2, <1>6, <3>1 DEF Fresh
    <3>2. CASE i # written + 1
      <4>1. i \in 1 .. written /\ i \in 1 .. 7
        BY <1>2, <1>3, <3>2
      <4>2. Fresh(outputFiles[i])
        BY <1>2, <1>3, <2>2, <4>1 DEF Inv, SaveInv
      <4>. QED
        BY <1>6, <1>9, <4>1, <4>2 DEF Fresh
    <3>. QED
      BY <3>1, <3>2
  <2>3. serialized' = serializeData(memory')
    BY <1>2, <1>3
  <2>. QED
    BY <1>2, <1>3, <2>1, <2>2, <2>3 DEF SaveInv
<1>. QED
  BY <1>5, <1>7, <1>8, <1>10 DEF Inv

\* A file of which a part was written.
LEMMA TearFile ==
  ASSUME Inv, Writing, NEW n \in 0 .. Len(serialized[current]) - 1, tearFile(n),
         phase' \in {"saving", "down"}, UNCHANGED <<memory, kept, drawn>>
  PROVE  /\ files' \in [Tables -> Text] /\ DiskInv'
         /\ failed' = failed \union {current} /\ tornNow' = tornNow \union {current}
         /\ MemoryInv' /\ KeptInv' /\ NamesInv'
         /\ "users" \notin failed' =>
              written > 0 /\ Fresh("users") /\ Fresh("users")'
<1>. DEFINE c == current
            text == SubSeq(serializeData(memory)[c], 1, n)
<1>1. /\ written \in 0 .. 6 /\ c \in Tables
      /\ written = 0 => c = "users"
      /\ phase = "saving" /\ serialized = serializeData(memory)
  BY CurrentFile
<1>2. /\ files' = [files EXCEPT ![c] = text]
      /\ failed' = failed \union {c} /\ tornNow' = tornNow \union {c}
  BY <1>1 DEF tearFile
<1>3. text \in Text /\ CutRows(c, records(c, text), inOrder(memory)[c])
  BY <1>1, WrittenInPart DEF Inv, MemoryInv
<1>4. failed' = failed \union {current} /\ tornNow' = tornNow \union {current}
  BY <1>2
<1>. HIDE DEF c, text
<1>5. /\ files' \in [Tables -> Text] /\ DiskInv'
      /\ \A t \in Tables : t # c => onDisk'[t] = onDisk[t]
  BY <1>1, <1>2, <1>3, WriteTable
<1>6. MemoryInv' /\ KeptInv' /\ NamesInv'
  BY <1>2, SaveFrame
<1>7. ASSUME "users" \notin failed'
      PROVE  written > 0 /\ Fresh("users") /\ Fresh("users")'
  <2>1. c # "users" /\ "users" \notin failed /\ written > 0
    BY <1>1, <1>2, <1>7
  <2>2. Fresh("users")
    BY <1>1, <2>1 DEF Inv, SaveInv
  <2>3. onDisk'["users"] = onDisk["users"]
    BY <1>5, <2>1 DEF Tables
  <2>. QED
    BY <2>1, <2>2, <2>3 DEF Fresh
<1>. QED
  BY <1>4, <1>5, <1>6, <1>7

LEMMA FileCutShortKeeps == Inv /\ FileCutShort => Inv'
<1>. SUFFICES ASSUME Inv, FileCutShort PROVE Inv'
  OBVIOUS
<1>1. PICK n \in 0 .. Len(serialized[current]) - 1 : tearFile(n)
  BY DEF FileCutShort
<1>2. /\ phase' = phase /\ phase = "saving" /\ Writing /\ written' = written + 1
      /\ saveSuccess' \in {FALSE, saveSuccess}
      /\ UNCHANGED <<memory, serialized, kept, drawn>>
  BY DEF FileCutShort, Writing, history
<1>3. /\ written \in 0 .. 6 /\ serialized = serializeData(memory)
  BY <1>2, CurrentFile
<1>4. /\ files' \in [Tables -> Text] /\ DiskInv'
      /\ failed' = failed \union {current} /\ tornNow' = tornNow \union {current}
      /\ MemoryInv' /\ KeptInv' /\ NamesInv'
      /\ "users" \notin failed' => Fresh("users")'
  BY <1>1, <1>2, TearFile
<1>5. Types'
  <2>1. written' \in 0 .. 7
    BY <1>2, <1>3
  <2>2. tornNow' \subseteq failed' /\ saveSuccess' \in BOOLEAN
    BY <1>2, <1>4 DEF Inv, Types
  <2>. QED
    BY <1>2, <1>4, <2>1, <2>2 DEF Inv, Types
<1>6. SaveInv'
  BY <1>2, <1>3, <1>4 DEF SaveInv
<1>. QED
  BY <1>4, <1>5, <1>6 DEF Inv

LEMMA CrashInFileKeeps == Inv /\ CrashInFile => Inv'
<1>. SUFFICES ASSUME Inv, CrashInFile PROVE Inv'
  OBVIOUS
<1>1. PICK n \in 0 .. Len(serialized[current]) - 1 : tearFile(n)
  BY DEF CrashInFile
<1>2. /\ phase' = "down" /\ Writing /\ saveSuccess' = FALSE
      /\ UNCHANGED <<memory, serialized, kept, written, drawn>>
  BY DEF CrashInFile, history
<1>4. /\ files' \in [Tables -> Text] /\ DiskInv'
      /\ failed' = failed \union {current} /\ tornNow' = tornNow \union {current}
      /\ MemoryInv' /\ KeptInv' /\ NamesInv'
      /\ "users" \notin failed' => Fresh("users")'
  BY <1>1, <1>2, TearFile
<1>5. Types'
  BY <1>2, <1>4 DEF Inv, Types
<1>6. SaveInv'
  BY <1>2, <1>4 DEF SaveInv
<1>. QED
  BY <1>4, <1>5, <1>6 DEF Inv

-----------------------------------------------------------------------------
(* The start                                                                *)

withField(row, n, f) == [row EXCEPT ![n] = f]

LEMMA OneFieldChanged ==
  ASSUME NEW row \in Row, NEW n \in 1 .. Len(row), NEW f \in Text
  PROVE  /\ withField(row, n, f) \in Row /\ Len(withField(row, n, f)) = Len(row)
         /\ \A k \in 1 .. Len(row) : k # n => withField(row, n, f)[k] = row[k]
  BY DEF Row, withField

\* Only who is logged in is forgotten.
LEMMA ResetTables ==
  ASSUME NEW m, NEW K, Sound(m, K)
  PROVE  LET o == resetLoggedIn(m)
         IN  /\ o = Replaced(m, "users", o["users"])
             /\ SoundTable("users", o["users"], K)
             /\ Column(o["users"], 1) = Column(m["users"], 1)
             /\ \A t \in Tables : t # "users" => o[t] = m[t]
<1>. DEFINE rows == m["users"]
            zero == <<"0">>
            made(i) == [rows[i] EXCEPT ![3] = zero]
            reset == [i \in DOMAIN rows |-> made(i)]
            o == resetLoggedIn(m)
<1>1. m \in State /\ "users" \in Tables /\ SoundTable("users", rows, K)
  BY DEF Sound, Tables
<1>2. o = Replaced(m, "users", reset)
  BY DEF resetLoggedIn, Replaced
<1>3. rows \in Rows /\ DOMAIN rows = 1 .. Len(rows) /\ Len(rows) \in Nat
  BY <1>1 DEF SoundTable, Rows
<1>4. ASSUME NEW i \in 1 .. Len(rows)
      PROVE  /\ made(i) \in Row /\ Shaped("users", made(i)) /\ made(i)[1] = rows[i][1]
             /\ Agrees("users", made(i), rows[i])
  <2>. DEFINE row == rows[i]
              new == withField(row, 3, zero)
  <2>1. row \in Row /\ row \in ToSet(rows)
    BY <1>3, <1>4 DEF Rows, ToSet
  <2>2. Shaped("users", row)
    BY <1>1, <2>1 DEF SoundTable
  <2>3. zero \in Text
    BY SpecialCharacters, TextFacts
  <2>4. made(i) = new
    BY DEF withField
  <2>. HIDE DEF row, zero
  <2>5. Len(row) = 3 /\ row[1] # <<>>
    BY <2>2, FieldCounts DEF Shaped, wellFormed
  <2>6. new \in Row /\ Len(new) = 3 /\ \A k \in 1 .. 3 : k # 3 => new[k] = row[k]
    <3>1. 3 \in 1 .. Len(row)
      BY <2>5
    <3>. QED
      BY <2>1, <2>3, <2>5, <3>1, OneFieldChanged
  <2>. HIDE DEF new
  <2>7. new[1] = row[1] /\ new[2] = row[2]
    BY <2>6
  <2>8. Shaped("users", new)
    <3>1. /\ "users" \in Tables /\ "users" \notin requireSecondField
          /\ "users" \notin DOMAIN TimeColumn
      BY TableFacts DEF Tables, requireSecondField
    <3>2. new[1] # <<>> /\ Len(new) = FieldCount["users"]
      BY <2>5, <2>6, <2>7, FieldCounts
    <3>. QED
      BY <3>1, <3>2, ShapedRow
  <2>9. Agrees("users", new, row)
    BY <2>6, FieldCounts DEF Agrees
  <2>. QED
    BY <2>4, <2>6, <2>7, <2>8, <2>9 DEF row
<1>. HIDE DEF made
<1>5. reset \in Rows /\ DOMAIN reset = 1 .. Len(rows)
  BY <1>3, <1>4 DEF Rows
<1>6. \A i \in 1 .. Len(rows) : reset[i] = made(i)
  BY <1>3
<1>. HIDE DEF reset, rows
<1>7. \A row \in ToSet(reset) : Shaped("users", row)
  BY <1>4, <1>5, <1>6 DEF ToSet
<1>8. \A row \in ToSet(reset) : \E w \in ToSet(rows) : Agrees("users", row, w)
  BY <1>3, <1>4, <1>5, <1>6 DEF ToSet
<1>9. SoundTable("users", reset, K)
  BY <1>1, <1>5, <1>7, <1>8, SoundLike DEF OwnerTables
<1>10. Column(reset, 1) = Column(rows, 1)
  BY <1>3, <1>4, <1>5, <1>6 DEF Column
<1>11. o["users"] = reset /\ \A t \in Tables : t # "users" => o[t] = m[t]
  BY <1>1, <1>2, <1>5, ReplacedTables
<1>. QED
  BY <1>2, <1>9, <1>10, <1>11 DEF rows

LEMMA ResetSound ==
  ASSUME NEW m, NEW K, Sound(m, K), Owned(m)
  PROVE  Sound(resetLoggedIn(m), K) /\ Owned(resetLoggedIn(m))
<1>. DEFINE o == resetLoggedIn(m)
<1>1. /\ o = Replaced(m, "users", o["users"])
      /\ SoundTable("users", o["users"], K)
      /\ \A t \in Tables : t # "users" => o[t] = m[t]
  BY ResetTables
<1>. HIDE DEF o
<1>2. Sound(o, K)
  <2>. DEFINE rows == o["users"]
  <2>1. "users" \in Tables /\ SoundTable("users", rows, K) /\ o = Replaced(m, "users", rows)
    BY <1>1 DEF Tables
  <2>. HIDE DEF rows
  <2>. QED
    BY <2>1, SoundReplaced
<1>3. \A t \in DOMAIN Owner : t # "users" /\ Owner[t] # "users" /\ t \in Tables /\ Owner[t] \in Tables
  BY TableFacts, OwnerIsTable DEF Tables
<1>4. Owned(o)
  BY <1>1, <1>3 DEF Owned, uuidsOf
<1>. QED
  BY <1>2, <1>4 DEF o

LEMMA LoadedState ==
  ASSUME NEW r, NEW l, NEW K, Sound(r, K), Loads(l, r)
  PROVE  /\ Sound(l, K) /\ Owned(l)
         /\ \A t \in Tables : ToSet(l[t]) = {row \in ToSet(r[t]) : Reached(l, t, row)}
<1>1. l \in State /\ r \in State
  BY DEF Loads, Sound
<1>2. ASSUME NEW t \in Tables
      PROVE  /\ SoundTable(t, l[t], K)
             /\ ToSet(l[t]) = {row \in ToSet(r[t]) : Reached(l, t, row)}
             /\ t \in DOMAIN Owner => Column(l[t], 1) \subseteq uuidsOf(l, Owner[t])
  <2>1. SoundTable(t, r[t], K) /\ r[t] \in Rows
    BY DEF Sound, SoundTable
  <2>2. CASE t \notin DOMAIN Owner
    <3>1. l[t] = r[t]
      BY <2>2 DEF Loads
    <3>. QED
      BY <2>1, <2>2, <3>1 DEF Reached
  <2>3. CASE t \in DOMAIN Owner
    <3>. DEFINE owners == uuidsOf(l, Owner[t])
    <3>1. l[t] = ofKnown(r[t], owners)
      BY <2>3 DEF Loads
    <3>2. \A row : Reached(l, t, row) <=> row[1] \in owners
      BY <2>3 DEF Reached
    <3>. HIDE DEF owners
    <3>3. SoundTable(t, l[t], K)
      BY <2>1, <3>1, SoundKnown
    <3>4. ToSet(l[t]) = {row \in ToSet(r[t]) : row[1] \in owners}
      BY <2>1, <3>1, KnownRows
    <3>5. Column(l[t], 1) \subseteq owners
      BY <3>4, ColumnOfRows
    <3>. QED
      BY <3>2, <3>3, <3>4, <3>5 DEF owners
  <2>. QED
    BY <2>2, <2>3
<1>. QED
  BY <1>1, <1>2, OwnerIsTable DEF Sound, Owned

LEMMA LoadsDisk ==
  ASSUME Inv
  PROVE  Loads(load(files), onDisk)
<1>1. Sound(onDisk, Known(drawn))
  BY DEF Inv, DiskInv
<1>2. onDisk \in State /\ AllShaped(onDisk) /\ OwnersDistinct(onDisk)
  BY <1>1, SoundParts
<1>. QED
  BY <1>2, LoadLoads DEF onDisk

-----------------------------------------------------------------------------
(* What is loaded                                                           *)

LEMMA Generations ==
  ASSUME Inv, phase = "down"
  PROVE  /\ Sound(memory, Known(drawn)) /\ Owned(memory) /\ memory \in State
         /\ Sound(onDisk, Known(drawn))
         /\ Owned(kept) /\ Kept(kept, memory) /\ kept \in State
         /\ \A t \in Tables : Old(t) \/ Fresh(t) \/ Torn(t)
  BY DEF Inv, MemoryInv, KeptInv, DiskInv, Types, Sound

LEMMA Loaded ==
  ASSUME Inv
  PROVE  /\ Sound(load(files), Known(drawn)) /\ Owned(load(files))
         /\ Loads(load(files), onDisk)
         /\ \A t \in Tables : ToSet(load(files)[t])
                                = {row \in ToSet(onDisk[t]) : Reached(load(files), t, row)}
<1>1. Sound(onDisk, Known(drawn)) /\ Loads(load(files), onDisk)
  BY LoadsDisk DEF Inv, DiskInv
<1>. QED
  BY <1>1, LoadedState

LEMMA RowLoaded ==
  ASSUME Inv, NEW t \in Tables, NEW row \in ToSet(load(files)[t])
  PROVE  row \in ToSet(onDisk[t]) /\ Reached(load(files), t, row)
<1>. DEFINE l == load(files)
<1>1. ToSet(l[t]) = {x \in ToSet(onDisk[t]) : Reached(l, t, x)}
  BY Loaded
<1>. HIDE DEF l
<1>2. \A x \in ToSet(l[t]) : x \in ToSet(onDisk[t]) /\ Reached(l, t, x)
  BY <1>1
<1>. QED
  BY <1>2 DEF l

LEMMA FreshRows ==
  ASSUME Inv, phase = "down", NEW t \in Tables, Fresh(t)
  PROVE  ToSet(onDisk[t]) = ToSet(memory[t])
  BY Generations, ToWrite DEF Fresh

\* A row of the disk that a generation's owner has.
Generation(t, row) ==
  \/ row \in ToSet(kept[t]) \/ row \in ToSet(memory[t])
  \/ t \in tornNow /\ \E w \in ToSet(memory[t]) : Agrees(t, row, w)

LEMMA TornRows ==
  ASSUME Inv, phase = "down", NEW t \in Tables, Torn(t), NEW row \in ToSet(onDisk[t])
  PROVE  t \in tornNow /\ \E w \in ToSet(memory[t]) : Agrees(t, row, w)
<1>. DEFINE whole == inOrder(memory)[t]
            rows == onDisk[t]
<1>1. /\ SoundTable(t, whole, Known(drawn)) /\ whole \in Rows
      /\ ToSet(whole) = ToSet(memory[t])
  BY Generations, ToWrite
<1>2. t \in tornNow /\ CutRows(t, rows, whole)
  BY DEF Torn
<1>3. row \in ToSet(rows)
  OBVIOUS
<1>. HIDE DEF whole, rows
<1>4. /\ rows \in Rows /\ Len(rows) <= Len(whole)
      /\ \A i \in 1 .. Len(rows) : Shaped(t, rows[i]) /\ Agrees(t, rows[i], whole[i])
  BY <1>1, <1>2, CutAgrees
<1>5. /\ DOMAIN rows = 1 .. Len(rows) /\ DOMAIN whole = 1 .. Len(whole)
      /\ Len(rows) \in Nat /\ Len(whole) \in Nat
  BY <1>1, <1>4 DEF Rows
<1>6. PICK i \in 1 .. Len(rows) : row = rows[i]
  BY <1>3, <1>5 DEF ToSet
<1>7. i \in 1 .. Len(whole)
  BY <1>4, <1>5
<1>8. whole[i] \in ToSet(whole) /\ Agrees(t, row, whole[i])
  BY <1>4, <1>5, <1>6, <1>7 DEF ToSet
<1>. QED
  BY <1>1, <1>2, <1>8

LEMMA RowOnDisk ==
  ASSUME Inv, phase = "down", NEW t \in Tables, t # "users",
         NEW row \in ToSet(onDisk[t]), Reached(memory, t, row)
  PROVE  Generation(t, row)
<1>1. CASE Old(t)
  <2>1. row \in ToSet(kept[t])
    BY <1>1 DEF Old, OldTable
  <2>. QED
    BY <2>1 DEF Generation
<1>2. CASE Fresh(t)
  BY <1>2, FreshRows DEF Generation
<1>3. CASE Torn(t)
  BY <1>3, TornRows DEF Generation
<1>. QED
  BY <1>1, <1>2, <1>3, Generations

\* Kept rows are rows of memory, subscriptions excepted; so a row that is loaded
\* agrees with one of memory in all fields but the last.
LEMMA GenerationAgrees ==
  ASSUME Inv, phase = "down", NEW t \in Tables, t # "team_subscriptions",
         NEW row, Generation(t, row)
  PROVE  \E w \in ToSet(memory[t]) : Agrees(t, row, w)
<1>1. ToSet(kept[t]) \subseteq ToSet(memory[t])
  BY Generations DEF Kept
<1>. QED
  BY <1>1, AgreesItself DEF Generation

LEMMA OwnersLoaded ==
  ASSUME Inv, phase = "down"
  PROVE  \A t \in OwnerTables : uuidsOf(load(files), t) \subseteq uuidsOf(memory, t)
<1>. DEFINE l == load(files)
<1>1. ASSUME NEW t \in OwnerTables,
             t \in DOMAIN Owner => uuidsOf(l, Owner[t]) \subseteq uuidsOf(memory, Owner[t])
      PROVE  uuidsOf(l, t) \subseteq uuidsOf(memory, t)
  <2>1. t \in Tables /\ t # "users" /\ t # "team_subscriptions"
    BY OwnerIsTable DEF OwnerTables
  <2>2. ASSUME NEW row \in ToSet(l[t])
        PROVE  \E w \in ToSet(memory[t]) : Agrees(t, row, w)
    <3>1. row \in ToSet(onDisk[t]) /\ Reached(l, t, row)
      BY <2>1, <2>2, RowLoaded
    <3>2. Reached(memory, t, row)
      BY <1>1, <3>1 DEF Reached
    <3>3. Generation(t, row)
      BY <2>1, <3>1, <3>2, RowOnDisk
    <3>. QED
      BY <2>1, <3>3, GenerationAgrees
  <2>3. UuidColumn[t] \in 1 .. FieldCount[t] - 1
    BY <2>1, ColumnsInside
  <2>. HIDE DEF l
  <2>4. \A row \in ToSet(l[t]) : \E w \in ToSet(memory[t]) :
          row[UuidColumn[t]] = w[UuidColumn[t]]
    BY <2>2, <2>3 DEF Agrees
  <2>. QED
    BY <2>4, ColumnOfRows DEF uuidsOf
<1>. HIDE DEF l
<1>2. uuidsOf(l, "teams") \subseteq uuidsOf(memory, "teams")
  BY <1>1, TableFacts DEF OwnerTables
<1>3. uuidsOf(l, "channels") \subseteq uuidsOf(memory, "channels")
  BY <1>1, <1>2, TableFacts DEF OwnerTables
<1>4. uuidsOf(l, "threads") \subseteq uuidsOf(memory, "threads")
  BY <1>1, <1>3, TableFacts DEF OwnerTables
<1>. QED
  BY <1>2, <1>3, <1>4 DEF OwnerTables, l

LEMMA ReachedByMemory ==
  ASSUME Inv, phase = "down", NEW t \in Tables, NEW row \in ToSet(load(files)[t])
  PROVE  row \in ToSet(onDisk[t]) /\ Reached(memory, t, row)
<1>1. row \in ToSet(onDisk[t]) /\ Reached(load(files), t, row)
  BY RowLoaded
<1>2. t \in DOMAIN Owner => row[1] \in uuidsOf(load(files), Owner[t])
  BY <1>1 DEF Reached
<1>. QED
  BY <1>1, <1>2, OwnersLoaded, OwnerIsTable DEF Reached

-----------------------------------------------------------------------------
(* Nothing is invented                                                      *)

\* The row after the others is the last one, if it is loaded at all.
LEMMA LoadedLast ==
  ASSUME NEW l, NEW r, Loads(l, r), NEW t \in Tables,
         NEW b \in Rows, NEW d \in Row, r[t] = Append(b, d)
  PROVE  \E x \in Rows : ToSet(x) \subseteq ToSet(b) /\ l[t] \in {x, Append(x, d)}
<1>1. CASE t \notin DOMAIN Owner
  <2>1. l[t] = Append(b, d)
    BY <1>1 DEF Loads
  <2>. QED
    BY <2>1
<1>2. CASE t \in DOMAIN Owner
  <2>. DEFINE owners == uuidsOf(l, Owner[t])
  <2>1. l[t] = ofKnown(Append(b, d), owners)
    BY <1>2 DEF Loads
  <2>. HIDE DEF owners
  <2>2. \E x \in Rows : /\ ToSet(x) \subseteq ToSet(b)
                        /\ ofKnown(Append(b, d), owners) \in {x, Append(x, d)}
    BY LastOfKnown
  <2>. QED
    BY <2>1, <2>2
<1>. QED
  BY <1>1, <1>2

LEMMA TornLoaded ==
  ASSUME Inv, phase = "down", NEW t \in Tables, Torn(t), NEW i \in DOMAIN load(files)[t]
  PROVE  \/ load(files)[t][i] \in ToSet(memory[t])
         \/ /\ i = Len(load(files)[t])
            /\ \E whole \in ToSet(memory[t]) : Damaged(load(files)[t][i], whole)
<1>. DEFINE whole == inOrder(memory)[t]
            rows == onDisk[t]
            l == load(files)
            rs == l[t]
<1>1. whole \in Rows /\ ToSet(whole) = ToSet(memory[t])
  BY Generations, ToWrite
<1>2. CutRows(t, rows, whole)
  BY DEF Torn
<1>3. Loads(l, onDisk) /\ ToSet(rs) \subseteq ToSet(rows)
  <2>1. \A x \in ToSet(rs) : x \in ToSet(rows)
    BY RowLoaded
  <2>. QED
    BY <2>1, Loaded
<1>4. i \in DOMAIN rs
  OBVIOUS
<1>5. rows = onDisk[t]
  OBVIOUS
<1>. HIDE DEF whole, rows, l
<1>6. PICK k \in 0 .. Len(whole) :
        \/ rows = SubSeq(whole, 1, k)
        \/ /\ k < Len(whole)
           /\ \E d \in Row : /\ wellFormed(t, d) /\ Damaged(d, whole[k + 1])
                             /\ rows = Append(SubSeq(whole, 1, k), d)
  BY <1>2, Zenon DEF CutRows
<1>. DEFINE b == SubSeq(whole, 1, k)
<1>7. Len(whole) \in Nat /\ DOMAIN whole = 1 .. Len(whole) /\ k \in Nat /\ k <= Len(whole)
  BY <1>1 DEF Rows
<1>8. b \in Rows /\ ToSet(b) \subseteq ToSet(whole)
  <2>1. \A j \in 1 .. k : whole[j] \in Row /\ whole[j] \in ToSet(whole)
    BY <1>1, <1>7 DEF Rows, ToSet
  <2>2. b \in Rows /\ Len(b) = k /\ \A j \in 1 .. k : b[j] = whole[j]
    BY <1>7, <2>1, SubSeqProperties DEF Rows
  <2>. HIDE DEF b
  <2>3. DOMAIN b = 1 .. k
    BY <2>2 DEF Rows
  <2>. QED
    BY <2>1, <2>2, <2>3 DEF ToSet
<1>. HIDE DEF b
<1>9. ASSUME rows = b
      PROVE  rs[i] \in ToSet(memory[t])
  <2>1. rs[i] \in ToSet(rs)
    BY <1>4 DEF ToSet
  <2>. HIDE DEF rs
  <2>. QED
    BY <1>1, <1>3, <1>8, <1>9, <2>1
<1>10. ASSUME k < Len(whole), NEW d \in Row, Damaged(d, whole[k + 1]), rows = Append(b, d)
       PROVE  \/ rs[i] \in ToSet(memory[t])
              \/ i = Len(rs) /\ \E w \in ToSet(memory[t]) : Damaged(rs[i], w)
  <2>1. PICK x \in Rows : ToSet(x) \subseteq ToSet(b) /\ rs \in {x, Append(x, d)}
    <3>1. onDisk[t] = Append(b, d) /\ Loads(l, onDisk)
      BY <1>3, <1>5, <1>10
    <3>. HIDE DEF rs
    <3>2. \E x \in Rows : ToSet(x) \subseteq ToSet(b) /\ l[t] \in {x, Append(x, d)}
      BY <1>8, <3>1, LoadedLast
    <3>. QED
      BY <3>2 DEF rs
  <2>2. whole[k + 1] \in ToSet(whole)
    BY <1>7, <1>10 DEF ToSet
  <2>3. ToSet(x) \subseteq ToSet(memory[t])
    BY <1>1, <1>8, <2>1
  <2>. HIDE DEF rs
  <2>4. CASE rs = x
    BY <1>4, <2>3, <2>4 DEF ToSet
  <2>5. CASE rs = Append(x, d)
    <3>1. /\ Len(x) \in Nat /\ DOMAIN x = 1 .. Len(x)
          /\ DOMAIN rs = 1 .. Len(x) + 1 /\ Len(rs) = Len(x) + 1
          /\ rs[Len(x) + 1] = d /\ \A j \in 1 .. Len(x) : rs[j] = x[j]
          /\ i = Len(x) + 1 \/ i \in 1 .. Len(x)
      BY <1>4, <2>5, RowsGrow
    <3>2. CASE i = Len(x) + 1
      BY <1>1, <1>10, <2>2, <3>1, <3>2
    <3>3. CASE i \in 1 .. Len(x)
      BY <2>3, <3>1, <3>3 DEF ToSet
    <3>. QED
      BY <3>1, <3>2, <3>3
  <2>. QED
    BY <2>1, <2>4, <2>5
<1>. QED
  BY <1>6, <1>9, <1>10 DEF b, l

LEMMA GenuineOrDamaged ==
  ASSUME Inv, phase = "down", NEW t \in Tables, t # "users", NEW i \in DOMAIN load(files)[t]
  PROVE  LET genuine == ToSet(memory[t]) \union ToSet(kept[t])
             rows == load(files)[t]
         IN  \/ rows[i] \in genuine
             \/ /\ t \in tornNow /\ i = Len(rows)
                /\ \E whole \in genuine : Damaged(rows[i], whole)
<1>. DEFINE row == load(files)[t][i]
<1>1. row \in ToSet(load(files)[t])
  BY DEF ToSet
<1>. HIDE DEF row
<1>2. row \in ToSet(onDisk[t]) /\ Reached(memory, t, row)
  BY <1>1, ReachedByMemory
<1>3. CASE Old(t)
  BY <1>2, <1>3 DEF Old, OldTable, row
<1>4. CASE Fresh(t)
  BY <1>2, <1>4, FreshRows DEF row
<1>5. CASE Torn(t)
  <2>1. t \in tornNow
    BY <1>5 DEF Torn
  <2>. QED
    BY <1>5, <2>1, TornLoaded
<1>. QED
  BY <1>3, <1>4, <1>5, Generations

-----------------------------------------------------------------------------
(* The users that are named                                                 *)

LEMMA UsersLoaded ==
  ASSUME Inv
  PROVE  load(files)["users"] = onDisk["users"]
  BY Loaded, TableFacts DEF Loads, Tables

LEMMA NamesLoaded ==
  ASSUME Inv, phase = "down", "users" \notin failed, NEW t \in Tables, t # "users", NEW n,
         Column(memory[t], n) \subseteq Column(memory["users"], 1),
         Column(kept[t], n) \subseteq Column(kept["users"], 1),
         t \notin failed \/ n \in 1 .. FieldCount[t] - 1
  PROVE  Column(load(files)[t], n) \subseteq Column(load(files)["users"], 1)
<1>. DEFINE l == load(files)
            known == Column(onDisk["users"], 1)
<1>1. \A row \in ToSet(l[t]) : row \in ToSet(onDisk[t]) /\ Reached(memory, t, row)
  BY ReachedByMemory
<1>2. Column(l["users"], 1) = known
  BY UsersLoaded
<1>3. "users" \in Tables
  BY DEF Tables
<1>4. ASSUME \A s \in Tables : Old(s), NEW row \in ToSet(l[t])
      PROVE  row[n] \in known
  <2>1. row \in ToSet(kept[t])
    BY <1>1, <1>4 DEF Old, OldTable
  <2>2. row[n] \in Column(kept["users"], 1)
    BY <2>1, ColumnOfRows
  <2>3. Column(kept["users"], 1) \subseteq known
    BY <1>3, <1>4 DEF Old, OldTable
  <2>. QED
    BY <2>2, <2>3
<1>5. ASSUME Fresh("users"), NEW row \in ToSet(l[t])
      PROVE  row[n] \in known
  <2>1. Column(memory["users"], 1) = known
    <3>1. ToSet(onDisk["users"]) = ToSet(memory["users"])
      BY <1>3, <1>5, FreshRows
    <3>. QED
      BY <3>1, ColumnOfRows
  <2>2. Column(kept["users"], 1) \subseteq Column(memory["users"], 1)
    <3>1. ToSet(kept["users"]) \subseteq ToSet(memory["users"])
      BY <1>3, Generations DEF Kept
    <3>. QED
      BY <3>1, ColumnOfRows
  <2>3. row \in ToSet(onDisk[t]) /\ Reached(memory, t, row)
    BY <1>1, <1>5
  <2>4. Generation(t, row)
    BY <2>3, RowOnDisk
  <2>5. CASE row \in ToSet(kept[t])
    <3>1. row[n] \in Column(kept[t], n)
      BY <2>5, ColumnOfRows
    <3>. QED
      BY <2>1, <2>2, <3>1
  <2>6. ASSUME NEW w \in ToSet(memory[t]), row[n] = w[n]
        PROVE  row[n] \in known
    <3>1. w[n] \in Column(memory[t], n)
      BY <2>6, ColumnOfRows
    <3>. QED
      BY <2>1, <2>6, <3>1
  <2>7. ASSUME t \in tornNow, NEW w \in ToSet(memory[t]), Agrees(t, row, w)
        PROVE  row[n] = w[n]
    <3>1. t \in failed
      BY <2>7 DEF Inv, Types
    <3>. QED
      BY <2>7, <3>1 DEF Agrees
  <2>. HIDE DEF known
  <2>. QED
    BY <2>4, <2>5, <2>6, <2>7 DEF Generation
<1>6. Fresh("users") \/ \A s \in Tables : Old(s)
  BY DEF Inv, SaveInv
<1>. HIDE DEF l, known
<1>7. \A row \in ToSet(l[t]) : row[n] \in known
  BY <1>4, <1>5, <1>6
<1>8. Column(l[t], n) \subseteq known
  BY <1>7, ColumnOfRows
<1>. QED
  BY <1>2, <1>8 DEF l

LEMMA NamesResolveAgain ==
  ASSUME Inv, phase = "down", "users" \notin failed
  PROVE  NamesResolve(load(files), failed)
<1>. DEFINE l == load(files)
<1>1. NamesResolve(memory, failed) /\ NamesResolve(kept, failed)
  BY DEF Inv, NamesInv
<1>2. /\ "threads" \in Tables /\ "messages" \in Tables /\ "privateMessages" \in Tables
      /\ "team_subscriptions" \in Tables
  BY DEF Tables
<1>3. /\ 3 \in 1 .. FieldCount["threads"] - 1 /\ 3 \in 1 .. FieldCount["messages"] - 1
      /\ 2 \in 1 .. FieldCount["privateMessages"] - 1
  BY FieldCounts
<1>. DEFINE Resolved(m, t, n) == Column(m[t], n) \subseteq Column(m["users"], 1)
<1>4. ASSUME NEW t \in Tables, t # "users", NEW n, Resolved(memory, t, n), Resolved(kept, t, n),
             t \notin failed \/ n \in 1 .. FieldCount[t] - 1
      PROVE  Resolved(l, t, n)
  BY <1>4, NamesLoaded
<1>5. ASSUME NEW m, NamesResolve(m, failed)
      PROVE  /\ Resolved(m, "threads", 3) /\ Resolved(m, "messages", 3)
             /\ Resolved(m, "privateMessages", 2)
             /\ "team_subscriptions" \notin failed => Resolved(m, "team_subscriptions", 2)
             /\ "privateMessages" \notin failed => Resolved(m, "privateMessages", 5)
  BY <1>5 DEF NamesResolve, UsersNamed
<1>6. ASSUME NEW m, Resolved(m, "threads", 3), Resolved(m, "messages", 3),
             Resolved(m, "privateMessages", 2),
             "team_subscriptions" \notin failed => Resolved(m, "team_subscriptions", 2),
             "privateMessages" \notin failed => Resolved(m, "privateMessages", 5)
      PROVE  NamesResolve(m, failed)
  BY <1>6 DEF NamesResolve, UsersNamed
<1>. HIDE DEF l, Resolved
<1>7. /\ Resolved(l, "threads", 3) /\ Resolved(l, "messages", 3)
      /\ Resolved(l, "privateMessages", 2)
  BY <1>1, <1>2, <1>3, <1>4, <1>5
<1>8. /\ "team_subscriptions" \notin failed => Resolved(l, "team_subscriptions", 2)
      /\ "privateMessages" \notin failed => Resolved(l, "privateMessages", 5)
  BY <1>1, <1>2, <1>4, <1>5
<1>9. NamesResolve(l, failed)
  BY <1>6, <1>7, <1>8
<1>. QED
  BY <1>9 DEF l

-----------------------------------------------------------------------------
(* What is lost                                                             *)

LEMMA KeptOnDisk ==
  ASSUME Inv, phase = "down", NEW t \in Tables, t \notin {"users", "team_subscriptions"},
         t \notin tornNow
  PROVE  ToSet(kept[t]) \subseteq ToSet(onDisk[t])
<1>1. CASE Old(t)
  BY <1>1 DEF Old, OldTable
<1>2. CASE Fresh(t)
  BY <1>2, FreshRows, Generations DEF Kept
<1>. QED
  BY <1>1, <1>2, Generations DEF Torn

LEMMA KeptIfOwnersAre ==
  ASSUME Inv, phase = "down", NEW t \in Tables, t \notin {"users", "team_subscriptions"},
         t \notin tornNow,
         t \in DOMAIN Owner => uuidsOf(kept, Owner[t]) \subseteq uuidsOf(load(files), Owner[t])
  PROVE  uuidsOf(kept, t) \subseteq uuidsOf(load(files), t)
<1>. DEFINE l == load(files)
<1>1. ToSet(l[t]) = {row \in ToSet(onDisk[t]) : Reached(l, t, row)}
  BY Loaded
<1>2. ASSUME NEW row \in ToSet(kept[t])
      PROVE  row \in ToSet(l[t])
  <2>1. row \in ToSet(onDisk[t])
    BY <1>2, KeptOnDisk
  <2>2. ASSUME t \in DOMAIN Owner
        PROVE  row[1] \in uuidsOf(l, Owner[t])
    <3>1. row[1] \in Column(kept[t], 1)
      BY <1>2, ColumnOfRows
    <3>2. Column(kept[t], 1) \subseteq uuidsOf(kept, Owner[t])
      BY <2>2, Generations DEF Owned
    <3>. QED
      BY <2>2, <3>1, <3>2
  <2>3. Reached(l, t, row)
    BY <2>2 DEF Reached
  <2>. HIDE DEF l
  <2>. QED
    BY <1>1, <2>1, <2>3
<1>. HIDE DEF l
<1>3. Column(kept[t], UuidColumn[t]) \subseteq Column(l[t], UuidColumn[t])
  BY <1>2, ColumnOfRows
<1>. QED
  BY <1>3 DEF uuidsOf, l

LEMMA UsersKept ==
  ASSUME Inv, phase = "down", "users" \notin tornNow
  PROVE  uuidsOf(kept, "users") \subseteq uuidsOf(load(files), "users")
<1>. DEFINE known == Column(onDisk["users"], 1)
<1>1. "users" \in Tables /\ UuidColumn["users"] = 1
  BY TableFacts DEF Tables
<1>2. uuidsOf(load(files), "users") = known
  BY <1>1, UsersLoaded DEF uuidsOf
<1>3. CASE Old("users")
  BY <1>1, <1>2, <1>3 DEF Old, OldTable, uuidsOf
<1>4. CASE Fresh("users")
  <2>1. ToSet(kept["users"]) \subseteq ToSet(onDisk["users"])
    BY <1>1, <1>4, FreshRows, Generations DEF Kept
  <2>2. Column(kept["users"], 1) \subseteq known
    BY <2>1, ColumnOfRows
  <2>. QED
    BY <1>1, <1>2, <2>2 DEF uuidsOf
<1>. QED
  BY <1>1, <1>3, <1>4, Generations DEF Torn

LEMMA LossBelowTear ==
  ASSUME Inv, phase = "down", NEW t \in DOMAIN Owners,
         tornNow \intersect (Owners[t] \union {t}) = {}
  PROVE  uuidsOf(kept, t) \subseteq uuidsOf(load(files), t)
<1>. DEFINE Safe(s) == uuidsOf(kept, s) \subseteq uuidsOf(load(files), s)
<1>1. /\ DOMAIN Owners = Tables \ {"team_subscriptions"}
      /\ Owners["channels"] = {"teams"} /\ Owners["threads"] = {"teams", "channels"}
      /\ Owners["messages"] = {"teams", "channels", "threads"}
  BY DEF Owners, Tables
<1>2. ASSUME NEW s \in Tables, s \notin {"users", "team_subscriptions"}, s \notin tornNow,
             s \in DOMAIN Owner => Safe(Owner[s])
      PROVE  Safe(s)
  BY <1>2, KeptIfOwnersAre
<1>3. "users" \notin tornNow => Safe("users")
  BY UsersKept
<1>. HIDE DEF Safe
<1>4. "teams" \notin tornNow => Safe("teams")
  BY <1>2, TableFacts DEF Tables
<1>5. "teams" \notin tornNow /\ "channels" \notin tornNow => Safe("channels")
  BY <1>2, <1>4, TableFacts DEF Tables
<1>6. {"teams", "channels", "threads"} \intersect tornNow = {} => Safe("threads")
  BY <1>2, <1>5, TableFacts DEF Tables
<1>7. {"teams", "channels", "threads", "messages"} \intersect tornNow = {} => Safe("messages")
  BY <1>2, <1>6, TableFacts DEF Tables
<1>8. "privateMessages" \notin tornNow => Safe("privateMessages")
  BY <1>2, TableFacts DEF Tables
<1>9. t \in {"users", "teams", "channels", "threads", "messages", "privateMessages"}
  BY <1>1 DEF Tables
<1>10. Safe(t)
  BY <1>1, <1>3, <1>4, <1>5, <1>6, <1>7, <1>8, <1>9
<1>. QED
  BY <1>10 DEF Safe

-----------------------------------------------------------------------------
(* A save that was complete                                                 *)

LEMMA AllKnownRows ==
  ASSUME NEW rows \in Rows, NEW owners, Column(rows, 1) \subseteq owners
  PROVE  ofKnown(rows, owners) = rows
  BY KnownRows, Zenon

LEMMA LoadsAll ==
  ASSUME NEW l, NEW r, NEW K, Loads(l, r), Sound(r, K), Owned(r)
  PROVE  l = r
<1>1. r \in State /\ l \in State /\ \A t \in Tables : r[t] \in Rows
  BY DEF Sound, Loads, State
<1>2. ASSUME NEW t \in Tables, t \in DOMAIN Owner => l[Owner[t]] = r[Owner[t]]
      PROVE  l[t] = r[t]
  <2>1. CASE t \notin DOMAIN Owner
    BY <2>1 DEF Loads
  <2>2. CASE t \in DOMAIN Owner
    <3>1. l[t] = ofKnown(r[t], uuidsOf(l, Owner[t]))
      BY <2>2 DEF Loads
    <3>2. uuidsOf(l, Owner[t]) = uuidsOf(r, Owner[t])
      BY <1>2, <2>2 DEF uuidsOf
    <3>3. Column(r[t], 1) \subseteq uuidsOf(r, Owner[t])
      BY <2>2 DEF Owned
    <3>. QED
      BY <1>1, <3>1, <3>2, <3>3, AllKnownRows
  <2>. QED
    BY <2>1, <2>2
<1>3. l["teams"] = r["teams"]
  BY <1>2, TableFacts DEF Tables
<1>4. l["channels"] = r["channels"]
  BY <1>2, <1>3, TableFacts DEF Tables
<1>5. l["threads"] = r["threads"]
  BY <1>2, <1>4, TableFacts DEF Tables
<1>6. ASSUME NEW t \in Tables
      PROVE  l[t] = r[t]
  <2>1. t \in DOMAIN Owner => l[Owner[t]] = r[Owner[t]]
    BY <1>3, <1>4, <1>5, TableFacts
  <2>. QED
    BY <1>2, <2>1
<1>. QED
  BY <1>1, <1>6 DEF State

LEMMA SavedIsLoaded ==
  ASSUME Inv, phase = "down", saveSuccess, tornNow = {}
  PROVE  load(files) = inOrder(memory)
<1>. DEFINE o == inOrder(memory)
<1>1. \A i \in 1 .. 7 : Fresh(outputFiles[i])
  BY DEF Inv, SaveInv
<1>2. \A t \in Tables : onDisk[t] = o[t]
  BY <1>1, FilesInTurn DEF Fresh
<1>3. o \in State /\ \A t \in Tables : ToSet(o[t]) = ToSet(memory[t])
  BY Generations, SoundParts, InOrderRows
<1>4. onDisk \in State /\ Sound(onDisk, Known(drawn))
  BY Generations DEF Sound
<1>. HIDE DEF o
<1>5. onDisk = o
  BY <1>2, <1>3, <1>4 DEF State
<1>6. Owned(o)
  <2>1. \A t \in Tables : \A n : Column(o[t], n) = Column(memory[t], n)
    BY <1>3, ColumnOfRows
  <2>2. Owned(memory)
    BY Generations
  <2>. QED
    BY <2>1, <2>2, OwnerIsTable DEF Owned, uuidsOf
<1>7. Loads(load(files), onDisk)
  BY Loaded
<1>8. load(files) = onDisk
  BY <1>4, <1>5, <1>6, <1>7, LoadsAll
<1>. QED
  BY <1>5, <1>8 DEF o

-----------------------------------------------------------------------------
(* The theorems                                                             *)

LEMMA InitEstablishes == Init => Inv
<1>. SUFFICES ASSUME Init PROVE Inv
  OBVIOUS
<1>1. /\ phase = "down" /\ memory = Seed /\ files = serializeData(Seed) /\ kept = Seed
      /\ written = 7 /\ saveSuccess = TRUE /\ failed = {} /\ tornNow = {} /\ drawn = 0
  BY FilesInTurn DEF Init
<1>2. Sound(Seed, Known(0)) /\ Owned(Seed) /\ Seed \in State
  BY SeedIsSound DEF Sound
<1>3. \A t \in Tables : files[t] \in Text /\ records(t, files[t]) = inOrder(Seed)[t]
  BY <1>1, <1>2, WrittenWhole
<1>4. files \in [Tables -> Text]
  BY <1>1, <1>3 DEF serializeData
<1>5. \A t \in Tables : onDisk[t] = inOrder(Seed)[t]
  BY <1>3 DEF onDisk, recordsOf
<1>6. onDisk = inOrder(Seed)
  <2>1. inOrder(Seed) \in State
    BY <1>2, SoundParts, InOrderRows
  <2>2. onDisk = [t \in Tables |-> onDisk[t]]
    BY DEF onDisk, recordsOf
  <2>. QED
    BY <1>5, <2>1, <2>2 DEF State
<1>7. Types
  BY <1>1, <1>2, <1>4, ConstantTexts DEF Types
<1>8. MemoryInv
  BY <1>1, <1>2 DEF MemoryInv
<1>9. KeptInv
  BY <1>1, <1>2 DEF KeptInv, Kept
<1>10. NamesInv
  <2>1. /\ UsersNamed(Seed) \subseteq Column(Seed["users"], 1)
        /\ Column(Seed["team_subscriptions"], 2) \subseteq Column(Seed["users"], 1)
        /\ Column(Seed["privateMessages"], 5) \subseteq Column(Seed["users"], 1)
    BY PersistenceConstants, TableFacts DEF Saved, uuidsOf
  <2>2. NamesResolve(Seed, failed)
    BY <2>1 DEF NamesResolve
  <2>. QED
    BY <1>1, <2>2 DEF NamesInv
<1>11. \A t \in Tables : Fresh(t)
  BY <1>1, <1>5 DEF Fresh
<1>12. DiskInv
  BY <1>1, <1>2, <1>6, <1>11, SoundInOrder DEF DiskInv
<1>13. SaveInv
  BY <1>1, <1>11, FilesInTurn DEF SaveInv, Tables
<1>. QED
  BY <1>7, <1>8, <1>9, <1>10, <1>12, <1>13 DEF Inv

\* What is loaded, but for who is logged in.
LEMMA Started ==
  ASSUME Inv, Start
  PROVE  /\ phase = "down" /\ phase' = "loaded"
         /\ memory' = resetLoggedIn(load(files)) /\ kept' = memory'
         /\ last' = memory /\ before' = kept
         /\ UNCHANGED <<files, written, saveSuccess, failed, tornNow, drawn>>
         /\ Column(memory'["users"], 1) = Column(load(files)["users"], 1)
         /\ \A t \in Tables : t # "users" => memory'[t] = load(files)[t]
         /\ \A t \in Tables \ {"team_subscriptions"} :
              uuidsOf(memory', t) = uuidsOf(load(files), t)
<1>1. /\ phase = "down" /\ phase' = "loaded"
      /\ memory' = resetLoggedIn(load(files)) /\ kept' = memory'
      /\ last' = memory /\ before' = kept
      /\ UNCHANGED <<files, written, saveSuccess, failed, tornNow, drawn>>
  BY DEF Start
<1>2. Sound(load(files), Known(drawn))
  BY Loaded
<1>3. /\ Column(memory'["users"], 1) = Column(load(files)["users"], 1)
      /\ \A t \in Tables : t # "users" => memory'[t] = load(files)[t]
  BY <1>1, <1>2, ResetTables
<1>4. \A t \in Tables \ {"team_subscriptions"} :
        uuidsOf(memory', t) = uuidsOf(load(files), t)
  BY <1>3, TableFacts DEF uuidsOf
<1>. QED
  BY <1>1, <1>3, <1>4

LEMMA StartKeeps == Inv /\ Start => Inv'
<1>. SUFFICES ASSUME Inv, Start PROVE Inv'
  OBVIOUS
<1>. DEFINE l == load(files)
            K == Known(drawn)
<1>1. /\ phase = "down" /\ phase' = "loaded"
      /\ memory' = resetLoggedIn(l) /\ kept' = memory'
      /\ UNCHANGED <<files, written, saveSuccess, failed, tornNow, drawn>>
      /\ Column(memory'["users"], 1) = Column(l["users"], 1)
      /\ \A t \in Tables : t # "users" => memory'[t] = l[t]
      /\ \A t \in Tables \ {"team_subscriptions"} : uuidsOf(memory', t) = uuidsOf(l, t)
  BY Started
<1>2. /\ Sound(l, K) /\ Owned(l)
      /\ \A t \in Tables : ToSet(l[t]) = {row \in ToSet(onDisk[t]) : Reached(l, t, row)}
  BY Loaded
<1>3. Sound(memory', K) /\ Owned(memory')
  BY <1>1, <1>2, ResetSound
<1>4. l["users"] = onDisk["users"]
  BY UsersLoaded
<1>5. "users" \notin failed => NamesResolve(l, failed)
  BY <1>1, NamesResolveAgain
<1>6. onDisk' = onDisk
  BY <1>1 DEF onDisk
<1>7. Known(drawn)' = K
  BY <1>1 DEF Known
<1>8. Sound(onDisk, K)
  BY DEF Inv, DiskInv
<1>. HIDE DEF l, K
<1>9. Types'
  <2>1. kept' \in State
    BY <1>1, <1>3 DEF Sound
  <2>. QED
    BY <1>1, <2>1 DEF Inv, Types
<1>10. MemoryInv'
  BY <1>3, <1>7 DEF MemoryInv
<1>11. KeptInv'
  BY <1>1, <1>3 DEF KeptInv, Kept
<1>12. NamesInv'
  <2>1. ASSUME "users" \notin failed
        PROVE  NamesResolve(memory', failed)
    <3>1. /\ memory'["threads"] = l["threads"] /\ memory'["messages"] = l["messages"]
          /\ memory'["privateMessages"] = l["privateMessages"]
          /\ memory'["team_subscriptions"] = l["team_subscriptions"]
      BY <1>1 DEF Tables
    <3>. QED
      BY <1>1, <1>5, <2>1, <3>1 DEF NamesResolve, UsersNamed
  <2>. QED
    BY <1>1, <2>1 DEF NamesInv
<1>13. ASSUME NEW t \in Tables
       PROVE  OldTable(t, onDisk[t], memory'[t], memory')
  <2>1. CASE t = "users"
    BY <1>1, <1>4, <2>1 DEF OldTable
  <2>2. CASE t # "users"
    <3>1. \A row : Reached(memory', t, row) <=> Reached(l, t, row)
      <4>1. ASSUME t \in DOMAIN Owner
            PROVE  uuidsOf(memory', Owner[t]) = uuidsOf(l, Owner[t])
        BY <1>1, <4>1, OwnerIsTable DEF OwnerTables
      <4>. QED
        BY <4>1 DEF Reached
    <3>2. memory'[t] = l[t]
      BY <1>1, <2>2
    <3>3. ToSet(l[t]) = {row \in ToSet(onDisk[t]) : Reached(l, t, row)}
      BY <1>2
    <3>4. /\ ToSet(l[t]) \subseteq ToSet(onDisk[t])
          /\ \A row \in ToSet(onDisk[t]) : Reached(l, t, row) => row \in ToSet(l[t])
      BY <3>3
    <3>. QED
      BY <2>2, <3>1, <3>2, <3>4 DEF OldTable
  <2>. QED
    BY <2>1, <2>2
<1>14. DiskInv'
  BY <1>1, <1>6, <1>7, <1>8, <1>13 DEF DiskInv, Old
<1>15. SaveInv'
  BY <1>1 DEF SaveInv
<1>. QED
  BY <1>9, <1>10, <1>11, <1>12, <1>14, <1>15 DEF Inv

LEMMA StepKeeps == Inv /\ [Next]_vars => Inv'
<1>. SUFFICES ASSUME Inv, [Next]_vars PROVE Inv'
  OBVIOUS
<1>1. CASE Start BY <1>1, StartKeeps
<1>2. CASE LoginNewUser BY <1>2, LoginKeeps
<1>3. CASE CreateTeam BY <1>3, CreateTeamKeeps
<1>4. CASE CreateChannel BY <1>4, CreateChannelKeeps
<1>5. CASE CreateThread BY <1>5, CreateThreadKeeps
<1>6. CASE CreateReply BY <1>6, CreateReplyKeeps
<1>7. CASE Subscribe BY <1>7, SubscribeKeeps
<1>8. CASE Unsubscribe BY <1>8, UnsubscribeKeeps
<1>9. CASE Send BY <1>9, SendKeeps
<1>10. CASE BeginSave BY <1>10, BeginSaveKeeps
<1>11. CASE NoSave BY <1>11, NoSaveKeeps
<1>12. CASE WriteFile BY <1>12, WriteFileKeeps
<1>13. CASE FileNotOpened BY <1>13, FileNotOpenedKeeps
<1>14. CASE FileCutShort BY <1>14, FileCutShortKeeps
<1>15. CASE CrashInFile BY <1>15, CrashInFileKeeps
<1>16. CASE CrashBetweenFiles BY <1>16, CrashBetweenFilesKeeps
<1>17. CASE EndSave BY <1>17, EndSaveKeeps
<1>18. CASE UNCHANGED vars
  <2>1. UNCHANGED <<phase, memory, files, serialized, written, saveSuccess, kept,
                    failed, tornNow, drawn>>
    BY <1>18 DEF vars, history, bounds
  <2>2. /\ onDisk' = onDisk
        /\ \A t : (Old(t)' <=> Old(t)) /\ (Fresh(t)' <=> Fresh(t)) /\ (Torn(t)' <=> Torn(t))
    BY <2>1, OnDiskFrame
  <2>3. Types'
    BY <2>1 DEF Inv, Types
  <2>4. MemoryInv' /\ KeptInv' /\ NamesInv'
    BY <2>1, SaveFrame
  <2>5. DiskInv'
    BY <2>1, <2>2 DEF Inv, DiskInv, Known
  <2>6. SaveInv'
    BY <2>1, <2>2 DEF Inv, SaveInv
  <2>. QED
    BY <2>3, <2>4, <2>5, <2>6 DEF Inv
<1>. QED
  BY <1>1, <1>2, <1>3, <1>4, <1>5, <1>6, <1>7, <1>8, <1>9, <1>10, <1>11, <1>12, <1>13,
     <1>14, <1>15, <1>16, <1>17, <1>18 DEF Next

\* Only a start makes a state that has just been loaded.
LEMMA OnlyStartLoads ==
  ASSUME [Next]_vars, phase' = "loaded"
  PROVE  Start \/ UNCHANGED vars
<1>1. ASSUME NEW t, NEW rows, NEW uuids, change(t, rows, uuids)
      PROVE  phase' = "up"
  BY <1>1 DEF change
<1>2. LoginNewUser \/ CreateChannel \/ CreateThread \/ CreateReply \/ Subscribe
        \/ Unsubscribe \/ Send => phase' = "up"
  BY <1>1 DEF LoginNewUser, CreateChannel, CreateThread, CreateReply, Subscribe,
              Unsubscribe, Send, add
<1>3. CreateTeam => phase' = "up"
  BY DEF CreateTeam
<1>4. BeginSave => phase' = "saving"
  BY DEF BeginSave
<1>5. NoSave \/ CrashInFile \/ CrashBetweenFiles \/ EndSave => phase' = "down"
  BY DEF NoSave, CrashInFile, CrashBetweenFiles, EndSave
<1>6. WriteFile \/ FileNotOpened \/ FileCutShort => phase' = "saving"
  BY DEF WriteFile, FileNotOpened, FileCutShort, Writing
<1>. QED
  BY <1>2, <1>3, <1>4, <1>5, <1>6 DEF Next

LEMMA InvAlways == Spec => []Inv
  BY InitEstablishes, StepKeeps, PTL DEF Spec

\* What a process saved, every file whole, is what the next one starts with: load()
\* gives back the rows serializeData wrote, and DatabaseManager resets who is
\* logged in.
THEOREM SavedIsLoadedAgain == Spec => []SaveLoadIdentity
<1>1. Init => SaveLoadIdentity
  BY DEF Init, SaveLoadIdentity
<1>2. Inv /\ SaveLoadIdentity /\ [Next]_vars => SaveLoadIdentity'
  <2>. SUFFICES ASSUME Inv, SaveLoadIdentity, [Next]_vars, phase' = "loaded"
       PROVE  SaveLoadIdentity'
    BY DEF SaveLoadIdentity
  <2>1. CASE Start
    <3>1. ASSUME saveSuccess', tornNow' = {}
          PROVE  memory' = resetLoggedIn(inOrder(last'))
      <4>1. phase = "down" /\ saveSuccess /\ tornNow = {}
        BY <2>1, <3>1, Started
      <4>. QED
        BY <2>1, <4>1, Started, SavedIsLoaded
    <3>. QED
      BY <3>1 DEF SaveLoadIdentity
  <2>2. CASE UNCHANGED vars
    BY <2>2 DEF vars, history, SaveLoadIdentity
  <2>. QED
    BY <2>1, <2>2, OnlyStartLoads
<1>. QED
  BY <1>1, <1>2, InvAlways, PTL DEF Spec

\* A save that fails, is cut short or dies between two files loses no entry that was
\* on the disk before, except in the files that were torn and of what they own.
THEOREM LossIsBelowTear == Spec => []LossOnlyBelowTear
<1>1. Init => LossOnlyBelowTear
  BY DEF Init, LossOnlyBelowTear
<1>2. Inv /\ LossOnlyBelowTear /\ [Next]_vars => LossOnlyBelowTear'
  <2>. SUFFICES ASSUME Inv, LossOnlyBelowTear, [Next]_vars, phase' = "loaded"
       PROVE  LossOnlyBelowTear'
    BY DEF LossOnlyBelowTear
  <2>1. CASE Start
    <3>1. ASSUME NEW t \in DOMAIN Owners, tornNow' \intersect (Owners[t] \union {t}) = {}
          PROVE  uuidsOf(before', t) \subseteq uuidsOf(memory', t)
      <4>1. uuidsOf(kept, t) \subseteq uuidsOf(load(files), t)
        BY <2>1, <3>1, Started, LossBelowTear
      <4>2. t \in Tables \ {"team_subscriptions"}
        BY DEF Owners, Tables
      <4>. QED
        BY <2>1, <4>1, <4>2, Started
    <3>. QED
      BY <3>1 DEF LossOnlyBelowTear
  <2>2. CASE UNCHANGED vars
    BY <2>2 DEF vars, history, LossOnlyBelowTear, uuidsOf
  <2>. QED
    BY <2>1, <2>2, OnlyStartLoads
<1>. QED
  BY <1>1, <1>2, InvAlways, PTL DEF Spec

\* The users that loaded entries name are accounts, wherever the save stopped, because
\* save() writes users.txt first: unless users.txt itself was not written whole, or
\* the file whose lines end in the uuid of a user.
THEOREM NamedUsersResolve == Spec => []UsersResolve
<1>1. Inv => UsersResolve
  BY DEF Inv, NamesInv, NamesResolve, UsersResolve, accounts
<1>. QED
  BY <1>1, InvAlways, PTL

\* Every row load() takes from the files is one of the two generations, or the last
\* of a file cut short, with only its last field damaged.
THEOREM NothingIsInvented == Spec => []NothingInvented
<1>1. Init => NothingInvented
  BY DEF Init, NothingInvented
<1>2. Inv /\ NothingInvented /\ [Next]_vars => NothingInvented'
  <2>. SUFFICES ASSUME Inv, NothingInvented, [Next]_vars, phase' = "loaded"
       PROVE  NothingInvented'
    BY DEF NothingInvented
  <2>1. CASE Start
    <3>1. ASSUME NEW t \in Tables \ {"users"}, NEW i \in DOMAIN memory'[t]
          PROVE  LET genuine == ToSet(last'[t]) \union ToSet(before'[t])
                 IN  \/ memory'[t][i] \in genuine
                     \/ /\ t \in tornNow' /\ i = Len(memory'[t])
                        /\ \E whole \in genuine : Damaged(memory'[t][i], whole)
      <4>1. /\ memory'[t] = load(files)[t] /\ last' = memory /\ before' = kept
            /\ tornNow' = tornNow /\ phase = "down"
        BY <2>1, Started
      <4>. QED
        BY <4>1, GenuineOrDamaged
    <3>. QED
      BY <3>1 DEF NothingInvented
  <2>2. CASE UNCHANGED vars
    BY <2>2 DEF vars, history, NothingInvented
  <2>. QED
    BY <2>1, <2>2, OnlyStartLoads
<1>. QED
  BY <1>1, <1>2, InvAlways, PTL DEF Spec
=============================================================================
