--------------------------- MODULE FramingProofs ---------------------------
(***************************************************************************)
(* Proofs about Framing: cutting what has been read gives the packets that *)
(* were sent, the server's end implements PacketStream, and the client     *)
(* reads what was queued for it until a timeout cuts a packet.  They hold  *)
(* for every size of headers, payloads and pieces.                         *)
(***************************************************************************)
EXTENDS Framing, Recursion, FiniteSetTheorems

-----------------------------------------------------------------------------
(* Sequences                                                                *)

LEMMA FromTyped ==
  ASSUME NEW T, NEW s \in Seq(T), NEW n \in Nat
  PROVE  /\ From(s, n) \in Seq(T)
         /\ Len(From(s, n)) = IF n <= Len(s) THEN Len(s) - n ELSE 0
         /\ \A i \in 1 .. Len(s) - n : From(s, n)[i] = s[i + n]
<1>1. Len(s) \in Nat /\ \A i \in n + 1 .. Len(s) : s[i] \in T
  OBVIOUS
<1>2. /\ SubSeq(s, n + 1, Len(s)) \in Seq(T)
      /\ Len(SubSeq(s, n + 1, Len(s))) = IF n + 1 <= Len(s) THEN Len(s) - (n + 1) + 1 ELSE 0
      /\ \A i \in 1 .. Len(s) - (n + 1) + 1 : SubSeq(s, n + 1, Len(s))[i] = s[(n + 1) + i - 1]
  BY <1>1, SubSeqProperties
<1>. QED
  BY <1>1, <1>2 DEF From

LEMMA FromWithin ==
  ASSUME NEW T, NEW s \in Seq(T), NEW n \in 0 .. Len(s)
  PROVE  /\ From(s, n) \in Seq(T) /\ Len(From(s, n)) = Len(s) - n
         /\ \A i \in 1 .. Len(s) - n : From(s, n)[i] = s[i + n]
<1>1. n \in Nat /\ n <= Len(s)
  OBVIOUS
<1>. QED
  BY <1>1, FromTyped

LEMMA FromStart ==
  ASSUME NEW T, NEW s \in Seq(T)
  PROVE  From(s, 0) = s
  BY SubSeqFull DEF From

LEMMA FromEnd ==
  ASSUME NEW T, NEW s \in Seq(T)
  PROVE  From(s, Len(s)) = <<>>
  BY DEF From

LEMMA Regroup == \A x, y, z \in Seq(Bytes) : (x \o y) \o z = x \o (y \o z)
  BY ConcatAssociative

LEMMA Joined == \A x, y \in Seq(Bytes) : x \o y \in Seq(Bytes)
  BY ConcatProperties

\* What is cut off and what remains.
LEMMA Halves ==
  ASSUME NEW T, NEW s \in Seq(T), NEW n \in 0 .. Len(s)
  PROVE  /\ SubSeq(s, 1, n) \in Seq(T) /\ Len(SubSeq(s, 1, n)) = n
         /\ \A i \in 1 .. n : SubSeq(s, 1, n)[i] = s[i]
         /\ SubSeq(s, 1, n) \o From(s, n) = s
<1>1. n \in Nat /\ Len(s) \in Nat /\ n <= Len(s)
  OBVIOUS
<1>2. /\ SubSeq(s, 1, n) \in Seq(T) /\ Len(SubSeq(s, 1, n)) = n
      /\ \A i \in 1 .. n : SubSeq(s, 1, n)[i] = s[i]
  OBVIOUS
<1>3. SubSeq(s, 1, n) \o From(s, n) = SubSeq(s, 1, Len(s))
  <2>1. 1 \in 1 .. Len(s) + 1 /\ n \in 1 - 1 .. Len(s) /\ Len(s) \in n .. Len(s)
    BY <1>1
  <2>. QED
    BY <2>1, ConcatAdjacentSubSeq DEF From
<1>. QED
  BY <1>2, <1>3, SubSeqFull

LEMMA FromFrom ==
  ASSUME NEW T, NEW s \in Seq(T), NEW n \in 0 .. Len(s), NEW m \in 0 .. Len(s) - n
  PROVE  /\ From(From(s, n), m) = From(s, n + m)
         /\ SubSeq(From(s, n), 1, m) = SubSeq(s, n + 1, n + m)
<1>1. /\ Len(s) \in Nat /\ n \in Nat /\ m \in Nat /\ n <= Len(s) /\ n + m <= Len(s)
      /\ n + m \in 0 .. Len(s)
  OBVIOUS
<1>. DEFINE t == From(s, n)
<1>2. t \in Seq(T) /\ Len(t) = Len(s) - n /\ \A i \in 1 .. Len(s) - n : t[i] = s[i + n]
  BY <1>1, FromTyped
<1>. HIDE DEF t
<1>3. m \in 0 .. Len(t)
  BY <1>1, <1>2
<1>4. From(t, m) = From(s, n + m)
  <2>1. /\ From(t, m) \in Seq(T) /\ Len(From(t, m)) = Len(t) - m
        /\ \A i \in 1 .. Len(t) - m : From(t, m)[i] = t[i + m]
    BY <1>2, <1>3, FromWithin
  <2>2. /\ From(s, n + m) \in Seq(T) /\ Len(From(s, n + m)) = Len(s) - (n + m)
        /\ \A i \in 1 .. Len(s) - (n + m) : From(s, n + m)[i] = s[i + (n + m)]
    BY <1>1, FromWithin
  <2>3. Len(From(t, m)) = Len(From(s, n + m))
    <3>1. Len(s) - n - m = Len(s) - (n + m)
      BY <1>1
    <3>. QED
      BY <1>2, <2>1, <2>2, <3>1, Zenon
  <2>4. \A i \in 1 .. Len(From(t, m)) : From(t, m)[i] = From(s, n + m)[i]
    <3>. TAKE i \in 1 .. Len(From(t, m))
    <3>1. i + m \in 1 .. Len(s) - n /\ i \in 1 .. Len(s) - (n + m) /\ i \in 1 .. Len(t) - m
      BY <1>1, <1>2, <2>1
    <3>2. From(t, m)[i] = s[(i + m) + n]
      BY <1>2, <2>1, <3>1
    <3>3. From(s, n + m)[i] = s[i + (n + m)]
      BY <2>2, <3>1
    <3>4. (i + m) + n = i + (n + m)
      BY <1>1, <3>1
    <3>. QED
      BY <3>2, <3>3, <3>4
  <2>. QED
    BY <2>1, <2>2, <2>3, <2>4, SeqEqual, Zenon
<1>5. SubSeq(t, 1, m) = SubSeq(s, n + 1, n + m)
  <2>1. /\ SubSeq(t, 1, m) \in Seq(T) /\ Len(SubSeq(t, 1, m)) = m
        /\ \A i \in 1 .. m : SubSeq(t, 1, m)[i] = t[i]
    BY <1>2, <1>3, Halves
  <2>. DEFINE r == SubSeq(s, n + 1, n + m)
  <2>2. /\ r \in Seq(T) /\ Len(r) = m /\ \A i \in 1 .. m : r[i] = s[i + n]
    <3>1. \A i \in n + 1 .. n + m : s[i] \in T
      BY <1>1
    <3>2. /\ r \in Seq(T)
          /\ Len(r) = IF n + 1 <= n + m THEN (n + m) - (n + 1) + 1 ELSE 0
          /\ \A i \in 1 .. (n + m) - (n + 1) + 1 : r[i] = s[(n + 1) + i - 1]
      BY <1>1, <3>1, SubSeqProperties
    <3>. HIDE DEF r
    <3>. QED
      BY <1>1, <3>2
  <2>. HIDE DEF r
  <2>3. \A i \in 1 .. m : SubSeq(t, 1, m)[i] = r[i]
    BY <1>1, <1>2, <2>1, <2>2
  <2>4. SubSeq(t, 1, m) = r
    BY <2>1, <2>2, <2>3, SeqEqual
  <2>. QED
    BY <2>4 DEF r
<1>. QED
  BY <1>4, <1>5 DEF t

LEMMA FromConcat ==
  ASSUME NEW T, NEW s \in Seq(T), NEW t \in Seq(T), NEW n \in 0 .. Len(s)
  PROVE  From(s \o t, n) = From(s, n) \o t
<1>1. n \in Nat /\ Len(s) \in Nat /\ Len(t) \in Nat /\ n <= Len(s)
  OBVIOUS
<1>2. /\ s \o t \in Seq(T) /\ Len(s \o t) = Len(s) + Len(t)
      /\ \A i \in 1 .. Len(s) + Len(t) :
           (s \o t)[i] = IF i <= Len(s) THEN s[i] ELSE t[i - Len(s)]
  BY ConcatProperties
<1>. DEFINE a == From(s \o t, n)
            b == From(s, n)
<1>3. a \in Seq(T) /\ Len(a) = Len(s) + Len(t) - n /\ \A i \in 1 .. Len(a) : a[i] = (s \o t)[i + n]
  <2>. DEFINE c == s \o t
  <2>1. c \in Seq(T) /\ Len(c) = Len(s) + Len(t) /\ n \in 0 .. Len(c)
    BY <1>1, <1>2
  <2>. HIDE DEF c
  <2>2. /\ From(c, n) \in Seq(T) /\ Len(From(c, n)) = Len(c) - n
        /\ \A i \in 1 .. Len(c) - n : From(c, n)[i] = c[i + n]
    BY <2>1, FromWithin
  <2>. QED
    BY <2>1, <2>2 DEF c
<1>4. b \in Seq(T) /\ Len(b) = Len(s) - n /\ \A i \in 1 .. Len(b) : b[i] = s[i + n]
  BY FromWithin
<1>. HIDE DEF a, b
<1>5. /\ b \o t \in Seq(T) /\ Len(b \o t) = Len(b) + Len(t)
      /\ \A i \in 1 .. Len(b) + Len(t) :
           (b \o t)[i] = IF i <= Len(b) THEN b[i] ELSE t[i - Len(b)]
  BY <1>4, ConcatProperties
<1>6. Len(a) = Len(b \o t)
  BY <1>1, <1>3, <1>4, <1>5
<1>7. \A i \in 1 .. Len(a) : a[i] = (b \o t)[i]
  <2>. TAKE i \in 1 .. Len(a)
  <2>1. i + n \in 1 .. Len(s) + Len(t) /\ i \in 1 .. Len(b) + Len(t)
    BY <1>1, <1>3, <1>4
  <2>2. a[i] = IF i + n <= Len(s) THEN s[i + n] ELSE t[(i + n) - Len(s)]
    BY <1>2, <1>3, <2>1
  <2>3. CASE i <= Len(b)
    BY <1>1, <1>4, <1>5, <2>1, <2>2, <2>3
  <2>4. CASE ~(i <= Len(b))
    <3>1. ~(i + n <= Len(s)) /\ (i + n) - Len(s) = i - Len(b)
      BY <1>1, <1>4, <2>1, <2>4
    <3>. QED
      BY <1>5, <2>1, <2>2, <2>4, <3>1
  <2>. QED
    BY <2>3, <2>4
<1>8. a = b \o t
  BY <1>3, <1>5, <1>6, <1>7, SeqEqual, Zenon
<1>. QED
  BY <1>8 DEF a, b

\* Two ways of cutting the same sequence.
LEMMA SameStart ==
  ASSUME NEW T, NEW s \in Seq(T), NEW t \in Seq(T), NEW p \in Seq(T), NEW q \in Seq(T),
         s \o t = p \o q
  PROVE  /\ \A i \in 1 .. Len(s) : i <= Len(p) => s[i] = p[i]
         /\ Len(p) <= Len(s) => SubSeq(s, 1, Len(p)) = p /\ From(s, Len(p)) \o t = q
<1>1. /\ Len(s) \in Nat /\ Len(t) \in Nat /\ Len(p) \in Nat /\ Len(q) \in Nat
      /\ Len(s) + Len(t) = Len(p) + Len(q)
  <2>1. Len(s \o t) = Len(s) + Len(t) /\ Len(p \o q) = Len(p) + Len(q)
    BY ConcatProperties
  <2>. QED
    BY <2>1
<1>2. \A i \in 1 .. Len(s) : (s \o t)[i] = s[i]
  OBVIOUS
<1>3. \A i \in 1 .. Len(p) : (p \o q)[i] = p[i]
  OBVIOUS
<1>4. \A i \in 1 .. Len(s) : i <= Len(p) => s[i] = p[i]
  BY <1>1, <1>2, <1>3
<1>5. ASSUME Len(p) <= Len(s)
      PROVE  SubSeq(s, 1, Len(p)) = p /\ From(s, Len(p)) \o t = q
  <2>1. Len(p) \in 0 .. Len(s)
    BY <1>1, <1>5
  <2>2. /\ SubSeq(s, 1, Len(p)) \in Seq(T) /\ Len(SubSeq(s, 1, Len(p))) = Len(p)
        /\ \A i \in 1 .. Len(p) : SubSeq(s, 1, Len(p))[i] = s[i]
        /\ SubSeq(s, 1, Len(p)) \o From(s, Len(p)) = s
    BY <2>1, Halves
  <2>3. \A i \in 1 .. Len(p) : SubSeq(s, 1, Len(p))[i] = p[i]
    BY <1>1, <1>4, <1>5, <2>2
  <2>4. SubSeq(s, 1, Len(p)) = p
    BY <2>2, <2>3, SeqEqual
  <2>5. From(s, Len(p)) \in Seq(T)
    BY <1>1, FromTyped
  <2>6. p \o (From(s, Len(p)) \o t) = p \o q
    <3>1. (p \o From(s, Len(p))) \o t = p \o (From(s, Len(p)) \o t)
      BY <2>5, ConcatAssociative
    <3>. QED
      BY <2>2, <2>4, <3>1
  <2>7. From(s, Len(p)) \o t \in Seq(T)
    BY <2>5
  <2>8. \A x, y, z \in Seq(T) : x \o y = x \o z => y = z
    BY ConcatSimplifications
  <2>. QED
    BY <2>4, <2>6, <2>7, <2>8, Zenon
<1>. QED
  BY <1>4, <1>5

-----------------------------------------------------------------------------
(* Packets                                                                  *)

\* The packets of one direction: numbered in the order they were built.
Numbered(packets) ==
  /\ packets \in Seq(Seq(Bytes))
  /\ \A i \in 1 .. Len(packets) : \E code \in Codes, size \in PayloadSizes :
       packets[i] = buildPacket(i, code, size)

LEMMA SizesAreNumbers ==
  HeaderSize \in Nat /\ HeaderSize > 0 /\ \A size \in PayloadSizes : size \in Nat
  BY FramingConstants

LEMMA PacketShape ==
  ASSUME NEW id \in Nat, NEW code \in Codes, NEW size \in PayloadSizes
  PROVE  LET p == buildPacket(id, code, size)
         IN  /\ p \in Seq(Bytes) /\ Len(p) = HeaderSize + size
             /\ \A i \in 1 .. HeaderSize + size :
                  p[i] = [packet |-> id, code |-> code, size |-> size, at |-> i]
<1>. DEFINE n == HeaderSize + size
            p == [i \in 1 .. n |-> [packet |-> id, code |-> code, size |-> size, at |-> i]]
<1>1. n \in Nat
  BY SizesAreNumbers
<1>2. \A i \in 1 .. n :
        [packet |-> id, code |-> code, size |-> size, at |-> i] \in Bytes
  BY <1>1 DEF Bytes
<1>. HIDE DEF n
<1>3. p \in Seq(Bytes) /\ Len(p) = n
  BY <1>1, <1>2
<1>. QED
  BY <1>3 DEF buildPacket, n

\* The first bytes of a packet are a header that tells its size and its code.
LEMMA HeaderTells ==
  ASSUME NEW t \in Seq(Bytes), Len(t) >= HeaderSize,
         NEW id \in Nat, NEW code \in Codes, NEW size \in PayloadSizes,
         \A i \in 1 .. HeaderSize : t[i] = buildPacket(id, code, size)[i]
  PROVE  /\ IsHeader(t) /\ payloadSize(t) = size /\ packetSize(t) = HeaderSize + size
         /\ t[1].size = size /\ t[1].code = code
<1>1. HeaderSize \in Nat /\ HeaderSize > 0 /\ size \in Nat
  BY SizesAreNumbers
<1>2. \A i \in 1 .. HeaderSize :
        t[i] = [packet |-> id, code |-> code, size |-> size, at |-> i]
  <2>1. \A i \in 1 .. HeaderSize : i \in 1 .. HeaderSize + size
    BY <1>1
  <2>. QED
    BY <2>1, PacketShape
<1>3. t[1] = [packet |-> id, code |-> code, size |-> size, at |-> 1]
  BY <1>1, <1>2
<1>4. IsHeader(t)
  BY <1>2, <1>3 DEF IsHeader
<1>. QED
  BY <1>3, <1>4 DEF payloadSize, packetSize

\* The next packet of a stream, and the stream behind it.
LEMMA NextPacket ==
  ASSUME NEW packets \in Seq(Seq(Bytes)), NEW k \in 0 .. Len(packets), k < Len(packets)
  PROVE  FlattenSeq(From(packets, k)) = packets[k + 1] \o FlattenSeq(From(packets, k + 1))
<1>. DEFINE T == Seq(Bytes)
            e == packets[k + 1]
            b == From(packets, k + 1)
<1>1. e \in T /\ b \in Seq(T)
  <2>1. k + 1 \in 1 .. Len(packets) /\ k + 1 \in 0 .. Len(packets)
    OBVIOUS
  <2>2. b \in Seq(T)
    BY <2>1, FromWithin
  <2>. QED
    BY <2>1, <2>2
<1>2. From(packets, k) = <<e>> \o b
  <2>1. k + 1 \in 1 .. Len(packets) /\ Len(packets) \in k + 1 .. Len(packets)
    OBVIOUS
  <2>. QED
    BY <2>1, SubSeqRecursiveFirst DEF From
<1>. HIDE DEF e, b
<1>3. <<e>> \in Seq(T) /\ <<e>> = Append(<<>>, e) /\ <<>> \in Seq(T)
  BY <1>1
<1>4. FlattenSeq(<<e>> \o b) = FlattenSeq(<<e>>) \o FlattenSeq(b)
  BY <1>1, <1>3, FlattenConcat
<1>5. FlattenSeq(Append(<<>>, e)) = FlattenSeq(<<>>) \o e
  BY <1>1, <1>3, FlattenAppend
<1>6. <<>> \o e = e
  BY <1>1, ConcatEmptySeq
<1>7. FlattenSeq(<<e>>) = e
  BY <1>3, <1>5, <1>6, FlattenEmpty
<1>. QED
  BY <1>2, <1>4, <1>7 DEF e, b

LEMMA StreamEnds ==
  ASSUME NEW packets \in Seq(Seq(Bytes))
  PROVE  FlattenSeq(From(packets, Len(packets))) = <<>>
  BY FromEnd, FlattenEmpty

\* What is appended to the packets is appended to the stream.
LEMMA StreamGrows ==
  ASSUME NEW packets \in Seq(Seq(Bytes)), NEW more \in Seq(Seq(Bytes)),
         NEW k \in 0 .. Len(packets)
  PROVE  FlattenSeq(From(packets \o more, k))
           = FlattenSeq(From(packets, k)) \o FlattenSeq(more)
<1>1. From(packets \o more, k) = From(packets, k) \o more
  BY FromConcat
<1>2. From(packets, k) \in Seq(Seq(Bytes))
  BY FromWithin
<1>. QED
  BY <1>1, <1>2, FlattenConcat

LEMMA StreamGrowsByOne ==
  ASSUME NEW packets \in Seq(Seq(Bytes)), NEW p \in Seq(Bytes),
         NEW k \in 0 .. Len(packets)
  PROVE  FlattenSeq(From(Append(packets, p), k)) = FlattenSeq(From(packets, k)) \o p
<1>1. Append(packets, p) = packets \o <<p>> /\ <<p>> \in Seq(Seq(Bytes))
  BY AppendIsConcat
<1>2. FlattenSeq(<<p>>) = p
  <2>1. <<p>> = Append(<<>>, p) /\ <<>> \in Seq(Seq(Bytes))
    OBVIOUS
  <2>2. FlattenSeq(Append(<<>>, p)) = FlattenSeq(<<>>) \o p
    BY <2>1, FlattenAppend
  <2>. QED
    BY <2>1, <2>2, FlattenEmpty, ConcatEmptySeq
<1>. QED
  BY <1>1, <1>2, StreamGrows

\* Where a stream begins with a whole packet, the code finds it and cuts it off.
LEMMA CutOne ==
  ASSUME NEW packets, Numbered(packets), NEW k \in 0 .. Len(packets),
         NEW t \in Seq(Bytes), NEW u \in Seq(Bytes),
         t \o u = FlattenSeq(From(packets, k)), complete(t)
  PROVE  /\ k < Len(packets)
         /\ packetSize(t) \in 1 .. Len(t)
         /\ SubSeq(t, 1, packetSize(t)) = packets[k + 1]
         /\ From(t, packetSize(t)) \o u = FlattenSeq(From(packets, k + 1))
<1>1. /\ HeaderSize \in Nat /\ HeaderSize > 0 /\ packets \in Seq(Seq(Bytes))
      /\ Len(t) \in Nat /\ Len(u) \in Nat /\ Len(packets) \in Nat /\ Len(t) >= HeaderSize
  BY SizesAreNumbers DEF Numbered, complete
<1>2. k < Len(packets)
  <2>. SUFFICES ASSUME k = Len(packets) PROVE FALSE
    BY <1>1
  <2>1. t \o u = <<>>
    BY <1>1, StreamEnds
  <2>2. Len(t \o u) = Len(t) + Len(u)
    BY ConcatProperties
  <2>. QED
    BY <1>1, <2>1, <2>2
<1>3. PICK code \in Codes, size \in PayloadSizes :
        packets[k + 1] = buildPacket(k + 1, code, size)
  <2>1. k + 1 \in 1 .. Len(packets)
    BY <1>1, <1>2
  <2>. QED
    BY <2>1 DEF Numbered
<1>. DEFINE p == packets[k + 1]
            q == FlattenSeq(From(packets, k + 1))
<1>4. p \in Seq(Bytes) /\ Len(p) = HeaderSize + size /\ size \in Nat
  <2>1. k + 1 \in Nat
    BY <1>1
  <2>. QED
    BY <1>3, <2>1, PacketShape, SizesAreNumbers
<1>5. q \in Seq(Bytes) /\ t \o u = p \o q
  <2>1. k + 1 \in Nat
    BY <1>1
  <2>2. From(packets, k + 1) \in Seq(Seq(Bytes))
    BY <1>1, <2>1, FromTyped
  <2>. QED
    BY <1>1, <1>2, <2>2, NextPacket, FlattenTyped
<1>. HIDE DEF p, q
<1>6. /\ \A i \in 1 .. Len(t) : i <= Len(p) => t[i] = p[i]
      /\ Len(p) <= Len(t) => SubSeq(t, 1, Len(p)) = p /\ From(t, Len(p)) \o u = q
  BY <1>4, <1>5, SameStart
<1>7. packetSize(t) = Len(p)
  <2>1. \A i \in 1 .. HeaderSize : t[i] = buildPacket(k + 1, code, size)[i]
    <3>1. \A i \in 1 .. HeaderSize : i \in 1 .. Len(t) /\ i <= Len(p)
      BY <1>1, <1>4
    <3>. QED
      BY <1>3, <1>6, <3>1 DEF p
  <2>. DEFINE id == k + 1
  <2>2. id \in Nat /\ \A i \in 1 .. HeaderSize : t[i] = buildPacket(id, code, size)[i]
    BY <1>1, <2>1
  <2>. HIDE DEF id
  <2>3. packetSize(t) = HeaderSize + size
    <3>1. t \in Seq(Bytes) /\ Len(t) >= HeaderSize
      BY <1>1
    <3>. QED
      BY <2>2, <3>1, HeaderTells
  <2>. QED
    BY <1>4, <2>3
<1>8. Len(p) <= Len(t) /\ Len(p) \in 1 .. Len(t)
  <2>1. Len(p) \in Nat /\ Len(t) >= Len(p)
    BY <1>1, <1>4, <1>7 DEF complete
  <2>. QED
    BY <1>1, <1>4, <2>1
<1>. QED
  BY <1>2, <1>6, <1>7, <1>8 DEF p, q

-----------------------------------------------------------------------------
(* processClientIncomingPackets                                             *)

LEMMA NextCutTyped ==
  ASSUME NEW s \in Seq(Bytes), NEW n \in Nat
  PROVE  nextCut(s, n) \in Nat
<1>. DEFINE t == From(s, n)
<1>1. t \in Seq(Bytes)
  BY FromTyped
<1>2. ASSUME complete(t)
      PROVE  packetSize(t) \in Nat
  <2>1. HeaderSize \in Nat /\ HeaderSize > 0
    BY SizesAreNumbers
  <2>2. t[1] \in Bytes
    BY <1>1, <1>2, <2>1 DEF complete
  <2>3. t[1].size \in Nat
    BY <2>2, SizesAreNumbers DEF Bytes
  <2>. HIDE DEF t
  <2>. QED
    BY <2>1, <2>3 DEF packetSize, payloadSize
<1>. QED
  BY <1>2 DEF nextCut

LEMMA CutsSteps ==
  ASSUME NEW s \in Seq(Bytes)
  PROVE  /\ Cuts(s)[0] = 0
         /\ \A n \in 1 .. Len(s) : Cuts(s)[n] = nextCut(s, Cuts(s)[n - 1])
<1>. DEFINE N == Len(s)
            V == Nat
            step == [n \in 1 .. N |-> [v \in V |-> nextCut(s, v)]]
            base == 0
<1>1. N \in Nat /\ base \in V
  OBVIOUS
<1>2. step \in [1 .. N -> [V -> V]]
  BY NextCutTyped
<1>3. \A n \in 1 .. N, v \in V : step[n][v] = nextCut(s, v)
  OBVIOUS
<1>. HIDE DEF N, V, step, base
<1>4. PICK f \in [0 .. N -> V] :
        f[0] = base /\ \A n \in 1 .. N : f[n] = step[n][f[n - 1]]
  BY <1>1, <1>2, RecursiveFunction
<1>. DEFINE Solves(g) == g = [n \in 0 .. N |-> IF n = 0 THEN 0 ELSE nextCut(s, g[n - 1])]
            cutAt == CHOOSE g : Solves(g)
<1>5. Solves(f)
  <2>1. \A n \in 1 .. N : f[n - 1] \in V
    BY <1>1
  <2>2. \A n \in 1 .. N : f[n] = nextCut(s, f[n - 1])
    BY <1>3, <1>4, <2>1
  <2>3. \A n \in 0 .. N : f[n] = IF n = 0 THEN 0 ELSE nextCut(s, f[n - 1])
    BY <1>1, <1>4, <2>2 DEF base
  <2>. QED
    BY <2>3
<1>6. Solves(cutAt)
  <2>. HIDE DEF Solves
  <2>. QED
    BY <1>5, Zenon
<1>7. Cuts(s) = cutAt
  BY DEF Cuts, N
<1>. HIDE DEF cutAt
<1>8. cutAt[0] = 0 /\ \A n \in 1 .. N : cutAt[n] = nextCut(s, cutAt[n - 1])
  BY <1>1, <1>6
<1>. QED
  BY <1>7, <1>8 DEF N

\* Where the first n iterations have cut: j of them dispatched a packet, and
\* either all did, or what is left begins with no whole packet.
CutTo(s, u, packets, k, n, j) ==
  LET C == Cuts(s)
  IN  /\ k + j <= Len(packets)
      /\ C[j] \in j .. Len(s)
      /\ From(s, C[j]) \o u = FlattenSeq(From(packets, k + j))
      /\ \A m \in 1 .. j : /\ C[m - 1] \in 0 .. Len(s) /\ C[m] # C[m - 1]
                           /\ SubSeq(s, C[m - 1] + 1, C[m]) = packets[k + m]
      /\ j < n => ~complete(From(s, C[j])) /\ \A m \in j .. n : C[m] = C[j]

LEMMA CutsProgress ==
  ASSUME NEW packets, Numbered(packets), NEW k \in 0 .. Len(packets),
         NEW s \in Seq(Bytes), NEW u \in Seq(Bytes),
         s \o u = FlattenSeq(From(packets, k)),
         NEW n \in 0 .. Len(s)
  PROVE  \E j \in 0 .. n : CutTo(s, u, packets, k, n, j)
<1>. DEFINE C == Cuts(s)
            N == Len(s)
            P(m) == m <= N => \E j \in 0 .. m : CutTo(s, u, packets, k, m, j)
            Good == {m \in Nat : P(m)}
<1>1. N \in Nat /\ k \in Nat /\ n \in Nat /\ n <= N
  OBVIOUS
<1>2. C[0] = 0 /\ \A m \in 1 .. N : C[m] = nextCut(s, C[m - 1])
  BY CutsSteps
<1>3. 0 \in Good
  <2>1. From(s, 0) = s
    BY FromStart
  <2>2. CutTo(s, u, packets, k, 0, 0)
    BY <1>1, <1>2, <2>1 DEF CutTo
  <2>. QED
    BY <2>2
<1>4. ASSUME NEW m \in Nat, m \in Good
      PROVE  m + 1 \in Good
  <2>. SUFFICES ASSUME m + 1 <= N
                PROVE  \E j \in 0 .. m + 1 : CutTo(s, u, packets, k, m + 1, j)
    OBVIOUS
  <2>1. PICK j \in 0 .. m : CutTo(s, u, packets, k, m, j)
    BY <1>1, <1>4
  <2>2. C[m + 1] = nextCut(s, C[m])
    <3>1. m + 1 \in 1 .. N /\ (m + 1) - 1 = m
      BY <1>1
    <3>. QED
      BY <1>2, <3>1
  <2>3. CASE j < m
    <3>1. C[m] = C[j] /\ ~complete(From(s, C[j])) /\ \A i \in j .. m : C[i] = C[j]
      BY <2>1, <2>3 DEF CutTo
    <3>2. C[m + 1] = C[j]
      BY <2>2, <3>1 DEF nextCut
    <3>3. \A i \in j .. m + 1 : C[i] = C[j]
      BY <3>1, <3>2
    <3>. HIDE DEF C
    <3>4. CutTo(s, u, packets, k, m + 1, j)
      BY <2>1, <3>1, <3>3 DEF CutTo, C
    <3>. QED
      BY <3>4
  <2>4. CASE j = m /\ ~complete(From(s, C[m]))
    <3>1. C[m + 1] = C[m]
      BY <2>2, <2>4 DEF nextCut
    <3>2. \A i \in m .. m + 1 : C[i] = C[m]
      BY <3>1
    <3>. HIDE DEF C
    <3>3. CutTo(s, u, packets, k, m + 1, m)
      BY <2>1, <2>4, <3>2 DEF CutTo, C
    <3>. QED
      BY <3>3
  <2>5. CASE j = m /\ complete(From(s, C[m]))
    <3>. DEFINE c == C[m]
                t == From(s, c)
                z == packetSize(t)
    <3>1. /\ k + m <= Len(packets) /\ c \in m .. N
          /\ t \o u = FlattenSeq(From(packets, k + m))
          /\ \A i \in 1 .. m : /\ C[i - 1] \in 0 .. N /\ C[i] # C[i - 1]
                               /\ SubSeq(s, C[i - 1] + 1, C[i]) = packets[k + i]
      BY <2>1, <2>5 DEF CutTo
    <3>2. C[m + 1] = c + z
      BY <2>2, <2>5 DEF nextCut
    <3>. HIDE DEF C, c
    <3>3. c \in 0 .. N /\ c \in Nat /\ k + m \in 0 .. Len(packets)
      BY <1>1, <3>1
    <3>4. t \in Seq(Bytes) /\ Len(t) = N - c
      BY <3>3, FromWithin
    <3>5. complete(t)
      BY <2>5 DEF c
    <3>. HIDE DEF t
    <3>6. /\ k + m < Len(packets)
          /\ z \in 1 .. Len(t)
          /\ SubSeq(t, 1, z) = packets[(k + m) + 1]
          /\ From(t, z) \o u = FlattenSeq(From(packets, (k + m) + 1))
      <4>. DEFINE i == k + m
      <4>1. i \in 0 .. Len(packets) /\ t \o u = FlattenSeq(From(packets, i))
        BY <3>1, <3>3
      <4>. HIDE DEF i
      <4>2. /\ i < Len(packets)
            /\ packetSize(t) \in 1 .. Len(t)
            /\ SubSeq(t, 1, packetSize(t)) = packets[i + 1]
            /\ From(t, packetSize(t)) \o u = FlattenSeq(From(packets, i + 1))
        BY <3>4, <3>5, <4>1, CutOne
      <4>. QED
        BY <4>2 DEF i
    <3>. HIDE DEF z
    <3>7. From(t, z) = From(s, c + z) /\ SubSeq(t, 1, z) = SubSeq(s, c + 1, c + z)
      <4>1. z \in 0 .. N - c
        BY <1>1, <3>3, <3>4, <3>6
      <4>. QED
        BY <3>3, <4>1, FromFrom DEF t
    <3>8. (k + m) + 1 = k + (m + 1) /\ (m + 1) - 1 = m
      BY <1>1
    <3>9. C[m + 1] \in m + 1 .. N /\ C[m + 1] # C[m]
      <4>1. c \in m .. N /\ z \in 1 .. N - c
        BY <3>1, <3>4, <3>6
      <4>2. c + z \in m + 1 .. N /\ c + z # c
        BY <1>1, <4>1
      <4>. QED
        BY <3>2, <4>2 DEF c
    <3>10. SubSeq(s, C[m] + 1, C[m + 1]) = packets[k + (m + 1)]
      BY <3>2, <3>6, <3>7, <3>8 DEF c
    <3>11. From(s, C[m + 1]) \o u = FlattenSeq(From(packets, k + (m + 1)))
      BY <3>2, <3>6, <3>7, <3>8
    <3>12. ASSUME NEW i \in 1 .. m + 1
           PROVE  /\ C[i - 1] \in 0 .. N /\ C[i] # C[i - 1]
                  /\ SubSeq(s, C[i - 1] + 1, C[i]) = packets[k + i]
      <4>1. CASE i \in 1 .. m
        BY <3>1, <4>1
      <4>2. CASE i = m + 1
        BY <3>3, <3>8, <3>9, <3>10, <4>2 DEF c
      <4>. QED
        BY <4>1, <4>2
    <3>13. k + (m + 1) <= Len(packets)
      BY <1>1, <3>6
    <3>14. CutTo(s, u, packets, k, m + 1, m + 1)
      <4>1. ~(m + 1 < m + 1)
        OBVIOUS
      <4>. QED
        BY <3>9, <3>11, <3>12, <3>13, <4>1, Zenon DEF CutTo, C
    <3>. QED
      BY <3>14
  <2>. QED
    BY <2>3, <2>4, <2>5
<1>. HIDE DEF Good
<1>5. n \in Good
  BY <1>1, <1>3, <1>4, Induction
<1>. QED
  BY <1>1, <1>5 DEF Good

\* The loop dispatches the packets that are complete, in order, and leaves the
\* beginning of one that is not.
LEMMA CutAll ==
  ASSUME NEW packets, Numbered(packets), NEW k \in 0 .. Len(packets),
         NEW s \in Seq(Bytes), NEW u \in Seq(Bytes),
         s \o u = FlattenSeq(From(packets, k))
  PROVE  /\ iterations(s) \in Nat /\ k + iterations(s) <= Len(packets)
         /\ cutPackets(s) = SubSeq(packets, k + 1, k + iterations(s))
         /\ rest(s) \in Seq(Bytes) /\ ~complete(rest(s))
         /\ rest(s) \o u = FlattenSeq(From(packets, k + iterations(s)))
<1>. DEFINE C == Cuts(s)
            N == Len(s)
<1>1. N \in Nat /\ N \in 0 .. N /\ k \in Nat
  OBVIOUS
<1>2. PICK j \in 0 .. N : CutTo(s, u, packets, k, N, j)
  BY <1>1, CutsProgress
<1>3. /\ k + j <= Len(packets)
      /\ C[j] \in j .. N
      /\ From(s, C[j]) \o u = FlattenSeq(From(packets, k + j))
      /\ \A m \in 1 .. j : /\ C[m - 1] \in 0 .. N /\ C[m] # C[m - 1]
                           /\ SubSeq(s, C[m - 1] + 1, C[m]) = packets[k + m]
      /\ j < N => ~complete(From(s, C[j])) /\ \A m \in j .. N : C[m] = C[j]
  BY <1>2, Zenon DEF CutTo
<1>. HIDE DEF C
<1>4. Iterations(s) = 1 .. j
  <2>1. ASSUME NEW m \in j + 1 .. N
        PROVE  C[m] = C[m - 1]
    <3>1. j < N /\ m \in j .. N /\ m - 1 \in j .. N
      BY <1>1
    <3>. QED
      BY <1>3, <3>1
  <2>2. \A m \in 1 .. N : C[m] # C[m - 1] <=> m \in 1 .. j
    BY <1>1, <1>3, <2>1
  <2>3. 1 .. j \subseteq 1 .. N
    BY <1>1
  <2>. QED
    BY <2>2, <2>3 DEF Iterations, C
<1>5. iterations(s) = j
  <2>1. j \in Nat /\ j >= 1 => Cardinality(1 .. j) = j
    BY FS_Interval
  <2>2. j = 0 => 1 .. j = {}
    OBVIOUS
  <2>. QED
    BY <1>4, <2>1, <2>2, FS_EmptySet DEF iterations
<1>6. ~complete(From(s, C[j]))
  <2>1. CASE j < N
    BY <1>3, <2>1
  <2>2. CASE j = N
    <3>1. C[j] = N
      BY <1>1, <1>3, <2>2
    <3>2. From(s, N) = <<>> /\ Len(<<>>) = 0
      BY FromEnd
    <3>. QED
      BY <3>1, <3>2, SizesAreNumbers DEF complete
  <2>. QED
    BY <1>1, <2>1, <2>2
<1>7. rest(s) = From(s, C[j])
  BY <1>5 DEF rest, C
<1>8. rest(s) \in Seq(Bytes)
  <2>1. C[j] \in 0 .. N
    BY <1>1, <1>3
  <2>. QED
    BY <1>7, <2>1, FromWithin
<1>9. cutPackets(s) = SubSeq(packets, k + 1, k + j)
  <2>. DEFINE a == [m \in 1 .. j |-> SubSeq(s, C[m - 1] + 1, C[m])]
              b == SubSeq(packets, k + 1, k + j)
  <2>1. packets \in Seq(Seq(Bytes)) /\ \A m \in k + 1 .. k + j : packets[m] \in Seq(Bytes)
    BY <1>1, <1>3 DEF Numbered
  <2>2. b \in Seq(Seq(Bytes)) /\ Len(b) = j /\ \A m \in 1 .. j : b[m] = packets[k + m]
    <3>1. /\ b \in Seq(Seq(Bytes))
          /\ Len(b) = IF k + 1 <= k + j THEN (k + j) - (k + 1) + 1 ELSE 0
          /\ \A m \in 1 .. (k + j) - (k + 1) + 1 : b[m] = packets[(k + 1) + m - 1]
      BY <1>1, <2>1, SubSeqProperties
    <3>. HIDE DEF b
    <3>2. j \in Nat /\ (k + j) - (k + 1) + 1 = j
      BY <1>1
    <3>3. Len(b) = j
      BY <1>1, <3>1, <3>2
    <3>4. \A m \in 1 .. j : (k + 1) + m - 1 = k + m
      BY <1>1
    <3>. QED
      BY <3>1, <3>2, <3>3, <3>4
  <2>. HIDE DEF b
  <2>3. \A m \in 1 .. j : a[m] = packets[k + m] /\ packets[k + m] \in Seq(Bytes)
    <3>1. \A m \in 1 .. j : a[m] = packets[k + m]
      BY <1>3
    <3>2. \A m \in 1 .. j : k + m \in k + 1 .. k + j
      BY <1>1
    <3>. QED
      BY <2>1, <3>1, <3>2
  <2>4. a \in Seq(Seq(Bytes)) /\ Len(a) = j
    <3>1. \A m \in 1 .. j : SubSeq(s, C[m - 1] + 1, C[m]) = packets[k + m]
      BY <1>3
    <3>2. \A m \in 1 .. j : SubSeq(s, C[m - 1] + 1, C[m]) \in Seq(Bytes)
      BY <2>3, <3>1
    <3>3. j \in Nat
      BY <1>1
    <3>. QED
      BY <3>2, <3>3
  <2>5. cutPackets(s) = a
    BY <1>5 DEF cutPackets, C
  <2>. HIDE DEF a
  <2>6. a = b
    <3>1. Len(a) = Len(b) /\ \A m \in 1 .. Len(a) : a[m] = b[m]
      BY <2>2, <2>3, <2>4
    <3>. HIDE DEF C
    <3>. QED
      BY <2>2, <2>4, <3>1, SeqEqual
  <2>. QED
    BY <2>5, <2>6 DEF b
<1>10. From(s, C[j]) \o u = FlattenSeq(From(packets, k + j))
  BY <1>3
<1>11. j \in Nat /\ k + j <= Len(packets)
  BY <1>1, <1>3
<1>. QED
  BY <1>5, <1>6, <1>7, <1>8, <1>9, <1>10, <1>11, Zenon

-----------------------------------------------------------------------------
(* Towards the server                                                       *)

CommandsNumbered ==
  /\ Numbered(commands)
  /\ Len(commands) <= MaxCommands

\* What has been sent and not been dispatched is what is under way, and no
\* whole packet waits in the incoming buffer.
UpStreamKept ==
  client # "off" =>
    /\ Len(dispatched) <= Len(commands)
    /\ dispatched = SubSeq(commands, 1, Len(dispatched))
    /\ incoming \o up = FlattenSeq(From(commands, Len(dispatched)))
    /\ ~complete(incoming)

UpInv ==
  /\ incoming \in Seq(Bytes) /\ up \in Seq(Bytes)
  /\ dispatched \in Seq(Seq(Bytes))
  /\ CommandsNumbered
  /\ UpStreamKept
  /\ client = "off" => incoming = <<>> /\ up = <<>>

LEMMA UpUntouched ==
  ASSUME UpInv, UNCHANGED <<incoming, up, commands, dispatched>>,
         client' = "off" <=> client = "off"
  PROVE  UpInv' /\ [UpStream!Next]_<<commands, dispatched>>
  BY DEF UpInv, CommandsNumbered, UpStreamKept, Numbered, complete, packetSize,
         payloadSize, IsHeader

\* A read: everything that has become complete is dispatched.
LEMMA ServerReadKeepsUp ==
  ASSUME UpInv, ServerRead
  PROVE  UpInv' /\ [UpStream!Next]_<<commands, dispatched>>
<1>. DEFINE d == Len(dispatched)
<1>1. /\ incoming \in Seq(Bytes) /\ up \in Seq(Bytes) /\ Numbered(commands)
      /\ commands \in Seq(Seq(Bytes)) /\ Len(commands) \in Nat
      /\ d \in Nat /\ d \in 0 .. Len(commands) /\ client # "off"
      /\ dispatched = SubSeq(commands, 1, d)
      /\ incoming \o up = FlattenSeq(From(commands, d))
      /\ client' = client /\ commands' = commands
  BY DEF UpInv, UpStreamKept, CommandsNumbered, Numbered, ServerRead, clientVars
<1>2. PICK n \in 1 .. Len(up) :
        LET s == incoming \o SubSeq(up, 1, n)
        IN  up' = From(up, n) /\ incoming' = rest(s)
            /\ dispatched' = dispatched \o cutPackets(s)
  BY DEF ServerRead
<1>. DEFINE s == incoming \o SubSeq(up, 1, n)
            j == iterations(s)
<1>3. n \in 0 .. Len(up)
  OBVIOUS
<1>4. /\ SubSeq(up, 1, n) \in Seq(Bytes) /\ up' \in Seq(Bytes)
      /\ SubSeq(up, 1, n) \o up' = up
  BY <1>1, <1>2, <1>3, Halves, FromWithin
<1>5. s \in Seq(Bytes) /\ s \o up' = incoming \o up
  <2>. DEFINE a == SubSeq(up, 1, n)
  <2>1. a \in Seq(Bytes) /\ a \o up' = up
    BY <1>4
  <2>2. incoming \in Seq(Bytes) /\ up' \in Seq(Bytes)
    BY <1>1, <1>4
  <2>. HIDE DEF a
  <2>3. (incoming \o a) \o up' = incoming \o (a \o up')
    BY <2>1, <2>2, Regroup, Zenon
  <2>4. incoming \o a \in Seq(Bytes)
    BY <2>1, <2>2, Joined, Zenon
  <2>. QED
    BY <2>1, <2>3, <2>4, Zenon DEF a
<1>. HIDE DEF s
<1>6. /\ j \in Nat /\ d + j <= Len(commands)
      /\ cutPackets(s) = SubSeq(commands, d + 1, d + j)
      /\ rest(s) \in Seq(Bytes) /\ ~complete(rest(s))
      /\ rest(s) \o up' = FlattenSeq(From(commands, d + j))
  <2>. HIDE DEF d
  <2>1. s \o up' = FlattenSeq(From(commands, d))
    BY <1>1, <1>5
  <2>2. /\ Numbered(commands) /\ d \in 0 .. Len(commands) /\ s \in Seq(Bytes)
        /\ up' \in Seq(Bytes)
    BY <1>1, <1>4, <1>5
  <2>. QED
    BY <2>1, <2>2, CutAll, Zenon
<1>7. incoming' = rest(s) /\ dispatched' = dispatched \o cutPackets(s)
  BY <1>2 DEF s
<1>. HIDE DEF d, j
<1>8. dispatched' = SubSeq(commands, 1, d + j)
  <2>1. 1 \in 1 .. Len(commands) + 1 /\ d \in 1 - 1 .. Len(commands)
        /\ d + j \in d .. Len(commands)
    BY <1>1, <1>6
  <2>2. SubSeq(commands, 1, d) \o SubSeq(commands, d + 1, d + j)
          = SubSeq(commands, 1, d + j)
    BY <1>1, <2>1, ConcatAdjacentSubSeq
  <2>. QED
    BY <1>1, <1>6, <1>7, <2>2
<1>9. dispatched' \in Seq(Seq(Bytes)) /\ Len(dispatched') = d + j
  <2>1. d + j \in 0 .. Len(commands)
    BY <1>1, <1>6
  <2>. QED
    BY <1>1, <1>8, <2>1, Halves
<1>10. ~complete(incoming)'
  BY <1>6, <1>7 DEF complete, packetSize, payloadSize, IsHeader
<1>11. UpStreamKept'
  <2>1. (incoming \o up)' = FlattenSeq(From(commands', Len(dispatched')))
    BY <1>1, <1>6, <1>7, <1>9
  <2>2. Len(dispatched') <= Len(commands')
        /\ dispatched' = SubSeq(commands', 1, Len(dispatched'))
    BY <1>1, <1>6, <1>8, <1>9
  <2>. QED
    BY <1>10, <2>1, <2>2 DEF UpStreamKept
<1>12. CommandsNumbered'
  BY <1>1 DEF UpInv, CommandsNumbered, Numbered
<1>13. UpInv'
  BY <1>1, <1>4, <1>6, <1>7, <1>9, <1>11, <1>12 DEF UpInv
<1>14. [UpStream!Next]_<<commands, dispatched>>
  <2>1. CASE j = 0
    BY <1>1, <1>6, <1>8, <2>1
  <2>2. CASE j # 0
    <3>1. d + j \in 1 .. Len(commands) /\ d + j > d
      BY <1>1, <1>6, <2>2
    <3>2. UpStream!Receive(d + j)
      BY <1>1, <1>8, <3>1 DEF UpStream!Receive, d
    <3>. QED
      BY <3>1, <3>2 DEF UpStream!Next
  <2>. QED
    BY <2>1, <2>2
<1>. QED
  BY <1>13, <1>14

LEMMA ClientSendKeepsUp ==
  ASSUME UpInv, ClientSend
  PROVE  UpInv' /\ [UpStream!Next]_<<commands, dispatched>>
<1>. DEFINE d == Len(dispatched)
            id == Len(commands) + 1
<1>1. /\ incoming \in Seq(Bytes) /\ up \in Seq(Bytes) /\ Numbered(commands)
      /\ commands \in Seq(Seq(Bytes)) /\ Len(commands) \in Nat
      /\ d \in Nat /\ d \in 0 .. Len(commands) /\ client # "off"
      /\ dispatched = SubSeq(commands, 1, d)
      /\ incoming \o up = FlattenSeq(From(commands, d))
      /\ client' = "command" /\ incoming' = incoming /\ dispatched' = dispatched
      /\ Len(commands) < MaxCommands /\ MaxCommands \in Nat
  BY FramingConstants DEF UpInv, UpStreamKept, CommandsNumbered, Numbered, ClientSend,
     serverVars
<1>2. PICK size \in PayloadSizes :
        LET command == buildPacket(id, "command", size)
        IN  commands' = Append(commands, command) /\ up' = up \o command
  BY DEF ClientSend
<1>. DEFINE p == buildPacket(id, "command", size)
<1>3. p \in Seq(Bytes) /\ id \in Nat /\ "command" \in Codes
  <2>1. id \in Nat /\ "command" \in Codes
    BY <1>1 DEF Codes
  <2>. QED
    BY <2>1, PacketShape
<1>4. commands' = Append(commands, p) /\ up' = up \o p
  BY <1>2
<1>5. /\ commands' \in Seq(Seq(Bytes)) /\ Len(commands') = Len(commands) + 1
      /\ commands'[id] = p /\ \A i \in 1 .. Len(commands) : commands'[i] = commands[i]
  <2>. HIDE DEF p
  <2>. QED
    BY <1>1, <1>3, <1>4
<1>6. CommandsNumbered'
  <2>1. ASSUME NEW i \in 1 .. Len(commands')
        PROVE  \E code \in Codes, z \in PayloadSizes : commands'[i] = buildPacket(i, code, z)
    <3>1. CASE i = id
      BY <1>3, <1>5, <3>1
    <3>2. CASE i # id
      <4>1. i \in 1 .. Len(commands)
        BY <1>1, <1>5, <3>2
      <4>. QED
        BY <1>1, <1>5, <4>1 DEF Numbered
    <3>. QED
      BY <3>1, <3>2
  <2>2. Len(commands') <= MaxCommands
    BY <1>1, <1>5
  <2>. QED
    BY <1>5, <2>1, <2>2 DEF CommandsNumbered, Numbered
<1>. HIDE DEF p, id
<1>7. UpStreamKept'
  <2>. HIDE DEF d
  <2>1. FlattenSeq(From(commands', d)) = FlattenSeq(From(commands, d)) \o p
    BY <1>1, <1>3, <1>4, StreamGrowsByOne
  <2>2. incoming \o (up \o p) = (incoming \o up) \o p
    <3>1. incoming \in Seq(Bytes) /\ up \in Seq(Bytes) /\ p \in Seq(Bytes)
      BY <1>1, <1>3
    <3>2. (incoming \o up) \o p = incoming \o (up \o p)
      BY <3>1, Regroup, Zenon
    <3>. QED
      BY <3>2, Zenon
  <2>3. (incoming \o up)' = FlattenSeq(From(commands', d))
    BY <1>1, <1>4, <2>1, <2>2
  <2>4. dispatched' = SubSeq(commands', 1, d) /\ d <= Len(commands')
    <3>1. SubSeq(commands', 1, d) = SubSeq(commands, 1, d)
      <4>1. d \in 0 .. Len(commands')
        BY <1>1, <1>5
      <4>2. /\ SubSeq(commands', 1, d) \in Seq(Seq(Bytes)) /\ Len(SubSeq(commands', 1, d)) = d
            /\ \A i \in 1 .. d : SubSeq(commands', 1, d)[i] = commands'[i]
        BY <1>5, <4>1, Halves
      <4>3. /\ SubSeq(commands, 1, d) \in Seq(Seq(Bytes)) /\ Len(SubSeq(commands, 1, d)) = d
            /\ \A i \in 1 .. d : SubSeq(commands, 1, d)[i] = commands[i]
        BY <1>1, Halves
      <4>4. \A i \in 1 .. d : SubSeq(commands', 1, d)[i] = SubSeq(commands, 1, d)[i]
        BY <1>1, <1>5, <4>2, <4>3
      <4>. QED
        BY <4>2, <4>3, <4>4, SeqEqual
    <3>. QED
      BY <1>1, <1>5, <3>1
  <2>5. ~complete(incoming)'
    BY <1>1 DEF UpInv, UpStreamKept, complete, packetSize, payloadSize, IsHeader
  <2>. QED
    BY <1>1, <2>3, <2>4, <2>5 DEF UpStreamKept, d
<1>8. UpInv'
  BY <1>1, <1>3, <1>4, <1>6, <1>7 DEF UpInv
<1>9. UpStream!Send(p)
  BY <1>1, <1>4 DEF UpStream!Send
<1>10. p \in {buildPacket(i, "command", z) : i \in 1 .. MaxCommands, z \in PayloadSizes}
  <2>1. id \in 1 .. MaxCommands
    BY <1>1 DEF id
  <2>. QED
    BY <2>1 DEF p
<1>. QED
  BY <1>8, <1>9, <1>10 DEF UpStream!Next

LEMMA ConnectKeepsUp ==
  ASSUME UpInv, Connect
  PROVE  UpInv' /\ [UpStream!Next]_<<commands, dispatched>>
<1>1. /\ incoming' = <<>> /\ up' = <<>> /\ commands' = <<>> /\ dispatched' = <<>>
      /\ client' = "idle"
  BY DEF UpInv, Connect, serverVars
<1>2. UpStream!End
  BY <1>1 DEF UpStream!End
<1>3. <<>> \in Seq(Seq(Bytes)) /\ <<>> \in Seq(Bytes) /\ Len(<<>>) = 0
  OBVIOUS
<1>4. FlattenSeq(From(<<>>, 0)) = <<>> /\ <<>> \o <<>> = <<>> /\ SubSeq(<<>>, 1, 0) = <<>>
  <2>1. From(<<>>, 0) = <<>> /\ SubSeq(<<>>, 1, 0) = <<>>
    BY <1>3, SubSeqEmpty DEF From
  <2>2. <<>> \o <<>> = <<>>
    BY <1>3, ConcatEmptySeq
  <2>. QED
    BY <2>1, <2>2, FlattenEmpty
<1>5. CommandsNumbered'
  BY <1>1, <1>3, FramingConstants DEF CommandsNumbered, Numbered
<1>6. ~complete(incoming)'
  BY <1>1, <1>3, SizesAreNumbers DEF complete
<1>7. UpStreamKept'
  BY <1>1, <1>3, <1>4, <1>6 DEF UpStreamKept
<1>8. UpInv'
  BY <1>1, <1>3, <1>5, <1>7 DEF UpInv
<1>. QED
  BY <1>2, <1>8 DEF UpStream!Next

LEMMA ServerDropKeepsUp ==
  ASSUME UpInv, ServerDrop
  PROVE  UpInv' /\ [UpStream!Next]_<<commands, dispatched>>
<1>1. /\ incoming' = <<>> /\ up' = <<>> /\ commands' = commands
      /\ dispatched' = dispatched /\ client' = "off"
  BY DEF ServerDrop, upHistory, erasedIncoming
<1>2. <<>> \in Seq(Bytes)
  OBVIOUS
<1>. QED
  BY <1>1, <1>2 DEF UpInv, CommandsNumbered, Numbered, UpStreamKept

LEMMA UpStep ==
  ASSUME UpInv, [Next]_vars
  PROVE  UpInv' /\ [UpStream!Next]_<<commands, dispatched>>
<1>1. CASE ServerRead
  BY <1>1, ServerReadKeepsUp
<1>2. CASE ClientSend
  BY <1>2, ClientSendKeepsUp
<1>3. CASE Connect
  BY <1>3, ConnectKeepsUp
<1>4. CASE ServerDrop
  BY <1>4, ServerDropKeepsUp
<1>5. CASE QueueEvent \/ ServerWrite \/ UNCHANGED vars
  <2>1. UNCHANGED <<incoming, up, commands, dispatched, client>>
    BY <1>5 DEF QueueEvent, ServerWrite, vars, serverVars, clientVars, upHistory
  <2>. QED
    BY <2>1, UpUntouched
<1>6. CASE MoreMissing \/ HeaderRead \/ PayloadRead
  <2>1. UNCHANGED <<incoming, up, commands, dispatched>> /\ Connected
    BY <1>6 DEF MoreMissing, HeaderRead, PayloadRead, serverVars, upHistory
  <2>2. client # "off" /\ client' # "off"
    <3>1. client \in {"idle", "command"}
      BY <2>1 DEF Connected
    <3>2. client' = client \/ client' = "idle"
      BY <1>6 DEF MoreMissing, HeaderRead, PayloadRead, packetRead
    <3>. QED
      BY <3>1, <3>2
  <2>. QED
    BY <2>1, <2>2, UpUntouched
<1>7. CASE CommandTimesOut \/ EventTimesOut \/ Quit
  <2>1. UNCHANGED <<incoming, up, commands, dispatched>>
    BY <1>7 DEF CommandTimesOut, EventTimesOut, Quit, serverVars, upHistory
  <2>2. client # "off" /\ client' # "off"
    BY <1>7 DEF CommandTimesOut, EventTimesOut, Quit, Connected
  <2>. QED
    BY <2>1, <2>2, UpUntouched
<1>. QED
  BY <1>1, <1>2, <1>3, <1>4, <1>5, <1>6, <1>7 DEF Next

-----------------------------------------------------------------------------
(* Towards the client                                                       *)

\* What the client has of the packet it reads, what the kernel holds and what
\* the server still has to write.
pending == ((header \o buffer) \o down) \o outgoing

DownTyped ==
  /\ header \in Seq(Bytes) /\ buffer \in Seq(Bytes)
  /\ down \in Seq(Bytes) /\ outgoing \in Seq(Bytes)
  /\ wantedSize \in Nat
  /\ Numbered(queuedPackets)
  /\ read \in Seq(Seq(Bytes))
  /\ cut \in BOOLEAN

PrefixRead ==
  /\ Len(read) <= Len(queuedPackets)
  /\ read = SubSeq(queuedPackets, 1, Len(read))

\* Unless a packet was cut, what is pending is what was queued and is not read.
DownStreamKept ==
  ~cut => /\ PrefixRead
          /\ client # "off" => pending = FlattenSeq(From(queuedPackets, Len(read)))

\* readExact is after something, and after the header first.
ReaderKept ==
  Connected =>
    /\ Len(buffer) < wantedSize
    /\ header = <<>> => wantedSize = HeaderSize
    /\ header # <<>> /\ ~cut =>
         Len(header) = HeaderSize /\ wantedSize = payloadSize(header)

DownInv ==
  /\ DownTyped
  /\ DownStreamKept
  /\ ReaderKept
  /\ client = "off" => outgoing = <<>> /\ down = <<>>

\* Packets queued at once, and the bytes appended with them.
LEMMA QueueKeepsDown ==
  ASSUME DownInv, client # "off",
         NEW more \in Seq(Seq(Bytes)),
         queuedPackets' = queuedPackets \o more,
         outgoing' = outgoing \o FlattenSeq(more),
         \A i \in 1 .. Len(more) : \E code \in Codes, size \in PayloadSizes :
           more[i] = buildPacket(Len(queuedPackets) + i, code, size),
         UNCHANGED <<down, client, header, buffer, wantedSize, read, cut>>
  PROVE  DownInv'
<1>. DEFINE m == Len(queuedPackets)
            S == Seq(Bytes)
<1>1. /\ queuedPackets \in Seq(S) /\ m \in Nat /\ Len(more) \in Nat
      /\ \A i \in 1 .. m : \E code \in Codes, size \in PayloadSizes :
           queuedPackets[i] = buildPacket(i, code, size)
      /\ read \in Seq(S) /\ Len(read) \in Nat
  <2>1. /\ queuedPackets \in Seq(S) /\ read \in Seq(S)
        /\ \A i \in 1 .. m : \E code \in Codes, size \in PayloadSizes :
             queuedPackets[i] = buildPacket(i, code, size)
    BY Zenon DEF DownInv, DownTyped, Numbered
  <2>2. m \in Nat /\ Len(more) \in Nat /\ Len(read) \in Nat
    BY <2>1, LenProperties
  <2>. QED
    BY <2>1, <2>2
<1>2. /\ queuedPackets' \in Seq(S) /\ Len(queuedPackets') = m + Len(more)
      /\ \A i \in 1 .. m : queuedPackets'[i] = queuedPackets[i]
      /\ \A i \in 1 .. Len(more) : queuedPackets'[m + i] = more[i]
  <2>. HIDE DEF S
  <2>1. /\ queuedPackets \o more \in Seq(S)
        /\ Len(queuedPackets \o more) = m + Len(more)
        /\ \A i \in 1 .. m + Len(more) : (queuedPackets \o more)[i] =
              IF i <= m THEN queuedPackets[i] ELSE more[i - m]
    BY <1>1, ConcatProperties DEF S
  <2>2. \A i \in 1 .. Len(more) : m + i \in 1 .. m + Len(more) /\ ~(m + i <= m) /\ (m + i) - m = i
    BY <1>1
  <2>3. \A i \in 1 .. m : i \in 1 .. m + Len(more) /\ i <= m
    BY <1>1
  <2>. HIDE DEF m
  <2>. QED
    BY <2>1, <2>2, <2>3
<1>3. Numbered(queuedPackets)'
  <2>1. ASSUME NEW i \in 1 .. Len(queuedPackets')
        PROVE  \E code \in Codes, size \in PayloadSizes :
                 queuedPackets'[i] = buildPacket(i, code, size)
    <3>1. CASE i \in 1 .. m
      BY <1>1, <1>2, <3>1
    <3>2. CASE i \notin 1 .. m
      <4>1. i - m \in 1 .. Len(more) /\ m + (i - m) = i
        BY <1>1, <1>2, <3>2
      <4>. DEFINE j == i - m
      <4>2. j \in 1 .. Len(more) /\ m + j = i
        BY <4>1
      <4>. HIDE DEF j
      <4>. QED
        BY <1>2, <4>2
    <3>. QED
      BY <3>1, <3>2
  <2>. QED
    BY <1>2, <2>1 DEF Numbered
<1>4. FlattenSeq(more) \in Seq(Bytes) /\ outgoing \in Seq(Bytes)
      /\ (header \o buffer) \o down \in Seq(Bytes)
  BY FlattenTyped DEF DownInv, DownTyped
<1>5. DownTyped'
  <2>1. outgoing' \in Seq(Bytes)
    BY <1>4, Joined, Zenon
  <2>. QED
    BY <1>3, <2>1 DEF DownInv, DownTyped
<1>6. ASSUME ~cut
      PROVE  PrefixRead' /\ pending' = FlattenSeq(From(queuedPackets', Len(read')))
  <2>. DEFINE k == Len(read)
  <2>1. /\ k \in 0 .. m /\ read = SubSeq(queuedPackets, 1, k)
        /\ pending = FlattenSeq(From(queuedPackets, k))
    BY <1>1, <1>6 DEF DownInv, DownStreamKept, PrefixRead
  <2>. HIDE DEF k
  <2>2. FlattenSeq(From(queuedPackets \o more, k))
          = FlattenSeq(From(queuedPackets, k)) \o FlattenSeq(more)
    BY <1>1, <2>1, StreamGrows
  <2>3. pending' = pending \o FlattenSeq(more)
    <3>. DEFINE a == (header \o buffer) \o down
                b == FlattenSeq(more)
    <3>1. a \in Seq(Bytes) /\ b \in Seq(Bytes) /\ outgoing \in Seq(Bytes)
      BY <1>4
    <3>2. pending' = a \o (outgoing \o b) /\ pending = a \o outgoing
      BY DEF pending
    <3>. HIDE DEF a, b
    <3>3. (a \o outgoing) \o b = a \o (outgoing \o b)
      BY <3>1, Regroup, Zenon
    <3>. QED
      BY <3>2, <3>3, Zenon DEF b
  <2>4. SubSeq(queuedPackets', 1, k) = SubSeq(queuedPackets, 1, k)
    <3>1. k \in 0 .. Len(queuedPackets')
      BY <1>1, <1>2, <2>1
    <3>2. /\ SubSeq(queuedPackets', 1, k) \in Seq(S) /\ Len(SubSeq(queuedPackets', 1, k)) = k
          /\ \A i \in 1 .. k : SubSeq(queuedPackets', 1, k)[i] = queuedPackets'[i]
      BY <1>2, <3>1, Halves
    <3>3. /\ SubSeq(queuedPackets, 1, k) \in Seq(S) /\ Len(SubSeq(queuedPackets, 1, k)) = k
          /\ \A i \in 1 .. k : SubSeq(queuedPackets, 1, k)[i] = queuedPackets[i]
      BY <1>1, <2>1, Halves
    <3>4. \A i \in 1 .. k : SubSeq(queuedPackets', 1, k)[i] = SubSeq(queuedPackets, 1, k)[i]
      BY <1>1, <1>2, <2>1, <3>2, <3>3
    <3>. QED
      BY <3>2, <3>3, <3>4, SeqEqual
  <2>5. k <= Len(queuedPackets')
    BY <1>1, <1>2, <2>1
  <2>. QED
    BY <2>1, <2>2, <2>3, <2>4, <2>5 DEF PrefixRead, k
<1>7. DownStreamKept'
  BY <1>6 DEF DownStreamKept
<1>8. ReaderKept'
  BY DEF DownInv, ReaderKept, Connected, payloadSize, IsHeader
<1>. QED
  BY <1>5, <1>7, <1>8 DEF DownInv

LEMMA ServerReadKeepsDown ==
  ASSUME DownInv, ServerRead
  PROVE  DownInv'
<1>1. PICK n \in 1 .. Len(up) :
        LET s == incoming \o SubSeq(up, 1, n)
        IN  \E sizes \in [1 .. iterations(s) -> PayloadSizes] :
              LET replies == [i \in 1 .. iterations(s) |->
                                buildPacket(Len(queuedPackets) + i, "reply", sizes[i])]
              IN  /\ queuedPackets' = queuedPackets \o replies
                  /\ outgoing' = outgoing \o FlattenSeq(replies)
  BY DEF ServerRead
<1>. DEFINE j == iterations(incoming \o SubSeq(up, 1, n))
<1>2. PICK sizes \in [1 .. j -> PayloadSizes] :
        LET replies == [i \in 1 .. j |->
                          buildPacket(Len(queuedPackets) + i, "reply", sizes[i])]
        IN  /\ queuedPackets' = queuedPackets \o replies
            /\ outgoing' = outgoing \o FlattenSeq(replies)
  BY <1>1
<1>. DEFINE replies == [i \in 1 .. j |->
                          buildPacket(Len(queuedPackets) + i, "reply", sizes[i])]
<1>3. j \in Nat
  <2>. DEFINE s == incoming \o SubSeq(up, 1, n)
              I == Iterations(s)
  <2>1. I \subseteq 1 .. Len(s)
    BY DEF Iterations
  <2>2. Len(s) \in Nat
    OBVIOUS
  <2>3. IsFiniteSet(1 .. Len(s))
    BY <2>2, FS_Interval
  <2>. HIDE DEF s
  <2>4. IsFiniteSet(I)
    BY <2>1, <2>3, FS_Subset
  <2>. HIDE DEF I
  <2>5. Cardinality(I) \in Nat
    BY <2>4, FS_CardinalityType
  <2>. QED
    BY <2>5 DEF iterations, I, s
<1>. HIDE DEF j
<1>4. queuedPackets \in Seq(Seq(Bytes)) /\ Len(queuedPackets) \in Nat
  BY DEF DownInv, DownTyped, Numbered
<1>5. ASSUME NEW i \in 1 .. j
      PROVE  /\ sizes[i] \in PayloadSizes /\ "reply" \in Codes
             /\ buildPacket(Len(queuedPackets) + i, "reply", sizes[i]) \in Seq(Bytes)
  <2>1. sizes[i] \in PayloadSizes /\ "reply" \in Codes /\ Len(queuedPackets) + i \in Nat
    BY <1>3, <1>4 DEF Codes
  <2>. QED
    BY <2>1, PacketShape
<1>6. /\ replies \in Seq(Seq(Bytes)) /\ Len(replies) = j
      /\ \A i \in 1 .. j : replies[i] = buildPacket(Len(queuedPackets) + i, "reply", sizes[i])
  BY <1>3, <1>5
<1>7. queuedPackets' = queuedPackets \o replies /\ outgoing' = outgoing \o FlattenSeq(replies)
  BY <1>2
<1>. HIDE DEF replies
<1>8. \A i \in 1 .. Len(replies) : \E code \in Codes, size \in PayloadSizes :
        replies[i] = buildPacket(Len(queuedPackets) + i, code, size)
  BY <1>5, <1>6
<1>9. client # "off" /\ UNCHANGED <<down, client, header, buffer, wantedSize, read, cut>>
  BY DEF ServerRead, clientVars
<1>. QED
  BY <1>6, <1>7, <1>8, <1>9, QueueKeepsDown

LEMMA QueueEventKeepsDown ==
  ASSUME DownInv, QueueEvent
  PROVE  DownInv'
<1>1. PICK size \in PayloadSizes :
        LET event == buildPacket(Len(queuedPackets) + 1, "event", size)
        IN  queuedPackets' = Append(queuedPackets, event) /\ outgoing' = outgoing \o event
  BY DEF QueueEvent
<1>. DEFINE event == buildPacket(Len(queuedPackets) + 1, "event", size)
<1>2. queuedPackets \in Seq(Seq(Bytes)) /\ Len(queuedPackets) \in Nat
  BY DEF DownInv, DownTyped, Numbered
<1>3. event \in Seq(Bytes) /\ "event" \in Codes
  <2>1. "event" \in Codes /\ Len(queuedPackets) + 1 \in Nat
    BY <1>2 DEF Codes
  <2>. QED
    BY <2>1, PacketShape
<1>4. \A i \in 1 .. Len(<<event>>) : \E code \in Codes, z \in PayloadSizes :
        <<event>>[i] = buildPacket(Len(queuedPackets) + i, code, z)
  BY <1>3
<1>5. queuedPackets' = Append(queuedPackets, event) /\ outgoing' = outgoing \o event
  BY <1>1
<1>. HIDE DEF event
<1>6. /\ <<event>> \in Seq(Seq(Bytes)) /\ FlattenSeq(<<event>>) = event
      /\ Append(queuedPackets, event) = queuedPackets \o <<event>>
  <2>1. <<event>> = Append(<<>>, event) /\ <<>> \in Seq(Seq(Bytes))
    OBVIOUS
  <2>2. FlattenSeq(Append(<<>>, event)) = FlattenSeq(<<>>) \o event
    BY <1>3, <2>1, FlattenAppend
  <2>3. FlattenSeq(<<event>>) = event
    BY <1>3, <2>1, <2>2, FlattenEmpty, ConcatEmptySeq
  <2>. QED
    BY <1>2, <1>3, <2>3, AppendIsConcat
<1>7. client # "off" /\ UNCHANGED <<down, client, header, buffer, wantedSize, read, cut>>
  BY DEF QueueEvent, clientVars
<1>. DEFINE more == <<event>>
<1>8. /\ more \in Seq(Seq(Bytes)) /\ queuedPackets' = queuedPackets \o more
      /\ outgoing' = outgoing \o FlattenSeq(more)
      /\ \A i \in 1 .. Len(more) : \E code \in Codes, z \in PayloadSizes :
           more[i] = buildPacket(Len(queuedPackets) + i, code, z)
  BY <1>4, <1>5, <1>6
<1>. HIDE DEF more
<1>. QED
  BY <1>7, <1>8, QueueKeepsDown

LEMMA ServerWriteKeepsDown ==
  ASSUME DownInv, ServerWrite
  PROVE  DownInv'
<1>. DEFINE free == DownRoom - Len(down)
            n == IF Len(outgoing) <= free THEN Len(outgoing) ELSE free
<1>1. /\ client # "off" /\ Len(down) < DownRoom
      /\ down' = down \o SubSeq(outgoing, 1, n) /\ outgoing' = From(outgoing, n)
      /\ UNCHANGED <<client, header, buffer, wantedSize, queuedPackets, read, cut>>
  BY DEF ServerWrite, consumeQueuedData, clientVars, downHistory
<1>2. /\ header \in Seq(Bytes) /\ buffer \in Seq(Bytes) /\ down \in Seq(Bytes)
      /\ outgoing \in Seq(Bytes)
  BY DEF DownInv, DownTyped
<1>3. n \in 0 .. Len(outgoing)
  <2>1. DownRoom \in Nat /\ Len(down) \in Nat /\ Len(outgoing) \in Nat
    BY <1>2, FramingConstants
  <2>. QED
    BY <1>1, <2>1
<1>. HIDE DEF n, free
<1>. DEFINE w == SubSeq(outgoing, 1, n)
<1>4. w \in Seq(Bytes) /\ w \o outgoing' = outgoing /\ outgoing' \in Seq(Bytes)
  BY <1>1, <1>2, <1>3, Halves, FromWithin
<1>5. down' = down \o w
  BY <1>1
<1>. HIDE DEF w
<1>6. down' \in Seq(Bytes)
  BY <1>2, <1>4, <1>5, Joined, Zenon
<1>7. pending' = pending
  <2>. DEFINE a == header \o buffer
  <2>1. a \in Seq(Bytes)
    BY <1>2, Joined, Zenon
  <2>2. pending' = (a \o (down \o w)) \o outgoing'
    BY <1>1, <1>5 DEF pending
  <2>3. pending = (a \o down) \o (w \o outgoing')
    BY <1>4 DEF pending
  <2>. HIDE DEF a
  <2>. DEFINE r == outgoing'
              d == down
  <2>4. d \in Seq(Bytes) /\ w \in Seq(Bytes) /\ r \in Seq(Bytes)
    BY <1>2, <1>4
  <2>5. pending' = (a \o (d \o w)) \o r /\ pending = (a \o d) \o (w \o r)
    BY <2>2, <2>3
  <2>. HIDE DEF r, d
  <2>6. (a \o (d \o w)) \o r = (a \o d) \o (w \o r)
    <3>1. a \o d \in Seq(Bytes)
      BY <2>1, <2>4, Joined, Zenon
    <3>2. (a \o d) \o w = a \o (d \o w)
      BY <2>1, <2>4, Regroup, Zenon
    <3>3. ((a \o d) \o w) \o r = (a \o d) \o (w \o r)
      BY <2>4, <3>1, Regroup, Zenon
    <3>. QED
      BY <3>2, <3>3, Zenon
  <2>. QED
    BY <2>5, <2>6, Zenon
<1>8. DownTyped'
  BY <1>1, <1>4, <1>6 DEF DownInv, DownTyped, Numbered
<1>9. DownStreamKept'
  BY <1>1, <1>7 DEF DownInv, DownStreamKept, PrefixRead
<1>10. ReaderKept'
  BY <1>1 DEF DownInv, ReaderKept, Connected, payloadSize, IsHeader
<1>. QED
  BY <1>1, <1>8, <1>9, <1>10 DEF DownInv

\* What the client has once n more bytes are read, and what is behind them.
taken(n) == (header \o buffer) \o chunk(n)

LEMMA Taken ==
  ASSUME DownInv, NEW n \in chunkSizes
  PROVE  /\ n \in 1 .. Len(down) /\ n <= missing
         /\ chunk(n) \in Seq(Bytes) /\ Len(chunk(n)) = n
         /\ From(down, n) \in Seq(Bytes)
         /\ buffer \o chunk(n) \in Seq(Bytes)
         /\ Len(buffer \o chunk(n)) = Len(buffer) + n
         /\ taken(n) \in Seq(Bytes) /\ Len(taken(n)) = Len(header) + Len(buffer) + n
         /\ header \o (buffer \o chunk(n)) = taken(n)
         /\ (taken(n) \o From(down, n)) \o outgoing = pending
         /\ taken(n) \o (From(down, n) \o outgoing) = pending
<1>. DEFINE c == chunk(n)
            d == From(down, n)
            a == header \o buffer
<1>1. n \in 1 .. Len(down) /\ n <= missing
  BY DEF chunkSizes
<1>2. /\ header \in Seq(Bytes) /\ buffer \in Seq(Bytes) /\ down \in Seq(Bytes)
      /\ outgoing \in Seq(Bytes)
  BY DEF DownInv, DownTyped
<1>3. c \in Seq(Bytes) /\ Len(c) = n /\ c \o d = down /\ d \in Seq(Bytes)
  <2>1. n \in 0 .. Len(down)
    BY <1>1
  <2>. QED
    BY <1>2, <2>1, Halves, FromWithin DEF chunk
<1>4. a \in Seq(Bytes) /\ Len(a) = Len(header) + Len(buffer)
  BY <1>2, ConcatProperties
<1>5. taken(n) = a \o c
  BY DEF taken
<1>6. pending = (a \o (c \o d)) \o outgoing
  BY <1>3 DEF pending
<1>. HIDE DEF a, c, d
<1>7. buffer \o c \in Seq(Bytes) /\ Len(buffer \o c) = Len(buffer) + n
  BY <1>2, <1>3, ConcatProperties
<1>8. a \o c \in Seq(Bytes) /\ Len(a \o c) = Len(header) + Len(buffer) + n
  BY <1>3, <1>4, ConcatProperties
<1>9. header \o (buffer \o c) = a \o c
  <2>. DEFINE h == header
              b == buffer
  <2>1. h \in Seq(Bytes) /\ b \in Seq(Bytes) /\ c \in Seq(Bytes)
    BY <1>2, <1>3
  <2>2. a = h \o b
    BY DEF a
  <2>. HIDE DEF h, b
  <2>3. (h \o b) \o c = h \o (b \o c)
    BY <2>1, Regroup, Zenon
  <2>4. h \o (b \o c) = a \o c
    BY <2>2, <2>3, Zenon
  <2>. QED
    BY <2>4 DEF h, b
<1>10. (a \o c) \o d = a \o (c \o d)
  BY <1>3, <1>4, Regroup, Zenon
<1>11. ((a \o c) \o d) \o outgoing = (a \o c) \o (d \o outgoing)
  <2>. DEFINE x == a \o c
              o == outgoing
  <2>1. x \in Seq(Bytes) /\ d \in Seq(Bytes) /\ o \in Seq(Bytes)
    BY <1>2, <1>3, <1>8
  <2>. HIDE DEF x, o
  <2>2. (x \o d) \o o = x \o (d \o o)
    BY <2>1, Regroup, Zenon
  <2>. QED
    BY <2>2 DEF x, o
<1>. QED
  BY <1>1, <1>3, <1>5, <1>6, <1>7, <1>8, <1>9, <1>10, <1>11, Zenon DEF c, d

\* Bytes from the beginning of the stream, a header at least, belong to its
\* next packet, and their header is its own.
LEMMA PacketTaken ==
  ASSUME NEW packets, Numbered(packets), NEW k \in 0 .. Len(packets),
         NEW t \in Seq(Bytes), NEW u \in Seq(Bytes),
         t \o u = FlattenSeq(From(packets, k)), Len(t) >= HeaderSize
  PROVE  /\ k < Len(packets)
         /\ \E size \in PayloadSizes :
              /\ IsHeader(t) /\ payloadSize(t) = size /\ t[1].size = size
              /\ Len(t) = HeaderSize + size =>
                   t = packets[k + 1] /\ u = FlattenSeq(From(packets, k + 1))
<1>1. /\ HeaderSize \in Nat /\ HeaderSize > 0 /\ packets \in Seq(Seq(Bytes))
      /\ Len(t) \in Nat /\ Len(u) \in Nat /\ Len(packets) \in Nat
  BY SizesAreNumbers DEF Numbered
<1>2. k < Len(packets)
  <2>. SUFFICES ASSUME k = Len(packets) PROVE FALSE
    BY <1>1
  <2>1. t \o u = <<>>
    BY <1>1, StreamEnds
  <2>2. Len(t \o u) = Len(t) + Len(u)
    BY ConcatProperties
  <2>. QED
    BY <1>1, <2>1, <2>2
<1>. DEFINE id == k + 1
            p == packets[id]
            q == FlattenSeq(From(packets, id))
<1>3. id \in 1 .. Len(packets) /\ id \in Nat /\ id \in 0 .. Len(packets)
  BY <1>1, <1>2
<1>4. t \o u = p \o q
  BY <1>1, <1>2, NextPacket
<1>. HIDE DEF id
<1>5. PICK code \in Codes, size \in PayloadSizes : p = buildPacket(id, code, size)
  BY <1>3 DEF Numbered
<1>6. p \in Seq(Bytes) /\ Len(p) = HeaderSize + size /\ size \in Nat
  <2>1. LET b == buildPacket(id, code, size)
        IN  b \in Seq(Bytes) /\ Len(b) = HeaderSize + size
    BY <1>3, PacketShape
  <2>2. size \in Nat
    BY SizesAreNumbers
  <2>. HIDE DEF p
  <2>. QED
    BY <1>5, <2>1, <2>2
<1>7. q \in Seq(Bytes)
  <2>1. From(packets, id) \in Seq(Seq(Bytes))
    BY <1>1, <1>3, FromWithin
  <2>. QED
    BY <2>1, FlattenTyped
<1>. HIDE DEF p, q
<1>8. /\ \A i \in 1 .. Len(t) : i <= Len(p) => t[i] = p[i]
      /\ Len(p) <= Len(t) => SubSeq(t, 1, Len(p)) = p /\ From(t, Len(p)) \o u = q
  BY <1>4, <1>6, <1>7, SameStart
<1>9. IsHeader(t) /\ payloadSize(t) = size /\ t[1].size = size
  <2>1. \A i \in 1 .. HeaderSize : i \in 1 .. Len(t) /\ i <= Len(p)
    BY <1>1, <1>6
  <2>2. \A i \in 1 .. HeaderSize : t[i] = buildPacket(id, code, size)[i]
    BY <1>5, <1>8, <2>1
  <2>. QED
    BY <1>3, <2>2, HeaderTells
<1>10. ASSUME Len(t) = HeaderSize + size
       PROVE  t = p /\ u = q
  <2>1. Len(p) = Len(t) /\ Len(p) <= Len(t)
    BY <1>1, <1>6, <1>10
  <2>2. SubSeq(t, 1, Len(t)) = t /\ From(t, Len(t)) = <<>>
    BY SubSeqFull, FromEnd
  <2>3. <<>> \o u = u
    BY ConcatEmptySeq
  <2>. QED
    BY <1>8, <2>1, <2>2, <2>3
<1>. QED
  BY <1>2, <1>9, <1>10 DEF p, q, id

\* The stream seen by the client while no packet was cut.
LEMMA StreamOfClient ==
  ASSUME DownInv, ~cut, Connected
  PROVE  /\ Numbered(queuedPackets) /\ Len(read) \in 0 .. Len(queuedPackets)
         /\ pending = FlattenSeq(From(queuedPackets, Len(read)))
<1>1. client # "off"
  BY DEF Connected
<1>2. read \in Seq(Seq(Bytes)) /\ queuedPackets \in Seq(Seq(Bytes))
  BY DEF DownInv, DownTyped, Numbered
<1>. QED
  BY <1>1, <1>2 DEF DownInv, DownTyped, DownStreamKept, PrefixRead

\* A packet is complete: it is the next one that was queued.
LEMMA PacketReadKeepsDown ==
  ASSUME DownInv, Connected, NEW n \in chunkSizes,
         packetRead(taken(n)), down' = From(down, n),
         UNCHANGED <<outgoing, queuedPackets, cut>>,
         ~cut => Len(taken(n)) = HeaderSize + payloadSize(taken(n))
  PROVE  DownInv'
<1>. DEFINE t == taken(n)
            d == From(down, n)
            u == d \o outgoing
            k == Len(read)
            S == Seq(Bytes)
<1>1. /\ t \in S /\ d \in S /\ outgoing \in S
      /\ read \in Seq(S) /\ queuedPackets \in Seq(S) /\ t \o u = pending
  BY Taken DEF DownInv, DownTyped, Numbered
<1>2. u \in S
  BY <1>1, Joined, Zenon
<1>3. /\ read' = Append(read, t) /\ header' = <<>> /\ buffer' = <<>>
      /\ wantedSize' = HeaderSize /\ down' = d
  BY DEF packetRead, startPacket
<1>4. client # "off" /\ client' # "off"
  BY DEF packetRead, Connected
<1>. HIDE DEF t, d
<1>5. DownTyped'
  <2>1. read' \in Seq(S)
    BY <1>1, <1>3
  <2>2. <<>> \in S /\ HeaderSize \in Nat
    BY SizesAreNumbers
  <2>. QED
    BY <1>1, <1>3, <2>1, <2>2 DEF DownInv, DownTyped, Numbered
<1>6. pending' = u
  <2>1. <<>> \o <<>> = <<>> /\ <<>> \o d = d
    BY <1>1, ConcatEmptySeq
  <2>. QED
    BY <1>3, <2>1 DEF pending
<1>7. ASSUME ~cut
      PROVE  PrefixRead' /\ pending' = FlattenSeq(From(queuedPackets', Len(read')))
  <2>. HIDE DEF u, S
  <2>1. /\ Numbered(queuedPackets) /\ k \in 0 .. Len(queuedPackets)
        /\ t \o u = FlattenSeq(From(queuedPackets, k))
        /\ read = SubSeq(queuedPackets, 1, k)
    BY <1>1, <1>7, StreamOfClient DEF DownInv, DownStreamKept, PrefixRead
  <2>2. Len(t) = HeaderSize + payloadSize(t)
    BY <1>7 DEF t
  <2>3. k < Len(queuedPackets) /\ t = queuedPackets[k + 1]
        /\ u = FlattenSeq(From(queuedPackets, k + 1))
    <3>. HIDE DEF k
    <3>1. Len(t) >= HeaderSize
      <4>1. HeaderSize \in Nat
        BY SizesAreNumbers
      <4>2. Len(t) \in Nat
        BY <1>1 DEF S
      <4>3. payloadSize(t) \in Nat
        <5>1. CASE IsHeader(t) /\ t # <<>>
          <6>1. t[1] \in Bytes
            BY <1>1, <5>1 DEF S
          <6>. QED
            BY <5>1, <6>1, SizesAreNumbers DEF payloadSize, Bytes
        <5>2. CASE ~IsHeader(t)
          BY <5>2 DEF payloadSize
        <5>3. CASE t = <<>>
          <6>1. Len(t) = Len(header) + Len(buffer) + n /\ n \in 1 .. Len(down)
            BY Taken DEF t
          <6>2. Len(header) \in Nat /\ Len(buffer) \in Nat
            BY DEF DownInv, DownTyped
          <6>. QED
            BY <5>3, <6>1, <6>2
        <5>. QED
          BY <5>1, <5>2, <5>3
      <4>. QED
        BY <2>2, <4>1, <4>2, <4>3
    <3>2. t \in Seq(Bytes) /\ u \in Seq(Bytes)
      BY <1>1, <1>2 DEF S
    <3>3. /\ k < Len(queuedPackets)
          /\ \E size \in PayloadSizes :
               /\ IsHeader(t) /\ payloadSize(t) = size /\ t[1].size = size
               /\ Len(t) = HeaderSize + size =>
                    t = queuedPackets[k + 1] /\ u = FlattenSeq(From(queuedPackets, k + 1))
      <4>1. Numbered(queuedPackets)
        BY <2>1
      <4>2. k \in 0 .. Len(queuedPackets) /\ t \o u = FlattenSeq(From(queuedPackets, k))
        BY <2>1
      <4>. QED
        BY <3>1, <3>2, <4>1, <4>2, PacketTaken
    <3>. QED
      BY <2>2, <3>3, Zenon
  <2>4. k \in Nat /\ k + 1 \in 1 .. Len(queuedPackets)
    BY <1>1, <2>1, <2>3 DEF S
  <2>5. Len(read') = k + 1
    BY <1>1, <1>3
  <2>. HIDE DEF k
  <2>6. SubSeq(queuedPackets, 1, k + 1) = Append(SubSeq(queuedPackets, 1, k), queuedPackets[k + 1])
    BY <1>1, <2>4 DEF S
  <2>7. queuedPackets' = queuedPackets
    OBVIOUS
  <2>. QED
    BY <1>3, <1>6, <2>1, <2>3, <2>4, <2>5, <2>6, <2>7 DEF PrefixRead
<1>8. DownStreamKept'
  BY <1>7 DEF DownStreamKept
<1>9. ReaderKept'
  BY <1>3, SizesAreNumbers DEF ReaderKept
<1>. QED
  BY <1>4, <1>5, <1>8, <1>9 DEF DownInv

LEMMA MoreMissingKeepsDown ==
  ASSUME DownInv, MoreMissing
  PROVE  DownInv'
<1>1. PICK n \in chunkSizes :
        /\ Len(buffer) + n < wantedSize
        /\ buffer' = buffer \o chunk(n) /\ down' = From(down, n)
  BY DEF MoreMissing
<1>2. UNCHANGED <<outgoing, client, header, wantedSize, queuedPackets, read, cut>>
  BY DEF MoreMissing, serverVars, downHistory
<1>3. /\ From(down, n) \in Seq(Bytes) /\ buffer \o chunk(n) \in Seq(Bytes)
      /\ Len(buffer \o chunk(n)) = Len(buffer) + n
      /\ header \o (buffer \o chunk(n)) = taken(n)
      /\ (taken(n) \o From(down, n)) \o outgoing = pending
  BY Taken
<1>4. client # "off" /\ client' # "off"
  BY <1>2 DEF MoreMissing, Connected
<1>5. DownTyped'
  BY <1>1, <1>2, <1>3 DEF DownInv, DownTyped, Numbered
<1>6. pending' = pending
  <2>1. pending' = ((header \o (buffer \o chunk(n))) \o From(down, n)) \o outgoing
    BY <1>1, <1>2 DEF pending
  <2>. QED
    BY <1>3, <2>1, Zenon
<1>7. DownStreamKept'
  BY <1>2, <1>6 DEF DownInv, DownStreamKept, PrefixRead
<1>8. ReaderKept'
  BY <1>1, <1>2, <1>3 DEF DownInv, ReaderKept, Connected, payloadSize, IsHeader
<1>. QED
  BY <1>4, <1>5, <1>7, <1>8 DEF DownInv

LEMMA HeaderReadKeepsDown ==
  ASSUME DownInv, HeaderRead
  PROVE  DownInv'
<1>1. PICK n \in chunkSizes :
        LET got == buffer \o chunk(n)
        IN  /\ Len(got) >= wantedSize
            /\ \E size \in sizesIn(got) :
                 IF size = 0 THEN packetRead(got)
                 ELSE /\ header' = got /\ buffer' = <<>> /\ wantedSize' = size
                      /\ UNCHANGED <<client, read>>
            /\ down' = From(down, n)
  BY DEF HeaderRead
<1>. DEFINE got == buffer \o chunk(n)
<1>2. PICK size \in sizesIn(got) :
        IF size = 0 THEN packetRead(got)
        ELSE /\ header' = got /\ buffer' = <<>> /\ wantedSize' = size
             /\ UNCHANGED <<client, read>>
  BY <1>1
<1>3. Len(got) >= wantedSize /\ down' = From(down, n)
  BY <1>1
<1>4. /\ Connected /\ header = <<>>
      /\ UNCHANGED <<outgoing, queuedPackets, cut>>
  BY DEF HeaderRead, serverVars
<1>5. HeaderSize \in Nat /\ HeaderSize > 0 /\ \A z \in PayloadSizes : z \in Nat
  BY SizesAreNumbers
<1>6. /\ From(down, n) \in Seq(Bytes) /\ got \in Seq(Bytes)
      /\ Len(got) = Len(buffer) + n /\ n <= missing
      /\ header \o got = taken(n)
      /\ (taken(n) \o From(down, n)) \o outgoing = pending
      /\ taken(n) \o (From(down, n) \o outgoing) = pending
  BY Taken
<1>7. got = taken(n)
  BY <1>4, <1>6, ConcatEmptySeq
<1>8. /\ From(down, n) \o outgoing \in Seq(Bytes) /\ outgoing \in Seq(Bytes)
      /\ buffer \in Seq(Bytes) /\ wantedSize = HeaderSize /\ n \in Nat
  <2>1. outgoing \in Seq(Bytes) /\ buffer \in Seq(Bytes) /\ down \in Seq(Bytes)
    BY DEF DownInv, DownTyped
  <2>2. From(down, n) \o outgoing \in Seq(Bytes)
    BY <1>6, <2>1, Joined, Zenon
  <2>3. n \in Nat
    BY <2>1 DEF chunkSizes
  <2>. QED
    BY <1>4, <2>1, <2>2, <2>3 DEF DownInv, ReaderKept
<1>9. Len(got) = HeaderSize
  <2>1. Len(buffer) \in Nat
    BY <1>8
  <2>. QED
    BY <1>3, <1>5, <1>6, <1>8, <2>1 DEF missing
<1>. HIDE DEF got
<1>10. size \in Nat
  <2>1. got[1] \in Bytes
    BY <1>5, <1>6, <1>9
  <2>. QED
    BY <1>5, <2>1 DEF sizesIn, Bytes
<1>11. ASSUME ~cut
       PROVE  payloadSize(got) = size
  <2>. DEFINE k == Len(read)
              rest_ == From(down, n) \o outgoing
  <2>1. /\ Numbered(queuedPackets) /\ k \in 0 .. Len(queuedPackets)
        /\ pending = FlattenSeq(From(queuedPackets, k))
    BY <1>4, <1>11, StreamOfClient
  <2>2. got \o rest_ = pending /\ rest_ \in Seq(Bytes) /\ Len(got) >= HeaderSize
    BY <1>5, <1>6, <1>7, <1>8, <1>9
  <2>. HIDE DEF k, rest_
  <2>3. \E z \in PayloadSizes :
          IsHeader(got) /\ payloadSize(got) = z /\ got[1].size = z
    <3>1. got \o rest_ = FlattenSeq(From(queuedPackets, k))
      BY <2>1, <2>2
    <3>2. \E z \in PayloadSizes :
            /\ IsHeader(got) /\ payloadSize(got) = z /\ got[1].size = z
            /\ Len(got) = HeaderSize + z =>
                 got = queuedPackets[k + 1] /\ rest_ = FlattenSeq(From(queuedPackets, k + 1))
      BY <1>6, <2>1, <2>2, <3>1, PacketTaken
    <3>. QED
      BY <3>2, Zenon
  <2>. QED
    BY <2>3 DEF sizesIn
<1>12. CASE size = 0
  <2>1. packetRead(taken(n))
    BY <1>2, <1>7, <1>12
  <2>2. ~cut => Len(taken(n)) = HeaderSize + payloadSize(taken(n))
    BY <1>5, <1>7, <1>9, <1>11, <1>12
  <2>. QED
    BY <1>3, <1>4, <2>1, <2>2, PacketReadKeepsDown
<1>13. CASE size # 0
  <2>1. /\ header' = got /\ buffer' = <<>> /\ wantedSize' = size /\ down' = From(down, n)
        /\ UNCHANGED <<client, read, outgoing, queuedPackets, cut>>
    BY <1>2, <1>3, <1>4, <1>13
  <2>2. client # "off" /\ client' # "off"
    BY <1>4, <2>1 DEF Connected
  <2>3. DownTyped'
    <3>1. <<>> \in Seq(Bytes)
      OBVIOUS
    <3>. QED
      BY <1>6, <1>10, <2>1, <3>1 DEF DownInv, DownTyped, Numbered
  <2>4. pending' = pending
    <3>1. pending' = ((got \o <<>>) \o From(down, n)) \o outgoing
      BY <2>1 DEF pending
    <3>2. got \o <<>> = got
      BY <1>6, ConcatEmptySeq
    <3>. QED
      BY <1>6, <1>7, <3>1, <3>2, Zenon
  <2>5. DownStreamKept'
    BY <2>1, <2>4 DEF DownInv, DownStreamKept, PrefixRead
  <2>6. ReaderKept'
    <3>1. Len(<<>>) = 0 /\ got # <<>>
      BY <1>5, <1>9
    <3>2. Len(buffer') < wantedSize' /\ header' # <<>>
      BY <1>10, <1>13, <2>1, <3>1
    <3>3. ~cut' => Len(header') = HeaderSize /\ wantedSize' = payloadSize(got)
      BY <1>9, <1>11, <2>1
    <3>4. payloadSize(header)' = payloadSize(got)
      BY <2>1 DEF payloadSize, IsHeader
    <3>. QED
      BY <3>2, <3>3, <3>4 DEF ReaderKept
  <2>. QED
    BY <2>2, <2>3, <2>5, <2>6 DEF DownInv
<1>. QED
  BY <1>12, <1>13

LEMMA PayloadReadKeepsDown ==
  ASSUME DownInv, PayloadRead
  PROVE  DownInv'
<1>1. PICK n \in chunkSizes :
        /\ Len(buffer) + n >= wantedSize
        /\ packetRead(header \o buffer \o chunk(n))
        /\ down' = From(down, n)
  BY DEF PayloadRead
<1>2. /\ Connected /\ header # <<>>
      /\ UNCHANGED <<outgoing, queuedPackets, cut>>
  BY DEF PayloadRead, serverVars
<1>3. packetRead(taken(n))
  BY <1>1 DEF taken
<1>. DEFINE t == taken(n)
<1>4. /\ t \in Seq(Bytes) /\ Len(t) = Len(header) + Len(buffer) + n /\ n <= missing
      /\ buffer \o chunk(n) \in Seq(Bytes) /\ header \o (buffer \o chunk(n)) = t
      /\ n \in 1 .. Len(down)
  BY Taken
<1>5. header \in Seq(Bytes) /\ buffer \in Seq(Bytes) /\ down \in Seq(Bytes) /\ wantedSize \in Nat
  BY DEF DownInv, DownTyped
<1>. HIDE DEF t
<1>6. \A i \in 1 .. Len(header) : t[i] = header[i]
  <2>. DEFINE c == buffer \o chunk(n)
  <2>1. c \in Seq(Bytes) /\ t = header \o c
    BY <1>4
  <2>. HIDE DEF c
  <2>. QED
    BY <1>5, <2>1
<1>7. ASSUME ~cut
      PROVE  Len(t) = HeaderSize + payloadSize(t)
  <2>1. Len(header) = HeaderSize /\ wantedSize = payloadSize(header)
    BY <1>2, <1>7 DEF DownInv, ReaderKept
  <2>2. HeaderSize \in Nat /\ HeaderSize > 0
    BY SizesAreNumbers
  <2>3. \A i \in 1 .. HeaderSize : t[i] = header[i]
    BY <1>6, <2>1
  <2>4. t[1] = header[1]
    BY <2>2, <2>3
  <2>5. payloadSize(t) = payloadSize(header)
    BY <2>3, <2>4 DEF payloadSize, IsHeader
  <2>6. Len(buffer) + n = wantedSize
    <3>1. Len(buffer) \in Nat /\ n \in Nat /\ wantedSize \in Nat
      BY <1>4, <1>5
    <3>2. Len(buffer) + n >= wantedSize /\ n <= wantedSize - Len(buffer)
      BY <1>1, <1>4 DEF missing
    <3>. QED
      BY <3>1, <3>2
  <2>7. Len(buffer) \in Nat /\ n \in Nat
    BY <1>4, <1>5
  <2>. QED
    BY <1>4, <2>1, <2>2, <2>5, <2>6, <2>7
<1>. QED
  BY <1>1, <1>2, <1>3, <1>7, PacketReadKeepsDown DEF t

LEMMA EmptyStream ==
  /\ Numbered(<<>>) /\ <<>> \in Seq(Bytes) /\ <<>> \in Seq(Seq(Bytes)) /\ Len(<<>>) = 0
  /\ SubSeq(<<>>, 1, 0) = <<>>
  /\ FlattenSeq(From(<<>>, 0)) = <<>>
  /\ ((<<>> \o <<>>) \o <<>>) \o <<>> = <<>>
<1>1. <<>> \in Seq(Seq(Bytes)) /\ <<>> \in Seq(Bytes) /\ Len(<<>>) = 0
  OBVIOUS
<1>2. From(<<>>, 0) = <<>>
  BY <1>1, FromStart
<1>. QED
  BY <1>1, <1>2, FlattenEmpty DEF Numbered

LEMMA CommandTimesOutKeepsDown ==
  ASSUME DownInv, CommandTimesOut
  PROVE  DownInv'
<1>1. /\ cut' = (cut \/ ~AtBoundary) /\ client = "command" /\ client' = "idle"
      /\ header' = <<>> /\ buffer' = <<>> /\ wantedSize' = HeaderSize
      /\ UNCHANGED <<outgoing, down, queuedPackets, read>>
  BY DEF CommandTimesOut, startPacket, serverVars, downHistory
<1>2. DownTyped'
  <2>1. cut' \in BOOLEAN
    BY <1>1 DEF DownInv, DownTyped
  <2>2. HeaderSize \in Nat
    BY SizesAreNumbers
  <2>. QED
    BY <1>1, <2>1, <2>2, EmptyStream DEF DownInv, DownTyped, Numbered
<1>3. ~cut' => pending' = pending /\ ~cut
  BY <1>1 DEF pending, AtBoundary
<1>4. DownStreamKept'
  BY <1>1, <1>3 DEF DownInv, DownStreamKept, PrefixRead
<1>5. ReaderKept'
  BY <1>1, SizesAreNumbers, EmptyStream DEF ReaderKept
<1>. QED
  BY <1>1, <1>2, <1>4, <1>5 DEF DownInv

LEMMA LeavingKeepsDown ==
  ASSUME DownInv, EventTimesOut \/ Quit
  PROVE  DownInv'
<1>1. /\ client \in {"idle", "command"} /\ client' = "gone"
      /\ UNCHANGED <<header, buffer, wantedSize, outgoing, down, queuedPackets, read, cut>>
  BY DEF EventTimesOut, Quit, Connected, serverVars, downHistory
<1>2. DownTyped'
  BY <1>1 DEF DownInv, DownTyped, Numbered
<1>3. DownStreamKept'
  BY <1>1 DEF DownInv, DownStreamKept, PrefixRead, pending
<1>4. ReaderKept'
  BY <1>1 DEF ReaderKept, Connected
<1>. QED
  BY <1>1, <1>2, <1>3, <1>4 DEF DownInv

LEMMA ServerDropKeepsDown ==
  ASSUME DownInv, ServerDrop
  PROVE  DownInv'
<1>1. /\ client' = "off" /\ outgoing' = <<>> /\ down' = <<>>
      /\ UNCHANGED <<header, buffer, wantedSize, queuedPackets, read, cut>>
  BY DEF ServerDrop, downHistory
<1>2. DownTyped'
  BY <1>1, EmptyStream DEF DownInv, DownTyped, Numbered
<1>3. DownStreamKept'
  BY <1>1 DEF DownInv, DownStreamKept, PrefixRead
<1>4. ReaderKept'
  BY <1>1 DEF ReaderKept, Connected
<1>. QED
  BY <1>1, <1>2, <1>3, <1>4 DEF DownInv

LEMMA ClientSendKeepsDown ==
  ASSUME DownInv, ClientSend
  PROVE  DownInv'
<1>1. /\ client = "idle" /\ client' = "command"
      /\ UNCHANGED <<header, buffer, wantedSize, outgoing, down, queuedPackets, read, cut>>
  BY DEF ClientSend, serverVars, downHistory
<1>2. DownTyped'
  BY <1>1 DEF DownInv, DownTyped, Numbered
<1>3. DownStreamKept'
  BY <1>1 DEF DownInv, DownStreamKept, PrefixRead, pending
<1>4. ReaderKept'
  BY <1>1 DEF DownInv, ReaderKept, Connected, payloadSize, IsHeader
<1>. QED
  BY <1>1, <1>2, <1>3, <1>4 DEF DownInv

LEMMA ConnectKeepsDown ==
  ASSUME DownInv, Connect
  PROVE  DownInv'
<1>1. /\ outgoing' = <<>> /\ down' = <<>> /\ header' = <<>> /\ buffer' = <<>>
      /\ wantedSize' = HeaderSize /\ queuedPackets' = <<>> /\ read' = <<>>
      /\ cut' = FALSE /\ client' = "idle"
  BY DEF Connect, startPacket, serverVars, DownInv
<1>2. DownTyped'
  BY <1>1, EmptyStream, SizesAreNumbers DEF DownTyped, Numbered
<1>3. PrefixRead' /\ pending' = FlattenSeq(From(queuedPackets', Len(read')))
  BY <1>1, EmptyStream DEF PrefixRead, pending
<1>4. DownStreamKept'
  BY <1>3 DEF DownStreamKept
<1>5. ReaderKept'
  BY <1>1, SizesAreNumbers, EmptyStream DEF ReaderKept
<1>. QED
  BY <1>1, <1>2, <1>4, <1>5 DEF DownInv

LEMMA DownUntouched ==
  ASSUME DownInv, UNCHANGED vars
  PROVE  DownInv'
  BY DEF DownInv, DownTyped, DownStreamKept, ReaderKept, PrefixRead, pending, Numbered,
         Connected, payloadSize, IsHeader, vars, serverVars, clientVars, downHistory

LEMMA DownStep == DownInv /\ [Next]_vars => DownInv'
  BY ServerReadKeepsDown, QueueEventKeepsDown, ServerWriteKeepsDown, ServerDropKeepsDown,
     ClientSendKeepsDown, MoreMissingKeepsDown, HeaderReadKeepsDown, PayloadReadKeepsDown,
     CommandTimesOutKeepsDown, LeavingKeepsDown, ConnectKeepsDown, DownUntouched, Zenon
     DEF Next

-----------------------------------------------------------------------------
(* What holds at first and ever after                                       *)

LEMMA FramingStarts == Init => UpInv /\ DownInv /\ UpStream!Init
<1>. SUFFICES ASSUME Init PROVE UpInv /\ DownInv /\ UpStream!Init
  OBVIOUS
<1>1. DownTyped
  BY EmptyStream, SizesAreNumbers DEF Init, DownTyped
<1>2. DownStreamKept
  BY EmptyStream DEF Init, DownStreamKept, PrefixRead
<1>3. ReaderKept
  BY DEF Init, ReaderKept, Connected
<1>4. CommandsNumbered
  BY EmptyStream, FramingConstants DEF Init, CommandsNumbered
<1>5. UpInv
  BY <1>4, EmptyStream DEF Init, UpInv, UpStreamKept
<1>. QED
  BY <1>1, <1>2, <1>3, <1>5 DEF Init, DownInv, UpStream!Init

\* Nothing but the beginning of a packet is ever left in the incoming buffer.
LEMMA NothingComplete ==
  ASSUME UpInv
  PROVE  NothingLeftBehind
<1>. SUFFICES ASSUME up = <<>>, client # "off" PROVE dispatched = commands
  BY DEF NothingLeftBehind
<1>. DEFINE k == Len(dispatched)
            s == incoming
<1>1. /\ s \in Seq(Bytes) /\ dispatched \in Seq(Seq(Bytes)) /\ Numbered(commands)
      /\ k <= Len(commands) /\ dispatched = SubSeq(commands, 1, k)
      /\ s \o up = FlattenSeq(From(commands, k)) /\ ~complete(s)
  BY DEF UpInv, UpStreamKept, CommandsNumbered
<1>2. s = FlattenSeq(From(commands, k))
  BY <1>1, ConcatEmptySeq
<1>3. commands \in Seq(Seq(Bytes)) /\ k \in Nat /\ Len(commands) \in Nat
  BY <1>1 DEF Numbered
<1>4. CASE k = Len(commands)
  <2>. HIDE DEF k
  <2>1. SubSeq(commands, 1, Len(commands)) = commands
    BY <1>3, SubSeqFull
  <2>. QED
    BY <1>1, <1>4, <2>1
<1>5. CASE k # Len(commands)
  <2>. HIDE DEF k, s
  <2>1. k < Len(commands) /\ k \in 0 .. Len(commands) /\ k + 1 \in 1 .. Len(commands)
        /\ k + 1 \in 0 .. Len(commands) /\ k + 1 \in Nat
    BY <1>1, <1>3, <1>5
  <2>. DEFINE p == commands[k + 1]
              q == FlattenSeq(From(commands, k + 1))
  <2>2. s = p \o q
    BY <1>2, <1>3, <2>1, NextPacket
  <2>3. q \in Seq(Bytes)
    <3>1. From(commands, k + 1) \in Seq(Seq(Bytes))
      BY <1>3, <2>1, FromWithin
    <3>. QED
      BY <3>1, FlattenTyped
  <2>. HIDE DEF q
  <2>4. PICK code \in Codes, size \in PayloadSizes : p = buildPacket(k + 1, code, size)
    BY <1>1, <2>1 DEF Numbered
  <2>. DEFINE b == buildPacket(k + 1, code, size)
  <2>5. b \in Seq(Bytes) /\ Len(b) = HeaderSize + size
    BY <2>1, PacketShape
  <2>6. s = b \o q
    BY <2>2, <2>4
  <2>7. HeaderSize \in Nat /\ size \in Nat
    BY SizesAreNumbers
  <2>. HIDE DEF p, b
  <2>8. /\ Len(s) = Len(b) + Len(q) /\ Len(q) \in Nat
        /\ \A i \in 1 .. Len(b) : s[i] = b[i]
    BY <2>3, <2>5, <2>6
  <2>9. Len(s) >= HeaderSize /\ Len(s) >= HeaderSize + size
        /\ \A i \in 1 .. HeaderSize : s[i] = b[i]
    BY <2>5, <2>7, <2>8
  <2>10. packetSize(s) = HeaderSize + size
    BY <1>1, <2>1, <2>9, HeaderTells DEF b
  <2>. QED
    BY <1>1, <2>9, <2>10 DEF complete
<1>. QED
  BY <1>4, <1>5

LEMMA ReadInStep ==
  ASSUME DownInv
  PROVE  InStepUnlessCut
<1>. SUFFICES ASSUME ~cut PROVE IsPrefix(read, queuedPackets)
  BY DEF InStepUnlessCut
<1>1. /\ read \in Seq(Seq(Bytes)) /\ queuedPackets \in Seq(Seq(Bytes))
      /\ Len(read) <= Len(queuedPackets) /\ read = SubSeq(queuedPackets, 1, Len(read))
  BY DEF DownInv, DownTyped, DownStreamKept, PrefixRead, Numbered
<1>. QED
  BY <1>1 DEF IsPrefix

-----------------------------------------------------------------------------
(* The theorems                                                             *)

\* Type correctness: what the buffers of the server, the kernel and readExact
\* hold are bytes of packets, and packets are numbered as they were built.
TypesKept ==
  /\ incoming \in Seq(Bytes) /\ up \in Seq(Bytes) /\ dispatched \in Seq(Seq(Bytes))
  /\ Numbered(commands)
  /\ DownTyped

THEOREM FramingTypeCorrect == Spec => []TypesKept
<1>1. UpInv /\ DownInv => TypesKept
  BY DEF UpInv, DownInv, CommandsNumbered, TypesKept
<1>2. UpInv /\ DownInv /\ [Next]_vars => UpInv' /\ DownInv'
  BY UpStep, DownStep
<1>. QED
  BY <1>1, <1>2, FramingStarts, PTL DEF Spec

\* However the kernel cuts what the client sends, once the server has read all
\* of it processClientIncomingPackets has dispatched all of it: no complete
\* packet stays in the incoming buffer, where poll() would not report it.
THEOREM EverythingDispatched == Spec => []NothingLeftBehind
<1>1. UpInv => NothingLeftBehind
  BY NothingComplete
<1>2. UpInv /\ [Next]_vars => UpInv'
  BY UpStep
<1>. QED
  BY <1>1, <1>2, FramingStarts, PTL DEF Spec

\* As long as no timeout has struck inside a packet, readExact gives the client
\* exactly the packets the server queued, whole and in order.
THEOREM InStepWithoutCut == Spec => []InStepUnlessCut
<1>1. DownInv => InStepUnlessCut
  BY ReadInStep
<1>2. DownInv /\ [Next]_vars => DownInv'
  BY DownStep
<1>. QED
  BY <1>1, <1>2, FramingStarts, PTL DEF Spec

\* The server's end implements PacketStream: whatever pieces are read, it
\* dispatches the client's commands whole, in order and once, and a connection
\* begins with nothing of the one before.
THEOREM CommandsFramedAlways == Spec => CommandsFramed
<1>1. UpInv /\ [Next]_vars => UpInv' /\ [UpStream!Next]_<<commands, dispatched>>
  BY UpStep
<1>. QED
  BY <1>1, FramingStarts, PTL DEF Spec, CommandsFramed, UpStream!Spec
=============================================================================
