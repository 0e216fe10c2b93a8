---------------------------- MODULE ServingProofs ----------------------------
(***************************************************************************)
(* Proofs about Framing and Serving, for messages of every size and every  *)
(* cut of the streams.                                                     *)
(*                                                                         *)
(* The messages of a stream are found by counting: IsStream says what the  *)
(* unit at each place is.  A step adds a message at the end of a stream,   *)
(* takes one from its beginning, or leaves it as it is, so that nothing    *)
(* has to be shown by induction over a stream.                             *)
(***************************************************************************)
EXTENDS Serving, SequenceTheorems, TLAPS

-----------------------------------------------------------------------------
(* Streams of whole messages.                                              *)

Unit(message, size) == [of |-> message, total |-> size]

\* The units of the messages M, one message after the other.
IsStream(s, M, size) ==
  /\ Len(s) = Len(M) * size
  /\ \A k \in 1..Len(M), j \in 1..size : s[(k - 1) * size + j] = Unit(M[k], size)

\* Messages end where their units are counted to end.
LEMMA Product ==
  ASSUME NEW a \in Nat, NEW b \in Nat, NEW size \in Nat \ {0}
  PROVE  /\ a * size \in Nat
         /\ (a + 1) * size = a * size + size
         /\ a < b => a * size + size <= b * size
         /\ (a * size) \div size = a
<1>1. a * size \in Nat /\ (a + 1) * size = a * size + size
  OBVIOUS
<1>2. a < b => a * size + size <= b * size
  <2> SUFFICES ASSUME a < b PROVE a * size + size <= b * size
    OBVIOUS
  <2>1. b - a - 1 \in Nat
    OBVIOUS
  <2>2. b * size = a * size + size + (b - a - 1) * size
    OBVIOUS
  <2>3. (b - a - 1) * size >= 0
    BY <2>1
  <2> QED
    BY <2>2, <2>3
<1>3. (a * size) \div size = a
  OBVIOUS
<1> QED
  BY <1>1, <1>2, <1>3

\* The first message of a stream is in its first two units.
LEMMA StreamBegins ==
  ASSUME NEW s, NEW M, NEW size \in Nat, size >= SmallestMessage,
         IsStream(s, M, size), Len(M) \in Nat, Len(M) # 0
  PROVE  /\ Len(s) >= size
         /\ s[1] = Unit(M[1], size) /\ s[2] = Unit(M[1], size)
<1>1. size \in Nat \ {0} /\ 0 \in Nat /\ 1 \in 1..Len(M) /\ {1, 2} \subseteq 1..size
  BY DEF SmallestMessage
<1>2. 0 * size + size <= Len(M) * size /\ 0 * size = 0
  BY <1>1, Product
<1>3. s[(1 - 1) * size + 1] = Unit(M[1], size) /\ s[(1 - 1) * size + 2] = Unit(M[1], size)
  BY <1>1 DEF IsStream
<1>4. (1 - 1) * size = 0
  BY <1>2
<1>5. s[1] = Unit(M[1], size) /\ s[2] = Unit(M[1], size)
  BY <1>3, <1>4
<1> QED
  BY <1>1, <1>2, <1>5 DEF IsStream

\* Without units there are no messages.
LEMMA StreamOfNothing ==
  ASSUME NEW s, NEW M, NEW size \in Nat, size >= SmallestMessage,
         IsStream(s, M, size), Len(M) \in Nat
  PROVE  Len(M) = 0 <=> Len(s) = 0
<1>1. size \in Nat \ {0} /\ 0 * size = 0
  BY DEF SmallestMessage
<1>2. Len(M) # 0 => Len(s) # 0
  BY <1>1, StreamBegins DEF SmallestMessage
<1> QED
  BY <1>1, <1>2 DEF IsStream

\* Without the units of the first message, a stream has the other messages.
LEMMA StreamEnds ==
  ASSUME NEW X, NEW R, NEW s \in Seq(X), NEW M \in Seq(R), NEW size \in Nat,
         size >= SmallestMessage, IsStream(s, M, size), M # <<>>
  PROVE  IsStream(SubSeq(s, size + 1, Len(s)), Tail(M), size)
<1> DEFINE rest == SubSeq(s, size + 1, Len(s))
<1>1. size \in Nat \ {0} /\ Len(M) \in Nat \ {0} /\ Len(s) \in Nat
  BY DEF SmallestMessage
<1>2. Len(s) >= size
  BY <1>1, StreamBegins
<1>3. /\ Len(rest) = Len(s) - size
      /\ \A i \in 1..(Len(s) - size) : rest[i] = s[size + i]
  BY <1>1, <1>2
<1>4. Len(Tail(M)) = Len(M) - 1 /\ \A k \in 1..(Len(M) - 1) : Tail(M)[k] = M[k + 1]
  BY <1>1
<1>5. Len(M) * size = (Len(M) - 1) * size + size
  <2>1. Len(M) - 1 \in Nat
    BY <1>1
  <2> QED
    BY <1>1
<1>6. Len(rest) = Len(Tail(M)) * size
  BY <1>1, <1>3, <1>4, <1>5 DEF IsStream
<1>7. ASSUME NEW k \in 1..(Len(M) - 1), NEW j \in 1..size
      PROVE  rest[(k - 1) * size + j] = Unit(Tail(M)[k], size)
  <2>1. /\ k - 1 \in Nat /\ k \in Nat /\ Len(M) - 1 \in Nat /\ k - 1 < Len(M) - 1
        /\ k + 1 \in 1..Len(M)
    BY <1>1
  <2>2. /\ (k - 1) * size \in Nat
        /\ (k - 1) * size + size <= (Len(M) - 1) * size
        /\ k * size = (k - 1) * size + size
    <3>1. (k - 1) * size \in Nat /\ (k - 1 + 1) * size = (k - 1) * size + size
          /\ (k - 1) * size + size <= (Len(M) - 1) * size
      BY <1>1, <2>1, Product
    <3> QED
      BY <1>1, <3>1
  <2>3. (k - 1) * size + j \in 1..(Len(s) - size)
    BY <1>1, <1>5, <2>2 DEF IsStream
  <2>4. s[k * size + j] = Unit(M[k + 1], size)
    <3>1. PICK q \in 1..Len(M) : q = k + 1
      BY <2>1
    <3>2. s[(q - 1) * size + j] = Unit(M[q], size)
      BY DEF IsStream
    <3>3. q - 1 = k
      BY <2>1, <3>1
    <3> QED
      BY <3>1, <3>2, <3>3
  <2>5. size + ((k - 1) * size + j) = k * size + j
    BY <1>1, <2>2
  <2> QED
    BY <1>3, <1>4, <2>3, <2>4, <2>5
<1> QED
  BY <1>1, <1>4, <1>6, <1>7 DEF IsStream

\* With the units of one more message, a stream has that message at its end.
LEMMA StreamGrows ==
  ASSUME NEW X, NEW R, NEW s \in Seq(X), NEW M \in Seq(R), NEW size \in Nat,
         size >= SmallestMessage, IsStream(s, M, size), NEW r
  PROVE  IsStream(s \o Units(r, size), Append(M, r), size)
<1> DEFINE more == s \o Units(r, size)
           N == Append(M, r)
<1>1. size \in Nat \ {0} /\ Len(M) \in Nat /\ Len(s) \in Nat
  BY DEF SmallestMessage
<1>2. /\ Units(r, size) \in Seq({Unit(r, size)})
      /\ Len(Units(r, size)) = size
      /\ \A j \in 1..size : Units(r, size)[j] = Unit(r, size)
  BY DEF Units, Unit
<1>3. /\ Len(more) = Len(s) + size
      /\ \A i \in 1..Len(s) : more[i] = s[i]
      /\ \A j \in 1..size : more[Len(s) + j] = Unit(r, size)
  BY <1>1, <1>2
<1>4. /\ Len(N) = Len(M) + 1
      /\ \A k \in 1..Len(M) : N[k] = M[k]
      /\ N[Len(M) + 1] = r
  OBVIOUS
<1>5. Len(s) = Len(M) * size /\ (Len(M) + 1) * size = Len(s) + size
  BY <1>1, Product DEF IsStream
<1>6. ASSUME NEW k \in 1..Len(M), NEW j \in 1..size
      PROVE  more[(k - 1) * size + j] = Unit(N[k], size)
  <2>1. k - 1 \in Nat /\ k - 1 < Len(M)
    BY <1>1
  <2>2. (k - 1) * size \in Nat /\ (k - 1) * size + size <= Len(M) * size
    BY <1>1, <2>1, Product
  <2>3. (k - 1) * size + j \in 1..Len(s)
    BY <1>1, <1>5, <2>2
  <2>4. s[(k - 1) * size + j] = Unit(M[k], size)
    BY DEF IsStream
  <2> QED
    BY <1>3, <1>4, <2>3, <2>4
<1>7. ASSUME NEW k \in 1..(Len(M) + 1), NEW j \in 1..size
      PROVE  more[(k - 1) * size + j] = Unit(N[k], size)
  <2> HIDE DEF more, N
  <2>1. CASE k \in 1..Len(M)
    BY <1>6, <2>1
  <2>2. CASE k = Len(M) + 1
    <3>1. (k - 1) * size = Len(s)
      BY <1>1, <1>5, <2>2
    <3> QED
      BY <1>3, <1>4, <2>2, <3>1
  <2> QED
    BY <1>1, <2>1, <2>2
<1> HIDE DEF more, N
<1> QED
  BY <1>3, <1>4, <1>5, <1>7 DEF IsStream, more, N

\* The refinement counts the messages of a stream.
LEMMA StreamMessages ==
  ASSUME NEW R, NEW M \in Seq(R), NEW s, NEW size \in Nat, size >= SmallestMessage,
         IsStream(s, M, size)
  PROVE  Messages(s, size) = M
<1>1. size \in Nat \ {0} /\ Len(M) \in Nat
  BY DEF SmallestMessage
<1>2. Len(s) \div size = Len(M)
  BY <1>1, Product DEF IsStream
<1>3. ASSUME NEW k \in 1..Len(M) PROVE s[k * size].of = M[k]
  <2>1. k - 1 \in Nat /\ size \in 1..size
    BY <1>1
  <2>2. (k - 1 + 1) * size = (k - 1) * size + size
    BY <1>1, <2>1, Product
  <2>3. k * size = (k - 1) * size + size
    BY <2>2
  <2>4. s[(k - 1) * size + size] = Unit(M[k], size)
    BY <2>1 DEF IsStream
  <2> QED
    BY <2>3, <2>4 DEF Unit
<1>4. M = [k \in 1..Len(M) |-> M[k]]
  OBVIOUS
<1> QED
  BY <1>2, <1>3, <1>4 DEF Messages

\* Nothing is a stream of no messages.
LEMMA EmptyStream ==
  ASSUME NEW size \in Nat
  PROVE  IsStream(<<>>, <<>>, size)
BY DEF IsStream

-----------------------------------------------------------------------------
(* SomeipDataProcessor.                                                    *)

\* Units of messages of R.
Units4(R) == [of : R, total : Nat]

\* SomeipDataProcessor between two calls of process_data, when no unit but those of
\* messages of that size was read.
Consistent(p, size) ==
  \/ p = [state |-> "HEADER", buffer |-> p.buffer, total |-> 0, expected |-> HeaderUnits]
  \/ /\ p = [state |-> "PAYLOAD", buffer |-> p.buffer, total |-> size,
             expected |-> size - Len(p.buffer)]
     /\ Len(p.buffer) >= HeaderUnits /\ Len(p.buffer) < size

\* s is b followed by t, and c is what s leaves after n elements, element by element.
Joins(s, b, t) ==
  /\ Len(s) = Len(b) + Len(t)
  /\ \A i \in 1..Len(s) : s[i] = IF i <= Len(b) THEN b[i] ELSE t[i - Len(b)]

Leaves(c, s, n) ==
  /\ Len(c) = Len(s) - n
  /\ \A i \in 1..(Len(s) - n) : c[i] = s[n + i]

\* Joins says what concatenation is ...
LEMMA ConcatJoins ==
  ASSUME NEW X, NEW b \in Seq(X), NEW t \in Seq(X)
  PROVE  Joins(b \o t, b, t) /\ b \o t \in Seq(X)
BY ConcatProperties DEF Joins

\* ... and determines it.
LEMMA JoinIsConcat ==
  ASSUME NEW X, NEW b \in Seq(X), NEW t \in Seq(X), NEW s \in Seq(X), Joins(s, b, t)
  PROVE  s = b \o t
<1> DEFINE u == b \o t
<1>1. Joins(u, b, t) /\ u \in Seq(X)
  BY ConcatJoins
<1> HIDE DEF u
<1>2. Len(u) = Len(s) /\ \A i \in 1..Len(u) : u[i] = s[i]
  BY <1>1 DEF Joins
<1>3. \A f, g \in Seq(X) : Len(f) = Len(g) /\ (\A i \in 1..Len(f) : f[i] = g[i]) => f = g
  BY SeqEqual
<1>4. u = s
  BY <1>1, <1>2, <1>3, Zenon
<1> QED
  BY <1>4 DEF u

\* Leaves says what is left of a sequence.
LEMMA SubSeqLeaves ==
  ASSUME NEW X, NEW s \in Seq(X), NEW n \in 0..Len(s)
  PROVE  Leaves(SubSeq(s, n + 1, Len(s)), s, n) /\ SubSeq(s, n + 1, Len(s)) \in Seq(X)
<1>1. Len(s) \in Nat /\ n \in Nat /\ n <= Len(s)
  OBVIOUS
<1> QED
  BY <1>1 DEF Leaves

\* It does not matter what is put together first.
LEMMA ConcatIsAssociative ==
  ASSUME NEW X, NEW b \in Seq(X), NEW d \in Seq(X), NEW r \in Seq(X),
         NEW x \in Seq(X), NEW y \in Seq(X), Joins(x, b, d), Joins(y, d, r)
  PROVE  Joins(x \o r, b, y)
<1>1. Len(b) \in Nat /\ Len(d) \in Nat /\ Len(r) \in Nat
  OBVIOUS
<1> DEFINE u == x \o r
<1>2. Joins(u, x, r) /\ u \in Seq(X)
  BY ConcatJoins
<1> HIDE DEF u
<1>3. /\ Len(x) = Len(b) + Len(d) /\ Len(y) = Len(d) + Len(r)
      /\ Len(u) = Len(b) + Len(y) /\ Len(u) = Len(x) + Len(r)
  BY <1>1, <1>2 DEF Joins
<1>4. ASSUME NEW i \in 1..Len(u) PROVE u[i] = IF i <= Len(b) THEN b[i] ELSE y[i - Len(b)]
  <2>1. i \in Nat /\ 1 <= i /\ i <= Len(b) + Len(d) + Len(r)
    BY <1>1, <1>3
  <2>2. u[i] = IF i <= Len(x) THEN x[i] ELSE r[i - Len(x)]
    BY <1>2 DEF Joins
  <2>3. CASE i <= Len(b)
    <3>1. i <= Len(x) /\ i \in 1..Len(x)
      BY <1>1, <1>3, <2>1, <2>3
    <3> QED
      BY <2>2, <2>3, <3>1 DEF Joins
  <2>4. CASE ~(i <= Len(b)) /\ i <= Len(x)
    <3>1. i \in 1..Len(x) /\ i - Len(b) \in 1..Len(y) /\ i - Len(b) <= Len(d)
      BY <1>1, <1>3, <2>1, <2>4
    <3> QED
      BY <2>2, <2>4, <3>1 DEF Joins
  <2>5. CASE ~(i <= Len(b)) /\ ~(i <= Len(x))
    <3>1. /\ i - Len(b) \in 1..Len(y) /\ ~(i - Len(b) <= Len(d))
          /\ i - Len(b) - Len(d) = i - Len(x)
      BY <1>1, <1>3, <2>1, <2>5
    <3> QED
      BY <2>2, <2>5, <3>1 DEF Joins
  <2> QED
    BY <2>3, <2>4, <2>5
<1>5. Joins(u, b, y)
  BY <1>3, <1>4 DEF Joins
<1> QED
  BY <1>5 DEF u

\* A chunk that was read stays in the stream.
LEMMA ChunkMoves ==
  ASSUME NEW X, NEW b \in Seq(X), NEW t \in Seq(X), NEW n \in 1..Len(t)
  PROVE  /\ SubSeq(t, 1, n) \in Seq(X) /\ SubSeq(t, n + 1, Len(t)) \in Seq(X)
         /\ b \o SubSeq(t, 1, n) \in Seq(X)
         /\ Len(b \o SubSeq(t, 1, n)) = Len(b) + n
         /\ (b \o SubSeq(t, 1, n)) \o SubSeq(t, n + 1, Len(t)) = b \o t
<1>1. Len(t) \in Nat /\ n \in Nat /\ n <= Len(t) /\ 1 <= n /\ Len(b) \in Nat
  OBVIOUS
<1>2. /\ SubSeq(t, 1, n) \in Seq(X) /\ SubSeq(t, n + 1, Len(t)) \in Seq(X)
      /\ Len(SubSeq(t, 1, n)) = n
  BY <1>1
<1>3. SubSeq(t, 1, n) \o SubSeq(t, n + 1, Len(t)) = t
  <2>1. SubSeq(t, 1, n) \o SubSeq(t, n + 1, Len(t)) = SubSeq(t, 1, Len(t))
    BY <1>1, ConcatAdjacentSubSeq
  <2> QED
    BY <2>1, SubSeqFull
<1> DEFINE d == SubSeq(t, 1, n)
           r == SubSeq(t, n + 1, Len(t))
<1> HIDE DEF d, r
<1>4. (b \o d) \o r = b \o (d \o r)
  <2>1. d \in Seq(X) /\ r \in Seq(X)
    BY <1>2 DEF d, r
  <2> DEFINE x == b \o d
             y == d \o r
  <2>2. /\ Joins(x, b, d) /\ x \in Seq(X)
        /\ Joins(y, d, r) /\ y \in Seq(X)
    BY <2>1, ConcatJoins
  <2> HIDE DEF x, y
  <2> DEFINE u == x \o r
  <2>3. Joins(u, b, y)
    BY <2>1, <2>2, ConcatIsAssociative
  <2>4. u \in Seq(X)
    BY <2>1, <2>2, ConcatJoins
  <2> HIDE DEF u
  <2>5. u = b \o y
    BY <2>2, <2>3, <2>4, JoinIsConcat
  <2> QED
    BY <2>5 DEF x, y, u
<1>5. b \o d \in Seq(X) /\ Len(b \o d) = Len(b) + Len(d)
  BY <1>2, ConcatProperties DEF d
<1> QED
  BY <1>2, <1>3, <1>4, <1>5 DEF d, r

\* What is taken from the beginning of a whole is taken from its first part.
LEMMA JoinLeavesJoin ==
  ASSUME NEW X, NEW b \in Seq(X), NEW t \in Seq(X), NEW n \in 0..Len(b),
         NEW s \in Seq(X), NEW rest \in Seq(X), NEW cut \in Seq(X),
         Joins(s, b, t), Leaves(rest, b, n), Leaves(cut, s, n)
  PROVE  Joins(cut, rest, t)
<1>1. Len(b) \in Nat /\ Len(t) \in Nat /\ n \in Nat /\ n <= Len(b)
  OBVIOUS
<1>2. Len(rest) = Len(b) - n /\ Len(s) = Len(b) + Len(t) /\ Len(cut) = Len(s) - n
  BY DEF Joins, Leaves
<1>3. ASSUME NEW i \in 1..Len(cut)
      PROVE  cut[i] = IF i <= Len(rest) THEN rest[i] ELSE t[i - Len(rest)]
  <2>1. i \in Nat /\ i \in 1..(Len(s) - n) /\ n + i \in 1..Len(s)
    BY <1>1, <1>2
  <2>2. cut[i] = IF n + i <= Len(b) THEN b[n + i] ELSE t[n + i - Len(b)]
    BY <2>1 DEF Joins, Leaves
  <2>3. CASE i <= Len(rest)
    <3>1. i \in 1..(Len(b) - n) /\ n + i <= Len(b)
      BY <1>1, <1>2, <2>1, <2>3
    <3> QED
      BY <2>2, <2>3, <3>1 DEF Leaves
  <2>4. CASE ~(i <= Len(rest))
    <3>1. ~(n + i <= Len(b)) /\ n + i - Len(b) = i - Len(rest)
      BY <1>1, <1>2, <2>1, <2>4
    <3> QED
      BY <2>2, <2>4, <3>1
  <2> QED
    BY <2>3, <2>4
<1> QED
  BY <1>1, <1>2, <1>3 DEF Joins

\* The three outcomes of process_data: the header is not complete, the message is
\* not complete, or there is a message.
LEMMA HeaderIsPartial ==
  ASSUME NEW q, NEW data, NEW b, b = q \o data, Len(b) \in Nat, Len(b) < HeaderUnits
  PROVE  ProcessData([state |-> "HEADER", buffer |-> q, total |-> 0, expected |-> HeaderUnits],
                     data)
           = [processor |-> [state |-> "HEADER", buffer |-> b, total |-> 0,
                             expected |-> HeaderUnits],
              message   |-> NoMessage]
BY DEF ProcessData, Partial, HeaderUnits

\* A processor for which this much is known goes on with the length of the message.
KnowsTotal(p, b, size) ==
  /\ p.state = "HEADER" => Len(b) >= p.expected
  /\ ~(p.state = "HEADER" /\ Len(b) < p.expected)
  /\ (IF p.state = "HEADER" /\ Len(b) >= HeaderUnits THEN b[2].total ELSE p.total) = size

LEMMA MessageIsPartial ==
  ASSUME NEW p, NEW data, NEW size, KnowsTotal(p, p.buffer \o data, size),
         Len(p.buffer \o data) < size
  PROVE  ProcessData(p, data)
           = [processor |-> [state |-> "PAYLOAD", buffer |-> p.buffer \o data, total |-> size,
                             expected |-> size - Len(p.buffer \o data)],
              message   |-> NoMessage]
BY DEF ProcessData, Partial, KnowsTotal

LEMMA MessageIsComplete ==
  ASSUME NEW p, NEW data, NEW size, KnowsTotal(p, p.buffer \o data, size),
         ~(Len(p.buffer \o data) < size)
  PROVE  ProcessData(p, data)
           = [processor |-> [state |-> "HEADER",
                             buffer |-> SubSeq(p.buffer \o data, size + 1,
                                               Len(p.buffer \o data)),
                             total |-> 0, expected |-> HeaderUnits],
              message   |-> (p.buffer \o data)[1].of]
BY DEF ProcessData, Fresh, KnowsTotal

\* What process_data makes of the next n units, and what is left of them.
Read(p, t, n) == ProcessData(p, SubSeq(t, 1, n))

Rest(t, n) == SubSeq(t, n + 1, Len(t))

\* What process_data does with a chunk of a stream: either everything stays as it
\* is, or the first message is given out and gone.
LEMMA ProcessDataReads ==
  ASSUME NEW R, NEW size \in Nat, size >= SmallestMessage,
         NEW p, p.buffer \in Seq(Units4(R)), Consistent(p, size),
         NEW t \in Seq(Units4(R)), NEW M \in Seq(R), NoMessage \notin R,
         IsStream(p.buffer \o t, M, size), NEW n \in 1..Len(t)
  PROVE  LET read == Read(p, t, n)
             rest == Rest(t, n)
         IN  /\ read.processor.buffer \in Seq(Units4(R))
             /\ rest \in Seq(Units4(R))
             /\ Consistent(read.processor, size)
             /\ \/ /\ read.message = NoMessage
                   /\ IsStream(read.processor.buffer \o rest, M, size)
                \/ /\ M # <<>> /\ read.message = Head(M) /\ read.message \in R
                   /\ IsStream(read.processor.buffer \o rest, Tail(M), size)
<1> DEFINE X      == Units4(R)
           data   == SubSeq(t, 1, n)
           rest   == SubSeq(t, n + 1, Len(t))
           b      == p.buffer \o data
           s      == p.buffer \o t
           read   == Read(p, t, n)
<1>1. /\ data \in Seq(X) /\ rest \in Seq(X) /\ b \in Seq(X)
      /\ Len(b) = Len(p.buffer) + n /\ b \o rest = s /\ s \in Seq(X)
  <2> DEFINE a == p.buffer
  <2>1. a \in Seq(X) /\ a \o t \in Seq(X)
    BY ConcatProperties
  <2> HIDE DEF a, X
  <2>2. /\ data \in Seq(X) /\ rest \in Seq(X) /\ a \o data \in Seq(X)
        /\ Len(a \o data) = Len(a) + n /\ (a \o data) \o rest = a \o t
    <3>1. \A c, u \in Seq(X) : \A m \in 1..Len(u) :
            /\ SubSeq(u, 1, m) \in Seq(X) /\ SubSeq(u, m + 1, Len(u)) \in Seq(X)
            /\ c \o SubSeq(u, 1, m) \in Seq(X)
            /\ Len(c \o SubSeq(u, 1, m)) = Len(c) + m
            /\ (c \o SubSeq(u, 1, m)) \o SubSeq(u, m + 1, Len(u)) = c \o u
      BY ChunkMoves
    <3>2. t \in Seq(X) /\ n \in 1..Len(t)
      BY DEF X
    <3> QED
      BY <2>1, <3>1, <3>2, Zenon
  <2> QED
    BY <2>1, <2>2 DEF a
<1>2. /\ Len(b) \in Nat /\ n \in Nat /\ n >= 1 /\ Len(p.buffer) \in Nat /\ Len(b) >= 1
      /\ Len(s) \in Nat /\ Len(rest) \in Nat
  BY <1>1
<1>3. Len(s) = Len(b) + Len(rest) /\ \A i \in 1..Len(b) : s[i] = b[i]
  <2> HIDE DEF b, s, data, rest, X
  <2>1. \A i \in 1..Len(b) : i \in 1..(Len(b) + Len(rest)) /\ i <= Len(b)
    BY <1>2
  <2> QED
    BY <1>1, <2>1, ConcatProperties
<1>4. Len(M) # 0 /\ M # <<>> /\ Len(M) \in Nat /\ Head(M) = M[1] /\ M[1] \in R
  <2>1. Len(s) # 0 /\ Len(M) \in Nat
    <3> HIDE DEF b, s, data, rest, X
    <3> QED
      BY <1>2, <1>3
  <2>2. Len(M) # 0
    BY <2>1, StreamOfNothing
  <2> QED
    BY <2>1, <2>2
<1>5. /\ Len(s) >= size /\ s[1] = Unit(M[1], size) /\ s[2] = Unit(M[1], size)
  BY <1>4, StreamBegins
<1> DEFINE total == IF p.state = "HEADER" /\ Len(b) >= HeaderUnits THEN b[2].total ELSE p.total
<1>u. /\ Unit(M[1], size).of = M[1]
      /\ Unit(M[1], size).total = size
  BY DEF Unit
<1>e. /\ b[1] = Unit(M[1], size)
      /\ Len(b) >= 2 => b[2] = Unit(M[1], size)
  <2> HIDE DEF b, s, data, rest, X, read, total
  <2> QED
    BY <1>2, <1>3, <1>5
<1>6. Len(b) >= 2 => b[2].total = size
  BY <1>e, <1>u, Zenon
<1>7. b[1].of = M[1]
  BY <1>e, <1>u, Zenon
<1>r. read = ProcessData(p, data)
  BY DEF Read
<1> HIDE DEF b, s, data, rest, X, read, total
<1>8. CASE p.state = "HEADER" /\ Len(b) < p.expected
  <2>1. p = [state |-> "HEADER", buffer |-> p.buffer, total |-> 0, expected |-> HeaderUnits]
    BY <1>8 DEF Consistent
  <2>2. Len(b) < HeaderUnits
    BY <1>8, <2>1
  <2>3. /\ read.message = NoMessage
        /\ read.processor = [state |-> "HEADER", buffer |-> b, total |-> 0,
                             expected |-> HeaderUnits]
    <3> DEFINE q == p.buffer
    <3>1. p = [state |-> "HEADER", buffer |-> q, total |-> 0, expected |-> HeaderUnits]
          /\ b = q \o data
      BY <2>1 DEF b
    <3> HIDE DEF q
    <3>2. ProcessData([state |-> "HEADER", buffer |-> q, total |-> 0, expected |-> HeaderUnits],
                     data)
           = [processor |-> [state |-> "HEADER", buffer |-> b, total |-> 0,
                             expected |-> HeaderUnits],
              message   |-> NoMessage]
      BY <1>2, <2>2, <3>1, HeaderIsPartial
    <3>3. read = [processor |-> [state |-> "HEADER", buffer |-> b, total |-> 0,
                                 expected |-> HeaderUnits],
                  message   |-> NoMessage]
      BY <3>1, <1>r, <3>2, Zenon
    <3> QED
      BY <3>3
  <2>4. read.processor.buffer = b /\ Consistent(read.processor, size)
    BY <2>3 DEF Consistent
  <2> QED
    BY <1>1, <2>3, <2>4 DEF s, data, rest, X, read, Rest
<1>9. CASE ~(p.state = "HEADER" /\ Len(b) < p.expected)
  <2>0. Len(b) = Len(p.buffer) + n
    BY <1>1
  <2>1. /\ p.state = "HEADER" => Len(b) >= p.expected
        /\ Len(b) >= HeaderUnits /\ total = size
    BY <1>2, <2>0, <1>6, <1>9 DEF Consistent, HeaderUnits, total
  <2>a. KnowsTotal(p, b, size)
    BY <1>9, <2>1 DEF KnowsTotal, total
  <2>2. CASE Len(b) < size
    <3>2. /\ read.message = NoMessage
          /\ read.processor = [state |-> "PAYLOAD", buffer |-> b, total |-> size,
                               expected |-> size - Len(b)]
      <4>1. read = [processor |-> [state |-> "PAYLOAD", buffer |-> b, total |-> size,
                                   expected |-> size - Len(b)],
                    message   |-> NoMessage]
        BY <1>r, <2>a, <2>2, MessageIsPartial DEF b
      <4> QED
        BY <4>1
    <3>3. read.processor.buffer = b /\ Consistent(read.processor, size)
      BY <2>1, <2>2, <3>2 DEF Consistent
    <3> QED
      BY <1>1, <3>2, <3>3 DEF s, data, rest, X, read, Rest
  <2>3. CASE Len(b) >= size
    <3>1. ~(Len(b) < size)
      BY <1>2, <2>3
    <3>2. /\ read.message = M[1]
          /\ read.processor = [state |-> "HEADER", buffer |-> SubSeq(b, size + 1, Len(b)),
                               total |-> 0, expected |-> HeaderUnits]
      <4>1. read = [processor |-> [state |-> "HEADER", buffer |-> SubSeq(b, size + 1, Len(b)),
                                   total |-> 0, expected |-> HeaderUnits],
                    message   |-> b[1].of]
        BY <1>r, <2>a, <3>1, MessageIsComplete DEF b
      <4> QED
        BY <1>7, <4>1
    <3>3. /\ read.processor.buffer = SubSeq(b, size + 1, Len(b))
          /\ Consistent(read.processor, size)
      <4> DEFINE c == SubSeq(b, size + 1, Len(b))
      <4> HIDE DEF c
      <4>1. read.processor = [state |-> "HEADER", buffer |-> c, total |-> 0,
                              expected |-> HeaderUnits]
        BY <3>2 DEF c
      <4>2. read.processor.buffer = c /\ Consistent(read.processor, size)
        BY <4>1 DEF Consistent
      <4> QED
        BY <4>2 DEF c
    <3>4. /\ SubSeq(b, size + 1, Len(b)) \in Seq(X)
          /\ SubSeq(b, size + 1, Len(b)) \o rest = SubSeq(s, size + 1, Len(s))
      <4>1. size \in 0..Len(b)
        BY <1>2, <2>3
      <4>2. b \in Seq(X) /\ rest \in Seq(X) /\ s = b \o rest
        BY <1>1
      <4> DEFINE left == SubSeq(b, size + 1, Len(b))
                 cut  == SubSeq(s, size + 1, Len(s))
      <4>3. Joins(s, b, rest) /\ s \in Seq(X)
        BY <4>2, ConcatJoins, Zenon
      <4>4. size \in 0..Len(s)
        BY <4>1, <4>3 DEF Joins
      <4>5. Leaves(left, b, size) /\ left \in Seq(X)
        BY <4>1, <4>2, SubSeqLeaves, Zenon
      <4>6. Leaves(cut, s, size) /\ cut \in Seq(X)
        BY <4>3, <4>4, SubSeqLeaves, Zenon
      <4> HIDE DEF left, cut
      <4>7. Joins(cut, left, rest)
        BY <4>1, <4>2, <4>3, <4>5, <4>6, JoinLeavesJoin, Zenon
      <4>8. cut = left \o rest
        BY <4>2, <4>5, <4>6, <4>7, JoinIsConcat, Zenon
      <4> QED
        BY <4>5, <4>8, Zenon DEF left, cut
    <3>5. IsStream(SubSeq(s, size + 1, Len(s)), Tail(M), size)
      BY <1>1, <1>4, StreamEnds DEF s
    <3> QED
      BY <1>1, <1>4, <3>2, <3>3, <3>4, <3>5 DEF data, rest, X, read, Rest
  <2> QED
    BY <1>2, <2>2, <2>3
<1> QED
  BY <1>8, <1>9

-----------------------------------------------------------------------------
(* A reader that asks for no more than expected_bytes, as the TCP client   *)
(* endpoint does.                                                          *)

\* Some units of one message.
Cut(message, size, n) == [i \in 1..n |-> Unit(message, size)]

\* The processor has the first k units of a message, and not all of them.
Within(p, message, size, k) ==
  /\ k \in 0..(size - 1)
  /\ p.buffer = Cut(message, size, k)
  /\ \/ p = [state |-> "HEADER", buffer |-> p.buffer, total |-> 0, expected |-> HeaderUnits]
        /\ k < HeaderUnits
     \/ p = [state |-> "PAYLOAD", buffer |-> p.buffer, total |-> size, expected |-> size - k]
        /\ k >= HeaderUnits

LEMMA CutType ==
  ASSUME NEW message, NEW size, NEW n \in Nat
  PROVE  /\ Cut(message, size, n) \in Seq({Unit(message, size)})
         /\ Len(Cut(message, size, n)) = n
         /\ \A i \in 1..n : Cut(message, size, n)[i] = Unit(message, size)
BY DEF Cut

\* Units that follow each other in the stream are put together.
LEMMA CutsJoin ==
  ASSUME NEW message, NEW size, NEW k \in Nat, NEW n \in Nat
  PROVE  /\ Cut(message, size, k) \in Seq({Unit(message, size)})
         /\ Cut(message, size, n) \in Seq({Unit(message, size)})
         /\ Cut(message, size, k + n) \in Seq({Unit(message, size)})
         /\ Joins(Cut(message, size, k + n), Cut(message, size, k), Cut(message, size, n))
<1> DEFINE a == Cut(message, size, k)
           b == Cut(message, size, n)
           c == Cut(message, size, k + n)
<1>1. k + n \in Nat
  OBVIOUS
<1>2. /\ Len(a) = k /\ \A i \in 1..k : a[i] = Unit(message, size)
      /\ Len(b) = n /\ \A i \in 1..n : b[i] = Unit(message, size)
      /\ Len(c) = k + n /\ \A i \in 1..(k + n) : c[i] = Unit(message, size)
  BY <1>1, CutType
<1> HIDE DEF a, b, c
<1>3. Joins(c, a, b)
  <2>1. \A i \in 1..(k + n) : i \in 1..k \/ (~(i <= k) /\ i - k \in 1..n)
    OBVIOUS
  <2> QED
    BY <1>2, <2>1 DEF Joins
<1> QED
  BY <1>1, <1>3, CutType DEF a, b, c

LEMMA NothingIsLeft ==
  ASSUME NEW message, NEW size, NEW n \in Nat
  PROVE  SubSeq(Cut(message, size, n), n + 1, n) = <<>>
BY CutType

\* SomeipDataProcessor between two messages.
LEMMA FreshIsWithin ==
  ASSUME NEW message, NEW size \in Nat, size >= SmallestMessage
  PROVE  Within(Fresh, message, size, 0)
BY DEF Within, Fresh, Cut, SmallestMessage, HeaderUnits

\* Reading at most expected_bytes never goes beyond the message, although the
\* expected bytes are not counted down while the header is incomplete: no
\* message is smaller than what can be asked for.  The last chunk yields the
\* message and a processor with nothing left, every other chunk yields none.
THEOREM ReadsUpToTheMessage ==
  ASSUME NEW message, NEW size \in Nat, size >= SmallestMessage,
         NEW p, NEW k \in Nat, Within(p, message, size, k),
         NEW n \in Nat, n >= 1, n <= p.expected
  PROVE  LET read == ProcessData(p, Cut(message, size, n))
         IN  /\ k + n <= size
             /\ k + n = size => read = [processor |-> Fresh, message |-> message]
             /\ k + n < size => /\ read.message = NoMessage
                                /\ Within(read.processor, message, size, k + n)
<1> DEFINE data   == Cut(message, size, n)
           buffer == Cut(message, size, k + n)
           read   == ProcessData(p, data)
<1>1. /\ p.buffer \o data = buffer
      /\ Len(buffer) = k + n
      /\ \A i \in 1..(k + n) : buffer[i] = [of |-> message, total |-> size]
      /\ SubSeq(buffer, k + n + 1, k + n) = <<>>
  <2>1. p.buffer \o data = buffer
    <3> DEFINE X == {Unit(message, size)}
               a == p.buffer
    <3>1. a = Cut(message, size, k)
      BY DEF Within
    <3> HIDE DEF X, a, read
    <3>2. a \in Seq(X) /\ data \in Seq(X) /\ buffer \in Seq(X) /\ Joins(buffer, a, data)
      BY <3>1, CutsJoin, Zenon DEF X
    <3> HIDE DEF data, buffer
    <3>3. buffer = a \o data
      BY <3>2, JoinIsConcat, Zenon
    <3> QED
      BY <3>3 DEF a
  <2>2. k + n \in Nat
    OBVIOUS
  <2>3. Len(buffer) = k + n /\ \A i \in 1..(k + n) : buffer[i] = Unit(message, size)
    BY <2>2, CutType
  <2>4. SubSeq(buffer, k + n + 1, k + n) = <<>>
    BY <2>2, NothingIsLeft
  <2> QED
    BY <2>1, <2>3, <2>4 DEF Unit
<1>2. k + n <= size
  BY DEF Within, SmallestMessage, HeaderUnits
<1> HIDE DEF data, buffer
<1>3. CASE p.state = "HEADER" /\ k + n < HeaderUnits
  <2>1. /\ p = [state |-> "HEADER", buffer |-> p.buffer, total |-> 0, expected |-> HeaderUnits]
        /\ k < HeaderUnits
    BY <1>3 DEF Within
  <2>2. read = Partial([p EXCEPT !.buffer = buffer])
    <3>1. p.state = "HEADER" /\ p.expected = HeaderUnits /\ k + n < p.expected
      BY <1>3, <2>1
    <3> QED
      BY <1>1, <3>1 DEF ProcessData, HeaderUnits
  <2>3. [p EXCEPT !.buffer = buffer]
          = [state |-> "HEADER", buffer |-> buffer, total |-> 0, expected |-> HeaderUnits]
    BY <2>1
  <2>4. /\ read.message = NoMessage
        /\ read.processor = [state |-> "HEADER", buffer |-> buffer, total |-> 0,
                             expected |-> HeaderUnits]
    BY <2>2, <2>3 DEF Partial
  <2>5. k + n < size
    BY <1>3 DEF HeaderUnits, SmallestMessage
  <2>6. Within(read.processor, message, size, k + n)
    BY <1>3, <2>4, <2>5 DEF Within, buffer
  <2> QED
    BY <1>2, <2>4, <2>5, <2>6 DEF data
<1>4. CASE ~(p.state = "HEADER" /\ k + n < HeaderUnits)
  <2>1. /\ (p.state = "HEADER" /\ p.expected = HeaderUnits)
             \/ (p.state = "PAYLOAD" /\ p.total = size)
        /\ k + n >= HeaderUnits
    BY <1>4 DEF Within, HeaderUnits
  <2>2. buffer[1].of = message /\ buffer[2].total = size
    BY <1>1, <2>1 DEF HeaderUnits
  <2>3. CASE k + n < size
    <3>1. read = Partial([state |-> "PAYLOAD", buffer |-> buffer, total |-> size,
                          expected |-> size - (k + n)])
      BY <1>1, <2>1, <2>2, <2>3 DEF ProcessData
    <3>2. /\ read.message = NoMessage
          /\ read.processor = [state |-> "PAYLOAD", buffer |-> buffer, total |-> size,
                               expected |-> size - (k + n)]
      BY <3>1 DEF Partial
    <3>3. Within(read.processor, message, size, k + n)
      BY <2>1, <2>3, <3>2 DEF Within, buffer
    <3> QED
      BY <1>2, <2>3, <3>2, <3>3 DEF data
  <2>4. CASE k + n = size
    <3>1. read = [processor |-> [Fresh EXCEPT !.buffer = SubSeq(buffer, k + n + 1, k + n)],
                  message |-> message]
      <4>1. ~(p.state = "HEADER" /\ k + n < p.expected) /\ ~(k + n < size)
        BY <2>1, <2>4 DEF HeaderUnits
      <4>2. (IF p.state = "HEADER" /\ k + n >= HeaderUnits THEN buffer[2].total ELSE p.total)
              = k + n
        BY <2>1, <2>2, <2>4
      <4> QED
        BY <1>1, <2>2, <2>4, <4>1, <4>2 DEF ProcessData
    <3>2. [Fresh EXCEPT !.buffer = <<>>] = Fresh
      BY DEF Fresh
    <3> QED
      BY <1>1, <1>2, <2>4, <3>1, <3>2 DEF data
  <2> QED
    BY <1>2, <2>3, <2>4
<1> QED
  BY <1>3, <1>4

-----------------------------------------------------------------------------
(* One direction of a connection: the processor that reads it, the units   *)
(* that it has not read, and the messages that all of these stand for.     *)

\* The requests that come over the connection.
TcpRequest == {r \in Request : r.protocol = "tcp"}

\* Processor and units are of the messages M, one after the other.
Direction(p, t, M, size) ==
  /\ p.buffer \in Seq(Units4(TcpRequest))
  /\ t \in Seq(Units4(TcpRequest))
  /\ Consistent(p, size)
  /\ M \in Seq(TcpRequest)
  /\ IsStream(p.buffer \o t, M, size)

\* The refinement counts the messages of a direction.
LEMMA DirectionMessages ==
  ASSUME NEW p, NEW t, NEW M, NEW size \in Nat, size >= SmallestMessage,
         Direction(p, t, M, size)
  PROVE  Messages(p.buffer \o t, size) = M
BY StreamMessages DEF Direction

\* A direction of a new connection has no messages.
LEMMA DirectionOpens ==
  ASSUME NEW size \in Nat
  PROVE  Direction(Fresh, <<>>, <<>>, size)
<1>1. Fresh = [state |-> "HEADER", buffer |-> <<>>, total |-> 0, expected |-> HeaderUnits]
  BY DEF Fresh
<1>2. Fresh.buffer = <<>> /\ Consistent(Fresh, size)
  BY <1>1 DEF Consistent
<1>3. IsStream(<<>> \o <<>>, <<>>, size)
  BY DEF IsStream
<1> QED
  BY <1>2, <1>3 DEF Direction

\* A message that is written is the last one.
LEMMA DirectionIsWritten ==
  ASSUME NEW p, NEW t, NEW M, NEW size \in Nat, size >= SmallestMessage,
         Direction(p, t, M, size), NEW r \in TcpRequest
  PROVE  Direction(p, t \o Units(r, size), Append(M, r), size)
<1> DEFINE X == Units4(TcpRequest)
           b == p.buffer
           u == Units(r, size)
           s == b \o t
           w == t \o u
<1>1. u \in Seq(X)
  <2>1. Unit(r, size) \in X
    BY DEF Unit, Units4
  <2> QED
    BY <2>1 DEF Units, Unit
<1>2. b \in Seq(X) /\ t \in Seq(X) /\ M \in Seq(TcpRequest) /\ IsStream(s, M, size)
  BY DEF Direction
<1> HIDE DEF X, b, u
<1>3. /\ Joins(s, b, t) /\ s \in Seq(X)
      /\ Joins(w, t, u) /\ w \in Seq(X)
  BY <1>1, <1>2, ConcatJoins
<1>4. IsStream(s \o u, Append(M, r), size)
  BY <1>2, <1>3, StreamGrows DEF u
<1> HIDE DEF s, w
<1> DEFINE v == s \o u
<1>5. Joins(v, b, w) /\ v \in Seq(X)
  BY <1>1, <1>2, <1>3, ConcatIsAssociative, ConcatJoins
<1> HIDE DEF v
<1>6. v = b \o w
  BY <1>2, <1>3, <1>5, JoinIsConcat
<1>7. Append(M, r) \in Seq(TcpRequest)
  BY <1>2
<1>8. IsStream(b \o w, Append(M, r), size)
  BY <1>4, <1>6 DEF v
<1> QED
  BY <1>3, <1>7, <1>8 DEF Direction, X, b, u, w

\* Of what is read, a message is taken up, the first, or none.
LEMMA DirectionIsRead ==
  ASSUME NEW p, NEW t, NEW M, NEW size \in Nat, size >= SmallestMessage,
         Direction(p, t, M, size), NEW n \in 1..Len(t)
  PROVE  \/ /\ Read(p, t, n).message = NoMessage
            /\ Direction(Read(p, t, n).processor, Rest(t, n), M, size)
         \/ /\ M # <<>> /\ Read(p, t, n).message = Head(M) /\ Read(p, t, n).message # NoMessage
            /\ Direction(Read(p, t, n).processor, Rest(t, n), Tail(M), size)
<1>1. NoMessage \notin TcpRequest
  BY RequestAssumption DEF TcpRequest
<1>2. /\ p.buffer \in Seq(Units4(TcpRequest)) /\ t \in Seq(Units4(TcpRequest))
      /\ Consistent(p, size) /\ M \in Seq(TcpRequest) /\ IsStream(p.buffer \o t, M, size)
  BY DEF Direction
<1> DEFINE read == Read(p, t, n)
           rest == Rest(t, n)
<1>3. /\ read.processor.buffer \in Seq(Units4(TcpRequest))
      /\ rest \in Seq(Units4(TcpRequest))
      /\ Consistent(read.processor, size)
      /\ \/ /\ read.message = NoMessage
            /\ IsStream(read.processor.buffer \o rest, M, size)
         \/ /\ M # <<>> /\ read.message = Head(M) /\ read.message \in TcpRequest
            /\ IsStream(read.processor.buffer \o rest, Tail(M), size)
  BY <1>1, <1>2, ProcessDataReads, Zenon
<1>4. M # <<>> => Tail(M) \in Seq(TcpRequest)
  BY <1>2
<1> HIDE DEF read, rest
<1>5. \/ /\ read.message = NoMessage
         /\ Direction(read.processor, rest, M, size)
      \/ /\ M # <<>> /\ read.message = Head(M) /\ read.message # NoMessage
         /\ Direction(read.processor, rest, Tail(M), size)
  BY <1>1, <1>2, <1>3, <1>4, Zenon DEF Direction
<1> QED
  BY <1>5 DEF read, rest

-----------------------------------------------------------------------------
(* The connection.                                                         *)

\* The requests, and the answers, that are on their way.
PendingOf(l) ==
  IF Connected(l) THEN Messages(l.atServer.buffer \o l.toServer, RequestSize) ELSE <<>>

AnswersOf(l) ==
  IF Connected(l) THEN Messages(l.atClient.buffer \o l.toClient, ResponseSize) ELSE <<>>

\* A connection is a record of these fields.
ConnectionOf(status, m, atServer, atClient, toServer, toClient) ==
  [status |-> status, manager |-> m, atServer |-> atServer, atClient |-> atClient,
   toServer |-> toServer, toClient |-> toClient]

ConnectionFields(l) ==
  l = ConnectionOf(l.status, l.manager, l.atServer, l.atClient, l.toServer, l.toClient)

\* Both directions hold whole messages, but for what has been processed, and a
\* server that is gone reads no more.
Carries(l, M, A) ==
  /\ ConnectionFields(l)
  /\ Direction(l.atServer, l.toServer, M, RequestSize)
  /\ Direction(l.atClient, l.toClient, A, ResponseSize)
  /\ l.status = "ended" => M = <<>>

\* There is no connection, or it was reset, or it carries messages.
LinkInv(l) ==
  \/ l = NoLink
  \/ l = [status |-> "reset"]
  \/ Connected(l) /\ Carries(l, PendingOf(l), AnswersOf(l))

\* What SizeAssumption says, to be cited.
LEMMA Sizes ==
  /\ RequestSize \in Nat /\ RequestSize >= SmallestMessage
  /\ ResponseSize \in Nat /\ ResponseSize >= SmallestMessage
BY SizeAssumption

\* What is on its way is what the refinement counts.
LEMMA CarriedIsMessages ==
  ASSUME NEW l, NEW M, NEW A, Connected(l), Carries(l, M, A)
  PROVE  PendingOf(l) = M /\ AnswersOf(l) = A /\ LinkInv(l)
<1>1. Messages(l.atServer.buffer \o l.toServer, RequestSize) = M
  BY Sizes, DirectionMessages DEF Carries
<1>2. Messages(l.atClient.buffer \o l.toClient, ResponseSize) = A
  BY Sizes, DirectionMessages DEF Carries
<1>3. PendingOf(l) = M /\ AnswersOf(l) = A
  BY <1>1, <1>2 DEF PendingOf, AnswersOf
<1> QED
  BY <1>3 DEF LinkInv

\* Where there is no connection, nothing is on its way.
LEMMA NothingCarried ==
  ASSUME NEW l, l = NoLink \/ l = [status |-> "reset"]
  PROVE  PendingOf(l) = <<>> /\ AnswersOf(l) = <<>> /\ LinkInv(l) /\ ~Connected(l)
BY DEF PendingOf, AnswersOf, LinkInv, Connected, NoLink

\* A connection carries messages.
LEMMA ConnectedCarries ==
  ASSUME NEW l, LinkInv(l), Connected(l)
  PROVE  Carries(l, PendingOf(l), AnswersOf(l))
BY DEF LinkInv, Connected, NoLink

\* What is not connected carries nothing, and a connection that has ended no request.
LEMMA EndedCarries ==
  ASSUME NEW l, LinkInv(l), l.status # "up"
  PROVE  PendingOf(l) = <<>>
<1>1. CASE Connected(l)
  <2>1. Carries(l, PendingOf(l), AnswersOf(l)) /\ l.status = "ended"
    BY <1>1, ConnectedCarries DEF Connected
  <2> QED
    BY <2>1 DEF Carries
<1>2. CASE ~Connected(l)
  BY <1>2 DEF PendingOf
<1> QED
  BY <1>1, <1>2

\* The messages of a connection are messages.
LEMMA CarriedType ==
  ASSUME NEW l, LinkInv(l)
  PROVE  PendingOf(l) \in Seq(TcpRequest) /\ AnswersOf(l) \in Seq(TcpRequest)
<1>1. CASE Connected(l)
  BY <1>1, ConnectedCarries DEF Carries, Direction
<1>2. CASE ~Connected(l)
  BY <1>2 DEF PendingOf, AnswersOf
<1> QED
  BY <1>1, <1>2

\* The changes of a connection that the actions make.
Asking(l, u) == [l EXCEPT !.toServer = @ \o u]
Answering(l, u) == [l EXCEPT !.toClient = @ \o u]
Taking(l, p, n) == [l EXCEPT !.atServer = p, !.toServer = SubSeq(@, n + 1, Len(@))]
Getting(l, p, n) == [l EXCEPT !.atClient = p, !.toClient = SubSeq(@, n + 1, Len(@))]
Ending(l) == [l EXCEPT !.status = "ended", !.toServer = <<>>, !.atServer = Fresh]

\* The parts of a connection that is put together.
LEMMA PartsOf ==
  ASSUME NEW status, NEW m, NEW p, NEW q, NEW t, NEW u,
         NEW k, k = ConnectionOf(status, m, p, q, t, u)
  PROVE  /\ ConnectionFields(k)
         /\ k.status = status /\ k.manager = m /\ k.atServer = p
         /\ k.atClient = q /\ k.toServer = t /\ k.toClient = u
<1>1. /\ k.status = status /\ k.manager = m /\ k.atServer = p
      /\ k.atClient = q /\ k.toServer = t /\ k.toClient = u
  BY DEF ConnectionOf
<1>2. k = ConnectionOf(k.status, k.manager, k.atServer, k.atClient, k.toServer, k.toClient)
  BY <1>1
<1> QED
  BY <1>1, <1>2 DEF ConnectionFields

\* What the changes of a connection leave alone.
LEMMA AskingFields ==
  ASSUME NEW l, ConnectionFields(l), NEW u,
         NEW k, k = Asking(l, u)
  PROVE  k = ConnectionOf(l.status, l.manager, l.atServer,
                                 l.atClient, l.toServer \o u, l.toClient)
<1> DEFINE a == l.status
           b == l.manager
           c == l.atServer
           d == l.atClient
           e == l.toServer
           f == l.toClient
<1>1. l = ConnectionOf(a, b, c, d, e, f)
  BY DEF ConnectionFields
<1> HIDE DEF a, b, c, d, e, f
<1>2. k = [status |-> k.status, manager |-> k.manager, atServer |-> k.atServer,
           atClient |-> k.atClient, toServer |-> k.toServer, toClient |-> k.toClient]
  BY <1>1 DEF ConnectionOf, Asking
<1>3. /\ k.status = a /\ k.manager = b /\ k.atServer = c
      /\ k.atClient = d /\ k.toServer = e \o u /\ k.toClient = f
  BY <1>1 DEF ConnectionOf, Asking, Rest
<1>4. k = ConnectionOf(a, b, c, d, e \o u, f)
  BY <1>2, <1>3 DEF ConnectionOf
<1> QED
  BY <1>4 DEF a, b, c, d, e, f

LEMMA AnsweringFields ==
  ASSUME NEW l, ConnectionFields(l), NEW u,
         NEW k, k = Answering(l, u)
  PROVE  k = ConnectionOf(l.status, l.manager, l.atServer,
                                 l.atClient, l.toServer, l.toClient \o u)
<1> DEFINE a == l.status
           b == l.manager
           c == l.atServer
           d == l.atClient
           e == l.toServer
           f == l.toClient
<1>1. l = ConnectionOf(a, b, c, d, e, f)
  BY DEF ConnectionFields
<1> HIDE DEF a, b, c, d, e, f
<1>2. k = [status |-> k.status, manager |-> k.manager, atServer |-> k.atServer,
           atClient |-> k.atClient, toServer |-> k.toServer, toClient |-> k.toClient]
  BY <1>1 DEF ConnectionOf, Answering
<1>3. /\ k.status = a /\ k.manager = b /\ k.atServer = c
      /\ k.atClient = d /\ k.toServer = e /\ k.toClient = f \o u
  BY <1>1 DEF ConnectionOf, Answering, Rest
<1>4. k = ConnectionOf(a, b, c, d, e, f \o u)
  BY <1>2, <1>3 DEF ConnectionOf
<1> QED
  BY <1>4 DEF a, b, c, d, e, f

LEMMA TakingFields ==
  ASSUME NEW l, ConnectionFields(l), NEW p, NEW n,
         NEW k, k = Taking(l, p, n)
  PROVE  k = ConnectionOf(l.status, l.manager, p,
                                 l.atClient, Rest(l.toServer, n), l.toClient)
<1> DEFINE a == l.status
           b == l.manager
           c == l.atServer
           d == l.atClient
           e == l.toServer
           f == l.toClient
<1>1. l = ConnectionOf(a, b, c, d, e, f)
  BY DEF ConnectionFields
<1> HIDE DEF a, b, c, d, e, f
<1>2. k = [status |-> k.status, manager |-> k.manager, atServer |-> k.atServer,
           atClient |-> k.atClient, toServer |-> k.toServer, toClient |-> k.toClient]
  BY <1>1 DEF ConnectionOf, Taking
<1>3. /\ k.status = a /\ k.manager = b /\ k.atServer = p
      /\ k.atClient = d /\ k.toServer = Rest(e, n) /\ k.toClient = f
  BY <1>1 DEF ConnectionOf, Taking, Rest
<1>4. k = ConnectionOf(a, b, p, d, Rest(e, n), f)
  BY <1>2, <1>3 DEF ConnectionOf
<1> QED
  BY <1>4 DEF a, b, c, d, e, f

LEMMA GettingFields ==
  ASSUME NEW l, ConnectionFields(l), NEW p, NEW n,
         NEW k, k = Getting(l, p, n)
  PROVE  k = ConnectionOf(l.status, l.manager, l.atServer,
                                 p, l.toServer, Rest(l.toClient, n))
<1> DEFINE a == l.status
           b == l.manager
           c == l.atServer
           d == l.atClient
           e == l.toServer
           f == l.toClient
<1>1. l = ConnectionOf(a, b, c, d, e, f)
  BY DEF ConnectionFields
<1> HIDE DEF a, b, c, d, e, f
<1>2. k = [status |-> k.status, manager |-> k.manager, atServer |-> k.atServer,
           atClient |-> k.atClient, toServer |-> k.toServer, toClient |-> k.toClient]
  BY <1>1 DEF ConnectionOf, Getting
<1>3. /\ k.status = a /\ k.manager = b /\ k.atServer = c
      /\ k.atClient = p /\ k.toServer = e /\ k.toClient = Rest(f, n)
  BY <1>1 DEF ConnectionOf, Getting, Rest
<1>4. k = ConnectionOf(a, b, c, p, e, Rest(f, n))
  BY <1>2, <1>3 DEF ConnectionOf
<1> QED
  BY <1>4 DEF a, b, c, d, e, f

LEMMA EndingFields ==
  ASSUME NEW l, ConnectionFields(l),
         NEW k, k = Ending(l)
  PROVE  k = ConnectionOf("ended", l.manager, Fresh,
                                 l.atClient, <<>>, l.toClient)
<1> DEFINE a == l.status
           b == l.manager
           c == l.atServer
           d == l.atClient
           e == l.toServer
           f == l.toClient
<1>1. l = ConnectionOf(a, b, c, d, e, f)
  BY DEF ConnectionFields
<1> HIDE DEF a, b, c, d, e, f
<1>2. k = [status |-> k.status, manager |-> k.manager, atServer |-> k.atServer,
           atClient |-> k.atClient, toServer |-> k.toServer, toClient |-> k.toClient]
  BY <1>1 DEF ConnectionOf, Ending
<1>3. /\ k.status = "ended" /\ k.manager = b /\ k.atServer = Fresh
      /\ k.atClient = d /\ k.toServer = <<>> /\ k.toClient = f
  BY <1>1 DEF ConnectionOf, Ending, Rest
<1>4. k = ConnectionOf("ended", b, Fresh, d, <<>>, f)
  BY <1>2, <1>3 DEF ConnectionOf
<1> QED
  BY <1>4 DEF a, b, c, d, e, f

\* _handle_outbound_call_method_request sends a request.
LEMMA RequestIsWritten ==
  ASSUME NEW l, LinkInv(l), l.status = "up", NEW r \in TcpRequest,
         NEW k, k = Asking(l, Units(r, RequestSize))
  PROVE  /\ LinkInv(k) /\ k.status = "up" /\ k.manager = l.manager
         /\ PendingOf(k) = Append(PendingOf(l), r) /\ AnswersOf(k) = AnswersOf(l)
<1> DEFINE M == PendingOf(l)
           A == AnswersOf(l)
<1>1. Connected(l) /\ Carries(l, M, A) /\ ConnectionFields(l)
  BY ConnectedCarries DEF Connected, Carries
<1>2. /\ ConnectionFields(k) /\ k.status = l.status /\ k.manager = l.manager
      /\ k.atServer = l.atServer /\ k.toServer = l.toServer \o Units(r, RequestSize)
      /\ k.atClient = l.atClient /\ k.toClient = l.toClient
  <2> DEFINE t == l.toServer \o Units(r, RequestSize)
  <2>1. ConnectionFields(l)
    BY <1>1
  <2>2. k = ConnectionOf(l.status, l.manager, l.atServer, l.atClient, t, l.toClient)
    BY <2>1, AskingFields, Zenon
  <2> HIDE DEF t
  <2>3. /\ ConnectionFields(k) /\ k.status = l.status /\ k.manager = l.manager
        /\ k.atServer = l.atServer /\ k.toServer = t
        /\ k.atClient = l.atClient /\ k.toClient = l.toClient
    BY <2>2, PartsOf
  <2> QED
    BY <2>3 DEF t
<1>3. Direction(k.atServer, k.toServer, Append(M, r), RequestSize)
  BY <1>1, <1>2, Sizes, DirectionIsWritten DEF Carries
<1> HIDE DEF M, A
<1>4. Connected(k) /\ Carries(k, Append(M, r), A)
  BY <1>1, <1>2, <1>3 DEF Carries, Connected
<1> QED
  BY <1>2, <1>4, CarriedIsMessages DEF M, A

\* TCPSomeipEndpoint.sendto writes a response.
LEMMA ResponseIsWritten ==
  ASSUME NEW l, LinkInv(l), l.status = "up", NEW r \in TcpRequest,
         NEW k, k = Answering(l, Units(r, ResponseSize))
  PROVE  /\ LinkInv(k) /\ k.status = "up" /\ k.manager = l.manager
         /\ PendingOf(k) = PendingOf(l) /\ AnswersOf(k) = Append(AnswersOf(l), r)
<1> DEFINE M == PendingOf(l)
           A == AnswersOf(l)
<1>1. Connected(l) /\ Carries(l, M, A) /\ ConnectionFields(l)
  BY ConnectedCarries DEF Connected, Carries
<1>2. /\ ConnectionFields(k) /\ k.status = l.status /\ k.manager = l.manager
      /\ k.atServer = l.atServer /\ k.toServer = l.toServer
      /\ k.atClient = l.atClient /\ k.toClient = l.toClient \o Units(r, ResponseSize)
  <2> DEFINE t == l.toClient \o Units(r, ResponseSize)
  <2>1. ConnectionFields(l)
    BY <1>1
  <2>2. k = ConnectionOf(l.status, l.manager, l.atServer, l.atClient, l.toServer, t)
    BY <2>1, AnsweringFields, Zenon
  <2> HIDE DEF t
  <2>3. /\ ConnectionFields(k) /\ k.status = l.status /\ k.manager = l.manager
        /\ k.atServer = l.atServer /\ k.toServer = l.toServer
        /\ k.atClient = l.atClient /\ k.toClient = t
    BY <2>2, PartsOf
  <2> QED
    BY <2>3 DEF t
<1>3. Direction(k.atClient, k.toClient, Append(A, r), ResponseSize)
  BY <1>1, <1>2, Sizes, DirectionIsWritten DEF Carries
<1> HIDE DEF M, A
<1>4. Connected(k) /\ Carries(k, M, Append(A, r))
  BY <1>1, <1>2, <1>3 DEF Carries, Connected
<1> QED
  BY <1>2, <1>4, CarriedIsMessages DEF M, A

\* TcpClientProtocol.data_received takes up the first request, or none.
LEMMA RequestIsRead ==
  ASSUME NEW l, LinkInv(l), l.status = "up", NEW n \in 1..Len(l.toServer),
         NEW read, read = ProcessData(l.atServer, SubSeq(l.toServer, 1, n)),
         NEW k, k = Taking(l, read.processor, n)
  PROVE  /\ LinkInv(k) /\ k.status = "up" /\ k.manager = l.manager
         /\ AnswersOf(k) = AnswersOf(l)
         /\ \/ read.message = NoMessage /\ PendingOf(k) = PendingOf(l)
            \/ /\ PendingOf(l) # <<>> /\ read.message = Head(PendingOf(l))
               /\ read.message # NoMessage
               /\ PendingOf(k) = Tail(PendingOf(l))
<1> DEFINE M == PendingOf(l)
           A == AnswersOf(l)
           t == Rest(l.toServer, n)
<1>1. Connected(l) /\ Carries(l, M, A) /\ ConnectionFields(l)
  BY ConnectedCarries DEF Connected, Carries
<1>2. /\ ConnectionFields(k) /\ k.status = l.status /\ k.manager = l.manager
      /\ k.atServer = read.processor /\ k.toServer = t
      /\ k.atClient = l.atClient /\ k.toClient = l.toClient
  <2>1. ConnectionFields(l)
    BY <1>1
  <2>2. k = ConnectionOf(l.status, l.manager, read.processor, l.atClient, t, l.toClient)
    BY <2>1, TakingFields, Zenon
  <2> QED
    BY <2>2, PartsOf
<1>3. \/ /\ read.message = NoMessage
         /\ Direction(read.processor, t, M, RequestSize)
      \/ /\ M # <<>> /\ read.message = Head(M) /\ read.message # NoMessage
         /\ Direction(read.processor, t, Tail(M), RequestSize)
  <2>1. Direction(l.atServer, l.toServer, M, RequestSize)
    BY <1>1 DEF Carries
  <2>2. read = Read(l.atServer, l.toServer, n) /\ t = Rest(l.toServer, n)
    BY DEF Read
  <2> HIDE DEF M, t
  <2> QED
    BY <2>1, <2>2, Sizes, DirectionIsRead
<1> HIDE DEF M, A, t
<1>4. Connected(k) /\ l.status # "ended"
  BY <1>2 DEF Connected
<1>5. CASE read.message = NoMessage /\ Direction(read.processor, t, M, RequestSize)
  <2>1. Carries(k, M, A)
    BY <1>1, <1>2, <1>4, <1>5 DEF Carries
  <2> QED
    BY <1>2, <1>4, <1>5, <2>1, CarriedIsMessages DEF M, A
<1>6. CASE /\ M # <<>> /\ read.message = Head(M) /\ read.message # NoMessage
           /\ Direction(read.processor, t, Tail(M), RequestSize)
  <2>1. Carries(k, Tail(M), A)
    BY <1>1, <1>2, <1>4, <1>6 DEF Carries
  <2> QED
    BY <1>2, <1>4, <1>6, <2>1, CarriedIsMessages DEF M, A
<1> QED
  BY <1>3, <1>5, <1>6

\* _connect_and_receive gives out the first answer, or none.
LEMMA ResponseIsRead ==
  ASSUME NEW l, LinkInv(l), Connected(l), NEW n \in 1..Len(l.toClient),
         NEW read, read = ProcessData(l.atClient, SubSeq(l.toClient, 1, n)),
         NEW k, k = Getting(l, read.processor, n)
  PROVE  /\ LinkInv(k) /\ k.status = l.status /\ k.manager = l.manager
         /\ PendingOf(k) = PendingOf(l)
         /\ \/ read.message = NoMessage /\ AnswersOf(k) = AnswersOf(l)
            \/ /\ AnswersOf(l) # <<>> /\ read.message = Head(AnswersOf(l))
               /\ read.message # NoMessage
               /\ AnswersOf(k) = Tail(AnswersOf(l))
<1> DEFINE M == PendingOf(l)
           A == AnswersOf(l)
           t == Rest(l.toClient, n)
<1>1. Carries(l, M, A) /\ ConnectionFields(l)
  BY ConnectedCarries DEF Carries
<1>2. /\ ConnectionFields(k) /\ k.status = l.status /\ k.manager = l.manager
      /\ k.atServer = l.atServer /\ k.toServer = l.toServer
      /\ k.atClient = read.processor /\ k.toClient = t
  <2>1. ConnectionFields(l)
    BY <1>1
  <2>2. k = ConnectionOf(l.status, l.manager, l.atServer, read.processor, l.toServer, t)
    BY <2>1, GettingFields, Zenon
  <2> QED
    BY <2>2, PartsOf
<1>3. \/ /\ read.message = NoMessage
         /\ Direction(read.processor, t, A, ResponseSize)
      \/ /\ A # <<>> /\ read.message = Head(A) /\ read.message # NoMessage
         /\ Direction(read.processor, t, Tail(A), ResponseSize)
  <2>1. Direction(l.atClient, l.toClient, A, ResponseSize)
    BY <1>1 DEF Carries
  <2>2. read = Read(l.atClient, l.toClient, n) /\ t = Rest(l.toClient, n)
    BY DEF Read
  <2> HIDE DEF A, t
  <2> QED
    BY <2>1, <2>2, Sizes, DirectionIsRead
<1> HIDE DEF M, A, t
<1>4. Connected(k)
  BY <1>2 DEF Connected
<1>5. CASE read.message = NoMessage /\ Direction(read.processor, t, A, ResponseSize)
  <2>1. Carries(k, M, A)
    BY <1>1, <1>2, <1>5 DEF Carries
  <2> QED
    BY <1>2, <1>4, <1>5, <2>1, CarriedIsMessages DEF M, A
<1>6. CASE /\ A # <<>> /\ read.message = Head(A) /\ read.message # NoMessage
           /\ Direction(read.processor, t, Tail(A), ResponseSize)
  <2>1. Carries(k, M, Tail(A))
    BY <1>1, <1>2, <1>6 DEF Carries
  <2> QED
    BY <1>2, <1>4, <1>6, <2>1, CarriedIsMessages DEF M, A
<1> QED
  BY <1>3, <1>5, <1>6

\* A connection is opened: TcpConnection.connect.
LEMMA LinkOpens ==
  ASSUME NEW m, NEW k,
         k = [status |-> "up", manager |-> m, atServer |-> Fresh, atClient |-> Fresh,
              toServer |-> <<>>, toClient |-> <<>>]
  PROVE  /\ LinkInv(k) /\ k.status = "up" /\ k.manager = m
         /\ PendingOf(k) = <<>> /\ AnswersOf(k) = <<>>
<1>1. /\ Direction(Fresh, <<>>, <<>>, RequestSize)
      /\ Direction(Fresh, <<>>, <<>>, ResponseSize)
  BY Sizes, DirectionOpens
<1>2. k = ConnectionOf("up", m, Fresh, Fresh, <<>>, <<>>)
  BY DEF ConnectionOf
<1>3. /\ ConnectionFields(k) /\ k.status = "up" /\ k.manager = m
      /\ k.atServer = Fresh /\ k.atClient = Fresh /\ k.toServer = <<>> /\ k.toClient = <<>>
  BY <1>2, PartsOf
<1>4. Connected(k) /\ Carries(k, <<>>, <<>>)
  BY <1>1, <1>3 DEF Carries, Connected
<1> QED
  BY <1>3, <1>4, CarriedIsMessages

\* The daemon of the server ends.
LEMMA LinkEnds ==
  ASSUME NEW l, LinkInv(l), l.status = "up",
         NEW k, k = Ending(l)
  PROVE  /\ LinkInv(k) /\ k.status = "ended" /\ k.manager = l.manager
         /\ PendingOf(k) = <<>> /\ AnswersOf(k) = AnswersOf(l)
<1> DEFINE M == PendingOf(l)
           A == AnswersOf(l)
<1>1. Connected(l) /\ Carries(l, M, A) /\ ConnectionFields(l)
  BY ConnectedCarries DEF Connected, Carries
<1>2. /\ ConnectionFields(k) /\ k.status = "ended" /\ k.manager = l.manager
      /\ k.atServer = Fresh /\ k.toServer = <<>>
      /\ k.atClient = l.atClient /\ k.toClient = l.toClient
  <2>1. ConnectionFields(l)
    BY <1>1
  <2>2. k = ConnectionOf("ended", l.manager, Fresh, l.atClient, <<>>, l.toClient)
    BY <2>1, EndingFields, Zenon
  <2> QED
    BY <2>2, PartsOf
<1>3. Direction(Fresh, <<>>, <<>>, RequestSize)
  BY Sizes, DirectionOpens
<1> HIDE DEF M, A
<1>4. Connected(k) /\ Carries(k, <<>>, A)
  BY <1>1, <1>2, <1>3 DEF Carries, Connected
<1> QED
  BY <1>2, <1>4, CarriedIsMessages DEF M, A

-----------------------------------------------------------------------------
(* Types, and what a connection holds.                                     *)

\* The endpoints that are stored, after n client managers.
StoredType(stored, n) ==
  /\ stored \subseteq Endpoint
  /\ \A e, f \in stored : e.port = f.port /\ e.protocol = f.protocol => e = f
  /\ \A e \in stored : IF e.protocol = "udp" THEN e.manager = 0 ELSE e.manager \in 1..n

\* TypeOK of the state of the server.
ServerType ==
  /\ offered \subseteq Service
  /\ opened \in 0..MaxServers
  /\ StoredType(endpoints, opened)
  /\ handling \subseteq Handler
  /\ \A a \in sent : a.request \in Request /\ a.stopped \in BOOLEAN /\ a.closed \in BOOLEAN

\* TypeOK of the state of the client; its task reads while there is a connection.
ClientType ==
  /\ task \in {"none", "connecting", "reading", "ended"}
  /\ task = "reading" <=> link # NoLink
  /\ waiting \in Seq(TcpRequest)
  /\ got \in Seq(TcpRequest)

\* TypeOK of the connection, and what it carries.
LinkType ==
  /\ LinkInv(link)
  /\ Connected(link) => link.manager \in 1..opened
  /\ breaks \in 0..MaxBreaks

TypeInv == ServerType /\ ClientType /\ LinkType

\* A sequence has r, and has nothing twice.
Holds(s, r) == \E i \in 1..Len(s) : s[i] = r

Distinct(s) == \A i, j \in 1..Len(s) : s[i] = s[j] => i = j

\* A request over TCP waits in the caller's daemon, or is on its way, or is handled,
\* in one place and once.
OncePlaced(w, P, H) ==
  /\ Distinct(w) /\ Distinct(P)
  /\ \A r \in TcpRequest : ~(Holds(w, r) /\ Holds(P, r))
  /\ \A h \in H : h.request \in TcpRequest => ~Holds(w, h.request) /\ ~Holds(P, h.request)
  /\ \A g, h \in H : g.request \in TcpRequest /\ g.request = h.request => g = h

\* OncePlaced, of the state.
OnceInv == OncePlaced(waiting, PendingOf(link), handling)

\* The states of a connection.
LEMMA StatusOf ==
  ASSUME NEW l, LinkInv(l)
  PROVE  /\ l.status \in {"none", "up", "ended", "reset"}
         /\ Connected(l) => l # NoLink
         /\ l = [status |-> "reset"] => l # NoLink
BY DEF LinkInv, Connected, NoLink

\* The tasks that a request is given are of services that are offered.
LEMMA HandledForType ==
  ASSUME offered \subseteq Service, NEW r \in Request
  PROVE  HandledFor(r) \subseteq Handler
<1> SUFFICES ASSUME NEW h \in HandledFor(r) PROVE h \in Handler
  OBVIOUS
<1>1. PICK s \in offered : h = [request |-> r, service |-> s, stopped |-> FALSE,
                               closed |-> EndpointsAt(endpoints, r.port, r.protocol) = {}]
  BY DEF HandledFor
<1> QED
  BY <1>1 DEF Handler

\* What is remembered of a task,
LEMMA NoticingTask ==
  ASSUME NEW h \in Handler, NEW left
  PROVE  /\ Noticing(h, left) \in Handler
         /\ Noticing(h, left).request = h.request /\ Noticing(h, left).service = h.service
         /\ Noticing(h, left).stopped = h.stopped
         /\ ~Noticing(h, left).closed
              => ~h.closed /\ EndpointsAt(left, h.request.port, h.request.protocol) # {}
<1> DEFINE gone == EndpointsAt(left, h.request.port, h.request.protocol) = {}
           c == h.closed \/ gone
<1>1. Noticing(h, left) = [h EXCEPT !.closed = c]
  BY DEF Noticing
<1>2. h.closed \in BOOLEAN /\ c \in BOOLEAN
  BY DEF Handler
<1>3. ~c => ~h.closed /\ ~gone
  OBVIOUS
<1> HIDE DEF c, gone
<1>4. /\ [h EXCEPT !.closed = c] \in Handler
      /\ [h EXCEPT !.closed = c].request = h.request /\ [h EXCEPT !.closed = c].service = h.service
      /\ [h EXCEPT !.closed = c].stopped = h.stopped /\ [h EXCEPT !.closed = c].closed = c
  BY <1>2 DEF Handler
<1> QED
  BY <1>1, <1>3, <1>4 DEF gone

\* when an endpoint is closed and when a service is stopped.
LEMMA ToldTask ==
  ASSUME NEW h \in Handler, NEW s
  PROVE  /\ Told(h, s) \in Handler
         /\ Told(h, s).request = h.request /\ Told(h, s).service = h.service
         /\ Told(h, s).closed = h.closed
         /\ ~Told(h, s).stopped => ~h.stopped /\ h.service # s
<1> DEFINE c == h.stopped \/ h.service = s
<1>1. Told(h, s) = [h EXCEPT !.stopped = c]
  BY DEF Told
<1>2. h.stopped \in BOOLEAN /\ c \in BOOLEAN
  BY DEF Handler
<1>3. ~c => ~h.stopped /\ h.service # s
  OBVIOUS
<1> HIDE DEF c
<1>4. /\ [h EXCEPT !.stopped = c] \in Handler
      /\ [h EXCEPT !.stopped = c].request = h.request /\ [h EXCEPT !.stopped = c].service = h.service
      /\ [h EXCEPT !.stopped = c].closed = h.closed /\ [h EXCEPT !.stopped = c].stopped = c
  BY <1>2 DEF Handler
<1> QED
  BY <1>1, <1>3, <1>4

\* Closing endpoints, and opening those that a service misses.
LEMMA StoredShrinks ==
  ASSUME NEW stored, NEW left, NEW n, StoredType(stored, n), left \subseteq stored
  PROVE  StoredType(left, n)
BY DEF StoredType

LEMMA StoredGrows ==
  ASSUME NEW s \in Service, OfferService(s), opened \in Nat, StoredType(endpoints, opened)
  PROVE  StoredType(endpoints', opened') /\ opened' \in Nat /\ opened <= opened'
<1> DEFINE new(p) == [of |-> s.application, port |-> s.port, protocol |-> p,
                      manager |-> IF p = "tcp" THEN opened' ELSE 0]
<1>1. /\ opened' = IF "tcp" \in Missing(s) THEN opened + 1 ELSE opened
      /\ endpoints' = endpoints \cup {new(p) : p \in Missing(s)}
  BY DEF OfferService
<1>2. opened' \in Nat /\ opened <= opened' /\ ("tcp" \in Missing(s) => opened' \in 1..opened')
  BY <1>1
<1>3. Missing(s) \subseteq Protocol
  BY ServiceAssumption DEF Missing
<1>4. ASSUME NEW p \in Missing(s)
      PROVE  /\ new(p) \in Endpoint /\ new(p).port = s.port /\ new(p).protocol = p
             /\ IF p = "udp" THEN new(p).manager = 0 ELSE new(p).manager \in 1..opened'
             /\ \A e \in endpoints : ~(e.port = s.port /\ e.protocol = p)
  <2>1. s.application \in Application /\ s.port \in {x.port : x \in Service}
    BY DEF Application
  <2>2. (IF p = "tcp" THEN opened' ELSE 0) \in Nat
    BY <1>2
  <2>3. p \in Protocol /\ (p # "udp" => p = "tcp")
    BY <1>3 DEF Protocol
  <2>4. new(p) \in Endpoint
    BY <2>1, <2>2, <2>3 DEF Endpoint
  <2>5. \A e \in endpoints : ~(e.port = s.port /\ e.protocol = p)
    BY DEF Missing, EndpointsAt
  <2> QED
    BY <1>2, <2>3, <2>4, <2>5
<1> HIDE DEF new
<1>5. \A e \in endpoints' : e \in endpoints \/ \E p \in Missing(s) : e = new(p)
  BY <1>1
<1>6. endpoints' \subseteq Endpoint
  BY <1>4, <1>5 DEF StoredType
<1>7. ASSUME NEW e \in endpoints', NEW f \in endpoints', e.port = f.port, e.protocol = f.protocol
      PROVE  e = f
  <2>1. CASE e \in endpoints /\ f \in endpoints
    BY <1>7, <2>1 DEF StoredType
  <2>2. CASE e \in endpoints /\ \E p \in Missing(s) : f = new(p)
    BY <1>4, <1>7, <2>2
  <2>3. CASE f \in endpoints /\ \E p \in Missing(s) : e = new(p)
    BY <1>4, <1>7, <2>3
  <2>4. CASE (\E p \in Missing(s) : e = new(p)) /\ (\E p \in Missing(s) : f = new(p))
    BY <1>4, <1>7, <2>4
  <2> QED
    BY <1>5, <2>1, <2>2, <2>3, <2>4
<1>8. ASSUME NEW e \in endpoints'
      PROVE  IF e.protocol = "udp" THEN e.manager = 0 ELSE e.manager \in 1..opened'
  <2>1. CASE e \in endpoints
    BY <1>2, <2>1 DEF StoredType
  <2>2. CASE \E p \in Missing(s) : e = new(p)
    BY <1>4, <2>2
  <2> QED
    BY <1>5, <2>1, <2>2
<1> QED
  BY <1>2, <1>6, <1>7, <1>8 DEF StoredType

\* Requests that come over the connection are made over TCP.
LEMMA FirstIsTcp ==
  ASSUME LinkInv(link), PendingOf(link) # <<>>
  PROVE  Head(PendingOf(link)) \in TcpRequest
<1>1. PendingOf(link) \in Seq(TcpRequest)
  BY CarriedType
<1> QED
  BY <1>1

\* A response is written to the connection or dropped.
LEMMA LinkIsWritten ==
  ASSUME NEW l, LinkInv(l), NEW e, NEW r \in TcpRequest, NEW k, k = Written(l, e, r)
  PROVE  /\ LinkInv(k) /\ PendingOf(k) = PendingOf(l)
         /\ AnswersOf(k) = AnswersOf(l) \/ AnswersOf(k) = Append(AnswersOf(l), r)
         /\ Connected(k) => Connected(l) /\ k.manager = l.manager
         /\ k # NoLink <=> l # NoLink
<1>1. CASE l.status = "up" /\ l.manager = e.manager
  <2>1. k = Answering(l, Units(r, ResponseSize))
    BY <1>1 DEF Written, Answering
  <2>2. /\ LinkInv(k) /\ k.status = "up" /\ k.manager = l.manager
        /\ PendingOf(k) = PendingOf(l) /\ AnswersOf(k) = Append(AnswersOf(l), r)
    BY <1>1, <2>1, ResponseIsWritten
  <2>3. k # NoLink /\ l # NoLink /\ Connected(l)
    BY <1>1, <2>2, StatusOf DEF Connected
  <2> QED
    BY <2>2, <2>3
<1>2. CASE ~(l.status = "up" /\ l.manager = e.manager)
  BY <1>2 DEF Written
<1> QED
  BY <1>1, <1>2

\* A connection that nothing happens to keeps its invariant.
LEMMA LinkStays ==
  ASSUME LinkType, link' = link, breaks' = breaks,
         opened \in Nat, opened' \in Nat, opened <= opened'
  PROVE  LinkType'
<1>1. LinkInv(link) /\ LinkInv(link')
  BY DEF LinkType
<1>2. Connected(link') => link'.manager \in 1..opened'
  BY DEF LinkType, Connected
<1> QED
  BY <1>1, <1>2 DEF LinkType

\* The invariant holds at first ...
LEMMA TypeInit ==
  ASSUME Init
  PROVE  TypeInv
<1>1. ServerType
  BY BoundAssumption DEF Init, ServerType, StoredType
<1>2. ClientType
  BY DEF Init, ClientType
<1>3. LinkType
  BY BoundAssumption DEF Init, LinkType, LinkInv, Connected, NoLink
<1> QED
  BY <1>1, <1>2, <1>3 DEF TypeInv

\* ... and stays, action by action: what the server does,
LEMMA TypeStepServer ==
  ASSUME TypeInv,
         \/ \E s \in Service : OfferService(s) \/ StopOfferService(s)
         \/ \E a \in Application : ApplicationEnds(a)
         \/ \E r \in Request : RequestArrives(r)
  PROVE  TypeInv'
<1>1. ClientType'
  BY DEF TypeInv, ClientType, OfferService, StopOfferService, ApplicationEnds, RequestArrives,
         client
<1>2. link' = link /\ breaks' = breaks
  BY DEF OfferService, StopOfferService, ApplicationEnds, RequestArrives
<1>3. opened \in Nat /\ MaxServers \in Nat /\ handling \subseteq Handler
  BY BoundAssumption DEF TypeInv, ServerType
<1>4. ASSUME NEW s \in Service, OfferService(s)
      PROVE  ServerType' /\ opened' \in Nat /\ opened <= opened'
  <2>1. /\ offered' \subseteq Service /\ handling' = handling /\ sent' = sent
        /\ opened' <= MaxServers
    BY <1>4 DEF OfferService, TypeInv, ServerType
  <2>2. StoredType(endpoints', opened') /\ opened' \in Nat /\ opened <= opened'
    BY <1>3, <1>4, StoredGrows DEF TypeInv, ServerType
  <2> QED
    BY <1>3, <2>1, <2>2 DEF TypeInv, ServerType
<1>5. ASSUME NEW s \in Service, StopOfferService(s)
      PROVE  ServerType' /\ opened' = opened
  <2>1. /\ offered' \subseteq Service /\ endpoints' \subseteq endpoints
        /\ opened' = opened /\ sent' = sent
    BY <1>5 DEF StopOfferService, TypeInv, ServerType
  <2>2. StoredType(endpoints', opened)
    BY <2>1, StoredShrinks DEF TypeInv, ServerType
  <2>3. handling' \subseteq Handler
    BY <1>3, <1>5, NoticingTask, ToldTask DEF StopOfferService
  <2> QED
    BY <1>3, <2>1, <2>2, <2>3 DEF TypeInv, ServerType
<1>6. ASSUME NEW a, ApplicationEnds(a)
      PROVE  ServerType' /\ opened' = opened
  <2>1. /\ offered' \subseteq Service /\ endpoints' \subseteq endpoints
        /\ opened' = opened /\ sent' = sent
    BY <1>6 DEF ApplicationEnds, TypeInv, ServerType
  <2>2. StoredType(endpoints', opened)
    BY <2>1, StoredShrinks DEF TypeInv, ServerType
  <2>3. handling' \subseteq Handler
    <3> SUFFICES ASSUME NEW g \in handling' PROVE g \in Handler
      OBVIOUS
    <3>1. PICK h \in handling : g = Noticing(h, endpoints')
      BY <1>6 DEF ApplicationEnds
    <3> QED
      BY <1>3, <3>1, NoticingTask
  <2> QED
    BY <1>3, <2>1, <2>2, <2>3 DEF TypeInv, ServerType
<1>7. ASSUME NEW r \in Request, RequestArrives(r)
      PROVE  ServerType' /\ opened' = opened
  <2>1. HandledFor(r) \subseteq Handler
    BY HandledForType DEF TypeInv, ServerType
  <2> QED
    BY <1>7, <2>1 DEF RequestArrives, TypeInv, ServerType
<1>8. ServerType' /\ opened' \in Nat /\ opened <= opened'
  BY <1>3, <1>4, <1>5, <1>6, <1>7
<1>9. LinkType'
  BY <1>2, <1>3, <1>8, LinkStays DEF TypeInv
<1> QED
  BY <1>1, <1>8, <1>9 DEF TypeInv

\* a response,
LEMMA TypeStepResponse ==
  ASSUME TypeInv, NEW h \in handling, Respond(h)
  PROVE  TypeInv'
<1>1. h \in Handler /\ opened \in Nat
  BY BoundAssumption DEF TypeInv, ServerType
<1>2. h.request \in Request /\ h.stopped \in BOOLEAN /\ h.closed \in BOOLEAN
  BY <1>1 DEF Handler
<1>3. /\ offered' = offered /\ opened' = opened /\ endpoints' = endpoints /\ breaks' = breaks
      /\ handling' = handling \ {h} /\ task' = task /\ waiting' = waiting /\ got' = got
  BY DEF Respond, client
<1>4. ServerType'
  <2>1. \A a \in sent' : a.request \in Request /\ a.stopped \in BOOLEAN /\ a.closed \in BOOLEAN
    BY <1>2 DEF Respond, TypeInv, ServerType
  <2> QED
    BY <1>3, <2>1 DEF TypeInv, ServerType
<1>5. CASE link' = link
  <2>1. LinkType'
    BY <1>1, <1>3, <1>5, LinkStays DEF TypeInv
  <2> QED
    BY <1>3, <1>4, <1>5, <2>1 DEF TypeInv, ClientType
<1>6. CASE link' # link
  <2>1. PICK e \in ResponseEndpoints(h) : link' = Written(link, e, h.request)
                                          /\ h.request \in TcpRequest
    BY <1>2, <1>6 DEF Respond, TcpRequest
  <2>2. /\ LinkInv(link') /\ (link' # NoLink <=> link # NoLink)
        /\ Connected(link') => Connected(link) /\ link'.manager = link.manager
    BY <2>1, LinkIsWritten DEF TypeInv, LinkType
  <2>3. LinkType' /\ ClientType'
    BY <1>3, <2>2 DEF TypeInv, LinkType, ClientType
  <2> QED
    BY <1>4, <2>3 DEF TypeInv
<1> QED
  BY <1>5, <1>6

\* a chunk that the server reads,
LEMMA TypeStepServerReads ==
  ASSUME TypeInv, Connected(link), NEW n \in SomeChunk(link.toServer), ServerReads(n)
  PROVE  TypeInv'
<1> DEFINE read == ProcessData(link.atServer, SubSeq(link.toServer, 1, n))
<1>1. /\ offered' = offered /\ opened' = opened /\ endpoints' = endpoints /\ breaks' = breaks
      /\ sent' = sent /\ task' = task /\ waiting' = waiting /\ got' = got
      /\ link.status = "up" /\ link' = Taking(link, read.processor, n)
      /\ handling' = IF read.message = NoMessage THEN handling
                     ELSE handling \cup HandledFor(read.message)
  BY DEF ServerReads, client, Taking
<1>2. n \in 1..Len(link.toServer) /\ LinkInv(link)
  BY DEF SomeChunk, TypeInv, LinkType
<1> HIDE DEF read
<1>3. /\ LinkInv(link') /\ link'.status = "up" /\ link'.manager = link.manager
      /\ \/ read.message = NoMessage
         \/ PendingOf(link) # <<>> /\ read.message = Head(PendingOf(link))
  BY <1>1, <1>2, RequestIsRead DEF read
<1>4. link # NoLink /\ link' # NoLink /\ Connected(link')
  BY <1>2, <1>3, StatusOf DEF Connected
<1>5. LinkType' /\ ClientType'
  BY <1>1, <1>3, <1>4 DEF TypeInv, LinkType, ClientType
<1>6. handling' \subseteq Handler
  <2>1. CASE read.message = NoMessage
    BY <1>1, <2>1 DEF TypeInv, ServerType
  <2>2. CASE read.message # NoMessage
    <3>1. read.message \in Request
      BY <1>2, <1>3, <2>2, FirstIsTcp DEF TcpRequest
    <3>2. HandledFor(read.message) \subseteq Handler
      BY <3>1, HandledForType DEF TypeInv, ServerType
    <3> QED
      BY <1>1, <2>2, <3>2 DEF TypeInv, ServerType
  <2> QED
    BY <2>1, <2>2
<1>7. ServerType'
  BY <1>1, <1>6 DEF TypeInv, ServerType
<1> QED
  BY <1>5, <1>7 DEF TypeInv

\* a chunk that the client reads,
LEMMA TypeStepClientReads ==
  ASSUME TypeInv, Connected(link), NEW n \in SomeChunk(link.toClient), ClientReads(n)
  PROVE  TypeInv'
<1> DEFINE read == ProcessData(link.atClient, SubSeq(link.toClient, 1, n))
<1>1. /\ offered' = offered /\ opened' = opened /\ endpoints' = endpoints /\ breaks' = breaks
      /\ sent' = sent /\ task' = task /\ waiting' = waiting /\ handling' = handling
      /\ link' = Getting(link, read.processor, n)
      /\ got' = IF read.message = NoMessage THEN got ELSE Append(got, read.message)
  BY DEF ClientReads, server, Getting
<1>2. n \in 1..Len(link.toClient) /\ LinkInv(link)
  BY DEF SomeChunk, TypeInv, LinkType
<1> HIDE DEF read
<1>3. /\ LinkInv(link') /\ link'.status = link.status /\ link'.manager = link.manager
      /\ \/ read.message = NoMessage
         \/ AnswersOf(link) # <<>> /\ read.message = Head(AnswersOf(link))
  BY <1>1, <1>2, ResponseIsRead DEF read
<1>4. link # NoLink /\ link' # NoLink
  BY <1>2, <1>3, StatusOf DEF Connected
<1>5. got' \in Seq(TcpRequest)
  <2>1. CASE read.message = NoMessage
    BY <1>1, <2>1 DEF TypeInv, ClientType
  <2>2. CASE read.message # NoMessage
    <3>1. AnswersOf(link) \in Seq(TcpRequest)
      BY <1>2, CarriedType
    <3>2. read.message \in TcpRequest
      BY <1>3, <2>2, <3>1
    <3>3. got \in Seq(TcpRequest)
      BY DEF TypeInv, ClientType
    <3> QED
      BY <1>1, <2>2, <3>2, <3>3
  <2> QED
    BY <2>1, <2>2
<1>6. LinkType' /\ ClientType'
  BY <1>1, <1>3, <1>4, <1>5 DEF TypeInv, LinkType, ClientType, Connected
<1>7. ServerType'
  BY <1>1 DEF TypeInv, ServerType
<1> QED
  BY <1>6, <1>7 DEF TypeInv

\* a request that the client writes,
LEMMA TypeStepForward ==
  ASSUME TypeInv, Forward
  PROVE  TypeInv'
<1>1. /\ offered' = offered /\ opened' = opened /\ endpoints' = endpoints /\ breaks' = breaks
      /\ sent' = sent /\ task' = task /\ got' = got /\ handling' = handling
      /\ waiting # <<>> /\ waiting' = Tail(waiting) /\ Connected(link)
  BY DEF Forward, server
<1>2. waiting \in Seq(TcpRequest) /\ LinkInv(link) /\ opened \in Nat
  BY BoundAssumption DEF TypeInv, ClientType, LinkType, ServerType
<1>3. Head(waiting) \in TcpRequest /\ waiting' \in Seq(TcpRequest)
  BY <1>1, <1>2
<1>4. LinkInv(link') /\ link' # NoLink
      /\ (Connected(link') => link'.manager = link.manager)
  <2>1. CASE link.status = "up"
    <3>1. link' = Asking(link, Units(Head(waiting), RequestSize))
      BY <2>1 DEF Forward, Asking
    <3>2. LinkInv(link') /\ link'.status = "up" /\ link'.manager = link.manager
      BY <1>2, <1>3, <2>1, <3>1, RequestIsWritten
    <3> QED
      BY <3>2, StatusOf DEF Connected
  <2>2. CASE link.status # "up"
    <3>1. link' = link \/ link' = [status |-> "reset"]
      BY <2>2 DEF Forward
    <3>2. link' = [status |-> "reset"] => LinkInv(link') /\ ~Connected(link')
      BY NothingCarried
    <3> QED
      BY <1>1, <1>2, <3>1, <3>2, StatusOf
  <2> QED
    BY <2>1, <2>2
<1>5. link # NoLink
  BY <1>1, <1>2, StatusOf
<1>6. LinkType' /\ ClientType'
  BY <1>1, <1>3, <1>4, <1>5 DEF TypeInv, LinkType, ClientType
<1>7. ServerType'
  BY <1>1 DEF TypeInv, ServerType
<1> QED
  BY <1>6, <1>7 DEF TypeInv

\* the rest of what the client does,
LEMMA TypeStepClient ==
  ASSUME TypeInv,
         (\E r \in Request : Call(r)) \/ Connect \/ SeeEnd \/ SeeReset
  PROVE  TypeInv'
<1>1. /\ offered' = offered /\ opened' = opened /\ endpoints' = endpoints /\ breaks' = breaks
      /\ sent' = sent /\ got' = got /\ handling' = handling
  BY DEF Call, Connect, SeeEnd, SeeReset, server
<1>2. ServerType' /\ opened \in Nat
  BY <1>1, BoundAssumption DEF TypeInv, ServerType
<1>3. ASSUME NEW r \in Request, Call(r) PROVE ClientType' /\ LinkType'
  <2>1. r \in TcpRequest /\ waiting \in Seq(TcpRequest)
    BY <1>3 DEF Call, TcpRequest, TypeInv, ClientType
  <2>2. waiting' \in Seq(TcpRequest) /\ link' = link
    BY <1>3, <2>1 DEF Call
  <2>3. /\ task' \in {"none", "connecting", "reading", "ended"}
        /\ task' = "reading" <=> task = "reading"
    BY <1>3 DEF Call, TypeInv, ClientType
  <2>4. LinkType'
    BY <1>1, <1>2, <2>2, LinkStays DEF TypeInv
  <2> QED
    BY <1>1, <2>2, <2>3, <2>4 DEF TypeInv, ClientType
<1>4. CASE Connect
  <2>1. PICK e \in EndpointsAt(endpoints, TcpPort, "tcp") :
          link' = [status |-> "up", manager |-> e.manager, atServer |-> Fresh,
                   atClient |-> Fresh, toServer |-> <<>>, toClient |-> <<>>]
    BY <1>4 DEF Connect
  <2>2. LinkInv(link') /\ link'.status = "up" /\ link'.manager = e.manager
    BY <2>1, LinkOpens
  <2>3. link' # NoLink /\ e.manager \in 1..opened
    BY <2>2, StatusOf DEF Connected, EndpointsAt, TypeInv, ServerType, StoredType
  <2> QED
    BY <1>1, <1>2, <1>4, <2>2, <2>3 DEF Connect, TypeInv, ClientType, LinkType
<1>5. CASE SeeEnd \/ SeeReset
  <2>1. link' = NoLink /\ waiting' = waiting /\ task' \in {"connecting", "ended"}
    BY <1>5 DEF SeeEnd, SeeReset
  <2>2. LinkInv(link') /\ ~Connected(link')
    BY <2>1, NothingCarried
  <2> QED
    BY <1>1, <1>2, <2>1, <2>2 DEF TypeInv, ClientType, LinkType
<1> QED
  BY <1>2, <1>3, <1>4, <1>5 DEF TypeInv

\* the ends of the server and of the connection,
LEMMA TypeStepFailure ==
  ASSUME TypeInv, ServerEnds \/ Reset
  PROVE  TypeInv'
<1>1. /\ opened' = opened /\ sent' = sent /\ got' = got /\ waiting' = waiting /\ task' = task
      /\ breaks' \in 0..MaxBreaks /\ opened \in Nat
  BY BoundAssumption
  DEF ServerEnds, Reset, server, client, TypeInv, ServerType, LinkType
<1>2. ServerType'
  BY <1>1 DEF ServerEnds, Reset, server, TypeInv, ServerType, StoredType
<1>3. CASE ServerEnds
  <2>1. CASE link.status = "up"
    <3>1. link' = Ending(link)
      BY <1>3, <2>1 DEF ServerEnds, Ending
    <3>2. LinkInv(link') /\ link'.status = "ended" /\ link'.manager = link.manager
      BY <2>1, <3>1, LinkEnds DEF TypeInv, LinkType
    <3>3. link' # NoLink /\ link # NoLink /\ Connected(link)
      BY <2>1, <3>2, StatusOf DEF Connected, TypeInv, LinkType
    <3> QED
      BY <1>1, <1>2, <3>2, <3>3 DEF TypeInv, ClientType, LinkType
  <2>2. CASE link.status # "up"
    <3>1. link' = link
      BY <1>3, <2>2 DEF ServerEnds
    <3> QED
      BY <1>1, <1>2, <3>1 DEF TypeInv, ClientType, LinkType, Connected
  <2> QED
    BY <2>1, <2>2
<1>4. CASE Reset
  <2>1. link' = [status |-> "reset"] /\ Connected(link) /\ LinkInv(link)
    BY <1>4 DEF Reset, TypeInv, LinkType
  <2>2. LinkInv(link') /\ ~Connected(link') /\ link' # NoLink /\ link # NoLink
    BY <2>1, NothingCarried, StatusOf
  <2> QED
    BY <1>1, <1>2, <2>2 DEF TypeInv, ClientType, LinkType
<1> QED
  BY <1>3, <1>4

\* and whatever else happens.
LEMMA TypeStep ==
  ASSUME TypeInv, [Next]_vars
  PROVE  TypeInv'
<1>1. CASE \/ \E s \in Service : OfferService(s) \/ StopOfferService(s)
           \/ \E a \in Application : ApplicationEnds(a)
           \/ \E r \in Request : RequestArrives(r)
  BY <1>1, TypeStepServer
<1>2. CASE \/ \E r \in Request : Call(r)
           \/ Connect \/ SeeEnd \/ SeeReset
  BY <1>2, TypeStepClient
<1>3. CASE \E h \in handling : Respond(h)
  BY <1>3, TypeStepResponse
<1>4. CASE Connected(link) /\ \E n \in SomeChunk(link.toServer) : ServerReads(n)
  BY <1>4, TypeStepServerReads
<1>5. CASE Connected(link) /\ \E n \in SomeChunk(link.toClient) : ClientReads(n)
  BY <1>5, TypeStepClientReads
<1>6. CASE Forward
  BY <1>6, TypeStepForward
<1>7. CASE ServerEnds \/ Reset
  BY <1>7, TypeStepFailure
<1>8. CASE UNCHANGED vars
  <2>1. ServerType' /\ ClientType' /\ opened \in Nat
    BY <1>8, BoundAssumption DEF vars, server, client, TypeInv, ServerType, ClientType
  <2>2. LinkType'
    BY <1>8, <2>1, LinkStays DEF vars, server, TypeInv
  <2> QED
    BY <2>1, <2>2 DEF TypeInv
<1> QED
  BY <1>1, <1>2, <1>3, <1>4, <1>5, <1>6, <1>7, <1>8 DEF Next

\* A processor in the middle of a stream has its type.
LEMMA ProcessorType ==
  ASSUME NEW p, NEW t, NEW M, NEW size \in Nat, size >= SmallestMessage,
         Direction(p, t, M, size)
  PROVE  p \in Processor
<1> DEFINE b == p.buffer
<1>1. Consistent(p, size) /\ b \in Seq(Units4(TcpRequest))
  BY DEF Direction
<1>2. Units4(TcpRequest) \subseteq [of : Request, total : Nat]
  BY DEF Units4, TcpRequest
<1>3. b \in Seq([of : Request, total : Nat]) /\ Len(b) \in Nat
  <2> HIDE DEF b
  <2>1. b \in Seq([of : Request, total : Nat])
    BY <1>1, <1>2, SeqMonotonic, Zenon
  <2> QED
    BY <2>1
<1>4. CASE p = [state |-> "HEADER", buffer |-> b, total |-> 0, expected |-> HeaderUnits]
  <2> HIDE DEF b
  <2> QED
    BY <1>3, <1>4 DEF Processor, HeaderUnits
<1>5. CASE /\ p = [state |-> "PAYLOAD", buffer |-> b, total |-> size, expected |-> size - Len(b)]
           /\ Len(b) >= HeaderUnits /\ Len(b) < size
  <2> HIDE DEF b
  <2>1. size - Len(b) \in Nat /\ size - Len(b) > 0
    BY <1>3, <1>5
  <2> QED
    BY <1>3, <1>5, <2>1 DEF Processor
<1> QED
  BY <1>1, <1>4, <1>5 DEF Consistent

\* Types, in every reachable state.
THEOREM TypesAreRight == Spec => []TypeOK
<1>1. Init => TypeInv
  BY TypeInit
<1>2. TypeInv /\ [Next]_vars => TypeInv'
  BY TypeStep
<1>3. TypeInv => TypeOK
  <2> SUFFICES ASSUME TypeInv PROVE TypeOK
    OBVIOUS
  <2>2. Connected(link) => link.atServer \in Processor /\ link.atClient \in Processor
    <3> SUFFICES ASSUME Connected(link)
                 PROVE  link.atServer \in Processor /\ link.atClient \in Processor
      OBVIOUS
    <3>1. Carries(link, PendingOf(link), AnswersOf(link))
      BY ConnectedCarries DEF TypeInv, LinkType
    <3> QED
      BY <3>1, Sizes, ProcessorType DEF Carries
  <2>3. link.status \in {"none", "up", "ended", "reset"}
    BY StatusOf DEF TypeInv, LinkType
  <2>4. Range(waiting) \cup Range(got) \subseteq Request
    <3>1. waiting \in Seq(Request) /\ got \in Seq(Request)
      BY DEF TypeInv, ClientType, TcpRequest
    <3> QED
      BY <3>1 DEF Range
  <2> QED
    BY <2>2, <2>3, <2>4 DEF TypeOK, TypeInv, ServerType, StoredType, ClientType, LinkType
<1> QED
  BY <1>1, <1>2, <1>3, PTL DEF Spec

-----------------------------------------------------------------------------
(* Where a response leaves from.                                           *)

\* A task is of a service at the address the request was sent to, which is offered
\* until it is stopped, and an endpoint is there until it is closed.
HandledAsAsked ==
  \A h \in handling :
    /\ h.service.id = h.request.id /\ h.service.port = h.request.port
    /\ ~h.stopped => h.service \in offered
    /\ ~h.closed => EndpointsAt(endpoints, h.request.port, h.request.protocol) # {}

\* A request is handled by a service that is offered at the address it was sent to.
LEMMA HandledForAsAsked ==
  ASSUME NEW r, NEW h \in HandledFor(r)
  PROVE  /\ h.request = r /\ h.service.id = r.id /\ h.service.port = r.port
         /\ h.service \in offered /\ h.stopped = FALSE
         /\ ~h.closed => EndpointsAt(endpoints, r.port, r.protocol) # {}
<1> DEFINE gone == EndpointsAt(endpoints, r.port, r.protocol) = {}
<1>1. PICK s \in offered :
        /\ h = [request |-> r, service |-> s, stopped |-> FALSE, closed |-> gone]
        /\ s.id = r.id /\ s.port = r.port
  BY DEF HandledFor
<1> HIDE DEF gone
<1>2. /\ h.request = r /\ h.service = s /\ h.stopped = FALSE /\ h.closed = gone
  BY <1>1
<1> QED
  BY <1>1, <1>2 DEF gone

\* HandledAsAsked stays.
LEMMA HandledStep ==
  ASSUME TypeInv, HandledAsAsked, [Next]_vars
  PROVE  HandledAsAsked'
<1>1. CASE /\ offered \subseteq offered' /\ endpoints \subseteq endpoints'
           /\ handling' \subseteq handling
  BY <1>1 DEF HandledAsAsked, EndpointsAt
<1>2. ASSUME NEW r, offered' = offered, endpoints' = endpoints,
             handling' = handling \cup HandledFor(r)
      PROVE  HandledAsAsked'
  <2> SUFFICES ASSUME NEW g \in handling'
               PROVE  /\ g.service.id = g.request.id /\ g.service.port = g.request.port
                      /\ ~g.stopped => g.service \in offered
                      /\ ~g.closed
                           => EndpointsAt(endpoints, g.request.port, g.request.protocol) # {}
    BY <1>2 DEF HandledAsAsked, EndpointsAt
  <2>1. CASE g \in handling
    BY <2>1 DEF HandledAsAsked
  <2>2. CASE g \in HandledFor(r)
    BY <2>2, HandledForAsAsked
  <2> QED
    BY <1>2, <2>1, <2>2
<1>3. ASSUME NEW s \in Service, StopOfferService(s)
      PROVE  HandledAsAsked'
  <2> SUFFICES ASSUME NEW g \in handling'
               PROVE  /\ g.service.id = g.request.id /\ g.service.port = g.request.port
                      /\ ~g.stopped => g.service \in offered'
                      /\ ~g.closed
                           => EndpointsAt(endpoints', g.request.port, g.request.protocol) # {}
    BY DEF HandledAsAsked
  <2>1. PICK h \in handling : g = Told(Noticing(h, endpoints'), s)
    BY <1>3 DEF StopOfferService
  <2>2. h \in Handler /\ offered' = offered \ {s}
    BY <1>3 DEF StopOfferService, TypeInv, ServerType
  <2> DEFINE n == Noticing(h, endpoints')
  <2>3. /\ n \in Handler /\ n.request = h.request /\ n.service = h.service
        /\ n.stopped = h.stopped
        /\ ~n.closed => EndpointsAt(endpoints', h.request.port, h.request.protocol) # {}
    BY <2>2, NoticingTask
  <2> HIDE DEF n
  <2>4. /\ g.service = h.service /\ g.request = h.request /\ g.closed = n.closed
        /\ ~g.stopped => ~n.stopped /\ n.service # s
    BY <2>1, <2>3, ToldTask DEF n
  <2> QED
    BY <2>2, <2>3, <2>4 DEF HandledAsAsked
<1>4. ASSUME NEW a, ApplicationEnds(a)
      PROVE  HandledAsAsked'
  <2> SUFFICES ASSUME NEW g \in handling'
               PROVE  /\ g.service.id = g.request.id /\ g.service.port = g.request.port
                      /\ ~g.stopped => g.service \in offered'
                      /\ ~g.closed
                           => EndpointsAt(endpoints', g.request.port, g.request.protocol) # {}
    BY DEF HandledAsAsked
  <2>1. PICK h \in handling : g = Noticing(h, endpoints') /\ h.service.application # a
    BY <1>4 DEF ApplicationEnds
  <2>2. h \in Handler /\ offered' = {s \in offered : s.application # a}
    BY <1>4 DEF ApplicationEnds, TypeInv, ServerType
  <2>3. /\ g.request = h.request /\ g.service = h.service /\ g.stopped = h.stopped
        /\ ~g.closed => EndpointsAt(endpoints', h.request.port, h.request.protocol) # {}
    BY <2>1, <2>2, NoticingTask
  <2> QED
    BY <2>1, <2>2, <2>3 DEF HandledAsAsked
<1>5. ASSUME NEW s \in Service, OfferService(s)
      PROVE  HandledAsAsked'
  BY <1>1, <1>5 DEF OfferService
<1>6. ASSUME NEW r \in Request, RequestArrives(r)
      PROVE  HandledAsAsked'
  BY <1>2, <1>6 DEF RequestArrives
<1>7. ASSUME NEW h \in handling, Respond(h)
      PROVE  HandledAsAsked'
  BY <1>1, <1>7 DEF Respond
<1>8. ASSUME NEW n, ServerReads(n)
      PROVE  HandledAsAsked'
  BY <1>1, <1>2, <1>8 DEF ServerReads
<1>9. CASE ServerEnds
  BY <1>9 DEF ServerEnds, HandledAsAsked
<1>10. CASE \/ \E r \in Request : Call(r)
            \/ Connected(link) /\ \E n \in SomeChunk(link.toClient) : ClientReads(n)
            \/ Forward \/ Connect \/ SeeEnd \/ SeeReset \/ Reset
            \/ UNCHANGED vars
  BY <1>1, <1>10 DEF Call, ClientReads, Forward, Connect, SeeEnd, SeeReset, Reset, vars, server
<1> QED
  BY <1>3, <1>4, <1>5, <1>6, <1>7, <1>8, <1>9, <1>10 DEF Next

\* While its own service is offered and an endpoint is there, a request is answered
\* from that one's port.
LEMMA EndpointsOfOffered ==
  ASSUME TypeInv, HandledAsAsked, NEW h \in handling, ~h.stopped, ~h.closed,
         NEW e \in ResponseEndpoints(h)
  PROVE  e.port = h.request.port
<1> DEFINE own   == {s \in offered : s.id = h.service.id /\ s.instance = h.service.instance}
           there == UNION {EndpointsAt(endpoints, s.port, h.request.protocol) : s \in own}
<1>1. /\ h.service \in Service /\ h.service \in offered
      /\ h.service.id = h.request.id /\ h.service.port = h.request.port
      /\ EndpointsAt(endpoints, h.request.port, h.request.protocol) # {}
  BY DEF TypeInv, ServerType, Handler, HandledAsAsked
<1>2. own = {h.service}
  <2>1. \A s \in own : s = h.service
    BY <1>1, ServiceAssumption DEF TypeInv, ServerType
  <2> QED
    BY <1>1, <2>1
<1>3. there = EndpointsAt(endpoints, h.request.port, h.request.protocol)
  BY <1>1, <1>2
<1>4. e \in there
  BY <1>1, <1>3 DEF ResponseEndpoints
<1> QED
  BY <1>3, <1>4 DEF EndpointsAt

\* Whatever else is offered, stopped and opened meanwhile, a response leaves from the
\* port its request was for, unless its own service was stopped or the endpoint there
\* was closed: _handle_inbound_call_method_response finds the service by its id and
\* instance, and the endpoint by the address of that service.
THEOREM ResponsesLeaveFromWhereAsked == Spec => []AnsweredFromWhereAsked
<1> DEFINE Inv == TypeInv /\ HandledAsAsked /\ AnsweredFromWhereAsked
<1>1. Init => Inv
  BY TypeInit DEF Init, HandledAsAsked, AnsweredFromWhereAsked
<1>2. Inv /\ [Next]_vars => Inv'
  <2> SUFFICES ASSUME Inv, [Next]_vars PROVE Inv'
    OBVIOUS
  <2>1. TypeInv' /\ HandledAsAsked'
    BY TypeStep, HandledStep
  <2>2. sent' = sent => AnsweredFromWhereAsked'
    BY DEF AnsweredFromWhereAsked
  <2>3. ASSUME NEW h \in handling, Respond(h)
        PROVE  AnsweredFromWhereAsked'
    <3>1. CASE sent' = sent
      BY <2>2, <3>1
    <3>2. CASE sent' # sent
      <4>1. PICK e \in ResponseEndpoints(h) :
              sent' = sent \cup {[request |-> h.request, from |-> e.port,
                                  stopped |-> h.stopped, closed |-> h.closed]}
        BY <2>3, <3>2 DEF Respond
      <4>2. ~h.stopped /\ ~h.closed => e.port = h.request.port
        <5> SUFFICES ASSUME ~h.stopped, ~h.closed PROVE e.port = h.request.port
          OBVIOUS
        <5>1. TypeInv /\ HandledAsAsked
          OBVIOUS
        <5> QED
          BY <5>1, EndpointsOfOffered, Zenon
      <4> QED
        <5> SUFFICES ASSUME NEW a \in sent' PROVE a.from = a.request.port \/ a.stopped \/ a.closed
          BY DEF AnsweredFromWhereAsked
        <5>1. CASE a \in sent
          BY <5>1 DEF AnsweredFromWhereAsked
        <5>2. CASE a = [request |-> h.request, from |-> e.port,
                        stopped |-> h.stopped, closed |-> h.closed]
          <6>1. /\ a.request = h.request /\ a.from = e.port
                /\ a.stopped = h.stopped /\ a.closed = h.closed
            BY <5>2
          <6>2. h.stopped \in BOOLEAN /\ h.closed \in BOOLEAN
            BY DEF TypeInv, ServerType, Handler
          <6> QED
            BY <4>2, <6>1, <6>2
        <5> QED
          BY <4>1, <5>1, <5>2
    <3> QED
      BY <3>1, <3>2
  <2>4. CASE ~\E h \in handling : Respond(h)
    <3>1. sent' = sent
      BY <2>4 DEF Next, OfferService, StopOfferService, ApplicationEnds, RequestArrives, Call,
         ServerReads, ClientReads, Forward, Connect, SeeEnd, SeeReset, ServerEnds, Reset,
         vars, server
    <3> QED
      BY <2>1, <2>2, <3>1
  <2> QED
    BY <2>1, <2>3, <2>4
<1> QED
  BY <1>1, <1>2, PTL DEF Spec

-----------------------------------------------------------------------------
(* What the connection promises.                                           *)

\* A service has one instance at a port: of two, both would handle a request.
OneInstance ==
  \A s, t \in Service : s.id = t.id /\ s.port = t.port => s = t

\* What a sequence holds when one is added at its end,
LEMMA AppendHolds ==
  ASSUME NEW X, NEW s \in Seq(X), NEW r \in X
  PROVE  /\ \A q \in X : Holds(Append(s, r), q) <=> Holds(s, q) \/ q = r
         /\ Distinct(s) /\ ~Holds(s, r) => Distinct(Append(s, r))
<1> DEFINE t == Append(s, r)
<1>1. /\ Len(s) \in Nat /\ Len(t) = Len(s) + 1 /\ t[Len(s) + 1] = r
      /\ \A i \in 1..Len(s) : t[i] = s[i]
  OBVIOUS
<1> HIDE DEF t
<1>2. \A i \in 1..Len(t) : i \in 1..Len(s) \/ i = Len(s) + 1
  BY <1>1
<1>3. 1..Len(s) \subseteq 1..Len(t) /\ Len(s) + 1 \in 1..Len(t)
  BY <1>1
<1>4. ASSUME NEW q \in X PROVE Holds(t, q) <=> Holds(s, q) \/ q = r
  BY <1>1, <1>2, <1>3 DEF Holds
<1>5. ASSUME Distinct(s), ~Holds(s, r) PROVE Distinct(t)
  BY <1>1, <1>2, <1>5 DEF Holds, Distinct
<1> QED
  BY <1>4, <1>5 DEF t

\* when the first one is taken,
LEMMA TailHolds ==
  ASSUME NEW X, NEW s \in Seq(X), s # <<>>
  PROVE  /\ Head(s) \in X /\ Tail(s) \in Seq(X) /\ Holds(s, Head(s))
         /\ \A q \in X : Holds(Tail(s), q) => Holds(s, q)
         /\ Distinct(s) => Distinct(Tail(s)) /\ ~Holds(Tail(s), Head(s))
<1> DEFINE t == Tail(s)
<1>1. /\ Len(s) \in Nat \ {0} /\ Len(t) = Len(s) - 1 /\ Head(s) = s[1] /\ s[1] \in X
      /\ t \in Seq(X)
      /\ \A i \in 1..Len(t) : t[i] = s[i + 1]
  OBVIOUS
<1> HIDE DEF t
<1>2. /\ \A i \in 1..Len(t) : i + 1 \in 1..Len(s) /\ i + 1 # 1
      /\ 1 \in 1..Len(s)
      /\ \A i, j \in 1..Len(t) : i + 1 = j + 1 => i = j
  BY <1>1
<1>3. \A q \in X : Holds(t, q) => Holds(s, q)
  BY <1>1, <1>2 DEF Holds
<1>4. ASSUME Distinct(s) PROVE Distinct(t)
  <2> SUFFICES ASSUME NEW i \in 1..Len(t), NEW j \in 1..Len(t), t[i] = t[j] PROVE i = j
    BY DEF Distinct
  <2>1. s[i + 1] = s[j + 1]
    BY <1>1
  <2>2. i + 1 = j + 1
    BY <1>2, <1>4, <2>1 DEF Distinct
  <2> QED
    BY <1>2, <2>2
<1>5. ASSUME Distinct(s) PROVE ~Holds(t, Head(s))
  <2> SUFFICES ASSUME NEW i \in 1..Len(t), t[i] = Head(s) PROVE FALSE
    BY DEF Holds
  <2>1. s[i + 1] = s[1]
    BY <1>1
  <2> QED
    BY <1>2, <1>5, <2>1 DEF Distinct
<1>6. Holds(s, Head(s))
  BY <1>1, <1>2 DEF Holds
<1> QED
  BY <1>1, <1>3, <1>4, <1>5, <1>6 DEF t

\* and when there is none.
LEMMA EmptyHolds ==
  /\ Distinct(<<>>)
  /\ \A q : ~Holds(<<>>, q)
<1>1. Len(<<>>) = 0
  OBVIOUS
<1> QED
  BY <1>1 DEF Distinct, Holds

\* The ways in which requests move.
LEMMA CallIsPlaced ==
  ASSUME NEW w \in Seq(TcpRequest), NEW P \in Seq(TcpRequest), NEW H, OncePlaced(w, P, H),
         NEW r \in TcpRequest, ~Holds(w, r), ~Holds(P, r), \A h \in H : h.request # r
  PROVE  OncePlaced(Append(w, r), P, H)
<1>1. /\ \A q \in TcpRequest : Holds(Append(w, r), q) <=> Holds(w, q) \/ q = r
      /\ Distinct(w) /\ ~Holds(w, r) => Distinct(Append(w, r))
  BY AppendHolds
<1> DEFINE v == Append(w, r)
<1> HIDE DEF v
<1>2. OncePlaced(v, P, H)
  BY <1>1 DEF OncePlaced, v
<1> QED
  BY <1>2 DEF v

LEMMA ForwardIsPlaced ==
  ASSUME NEW w \in Seq(TcpRequest), NEW P \in Seq(TcpRequest), NEW H, OncePlaced(w, P, H),
         w # <<>>
  PROVE  OncePlaced(Tail(w), P, H) /\ OncePlaced(Tail(w), Append(P, Head(w)), H)
<1> DEFINE v == Tail(w)
           r == Head(w)
           Q == Append(P, r)
<1>1. /\ r \in TcpRequest /\ Holds(w, r)
      /\ \A q \in TcpRequest : Holds(v, q) => Holds(w, q)
      /\ Distinct(w) => Distinct(v) /\ ~Holds(v, r)
  BY TailHolds
<1>2. /\ \A q \in TcpRequest : Holds(Q, q) <=> Holds(P, q) \/ q = r
      /\ Distinct(P) /\ ~Holds(P, r) => Distinct(Q)
  BY <1>1, AppendHolds
<1> HIDE DEF v, r, Q
<1>3. OncePlaced(v, P, H)
  BY <1>1 DEF OncePlaced
<1>4. OncePlaced(v, Q, H)
  BY <1>1, <1>2 DEF OncePlaced
<1> QED
  BY <1>3, <1>4 DEF v, r, Q

LEMMA LossIsPlaced ==
  ASSUME NEW w, NEW P, NEW H, NEW G, G \subseteq H, OncePlaced(w, P, H)
  PROVE  OncePlaced(w, P, G) /\ OncePlaced(w, <<>>, G)
BY EmptyHolds DEF OncePlaced

LEMMA TakeIsPlaced ==
  ASSUME OneInstance, offered \subseteq Service,
         NEW w \in Seq(TcpRequest), NEW P \in Seq(TcpRequest), NEW H, OncePlaced(w, P, H),
         P # <<>>
  PROVE  OncePlaced(w, Tail(P), H \cup HandledFor(Head(P)))
<1> DEFINE Q == Tail(P)
           r == Head(P)
           G == H \cup HandledFor(r)
<1>1. /\ r \in TcpRequest /\ Holds(P, r)
      /\ \A q \in TcpRequest : Holds(Q, q) => Holds(P, q)
      /\ Distinct(P) => Distinct(Q) /\ ~Holds(Q, r)
  BY TailHolds
<1> DEFINE gone == EndpointsAt(endpoints, r.port, r.protocol) = {}
           Task(s) == [request |-> r, service |-> s, stopped |-> FALSE, closed |-> gone]
<1>2. \A h \in HandledFor(r) :
        /\ h.request = r /\ h.service.id = r.id /\ h.service.port = r.port
        /\ h.service \in Service /\ h = Task(h.service)
  <2> SUFFICES ASSUME NEW h \in HandledFor(r)
               PROVE  /\ h.request = r /\ h.service.id = r.id /\ h.service.port = r.port
                      /\ h.service \in Service /\ h = Task(h.service)
    OBVIOUS
  <2> HIDE DEF r
  <2>1. PICK s \in offered : h = Task(s) /\ s.id = r.id /\ s.port = r.port
    BY DEF HandledFor
  <2> HIDE DEF gone
  <2> QED
    BY <2>1
<1> HIDE DEF Task, gone
<1> HIDE DEF Q, r
<1>3. ASSUME NEW g \in HandledFor(r), NEW h \in HandledFor(r) PROVE g = h
  <2>1. g.service = h.service
    BY <1>2 DEF OneInstance
  <2> QED
    BY <1>2, <2>1
<1> HIDE DEF G
<1>4. \A h \in G : h \in H \/ h \in HandledFor(r)
  BY DEF G
<1>5. \A h \in H : h.request # r
  BY <1>1 DEF OncePlaced
<1>6. \A h \in G : h.request \in TcpRequest => ~Holds(w, h.request) /\ ~Holds(Q, h.request)
  BY <1>1, <1>2, <1>4 DEF OncePlaced
<1>7. \A g, h \in G : g.request \in TcpRequest /\ g.request = h.request => g = h
  BY <1>2, <1>3, <1>4, <1>5 DEF OncePlaced
<1>8. OncePlaced(w, Q, G)
  BY <1>1, <1>6, <1>7 DEF OncePlaced
<1> QED
  BY <1>8 DEF Q, r, G

\* What is on its way is in the connection, or in the buffer of its reader.
LEMMA PendingIsOnLink ==
  ASSUME NEW l, LinkInv(l), NEW r, Holds(PendingOf(l), r)
  PROVE  /\ Connected(l)
         /\ r \in {l.toServer[i].of : i \in DOMAIN l.toServer}
                    \cup {l.atServer.buffer[i].of : i \in DOMAIN l.atServer.buffer}
<1>1. Connected(l)
  BY EmptyHolds DEF PendingOf
<1> DEFINE X == Units4(TcpRequest)
           b == l.atServer.buffer
           t == l.toServer
           M == PendingOf(l)
           s == b \o t
<1>2. /\ b \in Seq(X) /\ t \in Seq(X) /\ M \in Seq(TcpRequest)
      /\ IsStream(s, M, RequestSize)
  BY <1>1, ConnectedCarries DEF Carries, Direction
<1>3. PICK k \in 1..Len(M) : M[k] = r
  BY DEF Holds
<1> HIDE DEF X, b, t, M
<1>4. Joins(s, b, t) /\ s \in Seq(X)
  BY <1>2, ConcatJoins
<1> HIDE DEF s
<1>5. RequestSize \in Nat \ {0} /\ RequestSize \in 1..RequestSize
  BY Sizes DEF SmallestMessage
<1>6. Len(M) \in Nat /\ Len(s) \in Nat /\ Len(b) \in Nat /\ Len(t) \in Nat
  BY <1>2, <1>4
<1> DEFINE i == (k - 1) * RequestSize + RequestSize
<1>7. s[i].of = r /\ Len(s) = Len(M) * RequestSize
  <2>1. s[(k - 1) * RequestSize + RequestSize] = Unit(M[k], RequestSize)
    BY <1>2, <1>5 DEF IsStream
  <2> QED
    BY <1>2, <1>3, <2>1 DEF IsStream, Unit
<1>8. i \in 1..Len(s)
  <2>1. k - 1 \in Nat /\ k - 1 < Len(M)
    BY <1>6
  <2>2. (k - 1) * RequestSize \in Nat
        /\ (k - 1) * RequestSize + RequestSize <= Len(M) * RequestSize
    BY <1>5, <1>6, <2>1, Product
  <2> QED
    BY <1>5, <1>6, <1>7, <2>2
<1> HIDE DEF i
<1>9. CASE i <= Len(b)
  <2>1. i \in Nat /\ 1 <= i /\ s[i] = IF i <= Len(b) THEN b[i] ELSE t[i - Len(b)]
    BY <1>4, <1>6, <1>8 DEF Joins
  <2>2. i \in 1..Len(b) /\ s[i] = b[i]
    BY <1>6, <1>9, <2>1
  <2>3. DOMAIN b = 1..Len(b)
    BY <1>2
  <2>4. i \in DOMAIN b /\ b[i].of = r
    BY <1>7, <2>2, <2>3
  <2> QED
    BY <1>1, <2>4 DEF b, t
<1>10. CASE ~(i <= Len(b))
  <2>1. i - Len(b) \in 1..Len(t) /\ s[i] = t[i - Len(b)]
    BY <1>4, <1>6, <1>8, <1>10 DEF Joins
  <2>2. DOMAIN t = 1..Len(t)
    BY <1>2
  <2>3. i - Len(b) \in DOMAIN t /\ t[i - Len(b)].of = r
    BY <1>7, <2>1, <2>2
  <2> QED
    BY <1>1, <2>3 DEF b, t
<1> QED
  BY <1>9, <1>10

\* The tasks that notice a stop are as many, and for the same requests.
LEMMA StopIsPlaced ==
  ASSUME NEW w, NEW P, handling \subseteq Handler, OncePlaced(w, P, handling),
         \/ \E s \in Service : StopOfferService(s)
         \/ \E a \in Application : ApplicationEnds(a)
  PROVE  /\ OncePlaced(w, P, handling')
         /\ \A g \in handling' : \E h \in handling : g.request = h.request
<1>1. ASSUME NEW s \in Service, StopOfferService(s)
      PROVE  \A g \in handling' : \E h \in handling :
               g = Told(Noticing(h, endpoints'), s) /\ g.request = h.request
  <2> SUFFICES ASSUME NEW g \in handling'
               PROVE  \E h \in handling :
                        g = Told(Noticing(h, endpoints'), s) /\ g.request = h.request
    OBVIOUS
  <2>1. PICK h \in handling : g = Told(Noticing(h, endpoints'), s)
    BY <1>1 DEF StopOfferService
  <2>2. h \in Handler
    OBVIOUS
  <2>3. Noticing(h, endpoints') \in Handler /\ Noticing(h, endpoints').request = h.request
    BY <2>2, NoticingTask
  <2>4. g.request = h.request
    BY <2>1, <2>3, ToldTask
  <2> QED
    BY <2>1, <2>4
<1>2. ASSUME NEW a, ApplicationEnds(a)
      PROVE  \A g \in handling' : \E h \in handling :
               g = Noticing(h, endpoints') /\ g.request = h.request
  BY <1>2, NoticingTask DEF ApplicationEnds
<1> QED
  BY <1>1, <1>2 DEF OncePlaced

\* OnceInv stays.
LEMMA OnceStep ==
  ASSUME OneInstance, TypeInv, OnceInv, [Next]_vars
  PROVE  OnceInv'
<1> DEFINE P == PendingOf(link)
<1>1. /\ LinkInv(link) /\ waiting \in Seq(TcpRequest) /\ P \in Seq(TcpRequest)
      /\ OncePlaced(waiting, P, handling)
      /\ offered \subseteq Service /\ handling \subseteq Handler
  BY CarriedType DEF TypeInv, LinkType, ClientType, ServerType, OnceInv
<1> HIDE DEF P
<1>2. ASSUME waiting' = waiting, PendingOf(link') \in {P, <<>>}, handling' \subseteq handling
      PROVE  OnceInv'
  BY <1>1, <1>2, LossIsPlaced DEF OnceInv
<1>3. CASE (\E s \in Service : OfferService(s)) \/ UNCHANGED vars
  <2>1. waiting' = waiting /\ link' = link /\ handling' \subseteq handling
    BY <1>3 DEF OfferService, vars, server, client
  <2> QED
    BY <1>2, <2>1 DEF P
<1>4. CASE \/ \E s \in Service : StopOfferService(s)
           \/ \E a \in Application : ApplicationEnds(a)
  <2>1. OncePlaced(waiting, P, handling')
    BY <1>1, <1>4, StopIsPlaced
  <2>2. waiting' = waiting /\ link' = link
    BY <1>4 DEF StopOfferService, ApplicationEnds, client
  <2> QED
    BY <2>1, <2>2 DEF OnceInv, P
<1>5. ASSUME NEW r \in Request, RequestArrives(r) PROVE OnceInv'
  <2>1. \A h \in HandledFor(r) : h.request \notin TcpRequest
    BY <1>5, HandledForAsAsked DEF RequestArrives, TcpRequest
  <2>2. waiting' = waiting /\ link' = link /\ handling' = handling \cup HandledFor(r)
    BY <1>5 DEF RequestArrives, client
  <2>3. OncePlaced(waiting, P, handling')
    BY <1>1, <2>1, <2>2 DEF OncePlaced
  <2> QED
    BY <2>2, <2>3 DEF OnceInv, P
<1>6. ASSUME NEW r \in Request, Call(r) PROVE OnceInv'
  <2>1. r \in TcpRequest /\ ~Holds(waiting, r) /\ \A h \in handling : h.request # r
    BY <1>1, <1>6 DEF Call, TcpRequest, Holds, Range
  <2>2. ~Holds(P, r)
    BY <1>1, <1>6, PendingIsOnLink DEF Call, P
  <2>3. OncePlaced(Append(waiting, r), P, handling)
    BY <1>1, <2>1, <2>2, CallIsPlaced
  <2>4. waiting' = Append(waiting, r) /\ link' = link /\ handling' = handling
    BY <1>6 DEF Call, server
  <2> QED
    BY <2>3, <2>4 DEF OnceInv, P
<1>7. ASSUME NEW h \in handling, Respond(h) PROVE OnceInv'
  <2>1. waiting' = waiting /\ handling' \subseteq handling
    BY <1>7 DEF Respond, client
  <2>2. CASE link' = link
    BY <1>2, <2>1, <2>2 DEF P
  <2>3. CASE link' # link
    <3>1. PICK e \in ResponseEndpoints(h) : link' = Written(link, e, h.request)
                                            /\ h.request \in TcpRequest
      BY <1>1, <1>7, <2>3 DEF Respond, TcpRequest, Handler
    <3>2. PendingOf(link') = P
      BY <1>1, <3>1, LinkIsWritten DEF P
    <3> QED
      BY <1>2, <2>1, <3>2
  <2> QED
    BY <2>2, <2>3
<1>8. ASSUME NEW n \in SomeChunk(link.toServer), ServerReads(n) PROVE OnceInv'
  <2> DEFINE read == ProcessData(link.atServer, SubSeq(link.toServer, 1, n))
  <2>1. /\ waiting' = waiting /\ n \in 1..Len(link.toServer)
        /\ link.status = "up" /\ link' = Taking(link, read.processor, n)
        /\ handling' = IF read.message = NoMessage THEN handling
                       ELSE handling \cup HandledFor(read.message)
    BY <1>8 DEF ServerReads, client, Taking, SomeChunk
  <2> HIDE DEF read
  <2>2. \/ read.message = NoMessage /\ PendingOf(link') = P
        \/ /\ P # <<>> /\ read.message = Head(P) /\ read.message # NoMessage
           /\ PendingOf(link') = Tail(P)
    BY <1>1, <2>1, RequestIsRead DEF read, P
  <2>3. CASE read.message = NoMessage /\ PendingOf(link') = P
    BY <1>2, <2>1, <2>3
  <2>4. CASE /\ P # <<>> /\ read.message = Head(P) /\ read.message # NoMessage
             /\ PendingOf(link') = Tail(P)
    <3>1. OncePlaced(waiting, Tail(P), handling \cup HandledFor(Head(P)))
      BY <1>1, <2>4, TakeIsPlaced
    <3> QED
      BY <2>1, <2>4, <3>1 DEF OnceInv
  <2> QED
    BY <2>2, <2>3, <2>4
<1>9. ASSUME Connected(link), NEW n \in SomeChunk(link.toClient), ClientReads(n) PROVE OnceInv'
  <2> DEFINE read == ProcessData(link.atClient, SubSeq(link.toClient, 1, n))
  <2>1. /\ waiting' = waiting /\ handling' = handling /\ n \in 1..Len(link.toClient)
        /\ link' = Getting(link, read.processor, n)
    BY <1>9 DEF ClientReads, server, Getting, SomeChunk
  <2> HIDE DEF read
  <2>2. PendingOf(link') = P
    BY <1>1, <1>9, <2>1, ResponseIsRead DEF read, P
  <2> QED
    BY <1>2, <2>1, <2>2
<1>10. CASE Forward
  <2>1. waiting # <<>> /\ waiting' = Tail(waiting) /\ handling' = handling
    BY <1>10 DEF Forward, server
  <2>2. /\ OncePlaced(Tail(waiting), P, handling)
        /\ OncePlaced(Tail(waiting), Append(P, Head(waiting)), handling)
    BY <1>1, <2>1, ForwardIsPlaced
  <2>3. CASE link.status = "up"
    <3>1. link' = Asking(link, Units(Head(waiting), RequestSize))
      BY <1>10, <2>3 DEF Forward, Asking
    <3>2. Head(waiting) \in TcpRequest
      BY <1>1, <2>1
    <3>3. PendingOf(link') = Append(P, Head(waiting))
      BY <1>1, <2>3, <3>1, <3>2, RequestIsWritten DEF P
    <3> QED
      BY <2>1, <2>2, <3>3 DEF OnceInv
  <2>4. CASE link.status # "up"
    <3>1. link' = link \/ link' = [status |-> "reset"]
      BY <1>10, <2>4 DEF Forward
    <3>2. PendingOf(link') \in {P, <<>>}
      BY <3>1, NothingCarried DEF P
    <3> QED
      BY <2>1, <2>2, <3>2, LossIsPlaced DEF OnceInv
  <2> QED
    BY <2>3, <2>4
<1>11. CASE Connect
  <2>1. PICK e \in EndpointsAt(endpoints, TcpPort, "tcp") :
          link' = [status |-> "up", manager |-> e.manager, atServer |-> Fresh,
                   atClient |-> Fresh, toServer |-> <<>>, toClient |-> <<>>]
    BY <1>11 DEF Connect
  <2>2. PendingOf(link') = <<>>
    BY <2>1, LinkOpens
  <2>3. waiting' = waiting /\ handling' = handling
    BY <1>11 DEF Connect, server
  <2> QED
    BY <1>2, <2>2, <2>3
<1>12. CASE SeeEnd \/ SeeReset \/ Reset
  <2>1. link' = NoLink \/ link' = [status |-> "reset"]
    BY <1>12 DEF SeeEnd, SeeReset, Reset
  <2>2. PendingOf(link') = <<>>
    BY <2>1, NothingCarried
  <2>3. waiting' = waiting /\ handling' = handling
    BY <1>12 DEF SeeEnd, SeeReset, Reset, server, client
  <2> QED
    BY <1>2, <2>2, <2>3
<1>13. CASE ServerEnds
  <2>1. waiting' = waiting /\ handling' = {}
    BY <1>13 DEF ServerEnds, client
  <2>2. CASE link.status = "up"
    <3>1. link' = Ending(link)
      BY <1>13, <2>2 DEF ServerEnds, Ending
    <3>2. PendingOf(link') = <<>>
      BY <1>1, <2>2, <3>1, LinkEnds
    <3> QED
      BY <1>2, <2>1, <3>2
  <2>3. CASE link.status # "up"
    <3>1. link' = link
      BY <1>13, <2>3 DEF ServerEnds
    <3> QED
      BY <1>2, <2>1, <3>1 DEF P
  <2> QED
    BY <2>2, <2>3
<1> QED
  BY <1>3, <1>4, <1>5, <1>6, <1>7, <1>8, <1>9, <1>10, <1>11, <1>12, <1>13 DEF Next

\* The state of RemoteService.
Taken == {r \in Request : \E h \in handling : h.request = r /\ r.protocol = "tcp"}

\* What is on its way, in both directions.
Requests == PendingOf(link)
Answers == AnswersOf(link)

\* The steps of the abstract specification that the steps of the connection are.
LEMMA MapsToBreak ==
  ASSUME Requests' \in {Requests, <<>>}, Answers' \in {Answers, <<>>}, Taken' \subseteq Taken,
         got' = got
  PROVE  Connection!Next
<1>1. Connection!Break
  BY DEF Connection!Break, Requests, Answers, Taken, PendingOf, AnswersOf
<1> QED
  BY <1>1 DEF Connection!Next

LEMMA MapsToAsk ==
  ASSUME NEW r \in TcpRequest, Requests' = Append(Requests, r), Answers' = Answers,
         Taken' = Taken, got' = got
  PROVE  Connection!Next
<1>1. Connection!Ask(r)
  BY DEF Connection!Ask, Requests, Answers, Taken, PendingOf, AnswersOf
<1> QED
  BY <1>1 DEF Connection!Next, TcpRequest

LEMMA MapsToTake ==
  ASSUME Requests # <<>>, Requests' = Tail(Requests), Answers' = Answers,
         Taken' \in {Taken, Taken \cup {Head(Requests)}}, got' = got
  PROVE  Connection!Next
<1>1. Connection!Take
  BY DEF Connection!Take, Requests, Answers, Taken, PendingOf, AnswersOf
<1> QED
  BY <1>1 DEF Connection!Next

LEMMA MapsToAnswer ==
  ASSUME NEW r \in Taken, Taken' = Taken \ {r}, Requests' = Requests,
         Answers' \in {Answers, Append(Answers, r)}, got' = got
  PROVE  Connection!Next
<1>1. Connection!Answer(r)
  BY DEF Connection!Answer, Requests, Answers, Taken, PendingOf, AnswersOf
<1>2. r \in {q \in Request : q.protocol = "tcp"}
  BY DEF Taken
<1> QED
  BY <1>1, <1>2 DEF Connection!Next

LEMMA MapsToReceive ==
  ASSUME Answers # <<>>, Answers' = Tail(Answers), got' = Append(got, Head(Answers)),
         Requests' = Requests, Taken' = Taken
  PROVE  Connection!Next
<1>1. Connection!Receive
  BY DEF Connection!Receive, Requests, Answers, Taken, PendingOf, AnswersOf
<1> QED
  BY <1>1 DEF Connection!Next

\* A response in the daemon gives the answer to its request, if that came over TCP.
LEMMA RespondMaps ==
  ASSUME TypeInv, OnceInv, NEW h \in handling, Respond(h)
  PROVE  Connection!Next
<1>1. /\ handling' = handling \ {h} /\ got' = got
      /\ h.request \in Request /\ LinkInv(link)
  BY DEF Respond, client, TypeInv, ServerType, LinkType, Handler
<1>2. CASE h.request.protocol = "tcp"
  <2> DEFINE r == h.request
  <2>1. r \in TcpRequest /\ r \in Taken
    BY <1>1, <1>2 DEF TcpRequest, Taken
  <2>2. \A g \in handling : g.request = r => g = h
    BY <2>1 DEF OnceInv, OncePlaced
  <2>3. Taken' = Taken \ {r}
    BY <1>1, <2>2 DEF Taken
  <2>4. CASE link' = link
    BY <1>1, <2>1, <2>3, <2>4, MapsToAnswer DEF Requests, Answers
  <2>5. CASE link' # link
    <3>1. PICK e \in ResponseEndpoints(h) : link' = Written(link, e, r)
      BY <2>5 DEF Respond
    <3>2. PendingOf(link') = PendingOf(link)
          /\ (AnswersOf(link') = AnswersOf(link) \/ AnswersOf(link') = Append(AnswersOf(link), r))
      BY <1>1, <2>1, <3>1, LinkIsWritten
    <3> QED
      BY <1>1, <2>1, <2>3, <3>2, MapsToAnswer DEF Requests, Answers
  <2> QED
    BY <2>4, <2>5
<1>3. CASE h.request.protocol # "tcp"
  <2>1. link' = link
    BY <1>3 DEF Respond
  <2>2. Taken' \subseteq Taken
    BY <1>1 DEF Taken
  <2> QED
    BY <1>1, <2>1, <2>2, MapsToBreak DEF Requests, Answers
<1> QED
  BY <1>2, <1>3

\* Reading at the server takes up the first request, or nothing happens.
LEMMA ServerReadsMaps ==
  ASSUME TypeInv, NEW n \in SomeChunk(link.toServer), ServerReads(n)
  PROVE  Connection!Next
<1> DEFINE read == ProcessData(link.atServer, SubSeq(link.toServer, 1, n))
<1>1. /\ got' = got /\ n \in 1..Len(link.toServer) /\ LinkInv(link)
      /\ link.status = "up" /\ link' = Taking(link, read.processor, n)
      /\ handling' = IF read.message = NoMessage THEN handling
                     ELSE handling \cup HandledFor(read.message)
  BY DEF ServerReads, client, Taking, SomeChunk, TypeInv, LinkType
<1> HIDE DEF read
<1>2. /\ Answers' = Answers
      /\ \/ read.message = NoMessage /\ Requests' = Requests
         \/ /\ Requests # <<>> /\ read.message = Head(Requests) /\ read.message # NoMessage
            /\ Requests' = Tail(Requests)
  BY <1>1, RequestIsRead DEF read, Requests, Answers
<1>3. CASE read.message = NoMessage /\ Requests' = Requests
  <2>1. Taken' = Taken
    BY <1>1, <1>3 DEF Taken
  <2> QED
    BY <1>1, <1>2, <1>3, <2>1, MapsToBreak
<1>4. CASE /\ Requests # <<>> /\ read.message = Head(Requests) /\ read.message # NoMessage
           /\ Requests' = Tail(Requests)
  <2> DEFINE r == Head(Requests)
  <2>1. r \in TcpRequest
    BY <1>1, <1>4, FirstIsTcp DEF Requests
  <2>2. handling' = handling \cup HandledFor(r)
    BY <1>1, <1>4
  <2> HIDE DEF r
  <2>3. Taken' \in {Taken, Taken \cup {r}}
    <3>1. CASE HandledFor(r) = {}
      <4>1. handling' = handling
        BY <2>2, <3>1
      <4> QED
        BY <4>1 DEF Taken
    <3>2. CASE HandledFor(r) # {}
      <4>1. \A h \in HandledFor(r) : h.request = r
        BY HandledForAsAsked
      <4>2. Taken' = Taken \cup {r}
        BY <2>1, <2>2, <3>2, <4>1 DEF Taken, TcpRequest
      <4> QED
        BY <4>2
    <3> QED
      BY <3>1, <3>2
  <2> QED
    BY <1>1, <1>2, <1>4, <2>3, MapsToTake DEF r
<1> QED
  BY <1>2, <1>3, <1>4

\* Reading at the client gives out the first answer, or nothing happens.
LEMMA ClientReadsMaps ==
  ASSUME TypeInv, Connected(link), NEW n \in SomeChunk(link.toClient), ClientReads(n)
  PROVE  Connection!Next
<1> DEFINE read == ProcessData(link.atClient, SubSeq(link.toClient, 1, n))
<1>1. /\ handling' = handling /\ n \in 1..Len(link.toClient) /\ LinkInv(link)
      /\ link' = Getting(link, read.processor, n)
      /\ got' = IF read.message = NoMessage THEN got ELSE Append(got, read.message)
  BY DEF ClientReads, server, Getting, SomeChunk, TypeInv, LinkType
<1> HIDE DEF read
<1>2. /\ Requests' = Requests
      /\ \/ read.message = NoMessage /\ Answers' = Answers
         \/ /\ Answers # <<>> /\ read.message = Head(Answers) /\ read.message # NoMessage
            /\ Answers' = Tail(Answers)
  BY <1>1, ResponseIsRead DEF read, Requests, Answers
<1>3. Taken' = Taken
  BY <1>1 DEF Taken
<1>4. CASE read.message = NoMessage /\ Answers' = Answers
  BY <1>1, <1>2, <1>3, <1>4, MapsToBreak
<1>5. CASE /\ Answers # <<>> /\ read.message = Head(Answers) /\ read.message # NoMessage
           /\ Answers' = Tail(Answers)
  <2>1. got' = Append(got, Head(Answers))
    BY <1>1, <1>5
  <2> QED
    BY <1>2, <1>3, <1>5, <2>1, MapsToReceive
<1> QED
  BY <1>2, <1>4, <1>5

\* What is forwarded is asked, unless the server has left the connection.
LEMMA ForwardMaps ==
  ASSUME TypeInv, Forward
  PROVE  Connection!Next
<1>1. /\ waiting \in Seq(TcpRequest) /\ waiting # <<>> /\ LinkInv(link)
      /\ got' = got /\ handling' = handling
  BY DEF Forward, server, TypeInv, ClientType, LinkType
<1>2. Taken' = Taken /\ Head(waiting) \in TcpRequest
  BY <1>1 DEF Taken
<1>3. CASE link.status = "up"
  <2>1. link' = Asking(link, Units(Head(waiting), RequestSize))
    BY <1>3 DEF Forward, Asking
  <2>2. Requests' = Append(Requests, Head(waiting)) /\ Answers' = Answers
    BY <1>1, <1>2, <1>3, <2>1, RequestIsWritten DEF Requests, Answers
  <2> QED
    BY <1>1, <1>2, <2>2, MapsToAsk
<1>4. CASE link.status # "up"
  <2>1. link' = link \/ link' = [status |-> "reset"]
    BY <1>4 DEF Forward
  <2>2. Requests' \in {Requests, <<>>} /\ Answers' \in {Answers, <<>>}
    BY <2>1, NothingCarried DEF Requests, Answers
  <2> QED
    BY <1>1, <1>2, <2>2, MapsToBreak
<1> QED
  BY <1>3, <1>4

\* Every step of Serving is a step of RemoteService: the others break nothing or
\* everything.
LEMMA StepMaps ==
  ASSUME TypeInv, OnceInv, [Next]_vars
  PROVE  Connection!Next
<1>1. LinkInv(link)
  BY DEF TypeInv, LinkType
<1>2. ASSUME handling' \subseteq handling, got' = got,
             \/ link' = link
             \/ PendingOf(link') = <<>> /\ AnswersOf(link') \in {AnswersOf(link), <<>>}
      PROVE  Connection!Next
  <2>1. Taken' \subseteq Taken
    BY <1>2 DEF Taken
  <2>2. Requests' \in {Requests, <<>>} /\ Answers' \in {Answers, <<>>}
    BY <1>2 DEF Requests, Answers
  <2> QED
    BY <1>2, <2>1, <2>2, MapsToBreak
<1>3. CASE \/ \E s \in Service : OfferService(s)
           \/ \E r \in Request : Call(r)
           \/ UNCHANGED vars
  BY <1>2, <1>3 DEF OfferService, Call, vars, server, client
<1>4. CASE \/ \E s \in Service : StopOfferService(s)
           \/ \E a \in Application : ApplicationEnds(a)
  <2>1. link' = link /\ got' = got
    BY <1>4 DEF StopOfferService, ApplicationEnds, client
  <2>2. \A g \in handling' : \E h \in handling : g.request = h.request
    BY <1>4, StopIsPlaced DEF TypeInv, ServerType, OnceInv
  <2>3. Taken' \subseteq Taken
    BY <2>2 DEF Taken
  <2> QED
    BY <2>1, <2>3, MapsToBreak DEF Requests, Answers
<1>5. ASSUME NEW r \in Request, RequestArrives(r) PROVE Connection!Next
  <2>1. \A h \in HandledFor(r) : h.request.protocol # "tcp"
    BY <1>5, HandledForAsAsked DEF RequestArrives
  <2>2. handling' = handling \cup HandledFor(r) /\ link' = link /\ got' = got
    BY <1>5 DEF RequestArrives, client
  <2>3. Taken' \subseteq Taken
    BY <2>1, <2>2 DEF Taken
  <2> QED
    BY <2>2, <2>3, MapsToBreak DEF Requests, Answers
<1>6. CASE Connect
  <2>1. PICK e \in EndpointsAt(endpoints, TcpPort, "tcp") :
          link' = [status |-> "up", manager |-> e.manager, atServer |-> Fresh,
                   atClient |-> Fresh, toServer |-> <<>>, toClient |-> <<>>]
    BY <1>6 DEF Connect
  <2>2. PendingOf(link') = <<>> /\ AnswersOf(link') = <<>>
    BY <2>1, LinkOpens
  <2> QED
    BY <1>2, <1>6, <2>2 DEF Connect, server
<1>7. CASE SeeEnd \/ SeeReset \/ Reset
  <2>1. link' = NoLink \/ link' = [status |-> "reset"]
    BY <1>7 DEF SeeEnd, SeeReset, Reset
  <2>2. PendingOf(link') = <<>> /\ AnswersOf(link') = <<>>
    BY <2>1, NothingCarried
  <2> QED
    BY <1>2, <1>7, <2>2 DEF SeeEnd, SeeReset, Reset, server, client
<1>8. CASE ServerEnds
  <2>1. CASE link.status = "up"
    <3>1. link' = Ending(link)
      BY <1>8, <2>1 DEF ServerEnds, Ending
    <3>2. PendingOf(link') = <<>> /\ AnswersOf(link') = AnswersOf(link)
      BY <1>1, <2>1, <3>1, LinkEnds
    <3> QED
      BY <1>2, <1>8, <3>2 DEF ServerEnds, client
  <2>2. CASE link.status # "up"
    BY <1>2, <1>8, <2>2 DEF ServerEnds, client
  <2> QED
    BY <2>1, <2>2
<1> QED
  BY <1>3, <1>4, <1>5, <1>6, <1>7, <1>8, RespondMaps, ServerReadsMaps, ClientReadsMaps,
     ForwardMaps DEF Next

\* The connection that a caller has to a service of another ECU keeps the promise
\* of RemoteService, for every size of the messages, every cut of the streams into
\* chunks and any number of requests on their way: SomeipDataProcessor on both
\* sides, data_received, _connect_and_receive and sendto lose, repeat and exchange
\* nothing that a break of the connection does not lose.
THEOREM ConnectionIsARemoteService ==
  ASSUME OneInstance
  PROVE  Spec => ImplementsRemoteService
<1>1. Init => Connection!Init /\ OnceInv
  <2> SUFFICES ASSUME Init PROVE Connection!Init /\ OnceInv
    OBVIOUS
  <2>1. link = NoLink /\ handling = {} /\ got = <<>> /\ waiting = <<>>
    BY DEF Init
  <2>2. PendingOf(link) = <<>> /\ AnswersOf(link) = <<>>
    BY <2>1, NothingCarried
  <2>3. Connection!Init
    BY <2>1, <2>2 DEF Connection!Init, PendingOf, AnswersOf
  <2>4. OnceInv
    BY <2>1, <2>2, EmptyHolds DEF OnceInv, OncePlaced
  <2> QED
    BY <2>3, <2>4
<1>2. TypeInv /\ OnceInv /\ [Next]_vars => OnceInv' /\ [Connection!Next]_(Connection!vars)
  BY OnceStep, StepMaps
<1>3. Init => TypeInv
  BY TypeInit
<1>4. TypeInv /\ [Next]_vars => TypeInv'
  BY TypeStep
<1> QED
  BY <1>1, <1>2, <1>3, <1>4, PTL DEF Spec, ImplementsRemoteService, Connection!Spec
=============================================================================
