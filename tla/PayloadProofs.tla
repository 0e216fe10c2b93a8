---------------------------- MODULE PayloadProofs ----------------------------
(***************************************************************************)
(* Payloads of any structure: loops over sequences, numbers and their      *)
(* bytes, texts and theirs, then objects by how deep they are nested.      *)
(***************************************************************************)
EXTENDS Payload, SequenceTheorems, WellFoundedInduction, TLAPS

-----------------------------------------------------------------------------
(* Loops: what is true at first, and after a step if before it, is true.   *)

\* Induction up to N: what holds of 0, and of n + 1 if of n, holds of all.
LEMMA UpTo ==
  ASSUME NEW N \in Nat, NEW S, 0 \in S, \A n \in 0..(N - 1) : n \in S => n + 1 \in S
  PROVE  \A n \in 0..N : n \in S
<1> SUFFICES ASSUME NEW n \in 0..N, n \notin S PROVE FALSE
  OBVIOUS
<1> DEFINE T == {k \in 0..N : k \notin S}
<1>1. T \subseteq Nat /\ T # {}
  OBVIOUS
<1>2. PICK k \in T : \A j \in T : ~(<<j, k>> \in OpToRel(<, Nat))
  <2> HIDE DEF T
  <2> QED
    BY <1>1, NatLessThanWellFounded, WFMin
<1>3. \A j \in T : ~(j < k)
  <2> HIDE DEF T
  <2>1. \A j \in Nat : j < k => <<j, k>> \in OpToRel(<, Nat)
    BY <1>1 DEF OpToRel
  <2> QED
    BY <1>1, <1>2, <2>1
<1>4. k # 0 /\ k - 1 \in 0..(N - 1) /\ k - 1 \notin T
  BY <1>3
<1>5. k - 1 \in S
  BY <1>4
<1> QED
  BY <1>4, <1>5

\* f has the results of a loop over 1..N, whose step is the function G.
IsLoop(f, X, x, N, G) ==
  /\ f \in [0..N -> X]
  /\ f[0] = x
  /\ \A n \in 1..N : f[n] = G[n][f[n - 1]]

\* A loop has a result after each step.
LEMMA Iterates ==
  ASSUME NEW X, NEW x \in X, NEW N \in Nat, NEW G \in [1..N -> [X -> X]]
  PROVE  \E f : IsLoop(f, X, x, N, G)
<1> DEFINE Runs(f, m) == f[0] = x /\ \A n \in 1..m : f[n] = G[n][f[n - 1]]
           S == {m \in 0..N : \E f \in [0..m -> X] : Runs(f, m)}
<1>1. 0 \in S
  <2> DEFINE f == [k \in 0..0 |-> x]
  <2>1. f \in [0..0 -> X] /\ Runs(f, 0)
    OBVIOUS
  <2> HIDE DEF f, Runs
  <2>2. 0 \in 0..N
    OBVIOUS
  <2> QED
    BY <2>1, <2>2, Zenon
<1>2. ASSUME NEW m \in 0..(N - 1), m \in S PROVE m + 1 \in S
  <2>1. PICK f \in [0..m -> X] : Runs(f, m)
    BY <1>2
  <2> HIDE DEF Runs, S
  <2>a. m \in Nat /\ m + 1 \in 1..N /\ m \in 0..m
    OBVIOUS
  <2> DEFINE g == [k \in 0..(m + 1) |-> IF k <= m THEN f[k] ELSE G[m + 1][f[m]]]
  <2>2. f[m] \in X /\ m + 1 \in 1..N
    BY <2>a
  <2>3. G[m + 1][f[m]] \in X
    BY <2>2
  <2>4. g \in [0..(m + 1) -> X]
    BY <2>3
  <2>5. g[0] = x
    BY <2>1 DEF Runs
  <2>6. ASSUME NEW n \in 1..(m + 1) PROVE g[n] = G[n][g[n - 1]]
    <3>1. CASE n \in 1..m
      <4>1. g[n] = f[n] /\ g[n - 1] = f[n - 1]
        BY <3>1
      <4> QED
        BY <2>1, <3>1, <4>1 DEF Runs
    <3>2. CASE n = m + 1
      BY <2>a, <3>2
    <3> QED
      BY <3>1, <3>2
  <2> HIDE DEF g
  <2>7. Runs(g, m + 1)
    BY <2>5, <2>6 DEF Runs
  <2>8. m + 1 \in 0..N
    OBVIOUS
  <2> QED
    BY <2>4, <2>7, <2>8 DEF S
<1> HIDE DEF S
<1>3. \A n \in 0..N : n \in S
  BY <1>1, <1>2, UpTo, Zenon
<1>4. N \in S
  BY <1>3
<1> QED
  BY <1>4 DEF S, Runs, IsLoop

\* What is computed like a loop is of its type.
LEMMA LoopType ==
  ASSUME NEW X, NEW N \in Nat, NEW c, c = [i \in 0..N |-> c[i]], c[0] \in X,
         \A i \in 1..N : c[i - 1] \in X => c[i] \in X
  PROVE  c \in [0..N -> X]
<1> DEFINE S == {i \in 0..N : c[i] \in X}
<1>1. 0 \in S
  OBVIOUS
<1>2. ASSUME NEW i \in 0..(N - 1), i \in S PROVE i + 1 \in S
  <2>1. i + 1 \in 1..N /\ i + 1 \in 0..N /\ (i + 1) - 1 = i
    OBVIOUS
  <2>2. c[(i + 1) - 1] \in X => c[i + 1] \in X
    BY <2>1
  <2> QED
    BY <1>2, <2>1, <2>2
<1>3. \A i \in 0..N : i \in S
  <2> HIDE DEF S
  <2> QED
    BY <1>1, <1>2, UpTo, Zenon
<1> QED
  BY <1>3

\* The sums of the first numbers.
IsSums(f, numbers) ==
  /\ f \in [0..Len(numbers) -> Nat]
  /\ f[0] = 0
  /\ \A i \in 1..Len(numbers) : f[i] = f[i - 1] + numbers[i]

LEMMA SumsExist ==
  ASSUME NEW numbers \in Seq(Nat)
  PROVE  \E f : IsSums(f, numbers) /\ Total(numbers) = f[Len(numbers)]
<1> DEFINE N == Len(numbers)
           X == Nat
           Loop(f) == f = [i \in 0..N |-> IF i = 0 THEN 0 ELSE f[i - 1] + numbers[i]]
           G == [i \in 1..N |-> [v \in X |-> v + numbers[i]]]
           c == CHOOSE f : Loop(f)
<1>0. N \in Nat /\ 0 \in X
  OBVIOUS
<1>1. \A i \in 1..N : \A v \in X : v + numbers[i] \in X
  OBVIOUS
<1>2. G \in [1..N -> [X -> X]] /\ \A i \in 1..N : \A v \in X : G[i][v] = v + numbers[i]
  <2> HIDE DEF X, N
  <2> QED
    BY <1>1
<1>3. \E f : Loop(f)
  <2> HIDE DEF N, X, G
  <2>1. PICK f : IsLoop(f, X, 0, N, G)
    BY <1>0, <1>2, Iterates
  <2>2. ASSUME NEW i \in 0..N PROVE f[i] = IF i = 0 THEN 0 ELSE f[i - 1] + numbers[i]
    <3>1. i # 0 => i \in 1..N /\ i - 1 \in 0..N
      BY <1>0
    <3> QED
      BY <1>2, <2>1, <3>1 DEF IsLoop
  <2>3. f = [i \in 0..N |-> f[i]]
    BY <2>1 DEF IsLoop
  <2> QED
    BY <2>2, <2>3, Zenon
<1>4. Loop(c) /\ Total(numbers) = c[N]
  BY <1>3 DEF Total
<1> HIDE DEF c, N, X
<1>5. c[0] = 0 /\ \A i \in 1..N : c[i] = c[i - 1] + numbers[i]
  <2>1. 0 \in 0..N /\ \A i \in 1..N : i \in 0..N /\ i # 0
    BY <1>0
  <2>2. \A i \in 0..N : c[i] = IF i = 0 THEN 0 ELSE c[i - 1] + numbers[i]
    BY <1>4
  <2> QED
    BY <2>1, <2>2
<1>6. c \in [0..N -> X]
  <2>1. \A i \in 1..N : c[i - 1] \in X => c[i] \in X
    BY <1>1, <1>5
  <2>2. c = [i \in 0..N |-> c[i]] /\ c[0] \in X
    BY <1>0, <1>4, <1>5
  <2> HIDE DEF Loop
  <2> QED
    BY <1>0, <2>1, <2>2, LoopType
<1> QED
  BY <1>4, <1>5, <1>6 DEF IsSums, N, X

\* What the first sequences are joined to.
IsJoints(f, seqs, S) ==
  /\ f \in [0..Len(seqs) -> Seq(S)]
  /\ f[0] = <<>>
  /\ \A i \in 1..Len(seqs) : f[i] = f[i - 1] \o seqs[i]

LEMMA JointsExist ==
  ASSUME NEW S, NEW seqs \in Seq(Seq(S))
  PROVE  \E f : IsJoints(f, seqs, S) /\ Joined(seqs) = f[Len(seqs)]
<1> DEFINE N == Len(seqs)
           X == Seq(S)
           Loop(f) == f = [i \in 0..N |-> IF i = 0 THEN <<>> ELSE f[i - 1] \o seqs[i]]
           G == [i \in 1..N |-> [v \in X |-> v \o seqs[i]]]
           c == CHOOSE f : Loop(f)
<1>0. N \in Nat /\ <<>> \in X
  OBVIOUS
<1>1. \A i \in 1..N : \A v \in X : v \o seqs[i] \in X
  OBVIOUS
<1>2. G \in [1..N -> [X -> X]] /\ \A i \in 1..N : \A v \in X : G[i][v] = v \o seqs[i]
  <2> HIDE DEF X, N
  <2> QED
    BY <1>1
<1>3. \E f : Loop(f)
  <2> HIDE DEF N, X, G
  <2>1. PICK f : IsLoop(f, X, <<>>, N, G)
    BY <1>0, <1>2, Iterates
  <2>2. ASSUME NEW i \in 0..N PROVE f[i] = IF i = 0 THEN <<>> ELSE f[i - 1] \o seqs[i]
    <3>1. i # 0 => i \in 1..N /\ i - 1 \in 0..N
      BY <1>0
    <3> QED
      BY <1>2, <2>1, <3>1 DEF IsLoop
  <2>3. f = [i \in 0..N |-> f[i]]
    BY <2>1 DEF IsLoop
  <2> QED
    BY <2>2, <2>3, Zenon
<1>4. Loop(c) /\ Joined(seqs) = c[N]
  BY <1>3 DEF Joined
<1> HIDE DEF c, N, X
<1>5. c[0] = <<>> /\ \A i \in 1..N : c[i] = c[i - 1] \o seqs[i]
  <2>1. 0 \in 0..N /\ \A i \in 1..N : i \in 0..N /\ i # 0
    BY <1>0
  <2>2. \A i \in 0..N : c[i] = IF i = 0 THEN <<>> ELSE c[i - 1] \o seqs[i]
    BY <1>4
  <2> QED
    BY <2>1, <2>2
<1>6. c \in [0..N -> X]
  <2>1. \A i \in 1..N : c[i - 1] \in X => c[i] \in X
    BY <1>1, <1>5
  <2>2. c = [i \in 0..N |-> c[i]] /\ c[0] \in X
    BY <1>0, <1>4, <1>5
  <2> HIDE DEF Loop
  <2> QED
    BY <1>0, <2>1, <2>2, LoopType
<1> QED
  BY <1>4, <1>5, <1>6 DEF IsJoints, N, X

\* The number shifted by some bytes.
IsQuotients(f, n, k) ==
  /\ f \in [0..k -> Int]
  /\ f[0] = n
  /\ \A i \in 1..k : f[i] = f[i - 1] \div 256

LEMMA QuotientsExist ==
  ASSUME NEW n \in Int, NEW k \in Nat
  PROVE  \E f : IsQuotients(f, n, k) /\ Shifted(n, k) = f[k]
<1> DEFINE N == k
           X == Int
           Loop(f) == f = [i \in 0..N |-> IF i = 0 THEN n ELSE f[i - 1] \div 256]
           G == [i \in 1..N |-> [v \in X |-> v \div 256]]
           c == CHOOSE f : Loop(f)
<1>0. N \in Nat /\ n \in X
  OBVIOUS
<1>1. \A i \in 1..N : \A v \in X : v \div 256 \in X
  OBVIOUS
<1>2. G \in [1..N -> [X -> X]] /\ \A i \in 1..N : \A v \in X : G[i][v] = v \div 256
  <2> HIDE DEF X, N
  <2> QED
    BY <1>1
<1>3. \E f : Loop(f)
  <2> HIDE DEF N, X, G
  <2>1. PICK f : IsLoop(f, X, n, N, G)
    BY <1>0, <1>2, Iterates
  <2>2. ASSUME NEW i \in 0..N PROVE f[i] = IF i = 0 THEN n ELSE f[i - 1] \div 256
    <3>1. i # 0 => i \in 1..N /\ i - 1 \in 0..N
      BY <1>0
    <3> QED
      BY <1>2, <2>1, <3>1 DEF IsLoop
  <2>3. f = [i \in 0..N |-> f[i]]
    BY <2>1 DEF IsLoop
  <2> QED
    BY <2>2, <2>3, Zenon
<1>4. Loop(c) /\ Shifted(n, k) = c[N]
  BY <1>3 DEF Shifted
<1> HIDE DEF c, N, X
<1>5. c[0] = n /\ \A i \in 1..N : c[i] = c[i - 1] \div 256
  <2>1. 0 \in 0..N /\ \A i \in 1..N : i \in 0..N /\ i # 0
    BY <1>0
  <2>2. \A i \in 0..N : c[i] = IF i = 0 THEN n ELSE c[i - 1] \div 256
    BY <1>4
  <2> QED
    BY <2>1, <2>2
<1>6. c \in [0..N -> X]
  <2>1. \A i \in 1..N : c[i - 1] \in X => c[i] \in X
    BY <1>1, <1>5
  <2>2. c = [i \in 0..N |-> c[i]] /\ c[0] \in X
    BY <1>0, <1>4, <1>5
  <2> HIDE DEF Loop
  <2> QED
    BY <1>0, <2>1, <2>2, LoopType
<1> QED
  BY <1>4, <1>5, <1>6 DEF IsQuotients, N, X

LEMMA ByteIsNumber == \A b \in Byte : b \in 0..255 /\ b \in Int /\ 0 <= b /\ b < 256
BY DEF Byte

\* The number with the first bytes.
IsNumbers(f, start, bytes) ==
  /\ f \in [0..Len(bytes) -> Int]
  /\ f[0] = start
  /\ \A i \in 1..Len(bytes) : f[i] = 256 * f[i - 1] + bytes[i]

LEMMA NumbersExist ==
  ASSUME NEW start \in Int, NEW bytes \in Seq(Byte)
  PROVE  \E f : IsNumbers(f, start, bytes) /\ UnpackAfter(start, bytes) = f[Len(bytes)]
<1> DEFINE N == Len(bytes)
           X == Int
           Loop(f) == f = [i \in 0..N |-> IF i = 0 THEN start ELSE 256 * f[i - 1] + bytes[i]]
           G == [i \in 1..N |-> [v \in X |-> 256 * v + bytes[i]]]
           c == CHOOSE f : Loop(f)
<1>0. N \in Nat /\ start \in X
  OBVIOUS
<1>1. \A i \in 1..N : \A v \in X : 256 * v + bytes[i] \in X
  <2>1. ASSUME NEW i \in 1..Len(bytes), NEW v \in Int PROVE 256 * v + bytes[i] \in Int
    <3>1. bytes[i] \in Byte
      OBVIOUS
    <3>2. bytes[i] \in Int
      BY <3>1, ByteIsNumber
    <3> QED
      BY <3>2
  <2> QED
    BY <2>1
<1>2. G \in [1..N -> [X -> X]] /\ \A i \in 1..N : \A v \in X : G[i][v] = 256 * v + bytes[i]
  <2> HIDE DEF X, N
  <2> QED
    BY <1>1
<1>3. \E f : Loop(f)
  <2> HIDE DEF N, X, G
  <2>1. PICK f : IsLoop(f, X, start, N, G)
    BY <1>0, <1>2, Iterates
  <2>2. ASSUME NEW i \in 0..N PROVE f[i] = IF i = 0 THEN start ELSE 256 * f[i - 1] + bytes[i]
    <3>1. i # 0 => i \in 1..N /\ i - 1 \in 0..N
      BY <1>0
    <3> QED
      BY <1>2, <2>1, <3>1 DEF IsLoop
  <2>3. f = [i \in 0..N |-> f[i]]
    BY <2>1 DEF IsLoop
  <2> QED
    <3> DEFINE base == 256
    <3>1. \A i \in 0..N : f[i] = IF i = 0 THEN start ELSE base * f[i - 1] + bytes[i]
      BY <2>2
    <3> HIDE DEF base
    <3>2. f = [i \in 0..N |-> IF i = 0 THEN start ELSE base * f[i - 1] + bytes[i]]
      BY <2>3, <3>1, Zenon
    <3>3. Loop(f)
      BY <3>2 DEF base
    <3> QED
      BY <3>3
<1>4. Loop(c) /\ UnpackAfter(start, bytes) = c[N]
  BY <1>3 DEF UnpackAfter
<1> HIDE DEF c, N, X
<1>5. c[0] = start /\ \A i \in 1..N : c[i] = 256 * c[i - 1] + bytes[i]
  <2>1. 0 \in 0..N /\ \A i \in 1..N : i \in 0..N /\ i # 0
    BY <1>0
  <2>2. \A i \in 0..N : c[i] = IF i = 0 THEN start ELSE 256 * c[i - 1] + bytes[i]
    BY <1>4
  <2> QED
    BY <2>1, <2>2
<1>6. c \in [0..N -> X]
  <2>1. \A i \in 1..N : c[i - 1] \in X => c[i] \in X
    BY <1>1, <1>5
  <2>2. c = [i \in 0..N |-> c[i]] /\ c[0] \in X
    BY <1>0, <1>4, <1>5
  <2> HIDE DEF Loop
  <2> QED
    BY <1>0, <2>1, <2>2, LoopType
<1> QED
  BY <1>4, <1>5, <1>6 DEF IsNumbers, N, X

\* A slice has bytes, and no more of them than were asked for.
LEMMA SliceType ==
  ASSUME NEW S, NEW bytes \in Seq(S), NEW from \in Nat, NEW to \in Nat
  PROVE  Slice(bytes, from, to) \in Seq(S) /\ From(bytes, from) \in Seq(S)
<1>1. ASSUME NEW n \in Nat, n <= Len(bytes) PROVE SubSeq(bytes, from + 1, n) \in Seq(S)
  <2>1. \A i \in (from + 1)..n : bytes[i] \in S
    BY <1>1
  <2> QED
    BY <2>1, SubSeqProperties
<1>2. (IF to < Len(bytes) THEN to ELSE Len(bytes)) \in Nat
  OBVIOUS
<1>3. (IF to < Len(bytes) THEN to ELSE Len(bytes)) <= Len(bytes)
  OBVIOUS
<1>4. Slice(bytes, from, to) \in Seq(S)
  BY <1>1, <1>2, <1>3 DEF Slice
<1>5. (IF Len(bytes) < Len(bytes) THEN Len(bytes) ELSE Len(bytes)) = Len(bytes)
  OBVIOUS
<1> QED
  BY <1>1, <1>4, <1>5 DEF From, Slice

LEMMA ReadByteType ==
  ASSUME NEW state \in [text : Seq(Char), partial : Seq(Byte)], NEW byte \in Byte, NEW encoding
  PROVE  ReadByte(state, byte, encoding) \in [text : Seq(Char), partial : Seq(Byte)]
<1> DEFINE partial == Append(state.partial, byte)
           chars == {c \in Char : EncodeChar(c, encoding) = partial}
<1>1. partial \in Seq(Byte) /\ state.text \in Seq(Char)
  OBVIOUS
<1>2. CASE chars = {}
  BY <1>1, <1>2 DEF ReadByte
<1>3. CASE chars # {}
  <2>1. (CHOOSE c \in chars : TRUE) \in Char
    BY <1>3
  <2>2. Append(state.text, CHOOSE c \in chars : TRUE) \in Seq(Char) /\ <<>> \in Seq(Byte)
    BY <1>1, <2>1
  <2>3. ReadByte(state, byte, encoding)
          = [text |-> Append(state.text, CHOOSE c \in chars : TRUE), partial |-> <<>>]
    BY <1>3 DEF ReadByte
  <2> QED
    BY <2>2, <2>3
<1> QED
  BY <1>2, <1>3

\* The beginnings of a text while its bytes are read.
IsDecoding(f, bytes, encoding) ==
  /\ f \in [0..Len(bytes) -> [text : Seq(Char), partial : Seq(Byte)]]
  /\ f[0] = [text |-> <<>>, partial |-> <<>>]
  /\ \A i \in 1..Len(bytes) : f[i] = ReadByte(f[i - 1], bytes[i], encoding)

LEMMA DecodingExist ==
  ASSUME NEW bytes \in Seq(Byte), NEW encoding
  PROVE  \E f : IsDecoding(f, bytes, encoding) /\ Decode(bytes, encoding) = f[Len(bytes)]
<1> DEFINE N == Len(bytes)
           X == [text : Seq(Char), partial : Seq(Byte)]
           Loop(f) == f = [i \in 0..N |->
                             IF i = 0 THEN [text |-> <<>>, partial |-> <<>>]
                             ELSE ReadByte(f[i - 1], bytes[i], encoding)]
           G == [i \in 1..N |-> [v \in X |-> ReadByte(v, bytes[i], encoding)]]
           c == CHOOSE f : Loop(f)
<1>0. N \in Nat /\ [text |-> <<>>, partial |-> <<>>] \in X
  OBVIOUS
<1>1. \A i \in 1..N : \A v \in X : ReadByte(v, bytes[i], encoding) \in X
  <2>1. ASSUME NEW i \in 1..N, NEW v \in X PROVE ReadByte(v, bytes[i], encoding) \in X
    BY ReadByteType
  <2> QED
    BY <2>1
<1>2. /\ G \in [1..N -> [X -> X]]
      /\ \A i \in 1..N : \A v \in X : G[i][v] = ReadByte(v, bytes[i], encoding)
  <2> HIDE DEF X, N
  <2> QED
    BY <1>1
<1>3. \E f : Loop(f)
  <2> HIDE DEF N, X, G
  <2>1. PICK f : IsLoop(f, X, [text |-> <<>>, partial |-> <<>>], N, G)
    BY <1>0, <1>2, Iterates
  <2>2. ASSUME NEW i \in 0..N
        PROVE  f[i] = IF i = 0 THEN [text |-> <<>>, partial |-> <<>>]
                      ELSE ReadByte(f[i - 1], bytes[i], encoding)
    <3>1. i # 0 => i \in 1..N /\ i - 1 \in 0..N
      BY <1>0
    <3> QED
      BY <1>2, <2>1, <3>1 DEF IsLoop
  <2>3. f = [i \in 0..N |-> f[i]]
    BY <2>1 DEF IsLoop
  <2> QED
    BY <2>2, <2>3, Zenon
<1>4. Loop(c) /\ Decode(bytes, encoding) = c[N]
  BY <1>3 DEF Decode
<1> HIDE DEF c, N, X
<1>5. /\ c[0] = [text |-> <<>>, partial |-> <<>>]
      /\ \A i \in 1..N : c[i] = ReadByte(c[i - 1], bytes[i], encoding)
  <2>1. 0 \in 0..N /\ \A i \in 1..N : i \in 0..N /\ i # 0
    BY <1>0
  <2>2. \A i \in 0..N : c[i] = IF i = 0 THEN [text |-> <<>>, partial |-> <<>>]
                               ELSE ReadByte(c[i - 1], bytes[i], encoding)
    BY <1>4
  <2> QED
    BY <2>1, <2>2
<1>6. c \in [0..N -> X]
  <2>1. \A i \in 1..N : c[i - 1] \in X => c[i] \in X
    BY <1>1, <1>5
  <2>2. c = [i \in 0..N |-> c[i]] /\ c[0] \in X
    BY <1>0, <1>4, <1>5
  <2> HIDE DEF Loop
  <2> QED
    BY <1>0, <2>1, <2>2, LoopType
<1> QED
  BY <1>4, <1>5, <1>6 DEF IsDecoding, N, X

-----------------------------------------------------------------------------
(* Numbers and their bytes.                                                *)

LEMMA ShiftedOnce ==
  ASSUME NEW n \in Int, NEW k \in Nat
  PROVE  /\ Shifted(n, 0) = n
         /\ Shifted(n, k) \in Int
         /\ Shifted(n, k + 1) = Shifted(n, k) \div 256
<1>1. PICK z : IsQuotients(z, n, 0) /\ Shifted(n, 0) = z[0]
  BY QuotientsExist
<1>2. PICK f : IsQuotients(f, n, k) /\ Shifted(n, k) = f[k]
  BY QuotientsExist
<1>3. PICK g : IsQuotients(g, n, k + 1) /\ Shifted(n, k + 1) = g[k + 1]
  BY QuotientsExist
<1> DEFINE S == {i \in 0..k : f[i] = g[i]}
<1>4. 0 \in S
  BY <1>2, <1>3 DEF IsQuotients
<1>5. ASSUME NEW i \in 0..(k - 1), i \in S PROVE i + 1 \in S
  <2>1. i + 1 \in 1..k /\ i + 1 \in 1..(k + 1) /\ (i + 1) - 1 = i
    OBVIOUS
  <2>2. f[i + 1] = f[i] \div 256 /\ g[i + 1] = g[i] \div 256
    BY <1>2, <1>3, <2>1 DEF IsQuotients
  <2> QED
    BY <1>5, <2>1, <2>2
<1>6. \A i \in 0..k : i \in S
  <2> HIDE DEF S
  <2> QED
    BY <1>4, <1>5, UpTo, Zenon
<1>7. f[k] = g[k]
  BY <1>6
<1>8. k + 1 \in 1..(k + 1) /\ (k + 1) - 1 = k
  OBVIOUS
<1>9. g[k + 1] = g[k] \div 256
  BY <1>3, <1>8 DEF IsQuotients
<1> QED
  BY <1>1, <1>2, <1>3, <1>7, <1>9 DEF IsQuotients

LEMMA BigEndianType ==
  ASSUME NEW n \in Int, NEW width \in Nat
  PROVE  /\ BigEndian(n, width) \in Seq(Byte) /\ Len(BigEndian(n, width)) = width
         /\ \A i \in 1..width : BigEndian(n, width)[i] = Shifted(n, width - i) % 256
<1>1. ASSUME NEW i \in 1..width PROVE Shifted(n, width - i) % 256 \in Byte
  <2>1. Shifted(n, width - i) \in Int
    BY ShiftedOnce
  <2> QED
    BY <2>1 DEF Byte
<1> QED
  BY <1>1 DEF BigEndian

\* A number is read as it was written, if its sign is known.
LEMMA ReadWhatWasWritten ==
  ASSUME NEW n \in Int, NEW width \in Nat
  PROVE  UnpackAfter(Shifted(n, width), BigEndian(n, width)) = n
<1> DEFINE b == BigEndian(n, width)
           start == Shifted(n, width)
<1>1. b \in Seq(Byte) /\ Len(b) = width /\ \A i \in 1..width : b[i] = Shifted(n, width - i) % 256
  BY BigEndianType
<1>2. start \in Int
  BY ShiftedOnce
<1> HIDE DEF b, start
<1>3. PICK f : IsNumbers(f, start, b) /\ UnpackAfter(start, b) = f[Len(b)]
  BY <1>1, <1>2, NumbersExist
<1> DEFINE S == {i \in 0..width : f[i] = Shifted(n, width - i)}
<1>4. 0 \in S
  <2>1. width - 0 = width /\ 0 \in 0..width
    OBVIOUS
  <2> QED
    BY <1>3, <2>1 DEF IsNumbers, start
<1>5. ASSUME NEW i \in 0..(width - 1), i \in S PROVE i + 1 \in S
  <2> DEFINE j == width - (i + 1)
  <2>1. i + 1 \in 1..width /\ (i + 1) - 1 = i /\ j \in Nat /\ j + 1 = width - i
    OBVIOUS
  <2>2. f[i + 1] = 256 * f[i] + b[i + 1]
    BY <1>1, <1>3, <2>1 DEF IsNumbers
  <2>3. b[i + 1] = Shifted(n, j) % 256 /\ f[i] = Shifted(n, j + 1)
    BY <1>1, <1>5, <2>1
  <2>4. Shifted(n, j) \in Int /\ Shifted(n, j + 1) = Shifted(n, j) \div 256
    BY <2>1, ShiftedOnce
  <2>5. f[i + 1] = Shifted(n, j)
    <3> HIDE DEF j
    <3> QED
      BY <2>2, <2>3, <2>4
  <2> QED
    BY <2>1, <2>5
<1>6. \A i \in 0..width : i \in S
  <2> HIDE DEF S
  <2> QED
    BY <1>4, <1>5, UpTo, Zenon
<1>7. f[width] = Shifted(n, width - width) /\ width - width = 0
  BY <1>6
<1>8. f[width] = n
  BY <1>7, ShiftedOnce
<1> QED
  BY <1>1, <1>3, <1>8 DEF start, b

\* Only so much is lost when the bytes are taken off again.
LEMMA StartIsLeft ==
  ASSUME NEW start \in Int, NEW bytes \in Seq(Byte)
  PROVE  /\ UnpackAfter(start, bytes) \in Int
         /\ Shifted(UnpackAfter(start, bytes), Len(bytes)) = start
         /\ Len(bytes) > 0 =>
              Shifted(UnpackAfter(start, bytes), Len(bytes) - 1) = 256 * start + bytes[1]
         /\ start \in Nat => UnpackAfter(start, bytes) \in Nat
<1>1. PICK f : IsNumbers(f, start, bytes) /\ UnpackAfter(start, bytes) = f[Len(bytes)]
  BY NumbersExist
<1> DEFINE N == Len(bytes)
           n == UnpackAfter(start, bytes)
           S == {i \in 0..N : Shifted(n, i) = f[N - i]}
           T == {i \in 0..N : start \in Nat => f[i] \in Nat}
<1>2. N \in Nat /\ n = f[N] /\ n \in Int
  BY <1>1 DEF IsNumbers
<1>3. ASSUME NEW i \in 1..N
      PROVE  f[i] = 256 * f[i - 1] + bytes[i] /\ bytes[i] \in 0..255 /\ f[i - 1] \in Int
  <2>1. f[i] = 256 * f[i - 1] + bytes[i] /\ f[i - 1] \in Int /\ bytes[i] \in Byte
    BY <1>1 DEF IsNumbers
  <2>2. bytes[i] \in 0..255
    <3> DEFINE b == bytes[i]
    <3>1. b \in Byte
      BY <2>1
    <3> HIDE DEF b
    <3>2. b \in 0..255
      BY <3>1, ByteIsNumber
    <3> QED
      BY <3>2 DEF b
  <2> QED
    BY <2>1, <2>2
<1> HIDE DEF n, N
<1>4. 0 \in S
  <2>1. 0 \in 0..N /\ N - 0 = N
    BY <1>2
  <2>2. Shifted(n, 0) = n
    BY <1>2, ShiftedOnce
  <2> QED
    BY <1>2, <2>1, <2>2
<1>5. ASSUME NEW i \in 0..(N - 1), i \in S PROVE i + 1 \in S
  <2> DEFINE j == N - i
  <2>1. j \in 1..N /\ j - 1 = N - (i + 1) /\ i + 1 \in 0..N
    BY <1>2
  <2>2. Shifted(n, i + 1) = f[j] \div 256
    <3>1. i \in Nat
      BY <1>2
    <3>2. Shifted(n, i + 1) = Shifted(n, i) \div 256
      BY <1>2, <3>1, ShiftedOnce
    <3> QED
      BY <1>5, <3>2
  <2>3. f[j] = 256 * f[j - 1] + bytes[j] /\ bytes[j] \in 0..255 /\ f[j - 1] \in Int
    BY <1>3, <2>1
  <2>4. f[j] \div 256 = f[j - 1]
    <3> DEFINE a == f[j - 1]
               b == bytes[j]
    <3>1. a \in Int /\ b \in 0..255 /\ f[j] = 256 * a + b
      BY <2>3
    <3> HIDE DEF a, b, j
    <3>2. (256 * a + b) \div 256 = a
      BY <3>1
    <3> QED
      BY <3>1, <3>2 DEF a
  <2> QED
    BY <2>1, <2>2, <2>4
<1>6. \A i \in 0..N : i \in S
  <2> HIDE DEF S
  <2> QED
    BY <1>2, <1>4, <1>5, UpTo, Zenon
<1>7. Shifted(n, N) = start
  <2>1. N \in 0..N /\ N - N = 0
    BY <1>2
  <2>2. Shifted(n, N) = f[0]
    BY <1>6, <2>1
  <2> QED
    BY <1>1, <2>2 DEF IsNumbers
<1>a. ASSUME N > 0 PROVE Shifted(n, N - 1) = 256 * start + bytes[1]
  <2>1. N - 1 \in 0..N /\ N - (N - 1) = 1 /\ 1 \in 1..N /\ 1 - 1 = 0
    BY <1>2, <1>a
  <2>2. Shifted(n, N - 1) = f[1]
    BY <1>6, <2>1
  <2>3. f[1] = 256 * f[0] + bytes[1]
    BY <1>3, <2>1
  <2> QED
    BY <1>1, <2>2, <2>3 DEF IsNumbers
<1>8. 0 \in T
  BY <1>1, <1>2 DEF IsNumbers
<1>9. ASSUME NEW i \in 0..(N - 1), i \in T PROVE i + 1 \in T
  <2>1. i + 1 \in 1..N /\ (i + 1) - 1 = i /\ i + 1 \in 0..N
    BY <1>2
  <2>2. f[i + 1] = 256 * f[i] + bytes[i + 1] /\ bytes[i + 1] \in 0..255
    BY <1>3, <2>1
  <2> DEFINE a == f[i]
             b == bytes[i + 1]
  <2>3. start \in Nat => a \in Nat
    BY <1>9
  <2>4. f[i + 1] = 256 * a + b /\ b \in 0..255
    BY <2>2
  <2> HIDE DEF a, b
  <2>5. start \in Nat => f[i + 1] \in Nat
    BY <2>3, <2>4
  <2> QED
    BY <2>1, <2>5
<1>10. \A i \in 0..N : i \in T
  <2> HIDE DEF T
  <2> QED
    BY <1>2, <1>8, <1>9, UpTo, Zenon
<1> QED
  BY <1>2, <1>7, <1>a, <1>10 DEF n, N

Result == [ok : BOOLEAN, bytes : Seq(Byte)]

LEMMA ResultTypes ==
  /\ Raised \in Result /\ ~Raised.ok
  /\ \A bytes \in Seq(Byte) : /\ Bytes(bytes) \in Result
                              /\ Bytes(bytes).ok /\ Bytes(bytes).bytes = bytes
BY DEF Result, Raised, Bytes

LEMMA UnsignedRoundTrip ==
  ASSUME NEW n \in Int, NEW width \in Nat
  PROVE  /\ PackUnsigned(n, width) \in Result
         /\ PackUnsigned(n, width).ok =>
              /\ Len(PackUnsigned(n, width).bytes) = width
              /\ UnpackUnsigned(PackUnsigned(n, width).bytes) = n
<1> DEFINE b == BigEndian(n, width)
<1>1. b \in Seq(Byte) /\ Len(b) = width /\ UnpackAfter(Shifted(n, width), b) = n
  BY BigEndianType, ReadWhatWasWritten
<1> HIDE DEF b
<1>2. PackUnsigned(n, width) = IF Shifted(n, width) = 0 THEN Bytes(b) ELSE Raised
  BY DEF PackUnsigned, b
<1> QED
  BY <1>1, <1>2, ResultTypes DEF UnpackUnsigned

LEMMA SignedRoundTrip ==
  ASSUME NEW n \in Int, NEW width \in Nat \ {0}
  PROVE  /\ PackSigned(n, width) \in Result
         /\ PackSigned(n, width).ok =>
              /\ Len(PackSigned(n, width).bytes) = width
              /\ UnpackSigned(PackSigned(n, width).bytes) = n
<1> DEFINE b == BigEndian(n, width)
           h == Shifted(n, width - 1)
<1>1. /\ b \in Seq(Byte) /\ Len(b) = width /\ UnpackAfter(Shifted(n, width), b) = n
      /\ \A i \in 1..width : b[i] = Shifted(n, width - i) % 256
  BY BigEndianType, ReadWhatWasWritten
<1>2. h \in Int /\ Shifted(n, width) = h \div 256 /\ b[1] = h % 256
  <2>1. width - 1 \in Nat /\ (width - 1) + 1 = width /\ 1 \in 1..width
    OBVIOUS
  <2>2. b[1] = h % 256
    BY <1>1, <2>1
  <2> HIDE DEF b
  <2> QED
    BY <2>1, <2>2, ShiftedOnce
<1>3. PackSigned(n, width) = IF h \in -128..127 THEN Bytes(b) ELSE Raised
  BY DEF PackSigned
<1> HIDE DEF b, h
<1>4. h \in -128..127 => Shifted(n, width) = IF b[1] < 128 THEN 0 ELSE -1
  BY <1>2
<1>5. h \in -128..127 => UnpackSigned(b) = n
  BY <1>1, <1>4 DEF UnpackSigned
<1> QED
  BY <1>1, <1>3, <1>5, ResultTypes

\* What was read is in the range of its type.
LEMMA ReadIsInRange ==
  ASSUME NEW bytes \in Seq(Byte)
  PROVE  /\ UnpackUnsigned(bytes) \in Nat
         /\ PackUnsigned(UnpackUnsigned(bytes), Len(bytes)).ok
         /\ Len(bytes) > 0 => /\ UnpackSigned(bytes) \in Int
                              /\ PackSigned(UnpackSigned(bytes), Len(bytes)).ok
<1>1. UnpackUnsigned(bytes) \in Nat /\ Shifted(UnpackUnsigned(bytes), Len(bytes)) = 0
  BY StartIsLeft DEF UnpackUnsigned
<1>2. PackUnsigned(UnpackUnsigned(bytes), Len(bytes)).ok
  BY <1>1 DEF PackUnsigned, Bytes
<1>3. ASSUME Len(bytes) > 0
      PROVE  UnpackSigned(bytes) \in Int /\ PackSigned(UnpackSigned(bytes), Len(bytes)).ok
  <2> DEFINE start == IF bytes[1] < 128 THEN 0 ELSE -1
             n == UnpackSigned(bytes)
  <2>1. bytes[1] \in Byte
    BY <1>3
  <2>2. start \in Int /\ 256 * start + bytes[1] \in -128..127
    <3> DEFINE b == bytes[1]
    <3>1. b \in 0..255
      BY <2>1, ByteIsNumber
    <3> HIDE DEF b
    <3>2. 256 * (IF b < 128 THEN 0 ELSE -1) + b \in -128..127
      BY <3>1
    <3> QED
      BY <3>2 DEF b
  <2>3. n \in Int /\ Shifted(n, Len(bytes) - 1) = 256 * start + bytes[1]
    <3>1. n = UnpackAfter(start, bytes)
      BY DEF UnpackSigned
    <3> HIDE DEF start, n
    <3> QED
      BY <1>3, <2>2, <3>1, StartIsLeft
  <2> HIDE DEF start, n
  <2>4. PackSigned(n, Len(bytes)).ok
    BY <2>2, <2>3 DEF PackSigned, Bytes
  <2> QED
    BY <2>3, <2>4 DEF n
<1> QED
  BY <1>1, <1>2, <1>3

-----------------------------------------------------------------------------
(* Slices and joints of sequences.                                         *)

\* The slice that begins after a and has the length of b.
LEMMA SliceOfMiddle ==
  ASSUME NEW S, NEW a \in Seq(S), NEW b \in Seq(S), NEW c \in Seq(S)
  PROVE  /\ Slice(a \o (b \o c), Len(a), Len(a) + Len(b)) = b
         /\ From(a \o (b \o c), Len(a)) = b \o c
<1>0. Len(a) \in Nat /\ Len(b) \in Nat /\ Len(c) \in Nat
  OBVIOUS
<1>1. /\ b \o c \in Seq(S) /\ Len(b \o c) = Len(b) + Len(c)
      /\ \A i \in 1..Len(b) : (b \o c)[i] = b[i]
  <2>1. \A i \in 1..Len(b) + Len(c) : (b \o c)[i] = IF i <= Len(b) THEN b[i] ELSE c[i - Len(b)]
    BY ConcatProperties
  <2>2. \A i \in 1..Len(b) : i \in 1..Len(b) + Len(c) /\ i <= Len(b)
    BY <1>0
  <2>3. \A i \in 1..Len(b) : (b \o c)[i] = b[i]
    BY <2>1, <2>2
  <2> QED
    BY <2>3, ConcatProperties
<1> DEFINE d == b \o c
           s == a \o d
<1> HIDE DEF d
<1>2. Len(d) = Len(b) + Len(c) /\ d \in Seq(S) /\ \A i \in 1..Len(b) : d[i] = b[i]
  BY <1>1 DEF d
<1>3. s \in Seq(S) /\ Len(s) = Len(a) + Len(d)
  BY <1>2, ConcatProperties
<1>4. \A i \in 1..Len(d) : s[Len(a) + i] = d[i]
  <2>1. \A i \in 1..Len(a) + Len(d) : s[i] = IF i <= Len(a) THEN a[i] ELSE d[i - Len(a)]
    BY <1>2, ConcatProperties
  <2>2. ASSUME NEW i \in 1..Len(d) PROVE s[Len(a) + i] = d[i]
    <3>1. /\ Len(a) + i \in 1..Len(a) + Len(d) /\ ~(Len(a) + i <= Len(a))
          /\ (Len(a) + i) - Len(a) = i
      BY <1>0, <1>2
    <3> HIDE DEF s
    <3> QED
      BY <2>1, <3>1
  <2> QED
    BY <2>2
<1> HIDE DEF s
<1>5. ASSUME NEW t \in Seq(S), Len(t) <= Len(d), \A i \in 1..Len(t) : t[i] = d[i]
      PROVE  SubSeq(s, Len(a) + 1, Len(a) + Len(t)) = t
  <2> DEFINE m == Len(a) + 1
             n == Len(a) + Len(t)
             u == SubSeq(s, m, n)
  <2>1. /\ m \in Int /\ n \in Int /\ n - m + 1 = Len(t)
        /\ (m > n => Len(t) = 0) /\ m..n \subseteq 1..Len(s)
    BY <1>0, <1>2, <1>3, <1>5
  <2>2. \A i \in m..n : s[i] \in S
    BY <1>3, <2>1
  <2> HIDE DEF m, n
  <2>3. /\ u \in Seq(S) /\ Len(u) = IF m <= n THEN n - m + 1 ELSE 0
        /\ \A i \in 1..n - m + 1 : u[i] = s[m + i - 1]
    BY <2>1, <2>2, SubSeqProperties
  <2>4. Len(u) = Len(t)
    BY <2>1, <2>3
  <2>5. ASSUME NEW i \in 1..Len(u) PROVE u[i] = t[i]
    <3>1. i \in 1..Len(t) /\ i \in 1..Len(d)
      BY <1>2, <1>5, <2>4
    <3>2. u[i] = s[m + i - 1] /\ m + i - 1 = Len(a) + i
      BY <1>0, <2>1, <2>3, <3>1 DEF m
    <3> QED
      BY <1>4, <1>5, <3>1, <3>2
  <2> HIDE DEF u
  <2>6. u = t
    BY <2>3, <2>4, <2>5, SeqEqual
  <2> QED
    BY <2>6 DEF u, m, n
<1>6. From(s, Len(a)) = d
  <2>0. Len(d) <= Len(d) /\ \A i \in 1..Len(d) : d[i] = d[i]
    BY <1>0, <1>2
  <2>1. SubSeq(s, Len(a) + 1, Len(a) + Len(d)) = d
    BY <1>2, <1>5, <2>0, Zenon
  <2> QED
    BY <1>3, <2>1 DEF From, Slice
<1>7. Slice(s, Len(a), Len(a) + Len(b)) = b
  <2>0. Len(b) <= Len(d) /\ \A i \in 1..Len(b) : b[i] = d[i]
    BY <1>0, <1>2
  <2>1. SubSeq(s, Len(a) + 1, Len(a) + Len(b)) = b
    BY <1>5, <2>0, Zenon
  <2>2. (IF Len(a) + Len(b) < Len(s) THEN Len(a) + Len(b) ELSE Len(s)) = Len(a) + Len(b)
    <3> DEFINE x == Len(a)
               y == Len(b)
               z == Len(c)
               n == Len(s)
    <3>1. n = x + (y + z) /\ x \in Nat /\ y \in Nat /\ z \in Nat
      BY <1>0, <1>2, <1>3
    <3> HIDE DEF x, y, z, n
    <3>2. x + y < n \/ n = x + y
      BY <3>1
    <3>3. (IF x + y < n THEN x + y ELSE n) = x + y
      BY <3>2, Zenon
    <3> QED
      BY <3>3, Zenon DEF x, y, n
  <2> QED
    BY <2>1, <2>2 DEF Slice
<1> QED
  BY <1>6, <1>7 DEF s, d

\* The beginning.
LEMMA SliceOfFirst ==
  ASSUME NEW S, NEW b \in Seq(S), NEW c \in Seq(S)
  PROVE  Slice(b \o c, 0, Len(b)) = b /\ From(b \o c, Len(b)) = c /\ From(b, 0) = b
<1> DEFINE e == <<>>
<1>1. e \in Seq(S) /\ Len(e) = 0 /\ e \o (b \o c) = b \o c
  BY EmptySeq, ConcatProperties, ConcatEmptySeq
<1>2. c \o e = c /\ b \o e = b /\ e \o b = b
  BY ConcatEmptySeq
<1> HIDE DEF e
<1>0. e \in Seq(S)
  BY <1>1
<1>3. Slice(e \o (b \o c), Len(e), Len(e) + Len(b)) = b
  BY <1>0, SliceOfMiddle, Zenon
<1>4. From(b \o (c \o e), Len(b)) = c \o e
  BY <1>0, SliceOfMiddle, Zenon
<1>5. From(e \o (b \o e), Len(e)) = b \o e
  BY <1>0, SliceOfMiddle, Zenon
<1>6. 0 + Len(b) = Len(b)
  OBVIOUS
<1> QED
  BY <1>1, <1>2, <1>3, <1>4, <1>5, <1>6

LEMMA ThreeJoined ==
  ASSUME NEW S, NEW a \in Seq(S), NEW b \in Seq(S), NEW c \in Seq(S)
  PROVE  /\ (a \o b) \o c = a \o (b \o c)
         /\ Len(a \o b) = Len(a) + Len(b)
BY ConcatAssociative, ConcatProperties

\* b begins with a.
Begins(b, a, S) == \E rest \in Seq(S) : b = a \o rest

LEMMA StillBegins ==
  ASSUME NEW S, NEW a \in Seq(S), NEW b, NEW c \in Seq(S), Begins(b, a, S)
  PROVE  Begins(b \o c, a, S)
<1>1. PICK rest \in Seq(S) : b = a \o rest
  BY DEF Begins
<1>2. rest \o c \in Seq(S)
  BY ConcatProperties
<1>3. b \o c = a \o (rest \o c)
  BY <1>1, ConcatAssociative
<1> QED
  BY <1>2, <1>3 DEF Begins

\* The joint of all begins with that of the first.
LEMMA JointsGrow ==
  ASSUME NEW S, NEW seqs \in Seq(Seq(S)), NEW f, IsJoints(f, seqs, S),
         NEW i \in 0..Len(seqs)
  PROVE  Begins(f[Len(seqs)], f[i], S)
<1> DEFINE N == Len(seqs)
           T == {k \in 0..N : i <= k => Begins(f[k], f[i], S)}
<1>0. N \in Nat /\ i \in 0..N /\ \A k \in 0..N : f[k] \in Seq(S)
  <2>1. f \in [0..N -> Seq(S)] /\ N \in Nat
    BY DEF IsJoints
  <2> HIDE DEF N
  <2> QED
    BY <2>1 DEF N
<1>1. Begins(f[i], f[i], S)
  <2>1. f[i] \o <<>> = f[i] /\ <<>> \in Seq(S)
    BY <1>0, ConcatEmptySeq, EmptySeq
  <2> QED
    BY <2>1 DEF Begins
<1>2. 0 \in T
  BY <1>0, <1>1
<1>3. ASSUME NEW k \in 0..(N - 1), k \in T PROVE k + 1 \in T
  <2>1. k + 1 \in 1..N /\ k + 1 \in 0..N /\ (k + 1) - 1 = k
    BY <1>0
  <2>2. CASE i <= k
    <3>1. f[k + 1] = f[k] \o seqs[k + 1] /\ seqs[k + 1] \in Seq(S)
      <4>1. \A j \in 1..N : f[j] = f[j - 1] \o seqs[j]
        BY DEF IsJoints
      <4>2. seqs[k + 1] \in Seq(S)
        BY <2>1
      <4> HIDE DEF N, T
      <4> QED
        BY <2>1, <4>1, <4>2
    <3>2. f[i] \in Seq(S) /\ Begins(f[k], f[i], S)
      BY <1>0, <1>3, <2>2
    <3>3. Begins(f[k] \o seqs[k + 1], f[i], S)
      BY <3>1, <3>2, StillBegins
    <3> QED
      BY <2>1, <3>1, <3>3
  <2>3. CASE ~(i <= k)
    <3>1. i <= k + 1 => i = k + 1
      BY <1>0, <2>3
    <3> QED
      BY <1>1, <2>1, <3>1
  <2> QED
    BY <2>2, <2>3
<1>4. \A k \in 0..N : k \in T
  <2> HIDE DEF T, N
  <2> QED
    BY <1>0, <1>2, <1>3, UpTo, Zenon
<1>5. N \in 0..N /\ i <= N
  BY <1>0
<1> QED
  BY <1>4, <1>5

\* In s comes b after a.
Within(s, a, b, S) ==
  /\ a \in Seq(S)
  /\ b \in Seq(S)
  /\ \E more \in Seq(S) : s = a \o (b \o more)

LEMMA SliceWithin ==
  ASSUME NEW S, NEW s, NEW a, NEW b, Within(s, a, b, S)
  PROVE  /\ Slice(s, Len(a), Len(a) + Len(b)) = b
         /\ Begins(From(s, Len(a)), b, S)
<1>1. PICK more \in Seq(S) : s = a \o (b \o more)
  BY DEF Within
<1>2. a \in Seq(S) /\ b \in Seq(S)
  BY DEF Within
<1>3. Slice(s, Len(a), Len(a) + Len(b)) = b /\ From(s, Len(a)) = b \o more
  BY <1>1, <1>2, SliceOfMiddle
<1> QED
  BY <1>3 DEF Begins

LEMMA BeginsWithBoth ==
  ASSUME NEW S, NEW s, NEW a \in Seq(S), NEW b \in Seq(S), Begins(s, a \o b, S)
  PROVE  Within(s, a, b, S)
<1>1. PICK more \in Seq(S) : s = (a \o b) \o more
  BY DEF Begins
<1>2. (a \o b) \o more = a \o (b \o more)
  BY ThreeJoined
<1>3. s = a \o (b \o more)
  BY <1>1, <1>2
<1> QED
  BY <1>3 DEF Within

\* Where the i-th of the joined sequences is.
LEMMA PlaceInJoint ==
  ASSUME NEW S, NEW seqs \in Seq(Seq(S)), NEW f, IsJoints(f, seqs, S),
         NEW i \in 1..Len(seqs), NEW rest \in Seq(S)
  PROVE  /\ f[i - 1] \in Seq(S)
         /\ f[i] = f[i - 1] \o seqs[i]
         /\ Len(f[i]) = Len(f[i - 1]) + Len(seqs[i])
         /\ Within(f[Len(seqs)] \o rest, f[i - 1], seqs[i], S)
<1> DEFINE N == Len(seqs)
           a == f[i - 1]
           b == seqs[i]
           c == f[N]
<1>1. N \in Nat /\ i \in 1..N /\ i - 1 \in 0..N /\ i \in 0..N /\ N \in 0..N
  OBVIOUS
<1>2. (\A k \in 0..N : f[k] \in Seq(S)) /\ b \in Seq(S)
  <2>1. f \in [0..N -> Seq(S)] /\ b \in Seq(S)
    BY DEF IsJoints
  <2> HIDE DEF N, b
  <2> QED
    BY <2>1
<1>3. a \in Seq(S) /\ b \in Seq(S) /\ c \in Seq(S) /\ f[i] \in Seq(S)
  <2> HIDE DEF N
  <2> QED
    BY <1>1, <1>2
<1>4. f[i] = a \o b
  BY DEF IsJoints
<1>5. Begins(c, f[i], S)
  <2>1. i \in 0..Len(seqs)
    BY <1>1
  <2> HIDE DEF a, b
  <2> QED
    BY <2>1, JointsGrow
<1> HIDE DEF a, b, c
<1>6. Begins(c \o rest, a \o b, S)
  BY <1>3, <1>4, <1>5, StillBegins
<1>7. Within(c \o rest, a, b, S)
  BY <1>3, <1>6, BeginsWithBoth, Zenon
<1>8. Len(a \o b) = Len(a) + Len(b)
  BY <1>3, ThreeJoined
<1> QED
  BY <1>3, <1>4, <1>7, <1>8 DEF a, b, c, N

-----------------------------------------------------------------------------
(* Texts and their bytes.                                                  *)

CodePoint == {c \in Nat : c < 1114112 /\ (c < 55296 \/ c > 57343)}

LEMMA CharsAreCodePoints == Char \subseteq CodePoint /\ 0 \in Char
BY CharAssumption, SMT DEF CodePoint

\* The code of c, given its bytes.
IsCode1(code, a) == code \in Seq(Byte) /\ Len(code) = 1 /\ code[1] = a
IsCode2(code, a, b) == code \in Seq(Byte) /\ Len(code) = 2 /\ code[1] = a /\ code[2] = b
IsCode3(code, a, b, c) ==
  code \in Seq(Byte) /\ Len(code) = 3 /\ code[1] = a /\ code[2] = b /\ code[3] = c
IsCode4(code, a, b, c, d) ==
  /\ code \in Seq(Byte) /\ Len(code) = 4
  /\ code[1] = a /\ code[2] = b /\ code[3] = c /\ code[4] = d

LEMMA ShortCode1 ==
  ASSUME NEW a \in Byte, NEW code, code = <<a>>
  PROVE  IsCode1(code, a)
<1>1. code \in Seq(Byte) /\ Len(code) = 1
  OBVIOUS
<1> QED
  BY <1>1 DEF IsCode1

LEMMA ShortCode2 ==
  ASSUME NEW a \in Byte, NEW b \in Byte, NEW code, code = <<a, b>>
  PROVE  IsCode2(code, a, b)
<1>1. code \in Seq(Byte) /\ Len(code) = 2
  OBVIOUS
<1> QED
  BY <1>1 DEF IsCode2

LEMMA ShortCode3 ==
  ASSUME NEW a \in Byte, NEW b \in Byte, NEW c \in Byte, NEW code, code = <<a, b, c>>
  PROVE  IsCode3(code, a, b, c)
<1>1. code \in Seq(Byte) /\ Len(code) = 3
  OBVIOUS
<1> QED
  BY <1>1 DEF IsCode3

LEMMA ShortCode4 ==
  ASSUME NEW a \in Byte, NEW b \in Byte, NEW c \in Byte, NEW d \in Byte,
         NEW code, code = <<a, b, c, d>>
  PROVE  IsCode4(code, a, b, c, d)
<1>1. code \in Seq(Byte) /\ Len(code) = 4
  OBVIOUS
<1> QED
  BY <1>1 DEF IsCode4

LEMMA Utf8Codes ==
  ASSUME NEW c \in CodePoint
  PROVE  /\ c < 128 => IsCode1(Utf8(c), c)
         /\ c >= 128 /\ c < 2048 => IsCode2(Utf8(c), 192 + c \div 64, 128 + (c % 64))
         /\ c >= 2048 /\ c < 65536 =>
              IsCode3(Utf8(c), 224 + c \div 4096, 128 + ((c \div 64) % 64), 128 + (c % 64))
         /\ c >= 65536 =>
              IsCode4(Utf8(c), 240 + c \div 262144, 128 + ((c \div 4096) % 64),
                      128 + ((c \div 64) % 64), 128 + (c % 64))
<1>1. c \in Nat /\ c < 1114112 /\ (c < 55296 \/ c > 57343)
  BY SMT DEF CodePoint
<1>2. CASE c < 128
  <2>1. c \in Byte /\ Utf8(c) = <<c>>
    BY <1>1, <1>2, SMT DEF Byte, Utf8
  <2>2. IsCode1(Utf8(c), c)
    BY <2>1, ShortCode1, SMT
  <2> QED
    BY <1>1, <1>2, <2>2, SMT
<1>3. CASE c >= 128 /\ c < 2048
  <2>1. 192 + c \div 64 \in Byte /\ 128 + (c % 64) \in Byte
    BY <1>1, <1>3, SMT DEF Byte
  <2>2. Utf8(c) = <<192 + c \div 64, 128 + (c % 64)>>
    BY <1>1, <1>3, SMT DEF Utf8
  <2>3. IsCode2(Utf8(c), 192 + c \div 64, 128 + (c % 64))
    BY <2>1, <2>2, ShortCode2, SMT
  <2> QED
    BY <1>1, <1>3, <2>3, SMT
<1>4. CASE c >= 2048 /\ c < 65536
  <2>1. 224 + c \div 4096 \in Byte /\ 128 + ((c \div 64) % 64) \in Byte /\ 128 + (c % 64) \in Byte
    BY <1>1, <1>4, SMT DEF Byte
  <2>2. Utf8(c) = <<224 + c \div 4096, 128 + ((c \div 64) % 64), 128 + (c % 64)>>
    BY <1>1, <1>4, SMT DEF Utf8
  <2>3. IsCode3(Utf8(c), 224 + c \div 4096, 128 + ((c \div 64) % 64), 128 + (c % 64))
    BY <2>1, <2>2, ShortCode3, SMT
  <2> QED
    BY <1>1, <1>4, <2>3, SMT
<1>5. CASE c >= 65536
  <2>1. /\ 240 + c \div 262144 \in Byte /\ 128 + ((c \div 4096) % 64) \in Byte
        /\ 128 + ((c \div 64) % 64) \in Byte /\ 128 + (c % 64) \in Byte
    BY <1>1, <1>5, SMT DEF Byte
  <2>2. Utf8(c) = <<240 + c \div 262144, 128 + ((c \div 4096) % 64),
                    128 + ((c \div 64) % 64), 128 + (c % 64)>>
    BY <1>1, <1>5, SMT DEF Utf8
  <2>3. IsCode4(Utf8(c), 240 + c \div 262144, 128 + ((c \div 4096) % 64),
                128 + ((c \div 64) % 64), 128 + (c % 64))
    BY <2>1, <2>2, ShortCode4, SMT
  <2> QED
    BY <1>1, <1>5, <2>3, SMT
<1> QED
  BY <1>1, <1>2, <1>3, <1>4, <1>5, SMT

LEMMA Utf8IsPrefixFree ==
  ASSUME NEW c \in CodePoint, NEW d \in CodePoint, Len(Utf8(d)) <= Len(Utf8(c)),
         \A i \in 1..Len(Utf8(d)) : Utf8(d)[i] = Utf8(c)[i]
  PROVE  c = d
<1>1. c \in Nat /\ c < 1114112 /\ d \in Nat /\ d < 1114112
  BY SMT DEF CodePoint
<1> DEFINE x == Utf8(c)
           y == Utf8(d)
<1> HIDE DEF x, y
<1>2. /\ \/ c < 128 /\ IsCode1(x, c)
         \/ c >= 128 /\ c < 2048 /\ IsCode2(x, 192 + c \div 64, 128 + (c % 64))
         \/ c >= 2048 /\ c < 65536 /\ IsCode3(x, 224 + c \div 4096,
                                           128 + ((c \div 64) % 64), 128 + (c % 64))
         \/ c >= 65536 /\ IsCode4(x, 240 + c \div 262144, 128 + ((c \div 4096) % 64),
                               128 + ((c \div 64) % 64), 128 + (c % 64))
      /\ \/ d < 128 /\ IsCode1(y, d)
         \/ d >= 128 /\ d < 2048 /\ IsCode2(y, 192 + d \div 64, 128 + (d % 64))
         \/ d >= 2048 /\ d < 65536 /\ IsCode3(y, 224 + d \div 4096,
                                           128 + ((d \div 64) % 64), 128 + (d % 64))
         \/ d >= 65536 /\ IsCode4(y, 240 + d \div 262144, 128 + ((d \div 4096) % 64),
                               128 + ((d \div 64) % 64), 128 + (d % 64))
  BY <1>1, Utf8Codes, SMT DEF x, y
<1>3. Len(y) <= Len(x) /\ \A i \in 1..Len(y) : y[i] = x[i]
  BY DEF x, y
<1>4. /\ Len(y) >= 1 /\ y[1] = x[1] /\ (Len(y) >= 2 => y[2] = x[2])
      /\ (Len(y) >= 3 => y[3] = x[3]) /\ (Len(y) >= 4 => y[4] = x[4])
  <2>1. Len(y) \in Nat /\ Len(y) >= 1
    BY <1>2, SMT DEF IsCode1, IsCode2, IsCode3, IsCode4
  <2> QED
    BY <1>3, <2>1, SMT
<1>5. /\ c >= 128 /\ c < 2048 => x[1] >= 192 /\ x[1] < 224
      /\ c >= 2048 /\ c < 65536 => x[1] >= 224 /\ x[1] < 240
      /\ c >= 65536 => x[1] >= 240
      /\ c < 128 => x[1] < 128
  <2>1. c >= 128 /\ c < 2048 => x[1] = 192 + c \div 64
    BY <1>1, <1>2, SMT DEF IsCode2
  <2>2. c >= 2048 /\ c < 65536 => x[1] = 224 + c \div 4096
    BY <1>1, <1>2, SMT DEF IsCode3
  <2>3. c >= 65536 => x[1] = 240 + c \div 262144
    BY <1>1, <1>2, SMT DEF IsCode4
  <2>4. c < 128 => x[1] = c
    BY <1>1, <1>2, SMT DEF IsCode1
  <2> QED
    BY <1>1, <2>1, <2>2, <2>3, <2>4, SMT
<1>6. /\ d >= 128 /\ d < 2048 => y[1] >= 192 /\ y[1] < 224
      /\ d >= 2048 /\ d < 65536 => y[1] >= 224 /\ y[1] < 240
      /\ d >= 65536 => y[1] >= 240
      /\ d < 128 => y[1] < 128
  <2>1. d >= 128 /\ d < 2048 => y[1] = 192 + d \div 64
    BY <1>1, <1>2, SMT DEF IsCode2
  <2>2. d >= 2048 /\ d < 65536 => y[1] = 224 + d \div 4096
    BY <1>1, <1>2, SMT DEF IsCode3
  <2>3. d >= 65536 => y[1] = 240 + d \div 262144
    BY <1>1, <1>2, SMT DEF IsCode4
  <2>4. d < 128 => y[1] = d
    BY <1>1, <1>2, SMT DEF IsCode1
  <2> QED
    BY <1>1, <2>1, <2>2, <2>3, <2>4, SMT
<1>7. \/ c < 128 /\ d < 128
      \/ c >= 128 /\ c < 2048 /\ d >= 128 /\ d < 2048
      \/ c >= 2048 /\ c < 65536 /\ d >= 2048 /\ d < 65536
      \/ c >= 65536 /\ d >= 65536
  <2>1. x[1] \in Int /\ y[1] = x[1]
    <3>1. x[1] \in Int
      BY <1>1, <1>2, SMT DEF IsCode1, IsCode2, IsCode3, IsCode4
    <3> QED
      BY <1>4, <3>1
  <2> QED
    BY <1>1, <1>5, <1>6, <2>1, SMT
<1>8. CASE c < 128 /\ d < 128
  BY <1>1, <1>2, <1>4, <1>8, SMT DEF IsCode1
<1>9. CASE c >= 128 /\ c < 2048 /\ d >= 128 /\ d < 2048
  <2>1. c \div 64 = d \div 64 /\ c % 64 = d % 64
    <3>1. IsCode2(x, 192 + c \div 64, 128 + (c % 64)) /\ IsCode2(y, 192 + d \div 64, 128 + (d % 64))
      BY <1>1, <1>2, <1>9, SMT
    <3> QED
      BY <1>1, <1>4, <3>1, SMT DEF IsCode2
  <2> QED
    BY <1>1, <2>1, SMT
<1>10. CASE c >= 2048 /\ c < 65536 /\ d >= 2048 /\ d < 65536
  <2>1. /\ c \div 4096 = d \div 4096 /\ (c \div 64) % 64 = (d \div 64) % 64
        /\ c % 64 = d % 64
    <3>1. /\ IsCode3(x, 224 + c \div 4096, 128 + ((c \div 64) % 64), 128 + (c % 64))
          /\ IsCode3(y, 224 + d \div 4096, 128 + ((d \div 64) % 64), 128 + (d % 64))
      BY <1>1, <1>2, <1>10, SMT
    <3> QED
      BY <1>1, <1>4, <3>1, SMT DEF IsCode3
  <2> QED
    BY <1>1, <2>1, SMT
<1>11. CASE c >= 65536 /\ d >= 65536
  <2>1. /\ c \div 262144 = d \div 262144 /\ (c \div 4096) % 64 = (d \div 4096) % 64
        /\ (c \div 64) % 64 = (d \div 64) % 64 /\ c % 64 = d % 64
    <3>1. /\ IsCode4(x, 240 + c \div 262144, 128 + ((c \div 4096) % 64),
                     128 + ((c \div 64) % 64), 128 + (c % 64))
          /\ IsCode4(y, 240 + d \div 262144, 128 + ((d \div 4096) % 64),
                     128 + ((d \div 64) % 64), 128 + (d % 64))
      BY <1>1, <1>2, <1>11, SMT
    <3> QED
      BY <1>1, <1>4, <3>1, SMT DEF IsCode4
  <2> QED
    BY <1>1, <2>1, SMT
<1> QED
  BY <1>7, <1>8, <1>9, <1>10, <1>11, SMT

LEMMA Utf16Codes ==
  ASSUME NEW c \in CodePoint, NEW e, e = c - 65536
  PROVE  /\ c < 65536 => IsCode2(Utf16(c), c \div 256, c % 256)
         /\ c >= 65536 => IsCode4(Utf16(c), 216 + e \div 262144, (e \div 1024) % 256,
                                  220 + ((e % 1024) \div 256), e % 256)
<1>1. c \in Nat /\ c < 1114112
  BY SMT DEF CodePoint
<1>2. CASE c < 65536
  <2>1. c \div 256 \in Byte /\ c % 256 \in Byte
    BY <1>1, <1>2, SMT DEF Byte
  <2>2. Utf16(c) = <<c \div 256, c % 256>>
    BY <1>2, SMT DEF Utf16
  <2>3. IsCode2(Utf16(c), c \div 256, c % 256)
    BY <2>1, <2>2, ShortCode2, SMT
  <2> QED
    BY <1>1, <1>2, <2>3, SMT
<1>3. CASE c >= 65536
  <2>0. e \in Nat /\ e < 1048576
    BY <1>1, <1>3, SMT
  <2>1. /\ 216 + e \div 262144 \in Byte /\ (e \div 1024) % 256 \in Byte
        /\ 220 + ((e % 1024) \div 256) \in Byte /\ e % 256 \in Byte
    BY <2>0, SMT DEF Byte
  <2>2. Utf16(c) = <<216 + e \div 262144, (e \div 1024) % 256,
                     220 + ((e % 1024) \div 256), e % 256>>
    BY <1>1, <1>3, SMT DEF Utf16
  <2>3. IsCode4(Utf16(c), 216 + e \div 262144, (e \div 1024) % 256,
                220 + ((e % 1024) \div 256), e % 256)
    BY <2>1, <2>2, ShortCode4, SMT
  <2> QED
    BY <1>1, <1>3, <2>3, SMT
<1> QED
  BY <1>1, <1>2, <1>3, SMT

\* A code of two bytes is no surrogate.
LEMMA Utf16IsPrefixFree ==
  ASSUME NEW c \in CodePoint, NEW d \in CodePoint, Len(Utf16(d)) <= Len(Utf16(c)),
         \A i \in 1..Len(Utf16(d)) : Utf16(d)[i] = Utf16(c)[i]
  PROVE  c = d
<1>1. c \in Nat /\ c < 1114112 /\ d \in Nat /\ d < 1114112 /\ (d < 55296 \/ d > 57343)
  BY SMT DEF CodePoint
<1> DEFINE x == Utf16(c)
           y == Utf16(d)
           e == c - 65536
           f == d - 65536
<1> HIDE DEF x, y, e, f
<1>2. /\ c < 65536 => IsCode2(x, c \div 256, c % 256)
      /\ c >= 65536 => IsCode4(x, 216 + e \div 262144, (e \div 1024) % 256,
                               220 + ((e % 1024) \div 256), e % 256)
      /\ d < 65536 => IsCode2(y, d \div 256, d % 256)
      /\ d >= 65536 => IsCode4(y, 216 + f \div 262144, (f \div 1024) % 256,
                               220 + ((f % 1024) \div 256), f % 256)
  BY Utf16Codes, SMT DEF x, y, e, f
<1>3. Len(y) <= Len(x) /\ \A i \in 1..Len(y) : y[i] = x[i]
  BY DEF x, y
<1>4. Len(y) >= 2 /\ y[1] = x[1] /\ y[2] = x[2] /\ (Len(y) >= 4 => y[3] = x[3] /\ y[4] = x[4])
  <2>1. Len(y) = 2 \/ Len(y) = 4
    <3>1. d < 65536 \/ d >= 65536
      BY <1>1, SMT
    <3>2. d < 65536 => Len(y) = 2
      BY <1>2 DEF IsCode2
    <3>3. d >= 65536 => Len(y) = 4
      BY <1>2 DEF IsCode4
    <3> QED
      BY <3>1, <3>2, <3>3
  <2> QED
    BY <1>3, <2>1, SMT
<1>5. CASE c < 65536 /\ d < 65536
  <2>1. c \div 256 = d \div 256 /\ c % 256 = d % 256
    BY <1>2, <1>4, <1>5, SMT DEF IsCode2
  <2> QED
    BY <1>1, <2>1, SMT
<1>6. CASE c >= 65536 /\ d >= 65536
  <2>0. e \in Nat /\ e < 1048576 /\ f \in Nat /\ f < 1048576 /\ c = e + 65536 /\ d = f + 65536
    BY <1>1, <1>6, SMT DEF e, f
  <2>1. IsCode4(x, 216 + e \div 262144, (e \div 1024) % 256, 220 + ((e % 1024) \div 256), e % 256)
    BY <1>2, <1>6
  <2>2. IsCode4(y, 216 + f \div 262144, (f \div 1024) % 256, 220 + ((f % 1024) \div 256), f % 256)
    BY <1>2, <1>6
  <2>3. /\ e \div 262144 = f \div 262144 /\ (e \div 1024) % 256 = (f \div 1024) % 256
        /\ (e % 1024) \div 256 = (f % 1024) \div 256 /\ e % 256 = f % 256
    BY <1>4, <2>0, <2>1, <2>2, SMT DEF IsCode4
  <2> QED
    BY <2>0, <2>3, SMT
<1>7. CASE c >= 65536 /\ d < 65536
  <2>0. e \in Nat /\ e < 1048576
    BY <1>1, <1>7, SMT DEF e
  <2>1. y[1] = d \div 256 /\ x[1] = 216 + e \div 262144
    BY <1>2, <1>7, SMT DEF IsCode2, IsCode4
  <2>2. d \div 256 < 216 \/ d \div 256 >= 224
    BY <1>1, <1>7, SMT
  <2>3. 216 + e \div 262144 >= 216 /\ 216 + e \div 262144 < 224
    BY <2>0, SMT
  <2>4. d \div 256 = 216 + e \div 262144
    <3> DEFINE a == d \div 256
               b == 216 + e \div 262144
    <3>1. y[1] = a /\ x[1] = b
      BY <2>1, SMT
    <3> HIDE DEF a, b
    <3>2. a = b
      BY <1>4, <3>1
    <3> QED
      BY <3>2, SMT DEF a, b
  <2> QED
    BY <1>1, <2>2, <2>3, <2>4, SMT
<1>8. CASE c < 65536 /\ d >= 65536
  <2>1. Len(x) = 2 /\ Len(y) = 4
    BY <1>2, <1>8 DEF IsCode2, IsCode4
  <2> QED
    BY <1>3, <2>1
<1> QED
  BY <1>1, <1>5, <1>6, <1>7, <1>8, SMT

LEMMA Swapped ==
  ASSUME NEW code \in Seq(Byte), Len(code) = 2 \/ Len(code) = 4
  PROVE  /\ EachPairSwapped(code) \in Seq(Byte)
         /\ Len(EachPairSwapped(code)) = Len(code)
         /\ EachPairSwapped(code)[1] = code[2] /\ EachPairSwapped(code)[2] = code[1]
         /\ Len(code) = 4 =>
              EachPairSwapped(code)[3] = code[4] /\ EachPairSwapped(code)[4] = code[3]
<1> DEFINE N == Len(code)
<1>1. N \in Nat /\ DOMAIN code = 1..N /\ (N = 2 \/ N = 4)
  OBVIOUS
<1>2. ASSUME NEW i \in 1..N PROVE (IF i % 2 = 1 THEN i + 1 ELSE i - 1) \in 1..N
  <2> HIDE DEF N
  <2> QED
    BY <1>1, <1>2
<1>3. \A i \in 1..N : code[IF i % 2 = 1 THEN i + 1 ELSE i - 1] \in Byte
  BY <1>2
<1>4. EachPairSwapped(code) = [i \in 1..N |-> code[IF i % 2 = 1 THEN i + 1 ELSE i - 1]]
  BY <1>1 DEF EachPairSwapped
<1>5. EachPairSwapped(code) \in [1..N -> Byte]
  BY <1>3, <1>4
<1>6. EachPairSwapped(code) \in Seq(Byte) /\ Len(EachPairSwapped(code)) = N
  BY <1>1, <1>5
<1> HIDE DEF N
<1>7. 1 \in 1..N /\ 2 \in 1..N /\ (N = 4 => 3 \in 1..N /\ 4 \in 1..N)
  BY <1>1
<1>8. 1 % 2 = 1 /\ 2 % 2 # 1 /\ 3 % 2 = 1 /\ 4 % 2 # 1
  OBVIOUS
<1> QED
  BY <1>4, <1>6, <1>7, <1>8 DEF N

\* A character has a code in each encoding.
LEMMA CodeType ==
  ASSUME NEW c \in CodePoint, NEW encoding \in Encoding
  PROVE  /\ EncodeChar(c, encoding) \in Seq(Byte)
         /\ Len(EncodeChar(c, encoding)) \in Nat /\ Len(EncodeChar(c, encoding)) >= 1
<1>1. c \in Nat /\ c < 1114112
  BY SMT DEF CodePoint
<1>2. Utf8(c) \in Seq(Byte) /\ Len(Utf8(c)) >= 1
  BY <1>1, Utf8Codes, SMT DEF IsCode1, IsCode2, IsCode3, IsCode4
<1>3. Utf16(c) \in Seq(Byte) /\ (Len(Utf16(c)) = 2 \/ Len(Utf16(c)) = 4)
  <2> DEFINE e == c - 65536
  <2> HIDE DEF e
  <2>1. e = c - 65536
    BY SMT DEF e
  <2> QED
    BY <1>1, <2>1, Utf16Codes, SMT DEF IsCode2, IsCode4
<1>4. EachPairSwapped(Utf16(c)) \in Seq(Byte) /\ Len(EachPairSwapped(Utf16(c))) >= 1
  BY <1>3, Swapped
<1>5. \/ EncodeChar(c, encoding) = Utf8(c)
      \/ EncodeChar(c, encoding) = Utf16(c)
      \/ EncodeChar(c, encoding) = EachPairSwapped(Utf16(c))
  BY DEF EncodeChar, Encoding
<1> DEFINE code == EncodeChar(c, encoding)
<1>6. code \in Seq(Byte) /\ Len(code) >= 1
  <2>1. Len(Utf16(c)) >= 1
    BY <1>3
  <2>2. CASE code = Utf8(c)
    BY <1>2, <2>2
  <2>3. CASE code = Utf16(c)
    BY <1>3, <2>1, <2>3
  <2>4. CASE code = EachPairSwapped(Utf16(c))
    BY <1>4, <2>4
  <2> QED
    BY <1>5, <2>2, <2>3, <2>4
<1>7. Len(code) \in Nat
  <2> HIDE DEF code
  <2> QED
    BY <1>6
<1> QED
  BY <1>6, <1>7

\* p are the first j of s.
IsFirst(p, s, j, S) == p \in Seq(S) /\ Len(p) = j /\ \A k \in 1..j : p[k] = s[k]

\* No code is the beginning of another.
LEMMA PrefixFree ==
  ASSUME NEW c \in CodePoint, NEW d \in CodePoint, NEW encoding \in Encoding,
         NEW j \in Nat, j <= Len(EncodeChar(c, encoding)),
         IsFirst(EncodeChar(d, encoding), EncodeChar(c, encoding), j, Byte)
  PROVE  c = d
<1> DEFINE x == EncodeChar(c, encoding)
           y == EncodeChar(d, encoding)
<1>0. Len(y) <= Len(x) /\ \A k \in 1..Len(y) : y[k] = x[k]
  BY DEF IsFirst
<1>1. CASE encoding = "utf-8"
  <2>1. x = Utf8(c) /\ y = Utf8(d)
    BY <1>1 DEF EncodeChar
  <2> HIDE DEF x, y
  <2> QED
    BY <1>0, <2>1, Utf8IsPrefixFree
<1>2. CASE encoding = "utf-16be"
  <2>1. x = Utf16(c) /\ y = Utf16(d)
    BY <1>2 DEF EncodeChar
  <2> HIDE DEF x, y
  <2> QED
    BY <1>0, <2>1, Utf16IsPrefixFree
<1>3. CASE encoding = "utf-16le"
  <2> DEFINE u == Utf16(c)
             v == Utf16(d)
  <2>1. x = EachPairSwapped(u) /\ y = EachPairSwapped(v)
    BY <1>3 DEF EncodeChar
  <2>2. /\ u \in Seq(Byte) /\ (Len(u) = 2 \/ Len(u) = 4)
        /\ v \in Seq(Byte) /\ (Len(v) = 2 \/ Len(v) = 4)
    <3>1. ASSUME NEW n \in CodePoint
          PROVE  Utf16(n) \in Seq(Byte) /\ (Len(Utf16(n)) = 2 \/ Len(Utf16(n)) = 4)
      <4> DEFINE e == n - 65536
      <4> HIDE DEF e
      <4>1. e = n - 65536 /\ n \in Nat
        BY SMT DEF e, CodePoint
      <4> QED
        BY <4>1, Utf16Codes, SMT DEF IsCode2, IsCode4
    <3> QED
      BY <3>1
  <2> HIDE DEF x, y, u, v
  <2>3. /\ Len(x) = Len(u) /\ x[1] = u[2] /\ x[2] = u[1]
        /\ Len(u) = 4 => x[3] = u[4] /\ x[4] = u[3]
    BY <2>1, <2>2, Swapped
  <2>4. /\ Len(y) = Len(v) /\ y[1] = v[2] /\ y[2] = v[1]
        /\ Len(v) = 4 => y[3] = v[4] /\ y[4] = v[3]
    BY <2>1, <2>2, Swapped
  <2>5. /\ Len(v) <= Len(u) /\ u[1] = v[1] /\ u[2] = v[2]
        /\ Len(v) = 4 => u[3] = v[3] /\ u[4] = v[4]
    BY <1>0, <2>2, <2>3, <2>4
  <2>6. \A k \in 1..Len(v) : v[k] = u[k]
    <3>1. ASSUME NEW n, n = 2 \/ n = 4, NEW k \in 1..n
          PROVE  k = 1 \/ k = 2 \/ (n = 4 /\ (k = 3 \/ k = 4))
      BY <3>1
    <3> QED
      BY <2>2, <2>5, <3>1
  <2> QED
    BY <2>5, <2>6, Utf16IsPrefixFree DEF u, v
<1> QED
  BY <1>1, <1>2, <1>3 DEF Encoding

LEMMA FirstsGrow ==
  ASSUME NEW S, NEW s \in Seq(S), NEW j \in Nat, j < Len(s), NEW p, IsFirst(p, s, j, S)
  PROVE  IsFirst(Append(p, s[j + 1]), s, j + 1, S)
<1>1. p \in Seq(S) /\ Len(p) = j /\ s[j + 1] \in S /\ \A k \in 1..j : p[k] = s[k]
  BY DEF IsFirst
<1> DEFINE q == Append(p, s[j + 1])
<1>2. q \in Seq(S) /\ Len(q) = j + 1
  BY <1>1, AppendProperties
<1>3. ASSUME NEW k \in 1..(j + 1) PROVE q[k] = s[k]
  <2>1. k \in 1..j \/ k = j + 1
    OBVIOUS
  <2> QED
    BY <1>1, <2>1, AppendProperties
<1> QED
  BY <1>2, <1>3 DEF IsFirst

LEMMA AllOfFirst ==
  ASSUME NEW S, NEW s \in Seq(S), NEW p, IsFirst(p, s, Len(s), S)
  PROVE  p = s
BY SeqEqual DEF IsFirst

LEMMA NoneIsFirst ==
  ASSUME NEW S, NEW s
  PROVE  IsFirst(<<>>, s, 0, S)
BY DEF IsFirst

LEMMA ByteWithin ==
  ASSUME NEW S, NEW s, NEW a, NEW b, Within(s, a, b, S), NEW j \in 1..Len(b)
  PROVE  /\ s \in Seq(S) /\ Len(a) + j \in 1..Len(s) /\ s[Len(a) + j] = b[j]
<1>1. PICK more \in Seq(S) : s = a \o (b \o more)
  BY DEF Within
<1>2. a \in Seq(S) /\ b \in Seq(S)
  BY DEF Within
<1> DEFINE d == b \o more
<1>3. d \in Seq(S) /\ Len(d) = Len(b) + Len(more) /\ d[j] = b[j]
  <2>1. j \in 1..Len(b) + Len(more) /\ j <= Len(b)
    BY <1>2
  <2> QED
    BY <1>2, <2>1, ConcatProperties
<1> HIDE DEF d
<1>4. s \in Seq(S) /\ Len(s) = Len(a) + Len(d)
  BY <1>1, <1>2, <1>3, ConcatProperties DEF d
<1>5. /\ Len(a) + j \in 1..Len(a) + Len(d) /\ ~(Len(a) + j <= Len(a))
      /\ (Len(a) + j) - Len(a) = j
  BY <1>2, <1>3
<1>6. s[Len(a) + j] = d[j]
  <2>1. \A i \in 1..Len(a) + Len(d) : (a \o d)[i] = IF i <= Len(a) THEN a[i] ELSE d[i - Len(a)]
    BY <1>2, <1>3, ConcatProperties
  <2> QED
    BY <1>1, <1>5, <2>1 DEF d
<1> QED
  BY <1>3, <1>4, <1>5, <1>6

\* A state of the decoder.
Begun(text, partial) == [text |-> text, partial |-> partial]

\* The bytes of a character are none until the last one is there.
LEMMA ReadOfCode ==
  ASSUME NEW encoding \in Encoding, NEW c \in Char, NEW code, code = EncodeChar(c, encoding),
         NEW j \in Nat, j < Len(code), NEW p, IsFirst(p, code, j, Byte), NEW t \in Seq(Char),
         NEW after, after = ReadByte(Begun(t, p), code[j + 1], encoding)
  PROVE  /\ j + 1 < Len(code) =>
              \E q : IsFirst(q, code, j + 1, Byte) /\ after = Begun(t, q)
         /\ j + 1 = Len(code) => after = Begun(Append(t, c), <<>>)
<1> DEFINE q == Append(p, code[j + 1])
           chars == {d \in Char : EncodeChar(d, encoding) = q}
<1>1. code \in Seq(Byte)
  BY CodeType, CharsAreCodePoints
<1>2. IsFirst(q, code, j + 1, Byte)
  BY <1>1, FirstsGrow
<1>3. ASSUME NEW d \in Char, EncodeChar(d, encoding) = q PROVE d = c
  <2>1. IsFirst(EncodeChar(d, encoding), EncodeChar(c, encoding), j + 1, Byte)
    BY <1>2, <1>3
  <2>2. c \in CodePoint /\ d \in CodePoint
    BY CharsAreCodePoints
  <2>3. j + 1 \in Nat /\ j + 1 <= Len(EncodeChar(c, encoding))
    BY <1>1
  <2> QED
    BY <2>1, <2>2, <2>3, PrefixFree
<1>4. ReadByte(Begun(t, p), code[j + 1], encoding)
        = IF chars = {} THEN Begun(t, q)
          ELSE Begun(Append(t, CHOOSE d \in chars : TRUE), <<>>)
  BY DEF ReadByte, Begun
<1> HIDE DEF q
<1>5. ASSUME j + 1 < Len(code) PROVE chars = {}
  <2>1. ASSUME NEW d \in Char, EncodeChar(d, encoding) = q PROVE FALSE
    <3>1. code = q
      BY <1>3, <2>1
    <3>2. Len(q) = j + 1
      BY <1>2 DEF IsFirst
    <3> QED
      BY <1>1, <1>5, <3>1, <3>2
  <2> QED
    BY <2>1
<1>6. ASSUME j + 1 = Len(code) PROVE chars = {c}
  <2>1. q = code
    BY <1>1, <1>2, <1>6, AllOfFirst
  <2> QED
    BY <1>3, <2>1
<1>7. ASSUME chars = {c} PROVE chars # {} /\ (CHOOSE d \in chars : TRUE) = c
  BY <1>7
<1> QED
  BY <1>2, <1>4, <1>5, <1>6, <1>7

\* Where a text has been read, it is read with the next character too.
LEMMA CodeIsRead ==
  ASSUME NEW encoding \in Encoding, NEW c \in Char, NEW bytes \in Seq(Byte), NEW a,
         Within(bytes, a, EncodeChar(c, encoding), Byte),
         NEW g, IsDecoding(g, bytes, encoding), NEW t \in Seq(Char),
         g[Len(a)] = Begun(t, <<>>)
  PROVE  g[Len(a) + Len(EncodeChar(c, encoding))] = Begun(Append(t, c), <<>>)
<1> DEFINE code == EncodeChar(c, encoding)
           N == Len(code) - 1
           m == Len(a)
           Reading(j) == \E p : IsFirst(p, code, j, Byte) /\ g[m + j] = Begun(t, p)
           S == {j \in 0..N : Reading(j)}
<1>1. code \in Seq(Byte) /\ Len(code) \in Nat /\ Len(code) >= 1 /\ m \in Nat
  <2>1. a \in Seq(Byte)
    BY DEF Within
  <2> QED
    BY <2>1, CodeType, CharsAreCodePoints
<1>2. ASSUME NEW j \in 0..N
      PROVE  g[m + (j + 1)] = ReadByte(g[m + j], code[j + 1], encoding)
  <2>1. j + 1 \in 1..Len(code)
    BY <1>1
  <2>2. m + (j + 1) \in 1..Len(bytes) /\ bytes[m + (j + 1)] = code[j + 1]
    BY <2>1, ByteWithin
  <2>3. (m + (j + 1)) - 1 = m + j
    BY <1>1
  <2> HIDE DEF code, m
  <2> QED
    BY <2>2, <2>3 DEF IsDecoding
<1> HIDE DEF code
<1>3. ASSUME NEW j \in 0..N, Reading(j)
      PROVE  /\ j + 1 < Len(code) => Reading(j + 1)
             /\ j + 1 = Len(code) => g[m + (j + 1)] = Begun(Append(t, c), <<>>)
  <2>1. PICK p : IsFirst(p, code, j, Byte) /\ g[m + j] = Begun(t, p)
    BY <1>3
  <2>2. j \in Nat /\ j < Len(code)
    BY <1>1
  <2> DEFINE after == ReadByte(Begun(t, p), code[j + 1], encoding)
  <2>3. g[m + (j + 1)] = after
    BY <1>2, <2>1
  <2>4. /\ j + 1 < Len(code) =>
             \E q : IsFirst(q, code, j + 1, Byte) /\ after = Begun(t, q)
        /\ j + 1 = Len(code) => after = Begun(Append(t, c), <<>>)
    <3>1. code = EncodeChar(c, encoding)
      BY DEF code
    <3>2. after = ReadByte(Begun(t, p), code[j + 1], encoding)
      OBVIOUS
    <3>3. IsFirst(p, code, j, Byte)
      BY <2>1
    <3> HIDE DEF after
    <3> QED
      BY <2>2, <3>1, <3>2, <3>3, ReadOfCode
  <2> HIDE DEF after
  <2> QED
    BY <2>3, <2>4
<1>4. 0 \in S
  <2>1. IsFirst(<<>>, code, 0, Byte) /\ m + 0 = m /\ 0 \in 0..N
    BY <1>1, NoneIsFirst
  <2> QED
    BY <2>1
<1>5. ASSUME NEW j \in 0..(N - 1), j \in S PROVE j + 1 \in S
  <2>1. j \in 0..N /\ j + 1 \in 0..N /\ j + 1 < Len(code)
    BY <1>1
  <2>2. Reading(j)
    BY <1>5
  <2> HIDE DEF Reading, N
  <2>3. Reading(j + 1)
    BY <1>3, <2>1, <2>2
  <2> QED
    BY <2>1, <2>3
<1>6. N \in S
  <2>1. N \in Nat
    BY <1>1
  <2> HIDE DEF S, N
  <2>2. \A j \in 0..N : j \in S
    BY <1>4, <1>5, <2>1, UpTo, Zenon
  <2> QED
    BY <2>1, <2>2
<1>7. N \in 0..N /\ N + 1 = Len(code)
  BY <1>1
<1>8. Reading(N)
  BY <1>6
<1> HIDE DEF Reading, N
<1>9. g[m + (N + 1)] = Begun(Append(t, c), <<>>)
  BY <1>3, <1>7, <1>8
<1> QED
  BY <1>7, <1>9 DEF code

LEMMA FunctionIsSequence ==
  ASSUME NEW T, NEW n \in Nat, NEW f \in [1..n -> T]
  PROVE  f \in Seq(T) /\ Len(f) = n /\ \A i \in 1..n : f[i] \in T
OBVIOUS

\* A text is read from its bytes.
LEMMA DecodeEncoded ==
  ASSUME NEW text \in Seq(Char), NEW encoding \in Encoding
  PROVE  /\ Encode(text, encoding) \in Seq(Byte)
         /\ Decode(Encode(text, encoding), encoding) = [text |-> text, partial |-> <<>>]
<1> DEFINE N == Len(text)
           T == Seq(Byte)
           codes == [i \in 1..N |-> EncodeChar(text[i], encoding)]
           bytes == Encode(text, encoding)
<1>1. N \in Nat /\ \A i \in 1..N : text[i] \in Char
  OBVIOUS
<1>2. codes \in Seq(T) /\ Len(codes) = N
  <2>1. \A i \in 1..N : EncodeChar(text[i], encoding) \in T
    <3>1. ASSUME NEW c \in Char PROVE EncodeChar(c, encoding) \in T
      BY CodeType, CharsAreCodePoints
    <3> HIDE DEF T
    <3> QED
      BY <1>1, <3>1
  <2> HIDE DEF T
  <2>2. codes \in [1..N -> T]
    BY <2>1
  <2> HIDE DEF codes
  <2> QED
    BY <1>1, <2>2, FunctionIsSequence
<1>3. \A i \in 1..N : codes[i] = EncodeChar(text[i], encoding)
  OBVIOUS
<1>4. bytes = Joined(codes)
  BY DEF Encode
<1> HIDE DEF codes, bytes
<1>5. PICK f : IsJoints(f, codes, Byte) /\ bytes = f[N]
  BY <1>2, <1>4, JointsExist
<1>6. bytes \in Seq(Byte)
  BY <1>1, <1>2, <1>5 DEF IsJoints
<1>7. PICK g : IsDecoding(g, bytes, encoding) /\ Decode(bytes, encoding) = g[Len(bytes)]
  BY <1>6, DecodingExist
<1> DEFINE Read(i) == \E t : IsFirst(t, text, i, Char) /\ g[Len(f[i])] = Begun(t, <<>>)
           S == {i \in 0..N : Read(i)}
<1>8. 0 \in S
  <2>1. IsFirst(<<>>, text, 0, Char) /\ 0 \in 0..N
    BY <1>1, NoneIsFirst
  <2>2. f[0] = <<>> /\ Len(<<>>) = 0
    BY <1>5 DEF IsJoints
  <2>3. g[0] = Begun(<<>>, <<>>)
    BY <1>7 DEF IsDecoding, Begun
  <2> QED
    BY <2>1, <2>2, <2>3
<1>9. ASSUME NEW i \in 0..(N - 1), i \in S PROVE i + 1 \in S
  <2>1. i + 1 \in 1..N /\ i + 1 \in 0..N /\ (i + 1) - 1 = i /\ i \in Nat /\ i < N
    BY <1>1
  <2>2. PICK t : IsFirst(t, text, i, Char) /\ g[Len(f[i])] = Begun(t, <<>>)
    BY <1>9
  <2> DEFINE c == text[i + 1]
  <2>3. c \in Char /\ codes[i + 1] = EncodeChar(c, encoding)
    BY <1>1, <1>3, <2>1
  <2> HIDE DEF c, N
  <2>4. /\ Len(f[i + 1]) = Len(f[i]) + Len(codes[i + 1])
        /\ Within(bytes, f[i], codes[i + 1], Byte)
    <3>1. <<>> \in Seq(Byte) /\ bytes \o <<>> = bytes
      BY <1>6, EmptySeq, ConcatEmptySeq
    <3>2. i + 1 \in 1..Len(codes)
      BY <1>2, <2>1
    <3>3. /\ Len(f[i + 1]) = Len(f[(i + 1) - 1]) + Len(codes[i + 1])
          /\ Within(f[Len(codes)] \o <<>>, f[(i + 1) - 1], codes[i + 1], Byte)
      BY <1>2, <1>5, <3>1, <3>2, PlaceInJoint
    <3> QED
      BY <1>2, <1>5, <2>1, <3>1, <3>3
  <2>5. t \in Seq(Char)
    BY <2>2 DEF IsFirst
  <2>6. g[Len(f[i]) + Len(EncodeChar(c, encoding))] = Begun(Append(t, c), <<>>)
    <3>1. Within(bytes, f[i], EncodeChar(c, encoding), Byte)
      BY <2>3, <2>4
    <3>2. IsDecoding(g, bytes, encoding) /\ g[Len(f[i])] = Begun(t, <<>>)
      BY <1>7, <2>2
    <3> DEFINE a == f[i]
    <3> HIDE DEF a
    <3>3. Within(bytes, a, EncodeChar(c, encoding), Byte) /\ g[Len(a)] = Begun(t, <<>>)
      BY <3>1, <3>2 DEF a
    <3>4. c \in Char
      BY <2>3
    <3>5. g[Len(a) + Len(EncodeChar(c, encoding))] = Begun(Append(t, c), <<>>)
      BY <1>6, <2>5, <3>2, <3>3, <3>4, CodeIsRead
    <3> QED
      BY <3>5 DEF a
  <2>7. IsFirst(Append(t, c), text, i + 1, Char)
    BY <2>1, <2>2, FirstsGrow DEF c, N
  <2>8. g[Len(f[i + 1])] = Begun(Append(t, c), <<>>)
    BY <2>3, <2>4, <2>6
  <2> QED
    BY <2>1, <2>7, <2>8
<1>10. N \in S
  <2> HIDE DEF S, N
  <2>2. \A i \in 0..N : i \in S
    BY <1>1, <1>8, <1>9, UpTo, Zenon
  <2> QED
    BY <1>1, <2>2
<1>11. PICK t : IsFirst(t, text, N, Char) /\ g[Len(f[N])] = Begun(t, <<>>)
  BY <1>10
<1>12. t = text
  BY <1>11, AllOfFirst
<1> QED
  BY <1>5, <1>6, <1>7, <1>11, <1>12 DEF bytes, Begun

\* The zeros at the end go, and no more.
LEMMA Stripped ==
  ASSUME NEW text \in Seq(Char)
  PROVE  \E m \in 0..Len(text) :
           /\ StripZeros(text) = [i \in 1..m |-> text[i]]
           /\ m = 0 \/ text[m] # 0
           /\ \A i \in (m + 1)..Len(text) : text[i] = 0
<1> DEFINE N == Len(text)
           Last(m, k) == (m = 0 \/ text[m] # 0) /\ \A i \in (m + 1)..k : text[i] = 0
           S == {k \in 0..N : \E m \in 0..k : Last(m, k)}
<1>1. N \in Nat
  OBVIOUS
<1>2. 0 \in S
  <2>1. 0 \in 0..0 /\ Last(0, 0) /\ 0 \in 0..N
    BY <1>1
  <2> QED
    BY <2>1
<1>3. ASSUME NEW k \in 0..(N - 1), k \in S PROVE k + 1 \in S
  <2>1. PICK m \in 0..k : Last(m, k)
    BY <1>3
  <2>2. k + 1 \in 0..N /\ m \in 0..(k + 1) /\ k + 1 \in 0..(k + 1)
    BY <1>1
  <2>3. CASE text[k + 1] = 0
    <3>1. Last(m, k + 1)
      <4>1. ASSUME NEW i \in (m + 1)..(k + 1) PROVE text[i] = 0
        <5>1. i \in (m + 1)..k \/ i = k + 1
          OBVIOUS
        <5> QED
          BY <2>1, <2>3, <5>1
      <4> QED
        BY <2>1, <4>1
    <3> HIDE DEF Last
    <3> QED
      BY <2>2, <3>1
  <2>4. CASE text[k + 1] # 0
    <3>1. Last(k + 1, k + 1)
      BY <2>4
    <3> HIDE DEF Last
    <3> QED
      BY <2>2, <3>1
  <2> QED
    BY <2>3, <2>4
<1>4. N \in S
  <2> HIDE DEF S, N
  <2>2. \A i \in 0..N : i \in S
    BY <1>1, <1>2, <1>3, UpTo, Zenon
  <2> QED
    BY <1>1, <2>2
<1>5. PICK m \in 0..N : Last(m, N)
  BY <1>4
<1> DEFINE D == {i \in 1..N : \E j \in i..N : text[j] # 0}
<1>6. D = 1..m
  <2>1. ASSUME NEW i \in 1..m PROVE i \in D
    <3>1. i \in 1..N /\ m \in i..N /\ m # 0
      BY <1>1
    <3> QED
      BY <1>5, <3>1
  <2>2. ASSUME NEW i \in D PROVE i \in 1..m
    <3>1. PICK j \in i..N : text[j] # 0
      OBVIOUS
    <3>2. ~(j \in (m + 1)..N)
      BY <1>5, <3>1
    <3> QED
      BY <3>2
  <2> HIDE DEF D, Last
  <2> QED
    BY <2>1, <2>2
<1>7. StripZeros(text) = [i \in D |-> text[i]]
  BY DEF StripZeros
<1> HIDE DEF D
<1>8. StripZeros(text) = [i \in 1..m |-> text[i]]
  BY <1>6, <1>7
<1> QED
  BY <1>5, <1>8

LEMMA StripType ==
  ASSUME NEW text \in Seq(Char)
  PROVE  StripZeros(text) \in Seq(Char) /\ ~EndsInZero(StripZeros(text))
<1>1. PICK m \in 0..Len(text) : /\ StripZeros(text) = [i \in 1..m |-> text[i]]
                                /\ m = 0 \/ text[m] # 0
  BY Stripped
<1> DEFINE s == StripZeros(text)
<1>2. s \in [1..m -> Char] /\ m \in Nat
  <2>1. \A i \in 1..m : text[i] \in Char
    OBVIOUS
  <2> QED
    BY <1>1, <2>1
<1>3. s \in Seq(Char) /\ Len(s) = m
  <2> HIDE DEF s
  <2> QED
    BY <1>2, FunctionIsSequence
<1>4. m # 0 => s[m] = text[m]
  <2>1. m # 0 => m \in 1..m
    BY <1>2
  <2> QED
    BY <1>1, <2>1
<1>5. ~EndsInZero(s)
  <2> HIDE DEF s
  <2>1. s # <<>> => m # 0
    BY <1>3, EmptySeq
  <2> QED
    BY <1>1, <1>3, <1>4, <2>1 DEF EndsInZero
<1> QED
  BY <1>3, <1>5

LEMMA StripFilled ==
  ASSUME NEW text \in Seq(Char), NEW data \in Seq(Char), ~EndsInZero(data),
         Len(data) <= Len(text), \A i \in 1..Len(data) : text[i] = data[i],
         \A i \in (Len(data) + 1)..Len(text) : text[i] = 0
  PROVE  StripZeros(text) = data
<1>1. PICK m \in 0..Len(text) : /\ StripZeros(text) = [i \in 1..m |-> text[i]]
                                /\ m = 0 \/ text[m] # 0
                                /\ \A i \in (m + 1)..Len(text) : text[i] = 0
  BY Stripped
<1> DEFINE k == Len(data)
<1>2. k \in Nat /\ Len(text) \in Nat
  OBVIOUS
<1>3. k # 0 => text[k] # 0
  <2>1. k # 0 => data # <<>> /\ k \in 1..k
    BY <1>2
  <2> QED
    BY <2>1 DEF EndsInZero
<1> HIDE DEF k
<1>4. m = k
  <2>1. ~(m < k)
    <3>1. m < k => k \in (m + 1)..Len(text) /\ k # 0
      BY <1>2 DEF k
    <3> QED
      BY <1>1, <1>3, <3>1
  <2>2. ~(m > k)
    <3>1. m > k => m \in (k + 1)..Len(text) /\ m # 0
      BY <1>2
    <3> QED
      BY <1>1, <3>1 DEF k
  <2> QED
    BY <1>2, <2>1, <2>2
<1>5. data = [i \in 1..k |-> text[i]]
  <2>1. data = [i \in 1..k |-> data[i]]
    BY DEF k
  <2> QED
    BY <2>1 DEF k
<1> QED
  BY <1>1, <1>4, <1>5

-----------------------------------------------------------------------------
(* Numbers and strings.                                                    *)

LEMMA KindsOfBasic ==
  ASSUME NEW o \in Basic
  PROVE  /\ o \in Scalars \/ o \in FixedStrings \/ o \in DynamicStrings
         /\ o \in FixedStrings <=> o.type = "FixedString"
         /\ o \in DynamicStrings <=> o.type = "DynamicString"
         /\ o \in Scalars <=> o.type # "FixedString" /\ o.type # "DynamicString"
         /\ ~IsContainer(o)
<1>1. o \in Scalars => o.type \in {"Uint", "Sint", "Bool", "Float"}
  BY DEF Scalars
<1>2. o \in FixedStrings => o.type = "FixedString"
  BY DEF FixedStrings
<1>3. o \in DynamicStrings => o.type = "DynamicString"
  BY DEF DynamicStrings
<1>4. o \in Scalars \/ o \in FixedStrings \/ o \in DynamicStrings
  BY DEF Basic
<1> QED
  BY <1>1, <1>2, <1>3, <1>4 DEF IsContainer

LEMMA BomType ==
  ASSUME NEW e \in Encoding
  PROVE  /\ Bom(e) \in Seq(Byte) /\ Len(Bom(e)) \in Nat /\ Len(Bom(e)) >= 1
         /\ UnitSize(e) \in Nat
<1>1. 239 \in Byte /\ 187 \in Byte /\ 191 \in Byte /\ 254 \in Byte /\ 255 \in Byte
  BY DEF Byte
<1>2. IsCode3(<<239, 187, 191>>, 239, 187, 191)
  BY <1>1, ShortCode3
<1>3. IsCode2(<<255, 254>>, 255, 254) /\ IsCode2(<<254, 255>>, 254, 255)
  BY <1>1, ShortCode2
<1>4. Bom(e) = <<239, 187, 191>> \/ Bom(e) = <<255, 254>> \/ Bom(e) = <<254, 255>>
  BY DEF Bom, Encoding
<1>5. Bom(e) \in Seq(Byte) /\ (Len(Bom(e)) = 2 \/ Len(Bom(e)) = 3)
  <2> DEFINE b == Bom(e)
  <2>1. b \in Seq(Byte) /\ (Len(b) = 3 \/ Len(b) = 2)
    <3>1. <<239, 187, 191>> \in Seq(Byte) /\ Len(<<239, 187, 191>>) = 3
      BY <1>2 DEF IsCode3
    <3>2. <<255, 254>> \in Seq(Byte) /\ Len(<<255, 254>>) = 2
      BY <1>3 DEF IsCode2
    <3>3. <<254, 255>> \in Seq(Byte) /\ Len(<<254, 255>>) = 2
      BY <1>3 DEF IsCode2
    <3>4. b = <<239, 187, 191>> => b \in Seq(Byte) /\ Len(b) = 3
      BY <3>1, Zenon
    <3>5. b = <<255, 254>> => b \in Seq(Byte) /\ Len(b) = 2
      BY <3>2, Zenon
    <3>6. b = <<254, 255>> => b \in Seq(Byte) /\ Len(b) = 2
      BY <3>3, Zenon
    <3> HIDE DEF b
    <3> QED
      BY <1>4, <3>4, <3>5, <3>6, Zenon DEF b
  <2> QED
    BY <2>1
<1>6. UnitSize(e) \in Nat
  BY DEF UnitSize
<1>7. Len(Bom(e)) \in Nat /\ Len(Bom(e)) >= 1
  <2> DEFINE n == Len(Bom(e))
  <2>1. n = 2 \/ n = 3
    BY <1>5
  <2> HIDE DEF n
  <2>2. n \in Nat /\ n >= 1
    BY <2>1
  <2> QED
    BY <2>2 DEF n
<1> QED
  BY <1>5, <1>6, <1>7

\* The byte order mark tells the encoding.
LEMMA MarkIsKnown ==
  ASSUME NEW e \in Encoding, NEW bytes \in Seq(Byte)
  PROVE  Marked(Bom(e) \o bytes) = {e}
<1> DEFINE s == Bom(e) \o bytes
           First(d) == CASE d = "utf-8" -> 239 [] d = "utf-16le" -> 255 [] d = "utf-16be" -> 254
<1>1. ASSUME NEW d \in Encoding PROVE Bom(d)[1] = First(d) /\ 1 \in 1..Len(Bom(d))
  <2>1. /\ (<<239, 187, 191>>)[1] = 239 /\ (<<255, 254>>)[1] = 255 /\ (<<254, 255>>)[1] = 254
    OBVIOUS
  <2>2. Bom(d)[1] = First(d)
    BY <2>1 DEF Bom, Encoding
  <2> QED
    BY <2>2, BomType
<1>2. s \in Seq(Byte) /\ s[1] = First(e) /\ Len(s) \in Nat /\ Len(s) >= 1
  <2> DEFINE b == Bom(e)
  <2>1. b \in Seq(Byte) /\ 1 \in 1..Len(b) /\ b[1] = First(e) /\ Len(b) \in Nat /\ Len(b) >= 1
    BY <1>1, BomType
  <2> HIDE DEF b, First
  <2>2. 1 \in 1..Len(b) + Len(bytes) /\ 1 <= Len(b) /\ Len(bytes) \in Nat
    BY <2>1
  <2>3. (b \o bytes)[1] = b[1]
    BY <2>1, <2>2, ConcatProperties
  <2>4. b \o bytes \in Seq(Byte) /\ Len(b \o bytes) = Len(b) + Len(bytes)
    BY <2>1, ConcatProperties
  <2>5. Len(b \o bytes) \in Nat /\ Len(b \o bytes) >= 1
    BY <2>1, <2>2, <2>4
  <2> QED
    BY <2>1, <2>3, <2>4, <2>5 DEF b
<1> HIDE DEF s
<1>3. ASSUME NEW d \in Encoding, Slice(s, 0, Len(Bom(d))) = Bom(d) PROVE d = e
  <2> DEFINE n == IF Len(Bom(d)) < Len(s) THEN Len(Bom(d)) ELSE Len(s)
  <2>1. n \in Nat /\ n >= 1 /\ n <= Len(s)
    BY <1>2, BomType
  <2>2. SubSeq(s, 1, n) = Bom(d)
    BY <1>3 DEF Slice
  <2> HIDE DEF n
  <2>3. \A i \in 1..n : s[i] \in Byte
    BY <1>2, <2>1
  <2>4. SubSeq(s, 1, n)[1] = s[1]
    <3> DEFINE m == 1
    <3>0. m \in Int /\ m = 1 /\ \A i \in m..n : s[i] \in Byte
      BY <2>3
    <3> HIDE DEF m, First
    <3>1. m \in 1..n - m + 1 /\ m + m - 1 = m
      BY <2>1, <3>0
    <3>2. \A i \in 1..n - m + 1 : SubSeq(s, m, n)[i] = s[m + i - 1]
      BY <1>2, <2>1, <3>0, SubSeqProperties
    <3>3. SubSeq(s, m, n)[m] = s[m]
      BY <3>1, <3>2
    <3> QED
      BY <3>0, <3>3
  <2>5. First(d) = First(e)
    <3>1. Bom(d)[1] = s[1]
      BY <2>2, <2>4
    <3>2. Bom(d)[1] = First(d) /\ s[1] = First(e)
      BY <1>1, <1>2
    <3> HIDE DEF First
    <3> QED
      BY <3>1, <3>2
  <2> QED
    BY <2>5 DEF Encoding
<1>4. Slice(s, 0, Len(Bom(e))) = Bom(e)
  BY BomType, SliceOfFirst DEF s
<1>5. Marked(s) = {e}
  BY <1>3, <1>4 DEF Marked
<1> QED
  BY <1>5 DEF s

LEMMA LengthOfBasic ==
  ASSUME NEW o \in Basic
  PROVE  BasicLength(o) \in Nat
<1>1. CASE o.type = "FixedString"
  <2>1. o.size \in Nat /\ o.encoding \in Encoding
    BY <1>1, KindsOfBasic DEF FixedStrings
  <2>2. Len(Bom(o.encoding)) \in Nat /\ UnitSize(o.encoding) \in Nat
    BY <2>1, BomType
  <2>3. o.size * UnitSize(o.encoding) + Len(Bom(o.encoding)) \in Nat
    BY <2>1, <2>2
  <2> QED
    BY <1>1, <2>3 DEF BasicLength, FixedStringLength
<1>2. CASE o.type = "DynamicString"
  <2>1. o.fieldLength \in Nat /\ o.length \in Nat
    BY <1>2, KindsOfBasic DEF DynamicStrings
  <2> QED
    BY <1>2, <2>1 DEF BasicLength
<1>3. CASE o.type # "FixedString" /\ o.type # "DynamicString"
  <2>1. o.width \in Nat
    BY <1>3, KindsOfBasic DEF Scalars
  <2> QED
    BY <1>3, <2>1 DEF BasicLength
<1> QED
  BY <1>1, <1>2, <1>3

LEMMA ScalarFields ==
  ASSUME NEW o \in Scalars, NEW n \in Int
  PROVE  /\ o.type \in {"Uint", "Sint", "Bool", "Float"} /\ o.width \in Nat \ {0} /\ o.value \in Int
         /\ [o EXCEPT !.value = n] \in Scalars
         /\ [o EXCEPT !.value = n].type = o.type
         /\ [o EXCEPT !.value = n].width = o.width
         /\ [o EXCEPT !.value = n].value = n
BY DEF Scalars

LEMMA ScalarsEqual ==
  ASSUME NEW o \in Scalars, NEW p \in Scalars,
         o.type = p.type, o.width = p.width, o.value = p.value
  PROVE  o = p
BY DEF Scalars

LEMMA ScalarIsWritten ==
  ASSUME NEW o \in Scalars
  PROVE  /\ SerializeScalar(o) \in Result
         /\ SerializeScalar(o).ok => Len(SerializeScalar(o).bytes) = o.width
<1>1. o.width \in Nat /\ o.width \in Nat \ {0} /\ o.value \in Int
  BY ScalarFields, 0 \in Int
<1>2. CASE o.type = "Sint"
  <2>1. SerializeScalar(o) = PackSigned(o.value, o.width)
    BY <1>2 DEF SerializeScalar
  <2> QED
    BY <1>1, <2>1, SignedRoundTrip
<1>3. CASE o.type # "Sint"
  <2>1. SerializeScalar(o) = PackUnsigned(o.value, o.width)
    BY <1>3 DEF SerializeScalar
  <2> QED
    BY <1>1, <2>1, UnsignedRoundTrip
<1> QED
  BY <1>2, <1>3

\* The number that bytes are read as.
NumberIn(type, bytes) == IF type = "Sint" THEN UnpackSigned(bytes) ELSE UnpackUnsigned(bytes)

LEMMA ScalarIsRead ==
  ASSUME NEW o \in Scalars, NEW bytes \in Seq(Byte), NEW read, read = DeserializeScalar(o, bytes)
  PROVE  /\ read.ok \in BOOLEAN /\ read.object \in Scalars
         /\ read.object.type = o.type /\ read.object.width = o.width
         /\ SerializeScalar(o).ok => SerializeScalar(read.object).ok
         /\ o.type = "Bool" /\ o.value \in {0, 1} => read.object.value \in {0, 1}
<1> DEFINE n == NumberIn(o.type, bytes)
           q == [o EXCEPT !.value = n]
<1>1. CASE Len(bytes) # o.width
  <2>1. read.ok = FALSE /\ read.object = o
    BY <1>1 DEF DeserializeScalar, Broken
  <2> QED
    BY <2>1
<1>2. CASE Len(bytes) = o.width
  <2>1. o.width \in Nat \ {0}
    BY ScalarFields, 0 \in Int
  <2>2. n \in Int /\ (o.type # "Sint" => n \in Nat)
    BY <1>2, <2>1, ReadIsInRange DEF NumberIn
  <2>3. read.ok = TRUE /\ read.object = IF o.type = "Bool" /\ n > 1 THEN o ELSE q
    BY <1>2 DEF DeserializeScalar, Done, NumberIn
  <2> HIDE DEF n
  <2>4. q \in Scalars /\ q.type = o.type /\ q.width = o.width /\ q.value = n
    BY <2>2, ScalarFields
  <2> HIDE DEF q
  <2>5. SerializeScalar(q).ok
    <3>1. CASE o.type = "Sint"
      <4>1. PackSigned(n, o.width).ok
        BY <1>2, <2>1, <3>1, ReadIsInRange DEF n, NumberIn
      <4> QED
        BY <2>4, <3>1, <4>1 DEF SerializeScalar
    <3>2. CASE o.type # "Sint"
      <4>1. PackUnsigned(n, o.width).ok
        BY <1>2, <3>2, ReadIsInRange DEF n, NumberIn
      <4> QED
        BY <2>4, <3>2, <4>1 DEF SerializeScalar
    <3> QED
      BY <3>1, <3>2
  <2>6. CASE o.type = "Bool" /\ n > 1
    BY <2>3, <2>6
  <2>7. CASE ~(o.type = "Bool" /\ n > 1)
    <3>1. read.object = q
      BY <2>3, <2>7
    <3>2. o.type = "Bool" => n \in {0, 1}
      BY <2>2, <2>7
    <3> QED
      BY <2>3, <2>4, <2>5, <3>1, <3>2
  <2> QED
    BY <2>6, <2>7
<1> QED
  BY <1>1, <1>2

LEMMA ScalarRoundTrip ==
  ASSUME NEW o \in Scalars, NEW p \in Scalars, o.type = p.type, o.width = p.width,
         o.type = "Bool" => o.value \in {0, 1}, SerializeScalar(o).ok
  PROVE  DeserializeScalar(p, SerializeScalar(o).bytes) = Done(o)
<1> DEFINE bytes == SerializeScalar(o).bytes
           q == [p EXCEPT !.value = o.value]
<1>1. o.width \in Nat /\ o.width \in Nat \ {0} /\ o.value \in Int
  BY ScalarFields, 0 \in Int
<1>2. Len(bytes) = p.width
  BY ScalarIsWritten
<1>3. NumberIn(p.type, bytes) = o.value
  <2>1. CASE o.type = "Sint"
    <3>1. SerializeScalar(o) = PackSigned(o.value, o.width)
      BY <2>1 DEF SerializeScalar
    <3> QED
      BY <1>1, <2>1, <3>1, SignedRoundTrip DEF NumberIn
  <2>2. CASE o.type # "Sint"
    <3>1. SerializeScalar(o) = PackUnsigned(o.value, o.width)
      BY <2>2 DEF SerializeScalar
    <3> QED
      BY <1>1, <2>2, <3>1, UnsignedRoundTrip DEF NumberIn
  <2> QED
    BY <2>1, <2>2
<1> HIDE DEF bytes
<1>4. ~(p.type = "Bool" /\ o.value > 1)
  BY <1>1
<1>5. DeserializeScalar(p, bytes) = Done(q)
  BY <1>2, <1>3, <1>4 DEF DeserializeScalar, NumberIn
<1>6. q = o
  <2>1. q \in Scalars /\ q.type = p.type /\ q.width = p.width /\ q.value = o.value
    BY <1>1, ScalarFields
  <2> HIDE DEF q
  <2> QED
    BY <2>1, ScalarsEqual
<1> QED
  BY <1>5, <1>6 DEF bytes

\* A text and the zeros that fill it up.
IsFilled(text, data, k) == text = data \o [i \in 1..k |-> 0]

LEMMA FilledText ==
  ASSUME NEW data \in Seq(Char), NEW k \in Int, NEW text, IsFilled(text, data, k)
  PROVE  /\ text \in Seq(Char) /\ Len(data) <= Len(text)
         /\ \A i \in 1..Len(data) : text[i] = data[i]
         /\ \A i \in (Len(data) + 1)..Len(text) : text[i] = 0
<1> DEFINE n == IF k < 0 THEN 0 ELSE k
           z == [i \in 1..k |-> 0]
<1>1. n \in Nat /\ 1..k = 1..n
  OBVIOUS
<1>2. z \in [1..n -> Char] /\ \A i \in 1..n : z[i] = 0
  BY <1>1, CharAssumption, SMT
<1> HIDE DEF z, n
<1>3. z \in Seq(Char) /\ Len(z) = n
  BY <1>1, <1>2, FunctionIsSequence
<1> DEFINE m == Len(data)
<1>4. m \in Nat
  OBVIOUS
<1>5. /\ text \in Seq(Char) /\ Len(text) = m + n
      /\ \A i \in 1..m + n : text[i] = IF i <= m THEN data[i] ELSE z[i - m]
  BY <1>3, ConcatProperties DEF z, IsFilled
<1> HIDE DEF m
<1>6. \A i \in 1..m : i \in 1..m + n /\ i <= m
  BY <1>1, <1>4
<1>7. \A i \in (m + 1)..(m + n) : i \in 1..m + n /\ ~(i <= m) /\ i - m \in 1..n
  BY <1>1, <1>4
<1>8. \A i \in 1..m : text[i] = data[i]
  BY <1>5, <1>6
<1>9. \A i \in (m + 1)..Len(text) : text[i] = 0
  BY <1>2, <1>5, <1>7
<1>10. m <= Len(text)
  <2>1. n \in Nat
    BY <1>1
  <2>2. m <= m + n
    BY <1>4, <2>1
  <2> QED
    BY <1>5, <2>2
<1> QED
  BY <1>5, <1>8, <1>9, <1>10 DEF m

LEMMA FixedFields ==
  ASSUME NEW o \in FixedStrings, NEW d \in Seq(Char), NEW e \in Encoding
  PROVE  /\ o.type = "FixedString" /\ o.size \in Nat /\ o.data \in Seq(Char)
         /\ o.encoding \in Encoding
         /\ [o EXCEPT !.encoding = e] \in FixedStrings
         /\ [o EXCEPT !.encoding = e].size = o.size
         /\ [o EXCEPT !.encoding = e].data = o.data
         /\ [o EXCEPT !.encoding = e].encoding = e
         /\ [o EXCEPT !.data = d] \in FixedStrings
         /\ [o EXCEPT !.data = d].size = o.size
         /\ [o EXCEPT !.data = d].data = d
         /\ [o EXCEPT !.data = d].encoding = o.encoding
BY DEF FixedStrings

LEMMA Lengths ==
  ASSUME NEW length \in Int, NEW bytes \in Seq(Byte)
  PROVE  /\ Asserted(bytes, length) \in Result
         /\ Asserted(bytes, length).ok =>
              Len(bytes) = length /\ Asserted(bytes, length).bytes = bytes
<1>1. CASE Len(bytes) = length
  BY <1>1, ResultTypes DEF Asserted
<1>2. CASE Len(bytes) # length
  BY <1>2, ResultTypes DEF Asserted
<1> QED
  BY <1>1, <1>2

\* What a fixed string is written as.
LEMMA FixedIsWritten ==
  ASSUME NEW o \in FixedStrings,
         NEW text, text = o.data \o [i \in 1..(o.size - Len(o.data)) |-> 0],
         NEW code, code = Encode(text, o.encoding)
  PROVE  /\ text \in Seq(Char) /\ code \in Seq(Byte)
         /\ SerializeFixedString(o) \in Result
         /\ SerializeFixedString(o).ok =>
              /\ SerializeFixedString(o).bytes = Bom(o.encoding) \o code
              /\ Len(code) = o.size * UnitSize(o.encoding)
              /\ Len(SerializeFixedString(o).bytes) = FixedStringLength(o)
<1> DEFINE bom == Bom(o.encoding)
           size == o.size * UnitSize(o.encoding)
           result == SerializeFixedString(o)
<1>1. o.size \in Nat /\ o.data \in Seq(Char) /\ o.encoding \in Encoding
  <2>1. <<>> \in Seq(Char) /\ "utf-8" \in Encoding
    BY DEF Encoding
  <2> QED
    BY <2>1, FixedFields
<1>2. text \in Seq(Char)
  <2> DEFINE data == o.data
             k == o.size - Len(data)
  <2>1. k \in Int /\ data \in Seq(Char) /\ IsFilled(text, data, k)
    BY <1>1 DEF IsFilled
  <2> HIDE DEF data, k
  <2> QED
    BY <2>1, FilledText
<1>3. code \in Seq(Byte)
  BY <1>1, <1>2, DecodeEncoded
<1>4. bom \in Seq(Byte) /\ Len(bom) \in Nat /\ size \in Nat
  <2>1. UnitSize(o.encoding) \in Nat
    BY <1>1, BomType
  <2> QED
    BY <1>1, <2>1, BomType
<1>5. result = Asserted(bom \o code, Len(bom) + size)
  BY DEF SerializeFixedString
<1>6. FixedStringLength(o) = size + Len(bom)
  BY DEF FixedStringLength
<1> HIDE DEF bom, size, result
<1>7. bom \o code \in Seq(Byte) /\ Len(bom \o code) = Len(bom) + Len(code)
  BY <1>3, <1>4, ConcatProperties
<1>8. Len(bom) + size \in Int /\ Len(code) \in Nat
  BY <1>3, <1>4
<1>9. /\ result \in Result
      /\ result.ok => Len(bom \o code) = Len(bom) + size /\ result.bytes = bom \o code
  BY <1>5, <1>7, <1>8, Lengths
<1>10. result.ok => Len(code) = size /\ Len(result.bytes) = size + Len(bom)
  BY <1>4, <1>7, <1>8, <1>9
<1> QED
  BY <1>2, <1>3, <1>6, <1>9, <1>10 DEF bom, size, result

LEMMA FixedIsRead ==
  ASSUME NEW o \in FixedStrings, NEW bytes \in Seq(Byte),
         NEW read, read = DeserializeFixedString(o, bytes)
  PROVE  /\ read.ok \in BOOLEAN /\ read.object \in FixedStrings
         /\ read.object.size = o.size
         /\ Len(o.data) < o.size => Len(read.object.data) < o.size
         /\ ~EndsInZero(o.data) => ~EndsInZero(read.object.data)
<1> DEFINE e == CHOOSE e \in Marked(bytes) : TRUE
           start == Len(Bom(e))
           decoded == Decode(Slice(bytes, start, start + o.size * UnitSize(e)), e)
           text == StripZeros(decoded.text)
           known == [o EXCEPT !.encoding = e]
<1>0. o.size \in Nat /\ o.data \in Seq(Char)
  <2>1. <<>> \in Seq(Char) /\ "utf-8" \in Encoding
    BY DEF Encoding
  <2> QED
    BY <2>1, FixedFields
<1>1. CASE Marked(bytes) = {}
  <2>1. read.ok = FALSE /\ read.object = o
    BY <1>1 DEF DeserializeFixedString, Broken
  <2> QED
    BY <2>1
<1>2. CASE Marked(bytes) # {}
  <2>1. e \in Encoding
    BY <1>2 DEF Marked
  <2> HIDE DEF e
  <2>2. start \in Nat /\ start + o.size * UnitSize(e) \in Nat
    <3>1. start \in Nat /\ UnitSize(e) \in Nat
      BY <2>1, BomType
    <3> HIDE DEF start
    <3>2. o.size * UnitSize(e) \in Nat
      BY <1>0, <3>1
    <3> QED
      BY <3>1, <3>2
  <2>3. decoded.text \in Seq(Char)
    <3> DEFINE end == start + o.size * UnitSize(e)
               slice == Slice(bytes, start, end)
    <3>1. slice \in Seq(Byte)
      BY <2>2, SliceType
    <3> HIDE DEF slice
    <3>2. PICK f : IsDecoding(f, slice, e) /\ Decode(slice, e) = f[Len(slice)]
      BY <3>1, DecodingExist
    <3>3. Decode(slice, e) \in [text : Seq(Char), partial : Seq(Byte)]
      BY <3>1, <3>2 DEF IsDecoding
    <3> QED
      BY <3>3 DEF slice
  <2>4. read = IF Undecodable(decoded) \/ Len(text) > o.size - 1 THEN Broken(known)
               ELSE Done([known EXCEPT !.data = text])
    BY <1>2 DEF DeserializeFixedString, e
  <2> HIDE DEF decoded
  <2>5. text \in Seq(Char) /\ ~EndsInZero(text)
    BY <2>3, StripType
  <2> HIDE DEF text
  <2>6. known \in FixedStrings /\ known.size = o.size /\ known.data = o.data
    BY <1>0, <2>1, FixedFields
  <2> HIDE DEF known
  <2>7. CASE Undecodable(decoded) \/ Len(text) > o.size - 1
    <3>1. read.ok = FALSE /\ read.object = known
      BY <2>4, <2>7 DEF Broken
    <3> QED
      BY <2>6, <3>1
  <2>8. CASE ~(Undecodable(decoded) \/ Len(text) > o.size - 1)
    <3> DEFINE q == [known EXCEPT !.data = text]
    <3>1. read.ok = TRUE /\ read.object = q
      BY <2>4, <2>8 DEF Done
    <3>2. q \in FixedStrings /\ q.size = o.size /\ q.data = text
      BY <2>1, <2>5, <2>6, FixedFields
    <3>3. Len(text) < o.size
      BY <1>0, <2>5, <2>8
    <3> HIDE DEF q
    <3> QED
      BY <2>5, <3>1, <3>2, <3>3
  <2> QED
    BY <2>7, <2>8
<1> QED
  BY <1>1, <1>2

LEMMA FixedRoundTrip ==
  ASSUME NEW o \in FixedStrings, NEW p \in FixedStrings, o.size = p.size,
         Len(o.data) < o.size, ~EndsInZero(o.data), SerializeFixedString(o).ok,
         NEW read, read = DeserializeFixedString(p, SerializeFixedString(o).bytes)
  PROVE  read.ok /\ read.object.data = o.data /\ read.object.encoding = o.encoding
<1> DEFINE e == o.encoding
           bytes == SerializeFixedString(o).bytes
           text == o.data \o [i \in 1..(o.size - Len(o.data)) |-> 0]
           code == Encode(text, e)
           bom == Bom(e)
<1>1. o.size \in Nat /\ o.data \in Seq(Char) /\ e \in Encoding
  <2>1. <<>> \in Seq(Char) /\ "utf-8" \in Encoding
    BY DEF Encoding
  <2> QED
    BY <2>1, FixedFields
<1>2. /\ text \in Seq(Char) /\ code \in Seq(Byte)
      /\ bytes = bom \o code /\ Len(code) = o.size * UnitSize(e)
  BY FixedIsWritten
<1>3. bom \in Seq(Byte)
  BY <1>1, BomType
<1> DEFINE decoded == Decode(code, e)
<1>4. decoded = [text |-> text, partial |-> <<>>]
  BY <1>1, <1>2, DecodeEncoded
<1>5. StripZeros(text) = o.data
  <2> DEFINE data == o.data
             k == o.size - Len(data)
  <2>1. /\ k \in Int /\ data \in Seq(Char) /\ IsFilled(text, data, k)
        /\ ~EndsInZero(data)
    BY <1>1 DEF IsFilled
  <2> HIDE DEF k, text, data
  <2>2. /\ text \in Seq(Char) /\ Len(data) <= Len(text)
        /\ \A i \in 1..Len(data) : text[i] = data[i]
        /\ \A i \in (Len(data) + 1)..Len(text) : text[i] = 0
    BY <2>1, FilledText
  <2> QED
    BY <2>1, <2>2, StripFilled DEF data
<1> HIDE DEF text, decoded, code, bom, bytes
<1>6. Marked(bytes) = {e}
  BY <1>1, <1>2, MarkIsKnown DEF bom
<1>7. Slice(bytes, Len(bom), Len(bom) + p.size * UnitSize(e)) = code
  <2>1. <<>> \in Seq(Byte) /\ bytes = bom \o (code \o <<>>)
    BY <1>2, EmptySeq, ConcatEmptySeq
  <2>2. Slice(bom \o (code \o <<>>), Len(bom), Len(bom) + Len(code)) = code
    BY <1>2, <1>3, <2>1, SliceOfMiddle
  <2> QED
    BY <1>2, <2>1, <2>2
<1> DEFINE d == CHOOSE x \in Marked(bytes) : TRUE
           known == [p EXCEPT !.encoding = e]
           q == [known EXCEPT !.data = o.data]
<1>8. Marked(bytes) # {} /\ d = e
  BY <1>6
<1>9. ~Undecodable(decoded) /\ StripZeros(decoded.text) = o.data
  BY <1>4, <1>5 DEF Undecodable
<1>10. ~(Len(o.data) > p.size - 1)
  BY <1>1
<1>11. read = Done(q)
  <2> DEFINE there == Decode(Slice(bytes, Len(Bom(d)), Len(Bom(d)) + p.size * UnitSize(d)), d)
  <2>1. there = decoded
    BY <1>7, <1>8 DEF decoded, bom
  <2>2. read = IF Undecodable(there) \/ Len(StripZeros(there.text)) > p.size - 1
                 THEN Broken([p EXCEPT !.encoding = d])
               ELSE Done([[p EXCEPT !.encoding = d] EXCEPT !.data = StripZeros(there.text)])
    BY <1>8 DEF DeserializeFixedString, bytes
  <2> HIDE DEF there, d
  <2> QED
    BY <1>8, <1>9, <1>10, <2>1, <2>2
<1>12. read.ok /\ read.object = q
  BY <1>11 DEF Done
<1>13. q.data = o.data /\ q.encoding = e
  BY <1>1, FixedFields
<1> QED
  BY <1>12, <1>13

\* A dynamic string with another encoding and length, and another text.
Changed(o, e, n, d) == [o EXCEPT !.encoding = e, !.length = n, !.data = d]
Recoded(o, e, n) == [o EXCEPT !.encoding = e, !.length = n]
Refilled(o, n, d) == [o EXCEPT !.data = d, !.length = n]

LEMMA DynamicChanged ==
  ASSUME NEW o \in DynamicStrings, NEW d \in Seq(Char), NEW e \in Encoding, NEW n \in Nat
  PROVE  /\ Changed(o, e, n, d) \in DynamicStrings
         /\ Changed(o, e, n, d).fieldLength = o.fieldLength
         /\ Changed(o, e, n, d).data = d
         /\ Changed(o, e, n, d).encoding = e
         /\ Changed(o, e, n, d).length = n
BY DEF DynamicStrings, Changed

LEMMA DynamicRecoded ==
  ASSUME NEW o \in DynamicStrings, NEW e \in Encoding, NEW n \in Nat
  PROVE  /\ Recoded(o, e, n) \in DynamicStrings
         /\ Recoded(o, e, n).fieldLength = o.fieldLength
         /\ Recoded(o, e, n).data = o.data
BY DEF DynamicStrings, Recoded

LEMMA DynamicRefilled ==
  ASSUME NEW o \in DynamicStrings, NEW d \in Seq(Char), NEW n \in Nat
  PROVE  /\ Refilled(o, n, d) \in DynamicStrings
         /\ Refilled(o, n, d).fieldLength = o.fieldLength
         /\ Refilled(o, n, d).data = d
BY DEF DynamicStrings, Refilled

LEMMA JoinType ==
  ASSUME NEW S, NEW a \in Seq(S), NEW b \in Seq(S)
  PROVE  a \o b \in Seq(S) /\ Len(a \o b) = Len(a) + Len(b)
BY ConcatProperties

LEMMA DynamicsEqual ==
  ASSUME NEW o \in DynamicStrings, NEW p \in DynamicStrings, o.fieldLength = p.fieldLength,
         o.length = p.length, o.data = p.data, o.encoding = p.encoding
  PROVE  o = p
BY DEF DynamicStrings

LEMMA DynamicLengthType ==
  ASSUME NEW text \in Seq(Char), NEW e \in Encoding
  PROVE  DynamicStringLength(text, e) \in Nat
<1> DEFINE b == Len(Bom(e))
           u == UnitSize(e)
           n == Len(text) + 1
<1>1. b \in Nat /\ u \in Nat /\ n \in Nat
  BY BomType
<1> HIDE DEF b, u, n
<1>2. b + n * u \in Nat
  BY <1>1
<1> QED
  BY <1>2 DEF DynamicStringLength, b, u, n

LEMMA DynamicBasics ==
  ASSUME NEW o \in DynamicStrings
  PROVE  /\ o.type = "DynamicString" /\ o.fieldLength \in Nat
         /\ o.length \in Nat /\ o.data \in Seq(Char) /\ o.encoding \in Encoding
BY DEF DynamicStrings

\* What a dynamic string is written as.
LEMMA DynamicIsWritten ==
  ASSUME NEW o \in DynamicStrings,
         NEW code, code = Encode(Append(o.data, 0), o.encoding),
         NEW content, content = Bom(o.encoding) \o code,
         NEW field, field = PackUnsigned(Len(content), o.fieldLength)
  PROVE  /\ Append(o.data, 0) \in Seq(Char) /\ code \in Seq(Byte) /\ content \in Seq(Byte)
         /\ field.bytes \in Seq(Byte)
         /\ SerializeDynamicString(o) \in Result
         /\ SerializeDynamicString(o).ok =>
              /\ SerializeDynamicString(o).bytes = field.bytes \o content
              /\ Len(SerializeDynamicString(o).bytes) = BasicLength(o)
              /\ Len(field.bytes) = o.fieldLength
              /\ UnpackUnsigned(field.bytes) = Len(content)
              /\ Len(content) = o.length
<1> DEFINE bom == Bom(o.encoding)
           text == Append(o.data, 0)
           result == SerializeDynamicString(o)
           n == o.fieldLength
<1>1. /\ o.type = "DynamicString" /\ n \in Nat /\ o.length \in Nat
      /\ o.data \in Seq(Char) /\ o.encoding \in Encoding
  BY DynamicBasics
<1>2. text \in Seq(Char)
  <2>1. 0 \in Char
    BY CharsAreCodePoints
  <2> QED
    BY <1>1, <2>1
<1> HIDE DEF text
<1>3. code \in Seq(Byte)
  BY <1>1, <1>2, DecodeEncoded DEF text
<1>4. bom \in Seq(Byte)
  BY <1>1, BomType
<1>5. content \in Seq(Byte) /\ Len(content) \in Nat
  <2> HIDE DEF bom
  <2>1. content = bom \o code
    BY DEF bom
  <2>2. content \in Seq(Byte)
    BY <1>3, <1>4, <2>1, ConcatProperties
  <2> QED
    BY <2>2
<1> HIDE DEF bom
<1>6. /\ field \in Result
      /\ field.ok => Len(field.bytes) = n /\ UnpackUnsigned(field.bytes) = Len(content)
  <2>1. Len(content) \in Int
    BY <1>5
  <2> QED
    BY <1>1, <2>1, UnsignedRoundTrip
<1>7. field.bytes \in Seq(Byte) /\ field.ok \in BOOLEAN
  BY <1>6 DEF Result
<1>8. BasicLength(o) = n + o.length
  BY <1>1 DEF BasicLength
<1>9. result = IF field.ok THEN Asserted(field.bytes \o content, n + o.length) ELSE Raised
  BY <1>8 DEF SerializeDynamicString
<1> HIDE DEF result, n
<1>10. /\ field.bytes \o content \in Seq(Byte)
       /\ Len(field.bytes \o content) = Len(field.bytes) + Len(content)
  BY <1>5, <1>7, ConcatProperties
<1>11. CASE ~field.ok
  <2>1. result \in Result /\ ~result.ok
    BY <1>9, <1>11, ResultTypes
  <2> QED
    BY <1>2, <1>3, <1>5, <1>7, <2>1 DEF result, text
<1>12. CASE field.ok
  <2>1. n + o.length \in Int
    BY <1>1
  <2>2. /\ result \in Result
        /\ result.ok => /\ Len(field.bytes \o content) = n + o.length
                        /\ result.bytes = field.bytes \o content
    BY <1>9, <1>10, <1>12, <2>1, Lengths
  <2>3. result.ok => Len(content) = o.length
    <3> DEFINE a == Len(field.bytes)
               b == Len(content)
               c == o.length
    <3>1. result.ok => a + b = n + c
      BY <1>10, <2>2
    <3>2. a = n /\ n \in Nat /\ b \in Nat /\ c \in Nat
      BY <1>1, <1>5, <1>6, <1>12 DEF n
    <3> HIDE DEF a, b, c
    <3>3. result.ok => b = c
      BY <3>1, <3>2
    <3> QED
      BY <3>3 DEF b, c
  <2> QED
    BY <1>2, <1>3, <1>5, <1>6, <1>7, <1>8, <1>12, <2>2, <2>3 DEF result, text, n
<1> QED
  BY <1>11, <1>12

LEMMA DecodedType ==
  ASSUME NEW bytes \in Seq(Byte), NEW e \in Encoding
  PROVE  Decode(bytes, e).text \in Seq(Char)
<1>1. PICK f : IsDecoding(f, bytes, e) /\ Decode(bytes, e) = f[Len(bytes)]
  BY DecodingExist
<1>2. Decode(bytes, e) \in [text : Seq(Char), partial : Seq(Byte)]
  BY <1>1 DEF IsDecoding
<1> QED
  BY <1>2

LEMMA DynamicIsRead ==
  ASSUME NEW o \in DynamicStrings, NEW bytes \in Seq(Byte),
         NEW read, read = DeserializeDynamicString(o, bytes)
  PROVE  /\ read.ok \in BOOLEAN /\ read.object \in DynamicStrings
         /\ read.object.fieldLength = o.fieldLength
         /\ ~EndsInZero(o.data) => ~EndsInZero(read.object.data)
<1> DEFINE length == UnpackUnsigned(Slice(bytes, 0, o.fieldLength))
           content == From(bytes, o.fieldLength)
           e == CHOOSE e \in Marked(content) : TRUE
           decoded == Decode(Slice(content, Len(Bom(e)), length), e)
           text == StripZeros(decoded.text)
<1>0. o.fieldLength \in Nat /\ o.data \in Seq(Char)
  BY DynamicBasics
<1>1. length \in Nat /\ content \in Seq(Byte)
  <2>1. Slice(bytes, 0, o.fieldLength) \in Seq(Byte) /\ content \in Seq(Byte)
    <3>1. 0 \in Nat
      OBVIOUS
    <3> QED
      BY <1>0, <3>1, SliceType
  <2> QED
    BY <2>1, ReadIsInRange
<1>2. CASE Len(bytes) < o.fieldLength \/ Len(bytes) < length \/ Marked(content) = {}
  <2>1. read.ok = FALSE /\ read.object = o
    BY <1>2 DEF DeserializeDynamicString, Broken
  <2> QED
    BY <2>1
<1>3. CASE ~(Len(bytes) < o.fieldLength \/ Len(bytes) < length \/ Marked(content) = {})
  <2>1. e \in Encoding
    <3>1. Marked(content) # {} /\ Marked(content) \subseteq Encoding
      BY <1>3 DEF Marked
    <3> HIDE DEF content
    <3> QED
      BY <3>1
  <2>2. read = IF Undecodable(decoded) THEN Broken(SetEncoding(o, e))
               ELSE Done([o EXCEPT !.encoding = e, !.length = length, !.data = text])
    BY <1>3 DEF DeserializeDynamicString
  <2> HIDE DEF length, content, e
  <2>3. decoded.text \in Seq(Char)
    <3>1. Len(Bom(e)) \in Nat
      BY <2>1, BomType
    <3>2. Slice(content, Len(Bom(e)), length) \in Seq(Byte)
      BY <1>1, <3>1, SliceType
    <3> QED
      BY <2>1, <3>2, DecodedType
  <2> HIDE DEF decoded
  <2>4. text \in Seq(Char) /\ ~EndsInZero(text)
    BY <2>3, StripType
  <2> HIDE DEF text
  <2>5. CASE Undecodable(decoded)
    <3> DEFINE n == DynamicStringLength(o.data, e)
               q == [o EXCEPT !.encoding = e, !.length = n]
    <3>1. n \in Nat
      BY <1>0, <2>1, DynamicLengthType
    <3>2. read.ok = FALSE /\ read.object = q
      BY <2>2, <2>5 DEF Broken, SetEncoding
    <3> HIDE DEF n
    <3>3. q \in DynamicStrings /\ q.fieldLength = o.fieldLength /\ q.data = o.data
      BY <2>1, <3>1, DynamicRecoded DEF Recoded
    <3> HIDE DEF q
    <3> QED
      BY <3>2, <3>3
  <2>6. CASE ~Undecodable(decoded)
    <3> DEFINE q == [o EXCEPT !.encoding = e, !.length = length, !.data = text]
    <3>1. read.ok = TRUE /\ read.object = q
      BY <2>2, <2>6 DEF Done
    <3>2. q = Changed(o, e, length, text)
      BY DEF Changed
    <3> HIDE DEF q
    <3>3. q \in DynamicStrings /\ q.fieldLength = o.fieldLength /\ q.data = text
      BY <1>1, <2>1, <2>4, <3>2, DynamicChanged
    <3> QED
      BY <2>4, <3>1, <3>3
  <2> QED
    BY <2>5, <2>6
<1> QED
  BY <1>2, <1>3

\* The bytes that follow those of a string are not read.
LEMMA DynamicRoundTrip ==
  ASSUME NEW o \in DynamicStrings, NEW p \in DynamicStrings, o.fieldLength = p.fieldLength,
         ~EndsInZero(o.data), SerializeDynamicString(o).ok, NEW rest \in Seq(Byte)
  PROVE  DeserializeDynamicString(p, SerializeDynamicString(o).bytes \o rest) = Done(o)
<1> DEFINE e == o.encoding
           n == o.fieldLength
           bytes == SerializeDynamicString(o).bytes
           text == Append(o.data, 0)
           code == Encode(text, e)
           bom == Bom(e)
           content == bom \o code
           field == PackUnsigned(Len(content), n).bytes
           all == bytes \o rest
<1>1. n \in Nat /\ o.length \in Nat /\ o.data \in Seq(Char) /\ e \in Encoding
  BY DynamicBasics
<1>2. /\ text \in Seq(Char) /\ code \in Seq(Byte) /\ content \in Seq(Byte) /\ field \in Seq(Byte)
      /\ bytes = field \o content
      /\ Len(field) = n /\ UnpackUnsigned(field) = Len(content) /\ Len(content) = o.length
  BY DynamicIsWritten
<1>3. bom \in Seq(Byte)
  BY <1>1, BomType
<1> DEFINE decoded == Decode(code, e)
<1>4. decoded = [text |-> text, partial |-> <<>>]
  BY <1>1, <1>2, DecodeEncoded
<1>5. StripZeros(text) = o.data
  <2> DEFINE data == o.data
             m == Len(data)
  <2>1. data \in Seq(Char) /\ m \in Nat /\ 0 \in Char /\ ~EndsInZero(data)
    BY <1>1, CharsAreCodePoints
  <2>2. /\ Len(text) = m + 1
        /\ \A i \in 1..m : text[i] = data[i]
        /\ text[m + 1] = 0
    BY <2>1, AppendProperties
  <2> HIDE DEF m, text
  <2>3. m <= Len(text) /\ \A i \in (m + 1)..Len(text) : i = m + 1
    BY <2>1, <2>2
  <2>4. \A i \in (m + 1)..Len(text) : text[i] = 0
    BY <2>2, <2>3
  <2> HIDE DEF data
  <2> QED
    BY <1>2, <2>1, <2>2, <2>3, <2>4, StripFilled DEF data, m
<1>6. Len(content) = Len(bom) + Len(code)
  <2> HIDE DEF bom, code
  <2> QED
    BY <1>2, <1>3, ConcatProperties
<1> HIDE DEF text, decoded, code, bom, bytes, field, n
<1>7. content \o rest = bom \o (code \o rest) /\ code \o rest \in Seq(Byte)
  <2>1. code \in Seq(Byte) /\ code \o rest \in Seq(Byte)
    BY <1>2, JoinType
  <2>2. (bom \o code) \o rest = bom \o (code \o rest)
    BY <1>3, <2>1, ThreeJoined
  <2> QED
    BY <2>1, <2>2
<1>8. Marked(content \o rest) = {e}
  BY <1>1, <1>7, MarkIsKnown DEF bom
<1>9. Slice(content \o rest, Len(bom), Len(content)) = code
  BY <1>2, <1>3, <1>6, <1>7, SliceOfMiddle
<1> HIDE DEF content
<1>10. all = field \o (content \o rest) /\ content \o rest \in Seq(Byte)
  <2>1. content \in Seq(Byte) /\ field \in Seq(Byte) /\ bytes = field \o content
    BY <1>2
  <2>2. (field \o content) \o rest = field \o (content \o rest)
    BY <2>1, ThreeJoined
  <2>3. content \o rest \in Seq(Byte)
    BY <2>1, JoinType
  <2> QED
    BY <2>1, <2>2, <2>3
<1>11. Slice(all, 0, n) = field /\ From(all, n) = content \o rest
  <2> DEFINE r == content \o rest
  <2>1. r \in Seq(Byte) /\ all = field \o r /\ field \in Seq(Byte) /\ Len(field) = n
    BY <1>2, <1>10
  <2> HIDE DEF r, all
  <2>2. Slice(field \o r, 0, Len(field)) = field /\ From(field \o r, Len(field)) = r
    BY <2>1, SliceOfFirst, Zenon
  <2> QED
    BY <2>1, <2>2 DEF r
<1>12. ~(Len(all) < n) /\ ~(Len(all) < Len(content))
  <2> DEFINE r == content \o rest
  <2>1. Len(all) = Len(field) + Len(r) /\ Len(r) = Len(content) + Len(rest)
    <3> HIDE DEF all
    <3>0. content \in Seq(Byte) /\ field \in Seq(Byte)
      BY <1>2
    <3>1. Len(r) = Len(content) + Len(rest)
      BY <3>0, JoinType
    <3>2. r \in Seq(Byte) /\ all = field \o r
      BY <1>10
    <3> HIDE DEF r
    <3>3. Len(all) = Len(field) + Len(r)
      BY <3>0, <3>2, JoinType
    <3> QED
      BY <3>1, <3>3 DEF r
  <2>2. Len(field) = n /\ n \in Nat /\ Len(content) \in Nat /\ Len(rest) \in Nat
    BY <1>1, <1>2 DEF n
  <2> HIDE DEF r, all
  <2> QED
    BY <2>1, <2>2
<1> HIDE DEF all
<1> DEFINE length == UnpackUnsigned(Slice(all, 0, n))
           there == From(all, n)
           d == CHOOSE x \in Marked(there) : TRUE
           found == Decode(Slice(there, Len(Bom(d)), length), d)
           q == [p EXCEPT !.encoding = e, !.length = Len(content), !.data = o.data]
<1>13. length = Len(content) /\ Marked(there) # {} /\ d = e
  BY <1>2, <1>8, <1>11
<1>14. found = decoded
  BY <1>9, <1>11, <1>13 DEF decoded, bom
<1>15. ~Undecodable(decoded) /\ StripZeros(decoded.text) = o.data
  BY <1>4, <1>5 DEF Undecodable
<1>16. DeserializeDynamicString(p, all) = Done(q)
  <2>1. p.fieldLength = n
    BY DEF n
  <2>2. DeserializeDynamicString(p, all)
          = IF Len(all) < n \/ Len(all) < length \/ Marked(there) = {} THEN Broken(p)
            ELSE IF Undecodable(found) THEN Broken(SetEncoding(p, d))
            ELSE Done([p EXCEPT !.encoding = d, !.length = length,
                                !.data = StripZeros(found.text)])
    BY <2>1 DEF DeserializeDynamicString
  <2> HIDE DEF length, there, found, d
  <2> QED
    BY <1>12, <1>13, <1>14, <1>15, <2>2
<1>17. q = o
  <2>1. /\ q \in DynamicStrings /\ q.fieldLength = p.fieldLength
        /\ q.data = o.data /\ q.encoding = e /\ q.length = Len(content)
    <3> DEFINE m == Len(content)
    <3>1. m \in Nat
      BY <1>2
    <3> HIDE DEF m
    <3>2. q = Changed(p, e, m, o.data)
      BY DEF Changed, m
    <3> HIDE DEF q
    <3>3. /\ q \in DynamicStrings /\ q.fieldLength = p.fieldLength
          /\ q.data = o.data /\ q.encoding = e /\ q.length = m
      BY <1>1, <3>1, <3>2, DynamicChanged
    <3> QED
      BY <3>3 DEF m
  <2> HIDE DEF q
  <2> QED
    BY <1>2, <2>1, DynamicsEqual
<1> QED
  BY <1>16, <1>17 DEF all, bytes

-----------------------------------------------------------------------------
(* Basic objects.                                                          *)

LEMMA BasicIsWritten ==
  ASSUME NEW o \in Basic
  PROVE  /\ SerializeBasic(o) \in Result
         /\ SerializeBasic(o).ok => Len(SerializeBasic(o).bytes) = BasicLength(o)
<1>1. CASE o.type = "FixedString"
  <2> DEFINE text == o.data \o [i \in 1..(o.size - Len(o.data)) |-> 0]
             code == Encode(text, o.encoding)
  <2>1. o \in FixedStrings
    BY <1>1, KindsOfBasic
  <2>2. /\ SerializeFixedString(o) \in Result
        /\ SerializeFixedString(o).ok => Len(SerializeFixedString(o).bytes) = FixedStringLength(o)
    BY <2>1, FixedIsWritten
  <2> QED
    BY <1>1, <2>2 DEF SerializeBasic, BasicLength
<1>2. CASE o.type = "DynamicString"
  <2>1. o \in DynamicStrings
    BY <1>2, KindsOfBasic
  <2>2. /\ SerializeDynamicString(o) \in Result
        /\ SerializeDynamicString(o).ok => Len(SerializeDynamicString(o).bytes) = BasicLength(o)
    BY <2>1, DynamicIsWritten
  <2> QED
    BY <1>2, <2>2 DEF SerializeBasic
<1>3. CASE o.type # "FixedString" /\ o.type # "DynamicString"
  <2>1. o \in Scalars
    BY <1>3, KindsOfBasic
  <2>2. SerializeBasic(o) = SerializeScalar(o) /\ BasicLength(o) = o.width
    BY <1>3 DEF SerializeBasic, BasicLength
  <2> QED
    BY <2>1, <2>2, ScalarIsWritten
<1> QED
  BY <1>1, <1>2, <1>3

Attempt(Obj) == [ok : BOOLEAN, object : Obj]

LEMMA Attempted ==
  ASSUME NEW Obj, NEW o \in Obj
  PROVE  /\ Done(o) \in Attempt(Obj) /\ Done(o).ok = TRUE /\ Done(o).object = o
         /\ Broken(o) \in Attempt(Obj) /\ Broken(o).ok = FALSE /\ Broken(o).object = o
BY DEF Attempt, Done, Broken

LEMMA BasicIsRead ==
  ASSUME NEW o \in Basic, NEW bytes \in Seq(Byte),
         NEW read, read = DeserializeBasic(o, bytes), NEW t
  PROVE  /\ read \in Attempt(Basic)
         /\ ShapedBasic(t, o, TRUE) => ShapedBasic(t, read.object, TRUE)
<1>1. \E q : read = Done(q) \/ read = Broken(q)
  BY DEF DeserializeBasic, DeserializeScalar, DeserializeFixedString, DeserializeDynamicString
<1>2. read.ok \in BOOLEAN /\ read.object \in Basic => read \in Attempt(Basic)
  BY <1>1 DEF Attempt, Done, Broken
<1> DEFINE q == read.object
<1>3. CASE o.type = "FixedString"
  <2>1. o \in FixedStrings /\ read = DeserializeFixedString(o, bytes)
    BY <1>3, KindsOfBasic DEF DeserializeBasic
  <2>2. /\ read.ok \in BOOLEAN /\ q \in FixedStrings /\ q.size = o.size
        /\ Len(o.data) < o.size => Len(q.data) < o.size
        /\ ~EndsInZero(o.data) => ~EndsInZero(q.data)
    BY <2>1, FixedIsRead
  <2> HIDE DEF q
  <2>3. q \in Basic /\ q.type = "FixedString"
    BY <2>2 DEF Basic, FixedStrings
  <2>4. ShapedBasic(t, o, TRUE) => ShapedBasic(t, q, TRUE)
    BY <1>3, <2>2, <2>3 DEF ShapedBasic
  <2> QED
    BY <1>2, <2>2, <2>3, <2>4 DEF q
<1>4. CASE o.type = "DynamicString"
  <2>1. o \in DynamicStrings /\ read = DeserializeDynamicString(o, bytes)
    BY <1>4, KindsOfBasic DEF DeserializeBasic
  <2>2. /\ read.ok \in BOOLEAN /\ q \in DynamicStrings /\ q.fieldLength = o.fieldLength
        /\ ~EndsInZero(o.data) => ~EndsInZero(q.data)
    BY <2>1, DynamicIsRead
  <2> HIDE DEF q
  <2>3. q \in Basic /\ q.type = "DynamicString"
    BY <2>2 DEF Basic, DynamicStrings
  <2>4. ShapedBasic(t, o, TRUE) => ShapedBasic(t, q, TRUE)
    BY <1>4, <2>2, <2>3 DEF ShapedBasic
  <2> QED
    BY <1>2, <2>2, <2>3, <2>4 DEF q
<1>5. CASE o.type # "FixedString" /\ o.type # "DynamicString"
  <2>1. o \in Scalars /\ read = DeserializeScalar(o, bytes)
    BY <1>5, KindsOfBasic DEF DeserializeBasic
  <2>2. /\ read.ok \in BOOLEAN /\ q \in Scalars /\ q.type = o.type /\ q.width = o.width
        /\ SerializeScalar(o).ok => SerializeScalar(q).ok
        /\ o.type = "Bool" /\ o.value \in {0, 1} => q.value \in {0, 1}
    BY <2>1, ScalarIsRead
  <2> HIDE DEF q
  <2>3. q \in Basic
    BY <2>2 DEF Basic
  <2>4. ShapedBasic(t, o, TRUE) => ShapedBasic(t, q, TRUE)
    BY <1>5, <2>2, <2>3 DEF ShapedBasic
  <2> QED
    BY <1>2, <2>2, <2>3, <2>4 DEF q
<1> QED
  BY <1>3, <1>4, <1>5

LEMMA BasicRoundTrip ==
  ASSUME NEW o \in Basic, NEW p \in Basic, NEW t,
         ShapedBasic(t, o, FALSE), ShapedBasic(t, p, TRUE), SerializeBasic(o).ok,
         NEW rest \in Seq(Byte), rest = <<>> \/ HasDynamicSize(o),
         NEW read, read = DeserializeBasic(p, SerializeBasic(o).bytes \o rest)
  PROVE  /\ read.ok /\ EqualBasic(o, read.object)
         /\ BasicLength(read.object) = BasicLength(o)
<1>1. o.type = t.type /\ p.type = t.type
  BY DEF ShapedBasic
<1>2. SerializeBasic(o).bytes \in Seq(Byte)
  BY BasicIsWritten DEF Result
<1>3. SerializeBasic(o).bytes \o <<>> = SerializeBasic(o).bytes
  BY <1>2, ConcatEmptySeq
<1> DEFINE q == read.object
<1>4. CASE o.type = "FixedString"
  <2>1. /\ o \in FixedStrings /\ p \in FixedStrings
        /\ SerializeBasic(o) = SerializeFixedString(o)
    BY <1>1, <1>4, KindsOfBasic DEF SerializeBasic
  <2>2. rest = <<>>
    BY <1>4 DEF HasDynamicSize
  <2>3. read = DeserializeFixedString(p, SerializeFixedString(o).bytes)
    BY <1>1, <1>3, <1>4, <2>1, <2>2 DEF DeserializeBasic
  <2>4. o.size = p.size /\ Len(o.data) < o.size /\ ~EndsInZero(o.data)
    BY <1>1, <1>4 DEF ShapedBasic
  <2>5. read.ok /\ q.data = o.data /\ q.encoding = o.encoding
    BY <2>1, <2>3, <2>4, FixedRoundTrip
  <2>6. q \in FixedStrings /\ q.size = o.size
    <3>1. SerializeFixedString(o).bytes \in Seq(Byte)
      BY <1>2, <2>1
    <3> QED
      BY <2>1, <2>3, <2>4, <3>1, FixedIsRead
  <2> HIDE DEF q
  <2>7. q.type = "FixedString"
    BY <2>6 DEF FixedStrings
  <2> QED
    BY <1>4, <2>5, <2>6, <2>7 DEF q, EqualBasic, BasicLength, FixedStringLength
<1>5. CASE o.type = "DynamicString"
  <2>1. /\ o \in DynamicStrings /\ p \in DynamicStrings
        /\ SerializeBasic(o) = SerializeDynamicString(o)
    BY <1>1, <1>5, KindsOfBasic DEF SerializeBasic
  <2>2. read = DeserializeDynamicString(p, SerializeDynamicString(o).bytes \o rest)
    BY <1>1, <1>5, <2>1 DEF DeserializeBasic
  <2>3. o.fieldLength = p.fieldLength /\ ~EndsInZero(o.data)
    BY <1>1, <1>5 DEF ShapedBasic
  <2>4. read = Done(o)
    BY <2>1, <2>2, <2>3, DynamicRoundTrip
  <2> QED
    BY <1>5, <2>4 DEF Done, EqualBasic
<1>6. CASE o.type # "FixedString" /\ o.type # "DynamicString"
  <2>1. o \in Scalars /\ p \in Scalars /\ SerializeBasic(o) = SerializeScalar(o)
    BY <1>1, <1>6, KindsOfBasic DEF SerializeBasic
  <2>2. rest = <<>>
    <3>1. o.type # "DynamicArray"
      BY <2>1 DEF Scalars
    <3> QED
      BY <1>6, <3>1 DEF HasDynamicSize
  <2>3. read = DeserializeScalar(p, SerializeScalar(o).bytes)
    BY <1>1, <1>3, <1>6, <2>1, <2>2 DEF DeserializeBasic
  <2>4. o.width = p.width /\ (o.type = "Bool" => o.value \in {0, 1})
    BY <1>1, <1>6 DEF ShapedBasic
  <2>5. read = Done(o)
    BY <1>1, <2>1, <2>3, <2>4, ScalarRoundTrip
  <2> QED
    BY <1>6, <2>5 DEF Done, EqualBasic
<1> QED
  BY <1>4, <1>5, <1>6

LEMMA BasicIsEdited ==
  ASSUME NEW o \in Basic, NEW t, ShapedBasic(t, o, FALSE), NEW q \in EditsOfBasic(o)
  PROVE  q \in Basic /\ ShapedBasic(t, q, FALSE)
<1>1. CASE o.type = "FixedString"
  <2>1. o \in FixedStrings
    BY <1>1, KindsOfBasic
  <2>2. o.size \in Nat /\ o.data \in Seq(Char)
    BY <2>1 DEF FixedStrings
  <2>3. \/ \E x \in Texts : Len(x) <= o.size - 1 /\ q = [o EXCEPT !.data = x]
        \/ \E e \in Encoding : q = [o EXCEPT !.encoding = e]
    BY <1>1 DEF EditsOfBasic, Fitting
  <2>4. /\ q \in FixedStrings /\ q.size = o.size
        /\ Len(q.data) < q.size /\ ~EndsInZero(q.data)
    <3>1. Len(o.data) < o.size /\ ~EndsInZero(o.data)
      BY <1>1 DEF ShapedBasic
    <3>2. ASSUME NEW x \in Texts, Len(x) <= o.size - 1, q = [o EXCEPT !.data = x]
          PROVE  /\ q \in FixedStrings /\ q.size = o.size /\ q.data = x
                 /\ Len(x) < o.size /\ ~EndsInZero(x)
      <4>1. x \in Seq(Char) /\ ~EndsInZero(x)
        BY TextAssumption
      <4>2. q \in FixedStrings /\ q.size = o.size /\ q.data = x
        BY <2>1, <3>2, <4>1 DEF FixedStrings
      <4>3. Len(x) < o.size
        BY <2>2, <3>2, <4>1
      <4> QED
        BY <4>1, <4>2, <4>3
    <3>3. ASSUME NEW e \in Encoding, q = [o EXCEPT !.encoding = e]
          PROVE  q \in FixedStrings /\ q.size = o.size /\ q.data = o.data
      BY <2>1, <3>3 DEF FixedStrings
    <3> QED
      BY <2>3, <3>1, <3>2, <3>3
  <2>5. q \in Basic /\ q.type = "FixedString"
    BY <2>4 DEF Basic, FixedStrings
  <2> QED
    BY <1>1, <2>4, <2>5 DEF ShapedBasic
<1>2. CASE o.type = "DynamicString"
  <2>1. o \in DynamicStrings /\ o.data \in Seq(Char) /\ o.encoding \in Encoding
    BY <1>2, KindsOfBasic, DynamicBasics
  <2>2. \/ \E x \in Texts : q = SetText(o, x)
        \/ \E e \in Encoding : q = SetEncoding(o, e)
    BY <1>2 DEF EditsOfBasic
  <2>3. q \in DynamicStrings /\ q.fieldLength = o.fieldLength /\ ~EndsInZero(q.data)
    <3>1. ~EndsInZero(o.data)
      BY <1>2 DEF ShapedBasic
    <3>2. ASSUME NEW x \in Texts, q = SetText(o, x)
          PROVE  q \in DynamicStrings /\ q.fieldLength = o.fieldLength /\ ~EndsInZero(q.data)
      <4> DEFINE n == DynamicStringLength(x, o.encoding)
      <4>1. x \in Seq(Char) /\ ~EndsInZero(x)
        BY TextAssumption
      <4>2. n \in Nat
        BY <2>1, <4>1, DynamicLengthType
      <4>3. q = Refilled(o, n, x)
        BY <3>2 DEF SetText, Refilled
      <4> HIDE DEF n
      <4> QED
        BY <2>1, <4>1, <4>2, <4>3, DynamicRefilled
    <3>3. ASSUME NEW e \in Encoding, q = SetEncoding(o, e)
          PROVE  q \in DynamicStrings /\ q.fieldLength = o.fieldLength /\ q.data = o.data
      <4> DEFINE n == DynamicStringLength(o.data, e)
      <4>1. n \in Nat
        BY <2>1, DynamicLengthType
      <4>2. q = Recoded(o, e, n)
        BY <3>3 DEF SetEncoding, Recoded
      <4> HIDE DEF n
      <4> QED
        BY <2>1, <4>1, <4>2, DynamicRecoded
    <3> QED
      BY <2>2, <3>1, <3>2, <3>3
  <2>4. q \in Basic /\ q.type = "DynamicString"
    BY <2>3 DEF Basic, DynamicStrings
  <2> QED
    BY <1>2, <2>3, <2>4 DEF ShapedBasic
<1>3. CASE o.type # "FixedString" /\ o.type # "DynamicString"
  <2>1. o \in Scalars
    BY <1>3, KindsOfBasic
  <2>2. \E v \in Int : q = [o EXCEPT !.value = v] /\ (o.type = "Bool" => v \in {0, 1})
    BY <1>3, ValueAssumption DEF EditsOfBasic
  <2>3. PICK v \in Int : q = [o EXCEPT !.value = v] /\ (o.type = "Bool" => v \in {0, 1})
    BY <2>2
  <2>4. q \in Scalars /\ q.type = o.type /\ q.width = o.width /\ q.value = v
    BY <2>1, <2>3, ScalarFields
  <2>5. q \in Basic
    BY <2>4 DEF Basic
  <2> QED
    BY <1>3, <2>3, <2>4, <2>5 DEF ShapedBasic
<1> QED
  BY <1>1, <1>2, <1>3

-----------------------------------------------------------------------------
(* What is defined by recursion over objects, level by level.              *)

ObjectsLevel(n, F) ==
  IF n = 0 THEN Basic ELSE Basic \cup Containers(F)

LEMMA ObjectsLevels == \A n \in 0..Depth : Objects[n] = ObjectsLevel(n, Objects[n - 1])
<1> DEFINE Loop(f, m) == f = [n \in 0..m |-> ObjectsLevel(n, f[n - 1])]
           S == {m \in 0..Depth : \E f : Loop(f, m)}
<1>1. Depth \in Nat /\ 0 \in 0..Depth
  BY BoundAssumption
<1>2. \A F, G : ObjectsLevel(0, F) = ObjectsLevel(0, G)
  BY DEF ObjectsLevel
<1>3. 0 \in S
  <2> DEFINE f == [n \in 0..0 |-> ObjectsLevel(0, 0)]
  <2>1. \A n \in 0..0 : f[n] = ObjectsLevel(n, f[n - 1])
    <3>1. \A n \in 0..0 : n = 0
      OBVIOUS
    <3>2. f[0] = ObjectsLevel(0, 0)
      OBVIOUS
    <3> HIDE DEF f
    <3> QED
      BY <1>2, <3>1, <3>2
  <2>2. f = [n \in 0..0 |-> f[n]]
    OBVIOUS
  <2> HIDE DEF f
  <2>3. Loop(f, 0)
    BY <2>1, <2>2, Zenon
  <2> HIDE DEF Loop
  <2> QED
    BY <1>1, <2>3
<1>4. ASSUME NEW m \in 0..(Depth - 1), m \in S PROVE m + 1 \in S
  <2>1. PICK f : Loop(f, m)
    BY <1>4
  <2> DEFINE g == [n \in 0..(m + 1) |-> IF n = m + 1 THEN ObjectsLevel(n, f[m]) ELSE f[n]]
  <2>2. ASSUME NEW n \in 0..(m + 1) PROVE g[n] = ObjectsLevel(n, g[n - 1])
    <3>1. CASE n = m + 1
      <4>1. m \in 0..(m + 1) /\ m # m + 1 /\ n - 1 = m
        BY <3>1
      <4> QED
        BY <3>1, <4>1
    <3>2. CASE n # m + 1
      <4>1. n \in 0..m /\ g[n] = f[n]
        BY <3>2
      <4>2. f[n] = ObjectsLevel(n, f[n - 1])
        BY <2>1, <4>1
      <4>3. CASE n = 0
        <5> HIDE DEF g
        <5> QED
          BY <1>2, <4>1, <4>2, <4>3
      <4>4. CASE n # 0
        <5>1. n - 1 \in 0..(m + 1) /\ n - 1 # m + 1
          BY <4>1, <4>4
        <5>2. g[n - 1] = f[n - 1]
          BY <5>1
        <5> HIDE DEF g
        <5> QED
          BY <4>1, <4>2, <5>2
      <4> QED
        BY <4>3, <4>4
    <3> QED
      BY <3>1, <3>2
  <2>3. g = [n \in 0..(m + 1) |-> g[n]]
    OBVIOUS
  <2> HIDE DEF g
  <2>4. Loop(g, m + 1)
    BY <2>2, <2>3, Zenon
  <2>5. m + 1 \in 0..Depth
    BY <1>1
  <2> HIDE DEF Loop
  <2> QED
    BY <2>4, <2>5
<1>5. \A m \in 0..Depth : m \in S
  <2> HIDE DEF S
  <2> QED
    BY <1>1, <1>3, <1>4, UpTo, Zenon
<1>6. \E f : Loop(f, Depth)
  <2>1. Depth \in S
    BY <1>1, <1>5
  <2> HIDE DEF Loop
  <2> QED
    BY <2>1
<1>7. Loop(Objects, Depth)
  BY <1>6 DEF Objects, ObjectsLevel
<1> QED
  BY <1>7

LEMMA BasicIsLevelZero == Objects[0] = Basic
<1>1. 0 \in 0..Depth
  BY BoundAssumption
<1> QED
  BY <1>1, ObjectsLevels DEF ObjectsLevel

LengthLevel(n, F) ==
  [o \in Objects[n] |-> IF IsContainer(o) THEN ContainerLength(o, F) ELSE BasicLength(o)]

LEMMA LengthLevels == \A n \in 0..Depth : Length[n] = LengthLevel(n, Length[n - 1])
<1> DEFINE Loop(f, m) == f = [n \in 0..m |-> LengthLevel(n, f[n - 1])]
           S == {m \in 0..Depth : \E f : Loop(f, m)}
<1>1. Depth \in Nat /\ 0 \in 0..Depth
  BY BoundAssumption
<1>2. \A F, G : LengthLevel(0, F) = LengthLevel(0, G)
  <2>1. \A o \in Objects[0] : ~IsContainer(o)
    BY <1>1, KindsOfBasic, BasicIsLevelZero
  <2> QED
    BY <2>1 DEF LengthLevel
<1>3. 0 \in S
  <2> DEFINE f == [n \in 0..0 |-> LengthLevel(0, 0)]
  <2>1. \A n \in 0..0 : f[n] = LengthLevel(n, f[n - 1])
    <3>1. \A n \in 0..0 : n = 0
      OBVIOUS
    <3>2. f[0] = LengthLevel(0, 0)
      OBVIOUS
    <3> HIDE DEF f
    <3> QED
      BY <1>2, <3>1, <3>2
  <2>2. f = [n \in 0..0 |-> f[n]]
    OBVIOUS
  <2> HIDE DEF f
  <2>3. Loop(f, 0)
    BY <2>1, <2>2, Zenon
  <2> HIDE DEF Loop
  <2> QED
    BY <1>1, <2>3
<1>4. ASSUME NEW m \in 0..(Depth - 1), m \in S PROVE m + 1 \in S
  <2>1. PICK f : Loop(f, m)
    BY <1>4
  <2> DEFINE g == [n \in 0..(m + 1) |-> IF n = m + 1 THEN LengthLevel(n, f[m]) ELSE f[n]]
  <2>2. ASSUME NEW n \in 0..(m + 1) PROVE g[n] = LengthLevel(n, g[n - 1])
    <3>1. CASE n = m + 1
      <4>1. m \in 0..(m + 1) /\ m # m + 1 /\ n - 1 = m
        BY <3>1
      <4> QED
        BY <3>1, <4>1
    <3>2. CASE n # m + 1
      <4>1. n \in 0..m /\ g[n] = f[n]
        BY <3>2
      <4>2. f[n] = LengthLevel(n, f[n - 1])
        BY <2>1, <4>1
      <4>3. CASE n = 0
        <5> HIDE DEF g
        <5> QED
          BY <1>2, <4>1, <4>2, <4>3
      <4>4. CASE n # 0
        <5>1. n - 1 \in 0..(m + 1) /\ n - 1 # m + 1
          BY <4>1, <4>4
        <5>2. g[n - 1] = f[n - 1]
          BY <5>1
        <5> HIDE DEF g
        <5> QED
          BY <4>1, <4>2, <5>2
      <4> QED
        BY <4>3, <4>4
    <3> QED
      BY <3>1, <3>2
  <2>3. g = [n \in 0..(m + 1) |-> g[n]]
    OBVIOUS
  <2> HIDE DEF g
  <2>4. Loop(g, m + 1)
    BY <2>2, <2>3, Zenon
  <2>5. m + 1 \in 0..Depth
    BY <1>1
  <2> HIDE DEF Loop
  <2> QED
    BY <2>4, <2>5
<1>5. \A m \in 0..Depth : m \in S
  <2> HIDE DEF S
  <2> QED
    BY <1>1, <1>3, <1>4, UpTo, Zenon
<1>6. \E f : Loop(f, Depth)
  <2>1. Depth \in S
    BY <1>1, <1>5
  <2> HIDE DEF Loop
  <2> QED
    BY <2>1
<1>7. Loop(Length, Depth)
  BY <1>6 DEF Length, LengthLevel
<1> QED
  BY <1>7

SerializeLevel(n, F) ==
  [o \in Objects[n] |-> IF IsContainer(o) THEN SerializeContainer(o, Length[n - 1], F)
                        ELSE SerializeBasic(o)]

LEMMA SerializeLevels == \A n \in 0..Depth : Serialize[n] = SerializeLevel(n, Serialize[n - 1])
<1> DEFINE Loop(f, m) == f = [n \in 0..m |-> SerializeLevel(n, f[n - 1])]
           S == {m \in 0..Depth : \E f : Loop(f, m)}
<1>1. Depth \in Nat /\ 0 \in 0..Depth
  BY BoundAssumption
<1>2. \A F, G : SerializeLevel(0, F) = SerializeLevel(0, G)
  <2>1. \A o \in Objects[0] : ~IsContainer(o)
    BY <1>1, KindsOfBasic, BasicIsLevelZero
  <2> QED
    BY <2>1 DEF SerializeLevel
<1>3. 0 \in S
  <2> DEFINE f == [n \in 0..0 |-> SerializeLevel(0, 0)]
  <2>1. \A n \in 0..0 : f[n] = SerializeLevel(n, f[n - 1])
    <3>1. \A n \in 0..0 : n = 0
      OBVIOUS
    <3>2. f[0] = SerializeLevel(0, 0)
      OBVIOUS
    <3> HIDE DEF f
    <3> QED
      BY <1>2, <3>1, <3>2
  <2>2. f = [n \in 0..0 |-> f[n]]
    OBVIOUS
  <2> HIDE DEF f
  <2>3. Loop(f, 0)
    BY <2>1, <2>2, Zenon
  <2> HIDE DEF Loop
  <2> QED
    BY <1>1, <2>3
<1>4. ASSUME NEW m \in 0..(Depth - 1), m \in S PROVE m + 1 \in S
  <2>1. PICK f : Loop(f, m)
    BY <1>4
  <2> DEFINE g == [n \in 0..(m + 1) |-> IF n = m + 1 THEN SerializeLevel(n, f[m]) ELSE f[n]]
  <2>2. ASSUME NEW n \in 0..(m + 1) PROVE g[n] = SerializeLevel(n, g[n - 1])
    <3>1. CASE n = m + 1
      <4>1. m \in 0..(m + 1) /\ m # m + 1 /\ n - 1 = m
        BY <3>1
      <4> QED
        BY <3>1, <4>1
    <3>2. CASE n # m + 1
      <4>1. n \in 0..m /\ g[n] = f[n]
        BY <3>2
      <4>2. f[n] = SerializeLevel(n, f[n - 1])
        BY <2>1, <4>1
      <4>3. CASE n = 0
        <5> HIDE DEF g
        <5> QED
          BY <1>2, <4>1, <4>2, <4>3
      <4>4. CASE n # 0
        <5>1. n - 1 \in 0..(m + 1) /\ n - 1 # m + 1
          BY <4>1, <4>4
        <5>2. g[n - 1] = f[n - 1]
          BY <5>1
        <5> HIDE DEF g
        <5> QED
          BY <4>1, <4>2, <5>2
      <4> QED
        BY <4>3, <4>4
    <3> QED
      BY <3>1, <3>2
  <2>3. g = [n \in 0..(m + 1) |-> g[n]]
    OBVIOUS
  <2> HIDE DEF g
  <2>4. Loop(g, m + 1)
    BY <2>2, <2>3, Zenon
  <2>5. m + 1 \in 0..Depth
    BY <1>1
  <2> HIDE DEF Loop
  <2> QED
    BY <2>4, <2>5
<1>5. \A m \in 0..Depth : m \in S
  <2> HIDE DEF S
  <2> QED
    BY <1>1, <1>3, <1>4, UpTo, Zenon
<1>6. \E f : Loop(f, Depth)
  <2>1. Depth \in S
    BY <1>1, <1>5
  <2> HIDE DEF Loop
  <2> QED
    BY <2>1
<1>7. Loop(Serialize, Depth)
  BY <1>6 DEF Serialize, SerializeLevel
<1> QED
  BY <1>7

DeserializeLevel(n, F) ==
  [o \in Objects[n] |-> [bytes \in Seq(Byte) |->
     IF IsContainer(o) THEN DeserializeContainer(o, bytes, Length[n - 1], F)
     ELSE DeserializeBasic(o, bytes)]]

LEMMA DeserializeLevels ==
  \A n \in 0..Depth : Deserialize[n] = DeserializeLevel(n, Deserialize[n - 1])
<1> DEFINE Loop(f, m) == f = [n \in 0..m |-> DeserializeLevel(n, f[n - 1])]
           S == {m \in 0..Depth : \E f : Loop(f, m)}
<1>1. Depth \in Nat /\ 0 \in 0..Depth
  BY BoundAssumption
<1>2. \A F, G : DeserializeLevel(0, F) = DeserializeLevel(0, G)
  <2>1. \A o \in Objects[0] : ~IsContainer(o)
    BY <1>1, KindsOfBasic, BasicIsLevelZero
  <2> QED
    BY <2>1 DEF DeserializeLevel
<1>3. 0 \in S
  <2> DEFINE f == [n \in 0..0 |-> DeserializeLevel(0, 0)]
  <2>1. \A n \in 0..0 : f[n] = DeserializeLevel(n, f[n - 1])
    <3>1. \A n \in 0..0 : n = 0
      OBVIOUS
    <3>2. f[0] = DeserializeLevel(0, 0)
      OBVIOUS
    <3> HIDE DEF f
    <3> QED
      BY <1>2, <3>1, <3>2
  <2>2. f = [n \in 0..0 |-> f[n]]
    OBVIOUS
  <2> HIDE DEF f
  <2>3. Loop(f, 0)
    BY <2>1, <2>2, Zenon
  <2> HIDE DEF Loop
  <2> QED
    BY <1>1, <2>3
<1>4. ASSUME NEW m \in 0..(Depth - 1), m \in S PROVE m + 1 \in S
  <2>1. PICK f : Loop(f, m)
    BY <1>4
  <2> DEFINE g == [n \in 0..(m + 1) |-> IF n = m + 1 THEN DeserializeLevel(n, f[m]) ELSE f[n]]
  <2>2. ASSUME NEW n \in 0..(m + 1) PROVE g[n] = DeserializeLevel(n, g[n - 1])
    <3>1. CASE n = m + 1
      <4>1. m \in 0..(m + 1) /\ m # m + 1 /\ n - 1 = m
        BY <3>1
      <4> QED
        BY <3>1, <4>1
    <3>2. CASE n # m + 1
      <4>1. n \in 0..m /\ g[n] = f[n]
        BY <3>2
      <4>2. f[n] = DeserializeLevel(n, f[n - 1])
        BY <2>1, <4>1
      <4>3. CASE n = 0
        <5> HIDE DEF g
        <5> QED
          BY <1>2, <4>1, <4>2, <4>3
      <4>4. CASE n # 0
        <5>1. n - 1 \in 0..(m + 1) /\ n - 1 # m + 1
          BY <4>1, <4>4
        <5>2. g[n - 1] = f[n - 1]
          BY <5>1
        <5> HIDE DEF g
        <5> QED
          BY <4>1, <4>2, <5>2
      <4> QED
        BY <4>3, <4>4
    <3> QED
      BY <3>1, <3>2
  <2>3. g = [n \in 0..(m + 1) |-> g[n]]
    OBVIOUS
  <2> HIDE DEF g
  <2>4. Loop(g, m + 1)
    BY <2>2, <2>3, Zenon
  <2>5. m + 1 \in 0..Depth
    BY <1>1
  <2> HIDE DEF Loop
  <2> QED
    BY <2>4, <2>5
<1>5. \A m \in 0..Depth : m \in S
  <2> HIDE DEF S
  <2> QED
    BY <1>1, <1>3, <1>4, UpTo, Zenon
<1>6. \E f : Loop(f, Depth)
  <2>1. Depth \in S
    BY <1>1, <1>5
  <2> HIDE DEF Loop
  <2> QED
    BY <2>1
<1>7. Loop(Deserialize, Depth)
  BY <1>6 DEF Deserialize, DeserializeLevel
<1> QED
  BY <1>7

EqualLevel(n, F) ==
  [o \in Objects[n] |-> [p \in Objects[n] |->
     IF IsContainer(o) THEN EqualContainers(o, p, Length[n - 1], F) ELSE EqualBasic(o, p)]]

LEMMA EqualLevels == \A n \in 0..Depth : Equal[n] = EqualLevel(n, Equal[n - 1])
<1> DEFINE Loop(f, m) == f = [n \in 0..m |-> EqualLevel(n, f[n - 1])]
           S == {m \in 0..Depth : \E f : Loop(f, m)}
<1>1. Depth \in Nat /\ 0 \in 0..Depth
  BY BoundAssumption
<1>2. \A F, G : EqualLevel(0, F) = EqualLevel(0, G)
  <2>1. \A o \in Objects[0] : ~IsContainer(o)
    BY <1>1, KindsOfBasic, BasicIsLevelZero
  <2> QED
    BY <2>1 DEF EqualLevel
<1>3. 0 \in S
  <2> DEFINE f == [n \in 0..0 |-> EqualLevel(0, 0)]
  <2>1. \A n \in 0..0 : f[n] = EqualLevel(n, f[n - 1])
    <3>1. \A n \in 0..0 : n = 0
      OBVIOUS
    <3>2. f[0] = EqualLevel(0, 0)
      OBVIOUS
    <3> HIDE DEF f
    <3> QED
      BY <1>2, <3>1, <3>2
  <2>2. f = [n \in 0..0 |-> f[n]]
    OBVIOUS
  <2> HIDE DEF f
  <2>3. Loop(f, 0)
    BY <2>1, <2>2, Zenon
  <2> HIDE DEF Loop
  <2> QED
    BY <1>1, <2>3
<1>4. ASSUME NEW m \in 0..(Depth - 1), m \in S PROVE m + 1 \in S
  <2>1. PICK f : Loop(f, m)
    BY <1>4
  <2> DEFINE g == [n \in 0..(m + 1) |-> IF n = m + 1 THEN EqualLevel(n, f[m]) ELSE f[n]]
  <2>2. ASSUME NEW n \in 0..(m + 1) PROVE g[n] = EqualLevel(n, g[n - 1])
    <3>1. CASE n = m + 1
      <4>1. m \in 0..(m + 1) /\ m # m + 1 /\ n - 1 = m
        BY <3>1
      <4> QED
        BY <3>1, <4>1
    <3>2. CASE n # m + 1
      <4>1. n \in 0..m /\ g[n] = f[n]
        BY <3>2
      <4>2. f[n] = EqualLevel(n, f[n - 1])
        BY <2>1, <4>1
      <4>3. CASE n = 0
        <5> HIDE DEF g
        <5> QED
          BY <1>2, <4>1, <4>2, <4>3
      <4>4. CASE n # 0
        <5>1. n - 1 \in 0..(m + 1) /\ n - 1 # m + 1
          BY <4>1, <4>4
        <5>2. g[n - 1] = f[n - 1]
          BY <5>1
        <5> HIDE DEF g
        <5> QED
          BY <4>1, <4>2, <5>2
      <4> QED
        BY <4>3, <4>4
    <3> QED
      BY <3>1, <3>2
  <2>3. g = [n \in 0..(m + 1) |-> g[n]]
    OBVIOUS
  <2> HIDE DEF g
  <2>4. Loop(g, m + 1)
    BY <2>2, <2>3, Zenon
  <2>5. m + 1 \in 0..Depth
    BY <1>1
  <2> HIDE DEF Loop
  <2> QED
    BY <2>4, <2>5
<1>5. \A m \in 0..Depth : m \in S
  <2> HIDE DEF S
  <2> QED
    BY <1>1, <1>3, <1>4, UpTo, Zenon
<1>6. \E f : Loop(f, Depth)
  <2>1. Depth \in S
    BY <1>1, <1>5
  <2> HIDE DEF Loop
  <2> QED
    BY <2>1
<1>7. Loop(Equal, Depth)
  BY <1>6 DEF Equal, EqualLevel
<1> QED
  BY <1>7

EditsLevel(n, F) ==
  [o \in Objects[n] |-> IF IsContainer(o) THEN EditsOfContainer(o, F) ELSE EditsOfBasic(o)]

LEMMA EditsLevels == \A n \in 0..Depth : Edits[n] = EditsLevel(n, Edits[n - 1])
<1> DEFINE Loop(f, m) == f = [n \in 0..m |-> EditsLevel(n, f[n - 1])]
           S == {m \in 0..Depth : \E f : Loop(f, m)}
<1>1. Depth \in Nat /\ 0 \in 0..Depth
  BY BoundAssumption
<1>2. \A F, G : EditsLevel(0, F) = EditsLevel(0, G)
  <2>1. \A o \in Objects[0] : ~IsContainer(o)
    BY <1>1, KindsOfBasic, BasicIsLevelZero
  <2> QED
    BY <2>1 DEF EditsLevel
<1>3. 0 \in S
  <2> DEFINE f == [n \in 0..0 |-> EditsLevel(0, 0)]
  <2>1. \A n \in 0..0 : f[n] = EditsLevel(n, f[n - 1])
    <3>1. \A n \in 0..0 : n = 0
      OBVIOUS
    <3>2. f[0] = EditsLevel(0, 0)
      OBVIOUS
    <3> HIDE DEF f
    <3> QED
      BY <1>2, <3>1, <3>2
  <2>2. f = [n \in 0..0 |-> f[n]]
    OBVIOUS
  <2> HIDE DEF f
  <2>3. Loop(f, 0)
    BY <2>1, <2>2, Zenon
  <2> HIDE DEF Loop
  <2> QED
    BY <1>1, <2>3
<1>4. ASSUME NEW m \in 0..(Depth - 1), m \in S PROVE m + 1 \in S
  <2>1. PICK f : Loop(f, m)
    BY <1>4
  <2> DEFINE g == [n \in 0..(m + 1) |-> IF n = m + 1 THEN EditsLevel(n, f[m]) ELSE f[n]]
  <2>2. ASSUME NEW n \in 0..(m + 1) PROVE g[n] = EditsLevel(n, g[n - 1])
    <3>1. CASE n = m + 1
      <4>1. m \in 0..(m + 1) /\ m # m + 1 /\ n - 1 = m
        BY <3>1
      <4> QED
        BY <3>1, <4>1
    <3>2. CASE n # m + 1
      <4>1. n \in 0..m /\ g[n] = f[n]
        BY <3>2
      <4>2. f[n] = EditsLevel(n, f[n - 1])
        BY <2>1, <4>1
      <4>3. CASE n = 0
        <5> HIDE DEF g
        <5> QED
          BY <1>2, <4>1, <4>2, <4>3
      <4>4. CASE n # 0
        <5>1. n - 1 \in 0..(m + 1) /\ n - 1 # m + 1
          BY <4>1, <4>4
        <5>2. g[n - 1] = f[n - 1]
          BY <5>1
        <5> HIDE DEF g
        <5> QED
          BY <4>1, <4>2, <5>2
      <4> QED
        BY <4>3, <4>4
    <3> QED
      BY <3>1, <3>2
  <2>3. g = [n \in 0..(m + 1) |-> g[n]]
    OBVIOUS
  <2> HIDE DEF g
  <2>4. Loop(g, m + 1)
    BY <2>2, <2>3, Zenon
  <2>5. m + 1 \in 0..Depth
    BY <1>1
  <2> HIDE DEF Loop
  <2> QED
    BY <2>4, <2>5
<1>5. \A m \in 0..Depth : m \in S
  <2> HIDE DEF S
  <2> QED
    BY <1>1, <1>3, <1>4, UpTo, Zenon
<1>6. \E f : Loop(f, Depth)
  <2>1. Depth \in S
    BY <1>1, <1>5
  <2> HIDE DEF Loop
  <2> QED
    BY <2>1
<1>7. Loop(Edits, Depth)
  BY <1>6 DEF Edits, EditsLevel
<1> QED
  BY <1>7

AgreeLevel(n, F) ==
  [o \in Objects[n] |-> [p \in Objects[n] |->
     IsContainer(o) => ContainersAgree(o, p, Length[n - 1], F)]]

LEMMA AgreeLevels == \A n \in 0..Depth : Agree[n] = AgreeLevel(n, Agree[n - 1])
<1> DEFINE Loop(f, m) == f = [n \in 0..m |-> AgreeLevel(n, f[n - 1])]
           S == {m \in 0..Depth : \E f : Loop(f, m)}
<1>1. Depth \in Nat /\ 0 \in 0..Depth
  BY BoundAssumption
<1>2. \A F, G : AgreeLevel(0, F) = AgreeLevel(0, G)
  <2>1. \A o \in Objects[0] : ~IsContainer(o)
    BY <1>1, KindsOfBasic, BasicIsLevelZero
  <2> QED
    BY <2>1 DEF AgreeLevel
<1>3. 0 \in S
  <2> DEFINE f == [n \in 0..0 |-> AgreeLevel(0, 0)]
  <2>1. \A n \in 0..0 : f[n] = AgreeLevel(n, f[n - 1])
    <3>1. \A n \in 0..0 : n = 0
      OBVIOUS
    <3>2. f[0] = AgreeLevel(0, 0)
      OBVIOUS
    <3> HIDE DEF f
    <3> QED
      BY <1>2, <3>1, <3>2
  <2>2. f = [n \in 0..0 |-> f[n]]
    OBVIOUS
  <2> HIDE DEF f
  <2>3. Loop(f, 0)
    BY <2>1, <2>2, Zenon
  <2> HIDE DEF Loop
  <2> QED
    BY <1>1, <2>3
<1>4. ASSUME NEW m \in 0..(Depth - 1), m \in S PROVE m + 1 \in S
  <2>1. PICK f : Loop(f, m)
    BY <1>4
  <2> DEFINE g == [n \in 0..(m + 1) |-> IF n = m + 1 THEN AgreeLevel(n, f[m]) ELSE f[n]]
  <2>2. ASSUME NEW n \in 0..(m + 1) PROVE g[n] = AgreeLevel(n, g[n - 1])
    <3>1. CASE n = m + 1
      <4>1. m \in 0..(m + 1) /\ m # m + 1 /\ n - 1 = m
        BY <3>1
      <4> QED
        BY <3>1, <4>1
    <3>2. CASE n # m + 1
      <4>1. n \in 0..m /\ g[n] = f[n]
        BY <3>2
      <4>2. f[n] = AgreeLevel(n, f[n - 1])
        BY <2>1, <4>1
      <4>3. CASE n = 0
        <5> HIDE DEF g
        <5> QED
          BY <1>2, <4>1, <4>2, <4>3
      <4>4. CASE n # 0
        <5>1. n - 1 \in 0..(m + 1) /\ n - 1 # m + 1
          BY <4>1, <4>4
        <5>2. g[n - 1] = f[n - 1]
          BY <5>1
        <5> HIDE DEF g
        <5> QED
          BY <4>1, <4>2, <5>2
      <4> QED
        BY <4>3, <4>4
    <3> QED
      BY <3>1, <3>2
  <2>3. g = [n \in 0..(m + 1) |-> g[n]]
    OBVIOUS
  <2> HIDE DEF g
  <2>4. Loop(g, m + 1)
    BY <2>2, <2>3, Zenon
  <2>5. m + 1 \in 0..Depth
    BY <1>1
  <2> HIDE DEF Loop
  <2> QED
    BY <2>4, <2>5
<1>5. \A m \in 0..Depth : m \in S
  <2> HIDE DEF S
  <2> QED
    BY <1>1, <1>3, <1>4, UpTo, Zenon
<1>6. \E f : Loop(f, Depth)
  <2>1. Depth \in S
    BY <1>1, <1>5
  <2> HIDE DEF Loop
  <2> QED
    BY <2>1
<1>7. Loop(Agree, Depth)
  BY <1>6 DEF Agree, AgreeLevel
<1> QED
  BY <1>7

ShapedLevel(n, F) ==
  [t \in Objects[n] |-> [o \in Objects[n] |-> [wire \in BOOLEAN |->
     IF IsContainer(o) THEN ShapedContainer(t, o, wire, F) ELSE ShapedBasic(t, o, wire)]]]

LEMMA ShapedLevels == \A n \in 0..Depth : Shaped[n] = ShapedLevel(n, Shaped[n - 1])
<1> DEFINE Loop(f, m) == f = [n \in 0..m |-> ShapedLevel(n, f[n - 1])]
           S == {m \in 0..Depth : \E f : Loop(f, m)}
<1>1. Depth \in Nat /\ 0 \in 0..Depth
  BY BoundAssumption
<1>2. \A F, G : ShapedLevel(0, F) = ShapedLevel(0, G)
  <2>1. \A o \in Objects[0] : ~IsContainer(o)
    BY <1>1, KindsOfBasic, BasicIsLevelZero
  <2> QED
    BY <2>1 DEF ShapedLevel
<1>3. 0 \in S
  <2> DEFINE f == [n \in 0..0 |-> ShapedLevel(0, 0)]
  <2>1. \A n \in 0..0 : f[n] = ShapedLevel(n, f[n - 1])
    <3>1. \A n \in 0..0 : n = 0
      OBVIOUS
    <3>2. f[0] = ShapedLevel(0, 0)
      OBVIOUS
    <3> HIDE DEF f
    <3> QED
      BY <1>2, <3>1, <3>2
  <2>2. f = [n \in 0..0 |-> f[n]]
    OBVIOUS
  <2> HIDE DEF f
  <2>3. Loop(f, 0)
    BY <2>1, <2>2, Zenon
  <2> HIDE DEF Loop
  <2> QED
    BY <1>1, <2>3
<1>4. ASSUME NEW m \in 0..(Depth - 1), m \in S PROVE m + 1 \in S
  <2>1. PICK f : Loop(f, m)
    BY <1>4
  <2> DEFINE g == [n \in 0..(m + 1) |-> IF n = m + 1 THEN ShapedLevel(n, f[m]) ELSE f[n]]
  <2>2. ASSUME NEW n \in 0..(m + 1) PROVE g[n] = ShapedLevel(n, g[n - 1])
    <3>1. CASE n = m + 1
      <4>1. m \in 0..(m + 1) /\ m # m + 1 /\ n - 1 = m
        BY <3>1
      <4> QED
        BY <3>1, <4>1
    <3>2. CASE n # m + 1
      <4>1. n \in 0..m /\ g[n] = f[n]
        BY <3>2
      <4>2. f[n] = ShapedLevel(n, f[n - 1])
        BY <2>1, <4>1
      <4>3. CASE n = 0
        <5> HIDE DEF g
        <5> QED
          BY <1>2, <4>1, <4>2, <4>3
      <4>4. CASE n # 0
        <5>1. n - 1 \in 0..(m + 1) /\ n - 1 # m + 1
          BY <4>1, <4>4
        <5>2. g[n - 1] = f[n - 1]
          BY <5>1
        <5> HIDE DEF g
        <5> QED
          BY <4>1, <4>2, <5>2
      <4> QED
        BY <4>3, <4>4
    <3> QED
      BY <3>1, <3>2
  <2>3. g = [n \in 0..(m + 1) |-> g[n]]
    OBVIOUS
  <2> HIDE DEF g
  <2>4. Loop(g, m + 1)
    BY <2>2, <2>3, Zenon
  <2>5. m + 1 \in 0..Depth
    BY <1>1
  <2> HIDE DEF Loop
  <2> QED
    BY <2>4, <2>5
<1>5. \A m \in 0..Depth : m \in S
  <2> HIDE DEF S
  <2> QED
    BY <1>1, <1>3, <1>4, UpTo, Zenon
<1>6. \E f : Loop(f, Depth)
  <2>1. Depth \in S
    BY <1>1, <1>5
  <2> HIDE DEF Loop
  <2> QED
    BY <2>1
<1>7. Loop(Shaped, Depth)
  BY <1>6 DEF Shaped, ShapedLevel
<1> QED
  BY <1>7

-----------------------------------------------------------------------------
(* Containers                                                              *)

\* What the fields of a container are.
LEMMA ContainerFields ==
  ASSUME NEW P, NEW o \in Containers(P)
  PROVE  /\ IsContainer(o) /\ o.parts \in Seq(P)
         /\ o.type \in {"Struct", "FixedArray", "DynamicArray"}
         /\ o.type = "DynamicArray" => o.of \in P /\ o.fieldLength \in {0, 1, 2, 4}
  BY DEF Containers, IsContainer

WithParts(o, parts) == [o EXCEPT !.parts = parts]

\* A container with other parts keeps the rest.
LEMMA PartsReplaced ==
  ASSUME NEW P, NEW o \in Containers(P), NEW parts \in Seq(P), NEW q, q = WithParts(o, parts)
  PROVE  /\ q \in Containers(P) /\ q.type = o.type /\ q.parts = parts
         /\ o.type = "DynamicArray" => q.of = o.of /\ q.fieldLength = o.fieldLength
<1>1. CASE o \in [type : {"Struct", "FixedArray"}, parts : Seq(P)]
  BY <1>1 DEF Containers, WithParts
<1>2. CASE o \in [type : {"DynamicArray"}, fieldLength : {0, 1, 2, 4}, of : P, parts : Seq(P)]
  BY <1>2 DEF Containers, WithParts
<1> QED
  BY <1>1, <1>2 DEF Containers

\* An object is basic or has parts of the level below.
LEMMA ObjectCases ==
  ASSUME NEW n \in 0..Depth, NEW o \in Objects[n]
  PROVE  /\ ~IsContainer(o) => o \in Basic
         /\ IsContainer(o) => /\ n # 0 /\ n - 1 \in 0..Depth
                              /\ o \in Containers(Objects[n - 1])
<1>1. o \in ObjectsLevel(n, Objects[n - 1])
  BY ObjectsLevels
<1>2. o \in Basic \/ (n # 0 /\ o \in Containers(Objects[n - 1]))
  BY <1>1 DEF ObjectsLevel
<1>3. CASE o \in Basic
  BY <1>3, KindsOfBasic
<1>4. CASE n # 0 /\ o \in Containers(Objects[n - 1])
  BY <1>4, ContainerFields, BoundAssumption
<1> QED
  BY <1>2, <1>3, <1>4

LEMMA ObjectKinds ==
  ASSUME NEW n \in 0..Depth
  PROVE  /\ Basic \subseteq Objects[n]
         /\ n # 0 => Containers(Objects[n - 1]) \subseteq Objects[n]
  BY ObjectsLevels DEF ObjectsLevel

\* The product and the quotient of natural numbers.
LEMMA NaturalProduct ==
  ASSUME NEW a \in Nat, NEW b \in Nat
  PROVE  a * b \in Nat
  OBVIOUS

LEMMA NaturalQuotient ==
  ASSUME NEW a \in Nat, NEW b \in Nat \ {0}
  PROVE  a \div b \in Nat
  OBVIOUS

LEMMA TotalType ==
  ASSUME NEW numbers \in Seq(Nat)
  PROVE  Total(numbers) \in Nat
<1>1. PICK f : IsSums(f, numbers) /\ Total(numbers) = f[Len(numbers)]
  BY SumsExist
<1> QED
  BY <1>1 DEF IsSums

LEMMA JoinedType ==
  ASSUME NEW S, NEW seqs \in Seq(Seq(S))
  PROVE  Joined(seqs) \in Seq(S)
<1>1. PICK f : IsJoints(f, seqs, S) /\ Joined(seqs) = f[Len(seqs)]
  BY JointsExist
<1>2. f \in [0..Len(seqs) -> Seq(S)]
  BY <1>1 DEF IsJoints
<1>3. Len(seqs) \in 0..Len(seqs)
  BY LenProperties
<1> QED
  BY <1>1, <1>2, <1>3, Zenon

\* A function applied to each part.
LEMMA EachPart ==
  ASSUME NEW P, NEW T, NEW F \in [P -> T], NEW parts \in Seq(P),
         NEW g, g = [i \in DOMAIN parts |-> F[parts[i]]]
  PROVE  /\ g \in Seq(T) /\ Len(g) = Len(parts)
         /\ \A i \in 1..Len(parts) : parts[i] \in P /\ g[i] = F[parts[i]]
<1>1. Len(parts) \in Nat /\ DOMAIN parts = 1..Len(parts) /\ \A i \in 1..Len(parts) : parts[i] \in P
  BY ElementOfSeq, LenProperties
<1>2. g \in [1..Len(parts) -> T] /\ \A i \in 1..Len(parts) : g[i] = F[parts[i]]
  BY <1>1
<1> QED
  BY <1>1, <1>2, FunctionIsSequence

\* A container has a length if its parts have.
LEMMA ContainerLengthType ==
  ASSUME NEW P, NEW L \in [P -> Nat], NEW o \in Containers(P)
  PROVE  ContainerLength(o, L) \in Nat
<1>1. /\ o.parts \in Seq(P) /\ o.type \in {"Struct", "FixedArray", "DynamicArray"}
      /\ o.type = "DynamicArray" => o.of \in P /\ o.fieldLength \in Nat
  BY ContainerFields
<1>2. Len(o.parts) \in Nat
  BY <1>1
<1>3. CASE o.type = "Struct"
  <2> DEFINE g == [i \in DOMAIN o.parts |-> L[o.parts[i]]]
  <2>1. g \in Seq(Nat)
    <3> HIDE DEF g
    <3>1. g = [i \in DOMAIN o.parts |-> L[o.parts[i]]]
      BY DEF g
    <3> QED
      BY <1>1, <3>1, EachPart
  <2>2. ContainerLength(o, L) = Total(g)
    BY <1>3 DEF ContainerLength
  <2> HIDE DEF g
  <2> QED
    BY <2>1, <2>2, TotalType
<1>4. CASE o.type = "FixedArray"
  <2>1. CASE o.parts = <<>>
    BY <1>4, <2>1 DEF ContainerLength
  <2>2. CASE o.parts # <<>>
    <3>1. o.parts[1] \in P
      BY <1>1, <2>2
    <3>2. L[o.parts[1]] \in Nat
      BY <3>1
    <3>3. ContainerLength(o, L) = Len(o.parts) * L[o.parts[1]]
      BY <1>4, <2>2 DEF ContainerLength
    <3> QED
      BY <1>2, <3>2, <3>3, NaturalProduct
  <2> QED
    BY <2>1, <2>2
<1>5. CASE o.type = "DynamicArray"
  <2>1. L[o.of] \in Nat
    BY <1>1, <1>5
  <2>2. Len(o.parts) * L[o.of] \in Nat
    BY <1>2, <2>1, NaturalProduct
  <2>3. ContainerLength(o, L) = o.fieldLength + Len(o.parts) * L[o.of]
    BY <1>5 DEF ContainerLength
  <2> QED
    BY <1>1, <1>5, <2>2, <2>3
<1> QED
  BY <1>1, <1>3, <1>4, <1>5

\* Results are joined unless one of them raised.
LEMMA ConcatType ==
  ASSUME NEW results \in Seq(Result)
  PROVE  /\ Concat(results) \in Result
         /\ Concat(results).ok =>
              \E codes \in Seq(Seq(Byte)) :
                /\ Len(codes) = Len(results)
                /\ Concat(results).bytes = Joined(codes)
                /\ \A i \in 1..Len(results) : results[i].ok /\ codes[i] = results[i].bytes
<1> DEFINE T == Seq(Byte)
           codes == [i \in DOMAIN results |-> results[i].bytes]
<1>1. Len(results) \in Nat /\ DOMAIN results = 1..Len(results)
      /\ \A i \in 1..Len(results) : results[i] \in Result
  BY ElementOfSeq, LenProperties
<1>2. \A i \in 1..Len(results) : results[i].bytes \in T /\ results[i].ok \in BOOLEAN
  BY <1>1 DEF Result
<1> HIDE DEF T
<1>3. codes \in [1..Len(results) -> T] /\ \A i \in 1..Len(results) : codes[i] = results[i].bytes
  BY <1>1, <1>2
<1>4. Concat(results) = IF \A i \in DOMAIN results : results[i].ok
                          THEN Bytes(Joined(codes)) ELSE Raised
  BY DEF Concat
<1> HIDE DEF codes
<1>5. codes \in Seq(T) /\ Len(codes) = Len(results)
  BY <1>1, <1>3, FunctionIsSequence
<1>6. Joined(codes) \in Seq(Byte)
  BY <1>5, JoinedType DEF T
<1>7. CASE \A i \in DOMAIN results : results[i].ok
  <2>1. Concat(results) = Bytes(Joined(codes))
    BY <1>4, <1>7
  <2>2. Concat(results) \in Result /\ Concat(results).bytes = Joined(codes)
    BY <1>6, <2>1, ResultTypes
  <2>3. \A i \in 1..Len(results) : results[i].ok /\ codes[i] = results[i].bytes
    BY <1>1, <1>3, <1>7
  <2> QED
    BY <1>5, <2>2, <2>3, Zenon DEF T
<1>8. CASE ~\A i \in DOMAIN results : results[i].ok
  <2>1. Concat(results) = Raised
    BY <1>4, <1>8
  <2> QED
    BY <2>1, ResultTypes
<1> QED
  BY <1>7, <1>8

LEMMA ContainerResultType ==
  ASSUME NEW P, NEW L \in [P -> Nat], NEW R \in [P -> Result], NEW o \in Containers(P)
  PROVE  SerializeContainer(o, L, R) \in Result
<1>1. /\ o.parts \in Seq(P) /\ o.type \in {"Struct", "FixedArray", "DynamicArray"}
      /\ o.type = "DynamicArray" => o.of \in P /\ o.fieldLength \in Nat
  BY ContainerFields
<1> DEFINE results == [i \in DOMAIN o.parts |-> R[o.parts[i]]]
           field == PackUnsigned(Len(o.parts) * L[o.of], o.fieldLength)
<1>2. results \in Seq(Result)
  <2> HIDE DEF results
  <2>1. results = [i \in DOMAIN o.parts |-> R[o.parts[i]]]
    BY DEF results
  <2> QED
    BY <1>1, <2>1, EachPart
<1>3. SerializeContainer(o, L, R) =
        IF o.type # "DynamicArray" \/ o.fieldLength = 0 THEN Concat(results)
        ELSE Concat(<<field, Concat(results)>>)
  BY DEF SerializeContainer
<1> HIDE DEF results, field
<1>4. Concat(results) \in Result
  BY <1>2, ConcatType
<1>5. CASE o.type = "DynamicArray"
  <2>1. L[o.of] \in Nat /\ Len(o.parts) \in Nat
    BY <1>1, <1>5
  <2>2. Len(o.parts) * L[o.of] \in Nat
    BY <2>1, NaturalProduct
  <2>3. field \in Result
    BY <1>1, <1>5, <2>2, UnsignedRoundTrip DEF field
  <2>4. <<field, Concat(results)>> \in Seq(Result)
    BY <1>4, <2>3
  <2>5. Concat(<<field, Concat(results)>>) \in Result
    BY <2>4, ConcatType
  <2> QED
    BY <1>3, <1>4, <2>5
<1>6. CASE o.type # "DynamicArray"
  BY <1>3, <1>4, <1>6
<1> QED
  BY <1>5, <1>6

\* What deserializes objects.
Reader(P) == [P -> [Seq(Byte) -> Attempt(P)]]

LEMMA ReaderReads ==
  ASSUME NEW P, NEW D \in Reader(P), NEW o \in P, NEW bytes \in Seq(Byte)
  PROVE  D[o][bytes] \in Attempt(P)
  BY DEF Reader

\* The bytes a part is given, and how far the reading of the parts has come.
Room == Nat \cup {Rest}

State(P) == [ok : BOOLEAN, at : Nat, parts : Seq(P), whole : Nat]

Unread == [ok |-> TRUE, at |-> 0, parts |-> <<>>, whole |-> 0]

\* What a part is after a deserialization: as it was, or what reading made of it.
OutOf(D, part, object) == object = part \/ \E bytes \in Seq(Byte) : object = D[part][bytes].object

Rooms(room, parts) == \A i \in 1..Len(parts) : room[i] \in Room

PartRead(P, D, part, before, after) ==
  /\ after \in State(P)
  /\ \E object \in P : OutOf(D, part, object) /\ after.parts = Append(before.parts, object)
  /\ after.whole \in {before.whole, before.whole + 1}

LEMMA PartIsRead ==
  ASSUME NEW P, NEW part \in P, NEW room \in Room, NEW bytes \in Seq(Byte),
         NEW L \in [P -> Nat], NEW D \in Reader(P),
         NEW state \in State(P)
  PROVE  PartRead(P, D, part, state, DeserializePart(state, part, room, bytes, L, D))
<1> DEFINE after == DeserializePart(state, part, room, bytes, L, D)
           share == IF room = Rest THEN From(bytes, state.at)
                    ELSE Slice(bytes, state.at, state.at + room)
           read == D[part][share]
<1>0. /\ state.at \in Nat /\ state.parts \in Seq(P) /\ state.whole \in Nat /\ state.ok \in BOOLEAN
      /\ state = [ok |-> state.ok, at |-> state.at, parts |-> state.parts, whole |-> state.whole]
  BY DEF State
<1>1. share \in Seq(Byte)
  <2>1. state.at \in Nat
    BY <1>0
  <2>2. From(bytes, state.at) \in Seq(Byte)
    BY <2>1, SliceType
  <2>3. CASE room # Rest
    <3>1. state.at + room \in Nat
      BY <2>1, <2>3 DEF Room
    <3>2. Slice(bytes, state.at, state.at + room) \in Seq(Byte)
      BY <2>1, <3>1, SliceType
    <3> QED
      BY <2>3, <3>2
  <2> QED
    BY <2>2, <2>3
<1>2. after = IF ~state.ok THEN [state EXCEPT !.parts = Append(@, part)]
              ELSE [ok    |-> read.ok,
                    at    |-> state.at + Taken(part, read.object, room, L),
                    parts |-> Append(state.parts, read.object),
                    whole |-> IF read.ok THEN state.whole + 1 ELSE state.whole]
  BY DEF DeserializePart
<1> SUFFICES PartRead(P, D, part, state, after)
  OBVIOUS
<1> HIDE DEF share, after
<1>3. read \in Attempt(P)
  BY <1>1, ReaderReads
<1>4. read.object \in P /\ OutOf(D, part, read.object)
  BY <1>1, <1>3 DEF Attempt, OutOf
<1> HIDE DEF read
<1>5. OutOf(D, part, part)
  BY DEF OutOf
<1>8. Taken(part, read.object, room, L) \in Nat
  BY <1>4 DEF Taken, Room
<1>6. CASE state.ok
  <2>1. after = [ok    |-> read.ok,
                 at    |-> state.at + Taken(part, read.object, room, L),
                 parts |-> Append(state.parts, read.object),
                 whole |-> IF read.ok THEN state.whole + 1 ELSE state.whole]
    BY <1>2, <1>6
  <2>2. read.ok \in BOOLEAN
    BY <1>3 DEF Attempt
  <2>3. state.at + Taken(part, read.object, room, L) \in Nat
    BY <1>0, <1>8
  <2>4. Append(state.parts, read.object) \in Seq(P)
    BY <1>0, <1>4
  <2>5. after.parts = Append(state.parts, read.object)
    BY <2>1
  <2>6. after.whole \in {state.whole, state.whole + 1} /\ after.whole \in Nat
    BY <1>0, <2>1
  <2>7. after \in State(P)
    BY <1>0, <2>1, <2>2, <2>3, <2>4 DEF State
  <2> QED
    BY <1>4, <2>5, <2>6, <2>7 DEF PartRead
<1>7. CASE ~state.ok
  <2>1. after = [ok |-> state.ok, at |-> state.at, parts |-> Append(state.parts, part),
                 whole |-> state.whole]
    BY <1>0, <1>2, <1>7
  <2>2. Append(state.parts, part) \in Seq(P)
    BY <1>0
  <2>3. after \in State(P)
    BY <1>0, <2>1, <2>2 DEF State
  <2>4. after.parts = Append(state.parts, part) /\ after.whole = state.whole
    BY <2>1
  <2> QED
    BY <1>5, <2>3, <2>4 DEF PartRead
<1> QED
  BY <1>6, <1>7

\* The states while parts are deserialized.
IsReading(f, parts, room, bytes, L, D, P) ==
  /\ f \in [0..Len(parts) -> State(P)]
  /\ f[0] = Unread
  /\ \A i \in 1..Len(parts) : f[i] = DeserializePart(f[i - 1], parts[i], room[i], bytes, L, D)

HasReading(parts, room, bytes, L, D, P) ==
  \E f : /\ IsReading(f, parts, room, bytes, L, D, P)
         /\ DeserializeParts(parts, room, bytes, L, D) = f[Len(parts)]

LEMMA ReadingExist ==
  ASSUME NEW P, NEW parts \in Seq(P), NEW room, Rooms(room, parts),
         NEW bytes \in Seq(Byte), NEW L \in [P -> Nat],
         NEW D \in Reader(P)
  PROVE  HasReading(parts, room, bytes, L, D, P)
<1> DEFINE N == Len(parts)
           X == State(P)
           Loop(f) == f = [i \in 0..N |->
                             IF i = 0 THEN Unread
                             ELSE DeserializePart(f[i - 1], parts[i], room[i], bytes, L, D)]
           G == [i \in 1..N |-> [v \in X |-> DeserializePart(v, parts[i], room[i], bytes, L, D)]]
           c == CHOOSE f : Loop(f)
<1>0. N \in Nat /\ Unread \in X
  BY DEF Unread, State
<1>1. \A i \in 1..N : \A v \in X : DeserializePart(v, parts[i], room[i], bytes, L, D) \in X
  <2>1. ASSUME NEW i \in 1..N, NEW v \in X
        PROVE  DeserializePart(v, parts[i], room[i], bytes, L, D) \in X
    <3>1. parts[i] \in P /\ room[i] \in Room
      BY DEF Rooms
    <3> HIDE DEF N
    <3> QED
      BY <3>1, PartIsRead, Zenon DEF PartRead
  <2> QED
    BY <2>1
<1>2. /\ G \in [1..N -> [X -> X]]
      /\ \A i \in 1..N : \A v \in X : G[i][v] = DeserializePart(v, parts[i], room[i], bytes, L, D)
  <2> HIDE DEF X, N
  <2> QED
    BY <1>1
<1>3. \E f : Loop(f)
  <2> HIDE DEF N, X, G
  <2>1. PICK f : IsLoop(f, X, Unread, N, G)
    BY <1>0, <1>2, Iterates
  <2>2. ASSUME NEW i \in 0..N
        PROVE  f[i] = IF i = 0 THEN Unread
                      ELSE DeserializePart(f[i - 1], parts[i], room[i], bytes, L, D)
    <3>1. i # 0 => i \in 1..N /\ i - 1 \in 0..N
      BY <1>0
    <3> QED
      BY <1>2, <2>1, <3>1 DEF IsLoop
  <2>3. f = [i \in 0..N |-> f[i]]
    BY <2>1 DEF IsLoop
  <2> QED
    BY <2>2, <2>3, Zenon
<1>4. Loop(c) /\ DeserializeParts(parts, room, bytes, L, D) = c[N]
  BY <1>3 DEF DeserializeParts, Unread
<1> HIDE DEF c, N, X
<1>5. /\ c[0] = Unread
      /\ \A i \in 1..N : c[i] = DeserializePart(c[i - 1], parts[i], room[i], bytes, L, D)
  <2>1. 0 \in 0..N /\ \A i \in 1..N : i \in 0..N /\ i # 0
    BY <1>0
  <2>2. \A i \in 0..N : c[i] = IF i = 0 THEN Unread
                               ELSE DeserializePart(c[i - 1], parts[i], room[i], bytes, L, D)
    BY <1>4
  <2> QED
    BY <2>1, <2>2
<1>6. c \in [0..N -> X]
  <2>1. \A i \in 1..N : c[i - 1] \in X => c[i] \in X
    BY <1>1, <1>5
  <2>2. c = [i \in 0..N |-> c[i]] /\ c[0] \in X
    BY <1>0, <1>4, <1>5
  <2> HIDE DEF Loop
  <2> QED
    BY <1>0, <2>1, <2>2, LoopType
<1> QED
  BY <1>4, <1>5, <1>6 DEF HasReading, IsReading, N, X

\* Reading keeps the number of parts.
PartsRead(P, D, parts, end) ==
  /\ end.ok \in BOOLEAN /\ end.parts \in Seq(P) /\ Len(end.parts) = Len(parts)
  /\ end.whole \in 0..Len(parts)
  /\ \A i \in 1..Len(parts) : OutOf(D, parts[i], end.parts[i])

LEMMA PartsAreRead ==
  ASSUME NEW P, NEW parts \in Seq(P), NEW room, Rooms(room, parts),
         NEW bytes \in Seq(Byte), NEW L \in [P -> Nat],
         NEW D \in Reader(P)
  PROVE  PartsRead(P, D, parts, DeserializeParts(parts, room, bytes, L, D))
<1> DEFINE end == DeserializeParts(parts, room, bytes, L, D)
<1> SUFFICES PartsRead(P, D, parts, end)
  OBVIOUS
<1>1. PICK f : IsReading(f, parts, room, bytes, L, D, P) /\ end = f[Len(parts)]
  <2>0. HasReading(parts, room, bytes, L, D, P)
    BY ReadingExist, Zenon
  <2>1. PICK f : /\ IsReading(f, parts, room, bytes, L, D, P)
                 /\ DeserializeParts(parts, room, bytes, L, D) = f[Len(parts)]
    BY <2>0, Zenon DEF HasReading
  <2> QED
    BY <2>1, Zenon
<1> DEFINE N == Len(parts)
           A(n) == /\ Len(f[n].parts) = n
                   /\ f[n].whole \in 0..n
                   /\ \A i \in 1..n : OutOf(D, parts[i], f[n].parts[i])
           S == {n \in 0..N : A(n)}
<1>2. /\ f \in [0..N -> State(P)]
      /\ f[0] = Unread
      /\ \A i \in 1..N : f[i] = DeserializePart(f[i - 1], parts[i], room[i], bytes, L, D)
  BY <1>1 DEF IsReading
<1>3. N \in Nat /\ \A i \in 1..N : parts[i] \in P
  BY ElementOfSeq, LenProperties
<1>4. 0 \in S
  BY <1>2, <1>3 DEF Unread
<1>5. ASSUME NEW n \in 0..(N - 1), n \in S PROVE n + 1 \in S
  <2>1. n + 1 \in 1..N /\ (n + 1) - 1 = n /\ n \in 0..N /\ n + 1 \in 0..N
    BY <1>3
  <2> DEFINE state == f[n]
             after == f[n + 1]
             part == parts[n + 1]
  <2>2. after = DeserializePart(state, part, room[n + 1], bytes, L, D)
    BY <1>2, <2>1
  <2>3. state \in State(P) /\ part \in P /\ A(n) /\ room[n + 1] \in Room
    BY <1>2, <1>3, <1>5, <2>1 DEF Rooms
  <2> HIDE DEF state, after, part
  <2>31. state \in State(P)
    BY <2>3
  <2>32. part \in P /\ room[n + 1] \in Room
    BY <2>3
  <2>33. PartRead(P, D, part, state, after)
    BY <2>2, <2>31, <2>32, PartIsRead, Zenon
  <2>4. PICK object \in P : OutOf(D, part, object) /\ after.parts = Append(state.parts, object)
    BY <2>33 DEF PartRead
  <2>5. after.whole \in {state.whole, state.whole + 1}
    BY <2>33 DEF PartRead
  <2>6. /\ state.parts \in Seq(P) /\ Len(state.parts) = n /\ state.whole \in 0..n
        /\ \A i \in 1..n : OutOf(D, parts[i], state.parts[i])
    BY <2>3 DEF state, State
  <2>7. Len(after.parts) = n + 1 /\ after.whole \in 0..(n + 1)
    <3>1. n \in Nat
      BY <1>3
    <3>2. Len(after.parts) = n + 1
      BY <2>4, <2>6
    <3> QED
      BY <2>5, <2>6, <3>1, <3>2
  <2>8. ASSUME NEW i \in 1..(n + 1) PROVE OutOf(D, parts[i], after.parts[i])
    <3>1. CASE i = n + 1
      <4>1. after.parts[i] = object
        BY <2>4, <2>6, <3>1
      <4> QED
        BY <2>4, <3>1, <4>1 DEF part
    <3>2. CASE i # n + 1
      <4>1. i \in 1..n
        BY <3>2
      <4>2. after.parts[i] = state.parts[i]
        BY <2>4, <2>6, <4>1
      <4> QED
        BY <2>6, <4>1, <4>2
    <3> QED
      BY <3>1, <3>2
  <2> QED
    BY <2>1, <2>7, <2>8 DEF after
<1>6. \A n \in 0..N : n \in S
  <2> HIDE DEF S
  <2> QED
    BY <1>3, <1>4, <1>5, UpTo, Zenon
<1>7. N \in S /\ N \in 0..N
  BY <1>3, <1>6
<1>8. end.ok \in BOOLEAN /\ end.parts \in Seq(P)
  <2>1. end \in State(P)
    BY <1>1, <1>2, <1>7, Zenon
  <2> QED
    BY <2>1 DEF State
<1> QED
  BY <1>1, <1>7, <1>8 DEF PartsRead

\* An attempt to read a container leaves it with parts that were read.
ReadInto(D, o, q) ==
  /\ o.type # "DynamicArray" =>
       /\ Len(q) = Len(o.parts)
       /\ \A i \in 1..Len(q) : OutOf(D, o.parts[i], q[i])
  /\ o.type = "DynamicArray" => \A i \in 1..Len(q) : OutOf(D, o.of, q[i])

LEMMA ArrayIsRead ==
  ASSUME NEW P, NEW L \in [P -> Nat], NEW D \in Reader(P),
         NEW o \in Containers(P), o.type = "DynamicArray", NEW bytes \in Seq(Byte),
         NEW read, read = DeserializeDynamicArray(o, bytes, L, D)
  PROVE  /\ read.ok \in BOOLEAN
         /\ \E q \in Seq(P) : ReadInto(D, o, q) /\ read.object = WithParts(o, q)
<1>1. o.of \in P /\ o.fieldLength \in Nat /\ L[o.of] \in Nat
  BY ContainerFields
<1> DEFINE empty == [o EXCEPT !.parts = <<>>]
           field == Slice(bytes, 0, o.fieldLength)
           count == UnpackUnsigned(field) \div L[o.of]
           parts == [i \in 1..count |-> o.of]
           room == [i \in 1..count |-> L[o.of]]
           left == From(bytes, o.fieldLength)
           end == DeserializeParts(parts, room, left, L, D)
<1>2. read = IF o.fieldLength = 0 THEN Done(empty)
             ELSE IF Len(field) < o.fieldLength \/ L[o.of] = 0 THEN Broken(empty)
             ELSE [ok |-> end.ok, object |-> [o EXCEPT !.parts = SubSeq(end.parts, 1, end.whole)]]
  BY DEF DeserializeDynamicArray
<1>3. empty = WithParts(o, <<>>)
  BY DEF WithParts
<1>4. field \in Seq(Byte) /\ left \in Seq(Byte)
  BY <1>1, SliceType
<1> HIDE DEF empty, field, left, end
<1>5. UnpackUnsigned(field) \in Nat
  BY <1>4, ReadIsInRange
<1>6. CASE read = Done(empty) \/ read = Broken(empty)
  <2>1. read.ok \in BOOLEAN /\ read.object = empty
    <3>1. empty \in Containers(P)
      <4>1. <<>> \in Seq(P)
        OBVIOUS
      <4> QED
        BY <1>3, <4>1, PartsReplaced, Zenon
    <3> QED
      BY <1>6, <3>1, Attempted
  <2>2. <<>> \in Seq(P) /\ ReadInto(D, o, <<>>)
    BY DEF ReadInto
  <2> QED
    BY <1>3, <2>1, <2>2
<1>7. CASE ~(read = Done(empty) \/ read = Broken(empty))
  <2>1. /\ L[o.of] \in Nat \ {0}
        /\ read = [ok |-> end.ok, object |-> [o EXCEPT !.parts = SubSeq(end.parts, 1, end.whole)]]
    BY <1>1, <1>2, <1>7
  <2>2. count \in Nat
    BY <1>5, <2>1, NaturalQuotient
  <2> HIDE DEF count
  <2>3. parts \in [1..count -> P] /\ \A i \in 1..count : parts[i] = o.of /\ room[i] = L[o.of]
    BY <1>1
  <2> HIDE DEF parts, room
  <2>4. parts \in Seq(P) /\ Len(parts) = count
    BY <2>2, <2>3, FunctionIsSequence
  <2>5. Rooms(room, parts)
    BY <1>1, <2>3, <2>4 DEF Room, Rooms
  <2>6. end = DeserializeParts(parts, room, left, L, D)
    BY DEF end
  <2>71. PartsRead(P, D, parts, end)
    BY <1>4, <2>4, <2>5, <2>6, PartsAreRead, Zenon
  <2>7. /\ end.ok \in BOOLEAN /\ end.parts \in Seq(P) /\ Len(end.parts) = Len(parts)
        /\ end.whole \in 0..Len(parts)
        /\ \A i \in 1..Len(parts) : OutOf(D, parts[i], end.parts[i])
    BY <2>71 DEF PartsRead
  <2> DEFINE q == SubSeq(end.parts, 1, end.whole)
  <2>8. end.whole \in Nat /\ end.whole <= Len(end.parts)
    BY <2>2, <2>4, <2>7
  <2>9. /\ q \in Seq(P) /\ Len(q) = end.whole
        /\ \A i \in 1..Len(q) : q[i] = end.parts[i] /\ i \in 1..count
    BY <2>2, <2>4, <2>7, <2>8
  <2>10. read.ok = end.ok /\ read.object = WithParts(o, q)
    BY <2>1 DEF WithParts
  <2> HIDE DEF q
  <2>11. \A i \in 1..Len(q) : OutOf(D, o.of, q[i])
    BY <2>3, <2>4, <2>7, <2>9
  <2> QED
    BY <2>7, <2>9, <2>10, <2>11 DEF ReadInto
<1> QED
  BY <1>6, <1>7

LEMMA ContainerIsRead ==
  ASSUME NEW P, NEW L \in [P -> Nat], NEW D \in Reader(P),
         NEW o \in Containers(P), NEW bytes \in Seq(Byte),
         NEW read, read = DeserializeContainer(o, bytes, L, D)
  PROVE  /\ read \in Attempt(Containers(P))
         /\ \E q \in Seq(P) : ReadInto(D, o, q) /\ read.object = WithParts(o, q)
<1>1. o.parts \in Seq(P) /\ o.type \in {"Struct", "FixedArray", "DynamicArray"}
  BY ContainerFields
<1>2. Len(o.parts) \in Nat /\ DOMAIN o.parts = 1..Len(o.parts)
      /\ \A i \in 1..Len(o.parts) : o.parts[i] \in P /\ L[o.parts[i]] \in Nat
  BY <1>1, ElementOfSeq, LenProperties
<1>3. ASSUME o.type # "DynamicArray", NEW room, room \in [1..Len(o.parts) -> Room],
             NEW end, end = DeserializeParts(o.parts, room, bytes, L, D),
             read = [ok |-> end.ok, object |-> [o EXCEPT !.parts = end.parts]]
      PROVE  /\ read.ok \in BOOLEAN
             /\ \E q \in Seq(P) : ReadInto(D, o, q) /\ read.object = WithParts(o, q)
  <2>1. Rooms(room, o.parts)
    BY <1>3 DEF Rooms
  <2>2. /\ end.ok \in BOOLEAN /\ end.parts \in Seq(P) /\ Len(end.parts) = Len(o.parts)
        /\ \A i \in 1..Len(o.parts) : OutOf(D, o.parts[i], end.parts[i])
    <3>1. PartsRead(P, D, o.parts, end)
      BY <1>1, <1>3, <2>1, PartsAreRead, Zenon
    <3> QED
      BY <3>1 DEF PartsRead
  <2>3. ReadInto(D, o, end.parts)
    BY <1>3, <2>2 DEF ReadInto
  <2> QED
    BY <1>3, <2>2, <2>3 DEF WithParts
<1>4. /\ read.ok \in BOOLEAN
      /\ \E q \in Seq(P) : ReadInto(D, o, q) /\ read.object = WithParts(o, q)
  <2>1. CASE o.type = "Struct"
    <3> DEFINE room == [i \in DOMAIN o.parts |->
                          IF HasDynamicSize(o.parts[i]) THEN Rest ELSE L[o.parts[i]]]
               end == DeserializeParts(o.parts, room, bytes, L, D)
    <3>1. room \in [1..Len(o.parts) -> Room]
      BY <1>2 DEF Room
    <3>2. read = [ok |-> end.ok, object |-> [o EXCEPT !.parts = end.parts]]
      BY <2>1 DEF DeserializeContainer, DeserializeStruct
    <3> HIDE DEF room
    <3>3. end = DeserializeParts(o.parts, room, bytes, L, D)
      OBVIOUS
    <3> HIDE DEF end
    <3> QED
      BY <1>3, <2>1, <3>1, <3>2, <3>3
  <2>2. CASE o.type = "FixedArray"
    <3> DEFINE room == [i \in DOMAIN o.parts |-> L[o.parts[1]]]
               end == DeserializeParts(o.parts, room, bytes, L, D)
    <3>1. room \in [1..Len(o.parts) -> Room]
      BY <1>2 DEF Room
    <3>2. read = [ok |-> end.ok, object |-> [o EXCEPT !.parts = end.parts]]
      BY <2>2 DEF DeserializeContainer, DeserializeFixedArray
    <3> HIDE DEF room
    <3>3. end = DeserializeParts(o.parts, room, bytes, L, D)
      OBVIOUS
    <3> HIDE DEF end
    <3> QED
      BY <1>3, <2>2, <3>1, <3>2, <3>3
  <2>3. CASE o.type = "DynamicArray"
    <3>1. read = DeserializeDynamicArray(o, bytes, L, D)
      BY <2>3 DEF DeserializeContainer
    <3> QED
      BY <2>3, <3>1, ArrayIsRead
  <2> QED
    BY <1>1, <2>1, <2>2, <2>3
<1>5. \E q : read = Done(q) \/ read = Broken(q)
  <2>1. \E x, y : read = [ok |-> x, object |-> y]
    BY <1>1
       DEF DeserializeContainer, DeserializeStruct, DeserializeFixedArray,
           DeserializeDynamicArray, Done, Broken
  <2> QED
    BY <1>4, <2>1 DEF Done, Broken
<1>6. read.object \in Containers(P)
  BY <1>4, PartsReplaced
<1> QED
  BY <1>4, <1>5, <1>6 DEF Attempt, Done, Broken

-----------------------------------------------------------------------------
(* The functions of each level have the values and the types they should.   *)

LEMMA LevelByLevel ==
  ASSUME NEW S, \A n \in 0..Depth : (n # 0 => n - 1 \in S) => n \in S
  PROVE  \A n \in 0..Depth : n \in S
<1>1. Depth \in Nat /\ 0 \in 0..Depth
  BY BoundAssumption
<1>2. 0 \in S
  BY <1>1
<1>3. ASSUME NEW n \in 0..(Depth - 1), n \in S PROVE n + 1 \in S
  <2>1. n + 1 \in 0..Depth /\ (n + 1) - 1 = n
    BY <1>1
  <2> QED
    BY <1>3, <2>1
<1> QED
  BY <1>1, <1>2, <1>3, UpTo, Zenon

LEMMA LengthValue ==
  ASSUME NEW n \in 0..Depth, NEW o \in Objects[n]
  PROVE  Length[n][o] = IF IsContainer(o) THEN ContainerLength(o, Length[n - 1])
                        ELSE BasicLength(o)
<1>1. Length[n] = LengthLevel(n, Length[n - 1])
  BY LengthLevels
<1> QED
  BY <1>1, Zenon DEF LengthLevel

LEMMA SerializeValue ==
  ASSUME NEW n \in 0..Depth, NEW o \in Objects[n]
  PROVE  Serialize[n][o] = IF IsContainer(o)
                             THEN SerializeContainer(o, Length[n - 1], Serialize[n - 1])
                             ELSE SerializeBasic(o)
<1>1. Serialize[n] = SerializeLevel(n, Serialize[n - 1])
  BY SerializeLevels
<1> QED
  BY <1>1, Zenon DEF SerializeLevel

LEMMA DeserializeValue ==
  ASSUME NEW n \in 0..Depth, NEW o \in Objects[n], NEW bytes \in Seq(Byte)
  PROVE  Deserialize[n][o][bytes]
           = IF IsContainer(o) THEN DeserializeContainer(o, bytes, Length[n - 1], Deserialize[n - 1])
             ELSE DeserializeBasic(o, bytes)
<1>1. Deserialize[n] = DeserializeLevel(n, Deserialize[n - 1])
  BY DeserializeLevels
<1>2. Deserialize[n][o] = [b \in Seq(Byte) |->
        IF IsContainer(o) THEN DeserializeContainer(o, b, Length[n - 1], Deserialize[n - 1])
        ELSE DeserializeBasic(o, b)]
  BY <1>1, Zenon DEF DeserializeLevel
<1> QED
  BY <1>2, Zenon

LEMMA EqualValue ==
  ASSUME NEW n \in 0..Depth, NEW o \in Objects[n], NEW p \in Objects[n]
  PROVE  Equal[n][o][p] = IF IsContainer(o) THEN EqualContainers(o, p, Length[n - 1], Equal[n - 1])
                          ELSE EqualBasic(o, p)
<1>1. Equal[n] = EqualLevel(n, Equal[n - 1])
  BY EqualLevels
<1>2. Equal[n][o] = [q \in Objects[n] |->
        IF IsContainer(o) THEN EqualContainers(o, q, Length[n - 1], Equal[n - 1])
        ELSE EqualBasic(o, q)]
  BY <1>1, Zenon DEF EqualLevel
<1> QED
  BY <1>2, Zenon

LEMMA EditsValue ==
  ASSUME NEW n \in 0..Depth, NEW o \in Objects[n]
  PROVE  Edits[n][o] = IF IsContainer(o) THEN EditsOfContainer(o, Edits[n - 1])
                       ELSE EditsOfBasic(o)
<1>1. Edits[n] = EditsLevel(n, Edits[n - 1])
  BY EditsLevels
<1> QED
  BY <1>1, Zenon DEF EditsLevel

LEMMA AgreeValue ==
  ASSUME NEW n \in 0..Depth, NEW o \in Objects[n], NEW p \in Objects[n]
  PROVE  Agree[n][o][p]
           = (IsContainer(o) => ContainersAgree(o, p, Length[n - 1], Agree[n - 1]))
<1>1. Agree[n] = AgreeLevel(n, Agree[n - 1])
  BY AgreeLevels
<1>2. Agree[n][o] = [q \in Objects[n] |->
        IsContainer(o) => ContainersAgree(o, q, Length[n - 1], Agree[n - 1])]
  BY <1>1, Zenon DEF AgreeLevel
<1> QED
  BY <1>2, Zenon

LEMMA ShapedValue ==
  ASSUME NEW n \in 0..Depth, NEW t \in Objects[n], NEW o \in Objects[n], NEW wire \in BOOLEAN
  PROVE  Shaped[n][t][o][wire] = IF IsContainer(o) THEN ShapedContainer(t, o, wire, Shaped[n - 1])
                                 ELSE ShapedBasic(t, o, wire)
<1>1. Shaped[n] = ShapedLevel(n, Shaped[n - 1])
  BY ShapedLevels
<1>2. Shaped[n][t] = [q \in Objects[n] |-> [w \in BOOLEAN |->
        IF IsContainer(q) THEN ShapedContainer(t, q, w, Shaped[n - 1]) ELSE ShapedBasic(t, q, w)]]
  BY <1>1, Zenon DEF ShapedLevel
<1>3. Shaped[n][t][o] = [w \in BOOLEAN |->
        IF IsContainer(o) THEN ShapedContainer(t, o, w, Shaped[n - 1]) ELSE ShapedBasic(t, o, w)]
  BY <1>2, Zenon
<1> QED
  BY <1>3, Zenon

\* Lengths are numbers, serializing gives bytes unless it raises, and deserializing an
\* object.
Typed(P, L, R, D) == L \in [P -> Nat] /\ R \in [P -> Result] /\ D \in Reader(P)

LEMMA TypedAbove ==
  ASSUME NEW n \in 0..Depth,
         n # 0 => Typed(Objects[n - 1], Length[n - 1], Serialize[n - 1], Deserialize[n - 1])
  PROVE  Typed(Objects[n], Length[n], Serialize[n], Deserialize[n])
<1> DEFINE P == Objects[n - 1]
<1>1. /\ Length[n] = LengthLevel(n, Length[n - 1])
      /\ Serialize[n] = SerializeLevel(n, Serialize[n - 1])
      /\ Deserialize[n] = DeserializeLevel(n, Deserialize[n - 1])
  BY LengthLevels, SerializeLevels, DeserializeLevels
<1>2. ASSUME NEW o \in Objects[n], IsContainer(o)
      PROVE  /\ n # 0 /\ o \in Containers(P) /\ Length[n - 1] \in [P -> Nat]
             /\ Serialize[n - 1] \in [P -> Result] /\ Deserialize[n - 1] \in Reader(P)
  BY <1>2, ObjectCases DEF Typed
<1>3. ASSUME NEW o \in Objects[n], ~IsContainer(o) PROVE o \in Basic
  BY <1>3, ObjectCases
<1>4. /\ Basic \subseteq Objects[n]
      /\ n # 0 => Containers(P) \subseteq Objects[n]
  BY ObjectKinds
<1> HIDE DEF P
<1>5. Length[n] \in [Objects[n] -> Nat]
  <2>1. ASSUME NEW o \in Objects[n]
        PROVE  (IF IsContainer(o) THEN ContainerLength(o, Length[n - 1]) ELSE BasicLength(o)) \in Nat
    <3>1. IsContainer(o) => ContainerLength(o, Length[n - 1]) \in Nat
      BY <1>2, ContainerLengthType
    <3>2. ~IsContainer(o) => BasicLength(o) \in Nat
      BY <1>3, LengthOfBasic
    <3> QED
      BY <3>1, <3>2
  <2> QED
    BY <1>1, <2>1, Zenon DEF LengthLevel
<1>6. Serialize[n] \in [Objects[n] -> Result]
  <2>1. ASSUME NEW o \in Objects[n]
        PROVE  (IF IsContainer(o) THEN SerializeContainer(o, Length[n - 1], Serialize[n - 1])
                ELSE SerializeBasic(o)) \in Result
    <3>1. IsContainer(o) => SerializeContainer(o, Length[n - 1], Serialize[n - 1]) \in Result
      BY <1>2, ContainerResultType
    <3>2. ~IsContainer(o) => SerializeBasic(o) \in Result
      BY <1>3, BasicIsWritten
    <3> QED
      BY <3>1, <3>2
  <2> QED
    BY <1>1, <2>1, Zenon DEF SerializeLevel
<1>7. Deserialize[n] \in Reader(Objects[n])
  <2>1. ASSUME NEW o \in Objects[n], NEW bytes \in Seq(Byte)
        PROVE  (IF IsContainer(o) THEN DeserializeContainer(o, bytes, Length[n - 1], Deserialize[n - 1])
                ELSE DeserializeBasic(o, bytes)) \in Attempt(Objects[n])
    <3>1. CASE IsContainer(o)
      <4> DEFINE read == DeserializeContainer(o, bytes, Length[n - 1], Deserialize[n - 1])
      <4>1. read \in Attempt(Containers(P))
        BY <1>2, <3>1, ContainerIsRead
      <4>2. Containers(P) \subseteq Objects[n]
        BY <1>2, <1>4, <3>1
      <4> HIDE DEF read
      <4>3. read \in Attempt(Objects[n])
        BY <4>1, <4>2 DEF Attempt
      <4> QED
        BY <3>1, <4>3 DEF read
    <3>2. CASE ~IsContainer(o)
      <4> DEFINE read == DeserializeBasic(o, bytes)
      <4>1. read \in Attempt(Basic)
        BY <1>3, <3>2, BasicIsRead
      <4> HIDE DEF read
      <4>2. read \in Attempt(Objects[n])
        BY <1>4, <4>1 DEF Attempt
      <4> QED
        BY <3>2, <4>2 DEF read
    <3> QED
      BY <3>1, <3>2
  <2>2. ASSUME NEW o \in Objects[n]
        PROVE  [bytes \in Seq(Byte) |->
                  IF IsContainer(o) THEN DeserializeContainer(o, bytes, Length[n - 1], Deserialize[n - 1])
                  ELSE DeserializeBasic(o, bytes)] \in [Seq(Byte) -> Attempt(Objects[n])]
    BY <2>1, Zenon
  <2> QED
    BY <1>1, <2>2, Zenon DEF DeserializeLevel, Reader
<1> QED
  BY <1>5, <1>6, <1>7 DEF Typed

LEMMA LevelsAreTyped ==
  \A n \in 0..Depth : Typed(Objects[n], Length[n], Serialize[n], Deserialize[n])
<1> DEFINE A(n) == Typed(Objects[n], Length[n], Serialize[n], Deserialize[n])
           S == {n \in 0..Depth : A(n)}
<1>1. ASSUME NEW n \in 0..Depth, n # 0 => n - 1 \in S PROVE n \in S
  BY <1>1, TypedAbove
<1>2. \A n \in 0..Depth : n \in S
  <2> HIDE DEF S
  <2> QED
    BY <1>1, LevelByLevel, Zenon
<1> QED
  BY <1>2

\* Both hold of the shapes of objects: what is read into an object and what an application
\* assigns leave its class as it is.
KeptByReading(P, S, D) ==
  \A t, o \in P : \A q : S[t][o][TRUE] /\ OutOf(D, o, q) => S[t][q][TRUE]

KeptByEditing(P, S, E) ==
  \A t, o \in P : \A q \in E[o] : S[t][o][FALSE] => q \in P /\ S[t][q][FALSE]

LEMMA ShapedMeans ==
  ASSUME NEW n \in 0..Depth, NEW t \in Objects[n], NEW o \in Objects[n], NEW wire \in BOOLEAN
  PROVE  /\ IsContainer(o) =>
              (Shaped[n][t][o][wire] <=> ShapedContainer(t, o, wire, Shaped[n - 1]))
         /\ ~IsContainer(o) => (Shaped[n][t][o][wire] <=> ShapedBasic(t, o, wire))
  BY ShapedValue

LEMMA ReadContainerIsShaped ==
  ASSUME NEW P, NEW S, NEW D, KeptByReading(P, S, D), NEW t \in Containers(P),
         NEW o \in Containers(P), ShapedContainer(t, o, TRUE, S),
         NEW parts \in Seq(P), ReadInto(D, o, parts), NEW q, q = WithParts(o, parts)
  PROVE  ShapedContainer(t, q, TRUE, S)
<1>1. /\ q.type = o.type /\ q.parts = parts /\ o.type = t.type
      /\ o.type = "DynamicArray" => q.of = o.of /\ q.fieldLength = o.fieldLength /\ o.of \in P
  BY PartsReplaced, ContainerFields DEF ShapedContainer
<1>2. o.parts \in Seq(P) /\ t.parts \in Seq(P)
  BY ContainerFields
<1>3. CASE o.type = "DynamicArray"
  <2>1. \A i \in DOMAIN parts : OutOf(D, o.of, parts[i])
    BY <1>3 DEF ReadInto
  <2>2. /\ o.fieldLength = t.fieldLength /\ o.of = t.of
        /\ \A w \in BOOLEAN : S[o.of][o.of][w]
    BY <1>3 DEF ShapedContainer
  <2>3. \A i \in DOMAIN parts : S[o.of][parts[i]][TRUE]
    BY <1>1, <1>3, <2>1, <2>2 DEF KeptByReading
  <2> QED
    BY <1>1, <1>3, <2>2, <2>3 DEF ShapedContainer
<1>4. CASE o.type # "DynamicArray"
  <2>1. Len(parts) = Len(o.parts) /\ \A i \in 1..Len(parts) : OutOf(D, o.parts[i], parts[i])
    BY <1>4 DEF ReadInto
  <2>2. Len(o.parts) = Len(t.parts) /\ \A i \in DOMAIN o.parts : S[t.parts[i]][o.parts[i]][TRUE]
    BY <1>4 DEF ShapedContainer
  <2>3. ASSUME NEW i \in DOMAIN parts PROVE S[t.parts[i]][parts[i]][TRUE]
    <3>1. i \in 1..Len(parts) /\ i \in DOMAIN o.parts /\ o.parts[i] \in P /\ t.parts[i] \in P
      BY <1>2, <2>1, <2>2
    <3> QED
      BY <2>1, <2>2, <3>1 DEF KeptByReading
  <2> QED
    BY <1>1, <1>4, <2>1, <2>2, <2>3 DEF ShapedContainer
<1> QED
  BY <1>3, <1>4

LEMMA EditedContainerIsShaped ==
  ASSUME NEW P, NEW S, NEW E, KeptByEditing(P, S, E), NEW t \in Containers(P),
         NEW o \in Containers(P), ShapedContainer(t, o, FALSE, S),
         NEW q \in EditsOfContainer(o, E)
  PROVE  q \in Containers(P) /\ ShapedContainer(t, q, FALSE, S)
<1>1. /\ o.parts \in Seq(P) /\ t.parts \in Seq(P) /\ o.type = t.type
      /\ o.type = "DynamicArray" => o.of \in P
  BY ContainerFields DEF ShapedContainer
<1>2. CASE o.type = "DynamicArray"
  <2>1. /\ o.fieldLength = t.fieldLength /\ o.of = t.of
        /\ S[o.of][o.of][FALSE] /\ \A w \in BOOLEAN : S[o.of][o.of][w]
        /\ \A i \in DOMAIN o.parts : S[o.of][o.parts[i]][FALSE]
    BY <1>2 DEF ShapedContainer
  <2>2. PICK parts : /\ q = WithParts(o, parts)
                     /\ parts = <<>> \/ \E e \in E[o.of] : parts = Append(o.parts, e)
    BY <1>2 DEF EditsOfContainer, WithParts
  <2>3. \A e \in E[o.of] : e \in P /\ S[o.of][e][FALSE]
    BY <1>1, <1>2, <2>1 DEF KeptByEditing
  <2>4. parts \in Seq(P) /\ \A i \in DOMAIN parts : S[o.of][parts[i]][FALSE]
    <3>1. CASE parts = <<>>
      BY <3>1
    <3>2. CASE \E e \in E[o.of] : parts = Append(o.parts, e)
      <4>1. PICK e \in E[o.of] : parts = Append(o.parts, e)
        BY <3>2
      <4>2. e \in P /\ S[o.of][e][FALSE]
        BY <2>3
      <4>3. parts \in Seq(P) /\ DOMAIN parts = 1..(Len(o.parts) + 1)
        BY <1>1, <4>1, <4>2
      <4>4. \A i \in 1..Len(o.parts) : parts[i] = o.parts[i] /\ i \in DOMAIN o.parts
        BY <1>1, <4>1, <4>2
      <4>5. parts[Len(o.parts) + 1] = e
        BY <1>1, <4>1, <4>2
      <4>6. \A i \in DOMAIN parts : i \in 1..Len(o.parts) \/ i = Len(o.parts) + 1
        BY <1>1, <4>3
      <4> QED
        BY <2>1, <4>2, <4>3, <4>4, <4>5, <4>6
    <3> QED
      BY <2>2, <3>1, <3>2
  <2>5. /\ q \in Containers(P) /\ q.type = o.type /\ q.parts = parts
        /\ q.of = o.of /\ q.fieldLength = o.fieldLength
    BY <1>2, <2>2, <2>4, PartsReplaced
  <2> QED
    BY <1>1, <1>2, <2>1, <2>4, <2>5 DEF ShapedContainer
<1>3. CASE o.type # "DynamicArray"
  <2>1. Len(o.parts) = Len(t.parts) /\ \A i \in DOMAIN o.parts : S[t.parts[i]][o.parts[i]][FALSE]
    BY <1>3 DEF ShapedContainer
  <2>0. PICK i \in DOMAIN o.parts : \E e \in E[o.parts[i]] : q = [o EXCEPT !.parts[i] = e]
    BY <1>3 DEF EditsOfContainer
  <2>2. PICK e \in E[o.parts[i]] : q = [o EXCEPT !.parts[i] = e]
    BY <2>0
  <2> DEFINE parts == [o.parts EXCEPT ![i] = e]
  <2>3. q = WithParts(o, parts)
    BY <2>2 DEF WithParts
  <2>4. o.parts[i] \in P /\ t.parts[i] \in P
    BY <1>1, <2>1
  <2>5. e \in P /\ S[t.parts[i]][e][FALSE]
    BY <2>1, <2>4 DEF KeptByEditing
  <2>6. parts \in Seq(P) /\ Len(parts) = Len(o.parts) /\ DOMAIN parts = DOMAIN o.parts
    BY <1>1, <2>5
  <2>7. \A j \in DOMAIN parts : S[t.parts[j]][parts[j]][FALSE]
    BY <1>1, <2>1, <2>5
  <2> HIDE DEF parts
  <2>8. q \in Containers(P) /\ q.type = o.type /\ q.parts = parts
    BY <2>3, <2>6, PartsReplaced
  <2> QED
    BY <1>1, <1>3, <2>1, <2>6, <2>7, <2>8 DEF ShapedContainer
<1> QED
  BY <1>2, <1>3

LEMMA KeptAbove ==
  ASSUME NEW n \in 0..Depth,
         n # 0 => /\ KeptByReading(Objects[n - 1], Shaped[n - 1], Deserialize[n - 1])
                  /\ KeptByEditing(Objects[n - 1], Shaped[n - 1], Edits[n - 1])
  PROVE  /\ KeptByReading(Objects[n], Shaped[n], Deserialize[n])
         /\ KeptByEditing(Objects[n], Shaped[n], Edits[n])
<1> DEFINE P == Objects[n - 1]
           T == Objects[n]
<1>1. /\ Basic \subseteq T
      /\ n # 0 => Containers(P) \subseteq T
  BY ObjectKinds
<1>2. ASSUME NEW t \in T, NEW o \in T, IsContainer(o),
             \E wire \in BOOLEAN : ShapedContainer(t, o, wire, Shaped[n - 1])
      PROVE  /\ n # 0 /\ n - 1 \in 0..Depth
             /\ o \in Containers(P) /\ t \in Containers(P)
  <2>1. IsContainer(t)
    BY <1>2 DEF IsContainer, ShapedContainer
  <2> QED
    BY <1>2, <2>1, ObjectCases
<1>3. ASSUME NEW t \in T, NEW o \in T, NEW q, Shaped[n][t][o][TRUE], OutOf(Deserialize[n], o, q)
      PROVE  Shaped[n][t][q][TRUE]
  <2>1. CASE q = o
    BY <1>3, <2>1
  <2>2. CASE q # o
    <3>1. PICK bytes \in Seq(Byte) : q = Deserialize[n][o][bytes].object
      BY <1>3, <2>2 DEF OutOf
    <3>2. CASE IsContainer(o)
      <4>1. ShapedContainer(t, o, TRUE, Shaped[n - 1])
        BY <1>3, <3>2, ShapedMeans
      <4>2. n # 0 /\ n - 1 \in 0..Depth /\ o \in Containers(P) /\ t \in Containers(P)
        BY <1>2, <3>2, <4>1
      <4>3. Typed(P, Length[n - 1], Serialize[n - 1], Deserialize[n - 1])
        BY <4>2, LevelsAreTyped
      <4>4. q = DeserializeContainer(o, bytes, Length[n - 1], Deserialize[n - 1]).object
        BY <3>1, <3>2, DeserializeValue
      <4> HIDE DEF P
      <4>5. PICK parts \in Seq(P) : ReadInto(Deserialize[n - 1], o, parts) /\ q = WithParts(o, parts)
        BY <4>2, <4>3, <4>4, ContainerIsRead DEF Typed
      <4>6. ShapedContainer(t, q, TRUE, Shaped[n - 1])
        BY <4>1, <4>2, <4>5, ReadContainerIsShaped DEF P
      <4>7. q \in T /\ IsContainer(q)
        BY <1>1, <4>2, <4>5, PartsReplaced, ContainerFields
      <4> QED
        BY <4>6, <4>7, ShapedMeans
    <3>3. CASE ~IsContainer(o)
      <4>1. ShapedBasic(t, o, TRUE) /\ o \in Basic
        BY <1>3, <3>3, ShapedMeans, ObjectCases
      <4> DEFINE read == DeserializeBasic(o, bytes)
      <4>2. q = read.object
        BY <3>1, <3>3, DeserializeValue
      <4>5. read \in Attempt(Basic) /\ ShapedBasic(t, read.object, TRUE)
        BY <4>1, BasicIsRead
      <4> HIDE DEF read
      <4>3. q \in Basic /\ ShapedBasic(t, q, TRUE)
        BY <4>2, <4>5 DEF Attempt
      <4>4. q \in T /\ ~IsContainer(q)
        BY <1>1, <4>3, KindsOfBasic
      <4> QED
        BY <4>3, <4>4, ShapedMeans
    <3> QED
      BY <3>2, <3>3
  <2> QED
    BY <2>1, <2>2
<1>4. ASSUME NEW t \in T, NEW o \in T, NEW q \in Edits[n][o], Shaped[n][t][o][FALSE]
      PROVE  q \in T /\ Shaped[n][t][q][FALSE]
  <2>1. CASE IsContainer(o)
    <3>1. ShapedContainer(t, o, FALSE, Shaped[n - 1])
      BY <1>4, <2>1, ShapedMeans
    <3>2. n # 0 /\ o \in Containers(P) /\ t \in Containers(P)
      BY <1>2, <2>1, <3>1
    <3>3. q \in EditsOfContainer(o, Edits[n - 1])
      BY <2>1, EditsValue
    <3>4. q \in Containers(P) /\ ShapedContainer(t, q, FALSE, Shaped[n - 1])
      BY <3>1, <3>2, <3>3, EditedContainerIsShaped
    <3>5. q \in T /\ IsContainer(q)
      BY <1>1, <3>2, <3>4, ContainerFields
    <3> QED
      BY <3>4, <3>5, ShapedMeans
  <2>2. CASE ~IsContainer(o)
    <3>1. ShapedBasic(t, o, FALSE) /\ o \in Basic
      BY <1>4, <2>2, ShapedMeans, ObjectCases
    <3>2. q \in EditsOfBasic(o)
      BY <2>2, EditsValue
    <3>3. q \in Basic /\ ShapedBasic(t, q, FALSE)
      BY <3>1, <3>2, BasicIsEdited
    <3>4. q \in T /\ ~IsContainer(q)
      BY <1>1, <3>3, KindsOfBasic
    <3> QED
      BY <3>3, <3>4, ShapedMeans
  <2> QED
    BY <2>1, <2>2
<1> QED
  BY <1>3, <1>4 DEF KeptByReading, KeptByEditing

LEMMA ShapesAreKept ==
  \A n \in 0..Depth : /\ KeptByReading(Objects[n], Shaped[n], Deserialize[n])
                      /\ KeptByEditing(Objects[n], Shaped[n], Edits[n])
<1> DEFINE A(n) == /\ KeptByReading(Objects[n], Shaped[n], Deserialize[n])
                   /\ KeptByEditing(Objects[n], Shaped[n], Edits[n])
           S == {n \in 0..Depth : A(n)}
<1>1. ASSUME NEW n \in 0..Depth, n # 0 => n - 1 \in S PROVE n \in S
  BY <1>1, KeptAbove
<1>2. \A n \in 0..Depth : n \in S
  <2> HIDE DEF S
  <2> QED
    BY <1>1, LevelByLevel, Zenon
<1> QED
  BY <1>2

-----------------------------------------------------------------------------
(* Objects keep their structure.                                           *)

LEMMA TopLevel ==
  /\ Typed(Objects[Depth], Length[Depth], Serialize[Depth], Deserialize[Depth])
  /\ KeptByReading(Objects[Depth], Shaped[Depth], Deserialize[Depth])
  /\ KeptByEditing(Objects[Depth], Shaped[Depth], Edits[Depth])
<1>1. Depth \in 0..Depth
  BY BoundAssumption
<1> QED
  BY <1>1, LevelsAreTyped, ShapesAreKept

LEMMA InitType == Init => TypeOK
<1> SUFFICES ASSUME Init PROVE TypeOK
  OBVIOUS
<1>1. sent \in Structs /\ held = sent /\ outcome = NoTransfer
  BY DEF Init
<1>2. sent \in Objects[Depth] /\ Shaped[Depth][sent][sent][FALSE] /\ Shaped[Depth][sent][sent][TRUE]
  BY <1>1, StructAssumption
<1> QED
  BY <1>1, <1>2 DEF TypeOK, NoTransfer

LEMMA EditType == TypeOK /\ Edit => TypeOK'
<1> SUFFICES ASSUME TypeOK, Edit PROVE TypeOK'
  OBVIOUS
<1>1. sent' \in Edits[Depth][sent] /\ outcome' = NoTransfer /\ held' = held
  BY DEF Edit
<1>2. sent \in Objects[Depth] /\ held \in Objects[Depth]
  BY DEF TypeOK
<1>3. PICK t \in Structs : Shaped[Depth][t][sent][FALSE] /\ Shaped[Depth][t][held][TRUE]
  BY DEF TypeOK
<1>4. t \in Objects[Depth]
  BY StructAssumption
<1>5. sent' \in Objects[Depth] /\ Shaped[Depth][t][sent'][FALSE]
  BY <1>1, <1>2, <1>3, <1>4, TopLevel DEF KeptByEditing
<1>6. outcome'.kind = "none"
  BY <1>1 DEF NoTransfer
<1> QED
  BY <1>1, <1>2, <1>3, <1>5, <1>6 DEF TypeOK

LEMMA TransferType == TypeOK /\ Transfer => TypeOK'
<1> SUFFICES ASSUME TypeOK, Transfer PROVE TypeOK'
  OBVIOUS
<1> DEFINE written == Serialize[Depth][sent]
           read == Deserialize[Depth][held][written.bytes]
<1>1. /\ sent \in Objects[Depth] /\ held \in Objects[Depth]
      /\ sent' = sent
  BY DEF TypeOK, Transfer
<1>2. PICK t \in Structs : Shaped[Depth][t][sent][FALSE] /\ Shaped[Depth][t][held][TRUE]
  BY DEF TypeOK
<1>3. t \in Objects[Depth]
  BY StructAssumption
<1>4. written \in Result
  BY <1>1, TopLevel DEF Typed
<1>5. CASE ~written.ok
  <2>1. outcome' = [kind |-> "refused"] /\ held' = held
    BY <1>5 DEF Transfer
  <2>2. outcome'.kind = "refused"
    BY <2>1
  <2> QED
    BY <1>1, <1>2, <2>1, <2>2 DEF TypeOK
<1>6. CASE written.ok
  <2>1. /\ held' = read.object
        /\ outcome' = [kind |-> IF read.ok THEN "delivered" ELSE "broken",
                       size |-> Len(written.bytes), agreed |-> Agree[Depth][sent][held]]
    BY <1>6 DEF Transfer
  <2>2. written.bytes \in Seq(Byte)
    BY <1>4 DEF Result
  <2>3. read \in Attempt(Objects[Depth])
    BY <1>1, <2>2, TopLevel, ReaderReads DEF Typed
  <2>4. OutOf(Deserialize[Depth], held, read.object)
    BY <2>2 DEF OutOf
  <2> HIDE DEF read, written
  <2>5. held' \in Objects[Depth]
    BY <2>1, <2>3 DEF Attempt
  <2>6. Shaped[Depth][t][held'][TRUE]
    BY <1>1, <1>2, <1>3, <2>1, <2>4, TopLevel DEF KeptByReading
  <2>7. outcome'.kind \in {"delivered", "broken"}
    BY <2>1
  <2> QED
    BY <1>1, <1>2, <2>5, <2>6, <2>7 DEF TypeOK
<1> QED
  BY <1>5, <1>6

\* Whatever an application assigns and whatever payloads an object has received, both
\* objects keep the structure they were declared with, the numbers received are in the
\* range of their types, and no text ends in a terminator: no setter and no deserialize
\* lets anything else in, also where it raises half way (serialization.py).
THEOREM TypeCorrect == Spec => []TypeOK
<1>1. TypeOK /\ [Next]_vars => TypeOK'
  <2> SUFFICES ASSUME TypeOK, [Next]_vars PROVE TypeOK'
    OBVIOUS
  <2>1. CASE Edit
    BY <2>1, EditType
  <2>2. CASE Transfer
    BY <2>2, TransferType
  <2>3. CASE UNCHANGED vars
    BY <2>3 DEF vars, TypeOK
  <2> QED
    BY <2>1, <2>2, <2>3 DEF Next
<1> QED
  BY <1>1, InitType, PTL DEF Spec

-----------------------------------------------------------------------------
(* What was written comes back.                                            *)

\* An attempt went to the end, and made of the object one that equals o and takes n bytes.
Comes(read, E, L, o, n) == read.ok /\ E[o][read.object] /\ L[read.object] = n

\* The code of o comes back as o in p, if it is given that code alone, or, when its room
\* is the rest, also if other bytes follow.
Returns(D, E, L, o, p, code, room) ==
  /\ room = Rest \/ room = Len(code)
  /\ \A more \in Seq(Byte) :
       more = <<>> \/ room = Rest => Comes(D[p][code \o more], E, L, o, Len(code))

\* One more part has come back.
Advances(P, E, L, o, n, before, after) ==
  /\ after.ok /\ after.at = before.at + n /\ after.whole = before.whole + 1
  /\ \E object \in P : /\ after.parts = Append(before.parts, object)
                       /\ E[o][object] /\ L[object] = n

LEMMA PartReturns ==
  ASSUME NEW P, NEW L \in [P -> Nat], NEW D \in Reader(P), NEW E, NEW o \in P, NEW p \in P,
         NEW room \in Room, NEW code \in Seq(Byte), Returns(D, E, L, o, p, code, room),
         NEW bytes \in Seq(Byte), NEW place, Within(bytes, place, code, Byte),
         NEW state \in State(P), state.ok, state.at = Len(place)
  PROVE  Advances(P, E, L, o, Len(code), state, DeserializePart(state, p, room, bytes, L, D))
<1> DEFINE after == DeserializePart(state, p, room, bytes, L, D)
           share == IF room = Rest THEN From(bytes, state.at)
                    ELSE Slice(bytes, state.at, state.at + room)
           read == D[p][share]
<1>1. Slice(bytes, Len(place), Len(place) + Len(code)) = code
      /\ Begins(From(bytes, Len(place)), code, Byte)
  BY SliceWithin, Zenon
<1>2. PICK more \in Seq(Byte) : share = code \o more /\ (more = <<>> \/ room = Rest)
  <2>1. CASE room = Rest
    <3>1. PICK more \in Seq(Byte) : From(bytes, Len(place)) = code \o more
      BY <1>1 DEF Begins
    <3> QED
      BY <2>1, <3>1
  <2>2. CASE room # Rest
    <3>1. room = Len(code)
      BY <2>2 DEF Returns
    <3>2. share = code
      BY <1>1, <2>2, <3>1
    <3>3. code \o <<>> = code
      BY ConcatEmptySeq
    <3> QED
      <4> HIDE DEF share
      <4>1. <<>> \in Seq(Byte)
        OBVIOUS
      <4>2. share = code \o <<>>
        BY <3>2, <3>3
      <4> QED
        BY <4>1, <4>2
  <2> QED
    BY <2>1, <2>2
<1>3. Comes(read, E, L, o, Len(code))
  <2> HIDE DEF share
  <2> QED
    BY <1>2 DEF Returns
<1>4. after = [ok    |-> read.ok,
               at    |-> state.at + Taken(p, read.object, room, L),
               parts |-> Append(state.parts, read.object),
               whole |-> IF read.ok THEN state.whole + 1 ELSE state.whole]
  BY DEF DeserializePart
<1>5. read.object \in P
  <2>1. share \in Seq(Byte)
    <3> HIDE DEF share
    <3> QED
      BY <1>2, JoinType
  <2> HIDE DEF share
  <2>2. read \in Attempt(P)
    BY <2>1, ReaderReads
  <2> HIDE DEF read
  <2> QED
    BY <2>2 DEF Attempt
<1> HIDE DEF read, share, after
<1>6. read.ok /\ E[o][read.object] /\ L[read.object] = Len(code)
  BY <1>3 DEF Comes
<1>7. Taken(p, read.object, room, L) = Len(code)
  <2>1. room = Rest \/ room = Len(code)
    BY DEF Returns
  <2> QED
    BY <1>6, <2>1 DEF Taken
<1>8. /\ after.ok /\ after.at = state.at + Len(code) /\ after.whole = state.whole + 1
      /\ after.parts = Append(state.parts, read.object)
  BY <1>4, <1>6, <1>7
<1> QED
  BY <1>5, <1>6, <1>8 DEF Advances, after

Codes == Seq(Seq(Byte))

\* Where the codes are among the bytes.
Places(g, codes, rest) ==
  /\ g[0] = <<>> /\ Joined(codes) = g[Len(codes)]
  /\ \A i \in 1..Len(codes) :
       /\ g[i - 1] \in Seq(Byte)
       /\ Len(g[i]) = Len(g[i - 1]) + Len(codes[i])
       /\ Within(Joined(codes) \o rest, g[i - 1], codes[i], Byte)

LEMMA CodePlaces ==
  ASSUME NEW codes \in Codes, NEW rest \in Seq(Byte)
  PROVE  /\ Joined(codes) \in Seq(Byte) /\ Len(codes) \in Nat
         /\ \A i \in 1..Len(codes) : codes[i] \in Seq(Byte)
         /\ \E g : Places(g, codes, rest)
<1> DEFINE T == Seq(Byte)
<1>1. codes \in Seq(T)
  BY DEF Codes
<1>2. Joined(codes) \in T
  BY <1>1, JoinedType
<1>3. PICK g : IsJoints(g, codes, Byte) /\ Joined(codes) = g[Len(codes)]
  BY <1>1, JointsExist, Zenon
<1>4. g[0] = <<>>
  BY <1>3 DEF IsJoints
<1>5. ASSUME NEW i \in 1..Len(codes)
      PROVE  /\ g[i - 1] \in Seq(Byte)
             /\ Len(g[i]) = Len(g[i - 1]) + Len(codes[i])
             /\ Within(g[Len(codes)] \o rest, g[i - 1], codes[i], Byte)
  <2>1. /\ g[i - 1] \in Seq(Byte)
        /\ g[i] = g[i - 1] \o codes[i]
        /\ Len(g[i]) = Len(g[i - 1]) + Len(codes[i])
        /\ Within(g[Len(codes)] \o rest, g[i - 1], codes[i], Byte)
    BY <1>1, <1>3, PlaceInJoint
  <2> QED
    BY <2>1, Zenon
<1>6. Len(codes) \in Nat /\ \A i \in 1..Len(codes) : codes[i] \in T
  <2> HIDE DEF T
  <2> QED
    BY <1>1, ElementOfSeq, LenProperties
<1> QED
  BY <1>2, <1>3, <1>4, <1>5, <1>6, Zenon DEF Places

\* All parts have come back.
AllCome(P, E, L, parts, codes, end) ==
  /\ end.ok /\ end.parts \in Seq(P) /\ Len(end.parts) = Len(parts) /\ end.whole = Len(parts)
  /\ \A i \in 1..Len(parts) : E[parts[i]][end.parts[i]] /\ L[end.parts[i]] = Len(codes[i])

LEMMA Appended ==
  ASSUME NEW P, NEW q \in Seq(P), NEW e \in P, NEW r, r = Append(q, e), NEW n, n = Len(q)
  PROVE  r \in Seq(P) /\ Len(r) = n + 1 /\ r[n + 1] = e /\ \A i \in 1..n : r[i] = q[i]
  OBVIOUS

LEMMA PartsReturn ==
  ASSUME NEW P, NEW L \in [P -> Nat], NEW D \in Reader(P), NEW E,
         NEW parts \in Seq(P), NEW into \in Seq(P), Len(into) = Len(parts),
         NEW codes \in Codes, Len(codes) = Len(parts), NEW room, Rooms(room, into),
         \A i \in 1..Len(parts) : Returns(D, E, L, parts[i], into[i], codes[i], room[i]),
         NEW rest \in Seq(Byte), NEW bytes, bytes = Joined(codes) \o rest
  PROVE  AllCome(P, E, L, parts, codes, DeserializeParts(into, room, bytes, L, D))
<1> DEFINE end == DeserializeParts(into, room, bytes, L, D)
           N == Len(parts)
<1>1. /\ N \in Nat /\ \A i \in 1..N : parts[i] \in P
      /\ \A i \in 1..N : into[i] \in P /\ room[i] \in Room
  BY ElementOfSeq, LenProperties DEF Rooms
<1>2. Joined(codes) \in Seq(Byte) /\ \A i \in 1..N : codes[i] \in Seq(Byte)
  BY CodePlaces
<1>20. PICK g : Places(g, codes, rest)
  BY CodePlaces, Zenon
<1>3. /\ g[0] = <<>>
      /\ \A i \in 1..N : /\ g[i - 1] \in Seq(Byte)
                         /\ Len(g[i]) = Len(g[i - 1]) + Len(codes[i])
                         /\ Within(bytes, g[i - 1], codes[i], Byte)
  BY <1>20 DEF Places
<1>4. bytes \in Seq(Byte)
  BY <1>2, JoinType
<1>5. PICK f : IsReading(f, into, room, bytes, L, D, P) /\ end = f[N]
  <2>1. PICK f : /\ IsReading(f, into, room, bytes, L, D, P)
                 /\ DeserializeParts(into, room, bytes, L, D) = f[Len(into)]
    <3>1. HasReading(into, room, bytes, L, D, P)
      BY <1>4, ReadingExist, Zenon
    <3> QED
      BY <3>1, Zenon DEF HasReading
  <2> QED
    BY <2>1, Zenon
<1> HIDE DEF end
<1>6. /\ f \in [0..N -> State(P)] /\ f[0] = Unread
      /\ \A i \in 1..N : f[i] = DeserializePart(f[i - 1], into[i], room[i], bytes, L, D)
  BY <1>5 DEF IsReading
<1> DEFINE A(n) == /\ f[n].ok /\ f[n].at = Len(g[n]) /\ f[n].whole = n /\ Len(f[n].parts) = n
                   /\ \A i \in 1..n : E[parts[i]][f[n].parts[i]] /\ L[f[n].parts[i]] = Len(codes[i])
           S == {n \in 0..N : A(n)}
<1>7. 0 \in S
  BY <1>1, <1>3, <1>6 DEF Unread
<1>8. ASSUME NEW n \in 0..(N - 1), n \in S PROVE n + 1 \in S
  <2>1. n + 1 \in 1..N /\ (n + 1) - 1 = n /\ n \in 0..N /\ n + 1 \in 0..N /\ n \in Nat
    BY <1>1
  <2> DEFINE state == f[n]
             after == f[n + 1]
             o == parts[n + 1]
             p == into[n + 1]
             code == codes[n + 1]
             place == g[n]
             q == state.parts
             r == after.parts
  <2>2. after = DeserializePart(state, p, room[n + 1], bytes, L, D)
    BY <1>6, <2>1
  <2>3. /\ state \in State(P) /\ o \in P /\ p \in P /\ room[n + 1] \in Room /\ code \in Seq(Byte)
        /\ Returns(D, E, L, o, p, code, room[n + 1])
        /\ Within(bytes, place, code, Byte)
    BY <1>1, <1>2, <1>3, <1>6, <2>1
  <2>4. /\ state.ok /\ state.at = Len(place) /\ state.whole = n /\ Len(q) = n
        /\ \A i \in 1..n : E[parts[i]][q[i]] /\ L[q[i]] = Len(codes[i])
    BY <1>8
  <2>5. Len(g[n + 1]) = Len(place) + Len(code)
    BY <1>3, <2>1
  <2>6. q \in Seq(P)
    <3> HIDE DEF state
    <3> QED
      BY <2>3 DEF State
  <2> HIDE DEF state, after, o, p, code, place, q, r
  <2>7. Advances(P, E, L, o, Len(code), state, after)
    BY <1>4, <2>2, <2>3, <2>4, PartReturns, Zenon
  <2>8. PICK object \in P : r = Append(q, object) /\ E[o][object] /\ L[object] = Len(code)
    BY <2>7 DEF Advances, q, r
  <2>9. after.ok /\ after.at = Len(place) + Len(code) /\ after.whole = n + 1
    BY <2>4, <2>7 DEF Advances
  <2>10. r \in Seq(P) /\ Len(r) = n + 1 /\ r[n + 1] = object /\ \A i \in 1..n : r[i] = q[i]
    <3>1. n = Len(q) /\ r = Append(q, object)
      BY <2>4, <2>8
    <3> QED
      BY <2>6, <3>1, Appended
  <2>11. ASSUME NEW i \in 1..(n + 1) PROVE E[parts[i]][r[i]] /\ L[r[i]] = Len(codes[i])
    <3>1. CASE i = n + 1
      BY <2>8, <2>10, <3>1 DEF o, code
    <3>2. CASE i # n + 1
      <4>1. i \in 1..n
        BY <3>2
      <4> QED
        BY <2>4, <2>10, <4>1
    <3> QED
      BY <3>1, <3>2
  <2>12. A(n + 1)
    BY <2>5, <2>9, <2>10, <2>11 DEF after, r
  <2> QED
    BY <2>1, <2>12
<1>9. \A n \in 0..N : n \in S
  <2> HIDE DEF S
  <2> QED
    BY <1>1, <1>7, <1>8, UpTo, Zenon
<1>10. N \in 0..N /\ A(N)
  <2>1. N \in 0..N
    BY <1>1
  <2> QED
    BY <1>9, <2>1
<1>11. end.parts \in Seq(P)
  <2>1. end \in State(P)
    BY <1>5, <1>6, <1>10, Zenon
  <2> QED
    BY <2>1 DEF State
<1>12. AllCome(P, E, L, parts, codes, end)
  BY <1>5, <1>10, <1>11 DEF AllCome
<1> QED
  BY <1>12 DEF end

\* The lengths of codes add up to that of all of them.
Sizes(codes) == [i \in 1..Len(codes) |-> Len(codes[i])]

LEMMA SizesType ==
  ASSUME NEW codes \in Codes
  PROVE  Sizes(codes) \in Seq(Nat) /\ Len(Sizes(codes)) = Len(codes)
<1>1. Len(codes) \in Nat /\ \A i \in 1..Len(codes) : codes[i] \in Seq(Byte)
  <2>1. <<>> \in Seq(Byte)
    OBVIOUS
  <2> QED
    BY <2>1, CodePlaces, Zenon
<1>2. \A i \in 1..Len(codes) : Len(codes[i]) \in Nat
  BY <1>1
<1>3. Sizes(codes) \in [1..Len(codes) -> Nat]
  BY <1>2, Zenon DEF Sizes
<1> QED
  BY <1>1, <1>3, FunctionIsSequence, Zenon

LEMMA JointLength ==
  ASSUME NEW codes \in Codes
  PROVE  Len(Joined(codes)) = Total(Sizes(codes))
<1> DEFINE N == Len(codes)
<1>1. <<>> \in Seq(Byte)
  OBVIOUS
<1>2. N \in Nat
  BY <1>1, CodePlaces, Zenon
<1>20. PICK g : Places(g, codes, <<>>)
  BY <1>1, CodePlaces, Zenon
<1>3. /\ g[0] = <<>> /\ Joined(codes) = g[N]
      /\ \A i \in 1..N : Len(g[i]) = Len(g[i - 1]) + Len(codes[i])
  BY <1>20 DEF Places
<1>4. Sizes(codes) \in Seq(Nat) /\ Len(Sizes(codes)) = N
  BY SizesType
<1>5. \A i \in 1..N : Sizes(codes)[i] = Len(codes[i])
  BY Zenon DEF Sizes
<1>6. PICK f : IsSums(f, Sizes(codes)) /\ Total(Sizes(codes)) = f[N]
  BY <1>4, SumsExist
<1>7. f[0] = 0 /\ \A i \in 1..N : f[i] = f[i - 1] + Len(codes[i])
  BY <1>4, <1>5, <1>6 DEF IsSums
<1> DEFINE S == {n \in 0..N : Len(g[n]) = f[n]}
<1>8. 0 \in S
  BY <1>2, <1>3, <1>7
<1>9. ASSUME NEW n \in 0..(N - 1), n \in S PROVE n + 1 \in S
  <2>1. n + 1 \in 1..N /\ (n + 1) - 1 = n /\ n + 1 \in 0..N
    BY <1>2
  <2>2. Len(g[n + 1]) = Len(g[n]) + Len(codes[n + 1]) /\ f[n + 1] = f[n] + Len(codes[n + 1])
    BY <1>3, <1>7, <2>1
  <2> QED
    BY <1>9, <2>1, <2>2
<1>10. \A n \in 0..N : n \in S
  <2> HIDE DEF S
  <2> QED
    BY <1>2, <1>8, <1>9, UpTo, Zenon
<1>11. N \in 0..N
  BY <1>2
<1> QED
  BY <1>3, <1>6, <1>10, <1>11

LEMMA OneMore ==
  ASSUME NEW n \in Nat, NEW k \in Nat
  PROVE  (n + 1) * k = n * k + k /\ 0 * k = 0
  OBVIOUS

LEMMA EvenSizes ==
  ASSUME NEW codes \in Codes, NEW k \in Nat, \A i \in 1..Len(codes) : Len(codes[i]) = k
  PROVE  Total(Sizes(codes)) = Len(codes) * k
<1> DEFINE N == Len(codes)
<1>1. Sizes(codes) \in Seq(Nat) /\ Len(Sizes(codes)) = N
  BY SizesType
<1>2. \A i \in 1..N : Sizes(codes)[i] = k
  BY Zenon DEF Sizes
<1>3. PICK f : IsSums(f, Sizes(codes)) /\ Total(Sizes(codes)) = f[N]
  BY <1>1, SumsExist
<1>4. N \in Nat /\ f[0] = 0 /\ \A i \in 1..N : f[i] = f[i - 1] + k
  BY <1>1, <1>2, <1>3 DEF IsSums
<1> DEFINE S == {n \in 0..N : f[n] = n * k}
<1>5. 0 \in S
  BY <1>4, OneMore
<1>6. ASSUME NEW n \in 0..(N - 1), n \in S PROVE n + 1 \in S
  <2>1. n + 1 \in 1..N /\ (n + 1) - 1 = n /\ n + 1 \in 0..N /\ n \in Nat
    BY <1>4
  <2>2. f[n + 1] = f[n] + k /\ f[n] = n * k
    BY <1>4, <1>6, <2>1
  <2>3. (n + 1) * k = n * k + k
    BY <2>1, OneMore
  <2> QED
    BY <2>1, <2>2, <2>3
<1>7. \A n \in 0..N : n \in S
  <2> HIDE DEF S
  <2> QED
    BY <1>4, <1>5, <1>6, UpTo, Zenon
<1>8. N \in 0..N
  BY <1>4
<1> QED
  BY <1>3, <1>7, <1>8

LEMMA EvenCodes ==
  ASSUME NEW codes \in Codes, NEW k \in Nat, \A i \in 1..Len(codes) : Len(codes[i]) = k
  PROVE  Len(Joined(codes)) = Len(codes) * k
<1>1. Total(Sizes(codes)) = Len(codes) * k
  BY EvenSizes, Zenon
<1>2. Len(Joined(codes)) = Total(Sizes(codes))
  BY JointLength, Zenon
<1> QED
  BY <1>1, <1>2

\* The lengths of parts that have those of their codes.
PartLengths(parts, L) == [i \in DOMAIN parts |-> L[parts[i]]]

SizedAs(parts, L, codes) ==
  Len(codes) = Len(parts) /\ \A i \in 1..Len(parts) : L[parts[i]] = Len(codes[i])

LEMMA SizesOfParts ==
  ASSUME NEW P, NEW parts \in Seq(P), NEW L, NEW codes \in Codes, SizedAs(parts, L, codes)
  PROVE  PartLengths(parts, L) = Sizes(codes)
<1>1. DOMAIN parts = 1..Len(parts)
  BY LenProperties
<1> QED
  BY <1>1, Zenon DEF Sizes, PartLengths, SizedAs

\* What an object becomes in the one it is read into, at one level.
RoundTrips(P, L, R, D, E, A, S) ==
  \A t, o, p \in P :
    S[t][o][FALSE] /\ S[t][p][TRUE] /\ R[o].ok /\ A[o][p] =>
      /\ o.type = p.type
      /\ Len(R[o].bytes) = L[o]
      /\ \A more \in Seq(Byte) :
           more = <<>> \/ HasDynamicSize(o) => Comes(D[p][R[o].bytes \o more], E, L, o, L[o])

\* The bytes that a part is given are its own, or all that are left.
Fits(room, o, L) == room = L[o] \/ (room = Rest /\ HasDynamicSize(o))

\* All that is known of a part that is to come back.
PartAgrees(P, L, A, S, o, p, room) ==
  /\ \E t \in P : S[t][o][FALSE] /\ S[t][p][TRUE]
  /\ A[o][p]
  /\ Fits(room, o, L)

\* Its code.
IsCodeOf(code, R, o) == R[o].ok /\ code = R[o].bytes

ReturnsWhole(D, E, L, o, p, code, room) ==
  Returns(D, E, L, o, p, code, room) /\ Len(code) = L[o]

LEMMA AgreedReturns ==
  ASSUME NEW P, NEW L \in [P -> Nat], NEW R, NEW D, NEW E, NEW A, NEW S,
         RoundTrips(P, L, R, D, E, A, S), NEW o \in P, NEW p \in P, NEW room,
         PartAgrees(P, L, A, S, o, p, room), NEW code, IsCodeOf(code, R, o)
  PROVE  ReturnsWhole(D, E, L, o, p, code, room)
<1>0. PICK t \in P : S[t][o][FALSE] /\ S[t][p][TRUE]
  BY DEF PartAgrees
<1>1. /\ A[o][p] /\ Fits(room, o, L)
      /\ R[o].ok /\ code = R[o].bytes
  BY DEF PartAgrees, IsCodeOf
<1>2. /\ Len(code) = L[o] /\ L[o] \in Nat
      /\ \A more \in Seq(Byte) :
           more = <<>> \/ HasDynamicSize(o) => Comes(D[p][code \o more], E, L, o, L[o])
  BY <1>0, <1>1 DEF RoundTrips
<1>3. room = Rest => HasDynamicSize(o)
  BY <1>1, <1>2 DEF Rest, Fits
<1>4. room = Rest \/ room = Len(code)
  BY <1>1, <1>2 DEF Fits
<1> QED
  BY <1>2, <1>3, <1>4, Zenon DEF Returns, ReturnsWhole

\* The code of each part.
CodesOf(parts, R, codes) ==
  /\ codes \in Codes /\ Len(codes) = Len(parts)
  /\ \A i \in 1..Len(parts) : R[parts[i]].ok /\ codes[i] = R[parts[i]].bytes

WrittenParts(parts, R) == Concat([i \in DOMAIN parts |-> R[parts[i]]])

HasCodes(parts, R, written) ==
  /\ written \in Result
  /\ \E codes : CodesOf(parts, R, codes) /\ written.bytes = Joined(codes)

LEMMA PartsAreWritten ==
  ASSUME NEW P, NEW R \in [P -> Result], NEW parts \in Seq(P),
         NEW written, written = WrittenParts(parts, R), written.ok
  PROVE  HasCodes(parts, R, written)
<1> DEFINE results == [i \in DOMAIN parts |-> R[parts[i]]]
<1>1. /\ results \in Seq(Result) /\ Len(results) = Len(parts)
      /\ \A i \in 1..Len(parts) : results[i] = R[parts[i]]
  <2> HIDE DEF results
  <2>1. results = [i \in DOMAIN parts |-> R[parts[i]]]
    BY DEF results
  <2> QED
    BY <2>1, EachPart
<1> HIDE DEF results
<1>2. written = Concat(results)
  BY DEF results, WrittenParts
<1>3. PICK codes \in Seq(Seq(Byte)) :
        /\ Len(codes) = Len(results)
        /\ written.bytes = Joined(codes)
        /\ \A i \in 1..Len(results) : results[i].ok /\ codes[i] = results[i].bytes
  BY <1>1, <1>2, ConcatType, Zenon
<1>4. written \in Result
  BY <1>1, <1>2, ConcatType, Zenon
<1>5. codes \in Codes
  BY <1>3, Zenon DEF Codes
<1> QED
  BY <1>1, <1>3, <1>4, <1>5, Zenon DEF CodesOf, HasCodes

AllAgree(P, L, A, S, parts, into, room) ==
  \A i \in 1..Len(parts) : PartAgrees(P, L, A, S, parts[i], into[i], room[i])

AllComeWhole(P, L, E, parts, codes, end) ==
  /\ \A i \in 1..Len(parts) : Len(codes[i]) = L[parts[i]]
  /\ AllCome(P, E, L, parts, codes, end)

LEMMA PartsCome ==
  ASSUME NEW P, NEW L \in [P -> Nat], NEW R \in [P -> Result], NEW D \in Reader(P),
         NEW E, NEW A, NEW S, RoundTrips(P, L, R, D, E, A, S),
         NEW parts \in Seq(P), NEW into \in Seq(P), Len(into) = Len(parts),
         NEW codes, CodesOf(parts, R, codes), NEW room, Rooms(room, into),
         AllAgree(P, L, A, S, parts, into, room),
         NEW rest \in Seq(Byte), NEW bytes, bytes = Joined(codes) \o rest
  PROVE  AllComeWhole(P, L, E, parts, codes, DeserializeParts(into, room, bytes, L, D))
<1>1. codes \in Codes /\ Len(codes) = Len(parts)
  BY DEF CodesOf
<1>2. ASSUME NEW i \in 1..Len(parts)
      PROVE  /\ Returns(D, E, L, parts[i], into[i], codes[i], room[i])
             /\ Len(codes[i]) = L[parts[i]]
  <2>1. parts[i] \in P /\ into[i] \in P
    BY ElementOfSeq
  <2>2. R[parts[i]].ok /\ codes[i] = R[parts[i]].bytes
    BY DEF CodesOf
  <2> DEFINE o == parts[i]
             p == into[i]
             code == codes[i]
             r == room[i]
  <2>3. PartAgrees(P, L, A, S, o, p, r) /\ o \in P /\ p \in P /\ IsCodeOf(code, R, o)
    BY <2>1, <2>2 DEF IsCodeOf, AllAgree
  <2> HIDE DEF o, p, code, r
  <2>4. PartAgrees(P, L, A, S, o, p, r)
    BY <2>3
  <2>5. o \in P /\ p \in P /\ IsCodeOf(code, R, o)
    BY <2>3
  <2>6. ReturnsWhole(D, E, L, o, p, code, r)
    BY <2>4, <2>5, AgreedReturns, Zenon
  <2> QED
    BY <2>6 DEF o, p, code, r, ReturnsWhole
<1>3. \A i \in 1..Len(parts) : Returns(D, E, L, parts[i], into[i], codes[i], room[i])
  BY <1>2
<1>4. AllCome(P, E, L, parts, codes, DeserializeParts(into, room, bytes, L, D))
  BY <1>1, <1>3, PartsReturn, Zenon
<1> QED
  BY <1>2, <1>4, Zenon DEF AllComeWhole

\* A container of which all parts have come back.
ContainerComes(read, E, L, o) ==
  /\ read.ok /\ EqualContainers(o, read.object, L, E)
  /\ ContainerLength(read.object, L) = ContainerLength(o, L)

\* Of the same class.
Like(o, p) ==
  /\ o.type = p.type
  /\ o.type = "DynamicArray" => o.of = p.of /\ o.fieldLength = p.fieldLength

FilledWith(read, p, end) == read.ok = end.ok /\ read.object = WithParts(p, end.parts)

LEMMA FilledContainer ==
  ASSUME NEW P, NEW L \in [P -> Nat], NEW R, NEW E, NEW o \in Containers(P),
         NEW p \in Containers(P), Like(o, p), NEW codes, CodesOf(o.parts, R, codes),
         NEW end, AllComeWhole(P, L, E, o.parts, codes, end), NEW read, FilledWith(read, p, end)
  PROVE  ContainerComes(read, E, L, o)
<1>0. /\ o.type = p.type
      /\ o.type = "DynamicArray" => o.of = p.of /\ o.fieldLength = p.fieldLength
      /\ codes \in Codes /\ Len(codes) = Len(o.parts)
      /\ \A i \in 1..Len(o.parts) : Len(codes[i]) = L[o.parts[i]]
      /\ AllCome(P, E, L, o.parts, codes, end)
      /\ read.ok = end.ok /\ read.object = WithParts(p, end.parts)
  BY DEF Like, CodesOf, AllComeWhole, FilledWith
<1> DEFINE q == read.object
           parts == end.parts
           N == Len(o.parts)
<1>1. /\ end.ok /\ parts \in Seq(P) /\ Len(parts) = N
      /\ \A i \in 1..N : E[o.parts[i]][parts[i]] /\ L[parts[i]] = Len(codes[i])
  BY <1>0 DEF AllCome
<1>2. /\ o.parts \in Seq(P) /\ N \in Nat /\ DOMAIN o.parts = 1..N
      /\ o.type \in {"Struct", "FixedArray", "DynamicArray"}
  BY ContainerFields, LenProperties
<1> HIDE DEF parts
<1>3. /\ q.type = o.type /\ q.parts = parts
      /\ o.type = "DynamicArray" => q.of = o.of /\ q.fieldLength = o.fieldLength
  BY <1>0, <1>1, PartsReplaced DEF parts
<1> HIDE DEF q
<1>4. ContainerLength(q, L) = ContainerLength(o, L)
  <2>1. CASE o.type = "Struct"
    <3>0. SizedAs(o.parts, L, codes) /\ SizedAs(parts, L, codes)
      BY <1>0, <1>1 DEF SizedAs
    <3>1. PartLengths(o.parts, L) = Sizes(codes)
      BY <1>0, <1>2, <3>0, SizesOfParts, Zenon
    <3>2. PartLengths(parts, L) = Sizes(codes)
      BY <1>0, <1>1, <3>0, SizesOfParts, Zenon
    <3>3. ContainerLength(o, L) = Total(PartLengths(o.parts, L))
      BY <2>1 DEF ContainerLength, PartLengths
    <3>4. ContainerLength(q, L) = Total(PartLengths(parts, L))
      BY <1>3, <2>1 DEF ContainerLength, PartLengths
    <3> QED
      BY <3>1, <3>2, <3>3, <3>4, Zenon
  <2>2. CASE o.type = "FixedArray"
    <3>1. CASE N = 0
      <4>1. o.parts = <<>> /\ parts = <<>>
        BY <1>1, <1>2, <3>1
      <4> QED
        BY <1>3, <2>2, <4>1 DEF ContainerLength
    <3>2. CASE N # 0
      <4>1. 1 \in 1..N /\ o.parts # <<>> /\ parts # <<>>
        BY <1>1, <1>2, <3>2
      <4>2. L[parts[1]] = L[o.parts[1]]
        BY <1>0, <1>1, <4>1
      <4> QED
        BY <1>1, <1>3, <2>2, <4>1, <4>2 DEF ContainerLength
    <3> QED
      BY <3>1, <3>2
  <2>3. CASE o.type = "DynamicArray"
    BY <1>1, <1>3, <2>3 DEF ContainerLength
  <2> QED
    BY <1>2, <2>1, <2>2, <2>3
<1>5. \A i \in DOMAIN o.parts : E[o.parts[i]][q.parts[i]]
  BY <1>1, <1>2, <1>3
<1>6. EqualContainers(o, q, L, E)
  BY <1>1, <1>3, <1>4, <1>5 DEF EqualContainers
<1> QED
  BY <1>0, <1>1, <1>4, <1>6 DEF ContainerComes, q

\* A container of which the sender has written the parts comes back whole.
ContainerReturns(L, D, E, o, p, written) ==
  /\ Len(written.bytes) = ContainerLength(o, L)
  /\ \A more \in Seq(Byte) :
       more = <<>> \/ HasDynamicSize(o) =>
         ContainerComes(DeserializeContainer(p, written.bytes \o more, L, D), E, L, o)

\* Of one class, as an application and as the wire leave them.
BothShaped(S, t, o, p) == ShapedContainer(t, o, FALSE, S) /\ ShapedContainer(t, p, TRUE, S)

ShapedMembers(P, S, t, o, wire) ==
  /\ o.type = t.type /\ o.parts \in Seq(P) /\ t.parts \in Seq(P)
  /\ Len(o.parts) = Len(t.parts) /\ DOMAIN o.parts = 1..Len(t.parts)
  /\ \A i \in 1..Len(t.parts) : /\ t.parts[i] \in P /\ o.parts[i] \in P
                                /\ S[t.parts[i]][o.parts[i]][wire]

LEMMA MembersAreShaped ==
  ASSUME NEW P, NEW S, NEW t \in Containers(P), NEW o \in Containers(P), NEW wire,
         o.type # "DynamicArray", ShapedContainer(t, o, wire, S)
  PROVE  ShapedMembers(P, S, t, o, wire)
<1>1. o.parts \in Seq(P) /\ t.parts \in Seq(P)
  BY ContainerFields
<1>2. /\ o.type = t.type /\ Len(o.parts) = Len(t.parts)
      /\ \A i \in DOMAIN o.parts : S[t.parts[i]][o.parts[i]][wire]
  BY DEF ShapedContainer
<1>3. DOMAIN o.parts = 1..Len(t.parts)
  BY <1>1, <1>2
<1>4. \A i \in 1..Len(t.parts) : t.parts[i] \in P /\ o.parts[i] \in P
  BY <1>1, <1>2
<1> QED
  BY <1>1, <1>2, <1>3, <1>4 DEF ShapedMembers

LEMMA BothMembersAreShaped ==
  ASSUME NEW P, NEW S, NEW t \in Containers(P), NEW o \in Containers(P),
         NEW p \in Containers(P), o.type # "DynamicArray", BothShaped(S, t, o, p)
  PROVE  ShapedMembers(P, S, t, o, FALSE) /\ ShapedMembers(P, S, t, p, TRUE)
<1>1. ShapedContainer(t, o, FALSE, S) /\ ShapedContainer(t, p, TRUE, S)
  BY DEF BothShaped
<1>2. o.type = t.type /\ p.type = t.type
  BY <1>1 DEF ShapedContainer
<1>3. ShapedMembers(P, S, t, o, FALSE)
  BY <1>1, MembersAreShaped, Zenon
<1>4. ShapedMembers(P, S, t, p, TRUE)
  BY <1>1, <1>2, MembersAreShaped, Zenon
<1> QED
  BY <1>3, <1>4

\* The parts of a struct or an array of fixed size, and those they are read into.
MembersAgree(A, L, parts, into, room) ==
  \A i \in 1..Len(parts) : A[parts[i]][into[i]] /\ Fits(room[i], parts[i], L)

MembersCome(read, E, L, o, codes) ==
  /\ \A i \in 1..Len(o.parts) : Len(codes[i]) = L[o.parts[i]]
  /\ ContainerComes(read, E, L, o)

LEMMA MembersReturn ==
  ASSUME NEW P, NEW L \in [P -> Nat], NEW R \in [P -> Result], NEW D \in Reader(P),
         NEW E, NEW A, NEW S, RoundTrips(P, L, R, D, E, A, S),
         NEW t \in Containers(P), NEW o \in Containers(P), NEW p \in Containers(P),
         o.type # "DynamicArray", BothShaped(S, t, o, p),
         NEW codes, CodesOf(o.parts, R, codes), NEW room, Rooms(room, p.parts),
         MembersAgree(A, L, o.parts, p.parts, room), NEW more \in Seq(Byte),
         NEW read,
         FilledWith(read, p, DeserializeParts(p.parts, room, Joined(codes) \o more, L, D))
  PROVE  MembersCome(read, E, L, o, codes)
<1> DEFINE parts == o.parts
           into == p.parts
           bytes == Joined(codes) \o more
           end == DeserializeParts(into, room, bytes, L, D)
<1>0. ShapedMembers(P, S, t, o, FALSE) /\ ShapedMembers(P, S, t, p, TRUE)
  BY BothMembersAreShaped, Zenon
<1>1. o.type = t.type /\ p.type = t.type
  BY <1>0 DEF ShapedMembers
<1>2. /\ parts \in Seq(P) /\ Len(parts) = Len(t.parts)
      /\ \A i \in 1..Len(t.parts) : t.parts[i] \in P /\ S[t.parts[i]][parts[i]][FALSE]
  BY <1>0 DEF ShapedMembers
<1>3. /\ into \in Seq(P) /\ Len(into) = Len(t.parts)
      /\ \A i \in 1..Len(t.parts) : S[t.parts[i]][into[i]][TRUE]
  BY <1>0 DEF ShapedMembers
<1> HIDE DEF parts, into
<1>4. AllAgree(P, L, A, S, parts, into, room)
  <2>1. ASSUME NEW i \in 1..Len(parts) PROVE PartAgrees(P, L, A, S, parts[i], into[i], room[i])
    <3>1. A[parts[i]][into[i]] /\ Fits(room[i], parts[i], L)
      BY DEF MembersAgree, parts, into
    <3>2. t.parts[i] \in P /\ S[t.parts[i]][parts[i]][FALSE] /\ S[t.parts[i]][into[i]][TRUE]
      BY <1>2, <1>3
    <3> QED
      BY <3>1, <3>2, Zenon DEF PartAgrees
  <2> QED
    BY <2>1, Zenon DEF AllAgree
<1>5. CodesOf(parts, R, codes) /\ Rooms(room, into) /\ Len(into) = Len(parts)
  BY <1>2, <1>3 DEF parts, into
<1>6. AllComeWhole(P, L, E, parts, codes, end)
  BY <1>2, <1>3, <1>4, <1>5, PartsCome, Zenon
<1>7. Like(o, p)
  BY <1>1 DEF Like
<1>8. FilledWith(read, p, end)
  BY DEF into
<1> HIDE DEF end
<1>9. ContainerComes(read, E, L, o)
  BY <1>5, <1>6, <1>7, <1>8, FilledContainer, Zenon DEF parts
<1> QED
  BY <1>6, <1>9, Zenon DEF MembersCome, AllComeWhole, parts

LEMMA StructReturns ==
  ASSUME NEW P, NEW L \in [P -> Nat], NEW R \in [P -> Result], NEW D \in Reader(P),
         NEW E, NEW A, NEW S, RoundTrips(P, L, R, D, E, A, S),
         NEW t \in Containers(P), NEW o \in Containers(P), NEW p \in Containers(P),
         o.type = "Struct", BothShaped(S, t, o, p),
         NEW written, written = SerializeContainer(o, L, R), written.ok,
         ContainersAgree(o, p, L, A)
  PROVE  ContainerReturns(L, D, E, o, p, written)
<1>00. o.type # "DynamicArray"
  OBVIOUS
<1>01. ShapedMembers(P, S, t, o, FALSE) /\ ShapedMembers(P, S, t, p, TRUE)
  BY <1>00, BothMembersAreShaped, Zenon
<1>0. o.type # "DynamicArray" /\ o.type = t.type /\ p.type = t.type
  BY <1>01 DEF ShapedMembers
<1>1. /\ o.parts \in Seq(P) /\ Len(o.parts) = Len(t.parts) /\ DOMAIN o.parts = 1..Len(t.parts)
      /\ \A i \in 1..Len(t.parts) :
           t.parts[i] \in P /\ o.parts[i] \in P /\ S[t.parts[i]][o.parts[i]][FALSE]
  BY <1>01 DEF ShapedMembers
<1>2. /\ p.parts \in Seq(P) /\ Len(p.parts) = Len(t.parts) /\ DOMAIN p.parts = 1..Len(t.parts)
      /\ \A i \in 1..Len(t.parts) : p.parts[i] \in P /\ S[t.parts[i]][p.parts[i]][TRUE]
  BY <1>01 DEF ShapedMembers
<1>3. HasCodes(o.parts, R, written)
  <2>1. written = WrittenParts(o.parts, R)
    BY DEF SerializeContainer, WrittenParts
  <2> QED
    BY <1>1, <2>1, PartsAreWritten, Zenon
<1>4. PICK codes : CodesOf(o.parts, R, codes) /\ written.bytes = Joined(codes)
  BY <1>3, Zenon DEF HasCodes
<1> DEFINE room == [i \in DOMAIN p.parts |->
                      IF HasDynamicSize(p.parts[i]) THEN Rest ELSE L[p.parts[i]]]
<1>5. \A i \in 1..Len(t.parts) :
        room[i] = IF HasDynamicSize(p.parts[i]) THEN Rest ELSE L[p.parts[i]]
  BY <1>2
<1> HIDE DEF room
<1>6. Rooms(room, p.parts)
  <2>1. \A i \in 1..Len(t.parts) : L[p.parts[i]] \in Nat
    BY <1>2
  <2> QED
    BY <1>2, <1>5, <2>1 DEF Rooms, Room
<1>7. MembersAgree(A, L, o.parts, p.parts, room)
  <2>1. ASSUME NEW i \in 1..Len(o.parts)
        PROVE  A[o.parts[i]][p.parts[i]] /\ Fits(room[i], o.parts[i], L)
    <3> DEFINE a == o.parts[i]
               b == p.parts[i]
               u == t.parts[i]
    <3>1. A[a][b] /\ (L[a] = L[b] \/ HasDynamicSize(a))
      BY <1>1 DEF ContainersAgree
    <3>2. /\ u \in P /\ a \in P /\ b \in P /\ S[u][a][FALSE] /\ S[u][b][TRUE]
          /\ room[i] = IF HasDynamicSize(b) THEN Rest ELSE L[b]
      BY <1>1, <1>2, <1>5
    <3>3. R[a].ok
      BY <1>4 DEF CodesOf
    <3> HIDE DEF a, b, u
    <3>4. a.type = b.type
      BY <3>1, <3>2, <3>3 DEF RoundTrips
    <3>5. HasDynamicSize(a) <=> HasDynamicSize(b)
      BY <3>4 DEF HasDynamicSize
    <3>6. Fits(room[i], a, L)
      BY <3>1, <3>2, <3>5 DEF Fits
    <3> QED
      BY <3>1, <3>6 DEF a, b
  <2> QED
    BY <2>1, Zenon DEF MembersAgree
<1>8. ASSUME NEW more \in Seq(Byte)
      PROVE  MembersCome(DeserializeContainer(p, written.bytes \o more, L, D), E, L, o, codes)
  <2> DEFINE bytes == written.bytes \o more
             end == DeserializeParts(p.parts, room, bytes, L, D)
             read == DeserializeContainer(p, bytes, L, D)
  <2>1. read = [ok |-> end.ok, object |-> [p EXCEPT !.parts = end.parts]]
    BY <1>0 DEF DeserializeContainer, DeserializeStruct, room
  <2> HIDE DEF end
  <2>2. FilledWith(read, p, end)
    BY <2>1 DEF WithParts, FilledWith
  <2> HIDE DEF read
  <2>3. end = DeserializeParts(p.parts, room, Joined(codes) \o more, L, D)
    BY <1>4 DEF end
  <2>4. FilledWith(read, p, DeserializeParts(p.parts, room, Joined(codes) \o more, L, D))
    BY <2>2, <2>3, Zenon
  <2>5. MembersCome(read, E, L, o, codes)
    BY <1>0, <1>4, <1>6, <1>7, <2>4, MembersReturn, Zenon
  <2> QED
    BY <2>5 DEF read
<1>9. Len(written.bytes) = ContainerLength(o, L)
  <2>1. <<>> \in Seq(Byte)
    OBVIOUS
  <2>2. \A i \in 1..Len(o.parts) : L[o.parts[i]] = Len(codes[i])
    BY <1>8, <2>1 DEF MembersCome
  <2>3. codes \in Codes /\ SizedAs(o.parts, L, codes)
    BY <1>4, <2>2 DEF CodesOf, SizedAs
  <2>4. PartLengths(o.parts, L) = Sizes(codes)
    BY <1>1, <2>3, SizesOfParts, Zenon
  <2>5. ContainerLength(o, L) = Total(PartLengths(o.parts, L))
    BY DEF ContainerLength, PartLengths
  <2>6. Len(Joined(codes)) = Total(Sizes(codes))
    BY <2>3, JointLength, Zenon
  <2> QED
    BY <1>4, <2>4, <2>5, <2>6
<1> QED
  BY <1>8, <1>9, Zenon DEF ContainerReturns, MembersCome

LEMMA FixedArrayReturns ==
  ASSUME NEW P, NEW L \in [P -> Nat], NEW R \in [P -> Result], NEW D \in Reader(P),
         NEW E, NEW A, NEW S, RoundTrips(P, L, R, D, E, A, S),
         NEW t \in Containers(P), NEW o \in Containers(P), NEW p \in Containers(P),
         o.type = "FixedArray", BothShaped(S, t, o, p),
         NEW written, written = SerializeContainer(o, L, R), written.ok,
         ContainersAgree(o, p, L, A)
  PROVE  ContainerReturns(L, D, E, o, p, written)
<1>00. o.type # "DynamicArray"
  OBVIOUS
<1>01. ShapedMembers(P, S, t, o, FALSE) /\ ShapedMembers(P, S, t, p, TRUE)
  BY <1>00, BothMembersAreShaped, Zenon
<1>0. o.type # "DynamicArray" /\ o.type = t.type /\ p.type = t.type
  BY <1>01 DEF ShapedMembers
<1>1. /\ o.parts \in Seq(P) /\ Len(o.parts) = Len(t.parts) /\ DOMAIN o.parts = 1..Len(t.parts)
      /\ \A i \in 1..Len(t.parts) : o.parts[i] \in P
  BY <1>01 DEF ShapedMembers
<1>2. /\ p.parts \in Seq(P) /\ Len(p.parts) = Len(t.parts) /\ DOMAIN p.parts = 1..Len(t.parts)
      /\ \A i \in 1..Len(t.parts) : p.parts[i] \in P
  BY <1>01 DEF ShapedMembers
<1>3. HasCodes(o.parts, R, written)
  <2>1. written = WrittenParts(o.parts, R)
    BY DEF SerializeContainer, WrittenParts
  <2> QED
    BY <1>1, <2>1, PartsAreWritten, Zenon
<1>4. PICK codes : CodesOf(o.parts, R, codes) /\ written.bytes = Joined(codes)
  BY <1>3, Zenon DEF HasCodes
<1> DEFINE room == [i \in DOMAIN p.parts |-> L[p.parts[1]]]
<1>5. \A i \in 1..Len(t.parts) : room[i] = L[p.parts[1]]
  BY <1>2
<1> HIDE DEF room
<1>6. Rooms(room, p.parts)
  <2>1. ASSUME NEW i \in 1..Len(p.parts) PROVE L[p.parts[1]] \in Nat
    <3>1. 1 \in 1..Len(t.parts)
      BY <1>1, <1>2
    <3> QED
      BY <1>2, <3>1
  <2> QED
    BY <1>2, <1>5, <2>1 DEF Rooms, Room
<1>61. \A i \in 1..Len(o.parts) : A[o.parts[i]][p.parts[i]] /\ L[o.parts[i]] = L[p.parts[1]]
  BY <1>1 DEF ContainersAgree
<1>7. MembersAgree(A, L, o.parts, p.parts, room)
  BY <1>1, <1>5, <1>61 DEF MembersAgree, Fits
<1>8. ASSUME NEW more \in Seq(Byte)
      PROVE  MembersCome(DeserializeContainer(p, written.bytes \o more, L, D), E, L, o, codes)
  <2> DEFINE bytes == written.bytes \o more
             end == DeserializeParts(p.parts, room, bytes, L, D)
             read == DeserializeContainer(p, bytes, L, D)
  <2>1. read = [ok |-> end.ok, object |-> [p EXCEPT !.parts = end.parts]]
    BY <1>0 DEF DeserializeContainer, DeserializeFixedArray, room
  <2> HIDE DEF end
  <2>2. FilledWith(read, p, end)
    BY <2>1 DEF WithParts, FilledWith
  <2> HIDE DEF read
  <2>3. end = DeserializeParts(p.parts, room, Joined(codes) \o more, L, D)
    BY <1>4 DEF end
  <2>4. FilledWith(read, p, DeserializeParts(p.parts, room, Joined(codes) \o more, L, D))
    BY <2>2, <2>3, Zenon
  <2>5. MembersCome(read, E, L, o, codes)
    BY <1>0, <1>4, <1>6, <1>7, <2>4, MembersReturn, Zenon
  <2> QED
    BY <2>5 DEF read
<1>9. Len(written.bytes) = ContainerLength(o, L)
  <2>1. <<>> \in Seq(Byte)
    OBVIOUS
  <2>2. \A i \in 1..Len(o.parts) : L[o.parts[i]] = Len(codes[i])
    BY <1>8, <2>1 DEF MembersCome
  <2>3. codes \in Codes /\ Len(codes) = Len(o.parts)
    BY <1>4 DEF CodesOf
  <2>4. CASE o.parts = <<>>
    <3>1. Len(codes) = 0
      BY <2>3, <2>4
    <3>2. \A i \in 1..Len(codes) : Len(codes[i]) = 0
      BY <3>1
    <3>3. Len(Joined(codes)) = Len(codes) * 0
      BY <2>3, <3>2, EvenCodes, 0 \in Nat, Zenon
    <3> QED
      BY <1>4, <2>4, <3>1, <3>3 DEF ContainerLength
  <2>5. CASE o.parts # <<>>
    <3> DEFINE k == L[o.parts[1]]
    <3>1. 1 \in 1..Len(o.parts)
      BY <1>1, <2>5
    <3>2. k \in Nat
      BY <1>1, <3>1
    <3>3. k = L[p.parts[1]]
      BY <1>61, <3>1
    <3>4. \A i \in 1..Len(codes) : Len(codes[i]) = k
      BY <1>61, <2>2, <2>3, <3>3
    <3> HIDE DEF k
    <3>5. Len(Joined(codes)) = Len(codes) * k
      BY <2>3, <3>2, <3>4, EvenCodes, Zenon
    <3> QED
      BY <1>4, <2>3, <2>5, <3>5 DEF ContainerLength, k
  <2> QED
    BY <2>4, <2>5
<1> QED
  BY <1>8, <1>9, Zenon DEF ContainerReturns, MembersCome

-----------------------------------------------------------------------------
(* Dynamic arrays come back                                                *)

LEMMA TwoJoined ==
  ASSUME NEW S, NEW a \in Seq(S), NEW b \in Seq(S)
  PROVE  Joined(<<a, b>>) = a \o b
<1> DEFINE T == Seq(S)
           seqs == <<a, b>>
<1>1. seqs \in Seq(T) /\ Len(seqs) = 2 /\ seqs[1] = a /\ seqs[2] = b
  <2>1. a \in T /\ b \in T
    OBVIOUS
  <2> HIDE DEF T
  <2> QED
    BY <2>1
<1> HIDE DEF seqs
<1>2. PICK f : IsJoints(f, seqs, S) /\ Joined(seqs) = f[Len(seqs)]
  BY <1>1, JointsExist, Zenon DEF T
<1>3. f[0] = <<>> /\ \A i \in 1..2 : f[i] = f[i - 1] \o seqs[i]
  BY <1>1, <1>2 DEF IsJoints
<1>4. f[1] = f[0] \o a /\ f[2] = f[1] \o b
  <2>1. 1 \in 1..2 /\ 2 \in 1..2 /\ 1 - 1 = 0 /\ 2 - 1 = 1
    OBVIOUS
  <2>2. f[1] = f[1 - 1] \o seqs[1] /\ f[2] = f[2 - 1] \o seqs[2]
    BY <1>3, <2>1, Zenon
  <2> QED
    BY <1>1, <2>1, <2>2
<1>5. <<>> \o a = a
  BY ConcatEmptySeq
<1> QED
  BY <1>1, <1>2, <1>3, <1>4, <1>5 DEF seqs

LEMMA ConcatTwo ==
  ASSUME NEW a \in Result, NEW b \in Result, NEW c, c = Concat(<<a, b>>), c.ok
  PROVE  a.ok /\ b.ok /\ c.bytes = a.bytes \o b.bytes
<1> DEFINE results == <<a, b>>
           codes == [i \in DOMAIN results |-> results[i].bytes]
<1>1. DOMAIN results = 1..2 /\ results[1] = a /\ results[2] = b
  OBVIOUS
<1>2. a.bytes \in Seq(Byte) /\ b.bytes \in Seq(Byte)
  BY DEF Result
<1>3. codes = <<a.bytes, b.bytes>>
  OBVIOUS
<1> HIDE DEF results
<1>4. c = IF \A i \in DOMAIN results : results[i].ok THEN Bytes(Joined(codes)) ELSE Raised
  BY DEF Concat, results
<1> HIDE DEF codes
<1>5. \A i \in DOMAIN results : results[i].ok
  BY <1>4, ResultTypes
<1>6. c = Bytes(Joined(codes))
  BY <1>4, <1>5
<1>7. c.bytes = Joined(codes)
  BY <1>6 DEF Bytes
<1>8. Joined(<<a.bytes, b.bytes>>) = a.bytes \o b.bytes
  BY <1>2, TwoJoined, Zenon
<1>9. a.ok /\ b.ok
  <2>1. 1 \in 1..2 /\ 2 \in 1..2
    OBVIOUS
  <2>2. results[1].ok /\ results[2].ok
    BY <1>1, <1>5, <2>1
  <2> QED
    BY <1>1, <2>2
<1>10. c.bytes = a.bytes \o b.bytes
  BY <1>3, <1>7, <1>8, Zenon
<1> QED
  BY <1>9, <1>10

LEMMA QuotientOfProduct ==
  ASSUME NEW n \in Nat, NEW k \in Nat \ {0}
  PROVE  (n * k) \div k = n
  OBVIOUS

Copies(x, n) == [i \in 1..n |-> x]

LEMMA CopiesType ==
  ASSUME NEW P, NEW x \in P, NEW n \in Nat
  PROVE  /\ Copies(x, n) \in Seq(P) /\ Len(Copies(x, n)) = n
         /\ \A i \in 1..n : Copies(x, n)[i] = x
<1>1. Copies(x, n) \in [1..n -> P] /\ \A i \in 1..n : Copies(x, n)[i] = x
  BY DEF Copies
<1> QED
  BY <1>1, FunctionIsSequence

\* An array and the one it is read into, which makes new elements of the same kind.
ShapedElements(P, S, o, p) ==
  /\ p.type = "DynamicArray" /\ p.of = o.of /\ p.fieldLength = o.fieldLength
  /\ o.of \in P /\ S[o.of][o.of][TRUE]
  /\ \A i \in 1..Len(o.parts) : o.parts[i] \in P /\ S[o.of][o.parts[i]][FALSE]

LEMMA ElementsAreShaped ==
  ASSUME NEW P, NEW S, NEW t \in Containers(P), NEW o \in Containers(P),
         NEW p \in Containers(P), o.type = "DynamicArray", BothShaped(S, t, o, p)
  PROVE  ShapedElements(P, S, o, p)
<1>1. ShapedContainer(t, o, FALSE, S) /\ ShapedContainer(t, p, TRUE, S)
  BY DEF BothShaped
<1>2. o.parts \in Seq(P) /\ o.of \in P
  BY ContainerFields
<1>3. /\ o.type = t.type /\ o.fieldLength = t.fieldLength /\ o.of = t.of
      /\ \A w \in BOOLEAN : S[o.of][o.of][w]
      /\ \A i \in DOMAIN o.parts : S[o.of][o.parts[i]][FALSE]
  BY <1>1 DEF ShapedContainer
<1>4. p.type = t.type /\ p.fieldLength = t.fieldLength /\ p.of = t.of
  BY <1>1, <1>3 DEF ShapedContainer
<1>5. S[o.of][o.of][TRUE]
  BY <1>3
<1>6. \A i \in 1..Len(o.parts) : o.parts[i] \in P /\ S[o.of][o.parts[i]][FALSE]
  <2>1. DOMAIN o.parts = 1..Len(o.parts) /\ \A i \in 1..Len(o.parts) : o.parts[i] \in P
    BY <1>2, ElementOfSeq, LenProperties
  <2> QED
    BY <1>3, <2>1, Zenon
<1>7. p.type = "DynamicArray" /\ p.of = o.of /\ p.fieldLength = o.fieldLength
  BY <1>3, <1>4
<1> QED
  BY <1>2, <1>5, <1>6, <1>7, Zenon DEF ShapedElements

ElementsAgree(A, L, o) ==
  \A i \in 1..Len(o.parts) : A[o.parts[i]][o.of] /\ L[o.parts[i]] = L[o.of]

LEMMA ElementsReturn ==
  ASSUME NEW P, NEW L \in [P -> Nat], NEW R \in [P -> Result], NEW D \in Reader(P),
         NEW E, NEW A, NEW S, RoundTrips(P, L, R, D, E, A, S),
         NEW o \in Containers(P), NEW p \in Containers(P), ShapedElements(P, S, o, p),
         NEW codes, CodesOf(o.parts, R, codes), ElementsAgree(A, L, o),
         NEW n, n = Len(o.parts), NEW more \in Seq(Byte)
  PROVE  AllComeWhole(P, L, E, o.parts, codes,
           DeserializeParts(Copies(o.of, n), Copies(L[o.of], n), Joined(codes) \o more, L, D))
<1> DEFINE parts == o.parts
           into == Copies(o.of, n)
           room == Copies(L[o.of], n)
<1>1. parts \in Seq(P) /\ n \in Nat /\ o.of \in P /\ L[o.of] \in Nat
  BY ContainerFields, LenProperties DEF ShapedElements
<1>2. into \in Seq(P) /\ Len(into) = n /\ \A i \in 1..n : into[i] = o.of
  BY <1>1, CopiesType
<1>3. \A i \in 1..n : room[i] = L[o.of]
  BY <1>1, CopiesType
<1>4. CodesOf(parts, R, codes) /\ n = Len(parts)
  OBVIOUS
<1>5. \A i \in 1..n : /\ A[parts[i]][o.of] /\ L[parts[i]] = L[o.of]
                      /\ S[o.of][parts[i]][FALSE] /\ S[o.of][o.of][TRUE]
  BY DEF ElementsAgree, ShapedElements
<1> HIDE DEF parts, into, room
<1>6. AllAgree(P, L, A, S, parts, into, room)
  <2>1. ASSUME NEW i \in 1..n PROVE PartAgrees(P, L, A, S, parts[i], into[i], room[i])
    <3>1. into[i] = o.of /\ Fits(room[i], parts[i], L)
      BY <1>2, <1>3, <1>5 DEF Fits
    <3>2. A[parts[i]][o.of] /\ S[o.of][parts[i]][FALSE] /\ S[o.of][o.of][TRUE]
      BY <1>5
    <3> QED
      BY <1>1, <3>1, <3>2, Zenon DEF PartAgrees
  <2> QED
    BY <1>4, <2>1, Zenon DEF AllAgree
<1>7. Rooms(room, into)
  BY <1>1, <1>2, <1>3 DEF Rooms, Room
<1>8. AllComeWhole(P, L, E, parts, codes, DeserializeParts(into, room, Joined(codes) \o more, L, D))
  BY <1>1, <1>2, <1>4, <1>6, <1>7, PartsCome, Zenon
<1> QED
  BY <1>8, Zenon DEF parts, into, room

LEMMA WrittenPartsType ==
  ASSUME NEW P, NEW R \in [P -> Result], NEW parts \in Seq(P)
  PROVE  WrittenParts(parts, R) \in Result
<1> DEFINE results == [i \in DOMAIN parts |-> R[parts[i]]]
<1>1. results \in Seq(Result)
  <2> HIDE DEF results
  <2>1. results = [i \in DOMAIN parts |-> R[parts[i]]]
    BY DEF results
  <2> QED
    BY <2>1, EachPart
<1> HIDE DEF results
<1>2. WrittenParts(parts, R) = Concat(results)
  BY DEF results, WrittenParts
<1> QED
  BY <1>1, <1>2, ConcatType, Zenon

\* The codes of the elements after a length field.
ArrayCodes(L, R, o, written) ==
  \E field, codes :
    /\ field \in Result
    /\ field = PackUnsigned(Len(o.parts) * L[o.of], o.fieldLength) /\ field.ok
    /\ CodesOf(o.parts, R, codes)
    /\ written.bytes = field.bytes \o Joined(codes)

LEMMA ArrayWritten ==
  ASSUME NEW P, NEW L \in [P -> Nat], NEW R \in [P -> Result], NEW o \in Containers(P),
         o.type = "DynamicArray", o.fieldLength # 0,
         NEW written, written = SerializeContainer(o, L, R), written.ok
  PROVE  ArrayCodes(L, R, o, written)
<1> DEFINE field == PackUnsigned(Len(o.parts) * L[o.of], o.fieldLength)
           inner == WrittenParts(o.parts, R)
<1>1. o.parts \in Seq(P) /\ o.of \in P /\ o.fieldLength \in Nat
  BY ContainerFields
<1>2. field \in Result
  <2>1. L[o.of] \in Nat /\ Len(o.parts) \in Nat
    BY <1>1
  <2>2. Len(o.parts) * L[o.of] \in Int
    BY <2>1, NaturalProduct
  <2> QED
    BY <1>1, <2>2, UnsignedRoundTrip
<1>3. inner \in Result
  BY <1>1, WrittenPartsType, Zenon
<1>4. written = Concat(<<field, inner>>)
  BY DEF SerializeContainer, WrittenParts
<1>5. inner = WrittenParts(o.parts, R)
  OBVIOUS
<1>6. field = PackUnsigned(Len(o.parts) * L[o.of], o.fieldLength)
  OBVIOUS
<1> HIDE DEF field, inner
<1>7. field.ok /\ inner.ok /\ written.bytes = field.bytes \o inner.bytes
  BY <1>2, <1>3, <1>4, ConcatTwo, Zenon
<1>8. HasCodes(o.parts, R, inner)
  BY <1>1, <1>5, <1>7, PartsAreWritten, Zenon
<1>9. PICK codes : CodesOf(o.parts, R, codes) /\ inner.bytes = Joined(codes)
  BY <1>8, Zenon DEF HasCodes
<1> QED
  BY <1>2, <1>6, <1>7, <1>9, Zenon DEF ArrayCodes

\* An array without a length field is written, and read, when it is empty.
LEMMA EmptyArrayReturns ==
  ASSUME NEW P, NEW L \in [P -> Nat], NEW R \in [P -> Result], NEW D,
         NEW E, NEW S, NEW o \in Containers(P), NEW p \in Containers(P),
         o.type = "DynamicArray", ShapedElements(P, S, o, p),
         o.fieldLength = 0, o.parts = <<>>,
         NEW written, written = SerializeContainer(o, L, R), written.ok
  PROVE  ContainerReturns(L, D, E, o, p, written)
<1>1. o.parts \in Seq(P) /\ o.of \in P /\ Len(o.parts) = 0
  BY ContainerFields
<1>2. p.type = "DynamicArray" /\ p.of = o.of /\ p.fieldLength = 0
  BY DEF ShapedElements
<1>3. HasCodes(o.parts, R, written)
  <2>1. written = WrittenParts(o.parts, R)
    BY DEF SerializeContainer, WrittenParts
  <2> QED
    BY <1>1, <2>1, PartsAreWritten, Zenon
<1>4. PICK codes : CodesOf(o.parts, R, codes) /\ written.bytes = Joined(codes)
  BY <1>3, Zenon DEF HasCodes
<1>5. Len(written.bytes) = ContainerLength(o, L)
  <2>1. codes \in Codes /\ Len(codes) = 0
    BY <1>1, <1>4 DEF CodesOf
  <2>2. \A i \in 1..Len(codes) : Len(codes[i]) = 0
    BY <2>1
  <2>3. 0 \in Nat
    OBVIOUS
  <2>4. Len(Joined(codes)) = Len(codes) * 0
    BY <2>1, <2>2, <2>3, EvenCodes, Zenon
  <2>5. L[o.of] \in Nat
    BY <1>1
  <2> QED
    BY <1>1, <1>4, <2>1, <2>4, <2>5 DEF ContainerLength
<1>6. ASSUME NEW more \in Seq(Byte)
      PROVE  ContainerComes(DeserializeContainer(p, written.bytes \o more, L, D), E, L, o)
  <2> DEFINE read == DeserializeContainer(p, written.bytes \o more, L, D)
             end == [ok |-> TRUE, parts |-> <<>>, whole |-> 0]
  <2>1. read = Done([p EXCEPT !.parts = <<>>])
    BY <1>2 DEF DeserializeContainer, DeserializeDynamicArray
  <2>2. end.ok = TRUE /\ end.parts = <<>> /\ end.whole = 0
    OBVIOUS
  <2> HIDE DEF read, end
  <2>3. FilledWith(read, p, end)
    BY <2>1, <2>2 DEF FilledWith, WithParts, Done
  <2>4. AllComeWhole(P, L, E, o.parts, codes, end)
    <3>1. <<>> \in Seq(P) /\ Len(<<>>) = 0
      OBVIOUS
    <3> QED
      BY <1>1, <2>2, <3>1 DEF AllComeWhole, AllCome
  <2>5. Like(o, p)
    BY <1>2 DEF Like
  <2>6. ContainerComes(read, E, L, o)
    BY <1>4, <2>3, <2>4, <2>5, FilledContainer, Zenon
  <2> QED
    BY <2>6 DEF read
<1> QED
  BY <1>5, <1>6, Zenon DEF ContainerReturns

LEMMA WholeSequence ==
  ASSUME NEW P, NEW s \in Seq(P), NEW n, n = Len(s)
  PROVE  SubSeq(s, 1, n) = s
  OBVIOUS

\* The elements are counted by the length field.
LEMMA FilledArrayReturns ==
  ASSUME NEW P, NEW L \in [P -> Nat], NEW R \in [P -> Result], NEW D \in Reader(P),
         NEW E, NEW A, NEW S, RoundTrips(P, L, R, D, E, A, S),
         NEW o \in Containers(P), NEW p \in Containers(P),
         o.type = "DynamicArray", ShapedElements(P, S, o, p),
         o.fieldLength # 0, L[o.of] # 0, ElementsAgree(A, L, o),
         NEW written, written = SerializeContainer(o, L, R), written.ok
  PROVE  ContainerReturns(L, D, E, o, p, written)
<1> DEFINE N == Len(o.parts)
           k == L[o.of]
           fl == o.fieldLength
<1>1. o.parts \in Seq(P) /\ o.of \in P /\ fl \in Nat /\ N \in Nat /\ k \in Nat \ {0}
  BY ContainerFields, LenProperties
<1>2. p.type = "DynamicArray" /\ p.of = o.of /\ p.fieldLength = fl
  BY DEF ShapedElements
<1>3. PICK field, codes :
        /\ field \in Result
        /\ field = PackUnsigned(N * k, fl) /\ field.ok
        /\ CodesOf(o.parts, R, codes)
        /\ written.bytes = field.bytes \o Joined(codes)
  <2>1. ArrayCodes(L, R, o, written)
    BY ArrayWritten, Zenon
  <2> QED
    BY <2>1, Zenon DEF ArrayCodes
<1>4. Len(field.bytes) = fl /\ UnpackUnsigned(field.bytes) = N * k /\ field.bytes \in Seq(Byte)
  <2>1. N * k \in Int
    BY <1>1, NaturalProduct
  <2> HIDE DEF N, k, fl
  <2> QED
    BY <1>1, <1>3, <2>1, UnsignedRoundTrip DEF Result
<1>5. UnpackUnsigned(field.bytes) \div k = N
  <2> HIDE DEF N, k, fl
  <2> QED
    BY <1>1, <1>4, QuotientOfProduct
<1>6. Joined(codes) \in Seq(Byte) /\ codes \in Codes /\ Len(codes) = N
  BY <1>3, JoinedType, Zenon DEF CodesOf, Codes
<1>7. ASSUME NEW more \in Seq(Byte)
      PROVE  /\ ContainerComes(DeserializeContainer(p, written.bytes \o more, L, D), E, L, o)
             /\ \A i \in 1..N : Len(codes[i]) = L[o.parts[i]]
  <2> DEFINE bytes == written.bytes \o more
             left == Joined(codes) \o more
             end == DeserializeParts(Copies(o.of, N), Copies(k, N), left, L, D)
             read == DeserializeContainer(p, bytes, L, D)
  <2>1. bytes = field.bytes \o left
    <3>1. (field.bytes \o Joined(codes)) \o more = field.bytes \o (Joined(codes) \o more)
      <4> DEFINE a == field.bytes
                 b == Joined(codes)
      <4>1. a \in Seq(Byte) /\ b \in Seq(Byte)
        BY <1>4, <1>6
      <4> HIDE DEF N, k, fl, a, b
      <4>2. (a \o b) \o more = a \o (b \o more)
        BY <4>1, ConcatAssociative
      <4> QED
        BY <4>2 DEF a, b
    <3> QED
      BY <1>3, <3>1, Zenon
  <2>2. left \in Seq(Byte)
    BY <1>6, ConcatProperties
  <2>3. Slice(bytes, 0, fl) = field.bytes /\ From(bytes, fl) = left
    <3> HIDE DEF left, bytes, fl
    <3>1. Slice(field.bytes \o left, 0, Len(field.bytes)) = field.bytes
      BY <1>4, <2>2, SliceOfFirst, Zenon
    <3>2. From(field.bytes \o left, Len(field.bytes)) = left
      BY <1>4, <2>2, SliceOfFirst, Zenon
    <3> QED
      BY <1>4, <2>1, <3>1, <3>2
  <2>4. AllComeWhole(P, L, E, o.parts, codes, end)
    <3>1. N = Len(o.parts) /\ k = L[o.of]
      OBVIOUS
    <3> HIDE DEF N, k
    <3> QED
      BY <1>3, <3>1, ElementsReturn, Zenon
  <2>5. end.whole = N /\ end.parts \in Seq(P) /\ Len(end.parts) = N
    <3> HIDE DEF end
    <3> QED
      BY <2>4 DEF AllComeWhole, AllCome
  <2>6. read = [ok |-> end.ok, object |-> [p EXCEPT !.parts = SubSeq(end.parts, 1, end.whole)]]
    <3>1. read = DeserializeDynamicArray(p, bytes, L, D)
      BY <1>2 DEF DeserializeContainer
    <3>2. fl # 0 /\ k # 0 /\ ~(Len(Slice(bytes, 0, fl)) < fl)
      BY <1>1, <1>4, <2>3
    <3>3. end = DeserializeParts([i \in 1..N |-> o.of], [i \in 1..N |-> k], left, L, D)
      BY DEF Copies
    <3>4. L[p.of] = k /\ p.of = o.of /\ p.fieldLength = fl
      BY <1>2
    <3> HIDE DEF end, bytes, left, N, k, fl, read
    <3> QED
      BY <1>5, <2>3, <3>1, <3>2, <3>3, <3>4 DEF DeserializeDynamicArray
  <2> HIDE DEF end, read
  <2>7. SubSeq(end.parts, 1, end.whole) = end.parts
    BY <2>5, WholeSequence
  <2>8. FilledWith(read, p, end)
    BY <2>6, <2>7 DEF FilledWith, WithParts
  <2>9. Like(o, p)
    BY <1>2 DEF Like
  <2>10. ContainerComes(read, E, L, o)
    BY <1>3, <2>4, <2>8, <2>9, FilledContainer, Zenon
  <2>11. \A i \in 1..N : Len(codes[i]) = L[o.parts[i]]
    BY <2>4, Zenon DEF AllComeWhole
  <2> QED
    BY <2>10, <2>11, Zenon DEF read
<1>8. Len(written.bytes) = ContainerLength(o, L)
  <2>1. <<>> \in Seq(Byte)
    OBVIOUS
  <2>2. \A i \in 1..N : Len(codes[i]) = L[o.parts[i]]
    BY <1>7, <2>1
  <2>3. \A i \in 1..N : L[o.parts[i]] = k
    BY DEF ElementsAgree
  <2>4. \A i \in 1..Len(codes) : Len(codes[i]) = k
    BY <1>6, <2>2, <2>3
  <2>5. k \in Nat
    BY <1>1
  <2>6. Len(Joined(codes)) = Len(codes) * k
    <3> HIDE DEF k
    <3> QED
      BY <1>6, <2>4, <2>5, EvenCodes, Zenon
  <2>7. Len(written.bytes) = fl + Len(Joined(codes))
    BY <1>3, <1>4, <1>6, ThreeJoined
  <2>8. ContainerLength(o, L) = fl + N * k
    BY DEF ContainerLength
  <2> HIDE DEF N, k, fl
  <2> QED
    BY <1>6, <2>6, <2>7, <2>8
<1> QED
  BY <1>7, <1>8, Zenon DEF ContainerReturns

LEMMA DynamicArrayReturns ==
  ASSUME NEW P, NEW L \in [P -> Nat], NEW R \in [P -> Result], NEW D \in Reader(P),
         NEW E, NEW A, NEW S, RoundTrips(P, L, R, D, E, A, S),
         NEW t \in Containers(P), NEW o \in Containers(P), NEW p \in Containers(P),
         o.type = "DynamicArray", BothShaped(S, t, o, p),
         NEW written, written = SerializeContainer(o, L, R), written.ok,
         ContainersAgree(o, p, L, A)
  PROVE  ContainerReturns(L, D, E, o, p, written)
<1>1. ShapedElements(P, S, o, p)
  BY ElementsAreShaped, Zenon
<1>2. p.of = o.of /\ p.type = "DynamicArray"
  BY <1>1 DEF ShapedElements
<1>3. CASE o.fieldLength = 0
  <2>1. o.parts = <<>>
    BY <1>3 DEF ContainersAgree
  <2> QED
    BY <1>1, <1>3, <2>1, EmptyArrayReturns, Zenon
<1>4. CASE o.fieldLength # 0
  <2>1. L[o.of] # 0
    BY <1>4 DEF ContainersAgree
  <2>2. ElementsAgree(A, L, o)
    <3>1. o.parts \in Seq(P)
      BY ContainerFields
    <3>2. DOMAIN o.parts = 1..Len(o.parts)
      BY <3>1
    <3> QED
      BY <1>2, <3>2 DEF ContainersAgree, ElementsAgree
  <2> QED
    BY <1>1, <1>4, <2>1, <2>2, FilledArrayReturns, Zenon
<1> QED
  BY <1>3, <1>4

LEMMA ContainerRoundTrip ==
  ASSUME NEW P, NEW L \in [P -> Nat], NEW R \in [P -> Result], NEW D \in Reader(P),
         NEW E, NEW A, NEW S, RoundTrips(P, L, R, D, E, A, S),
         NEW t \in Containers(P), NEW o \in Containers(P), NEW p \in Containers(P),
         BothShaped(S, t, o, p), ContainersAgree(o, p, L, A),
         NEW written, written = SerializeContainer(o, L, R), written.ok
  PROVE  ContainerReturns(L, D, E, o, p, written)
<1>1. o.type \in {"Struct", "FixedArray", "DynamicArray"}
  BY ContainerFields
<1>2. CASE o.type = "Struct"
  BY <1>2, StructReturns, Zenon
<1>3. CASE o.type = "FixedArray"
  BY <1>3, FixedArrayReturns, Zenon
<1>4. CASE o.type = "DynamicArray"
  BY <1>4, DynamicArrayReturns, Zenon
<1> QED
  BY <1>1, <1>2, <1>3, <1>4

-----------------------------------------------------------------------------
(* Objects come back, at every level.                                      *)

\* All objects of a level come back.
Faithful(n) ==
  RoundTrips(Objects[n], Length[n], Serialize[n], Deserialize[n], Equal[n], Agree[n], Shaped[n])

\* What RoundTrips says of one object.
ObjectReturns(n, o, p) ==
  /\ o.type = p.type
  /\ Len(Serialize[n][o].bytes) = Length[n][o]
  /\ \A more \in Seq(Byte) :
       more = <<>> \/ HasDynamicSize(o) =>
         Comes(Deserialize[n][p][Serialize[n][o].bytes \o more],
               Equal[n], Length[n], o, Length[n][o])

Reached(n, t, o, p) ==
  /\ t \in Objects[n] /\ o \in Objects[n] /\ p \in Objects[n]
  /\ Shaped[n][t][o][FALSE] /\ Shaped[n][t][p][TRUE]
  /\ Serialize[n][o].ok /\ Agree[n][o][p]

LEMMA BasicReturns ==
  ASSUME NEW n \in 0..Depth, NEW t, NEW o, NEW p, Reached(n, t, o, p), ~IsContainer(o)
  PROVE  ObjectReturns(n, o, p)
<1> DEFINE T == Objects[n]
           written == Serialize[n][o]
<1>1. t \in T /\ o \in T /\ p \in T
      /\ Shaped[n][t][o][FALSE] /\ Shaped[n][t][p][TRUE] /\ written.ok
  BY DEF Reached
<1>2. o \in Basic /\ ShapedBasic(t, o, FALSE)
  BY <1>1, ObjectCases, ShapedMeans
<1>3. o.type = t.type
  BY <1>2 DEF ShapedBasic
<1>4. p.type = t.type
  <2>1. ShapedContainer(t, p, TRUE, Shaped[n - 1]) \/ ShapedBasic(t, p, TRUE)
    BY <1>1, ShapedMeans
  <2> QED
    BY <2>1 DEF ShapedContainer, ShapedBasic
<1>5. ~IsContainer(p)
  BY <1>3, <1>4 DEF IsContainer
<1>6. p \in Basic /\ ShapedBasic(t, p, TRUE)
  BY <1>1, <1>5, ObjectCases, ShapedMeans
<1>7. written = SerializeBasic(o) /\ Length[n][o] = BasicLength(o)
  BY <1>1, SerializeValue, LengthValue
<1>8. written.bytes \in Seq(Byte) /\ Len(written.bytes) = Length[n][o]
  BY <1>1, <1>2, <1>7, BasicIsWritten DEF Result
<1>9. ASSUME NEW more \in Seq(Byte), more = <<>> \/ HasDynamicSize(o)
      PROVE  Comes(Deserialize[n][p][written.bytes \o more], Equal[n], Length[n], o, Length[n][o])
  <2> DEFINE bytes == written.bytes \o more
             read == DeserializeBasic(p, bytes)
             q == read.object
  <2>1. bytes \in Seq(Byte)
    BY <1>8, ConcatProperties
  <2> HIDE DEF written
  <2>2. Deserialize[n][p][bytes] = read
    <3> HIDE DEF bytes
    <3> QED
      BY <1>1, <1>5, <2>1, DeserializeValue
  <2>3. bytes = SerializeBasic(o).bytes \o more
    BY <1>7
  <2>4. read.ok /\ EqualBasic(o, q) /\ BasicLength(q) = BasicLength(o)
    BY <1>1, <1>2, <1>6, <1>7, <1>9, <2>3, BasicRoundTrip
  <2>5. q \in Basic
    <3> HIDE DEF bytes
    <3>1. read \in Attempt(Basic)
      BY <1>6, <2>1, BasicIsRead
    <3> HIDE DEF read
    <3> QED
      BY <3>1 DEF Attempt
  <2> HIDE DEF q, read
  <2>6. q \in T /\ ~IsContainer(q)
    BY <2>5, ObjectKinds, KindsOfBasic
  <2>7. Equal[n][o][q] = EqualBasic(o, q) /\ Length[n][q] = BasicLength(q)
    BY <1>1, <2>6, EqualValue, LengthValue
  <2>8. read.ok /\ Equal[n][o][read.object] /\ Length[n][read.object] = Length[n][o]
    BY <1>7, <2>4, <2>7 DEF q
  <2> QED
    BY <2>2, <2>8, Zenon DEF Comes
<1> QED
  BY <1>3, <1>4, <1>8, <1>9, Zenon DEF ObjectReturns

LEMMA ContainerObjectReturns ==
  ASSUME NEW n \in 0..Depth, NEW t, NEW o, NEW p, Reached(n, t, o, p), IsContainer(o),
         n # 0 => Faithful(n - 1)
  PROVE  ObjectReturns(n, o, p)
<1> DEFINE T == Objects[n]
           P == Objects[n - 1]
           L == Length[n - 1]
           R == Serialize[n - 1]
           D == Deserialize[n - 1]
           E == Equal[n - 1]
           A == Agree[n - 1]
           S == Shaped[n - 1]
           written == Serialize[n][o]
<1>1. t \in T /\ o \in T /\ p \in T
      /\ Shaped[n][t][o][FALSE] /\ Shaped[n][t][p][TRUE] /\ written.ok /\ Agree[n][o][p]
  BY DEF Reached
<1>2. n # 0 /\ n - 1 \in 0..Depth /\ o \in Containers(P) /\ ShapedContainer(t, o, FALSE, S)
  BY <1>1, ObjectCases, ShapedMeans
<1>3. o.type = t.type
  BY <1>2 DEF ShapedContainer
<1>4. p.type = t.type
  <2>1. ShapedContainer(t, p, TRUE, S) \/ ShapedBasic(t, p, TRUE)
    BY <1>1, ShapedMeans
  <2> QED
    BY <2>1 DEF ShapedContainer, ShapedBasic
<1>5. IsContainer(p) /\ IsContainer(t)
  BY <1>3, <1>4 DEF IsContainer
<1>6. p \in Containers(P) /\ t \in Containers(P) /\ ShapedContainer(t, p, TRUE, S)
  BY <1>1, <1>5, ObjectCases, ShapedMeans
<1>7. BothShaped(S, t, o, p)
  BY <1>2, <1>6 DEF BothShaped
<1>8. ContainersAgree(o, p, L, A)
  BY <1>1, AgreeValue
<1>9. written = SerializeContainer(o, L, R) /\ Length[n][o] = ContainerLength(o, L)
  BY <1>1, SerializeValue, LengthValue
<1>10. Typed(P, L, R, D) /\ Typed(T, Length[n], Serialize[n], Deserialize[n])
  BY <1>2, LevelsAreTyped
<1>11. RoundTrips(P, L, R, D, E, A, S)
  BY <1>2 DEF Faithful
<1>12. L \in [P -> Nat] /\ R \in [P -> Result] /\ D \in Reader(P)
  BY <1>10 DEF Typed
<1>13. written.bytes \in Seq(Byte)
  BY <1>1, <1>10 DEF Typed, Result
<1> HIDE DEF T, P, L, R, D, E, A, S, written
<1>14. ContainerReturns(L, D, E, o, p, written)
  BY <1>1, <1>2, <1>6, <1>7, <1>8, <1>9, <1>11, <1>12, ContainerRoundTrip, Zenon
<1>15. Len(written.bytes) = Length[n][o]
  BY <1>9, <1>14 DEF ContainerReturns
<1>16. ASSUME NEW more \in Seq(Byte), more = <<>> \/ HasDynamicSize(o)
       PROVE  Comes(Deserialize[n][p][written.bytes \o more], Equal[n], Length[n], o, Length[n][o])
  <2> DEFINE bytes == written.bytes \o more
             read == DeserializeContainer(p, bytes, L, D)
             q == read.object
  <2>1. bytes \in Seq(Byte)
    BY <1>13, ConcatProperties
  <2>2. ContainerComes(read, E, L, o)
    BY <1>14, <1>16, Zenon DEF ContainerReturns
  <2> HIDE DEF bytes
  <2>3. Deserialize[n][p][bytes] = read
    BY <1>1, <1>5, <2>1, DeserializeValue DEF T, L, D
  <2>4. q \in Containers(P)
    <3>1. read \in Attempt(Containers(P))
      BY <1>6, <1>12, <2>1, ContainerIsRead
    <3> HIDE DEF read
    <3> QED
      BY <3>1 DEF Attempt
  <2> HIDE DEF read, q
  <2>5. q \in T /\ IsContainer(q)
    BY <1>2, <2>4, ObjectKinds, ContainerFields DEF T, P
  <2>6. Equal[n][o][q] = EqualContainers(o, q, L, E) /\ Length[n][q] = ContainerLength(q, L)
    BY <1>1, <2>5, EqualValue, LengthValue DEF T, L, E
  <2>7. read.ok /\ EqualContainers(o, q, L, E) /\ ContainerLength(q, L) = ContainerLength(o, L)
    BY <2>2 DEF ContainerComes, q
  <2>8. read.ok /\ Equal[n][o][read.object] /\ Length[n][read.object] = Length[n][o]
    BY <1>9, <2>6, <2>7 DEF q
  <2> QED
    BY <2>3, <2>8, Zenon DEF Comes, bytes
<1> QED
  BY <1>3, <1>4, <1>15, <1>16, Zenon DEF ObjectReturns, written

LEMMA ObjectsReturn ==
  ASSUME NEW n \in 0..Depth, n # 0 => Faithful(n - 1)
  PROVE  Faithful(n)
<1>1. ASSUME NEW t \in Objects[n], NEW o \in Objects[n], NEW p \in Objects[n],
             Shaped[n][t][o][FALSE], Shaped[n][t][p][TRUE], Serialize[n][o].ok, Agree[n][o][p]
      PROVE  ObjectReturns(n, o, p)
  <2>1. Reached(n, t, o, p)
    BY <1>1 DEF Reached
  <2>2. CASE IsContainer(o)
    BY <2>1, <2>2, ContainerObjectReturns, Zenon
  <2>3. CASE ~IsContainer(o)
    BY <2>1, <2>3, BasicReturns, Zenon
  <2> QED
    BY <2>2, <2>3
<1> QED
  BY <1>1, Zenon DEF Faithful, RoundTrips, ObjectReturns

LEMMA AllAreFaithful == \A n \in 0..Depth : Faithful(n)
<1> DEFINE S == {n \in 0..Depth : Faithful(n)}
<1>1. ASSUME NEW n \in 0..Depth, n # 0 => n - 1 \in S PROVE n \in S
  BY <1>1, ObjectsReturn
<1>2. \A n \in 0..Depth : n \in S
  <2> HIDE DEF S
  <2> QED
    BY <1>1, LevelByLevel, Zenon
<1> QED
  BY <1>2

-----------------------------------------------------------------------------
(* Payloads come back.                                                     *)

\* What went over the wire is true of the objects at both ends.
Delivered == AgreedRoundTrip /\ LengthIsTrue

LEMMA EditDelivers == Edit => Delivered'
<1> SUFFICES ASSUME Edit PROVE Delivered'
  OBVIOUS
<1>1. outcome'.kind = "none"
  BY DEF Edit, NoTransfer
<1> QED
  BY <1>1 DEF Delivered, AgreedRoundTrip, LengthIsTrue, Received

LEMMA TransferDelivers == TypeOK /\ Transfer => Delivered'
<1> SUFFICES ASSUME TypeOK, Transfer PROVE Delivered'
  OBVIOUS
<1> DEFINE written == Serialize[Depth][sent]
           read == Deserialize[Depth][held][written.bytes]
<1>1. sent \in Objects[Depth] /\ held \in Objects[Depth] /\ sent' = sent /\ Depth \in 0..Depth
  BY BoundAssumption DEF TypeOK, Transfer
<1>2. PICK t \in Structs : Shaped[Depth][t][sent][FALSE] /\ Shaped[Depth][t][held][TRUE]
  BY DEF TypeOK
<1>3. t \in Objects[Depth]
  BY StructAssumption
<1>4. CASE ~written.ok
  <2>1. outcome' = [kind |-> "refused"]
    BY <1>4 DEF Transfer
  <2>2. outcome'.kind = "refused"
    BY <2>1
  <2> QED
    BY <2>2 DEF Delivered, AgreedRoundTrip, LengthIsTrue, Received
<1>5. CASE written.ok
  <2>1. /\ held' = read.object
        /\ outcome' = [kind |-> IF read.ok THEN "delivered" ELSE "broken",
                       size |-> Len(written.bytes), agreed |-> Agree[Depth][sent][held]]
    BY <1>5 DEF Transfer
  <2>2. written.bytes \in Seq(Byte)
    BY <1>1, TopLevel DEF Typed, Result
  <2>3. written.bytes \o <<>> = written.bytes /\ <<>> \in Seq(Byte)
    BY <2>2, ConcatEmptySeq
  <2> HIDE DEF read, written
  <2>4. outcome'.size = Len(written.bytes) /\ outcome'.agreed = Agree[Depth][sent][held]
        /\ outcome'.kind = (IF read.ok THEN "delivered" ELSE "broken")
    BY <2>1
  <2>5. ASSUME outcome'.agreed
        PROVE  /\ outcome'.kind = "delivered" /\ Equal[Depth][sent][held']
               /\ outcome'.size = Length[Depth][sent] /\ outcome'.size = Length[Depth][held']
    <3>1. Agree[Depth][sent][held]
      BY <2>4, <2>5
    <3>2. Faithful(Depth)
      BY <1>1, AllAreFaithful
    <3>3. /\ Len(written.bytes) = Length[Depth][sent]
          /\ Comes(Deserialize[Depth][held][written.bytes \o <<>>], Equal[Depth], Length[Depth],
                   sent, Length[Depth][sent])
      BY <1>1, <1>2, <1>3, <1>5, <2>3, <3>1, <3>2 DEF Faithful, RoundTrips, written
    <3>4. read.ok /\ Equal[Depth][sent][read.object]
          /\ Length[Depth][read.object] = Length[Depth][sent]
      BY <2>3, <3>3 DEF Comes, read
    <3> QED
      BY <2>1, <2>4, <3>3, <3>4
  <2> QED
    BY <1>1, <2>5 DEF Delivered, AgreedRoundTrip, LengthIsTrue
<1> QED
  BY <1>4, <1>5

LEMMA AllDelivered == Spec => []Delivered
<1>1. Init => Delivered
  BY DEF Init, NoTransfer, Delivered, AgreedRoundTrip, LengthIsTrue, Received
<1>2. TypeOK /\ Delivered /\ [Next]_vars => Delivered'
  <2> SUFFICES ASSUME TypeOK, Delivered, [Next]_vars PROVE Delivered'
    OBVIOUS
  <2>1. CASE Edit
    BY <2>1, EditDelivers
  <2>2. CASE Transfer
    BY <2>2, TransferDelivers
  <2>3. CASE UNCHANGED vars
    BY <2>3 DEF vars, Delivered, AgreedRoundTrip, LengthIsTrue, Received
  <2> QED
    BY <2>1, <2>2, <2>3 DEF Next
<1> QED
  BY <1>1, <1>2, TypeCorrect, PTL DEF Spec

\* A payload that serializes is deserialized to an equal one by every object of the same
\* structure, whatever payloads that object has received before, if its parts of fixed
\* size have the lengths of the sender's: for all structures, nested to any depth, all
\* numbers and all texts (serialization.py: serialize, deserialize, __eq__).
THEOREM AgreedAreDelivered == Spec => []AgreedRoundTrip
<1>1. Delivered => AgreedRoundTrip
  BY DEF Delivered
<1> QED
  BY <1>1, AllDelivered, PTL

\* len() of both objects is then the number of bytes that went over the wire, which the
\* offset of every later member is computed from (serialization.py: __len__).
THEOREM LengthsAreTrue == Spec => []LengthIsTrue
<1>1. Delivered => LengthIsTrue
  BY DEF Delivered
<1> QED
  BY <1>1, AllDelivered, PTL
=============================================================================
