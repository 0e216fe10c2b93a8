------------------------- MODULE FindServiceProofs -------------------------
(***************************************************************************)
(* Proofs about the finding of services: for all tasks, services and       *)
(* numbers of attempts, no find is left without an answer under way, and   *)
(* finds made one after the other get their own.                           *)
(***************************************************************************)
EXTENDS FindService, FiniteSetTheorems, TLAPS

Elements(seq) == {seq[n] : n \in 1..Len(seq)}

Distinct(seq) == \A m, n \in 1..Len(seq) : seq[m] = seq[n] => m = n

-----------------------------------------------------------------------------
(* Sequences                                                               *)

LEMMA TailElements ==
  ASSUME NEW S, NEW seq \in Seq(S), seq # <<>>
  PROVE  /\ Head(seq) \in S /\ Tail(seq) \in Seq(S) /\ Len(Tail(seq)) = Len(seq) - 1
         /\ Elements(seq) = Elements(Tail(seq)) \cup {Head(seq)}
         /\ Distinct(seq) => Distinct(Tail(seq)) /\ Head(seq) \notin Elements(Tail(seq))
<1>1. /\ Head(seq) = seq[1] /\ Head(seq) \in S /\ Len(seq) \in Nat \ {0}
      /\ Tail(seq) \in Seq(S) /\ Len(Tail(seq)) = Len(seq) - 1
      /\ \A n \in 1..Len(Tail(seq)) : Tail(seq)[n] = seq[n + 1]
  OBVIOUS
<1>2. Elements(seq) = Elements(Tail(seq)) \cup {Head(seq)}
  <2>1. ASSUME NEW x \in Elements(seq) PROVE x \in Elements(Tail(seq)) \cup {Head(seq)}
    <3>1. PICK n \in 1..Len(seq) : x = seq[n]
      BY DEF Elements
    <3>2. CASE n = 1
      BY <1>1, <3>1, <3>2
    <3>3. CASE n # 1
      <4>1. n - 1 \in 1..Len(Tail(seq)) /\ Tail(seq)[n - 1] = seq[n]
        BY <1>1, <3>3
      <4> QED
        BY <3>1, <4>1 DEF Elements
    <3> QED
      BY <3>2, <3>3
  <2>2. ASSUME NEW x \in Elements(Tail(seq)) PROVE x \in Elements(seq)
    <3>1. PICK n \in 1..Len(Tail(seq)) : x = seq[n + 1]
      BY <1>1 DEF Elements
    <3>2. n + 1 \in 1..Len(seq)
      BY <1>1
    <3> QED
      BY <3>1, <3>2 DEF Elements
  <2>3. Head(seq) \in Elements(seq)
    BY <1>1 DEF Elements
  <2> QED
    BY <2>1, <2>2, <2>3
<1>3. ASSUME Distinct(seq)
      PROVE  Distinct(Tail(seq)) /\ Head(seq) \notin Elements(Tail(seq))
  <2>1. \A n \in 1..Len(Tail(seq)) : n + 1 \in 1..Len(seq) /\ n + 1 # 1
    BY <1>1
  <2>2. 1 \in 1..Len(seq)
    BY <1>1
  <2>3. Head(seq) \notin Elements(Tail(seq))
    BY <1>1, <1>3, <2>1, <2>2 DEF Elements, Distinct
  <2>4. Distinct(Tail(seq))
    BY <1>1, <1>3, <2>1 DEF Distinct
  <2> QED
    BY <2>3, <2>4
<1>4. QED
  BY <1>1, <1>2, <1>3

LEMMA AppendElements ==
  ASSUME NEW S, NEW seq \in Seq(S), NEW x \in S
  PROVE  /\ Append(seq, x) \in Seq(S) /\ Len(Append(seq, x)) = Len(seq) + 1
         /\ Elements(Append(seq, x)) = Elements(seq) \cup {x}
         /\ Distinct(seq) /\ x \notin Elements(seq) => Distinct(Append(seq, x))
<1>1. /\ Append(seq, x) \in Seq(S) /\ Len(seq) \in Nat
      /\ Len(Append(seq, x)) = Len(seq) + 1
      /\ \A n \in 1..Len(seq) : Append(seq, x)[n] = seq[n]
      /\ Append(seq, x)[Len(seq) + 1] = x
  OBVIOUS
<1>2. 1..Len(Append(seq, x)) = (1..Len(seq)) \cup {Len(seq) + 1}
  BY <1>1
<1>3. Elements(Append(seq, x)) = Elements(seq) \cup {x}
  BY <1>1, <1>2 DEF Elements
<1>4. Distinct(seq) /\ x \notin Elements(seq) => Distinct(Append(seq, x))
  BY <1>1, <1>2 DEF Elements, Distinct
<1>5. QED
  BY <1>1, <1>3, <1>4

LEMMA EmptyElements ==
  ASSUME NEW S, NEW seq \in Seq(S)
  PROVE  /\ Len(seq) \in Nat /\ (Len(seq) = 0 <=> seq = <<>>)
         /\ Elements(seq) \subseteq S
         /\ seq = <<>> <=> Elements(seq) = {}
<1>1. Len(seq) \in Nat /\ (Len(seq) = 0 <=> seq = <<>>) /\ Elements(seq) \subseteq S
  BY DEF Elements
<1>2. ASSUME seq # <<>> PROVE Elements(seq) # {}
  BY <1>1, <1>2, TailElements
<1>3. QED
  BY <1>1, <1>2 DEF Elements

LEMMA Concat ==
  ASSUME NEW S, NEW A \in Seq(S), NEW B \in Seq(S)
  PROVE  /\ A \o B \in Seq(S) /\ Len(A \o B) = Len(A) + Len(B)
         /\ \A n \in 1..Len(A) : (A \o B)[n] = A[n]
         /\ \A n \in 1..Len(B) : (A \o B)[Len(A) + n] = B[n]
OBVIOUS

\* A task that leaves a queue leaves the others in it.
LEMMA WithoutElements ==
  ASSUME NEW S, NEW seq \in Seq(S), NEW t, Distinct(seq)
  PROVE  /\ Without(seq, t) \in Seq(S)
         /\ Elements(Without(seq, t)) = Elements(seq) \ {t}
         /\ Distinct(Without(seq, t))
<1>1. CASE \A n \in 1..Len(seq) : seq[n] # t
  BY <1>1 DEF Without, Elements
<1>2. CASE \E n \in 1..Len(seq) : seq[n] = t
  <2> DEFINE k == CHOOSE n \in 1..Len(seq) : seq[n] = t
             left == Without(seq, t)
  <2>1. k \in 1..Len(seq) /\ seq[k] = t
    BY <1>2
  <2>2. left = SubSeq(seq, 1, k - 1) \o SubSeq(seq, k + 1, Len(seq))
    BY <1>2 DEF Without
  <2> HIDE DEF k, left
  <2>3. Len(seq) \in Nat /\ \A n \in 1..Len(seq) : seq[n] \in S
    OBVIOUS
  <2> DEFINE front == SubSeq(seq, 1, k - 1)
             back == SubSeq(seq, k + 1, Len(seq))
  <2>4. /\ front \in Seq(S) /\ Len(front) = k - 1
        /\ \A n \in 1..k - 1 : front[n] = seq[n]
    BY <2>1, <2>3
  <2>5. /\ back \in Seq(S) /\ Len(back) = Len(seq) - k
        /\ \A n \in 1..Len(seq) - k : back[n] = seq[n + k]
    BY <2>1, <2>3
  <2> HIDE DEF front, back
  <2>6. left \in Seq(S) /\ Len(left) = Len(seq) - 1
    <3>1. left = front \o back
      BY <2>2 DEF front, back
    <3>2. left \in Seq(S) /\ Len(left) = Len(front) + Len(back)
      BY <3>1, <2>4, <2>5, Concat
    <3> QED
      BY <3>2, <2>1, <2>3, <2>4, <2>5
  <2>7. \A n \in 1..Len(left) : left[n] = IF n < k THEN seq[n] ELSE seq[n + 1]
    <3>1. left = front \o back
      BY <2>2 DEF front, back
    <3>2. \A n \in 1..k - 1 : left[n] = seq[n]
      BY <3>1, <2>4, <2>5, Concat
    <3>3. ASSUME NEW n \in 1..Len(left), ~(n < k) PROVE left[n] = seq[n + 1]
      <4>1. n - (k - 1) \in 1..Len(back) /\ n = Len(front) + (n - (k - 1))
        BY <2>1, <2>3, <2>4, <2>5, <2>6, <3>3
      <4>2. left[n] = back[n - (k - 1)]
        BY <3>1, <4>1, <2>4, <2>5, Concat
      <4>3. back[n - (k - 1)] = seq[n - (k - 1) + k]
        BY <2>5, <4>1
      <4>4. n - (k - 1) + k = n + 1
        BY <2>1, <2>3
      <4> QED
        BY <4>2, <4>3, <4>4
    <3> QED
      BY <2>1, <2>3, <3>2, <3>3
  <2>8. \A n \in 1..Len(left) : /\ n < k => n \in 1..Len(seq) /\ n # k
                               /\ ~(n < k) => n + 1 \in 1..Len(seq) /\ n + 1 # k
    BY <2>1, <2>3, <2>6
  <2>9. Distinct(left)
    <3> SUFFICES ASSUME NEW m \in 1..Len(left), NEW n \in 1..Len(left), m < n
                 PROVE  left[m] # left[n]
      BY <2>3, <2>6 DEF Distinct
    <3> DEFINE at(j) == IF j < k THEN j ELSE j + 1
    <3>1. at(m) \in 1..Len(seq) /\ at(n) \in 1..Len(seq) /\ at(m) # at(n)
      BY <2>8, <2>1, <2>3, <2>6
    <3>2. left[m] = seq[at(m)] /\ left[n] = seq[at(n)]
      BY <2>7
    <3> HIDE DEF at
    <3> QED
      BY <3>1, <3>2 DEF Distinct
  <2>10. ASSUME NEW x \in Elements(left) PROVE x \in Elements(seq) \ {t}
    BY <2>1, <2>7, <2>8, <2>10 DEF Elements, Distinct
  <2>11. ASSUME NEW x \in Elements(seq) \ {t} PROVE x \in Elements(left)
    <3>1. PICK n \in 1..Len(seq) : x = seq[n] /\ n # k
      BY <2>1 DEF Elements
    <3>2. CASE n < k
      <4>1. n \in 1..Len(left) /\ left[n] = x
        BY <2>1, <2>3, <2>6, <2>7, <3>1, <3>2
      <4> QED
        BY <4>1 DEF Elements
    <3>3. CASE ~(n < k)
      <4>1. n - 1 \in 1..Len(left) /\ left[n - 1] = x
        BY <2>1, <2>3, <2>6, <2>7, <3>1, <3>3
      <4> QED
        BY <4>1 DEF Elements
    <3> QED
      BY <3>2, <3>3
  <2> QED
    BY <2>6, <2>9, <2>10, <2>11 DEF left
<1>3. QED
  BY <1>1, <1>2
-----------------------------------------------------------------------------
(* Types, and who is in which queue.                                       *)

LEMMA AnswerNames ==
  /\ {Unasked, Pending, Cancelled} \cap Message = {}
  /\ Unasked # Pending /\ Unasked # Cancelled /\ Pending # Cancelled
  /\ Failure \in Message /\ Push \in Message /\ Failure \notin Service
  /\ Push # Failure
BY NameAssumption DEF Message, Unasked, Pending, Cancelled, Failure, Push

\* The tasks in the queue of getters and those that were woken wait, and each of
\* them is there once.  A task makes one request, which is on its way, being
\* probed for, or answered.
QueueInv ==
  /\ Distinct(getters) /\ Distinct(woken)
  /\ Elements(getters) \cap Elements(woken) = {}
  /\ Elements(getters) \cup Elements(woken) \subseteq Waiting
  /\ Distinct(requests)
  /\ \A t \in Elements(requests) : probes[t] = 0 /\ answer[t] # Unasked
  /\ \A t \in Task : probes[t] > 0 => answer[t] # Unasked

LEMMA InitType == Init => TypeOK /\ QueueInv
<1> SUFFICES ASSUME Init PROVE TypeOK /\ QueueInv
  OBVIOUS
<1>1. TypeOK
  <2>1. [t \in Task |-> 0] \in [Task -> 0..Attempts] /\ 0 \in 0..MaxPushes
    BY BoundAssumption
  <2>2. /\ connected \in BOOLEAN /\ disturbed \in BOOLEAN
        /\ receiving \in BOOLEAN /\ heldUp \in BOOLEAN
    BY Zenon DEF Init
  <2> QED
    BY <2>1, <2>2 DEF Init, TypeOK, Unasked
<1>2. Elements(<<>>) = {} /\ Distinct(<<>>)
  BY DEF Elements, Distinct
<1>3. QueueInv
  BY <1>2 DEF Init, QueueInv
<1>4. QED
  BY <1>1, <1>3

LEMMA NextType == TypeOK /\ QueueInv /\ [Next]_vars => TypeOK' /\ QueueInv'
<1> SUFFICES ASSUME TypeOK, QueueInv, [Next]_vars PROVE TypeOK' /\ QueueInv'
  OBVIOUS
<1> USE DEF TypeOK, QueueInv, Waiting, daemonVars, appVars, loops
<1>1. ASSUME NEW t \in Task, Find(t) PROVE TypeOK' /\ QueueInv'
  <2>1. answer[t] = Unasked /\ t \notin Elements(getters) /\ t \notin Elements(woken)
        /\ t \notin Elements(requests) /\ probes[t] = 0
    BY <1>1, AnswerNames, BoundAssumption DEF Find
  <2>2. /\ requests' \in Seq(Task) /\ Distinct(requests')
        /\ Elements(requests') = Elements(requests) \cup {t}
    BY <1>1, <2>1, AppendElements DEF Find
  <2>3. CASE rxQueue = <<>>
    <3>1. /\ getters' \in Seq(Task) /\ Distinct(getters')
          /\ Elements(getters') = Elements(getters) \cup {t}
      <4>1. getters' = Append(getters, t)
        BY <1>1, <2>3 DEF Find
      <4>2. getters \in Seq(Task)
        OBVIOUS
      <4> HIDE DEF TypeOK
      <4> QED
        BY <2>1, <4>1, <4>2, AppendElements
    <3>2. answer' = [answer EXCEPT ![t] = Pending] /\ UNCHANGED <<rxQueue, woken, probes>>
      BY <1>1, <2>3 DEF Find
    <3>3. TypeOK'
      BY <1>1, <2>2, <3>1, <3>2 DEF Find
    <3>4. QueueInv'
      BY <2>1, <2>2, <3>1, <3>2, AnswerNames, EmptyElements
    <3> QED
      BY <3>3, <3>4
  <2>4. CASE rxQueue # <<>>
    <3>1. Head(rxQueue) \in Message /\ rxQueue' \in Seq(Message)
      <4>1. rxQueue' = Tail(rxQueue)
        BY <1>1, <2>4 DEF Find
      <4>2. rxQueue \in Seq(Message)
        OBVIOUS
      <4> QED
        BY <2>4, <4>1, <4>2, TailElements
    <3>2. answer' = [answer EXCEPT ![t] = Head(rxQueue)] /\ UNCHANGED <<getters, woken, probes>>
      BY <1>1, <2>4 DEF Find
    <3>3. TypeOK'
      BY <1>1, <2>2, <3>1, <3>2 DEF Find
    <3>4. QueueInv'
      BY <2>1, <2>2, <3>1, <3>2, AnswerNames, EmptyElements
    <3> QED
      BY <3>3, <3>4
  <2> QED
    BY <2>3, <2>4
<1>2. CASE Receive
  <2>1. toApp' \in Seq(Message) /\ rxQueue' \in Seq(Message)
    BY <1>2, TailElements, AppendElements DEF Receive
  <2>2. CASE getters = <<>>
    BY <1>2, <2>1, <2>2 DEF Receive
  <2>3. CASE getters # <<>>
    <3> DEFINE t == Head(getters)
    <3>1. /\ getters' = Tail(getters) /\ t \in Task /\ getters' \in Seq(Task)
          /\ Elements(getters) = Elements(getters') \cup {t}
          /\ Distinct(getters') /\ t \notin Elements(getters')
      <4>1. getters' = Tail(getters) /\ getters \in Seq(Task)
        BY <1>2, <2>3 DEF Receive
      <4>2. Distinct(getters)
        OBVIOUS
      <4> HIDE DEF QueueInv, TypeOK
      <4> QED
        BY <2>3, <4>1, <4>2, TailElements
    <3>2. /\ woken' \in Seq(Task) /\ Distinct(woken')
          /\ Elements(woken') = Elements(woken) \cup {t}
      <4>1. woken' = Append(woken, t) /\ woken \in Seq(Task)
        BY <1>2, <2>3 DEF Receive
      <4>2. Distinct(woken) /\ t \notin Elements(woken)
        BY <3>1
      <4> HIDE DEF QueueInv, TypeOK, t
      <4> QED
        BY <3>1, <4>1, <4>2, AppendElements
    <3> HIDE DEF t
    <3> QED
      BY <1>2, <2>1, <3>1, <3>2 DEF Receive
  <2> QED
    BY <2>2, <2>3
<1>3. CASE Resume
  <2> DEFINE t == Head(woken)
  <2>1. /\ t \in Task /\ woken' \in Seq(Task) /\ Distinct(woken')
        /\ Elements(woken) = Elements(woken') \cup {t} /\ t \notin Elements(woken')
    BY <1>3, TailElements DEF Resume
  <2>2. CASE rxQueue = <<>>
    <3>1. /\ getters' \in Seq(Task) /\ Distinct(getters')
          /\ Elements(getters') = Elements(getters) \cup {t}
      <4>1. getters' = Append(getters, t) /\ getters \in Seq(Task)
        BY <1>3, <2>2 DEF Resume
      <4>2. Distinct(getters) /\ t \notin Elements(getters)
        BY <2>1
      <4> HIDE DEF QueueInv, TypeOK, t
      <4> QED
        BY <2>1, <4>1, <4>2, AppendElements
    <3>2. UNCHANGED <<rxQueue, answer, probes, requests>>
      BY <1>3, <2>2 DEF Resume
    <3> HIDE DEF t
    <3> QED
      BY <1>3, <2>1, <3>1, <3>2 DEF Resume
  <2>3. CASE rxQueue # <<>>
    <3>1. Head(rxQueue) \in Message /\ rxQueue' \in Seq(Message)
      <4>1. rxQueue' = Tail(rxQueue) /\ rxQueue \in Seq(Message)
        BY <1>3, <2>3 DEF Resume
      <4> HIDE DEF QueueInv, TypeOK
      <4> QED
        BY <2>3, <4>1, TailElements
    <3>2. answer' = [answer EXCEPT ![t] = Head(rxQueue)] /\ UNCHANGED <<getters, probes, requests>>
      BY <1>3, <2>3 DEF Resume
    <3> HIDE DEF t
    <3>3. TypeOK'
      BY <1>3, <2>1, <3>1, <3>2 DEF Resume
    <3>4. QueueInv'
      BY <2>1, <3>1, <3>2, AnswerNames, EmptyElements
    <3> QED
      BY <3>3, <3>4
  <2> QED
    BY <2>2, <2>3
<1>4. ASSUME NEW t \in Task, Cancel(t) PROVE TypeOK' /\ QueueInv'
  <2>1. /\ Without(woken, t) \in Seq(Task) /\ Distinct(Without(woken, t))
        /\ Elements(Without(woken, t)) = Elements(woken) \ {t}
        /\ Without(getters, t) \in Seq(Task) /\ Distinct(Without(getters, t))
        /\ Elements(Without(getters, t)) = Elements(getters) \ {t}
    BY WithoutElements
  <2>2. answer' = [answer EXCEPT ![t] = Cancelled] /\ UNCHANGED <<probes, requests, rxQueue>>
    BY <1>4 DEF Cancel
  <2>3. CASE woken' = Without(woken, t) /\ getters' = Without(getters, t)
    <3>1. TypeOK'
      BY <1>4, <2>1, <2>2, <2>3 DEF Cancel
    <3>2. QueueInv'
      BY <2>1, <2>2, <2>3, AnswerNames, EmptyElements
    <3> QED
      BY <3>1, <3>2
  <2>4. CASE /\ t \in Elements(woken) /\ getters # <<>>
             /\ woken' = Append(Without(woken, t), Head(getters))
             /\ getters' = Tail(getters)
    <3> DEFINE u == Head(getters)
    <3>1. /\ u \in Task /\ getters' \in Seq(Task) /\ Distinct(getters')
          /\ Elements(getters) = Elements(getters') \cup {u} /\ u \notin Elements(getters')
      BY <2>4, TailElements
    <3>2. u \notin Elements(woken)
      BY <3>1
    <3>3. /\ woken' \in Seq(Task) /\ Distinct(woken')
          /\ Elements(woken') = (Elements(woken) \ {t}) \cup {u}
      BY <2>1, <2>4, <3>1, <3>2, AppendElements
    <3> HIDE DEF u
    <3>4. TypeOK'
      BY <1>4, <2>2, <3>1, <3>3 DEF Cancel
    <3>5. QueueInv'
      BY <2>2, <2>4, <3>1, <3>2, <3>3, AnswerNames, EmptyElements
    <3> QED
      BY <3>4, <3>5
  <2> QED
    BY <1>4, <2>3, <2>4 DEF Cancel, Elements
<1>5. CASE Handle
  <2> DEFINE t == Head(requests)
  <2>1. /\ t \in Task /\ requests' \in Seq(Task) /\ Distinct(requests')
        /\ Elements(requests) = Elements(requests') \cup {t} /\ t \notin Elements(requests')
    BY <1>5, TailElements DEF Handle
  <2>2. CASE UNCHANGED probes
    <3>1. toApp' \in Seq(Message)
      <4>1. PICK s \in (found \cup offered) \cap Matches[t] : toApp' = Append(toApp, s)
        BY <1>5, <2>1, <2>2, BoundAssumption DEF Handle
      <4>2. s \in Message
        BY DEF Message, Service
      <4> QED
        BY <4>1, <4>2, AppendElements
    <3> HIDE DEF t
    <3> QED
      BY <1>5, <2>1, <2>2, <3>1 DEF Handle
  <2>3. CASE probes' = [probes EXCEPT ![t] = Attempts] /\ UNCHANGED toApp
    <3> HIDE DEF t
    <3> QED
      BY <1>5, <2>1, <2>3, BoundAssumption DEF Handle
  <2> QED
    BY <1>5, <2>2, <2>3 DEF Handle
<1>6. ASSUME NEW t \in Task, Poll(t) PROVE TypeOK' /\ QueueInv'
  <2>1. t \notin Elements(requests) /\ probes[t] \in 1..Attempts
    BY <1>6, BoundAssumption DEF Poll
  <2>2. \/ probes' = [probes EXCEPT ![t] = 0]
        \/ probes' = [probes EXCEPT ![t] = @ - 1]
    BY <1>6 DEF Poll
  <2>3. toApp' \in Seq(Message)
    <3>1. \A s \in found : Append(toApp, s) \in Seq(Message)
      BY AppendElements DEF Message, Service
    <3>2. Append(toApp, Failure) \in Seq(Message)
      BY AppendElements, AnswerNames
    <3> QED
      BY <1>6, <3>1, <3>2 DEF Poll
  <2>4. probes' \in [Task -> 0..Attempts] /\ \A u \in Task : probes'[u] > 0 => probes[u] > 0
    <3>1. probes[t] - 1 \in 0..Attempts /\ 0 \in 0..Attempts
      BY <2>1, BoundAssumption
    <3>2. probes \in [Task -> 0..Attempts]
      OBVIOUS
    <3> HIDE DEF TypeOK, QueueInv
    <3> QED
      BY <2>1, <2>2, <3>1, <3>2
  <2>5. \A u \in Elements(requests) : probes'[u] = 0
    BY <2>1, <2>2, EmptyElements
  <2>6. UNCHANGED <<found, offered, requests, appVars, pushes, connected, disturbed, loops>>
    BY <1>6 DEF Poll
  <2> QED
    BY <2>3, <2>4, <2>5, <2>6
<1>7. CASE ForwardSubscription
  <2>1. toApp' \in Seq(Message)
    BY <1>7, AppendElements, AnswerNames DEF ForwardSubscription
  <2> QED
    BY <1>7, <2>1, BoundAssumption DEF ForwardSubscription
<1>8. CASE ConnectionEnds
  <2>1. Elements(<<>>) = {} /\ Distinct(<<>>)
    BY DEF Elements, Distinct
  <2>2. /\ requests' = <<>> /\ toApp' = <<>> /\ probes' = [t \in Task |-> 0]
        /\ connected' = FALSE /\ receiving' = FALSE
        /\ UNCHANGED <<found, offered, rxQueue, getters, woken, answer, pushes, disturbed, heldUp>>
    BY <1>8 DEF ConnectionEnds
  <2>3. TypeOK'
    <3>1. [t \in Task |-> 0] \in [Task -> 0..Attempts]
      BY BoundAssumption
    <3>2. connected' \in BOOLEAN /\ receiving' \in BOOLEAN
      BY <2>2, Zenon
    <3> QED
      BY <2>2, <3>1, <3>2
  <2>4. QueueInv'
    BY <2>1, <2>2
  <2> QED
    BY <2>3, <2>4
<1>9. ASSUME NEW s \in Remote, FoundChanges(s) PROVE TypeOK' /\ QueueInv'
  BY <1>9 DEF FoundChanges
<1>10. ASSUME NEW s \in Local, OfferedChanges(s) PROVE TypeOK' /\ QueueInv'
  BY <1>10 DEF OfferedChanges
<1>11. CASE ReceiveEnds \/ HoldsUp \/ GoesOn
  <2>1. /\ UNCHANGED <<daemonVars, appVars, requests, toApp, pushes, connected, disturbed>>
        /\ \/ receiving' = FALSE /\ heldUp' = heldUp
           \/ receiving' = receiving /\ heldUp' \in {TRUE, FALSE}
    BY <1>11 DEF ReceiveEnds, HoldsUp, GoesOn
  <2>2. receiving' \in BOOLEAN /\ heldUp' \in BOOLEAN
    BY <2>1, Zenon
  <2>3. QueueInv'
    BY <2>1
  <2> QED
    BY <2>1, <2>2, <2>3
<1>12. CASE UNCHANGED vars
  BY <1>12 DEF vars
<1> QED
  BY <1>1, <1>2, <1>3, <1>4, <1>5, <1>6, <1>7, <1>8, <1>9, <1>10, <1>11, <1>12 DEF Next

\* Every variable keeps its type.
THEOREM TypeCorrect == Spec => []TypeOK
<1>1. QED
  BY InitType, NextType, PTL DEF Spec
-----------------------------------------------------------------------------
(* Answers under way and tasks that wait are counted.                      *)

Probing == {t \in Task : probes[t] > 0}

\* How many more answers are under way than tasks wait.
Spare == Outstanding - Cardinality(Waiting)

LEMMA Counts ==
  ASSUME TypeOK
  PROVE  /\ IsFiniteSet(Waiting) /\ Cardinality(Waiting) \in Nat
         /\ IsFiniteSet(Probing) /\ Cardinality(Probing) \in Nat
         /\ Len(requests) \in Nat /\ Len(toApp) \in Nat /\ Len(rxQueue) \in Nat
         /\ Outstanding = Len(requests) + Cardinality(Probing) + Len(toApp) + Len(rxQueue)
         /\ Outstanding \in Nat /\ Spare \in Int
<1>1. IsFiniteSet(Waiting) /\ IsFiniteSet(Probing)
  BY TaskAssumption, FS_Subset DEF Waiting, Probing
<1>2. Cardinality(Waiting) \in Nat /\ Cardinality(Probing) \in Nat
  BY <1>1, FS_CardinalityType
<1>3. Len(requests) \in Nat /\ Len(toApp) \in Nat /\ Len(rxQueue) \in Nat
  BY DEF TypeOK
<1>4. Outstanding = Len(requests) + Cardinality(Probing) + Len(toApp) + Len(rxQueue)
  BY DEF Outstanding, Probing
<1>5. QED
  BY <1>1, <1>2, <1>3, <1>4 DEF Spare

\* A probe less and a message more.
LEMMA AnswerMoves ==
  ASSUME NEW r \in Nat, NEW p \in Nat, NEW a \in Nat, NEW q \in Nat, NEW w \in Nat
  PROVE  (r + (p - 1) + (a + 1) + q) - w = (r + p + a + q) - w
OBVIOUS

\* A step never takes an answer from the tasks that wait, as long as the connection
\* is open; and it makes no answer that nobody waits for, unless finds are
\* disturbed.
LEMMA Balance ==
  ASSUME TypeOK, QueueInv, TypeOK', [Next]_vars
  PROVE  /\ connected' => connected /\ Spare' >= Spare
         /\ ~disturbed' => ~disturbed /\ Spare' <= Spare
<1> DEFINE Goal == /\ connected' => connected /\ Spare' >= Spare
                   /\ ~disturbed' => ~disturbed /\ Spare' <= Spare
           waiting == Cardinality(Waiting)
           under == Len(requests) + Cardinality(Probing) + Len(toApp) + Len(rxQueue)
\* The counts of the next state, too.
<1>a. /\ IsFiniteSet(Waiting') /\ IsFiniteSet(Probing')
      /\ Cardinality(Waiting') \in Nat /\ Cardinality(Probing') \in Nat
      /\ Len(requests') \in Nat /\ Len(toApp') \in Nat /\ Len(rxQueue') \in Nat
  <2>1. Waiting' \subseteq Task /\ Probing' \subseteq Task
    BY DEF Waiting, Probing
  <2>2. IsFiniteSet(Waiting') /\ IsFiniteSet(Probing')
    BY <2>1, TaskAssumption, FS_Subset
  <2>3. Len(requests') \in Nat /\ Len(toApp') \in Nat /\ Len(rxQueue') \in Nat
    BY DEF TypeOK
  <2> QED
    BY <2>2, <2>3, FS_CardinalityType
<1>b. /\ Spare = under - waiting
      /\ Spare' = (Len(requests') + Cardinality(Probing') + Len(toApp') + Len(rxQueue'))
                    - Cardinality(Waiting')
  <2>1. Outstanding = under /\ Outstanding' = Len(requests') + Cardinality(Probing')
                                              + Len(toApp') + Len(rxQueue')
    BY Zenon DEF Outstanding, Probing
  <2> QED
    BY <2>1 DEF Spare
<1>c. ASSUME Spare' = Spare, UNCHANGED connected, disturbed => disturbed'
      PROVE  Goal
  <2>1. Spare \in Int
    BY Counts
  <2>2. Spare' >= Spare /\ Spare' <= Spare
    BY <1>c, <2>1
  <2> QED
    BY <1>c, <2>2
<1>d. ASSUME UNCHANGED answer PROVE Waiting' = Waiting
  BY <1>d DEF Waiting
<1>e. ASSUME UNCHANGED probes PROVE Probing' = Probing
  BY <1>e DEF Probing
<1>1. ASSUME NEW t \in Task, Find(t) PROVE Goal
  <2>1. /\ Len(requests') = Len(requests) + 1 /\ UNCHANGED <<toApp, probes, connected>>
        /\ disturbed => disturbed'
    <3>1. requests \in Seq(Task) /\ requests' = Append(requests, t)
      BY <1>1 DEF Find, TypeOK
    <3>2. Len(requests') = Len(requests) + 1
      BY <3>1, AppendElements
    <3>3. UNCHANGED <<toApp, probes, connected>> /\ (disturbed => disturbed')
      BY <1>1 DEF Find, daemonVars
    <3> QED
      BY <3>2, <3>3
  <2>2. answer[t] = Unasked /\ answer \in [Task -> Message \cup {Unasked, Pending, Cancelled}]
    BY <1>1 DEF Find, TypeOK
  <2>3. CASE rxQueue = <<>>
    <3>1. answer' = [answer EXCEPT ![t] = Pending] /\ UNCHANGED rxQueue
      BY <1>1, <2>3 DEF Find
    <3>2. Waiting' = Waiting \cup {t} /\ t \notin Waiting
      BY <2>2, <3>1, AnswerNames DEF Waiting
    <3>3. Cardinality(Waiting') = Cardinality(Waiting) + 1
      BY <3>2, Counts, FS_AddElement
    <3>4. Spare' = Spare
      BY <1>a, <1>b, <1>e, <2>1, <3>1, <3>3, Counts
    <3> QED
      BY <1>c, <2>1, <3>4
  <2>4. CASE rxQueue # <<>>
    <3>1. answer' = [answer EXCEPT ![t] = Head(rxQueue)] /\ rxQueue' = Tail(rxQueue)
      BY <1>1, <2>4 DEF Find
    <3>2. rxQueue \in Seq(Message)
      BY DEF TypeOK
    <3>3. Head(rxQueue) \in Message /\ Len(rxQueue') = Len(rxQueue) - 1
      BY <2>4, <3>1, <3>2, TailElements
    <3>4. Waiting' = Waiting
      BY <2>2, <3>1, <3>3, AnswerNames DEF Waiting
    <3>5. Spare' = Spare
      BY <1>a, <1>b, <1>e, <2>1, <3>3, <3>4, Counts
    <3> QED
      BY <1>c, <2>1, <3>5
  <2> QED
    BY <2>3, <2>4
<1>2. CASE Receive
  <2>1. /\ toApp # <<>> /\ toApp \in Seq(Message) /\ toApp' = Tail(toApp)
        /\ rxQueue \in Seq(Message) /\ rxQueue' = Append(rxQueue, Head(toApp))
        /\ UNCHANGED <<requests, probes, answer, connected, disturbed>>
    BY <1>2 DEF Receive, TypeOK, daemonVars
  <2>2. Len(toApp') = Len(toApp) - 1 /\ Len(rxQueue') = Len(rxQueue) + 1
    BY <2>1, TailElements, AppendElements
  <2>3. Spare' = Spare
    <3>1. Waiting' = Waiting /\ Probing' = Probing /\ requests' = requests
      BY <1>d, <1>e, <2>1
    <3>2. /\ Len(requests) \in Nat /\ Len(toApp) \in Nat /\ Len(rxQueue) \in Nat
          /\ Cardinality(Probing) \in Nat /\ Cardinality(Waiting) \in Nat
      BY Counts
    <3> QED
      BY <1>b, <2>2, <3>1, <3>2
  <2> QED
    BY <1>c, <2>1, <2>3
<1>3. CASE Resume
  <2> DEFINE t == Head(woken)
  <2>1. t \in Task /\ answer[t] = Pending
    <3>1. woken \in Seq(Task) /\ woken # <<>> /\ Elements(woken) \subseteq Waiting
      BY <1>3 DEF Resume, TypeOK, QueueInv
    <3>2. t \in Elements(woken)
      BY <3>1, TailElements
    <3> QED
      BY <3>1, <3>2 DEF Waiting
  <2>2. UNCHANGED <<requests, toApp, probes, connected, disturbed>>
    BY <1>3 DEF Resume, daemonVars
  <2>3. CASE rxQueue = <<>>
    <3>1. UNCHANGED <<rxQueue, answer>>
      BY <1>3, <2>3 DEF Resume
    <3>2. Spare' = Spare
      BY <1>a, <1>b, <1>d, <1>e, <2>2, <3>1, Counts
    <3> QED
      BY <1>c, <2>2, <3>2
  <2>4. CASE rxQueue # <<>>
    <3>1. answer' = [answer EXCEPT ![t] = Head(rxQueue)] /\ rxQueue' = Tail(rxQueue)
      BY <1>3, <2>4 DEF Resume
    <3>2. rxQueue \in Seq(Message)
          /\ answer \in [Task -> Message \cup {Unasked, Pending, Cancelled}]
      BY DEF TypeOK
    <3>3. Head(rxQueue) \in Message /\ Len(rxQueue') = Len(rxQueue) - 1
      BY <2>4, <3>1, <3>2, TailElements
    <3> HIDE DEF t
    <3>4. Waiting' = Waiting \ {t} /\ t \in Waiting
      BY <2>1, <3>1, <3>2, <3>3, AnswerNames DEF Waiting
    <3>5. Cardinality(Waiting') = Cardinality(Waiting) - 1
      BY <3>4, Counts, FS_RemoveElement
    <3>6. Spare' = Spare
      BY <1>a, <1>b, <1>e, <2>2, <3>3, <3>5, Counts
    <3> QED
      BY <1>c, <2>2, <3>6
  <2> QED
    BY <2>3, <2>4
<1>4. ASSUME NEW t \in Task, Cancel(t) PROVE Goal
  <2>1. /\ t \in Waiting /\ answer' = [answer EXCEPT ![t] = Cancelled] /\ disturbed' = TRUE
        /\ UNCHANGED <<requests, toApp, rxQueue, probes, connected>>
        /\ answer \in [Task -> Message \cup {Unasked, Pending, Cancelled}]
    BY <1>4 DEF Cancel, TypeOK, daemonVars
  <2>2. Waiting' = Waiting \ {t}
    BY <2>1, AnswerNames DEF Waiting
  <2>3. Cardinality(Waiting') = Cardinality(Waiting) - 1
    BY <2>1, <2>2, Counts, FS_RemoveElement
  <2>4. Spare' >= Spare
    BY <1>a, <1>b, <1>e, <2>1, <2>3, Counts
  <2> QED
    BY <2>1, <2>4
<1>5. CASE Handle
  <2> DEFINE t == Head(requests)
  <2>1. /\ requests \in Seq(Task) /\ requests # <<>> /\ requests' = Tail(requests)
        /\ toApp \in Seq(Message) /\ probes \in [Task -> 0..Attempts]
        /\ UNCHANGED <<rxQueue, answer, connected, disturbed>>
    BY <1>5 DEF Handle, TypeOK, appVars
  <2>2. t \in Task /\ t \in Elements(requests) /\ Len(requests') = Len(requests) - 1
    BY <2>1, TailElements
  <2>3. probes[t] = 0
    BY <2>2 DEF QueueInv
  <2>4. CASE UNCHANGED probes
    <3>1. PICK s \in (found \cup offered) \cap Matches[t] : toApp' = Append(toApp, s)
      BY <1>5, <2>1, <2>2, <2>3, <2>4, BoundAssumption DEF Handle
    <3>2. s \in Message
      BY DEF Message, Service, TypeOK
    <3>3. Len(toApp') = Len(toApp) + 1
      BY <2>1, <3>1, <3>2, AppendElements
    <3>4. Spare' = Spare
      BY <1>a, <1>b, <1>d, <1>e, <2>1, <2>2, <2>4, <3>3, Counts
    <3> QED
      BY <1>c, <2>1, <3>4
  <2>5. CASE probes' = [probes EXCEPT ![t] = Attempts] /\ UNCHANGED toApp
    <3> HIDE DEF t
    <3>1. Probing' = Probing \cup {t} /\ t \notin Probing
      BY <2>1, <2>2, <2>3, <2>5, BoundAssumption DEF Probing
    <3>2. Cardinality(Probing') = Cardinality(Probing) + 1
      BY <3>1, Counts, FS_AddElement
    <3>3. Spare' = Spare
      BY <1>a, <1>b, <1>d, <2>1, <2>2, <2>5, <3>2, Counts
    <3> QED
      BY <1>c, <2>1, <3>3
  <2> QED
    BY <1>5, <2>4, <2>5 DEF Handle
<1>6. ASSUME NEW t \in Task, Poll(t) PROVE Goal
  <2>1. /\ probes[t] \in 1..Attempts /\ probes \in [Task -> 0..Attempts]
        /\ toApp \in Seq(Message)
        /\ UNCHANGED <<requests, rxQueue, answer, connected, disturbed>>
    BY <1>6, BoundAssumption DEF Poll, TypeOK, appVars
  <2>2. CASE /\ probes' = [probes EXCEPT ![t] = probes[t] - 1] /\ probes[t] # 1
             /\ UNCHANGED toApp
    <3>1. Probing' = Probing
      BY <2>1, <2>2, BoundAssumption DEF Probing
    <3>2. Spare' = Spare
      BY <1>a, <1>b, <1>d, <2>1, <2>2, <3>1, Counts
    <3> QED
      BY <1>c, <2>1, <3>2
  <2>3. ASSUME NEW x \in Message, probes' = [probes EXCEPT ![t] = 0],
               toApp' = Append(toApp, x)
        PROVE  Goal
    <3>1. Probing' = Probing \ {t} /\ t \in Probing
      BY <2>1, <2>3, BoundAssumption DEF Probing
    <3>2. Cardinality(Probing') = Cardinality(Probing) - 1
      BY <3>1, Counts, FS_RemoveElement
    <3>3. Len(toApp') = Len(toApp) + 1
      BY <2>1, <2>3, AppendElements
    <3>4. Spare' = Spare
      <4>1. Waiting' = Waiting /\ UNCHANGED <<requests, rxQueue>>
        BY <1>d, <2>1
      <4>2. Spare' = (Len(requests) + (Cardinality(Probing) - 1) + (Len(toApp) + 1)
                       + Len(rxQueue)) - Cardinality(Waiting)
        BY <1>b, <3>2, <3>3, <4>1
      <4>3. /\ Len(requests) \in Nat /\ Len(toApp) \in Nat /\ Len(rxQueue) \in Nat
            /\ Cardinality(Probing) \in Nat /\ Cardinality(Waiting) \in Nat
        BY Counts
      <4>4. Spare = (Len(requests) + Cardinality(Probing) + Len(toApp) + Len(rxQueue))
                      - Cardinality(Waiting)
        BY <1>b
      <4> QED
        BY <4>2, <4>3, <4>4, AnswerMoves
    <3> QED
      BY <1>c, <2>1, <3>4
  <2>4. ASSUME NEW s \in found \cap Matches[t], toApp' = Append(toApp, s),
               probes' = [probes EXCEPT ![t] = 0]
        PROVE  Goal
    BY <2>3, <2>4 DEF Message, Service, TypeOK
  <2>5. CASE /\ probes' = [probes EXCEPT ![t] = probes[t] - 1]
             /\ toApp' = IF probes[t] = 1 THEN Append(toApp, Failure) ELSE toApp
    <3>1. CASE probes[t] = 1
      <4>1. probes' = [probes EXCEPT ![t] = 0]
        BY <2>5, <3>1
      <4> QED
        BY <2>3, <2>5, <3>1, <4>1, AnswerNames
    <3> QED
      BY <2>2, <2>5, <3>1
  <2> QED
    BY <1>6, <2>4, <2>5 DEF Poll
<1>7. CASE ForwardSubscription
  <2>1. /\ toApp \in Seq(Message) /\ toApp' = Append(toApp, Push) /\ disturbed' = TRUE
        /\ UNCHANGED <<requests, rxQueue, answer, probes, connected>>
    BY <1>7 DEF ForwardSubscription, TypeOK, appVars, daemonVars
  <2>2. Len(toApp') = Len(toApp) + 1
    BY <2>1, AnswerNames, AppendElements
  <2>3. Spare' >= Spare
    BY <1>a, <1>b, <1>d, <1>e, <2>1, <2>2, Counts
  <2> QED
    BY <2>1, <2>3
<1>8. CASE ConnectionEnds
  <2>1. /\ requests' = <<>> /\ toApp' = <<>> /\ probes' = [t \in Task |-> 0]
        /\ connected' = FALSE /\ UNCHANGED <<answer, rxQueue, disturbed>>
    BY <1>8 DEF ConnectionEnds, appVars
  <2>2. Probing' = {}
    BY <2>1 DEF Probing
  <2>3. Cardinality(Probing') = 0
    BY <2>2, FS_EmptySet
  <2>4. Spare' <= Spare
    BY <1>a, <1>b, <1>d, <2>1, <2>3, Counts
  <2> QED
    BY <2>1, <2>4
<1>9. ASSUME UNCHANGED <<requests, toApp, rxQueue, answer, probes, connected, disturbed>>
      PROVE  Goal
  <2>1. Spare' = Spare
    BY <1>a, <1>b, <1>d, <1>e, <1>9, Counts
  <2> QED
    BY <1>c, <1>9, <2>1
<1>10. ASSUME NEW s \in Remote, FoundChanges(s) PROVE Goal
  BY <1>9, <1>10 DEF FoundChanges, appVars
<1>11. ASSUME NEW s \in Local, OfferedChanges(s) PROVE Goal
  BY <1>9, <1>11 DEF OfferedChanges, appVars
<1>12. CASE ReceiveEnds \/ HoldsUp \/ GoesOn
  BY <1>9, <1>12 DEF ReceiveEnds, HoldsUp, GoesOn, appVars, daemonVars
<1>13. CASE UNCHANGED vars
  BY <1>9, <1>13 DEF vars, appVars, daemonVars
<1> QED
  BY <1>1, <1>2, <1>3, <1>4, <1>5, <1>6, <1>7, <1>8, <1>10, <1>11, <1>12, <1>13 DEF Next

LEMMA InitCount == Init => Spare = 0 /\ Waiting = {}
<1> SUFFICES ASSUME Init PROVE Spare = 0 /\ Waiting = {}
  OBVIOUS
<1>1. Waiting = {} /\ Probing = {}
  BY DEF Init, Waiting, Probing, Unasked, Pending
<1>2. Cardinality({}) = 0
  BY FS_EmptySet
<1>3. Len(requests) = 0 /\ Len(toApp) = 0 /\ Len(rxQueue) = 0
  BY DEF Init
<1>4. Outstanding = ((0 + Cardinality(Probing)) + 0) + 0
  BY <1>3 DEF Outstanding, Probing
<1>5. Outstanding = 0
  BY <1>1, <1>2, <1>4
<1>6. QED
  BY <1>1, <1>2, <1>5 DEF Spare

LEMMA CountsMean == TypeOK => (NobodyIsForgotten <=> (connected => Spare >= 0))
<1> SUFFICES ASSUME TypeOK PROVE NobodyIsForgotten <=> (connected => Spare >= 0)
  OBVIOUS
<1>1. Cardinality(Waiting) <= Outstanding <=> Spare >= 0
  BY Counts DEF Spare
<1>2. QED
  BY <1>1 DEF NobodyIsForgotten

LEMMA SpareType == TypeOK => Spare \in Int
BY Counts

\* For every task that waits an answer is under way or to come, as long as the
\* connection is open: whoever takes, cancels or pushes, the numbers balance.
THEOREM NobodyForgotten == Spec => []NobodyIsForgotten
<1>1. Init => NobodyIsForgotten
  BY InitType, InitCount, CountsMean
<1>2. TypeOK /\ QueueInv /\ NobodyIsForgotten /\ [Next]_vars => NobodyIsForgotten'
  <2>1. /\ (TypeOK => Spare \in Int)'
        /\ (TypeOK => (NobodyIsForgotten <=> (connected => Spare >= 0)))'
    BY SpareType, CountsMean, PTL
  <2> SUFFICES ASSUME TypeOK, QueueInv, NobodyIsForgotten, [Next]_vars
               PROVE  NobodyIsForgotten'
    OBVIOUS
  <2>2. TypeOK'
    BY NextType
  <2>3. connected' => connected /\ Spare' >= Spare
    BY <2>2, Balance
  <2>4. connected => Spare >= 0
    BY CountsMean
  <2>5. Spare \in Int /\ Spare' \in Int
    BY <2>1, <2>2, SpareType
  <2>6. connected' => Spare' >= 0
    BY <2>3, <2>4, <2>5
  <2> QED
    BY <2>1, <2>2, <2>6
<1>3. QED
  BY <1>1, <1>2, InitType, NextType, PTL DEF Spec

-----------------------------------------------------------------------------
(* Finds made one after the other.                                         *)

\* While nothing was disturbed one task waits at most, and whatever is under way
\* is for it, and not more than one message.
AloneInv ==
  ~disturbed =>
    /\ \A t, u \in Waiting : t = u
    /\ Spare <= 0
    /\ Elements(requests) \cup Probing \subseteq Waiting
    /\ \A t \in Waiting :
         Elements(toApp) \cup Elements(rxQueue) \subseteq Matches[t] \cup {Failure}

\* With nobody waiting, nothing is under way.
LEMMA NothingUnderWay ==
  TypeOK /\ Spare <= 0 /\ Waiting = {}
    => requests = <<>> /\ toApp = <<>> /\ rxQueue = <<>> /\ Probing = {}
<1> SUFFICES ASSUME TypeOK, Spare <= 0, Waiting = {}
             PROVE  requests = <<>> /\ toApp = <<>> /\ rxQueue = <<>> /\ Probing = {}
  OBVIOUS
<1>1. Cardinality(Waiting) = 0
  BY FS_EmptySet
<1>2. Outstanding <= 0
  BY <1>1, Counts DEF Spare
<1>3. /\ Len(requests) = 0 /\ Len(toApp) = 0 /\ Len(rxQueue) = 0
      /\ Cardinality(Probing) = 0
  BY <1>2, Counts
<1>4. Probing = {}
  BY <1>3, Counts, FS_EmptySet
<1>5. QED
  BY <1>3, <1>4, EmptyElements DEF TypeOK

LEMMA InitAlone == Init => AloneInv /\ AnswersAreOwn
<1> SUFFICES ASSUME Init PROVE AloneInv /\ AnswersAreOwn
  OBVIOUS
<1>1. Spare = 0 /\ Waiting = {}
  BY InitCount
<1>2. Elements(requests) = {} /\ Probing = {}
  BY BoundAssumption DEF Init, Elements, Probing
<1>3. AnswersAreOwn
  BY NameAssumption DEF Init, AnswersAreOwn
<1>4. QED
  BY <1>1, <1>2, <1>3 DEF AloneInv

LEMMA NextAlone ==
  TypeOK /\ QueueInv /\ AloneInv /\ AnswersAreOwn /\ [Next]_vars
    => AloneInv' /\ AnswersAreOwn'
<1>x. (TypeOK => Spare \in Int)'
  BY SpareType, PTL
<1>y. (TypeOK /\ Spare <= 0 /\ Waiting = {}
        => requests = <<>> /\ toApp = <<>> /\ rxQueue = <<>> /\ Probing = {})'
  BY NothingUnderWay, PTL
<1> SUFFICES ASSUME TypeOK, QueueInv, AloneInv, AnswersAreOwn, [Next]_vars, ~disturbed'
             PROVE  AloneInv' /\ AnswersAreOwn'
  BY DEF AloneInv, AnswersAreOwn
<1>a. TypeOK' /\ QueueInv' /\ ~disturbed /\ Spare' <= 0
  <2>1. TypeOK' /\ QueueInv' /\ ~disturbed /\ Spare' <= Spare
    BY NextType, Balance
  <2>2. Spare <= 0 /\ Spare \in Int /\ Spare' \in Int
    BY <2>1, <1>x, SpareType DEF AloneInv
  <2> QED
    BY <2>1, <2>2
<1>b. /\ \A t, u \in Waiting : t = u
      /\ Spare <= 0
      /\ Elements(requests) \cup Probing \subseteq Waiting
      /\ \A t \in Waiting :
           Elements(toApp) \cup Elements(rxQueue) \subseteq Matches[t] \cup {Failure}
  BY <1>a DEF AloneInv
\* Once nobody waits any more, nothing is left to be proved about messages.
<1>c. ASSUME Waiting' = {} PROVE AloneInv'
  <2>1. requests' = <<>> /\ Probing' = {}
    BY <1>a, <1>c, <1>y
  <2>2. Elements(requests') = {}
    BY <2>1 DEF Elements
  <2> QED
    BY <1>a, <1>c, <2>1, <2>2 DEF AloneInv, Elements
\* The tasks that wait are the same, and so are what they asked and their answers.
<1>d. ASSUME UNCHANGED answer,
             Elements(requests)' \cup Probing' \subseteq Waiting,
             \A t \in Waiting : Elements(toApp)' \cup Elements(rxQueue)'
                                  \subseteq Matches[t] \cup {Failure}
      PROVE  AloneInv' /\ AnswersAreOwn'
  <2>1. Waiting' = Waiting
    BY <1>d DEF Waiting
  <2> QED
    BY <1>a, <1>b, <1>d, <2>1 DEF AloneInv, AnswersAreOwn
<1>1. ASSUME NEW t \in Task, Find(t) PROVE AloneInv' /\ AnswersAreOwn'
  <2>1. Waiting = {}
    BY <1>1, <1>a DEF Find
  <2>2. requests = <<>> /\ toApp = <<>> /\ rxQueue = <<>> /\ Probing = {}
    BY <1>b, <2>1, NothingUnderWay
  <2>3. /\ answer' = [answer EXCEPT ![t] = Pending] /\ requests' = Append(<<>>, t)
        /\ UNCHANGED <<toApp, rxQueue, probes>>
        /\ answer \in [Task -> Message \cup {Unasked, Pending, Cancelled}]
    BY <1>1, <2>2 DEF Find, daemonVars, TypeOK
  <2>4. Waiting' = {t}
    BY <2>1, <2>3 DEF Waiting
  <2>5. Elements(requests') = {t}
    <3>1. Elements(<<>>) = {} /\ <<>> \in Seq(Task)
      BY DEF Elements
    <3>2. Append(<<>>, t) = <<t>> /\ Len(<<t>>) = 1 /\ <<t>>[1] = t
      BY <3>1
    <3> QED
      BY <2>3, <3>2 DEF Elements
  <2>6. Probing' = {} /\ Elements(toApp') = {} /\ Elements(rxQueue') = {}
    BY <2>2, <2>3 DEF Probing, Elements
  <2>7. AloneInv'
    BY <1>a, <2>4, <2>5, <2>6 DEF AloneInv, Elements
  <2>8. AnswersAreOwn'
    BY <1>a, <2>3, NameAssumption DEF AnswersAreOwn
  <2> QED
    BY <2>7, <2>8
<1>2. CASE Receive
  <2>1. /\ toApp # <<>> /\ toApp \in Seq(Message) /\ toApp' = Tail(toApp)
        /\ rxQueue \in Seq(Message) /\ rxQueue' = Append(rxQueue, Head(toApp))
        /\ UNCHANGED <<requests, probes, answer>>
    BY <1>2 DEF Receive, TypeOK, daemonVars
  <2>2. /\ Elements(toApp) = Elements(toApp') \cup {Head(toApp)}
        /\ Elements(rxQueue') = Elements(rxQueue) \cup {Head(toApp)}
    BY <2>1, TailElements, AppendElements
  <2>3. Elements(requests)' = Elements(requests) /\ Probing' = Probing
    BY <2>1 DEF Elements, Probing
  <2>4. Elements(toApp)' = Elements(toApp') /\ Elements(rxQueue)' = Elements(rxQueue')
    BY DEF Elements
  <2> QED
    BY <1>b, <1>d, <2>1, <2>2, <2>3, <2>4
<1>3. CASE Resume
  <2>1. CASE rxQueue = <<>>
    <3>1. UNCHANGED <<requests, toApp, probes, rxQueue, answer>>
      BY <1>3, <2>1 DEF Resume, daemonVars
    <3>2. /\ Elements(requests)' = Elements(requests) /\ Probing' = Probing
          /\ Elements(toApp)' = Elements(toApp) /\ Elements(rxQueue)' = Elements(rxQueue)
      BY <3>1 DEF Elements, Probing
    <3> QED
      BY <1>b, <1>d, <3>1, <3>2
  <2>2. CASE rxQueue # <<>>
    <3> DEFINE t == Head(woken)
    <3>1. t \in Waiting
      <4>1. woken \in Seq(Task) /\ woken # <<>> /\ Elements(woken) \subseteq Waiting
        BY <1>3 DEF Resume, TypeOK, QueueInv
      <4> QED
        BY <4>1, TailElements
    <3>2. /\ answer' = [answer EXCEPT ![t] = Head(rxQueue)]
          /\ answer \in [Task -> Message \cup {Unasked, Pending, Cancelled}]
      BY <1>3, <2>2 DEF Resume, TypeOK
    <3>3. Head(rxQueue) \in Message /\ Head(rxQueue) \in Elements(rxQueue)
      BY <2>2, TailElements DEF TypeOK
    <3> HIDE DEF t
    <3>4. Waiting' = {}
      BY <1>b, <3>1, <3>2, <3>3, AnswerNames DEF Waiting
    <3>5. Head(rxQueue) \in Matches[t] \cup {Failure}
      BY <1>b, <3>1, <3>3
    <3>6. AnswersAreOwn'
      BY <1>a, <3>1, <3>2, <3>5, AnswerNames DEF AnswersAreOwn
    <3> QED
      BY <1>c, <3>4, <3>6
  <2> QED
    BY <2>1, <2>2
<1>4. ASSUME NEW t \in Task, Cancel(t) PROVE FALSE
  BY <1>4, <1>a DEF Cancel
<1>5. CASE Handle
  <2> DEFINE t == Head(requests)
  <2>1. /\ requests \in Seq(Task) /\ requests # <<>> /\ requests' = Tail(requests)
        /\ toApp \in Seq(Message) /\ probes \in [Task -> 0..Attempts]
        /\ UNCHANGED <<rxQueue, answer>>
    BY <1>5 DEF Handle, TypeOK, appVars
  <2>2. t \in Task /\ Elements(requests) = Elements(requests') \cup {t}
    BY <2>1, TailElements
  <2>3. t \in Waiting
    BY <1>b, <2>2
  <2>4. Elements(rxQueue)' = Elements(rxQueue) /\ Elements(requests)' = Elements(requests')
    BY <2>1 DEF Elements
  <2>5. CASE UNCHANGED probes
    <3>1. PICK s \in (found \cup offered) \cap Matches[t] : toApp' = Append(toApp, s)
      <4>1. probes[t] = 0
        BY <2>2 DEF QueueInv
      <4> QED
        BY <1>5, <2>1, <2>2, <2>5, <4>1, BoundAssumption DEF Handle
    <3>2. s \in Message
      BY DEF Message, Service, TypeOK
    <3>3. Elements(toApp)' = Elements(toApp) \cup {s}
      <4>1. Elements(Append(toApp, s)) = Elements(toApp) \cup {s}
        BY <2>1, <3>2, AppendElements
      <4> QED
        BY <3>1, <4>1 DEF Elements
    <3>4. Probing' = Probing
      BY <2>5 DEF Probing
    <3>5. \A u \in Waiting : s \in Matches[u]
      BY <1>b, <2>3, <3>1
    <3> QED
      BY <1>b, <1>d, <2>1, <2>2, <2>4, <3>3, <3>4, <3>5
  <2>6. CASE probes' = [probes EXCEPT ![t] = Attempts] /\ UNCHANGED toApp
    <3> HIDE DEF t
    <3>1. Probing' \subseteq Probing \cup {t}
      BY <2>1, <2>2, <2>6 DEF Probing
    <3>2. Elements(toApp)' = Elements(toApp)
      BY <2>6 DEF Elements
    <3> QED
      BY <1>b, <1>d, <2>1, <2>2, <2>3, <2>4, <3>1, <3>2
  <2> QED
    BY <1>5, <2>5, <2>6 DEF Handle
<1>6. ASSUME NEW t \in Task, Poll(t) PROVE AloneInv' /\ AnswersAreOwn'
  <2>1. /\ probes[t] \in 1..Attempts /\ probes \in [Task -> 0..Attempts]
        /\ toApp \in Seq(Message) /\ UNCHANGED <<requests, rxQueue, answer>>
    BY <1>6, BoundAssumption DEF Poll, TypeOK, appVars
  <2>2. t \in Waiting
    BY <1>b, <2>1 DEF Probing
  <2>3. Probing' \subseteq Probing
    <3>1. probes' = [probes EXCEPT ![t] = 0] \/ probes' = [probes EXCEPT ![t] = @ - 1]
      BY <1>6 DEF Poll
    <3> QED
      BY <2>1, <3>1 DEF Probing
  <2>4. Elements(toApp)' \subseteq Elements(toApp) \cup Matches[t] \cup {Failure}
    <3>1. CASE UNCHANGED toApp
      BY <3>1 DEF Elements
    <3>2. ASSUME NEW x \in (found \cap Matches[t]) \cup {Failure}, toApp' = Append(toApp, x)
          PROVE  Elements(toApp)' \subseteq Elements(toApp) \cup Matches[t] \cup {Failure}
      <4>1. x \in Message
        BY AnswerNames DEF Message, Service, TypeOK
      <4>2. Elements(Append(toApp, x)) = Elements(toApp) \cup {x}
        BY <2>1, <4>1, AppendElements
      <4> QED
        BY <3>2, <4>2 DEF Elements
    <3> QED
      BY <1>6, <3>1, <3>2 DEF Poll
  <2>5. Elements(rxQueue)' = Elements(rxQueue) /\ Elements(requests)' = Elements(requests)
    BY <2>1 DEF Elements
  <2>6. \A u \in Waiting : u = t
    BY <1>b, <2>2
  <2> QED
    BY <1>b, <1>d, <2>1, <2>3, <2>4, <2>5, <2>6
<1>7. CASE ForwardSubscription
  BY <1>7, <1>a DEF ForwardSubscription
<1>8. CASE ConnectionEnds
  <2>1. /\ requests' = <<>> /\ toApp' = <<>> /\ probes' = [t \in Task |-> 0]
        /\ UNCHANGED <<answer, rxQueue>>
    BY <1>8 DEF ConnectionEnds, appVars
  <2>2. /\ Elements(requests)' = {} /\ Elements(toApp)' = {} /\ Probing' = {}
        /\ Elements(rxQueue)' = Elements(rxQueue)
    BY <2>1 DEF Elements, Probing
  <2> QED
    BY <1>b, <1>d, <2>1, <2>2
<1>9. ASSUME UNCHANGED <<requests, toApp, rxQueue, answer, probes>>
      PROVE  AloneInv' /\ AnswersAreOwn'
  <2>1. /\ Elements(requests)' = Elements(requests) /\ Probing' = Probing
        /\ Elements(toApp)' = Elements(toApp) /\ Elements(rxQueue)' = Elements(rxQueue)
    BY <1>9 DEF Elements, Probing
  <2> QED
    BY <1>b, <1>d, <1>9, <2>1
<1>10. ASSUME NEW s \in Remote, FoundChanges(s) PROVE AloneInv' /\ AnswersAreOwn'
  BY <1>9, <1>10 DEF FoundChanges, appVars
<1>11. ASSUME NEW s \in Local, OfferedChanges(s) PROVE AloneInv' /\ AnswersAreOwn'
  BY <1>9, <1>11 DEF OfferedChanges, appVars
<1>12. CASE ReceiveEnds \/ HoldsUp \/ GoesOn
  BY <1>9, <1>12 DEF ReceiveEnds, HoldsUp, GoesOn, appVars, daemonVars
<1>13. CASE UNCHANGED vars
  BY <1>9, <1>13 DEF vars, appVars, daemonVars
<1> QED
  BY <1>1, <1>2, <1>3, <1>4, <1>5, <1>6, <1>7, <1>8, <1>10, <1>11, <1>12, <1>13 DEF Next

\* Finds that are made one after the other, undisturbed, get their own answers,
\* though nothing in an answer says what it answers: there is never more than one
\* under way.
THEOREM OwnAnswers == Spec => []AnswersAreOwn
<1>1. QED
  BY InitType, InitAlone, NextType, NextAlone, PTL DEF Spec
=============================================================================
