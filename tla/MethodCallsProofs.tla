-------------------------- MODULE MethodCallsProofs --------------------------
(***************************************************************************)
(* Method calls, for any applications, instances, sessions and restarts.   *)
(***************************************************************************)
EXTENDS MethodCalls, TLAPS

LEMMA SessionType == Session \subseteq Nat
BY BoundAssumption DEF Session

LEMMA LifeType == Life \subseteq Nat
BY BoundAssumption DEF Life

LEMMA AnyLife == ASSUME NEW a \in App PROVE 0..MaxRestarts[a] \subseteq Life
BY DEF Life

\* The message of a call that an instance makes.
LEMMA MessageType ==
  ASSUME TypeOK, NEW i \in Instance, NEW s \in Session
  PROVE  [key |-> KeyOf[i], session |-> s, port |-> PortOf[i],
          of |-> [instance |-> i, life |-> life[AppOf[i]], session |-> s]] \in Message
BY AppAssumption, KeyAssumption DEF TypeOK, Message, Call

LEMMA InitType == Init => TypeOK
BY AnyLife, BoundAssumption DEF Init, TypeOK, CallState

LEMMA MoveCallType ==
  ASSUME TypeOK, NEW i \in Instance, NEW s \in Session, NEW from, NEW to \in CallState,
         MoveCall(i, s, from, to)
  PROVE  TypeOK'
BY DEF MoveCall, TypeOK

LEMMA NextType == TypeOK /\ [Next]_vars => TypeOK'
<1> SUFFICES ASSUME TypeOK, [Next]_vars PROVE TypeOK'
  OBVIOUS
<1> USE DEF TypeOK
<1>1. ASSUME NEW i \in Instance, CallMethod(i) PROVE TypeOK'
  <2>1. PICK s \in Session, m \in Message :
          /\ calls' = [calls EXCEPT ![i][s] = "waiting"]
          /\ toDaemon' = [toDaemon EXCEPT ![AppOf[i]] = Append(@, m)]
          /\ UNCHANGED <<life, result, issued, sent, toApp, deaf>>
    BY <1>1, MessageType DEF CallMethod
  <2>2. calls' \in [Instance -> [Session -> CallState]]
    BY <2>1 DEF CallState
  <2>3. toDaemon' \in [App -> Seq(Message)]
    <3>1. AppOf[i] \in App /\ Append(toDaemon[AppOf[i]], m) \in Seq(Message)
      BY AppAssumption
    <3>2. QED
      BY <2>1, <3>1
  <2>4. QED
    BY <2>1, <2>2, <2>3
<1>2. ASSUME NEW i \in Instance, NEW s \in Session,
             Return(i, s) \/ Expire(i, s) \/ TimeOut(i, s) \/ Abandon(i, s)
      PROVE  TypeOK'
  BY <1>2, MoveCallType DEF Return, Expire, TimeOut, Abandon, CallState
<1>3. ASSUME NEW a \in App, Receive(a) PROVE TypeOK'
  <2>1. Head(toApp[a]) \in Message /\ Tail(toApp[a]) \in Seq(Message)
    BY <1>3 DEF Receive
  <2>2. PICK R \in SUBSET Instance :
          /\ calls' = [i \in Instance |->
               IF i \in R THEN [calls[i] EXCEPT ![Head(toApp[a]).session] = "resolved"]
               ELSE calls[i]]
          /\ result' = [i \in Instance |->
               IF i \in R THEN [result[i] EXCEPT ![Head(toApp[a]).session] = Head(toApp[a]).of]
               ELSE result[i]]
          /\ deaf' \in {deaf, deaf \cup {a}}
    BY <1>3 DEF Receive, Holders
  <2>3. calls' \in [Instance -> [Session -> CallState]]
    BY <2>1, <2>2 DEF CallState
  <2>4. result' \in [Instance -> [Session -> Call \cup {NoAnswer}]]
    BY <2>1, <2>2 DEF Message
  <2>5. QED
    BY <1>3, <2>1, <2>2, <2>3, <2>4 DEF Receive
<1>4. ASSUME NEW a \in App, Restart(a) PROVE TypeOK'
  <2>1. life[a] + 1 \in Life
    <3>1. life[a] \in Nat /\ MaxRestarts[a] \in Nat /\ life[a] < MaxRestarts[a]
      BY <1>4, LifeType, BoundAssumption DEF Restart
    <3>2. QED
      BY <3>1, AnyLife
  <2>2. life' \in [App -> Life]
    BY <1>4, <2>1 DEF Restart
  <2>3. issued' \subseteq Entry
    <3>1. ASSUME NEW e \in Entry
          PROVE  [e EXCEPT !.app = IF @ = a THEN Gone ELSE @] \in Entry
      BY DEF Entry
    <3>2. QED
      BY <1>4, <3>1 DEF Restart
  <2>4. calls' \in [Instance -> [Session -> CallState]]
    BY <1>4 DEF Restart, CallState
  <2>5. result' \in [Instance -> [Session -> Call \cup {NoAnswer}]]
    BY <1>4 DEF Restart
  <2>6. QED
    BY <1>4, <2>2, <2>3, <2>4, <2>5 DEF Restart
<1>5. ASSUME NEW a \in App, Forward(a) PROVE TypeOK'
  <2>1. Head(toDaemon[a]) \in Message /\ Tail(toDaemon[a]) \in Seq(Message)
    BY <1>5 DEF Forward
  <2>2. Issue(a, Head(toDaemon[a])) \subseteq Entry
    BY <2>1 DEF Issue, Entry, Message
  <2>3. QED
    BY <1>5, <2>1, <2>2 DEF Forward
<1>6. ASSUME NEW m \in sent, ResponseArrives(m) PROVE TypeOK'
  <2>1. toApp' \in [App -> Seq(Message)]
    BY <1>6 DEF ResponseArrives
  <2>2. QED
    BY <1>6, <2>1 DEF ResponseArrives, EntriesWithout
<1>7. CASE UNCHANGED vars
  BY <1>7 DEF vars
<1>8. QED
  BY <1>1, <1>2, <1>3, <1>4, <1>5, <1>6, <1>7 DEF Next

\* Every variable keeps its type.
THEOREM TypeCorrect == Spec => []TypeOK
<1>1. QED
  BY InitType, NextType, PTL DEF Spec
-----------------------------------------------------------------------------
(* Calls get their own results.                                            *)

\* Instances that call the same method with the same client id are in different
\* applications and call from different ports.
NoSiblings ==
  \A i, j \in Instance : i # j /\ KeyOf[i] = KeyOf[j] => /\ AppOf[i] # AppOf[j]
                                                       /\ PortOf[i] # PortOf[j]

\* What a message says of its call is true.
Genuine(m) ==
  /\ m.key = KeyOf[m.of.instance]
  /\ m.port = PortOf[m.of.instance]
  /\ m.session = m.of.session

\* Every message between an application and the daemon is about one of its calls,
\* and every entry of an application is about one of its instances.
OwnInv ==
  /\ \A a \in App : \A n \in 1..Len(toDaemon[a]) :
       Genuine(toDaemon[a][n]) /\ AppOf[toDaemon[a][n].of.instance] = a
  /\ \A m \in sent : Genuine(m)
  /\ \A e \in issued : \E i \in Instance :
       e.key = KeyOf[i] /\ e.port = PortOf[i] /\ e.app \in {AppOf[i], Gone}
  /\ \A a \in App : \A n \in 1..Len(toApp[a]) :
       Genuine(toApp[a][n]) /\ AppOf[toApp[a][n].of.instance] = a
  /\ ResultIsOwn

LEMMA HeadIsFirst ==
  ASSUME NEW S, NEW q \in Seq(S), q # <<>>
  PROVE  1 \in 1..Len(q) /\ Head(q) = q[1] /\ Head(q) \in S
OBVIOUS

LEMMA InitOwn == Init => OwnInv
BY DEF Init, OwnInv, ResultIsOwn

LEMMA OwnInductive ==
  ASSUME NoSiblings, TypeOK, OwnInv, [Next]_vars
  PROVE  OwnInv'
<1> USE DEF Message, Call
<1>1. ASSUME NEW i \in Instance, CallMethod(i) PROVE OwnInv'
  <2>1. PICK s \in Session, m \in Message :
          /\ m = [key |-> KeyOf[i], session |-> s, port |-> PortOf[i],
                  of |-> [instance |-> i, life |-> life[AppOf[i]], session |-> s]]
          /\ toDaemon' = [toDaemon EXCEPT ![AppOf[i]] = Append(@, m)]
          /\ UNCHANGED <<life, result, issued, sent, toApp, deaf>>
    BY <1>1, MessageType DEF CallMethod
  <2>2. Genuine(m) /\ AppOf[m.of.instance] = AppOf[i]
    BY <2>1 DEF Genuine
  <2>3. ASSUME NEW a \in App, NEW n \in 1..Len(toDaemon'[a])
        PROVE  \/ toDaemon'[a][n] = m /\ a = AppOf[i]
               \/ n \in 1..Len(toDaemon[a]) /\ toDaemon'[a][n] = toDaemon[a][n]
    BY <2>1 DEF TypeOK
  <2>4. \A a \in App : \A n \in 1..Len(toDaemon'[a]) :
          Genuine(toDaemon'[a][n]) /\ AppOf[toDaemon'[a][n].of.instance] = a
    BY <2>2, <2>3 DEF OwnInv
  <2>5. ResultIsOwn'
    BY <2>1 DEF OwnInv, ResultIsOwn
  <2>6. UNCHANGED <<issued, sent, toApp>>
    BY <2>1
  <2>7. QED
    BY <2>4, <2>5, <2>6 DEF OwnInv, Genuine
<1>2. ASSUME NEW i \in Instance, NEW s \in Session,
             Return(i, s) \/ Expire(i, s) \/ TimeOut(i, s) \/ Abandon(i, s)
      PROVE  OwnInv'
  BY <1>2 DEF Return, Expire, TimeOut, Abandon, MoveCall, OwnInv, ResultIsOwn, Genuine
<1>3. ASSUME NEW a \in App, Receive(a) PROVE OwnInv'
  <2> DEFINE m == Head(toApp[a])
  <2>1. m \in Message /\ Genuine(m) /\ AppOf[m.of.instance] = a
    <3>1. toApp[a] \in Seq(Message) /\ toApp[a] # <<>>
      BY <1>3 DEF Receive, TypeOK
    <3>2. 1 \in 1..Len(toApp[a]) /\ m = toApp[a][1] /\ m \in Message
      BY <3>1, HeadIsFirst
    <3>3. QED
      BY <3>2 DEF OwnInv
  <2>2. PICK R \in SUBSET Holders(a, m) :
          /\ result' = [i \in Instance |->
               IF i \in R THEN [result[i] EXCEPT ![m.session] = m.of] ELSE result[i]]
          /\ toApp' = [toApp EXCEPT ![a] = Tail(@)]
          /\ UNCHANGED <<life, toDaemon, issued, sent>>
    BY <1>3 DEF Receive
  <2>3. \A i \in R : i = m.of.instance
    BY <2>1, <2>2 DEF Holders, Genuine, NoSiblings
  <2>4. ResultIsOwn'
    <3>1. m.of.session = m.session
      BY <2>1 DEF Genuine
    <3>2. ASSUME NEW i \in Instance, NEW s \in Session
          PROVE  \/ result'[i][s] = result[i][s]
                 \/ i \in R /\ s = m.session /\ result'[i][s] = m.of
      <4>1. result[i] \in [Session -> Call \cup {NoAnswer}]
        BY DEF TypeOK
      <4> QED
        BY <2>2, <4>1
    <3> QED
      BY <2>3, <3>1, <3>2 DEF OwnInv, ResultIsOwn
  <2>5. ASSUME NEW b \in App, NEW n \in 1..Len(toApp'[b])
        PROVE  \E k \in 1..Len(toApp[b]) : toApp'[b][n] = toApp[b][k]
    <3>1. CASE b = a
      <4>1. toApp'[b] = Tail(toApp[b]) /\ toApp[b] \in Seq(Message) /\ toApp[b] # <<>>
        BY <1>3, <2>2, <3>1 DEF TypeOK, Receive
      <4>2. n + 1 \in 1..Len(toApp[b]) /\ toApp'[b][n] = toApp[b][n + 1]
        BY <4>1
      <4>3. QED
        BY <4>2
    <3>2. CASE b # a
      BY <2>2, <3>2 DEF TypeOK
    <3>3. QED
      BY <3>1, <3>2
  <2>6. QED
    BY <2>2, <2>4, <2>5 DEF OwnInv, Genuine
<1>4. ASSUME NEW a \in App, Restart(a) PROVE OwnInv'
  <2>1. ASSUME NEW e \in issued'
        PROVE  \E i \in Instance :
                 e.key = KeyOf[i] /\ e.port = PortOf[i] /\ e.app \in {AppOf[i], Gone}
    <3>1. PICK d \in issued : /\ e.key = d.key /\ e.port = d.port
                              /\ e.app \in {d.app, Gone}
      <4>1. CASE issued' = issued
        BY <4>1
      <4>2. CASE issued' = {[d EXCEPT !.app = IF @ = a THEN Gone ELSE @] : d \in issued}
        <5>1. PICK d \in issued : e = [d EXCEPT !.app = IF @ = a THEN Gone ELSE @]
          BY <4>2
        <5>2. d \in [key : Key, session : Session, port : Port, app : App \cup {Gone}]
          BY DEF TypeOK, Entry
        <5>3. e.key = d.key /\ e.port = d.port /\ e.app = IF d.app = a THEN Gone ELSE d.app
          BY <5>1, <5>2
        <5>4. QED
          BY <5>3
      <4>3. QED
        BY <1>4, <4>1, <4>2 DEF Restart
    <3>2. QED
      BY <3>1 DEF OwnInv
  <2>2. \A b \in App : /\ toDaemon'[b] \in {toDaemon[b], <<>>}
                       /\ toApp'[b] \in {toApp[b], <<>>}
    BY <1>4 DEF Restart, TypeOK
  <2>3. ResultIsOwn'
    BY <1>4 DEF Restart, OwnInv, ResultIsOwn, TypeOK
  <2>4. sent' = sent
    BY <1>4 DEF Restart
  <2>5. QED
    BY <2>1, <2>2, <2>3, <2>4 DEF OwnInv, Genuine
<1>5. ASSUME NEW a \in App, Forward(a) PROVE OwnInv'
  <2> DEFINE m == Head(toDaemon[a])
  <2>1. m \in Message /\ Genuine(m) /\ AppOf[m.of.instance] = a
    <3>1. toDaemon[a] \in Seq(Message) /\ toDaemon[a] # <<>>
      BY <1>5 DEF Forward, TypeOK
    <3>2. 1 \in 1..Len(toDaemon[a]) /\ m = toDaemon[a][1] /\ m \in Message
      BY <3>1, HeadIsFirst
    <3>3. QED
      BY <3>2 DEF OwnInv
  <2>2. \A e \in issued' : \E i \in Instance :
          e.key = KeyOf[i] /\ e.port = PortOf[i] /\ e.app \in {AppOf[i], Gone}
    <3>1. \A e \in issued' :
            \/ e \in issued
            \/ e = [key |-> m.key, session |-> m.session, port |-> m.port, app |-> a]
      BY <1>5 DEF Forward, Issue
    <3>2. /\ m.of.instance \in Instance
          /\ m.key = KeyOf[m.of.instance] /\ m.port = PortOf[m.of.instance]
          /\ a = AppOf[m.of.instance]
      BY <2>1 DEF Genuine
    <3> QED
      BY <3>1, <3>2 DEF OwnInv
  <2>3. \A x \in sent' : Genuine(x)
    BY <1>5, <2>1 DEF Forward, OwnInv
  <2>4. ASSUME NEW b \in App, NEW n \in 1..Len(toDaemon'[b])
        PROVE  \E k \in 1..Len(toDaemon[b]) : toDaemon'[b][n] = toDaemon[b][k]
    <3>1. CASE b = a
      <4>1. toDaemon'[b] = Tail(toDaemon[b]) /\ toDaemon[b] \in Seq(Message) /\ toDaemon[b] # <<>>
        BY <1>5, <3>1 DEF TypeOK, Forward
      <4>2. n + 1 \in 1..Len(toDaemon[b]) /\ toDaemon'[b][n] = toDaemon[b][n + 1]
        BY <4>1
      <4>3. QED
        BY <4>2
    <3>2. CASE b # a
      BY <1>5, <3>2 DEF TypeOK, Forward
    <3>3. QED
      BY <3>1, <3>2
  <2>5. UNCHANGED <<result, toApp>>
    BY <1>5 DEF Forward
  <2>6. \A b \in App : \A n \in 1..Len(toDaemon'[b]) :
          Genuine(toDaemon'[b][n]) /\ AppOf[toDaemon'[b][n].of.instance] = b
    BY <2>4 DEF OwnInv
  <2>7. ResultIsOwn'
    BY <2>5 DEF OwnInv, ResultIsOwn
  <2>8. QED
    BY <2>2, <2>3, <2>5, <2>6, <2>7 DEF OwnInv, Genuine
<1>6. ASSUME NEW m \in sent, ResponseArrives(m) PROVE OwnInv'
  <2>1. m \in Message /\ Genuine(m)
    BY DEF TypeOK, OwnInv
  <2>2. ASSUME NEW a \in App, NEW e \in issued, SameCall(e, m), e.app = a
        PROVE  AppOf[m.of.instance] = a
    <3>1. PICK i \in Instance : e.key = KeyOf[i] /\ e.port = PortOf[i] /\ e.app = AppOf[i]
      BY <2>2, GoneAssumption DEF OwnInv
    <3>2. i = m.of.instance
      BY <2>1, <2>2, <3>1 DEF SameCall, Genuine, NoSiblings
    <3>3. QED
      BY <2>2, <3>1, <3>2
  <2>3. ASSUME NEW a \in App, NEW n \in 1..Len(toApp'[a])
        PROVE  Genuine(toApp'[a][n]) /\ AppOf[toApp'[a][n].of.instance] = a
    <3>1. CASE \E e \in issued : SameCall(e, m) /\ e.app = a
      <4>1. toApp'[a] = Append(toApp[a], m) /\ toApp[a] \in Seq(Message)
        BY <1>6, <3>1 DEF ResponseArrives, TypeOK
      <4>2. \/ toApp'[a][n] = m
            \/ n \in 1..Len(toApp[a]) /\ toApp'[a][n] = toApp[a][n]
        BY <4>1
      <4>3. QED
        BY <2>1, <2>2, <3>1, <4>2 DEF OwnInv
    <3>2. CASE ~\E e \in issued : SameCall(e, m) /\ e.app = a
      BY <1>6, <3>2 DEF ResponseArrives, OwnInv
    <3>3. QED
      BY <3>1, <3>2
  <2>4. issued' \subseteq issued /\ UNCHANGED <<result, toDaemon, sent>>
    BY <1>6 DEF ResponseArrives, EntriesWithout
  <2>5. ResultIsOwn'
    BY <2>4 DEF OwnInv, ResultIsOwn
  <2>6. QED
    BY <2>3, <2>4, <2>5 DEF OwnInv, Genuine
<1>7. CASE UNCHANGED vars
  BY <1>7 DEF vars, OwnInv, ResultIsOwn, Genuine
<1>8. QED
  BY <1>1, <1>2, <1>3, <1>4, <1>5, <1>6, <1>7 DEF Next

\* A call returns the response to itself, unless instances of one application, or
\* at one port, call the same method with the same client id.
THEOREM ResultsAreOwn == ASSUME NoSiblings PROVE Spec => []ResultIsOwn
<1>1. TypeOK /\ OwnInv /\ [Next]_vars => OwnInv'
  BY OwnInductive
<1>2. OwnInv => ResultIsOwn
  BY DEF OwnInv
<1>3. QED
  BY <1>1, <1>2, InitOwn, TypeCorrect, PTL DEF Spec
-----------------------------------------------------------------------------
(* Calls that wait are not forgotten.                                      *)

AtDaemon(i, s) ==
  \E n \in 1..Len(toDaemon[AppOf[i]]) : /\ toDaemon[AppOf[i]][n].of.instance = i
                                       /\ toDaemon[AppOf[i]][n].session = s

IsIssued(i, s) ==
  \E e \in issued : e.key = KeyOf[i] /\ e.session = s /\ e.port = PortOf[i] /\ e.app = AppOf[i]

IsAnswered(i, s) ==
  \E n \in 1..Len(toApp[AppOf[i]]) : /\ toApp[AppOf[i]][n].key = KeyOf[i]
                                    /\ toApp[AppOf[i]][n].session = s

Tracked(i, s) ==
  AtDaemon(i, s) \/ IsIssued(i, s) \/ IsAnswered(i, s) \/ AppOf[i] \in deaf

LEMMA TrackedMeans ==
  WaitingIsTracked <=> \A i \in Instance, s \in Session :
                         calls[i][s] = "waiting" => Tracked(i, s)
BY DEF WaitingIsTracked, Tracked, AtDaemon, IsIssued, IsAnswered

\* What is appended keeps what was there; taking the head keeps what is behind.
LEMMA AppendKeeps ==
  ASSUME NEW S, NEW q \in Seq(S), NEW x \in S, NEW n \in 1..Len(q)
  PROVE  n \in 1..Len(Append(q, x)) /\ Append(q, x)[n] = q[n]
OBVIOUS

LEMMA TailKeeps ==
  ASSUME NEW S, NEW q \in Seq(S), q # <<>>, NEW n \in 1..Len(q)
  PROVE  \/ q[n] = Head(q)
         \/ n - 1 \in 1..Len(Tail(q)) /\ Tail(q)[n - 1] = q[n]
<1>1. CASE n = 1
  BY <1>1
<1>2. CASE n # 1
  BY <1>2
<1>3. QED
  BY <1>1, <1>2

LEMMA TrackedInductive ==
  ASSUME NoSiblings, TypeOK, OwnInv, [Next]_vars,
         NEW i \in Instance, NEW s \in Session,
         calls[i][s] = "waiting" => Tracked(i, s),
         calls'[i][s] = "waiting"
  PROVE  Tracked(i, s)'
<1> DEFINE b == AppOf[i]
<1>0. /\ b \in App
      /\ toDaemon[b] \in Seq(Message) /\ toApp[b] \in Seq(Message)
  BY AppAssumption DEF TypeOK
<1>1. ASSUME NEW j \in Instance, CallMethod(j) PROVE Tracked(i, s)'
  <2>1. PICK t \in Session, m \in Message :
          /\ m = [key |-> KeyOf[j], session |-> t, port |-> PortOf[j],
                  of |-> [instance |-> j, life |-> life[AppOf[j]], session |-> t]]
          /\ calls' = [calls EXCEPT ![j][t] = "waiting"]
          /\ toDaemon' = [toDaemon EXCEPT ![AppOf[j]] = Append(@, m)]
          /\ UNCHANGED <<issued, toApp, deaf>>
    BY <1>1, MessageType DEF CallMethod
  <2>2. CASE i = j /\ s = t
    <3>1. toDaemon'[b] = Append(toDaemon[b], m)
      BY <1>0, <2>1, <2>2 DEF TypeOK
    <3>2. /\ Len(toDaemon[b]) + 1 \in 1..Len(toDaemon'[b])
          /\ toDaemon'[b][Len(toDaemon[b]) + 1] = m
      BY <1>0, <3>1
    <3>3. m.of.instance = i /\ m.session = s
      BY <2>1, <2>2
    <3>4. QED
      BY <3>2, <3>3 DEF Tracked, AtDaemon
  <2>3. CASE ~(i = j /\ s = t)
    <3>1. Tracked(i, s)
      BY <2>1, <2>3 DEF TypeOK
    <3>2. CASE AtDaemon(i, s)
      <4>1. toDaemon'[b] \in {toDaemon[b], Append(toDaemon[b], m)}
        BY <1>0, <2>1 DEF TypeOK
      <4>2. \A n \in 1..Len(toDaemon[b]) :
              n \in 1..Len(toDaemon'[b]) /\ toDaemon'[b][n] = toDaemon[b][n]
        BY <1>0, <4>1, AppendKeeps
      <4>3. QED
        BY <3>2, <4>2 DEF AtDaemon, Tracked
    <3>3. QED
      BY <2>1, <3>1, <3>2 DEF Tracked, IsIssued, IsAnswered
  <2>4. QED
    BY <2>2, <2>3
<1>2. ASSUME NEW j \in Instance, NEW t \in Session,
             Return(j, t) \/ Expire(j, t) \/ TimeOut(j, t) \/ Abandon(j, t)
      PROVE  Tracked(i, s)'
  <2>1. calls[i][s] = "waiting" /\ UNCHANGED <<toDaemon, issued, toApp, deaf>>
    <3>1. PICK from, to \in CallState \ {"waiting"} : MoveCall(j, t, from, to)
                                                   \/ MoveCall(j, t, "waiting", to)
      BY <1>2 DEF Return, Expire, TimeOut, Abandon, CallState
    <3>2. calls' = [calls EXCEPT ![j][t] = to] /\ UNCHANGED <<toDaemon, issued, toApp, deaf>>
      BY <3>1 DEF MoveCall
    <3>3. calls[i][s] = "waiting"
      BY <3>1, <3>2 DEF TypeOK
    <3>4. QED
      BY <3>2, <3>3
  <2>2. QED
    BY <2>1 DEF Tracked, AtDaemon, IsIssued, IsAnswered
<1>3. ASSUME NEW a \in App, Receive(a) PROVE Tracked(i, s)'
  <2> DEFINE m    == Head(toApp[a])
             done == {j \in Holders(a, m) : calls[j][m.session] # "waiting"}
             open == Holders(a, m) \ done
  <2>1. PICK R \in SUBSET open :
          /\ done = {} => R = open
          /\ calls' = [j \in Instance |->
               IF j \in R THEN [calls[j] EXCEPT ![m.session] = "resolved"] ELSE calls[j]]
          /\ deaf' = IF done = {} THEN deaf ELSE deaf \cup {a}
          /\ toApp' = [toApp EXCEPT ![a] = Tail(@)]
          /\ UNCHANGED <<toDaemon, issued>>
    BY <1>3 DEF Receive
  <2>2. m \in Message
    BY <1>3 DEF Receive, TypeOK
  <2>3. calls[i][s] = "waiting"
    BY <2>1, <2>2 DEF TypeOK, Message
  <2>4. CASE IsAnswered(i, s) /\ b = a /\ done = {}
    <3>1. PICK n \in 1..Len(toApp[b]) : toApp[b][n].key = KeyOf[i] /\ toApp[b][n].session = s
      BY <2>4 DEF IsAnswered
    <3>2. toApp'[b] = Tail(toApp[b]) /\ toApp[b] # <<>>
      BY <1>0, <1>3, <2>1, <2>4 DEF TypeOK, Receive
    <3>3. CASE toApp[b][n] = m
      <4>1. i \in R
        BY <2>1, <2>3, <2>4, <3>1, <3>3 DEF Holders, InTable
      <4>2. calls'[i][s] = "resolved"
        BY <2>1, <3>1, <3>3, <4>1 DEF TypeOK
      <4>3. QED
        BY <4>2
    <3>4. CASE n - 1 \in 1..Len(Tail(toApp[b])) /\ Tail(toApp[b])[n - 1] = toApp[b][n]
      BY <3>1, <3>2, <3>4 DEF Tracked, IsAnswered
    <3>5. QED
      BY <1>0, <2>4, <3>2, <3>3, <3>4, TailKeeps
  <2>5. CASE b = a /\ done # {}
    BY <2>1, <2>5 DEF Tracked
  <2>6. CASE IsAnswered(i, s) /\ b # a
    <3>1. toApp'[b] = toApp[b]
      BY <1>0, <2>1, <2>6 DEF TypeOK
    <3>2. QED
      BY <2>6, <3>1 DEF Tracked, IsAnswered
  <2>7. CASE ~IsAnswered(i, s)
    BY <2>1, <2>3, <2>7 DEF Tracked, AtDaemon, IsIssued
  <2>8. QED
    BY <2>4, <2>5, <2>6, <2>7
<1>4. ASSUME NEW a \in App, Restart(a) PROVE Tracked(i, s)'
  <2>1. b # a /\ calls[i][s] = "waiting"
    BY <1>4 DEF Restart, TypeOK
  <2>2. toDaemon'[b] = toDaemon[b] /\ toApp'[b] = toApp[b] /\ (b \in deaf => b \in deaf')
    BY <1>0, <1>4, <2>1 DEF Restart, TypeOK
  <2>3. ASSUME NEW e \in issued, e.app = b PROVE e \in issued'
    <3>1. CASE issued' = issued
      BY <3>1
    <3>2. CASE issued' = {[d EXCEPT !.app = IF @ = a THEN Gone ELSE @] : d \in issued}
      <4>1. e \in [key : Key, session : Session, port : Port, app : App \cup {Gone}]
        BY DEF TypeOK, Entry
      <4>2. e = [e EXCEPT !.app = IF @ = a THEN Gone ELSE @]
        BY <2>1, <2>3, <4>1
      <4>3. QED
        BY <3>2, <4>2
    <3>3. QED
      BY <1>4, <3>1, <3>2 DEF Restart
  <2>4. QED
    BY <2>1, <2>2, <2>3 DEF Tracked, AtDaemon, IsIssued, IsAnswered
<1>5. ASSUME NEW a \in App, Forward(a) PROVE Tracked(i, s)'
  <2> DEFINE m == Head(toDaemon[a])
  <2>1. /\ toDaemon[a] \in Seq(Message) /\ toDaemon[a] # <<>>
        /\ issued' = Issue(a, m)
        /\ toDaemon' = [toDaemon EXCEPT ![a] = Tail(@)]
        /\ UNCHANGED <<calls, toApp, deaf>>
    BY <1>5 DEF Forward, TypeOK
  <2>2. m \in Message /\ Genuine(m) /\ AppOf[m.of.instance] = a
    <3>1. 1 \in 1..Len(toDaemon[a]) /\ m = toDaemon[a][1] /\ m \in Message
      BY <2>1
    <3>2. QED
      BY <3>1 DEF OwnInv
  <2>3. Tracked(i, s)
    BY <2>1
  <2>4. \E e \in issued' : /\ e.key = m.key /\ e.session = m.session
                          /\ e.port = m.port /\ e.app = a
    <3> DEFINE x == [key |-> m.key, session |-> m.session, port |-> m.port, app |-> a]
    <3>1. x \in issued'
      BY <2>1 DEF Issue
    <3>2. QED
      BY <3>1
  <2>5. CASE IsIssued(i, s)
    <3>1. PICK e \in issued : /\ e.key = KeyOf[i] /\ e.session = s
                              /\ e.port = PortOf[i] /\ e.app = b
      BY <2>5 DEF IsIssued
    <3>2. CASE ~SameCall(e, m)
      BY <2>1, <3>1, <3>2 DEF Issue, Tracked, IsIssued
    <3>3. CASE SameCall(e, m)
      <4>1. i = m.of.instance
        BY <2>2, <3>1, <3>3 DEF SameCall, Genuine, NoSiblings, Message, Call
      <4>2. b = a
        BY <2>2, <4>1
      <4>3. QED
        BY <2>4, <3>1, <3>3, <4>2 DEF SameCall, Tracked, IsIssued
    <3>4. QED
      BY <3>2, <3>3
  <2>6. CASE AtDaemon(i, s)
    <3>1. PICK n \in 1..Len(toDaemon[b]) : /\ toDaemon[b][n].of.instance = i
                                           /\ toDaemon[b][n].session = s
      BY <2>6 DEF AtDaemon
    <3>2. CASE b # a
      <4>1. toDaemon'[b] = toDaemon[b]
        BY <1>0, <2>1, <3>2 DEF TypeOK
      <4>2. QED
        BY <2>6, <4>1 DEF AtDaemon, Tracked
    <3>3. CASE b = a /\ toDaemon[b][n] = m
      <4>1. m.key = KeyOf[i] /\ m.port = PortOf[i] /\ m.session = s
        BY <2>2, <3>1, <3>3 DEF Genuine
      <4>2. QED
        BY <2>4, <3>3, <4>1 DEF Tracked, IsIssued
    <3>4. CASE /\ b = a
               /\ n - 1 \in 1..Len(Tail(toDaemon[b]))
               /\ Tail(toDaemon[b])[n - 1] = toDaemon[b][n]
      <4>1. toDaemon'[b] = Tail(toDaemon[b])
        BY <1>0, <2>1, <3>4 DEF TypeOK
      <4>2. QED
        BY <3>1, <3>4, <4>1 DEF Tracked, AtDaemon
    <3>5. QED
      BY <1>0, <2>1, <3>2, <3>3, <3>4, TailKeeps
  <2>7. QED
    BY <2>1, <2>3, <2>5, <2>6 DEF Tracked, IsAnswered
<1>6. ASSUME NEW m \in sent, ResponseArrives(m) PROVE Tracked(i, s)'
  <2>1. /\ issued' = {e \in issued : ~SameCall(e, m)}
        /\ toApp' = [a \in App |->
             IF \E e \in issued : SameCall(e, m) /\ e.app = a THEN Append(toApp[a], m)
             ELSE toApp[a]]
        /\ UNCHANGED <<calls, toDaemon, deaf>>
    BY <1>6 DEF ResponseArrives, EntriesWithout
  <2>2. m \in Message
    BY DEF TypeOK
  <2>3. Tracked(i, s)
    BY <2>1
  <2>4. toApp'[b] \in {toApp[b], Append(toApp[b], m)}
    BY <1>0, <2>1
  <2>5. CASE IsIssued(i, s)
    <3>1. PICK e \in issued : /\ e.key = KeyOf[i] /\ e.session = s
                              /\ e.port = PortOf[i] /\ e.app = b
      BY <2>5 DEF IsIssued
    <3>2. CASE ~SameCall(e, m)
      BY <2>1, <3>1, <3>2 DEF Tracked, IsIssued
    <3>3. CASE SameCall(e, m)
      <4>1. toApp'[b] = Append(toApp[b], m)
        BY <1>0, <2>1, <3>1, <3>3
      <4>2. /\ Len(toApp[b]) + 1 \in 1..Len(toApp'[b])
            /\ toApp'[b][Len(toApp[b]) + 1] = m
        BY <1>0, <2>2, <4>1
      <4>3. m.key = KeyOf[i] /\ m.session = s
        BY <3>1, <3>3 DEF SameCall
      <4>4. QED
        BY <4>2, <4>3 DEF Tracked, IsAnswered
    <3>4. QED
      BY <3>2, <3>3
  <2>6. CASE IsAnswered(i, s)
    <3>1. \A n \in 1..Len(toApp[b]) :
            n \in 1..Len(toApp'[b]) /\ toApp'[b][n] = toApp[b][n]
      BY <1>0, <2>2, <2>4, AppendKeeps
    <3>2. QED
      BY <2>6, <3>1 DEF Tracked, IsAnswered
  <2>7. QED
    BY <2>1, <2>3, <2>5, <2>6 DEF Tracked, AtDaemon
<1>7. CASE UNCHANGED vars
  BY <1>7 DEF vars, Tracked, AtDaemon, IsIssued, IsAnswered
<1>8. QED
  BY <1>1, <1>2, <1>3, <1>4, <1>5, <1>6, <1>7 DEF Next

\* A call that waits is on its way to the daemon, known to it, or answered,
\* unless its application hears nothing any more: no answer, repeated, late or to
\* another call, makes the daemon forget it.
THEOREM WaitingAreTracked == ASSUME NoSiblings PROVE Spec => []WaitingIsTracked
<1>1. Init => WaitingIsTracked
  BY DEF Init, WaitingIsTracked
<1>2. TypeOK /\ OwnInv /\ WaitingIsTracked /\ [Next]_vars => WaitingIsTracked'
  <2>1. SUFFICES ASSUME TypeOK, OwnInv, WaitingIsTracked, [Next]_vars
                 PROVE  WaitingIsTracked'
    OBVIOUS
  <2>2. ASSUME NEW i \in Instance, NEW s \in Session, calls'[i][s] = "waiting"
        PROVE  Tracked(i, s)'
    BY <2>1, <2>2, TrackedMeans, TrackedInductive
  <2>3. QED
    BY <2>2 DEF WaitingIsTracked, Tracked, AtDaemon, IsIssued, IsAnswered
<1>3. TypeOK /\ OwnInv /\ [Next]_vars => OwnInv'
  BY OwnInductive
<1>4. QED
  BY <1>1, <1>2, <1>3, InitOwn, TypeCorrect, PTL DEF Spec
-----------------------------------------------------------------------------
(* What ends the receive task.                                             *)

\* The call with session s that instance i made in the present life.
MadeNow(i, s) == [instance |-> i, life |-> life[AppOf[i]], session |-> s]

\* Message m is about a call of instance i with session s, in whatever life.
About(m, i, s) == m.of.instance = i /\ m.of.session = s

\* No request and no answer comes from a life that is not yet lived, and answers
\* belong to requests that were sent.
LifeInv ==
  /\ \A a \in App : \A n \in 1..Len(toDaemon[a]) : toDaemon[a][n].of.life = life[a]
  /\ \A a \in App : \A n \in 1..Len(toApp[a]) : toApp[a][n] \in sent
  /\ \A m \in sent : m.of.life <= life[AppOf[m.of.instance]]
  /\ \A i \in Instance, s \in Session :
       result[i][s] # NoAnswer =>
         /\ result[i][s].life <= life[AppOf[i]]
         /\ \E m \in sent : m.of = result[i][s]

\* A call of the present life is in one place: on its way to the daemon, in the
\* table of the daemon, on its way back, or answered.  Nothing that the daemon could
\* still answer with, nor another answer, follows its answer.
OnceInv(i, s) ==
  LET a == AppOf[i]
  IN  /\ calls[i][s] = "none" => \A n \in 1..Len(toDaemon[a]) : ~About(toDaemon[a][n], i, s)
      /\ calls[i][s] = "none" => \A m \in sent : m.of # MadeNow(i, s)
      /\ \A n, k \in 1..Len(toDaemon[a]) :
           About(toDaemon[a][n], i, s) /\ About(toDaemon[a][k], i, s) => n = k
      /\ \A n \in 1..Len(toDaemon[a]) :
           About(toDaemon[a][n], i, s) => \A m \in sent : m.of # MadeNow(i, s)
      /\ \A n \in 1..Len(toApp[a]) : toApp[a][n].of = MadeNow(i, s) =>
           /\ ~IsIssued(i, s)
           /\ \A k \in 1..Len(toApp[a]) : k > n => ~About(toApp[a][k], i, s)
      /\ result[i][s] = MadeNow(i, s) =>
           /\ ~IsIssued(i, s)
           /\ \A k \in 1..Len(toApp[a]) : ~About(toApp[a][k], i, s)
      /\ calls[i][s] \in {"none", "waiting"} => result[i][s] = NoAnswer
      /\ calls[i][s] = "resolved" => result[i][s] # NoAnswer

AllOnce == \A i \in Instance, s \in Session : OnceInv(i, s)

\* OnceInv is about the application of i, its calls with session s and what was sent.
LEMMA OnceStays ==
  ASSUME NEW i, NEW s, OnceInv(i, s), sent' = sent,
         MadeNow(i, s)' = MadeNow(i, s), IsIssued(i, s)' => IsIssued(i, s),
         calls'[i][s] = calls[i][s], result'[i][s] = result[i][s],
         toDaemon'[AppOf[i]] = toDaemon[AppOf[i]], toApp'[AppOf[i]] = toApp[AppOf[i]]
  PROVE  OnceInv(i, s)'
<1> HIDE DEF MadeNow, IsIssued
<1> QED
  BY DEF OnceInv, About

LEMMA NoAnswerIsNone ==
  ASSUME NEW i, NEW s PROVE MadeNow(i, s) # NoAnswer
<1>1. "life" \in DOMAIN MadeNow(i, s) /\ "life" \notin DOMAIN NoAnswer
  BY DEF MadeNow, NoAnswer
<1>2. QED
  BY <1>1

LEMMA InitOnce == Init => LifeInv /\ AllOnce
<1> SUFFICES ASSUME Init PROVE LifeInv /\ AllOnce
  OBVIOUS
<1>1. LifeInv
  BY DEF Init, LifeInv
<1>2. ASSUME NEW i \in Instance, NEW s \in Session PROVE OnceInv(i, s)
  <2>1. /\ toDaemon[AppOf[i]] = <<>> /\ toApp[AppOf[i]] = <<>> /\ sent = {}
        /\ result[i][s] = NoAnswer /\ calls[i][s] = "none"
    BY AppAssumption DEF Init
  <2> QED
    BY <2>1, NoAnswerIsNone DEF OnceInv
<1>3. QED
  BY <1>1, <1>2 DEF AllOnce

\* Messages of an application with one key are about one instance.
LEMMA HolderIsAsker ==
  ASSUME NoSiblings, TypeOK, OwnInv, NEW a \in App, NEW n \in 1..Len(toApp[a]),
         NEW i \in Instance, AppOf[i] = a, KeyOf[i] = toApp[a][n].key
  PROVE  /\ toApp[a][n].of.instance = i
         /\ toApp[a][n].session = toApp[a][n].of.session
<1>1. toApp[a][n] \in Message /\ Genuine(toApp[a][n]) /\ AppOf[toApp[a][n].of.instance] = a
  BY DEF OwnInv, TypeOK
<1>2. QED
  BY <1>1 DEF Genuine, Message, Call, NoSiblings

LEMMA TailShift ==
  ASSUME NEW S, NEW q \in Seq(S), q # <<>>
  PROVE  /\ Tail(q) \in Seq(S)
         /\ \A n \in 1..Len(Tail(q)) : n + 1 \in 1..Len(q) /\ n + 1 > 1 /\ Tail(q)[n] = q[n + 1]
OBVIOUS

LEMMA AppendLast ==
  ASSUME NEW S, NEW q \in Seq(S), NEW m \in S
  PROVE  /\ Len(Append(q, m)) = Len(q) + 1
         /\ \A n \in 1..Len(q) : n \in 1..Len(q) + 1 /\ Append(q, m)[n] = q[n]
         /\ Append(q, m)[Len(q) + 1] = m
         /\ \A n \in 1..Len(q) + 1 : n \in 1..Len(q) \/ n = Len(q) + 1
OBVIOUS

LEMMA LifeInductive ==
  ASSUME NoSiblings, TypeOK, OwnInv, LifeInv, [Next]_vars
  PROVE  LifeInv'
<1>t. /\ \A a \in App : life[a] \in Nat /\ toDaemon[a] \in Seq(Message) /\ toApp[a] \in Seq(Message)
      /\ \A m \in sent : m \in Message /\ m.of.life \in Nat /\ AppOf[m.of.instance] \in App
      /\ \A i \in Instance : AppOf[i] \in App
  BY LifeType, AppAssumption DEF TypeOK, Message, Call
<1>1. ASSUME NEW i \in Instance, CallMethod(i) PROVE LifeInv'
  <2>1. PICK s \in Session, m \in Message :
          /\ m = [key |-> KeyOf[i], session |-> s, port |-> PortOf[i],
                  of |-> [instance |-> i, life |-> life[AppOf[i]], session |-> s]]
          /\ toDaemon' = [toDaemon EXCEPT ![AppOf[i]] = Append(@, m)]
          /\ UNCHANGED <<life, result, issued, sent, toApp, deaf>>
    BY <1>1, MessageType DEF CallMethod
  <2>2. m.of.life = life[AppOf[i]]
    BY <2>1
  <2>3. ASSUME NEW a \in App, NEW n \in 1..Len(toDaemon'[a])
        PROVE  \/ toDaemon'[a][n] = m /\ a = AppOf[i]
               \/ n \in 1..Len(toDaemon[a]) /\ toDaemon'[a][n] = toDaemon[a][n]
    <3>1. CASE a = AppOf[i]
      <4>1. toDaemon'[a] = Append(toDaemon[a], m) /\ toDaemon[a] \in Seq(Message)
        BY <1>t, <2>1, <3>1 DEF TypeOK
      <4> QED
        BY <3>1, <4>1, AppendLast
    <3>2. CASE a # AppOf[i]
      <4>1. toDaemon'[a] = toDaemon[a]
        BY <2>1, <3>2 DEF TypeOK
      <4> QED
        BY <4>1
    <3> QED
      BY <3>1, <3>2
  <2> QED
    BY <2>1, <2>2, <2>3 DEF LifeInv
<1>2. ASSUME NEW i \in Instance, NEW s \in Session,
             Return(i, s) \/ Expire(i, s) \/ TimeOut(i, s) \/ Abandon(i, s)
      PROVE  LifeInv'
  BY <1>2 DEF Return, Expire, TimeOut, Abandon, MoveCall, LifeInv
<1>3. ASSUME NEW a \in App, Receive(a) PROVE LifeInv'
  <2> DEFINE m == Head(toApp[a])
  <2>1. /\ toApp[a] # <<>> /\ 1 \in 1..Len(toApp[a]) /\ m = toApp[a][1]
        /\ m \in sent /\ AppOf[m.of.instance] = a /\ m.of.life <= life[a] /\ m.of \in Call
    <3>1. toApp[a] # <<>>
      BY <1>3 DEF Receive
    <3>2. 1 \in 1..Len(toApp[a]) /\ m = toApp[a][1] /\ m \in Message
      BY <1>t, <3>1, HeadIsFirst
    <3> QED
      BY <3>1, <3>2 DEF LifeInv, OwnInv, Message
  <2>2. PICK R \in SUBSET Holders(a, m) :
          /\ result' = [i \in Instance |->
               IF i \in R THEN [result[i] EXCEPT ![m.session] = m.of] ELSE result[i]]
          /\ toApp' = [toApp EXCEPT ![a] = Tail(@)]
          /\ UNCHANGED <<life, toDaemon, issued, sent>>
    BY <1>3 DEF Receive
  <2>3. ASSUME NEW b \in App, NEW n \in 1..Len(toApp'[b]) PROVE toApp'[b][n] \in sent
    <3>1. CASE b = a
      BY <1>t, <2>1, <2>2, <2>3, <3>1, TailShift DEF LifeInv, TypeOK
    <3>2. CASE b # a
      BY <2>2, <3>2 DEF LifeInv, TypeOK
    <3> QED
      BY <3>1, <3>2
  <2>4. ASSUME NEW i \in Instance, NEW s \in Session, result'[i][s] # result[i][s]
        PROVE  result'[i][s] = m.of /\ AppOf[i] = a
    BY <2>2, <2>4 DEF TypeOK, Holders
  <2>5. ASSUME NEW i \in Instance, NEW s \in Session, result'[i][s] # NoAnswer
        PROVE  result'[i][s].life <= life[AppOf[i]] /\ \E x \in sent : x.of = result'[i][s]
    BY <2>1, <2>4, <2>5 DEF LifeInv
  <2> QED
    BY <2>2, <2>3, <2>5 DEF LifeInv
<1>4. ASSUME NEW a \in App, Restart(a) PROVE LifeInv'
  <2>1. /\ sent' = sent /\ \A b \in App : life[b] <= life'[b] /\ (b # a => life'[b] = life[b])
        /\ \A b \in App : life'[b] \in Nat
    BY <1>4, <1>t DEF Restart, TypeOK
  <2>2. /\ toDaemon' = [toDaemon EXCEPT ![a] = <<>>] /\ toApp' = [toApp EXCEPT ![a] = <<>>]
        /\ result' = [i \in Instance |->
             IF AppOf[i] = a THEN [s \in Session |-> NoAnswer] ELSE result[i]]
    BY <1>4 DEF Restart
  <2>3. \A b \in App : b # a => toDaemon'[b] = toDaemon[b] /\ toApp'[b] = toApp[b]
    BY <2>2 DEF TypeOK
  <2>4. toDaemon'[a] = <<>> /\ toApp'[a] = <<>>
    BY <2>2 DEF TypeOK
  <2>5. ASSUME NEW b \in App
        PROVE  /\ \A n \in 1..Len(toDaemon'[b]) : toDaemon'[b][n].of.life = life'[b]
               /\ \A n \in 1..Len(toApp'[b]) : toApp'[b][n] \in sent'
    BY <2>1, <2>3, <2>4 DEF LifeInv
  <2>6. ASSUME NEW m \in sent PROVE m.of.life <= life'[AppOf[m.of.instance]]
    <3>1. m.of.life <= life[AppOf[m.of.instance]]
      BY DEF LifeInv
    <3>2. AppOf[m.of.instance] \in App /\ m.of.life \in Nat
      BY <1>t
    <3> QED
      BY <1>t, <2>1, <3>1, <3>2
  <2>7. ASSUME NEW i \in Instance, NEW s \in Session, result'[i][s] # NoAnswer
        PROVE  result'[i][s].life <= life'[AppOf[i]] /\ \E m \in sent : m.of = result'[i][s]
    <3>1. AppOf[i] # a /\ result'[i][s] = result[i][s]
      BY <2>2, <2>7
    <3> QED
      BY <1>t, <2>1, <2>7, <3>1 DEF LifeInv
  <2> QED
    BY <2>1, <2>5, <2>6, <2>7 DEF LifeInv
<1>5. ASSUME NEW a \in App, Forward(a) PROVE LifeInv'
  <2> DEFINE m == Head(toDaemon[a])
  <2>1. toDaemon[a] # <<>> /\ sent' = sent \cup {m} /\ UNCHANGED <<life, result, toApp>>
        /\ toDaemon' = [toDaemon EXCEPT ![a] = Tail(@)]
    BY <1>5 DEF Forward
  <2>2. 1 \in 1..Len(toDaemon[a]) /\ m = toDaemon[a][1]
    BY <1>t, <2>1, HeadIsFirst
  <2>3. AppOf[m.of.instance] = a /\ m.of.life = life[a]
    BY <2>2 DEF OwnInv, LifeInv
  <2>4. ASSUME NEW b \in App, NEW n \in 1..Len(toDaemon'[b])
        PROVE  toDaemon'[b][n].of.life = life[b]
    <3>1. CASE b = a
      BY <1>t, <2>1, <2>4, <3>1, TailShift DEF LifeInv, TypeOK
    <3>2. CASE b # a
      BY <2>1, <3>2 DEF LifeInv, TypeOK
    <3> QED
      BY <3>1, <3>2
  <2> HIDE DEF m
  <2> QED
    BY <1>t, <2>1, <2>3, <2>4 DEF LifeInv
<1>6. ASSUME NEW m \in sent, ResponseArrives(m) PROVE LifeInv'
  <2>1. UNCHANGED <<life, result, toDaemon, sent>>
        /\ \A a \in App : toApp'[a] \in {toApp[a], Append(toApp[a], m)}
    BY <1>6 DEF ResponseArrives
  <2>2. ASSUME NEW a \in App, NEW n \in 1..Len(toApp'[a]) PROVE toApp'[a][n] \in sent
    <3>1. CASE toApp'[a] = Append(toApp[a], m)
      BY <1>t, <2>2, <3>1, AppendLast DEF LifeInv
    <3>2. CASE toApp'[a] = toApp[a]
      BY <3>2 DEF LifeInv
    <3> QED
      BY <2>1, <3>1, <3>2
  <2> QED
    BY <2>1, <2>2 DEF LifeInv
<1>7. CASE UNCHANGED vars
  BY <1>7 DEF vars, LifeInv
<1>8. QED
  BY <1>1, <1>2, <1>3, <1>4, <1>5, <1>6, <1>7 DEF Next

\* A request is moved from the application's connection to the servers.
LEMMA ForwardKeepsOnce ==
  ASSUME NoSiblings, TypeOK, OwnInv, LifeInv, AllOnce, NEW a \in App, Forward(a)
  PROVE  AllOnce'
<1> DEFINE m == Head(toDaemon[a])
<1>1. /\ toDaemon[a] # <<>> /\ sent' = sent \cup {m} /\ issued' = Issue(a, m)
      /\ toDaemon' = [toDaemon EXCEPT ![a] = Tail(@)]
      /\ UNCHANGED <<life, calls, result, toApp>>
  BY DEF Forward
<1>2. toDaemon[a] \in Seq(Message)
  BY DEF TypeOK
<1>3. 1 \in 1..Len(toDaemon[a]) /\ m = toDaemon[a][1] /\ m \in Message
  BY <1>1, <1>2, HeadIsFirst
<1>4. Genuine(m) /\ AppOf[m.of.instance] = a /\ m.of.life = life[a] /\ m.of \in Call
  BY <1>3 DEF OwnInv, LifeInv, Message
<1> HIDE DEF m
<1> SUFFICES ASSUME NEW i \in Instance, NEW s \in Session PROVE OnceInv(i, s)'
  BY DEF AllOnce
<1>5. OnceInv(i, s) /\ AppOf[i] \in App /\ MadeNow(i, s)' = MadeNow(i, s)
  BY <1>1, AppAssumption DEF AllOnce, MadeNow
<1>6. m.of = MadeNow(i, s) <=> About(m, i, s)
  BY <1>4 DEF MadeNow, About, Call
\* The requests that stay on their way were there, one place later.
<1>7. ASSUME NEW n \in 1..Len(toDaemon'[AppOf[i]])
      PROVE  \E k \in 1..Len(toDaemon[AppOf[i]]) :
               /\ toDaemon'[AppOf[i]][n] = toDaemon[AppOf[i]][k]
               /\ k = IF AppOf[i] = a THEN n + 1 ELSE n
  <2>1. CASE AppOf[i] = a
    <3>1. toDaemon'[a] = Tail(toDaemon[a])
      BY <1>1, <2>1 DEF TypeOK
    <3>2. n \in 1..Len(Tail(toDaemon[a]))
      BY <1>7, <2>1, <3>1
    <3>3. n + 1 \in 1..Len(toDaemon[a]) /\ Tail(toDaemon[a])[n] = toDaemon[a][n + 1]
      BY <1>1, <1>2, <3>2, TailShift
    <3> QED
      BY <2>1, <3>1, <3>3
  <2>2. CASE AppOf[i] # a
    BY <1>1, <1>5, <2>2 DEF TypeOK
  <2> QED
    BY <2>1, <2>2
<1>8. CASE About(m, i, s)
  <2>1. AppOf[i] = a /\ \A x \in sent : x.of # MadeNow(i, s)
    BY <1>3, <1>4, <1>5, <1>8 DEF About, OnceInv
  <2>2. calls[i][s] # "none"
    BY <1>3, <1>5, <1>8, <2>1 DEF OnceInv
  <2>3. \A n \in 1..Len(toDaemon'[a]) : ~About(toDaemon'[a][n], i, s)
    <3> SUFFICES ASSUME NEW n \in 1..Len(toDaemon'[a]), About(toDaemon'[a][n], i, s)
                 PROVE  FALSE
      OBVIOUS
    <3>1. n \in Nat /\ n >= 1
      OBVIOUS
    <3>2. n + 1 \in 1..Len(toDaemon[a]) /\ About(toDaemon[a][n + 1], i, s)
      BY <1>7, <2>1
    <3>3. n + 1 = 1
      BY <1>3, <1>5, <1>8, <2>1, <3>2 DEF OnceInv
    <3> QED
      BY <3>1, <3>3
  <2>4. \A n \in 1..Len(toApp[a]) : toApp[a][n].of # MadeNow(i, s)
    BY <2>1 DEF LifeInv
  <2>5. result[i][s] # MadeNow(i, s)
    BY <2>1, NoAnswerIsNone DEF LifeInv
  <2>6. UNCHANGED <<calls, result, toApp>>
    BY <1>1
  <2>7. /\ calls'[i][s] \in {"none", "waiting"} => result'[i][s] = NoAnswer
        /\ calls'[i][s] = "resolved" => result'[i][s] # NoAnswer
    BY <1>5, <2>6 DEF OnceInv
  <2> HIDE DEF MadeNow, IsIssued
  <2> QED
    BY <1>5, <2>1, <2>2, <2>3, <2>4, <2>5, <2>6, <2>7 DEF OnceInv
<1>9. CASE ~About(m, i, s)
  <2>1. IsIssued(i, s)' => IsIssued(i, s)
    <3> SUFFICES ASSUME NEW e \in issued', e.key = KeyOf[i], e.session = s,
                        e.port = PortOf[i], e.app = AppOf[i]
                 PROVE  e \in issued
      BY DEF IsIssued
    <3>1. CASE e = [key |-> m.key, session |-> m.session, port |-> m.port, app |-> a]
      <4>1. KeyOf[i] = KeyOf[m.of.instance] /\ PortOf[i] = PortOf[m.of.instance]
            /\ s = m.of.session
        BY <1>4, <3>1 DEF Genuine
      <4>2. m.of.instance \in Instance
        BY <1>4 DEF Call
      <4>3. i = m.of.instance
        BY <4>1, <4>2 DEF NoSiblings
      <4> QED
        BY <1>9, <4>1, <4>3 DEF About
    <3> QED
      BY <1>1, <3>1 DEF Issue
  <2>2. ASSUME NEW x \in sent', x.of = MadeNow(i, s) PROVE x \in sent
    BY <1>1, <1>6, <1>9, <2>2
  <2>3. \A n, k \in 1..Len(toDaemon'[AppOf[i]]) :
          About(toDaemon'[AppOf[i]][n], i, s) /\ About(toDaemon'[AppOf[i]][k], i, s) => n = k
    <3> SUFFICES ASSUME NEW n \in 1..Len(toDaemon'[AppOf[i]]),
                        NEW k \in 1..Len(toDaemon'[AppOf[i]]),
                        About(toDaemon'[AppOf[i]][n], i, s), About(toDaemon'[AppOf[i]][k], i, s)
                 PROVE  n = k
      OBVIOUS
    <3>1. n \in Nat /\ k \in Nat
      OBVIOUS
    <3>2. \E p, q \in 1..Len(toDaemon[AppOf[i]]) :
            /\ About(toDaemon[AppOf[i]][p], i, s) /\ About(toDaemon[AppOf[i]][q], i, s)
            /\ p = IF AppOf[i] = a THEN n + 1 ELSE n
            /\ q = IF AppOf[i] = a THEN k + 1 ELSE k
      BY <1>7
    <3> QED
      BY <1>5, <3>1, <3>2 DEF OnceInv
  <2>4. \A n \in 1..Len(toDaemon'[AppOf[i]]) :
          About(toDaemon'[AppOf[i]][n], i, s) =>
            /\ calls[i][s] # "none"
            /\ \A x \in sent : x.of # MadeNow(i, s)
    BY <1>5, <1>7 DEF OnceInv
  <2>5. /\ calls[i][s] = "none" => \A x \in sent : x.of # MadeNow(i, s)
        /\ \A n \in 1..Len(toApp[AppOf[i]]) : toApp[AppOf[i]][n].of = MadeNow(i, s) =>
             /\ ~IsIssued(i, s)
             /\ \A k \in 1..Len(toApp[AppOf[i]]) : k > n => ~About(toApp[AppOf[i]][k], i, s)
        /\ result[i][s] = MadeNow(i, s) =>
             /\ ~IsIssued(i, s)
             /\ \A k \in 1..Len(toApp[AppOf[i]]) : ~About(toApp[AppOf[i]][k], i, s)
        /\ calls[i][s] \in {"none", "waiting"} => result[i][s] = NoAnswer
        /\ calls[i][s] = "resolved" => result[i][s] # NoAnswer
    BY <1>5 DEF OnceInv
  <2> HIDE DEF IsIssued, MadeNow
  <2> QED
    BY <1>1, <1>5, <2>1, <2>2, <2>3, <2>4, <2>5 DEF OnceInv, About
<1>10. QED
  BY <1>8, <1>9

\* A response leaves no entry behind, and comes once.
LEMMA ResponseKeepsOnce ==
  ASSUME NoSiblings, TypeOK, OwnInv, LifeInv, AllOnce, NEW m \in sent, ResponseArrives(m)
  PROVE  AllOnce'
<1> SUFFICES ASSUME NEW i \in Instance, NEW s \in Session PROVE OnceInv(i, s)'
  BY DEF AllOnce
<1> DEFINE a == AppOf[i]
<1>1. /\ UNCHANGED <<life, calls, result, toDaemon, sent>>
      /\ issued' = {e \in issued : ~SameCall(e, m)}
  BY DEF ResponseArrives, EntriesWithout
<1>2. /\ m \in Message /\ Genuine(m) /\ m.of \in Call
      /\ a \in App /\ toApp[a] \in Seq(Message) /\ OnceInv(i, s)
  BY AppAssumption DEF OwnInv, TypeOK, AllOnce, Message
<1>3. MadeNow(i, s)' = MadeNow(i, s) /\ (IsIssued(i, s)' => IsIssued(i, s))
  BY <1>1 DEF MadeNow, IsIssued
<1>4. ASSUME About(m, i, s) PROVE ~IsIssued(i, s)'
  BY <1>1, <1>2, <1>4 DEF IsIssued, SameCall, Genuine, About
<1>5. CASE toApp'[a] = toApp[a]
  <2> HIDE DEF MadeNow, IsIssued
  <2> QED
    BY <1>1, <1>2, <1>3, <1>5 DEF OnceInv, About
<1>6. CASE toApp'[a] # toApp[a]
  <2>1. /\ toApp'[a] = Append(toApp[a], m)
        /\ \E e \in issued : SameCall(e, m) /\ e.app = a
    BY <1>2, <1>6 DEF ResponseArrives
  <2>2. About(m, i, s) => IsIssued(i, s)
    BY <1>2, <2>1 DEF About, SameCall, Genuine, IsIssued
  <2>3. m.of = MadeNow(i, s) => About(m, i, s)
    BY DEF MadeNow, About
  <2>4. /\ Len(toApp'[a]) = Len(toApp[a]) + 1
        /\ \A n \in 1..Len(toApp[a]) : toApp'[a][n] = toApp[a][n]
        /\ toApp'[a][Len(toApp[a]) + 1] = m
        /\ Len(toApp[a]) \in Nat
    BY <1>2, <2>1, AppendLast
  <2>5. ASSUME NEW n \in 1..Len(toApp'[a]), toApp'[a][n].of = MadeNow(i, s)
        PROVE  /\ ~IsIssued(i, s)'
               /\ \A k \in 1..Len(toApp'[a]) : k > n => ~About(toApp'[a][k], i, s)
    <3>1. CASE n \in 1..Len(toApp[a])
      <4>1. toApp[a][n].of = MadeNow(i, s)
        BY <2>4, <2>5, <3>1
      <4>2. ~IsIssued(i, s) /\ \A k \in 1..Len(toApp[a]) : k > n => ~About(toApp[a][k], i, s)
        BY <1>2, <3>1, <4>1 DEF OnceInv
      <4>3. ~About(m, i, s)
        BY <2>2, <4>2
      <4>4. \A k \in 1..Len(toApp'[a]) : k \in 1..Len(toApp[a]) \/ toApp'[a][k] = m
        BY <2>4
      <4> QED
        BY <1>3, <2>4, <4>2, <4>3, <4>4
    <3>2. CASE n = Len(toApp[a]) + 1
      <4>1. About(m, i, s)
        BY <2>3, <2>4, <2>5, <3>2
      <4>2. \A k \in 1..Len(toApp'[a]) : ~(k > n)
        BY <2>4, <3>2
      <4> QED
        BY <1>4, <4>1, <4>2
    <3> QED
      BY <2>4, <3>1, <3>2
  <2>6. ASSUME result[i][s] = MadeNow(i, s)
        PROVE  /\ ~IsIssued(i, s)'
               /\ \A k \in 1..Len(toApp'[a]) : ~About(toApp'[a][k], i, s)
    <3>1. ~IsIssued(i, s) /\ \A k \in 1..Len(toApp[a]) : ~About(toApp[a][k], i, s)
      BY <1>2, <2>6 DEF OnceInv
    <3>2. ~About(m, i, s)
      BY <2>2, <3>1
    <3>3. \A k \in 1..Len(toApp'[a]) : k \in 1..Len(toApp[a]) \/ toApp'[a][k] = m
      BY <2>4
    <3> QED
      BY <1>3, <2>4, <3>1, <3>2, <3>3
  <2> HIDE DEF MadeNow, IsIssued
  <2> QED
    BY <1>1, <1>2, <1>3, <2>5, <2>6 DEF OnceInv, About
<1>7. QED
  BY <1>5, <1>6

\* The receive task takes the first response.
LEMMA ReceiveKeepsOnce ==
  ASSUME NoSiblings, TypeOK, OwnInv, LifeInv, AllOnce, NEW a \in App, Receive(a)
  PROVE  AllOnce'
<1> DEFINE m == toApp[a][1]
<1>1. toApp[a] # <<>> /\ toApp[a] \in Seq(Message)
  BY DEF Receive, TypeOK
<1>2. Head(toApp[a]) = m /\ 1 \in 1..Len(toApp[a]) /\ m \in Message /\ m.of \in Call
  <2>1. Head(toApp[a]) = m /\ 1 \in 1..Len(toApp[a]) /\ m \in Message
    BY <1>1, HeadIsFirst
  <2> QED
    BY <2>1 DEF Message
<1>3. PICK R \in SUBSET Holders(a, m) :
        /\ \A j \in R : calls[j][m.session] = "waiting"
        /\ calls' = [j \in Instance |->
             IF j \in R THEN [calls[j] EXCEPT ![m.session] = "resolved"] ELSE calls[j]]
        /\ result' = [j \in Instance |->
             IF j \in R THEN [result[j] EXCEPT ![m.session] = m.of] ELSE result[j]]
        /\ toApp' = [toApp EXCEPT ![a] = Tail(@)]
        /\ UNCHANGED <<life, toDaemon, issued, sent>>
  BY <1>2 DEF Receive
<1>4. \A j \in R : m.of.instance = j /\ m.session = m.of.session /\ AppOf[j] = a
  BY <1>2, HolderIsAsker DEF Holders
<1> SUFFICES ASSUME NEW i \in Instance, NEW s \in Session PROVE OnceInv(i, s)'
  BY DEF AllOnce
<1>5. OnceInv(i, s) /\ AppOf[i] \in App
  BY AppAssumption DEF AllOnce
<1>6. MadeNow(i, s)' = MadeNow(i, s) /\ IsIssued(i, s)' = IsIssued(i, s)
  BY <1>3 DEF MadeNow, IsIssued
\* The responses that stay were there, one place later.
<1>7. ASSUME NEW n \in 1..Len(toApp'[AppOf[i]])
      PROVE  \E k \in 1..Len(toApp[AppOf[i]]) :
               /\ toApp'[AppOf[i]][n] = toApp[AppOf[i]][k]
               /\ k = IF AppOf[i] = a THEN n + 1 ELSE n
  <2>1. CASE AppOf[i] = a
    <3>1. toApp'[a] = Tail(toApp[a])
      BY <1>3, <2>1 DEF TypeOK
    <3>2. n \in 1..Len(Tail(toApp[a]))
      BY <1>7, <2>1, <3>1
    <3>3. n + 1 \in 1..Len(toApp[a]) /\ Tail(toApp[a])[n] = toApp[a][n + 1]
      BY <1>1, <3>2, TailShift
    <3> QED
      BY <2>1, <3>1, <3>3
  <2>2. CASE AppOf[i] # a
    BY <1>3, <1>5, <2>2 DEF TypeOK
  <2> QED
    BY <2>1, <2>2
<1>8. ASSUME NEW n \in 1..Len(toApp'[AppOf[i]]), toApp'[AppOf[i]][n].of = MadeNow(i, s)
      PROVE  /\ ~IsIssued(i, s)
             /\ \A k \in 1..Len(toApp'[AppOf[i]]) : k > n => ~About(toApp'[AppOf[i]][k], i, s)
  <2>1. PICK p \in 1..Len(toApp[AppOf[i]]) :
          /\ toApp'[AppOf[i]][n] = toApp[AppOf[i]][p]
          /\ p = IF AppOf[i] = a THEN n + 1 ELSE n
    BY <1>7
  <2>2. /\ ~IsIssued(i, s)
        /\ \A k \in 1..Len(toApp[AppOf[i]]) : k > p => ~About(toApp[AppOf[i]][k], i, s)
    BY <1>5, <1>8, <2>1 DEF OnceInv
  <2>3. ASSUME NEW k \in 1..Len(toApp'[AppOf[i]]), k > n
        PROVE  ~About(toApp'[AppOf[i]][k], i, s)
    <3>1. PICK q \in 1..Len(toApp[AppOf[i]]) :
            /\ toApp'[AppOf[i]][k] = toApp[AppOf[i]][q]
            /\ q = IF AppOf[i] = a THEN k + 1 ELSE k
      BY <1>7
    <3>2. n \in Nat /\ k \in Nat
      OBVIOUS
    <3>3. q > p
      BY <2>1, <2>3, <3>1, <3>2
    <3> QED
      BY <2>2, <3>1, <3>3
  <2> QED
    BY <2>2, <2>3
<1>9. ASSUME \A k \in 1..Len(toApp[AppOf[i]]) :
               (AppOf[i] = a /\ k = 1) \/ ~About(toApp[AppOf[i]][k], i, s)
      PROVE  \A k \in 1..Len(toApp'[AppOf[i]]) : ~About(toApp'[AppOf[i]][k], i, s)
  <2> SUFFICES ASSUME NEW k \in 1..Len(toApp'[AppOf[i]])
               PROVE  ~About(toApp'[AppOf[i]][k], i, s)
    OBVIOUS
  <2>1. PICK q \in 1..Len(toApp[AppOf[i]]) :
          /\ toApp'[AppOf[i]][k] = toApp[AppOf[i]][q]
          /\ q = IF AppOf[i] = a THEN k + 1 ELSE k
    BY <1>7
  <2>2. k \in Nat /\ k >= 1
    OBVIOUS
  <2>3. ~(AppOf[i] = a /\ q = 1)
    BY <2>1, <2>2
  <2> QED
    BY <1>9, <2>1, <2>3
<1>10. CASE i \in R /\ s = m.session
  <2>1. /\ calls[i][s] = "waiting" /\ calls'[i][s] = "resolved" /\ result'[i][s] = m.of
        /\ m.of # NoAnswer
    <3>1. "life" \in DOMAIN m.of /\ "life" \notin DOMAIN NoAnswer
      BY <1>2 DEF Call, NoAnswer
    <3>2. m.of # NoAnswer
      BY <3>1
    <3> QED
      BY <1>3, <1>10, <3>2 DEF TypeOK
  <2>2. ASSUME m.of = MadeNow(i, s)
        PROVE  /\ ~IsIssued(i, s)
               /\ \A k \in 1..Len(toApp'[AppOf[i]]) : ~About(toApp'[AppOf[i]][k], i, s)
    <3>1. AppOf[i] = a
      BY <1>4, <1>10
    <3>2. ~IsIssued(i, s) /\ \A k \in 1..Len(toApp[a]) : k > 1 => ~About(toApp[a][k], i, s)
      BY <1>2, <1>5, <2>2, <3>1 DEF OnceInv
    <3>3. \A k \in 1..Len(toApp[a]) : k = 1 \/ k > 1
      BY <1>1
    <3> QED
      BY <1>9, <3>1, <3>2, <3>3
  <2> HIDE DEF MadeNow, IsIssued
  <2> QED
    BY <1>3, <1>5, <1>6, <1>8, <2>1, <2>2 DEF OnceInv, About
<1>11. CASE ~(i \in R /\ s = m.session)
  <2>1. calls'[i][s] = calls[i][s] /\ result'[i][s] = result[i][s]
    BY <1>3, <1>11 DEF TypeOK
  <2>2. ASSUME result[i][s] = MadeNow(i, s)
        PROVE  /\ ~IsIssued(i, s)
               /\ \A k \in 1..Len(toApp'[AppOf[i]]) : ~About(toApp'[AppOf[i]][k], i, s)
    BY <1>5, <1>9, <2>2 DEF OnceInv
  <2> HIDE DEF MadeNow, IsIssued
  <2> QED
    BY <1>3, <1>5, <1>6, <1>8, <2>1, <2>2 DEF OnceInv, About
<1>12. QED
  BY <1>10, <1>11

\* A call is made once in a life.
LEMMA CallKeepsOnce ==
  ASSUME TypeOK, AllOnce, NEW j \in Instance, CallMethod(j)
  PROVE  AllOnce'
<1>1. PICK t \in Session, m \in Message :
        /\ m = [key |-> KeyOf[j], session |-> t, port |-> PortOf[j],
                of |-> [instance |-> j, life |-> life[AppOf[j]], session |-> t]]
        /\ calls[j][t] = "none"
        /\ calls' = [calls EXCEPT ![j][t] = "waiting"]
        /\ toDaemon' = [toDaemon EXCEPT ![AppOf[j]] = Append(@, m)]
        /\ UNCHANGED <<life, result, issued, sent, toApp, deaf>>
  BY MessageType DEF CallMethod
<1> SUFFICES ASSUME NEW i \in Instance, NEW s \in Session PROVE OnceInv(i, s)'
  BY DEF AllOnce
<1> DEFINE a == AppOf[i]
<1>2. OnceInv(i, s) /\ a \in App /\ toDaemon[a] \in Seq(Message)
  BY AppAssumption DEF AllOnce, TypeOK
<1>3. MadeNow(i, s)' = MadeNow(i, s) /\ IsIssued(i, s)' = IsIssued(i, s)
  BY <1>1 DEF MadeNow, IsIssued
<1>4. About(m, i, s) <=> i = j /\ s = t
  <2>1. m.of.instance = j /\ m.of.session = t
    BY <1>1
  <2> QED
    BY <2>1 DEF About
<1>5. \/ toDaemon'[a] = toDaemon[a] /\ a # AppOf[j]
      \/ toDaemon'[a] = Append(toDaemon[a], m)
  BY <1>1, <1>2 DEF TypeOK
<1>6. CASE toDaemon'[a] = toDaemon[a] /\ a # AppOf[j]
  <2>1. calls'[i] = calls[i] /\ UNCHANGED <<sent, result, toApp>>
    BY <1>1, <1>6 DEF TypeOK
  <2> HIDE DEF MadeNow, IsIssued
  <2> QED
    BY <1>2, <1>3, <1>6, <2>1, OnceStays
<1>7. CASE toDaemon'[a] = Append(toDaemon[a], m)
  <2>1. /\ Len(toDaemon'[a]) = Len(toDaemon[a]) + 1
        /\ \A n \in 1..Len(toDaemon[a]) : toDaemon'[a][n] = toDaemon[a][n]
        /\ toDaemon'[a][Len(toDaemon[a]) + 1] = m
        /\ \A n \in 1..Len(toDaemon'[a]) : n \in 1..Len(toDaemon[a]) \/ n = Len(toDaemon[a]) + 1
    BY <1>2, <1>7, AppendLast
  <2>2. CASE i = j /\ s = t
    <3>1. /\ calls[i][s] = "none" /\ calls'[i][s] = "waiting"
      BY <1>1, <2>2 DEF TypeOK
    <3>2. /\ \A n \in 1..Len(toDaemon[a]) : ~About(toDaemon[a][n], i, s)
          /\ \A x \in sent : x.of # MadeNow(i, s)
          /\ result[i][s] = NoAnswer
      BY <1>2, <3>1 DEF OnceInv
    <3>3. \A n, k \in 1..Len(toDaemon'[a]) :
            About(toDaemon'[a][n], i, s) /\ About(toDaemon'[a][k], i, s) => n = k
      BY <2>1, <3>2
    <3> HIDE DEF MadeNow, IsIssued
    <3> QED
      BY <1>1, <1>2, <1>3, <3>1, <3>2, <3>3, NoAnswerIsNone DEF OnceInv, About
  <2>3. CASE ~(i = j /\ s = t)
    <3>1. calls'[i][s] = calls[i][s] /\ ~About(m, i, s)
      BY <1>1, <1>4, <2>3 DEF TypeOK
    <3>2. \A n \in 1..Len(toDaemon'[a]) :
            About(toDaemon'[a][n], i, s) =>
              n \in 1..Len(toDaemon[a]) /\ About(toDaemon[a][n], i, s)
      BY <2>1, <3>1
    <3> HIDE DEF MadeNow, IsIssued
    <3> QED
      BY <1>1, <1>2, <1>3, <3>1, <3>2 DEF OnceInv, About
  <2> QED
    BY <2>2, <2>3
<1>8. QED
  BY <1>5, <1>6, <1>7

\* A new life has asked for nothing, and nothing is answered in its name.
LEMMA RestartKeepsOnce ==
  ASSUME TypeOK, OwnInv, LifeInv, AllOnce, NEW a \in App, Restart(a)
  PROVE  AllOnce'
<1>1. /\ life' = [life EXCEPT ![a] = @ + 1] /\ sent' = sent
      /\ toDaemon' = [toDaemon EXCEPT ![a] = <<>>] /\ toApp' = [toApp EXCEPT ![a] = <<>>]
      /\ calls' = [i \in Instance |->
           IF AppOf[i] = a THEN [s \in Session |-> "none"] ELSE calls[i]]
      /\ result' = [i \in Instance |->
           IF AppOf[i] = a THEN [s \in Session |-> NoAnswer] ELSE result[i]]
      /\ \/ issued' = issued
         \/ issued' = {[e EXCEPT !.app = IF @ = a THEN Gone ELSE @] : e \in issued}
  BY DEF Restart
<1> SUFFICES ASSUME NEW i \in Instance, NEW s \in Session PROVE OnceInv(i, s)'
  BY DEF AllOnce
<1>2. OnceInv(i, s) /\ AppOf[i] \in App /\ life[AppOf[i]] \in Nat
  BY AppAssumption, LifeType DEF AllOnce, TypeOK
<1>3. CASE AppOf[i] = a
  <2>1. /\ calls'[i][s] = "none" /\ result'[i][s] = NoAnswer
        /\ toDaemon'[AppOf[i]] = <<>> /\ toApp'[AppOf[i]] = <<>>
    BY <1>1, <1>3 DEF TypeOK
  <2>2. MadeNow(i, s)' = [instance |-> i, life |-> life[a] + 1, session |-> s]
    BY <1>1, <1>3 DEF MadeNow, TypeOK
  <2>3. ASSUME NEW m \in sent, m.of = [instance |-> i, life |-> life[a] + 1, session |-> s]
        PROVE  FALSE
    <3>1. m.of.instance = i /\ m.of.life = life[a] + 1
      BY <2>3
    <3>2. m.of.life <= life[a]
      BY <1>3, <3>1 DEF LifeInv
    <3> QED
      BY <1>2, <1>3, <3>1, <3>2
  <2>4. NoAnswer # MadeNow(i, s)'
    <3>1. "life" \in DOMAIN MadeNow(i, s)' /\ "life" \notin DOMAIN NoAnswer
      BY <2>2 DEF NoAnswer
    <3> QED
      BY <3>1
  <2> HIDE DEF MadeNow
  <2> QED
    BY <1>1, <2>1, <2>2, <2>3, <2>4 DEF OnceInv
<1>4. CASE AppOf[i] # a
  <2>1. /\ calls'[i] = calls[i] /\ result'[i] = result[i]
        /\ toDaemon'[AppOf[i]] = toDaemon[AppOf[i]] /\ toApp'[AppOf[i]] = toApp[AppOf[i]]
        /\ life'[AppOf[i]] = life[AppOf[i]]
    BY <1>1, <1>2, <1>4 DEF TypeOK
  <2>2. MadeNow(i, s)' = MadeNow(i, s)
    BY <2>1 DEF MadeNow
  <2>3. IsIssued(i, s)' => IsIssued(i, s)
    <3>1. ASSUME NEW d \in issued, [d EXCEPT !.app = IF @ = a THEN Gone ELSE @].app = AppOf[i]
          PROVE  [d EXCEPT !.app = IF @ = a THEN Gone ELSE @] = d
      <4>1. d \in [key : Key, session : Session, port : Port, app : App \cup {Gone}]
        BY DEF TypeOK, Entry
      <4>2. d.app # a
        BY <1>2, <3>1, <4>1, GoneAssumption
      <4> QED
        BY <4>1, <4>2
    <3> SUFFICES ASSUME NEW e \in issued', e.key = KeyOf[i], e.session = s,
                        e.port = PortOf[i], e.app = AppOf[i]
                 PROVE  e \in issued
      BY DEF IsIssued
    <3>2. CASE issued' = issued
      BY <3>2
    <3>3. CASE issued' = {[d EXCEPT !.app = IF @ = a THEN Gone ELSE @] : d \in issued}
      BY <3>1, <3>3
    <3> QED
      BY <1>1, <3>2, <3>3
  <2>4. sent' = sent
    BY <1>1
  <2> QED
    BY <1>2, <2>1, <2>2, <2>3, <2>4, OnceStays
<1>5. QED
  BY <1>3, <1>4

LEMMA OnceInductive ==
  ASSUME NoSiblings, TypeOK, OwnInv, LifeInv, AllOnce, [Next]_vars
  PROVE  AllOnce'
<1>1. ASSUME NEW j \in Instance, NEW t \in Session,
             Return(j, t) \/ Expire(j, t) \/ TimeOut(j, t) \/ Abandon(j, t)
      PROVE  AllOnce'
  <2>1. /\ UNCHANGED <<life, result, toDaemon, issued, sent, toApp, deaf>>
        /\ calls[j][t] \in {"waiting", "resolved", "expiring"}
        /\ \E to \in {"returned", "expiring", "timed_out", "abandoned"} :
             calls' = [calls EXCEPT ![j][t] = to]
    BY <1>1 DEF Return, Expire, TimeOut, Abandon, MoveCall
  <2> SUFFICES ASSUME NEW i \in Instance, NEW s \in Session PROVE OnceInv(i, s)'
    BY DEF AllOnce
  <2>2. OnceInv(i, s)
    BY DEF AllOnce
  <2>3. calls'[i][s] \in {"none", "waiting", "resolved"} => calls'[i][s] = calls[i][s]
    BY <2>1 DEF TypeOK
  <2>4. MadeNow(i, s)' = MadeNow(i, s) /\ IsIssued(i, s)' = IsIssued(i, s)
    BY <2>1 DEF MadeNow, IsIssued
  <2> HIDE DEF MadeNow, IsIssued
  <2> QED
    BY <2>1, <2>2, <2>3, <2>4 DEF OnceInv, About
<1>2. CASE UNCHANGED vars
  <2>1. \A i \in Instance, s \in Session :
          MadeNow(i, s)' = MadeNow(i, s) /\ IsIssued(i, s)' = IsIssued(i, s)
    BY <1>2 DEF vars, MadeNow, IsIssued
  <2>2. UNCHANGED <<calls, result, toDaemon, toApp, sent>>
    BY <1>2 DEF vars
  <2> QED
    BY <2>1, <2>2, OnceStays DEF AllOnce
<1>3. QED
  BY <1>1, <1>2, CallKeepsOnce, ReceiveKeepsOnce, RestartKeepsOnce, ForwardKeepsOnce,
     ResponseKeepsOnce DEF Next

LEMMA DeafInductive ==
  ASSUME NoSiblings, TypeOK, OwnInv, LifeInv, AllOnce, OnlyLateAnswersDeafen, [Next]_vars
  PROVE  OnlyLateAnswersDeafen'
\* What excuses an application that is deaf lasts.
<1> DEFINE Late(i, s) == \/ calls[i][s] \in {"expiring", "timed_out", "abandoned"}
                         \/ result[i][s] # NoAnswer /\ result[i][s].life < life[AppOf[i]]
<1>1. \A a \in deaf : \E i \in Instance, s \in Session : AppOf[i] = a /\ Late(i, s)
  BY DEF OnlyLateAnswersDeafen
<1>2. SUFFICES \A a \in deaf' : \E i \in Instance, s \in Session : AppOf[i] = a /\ Late(i, s)'
  BY DEF OnlyLateAnswersDeafen
<1>a. ASSUME deaf' \subseteq deaf,
             \A i \in Instance, s \in Session : AppOf[i] \in deaf' /\ Late(i, s) => Late(i, s)'
      PROVE  \A a \in deaf' : \E i \in Instance, s \in Session : AppOf[i] = a /\ Late(i, s)'
  <2> HIDE DEF Late
  <2> QED
    BY <1>1, <1>a
<1>3. ASSUME NEW j \in Instance, CallMethod(j)
      PROVE  \A a \in deaf' : \E i \in Instance, s \in Session : AppOf[i] = a /\ Late(i, s)'
  <2>1. /\ UNCHANGED <<life, result, deaf>>
        /\ \E t \in Session : calls[j][t] = "none" /\ calls' = [calls EXCEPT ![j][t] = "waiting"]
    BY <1>3 DEF CallMethod
  <2> QED
    BY <1>a, <2>1 DEF TypeOK
<1>4. ASSUME NEW j \in Instance, NEW t \in Session,
             Return(j, t) \/ Expire(j, t) \/ TimeOut(j, t) \/ Abandon(j, t)
      PROVE  \A a \in deaf' : \E i \in Instance, s \in Session : AppOf[i] = a /\ Late(i, s)'
  <2>1. /\ UNCHANGED <<life, result, deaf>>
        /\ \E from, to \in CallState :
             /\ calls[j][t] = from /\ calls' = [calls EXCEPT ![j][t] = to]
             /\ from \in {"expiring", "timed_out", "abandoned"} => to = "timed_out"
    BY <1>4 DEF Return, Expire, TimeOut, Abandon, MoveCall, CallState
  <2> QED
    BY <1>a, <2>1 DEF TypeOK
<1>5. ASSUME NEW b \in App, Receive(b)
      PROVE  \A a \in deaf' : \E i \in Instance, s \in Session : AppOf[i] = a /\ Late(i, s)'
  <2> DEFINE m == Head(toApp[b])
             done == {i \in Holders(b, m) : calls[i][m.session] # "waiting"}
  <2>1. toApp[b] # <<>> /\ toApp[b] \in Seq(Message) /\ b \notin deaf
    BY <1>5 DEF Receive, TypeOK
  <2>2. m = toApp[b][1] /\ 1 \in 1..Len(toApp[b]) /\ m \in Message
    BY <2>1, HeadIsFirst
  <2>3. PICK R \in SUBSET (Holders(b, m) \ done) :
          /\ calls' = [i \in Instance |->
               IF i \in R THEN [calls[i] EXCEPT ![m.session] = "resolved"] ELSE calls[i]]
          /\ result' = [i \in Instance |->
               IF i \in R THEN [result[i] EXCEPT ![m.session] = m.of] ELSE result[i]]
          /\ deaf' = IF done = {} THEN deaf ELSE deaf \cup {b}
          /\ UNCHANGED life
    BY <1>5 DEF Receive
  <2>4. \A i \in R : AppOf[i] = b
    BY DEF Holders
  <2>5. \A i \in Instance : i \notin R => calls'[i] = calls[i] /\ result'[i] = result[i]
    BY <2>3
  <2>6. ASSUME NEW a \in deaf PROVE \E i \in Instance, s \in Session : AppOf[i] = a /\ Late(i, s)'
    <3>1. PICK i \in Instance, s \in Session : AppOf[i] = a /\ Late(i, s)
      BY <1>1
    <3>2. i \notin R
      BY <2>1, <2>4, <3>1
    <3> QED
      BY <2>3, <2>5, <3>1, <3>2
  <2>7. ASSUME NEW i \in done, NEW s, s = m.session
        PROVE  AppOf[i] = b /\ i \in Instance /\ s \in Session /\ Late(i, s)'
    <3>1. /\ AppOf[i] = b /\ i \in Instance /\ s \in Session
          /\ calls[i][s] \in {"resolved", "expiring", "abandoned"}
          /\ KeyOf[i] = m.key
      BY <2>2, <2>7 DEF Holders, InTable, Message
    <3>2. calls'[i] = calls[i] /\ result'[i] = result[i]
      BY <2>5, <2>7, <3>1
    <3>3. CASE calls[i][s] # "resolved"
      BY <3>1, <3>2, <3>3
    <3>4. CASE calls[i][s] = "resolved"
      <4>1. OnceInv(i, s) /\ About(m, i, s)
        <5>1. 1 \in 1..Len(toApp[b]) /\ KeyOf[i] = toApp[b][1].key /\ toApp[b][1].session = s
          BY <2>2, <2>7, <3>1
        <5>2. toApp[b][1].of.instance = i /\ toApp[b][1].of.session = s
          BY <3>1, <5>1, HolderIsAsker
        <5> HIDE DEF m
        <5> QED
          BY <2>2, <3>1, <5>2 DEF AllOnce, About
      <4>2. result[i][s] # NoAnswer /\ result[i][s] # MadeNow(i, s)
        BY <2>2, <3>1, <3>4, <4>1 DEF OnceInv
      <4>3. result[i][s] \in Call /\ result[i][s].instance = i /\ result[i][s].session = s
        BY <3>1, <4>2 DEF OwnInv, ResultIsOwn, TypeOK
      <4>4. result[i][s].life # life[b]
        BY <3>1, <4>2, <4>3 DEF MadeNow, Call
      <4>5. result[i][s].life <= life[b]
        BY <3>1, <4>2 DEF LifeInv
      <4>6. result[i][s].life \in Nat /\ life[b] \in Nat
        BY <4>3, LifeType DEF Call, TypeOK
      <4>7. result[i][s].life < life[b]
        BY <4>4, <4>5, <4>6
      <4> QED
        BY <2>3, <3>1, <3>2, <4>2, <4>7
    <3> QED
      BY <3>1, <3>3, <3>4
  <2> HIDE DEF Late, done
  <2> QED
    BY <2>3, <2>6, <2>7
<1>6. ASSUME NEW b \in App, Restart(b)
      PROVE  \A a \in deaf' : \E i \in Instance, s \in Session : AppOf[i] = a /\ Late(i, s)'
  <2>1. deaf' = deaf \ {b} /\ \A i \in Instance : AppOf[i] # b =>
          /\ calls'[i] = calls[i] /\ result'[i] = result[i]
          /\ life'[AppOf[i]] = life[AppOf[i]]
    BY <1>6, AppAssumption DEF Restart, TypeOK
  <2> QED
    BY <1>a, <2>1
<1>7. ASSUME NEW b \in App, Forward(b)
      PROVE  \A a \in deaf' : \E i \in Instance, s \in Session : AppOf[i] = a /\ Late(i, s)'
  BY <1>7, <1>a DEF Forward
<1>8. ASSUME NEW m \in sent, ResponseArrives(m)
      PROVE  \A a \in deaf' : \E i \in Instance, s \in Session : AppOf[i] = a /\ Late(i, s)'
  BY <1>8, <1>a DEF ResponseArrives
<1>9. CASE UNCHANGED vars
  BY <1>9, <1>a DEF vars
<1>10. QED
  <2> HIDE DEF Late
  <2> QED
    BY <1>3, <1>4, <1>5, <1>6, <1>7, <1>8, <1>9 DEF Next

\* Repeated answers never end the receive task of an application; only one that
\* comes for a call nobody waits for does, or one to its predecessor.
THEOREM OnlyLateOnesDeafen == ASSUME NoSiblings PROVE Spec => []OnlyLateAnswersDeafen
<1>1. Init => OnlyLateAnswersDeafen
  BY DEF Init, OnlyLateAnswersDeafen
<1>2. /\ TypeOK /\ OwnInv /\ [Next]_vars => OwnInv'
      /\ TypeOK /\ OwnInv /\ LifeInv /\ [Next]_vars => LifeInv'
      /\ TypeOK /\ OwnInv /\ LifeInv /\ AllOnce /\ [Next]_vars => AllOnce'
      /\ TypeOK /\ OwnInv /\ LifeInv /\ AllOnce /\ OnlyLateAnswersDeafen /\ [Next]_vars
           => OnlyLateAnswersDeafen'
  BY OwnInductive, LifeInductive, OnceInductive, DeafInductive
<1>3. QED
  BY <1>1, <1>2, InitOwn, InitOnce, TypeCorrect, PTL DEF Spec

-----------------------------------------------------------------------------
(* A call is what RemoteCall promises.                                     *)

AllSeen == [i \in Instance |-> [s \in Session |-> Seen(i, s)]]

Asked == {m.of : m \in sent}

Lives == [i \in Instance |-> life[AppOf[i]]]

\* The steps of RemoteCall, in the words of MethodCalls.
LEMMA MapsToStutter ==
  ASSUME AllSeen' = AllSeen, result' = result, Asked' = Asked, Lives' = Lives
  PROVE  UNCHANGED Calls!vars
BY DEF Calls!vars, AllSeen, Asked, Lives

LEMMA MapsToMake ==
  ASSUME NEW i \in Instance, NEW s \in Session, AllSeen[i][s] = "none",
         \A t \in Session : t < s => AllSeen[i][t] # "none",
         AllSeen' = [AllSeen EXCEPT ![i][s] = "waiting"],
         result' = result, Asked' = Asked, Lives' = Lives
  PROVE  Calls!Next
<1>1. Calls!Make(i, s)
  BY DEF Calls!Make, AllSeen, Asked, Lives
<1> QED
  BY <1>1 DEF Calls!Next

LEMMA MapsToAsk ==
  ASSUME NEW i \in Instance, NEW s \in Session, AllSeen[i][s] # "none",
         Asked' = Asked \cup {[instance |-> i, life |-> Lives[i], session |-> s]},
         AllSeen' = AllSeen, result' = result, Lives' = Lives
  PROVE  Calls!Next
<1>1. Calls!Ask(i, s)
  BY DEF Calls!Ask, AllSeen, Asked, Lives
<1> QED
  BY <1>1 DEF Calls!Next

LEMMA MapsToAnswer ==
  ASSUME NEW i \in Instance, NEW s \in Session, NEW r \in Asked,
         r.instance = i, r.session = s, AllSeen[i][s] = "waiting",
         AllSeen' = [AllSeen EXCEPT ![i][s] = "answered"],
         result' = [result EXCEPT ![i][s] = r], Asked' = Asked, Lives' = Lives
  PROVE  Calls!Next
<1>1. Calls!Answer(i, s)
  BY DEF Calls!Answer, AllSeen, Asked, Lives
<1> QED
  BY <1>1 DEF Calls!Next

LEMMA MapsToGiveUp ==
  ASSUME NEW i \in Instance, NEW s \in Session, AllSeen[i][s] = "waiting",
         AllSeen' = [AllSeen EXCEPT ![i][s] = "given_up"],
         result' = result, Asked' = Asked, Lives' = Lives
  PROVE  Calls!Next
<1>1. Calls!GiveUp(i, s)
  BY DEF Calls!GiveUp, AllSeen, Asked, Lives
<1> QED
  BY <1>1 DEF Calls!Next

LEMMA MapsToRestart ==
  ASSUME NEW callers \in SUBSET Instance,
         AllSeen' = [i \in Instance |->
                       IF i \in callers THEN [s \in Session |-> "none"] ELSE AllSeen[i]],
         result' = [i \in Instance |->
                       IF i \in callers THEN [s \in Session |-> NoAnswer] ELSE result[i]],
         Lives' = [i \in Instance |-> IF i \in callers THEN Lives[i] + 1 ELSE Lives[i]],
         Asked' = Asked
  PROVE  Calls!Next
<1>1. Calls!Restart(callers)
  BY DEF Calls!Restart, AllSeen, Asked, Lives
<1> QED
  BY <1>1 DEF Calls!Next

LEMMA ExceptOne ==
  ASSUME NEW f, NEW g, NEW i \in Instance, NEW s \in Session, NEW v,
         f = [j \in Instance |-> [t \in Session |-> f[j][t]]],
         g = [j \in Instance |-> [t \in Session |-> g[j][t]]],
         \A j \in Instance, t \in Session : g[j][t] = IF j = i /\ t = s THEN v ELSE f[j][t]
  PROVE  g = [f EXCEPT ![i][s] = v]
<1>1. [f EXCEPT ![i][s] = v] = [j \in Instance |-> IF j = i THEN [f[i] EXCEPT ![s] = v] ELSE f[j]]
  OBVIOUS
<1>2. f[i] = [t \in Session |-> f[i][t]]
  OBVIOUS
<1>3. [f[i] EXCEPT ![s] = v] = [t \in Session |-> IF t = s THEN v ELSE f[i][t]]
  BY <1>2
<1>4. ASSUME NEW j \in Instance
      PROVE  [t \in Session |-> g[j][t]] = IF j = i THEN [f[i] EXCEPT ![s] = v] ELSE f[j]
  BY <1>3
<1> QED
  BY <1>1, <1>4

\* One call changes its state: what is seen of it follows.
LEMMA OneIsSeen ==
  ASSUME TypeOK, NEW i \in Instance, NEW s \in Session, NEW to,
         calls' = [calls EXCEPT ![i][s] = to]
  PROVE  /\ AllSeen' = [AllSeen EXCEPT ![i][s] = Seen(i, s)']
         /\ calls'[i][s] = to
<1>1. \A j \in Instance, t \in Session :
        calls'[j][t] = IF j = i /\ t = s THEN to ELSE calls[j][t]
  BY DEF TypeOK
<1>2. \A j \in Instance, t \in Session :
        Seen(j, t)' = IF j = i /\ t = s THEN Seen(i, s)' ELSE Seen(j, t)
  BY <1>1 DEF Seen
<1>3. \A j \in Instance, t \in Session :
        AllSeen'[j][t] = Seen(j, t)' /\ AllSeen[j][t] = Seen(j, t)
  BY DEF AllSeen
<1>4. /\ AllSeen = [j \in Instance |-> [t \in Session |-> AllSeen[j][t]]]
      /\ AllSeen' = [j \in Instance |-> [t \in Session |-> AllSeen'[j][t]]]
  BY DEF AllSeen
<1>5. \A j \in Instance, t \in Session :
        AllSeen'[j][t] = IF j = i /\ t = s THEN Seen(i, s)' ELSE AllSeen[j][t]
  BY <1>2, <1>3
<1> QED
  BY <1>1, <1>4, <1>5, ExceptOne

\* What is seen of a call that stays as it is.
LEMMA SameIsSeen ==
  ASSUME NEW i \in Instance, NEW s \in Session,
         AllSeen' = [AllSeen EXCEPT ![i][s] = Seen(i, s)'], Seen(i, s)' = Seen(i, s)
  PROVE  AllSeen' = AllSeen
<1>1. AllSeen[i][s] = Seen(i, s)
  BY DEF AllSeen
<1>2. AllSeen = [j \in Instance |-> [t \in Session |-> AllSeen[j][t]]]
  BY DEF AllSeen
<1>3. \A j \in Instance, t \in Session :
        AllSeen[j][t] = IF j = i /\ t = s THEN AllSeen[i][s] ELSE AllSeen[j][t]
  OBVIOUS
<1>4. AllSeen = [AllSeen EXCEPT ![i][s] = AllSeen[i][s]]
  <2> HIDE DEF AllSeen
  <2> QED
    BY <1>2, <1>3, ExceptOne
<1> QED
  BY <1>1, <1>4

\* A call is made: its session is the next one.
LEMMA CallMaps ==
  ASSUME TypeOK, NEW i \in Instance, CallMethod(i)
  PROVE  Calls!Next
<1>1. PICK s \in Session :
        /\ calls[i][s] = "none"
        /\ \A t \in Session : t < s => calls[i][t] # "none"
        /\ calls' = [calls EXCEPT ![i][s] = "waiting"]
        /\ UNCHANGED <<life, result, sent>>
  BY DEF CallMethod
<1>2. AllSeen' = [AllSeen EXCEPT ![i][s] = "waiting"]
  <2>1. AllSeen' = [AllSeen EXCEPT ![i][s] = Seen(i, s)'] /\ calls'[i][s] = "waiting"
    BY <1>1, OneIsSeen
  <2>2. Seen(i, s)' = "waiting"
    BY <2>1 DEF Seen
  <2> QED
    BY <2>1, <2>2
<1>3. AllSeen[i][s] = "none" /\ \A t \in Session : t < s => AllSeen[i][t] # "none"
  BY <1>1 DEF AllSeen, Seen
<1>4. Asked' = Asked /\ Lives' = Lives
  BY <1>1 DEF Asked, Lives
<1> QED
  BY <1>1, <1>2, <1>3, <1>4, MapsToMake

\* A call returns what it was resolved with, or is given up.
LEMMA MoveMaps ==
  ASSUME TypeOK, NEW i \in Instance, NEW s \in Session, NEW from, NEW to,
         MoveCall(i, s, from, to),
         \/ from = "resolved" /\ to = "returned"
         \/ from = "waiting" /\ to \in {"expiring", "abandoned"}
         \/ from = "expiring" /\ to = "timed_out"
  PROVE  Calls!Next \/ UNCHANGED Calls!vars
<1>1. /\ calls[i][s] = from /\ calls' = [calls EXCEPT ![i][s] = to]
      /\ UNCHANGED <<life, result, sent>>
  BY DEF MoveCall
<1>2. Asked' = Asked /\ Lives' = Lives
  BY <1>1 DEF Asked, Lives
<1>s. AllSeen' = [AllSeen EXCEPT ![i][s] = Seen(i, s)'] /\ calls'[i][s] = to
  BY <1>1, OneIsSeen
<1>3. CASE from = "waiting"
  <2>0. Seen(i, s)' = "given_up"
    BY <1>3, <1>s DEF Seen
  <2>1. AllSeen' = [AllSeen EXCEPT ![i][s] = "given_up"]
    BY <1>s, <2>0
  <2>2. AllSeen[i][s] = "waiting"
    BY <1>1, <1>3 DEF AllSeen, Seen
  <2> QED
    BY <1>1, <1>2, <2>1, <2>2, MapsToGiveUp
<1>4. CASE from # "waiting"
  <2>1. Seen(i, s)' = Seen(i, s)
    BY <1>1, <1>4, <1>s DEF Seen
  <2>3. AllSeen' = AllSeen
    BY <1>s, <2>1, SameIsSeen
  <2> QED
    BY <1>1, <1>2, <2>3, MapsToStutter
<1> QED
  BY <1>3, <1>4

\* A response resolves the call it answers, or none.
LEMMA ReceiveMaps ==
  ASSUME NoSiblings, TypeOK, OwnInv, LifeInv, NEW a \in App, Receive(a)
  PROVE  Calls!Next \/ UNCHANGED Calls!vars
<1> DEFINE m == Head(toApp[a])
<1>1. /\ toApp[a] \in Seq(Message) /\ toApp[a] # <<>> /\ 1 \in 1..Len(toApp[a])
      /\ m = toApp[a][1] /\ m \in Message
  BY HeadIsFirst DEF Receive, TypeOK
<1>2. m \in sent /\ Genuine(m)
  BY <1>1 DEF LifeInv, OwnInv
<1>3. /\ UNCHANGED <<life, sent>>
      /\ \E R \in SUBSET Holders(a, m) :
           /\ \A i \in R : calls[i][m.session] = "waiting"
           /\ calls' = [i \in Instance |->
                IF i \in R THEN [calls[i] EXCEPT ![m.session] = "resolved"] ELSE calls[i]]
           /\ result' = [i \in Instance |->
                IF i \in R THEN [result[i] EXCEPT ![m.session] = m.of] ELSE result[i]]
  BY DEF Receive
<1>4. PICK R \in SUBSET Holders(a, m) :
        /\ \A i \in R : calls[i][m.session] = "waiting"
        /\ calls' = [i \in Instance |->
             IF i \in R THEN [calls[i] EXCEPT ![m.session] = "resolved"] ELSE calls[i]]
        /\ result' = [i \in Instance |->
             IF i \in R THEN [result[i] EXCEPT ![m.session] = m.of] ELSE result[i]]
  BY <1>3
<1>5. Asked' = Asked /\ Lives' = Lives
  BY <1>3 DEF Asked, Lives
<1> HIDE DEF m
<1>6. \A i \in R : i \in Instance /\ AppOf[i] = a /\ KeyOf[i] = m.key
  BY DEF Holders
<1>7. \A i \in R : i = m.of.instance /\ m.session = m.of.session
  BY <1>1, <1>6, HolderIsAsker
<1>8. CASE R = {}
  <2>1. calls' = calls /\ result' = result
    BY <1>4, <1>8 DEF TypeOK
  <2>2. AllSeen' = AllSeen
    BY <2>1 DEF AllSeen, Seen
  <2> QED
    BY <1>5, <2>1, <2>2, MapsToStutter
<1>9. CASE R # {}
  <2>1. PICK i \in R, s \in Session : s = m.session
    BY <1>1, <1>9 DEF Message
  <2>2. R = {i} /\ i \in Instance /\ m.of.instance = i /\ m.of.session = s
    BY <1>1, <1>6, <1>7, <2>1
  <2>3. calls' = [calls EXCEPT ![i][s] = "resolved"] /\ result' = [result EXCEPT ![i][s] = m.of]
    BY <1>4, <2>1, <2>2 DEF TypeOK
  <2>4. calls[i][s] = "waiting" /\ m.of \in Asked
    BY <1>2, <1>4, <2>1 DEF Asked
  <2>5. AllSeen' = [AllSeen EXCEPT ![i][s] = "answered"]
    <3>1. AllSeen' = [AllSeen EXCEPT ![i][s] = Seen(i, s)'] /\ calls'[i][s] = "resolved"
      <4>1. i \in Instance /\ s \in Session /\ calls' = [calls EXCEPT ![i][s] = "resolved"]
        BY <2>2, <2>3
      <4> QED
        BY <4>1, OneIsSeen
    <3>2. Seen(i, s)' = "answered"
      BY <3>1 DEF Seen
    <3> QED
      BY <3>1, <3>2
  <2>6. AllSeen[i][s] = "waiting"
    BY <2>2, <2>4 DEF AllSeen, Seen
  <2> QED
    BY <1>5, <2>2, <2>3, <2>4, <2>5, <2>6, MapsToAnswer
<1> QED
  BY <1>8, <1>9

\* The instances of an application start again together.
LEMMA RestartMaps ==
  ASSUME TypeOK, NEW a \in App, Restart(a)
  PROVE  Calls!Next
<1> DEFINE own == {i \in Instance : AppOf[i] = a}
<1>1. /\ life' = [life EXCEPT ![a] = @ + 1] /\ sent' = sent
      /\ calls' = [i \in Instance |-> IF i \in own THEN [s \in Session |-> "none"] ELSE calls[i]]
      /\ result' = [i \in Instance |->
                      IF i \in own THEN [s \in Session |-> NoAnswer] ELSE result[i]]
  BY DEF Restart
<1>2. Lives' = [i \in Instance |-> IF i \in own THEN Lives[i] + 1 ELSE Lives[i]]
  BY <1>1, AppAssumption DEF Lives, TypeOK
<1>3. \A i \in Instance, s \in Session :
        Seen(i, s)' = IF i \in own THEN "none" ELSE Seen(i, s)
  BY <1>1 DEF Seen
<1>4. AllSeen' = [i \in Instance |-> IF i \in own THEN [s \in Session |-> "none"] ELSE AllSeen[i]]
  <2> HIDE DEF Seen, own
  <2> QED
    BY <1>3 DEF AllSeen
<1>5. Asked' = Asked
  BY <1>1 DEF Asked
<1> QED
  BY <1>1, <1>2, <1>4, <1>5, MapsToRestart

\* The daemon sends a request: its call was made in the present life.
LEMMA ForwardMaps ==
  ASSUME TypeOK, OwnInv, LifeInv, AllOnce, NEW a \in App, Forward(a)
  PROVE  Calls!Next
<1> DEFINE m == Head(toDaemon[a])
<1>1. /\ toDaemon[a] \in Seq(Message) /\ toDaemon[a] # <<>> /\ 1 \in 1..Len(toDaemon[a])
      /\ m = toDaemon[a][1] /\ m \in Message
  BY HeadIsFirst DEF Forward, TypeOK
<1>2. sent' = sent \cup {m} /\ UNCHANGED <<life, calls, result>>
  BY DEF Forward
<1>3. /\ m.of \in Call /\ m.of.life = life[a] /\ AppOf[m.of.instance] = a
  BY <1>1 DEF LifeInv, OwnInv, Message
<1> HIDE DEF m
<1>4. PICK i \in Instance, s \in Session : i = m.of.instance /\ s = m.of.session
  BY <1>3 DEF Call
<1>5. calls[i][s] # "none"
  BY <1>1, <1>3, <1>4 DEF AllOnce, OnceInv, About
<1>6. m.of = [instance |-> i, life |-> Lives[i], session |-> s]
  BY <1>3, <1>4 DEF Call, Lives
<1>7. Asked' = Asked \cup {m.of}
  BY <1>2 DEF Asked
<1>8. AllSeen' = AllSeen /\ Lives' = Lives
  BY <1>2 DEF AllSeen, Seen, Lives
<1>9. AllSeen[i][s] # "none"
  BY <1>5 DEF AllSeen, Seen
<1> QED
  BY <1>2, <1>6, <1>7, <1>8, <1>9, MapsToAsk

\* Every step of a call is one that RemoteCall allows, or none.
LEMMA StepIsRemote ==
  ASSUME NoSiblings, TypeOK, OwnInv, LifeInv, AllOnce, [Next]_vars
  PROVE  [Calls!Next]_(Calls!vars)
<1>1. ASSUME NEW i \in Instance, CallMethod(i) PROVE Calls!Next
  BY <1>1, CallMaps
<1>2. ASSUME NEW i \in Instance, NEW s \in Session,
             Return(i, s) \/ Expire(i, s) \/ TimeOut(i, s) \/ Abandon(i, s)
      PROVE  Calls!Next \/ UNCHANGED Calls!vars
  BY <1>2, MoveMaps DEF Return, Expire, TimeOut, Abandon
<1>3. ASSUME NEW a \in App, Receive(a) \/ Restart(a) \/ Forward(a)
      PROVE  Calls!Next \/ UNCHANGED Calls!vars
  BY <1>3, ReceiveMaps, RestartMaps, ForwardMaps
<1>4. ASSUME NEW m \in sent, ResponseArrives(m) PROVE UNCHANGED Calls!vars
  <2>1. UNCHANGED <<life, calls, result, sent>>
    BY <1>4 DEF ResponseArrives
  <2> QED
    BY <2>1, MapsToStutter DEF AllSeen, Seen, Asked, Lives
<1>5. CASE UNCHANGED vars
  <2>1. UNCHANGED <<life, calls, result, sent>>
    BY <1>5 DEF vars
  <2> QED
    BY <2>1, MapsToStutter DEF AllSeen, Seen, Asked, Lives
<1> QED
  BY <1>1, <1>2, <1>3, <1>4, <1>5 DEF Next

\* A call is what RemoteCall promises its caller: answered at most once, by a response
\* to a request of its own that a server was asked, or given up, and that is final;
\* whatever connections, daemon and network lose, repeat, delay and reorder, across
\* restarts of the applications.
THEOREM CallsAreRemote == ASSUME NoSiblings PROVE Spec => ImplementsRemoteCall
<1>1. Init => Calls!Init
  <2> SUFFICES ASSUME Init PROVE Calls!Init
    OBVIOUS
  <2>1. AllSeen = [i \in Instance |-> [s \in Session |-> "none"]]
    BY DEF Init, AllSeen, Seen
  <2>2. Asked = {} /\ Lives = [i \in Instance |-> 0]
    BY AppAssumption DEF Init, Asked, Lives
  <2>3. result = [i \in Instance |-> [s \in Session |-> NoAnswer]]
    BY DEF Init
  <2> QED
    BY <2>1, <2>2, <2>3 DEF Calls!Init, AllSeen, Asked, Lives
<1>2. /\ TypeOK /\ OwnInv /\ [Next]_vars => OwnInv'
      /\ TypeOK /\ OwnInv /\ LifeInv /\ [Next]_vars => LifeInv'
      /\ TypeOK /\ OwnInv /\ LifeInv /\ AllOnce /\ [Next]_vars => AllOnce'
      /\ TypeOK /\ OwnInv /\ LifeInv /\ AllOnce /\ [Next]_vars => [Calls!Next]_(Calls!vars)
  BY OwnInductive, LifeInductive, OnceInductive, StepIsRemote
<1>3. QED
  BY <1>1, <1>2, InitOwn, InitOnce, TypeCorrect, PTL DEF Spec, ImplementsRemoteCall, Calls!Spec
=============================================================================
