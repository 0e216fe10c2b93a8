----------------------------- MODULE MethodCalls -----------------------------
(***************************************************************************)
(* A method call from the application to the server and back: the futures  *)
(* of ClientServiceInstance, the connection to the daemon, the table in    *)
(* which the daemon keeps whose request it sent, and the datagrams to and  *)
(* from the server, which may be lost, repeated and reordered.             *)
(*                                                                         *)
(* The service was found and the client endpoint is open; calls are UDP    *)
(* calls.  Sessions do not wrap within the bound on calls.                 *)
(***************************************************************************)
EXTENDS Integers, Sequences, FiniteSets

CONSTANTS
  App,          \* applications, each with one connection to the daemon
  Instance,     \* client service instances
  Key,          \* what identifies a method: service, method and client id
  Port,         \* source ports of calls
  AppOf,        \* AppOf[i]: the application of instance i
  KeyOf,        \* KeyOf[i]: what instance i calls, and its client id
  PortOf,       \* PortOf[i]: the port instance i calls from
  MaxCalls,     \* MaxCalls[i]: bound on the calls of instance i between restarts
  MaxRestarts   \* MaxRestarts[a]: bound on the restarts of application a

ASSUME AppAssumption == AppOf \in [Instance -> App]
ASSUME KeyAssumption == KeyOf \in [Instance -> Key] /\ PortOf \in [Instance -> Port]
ASSUME BoundAssumption == MaxCalls \in [Instance -> Nat] /\ MaxRestarts \in [App -> Nat]

Session == UNION {1..MaxCalls[i] : i \in Instance}

Life == UNION {0..MaxRestarts[a] : a \in App}

\* A call, told apart from every other by the instance and life that made it.
Call == [instance : Instance, life : Life, session : Session]

\* What the daemon and the server see of a call; "of" is a history component.
Message == [key : Key, session : Session, port : Port, of : Call]

NoAnswer == [instance |-> "none"]

\* The writer of a connection that has ended, as far as no later one has its id.
Gone == "gone"

ASSUME GoneAssumption == Gone \notin App

VARIABLES
  life,      \* life[a]: how often application a was restarted
  calls,     \* calls[i][s]: the state of the call with session s of instance i
  result,    \* result[i][s]: the call whose response resolved that future
  toDaemon,  \* toDaemon[a]: requests on their way to the daemon
  issued,    \* _issued_method_calls: keys of sent requests and whose they are
  sent,      \* requests sent to servers
  toApp,     \* toApp[a]: responses on their way to the application
  deaf       \* applications whose receive task has ended

vars == <<life, calls, result, toDaemon, issued, sent, toApp, deaf>>

\* "expiring" and "abandoned" futures are cancelled and still in the table of
\* the instance; those of "returned" and "timed_out" calls are not.
CallState == {"none", "waiting", "resolved", "returned", "expiring", "timed_out",
              "abandoned"}

Entry == [key : Key, session : Session, port : Port, app : App \cup {Gone}]

TypeOK ==
  /\ life \in [App -> Life]
  /\ calls \in [Instance -> [Session -> CallState]]
  /\ result \in [Instance -> [Session -> Call \cup {NoAnswer}]]
  /\ toDaemon \in [App -> Seq(Message)]
  /\ issued \subseteq Entry
  /\ sent \subseteq Message
  /\ toApp \in [App -> Seq(Message)]
  /\ deaf \subseteq App

-----------------------------------------------------------------------------
Init ==
  /\ life = [a \in App |-> 0]
  /\ calls = [i \in Instance |-> [s \in Session |-> "none"]]
  /\ result = [i \in Instance |-> [s \in Session |-> NoAnswer]]
  /\ toDaemon = [a \in App |-> <<>>]
  /\ issued = {}
  /\ sent = {}
  /\ toApp = [a \in App |-> <<>>]
  /\ deaf = {}

-----------------------------------------------------------------------------
(* The application                                                         *)

\* call_method: the sessions of an instance count up from 1.
CallMethod(i) ==
  \E s \in Session :
    /\ s <= MaxCalls[i]
    /\ calls[i][s] = "none"
    /\ \A t \in Session : t < s => calls[i][t] # "none"
    /\ calls' = [calls EXCEPT ![i][s] = "waiting"]
    /\ toDaemon' = [toDaemon EXCEPT ![AppOf[i]] =
         Append(@, [key |-> KeyOf[i], session |-> s, port |-> PortOf[i],
                    of |-> [instance |-> i, life |-> life[AppOf[i]], session |-> s]])]
    /\ UNCHANGED <<life, result, issued, sent, toApp, deaf>>

MoveCall(i, s, from, to) ==
  /\ calls[i][s] = from
  /\ calls' = [calls EXCEPT ![i][s] = to]
  /\ UNCHANGED <<life, result, toDaemon, issued, sent, toApp, deaf>>

\* The task of a resolved call resumes: the entry goes and the result returns.
Return(i, s) == MoveCall(i, s, "resolved", "returned")

\* Ten seconds have passed.  What the application has received by then it has
\* processed, unless its receive task has ended.
Expire(i, s) ==
  /\ toApp[AppOf[i]] = <<>> \/ AppOf[i] \in deaf
  /\ MoveCall(i, s, "waiting", "expiring")

\* wait_for cancels the future before the task resumes and removes the entry.
TimeOut(i, s) == MoveCall(i, s, "expiring", "timed_out")

\* The caller is cancelled: the future is, and its entry is never removed.
Abandon(i, s) == MoveCall(i, s, "waiting", "abandoned")

InTable(i, s) == calls[i][s] \in {"waiting", "resolved", "expiring", "abandoned"}

\* The instances of application a with an entry for the response m.
Holders(a, m) ==
  {i \in Instance : /\ AppOf[i] = a
                    /\ KeyOf[i] = m.key
                    /\ InTable(i, m.session)}

\* _handle_message, _method_call_data_received: every holder is resolved in the
\* order of the instances (abstracted to any order), and one whose future is
\* already done raises, which ends the receive task.
Receive(a) ==
  /\ a \notin deaf
  /\ toApp[a] # <<>>
  /\ LET m == Head(toApp[a])
         done == {i \in Holders(a, m) : calls[i][m.session] # "waiting"}
         open == Holders(a, m) \ done
     IN  \E R \in SUBSET open :
           /\ done = {} => R = open
           /\ calls' = [i \in Instance |->
                IF i \in R THEN [calls[i] EXCEPT ![m.session] = "resolved"] ELSE calls[i]]
           /\ result' = [i \in Instance |->
                IF i \in R THEN [result[i] EXCEPT ![m.session] = m.of] ELSE result[i]]
           /\ deaf' = IF done = {} THEN deaf ELSE deaf \cup {a}
  /\ toApp' = [toApp EXCEPT ![a] = Tail(@)]
  /\ UNCHANGED <<life, toDaemon, issued, sent>>

\* The application ends and is started again; what it had not handed to the
\* daemon yet is lost.  The issued calls stay in the daemon with the id of the
\* old writer, which is its address in memory: the new writer may have the same.
Restart(a) ==
  /\ life[a] < MaxRestarts[a]
  /\ life' = [life EXCEPT ![a] = @ + 1]
  /\ calls' = [i \in Instance |->
       IF AppOf[i] = a THEN [s \in Session |-> "none"] ELSE calls[i]]
  /\ result' = [i \in Instance |->
       IF AppOf[i] = a THEN [s \in Session |-> NoAnswer] ELSE result[i]]
  /\ toDaemon' = [toDaemon EXCEPT ![a] = <<>>]
  /\ toApp' = [toApp EXCEPT ![a] = <<>>]
  /\ deaf' = deaf \ {a}
  /\ \/ issued' = issued
     \/ issued' = {[e EXCEPT !.app = IF @ = a THEN Gone ELSE @] : e \in issued}
  /\ UNCHANGED sent

-----------------------------------------------------------------------------
(* The daemon                                                              *)

\* Mutant: the port the call was made from is not part of it.
SameCallAnyPort(e, m) == e.key = m.key /\ e.session = m.session

\* Equality of the daemon's MethodCall.
SameCall(e, m) == e.key = m.key /\ e.session = m.session /\ e.port = m.port

\* Mutant: the table holds the request instead of whose it is.
IssueRequest(a, m) == {e \in issued : ~SameCall(e, m)} \cup {m}

\* An entry of the same call is overwritten.
Issue(a, m) ==
  {e \in issued : ~SameCall(e, m)}
    \cup {[key |-> m.key, session |-> m.session, port |-> m.port, app |-> a]}

\* _handle_outbound_call_method_request
Forward(a) ==
  /\ toDaemon[a] # <<>>
  /\ LET m == Head(toDaemon[a])
     IN  /\ issued' = Issue(a, m)
         /\ sent' = sent \cup {m}
  /\ toDaemon' = [toDaemon EXCEPT ![a] = Tail(@)]
  /\ UNCHANGED <<life, calls, result, toApp, deaf>>

\* Mutant: the entry of an answered call stays.
EntriesKept(m) == issued

\* Mutant: an answer removes the calls with its session from every port.
EntriesOfOtherSessions(m) == {e \in issued : ~(e.key = m.key /\ e.session = m.session)}

EntriesWithout(m) == {e \in issued : ~SameCall(e, m)}

\* _someip_message_callback, for a response to a request that was sent: the
\* server answers a request whenever it gets it, and datagrams are repeated.
\* Without a queue of the writer the callback raises after removing the entry.
ResponseArrives(m) ==
  /\ issued' = EntriesWithout(m)
  /\ toApp' = [a \in App |->
       IF \E e \in issued : SameCall(e, m) /\ e.app = a THEN Append(toApp[a], m)
       ELSE toApp[a]]
  /\ UNCHANGED <<life, calls, result, toDaemon, sent, deaf>>

-----------------------------------------------------------------------------
Next ==
  \/ \E i \in Instance : CallMethod(i)
  \/ \E i \in Instance, s \in Session :
       Return(i, s) \/ Expire(i, s) \/ TimeOut(i, s) \/ Abandon(i, s)
  \/ \E a \in App : Receive(a) \/ Restart(a) \/ Forward(a)
  \/ \E m \in sent : ResponseArrives(m)

Spec == Init /\ [][Next]_vars

\* The event loops of the application and of the daemon keep running, and the
\* ten seconds of a call pass.
FairSpec ==
  /\ Spec
  /\ \A a \in App : WF_vars(Receive(a)) /\ WF_vars(Forward(a))
  /\ \A i \in Instance, s \in Session :
       WF_vars(Return(i, s)) /\ WF_vars(Expire(i, s)) /\ WF_vars(TimeOut(i, s))

-----------------------------------------------------------------------------
(* Properties                                                              *)

\* A call returns the response to itself: never that of a call of another
\* instance, nor of another call of the same life of its application, however
\* responses are delayed, repeated and reordered.
ResultIsOwn ==
  \A i \in Instance, s \in Session :
    result[i][s] # NoAnswer =>
      /\ result[i][s].instance = i
      /\ result[i][s].session = s

\* A call whose request the daemon sent and that still waits is known to the
\* daemon as a call of its application, or its answer is on the way: no answer,
\* repeated or late, makes the daemon forget a call that is not answered.
WaitingIsTracked ==
  \A i \in Instance, s \in Session :
    LET a == AppOf[i]
    IN  calls[i][s] = "waiting" =>
          \/ \E n \in 1..Len(toDaemon[a]) : toDaemon[a][n].of.instance = i
                                            /\ toDaemon[a][n].session = s
          \/ \E e \in issued : /\ e.key = KeyOf[i] /\ e.session = s
                               /\ e.port = PortOf[i] /\ e.app = a
          \/ \E n \in 1..Len(toApp[a]) : toApp[a][n].key = KeyOf[i]
                                         /\ toApp[a][n].session = s
          \/ a \in deaf

\* The receive task of an application is ended only by an answer to a call whose
\* caller no longer waits, or in a restarted application whose call took the
\* answer to its predecessor: repeated answers alone never end it.
OnlyLateAnswersDeafen ==
  \A a \in deaf :
    \E i \in Instance, s \in Session :
      /\ AppOf[i] = a
      /\ \/ calls[i][s] \in {"expiring", "timed_out", "abandoned"}
         \/ result[i][s] # NoAnswer /\ result[i][s].life < life[a]

\* docs/calling_methods.rst: a call times out if no response is received.  So
\* no response to it waits in the connection when it does.
TimeoutMeansUnanswered ==
  [][\A i \in Instance, s \in Session :
       calls[i][s] = "waiting" /\ calls'[i][s] = "expiring" =>
         \A n \in 1..Len(toApp[AppOf[i]]) : toApp[AppOf[i]][n].of.session # s
                                            \/ toApp[AppOf[i]][n].of.instance # i]_vars

\* What the caller sees of a call.
Seen(i, s) ==
  CASE calls[i][s] \in {"none", "waiting"} -> calls[i][s]
    [] calls[i][s] \in {"resolved", "returned"} -> "answered"
    [] OTHER -> "given_up"

\* A call is what RemoteCall promises: for all that the connection, the table of
\* issued calls and the network lose, repeat, delay and reorder, and across restarts,
\* it is answered at most once, by a response to itself, or given up, and that is final.
Calls == INSTANCE RemoteCall WITH
  Caller <- Instance,
  state  <- [i \in Instance |-> [s \in Session |-> Seen(i, s)]],
  asked  <- {m.of : m \in sent},
  life   <- [i \in Instance |-> life[AppOf[i]]]

ImplementsRemoteCall == Calls!Spec
=============================================================================
