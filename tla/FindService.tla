----------------------------- MODULE FindService -----------------------------
(***************************************************************************)
(* How an application asks the daemon for a service.  _find_service sends a *)
(* request and takes the next message of the receive queue as the answer:  *)
(* requests and answers carry nothing that relates them.  The daemon       *)
(* answers at once what it knows and otherwise probes in the background,   *)
(* so answers overtake each other.                                         *)
(*                                                                         *)
(* One application is modelled: what others do only changes what the       *)
(* daemon knows.  A task stands for one call of _find_service.             *)
(***************************************************************************)
EXTENDS Integers, Sequences, FiniteSets

CONSTANTS
  Task,       \* calls of _find_service
  Remote,     \* service instances of remote ECUs
  Local,      \* service instances of applications of the daemon
  Matches,    \* Matches[t]: the instances the request of t matches
  Attempts,   \* polls of a probe (four in the code)
  MaxPushes   \* bound on the subscriptions of remote ECUs that are forwarded

Service == Remote \cup Local

ASSUME MatchesAssumption == Matches \in [Task -> SUBSET Service]
ASSUME TaskAssumption == IsFiniteSet(Task)
ASSUME BoundAssumption == Attempts \in Nat \ {0} /\ MaxPushes \in Nat

VARIABLES
  found,      \* _found_services: instances remote ECUs offer
  offered,    \* _services_to_offer: instances applications of the daemon offer
  requests,   \* requests on their way to the daemon
  probes,     \* probes[t]: the polls that are left of the background task for t
  toApp,      \* messages on their way to the application
  rxQueue,    \* _rx_message_queue
  getters,    \* tasks that wait for a message, in the order they came
  woken,      \* tasks that were told of a message and have not resumed
  answer,     \* answer[t]: what the task got
  pushes,     \* number of forwarded subscriptions
  connected,  \* the connection is open
  receiving,  \* receive_data_task runs
  heldUp,     \* the daemon waits in the handler of an earlier message
  disturbed   \* history: finds overlapped or were cancelled, or a push arrived

daemonVars == <<found, offered, probes>>
appVars == <<rxQueue, getters, woken, answer>>
loops == <<receiving, heldUp>>
vars == <<daemonVars, appVars, requests, toApp, pushes, connected, disturbed, loops>>

Failure == "failure"   \* a FindServiceResponse without success
Push == "push"         \* an InboundSubscription
Message == Service \cup {Failure, Push}

Unasked == "unasked"
Pending == "pending"
Cancelled == "cancelled"

ASSUME NameAssumption ==
  \A s \in Service : s \notin {Failure, Push, Unasked, Pending, Cancelled}

TypeOK ==
  /\ found \subseteq Remote /\ offered \subseteq Local
  /\ requests \in Seq(Task)
  /\ probes \in [Task -> 0..Attempts]
  /\ toApp \in Seq(Message) /\ rxQueue \in Seq(Message)
  /\ getters \in Seq(Task) /\ woken \in Seq(Task)
  /\ answer \in [Task -> Message \cup {Unasked, Pending, Cancelled}]
  /\ pushes \in 0..MaxPushes
  /\ connected \in BOOLEAN /\ disturbed \in BOOLEAN
  /\ receiving \in BOOLEAN /\ heldUp \in BOOLEAN

-----------------------------------------------------------------------------
Init ==
  /\ found = {} /\ offered = {}
  /\ requests = <<>> /\ toApp = <<>>
  /\ probes = [t \in Task |-> 0]
  /\ rxQueue = <<>> /\ getters = <<>> /\ woken = <<>>
  /\ answer = [t \in Task |-> Unasked]
  /\ pushes = 0
  /\ connected = TRUE /\ disturbed = FALSE
  /\ receiving = TRUE /\ heldUp = FALSE

Waiting == {t \in Task : answer[t] = Pending}

\* A task that waits is in the queue once.
Without(seq, t) ==
  IF \E n \in 1..Len(seq) : seq[n] = t
    THEN LET n == CHOOSE n \in 1..Len(seq) : seq[n] = t
         IN  SubSeq(seq, 1, n - 1) \o SubSeq(seq, n + 1, Len(seq))
    ELSE seq

-----------------------------------------------------------------------------
(* The application                                                         *)

\* _find_service: the request is queued, and a message that is there already is
\* taken at once, though it woke another task.
Find(t) ==
  /\ connected
  /\ answer[t] = Unasked
  /\ requests' = Append(requests, t)
  /\ IF rxQueue = <<>>
     THEN /\ getters' = Append(getters, t)
          /\ answer' = [answer EXCEPT ![t] = Pending]
          /\ UNCHANGED rxQueue
     ELSE /\ answer' = [answer EXCEPT ![t] = Head(rxQueue)]
          /\ rxQueue' = Tail(rxQueue)
          /\ UNCHANGED getters
  /\ disturbed' = (disturbed \/ Waiting # {})
  /\ UNCHANGED <<daemonVars, toApp, woken, pushes, connected, loops>>

\* receive_data_task, _handle_message: what is not handled there is queued and
\* wakes the first waiting task.
Receive ==
  /\ receiving
  /\ toApp # <<>>
  /\ toApp' = Tail(toApp)
  /\ rxQueue' = Append(rxQueue, Head(toApp))
  /\ IF getters = <<>>
     THEN UNCHANGED <<getters, woken>>
     ELSE /\ getters' = Tail(getters)
          /\ woken' = Append(woken, Head(getters))
  /\ UNCHANGED <<daemonVars, requests, answer, pushes, connected, disturbed, loops>>

\* receive_data_task: a message that _handle_message raises at ends the task and
\* leaves the connection open.  Which message that is, MethodCalls says.
ReceiveEnds ==
  /\ receiving
  /\ receiving' = FALSE
  /\ UNCHANGED <<daemonVars, appVars, requests, toApp, pushes, connected, disturbed, heldUp>>

\* A woken task resumes; when its message is gone it waits again.
Resume ==
  /\ woken # <<>>
  /\ woken' = Tail(woken)
  /\ IF rxQueue = <<>>
     THEN /\ getters' = Append(getters, Head(woken))
          /\ UNCHANGED <<rxQueue, answer>>
     ELSE /\ answer' = [answer EXCEPT ![Head(woken)] = Head(rxQueue)]
          /\ rxQueue' = Tail(rxQueue)
          /\ UNCHANGED getters
  /\ UNCHANGED <<daemonVars, requests, toApp, pushes, connected, disturbed, loops>>

\* The caller of a waiting task is cancelled: the answer will be nobody's.  A
\* task that was woken passes it on.
Cancel(t) ==
  /\ t \in Waiting
  /\ answer' = [answer EXCEPT ![t] = Cancelled]
  /\ LET passOn == /\ \E n \in 1..Len(woken) : woken[n] = t
                   /\ rxQueue # <<>>
                   /\ getters # <<>>
     IN  /\ woken' = IF passOn THEN Append(Without(woken, t), Head(getters))
                     ELSE Without(woken, t)
         /\ getters' = IF passOn THEN Tail(getters) ELSE Without(getters, t)
  /\ disturbed' = TRUE
  /\ UNCHANGED <<daemonVars, requests, toApp, rxQueue, pushes, connected, loops>>

-----------------------------------------------------------------------------
(* The daemon                                                              *)

\* handle_client_message: one message of a connection is handled after the other,
\* and a call by TCP waits in its handler until the server is connected.  A
\* handler that raises is the last one.
HoldsUp ==
  /\ connected
  /\ ~heldUp
  /\ heldUp' = TRUE
  /\ UNCHANGED <<daemonVars, appVars, requests, toApp, pushes, connected, disturbed, receiving>>

GoesOn ==
  /\ heldUp
  /\ heldUp' = FALSE
  /\ UNCHANGED <<daemonVars, appVars, requests, toApp, pushes, connected, disturbed, receiving>>

\* Mutant: a request for which nothing is known starts no probe.
HandleWithoutProbe ==
  /\ ~heldUp
  /\ requests # <<>>
  /\ requests' = Tail(requests)
  /\ LET known == (found \cup offered) \cap Matches[Head(requests)]
     IN  IF known # {}
         THEN \E s \in known : toApp' = Append(toApp, s)
         ELSE UNCHANGED toApp
  /\ UNCHANGED <<daemonVars, appVars, pushes, connected, disturbed, loops>>

\* _handle_find_service_request
Handle ==
  /\ ~heldUp
  /\ requests # <<>>
  /\ requests' = Tail(requests)
  /\ LET t == Head(requests)
         known == (found \cup offered) \cap Matches[t]
     IN  \/ /\ \E s \in known : toApp' = Append(toApp, s)
            /\ UNCHANGED probes
         \/ /\ known = {}
            /\ probes' = [probes EXCEPT ![t] = Attempts]
            /\ UNCHANGED toApp
  /\ UNCHANGED <<found, offered, appVars, pushes, connected, disturbed, loops>>

\* Mutant: a probe that found the service polls on and answers again.
PollOn(t) ==
  /\ probes[t] > 0
  /\ probes' = [probes EXCEPT ![t] = @ - 1]
  /\ \/ \E s \in found \cap Matches[t] : toApp' = Append(toApp, s)
     \/ /\ found \cap Matches[t] = {}
        /\ toApp' = IF probes[t] = 1 THEN Append(toApp, Failure) ELSE toApp
  /\ UNCHANGED <<found, offered, requests, appVars, pushes, connected, disturbed, loops>>

\* Mutant: a probe ends without an answer when it found nothing.
PollInSilence(t) ==
  /\ probes[t] > 0
  /\ \/ /\ \E s \in found \cap Matches[t] : toApp' = Append(toApp, s)
        /\ probes' = [probes EXCEPT ![t] = 0]
     \/ /\ found \cap Matches[t] = {}
        /\ probes' = [probes EXCEPT ![t] = @ - 1]
        /\ UNCHANGED toApp
  /\ UNCHANGED <<found, offered, requests, appVars, pushes, connected, disturbed, loops>>

\* Mutant: the attempts are counted down without a look at how many are left.
PollUncounted(t) ==
  /\ connected
  /\ probes' = [probes EXCEPT ![t] = @ - 1]
  /\ toApp' = IF probes[t] = 1 THEN Append(toApp, Failure) ELSE toApp
  /\ UNCHANGED <<found, offered, requests, appVars, pushes, connected, disturbed, loops>>

\* _probe_find_service, after one sleep: only what remote ECUs offer is polled.
Poll(t) ==
  /\ probes[t] > 0
  /\ \/ /\ \E s \in found \cap Matches[t] : toApp' = Append(toApp, s)
        /\ probes' = [probes EXCEPT ![t] = 0]
     \/ /\ found \cap Matches[t] = {}
        /\ probes' = [probes EXCEPT ![t] = @ - 1]
        /\ toApp' = IF probes[t] = 1 THEN Append(toApp, Failure) ELSE toApp
  /\ UNCHANGED <<found, offered, requests, appVars, pushes, connected, disturbed, loops>>

\* _handle_subscription: the offering application is told of a subscriber, and
\* has nothing that handles the message, so it goes to the receive queue.
ForwardSubscription ==
  /\ connected
  /\ pushes < MaxPushes
  /\ pushes' = pushes + 1
  /\ toApp' = Append(toApp, Push)
  /\ disturbed' = TRUE
  /\ UNCHANGED <<daemonVars, appVars, requests, connected, loops>>

\* Offers of remote ECUs arrive and expire.
FoundChanges(s) ==
  /\ connected
  /\ found' = IF s \in found THEN found \ {s} ELSE found \cup {s}
  /\ UNCHANGED <<offered, probes, appVars, requests, toApp, pushes, connected, disturbed, loops>>

\* Applications offer services and stop.
OfferedChanges(s) ==
  /\ connected
  /\ offered' = IF s \in offered THEN offered \ {s} ELSE offered \cup {s}
  /\ UNCHANGED <<found, probes, appVars, requests, toApp, pushes, connected, disturbed, loops>>

\* The connection ends: nothing that is under way arrives, nobody is told.
ConnectionEnds ==
  /\ connected
  /\ connected' = FALSE /\ receiving' = FALSE
  /\ requests' = <<>> /\ toApp' = <<>>
  /\ probes' = [t \in Task |-> 0]
  /\ UNCHANGED <<found, offered, appVars, pushes, disturbed, heldUp>>

-----------------------------------------------------------------------------
Next ==
  \/ \E t \in Task : Find(t) \/ Cancel(t) \/ Poll(t)
  \/ Receive \/ ReceiveEnds \/ Resume
  \/ HoldsUp \/ GoesOn \/ Handle \/ ForwardSubscription \/ ConnectionEnds
  \/ \E s \in Remote : FoundChanges(s)
  \/ \E s \in Local : OfferedChanges(s)

\* The event loops of application and daemon keep running, and sleeps end.  A
\* message of a connection waits for those before it, which are finitely many:
\* when each of their handlers goes on, its own turn comes.  Nothing says that they do.
Spec ==
  /\ Init /\ [][Next]_vars
  /\ WF_vars(Receive) /\ WF_vars(Resume) /\ SF_vars(Handle)
  /\ \A t \in Task : WF_vars(Poll(t))

-----------------------------------------------------------------------------
(* Properties                                                              *)

\* As long as the connection is open there is an answer under way, or to come,
\* for every task that waits, whatever is cancelled, pushed and taken by others.
Outstanding ==
  Len(requests) + Cardinality({t \in Task : probes[t] > 0}) + Len(toApp) + Len(rxQueue)

NobodyIsForgotten == connected => Cardinality(Waiting) <= Outstanding

\* Finds that are made one after the other, without cancellation and in an
\* application that nobody subscribes to, get their own answers.
AnswersAreOwn ==
  ~disturbed => \A t \in Task : answer[t] \in Service => answer[t] \in Matches[t]

\* Every find returns, or the application receives nothing any more: its receive
\* task ended, with the connection or before it.  It is promised to an application
\* no earlier message of which holds the daemon up for good.
EveryFindReturns ==
  []<>~heldUp => \A t \in Task : answer[t] = Pending ~> answer[t] # Pending \/ ~receiving

\* tests/test_client_subscription_state.py: the queue belongs to exchanges of
\* requests and answers, and a push is never queued for a task that waits.
PushesAreConsumed == \A t \in Task : answer[t] # Push
=============================================================================
