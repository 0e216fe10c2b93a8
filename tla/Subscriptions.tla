---------------------------- MODULE Subscriptions ----------------------------
(***************************************************************************)
(* The subscribing side of the daemon: what local clients have requested,  *)
(* which Subscribe entries wait for an answer (pending), which were        *)
(* acknowledged (active), which services other ECUs offer (found), and the *)
(* background task that expires all of them.                               *)
(*                                                                         *)
(* Every handler runs to completion on one event loop, so a handler is one *)
(* action.  A timestamp is kept as the age of the entry, which saturates   *)
(* at MaxAge: nothing in the code tells two larger ages apart.             *)
(***************************************************************************)
EXTENDS Integers, FiniteSets

CONSTANTS
  Client,        \* connections of local applications
  Service,       \* (service id, instance id, major version) of a remote service
  Group,         \* eventgroups
  Port,          \* client endpoints on which events are received
  Server,        \* endpoints at which a service is offered
  Protocol,      \* transport protocols
  Request,       \* the subscriptions the applications may ask for
  Offer,         \* the OfferService entries other ECUs may send
  PendingLimit,  \* age after which an unanswered Subscribe is forgotten
  MaxAge         \* ages saturate here; above every time to live

Flow == [service : Service, group : Group, port : Port, server : Server]

SubscriptionId ==
  [service : Service, group : Group, port : Port, server : Server,
   protocols : SUBSET Protocol]

Subscription ==
  [id : SubscriptionId, ttl : Nat, age : Nat]

RequestType ==
  [service : Service, group : Group, port : Port,
   protocols : SUBSET Protocol, ttl : Nat]

OfferType ==
  [service : Service, server : Server, protocols : SUBSET Protocol, ttl : Nat]

ASSUME RequestAssumption == Request \subseteq RequestType
ASSUME OfferAssumption == Offer \subseteq OfferType
ASSUME AgeAssumption ==
  /\ PendingLimit \in Nat
  /\ MaxAge \in Nat
  /\ PendingLimit < MaxAge
  /\ \A x \in Request \cup Offer : x.ttl < MaxAge

VARIABLES
  conn,       \* conn[c]: "closed", "open", or "broken" (its handler raised)
  requested,  \* requested[c]: the subscriptions client c asked for
  pending,    \* Subscribe entries sent and not yet acknowledged
  active,     \* acknowledged subscriptions
  found,      \* services offered by other ECUs
  ttlTask,    \* the expiry task: "asleep", "due", or "dead"
  lastSent,   \* lastSent[f]: the last entry sent to the server of flow f
  told,       \* told[c][s, g]: the last outcome reported to client c
  asked,      \* history: what client c subscribed to on this connection
  abandoned   \* history: endpoints whose requester left without unsubscribing

vars == <<conn, requested, pending, active, found, ttlTask, lastSent, told,
          asked, abandoned>>

Endpoint == [service : Service, group : Group, port : Port]

TypeOK ==
  /\ conn \in [Client -> {"closed", "open", "broken"}]
  /\ requested \in [Client -> SUBSET Request]
  /\ pending \subseteq Subscription
  /\ active \subseteq Subscription
  /\ found \subseteq [offer : Offer, age : Nat]
  /\ ttlTask \in {"asleep", "due", "dead"}
  /\ lastSent \in [Flow -> {"none", "subscribe", "stop"}]
  /\ told \in [Client -> [Service \X Group ->
                            {"unknown", "acknowledged", "rejected"}]]
  /\ asked \in [Client -> SUBSET (Service \X Group)]
  /\ abandoned \subseteq Endpoint

-----------------------------------------------------------------------------
(* Identity of subscriptions, as __eq__ of the code defines it.            *)

\* Equality of requested subscriptions leaves the time to live out.
SameRequest(q, r) ==
  /\ q.service = r.service
  /\ q.group = r.group
  /\ q.port = r.port
  /\ q.protocols = r.protocols

EndpointOf(x) == [service |-> x.service, group |-> x.group, port |-> x.port]

FlowOf(i) == [service |-> i.service, group |-> i.group, port |-> i.port,
              server |-> i.server]

\* The pending subscription that offer o creates for request r.
IdFor(r, o) ==
  [service |-> r.service, group |-> r.group, port |-> r.port,
   server |-> o.server, protocols |-> r.protocols \cap o.protocols]

Older(age) == IF age < MaxAge THEN age + 1 ELSE age

AllRequested == UNION {requested[c] : c \in Client}

-----------------------------------------------------------------------------
Init ==
  /\ conn = [c \in Client |-> "closed"]
  /\ requested = [c \in Client |-> {}]
  /\ pending = {}
  /\ active = {}
  /\ found = {}
  /\ ttlTask = "asleep"
  /\ lastSent = [f \in Flow |-> "none"]
  /\ told = [c \in Client |-> [e \in Service \X Group |-> "unknown"]]
  /\ asked = [c \in Client |-> {}]
  /\ abandoned = {}

\* new_client_connected
Connect(c) ==
  /\ conn[c] = "closed"
  /\ conn' = [conn EXCEPT ![c] = "open"]
  /\ told' = [told EXCEPT ![c] = [e \in Service \X Group |-> "unknown"]]
  /\ asked' = [asked EXCEPT ![c] = {}]
  /\ UNCHANGED <<requested, pending, active, found, ttlTask, lastSent, abandoned>>

\* Mutant: the requests of a disconnected client are kept.
DisconnectKeepingRequests(c) ==
  /\ conn[c] = "open"
  /\ conn' = [conn EXCEPT ![c] = "closed"]
  /\ abandoned' = abandoned \cup {EndpointOf(r) : r \in requested[c]}
  /\ UNCHANGED <<requested, pending, active, found, ttlTask, lastSent, told, asked>>

\* client_disconnected: the requests of the client go, its pending and
\* active subscriptions stay until they expire.
Disconnect(c) ==
  /\ conn[c] = "open"
  /\ conn' = [conn EXCEPT ![c] = "closed"]
  /\ requested' = [requested EXCEPT ![c] = {}]
  /\ abandoned' = abandoned \cup {EndpointOf(r) : r \in requested[c]}
  /\ UNCHANGED <<pending, active, found, ttlTask, lastSent, told, asked>>

\* Mutant: the time to live is lost when the request is stored.
AddRequestWithoutTtl(S, r) == S \cup {[r EXCEPT !.ttl = 0]}

\* The storage keeps the first of two equal requests of a client.
AddRequest(S, r) == IF \E q \in S : SameRequest(q, r) THEN S ELSE S \cup {r}

\* _handle_subscribe_eventgroup_request.  The reception endpoint it opens is
\* the subject of module Endpoints; here r names the port it resolved.
Subscribe(c, r) ==
  /\ conn[c] = "open"
  /\ requested' = [requested EXCEPT ![c] = AddRequest(@, r)]
  /\ asked' = [asked EXCEPT ![c] = @ \cup {<<r.service, r.group>>}]
  /\ UNCHANGED <<conn, pending, active, found, ttlTask, lastSent, told, abandoned>>

-----------------------------------------------------------------------------
(* _handle_stop_subscribe_eventgroup_request                               *)

StillRequested(req, r) == \E c \in Client : \E q \in req[c] : SameRequest(q, r)

\* Mutant: active subscriptions are dropped without a StopSubscribe.
StopNotSent(S) == lastSent

StopSent(S) ==
  [f \in Flow |-> IF \E a \in S : FlowOf(a.id) = f THEN "stop" ELSE lastSent[f]]

\* Mutant: a subscription still waiting for its answer is forgotten about.
PurgeActiveOnly(c, r) ==
  LET victims == {a \in active : EndpointOf(a.id) = EndpointOf(r)}
  IN  /\ active' = active \ victims
      /\ lastSent' = StopSent(victims)
      /\ abandoned' = abandoned \ {EndpointOf(r)}
      /\ UNCHANGED <<conn, pending>>

\* What is left of the daemon's subscriptions for the endpoint of r once no
\* client requests r.  A StopSubscribe entry without an endpoint option cannot
\* be serialized: an active subscription whose protocol set is empty makes the
\* handler raise, after any number of the others were processed, and the
\* exception ends the connection's read loop without client_disconnected.
PurgeEndpoint(c, r) ==
  LET victims == {a \in active : EndpointOf(a.id) = EndpointOf(r)}
      mute    == {a \in victims : a.id.protocols = {}}
  IN  /\ pending' = {p \in pending : EndpointOf(p.id) # EndpointOf(r)}
      /\ \/ /\ mute = {}
            /\ active' = active \ victims
            /\ lastSent' = StopSent(victims)
            /\ abandoned' = abandoned \ {EndpointOf(r)}
            /\ UNCHANGED conn
         \/ \E stopped \in SUBSET (victims \ mute), m \in mute :
              /\ active' = active \ (stopped \cup {m})
              /\ lastSent' = StopSent(stopped)
              /\ abandoned' = abandoned \cup {EndpointOf(r)}
              /\ conn' = [conn EXCEPT ![c] = "broken"]

Unsubscribe(c, r) ==
  /\ conn[c] = "open"
  /\ requested' = [requested EXCEPT ![c] = {q \in @ : ~SameRequest(q, r)}]
  /\ IF StillRequested(requested', r)
       THEN UNCHANGED <<conn, pending, active, lastSent, abandoned>>
       ELSE PurgeEndpoint(c, r)
  /\ UNCHANGED <<found, ttlTask, told, asked>>

-----------------------------------------------------------------------------
(* _handle_offered_service                                                 *)

Matching(o) == {r \in AllRequested : r.service = o.service}

\* One Subscribe entry per matching request.  An entry without a common
\* protocol has no option and cannot be serialized: its subscription is
\* already pending when the exception drops the rest of the datagram.  The
\* order of the requests is the order in which they were made, abstracted here
\* to any order.
HandledRequests(o) ==
  LET dumb == {r \in Matching(o) : r.protocols \cap o.protocols = {}}
  IN  IF dumb = {} THEN {Matching(o)}
      ELSE {served \cup {d} : served \in SUBSET (Matching(o) \ dumb), d \in dumb}

\* Adding to the set of pending subscriptions keeps an equal one, with its age
\* and its time to live, that is already there.
NewPending(handled, o) ==
  {[id |-> IdFor(r, o), ttl |-> r.ttl, age |-> 0] : r \in
     {q \in handled : \A p \in pending : p.id # IdFor(q, o)}}

OfferArrives(o) ==
  /\ found' = {f \in found : f.offer # o} \cup {[offer |-> o, age |-> 0]}
  /\ \E handled \in HandledRequests(o) :
       \E added \in SUBSET NewPending(handled, o) :
         /\ \A n \in NewPending(handled, o) : \E a \in added : a.id = n.id
         /\ \A a, b \in added : a.id = b.id => a = b
         /\ pending' = pending \cup added
         /\ lastSent' =
              [f \in Flow |->
                 IF \E r \in handled : /\ r.protocols \cap o.protocols # {}
                                       /\ FlowOf(IdFor(r, o)) = f
                   THEN "subscribe" ELSE lastSent[f]]
  /\ UNCHANGED <<conn, requested, active, ttlTask, told, asked, abandoned>>

-----------------------------------------------------------------------------
(* Answers of the offering side.  The datagrams may be lost, repeated or   *)
(* arbitrarily late, so an answer may arrive at any time once a Subscribe  *)
(* entry for the eventgroup was sent.                                      *)

WasSubscribed(s, g) ==
  \E f \in Flow : f.service = s /\ f.group = g /\ lastSent[f] # "none"

\* _notify_subscription_state: every client that requests the eventgroup.
Notified(s, g, outcome) ==
  [c \in Client |->
     IF conn[c] = "open" /\ \E r \in requested[c] : r.service = s /\ r.group = g
       THEN [told[c] EXCEPT ![<<s, g>>] = outcome] ELSE told[c]]

\* The pending subscriptions an answer for (s, g) matches: the entry carries
\* no client endpoint.
Answered(s, g) == {p \in pending : p.id.service = s /\ p.id.group = g}

\* Mutant: the subscription is discarded and not added again.
AcknowledgeDiscarding(p) ==
  /\ active' = {a \in active : a.id # p.id}
  /\ pending' = pending \ {p}

\* Mutant: an acknowledgement adds to the subscriptions it renews.
AcknowledgeAgain(p) ==
  /\ active' = active \cup {[p EXCEPT !.age = 0]}
  /\ pending' = pending \ {p}

Acknowledge(p) ==
  /\ active' = {a \in active : a.id # p.id} \cup {[p EXCEPT !.age = 0]}
  /\ pending' = pending \ {p}

\* _handle_sd_subscribe_ack_eventgroup_entry: the first match, in no
\* particular order, becomes active.
AckArrives(s, g) ==
  /\ WasSubscribed(s, g)
  /\ IF Answered(s, g) = {}
       THEN UNCHANGED <<pending, active>>
       ELSE \E p \in Answered(s, g) : Acknowledge(p)
  /\ told' = Notified(s, g, "acknowledged")
  /\ UNCHANGED <<conn, requested, found, ttlTask, lastSent, asked, abandoned>>

\* _handle_sd_subscribe_nack_eventgroup_entry: only the clients hear of it.
NackArrives(s, g) ==
  /\ WasSubscribed(s, g)
  /\ told' = Notified(s, g, "rejected")
  /\ UNCHANGED <<conn, requested, pending, active, found, ttlTask, lastSent,
                 asked, abandoned>>

-----------------------------------------------------------------------------
(* Time, and the task that wakes up ten times a second.                    *)

\* One unit of time passes; the task has run since the last unit did.
Tick ==
  /\ ttlTask # "due"
  /\ ttlTask' = IF ttlTask = "asleep" THEN "due" ELSE ttlTask
  /\ pending' = {[p EXCEPT !.age = Older(@)] : p \in pending}
  /\ active' = {[a EXCEPT !.age = Older(@)] : a \in active}
  /\ found' = {[f EXCEPT !.age = Older(@)] : f \in found}
  /\ UNCHANGED <<conn, requested, lastSent, told, asked, abandoned>>

Expired(x) == x.age > x.ttl

\* Mutant: unanswered subscriptions are never cleaned up.
CheckTtlOfActive ==
  /\ ttlTask = "due"
  /\ \A a \in active : ~Expired(a)
  /\ found' = {f \in found : ~(f.age > f.offer.ttl)}
  /\ ttlTask' = "asleep"
  /\ UNCHANGED <<conn, requested, pending, active, lastSent, told, asked, abandoned>>

\* _check_service_ttl_task_impl: pending, then active, then found services.
\* Removing the first expired active subscription raises (its log line reads
\* an attribute that does not exist), which ends the task.
CheckTtl ==
  /\ ttlTask = "due"
  /\ pending' = {p \in pending : ~(p.age > PendingLimit)}
  /\ \/ /\ \A a \in active : ~Expired(a)
        /\ found' = {f \in found : ~(f.age > f.offer.ttl)}
        /\ ttlTask' = "asleep"
        /\ UNCHANGED active
     \/ \E a \in {b \in active : Expired(b)} :
        /\ active' = active \ {a}
        /\ ttlTask' = "dead"
        /\ UNCHANGED found
  /\ UNCHANGED <<conn, requested, lastSent, told, asked, abandoned>>

-----------------------------------------------------------------------------
Next ==
  \/ \E c \in Client : Connect(c) \/ Disconnect(c)
  \/ \E c \in Client, r \in Request : Subscribe(c, r) \/ Unsubscribe(c, r)
  \/ \E o \in Offer : OfferArrives(o)
  \/ \E s \in Service, g \in Group : AckArrives(s, g) \/ NackArrives(s, g)
  \/ Tick
  \/ CheckTtl

Spec == Init /\ [][Next]_vars
-----------------------------------------------------------------------------
(* Fairness.  The event loop keeps running: time passes and a due task is  *)
(* executed.  The offering side repeats its offers, and answers while the  *)
(* daemon still waits (an answer takes milliseconds, the wait is ten       *)
(* seconds): infinitely many chances to answer include one it takes.       *)

AnswerArrivesInTime(s, g) == Answered(s, g) # {} /\ AckArrives(s, g)

FairSpec ==
  /\ Spec
  /\ WF_vars(Tick)
  /\ WF_vars(CheckTtl)
  /\ \A o \in Offer : WF_vars(OfferArrives(o))
  /\ \A s \in Service, g \in Group : SF_vars(AnswerArrivesInTime(s, g))

-----------------------------------------------------------------------------
(* Properties                                                              *)

Requested(e) == \E r \in AllRequested : EndpointOf(r) = e

\* A subscription that no client requests any more, and that the daemon still
\* has pending or active, was left by a client that disconnected (or whose
\* handler raised): a client that unsubscribes leaves nothing behind, however
\* its request is ordered with offers, answers and the requests of others.
OrphansWereAbandoned ==
  \A x \in pending \cup active :
    Requested(EndpointOf(x.id)) \/ EndpointOf(x.id) \in abandoned

\* While the expiry task lives, nothing outlives its time by more than the one
\* unit in which the task has yet to run.
WithinTimeToLive ==
  ttlTask # "dead" =>
    /\ \A p \in pending : p.age <= PendingLimit + 1
    /\ \A a \in active : a.age <= a.ttl + 1
    /\ \A f \in found : f.age <= f.offer.ttl + 1

\* What the daemon believes active it has not itself stopped: for every active
\* subscription the last entry sent to the server is a SubscribeEventgroup,
\* also when the acknowledgement is older than an unsubscribe.  (A handler that
\* raised half way may have stopped one of two subscriptions of a flow.)
ActiveIsNotStopped ==
  (\A c \in Client : conn[c] # "broken") =>
    \A a \in active : a.id.protocols # {} => lastSent[FlowOf(a.id)] = "subscribe"

\* A client hears of an answer only if it subscribed to the eventgroup on this
\* connection: what an earlier connection requested is forgotten.
ToldOnlyIfAsked ==
  \A c \in Client, e \in Service \X Group :
    told[c][e] # "unknown" => e \in asked[c]

\* An active subscription ends early only with a StopSubscribe to its server;
\* otherwise it stays until its time to live has passed since the last
\* acknowledgement.
EarlyEndIsAnnounced ==
  [][\A a \in active :
       (\A b \in active' : b.id # a.id) =>
         \/ Expired(a)
         \/ a.id.protocols = {}
         \/ lastSent'[FlowOf(a.id)] = "stop"]_vars

\* Some client asks for the service by protocols that offer o does not have: its
\* handler raises there, and need not come to the other requests.
Raises(o) == \E q \in Matching(o) : q.protocols \cap o.protocols = {}

\* A subscription that stays requested, and has a protocol in common with the offer,
\* becomes active, whatever expires, is unsubscribed or answered in between; provided
\* that a time comes from which on nobody asks for the service by other protocols only,
\* be it the same client or another one.
RequestsBecomeActive ==
  \A o \in Offer : <>[]~Raises(o) =>
    \A c \in Client, r \in Request :
      (r.service = o.service /\ r.protocols \cap o.protocols # {}) =>
        (r \in requested[c] ~>
           (r \notin requested[c] \/ \E a \in active : a.id = IdFor(r, o)))

\* docs/service_discovery.rst: a subscription that is not renewed is removed
\* once its time to live has passed.
ExpiredAreRemoved == \A a \in active : a.age <= a.ttl + 1
=============================================================================
