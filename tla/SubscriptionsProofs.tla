------------------------- MODULE SubscriptionsProofs -------------------------
(***************************************************************************)
(* The safety properties of Subscriptions, proved for every set of         *)
(* clients, requests and offers and every choice of times to live; and     *)
(* those of Receiving, which rest on them: who gets an event has asked for *)
(* it, no event is delivered after the daemon told the server to stop, and *)
(* renewals do not multiply events.                                        *)
(***************************************************************************)
EXTENDS Receiving, FiniteSetTheorems, TLAPS

-----------------------------------------------------------------------------
(* The operators the actions are built from.                               *)

\* Ages stay natural numbers and never jump.
LEMMA OlderType ==
  ASSUME NEW age \in Nat
  PROVE  Older(age) \in Nat /\ Older(age) <= age + 1
BY AgeAssumption DEF Older

\* What an offer creates is a subscription, to the endpoint of its request.
LEMMA IdForType ==
  ASSUME NEW r \in Request, NEW o \in Offer
  PROVE  /\ IdFor(r, o) \in SubscriptionId
         /\ EndpointOf(IdFor(r, o)) = EndpointOf(r)
         /\ IdFor(r, o).protocols = r.protocols \cap o.protocols
         /\ FlowOf(IdFor(r, o)) \in Flow
BY RequestAssumption, OfferAssumption
   DEF IdFor, SubscriptionId, RequestType, OfferType, EndpointOf, FlowOf, Flow

\* An offer handles only requests that some client made.
LEMMA HandledWereRequested ==
  ASSUME NEW o, NEW handled \in HandledRequests(o)
  PROVE  handled \subseteq AllRequested
BY DEF HandledRequests, Matching

\* What an offer adds to the pending subscriptions.
LEMMA NewPendingType ==
  ASSUME TypeOK, NEW o \in Offer, NEW handled \in HandledRequests(o)
  PROVE  \A n \in NewPending(handled, o) :
           /\ n \in Subscription
           /\ n.age = 0
           /\ \E r \in handled : n.id = IdFor(r, o)
<1>1. handled \subseteq Request
  BY HandledWereRequested DEF AllRequested, TypeOK
<1>2. ASSUME NEW r \in handled
      PROVE  [id |-> IdFor(r, o), ttl |-> r.ttl, age |-> 0] \in Subscription
  BY <1>1, IdForType, RequestAssumption DEF Subscription, RequestType
<1>3. QED
  BY <1>2 DEF NewPending

-----------------------------------------------------------------------------
(* Type correctness.                                                       *)

LEMMA InitType == Init => TypeOK
BY DEF Init, TypeOK

LEMMA StopSentType ==
  ASSUME TypeOK, NEW S
  PROVE  StopSent(S) \in [Flow -> {"none", "subscribe", "stop"}]
BY DEF TypeOK, StopSent

LEMMA NextType == TypeOK /\ [Next]_vars => TypeOK'
<1> SUFFICES ASSUME TypeOK, [Next]_vars PROVE TypeOK'
  OBVIOUS
<1>1. ASSUME NEW c \in Client, Connect(c) PROVE TypeOK'
  BY <1>1 DEF TypeOK, Connect
<1>2. ASSUME NEW c \in Client, Disconnect(c) PROVE TypeOK'
  <2>1. \A r \in Request : EndpointOf(r) \in Endpoint
    BY RequestAssumption DEF RequestType, EndpointOf, Endpoint
  <2>2. QED
    BY <1>2, <2>1 DEF TypeOK, Disconnect
<1>3. ASSUME NEW c \in Client, NEW r \in Request, Subscribe(c, r) PROVE TypeOK'
  <2>1. r.service \in Service /\ r.group \in Group
    BY RequestAssumption DEF RequestType
  <2>2. requested' \in [Client -> SUBSET Request]
    BY <1>3 DEF TypeOK, Subscribe, AddRequest
  <2>3. asked' \in [Client -> SUBSET (Service \X Group)]
    <3>1. asked[c] \cup {<<r.service, r.group>>} \in SUBSET (Service \X Group)
      BY <2>1 DEF TypeOK
    <3>2. QED
      BY <1>3, <3>1 DEF TypeOK, Subscribe
  <2>4. QED
    BY <1>3, <2>2, <2>3 DEF TypeOK, Subscribe
<1>4. ASSUME NEW c \in Client, NEW r \in Request, Unsubscribe(c, r) PROVE TypeOK'
  <2>1. EndpointOf(r) \in Endpoint
    BY RequestAssumption DEF RequestType, EndpointOf, Endpoint
  <2>2. requested' \in [Client -> SUBSET Request]
    BY <1>4 DEF Unsubscribe, TypeOK
  <2>3. CASE StillRequested(requested', r)
    BY <1>4, <2>2, <2>3 DEF Unsubscribe, TypeOK
  <2>4. CASE PurgeEndpoint(c, r)
    <3>1. pending' \subseteq Subscription /\ active' \subseteq Subscription
      BY <2>4 DEF PurgeEndpoint, TypeOK
    <3>2. lastSent' \in [Flow -> {"none", "subscribe", "stop"}]
      BY <2>4, StopSentType DEF PurgeEndpoint
    <3>3. abandoned' \subseteq Endpoint
      BY <2>1, <2>4 DEF PurgeEndpoint, TypeOK
    <3>4. conn' \in [Client -> {"closed", "open", "broken"}]
      BY <2>4 DEF PurgeEndpoint, TypeOK
    <3>5. QED
      BY <1>4, <2>2, <3>1, <3>2, <3>3, <3>4 DEF Unsubscribe, TypeOK
  <2>5. QED
    BY <1>4, <2>3, <2>4 DEF Unsubscribe
<1>5. ASSUME NEW o \in Offer, OfferArrives(o) PROVE TypeOK'
  <2>0. PICK handled \in HandledRequests(o) :
          \E added \in SUBSET NewPending(handled, o) : pending' = pending \cup added
    BY <1>5 DEF OfferArrives
  <2>1. PICK added \in SUBSET NewPending(handled, o) : pending' = pending \cup added
    BY <2>0
  <2>2. pending' \subseteq Subscription
    BY <2>1, NewPendingType DEF TypeOK
  <2>3. found' \subseteq [offer : Offer, age : Nat]
    BY <1>5 DEF OfferArrives, TypeOK
  <2>4. lastSent' \in [Flow -> {"none", "subscribe", "stop"}]
    BY <1>5 DEF OfferArrives, TypeOK
  <2>5. QED
    BY <1>5, <2>2, <2>3, <2>4 DEF OfferArrives, TypeOK
<1>6. ASSUME NEW s \in Service, NEW g \in Group, AckArrives(s, g) PROVE TypeOK'
  <2>1. told' \in [Client -> [Service \X Group ->
                                {"unknown", "acknowledged", "rejected"}]]
    BY <1>6 DEF AckArrives, TypeOK, Notified
  <2>2. ASSUME NEW p \in Subscription PROVE [p EXCEPT !.age = 0] \in Subscription
    BY DEF Subscription
  <2>3. pending' \subseteq Subscription /\ active' \subseteq Subscription
    BY <1>6, <2>2 DEF AckArrives, Answered, Acknowledge, TypeOK
  <2>4. QED
    BY <1>6, <2>1, <2>3 DEF AckArrives, TypeOK
<1>7. ASSUME NEW s \in Service, NEW g \in Group, NackArrives(s, g) PROVE TypeOK'
  BY <1>7 DEF NackArrives, TypeOK, Notified
<1>8. CASE Tick
  <2>1. ASSUME NEW x \in Subscription
        PROVE  [x EXCEPT !.age = Older(@)] \in Subscription
    BY OlderType DEF Subscription
  <2>2. ASSUME NEW x \in [offer : Offer, age : Nat]
        PROVE  [x EXCEPT !.age = Older(@)] \in [offer : Offer, age : Nat]
    BY OlderType
  <2>3. pending' \subseteq Subscription
    BY <1>8, <2>1 DEF Tick, TypeOK
  <2>4. active' \subseteq Subscription
    BY <1>8, <2>1 DEF Tick, TypeOK
  <2>5. found' \subseteq [offer : Offer, age : Nat]
    BY <1>8, <2>2 DEF Tick, TypeOK
  <2>6. QED
    BY <1>8, <2>3, <2>4, <2>5 DEF Tick, TypeOK
<1>9. CASE CheckTtl
  BY <1>9 DEF CheckTtl, TypeOK
<1>10. CASE UNCHANGED vars
  BY <1>10 DEF vars, TypeOK
<1>11. QED
  BY <1>1, <1>2, <1>3, <1>4, <1>5, <1>6, <1>7, <1>8, <1>9, <1>10 DEF Next

\* Every variable keeps its type.
THEOREM TypeCorrect == Spec => []TypeOK
BY InitType, NextType, PTL DEF Spec
-----------------------------------------------------------------------------
(* Nothing is left behind by a client that unsubscribes.                   *)

LEMMA OrphansInductive ==
  TypeOK /\ OrphansWereAbandoned /\ [Next]_vars => OrphansWereAbandoned'
<1> SUFFICES ASSUME TypeOK, OrphansWereAbandoned, [Next]_vars
             PROVE  OrphansWereAbandoned'
  OBVIOUS
<1> USE DEF OrphansWereAbandoned
<1>1. ASSUME NEW c \in Client, Connect(c) PROVE OrphansWereAbandoned'
  BY <1>1 DEF Connect, Requested, AllRequested
<1>2. ASSUME NEW c \in Client, Disconnect(c) PROVE OrphansWereAbandoned'
  <2>1. ASSUME NEW e, Requested(e) PROVE Requested(e)' \/ e \in abandoned'
    BY <1>2, <2>1 DEF Disconnect, Requested, AllRequested, TypeOK
  <2>2. QED
    BY <1>2, <2>1 DEF Disconnect
<1>3. ASSUME NEW c \in Client, NEW r \in Request, Subscribe(c, r)
      PROVE  OrphansWereAbandoned'
  <2>1. ASSUME NEW e, Requested(e) PROVE Requested(e)'
    BY <1>3, <2>1 DEF Subscribe, AddRequest, Requested, AllRequested, TypeOK
  <2>2. QED
    BY <1>3, <2>1 DEF Subscribe
<1>4. ASSUME NEW c \in Client, NEW r \in Request, Unsubscribe(c, r)
      PROVE  OrphansWereAbandoned'
  \* Only requests for the endpoint of r are withdrawn.
  <2>1. ASSUME NEW e, Requested(e), e # EndpointOf(r) PROVE Requested(e)'
    BY <1>4, <2>1 DEF Unsubscribe, Requested, AllRequested, TypeOK, SameRequest, EndpointOf
  <2>2. CASE StillRequested(requested', r)
    <3>1. Requested(EndpointOf(r))'
      BY <2>2 DEF StillRequested, Requested, AllRequested, SameRequest, EndpointOf
    <3>2. QED
      BY <1>4, <2>1, <2>2, <3>1 DEF Unsubscribe
  <2>3. CASE PurgeEndpoint(c, r)
    <3>1. ASSUME NEW x \in pending' \cup active', EndpointOf(x.id) # EndpointOf(r)
          PROVE  Requested(EndpointOf(x.id))' \/ EndpointOf(x.id) \in abandoned'
      BY <2>1, <2>3, <3>1 DEF PurgeEndpoint
    <3>2. ASSUME NEW x \in pending' \cup active', EndpointOf(x.id) = EndpointOf(r)
          PROVE  EndpointOf(x.id) \in abandoned'
      BY <2>3, <3>2 DEF PurgeEndpoint
    <3>3. QED
      BY <3>1, <3>2
  <2>4. QED
    BY <1>4, <2>2, <2>3 DEF Unsubscribe
<1>5. ASSUME NEW o \in Offer, OfferArrives(o) PROVE OrphansWereAbandoned'
  <2>1. PICK handled \in HandledRequests(o) :
          \E added \in SUBSET NewPending(handled, o) : pending' = pending \cup added
    BY <1>5 DEF OfferArrives
  <2>2. PICK added \in SUBSET NewPending(handled, o) : pending' = pending \cup added
    BY <2>1
  <2>3. ASSUME NEW x \in added PROVE Requested(EndpointOf(x.id))
    <3>1. PICK r \in handled : x.id = IdFor(r, o)
      BY NewPendingType
    <3>2. r \in AllRequested /\ r \in Request
      BY HandledWereRequested DEF AllRequested, TypeOK
    <3>3. QED
      BY <3>1, <3>2, IdForType DEF Requested
  <2>4. QED
    BY <1>5, <2>2, <2>3 DEF OfferArrives, Requested, AllRequested
<1>6. ASSUME NEW s \in Service, NEW g \in Group, AckArrives(s, g)
      PROVE  OrphansWereAbandoned'
  <2>1. ASSUME NEW x \in pending' \cup active'
        PROVE  \E y \in pending \cup active : y.id = x.id
    <3>1. ASSUME NEW p \in pending PROVE [p EXCEPT !.age = 0].id = p.id
      BY DEF TypeOK, Subscription
    <3>2. QED
      BY <1>6, <3>1 DEF AckArrives, Acknowledge, Answered
  <2>2. QED
    BY <1>6, <2>1 DEF AckArrives, Requested, AllRequested
<1>7. ASSUME NEW s \in Service, NEW g \in Group, NackArrives(s, g)
      PROVE  OrphansWereAbandoned'
  BY <1>7 DEF NackArrives, Requested, AllRequested
<1>8. CASE Tick
  <2>1. ASSUME NEW x \in pending' \cup active'
        PROVE  \E y \in pending \cup active : y.id = x.id
    <3>1. ASSUME NEW y \in pending \cup active PROVE [y EXCEPT !.age = Older(@)].id = y.id
      BY DEF TypeOK, Subscription
    <3>2. QED
      BY <1>8, <3>1 DEF Tick
  <2>2. QED
    BY <1>8, <2>1 DEF Tick, Requested, AllRequested
<1>9. CASE CheckTtl
  BY <1>9 DEF CheckTtl, Requested, AllRequested
<1>10. CASE UNCHANGED vars
  BY <1>10 DEF vars, Requested, AllRequested
<1>11. QED
  BY <1>1, <1>2, <1>3, <1>4, <1>5, <1>6, <1>7, <1>8, <1>9, <1>10 DEF Next

\* A subscription that nobody requests was left by a client that disconnected
\* or whose handler raised, never by one that unsubscribed.
THEOREM NoOrphans == Spec => []OrphansWereAbandoned
<1>1. Init => OrphansWereAbandoned
  BY DEF Init, OrphansWereAbandoned
<1>2. QED
  BY <1>1, TypeCorrect, OrphansInductive, PTL DEF Spec
-----------------------------------------------------------------------------
(* What is active was not stopped.                                         *)

NothingBroken == \A c \in Client : conn[c] # "broken"

\* The inductive form also covers what may still become active.
NotStoppedInv ==
  NothingBroken =>
    \A x \in pending \cup active :
      x.id.protocols # {} => lastSent[FlowOf(x.id)] = "subscribe"

LEMMA FlowType ==
  ASSUME NEW x \in Subscription
  PROVE  FlowOf(x.id) \in Flow
BY DEF Subscription, SubscriptionId, FlowOf, Flow

LEMMA NotStoppedInductive ==
  TypeOK /\ NotStoppedInv /\ [Next]_vars => NotStoppedInv'
<1> SUFFICES ASSUME TypeOK, NotStoppedInv, [Next]_vars, NothingBroken'
             PROVE  NotStoppedInv'
  BY DEF NotStoppedInv
<1>1. ASSUME NEW c \in Client, Connect(c) PROVE NotStoppedInv'
  <2>1. NothingBroken
    BY <1>1 DEF Connect, NothingBroken, TypeOK
  <2>2. QED
    BY <1>1, <2>1 DEF Connect, NotStoppedInv
<1>0. ASSUME NEW c \in Client, Disconnect(c) PROVE NotStoppedInv'
  <2>1. NothingBroken
    BY <1>0 DEF Disconnect, NothingBroken, TypeOK
  <2>2. QED
    BY <1>0, <2>1 DEF Disconnect, NotStoppedInv
<1>2. ASSUME NEW c \in Client, NEW r \in Request, Subscribe(c, r) PROVE NotStoppedInv'
  BY <1>2 DEF Subscribe, NotStoppedInv, NothingBroken
<1>3. ASSUME NEW c \in Client, NEW r \in Request, Unsubscribe(c, r) PROVE NotStoppedInv'
  <2>1. CASE StillRequested(requested', r)
    BY <1>3, <2>1 DEF Unsubscribe, NotStoppedInv, NothingBroken
  <2>2. CASE PurgeEndpoint(c, r)
    <3>1. conn' # [conn EXCEPT ![c] = "broken"]
      BY DEF NothingBroken, TypeOK
    <3>2. PICK victims : /\ victims = {a \in active : EndpointOf(a.id) = EndpointOf(r)}
                         /\ active' = active \ victims
                         /\ lastSent' = StopSent(victims)
                         /\ pending' = {p \in pending : EndpointOf(p.id) # EndpointOf(r)}
                         /\ conn' = conn
      BY <2>2, <3>1 DEF PurgeEndpoint
    <3>3. ASSUME NEW x \in pending' \cup active'
          PROVE  x \in pending \cup active /\ EndpointOf(x.id) # EndpointOf(r)
      BY <3>2
    <3>4. ASSUME NEW x \in pending' \cup active'
          PROVE  lastSent'[FlowOf(x.id)] = lastSent[FlowOf(x.id)]
      <4>1. \A a \in victims : FlowOf(a.id) # FlowOf(x.id)
        BY <3>2, <3>3 DEF FlowOf, EndpointOf
      <4>2. FlowOf(x.id) \in Flow
        BY <3>3, FlowType DEF TypeOK
      <4>3. QED
        BY <3>2, <4>1, <4>2 DEF StopSent
    <3>5. QED
      BY <3>2, <3>3, <3>4 DEF NotStoppedInv, NothingBroken
  <2>3. QED
    BY <1>3, <2>1, <2>2 DEF Unsubscribe
<1>4. ASSUME NEW o \in Offer, OfferArrives(o) PROVE NotStoppedInv'
  <2>1. PICK handled \in HandledRequests(o) :
          \E added \in SUBSET NewPending(handled, o) :
            /\ pending' = pending \cup added
            /\ lastSent' =
                 [f \in Flow |->
                    IF \E r \in handled : /\ r.protocols \cap o.protocols # {}
                                          /\ FlowOf(IdFor(r, o)) = f
                      THEN "subscribe" ELSE lastSent[f]]
    BY <1>4 DEF OfferArrives
  <2>2. PICK added \in SUBSET NewPending(handled, o) : pending' = pending \cup added
    BY <2>1
  <2>3. ASSUME NEW x \in added, x.id.protocols # {}
        PROVE  lastSent'[FlowOf(x.id)] = "subscribe"
    <3>1. PICK r \in handled : x.id = IdFor(r, o)
      BY NewPendingType
    <3>2. r \in Request
      BY HandledWereRequested DEF AllRequested, TypeOK
    <3>3. QED
      BY <2>1, <2>3, <3>1, <3>2, IdForType
  <2>4. ASSUME NEW x \in pending \cup active, x.id.protocols # {}
        PROVE  lastSent'[FlowOf(x.id)] = "subscribe"
    <3>1. FlowOf(x.id) \in Flow
      BY FlowType DEF TypeOK
    <3>2. lastSent[FlowOf(x.id)] = "subscribe"
      BY <1>4, <2>4 DEF NotStoppedInv, NothingBroken, OfferArrives
    <3>3. QED
      BY <2>1, <3>1, <3>2
  <2>5. QED
    BY <1>4, <2>2, <2>3, <2>4 DEF OfferArrives, NotStoppedInv
<1>5. ASSUME NEW s \in Service, NEW g \in Group, AckArrives(s, g) PROVE NotStoppedInv'
  <2>1. ASSUME NEW x \in pending' \cup active'
        PROVE  \E y \in pending \cup active : y.id = x.id
    <3>1. ASSUME NEW p \in pending PROVE [p EXCEPT !.age = 0].id = p.id
      BY DEF TypeOK, Subscription
    <3>2. QED
      BY <1>5, <3>1 DEF AckArrives, Acknowledge, Answered
  <2>2. QED
    BY <1>5, <2>1 DEF AckArrives, NotStoppedInv, NothingBroken
<1>6. ASSUME NEW s \in Service, NEW g \in Group, NackArrives(s, g) PROVE NotStoppedInv'
  BY <1>6 DEF NackArrives, NotStoppedInv, NothingBroken
<1>7. CASE Tick
  <2>1. ASSUME NEW x \in pending' \cup active'
        PROVE  \E y \in pending \cup active : y.id = x.id
    <3>1. ASSUME NEW y \in pending \cup active PROVE [y EXCEPT !.age = Older(@)].id = y.id
      BY DEF TypeOK, Subscription
    <3>2. QED
      BY <1>7, <3>1 DEF Tick
  <2>2. QED
    BY <1>7, <2>1 DEF Tick, NotStoppedInv, NothingBroken
<1>8. CASE CheckTtl
  BY <1>8 DEF CheckTtl, NotStoppedInv, NothingBroken
<1>9. CASE UNCHANGED vars
  BY <1>9 DEF vars, NotStoppedInv, NothingBroken
<1>10. QED
  BY <1>0, <1>1, <1>2, <1>3, <1>4, <1>5, <1>6, <1>7, <1>8, <1>9 DEF Next

\* For every active subscription the last entry sent to its server is a
\* SubscribeEventgroup, as long as no handler has failed half way.
THEOREM ActiveNotStopped == Spec => []ActiveIsNotStopped
<1>1. Init => NotStoppedInv
  BY DEF Init, NotStoppedInv
<1>2. NotStoppedInv => ActiveIsNotStopped
  BY DEF NotStoppedInv, NothingBroken, ActiveIsNotStopped
<1>3. QED
  BY <1>1, <1>2, TypeCorrect, NotStoppedInductive, PTL DEF Spec
-----------------------------------------------------------------------------
(* Outcomes are told to those who asked.                                   *)

\* The inductive form says where an outcome may go next: only to who asked, and
\* to nobody on a closed connection.
ToldInv ==
  /\ ToldOnlyIfAsked
  /\ \A c \in Client : \A r \in requested[c] : <<r.service, r.group>> \in asked[c]
  /\ \A c \in Client : conn[c] = "closed" => requested[c] = {}

LEMMA ToldInductive == TypeOK /\ ToldInv /\ [Next]_vars => ToldInv'
<1> SUFFICES ASSUME TypeOK, ToldInv, [Next]_vars PROVE ToldInv'
  OBVIOUS
<1>1. ASSUME NEW c \in Client, Connect(c) PROVE ToldInv'
  BY <1>1 DEF Connect, ToldInv, ToldOnlyIfAsked, TypeOK
<1>2. ASSUME NEW c \in Client, Disconnect(c) PROVE ToldInv'
  BY <1>2 DEF Disconnect, ToldInv, ToldOnlyIfAsked, TypeOK
<1>3. ASSUME NEW c \in Client, NEW r \in Request, Subscribe(c, r) PROVE ToldInv'
  <2>1. \A d \in Client : asked[d] \subseteq asked'[d]
    BY <1>3 DEF Subscribe, TypeOK
  <2>2. <<r.service, r.group>> \in asked'[c]
    BY <1>3 DEF Subscribe, TypeOK
  <2>3. \A d \in Client : \A q \in requested'[d] : q \in requested[d] \/ (d = c /\ q = r)
    BY <1>3 DEF Subscribe, AddRequest, TypeOK
  <2>4. \A d \in Client : conn'[d] = "closed" => requested'[d] = requested[d]
    BY <1>3 DEF Subscribe, TypeOK
  <2>5. told' = told /\ conn' = conn
    BY <1>3 DEF Subscribe
  <2>6. QED
    BY <2>1, <2>2, <2>3, <2>4, <2>5 DEF ToldInv, ToldOnlyIfAsked
<1>4. ASSUME NEW c \in Client, NEW r \in Request, Unsubscribe(c, r) PROVE ToldInv'
  <2>1. \A d \in Client : requested'[d] \subseteq requested[d]
    BY <1>4 DEF Unsubscribe, TypeOK
  <2>2. \A d \in Client : conn'[d] = "closed" => conn[d] = "closed"
    BY <1>4 DEF Unsubscribe, PurgeEndpoint, TypeOK
  <2>3. told' = told /\ asked' = asked
    BY <1>4 DEF Unsubscribe
  <2>4. QED
    BY <2>1, <2>2, <2>3 DEF ToldInv, ToldOnlyIfAsked
<1>5. ASSUME NEW o \in Offer, OfferArrives(o) PROVE ToldInv'
  BY <1>5 DEF OfferArrives, ToldInv, ToldOnlyIfAsked
<1>6. ASSUME NEW s \in Service, NEW g \in Group, NEW outcome,
             told' = Notified(s, g, outcome),
             UNCHANGED <<conn, requested, asked>>
      PROVE  ToldInv'
  <2>1. ASSUME NEW c \in Client, NEW e \in Service \X Group, told'[c][e] # "unknown"
        PROVE  e \in asked[c]
    <3>1. CASE told'[c] = told[c]
      BY <2>1, <3>1 DEF ToldInv, ToldOnlyIfAsked
    <3>2. CASE /\ \E r \in requested[c] : r.service = s /\ r.group = g
               /\ told'[c] = [told[c] EXCEPT ![<<s, g>>] = outcome]
      <4>1. <<s, g>> \in asked[c]
        BY <3>2 DEF ToldInv
      <4>2. CASE e = <<s, g>>
        BY <4>1, <4>2
      <4>3. CASE e # <<s, g>>
        <5>1. told'[c][e] = told[c][e]
          BY <3>2, <4>3 DEF TypeOK
        <5>2. QED
          BY <2>1, <5>1 DEF ToldInv, ToldOnlyIfAsked
      <4>4. QED
        BY <4>2, <4>3
    <3>3. QED
      BY <1>6, <3>1, <3>2 DEF Notified
  <2>2. QED
    BY <1>6, <2>1 DEF ToldInv, ToldOnlyIfAsked
<1>7. ASSUME NEW s \in Service, NEW g \in Group, AckArrives(s, g) PROVE ToldInv'
  BY <1>6, <1>7 DEF AckArrives
<1>8. ASSUME NEW s \in Service, NEW g \in Group, NackArrives(s, g) PROVE ToldInv'
  BY <1>6, <1>8 DEF NackArrives
<1>9. CASE Tick
  BY <1>9 DEF Tick, ToldInv, ToldOnlyIfAsked
<1>10. CASE CheckTtl
  BY <1>10 DEF CheckTtl, ToldInv, ToldOnlyIfAsked
<1>11. CASE UNCHANGED vars
  BY <1>11 DEF vars, ToldInv, ToldOnlyIfAsked
<1>12. QED
  BY <1>1, <1>2, <1>3, <1>4, <1>5, <1>7, <1>8, <1>9, <1>10, <1>11 DEF Next

\* A client hears only of eventgroups it subscribed to on this connection.
THEOREM ToldAsked == Spec => []ToldOnlyIfAsked
<1>1. Init => ToldInv
  BY DEF Init, ToldInv, ToldOnlyIfAsked
<1>2. ToldInv => ToldOnlyIfAsked
  BY DEF ToldInv
<1>3. QED
  BY <1>1, <1>2, TypeCorrect, ToldInductive, PTL DEF Spec

-----------------------------------------------------------------------------
(* Nothing outlives its time.                                              *)

\* All ages are within their limits plus n.
AgesWithin(n) ==
  /\ \A p \in pending : p.age <= PendingLimit + n
  /\ \A a \in active : a.age <= a.ttl + n
  /\ \A f \in found : f.age <= f.offer.ttl + n

\* The inductive form: after the task ran there is no excess at all.
TimeInv ==
  /\ ttlTask = "asleep" => AgesWithin(0)
  /\ ttlTask = "due" => AgesWithin(1)

LEMMA OfferTtl == \A o \in Offer : o.ttl \in Nat
BY OfferAssumption DEF OfferType

LEMMA TimeInductive == TypeOK /\ TimeInv /\ [Next]_vars => TimeInv'
<1> SUFFICES ASSUME TypeOK, TimeInv, [Next]_vars PROVE TimeInv'
  OBVIOUS
<1>1. ASSUME NEW c \in Client, Connect(c) PROVE TimeInv'
  BY <1>1 DEF Connect, TimeInv, AgesWithin
<1>2. ASSUME NEW c \in Client, Disconnect(c) PROVE TimeInv'
  BY <1>2 DEF Disconnect, TimeInv, AgesWithin
<1>3. ASSUME NEW c \in Client, NEW r \in Request, Subscribe(c, r) PROVE TimeInv'
  BY <1>3 DEF Subscribe, TimeInv, AgesWithin
<1>4. ASSUME NEW c \in Client, NEW r \in Request, Unsubscribe(c, r) PROVE TimeInv'
  <2>1. pending' \subseteq pending /\ active' \subseteq active
    BY <1>4 DEF Unsubscribe, PurgeEndpoint
  <2>2. QED
    BY <1>4, <2>1 DEF Unsubscribe, TimeInv, AgesWithin
<1>5. ASSUME NEW o \in Offer, OfferArrives(o) PROVE TimeInv'
  <2>1. \A p \in pending' : p \in pending \/ p.age = 0
    BY <1>5, NewPendingType DEF OfferArrives
  <2>2. \A f \in found' : f \in found \/ (f.age = 0 /\ f.offer \in Offer)
    BY <1>5 DEF OfferArrives
  <2>3. ASSUME NEW n \in {0, 1}, AgesWithin(n) PROVE AgesWithin(n)'
    BY <1>5, <2>1, <2>2, <2>3, OfferTtl, AgeAssumption DEF OfferArrives, AgesWithin
  <2>4. QED
    BY <1>5, <2>3 DEF OfferArrives, TimeInv
<1>6. ASSUME NEW s \in Service, NEW g \in Group, AckArrives(s, g) PROVE TimeInv'
  <2>1. pending' \subseteq pending
    BY <1>6 DEF AckArrives, Acknowledge
  <2>2. \A a \in active' : a \in active \/ (a.age = 0 /\ a.ttl \in Nat)
    <3>1. ASSUME NEW p \in pending
          PROVE  [p EXCEPT !.age = 0].age = 0 /\ [p EXCEPT !.age = 0].ttl \in Nat
      BY DEF TypeOK, Subscription
    <3>2. QED
      BY <1>6, <3>1 DEF AckArrives, Acknowledge, Answered
  <2>3. ASSUME NEW n \in {0, 1}, AgesWithin(n) PROVE AgesWithin(n)'
    BY <1>6, <2>1, <2>2, <2>3 DEF AckArrives, AgesWithin
  <2>4. QED
    BY <1>6, <2>3 DEF AckArrives, TimeInv
<1>7. ASSUME NEW s \in Service, NEW g \in Group, NackArrives(s, g) PROVE TimeInv'
  BY <1>7 DEF NackArrives, TimeInv, AgesWithin
<1>8. CASE Tick
  <2>1. CASE ttlTask = "dead"
    BY <1>8, <2>1 DEF Tick, TimeInv
  <2>2. CASE ttlTask = "asleep"
    <3>1. AgesWithin(0) /\ ttlTask' = "due"
      BY <1>8, <2>2 DEF Tick, TimeInv
    <3>2. \A p \in pending' : p.age <= PendingLimit + 1
      <4>1. ASSUME NEW p \in pending
            PROVE  [p EXCEPT !.age = Older(@)].age <= PendingLimit + 1
        BY <3>1, OlderType, AgeAssumption DEF TypeOK, Subscription, AgesWithin
      <4>2. QED
        BY <1>8, <4>1 DEF Tick
    <3>3. \A a \in active' : a.age <= a.ttl + 1
      <4>1. ASSUME NEW a \in active
            PROVE  [a EXCEPT !.age = Older(@)].age <= [a EXCEPT !.age = Older(@)].ttl + 1
        BY <3>1, OlderType DEF TypeOK, Subscription, AgesWithin
      <4>2. QED
        BY <1>8, <4>1 DEF Tick
    <3>4. \A f \in found' : f.age <= f.offer.ttl + 1
      <4>1. ASSUME NEW f \in found
            PROVE  [f EXCEPT !.age = Older(@)].age
                     <= [f EXCEPT !.age = Older(@)].offer.ttl + 1
        BY <3>1, OlderType, OfferTtl DEF TypeOK, AgesWithin
      <4>2. QED
        BY <1>8, <4>1 DEF Tick
    <3>5. QED
      BY <3>1, <3>2, <3>3, <3>4 DEF TimeInv, AgesWithin
  <2>3. QED
    BY <1>8, <2>1, <2>2 DEF Tick, TypeOK
<1>9. CASE CheckTtl
  <2>1. CASE ttlTask' = "dead"
    BY <2>1 DEF TimeInv
  <2>2. CASE /\ \A a \in active : ~Expired(a)
             /\ found' = {f \in found : ~(f.age > f.offer.ttl)}
             /\ ttlTask' = "asleep"
             /\ UNCHANGED active
    BY <1>9, <2>2, OfferTtl, AgeAssumption
       DEF CheckTtl, Expired, TimeInv, AgesWithin, TypeOK, Subscription
  <2>3. QED
    BY <1>9, <2>1, <2>2 DEF CheckTtl
<1>10. CASE UNCHANGED vars
  BY <1>10 DEF vars, TimeInv, AgesWithin
<1>11. QED
  BY <1>1, <1>2, <1>3, <1>4, <1>5, <1>6, <1>7, <1>8, <1>9, <1>10 DEF Next

\* While the expiry task lives, nothing is kept for more than one unit beyond
\* its time.
THEOREM TimeIsKept == Spec => []WithinTimeToLive
<1>1. Init => TimeInv
  BY DEF Init, TimeInv, AgesWithin
<1>2. TypeOK /\ TimeInv => WithinTimeToLive
  <2>1. ASSUME TypeOK, AgesWithin(0) PROVE AgesWithin(1)
    BY <2>1, OfferTtl, AgeAssumption DEF AgesWithin, TypeOK, Subscription
  <2>2. QED
    BY <2>1 DEF TimeInv, AgesWithin, WithinTimeToLive, TypeOK
<1>3. QED
  BY <1>1, <1>2, TypeCorrect, TimeInductive, PTL DEF Spec

-----------------------------------------------------------------------------
(* An early end is announced.                                              *)

EndAnnounced ==
  \A a \in active :
    (\A b \in active' : b.id # a.id) =>
      \/ Expired(a)
      \/ a.id.protocols = {}
      \/ lastSent'[FlowOf(a.id)] = "stop"

LEMMA StepAnnounces == TypeOK /\ [Next]_vars => EndAnnounced
<1> SUFFICES ASSUME TypeOK, [Next]_vars,
                    NEW a \in active, \A b \in active' : b.id # a.id
             PROVE  \/ Expired(a)
                    \/ a.id.protocols = {}
                    \/ lastSent'[FlowOf(a.id)] = "stop"
  BY DEF EndAnnounced
<1>1. active' # active
  OBVIOUS
<1>2. ASSUME NEW S, a \in S, lastSent' = StopSent(S)
      PROVE  lastSent'[FlowOf(a.id)] = "stop"
  <2>1. FlowOf(a.id) \in Flow
    BY FlowType DEF TypeOK
  <2>2. QED
    BY <1>2, <2>1 DEF StopSent
<1>3. ASSUME NEW c \in Client, NEW r \in Request, Unsubscribe(c, r)
      PROVE  a.id.protocols = {} \/ lastSent'[FlowOf(a.id)] = "stop"
  <2>1. PurgeEndpoint(c, r)
    BY <1>1, <1>3 DEF Unsubscribe
  <2>2. QED
    BY <1>2, <2>1 DEF PurgeEndpoint
<1>4. ASSUME NEW s \in Service, NEW g \in Group, AckArrives(s, g) PROVE FALSE
  <2>1. PICK p \in pending : Acknowledge(p)
    BY <1>1, <1>4 DEF AckArrives, Answered
  <2>2. [p EXCEPT !.age = 0].id = p.id
    BY DEF TypeOK, Subscription
  <2>3. QED
    BY <2>1, <2>2 DEF Acknowledge
<1>5. CASE Tick
  <2>1. [a EXCEPT !.age = Older(@)].id = a.id
    BY DEF TypeOK, Subscription
  <2>2. QED
    BY <1>5, <2>1 DEF Tick
<1>6. CASE CheckTtl
  BY <1>6 DEF CheckTtl
<1>7. QED
  BY <1>1, <1>3, <1>4, <1>5, <1>6
     DEF Next, vars, Connect, Disconnect, Subscribe, OfferArrives, NackArrives

\* An active subscription ends before its time only with a StopSubscribe.
THEOREM EndsAreAnnounced == Spec => EarlyEndIsAnnounced
<1>1. TypeOK /\ [Next]_vars => [EndAnnounced]_vars
  BY StepAnnounces
<1>2. QED
  BY <1>1, TypeCorrect, PTL DEF Spec, EarlyEndIsAnnounced, EndAnnounced

-----------------------------------------------------------------------------
(* Events.                                                                  *)

\* A client that gets a copy has a request equal to one of a match.
LEMMA CopyHasMatch ==
  ASSUME NEW matches, NEW c \in Client, CopiesFor(matches)[c] > 0
  PROVE  conn[c] # "closed" /\ \E m \in matches : HasRequest(c, m.request)
<1>1. CopiesFor(matches)[c] =
        IF conn[c] = "closed" THEN 0
        ELSE Cardinality({m \in matches : HasRequest(c, m.request)})
  BY DEF CopiesFor
<1>2. conn[c] # "closed" /\ Cardinality({m \in matches : HasRequest(c, m.request)}) > 0
  BY <1>1
<1>3. {m \in matches : HasRequest(c, m.request)} # {}
  BY <1>2, FS_EmptySet
<1>4. QED
  BY <1>2, <1>3

\* A match of a notification joins an active subscription with a request there.
LEMMA MatchOfNotification ==
  ASSUME NEW sources, NEW m \in Served(sources)
  PROVE  m.source \in sources /\ EndpointOf(m.request) = EndpointOf(m.source.id)
<1>1. PICK x \in sources \X Requester :
        /\ EndpointOf(x[2].request) = EndpointOf(x[1].id)
        /\ m = [source |-> x[1], of |-> x[2].of, request |-> x[2].request]
  BY DEF Served
<1>2. QED
  BY <1>1

\* The tables, whatever the datagrams do.
TablesInv == TypeOK /\ ToldInv /\ NotStoppedInv

LEMMA TablesAlways == EventSpec => []TablesInv
<1>1. EventInit => TablesInv
  BY InitType DEF EventInit, Init, TablesInv, ToldInv, ToldOnlyIfAsked, NotStoppedInv
<1>2. [EventNext]_eventVars => [Next]_vars
  BY DEF EventNext, eventVars, NotificationArrives, LocalEvent
<1>3. TablesInv /\ [Next]_vars => TablesInv'
  BY NextType, ToldInductive, NotStoppedInductive DEF TablesInv
<1>4. QED
  BY <1>1, <1>2, <1>3, PTL DEF EventSpec

\* What a step delivers, in terms of the tables that it leaves as they are.
LEMMA Delivery ==
  ASSUME EventNext, UNCHANGED vars, got'.kind # "none"
  PROVE  \/ \E s \in Service, e \in Event, server \in Server :
              got' = [kind |-> "remote", service |-> s, event |-> e, server |-> server,
                      copies |-> CopiesFor(Served(Sources(s, e, server)))]
         \/ \E s \in Service, g \in Group, e \in Event :
              /\ e \in EventsOf[g]
              /\ got' = [kind |-> "local", service |-> s, event |-> e,
                         copies |-> CopiesFor({m \in Requester : /\ m.request.service = s
                                                                /\ m.request.group = g})]
<1>1. CASE Next /\ got' = Undelivered
  BY <1>1 DEF Undelivered
<1>2. ASSUME NEW s \in Service, NEW e \in Event, NEW server \in Server,
             NotificationArrives(s, e, server)
      PROVE  got' = [kind |-> "remote", service |-> s, event |-> e, server |-> server,
                     copies |-> CopiesFor(Served(Sources(s, e, server)))]
  BY <1>2 DEF NotificationArrives
<1>3. ASSUME NEW s \in Service, NEW g \in Group, NEW e \in Event, LocalEvent(s, g, e)
      PROVE  /\ e \in EventsOf[g]
             /\ got' = [kind |-> "local", service |-> s, event |-> e,
                        copies |-> CopiesFor({m \in Requester : /\ m.request.service = s
                                                               /\ m.request.group = g})]
  BY <1>3 DEF LocalEvent
<1>4. QED
  BY <1>1, <1>2, <1>3 DEF EventNext

LEMMA NoneOrUnchanged ==
  ASSUME [EventNext]_eventVars
  PROVE  \/ got'.kind = "none"
         \/ UNCHANGED eventVars
         \/ EventNext /\ UNCHANGED vars
<1>1. CASE Next /\ got' = Undelivered
  BY <1>1 DEF Undelivered
<1>2. ASSUME NEW s \in Service, NEW e \in Event, NEW server \in Server,
             NotificationArrives(s, e, server)
      PROVE  UNCHANGED vars
  BY <1>2 DEF NotificationArrives
<1>3. ASSUME NEW s \in Service, NEW g \in Group, NEW e \in Event, LocalEvent(s, g, e)
      PROVE  UNCHANGED vars
  BY <1>3 DEF LocalEvent
<1>4. QED
  BY <1>1, <1>2, <1>3 DEF EventNext

\* A client gets an event only if it subscribed to an eventgroup with it on its
\* present connection, whether the event comes from here or from another ECU, whose
\* other instances the daemon does not tell apart.
THEOREM GotAsked == EventSpec => []GotOnlyIfAsked
<1>1. EventInit => GotOnlyIfAsked
  BY DEF EventInit, GotOnlyIfAsked, Undelivered
<1>2. TablesInv /\ GotOnlyIfAsked /\ [EventNext]_eventVars => GotOnlyIfAsked'
  <2> SUFFICES ASSUME TablesInv, GotOnlyIfAsked, [EventNext]_eventVars,
                      got'.kind # "none", NEW c \in Client, got'.copies[c] > 0
               PROVE  \E s \in MeantFor', g \in Group :
                        got'.event \in EventsOf[g] /\ <<s, g>> \in asked'[c]
    BY DEF GotOnlyIfAsked
  <2>1. CASE UNCHANGED eventVars
    BY <2>1 DEF GotOnlyIfAsked, MeantFor, eventVars, vars
  <2>2. CASE EventNext /\ UNCHANGED vars
    <3>1. asked' = asked
      BY <2>2 DEF vars
    <3>2. \A q \in requested[c] : q.group \in Group /\ <<q.service, q.group>> \in asked[c]
      <4>1. \A q \in requested[c] : q \in RequestType
        BY RequestAssumption DEF TablesInv, TypeOK
      <4> QED
        BY <4>1 DEF TablesInv, ToldInv, RequestType
    <3>3. ASSUME NEW s \in Service, NEW e \in Event, NEW server \in Server,
                 got' = [kind |-> "remote", service |-> s, event |-> e, server |-> server,
                         copies |-> CopiesFor(Served(Sources(s, e, server)))]
          PROVE  \E t \in MeantFor', g \in Group : e \in EventsOf[g] /\ <<t, g>> \in asked[c]
      <4>1. CopiesFor(Served(Sources(s, e, server)))[c] > 0
        BY <3>3
      <4>2. PICK m \in Served(Sources(s, e, server)) : HasRequest(c, m.request)
        BY <4>1, CopyHasMatch
      <4>3. PICK q \in requested[c] : SameRequest(q, m.request)
        BY <4>2 DEF HasRequest
      <4>4. /\ m.source \in Sources(s, e, server)
            /\ EndpointOf(m.request) = EndpointOf(m.source.id)
        BY MatchOfNotification
      <4>5. q.group = m.source.id.group /\ q.service = m.source.id.service
        BY <4>3, <4>4 DEF SameRequest, EndpointOf
      <4>6. e \in EventsOf[q.group] /\ IdOf[q.service] = IdOf[s]
        BY <4>4, <4>5 DEF Sources
      <4>7. q.service \in MeantFor'
        <5>1. q.service \in Service
          BY RequestAssumption DEF TablesInv, TypeOK, RequestType
        <5>2. got'.kind = "remote" /\ got'.service = s
          BY <3>3
        <5> QED
          BY <4>6, <5>1, <5>2 DEF MeantFor
      <4> QED
        BY <3>2, <4>6, <4>7
    <3>4. ASSUME NEW s \in Service, NEW g \in Group, NEW e \in Event, e \in EventsOf[g],
                 got' = [kind |-> "local", service |-> s, event |-> e,
                         copies |-> CopiesFor({m \in Requester : /\ m.request.service = s
                                                                /\ m.request.group = g})]
          PROVE  s \in MeantFor' /\ e \in EventsOf[g] /\ <<s, g>> \in asked[c]
      <4> DEFINE matches == {m \in Requester : m.request.service = s /\ m.request.group = g}
      <4>1. CopiesFor(matches)[c] > 0
        BY <3>4
      <4>2. PICK m \in matches : HasRequest(c, m.request)
        BY <4>1, CopyHasMatch
      <4>3. PICK q \in requested[c] : SameRequest(q, m.request)
        BY <4>2 DEF HasRequest
      <4>4. s \in MeantFor'
        <5>1. got'.kind = "local" /\ got'.service = s
          BY <3>4
        <5> QED
          BY <5>1 DEF MeantFor
      <4> QED
        BY <3>2, <3>4, <4>2, <4>3, <4>4 DEF SameRequest
    <3>5. CASE \E s \in Service, e \in Event, server \in Server :
                 got' = [kind |-> "remote", service |-> s, event |-> e, server |-> server,
                         copies |-> CopiesFor(Served(Sources(s, e, server)))]
      BY <3>1, <3>3, <3>5
    <3>6. CASE \E s \in Service, g \in Group, e \in Event :
                 /\ e \in EventsOf[g]
                 /\ got' = [kind |-> "local", service |-> s, event |-> e,
                            copies |-> CopiesFor({m \in Requester : /\ m.request.service = s
                                                                   /\ m.request.group = g})]
      <4>1. PICK s \in Service, g \in Group, e \in Event :
              /\ e \in EventsOf[g]
              /\ got' = [kind |-> "local", service |-> s, event |-> e,
                         copies |-> CopiesFor({m \in Requester : /\ m.request.service = s
                                                                /\ m.request.group = g})]
        BY <3>6
      <4>2. s \in MeantFor' /\ e \in EventsOf[g] /\ <<s, g>> \in asked[c]
        BY <3>4, <4>1
      <4>3. got'.event = e
        BY <4>1
      <4> QED
        BY <3>1, <4>2, <4>3
    <3> QED
      BY <2>2, <3>5, <3>6, Delivery
  <2> QED
    BY <2>1, <2>2, NoneOrUnchanged
<1>3. QED
  BY <1>1, <1>2, TablesAlways, PTL DEF EventSpec

\* As long as no handler raised half way and every acknowledged subscription has a
\* protocol, events of a server are delivered only while the last entry that it was
\* sent for some eventgroup with the event is a SubscribeEventgroup.
THEOREM NothingComesAfterStop == EventSpec => []NothingAfterStop
<1>1. EventInit => NothingAfterStop
  BY DEF EventInit, NothingAfterStop, Undelivered
<1>2. TablesInv /\ NothingAfterStop /\ [EventNext]_eventVars => NothingAfterStop'
  <2> SUFFICES ASSUME TablesInv, NothingAfterStop, [EventNext]_eventVars,
                      got'.kind = "remote", NEW c \in Client, got'.copies[c] > 0,
                      \A d \in Client : conn'[d] # "broken",
                      \A a \in active' : a.id.protocols # {}
               PROVE  \E f \in Flow : /\ f.server = got'.server
                                      /\ got'.event \in EventsOf[f.group]
                                      /\ lastSent'[f] = "subscribe"
    BY DEF NothingAfterStop
  <2>1. CASE UNCHANGED eventVars
    BY <2>1 DEF NothingAfterStop, eventVars, vars
  <2>2. CASE EventNext /\ UNCHANGED vars
    <3>1. PICK s \in Service, e \in Event, server \in Server :
            got' = [kind |-> "remote", service |-> s, event |-> e, server |-> server,
                    copies |-> CopiesFor(Served(Sources(s, e, server)))]
      <4>1. got'.kind # "none"
        OBVIOUS
      <4>2. ASSUME NEW s \in Service, NEW g \in Group, NEW e \in Event,
                   got' = [kind |-> "local", service |-> s, event |-> e,
                           copies |-> CopiesFor({m \in Requester : /\ m.request.service = s
                                                                  /\ m.request.group = g})]
            PROVE  FALSE
        <5>1. got'.kind = "local"
          BY <4>2
        <5> QED
          BY <5>1
      <4> QED
        BY <2>2, <4>1, <4>2, Delivery
    <3>2. CopiesFor(Served(Sources(s, e, server)))[c] > 0
      BY <3>1
    <3>3. PICK m \in Served(Sources(s, e, server)) : HasRequest(c, m.request)
      BY <3>2, CopyHasMatch
    <3>4. m.source \in Sources(s, e, server)
      BY MatchOfNotification
    <3> DEFINE f == FlowOf(m.source.id)
    <3>5. /\ m.source \in active /\ e \in EventsOf[f.group] /\ f.server = server
          /\ m.source.id.protocols # {}
      BY <2>2, <3>4 DEF Sources, FlowOf, vars
    <3>6. f \in Flow
      BY <3>5, FlowType DEF TablesInv, TypeOK
    <3>7. lastSent'[f] = "subscribe"
      BY <2>2, <3>5 DEF TablesInv, NotStoppedInv, NothingBroken, vars
    <3> QED
      BY <3>1, <3>5, <3>6, <3>7
  <2> QED
    BY <2>1, <2>2, NoneOrUnchanged
<1>3. QED
  BY <1>1, <1>2, TablesAlways, PTL DEF EventSpec
-----------------------------------------------------------------------------
(* How many copies of an event a client gets.                              *)

\* Subscriptions with equal ids are one, and the tables are finite.
OneEachInv ==
  /\ IsFiniteSet(active)
  /\ \A a, b \in active : a.id = b.id => a = b
  /\ \A c \in Client : IsFiniteSet(requested[c])

LEMMA AddRequestFinite ==
  ASSUME NEW S, IsFiniteSet(S), NEW r PROVE IsFiniteSet(AddRequest(S, r))
BY FS_AddElement DEF AddRequest

LEMMA OneEachInductive == TypeOK /\ OneEachInv /\ [Next]_vars => OneEachInv'
<1> SUFFICES ASSUME TypeOK, OneEachInv, [Next]_vars PROVE OneEachInv'
  OBVIOUS
<1>t. requested = [c \in Client |-> requested[c]] /\ \A c \in Client : IsFiniteSet(requested[c])
  BY DEF TypeOK, OneEachInv
<1>a. ASSUME active' \subseteq active, UNCHANGED requested PROVE OneEachInv'
  BY <1>a, FS_Subset DEF OneEachInv
<1>1. ASSUME NEW c \in Client, Connect(c) PROVE OneEachInv'
  BY <1>1, <1>a DEF Connect
<1>2. ASSUME NEW c \in Client, Disconnect(c) PROVE OneEachInv'
  <2>1. UNCHANGED active /\ requested' = [requested EXCEPT ![c] = {}]
    BY <1>2 DEF Disconnect
  <2>2. \A d \in Client : IsFiniteSet(requested'[d])
    BY <1>t, <2>1, FS_EmptySet
  <2> QED
    BY <2>1, <2>2 DEF OneEachInv
<1>3. ASSUME NEW c \in Client, NEW r \in Request, Subscribe(c, r) PROVE OneEachInv'
  <2>1. UNCHANGED active /\ requested' = [requested EXCEPT ![c] = AddRequest(@, r)]
    BY <1>3 DEF Subscribe
  <2>2. \A d \in Client : IsFiniteSet(requested'[d])
    BY <1>t, <2>1, AddRequestFinite
  <2> QED
    BY <2>1, <2>2 DEF OneEachInv
<1>4. ASSUME NEW c \in Client, NEW r \in Request, Unsubscribe(c, r) PROVE OneEachInv'
  <2>1. requested' = [requested EXCEPT ![c] = {q \in @ : ~SameRequest(q, r)}]
    BY <1>4 DEF Unsubscribe
  <2>2. active' \subseteq active
    BY <1>4 DEF Unsubscribe, PurgeEndpoint
  <2>3. {q \in requested[c] : ~SameRequest(q, r)} \subseteq requested[c]
    OBVIOUS
  <2>4. \A d \in Client : requested'[d] \subseteq requested[d]
    BY <1>t, <2>1, <2>3
  <2> QED
    BY <1>t, <2>2, <2>4, FS_Subset DEF OneEachInv
<1>5. ASSUME NEW o \in Offer, OfferArrives(o) PROVE OneEachInv'
  BY <1>5, <1>a DEF OfferArrives
<1>6. ASSUME NEW s \in Service, NEW g \in Group, AckArrives(s, g) PROVE OneEachInv'
  <2>1. UNCHANGED requested
    BY <1>6 DEF AckArrives
  <2>2. CASE UNCHANGED active
    BY <1>a, <2>1, <2>2
  <2>3. ASSUME NEW p \in pending, Acknowledge(p) PROVE OneEachInv'
    <3> DEFINE rest == {a \in active : a.id # p.id}
               new == [p EXCEPT !.age = 0]
    <3>1. active' = rest \cup {new}
      BY <2>3 DEF Acknowledge
    <3>2. new.id = p.id
      BY DEF TypeOK, Subscription
    <3>3. rest \subseteq active
      OBVIOUS
    <3>4. IsFiniteSet(rest)
      BY <3>3, FS_Subset DEF OneEachInv
    <3> HIDE DEF new
    <3>5. IsFiniteSet(active')
      BY <3>1, <3>4, FS_AddElement
    <3>6. \A a, b \in active' : a.id = b.id => a = b
      BY <3>1, <3>2 DEF OneEachInv
    <3> QED
      BY <1>t, <2>1, <3>5, <3>6 DEF OneEachInv
  <2> QED
    BY <1>6, <2>2, <2>3 DEF AckArrives, Answered
<1>7. ASSUME NEW s \in Service, NEW g \in Group, NackArrives(s, g) PROVE OneEachInv'
  BY <1>7, <1>a DEF NackArrives
<1>8. CASE Tick
  <2> DEFINE F(a) == [a EXCEPT !.age = Older(@)]
  <2>1. active' = {F(a) : a \in active} /\ UNCHANGED requested
    BY <1>8 DEF Tick
  <2>2. \A a \in active : F(a).id = a.id
    BY DEF TypeOK, Subscription
  <2> HIDE DEF F
  <2>3. IsFiniteSet(active')
    <3> DEFINE f == [a \in active |-> F(a)]
    <3>1. f \in Surjection(active, active')
      BY <2>1 DEF Surjection
    <3> QED
      BY <3>1, FS_Surjection DEF OneEachInv
  <2>4. \A a, b \in active' : a.id = b.id => a = b
    BY <2>1, <2>2 DEF OneEachInv
  <2> QED
    BY <1>t, <2>1, <2>3, <2>4 DEF OneEachInv
<1>9. CASE CheckTtl
  BY <1>9, <1>a DEF CheckTtl
<1>10. CASE UNCHANGED vars
  BY <1>10, <1>a DEF vars
<1>11. QED
  BY <1>1, <1>2, <1>3, <1>4, <1>5, <1>6, <1>7, <1>8, <1>9, <1>10 DEF Next

\* The matches a client alone at its endpoint gets copies for are of its request, so
\* that their sources tell them apart.
LEMMA AloneGetsOneEach ==
  ASSUME TypeOK, OneEachInv, NEW c \in Client, Cardinality(requested[c]) = 1,
         \A d \in Client \ {c}, r \in requested[c] : ~HolderOfEndpoint(d, r),
         NEW sources \in SUBSET active
  PROVE  CopiesFor(Served(sources))[c] <= Cardinality({a.id : a \in active})
<1> DEFINE S == {m \in Served(sources) : HasRequest(c, m.request)}
           Ids == {a.id : a \in active}
           f == [m \in S |-> m.source.id]
<1>1. PICK r : requested[c] = {r}
  <2>1. IsFiniteSet(requested[c])
    BY DEF OneEachInv
  <2> QED
    BY <2>1, FS_Singleton
<1>2. ASSUME NEW m \in S PROVE m.source \in active /\ m = [source |-> m.source, of |-> c, request |-> r]
  <2>1. PICK x \in sources \X Requester :
          /\ EndpointOf(x[2].request) = EndpointOf(x[1].id)
          /\ m = [source |-> x[1], of |-> x[2].of, request |-> x[2].request]
    BY DEF Served
  <2>2. x[2].of \in Client /\ x[2].request \in requested[x[2].of] /\ x[1] \in active
    BY DEF Requester
  <2>3. SameRequest(r, x[2].request)
    BY <1>1, <2>1 DEF HasRequest
  <2>4. EndpointOf(x[2].request) = EndpointOf(r)
    BY <2>3 DEF SameRequest, EndpointOf
  <2>5. x[2].of = c
    BY <1>1, <2>2, <2>4 DEF HolderOfEndpoint
  <2> QED
    BY <1>1, <2>1, <2>2, <2>5
<1>3. f \in [S -> Ids]
  BY <1>2
<1>4. ASSUME NEW m \in S, NEW n \in S, f[m] = f[n] PROVE m = n
  <2>1. m.source = n.source
    BY <1>2, <1>4 DEF OneEachInv
  <2> QED
    BY <1>2, <2>1
<1> HIDE DEF f
<1>5. f \in Injection(S, Ids)
  BY <1>3, <1>4 DEF Injection, IsInjective
<1>6. IsFiniteSet(Ids)
  <2> DEFINE h == [a \in active |-> a.id]
  <2>1. h \in Surjection(active, Ids)
    BY DEF Surjection
  <2> QED
    BY <2>1, FS_Surjection DEF OneEachInv
<1>7. Cardinality(S) <= Cardinality(Ids) /\ Cardinality(Ids) \in Nat
  BY <1>5, <1>6, FS_Injection, FS_CardinalityType
<1>8. CopiesFor(Served(sources))[c] = IF conn[c] = "closed" THEN 0 ELSE Cardinality(S)
  BY DEF CopiesFor
<1>9. QED
  BY <1>7, <1>8

\* A client with one request, alone at its endpoint, gets an event of another ECU at
\* most once for each set of protocols, however often it renews its subscription.
THEOREM NoMoreThanSubscriptions == EventSpec => []RenewalsDoNotMultiply
<1>1. EventInit => OneEachInv /\ RenewalsDoNotMultiply
  <2> SUFFICES ASSUME EventInit PROVE OneEachInv /\ RenewalsDoNotMultiply
    OBVIOUS
  <2>1. active = {} /\ \A c \in Client : requested[c] = {}
    BY DEF EventInit, Init
  <2>2. RenewalsDoNotMultiply
    BY DEF EventInit, Undelivered, RenewalsDoNotMultiply
  <2> QED
    BY <2>1, <2>2, FS_EmptySet DEF OneEachInv
<1>2. [EventNext]_eventVars => [Next]_vars
  BY DEF EventNext, eventVars, NotificationArrives, LocalEvent
<1>3. TablesInv /\ OneEachInv /\ [EventNext]_eventVars => OneEachInv'
  BY <1>2, OneEachInductive DEF TablesInv
<1>4. TablesInv /\ OneEachInv /\ RenewalsDoNotMultiply /\ [EventNext]_eventVars
        => RenewalsDoNotMultiply'
  <2> SUFFICES ASSUME TablesInv, OneEachInv, RenewalsDoNotMultiply, [EventNext]_eventVars,
                      got'.kind = "remote"
               PROVE  RenewalsDoNotMultiply'
    BY DEF RenewalsDoNotMultiply
  <2>1. CASE UNCHANGED eventVars
    BY <2>1 DEF RenewalsDoNotMultiply, eventVars, vars, HolderOfEndpoint
  <2>2. CASE EventNext /\ UNCHANGED vars
    <3>1. PICK s \in Service, e \in Event, server \in Server :
            got' = [kind |-> "remote", service |-> s, event |-> e, server |-> server,
                    copies |-> CopiesFor(Served(Sources(s, e, server)))]
      <4>1. got'.kind # "none"
        OBVIOUS
      <4>2. ASSUME NEW s \in Service, NEW g \in Group, NEW e \in Event,
                   got' = [kind |-> "local", service |-> s, event |-> e,
                           copies |-> CopiesFor({m \in Requester : /\ m.request.service = s
                                                                  /\ m.request.group = g})]
            PROVE  FALSE
        <5>1. got'.kind = "local"
          BY <4>2
        <5> QED
          BY <5>1
      <4> QED
        BY <2>2, <4>1, <4>2, Delivery
    <3>2. got'.copies = CopiesFor(Served(Sources(s, e, server)))
      BY <3>1
    <3>3. Sources(s, e, server) \in SUBSET active
      BY DEF Sources
    <3>4. active' = active /\ requested' = requested
      BY <2>2 DEF vars
    <3> QED
      BY <3>2, <3>3, <3>4, AloneGetsOneEach DEF TablesInv, RenewalsDoNotMultiply, HolderOfEndpoint
  <2> QED
    BY <2>1, <2>2, NoneOrUnchanged
<1>5. QED
  BY <1>1, <1>3, <1>4, TablesAlways, PTL DEF EventSpec
=============================================================================
