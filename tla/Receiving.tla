------------------------------ MODULE Receiving ------------------------------
(***************************************************************************)
(* Events on the subscribing side: a notification from another ECU, or an  *)
(* event of an application of the same daemon, is copied to the clients    *)
(* whose requests it belongs to.  The tables are those of Subscriptions,   *)
(* and the datagrams come at any time.                                     *)
(***************************************************************************)
EXTENDS Subscriptions

CONSTANTS
  IdOf,      \* IdOf[s]: the service id of s, which its other instances have too
  Event,     \* event ids
  EventsOf   \* EventsOf[g]: the events of eventgroup g, as the requests name them

ASSUME EventAssumption == EventsOf \in [Group -> SUBSET Event]

VARIABLE got   \* what the last step delivered: got.copies[c] events to client c

eventVars == <<vars, got>>

Undelivered == [kind |-> "none"]

-----------------------------------------------------------------------------
\* A request and whose it is: several clients may have made the same one.
Requester == {m \in [of : Client, request : Request] : m.request \in requested[m.of]}

\* Client c requests something at the endpoint of r.
HolderOfEndpoint(c, r) == \E q \in requested[c] : EndpointOf(q) = EndpointOf(r)

\* get_client_ids
HasRequest(c, r) == \E q \in requested[c] : SameRequest(q, r)

\* The loops over matches: for each of them one copy goes to every client that has
\* an equal request.  A client without a transmission queue is passed over.
CopiesFor(matches) ==
  [c \in Client |->
     IF conn[c] = "closed" THEN 0
     ELSE Cardinality({m \in matches : HasRequest(c, m.request)})]

\* The active subscriptions a notification of s matches by event, service id and
\* source; a notification names neither the instance nor the version.
Sources(s, e, server) ==
  {a \in active : /\ e \in EventsOf[a.id.group]
                  /\ a.id.server = server
                  /\ IdOf[a.id.service] = IdOf[s]}

\* The requests that active subscriptions serve, by subscription: the protocols are
\* not compared.
Served(sources) ==
  {[source |-> am[1], of |-> am[2].of, request |-> am[2].request] :
     am \in {x \in sources \X Requester : EndpointOf(x[2].request) = EndpointOf(x[1].id)}}

\* _someip_message_callback: the whole search is made for each active
\* subscription that matches.
NotificationArrives(s, e, server) ==
  /\ got' = [kind |-> "remote", service |-> s, event |-> e, server |-> server,
             copies |-> CopiesFor(Served(Sources(s, e, server)))]
  /\ UNCHANGED vars

\* _handle_send_event_request, internal subscriptions: neither the endpoint nor
\* an acknowledgement matters, and the eventgroup is that of the sender.
LocalEvent(s, g, e) ==
  /\ e \in EventsOf[g]
  /\ got' = [kind |-> "local", service |-> s, event |-> e,
             copies |-> CopiesFor({m \in Requester : /\ m.request.service = s
                                                    /\ m.request.group = g})]
  /\ UNCHANGED vars

-----------------------------------------------------------------------------
EventInit == Init /\ got = Undelivered

EventNext ==
  \/ Next /\ got' = Undelivered
  \/ \E s \in Service, e \in Event, server \in Server : NotificationArrives(s, e, server)
  \/ \E s \in Service, g \in Group, e \in Event : LocalEvent(s, g, e)

EventSpec == EventInit /\ [][EventNext]_eventVars

-----------------------------------------------------------------------------
(* Properties                                                              *)

\* What the last event may be taken for: one of another ECU for that of any service
\* with the id, one of this daemon for its own.
MeantFor == IF got.kind = "remote" THEN {s \in Service : IdOf[s] = IdOf[got.service]}
            ELSE {got.service}

\* A client gets an event only if it subscribed to an eventgroup with it on this
\* connection; what an earlier connection with the same id asked for is forgotten.
GotOnlyIfAsked ==
  got.kind # "none" =>
    \A c \in Client : got.copies[c] > 0 =>
      \E s \in MeantFor, g \in Group :
        got.event \in EventsOf[g] /\ <<s, g>> \in asked[c]

\* Events of a server are delivered only while the last thing it was told about
\* some eventgroup with the event is that the daemon subscribes to it: neither an
\* acknowledgement nor an event that comes after the end of a subscription
\* revives it.  (Once a handler raised half way, one may, and so may a subscription
\* without a common protocol, which is acknowledged in place of another.)
NothingAfterStop ==
  (/\ got.kind = "remote" /\ \E c \in Client : got.copies[c] > 0
   /\ \A c \in Client : conn[c] # "broken"
   /\ \A a \in active : a.id.protocols # {})
  => \E f \in Flow : /\ f.server = got.server
                     /\ got.event \in EventsOf[f.group]
                     /\ lastSent[f] = "subscribe"

\* A client with one request, and alone at its endpoint, gets an event of another
\* ECU at most once for each set of protocols subscribed there, however often that
\* is renewed and acknowledged.  (Equal requests of n clients bring each n copies.)
RenewalsDoNotMultiply ==
  got.kind = "remote" =>
    \A c \in Client :
      (/\ Cardinality(requested[c]) = 1
       /\ \A d \in Client \ {c}, r \in requested[c] : ~HolderOfEndpoint(d, r))
      => got.copies[c] <= Cardinality({a.id : a \in active})
=============================================================================
