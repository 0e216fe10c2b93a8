------------------------------- MODULE Serving -------------------------------
(***************************************************************************)
(* Method calls between two ECUs as the daemon of the server sees them:    *)
(* requests come in by datagrams or over the TCP connection of a daemon    *)
(* like itself, are forwarded to the applications that offer the service,  *)
(* run in a task each, and are answered from one of the daemon's endpoints.*)
(*                                                                         *)
(* An offer opens its endpoints at once, and no bind fails (module         *)
(* Endpoints has what happens in between); what a handler returns is left  *)
(* out.  The calling daemon has one application and one connection, to     *)
(* TcpPort; a datagram holds one message.                                  *)
(***************************************************************************)
EXTENDS Framing, Functions

CONSTANTS
  Service,       \* [id, instance, application, port, protocols]
  Request,       \* [id, port, protocol, key]
  TcpPort,       \* the port of the service that is called over TCP
  RequestSize,   \* in units of four bytes
  ResponseSize,
  MaxServers,    \* bound: how often a TCP endpoint is opened
  MaxBreaks      \* bound: how often the connection ends

Protocol == {"udp", "tcp"}

\* An instance of a service is offered at one address.
ASSUME ServiceAssumption ==
  /\ \A s \in Service : s.protocols \subseteq Protocol
  /\ \A s, t \in Service : s.id = t.id /\ s.instance = t.instance => s = t
ASSUME RequestAssumption ==
  /\ \A r \in Request : r.protocol \in Protocol /\ (r.protocol = "tcp" => r.port = TcpPort)
  /\ NoMessage \notin Request
ASSUME SizeAssumption ==
  /\ RequestSize \in Nat /\ RequestSize >= SmallestMessage
  /\ ResponseSize \in Nat /\ ResponseSize >= SmallestMessage
ASSUME BoundAssumption == MaxServers \in Nat /\ MaxBreaks \in Nat

VARIABLES
  offered,   \* the services offered
  endpoints, \* _someip_server_endpoints, for TCP with the number of the client manager
  opened,    \* how many client managers there have been
  handling,  \* tasks: from the forwarding of a request to the response in the daemon
  sent,      \* history: the responses sent, and from which port
  task,      \* _connect_and_receive of the client endpoint; "none" before it exists
  link,      \* the connection
  breaks,    \* how many connections have ended
  waiting,   \* the calls that the caller's connection to its daemon holds
  got,       \* history: the responses that the caller got, in order
  disturbed, \* history: something was stopped or ended
  overlap    \* history: a request was sent while another was on its way

server == <<offered, endpoints, opened, handling, sent>>
client == <<task, waiting, got>>
vars   == <<server, client, link, breaks, disturbed, overlap>>

NoLink == [status |-> "none"]

Connected(l) == l.status \in {"up", "ended"}

Init ==
  /\ offered = {} /\ endpoints = {} /\ opened = 0
  /\ handling = {} /\ sent = {}
  /\ task = "none" /\ link = NoLink /\ breaks = 0
  /\ waiting = <<>> /\ got = <<>>
  /\ disturbed = FALSE /\ overlap = FALSE

-----------------------------------------------------------------------------
(* The daemon and the applications of the server                           *)

Application == {s.application : s \in Service}

\* The services behind an endpoint.
At(services, port, protocol) ==
  {s \in services : s.port = port /\ protocol \in s.protocols}

\* get_endpoint_by_ip_port, has_endpoint: whoever the endpoint is of.
EndpointsAt(stored, port, protocol) ==
  {e \in stored : e.port = port /\ e.protocol = protocol}

\* get_endpoint: the one an application stored first, which for TCP is the one with
\* the lowest number.  The order of UDP endpoints is left open: one of them.
GetEndpoint(a, protocol) ==
  LET own == {e \in endpoints : e.of = a /\ e.protocol = protocol}
  IN  {e \in own : \A f \in own : e.manager <= f.manager}

\* Mutant: without looking for an endpoint.
AllProtocols(s) == s.protocols

\* What an offer has to open.
Missing(s) == {p \in s.protocols : EndpointsAt(endpoints, s.port, p) = {}}

\* _handle_offer_service_request, also of what is offered already
OfferService(s) ==
  /\ offered' = offered \cup {s}
  /\ opened' = IF "tcp" \in Missing(s) THEN opened + 1 ELSE opened
  /\ opened' <= MaxServers
  /\ endpoints' = endpoints \cup
       {[of |-> s.application, port |-> s.port, protocol |-> p,
         manager |-> IF p = "tcp" THEN opened' ELSE 0] : p \in Missing(s)}
  /\ UNCHANGED <<handling, sent, client, link, breaks, disturbed, overlap>>

\* A UDP endpoint goes with the last service behind it, if it is of the application
\* that stops.  Of the TCP endpoints the first one goes, whatever its port and
\* whoever is still behind it.
Released(s) ==
  {e \in endpoints :
     /\ e.of = s.application /\ e.protocol \in s.protocols
     /\ \/ e.protocol = "udp" /\ e.port = s.port /\ At(offered \ {s}, s.port, "udp") = {}
        \/ e \in GetEndpoint(s.application, "tcp")}

\* What the histories of a task remember: that its endpoint is not among those that
\* are left, and that its service is the one that is stopped.
Noticing(h, left) ==
  [h EXCEPT !.closed = @ \/ EndpointsAt(left, h.request.port, h.request.protocol) = {}]

Told(h, s) == [h EXCEPT !.stopped = @ \/ h.service = s]

\* _handle_stop_offer_service_request, also of what is not offered.  No connection
\* ends: a TCP server that is closed only accepts no more.
StopOfferService(s) ==
  /\ offered' = offered \ {s}
  /\ endpoints' = endpoints \ Released(s)
  /\ handling' = {Told(Noticing(h, endpoints'), s) : h \in handling}
  /\ disturbed' = TRUE
  /\ UNCHANGED <<opened, sent, client, link, breaks, overlap>>

\* client_disconnected: the handlers end with the application, and its endpoints go,
\* whoever else is behind them.
ApplicationEnds(a) ==
  /\ offered' = {s \in offered : s.application # a}
  /\ endpoints' = {e \in endpoints : e.of # a}
  /\ handling' = {Noticing(h, endpoints') : h \in {g \in handling : g.service.application # a}}
  /\ disturbed' = TRUE
  /\ UNCHANGED <<opened, sent, client, link, breaks, overlap>>

\* _someip_message_callback for a request, and _handle_message in the
\* application: a task for each service at the address with that id.
HandledFor(r) ==
  {[request |-> r, service |-> s, stopped |-> FALSE,
    closed |-> EndpointsAt(endpoints, r.port, r.protocol) = {}] :
     s \in {t \in offered : t.id = r.id /\ t.port = r.port}}

\* A datagram that is not lost.
RequestArrives(r) ==
  /\ r.protocol = "udp"
  /\ \A h \in handling \cup sent : h.request # r
  /\ EndpointsAt(endpoints, r.port, "udp") # {}
  /\ handling' = handling \cup HandledFor(r)
  /\ UNCHANGED <<offered, endpoints, opened, sent, client, link, breaks, disturbed, overlap>>

\* Mutant: any endpoint of the application, whatever the request was for.
AnyEndpoint(h) ==
  {e \in endpoints : e.of = h.service.application /\ e.protocol = h.request.protocol}

\* Where to answer from: the endpoint where the service is offered now or, if there
\* is no such service or no endpoint there, the first one of the application.
ResponseEndpoints(h) ==
  LET protocol == h.request.protocol
      own   == {s \in offered : s.id = h.service.id /\ s.instance = h.service.instance}
      there == UNION {EndpointsAt(endpoints, s.port, protocol) : s \in own}
  IN  IF there # {} THEN there ELSE GetEndpoint(h.service.application, protocol)

\* TCPSomeipEndpoint.sendto: only a connection that this endpoint accepted.
Written(l, e, r) ==
  IF l.status = "up" /\ l.manager = e.manager
    THEN [l EXCEPT !.toClient = @ \o Units(r, ResponseSize)]
    ELSE l

\* handle_single_method_call returns, _handle_inbound_call_method_response
Respond(h) ==
  /\ h \in handling
  /\ handling' = handling \ {h}
  /\ \/ /\ ResponseEndpoints(h) = {}
        /\ UNCHANGED <<sent, link>>
     \/ \E e \in ResponseEndpoints(h) :
          /\ sent' = sent \cup {[request |-> h.request, from |-> e.port,
                                stopped |-> h.stopped, closed |-> h.closed]}
          /\ link' = IF h.request.protocol = "tcp" THEN Written(link, e, h.request) ELSE link
  /\ UNCHANGED <<offered, endpoints, opened, client, breaks, disturbed, overlap>>

\* TcpClientProtocol.data_received: a chunk of any size.
ServerReads(n) ==
  /\ link.status = "up"
  /\ LET read == ProcessData(link.atServer, SubSeq(link.toServer, 1, n))
     IN  /\ link' = [link EXCEPT !.atServer = read.processor,
                                 !.toServer = SubSeq(@, n + 1, Len(@))]
         /\ handling' = IF read.message = NoMessage THEN handling
                        ELSE handling \cup HandledFor(read.message)
  /\ UNCHANGED <<offered, endpoints, opened, sent, client, breaks, disturbed, overlap>>

-----------------------------------------------------------------------------
(* The caller's daemon                                                     *)

\* A call reaches the daemon, which makes an endpoint for the first of them.
Call(r) ==
  /\ r.protocol = "tcp"
  /\ r \notin Range(waiting) \cup Range(got)
  /\ \A h \in handling \cup sent : h.request # r
  /\ Connected(link) => r \notin {link.toServer[i].of : i \in DOMAIN link.toServer}
                             \cup {link.atServer.buffer[i].of : i \in DOMAIN link.atServer.buffer}
  /\ waiting' = Append(waiting, r)
  /\ task' = IF task = "none" THEN "connecting" ELSE task
  /\ UNCHANGED <<server, link, breaks, got, disturbed, overlap>>

\* _handle_outbound_call_method_request sees that the endpoint is connected.  What
\* is written to a connection that the server has left may be answered by a reset.
Forward ==
  /\ waiting # <<>>
  /\ task = "reading" /\ Connected(link)
  /\ waiting' = Tail(waiting)
  /\ IF link.status = "up"
       THEN link' = [link EXCEPT !.toServer = @ \o Units(Head(waiting), RequestSize)]
       ELSE link' \in {link, [status |-> "reset"]}
  /\ overlap' = (overlap \/ (link.atServer.buffer \o link.toServer # <<>>))
  /\ UNCHANGED <<server, task, breaks, got, disturbed>>

\* A refused attempt is repeated after a second.
Connect ==
  /\ task = "connecting"
  /\ task' = "reading"
  /\ \E e \in EndpointsAt(endpoints, TcpPort, "tcp") :
       link' = [status |-> "up", manager |-> e.manager, atServer |-> Fresh,
                atClient |-> Fresh, toServer |-> <<>>, toClient |-> <<>>]
  /\ UNCHANGED <<server, breaks, waiting, got, disturbed, overlap>>

\* One read of _connect_and_receive: up to the bytes expected.
ClientReads(n) ==
  /\ task = "reading" /\ Connected(link)
  /\ n <= link.atClient.expected
  /\ LET read == ProcessData(link.atClient, SubSeq(link.toClient, 1, n))
     IN  /\ link' = [link EXCEPT !.atClient = read.processor,
                                 !.toClient = SubSeq(@, n + 1, Len(@))]
         /\ got' = IF read.message = NoMessage THEN got ELSE Append(got, read.message)
  /\ UNCHANGED <<server, task, waiting, breaks, disturbed, overlap>>


\* The end of the stream: close returns, and a new attempt starts.
SeeEnd ==
  /\ task = "reading"
  /\ link.status = "ended" /\ link.toClient = <<>>
  /\ task' = "connecting"
  /\ link' = NoLink
  /\ UNCHANGED <<server, waiting, got, breaks, disturbed, overlap>>

\* After a reset, close waits for a transport that ends with the error; it is
\* raised in the task, which ends, and the endpoint stays closed for good.
SeeReset ==
  /\ task = "reading"
  /\ link.status = "reset"
  /\ task' = "ended"
  /\ link' = NoLink
  /\ UNCHANGED <<server, waiting, got, breaks, disturbed, overlap>>

-----------------------------------------------------------------------------
(* The server's daemon is stopped, to be started again with nothing offered; *)
(* or the connection is reset, which both sides notice.                      *)

ServerEnds ==
  /\ breaks < MaxBreaks
  /\ breaks' = breaks + 1
  /\ offered' = {} /\ endpoints' = {} /\ handling' = {}
  /\ link' = IF link.status = "up"
               THEN [link EXCEPT !.status = "ended", !.toServer = <<>>, !.atServer = Fresh]
               ELSE link
  /\ disturbed' = TRUE
  /\ UNCHANGED <<opened, sent, client, overlap>>

Reset ==
  /\ breaks < MaxBreaks
  /\ Connected(link)
  /\ breaks' = breaks + 1
  /\ link' = [status |-> "reset"]
  /\ disturbed' = TRUE
  /\ UNCHANGED <<server, client, overlap>>

-----------------------------------------------------------------------------
SomeChunk(stream) == 1..Len(stream)

Next ==
  \/ \E s \in Service : OfferService(s) \/ StopOfferService(s)
  \/ \E a \in Application : ApplicationEnds(a)
  \/ \E r \in Request : RequestArrives(r) \/ Call(r)
  \/ \E h \in handling : Respond(h)
  \/ Connected(link) /\ \E n \in SomeChunk(link.toServer) : ServerReads(n)
  \/ Connected(link) /\ \E n \in SomeChunk(link.toClient) : ClientReads(n)
  \/ Forward \/ Connect \/ SeeEnd \/ SeeReset
  \/ ServerEnds \/ Reset

Spec == Init /\ [][Next]_vars

\* What is received is read and processed, a handler returns, a refused attempt
\* is repeated; a service that is stopped again and again is offered often enough.
Fairness ==
  /\ WF_vars(Connected(link) /\ \E n \in SomeChunk(link.toServer) : ServerReads(n))
  /\ WF_vars(Connected(link) /\ \E n \in SomeChunk(link.toClient) : ClientReads(n))
  /\ WF_vars(\E h \in handling : Respond(h))
  /\ WF_vars(Forward) /\ WF_vars(SeeEnd) /\ WF_vars(SeeReset)
  /\ SF_vars(Connect)

FairSpec == Spec /\ Fairness

-----------------------------------------------------------------------------
(* Properties                                                              *)

Processor == {p \in [state : {"HEADER", "PAYLOAD"}, buffer : Seq([of : Request, total : Nat]),
                     total : Nat, expected : Nat] :
                /\ p.expected > 0
                /\ p.state = "PAYLOAD" => p.expected = p.total - Len(p.buffer)}

Endpoint == [of : Application, port : {s.port : s \in Service}, protocol : Protocol, manager : Nat]

\* The tasks.
Handler == [request : Request, service : Service, stopped : BOOLEAN, closed : BOOLEAN]

\* At an address there is at most one endpoint of a protocol.
TypeOK ==
  /\ offered \subseteq Service
  /\ endpoints \subseteq Endpoint /\ opened \in 0..MaxServers
  /\ \A e, f \in endpoints : e.port = f.port /\ e.protocol = f.protocol => e = f
  /\ \A e \in endpoints : IF e.protocol = "udp" THEN e.manager = 0 ELSE e.manager \in 1..opened
  /\ handling \subseteq Handler
  /\ \A h \in sent : h.request \in Request /\ h.stopped \in BOOLEAN /\ h.closed \in BOOLEAN
  /\ task \in {"none", "connecting", "reading", "ended"}
  /\ link.status \in {"none", "up", "ended", "reset"}
  /\ Connected(link) => /\ link.manager \in 1..opened
                        /\ link.atServer \in Processor /\ link.atClient \in Processor
  /\ task = "reading" <=> link # NoLink
  /\ breaks \in 0..MaxBreaks
  /\ Range(waiting) \cup Range(got) \subseteq Request

\* The messages of a stream of units, each at its last unit: nothing but whole
\* messages is written, and what has been processed is gone.
Messages(stream, size) == [i \in 1..(Len(stream) \div size) |-> stream[i * size].of]

\* The client's connection to the service is what RemoteService promises: however
\* the streams are cut, and whatever waits in the buffers of the two processors,
\* requests are taken up once and in order, and answers belong to the requests of
\* this caller.
Connection == INSTANCE RemoteService WITH
  Request  <- {r \in Request : r.protocol = "tcp"},
  requests <- IF Connected(link)
                THEN Messages(link.atServer.buffer \o link.toServer, RequestSize) ELSE <<>>,
  taken    <- {r \in Request : \E h \in handling : h.request = r /\ r.protocol = "tcp"},
  answers  <- IF Connected(link)
                THEN Messages(link.atClient.buffer \o link.toClient, ResponseSize) ELSE <<>>,
  received <- got

ImplementsRemoteService == Connection!Spec

\* A response leaves from the port its request was for, whatever else is offered,
\* stopped and opened meanwhile, unless its own service was stopped, or the endpoint
\* there was closed by the stop of another service or the end of another application.
AnsweredFromWhereAsked ==
  \A a \in sent : a.from = a.request.port \/ a.stopped \/ a.closed

Sent(r) == r \notin Range(waiting)

OnTheWay(r) == link.status = "up" /\ \E i \in DOMAIN link.toServer : link.toServer[i].of = r

Listening == EndpointsAt(endpoints, TcpPort, "tcp") # {}

Served(r) == \E s \in offered : s.id = r.id /\ s.port = r.port

=============================================================================
