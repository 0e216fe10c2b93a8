------------------------------ MODULE Endpoints ------------------------------
(***************************************************************************)
(* The sockets of the daemon and who uses them: offered services with      *)
(* their server endpoints and offer timers, and the client endpoints on    *)
(* which local applications receive events and call methods.               *)
(*                                                                         *)
(* The handlers of one connection run one after the other, but a handler   *)
(* that opens a socket is suspended until the event loop has set it up, and *)
(* handlers of other connections run meanwhile: pc[c] says where the       *)
(* handler of client c is suspended.  One IP address is modelled; a TCP    *)
(* endpoint is a listening one (TCP connections to servers are left out).   *)
(***************************************************************************)
EXTENDS Integers, FiniteSets

CONSTANTS
  Client,     \* connections of local applications, by id of their writer
  Port,       \* ports that applications name
  AnyPort,    \* port 0: the operating system chooses
  OwnPort,    \* the ports on which applications receive events and call from
  Delay,      \* cyclic offer delays
  Offer,      \* the services the applications may offer
  SocketId,   \* tells sockets apart; a bound on those open at once
  MaxAnyPort  \* a bound on the sockets at ports the system chose

Protocol == {"udp", "tcp"}

OfferType == [port : Port, protocols : SUBSET Protocol, delay : Delay]

Socket == [id : SocketId, port : Port \cup {AnyPort}, protocol : Protocol]

ASSUME OfferAssumption == Offer \subseteq OfferType
ASSUME PortAssumption == AnyPort \notin Port /\ OwnPort \subseteq Port \cup {AnyPort}
ASSUME MaxAnyPortAssumption == MaxAnyPort \in Nat

VARIABLES
  conn,       \* conn[c]: "closed", "open", "leaving" or "broken" (handler raised)
  pc,         \* pc[c]: where the handler of c is suspended
  offered,    \* <<c, o>>: client c offers service o
  serverEps,  \* serverEps[c]: endpoints stored for the services of c
  clientEps,  \* clientEps[c]: endpoints stored for subscriptions and calls of c
  open,       \* the sockets that are open
  timers      \* offer delays for which a timer runs

vars == <<conn, pc, offered, serverEps, clientEps, open, timers>>

\* The places a handler is suspended at, with the service it offers and the
\* socket it waits for.
Idle == [at |-> "idle"]
Suspended ==
  [at : {"offer_udp", "offer_tcp"}, offer : Offer, socket : Socket]
    \cup [at : {"bind_tcp"}, offer : Offer]
    \cup [at : {"receive", "call"}, socket : Socket]

TypeOK ==
  /\ conn \in [Client -> {"closed", "open", "leaving", "broken"}]
  /\ pc \in [Client -> {Idle} \cup Suspended]
  /\ offered \subseteq Client \X Offer
  /\ serverEps \in [Client -> SUBSET {s \in Socket : s.port # AnyPort}]
  /\ clientEps \in [Client -> SUBSET Socket]
  /\ open \subseteq Socket
  /\ timers \subseteq Delay

-----------------------------------------------------------------------------
(* The endpoint storages.  Which of several endpoints at one address a      *)
(* lookup returns depends on the order in which they were stored, abstracted *)
(* to any order.                                                            *)

Ready(c) == conn[c] = "open" /\ pc[c] = Idle

Stored(eps) == UNION {eps[c] : c \in Client}

\* get_endpoint_by_ip_port, has_endpoint
At(eps, port, protocol) ==
  {s \in Stored(eps) : s.port = port /\ s.protocol = protocol}

\* Mutant: the lookup falls back to any UDP endpoint of a client.
UdpAtIgnoringPort(port) ==
  IF At(serverEps, port, "udp") # {} THEN At(serverEps, port, "udp")
  ELSE {s \in Stored(clientEps) : s.protocol = "udp"}

\* _udp_endpoint_at: the server endpoints are looked through first.
UdpAt(port) ==
  IF At(serverEps, port, "udp") # {} THEN At(serverEps, port, "udp")
  ELSE At(clientEps, port, "udp")

\* The socket a suspended handler holds.
Awaited(c) == IF pc[c].at \in {"idle", "bind_tcp"} THEN {} ELSE {pc[c].socket}

InHandlers == UNION {Awaited(c) : c \in Client}

\* The sockets that create_server_endpoint may bind, within the bounds.
Fresh(port, protocol) ==
  {s \in [id : SocketId, port : {port}, protocol : {protocol}] :
     /\ \A t \in open \cup Stored(serverEps) \cup Stored(clientEps) \cup InHandlers :
          t.id # s.id
     /\ port = AnyPort => Cardinality({t \in open : t.port = AnyPort}) < MaxAnyPort}

Add(eps, c, s) == [eps EXCEPT ![c] = @ \cup {s}]

-----------------------------------------------------------------------------
Init ==
  /\ conn = [c \in Client |-> "closed"]
  /\ pc = [c \in Client |-> Idle]
  /\ offered = {}
  /\ serverEps = [c \in Client |-> {}]
  /\ clientEps = [c \in Client |-> {}]
  /\ open = {}
  /\ timers = {}

\* new_client_connected.  The id of a writer is its address, which a later
\* connection may get again: what is stored for the id is not cleared.
Connect(c) ==
  /\ conn[c] = "closed"
  /\ conn' = [conn EXCEPT ![c] = "open"]
  /\ UNCHANGED <<pc, offered, serverEps, clientEps, open, timers>>

-----------------------------------------------------------------------------
(* _handle_offer_service_request                                           *)

\* The rest of the handler once the UDP endpoint is there: another suspension
\* for the TCP endpoint, or the timer.
AfterUdp(c, o) ==
  IF "tcp" \in o.protocols /\ At(serverEps, o.port, "tcp") = {}
    THEN /\ pc' = [pc EXCEPT ![c] = [at |-> "bind_tcp", offer |-> o]]
         /\ UNCHANGED timers
    ELSE /\ pc' = [pc EXCEPT ![c] = Idle]
         /\ timers' = timers \cup {o.delay}

NeedsUdp(o) == "udp" \in o.protocols /\ At(serverEps, o.port, "udp") = {}

\* The service is stored before its endpoints exist.
OfferService(c, o) ==
  /\ Ready(c)
  /\ offered' = offered \cup {<<c, o>>}
  /\ \/ /\ ~NeedsUdp(o)
        /\ AfterUdp(c, o)
        /\ UNCHANGED <<serverEps, open>>
     \/ /\ NeedsUdp(o)
        /\ \E s \in UdpAt(o.port) : serverEps' = Add(serverEps, c, s)
        /\ AfterUdp(c, o)
        /\ UNCHANGED open
     \/ /\ NeedsUdp(o)
        /\ UdpAt(o.port) = {}
        /\ \E s \in Fresh(o.port, "udp") :
             /\ open' = open \cup {s}
             /\ pc' = [pc EXCEPT ![c] = [at |-> "offer_udp", offer |-> o, socket |-> s]]
        /\ UNCHANGED <<serverEps, timers>>
  /\ UNCHANGED <<conn, clientEps>>

OfferUdpOpened(c) ==
  /\ pc[c].at = "offer_udp"
  /\ serverEps' = Add(serverEps, c, pc[c].socket)
  /\ AfterUdp(c, pc[c].offer)
  /\ UNCHANGED <<conn, offered, clientEps, open>>

\* A second listener on a port cannot be bound: the exception ends the read
\* loop of the connection, and client_disconnected is never invoked.
OfferTcpBinds(c) ==
  /\ pc[c].at = "bind_tcp"
  /\ LET o == pc[c].offer
     IN  IF \E s \in open : s.port = o.port /\ s.protocol = "tcp"
           THEN /\ conn' = [conn EXCEPT ![c] = "broken"]
                /\ pc' = [pc EXCEPT ![c] = Idle]
                /\ UNCHANGED open
           ELSE \E s \in Fresh(o.port, "tcp") :
                  /\ open' = open \cup {s}
                  /\ pc' = [pc EXCEPT ![c] =
                              [at |-> "offer_tcp", offer |-> o, socket |-> s]]
                  /\ UNCHANGED conn
  /\ UNCHANGED <<offered, serverEps, clientEps, timers>>

OfferTcpOpened(c) ==
  /\ pc[c].at = "offer_tcp"
  /\ serverEps' = Add(serverEps, c, pc[c].socket)
  /\ timers' = timers \cup {pc[c].offer.delay}
  /\ pc' = [pc EXCEPT ![c] = Idle]
  /\ UNCHANGED <<conn, offered, clientEps, open>>

-----------------------------------------------------------------------------
(* Letting go of endpoints                                                 *)

\* Mutant: a timer stays when its last service goes.
TimersKept(offers) == timers

\* _cleanup_unused_timers
UsedTimers(offers) == {d \in timers : \E x \in offers : x[2].delay = d}

\* Mutant: only the endpoints of services count.
InUseByServices(srv, s) == s \in Stored(srv)

\* _endpoint_in_use
InUse(srv, s) == s \in Stored(srv) \cup Stored(clientEps)

\* Mutant: the reference goes, the socket stays open.
ReleaseWithoutClosing(c, S) ==
  /\ serverEps' = [serverEps EXCEPT ![c] = @ \ S]
  /\ UNCHANGED open

\* _release_endpoint for each endpoint of a set
Release(c, S) ==
  LET left == [serverEps EXCEPT ![c] = @ \ S]
  IN  /\ serverEps' = left
      /\ open' = open \ {s \in S : ~InUse(left, s)}

\* Mutant: other services at the port are not looked for.
ReleasedUdpAlways(c, o) ==
  LET found == At(serverEps, o.port, "udp")
  IN  IF "udp" \notin o.protocols \/ found = {} THEN {{}}
      ELSE {{s} \cap serverEps[c] : s \in found}

\* What stopping service o of client c releases of the UDP endpoint stored at its
\* port: nothing if a service there is still offered or c does not hold it.
ReleasedUdp(c, o) ==
  LET stillOffered == \E x \in offered' : /\ "udp" \in x[2].protocols
                                         /\ x[2].port = o.port
      found == At(serverEps, o.port, "udp")
  IN  IF "udp" \notin o.protocols \/ stillOffered \/ found = {}
        THEN {{}}
        ELSE {{s} \cap serverEps[c] : s \in found}

\* get_endpoint(writer_id, TCP): a TCP endpoint of the client, whatever its port.
ReleasedTcp(c, o) ==
  LET found == {s \in serverEps[c] : s.protocol = "tcp"}
  IN  IF "tcp" \notin o.protocols \/ found = {} THEN {{}} ELSE {{s} : s \in found}

\* _handle_stop_offer_service_request
StopOfferService(c, o) ==
  /\ Ready(c)
  /\ offered' = offered \ {<<c, o>>}
  /\ timers' = UsedTimers(offered')
  /\ \E U \in ReleasedUdp(c, o), L \in ReleasedTcp(c, o) :
       LET left == [serverEps EXCEPT ![c] = @ \ (U \cup L)]
       IN  /\ serverEps' = left
           /\ open' = open \ (L \cup {s \in U : ~InUse(left, s)})
  /\ UNCHANGED <<conn, pc, clientEps>>

\* Mutant: the end of a connection does not wait for its suspended handler.
LeaveAtOnce(c) ==
  /\ conn[c] = "open"
  /\ conn' = [conn EXCEPT ![c] = "leaving"]
  /\ UNCHANGED <<pc, offered, serverEps, clientEps, open, timers>>

\* client_disconnected drops the requests of the client, then waits for its
\* transmission task to end.
Leave(c) ==
  /\ Ready(c)
  /\ conn' = [conn EXCEPT ![c] = "leaving"]
  /\ UNCHANGED <<pc, offered, serverEps, clientEps, open, timers>>

\* The rest of client_disconnected.  The client endpoints stay stored.
Left(c) ==
  /\ conn[c] = "leaving"
  /\ conn' = [conn EXCEPT ![c] = "closed"]
  /\ offered' = {x \in offered : x[1] # c}
  /\ timers' = UsedTimers(offered')
  /\ Release(c, serverEps[c])
  /\ UNCHANGED <<pc, clientEps>>

-----------------------------------------------------------------------------
(* Client endpoints                                                        *)

\* _find_client_reception_endpoint
Reception(c, port) ==
  IF port = AnyPort THEN {s \in clientEps[c] : s.protocol = "udp"} ELSE UdpAt(port)

\* _handle_subscribe_eventgroup_request, with UDP
Receive(c, port) ==
  /\ Ready(c)
  /\ IF Reception(c, port) # {}
       THEN /\ \E s \in Reception(c, port) : clientEps' = Add(clientEps, c, s)
            /\ UNCHANGED <<pc, open>>
       ELSE \E s \in Fresh(port, "udp") :
              /\ open' = open \cup {s}
              /\ pc' = [pc EXCEPT ![c] = [at |-> "receive", socket |-> s]]
              /\ UNCHANGED clientEps
  /\ UNCHANGED <<conn, offered, serverEps, timers>>

\* _handle_outbound_call_method_request, with UDP: an endpoint of a server is
\* stored once more, one of any client is used as it is; port 0 opens a socket
\* per call.
Call(c, port) ==
  /\ Ready(c)
  /\ IF At(clientEps, port, "udp") # {} /\ port # AnyPort
       THEN UNCHANGED <<pc, clientEps, open>>
     ELSE IF At(serverEps, port, "udp") # {}
       THEN /\ \E s \in At(serverEps, port, "udp") : clientEps' = Add(clientEps, c, s)
            /\ UNCHANGED <<pc, open>>
     ELSE \E s \in Fresh(port, "udp") :
            /\ open' = open \cup {s}
            /\ pc' = [pc EXCEPT ![c] = [at |-> "call", socket |-> s]]
            /\ UNCHANGED clientEps
  /\ UNCHANGED <<conn, offered, serverEps, timers>>

ClientEndpointOpened(c) ==
  /\ pc[c].at \in {"receive", "call"}
  /\ clientEps' = Add(clientEps, c, pc[c].socket)
  /\ pc' = [pc EXCEPT ![c] = Idle]
  /\ UNCHANGED <<conn, offered, serverEps, open, timers>>

-----------------------------------------------------------------------------
Next ==
  \/ \E c \in Client :
       \/ Connect(c) \/ Leave(c) \/ Left(c)
       \/ OfferUdpOpened(c) \/ OfferTcpBinds(c) \/ OfferTcpOpened(c)
       \/ ClientEndpointOpened(c)
  \/ \E c \in Client, o \in Offer : OfferService(c, o) \/ StopOfferService(c, o)
  \/ \E c \in Client, p \in OwnPort : Receive(c, p) \/ Call(c, p)

Spec == Init /\ [][Next]_vars

-----------------------------------------------------------------------------
(* Properties                                                              *)

\* What a storage holds is open: a socket that serves, receives and calls is
\* not closed for one of its users while another one still has it.
StoredAreOpen == Stored(serverEps) \cup Stored(clientEps) \subseteq open

\* Every open socket is stored for somebody or awaited by a handler: none is
\* lost between the step that opens it and the one that stores it, or by a
\* release that does not close it.
NoSocketLost == open \subseteq Stored(serverEps) \cup Stored(clientEps) \cup InHandlers

\* A timer runs exactly for the delays of offered services, except while the
\* handler that offers the service is suspended (or after it raised).
TimersMatchOffers ==
  /\ \A d \in timers : \E x \in offered : x[2].delay = d
  /\ \A x \in offered :
       \/ x[2].delay \in timers
       \/ conn[x[1]] = "broken"
       \/ pc[x[1]].at \in {"offer_udp", "bind_tcp", "offer_tcp"} /\ pc[x[1]].offer = x[2]

\* Nothing of a connection that ended is offered or served any more, whatever
\* handlers of other connections did while it was being taken down.
ClosedServesNothing ==
  \A c \in Client :
    conn[c] = "closed" => serverEps[c] = {} /\ \A x \in offered : x[1] # c

\* Closing a UDP socket never takes it from a client that holds it for a service
\* it goes on offering.
ClosingSparesHolders ==
  [][\A s \in open \ open' :
       s.protocol = "udp" =>
         \A x \in offered' :
           "udp" \in x[2].protocols /\ x[2].port = s.port => s \notin serverEps[x[1]]]_vars
=============================================================================
