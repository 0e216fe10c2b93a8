-------------------------- MODULE EndpointsProofs --------------------------
(***************************************************************************)
(* Proofs about the sockets of the daemon, for all clients, ports, offers   *)
(* and interleavings of suspended handlers.                                *)
(***************************************************************************)
EXTENDS Endpoints, TLAPS

\* What a suspended handler waits for: the socket of a service is at its port,
\* that of a subscription or a call is a UDP socket, and only a handler of an
\* open connection is suspended.
HandlerInv ==
  \A c \in Client :
    /\ conn[c] # "open" => pc[c] = Idle
    /\ pc[c].at \in {"offer_udp", "offer_tcp"} => pc[c].socket.port = pc[c].offer.port
    /\ pc[c].at \in {"receive", "call"} => pc[c].socket.protocol = "udp"

LEMMA FreshIsSocket ==
  ASSUME NEW p, NEW q \in Protocol, p \in Port \cup {AnyPort}, NEW s \in Fresh(p, q)
  PROVE  s \in Socket /\ s.port = p /\ s.protocol = q
BY DEF Fresh, Socket, Protocol

LEMMA AtIsStored ==
  ASSUME NEW eps, NEW p, NEW q, NEW s \in At(eps, p, q)
  PROVE  (\E d \in Client : s \in eps[d]) /\ s.port = p /\ s.protocol = q
BY DEF At, Stored

LEMMA UdpAtIsStored ==
  ASSUME NEW p, NEW s \in UdpAt(p)
  PROVE  /\ \E d \in Client : s \in serverEps[d] \/ s \in clientEps[d]
         /\ s.port = p /\ s.protocol = "udp"
BY AtIsStored DEF UdpAt

LEMMA OfferFields ==
  ASSUME NEW o \in Offer
  PROVE  o.port \in Port /\ o.port # AnyPort /\ o.delay \in Delay
BY OfferAssumption, PortAssumption DEF OfferType

\* A state of a handler is one of the records.
LEMMA SuspendedForms ==
  ASSUME NEW o \in Offer, NEW s \in Socket
  PROVE  /\ [at |-> "offer_udp", offer |-> o, socket |-> s] \in Suspended
         /\ [at |-> "offer_tcp", offer |-> o, socket |-> s] \in Suspended
BY DEF Suspended

LEMMA BindForm ==
  ASSUME NEW o \in Offer PROVE [at |-> "bind_tcp", offer |-> o] \in Suspended
BY DEF Suspended

LEMMA ClientForms ==
  ASSUME NEW s \in Socket
  PROVE  /\ [at |-> "receive", socket |-> s] \in Suspended
         /\ [at |-> "call", socket |-> s] \in Suspended
BY DEF Suspended

LEMMA SuspendedFields ==
  ASSUME NEW x \in {Idle} \cup Suspended
  PROVE  /\ x.at \in {"idle", "offer_udp", "offer_tcp", "bind_tcp", "receive", "call"}
         /\ x.at \in {"offer_udp", "offer_tcp"} => x.offer \in Offer /\ x.socket \in Socket
         /\ x.at = "bind_tcp" => x.offer \in Offer
         /\ x.at \in {"receive", "call"} => x.socket \in Socket
         /\ x.at = "idle" => x = Idle
BY DEF Idle, Suspended

LEMMA ReceptionIsStored ==
  ASSUME NEW c \in Client, NEW p, NEW s \in Reception(c, p)
  PROVE  /\ \E d \in Client : s \in serverEps[d] \/ s \in clientEps[d]
         /\ s.protocol = "udp"
BY UdpAtIsStored DEF Reception

LEMMA InitType == Init => TypeOK /\ HandlerInv
BY DEF Init, TypeOK, HandlerInv, Idle

\* What the handler of an offer leaves once its UDP endpoint is there.
LEMMA AfterUdpType ==
  ASSUME TypeOK, NEW c \in Client, NEW o \in Offer, AfterUdp(c, o)
  PROVE  /\ pc' \in [Client -> {Idle} \cup Suspended]
         /\ pc'[c] \in {Idle, [at |-> "bind_tcp", offer |-> o]}
         /\ \A d \in Client : d # c => pc'[d] = pc[d]
         /\ timers' \subseteq Delay
BY OfferFields, BindForm DEF AfterUdp, TypeOK

LEMMA NextType == TypeOK /\ HandlerInv /\ [Next]_vars => TypeOK' /\ HandlerInv'
<1> SUFFICES ASSUME TypeOK, HandlerInv, [Next]_vars PROVE TypeOK' /\ HandlerInv'
  OBVIOUS
<1> USE DEF TypeOK, HandlerInv, Ready
<1>1. ASSUME NEW c \in Client, Connect(c) \/ Leave(c) PROVE TypeOK' /\ HandlerInv'
  BY <1>1 DEF Connect, Leave
<1>2. ASSUME NEW c \in Client, Left(c) PROVE TypeOK' /\ HandlerInv'
  BY <1>2 DEF Left, Release, UsedTimers
<1>3. ASSUME NEW c \in Client, OfferUdpOpened(c) PROVE TypeOK' /\ HandlerInv'
  <2>1. pc[c].offer \in Offer /\ pc[c].socket \in Socket
    BY <1>3, SuspendedFields DEF OfferUdpOpened
  <2>2. pc[c].socket.port # AnyPort
    BY <1>3, <2>1, OfferFields DEF OfferUdpOpened
  <2>3. conn[c] = "open"
    BY <1>3 DEF OfferUdpOpened, Idle
  <2>4. TypeOK'
    BY <1>3, <2>1, <2>2, AfterUdpType DEF OfferUdpOpened, Add
  <2>5. HandlerInv'
    BY <1>3, <2>1, <2>3, AfterUdpType DEF OfferUdpOpened, Idle
  <2> QED
    BY <2>4, <2>5
<1>4. ASSUME NEW c \in Client, OfferTcpBinds(c) PROVE TypeOK' /\ HandlerInv'
  <2> DEFINE o == pc[c].offer
  <2>1. o \in Offer /\ conn[c] = "open"
    BY <1>4, SuspendedFields DEF OfferTcpBinds, Idle
  <2>2. CASE conn' = [conn EXCEPT ![c] = "broken"] /\ pc' = [pc EXCEPT ![c] = Idle]
             /\ UNCHANGED open
    BY <1>4, <2>2 DEF OfferTcpBinds, Idle
  <2>3. ASSUME NEW s \in Fresh(o.port, "tcp"), open' = open \cup {s},
               pc' = [pc EXCEPT ![c] = [at |-> "offer_tcp", offer |-> o, socket |-> s]],
               UNCHANGED conn
        PROVE  TypeOK' /\ HandlerInv'
    <3>1. s \in Socket /\ s.port = o.port
      BY <2>1, FreshIsSocket, OfferFields DEF Protocol
    <3>2. TypeOK'
      BY <1>4, <2>1, <2>3, <3>1, SuspendedForms DEF OfferTcpBinds
    <3>3. HandlerInv'
      BY <2>1, <2>3, <3>1
    <3> QED
      BY <3>2, <3>3
  <2> QED
    BY <1>4, <2>2, <2>3 DEF OfferTcpBinds
<1>5. ASSUME NEW c \in Client, OfferTcpOpened(c) PROVE TypeOK' /\ HandlerInv'
  <2>1. pc[c].offer \in Offer /\ pc[c].socket \in Socket
    BY <1>5, SuspendedFields DEF OfferTcpOpened
  <2>2. pc[c].socket.port # AnyPort /\ pc[c].offer.delay \in Delay
    BY <1>5, <2>1, OfferFields DEF OfferTcpOpened
  <2> QED
    BY <1>5, <2>1, <2>2 DEF OfferTcpOpened, Add, Idle
<1>6. ASSUME NEW c \in Client, ClientEndpointOpened(c) PROVE TypeOK' /\ HandlerInv'
  <2>1. pc[c].socket \in Socket
    BY <1>6, SuspendedFields DEF ClientEndpointOpened
  <2> QED
    BY <1>6, <2>1 DEF ClientEndpointOpened, Add, Idle
<1>7. ASSUME NEW c \in Client, NEW o \in Offer, OfferService(c, o)
      PROVE  TypeOK' /\ HandlerInv'
  <2>1. offered' \subseteq Client \X Offer
    BY <1>7 DEF OfferService
  <2>2. CASE AfterUdp(c, o) /\ UNCHANGED <<serverEps, open>>
    BY <1>7, <2>1, <2>2, AfterUdpType DEF OfferService, Idle
  <2>3. ASSUME NEW s \in UdpAt(o.port), serverEps' = Add(serverEps, c, s),
               AfterUdp(c, o), UNCHANGED open
        PROVE  TypeOK' /\ HandlerInv'
    <3>1. s \in Socket /\ s.port # AnyPort
      BY UdpAtIsStored, OfferFields
    <3>2. TypeOK'
      BY <1>7, <2>1, <2>3, <3>1, AfterUdpType DEF OfferService, Add
    <3>3. HandlerInv'
      BY <1>7, <2>3, AfterUdpType DEF OfferService, Idle
    <3> QED
      BY <3>2, <3>3
  <2>4. ASSUME NEW s \in Fresh(o.port, "udp"), open' = open \cup {s},
               pc' = [pc EXCEPT ![c] = [at |-> "offer_udp", offer |-> o, socket |-> s]],
               UNCHANGED <<serverEps, timers>>
        PROVE  TypeOK' /\ HandlerInv'
    <3>1. s \in Socket /\ s.port = o.port
      BY FreshIsSocket, OfferFields DEF Protocol
    <3>2. TypeOK'
      BY <1>7, <2>1, <2>4, <3>1, SuspendedForms DEF OfferService
    <3>3. HandlerInv'
      BY <1>7, <2>4, <3>1 DEF OfferService
    <3> QED
      BY <3>2, <3>3
  <2> QED
    BY <1>7, <2>2, <2>3, <2>4 DEF OfferService
<1>8. ASSUME NEW c \in Client, NEW o \in Offer, StopOfferService(c, o)
      PROVE  TypeOK' /\ HandlerInv'
  <2>1. PICK U, L :
          serverEps' = [serverEps EXCEPT ![c] = @ \ (U \cup L)] /\ open' \subseteq open
    BY <1>8 DEF StopOfferService
  <2>2. offered' \subseteq Client \X Offer /\ timers' \subseteq Delay
    BY <1>8 DEF StopOfferService, UsedTimers
  <2> QED
    BY <1>8, <2>1, <2>2 DEF StopOfferService
<1>9. ASSUME NEW c \in Client, NEW p \in OwnPort, Receive(c, p)
      PROVE  TypeOK' /\ HandlerInv'
  <2>1. ASSUME NEW s \in Reception(c, p), clientEps' = Add(clientEps, c, s),
               UNCHANGED <<pc, open>>
        PROVE  TypeOK' /\ HandlerInv'
    <3>1. s \in Socket
      BY ReceptionIsStored
    <3> QED
      BY <1>9, <2>1, <3>1 DEF Receive, Add
  <2>2. ASSUME NEW s \in Fresh(p, "udp"), open' = open \cup {s},
               pc' = [pc EXCEPT ![c] = [at |-> "receive", socket |-> s]],
               UNCHANGED clientEps
        PROVE  TypeOK' /\ HandlerInv'
    <3>1. s \in Socket /\ s.protocol = "udp"
      BY PortAssumption, FreshIsSocket DEF Protocol
    <3>2. TypeOK'
      BY <1>9, <2>2, <3>1, ClientForms DEF Receive
    <3> QED
      BY <1>9, <2>2, <3>1, <3>2 DEF Receive
  <2> QED
    BY <1>9, <2>1, <2>2 DEF Receive
<1>10. ASSUME NEW c \in Client, NEW p \in OwnPort, Call(c, p)
       PROVE  TypeOK' /\ HandlerInv'
  <2>1. CASE UNCHANGED <<pc, clientEps, open>>
    BY <1>10, <2>1 DEF Call
  <2>2. ASSUME NEW s \in At(serverEps, p, "udp"), clientEps' = Add(clientEps, c, s),
               UNCHANGED <<pc, open>>
        PROVE  TypeOK' /\ HandlerInv'
    <3>1. s \in Socket
      BY AtIsStored
    <3> QED
      BY <1>10, <2>2, <3>1 DEF Call, Add
  <2>3. ASSUME NEW s \in Fresh(p, "udp"), open' = open \cup {s},
               pc' = [pc EXCEPT ![c] = [at |-> "call", socket |-> s]],
               UNCHANGED clientEps
        PROVE  TypeOK' /\ HandlerInv'
    <3>1. s \in Socket /\ s.protocol = "udp"
      BY PortAssumption, FreshIsSocket DEF Protocol
    <3>2. TypeOK'
      BY <1>10, <2>3, <3>1, ClientForms DEF Call
    <3> QED
      BY <1>10, <2>3, <3>1, <3>2 DEF Call
  <2> QED
    BY <1>10, <2>1, <2>2, <2>3 DEF Call
<1>11. CASE UNCHANGED vars
  BY <1>11 DEF vars
<1> QED
  BY <1>1, <1>2, <1>3, <1>4, <1>5, <1>6, <1>7, <1>8, <1>9, <1>10, <1>11 DEF Next

\* Every variable keeps its type: in particular no server endpoint is ever stored
\* at a port that the system chose.
THEOREM TypeCorrect == Spec => []TypeOK
<1>1. QED
  BY InitType, NextType, PTL DEF Spec
-----------------------------------------------------------------------------
(* Sockets are where they belong.                                          *)

\* Who has a socket: it is stored for a client, or a handler waits for it.
Has(c, s) == s \in serverEps[c] \/ s \in clientEps[c]

\* What anybody has is open, what is open somebody has; what a handler waits for
\* nobody else has; a TCP endpoint serves one client and receives for none.
SocketInv ==
  /\ \A c \in Client, s \in Socket : Has(c, s) \/ s \in Awaited(c) => s \in open
  /\ \A s \in open : \E c \in Client : Has(c, s) \/ s \in Awaited(c)
  /\ \A c, d \in Client : \A s \in Awaited(c) :
       ~Has(d, s) /\ (c # d => s \notin Awaited(d))
  /\ \A c, d \in Client : \A s \in serverEps[c] :
       s \in serverEps[d] /\ c # d => s.protocol = "udp"
  /\ \A c \in Client : \A s \in clientEps[c] : s.protocol = "udp"

LEMMA StoredMeans ==
  /\ \A s : s \in Stored(serverEps) \cup Stored(clientEps)
            <=> \E c \in Client : Has(c, s)
  /\ \A s : s \in InHandlers <=> \E c \in Client : s \in Awaited(c)
BY DEF Stored, Has, InHandlers

LEMMA AwaitedType ==
  ASSUME TypeOK, NEW c \in Client
  PROVE  Awaited(c) \subseteq Socket
BY SuspendedFields DEF Awaited, TypeOK

\* A socket that may be bound is nobody's.
LEMMA FreshIsNobodys ==
  ASSUME NEW p, NEW q, NEW s \in Fresh(p, q)
  PROVE  s \notin open /\ \A c \in Client : ~Has(c, s) /\ s \notin Awaited(c)
BY StoredMeans DEF Fresh

\* A handler binds a socket and is suspended with it.
LEMMA Opens ==
  ASSUME TypeOK, SocketInv, NEW c \in Client, NEW s \in Socket,
         s \notin open, \A d \in Client : ~Has(d, s) /\ s \notin Awaited(d),
         open' = open \cup {s}, Awaited(c) = {}, Awaited(c)' = {s},
         \A d \in Client : d # c => Awaited(d)' = Awaited(d),
         UNCHANGED <<serverEps, clientEps>>
  PROVE  SocketInv'
BY DEF SocketInv, Has

\* A handler resumes, and stores its socket for its client.
LEMMA StoresForServer ==
  ASSUME TypeOK, SocketInv, NEW c \in Client, NEW s \in Socket,
         Awaited(c) = {s}, Awaited(c)' = {},
         \A d \in Client : d # c => Awaited(d)' = Awaited(d),
         serverEps' = Add(serverEps, c, s), UNCHANGED <<open, clientEps>>
  PROVE  SocketInv'
BY DEF SocketInv, Has, Add, TypeOK

LEMMA StoresForClient ==
  ASSUME TypeOK, SocketInv, NEW c \in Client, NEW s \in Socket, s.protocol = "udp",
         Awaited(c) = {s}, Awaited(c)' = {},
         \A d \in Client : d # c => Awaited(d)' = Awaited(d),
         clientEps' = Add(clientEps, c, s), UNCHANGED <<open, serverEps>>
  PROVE  SocketInv'
BY DEF SocketInv, Has, Add, TypeOK

\* A UDP socket that is stored already is stored for one client more.
LEMMA Shares ==
  ASSUME TypeOK, SocketInv, NEW c \in Client, NEW s, s.protocol = "udp",
         \E d \in Client : Has(d, s),
         \A d \in Client : Awaited(d)' = Awaited(d),
         \/ serverEps' = Add(serverEps, c, s) /\ UNCHANGED clientEps
         \/ clientEps' = Add(clientEps, c, s) /\ UNCHANGED serverEps,
         UNCHANGED open
  PROVE  SocketInv'
BY DEF SocketInv, Has, Add, TypeOK

\* A client lets go of server endpoints, and those that nobody has are closed.
LEMMA Releases ==
  ASSUME TypeOK, SocketInv, NEW c \in Client, NEW S, S \subseteq serverEps[c],
         serverEps' = [serverEps EXCEPT ![c] = @ \ S],
         open' = open \ {s \in S : ~InUse(serverEps', s)},
         \A d \in Client : Awaited(d)' = Awaited(d),
         UNCHANGED clientEps
  PROVE  SocketInv'
<1>1. \A s : InUse(serverEps', s) <=> \E d \in Client : Has(d, s)'
  BY DEF InUse, Stored, Has
<1>2. \A d \in Client : serverEps'[d] = IF d = c THEN serverEps[d] \ S ELSE serverEps[d]
  BY DEF TypeOK
<1> DEFINE closed == {s \in S : ~InUse(serverEps', s)}
<1>3. \A d \in Client : \A s : Has(d, s)' => Has(d, s)
  BY <1>2 DEF Has
<1>4. \A d \in Client : \A s \in Awaited(d) : s \notin closed
  BY DEF SocketInv, Has
<1>5. \A d \in Client, s \in Socket : (Has(d, s) \/ s \in Awaited(d))' => s \in open'
  <2>1. ASSUME NEW d \in Client, NEW s \in Socket, Has(d, s)'
        PROVE  s \in open /\ s \notin closed
    BY <1>1, <1>3, <2>1 DEF SocketInv
  <2>2. ASSUME NEW d \in Client, NEW s \in Socket, s \in Awaited(d)'
        PROVE  s \in open /\ s \notin closed
    <3>1. s \in Awaited(d)
      BY <2>2
    <3> QED
      BY <1>4, <3>1 DEF SocketInv
  <2>3. open' = open \ closed
    OBVIOUS
  <2> HIDE DEF closed
  <2> QED
    BY <2>1, <2>2, <2>3
<1>6. \A s \in open' : \E d \in Client : (Has(d, s) \/ s \in Awaited(d))'
  <2>1. SUFFICES ASSUME NEW s \in open', ~\E d \in Client : Has(d, s)'
                 PROVE  \E d \in Client : s \in Awaited(d)
    OBVIOUS
  <2>2. s \in open /\ s \notin S
    BY <1>1, <2>1
  <2>3. \A d \in Client : ~Has(d, s)
    BY <1>2, <2>1, <2>2 DEF Has
  <2> QED
    BY <2>2, <2>3 DEF SocketInv
<1>7. \A c1, d \in Client : \A s \in Awaited(c1)' :
        ~Has(d, s)' /\ (c1 # d => s \notin Awaited(d)')
  BY <1>3 DEF SocketInv
<1>8. \A c1, d \in Client : \A s \in serverEps'[c1] :
        s \in serverEps'[d] /\ c1 # d => s.protocol = "udp"
  BY <1>2 DEF SocketInv
<1>9. \A d \in Client : \A s \in clientEps'[d] : s.protocol = "udp"
  BY DEF SocketInv
<1>10. QED
  BY <1>5, <1>6, <1>7, <1>8, <1>9 DEF SocketInv

\* What stopping a service releases is the client's own.
LEMMA ReleasedIsOwn ==
  ASSUME NEW c \in Client, NEW o \in Offer, NEW U \in ReleasedUdp(c, o),
         NEW L \in ReleasedTcp(c, o)
  PROVE  /\ U \subseteq serverEps[c] /\ L \subseteq serverEps[c]
         /\ \A s \in U : s.protocol = "udp" /\ s.port = o.port
         /\ \A s \in L : s.protocol = "tcp"
         /\ U # {} => \A x \in offered' : ~("udp" \in x[2].protocols /\ x[2].port = o.port)
<1>1. /\ L \subseteq serverEps[c]
      /\ \A s \in L : s.protocol = "tcp"
  BY DEF ReleasedTcp
<1>2. CASE U = {}
  BY <1>1, <1>2
<1>3. CASE U # {}
  <2>1. /\ \E s \in At(serverEps, o.port, "udp") : U = {s} \cap serverEps[c]
        /\ ~\E x \in offered' : "udp" \in x[2].protocols /\ x[2].port = o.port
    BY <1>3 DEF ReleasedUdp
  <2> QED
    BY <1>1, <2>1, AtIsStored
<1>4. QED
  BY <1>2, <1>3

\* Stopping a service closes what it releases unless somebody else has it; a TCP
\* endpoint needs no such look, since nobody else can have it.
LEMMA StopReleases ==
  ASSUME TypeOK, SocketInv, NEW c \in Client, NEW o \in Offer, StopOfferService(c, o)
  PROVE  SocketInv'
<1>0. PICK U \in ReleasedUdp(c, o), L \in ReleasedTcp(c, o) :
        LET left == [serverEps EXCEPT ![c] = @ \ (U \cup L)]
        IN  /\ serverEps' = left
            /\ open' = open \ (L \cup {s \in U : ~InUse(left, s)})
  BY Zenon DEF StopOfferService
<1>1. /\ serverEps' = [serverEps EXCEPT ![c] = @ \ (U \cup L)]
      /\ open' = open \ (L \cup {s \in U : ~InUse(serverEps', s)})
  BY <1>0, Zenon
<1>2. U \cup L \subseteq serverEps[c]
  BY ReleasedIsOwn
<1>3. \A d \in Client : serverEps'[d] = IF d = c THEN serverEps[d] \ (U \cup L)
                                                 ELSE serverEps[d]
  BY <1>1 DEF TypeOK
<1>4. UNCHANGED clientEps /\ \A d \in Client : Awaited(d)' = Awaited(d)
  BY DEF StopOfferService, Awaited
<1>5. ASSUME NEW s \in L PROVE ~InUse(serverEps', s)
  <2>1. s.protocol = "tcp" /\ s \in serverEps[c]
    BY <1>5, ReleasedIsOwn
  <2>2. \A d \in Client : ~Has(d, s)'
    BY <1>3, <1>4, <1>5, <2>1 DEF SocketInv, Has
  <2> QED
    BY <1>4, <2>2 DEF InUse, Stored, Has
<1>6. open' = open \ {s \in U \cup L : ~InUse(serverEps', s)}
  BY <1>1, <1>5
<1>7. QED
  BY <1>1, <1>2, <1>4, <1>6, Releases

LEMMA InitSockets == Init => SocketInv
BY DEF Init, SocketInv, Has, Awaited, Idle

LEMMA NextSockets ==
  TypeOK /\ HandlerInv /\ SocketInv /\ [Next]_vars => SocketInv'
<1> SUFFICES ASSUME TypeOK, HandlerInv, SocketInv, [Next]_vars PROVE SocketInv'
  OBVIOUS
\* Steps that leave the sockets alone.
<1>a. ASSUME UNCHANGED <<serverEps, clientEps, open>>,
             \A d \in Client : Awaited(d)' = Awaited(d)
      PROVE  SocketInv'
  BY <1>a DEF SocketInv, Has
\* What the handler of one client does with pc is of no concern to the others.
<1>b. ASSUME NEW c \in Client, NEW x, pc' = [pc EXCEPT ![c] = x]
      PROVE  /\ Awaited(c)' = IF x.at \in {"idle", "bind_tcp"} THEN {} ELSE {x.socket}
             /\ \A d \in Client : d # c => Awaited(d)' = Awaited(d)
  BY <1>b DEF Awaited, TypeOK
<1>c. ASSUME NEW c \in Client, NEW o \in Offer, AfterUdp(c, o)
      PROVE  Awaited(c)' = {} /\ \A d \in Client : d # c => Awaited(d)' = Awaited(d)
  <2>1. pc'[c].at \in {"idle", "bind_tcp"} /\ \A d \in Client : d # c => pc'[d] = pc[d]
    BY <1>c, AfterUdpType DEF Idle
  <2> QED
    BY <2>1 DEF Awaited
<1>d. ASSUME NEW c \in Client, pc[c] = Idle PROVE Awaited(c) = {}
  BY <1>d DEF Awaited, Idle
<1>1. ASSUME NEW c \in Client, Connect(c) \/ Leave(c) PROVE SocketInv'
  BY <1>1, <1>a DEF Connect, Leave, Awaited
<1>2. ASSUME NEW c \in Client, Left(c) PROVE SocketInv'
  BY <1>2, Releases DEF Left, Release, Awaited
<1>3. ASSUME NEW c \in Client, OfferUdpOpened(c) PROVE SocketInv'
  <2>1. pc[c].offer \in Offer /\ pc[c].socket \in Socket
    BY <1>3, SuspendedFields DEF OfferUdpOpened, TypeOK
  <2>2. Awaited(c) = {pc[c].socket}
    BY <1>3 DEF OfferUdpOpened, Awaited
  <2> QED
    BY <1>3, <1>c, <2>1, <2>2, StoresForServer DEF OfferUdpOpened
<1>4. ASSUME NEW c \in Client, OfferTcpBinds(c) PROVE SocketInv'
  <2> DEFINE o == pc[c].offer
  <2>1. o \in Offer /\ Awaited(c) = {}
    BY <1>4, SuspendedFields DEF OfferTcpBinds, Awaited, TypeOK
  <2>2. CASE pc' = [pc EXCEPT ![c] = Idle] /\ UNCHANGED open
    BY <1>4, <1>a, <1>b, <2>1, <2>2 DEF OfferTcpBinds, Idle
  <2>3. ASSUME NEW s \in Fresh(o.port, "tcp"), open' = open \cup {s},
               pc' = [pc EXCEPT ![c] = [at |-> "offer_tcp", offer |-> o, socket |-> s]]
        PROVE  SocketInv'
    <3>1. s \in Socket
      BY <2>1, FreshIsSocket, OfferFields DEF Protocol
    <3>2. Awaited(c)' = {s} /\ \A d \in Client : d # c => Awaited(d)' = Awaited(d)
      BY <1>b, <2>3
    <3> QED
      BY <1>4, <2>1, <2>3, <3>1, <3>2, FreshIsNobodys, Opens DEF OfferTcpBinds
  <2> QED
    BY <1>4, <2>2, <2>3 DEF OfferTcpBinds
<1>5. ASSUME NEW c \in Client, OfferTcpOpened(c) PROVE SocketInv'
  <2>1. pc[c].socket \in Socket
    BY <1>5, SuspendedFields DEF OfferTcpOpened, TypeOK
  <2>2. Awaited(c) = {pc[c].socket}
    BY <1>5 DEF OfferTcpOpened, Awaited
  <2>3. Awaited(c)' = {} /\ \A d \in Client : d # c => Awaited(d)' = Awaited(d)
    BY <1>5, <1>b DEF OfferTcpOpened, Idle
  <2> QED
    BY <1>5, <2>1, <2>2, <2>3, StoresForServer DEF OfferTcpOpened
<1>6. ASSUME NEW c \in Client, ClientEndpointOpened(c) PROVE SocketInv'
  <2>1. pc[c].socket \in Socket /\ pc[c].socket.protocol = "udp"
    BY <1>6, SuspendedFields DEF ClientEndpointOpened, TypeOK, HandlerInv
  <2>2. Awaited(c) = {pc[c].socket}
    BY <1>6 DEF ClientEndpointOpened, Awaited
  <2>3. Awaited(c)' = {} /\ \A d \in Client : d # c => Awaited(d)' = Awaited(d)
    BY <1>6, <1>b DEF ClientEndpointOpened, Idle
  <2> QED
    BY <1>6, <2>1, <2>2, <2>3, StoresForClient DEF ClientEndpointOpened
<1>7. ASSUME NEW c \in Client, NEW o \in Offer, OfferService(c, o) PROVE SocketInv'
  <2>1. Awaited(c) = {} /\ UNCHANGED clientEps
    BY <1>7, <1>d DEF OfferService, Ready
  <2>2. CASE AfterUdp(c, o) /\ UNCHANGED <<serverEps, open>>
    BY <1>a, <1>c, <2>1, <2>2
  <2>3. ASSUME NEW s \in UdpAt(o.port), serverEps' = Add(serverEps, c, s),
               AfterUdp(c, o), UNCHANGED open
        PROVE  SocketInv'
    BY <1>c, <2>1, <2>3, UdpAtIsStored, Shares DEF Has
  <2>4. ASSUME NEW s \in Fresh(o.port, "udp"), open' = open \cup {s},
               pc' = [pc EXCEPT ![c] = [at |-> "offer_udp", offer |-> o, socket |-> s]],
               UNCHANGED serverEps
        PROVE  SocketInv'
    <3>1. s \in Socket
      BY FreshIsSocket, OfferFields DEF Protocol
    <3>2. Awaited(c)' = {s} /\ \A d \in Client : d # c => Awaited(d)' = Awaited(d)
      BY <1>b, <2>4
    <3> QED
      BY <2>1, <2>4, <3>1, <3>2, FreshIsNobodys, Opens
  <2> QED
    BY <1>7, <2>2, <2>3, <2>4 DEF OfferService
<1>8. ASSUME NEW c \in Client, NEW o \in Offer, StopOfferService(c, o)
      PROVE  SocketInv'
  BY <1>8, StopReleases
<1>9. ASSUME NEW c \in Client, NEW p \in OwnPort, Receive(c, p) PROVE SocketInv'
  <2>1. Awaited(c) = {} /\ UNCHANGED serverEps
    BY <1>9, <1>d DEF Receive, Ready
  <2>2. ASSUME NEW s \in Reception(c, p), clientEps' = Add(clientEps, c, s),
               UNCHANGED <<pc, open>>
        PROVE  SocketInv'
    BY <2>1, <2>2, ReceptionIsStored, Shares DEF Has, Awaited
  <2>3. ASSUME NEW s \in Fresh(p, "udp"), open' = open \cup {s},
               pc' = [pc EXCEPT ![c] = [at |-> "receive", socket |-> s]],
               UNCHANGED clientEps
        PROVE  SocketInv'
    <3>1. s \in Socket
      BY PortAssumption, FreshIsSocket DEF Protocol
    <3>2. Awaited(c)' = {s} /\ \A d \in Client : d # c => Awaited(d)' = Awaited(d)
      BY <1>b, <2>3
    <3> QED
      BY <2>1, <2>3, <3>1, <3>2, FreshIsNobodys, Opens
  <2> QED
    BY <1>9, <2>2, <2>3 DEF Receive
<1>10. ASSUME NEW c \in Client, NEW p \in OwnPort, Call(c, p) PROVE SocketInv'
  <2>1. Awaited(c) = {} /\ UNCHANGED serverEps
    BY <1>10, <1>d DEF Call, Ready
  <2>2. CASE UNCHANGED <<pc, clientEps, open>>
    BY <1>a, <2>1, <2>2 DEF Awaited
  <2>3. ASSUME NEW s \in At(serverEps, p, "udp"), clientEps' = Add(clientEps, c, s),
               UNCHANGED <<pc, open>>
        PROVE  SocketInv'
    BY <2>1, <2>3, AtIsStored, Shares DEF Has, Awaited
  <2>4. ASSUME NEW s \in Fresh(p, "udp"), open' = open \cup {s},
               pc' = [pc EXCEPT ![c] = [at |-> "call", socket |-> s]],
               UNCHANGED clientEps
        PROVE  SocketInv'
    <3>1. s \in Socket
      BY PortAssumption, FreshIsSocket DEF Protocol
    <3>2. Awaited(c)' = {s} /\ \A d \in Client : d # c => Awaited(d)' = Awaited(d)
      BY <1>b, <2>4
    <3> QED
      BY <2>1, <2>4, <3>1, <3>2, FreshIsNobodys, Opens
  <2> QED
    BY <1>10, <2>2, <2>3, <2>4 DEF Call
<1>11. CASE UNCHANGED vars
  BY <1>11, <1>a DEF vars, Awaited
<1> QED
  BY <1>1, <1>2, <1>3, <1>4, <1>5, <1>6, <1>7, <1>8, <1>9, <1>10, <1>11 DEF Next

LEMMA SocketsAlways == Spec => [](TypeOK /\ HandlerInv /\ SocketInv)
<1>1. QED
  BY InitType, InitSockets, NextType, NextSockets, PTL DEF Spec

\* What a storage holds is open, however many clients share sockets and whatever
\* handlers are suspended while others stop, release and disconnect.
THEOREM StoredStayOpen == Spec => []StoredAreOpen
<1>1. TypeOK /\ SocketInv => StoredAreOpen
  BY StoredMeans DEF SocketInv, StoredAreOpen, TypeOK, Has
<1>2. QED
  BY <1>1, SocketsAlways, PTL

\* Every open socket is stored or waited for: none leaks.
THEOREM NoSocketLeaks == Spec => []NoSocketLost
<1>1. SocketInv => NoSocketLost
  BY StoredMeans DEF SocketInv, NoSocketLost
<1>2. QED
  BY <1>1, SocketsAlways, PTL

\* A UDP socket is not closed while a client holds it for a service that it goes on
\* offering: a stop looks for other services at the port, the end of a connection
\* for other holders.
THEOREM HoldersAreSpared == Spec => ClosingSparesHolders
<1> DEFINE Spares ==
      \A s \in open \ open' :
        s.protocol = "udp" =>
          \A x \in offered' :
            "udp" \in x[2].protocols /\ x[2].port = s.port => s \notin serverEps[x[1]]
<1>1. TypeOK /\ [Next]_vars => [Spares]_vars
  <2> SUFFICES ASSUME TypeOK, [Next]_vars PROVE Spares
    OBVIOUS
  <2>1. CASE open \subseteq open'
    BY <2>1
  <2>2. ASSUME NEW c \in Client, Left(c) PROVE Spares
    <3>1. \A s \in open \ open' : ~InUse(serverEps', s)
      BY <2>2 DEF Left, Release
    <3>2. \A d \in Client : d # c => serverEps'[d] = serverEps[d]
      BY <2>2 DEF Left, Release, TypeOK
    <3>3. \A x \in offered' : x[1] \in Client /\ x[1] # c
      BY <2>2 DEF Left, TypeOK
    <3> QED
      BY <3>1, <3>2, <3>3 DEF InUse, Stored
  <2>3. ASSUME NEW c \in Client, NEW o \in Offer, StopOfferService(c, o) PROVE Spares
    <3>1. PICK U \in ReleasedUdp(c, o), L \in ReleasedTcp(c, o) :
            open' = open \ (L \cup {s \in U : ~InUse(serverEps', s)})
      BY <2>3 DEF StopOfferService
    <3>2. \A s \in open \ open' : s.protocol = "udp" => s \in U
      BY <3>1, ReleasedIsOwn
    <3> QED
      BY <3>2, ReleasedIsOwn
  <2>4. ASSUME NEW c \in Client,
               \/ Connect(c) \/ Leave(c) \/ OfferUdpOpened(c) \/ OfferTcpBinds(c)
               \/ OfferTcpOpened(c) \/ ClientEndpointOpened(c)
        PROVE  open \subseteq open'
    BY <2>4 DEF Connect, Leave, OfferUdpOpened, OfferTcpBinds, OfferTcpOpened,
                ClientEndpointOpened
  <2>5. ASSUME NEW c \in Client, NEW o \in Offer, OfferService(c, o)
        PROVE  open \subseteq open'
    BY <2>5 DEF OfferService
  <2>6. ASSUME NEW c \in Client, NEW p \in OwnPort, Receive(c, p) \/ Call(c, p)
        PROVE  open \subseteq open'
    BY <2>6 DEF Receive, Call
  <2>7. CASE UNCHANGED vars
    BY <2>7 DEF vars
  <2> QED
    BY <2>1, <2>2, <2>3, <2>4, <2>5, <2>6, <2>7 DEF Next
<1>2. QED
  BY <1>1, TypeCorrect, PTL DEF Spec, ClosingSparesHolders
-----------------------------------------------------------------------------
(* Connections that end, and timers.                                       *)

LEMMA InitClosed == Init => ClosedServesNothing
BY DEF Init, ClosedServesNothing

LEMMA NextClosed ==
  TypeOK /\ HandlerInv /\ ClosedServesNothing /\ [Next]_vars => ClosedServesNothing'
<1> SUFFICES ASSUME TypeOK, HandlerInv, ClosedServesNothing, [Next]_vars
             PROVE  ClosedServesNothing'
  OBVIOUS
<1> USE DEF ClosedServesNothing
\* A step of the handler of a connection that is open gives to that one alone.
<1>a. ASSUME NEW c \in Client, conn[c] = "open", conn'[c] # "closed",
             \A d \in Client : d # c => /\ conn'[d] = conn[d]
                                      /\ serverEps'[d] \subseteq serverEps[d],
             \A x \in offered' : x \in offered \/ x[1] = c
      PROVE  ClosedServesNothing'
  BY <1>a
<1>1. ASSUME NEW c \in Client, Connect(c) \/ Leave(c) PROVE ClosedServesNothing'
  BY <1>1 DEF Connect, Leave, TypeOK
<1>2. ASSUME NEW c \in Client, Left(c) PROVE ClosedServesNothing'
  <2>1. /\ conn' = [conn EXCEPT ![c] = "closed"]
        /\ serverEps' = [serverEps EXCEPT ![c] = {}]
        /\ offered' = {x \in offered : x[1] # c}
    BY <1>2 DEF Left, Release, TypeOK
  <2> QED
    BY <2>1 DEF TypeOK
<1>3. ASSUME NEW c \in Client, OfferUdpOpened(c) PROVE ClosedServesNothing'
  BY <1>3, <1>a DEF OfferUdpOpened, Add, TypeOK, HandlerInv, Idle
<1>4. ASSUME NEW c \in Client, OfferTcpBinds(c) PROVE ClosedServesNothing'
  BY <1>4, <1>a DEF OfferTcpBinds, TypeOK, HandlerInv, Idle
<1>5. ASSUME NEW c \in Client, OfferTcpOpened(c) PROVE ClosedServesNothing'
  BY <1>5, <1>a DEF OfferTcpOpened, Add, TypeOK, HandlerInv, Idle
<1>6. ASSUME NEW c \in Client, ClientEndpointOpened(c) PROVE ClosedServesNothing'
  BY <1>6 DEF ClientEndpointOpened
<1>7. ASSUME NEW c \in Client, NEW o \in Offer, OfferService(c, o)
      PROVE  ClosedServesNothing'
  <2>1. /\ conn[c] = "open" /\ UNCHANGED conn
        /\ offered' = offered \cup {<<c, o>>}
        /\ \A d \in Client : d # c => serverEps'[d] = serverEps[d]
    BY <1>7 DEF OfferService, Add, Ready, TypeOK
  <2> QED
    BY <2>1, <1>a
<1>8. ASSUME NEW c \in Client, NEW o \in Offer, StopOfferService(c, o)
      PROVE  ClosedServesNothing'
  <2>1. PICK S : serverEps' = [serverEps EXCEPT ![c] = @ \ S]
    BY <1>8 DEF StopOfferService
  <2> QED
    BY <1>8, <2>1, <1>a DEF StopOfferService, Ready, TypeOK
<1>9. ASSUME NEW c \in Client, NEW p \in OwnPort, Receive(c, p) \/ Call(c, p)
      PROVE  ClosedServesNothing'
  BY <1>9 DEF Receive, Call
<1>10. CASE UNCHANGED vars
  BY <1>10 DEF vars
<1> QED
  BY <1>1, <1>2, <1>3, <1>4, <1>5, <1>6, <1>7, <1>8, <1>9, <1>10 DEF Next

\* Nothing of a connection that ended is offered or served: its handlers are not
\* suspended when it ends, and those of others store only for their own.
THEOREM EndedServeNothing == Spec => []ClosedServesNothing
<1>1. QED
  BY InitType, InitClosed, NextType, NextClosed, PTL DEF Spec

\* A suspended offer is stored: it is what the handler stored first.
SuspendedAreOffered ==
  \A c \in Client : pc[c].at \in {"offer_udp", "bind_tcp", "offer_tcp"} =>
                    <<c, pc[c].offer>> \in offered

TimerInv == TimersMatchOffers /\ SuspendedAreOffered

LEMMA InitTimers == Init => TimerInv
BY DEF Init, TimerInv, TimersMatchOffers, SuspendedAreOffered, Idle

LEMMA NextTimers ==
  TypeOK /\ HandlerInv /\ TimerInv /\ [Next]_vars => TimerInv'
<1> SUFFICES ASSUME TypeOK, HandlerInv, TimerInv, [Next]_vars PROVE TimerInv'
  OBVIOUS
<1> USE DEF TimerInv, TimersMatchOffers, SuspendedAreOffered
\* What goes on once the UDP endpoint is there either starts the timer or is
\* suspended again for the same offer.
<1>a. ASSUME NEW c \in Client, NEW o \in Offer, AfterUdp(c, o), UNCHANGED conn,
             offered' = offered \cup {<<c, o>>},
             \/ pc[c] = Idle
             \/ pc[c].at = "offer_udp" /\ pc[c].offer = o
      PROVE  TimerInv'
  <2> DEFINE waits == [at |-> "bind_tcp", offer |-> o]
  <2>1. CASE pc' = [pc EXCEPT ![c] = waits] /\ UNCHANGED timers
    <3>1. pc'[c] = waits /\ \A d \in Client : d # c => pc'[d] = pc[d]
      BY <2>1 DEF TypeOK
    <3>2. waits.at = "bind_tcp" /\ waits.offer = o
      OBVIOUS
    <3>3. SuspendedAreOffered'
      BY <1>a, <3>1, <3>2
    <3>4. \A d \in timers' : \E x \in offered' : x[2].delay = d
      BY <1>a, <2>1
    <3>5. ASSUME NEW x \in offered', x # <<c, o>>
          PROVE  \/ x[2].delay \in timers'
                 \/ conn'[x[1]] = "broken"
                 \/ /\ pc'[x[1]].at \in {"offer_udp", "bind_tcp", "offer_tcp"}
                    /\ pc'[x[1]].offer = x[2]
      <4>1. x \in offered /\ x = <<x[1], x[2]>> /\ x[1] \in Client
        BY <1>a, <3>5 DEF TypeOK
      <4>2. CASE x[1] = c
        BY <1>a, <2>1, <3>5, <4>1, <4>2 DEF Idle
      <4>3. CASE x[1] # c
        BY <1>a, <2>1, <3>1, <4>1, <4>3
      <4> QED
        BY <4>2, <4>3
    <3>6. <<c, o>>[1] = c /\ <<c, o>>[2] = o
      OBVIOUS
    <3> QED
      BY <3>1, <3>2, <3>3, <3>4, <3>5, <3>6
  <2>2. CASE pc' = [pc EXCEPT ![c] = Idle] /\ timers' = timers \cup {o.delay}
    <3>1. Idle.at = "idle" /\ pc'[c] = Idle /\ \A d \in Client : d # c => pc'[d] = pc[d]
      BY <2>2 DEF TypeOK, Idle
    <3>2. SuspendedAreOffered'
      BY <1>a, <3>1
    <3>3. \A d \in timers' : \E x \in offered' : x[2].delay = d
      <4>1. <<c, o>> \in offered' /\ <<c, o>>[2].delay = o.delay
        BY <1>a
      <4>2. \A x \in offered : x \in offered'
        BY <1>a
      <4>3. ASSUME NEW d \in timers, d # o.delay
            PROVE  \E x \in offered' : x[2].delay = d
        BY <4>2, <4>3
      <4> QED
        BY <2>2, <4>1, <4>3
    <3>4. ASSUME NEW x \in offered'
          PROVE  \/ x[2].delay \in timers'
                 \/ conn'[x[1]] = "broken"
                 \/ /\ pc'[x[1]].at \in {"offer_udp", "bind_tcp", "offer_tcp"}
                    /\ pc'[x[1]].offer = x[2]
      <4>1. CASE x = <<c, o>>
        BY <2>2, <4>1
      <4>2. CASE x \in offered /\ x[1] = c
        BY <1>a, <2>2, <4>2 DEF Idle
      <4>3. CASE x \in offered /\ x[1] # c
        BY <1>a, <2>2, <3>1, <4>3 DEF TypeOK
      <4> QED
        BY <1>a, <4>1, <4>2, <4>3
    <3> QED
      BY <3>2, <3>3, <3>4
  <2> QED
    BY <1>a, <2>1, <2>2 DEF AfterUdp
\* Timers and offers of a client go; no handler of it is suspended.
<1>b. ASSUME NEW c \in Client, pc[c] = Idle, UNCHANGED pc, offered' \subseteq offered,
             \A x \in offered : x[1] # c => x \in offered',
             timers' = UsedTimers(offered'),
             \A d \in Client : conn[d] = "broken" => conn'[d] = "broken"
      PROVE  TimerInv'
  BY <1>b DEF UsedTimers, TypeOK, Idle
<1>1. ASSUME NEW c \in Client, Connect(c) \/ Leave(c) PROVE TimerInv'
  BY <1>1 DEF Connect, Leave, Ready, TypeOK
<1>2. ASSUME NEW c \in Client, Left(c) PROVE TimerInv'
  <2>1. pc[c] = Idle
    BY <1>2 DEF Left, HandlerInv
  <2> QED
    BY <1>2, <2>1, <1>b DEF Left, TypeOK
<1>3. ASSUME NEW c \in Client, OfferUdpOpened(c) PROVE TimerInv'
  <2>1. pc[c].offer \in Offer
    BY <1>3, SuspendedFields DEF OfferUdpOpened, TypeOK
  <2>2. offered' = offered \cup {<<c, pc[c].offer>>}
    BY <1>3 DEF OfferUdpOpened
  <2> QED
    BY <1>3, <2>1, <2>2, <1>a DEF OfferUdpOpened
<1>4. ASSUME NEW c \in Client, OfferTcpBinds(c) PROVE TimerInv'
  BY <1>4 DEF OfferTcpBinds, TypeOK, Idle
<1>5. ASSUME NEW c \in Client, OfferTcpOpened(c) PROVE TimerInv'
  BY <1>5 DEF OfferTcpOpened, TypeOK, Idle
<1>6. ASSUME NEW c \in Client, ClientEndpointOpened(c) PROVE TimerInv'
  BY <1>6 DEF ClientEndpointOpened, TypeOK, Idle
<1>7. ASSUME NEW c \in Client, NEW o \in Offer, OfferService(c, o) PROVE TimerInv'
  <2>1. pc[c] = Idle /\ UNCHANGED conn /\ offered' = offered \cup {<<c, o>>}
    BY <1>7 DEF OfferService, Ready
  <2>2. CASE AfterUdp(c, o)
    BY <2>1, <2>2, <1>a
  <2>3. ASSUME NEW s, UNCHANGED timers,
               pc' = [pc EXCEPT ![c] = [at |-> "offer_udp", offer |-> o, socket |-> s]]
        PROVE  TimerInv'
    BY <2>1, <2>3 DEF TypeOK, Idle
  <2> QED
    BY <1>7, <2>2, <2>3 DEF OfferService
<1>8. ASSUME NEW c \in Client, NEW o \in Offer, StopOfferService(c, o) PROVE TimerInv'
  <2>1. pc[c] = Idle /\ UNCHANGED <<pc, conn>> /\ timers' = UsedTimers(offered')
    BY <1>8 DEF StopOfferService, Ready
  <2>2. offered' \subseteq offered /\ \A x \in offered : x[1] # c => x \in offered'
    BY <1>8 DEF StopOfferService
  <2> QED
    BY <2>1, <2>2, <1>b
<1>9. ASSUME NEW c \in Client, NEW p \in OwnPort, Receive(c, p) \/ Call(c, p)
      PROVE  TimerInv'
  BY <1>9 DEF Receive, Call, Ready, TypeOK, Idle
<1>10. CASE UNCHANGED vars
  BY <1>10 DEF vars
<1> QED
  BY <1>1, <1>2, <1>3, <1>4, <1>5, <1>6, <1>7, <1>8, <1>9, <1>10 DEF Next

\* A timer runs for the delay of every offered service and for no other, but for
\* the time its handler is suspended: handlers of other clients that clean the
\* timers up meanwhile find the offer stored.
THEOREM TimersAreOfOffers == Spec => []TimersMatchOffers
<1>1. TimerInv => TimersMatchOffers
  BY DEF TimerInv
<1>2. QED
  BY <1>1, InitType, InitTimers, NextType, NextTimers, PTL DEF Spec
=============================================================================
