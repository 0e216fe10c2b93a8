------------------------------ MODULE SdMessages ------------------------------
(***************************************************************************)
(* Service discovery messages on the wire.  The daemon composes offers,    *)
(* stop offers, finds, subscriptions and acknowledgements, numbers them    *)
(* with one session handler per channel, and lays them out as entries that *)
(* refer to a shared array of options; other ECUs send messages of their   *)
(* own layout.  Whoever receives a message reads it with the code of this  *)
(* repository.                                                             *)
(*                                                                         *)
(* A service stands for the ids and versions of an entry, and for the      *)
(* eventgroup if it has one.  Lengths are kept, for the readers go by them.*)
(***************************************************************************)
EXTENDS Integers, Sequences, SequencesExt, FiniteSets

CONSTANTS
  Service,      \* services, with the eventgroup where an entry has one
  Remote,       \* those that are looked for, subscribed to and acknowledged
  EndpointsOf,  \* EndpointsOf[s]: the endpoints at which s is offered, udp first
  OfferTtl,     \* OfferTtl[s]: the time to live that its application gives s
  Client,       \* the endpoints a subscription can name
  Ttl,          \* times to live
  MaxTtl,       \* the largest time to live of an entry (0xFFFFFF)
  MaxSession,   \* the largest session id (0xFFFF)
  MaxIndex,     \* the largest index of an option in a message of the daemon (0xFF)
  PeerEntries   \* sequences of entries that other ECUs send together

Endpoint == [protocol : {"udp", "tcp"}, port : Nat]

\* A service has one address, and one option for each protocol.
ASSUME EndpointAssumption ==
  /\ EndpointsOf \in [Service -> Seq(Endpoint) \ {<<>>}]
  /\ \A s \in Service :
       /\ IsInjective(EndpointsOf[s])
       /\ \A i, j \in DOMAIN EndpointsOf[s] : EndpointsOf[s][i].port = EndpointsOf[s][j].port
ASSUME RemoteAssumption == Remote \subseteq Service

\* serialize_sd_message refuses a third option (sd_serialization.py:212).
ASSUME ClientAssumption ==
  Client \subseteq Endpoint /\ IsFiniteSet(Client) /\ Cardinality(Client) <= 2

ASSUME NumberAssumption ==
  /\ MaxTtl \in Nat \ {0}
  /\ Ttl \subseteq 1..MaxTtl
  /\ OfferTtl \in [Service -> 1..MaxTtl]
  /\ MaxSession \in Nat \ {0}
  /\ MaxIndex \in Nat

Channel == {"multicast", "unicast"}

VARIABLES
  offered,   \* the services of an offer timer, in the order of the storage
  ticking,   \* whether the task of that timer runs
  handler,   \* handler[c]: the SessionHandler of channel c
  seen,      \* history: per channel, session and flag of the last message that
             \* a peer got; FALSE if it got none
  restarted, \* history: channels on which the peer got none since the last boot
  last       \* the last message, what it was to say, and what the peer knew

vars == <<offered, ticking, handler, seen, restarted, last>>

-----------------------------------------------------------------------------
(* Session handlers                                                        *)

Boot == [session |-> 0, reboot |-> TRUE]

\* Mutant: the counter wraps to zero.
UpdatedModulo(h) == [session |-> (h.session + 1) % (MaxSession + 1), reboot |-> FALSE]

\* Mutant: the flag is never cleared.
NeverCleared(h) == [session |-> IF h.session = MaxSession THEN 1 ELSE h.session + 1,
                    reboot |-> TRUE]

\* update_session: the flag of the message is the one before the update.
Updated(h) ==
  [session |-> IF h.session + 1 > MaxSession THEN 1 ELSE h.session + 1, reboot |-> FALSE]

-----------------------------------------------------------------------------
(* Entries, and the objects of sd/entries that they stand for              *)

Kind == {"OfferService", "StopOfferService", "FindService", "Subscribe",
         "StopSubscribe", "Ack", "Nack"}

Entry(kind, service, ttl, endpoints) ==
  [kind |-> kind, service |-> service, ttl |-> ttl, endpoints |-> endpoints]

\* An offer without an endpoint cannot be read (someipyd.py:1896).
ASSUME PeerAssumption ==
  \A entries \in PeerEntries :
    /\ entries \in Seq([kind : Kind, service : Service, ttl : 1..MaxTtl, endpoints : Seq(Endpoint)])
    /\ \A i \in DOMAIN entries : entries[i].kind = "OfferService" => entries[i].endpoints # <<>>

\* entry_type_to_on_wire
OnWire == [k \in Kind |-> CASE k = "FindService" -> 0
                            [] k \in {"OfferService", "StopOfferService"} -> 1
                            [] k \in {"Subscribe", "StopSubscribe"} -> 6
                            [] k \in {"Ack", "Nack"} -> 7]

WithOptions == {"OfferService", "StopOfferService", "Subscribe", "StopSubscribe"}

IsEndpoint(option) == option.type = "endpoint"

EndpointOption(e) == [type |-> "endpoint", length |-> 9, endpoint |-> e]

\* A configuration option: length without its length and type fields.
OtherOption == [type |-> "configuration", length |-> 5]

\* The bytes of the first n options; those of one are its length and three more.
BytesUpTo(options) ==
  LET upTo[n \in 0..Len(options)] == IF n = 0 THEN 0 ELSE upTo[n - 1] + options[n].length + 3
  IN  upTo

OptionsLength(options) == BytesUpTo(options)[Len(options)]

EntryLength == 16

\* Service and eventgroup ids, flags, and the two lengths.
HeaderLength == 28

\* What is before and within the length field of the header does not count.
Message(session, reboot, entries, options) ==
  [sd |-> TRUE, session |-> session, reboot |-> reboot,
   length |-> HeaderLength + EntryLength * Len(entries) + OptionsLength(options) - 8,
   entriesLength |-> EntryLength * Len(entries), entries |-> entries,
   optionsLength |-> OptionsLength(options), options |-> options]

-----------------------------------------------------------------------------
(* serialize_sd_message                                                    *)

\* The endpoints of all entries, each at its first place.
Collected(entries) ==
  LET all == FlattenSeq([i \in DOMAIN entries |->
               IF entries[i].kind \in WithOptions THEN entries[i].endpoints ELSE <<>>])
      upTo[n \in 0..Len(all)] == IF n = 0 THEN <<>>
                                ELSE IF Contains(upTo[n - 1], all[n]) THEN upTo[n - 1]
                                ELSE Append(upTo[n - 1], all[n])
  IN  upTo[Len(all)]

\* Mutant: the index counts among the entry's own options.
OwnIndex(e, options) == 0

\* The first option in the array that is one of the entry's, counted from zero.
FirstIndex(e, options) ==
  LET mine == {i \in DOMAIN options : Contains(e.endpoints, options[i])}
  IN  IF mine = {} THEN 0 ELSE (CHOOSE i \in mine : \A j \in mine : i <= j) - 1

\* A stop of either kind and a Nack are what they are by their time to live.
TtlOnWire(e) ==
  IF e.kind \in {"StopOfferService", "StopSubscribe", "Nack"} THEN 0 ELSE e.ttl % (MaxTtl + 1)

\* The second run is never used.
WireEntry(e, options) ==
  [code |-> OnWire[e.kind], service |-> e.service, ttl |-> TtlOnWire(e),
   first |-> IF e.kind \in WithOptions THEN FirstIndex(e, options) ELSE 0,
   count |-> IF e.kind \in WithOptions THEN Len(e.endpoints) ELSE 0,
   second |-> 0, count2 |-> 0]

\* An index that does not fit its field raises.
Packs(entries) ==
  \A i \in DOMAIN entries : WireEntry(entries[i], Collected(entries)).first <= MaxIndex

\* The reboot flag is not the one of the message: it is never set.
SerializeSdMessage(entries, session) ==
  LET options == Collected(entries)
  IN  Message(session, FALSE, [i \in DOMAIN entries |-> WireEntry(entries[i], options)],
              [i \in DOMAIN options |-> EndpointOption(options[i])])

\* Mutant: the lengths count an option that is not there.
AckClaimingOption(entry, session, reboot) ==
  [sd |-> TRUE, session |-> session, reboot |-> reboot,
   length |-> 20 + EntryLength + 12, entriesLength |-> EntryLength, optionsLength |-> 12,
   entries |-> <<WireEntry(entry, <<>>)>>, options |-> <<>>]

\* build_subscribe_eventgroup_ack_sd_header and to_buffer: the lengths are
\* computed by hand for the one entry there is, and the flag is the real one.
AckMessage(entry, session, reboot) ==
  [sd |-> TRUE, session |-> session, reboot |-> reboot,
   length |-> 20 + EntryLength, entriesLength |-> EntryLength, optionsLength |-> 0,
   entries |-> <<WireEntry(entry, <<>>)>>, options |-> <<>>]

-----------------------------------------------------------------------------
(* Messages of other ECUs: nothing is shared, an option that is no endpoint  *)
(* comes first, and what follows the first endpoint is the second run.       *)

PeerMessage(entries, session) ==
  LET Before(i) == Len(FlattenSeq([j \in 1..(i - 1) |-> entries[j].endpoints]))
      Used(i)   == Len(entries[i].endpoints)
      PeerEntry(i) ==
        [code |-> OnWire[entries[i].kind], service |-> entries[i].service,
         ttl |-> TtlOnWire(entries[i]),
         first |-> 1 + Before(i), count |-> IF Used(i) > 0 THEN 1 ELSE 0,
         second |-> 2 + Before(i), count2 |-> IF Used(i) > 1 THEN Used(i) - 1 ELSE 0]
      endpoints == FlattenSeq([i \in DOMAIN entries |-> entries[i].endpoints])
  IN  Message(session, FALSE, [i \in DOMAIN entries |-> PeerEntry(i)],
              <<OtherOption>> \o [i \in DOMAIN endpoints |-> EndpointOption(endpoints[i])])

-----------------------------------------------------------------------------
(* Reading                                                                 *)

\* SomeIpHeader.from_buffer, is_sd_header: the ids are those of service discovery
\* and the session is not zero.
IsSdHeader(m) == m.sd /\ m.session # 0 /\ m.length >= 8

\* is_sd_message: and the message is as long as it says.
IsSdMessage(m) ==
  /\ IsSdHeader(m)
  /\ m.length >= 12
  /\ m.length + 8 <= HeaderLength + EntryLength * Len(m.entries) + OptionsLength(m.options)

\* The options are walked by their lengths until all bytes are used.
ReadOptions(m) ==
  LET before(i) == BytesUpTo(m.options)[i - 1]
  IN  SubSeq(m.options, 1, Cardinality({i \in DOMAIN m.options : before(i) < m.optionsLength}))

ReadEntries(m) == SubSeq(m.entries, 1, m.entriesLength \div EntryLength)

\* The options of the two runs of an entry.
Runs(e, options) ==
  [i \in 1..e.count |-> options[e.first + i]] \o [i \in 1..e.count2 |-> options[e.second + i]]

\* A run beyond the end of the array raises.
InRange(e, options) ==
  /\ e.count > 0 => e.first + e.count <= Len(options)
  /\ e.count2 > 0 => e.second + e.count2 <= Len(options)

EndpointsIn(e, options) ==
  LET run == Runs(e, options)
      upTo[n \in 0..Len(run)] == IF n = 0 THEN <<>>
                                ELSE IF IsEndpoint(run[n]) THEN Append(upTo[n - 1], run[n].endpoint)
                                ELSE upTo[n - 1]
  IN  upTo[Len(run)]

\* The kind that code and time to live make: for from_buffer of the entry.
ReadKind(e) ==
  CASE e.code = 0 -> "FindService"
    [] e.code = 1 -> IF e.ttl # 0 THEN "OfferService" ELSE "StopOfferService"
    [] e.code = 6 -> IF e.ttl # 0 THEN "Subscribe" ELSE "StopSubscribe"
    [] e.code = 7 -> IF e.ttl # 0 THEN "Ack" ELSE "Nack"

Eventgroup == {"Subscribe", "StopSubscribe", "Ack", "Nack"}

Unread == [ok |-> FALSE]

\* An eventgroup entry raises, for it is constructed with a minor version.
Raises(e, options) ==
  \/ ReadKind(e) \in Eventgroup
  \/ ReadKind(e) # "FindService" /\ ~InRange(e, options)

\* deserialize_sd_message
DeserializeSdMessage(m) ==
  LET options == ReadOptions(m)
      entries == ReadEntries(m)
      Read(e) == Entry(ReadKind(e), e.service, e.ttl,
                       IF ReadKind(e) = "FindService" THEN <<>> ELSE EndpointsIn(e, options))
  IN  IF \E i \in DOMAIN entries : Raises(entries[i], options) THEN Unread
      ELSE [ok |-> TRUE, entries |-> [i \in DOMAIN entries |-> Read(entries[i])]]

\* The offers among the entries: an offer has the address of its first endpoint
\* and the protocols of all.  One without an endpoint would raise.
Offers(entries) ==
  {[service |-> e.service, ttl |-> e.ttl, port |-> e.endpoints[1].port,
    protocols |-> {e.endpoints[i].protocol : i \in DOMAIN e.endpoints}]
     : e \in {f \in Range(entries) : f.kind = "OfferService"}}

\* extract_subscribe_entries: one subscription for each endpoint.
Subscriptions(m) ==
  LET options == ReadOptions(m)
  IN  UNION {{[service |-> e.service, ttl |-> e.ttl, endpoint |-> p]
                : p \in Range(EndpointsIn(e, options))}
             : e \in {f \in Range(ReadEntries(m)) : ReadKind(f) = "Subscribe"}}

\* extract_subscribe_ack_eventgroup_entries and ..._nack_...
Answers(m, kind) == {e.service : e \in {f \in Range(ReadEntries(m)) : ReadKind(f) = kind}}

Heard(offers, subscriptions, acks, nacks) ==
  [offers |-> offers, subscriptions |-> subscriptions, acks |-> acks, nacks |-> nacks]

Nothing == Heard({}, {}, {}, {})

\* datagram_received_mcast: both readers in turn; Nacks are not looked for.
ReadMulticast(m) ==
  LET read == DeserializeSdMessage(m)
  IN  IF ~IsSdMessage(m) \/ ~read.ok THEN Nothing
      ELSE Heard(Offers(read.entries), Subscriptions(m), Answers(m, "Ack"), {})

\* datagram_received_ucast
ReadUnicast(m) ==
  IF ~IsSdHeader(m) THEN Nothing
  ELSE Heard({}, Subscriptions(m), Answers(m, "Ack"), Answers(m, "Nack"))

ReadOn(channel, m) == IF channel = "multicast" THEN ReadMulticast(m) ELSE ReadUnicast(m)

-----------------------------------------------------------------------------
NoMessage == [kind |-> "none"]

Init ==
  /\ offered = <<>>
  /\ ticking = FALSE
  /\ handler = [c \in Channel |-> Boot]
  /\ seen = [c \in Channel |-> [any |-> FALSE]]
  /\ restarted = {}
  /\ last = NoMessage

\* A message of the daemon takes the next session of its channel, and reaches
\* the peer or is lost.
Send(channel, entries, message) ==
  /\ handler' = [handler EXCEPT ![channel] = Updated(@)]
  /\ last' = [kind |-> "own", channel |-> channel, entries |-> entries, message |-> message,
              before |-> seen, restarted |-> channel \in restarted]
  /\ \/ UNCHANGED <<seen, restarted>>
     \/ /\ seen' = [seen EXCEPT ![channel] =
                      [any |-> TRUE, session |-> message.session, reboot |-> message.reboot]]
        /\ restarted' = restarted \ {channel}

SendEntries(channel, entries) ==
  Send(channel, entries, SerializeSdMessage(entries, Updated(handler[channel]).session))

OfferEntry(kind, s) == Entry(kind, s, OfferTtl[s], EndpointsOf[s])

\* The first service of a delay starts a timer; a timer whose task has ended stays
\* until the last one goes.
Offer(s) ==
  /\ ~Contains(offered, s)
  /\ offered' = Append(offered, s)
  /\ ticking' = (offered = <<>> \/ ticking)
  /\ last' = NoMessage
  /\ UNCHANGED <<handler, seen, restarted>>

\* The answer to a stop request is a message of its own, with the one entry,
\* whether the service is offered or not.
StopOffer(s) ==
  /\ offered' = RemoveFirst(offered, s)
  /\ ticking' = (ticking /\ offered' # <<>>)
  /\ SendEntries("multicast", <<OfferEntry("StopOfferService", s)>>)

\* offer_timer_callback, create_offer_service_message.  If an index does not fit,
\* the session is used up, nothing is sent, and the exception ends the timer's task.
OfferTimer ==
  LET entries == [i \in DOMAIN offered |-> OfferEntry("OfferService", offered[i])]
  IN  /\ ticking
      /\ UNCHANGED offered
      /\ \/ /\ Packs(entries)
            /\ SendEntries("multicast", entries)
            /\ UNCHANGED ticking
         \/ /\ ~Packs(entries)
            /\ handler' = [handler EXCEPT !["multicast"] = Updated(@)]
            /\ ticking' = FALSE
            /\ last' = NoMessage
            /\ UNCHANGED <<seen, restarted>>

\* One attempt of _probe_find_service.
FindService(s) ==
  /\ SendEntries("multicast", <<Entry("FindService", s, MaxTtl, <<>>)>>)
  /\ UNCHANGED <<offered, ticking>>

\* _handle_offered_service and _handle_stop_subscribe_eventgroup_request: the
\* options come from a set of protocols, in any order.  (Without one the entry
\* cannot be serialized: module Subscriptions.)
SubscriptionEntry(kind, s, ttl, endpoints) ==
  /\ SendEntries("unicast", <<Entry(kind, s, ttl, endpoints)>>)
  /\ UNCHANGED <<offered, ticking>>

\* _handle_subscription acknowledges one subscription with one message.
Acknowledge(s, ttl) ==
  LET entry == Entry("Ack", s, ttl, <<>>)
      h     == handler["unicast"]
  IN  /\ Send("unicast", <<entry>>, AckMessage(entry, Updated(h).session, h.reboot))
      /\ UNCHANGED <<offered, ticking>>

\* Another ECU sends something to the daemon.
PeerSends(channel, entries) ==
  /\ last' = [kind |-> "peer", channel |-> channel, entries |-> entries,
              message |-> PeerMessage(entries, 1)]
  /\ UNCHANGED <<offered, ticking, handler, seen, restarted>>

\* The daemon is started again; its applications offer again.
Restart ==
  /\ offered' = <<>>
  /\ ticking' = FALSE
  /\ handler' = [c \in Channel |-> Boot]
  /\ restarted' = Channel
  /\ last' = NoMessage
  /\ UNCHANGED seen

Next ==
  \/ \E s \in Service : Offer(s) \/ StopOffer(s)
  \/ \E s \in Remote : FindService(s)
  \/ OfferTimer
  \/ \E s \in Remote, ttl \in Ttl, kind \in {"Subscribe", "StopSubscribe"},
        endpoints \in SetToSeqs(Client) \cup {<<e>> : e \in Client} :
       SubscriptionEntry(kind, s, ttl, endpoints)
  \/ \E s \in Remote, ttl \in Ttl : Acknowledge(s, ttl)
  \/ \E channel \in Channel, entries \in PeerEntries : PeerSends(channel, entries)
  \/ Restart

Spec == Init /\ [][Next]_vars

-----------------------------------------------------------------------------
(* Properties                                                              *)

TypeOK ==
  /\ offered \in Seq(Service) /\ IsInjective(offered)
  /\ ticking \in BOOLEAN /\ (ticking => offered # <<>>)
  /\ handler \in [Channel -> [session : 0..MaxSession, reboot : BOOLEAN]]
  /\ \A c \in Channel : handler[c].reboot <=> handler[c].session = 0
  /\ seen \in [Channel -> [any : {FALSE}] \cup
                          [any : {TRUE}, session : 1..MaxSession, reboot : BOOLEAN]]
  /\ restarted \subseteq Channel

Sent == last.kind # "none"

\* The options of every entry lie side by side in the array.
Adjacent(entries) ==
  LET options == Collected(entries)
  IN  \A i \in DOMAIN entries :
        LET mine == {j \in DOMAIN options : Contains(entries[i].endpoints, options[j])}
        IN  \A j, k \in mine : k - j < Cardinality(mine)

\* What a message is to say on its channel.
Meant(channel, entries) ==
  LET Of(kind) == {e \in Range(entries) : e.kind = kind}
      subscriptions ==
        UNION {{[service |-> e.service, ttl |-> e.ttl, endpoint |-> p] : p \in Range(e.endpoints)}
               : e \in Of("Subscribe")}
  IN  IF channel = "multicast" THEN Heard(Offers(entries), {}, {}, {})
      ELSE Heard({}, subscriptions, {e.service : e \in Of("Ack")}, {e.service : e \in Of("Nack")})

\* Whoever receives a message hears what its sender meant, and nothing else: the
\* offers with their ports and protocols, one subscription for each endpoint,
\* acknowledgements and refusals; stops are never taken for anything else.
\* Options shared by several entries must lie side by side, for an entry has one
\* index and a count; eventgroup entries must not come by multicast.
MeaningIsKept ==
  (/\ Sent
   /\ last.kind = "own" => Adjacent(last.entries)
   /\ last.channel = "multicast" => \A i \in DOMAIN last.entries :
                                      last.entries[i].kind \notin Eventgroup)
  => ReadOn(last.channel, last.message) = Meant(last.channel, last.entries)

\* No message of the daemon is one that its receivers discard: the session is
\* never zero, however often it has wrapped, and the lengths are those of the bytes.
MessagesAreAccepted ==
  Sent => /\ IsSdMessage(last.message)
          /\ ReadEntries(last.message) = last.message.entries
          /\ ReadOptions(last.message) = last.message.options

\* How a peer detects that the sender was started again, from two messages.
Reboot(old, session, reboot) ==
  old.any /\ reboot /\ (~old.reboot \/ old.session >= session)

\* A peer that watches one channel never takes the daemon for restarted when it
\* was not, whatever is lost and however often the sessions wrap.
NoFalseReboot ==
  last.kind = "own" /\ Reboot(last.before[last.channel], last.message.session,
                              last.message.reboot)
  => last.restarted
=============================================================================
