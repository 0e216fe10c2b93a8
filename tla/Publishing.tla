------------------------------ MODULE Publishing ------------------------------
(***************************************************************************)
(* The offering side of events in the daemon: remote ECUs subscribe to     *)
(* eventgroups of one service instance, the daemon keeps a table of        *)
(* subscribers per offered service, and sends each event to it.            *)
(*                                                                         *)
(* The service instance is offered by an application, and possibly by its  *)
(* successor after a restart: the table is keyed by everything that makes  *)
(* an offer, the id of the connection included.  A handler without an      *)
(* await is one action.                                                    *)
(***************************************************************************)
EXTENDS Integers, FiniteSets

CONSTANTS
  App,       \* ids of connections that offer the service instance
  Group,     \* eventgroups
  Peer,      \* endpoints of remote subscribers
  GroupsOf,  \* GroupsOf[a]: the eventgroups of the service as a offers it
  Wanted,    \* the pairs of eventgroup and peer that may be subscribed
  Lifetime,  \* Lifetime[p]: the times to live peer p asks for
  Forever,   \* the time to live that never ends (0xFFFFFF)
  MaxTime    \* bound on the clock

ASSUME AppAssumption == IsFiniteSet(App) /\ IsFiniteSet(Group)
ASSUME GroupAssumption == GroupsOf \in [App -> SUBSET Group]
ASSUME WantedAssumption == Wanted \subseteq Group \X Peer
ASSUME TimeAssumption ==
  /\ MaxTime \in Nat
  /\ Forever \in Nat
  /\ Lifetime \in [Peer -> SUBSET (Nat \ {0})]

Time == 0..MaxTime

\* Later than every time; and the deadline of what was never promised.
Never == MaxTime + 1
Unpromised == 0

VARIABLES
  now,        \* the clock, in seconds
  connected,  \* applications with a transmission queue
  offered,    \* _services_to_offer, by the application that offers
  served,     \* a server endpoint is stored at the address of the service
  table,      \* table[a]: _service_subscribers of the service offered by a
  promise,    \* history: until when each subscription was acknowledged by a's offer
  told,       \* history: until when application a believes in each subscription
  changed,    \* history: the subscriptions whose last renewal asked for another time
  heirs,      \* history: ids used again whose earlier connection left a table
  last        \* what the last step sent, if it is of interest

vars == <<now, connected, offered, served, table, promise, told, changed, heirs, last>>

Entry == [group : Group, peer : Peer, ttl : Nat, at : Time]

Deadlines == [Wanted -> 0..Never]

Nothing == [kind |-> "nothing"]

\* copies[p] counts the datagrams that an event made the daemon send to p.
EventSent == [kind : {"event"}, group : Group, served : BOOLEAN, copies : [Peer -> Nat]]

\* A notice of a subscription to the application, and what it knew before.
Notice == [kind : {"notice"}, app : App, renewal : BOOLEAN, before : 0..Never,
           changed : BOOLEAN]

TypeOK ==
  /\ now \in Time
  /\ connected \subseteq App
  /\ offered \subseteq App
  /\ served \in BOOLEAN
  /\ table \in [App -> SUBSET Entry]
  /\ promise \in [App -> Deadlines]
  /\ told \in [App -> Deadlines]
  /\ changed \in [App -> SUBSET Wanted]
  /\ heirs \subseteq App
  /\ last \in {Nothing} \cup EventSent \cup Notice

-----------------------------------------------------------------------------
Init ==
  /\ now = 0
  /\ connected = {}
  /\ offered = {}
  /\ served = FALSE
  /\ table = [a \in App |-> {}]
  /\ promise = [a \in App |-> [w \in Wanted |-> Unpromised]]
  /\ told = [a \in App |-> [w \in Wanted |-> Unpromised]]
  /\ changed = [a \in App |-> {}]
  /\ heirs = {}
  /\ last = Nothing

-----------------------------------------------------------------------------
(* Applications come, offer, stop and go.  Opening and closing the server  *)
(* endpoint is the subject of module Endpoints: an offer may find it open, *)
(* open it or fail to; when a service stops, it may stay for another one.  *)

\* An id is the address of the writer in memory and is used again.
Connect(a) ==
  /\ a \notin connected \cup offered
  /\ connected' = connected \cup {a}
  /\ heirs' = IF table[a] # {} THEN heirs \cup {a} ELSE heirs \ {a}
  /\ last' = Nothing
  /\ UNCHANGED <<now, offered, served, table, promise, told, changed>>

OfferService(a) ==
  /\ a \in connected \ offered
  /\ offered' = offered \cup {a}
  /\ served' \in {served, TRUE}
  /\ last' = Nothing
  /\ UNCHANGED <<now, connected, table, promise, told, changed, heirs>>

\* The subscribers of the service stay in the table.
StopOfferService(a) ==
  /\ a \in connected \cap offered
  /\ offered' = offered \ {a}
  /\ served' \in {served, FALSE}
  /\ last' = Nothing
  /\ UNCHANGED <<now, connected, table, promise, told, changed, heirs>>

\* client_disconnected waits for the transmission task: the queue is gone
\* before the offers are.
Disconnect(a) ==
  /\ a \in connected
  /\ connected' = connected \ {a}
  /\ told' = [told EXCEPT ![a] = [w \in Wanted |-> Unpromised]]
  /\ last' = Nothing
  /\ UNCHANGED <<now, offered, served, table, promise, changed, heirs>>

RemoveClient(a) ==
  /\ a \in offered \ connected
  /\ offered' = offered \ {a}
  /\ served' \in {served, FALSE}
  /\ last' = Nothing
  /\ UNCHANGED <<now, connected, table, promise, told, changed, heirs>>

\* What has passed is as good as never promised, for the history as well.
Lapsed(deadline, time) ==
  [w \in Wanted |-> IF deadline[w] > time THEN deadline[w] ELSE Unpromised]

Tick ==
  /\ now < MaxTime
  /\ now' = now + 1
  /\ promise' = [a \in App |-> Lapsed(promise[a], now + 1)]
  /\ told' = [a \in App |-> Lapsed(told[a], now + 1)]
  /\ last' = Nothing
  /\ UNCHANGED <<connected, offered, served, table, changed, heirs>>

-----------------------------------------------------------------------------
(* Subscribers                                                             *)

\* Mutant: the last moment counts as alive.
AliveOneMore(e) == e.ttl = Forever \/ now <= e.at + e.ttl

Alive(e) == e.ttl = Forever \/ now < e.at + e.ttl

\* Subscribers.update
Update(entries) == {e \in entries : Alive(e)}

\* EventGroupSubscriber.__eq__
SameSubscriber(e, w) == <<e.group, e.peer>> = w

\* Mutant: a new subscriber is not given the time.
AddUntimed(entries, w, ttl) ==
  entries \cup {[group |-> w[1], peer |-> w[2], ttl |-> ttl]}

\* Mutant: a renewal is added next to the entry it renews.
AddAnother(entries, w, ttl) ==
  entries \cup {[group |-> w[1], peer |-> w[2], ttl |-> ttl, at |-> now]}

\* Mutant: a renewal is recognised and its entry left as it is.
AddUnlessPresent(entries, w, ttl) ==
  IF \E e \in entries : SameSubscriber(e, w) THEN entries
  ELSE entries \cup {[group |-> w[1], peer |-> w[2], ttl |-> ttl, at |-> now]}

\* Subscribers.add_subscriber: an entry that is there is given the time, and
\* keeps the time to live of the first subscription.
AddSubscriber(entries, w, ttl) ==
  IF \E e \in entries : SameSubscriber(e, w)
    THEN {IF SameSubscriber(e, w) THEN [e EXCEPT !.at = now] ELSE e : e \in entries}
    ELSE entries \cup {[group |-> w[1], peer |-> w[2], ttl |-> ttl, at |-> now]}

\* The offered services that a SubscribeEventgroup entry for w matches.
Matching(w) == {a \in offered : w[1] \in GroupsOf[a]}

Deadline(ttl) ==
  IF ttl = Forever \/ now + ttl > MaxTime THEN Never ELSE now + ttl

\* Mutant: the daemon looks for an equal subscriber after adding the new one.
IsRenewalAfterwards(entries, w) == \E e \in AddSubscriber(entries, w, Forever) :
                                     SameSubscriber(e, w)

IsRenewal(entries, w) == \E e \in entries : SameSubscriber(e, w)

\* The entry that is renewed keeps a time to live other than the one asked for.
KeepsAnother(entries, w, ttl) == \E e \in entries : SameSubscriber(e, w) /\ e.ttl # ttl

\* _handle_subscription: every matching service acknowledges with the time to
\* live of the entry and tells its application, if that still has a queue.
\* Without a match nothing is answered.
Subscribe(w, ttl) ==
  /\ LET fresh == [a \in App |-> Update(table[a])]
     IN  /\ table' = [a \in App |-> IF a \in Matching(w)
                                      THEN AddSubscriber(fresh[a], w, ttl) ELSE fresh[a]]
         /\ promise' = [a \in App |-> IF a \in Matching(w)
                           THEN [promise[a] EXCEPT ![w] = Deadline(ttl)] ELSE promise[a]]
         /\ told' = [a \in App |-> IF a \in Matching(w) \cap connected
                                     THEN [told[a] EXCEPT ![w] = Deadline(ttl)] ELSE told[a]]
         /\ changed' = [a \in App |->
                          IF a \notin Matching(w) THEN changed[a]
                          ELSE IF KeepsAnother(fresh[a], w, ttl) THEN changed[a] \cup {w}
                          ELSE changed[a] \ {w}]
         /\ IF Matching(w) \cap connected = {} THEN last' = Nothing
            ELSE \E a \in Matching(w) \cap connected :
                   last' = [kind |-> "notice", app |-> a, before |-> told[a][w],
                            renewal |-> IsRenewal(fresh[a], w), changed |-> w \in changed[a]]
  /\ UNCHANGED <<now, connected, offered, served, heirs>>

-----------------------------------------------------------------------------
(* Events                                                                  *)

\* The keys of the table that an event of eventgroup g belongs to: offers of
\* ended connections and stopped services are among them.
Publishers(g) == {a \in App : g \in GroupsOf[a]}

\* The entries for p in these tables, whatever eventgroup they are for: each of
\* them brings it a copy.
EntriesFor(entries, g, p) ==
  UNION {{<<a, e>> : e \in {x \in entries[a] : x.peer = p}} : a \in Publishers(g)}

Copies(entries, g, p) == Cardinality(EntriesFor(entries, g, p))

\* _handle_send_event_request: the daemon does not ask whether the service is
\* still offered, only whether there is an endpoint at its address.
SendEvent(a, g) ==
  /\ a \in connected
  /\ g \in GroupsOf[a]
  /\ LET fresh == [b \in App |-> Update(table[b])]
     IN  /\ table' = fresh
         /\ last' = [kind |-> "event", group |-> g, served |-> served,
                     copies |-> [p \in Peer |-> IF served THEN Copies(fresh, g, p) ELSE 0]]
  /\ UNCHANGED <<now, connected, offered, served, promise, told, changed, heirs>>

-----------------------------------------------------------------------------
Next ==
  \/ \E a \in App : \/ Connect(a) \/ Disconnect(a) \/ RemoveClient(a)
                    \/ OfferService(a) \/ StopOfferService(a)
  \/ \E w \in Wanted : \E ttl \in Lifetime[w[2]] : Subscribe(w, ttl)
  \/ \E a \in App, g \in Group : SendEvent(a, g)
  \/ Tick

Spec == Init /\ [][Next]_vars

-----------------------------------------------------------------------------
(* Properties                                                              *)

Promised(a, g, p) == <<g, p>> \in Wanted /\ promise[a][<<g, p>>] > now

\* The last renewal asked for another time to live than the subscription before it:
\* the acknowledgement repeats it, and the entry keeps the first.
Changed(a, g, p) == <<g, p>> \in changed[a]

\* Whoever was told that its subscription to the eventgroup lasts beyond now is sent
\* the event, whatever was stopped, offered again or restarted in between and however
\* often it renewed, if the service has an endpoint and no renewal asked for another
\* time to live.
SubscribedReceive ==
  last.kind = "event" /\ last.served =>
    \A p \in Peer :
      (\E a \in App : Promised(a, last.group, p) /\ ~Changed(a, last.group, p))
        => last.copies[p] >= 1

\* Nobody is sent an event whose every subscription has ended, unless a renewal asked
\* for a shorter time.
OnlySubscribersReceive ==
  last.kind = "event" =>
    \A p \in Peer : last.copies[p] >= 1 =>
      \E a \in App, g \in Group : Promised(a, g, p) \/ Changed(a, g, p)

\* Renewals never multiply events: a peer gets one copy for each offer and
\* eventgroup that acknowledged it, and no more.
OneCopyPerSubscription ==
  last.kind = "event" =>
    \A p \in Peer : last.copies[p] <=
      Cardinality({ag \in App \X Group : Promised(ag[1], ag[2], p) \/ Changed(ag[1], ag[2], p)})

\* The notice of a subscription calls it a renewal exactly if the application
\* was told of it before and its time has not passed since; unless the
\* connection has the id of an earlier one and inherited its table, or the
\* renewal before asked for another time to live.
RenewalIsKnown ==
  last.kind = "notice" /\ last.app \notin heirs /\ ~last.changed =>
    (last.renewal <=> last.before > now)
=============================================================================
