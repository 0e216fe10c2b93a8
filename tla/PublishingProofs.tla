-------------------------- MODULE PublishingProofs --------------------------
(***************************************************************************)
(* Proofs about the publishing of events, for all applications,            *)
(* eventgroups, peers and times: types, who is sent an event and how       *)
(* often, and what applications are told of their subscribers.             *)
(***************************************************************************)
EXTENDS Publishing, FiniteSetTheorems, TLAPS

PairOf(e) == <<e.group, e.peer>>

\* The entries of a table are for wanted pairs of an eventgroup that the offer
\* has, and each pair is there once.
ShapeInv ==
  \A a \in App :
    /\ \A e \in table[a] : PairOf(e) \in Wanted /\ e.group \in GroupsOf[a]
    /\ \A e, f \in table[a] : PairOf(e) = PairOf(f) => e = f

LEMMA TimeTypes ==
  /\ MaxTime \in Nat /\ Forever \in Nat /\ Never \in Nat /\ Never = MaxTime + 1
  /\ Unpromised = 0 /\ Time = 0..MaxTime
BY TimeAssumption DEF Never, Unpromised, Time

LEMMA LifetimeType ==
  ASSUME NEW w \in Wanted, NEW ttl \in Lifetime[w[2]]
  PROVE  w[1] \in Group /\ w[2] \in Peer /\ w = <<w[1], w[2]>> /\ ttl \in Nat \ {0}
BY WantedAssumption, TimeAssumption

LEMMA UpdateIsPart ==
  ASSUME NEW entries
  PROVE  \A e : e \in Update(entries) <=> e \in entries /\ Alive(e)
BY DEF Update

LEMMA DeadlineType ==
  ASSUME now \in Time, NEW ttl \in Nat \ {0}
  PROVE  Deadline(ttl) \in 0..Never /\ Deadline(ttl) > now
BY TimeTypes DEF Deadline

\* Adding a subscriber leaves the others and puts one entry, with the time of now,
\* where there was none or an earlier one, whose time to live it keeps.
LEMMA AddIsOne ==
  ASSUME NEW S, S \subseteq Entry, NEW w \in Wanted, NEW ttl \in Lifetime[w[2]],
         now \in Time, \A e, f \in S : PairOf(e) = PairOf(f) => e = f
  PROVE  \E n \in Entry :
           /\ PairOf(n) = w /\ n.at = now
           /\ n.ttl = ttl \/ \E e \in S : PairOf(e) = w /\ n.ttl = e.ttl
           /\ AddSubscriber(S, w, ttl) = {e \in S : PairOf(e) # w} \cup {n}
<1>1. w[1] \in Group /\ w[2] \in Peer /\ w = <<w[1], w[2]>> /\ ttl \in Nat
  BY LifetimeType
<1>2. \A e : SameSubscriber(e, w) <=> PairOf(e) = w
  BY DEF SameSubscriber, PairOf
<1>3. CASE ~\E e \in S : SameSubscriber(e, w)
  <2> DEFINE n == [group |-> w[1], peer |-> w[2], ttl |-> ttl, at |-> now]
  <2>1. n \in Entry /\ PairOf(n) = w /\ n.at = now /\ n.ttl = ttl
    BY <1>1 DEF Entry, PairOf
  <2>2. AddSubscriber(S, w, ttl) = S \cup {n}
    BY <1>3 DEF AddSubscriber
  <2>3. S = {e \in S : PairOf(e) # w}
    BY <1>2, <1>3
  <2> QED
    BY <2>1, <2>2, <2>3
<1>4. CASE \E e \in S : SameSubscriber(e, w)
  <2>1. PICK o \in S : PairOf(o) = w
    BY <1>2, <1>4
  <2> DEFINE n == [o EXCEPT !.at = now]
             set == {IF SameSubscriber(e, w) THEN [e EXCEPT !.at = now] ELSE e : e \in S}
  <2>2. n \in Entry /\ PairOf(n) = w /\ n.at = now /\ n.ttl = o.ttl
    BY <2>1 DEF Entry, PairOf
  <2>3. AddSubscriber(S, w, ttl) = set
    BY <1>4 DEF AddSubscriber
  <2>4. \A e \in S : SameSubscriber(e, w) <=> e = o
    BY <1>2, <2>1
  <2>5. set = {e \in S : PairOf(e) # w} \cup {n}
    BY <1>2, <2>1, <2>4
  <2> QED
    BY <2>1, <2>2, <2>3, <2>5
<1>5. QED
  BY <1>3, <1>4

\* One entry of a table for a peer is one eventgroup of the offer.
LEMMA EntriesInject ==
  ASSUME TypeOK, ShapeInv, NEW entries, NEW g, NEW p \in Peer, NEW T,
         \A a \in App : entries[a] \subseteq table[a],
         \A a \in App : \A e \in entries[a] : e.peer = p => <<a, e.group>> \in T
  PROVE  \E f : f \in Injection(EntriesFor(entries, g, p), T)
<1> DEFINE S == EntriesFor(entries, g, p)
           f == [x \in S |-> <<x[1], x[2].group>>]
<1>1. \A x \in S : /\ x = <<x[1], x[2]>> /\ x[1] \in App
                   /\ x[2] \in entries[x[1]] /\ x[2].peer = p
  BY DEF EntriesFor, Publishers
<1>2. \A x \in S : f[x] \in T
  BY <1>1
<1>3. ASSUME NEW x \in S, NEW y \in S, f[x] = f[y] PROVE x = y
  <2>1. x[1] = y[1] /\ x[2].group = y[2].group
    BY <1>3
  <2>2. PairOf(x[2]) = PairOf(y[2])
    BY <1>1, <2>1 DEF PairOf
  <2>3. x[2] \in table[x[1]] /\ y[2] \in table[x[1]]
    BY <1>1, <2>1
  <2>4. x[2] = y[2]
    BY <1>1, <2>2, <2>3 DEF ShapeInv
  <2> QED
    BY <1>1, <2>1, <2>4
<1>4. f \in [S -> T]
  BY <1>2
<1> HIDE DEF f
<1>5. f \in Injection(S, T)
  BY <1>3, <1>4 DEF Injection, IsInjective
<1>6. QED
  BY <1>5

LEMMA PairsFinite == IsFiniteSet(App \X Group)
BY AppAssumption, FS_Product

LEMMA CopiesType ==
  ASSUME TypeOK, ShapeInv, NEW entries, NEW g, NEW p \in Peer,
         \A a \in App : entries[a] \subseteq table[a]
  PROVE  IsFiniteSet(EntriesFor(entries, g, p)) /\ Copies(entries, g, p) \in Nat
<1>1. \A a \in App : \A e \in entries[a] : <<a, e.group>> \in App \X Group
  BY DEF TypeOK, Entry
<1>2. PICK f : f \in Injection(EntriesFor(entries, g, p), App \X Group)
  BY <1>1, EntriesInject
<1>3. QED
  BY <1>2, PairsFinite, FS_Injection, FS_CardinalityType DEF Copies
-----------------------------------------------------------------------------
LEMMA InitType == Init => TypeOK /\ ShapeInv
<1> SUFFICES ASSUME Init PROVE TypeOK /\ ShapeInv
  OBVIOUS
<1>1. 0 \in Time /\ [w \in Wanted |-> Unpromised] \in Deadlines
  BY TimeTypes DEF Deadlines
<1>2. served \in BOOLEAN
  BY Zenon DEF Init
<1>3. QED
  BY <1>1, <1>2 DEF Init, TypeOK, ShapeInv

LEMMA LapsedType ==
  ASSUME NEW d \in Deadlines, NEW time \in Nat PROVE Lapsed(d, time) \in Deadlines
BY TimeTypes DEF Lapsed, Deadlines

\* The table of a and what is promised there, if the subscription matches: one entry
\* with the time of now takes the place of an earlier one for w.
Entered(a, w, ttl) ==
  /\ w[1] \in GroupsOf[a]
  /\ promise'[a] = [promise[a] EXCEPT ![w] = Deadline(ttl)]
  /\ changed'[a] \ {w} = changed[a] \ {w}
  /\ \E n \in Entry :
       /\ PairOf(n) = w /\ n.at = now
       /\ w \notin changed'[a] => n.ttl = ttl
       /\ table'[a] = {e \in Update(table[a]) : PairOf(e) # w} \cup {n}

\* What a subscription does to the tables and to what is promised.
LEMMA SubscribeMeans ==
  ASSUME TypeOK, ShapeInv, NEW w \in Wanted, NEW ttl \in Lifetime[w[2]], Subscribe(w, ttl),
         NEW a \in App
  PROVE  /\ a \notin Matching(w) =>
              table'[a] = Update(table[a]) /\ promise'[a] = promise[a] /\ changed'[a] = changed[a]
         /\ a \in Matching(w) => Entered(a, w, ttl)
<1>1. /\ table'[a] = IF a \in Matching(w) THEN AddSubscriber(Update(table[a]), w, ttl)
                     ELSE Update(table[a])
      /\ promise'[a] = IF a \in Matching(w) THEN [promise[a] EXCEPT ![w] = Deadline(ttl)]
                       ELSE promise[a]
      /\ changed'[a] = IF a \notin Matching(w) THEN changed[a]
                       ELSE IF KeepsAnother(Update(table[a]), w, ttl) THEN changed[a] \cup {w}
                       ELSE changed[a] \ {w}
  BY DEF Subscribe
<1>2. Update(table[a]) \subseteq table[a] /\ table[a] \subseteq Entry
  BY UpdateIsPart DEF TypeOK
<1>3. now \in Time /\ \A e, f \in Update(table[a]) : PairOf(e) = PairOf(f) => e = f
  BY <1>2 DEF TypeOK, ShapeInv
<1>4. a \in Matching(w) => w[1] \in GroupsOf[a]
  BY DEF Matching
<1> HIDE DEF Subscribe
<1>5. \E n \in Entry :
        /\ PairOf(n) = w /\ n.at = now
        /\ n.ttl = ttl \/ \E e \in Update(table[a]) : PairOf(e) = w /\ n.ttl = e.ttl
        /\ AddSubscriber(Update(table[a]), w, ttl)
             = {e \in Update(table[a]) : PairOf(e) # w} \cup {n}
  BY <1>2, <1>3, AddIsOne
<1>6. ASSUME a \in Matching(w) PROVE Entered(a, w, ttl)
  <2>1. PICK n \in Entry :
          /\ PairOf(n) = w /\ n.at = now
          /\ n.ttl = ttl \/ \E e \in Update(table[a]) : PairOf(e) = w /\ n.ttl = e.ttl
          /\ AddSubscriber(Update(table[a]), w, ttl)
               = {e \in Update(table[a]) : PairOf(e) # w} \cup {n}
    BY <1>5, Zenon
  <2>2. w \notin changed'[a] => ~KeepsAnother(Update(table[a]), w, ttl)
    BY <1>1, <1>6
  <2>3. w \notin changed'[a] => n.ttl = ttl
    BY <2>1, <2>2 DEF KeepsAnother, SameSubscriber, PairOf
  <2>4. changed'[a] \ {w} = changed[a] \ {w}
    BY <1>1, <1>6
  <2> QED
    BY <1>1, <1>4, <1>6, <2>1, <2>3, <2>4 DEF Entered
<1>7. QED
  BY <1>1, <1>6

LEMMA NextType == TypeOK /\ ShapeInv /\ [Next]_vars => TypeOK' /\ ShapeInv'
<1> SUFFICES ASSUME TypeOK, ShapeInv, [Next]_vars PROVE TypeOK' /\ ShapeInv'
  OBVIOUS
\* Steps that leave the tables alone and send nothing.
<1>a. ASSUME UNCHANGED <<now, table, promise, changed, heirs>>, last' = Nothing,
             connected' \subseteq App, offered' \subseteq App, served' \in BOOLEAN,
             told' \in [App -> Deadlines]
      PROVE  TypeOK' /\ ShapeInv'
  BY <1>a DEF TypeOK, ShapeInv
<1>b. connected \subseteq App /\ offered \subseteq App /\ served \in BOOLEAN
      /\ told \in [App -> Deadlines]
  BY DEF TypeOK
<1>1. ASSUME NEW a \in App, Connect(a) PROVE TypeOK' /\ ShapeInv'
  BY <1>1 DEF Connect, TypeOK, ShapeInv
<1>2. ASSUME NEW a \in App, Disconnect(a) PROVE TypeOK' /\ ShapeInv'
  <2>1. [w \in Wanted |-> Unpromised] \in Deadlines
    BY TimeTypes DEF Deadlines
  <2>2. told' \in [App -> Deadlines]
    BY <1>2, <1>b, <2>1 DEF Disconnect
  <2> QED
    BY <1>2, <1>a, <1>b, <2>2 DEF Disconnect
<1>3. ASSUME NEW a \in App, OfferService(a) \/ StopOfferService(a) \/ RemoveClient(a)
      PROVE  TypeOK' /\ ShapeInv'
  <2>1. served' \in BOOLEAN
    <3>1. served' \in {served, TRUE} \/ served' \in {served, FALSE}
      BY <1>3 DEF OfferService, StopOfferService, RemoveClient
    <3> QED
      BY <3>1, <1>b, Zenon
  <2>2. offered' \subseteq App
    BY <1>3, <1>b DEF OfferService, StopOfferService, RemoveClient
  <2>3. UNCHANGED <<now, connected, table, promise, told, changed, heirs>> /\ last' = Nothing
    BY <1>3 DEF OfferService, StopOfferService, RemoveClient
  <2> QED
    BY <1>a, <1>b, <2>1, <2>2, <2>3
<1>4. ASSUME NEW w \in Wanted, NEW ttl \in Lifetime[w[2]], Subscribe(w, ttl)
      PROVE  TypeOK' /\ ShapeInv'
  <2>1. /\ w[1] \in Group /\ w[2] \in Peer /\ w = <<w[1], w[2]>> /\ ttl \in Nat \ {0}
        /\ now \in Time
    BY LifetimeType DEF TypeOK
  <2>2. Deadline(ttl) \in 0..Never
    BY <2>1, DeadlineType
  <2>3. /\ promise' = [a \in App |-> IF a \in Matching(w)
                         THEN [promise[a] EXCEPT ![w] = Deadline(ttl)] ELSE promise[a]]
        /\ told' = [a \in App |-> IF a \in Matching(w) \cap connected
                      THEN [told[a] EXCEPT ![w] = Deadline(ttl)] ELSE told[a]]
        /\ table' = [a \in App |-> table'[a]]
        /\ changed' = [a \in App |->
                         IF a \notin Matching(w) THEN changed[a]
                         ELSE IF KeepsAnother(Update(table[a]), w, ttl) THEN changed[a] \cup {w}
                         ELSE changed[a] \ {w}]
        /\ UNCHANGED <<now, connected, offered, served, heirs>>
    BY <1>4 DEF Subscribe
  <2>4. promise' \in [App -> Deadlines] /\ told' \in [App -> Deadlines]
    <3>1. \A d \in Deadlines : [d EXCEPT ![w] = Deadline(ttl)] \in Deadlines
      BY <2>2 DEF Deadlines
    <3>2. \A a \in App : promise[a] \in Deadlines /\ told[a] \in Deadlines
      BY DEF TypeOK
    <3> QED
      BY <2>3, <3>1, <3>2
  <2>5. last' \in {Nothing} \cup EventSent \cup Notice
    <3>1. CASE last' = Nothing
      BY <3>1
    <3>2. ASSUME NEW a \in Matching(w) \cap connected,
                 last' = [kind |-> "notice", app |-> a, before |-> told[a][w],
                          renewal |-> IsRenewal(Update(table[a]), w),
                          changed |-> w \in changed[a]]
          PROVE  last' \in Notice
      <4>1. a \in App /\ told[a][w] \in 0..Never
        BY <1>b DEF Deadlines
      <4>2. IsRenewal(Update(table[a]), w) \in BOOLEAN
        BY Zenon DEF IsRenewal
      <4>3. (w \in changed[a]) \in BOOLEAN
        OBVIOUS
      <4> HIDE DEF IsRenewal
      <4> QED
        BY <3>2, <4>1, <4>2, <4>3 DEF Notice
    <3>3. \/ last' = Nothing
          \/ \E a \in Matching(w) \cap connected :
               last' = [kind |-> "notice", app |-> a, before |-> told[a][w],
                        renewal |-> IsRenewal(Update(table[a]), w),
                        changed |-> w \in changed[a]]
      <4>1. Matching(w) \cap connected \subseteq App
        BY <1>b
      <4> QED
        BY <1>4, <4>1 DEF Subscribe
    <3> QED
      BY <3>1, <3>2, <3>3
  <2>6. ASSUME NEW a \in App
        PROVE  /\ table'[a] \subseteq Entry
               /\ \A e \in table'[a] : PairOf(e) \in Wanted /\ e.group \in GroupsOf[a]
               /\ \A e, f \in table'[a] : PairOf(e) = PairOf(f) => e = f
    <3>1. /\ Update(table[a]) \subseteq table[a] /\ table[a] \subseteq Entry
          /\ \A e \in table[a] : PairOf(e) \in Wanted /\ e.group \in GroupsOf[a]
          /\ \A e, f \in table[a] : PairOf(e) = PairOf(f) => e = f
      BY UpdateIsPart DEF TypeOK, ShapeInv
    <3>2. CASE a \notin Matching(w)
      <4>1. table'[a] = Update(table[a])
        BY <1>4, <3>2, SubscribeMeans
      <4> QED
        BY <3>1, <4>1
    <3>3. CASE a \in Matching(w)
      <4>1. Entered(a, w, ttl)
        BY <1>4, <3>3, SubscribeMeans
      <4>2. PICK n \in Entry :
              /\ PairOf(n) = w
              /\ table'[a] = {e \in Update(table[a]) : PairOf(e) # w} \cup {n}
        BY <4>1, Zenon DEF Entered
      <4>3. w[1] \in GroupsOf[a] /\ n.group = w[1]
        BY <2>1, <4>1, <4>2 DEF Entered, PairOf
      <4> QED
        BY <3>1, <4>2, <4>3
    <3> QED
      BY <3>2, <3>3
  <2>7. table' \in [App -> SUBSET Entry]
    BY <2>3, <2>6
  <2>8. changed' \in [App -> SUBSET Wanted]
    <3> HIDE DEF KeepsAnother
    <3> QED
      BY <2>3 DEF TypeOK
  <2> QED
    BY <2>3, <2>4, <2>5, <2>6, <2>7, <2>8 DEF TypeOK, ShapeInv
<1>5. ASSUME NEW a \in App, NEW g \in Group, SendEvent(a, g) PROVE TypeOK' /\ ShapeInv'
  <2> DEFINE fresh == [b \in App |-> Update(table[b])]
  <2>1. /\ table' = fresh /\ UNCHANGED <<now, connected, offered, served, promise, told, changed, heirs>>
        /\ last' = [kind |-> "event", group |-> g, served |-> served,
                    copies |-> [p \in Peer |-> IF served THEN Copies(fresh, g, p) ELSE 0]]
    BY <1>5 DEF SendEvent
  <2>2. \A b \in App : fresh[b] \subseteq table[b]
    BY UpdateIsPart
  <2> HIDE DEF fresh
  <2>3. \A p \in Peer : Copies(fresh, g, p) \in Nat
    BY <2>2, CopiesType
  <2>4. [p \in Peer |-> IF served THEN Copies(fresh, g, p) ELSE 0] \in [Peer -> Nat]
    BY <2>3
  <2>5. last' \in EventSent
    BY <1>b, <2>1, <2>4 DEF EventSent
  <2>6. table' \in [App -> SUBSET Entry]
    BY <2>1, <2>2 DEF TypeOK, fresh
  <2>7. TypeOK'
    BY <2>1, <2>5, <2>6 DEF TypeOK
  <2>8. ShapeInv'
    BY <2>1, <2>2 DEF ShapeInv
  <2> QED
    BY <2>7, <2>8
<1>6. CASE Tick
  <2>1. now' \in Time /\ now' \in Nat
    BY <1>6, TimeTypes DEF Tick, TypeOK
  <2>2. promise' \in [App -> Deadlines] /\ told' \in [App -> Deadlines]
    BY <1>6, <2>1, LapsedType DEF Tick, TypeOK
  <2>3. UNCHANGED <<connected, offered, served, table, changed, heirs>> /\ last' = Nothing
    BY <1>6 DEF Tick
  <2> QED
    BY <2>1, <2>2, <2>3 DEF TypeOK, ShapeInv
<1>7. CASE UNCHANGED vars
  BY <1>7 DEF vars, TypeOK, ShapeInv
<1> QED
  BY <1>1, <1>2, <1>3, <1>4, <1>5, <1>6, <1>7 DEF Next

\* Every variable keeps its type; in particular an event is only ever sent a finite
\* number of times.
THEOREM TypeCorrect == Spec => []TypeOK
<1>1. QED
  BY InitType, NextType, PTL DEF Spec
-----------------------------------------------------------------------------
(* Who is sent an event.                                                   *)

DeadlineOf(e) ==
  IF e.ttl = Forever \/ e.at + e.ttl > MaxTime THEN Never ELSE e.at + e.ttl

\* What is promised is what the entries that are alive will keep, unless the last
\* renewal asked for another time: an entry keeps the first and the acknowledgement
\* repeats the second.
PromiseInv ==
  \A a \in App :
    /\ \A e \in table[a] : Alive(e) /\ PairOf(e) \notin changed[a] =>
         promise[a][PairOf(e)] = DeadlineOf(e)
    /\ \A w \in Wanted \ changed[a] : promise[a][w] # Unpromised =>
         \E e \in table[a] : PairOf(e) = w /\ Alive(e)

\* An application that is connected was told what was promised, unless it has
\* inherited the table of an earlier connection; one that is not knows nothing.
KnownInv ==
  \A a \in App :
    /\ a \in connected \ heirs =>
         \A w \in Wanted \ changed[a] : told[a][w] = promise[a][w]
    /\ a \notin connected => told[a] = [w \in Wanted |-> Unpromised]

EventsInv == PromiseInv /\ KnownInv

LEMMA AliveHasTime ==
  ASSUME now \in Time, NEW e \in Entry
  PROVE  Alive(e) => DeadlineOf(e) > now /\ DeadlineOf(e) # Unpromised
BY TimeTypes DEF Alive, DeadlineOf, Entry

\* Promised to a peer is what an entry that is alive says.
LEMMA PromisedMeans ==
  ASSUME TypeOK, ShapeInv, PromiseInv, NEW a \in App, NEW w \in Wanted \ changed[a]
  PROVE  promise[a][w] > now <=> \E e \in table[a] : PairOf(e) = w /\ Alive(e)
<1>1. now \in Nat /\ now \in Time
  BY TimeTypes DEF TypeOK
<1>2. ASSUME promise[a][w] > now PROVE \E e \in table[a] : PairOf(e) = w /\ Alive(e)
  <2>1. promise[a][w] # Unpromised
    BY <1>1, <1>2, TimeTypes
  <2> QED
    BY <2>1 DEF PromiseInv
<1>3. ASSUME NEW e \in table[a], PairOf(e) = w, Alive(e) PROVE promise[a][w] > now
  <2>1. e \in Entry
    BY DEF TypeOK
  <2> QED
    BY <1>1, <1>3, <2>1, AliveHasTime DEF PromiseInv
<1>4. QED
  BY <1>2, <1>3

LEMMA InitEvents == Init => EventsInv
BY DEF Init, EventsInv, PromiseInv, KnownInv

LEMMA NextPromise ==
  ASSUME TypeOK, ShapeInv, PromiseInv, [Next]_vars
  PROVE  PromiseInv'
<1>a. ASSUME UNCHANGED <<now, table, promise, changed>> PROVE PromiseInv'
  BY <1>a DEF PromiseInv, Alive
<1>1. ASSUME NEW a \in App,
             \/ Connect(a) \/ Disconnect(a) \/ RemoveClient(a)
             \/ OfferService(a) \/ StopOfferService(a)
      PROVE  PromiseInv'
  BY <1>1, <1>a DEF Connect, Disconnect, RemoveClient, OfferService, StopOfferService
<1>2. ASSUME NEW w \in Wanted, NEW ttl \in Lifetime[w[2]], Subscribe(w, ttl)
      PROVE  PromiseInv'
  <2>1. now' = now /\ now \in Time /\ \A e : Alive(e)' <=> Alive(e)
    BY <1>2 DEF Subscribe, Alive, TypeOK
  <2>2. w[1] \in Group /\ w[2] \in Peer /\ w = <<w[1], w[2]>> /\ ttl \in Nat \ {0}
    BY LifetimeType
  <2> SUFFICES ASSUME NEW a \in App
               PROVE  /\ \A e \in table'[a] : Alive(e) /\ PairOf(e) \notin changed'[a] =>
                           promise'[a][PairOf(e)] = DeadlineOf(e)
                      /\ \A v \in Wanted \ changed'[a] : promise'[a][v] # Unpromised =>
                           \E e \in table'[a] : PairOf(e) = v /\ Alive(e)
    BY <2>1 DEF PromiseInv
  <2>3. /\ \A e \in table[a] : Alive(e) /\ PairOf(e) \notin changed[a] =>
             promise[a][PairOf(e)] = DeadlineOf(e)
        /\ \A v \in Wanted \ changed[a] : promise[a][v] # Unpromised =>
             \E e \in table[a] : PairOf(e) = v /\ Alive(e)
        /\ \A e \in table[a] : PairOf(e) \in Wanted
        /\ promise[a] \in [Wanted -> 0..Never]
    BY DEF PromiseInv, ShapeInv, TypeOK, Deadlines
  <2>4. CASE a \notin Matching(w)
    <3>1. table'[a] = Update(table[a]) /\ promise'[a] = promise[a] /\ changed'[a] = changed[a]
      BY <1>2, <2>4, SubscribeMeans
    <3> QED
      BY <2>3, <3>1, UpdateIsPart
  <2>5. CASE a \in Matching(w)
    <3>a. Entered(a, w, ttl)
      BY <1>2, <2>5, SubscribeMeans
    <3>1. /\ promise'[a] = [promise[a] EXCEPT ![w] = Deadline(ttl)]
          /\ \A v : v # w => (v \in changed'[a] <=> v \in changed[a])
      BY <3>a DEF Entered
    <3>2. PICK n \in Entry :
            /\ PairOf(n) = w /\ n.at = now
            /\ w \notin changed'[a] => n.ttl = ttl
            /\ table'[a] = {e \in Update(table[a]) : PairOf(e) # w} \cup {n}
      BY <3>a, Zenon DEF Entered
    <3>3. w \notin changed'[a] => Alive(n) /\ DeadlineOf(n) = Deadline(ttl)
      BY <2>1, <2>2, <3>2, TimeTypes DEF Alive, Deadline, DeadlineOf
    <3>4. ASSUME NEW e \in table'[a], Alive(e), PairOf(e) \notin changed'[a]
          PROVE  promise'[a][PairOf(e)] = DeadlineOf(e)
      <4>1. CASE e = n
        BY <2>3, <3>1, <3>2, <3>3, <3>4, <4>1
      <4>2. CASE e # n
        <5>1. e \in table[a] /\ PairOf(e) # w
          BY <3>2, <4>2, UpdateIsPart
        <5> QED
          BY <2>3, <3>1, <3>4, <5>1
      <4> QED
        BY <4>1, <4>2
    <3>5. ASSUME NEW v \in Wanted \ changed'[a], promise'[a][v] # Unpromised
          PROVE  \E e \in table'[a] : PairOf(e) = v /\ Alive(e)
      <4>1. CASE v = w
        BY <3>2, <3>3, <4>1
      <4>2. CASE v # w
        <5>1. promise[a][v] # Unpromised /\ v \notin changed[a]
          BY <2>3, <3>1, <3>5, <4>2
        <5>2. PICK e \in table[a] : PairOf(e) = v /\ Alive(e)
          BY <2>3, <5>1
        <5> QED
          BY <3>2, <4>2, <5>2, UpdateIsPart
      <4> QED
        BY <4>1, <4>2
    <3> QED
      BY <3>4, <3>5
  <2> QED
    BY <2>4, <2>5
<1>3. ASSUME NEW a \in App, NEW g \in Group, SendEvent(a, g) PROVE PromiseInv'
  <2>1. table' = [b \in App |-> Update(table[b])] /\ UNCHANGED <<now, promise, changed>>
    BY <1>3 DEF SendEvent
  <2>2. \A e : Alive(e)' <=> Alive(e)
    BY <2>1 DEF Alive
  <2>3. \A b \in App : \A e : e \in table'[b] <=> e \in table[b] /\ Alive(e)
    BY <2>1, UpdateIsPart
  <2> QED
    BY <2>1, <2>2, <2>3 DEF PromiseInv
<1>4. CASE Tick
  <2>1. /\ now \in Nat /\ now' = now + 1 /\ now' <= MaxTime /\ UNCHANGED <<table, changed>>
        /\ promise' = [a \in App |-> Lapsed(promise[a], now + 1)]
    BY <1>4, TimeTypes DEF Tick, TypeOK
  <2> SUFFICES ASSUME NEW a \in App
               PROVE  /\ \A e \in table[a] : Alive(e)' /\ PairOf(e) \notin changed[a] =>
                           promise'[a][PairOf(e)] = DeadlineOf(e)
                      /\ \A v \in Wanted \ changed[a] : promise'[a][v] # Unpromised =>
                           \E e \in table[a] : PairOf(e) = v /\ Alive(e)'
    BY <2>1 DEF PromiseInv
  <2>2. /\ \A e \in table[a] : PairOf(e) \in Wanted /\ e \in Entry
        /\ promise[a] \in [Wanted -> 0..Never]
        /\ \A v \in Wanted : promise'[a][v] =
             IF promise[a][v] > now + 1 THEN promise[a][v] ELSE Unpromised
    BY <2>1 DEF ShapeInv, TypeOK, Deadlines, Lapsed
  \* An entry stays alive exactly if its deadline is beyond the next second.
  <2>3. ASSUME NEW e \in table[a]
        PROVE  /\ Alive(e)' => Alive(e)
               /\ Alive(e) => (Alive(e)' <=> DeadlineOf(e) > now + 1)
    <3>1. /\ Alive(e) <=> e.ttl = Forever \/ now < e.at + e.ttl
          /\ Alive(e)' <=> e.ttl = Forever \/ now + 1 < e.at + e.ttl
      BY <2>1 DEF Alive
    <3>2. e.ttl \in Nat /\ e.at \in Nat
      BY <2>2, TimeTypes DEF Entry
    <3> QED
      BY <2>1, <3>1, <3>2, TimeTypes DEF DeadlineOf
  <2>4. ASSUME NEW e \in table[a], Alive(e)', PairOf(e) \notin changed[a]
        PROVE  promise'[a][PairOf(e)] = DeadlineOf(e)
    <3>1. promise[a][PairOf(e)] = DeadlineOf(e) /\ DeadlineOf(e) > now + 1
      BY <2>3, <2>4 DEF PromiseInv
    <3> QED
      BY <2>2, <3>1
  <2>5. ASSUME NEW v \in Wanted \ changed[a], promise'[a][v] # Unpromised
        PROVE  \E e \in table[a] : PairOf(e) = v /\ Alive(e)'
    <3>1. promise[a][v] > now + 1 /\ promise[a][v] # Unpromised
      BY <2>2, <2>5
    <3>2. PICK e \in table[a] : PairOf(e) = v /\ Alive(e)
      BY <3>1 DEF PromiseInv
    <3>3. promise[a][v] = DeadlineOf(e)
      BY <3>2 DEF PromiseInv
    <3> QED
      BY <2>3, <3>1, <3>2, <3>3
  <2> QED
    BY <2>4, <2>5
<1>5. CASE UNCHANGED vars
  BY <1>5, <1>a DEF vars
<1>6. QED
  BY <1>1, <1>2, <1>3, <1>4, <1>5 DEF Next

LEMMA NextKnown ==
  ASSUME TypeOK, ShapeInv, EventsInv, [Next]_vars
  PROVE  KnownInv'
<1> USE DEF KnownInv, EventsInv
<1>a. ASSUME UNCHANGED <<connected, heirs, told, promise, changed>> PROVE KnownInv'
  BY <1>a
<1>1. ASSUME NEW a \in App, Connect(a) PROVE KnownInv'
  <2>1. /\ a \notin connected /\ connected' = connected \cup {a}
        /\ heirs' = IF table[a] # {} THEN heirs \cup {a} ELSE heirs \ {a}
        /\ UNCHANGED <<told, promise, changed>>
    BY <1>1 DEF Connect
  <2>2. ASSUME table[a] = {}
        PROVE  \A w \in Wanted \ changed[a] : told[a][w] = promise[a][w]
    <3>1. \A w \in Wanted \ changed[a] : promise[a][w] = Unpromised
      BY <2>2 DEF PromiseInv
    <3> QED
      BY <2>1, <3>1
  <2> QED
    BY <2>1, <2>2
<1>2. ASSUME NEW a \in App, Disconnect(a) PROVE KnownInv'
  BY <1>2 DEF Disconnect, TypeOK
<1>3. ASSUME NEW a \in App, OfferService(a) \/ StopOfferService(a) \/ RemoveClient(a)
      PROVE  KnownInv'
  BY <1>3 DEF OfferService, StopOfferService, RemoveClient
<1>4. ASSUME NEW w \in Wanted, NEW ttl \in Lifetime[w[2]], Subscribe(w, ttl) PROVE KnownInv'
  <2>1. /\ promise' = [a \in App |-> IF a \in Matching(w)
                         THEN [promise[a] EXCEPT ![w] = Deadline(ttl)] ELSE promise[a]]
        /\ told' = [a \in App |-> IF a \in Matching(w) \cap connected
                      THEN [told[a] EXCEPT ![w] = Deadline(ttl)] ELSE told[a]]
        /\ UNCHANGED <<connected, heirs>>
    BY <1>4 DEF Subscribe
  <2>2. \A a \in App : \A v : v # w => (v \in changed'[a] <=> v \in changed[a])
    <3>1. ASSUME NEW a \in App, a \in Matching(w)
          PROVE  changed'[a] \ {w} = changed[a] \ {w}
      BY <1>4, <3>1, SubscribeMeans DEF Entered
    <3>2. ASSUME NEW a \in App, a \notin Matching(w) PROVE changed'[a] = changed[a]
      BY <1>4, <3>2, SubscribeMeans
    <3> QED
      BY <3>1, <3>2
  <2>3. \A a \in App : a \notin Matching(w) => changed'[a] = changed[a]
    BY <1>4, SubscribeMeans
  <2>4. /\ \A a \in App : promise[a] \in [Wanted -> 0..Never] /\ told[a] \in [Wanted -> 0..Never]
    BY DEF TypeOK, Deadlines
  <2> SUFFICES ASSUME NEW a \in App
               PROVE  /\ a \in connected \ heirs =>
                           \A v \in Wanted \ changed'[a] : told'[a][v] = promise'[a][v]
                      /\ a \notin connected => told'[a] = [v \in Wanted |-> Unpromised]
    BY <2>1
  <2>5. a \notin connected => told'[a] = [v \in Wanted |-> Unpromised]
    BY <2>1
  <2>6. ASSUME a \in connected \ heirs, NEW v \in Wanted \ changed'[a]
        PROVE  told'[a][v] = promise'[a][v]
    <3>1. CASE a \in Matching(w) /\ v = w
      BY <2>1, <2>4, <2>6, <3>1
    <3>2. CASE a \in Matching(w) /\ v # w
      BY <2>1, <2>2, <2>4, <2>6, <3>2
    <3>3. CASE a \notin Matching(w)
      BY <2>1, <2>3, <2>6, <3>3
    <3> QED
      BY <3>1, <3>2, <3>3
  <2> QED
    BY <2>5, <2>6
<1>5. ASSUME NEW a \in App, NEW g \in Group, SendEvent(a, g) PROVE KnownInv'
  BY <1>5 DEF SendEvent
<1>6. CASE Tick
  <2>1. /\ promise' = [a \in App |-> Lapsed(promise[a], now + 1)]
        /\ told' = [a \in App |-> Lapsed(told[a], now + 1)]
        /\ UNCHANGED <<connected, changed, heirs>>
    BY <1>6 DEF Tick
  <2>2. Lapsed([w \in Wanted |-> Unpromised], now + 1) = [w \in Wanted |-> Unpromised]
    BY DEF Lapsed
  <2>3. \A a \in App : \A w \in Wanted : told[a][w] = promise[a][w] =>
          Lapsed(told[a], now + 1)[w] = Lapsed(promise[a], now + 1)[w]
    BY DEF Lapsed
  <2> QED
    BY <2>1, <2>2, <2>3
<1>7. CASE UNCHANGED vars
  BY <1>7 DEF vars
<1>8. QED
  BY <1>1, <1>2, <1>3, <1>4, <1>5, <1>6, <1>7 DEF Next

LEMMA EventsAlways == Spec => [](TypeOK /\ ShapeInv /\ EventsInv)
<1>1. TypeOK /\ ShapeInv /\ EventsInv /\ [Next]_vars => EventsInv'
  BY NextPromise, NextKnown DEF EventsInv
<1>2. QED
  BY <1>1, InitType, InitEvents, NextType, PTL DEF Spec

\* What a step sends: an event with the copies of the entries that are alive, a
\* notice, or nothing.
LEMMA SendsEvent ==
  ASSUME [Next]_vars, last'.kind = "event"
  PROVE  \/ UNCHANGED vars
         \/ \E a \in App, g \in Group : SendEvent(a, g)
<1>1. Nothing.kind # "event"
  BY DEF Nothing
<1>2. ASSUME NEW w \in Wanted, NEW ttl \in Lifetime[w[2]], Subscribe(w, ttl) PROVE FALSE
  <2>1. ASSUME NEW a, last' = [kind |-> "notice", app |-> a, before |-> told[a][w],
                               renewal |-> IsRenewal([b \in App |-> Update(table[b])][a], w),
                               changed |-> w \in changed[a]]
        PROVE  FALSE
    <3>1. last'.kind = "notice"
      BY <2>1
    <3> QED
      BY <3>1
  <2>2. last' # Nothing
    BY <1>1
  <2> QED
    BY <1>2, <2>1, <2>2 DEF Subscribe
<1>3. ASSUME NEW a \in App,
             \/ Connect(a) \/ Disconnect(a) \/ RemoveClient(a)
             \/ OfferService(a) \/ StopOfferService(a)
      PROVE  FALSE
  BY <1>1, <1>3 DEF Connect, Disconnect, RemoveClient, OfferService, StopOfferService
<1>4. CASE Tick
  BY <1>1, <1>4 DEF Tick
<1>5. QED
  BY <1>2, <1>3, <1>4 DEF Next

PromisedPairs(p) ==
  {ag \in App \X Group : Promised(ag[1], ag[2], p) \/ Changed(ag[1], ag[2], p)}

\* The copies of an event for p, counted against what p was promised.
LEMMA EventCopies ==
  ASSUME TypeOK, ShapeInv, PromiseInv, NEW a \in App, NEW g \in Group, SendEvent(a, g),
         NEW p \in Peer
  PROVE  /\ last'.group = g /\ last'.served = served
         /\ served /\ (\E b \in App : Promised(b, g, p) /\ ~Changed(b, g, p))
              => last'.copies[p] >= 1
         /\ last'.copies[p] >= 1 =>
              \E b \in App, h \in Group : Promised(b, h, p) \/ Changed(b, h, p)
         /\ last'.copies[p] <= Cardinality(PromisedPairs(p))
<1> DEFINE fresh == [b \in App |-> Update(table[b])]
           E == EntriesFor(fresh, g, p)
<1>1. last' = [kind |-> "event", group |-> g, served |-> served,
               copies |-> [q \in Peer |-> IF served THEN Copies(fresh, g, q) ELSE 0]]
  BY DEF SendEvent
<1>2. last'.group = g /\ last'.served = served
  BY <1>1
<1>3. last'.copies[p] = IF served THEN Cardinality(E) ELSE 0
  BY <1>1 DEF Copies
<1>4. \A b \in App : \A e : e \in fresh[b] <=> e \in table[b] /\ Alive(e)
  BY UpdateIsPart
<1>5. \A b \in App : \A e \in table[b] : /\ e \in Entry /\ e.group \in Group
                                         /\ PairOf(e) \in Wanted
  BY DEF TypeOK, Entry, ShapeInv
\* An entry that is alive is promised, or was changed.
<1>6. ASSUME NEW b \in App, NEW e \in fresh[b], e.peer = p
      PROVE  <<b, e.group>> \in PromisedPairs(p)
  <2>1. e \in table[b] /\ Alive(e) /\ PairOf(e) = <<e.group, p>>
    BY <1>4, <1>6 DEF PairOf
  <2>2. <<e.group, p>> \in Wanted
    BY <1>5, <2>1
  <2>3. <<e.group, p>> \notin changed[b] => promise[b][<<e.group, p>>] > now
    BY <2>1, <2>2, PromisedMeans
  <2> QED
    BY <1>5, <2>1, <2>2, <2>3 DEF PromisedPairs, Promised, Changed
<1>7. IsFiniteSet(PromisedPairs(p))
  BY PairsFinite, FS_Subset DEF PromisedPairs
<1>8. \A b \in App : fresh[b] \subseteq table[b]
  BY <1>4
<1>9. IsFiniteSet(E) /\ Cardinality(E) \in Nat
  <2> HIDE DEF fresh
  <2> QED
    BY <1>8, CopiesType DEF Copies
<1>10. Cardinality(PromisedPairs(p)) \in Nat
  BY <1>7, FS_CardinalityType
<1>11. Cardinality(E) <= Cardinality(PromisedPairs(p))
  <2> HIDE DEF fresh
  <2>1. PICK f : f \in Injection(E, PromisedPairs(p))
    BY <1>6, <1>8, EntriesInject
  <2> QED
    BY <1>7, <2>1, FS_Injection
<1>12. ASSUME NEW b \in App, Promised(b, g, p), ~Changed(b, g, p)
       PROVE  Cardinality(E) >= 1
  <2>1. <<g, p>> \in Wanted \ changed[b] /\ promise[b][<<g, p>>] > now
    BY <1>12 DEF Promised, Changed
  <2>2. PICK e \in table[b] : PairOf(e) = <<g, p>> /\ Alive(e)
    BY <2>1, PromisedMeans
  <2>3. e.group = g /\ e.peer = p
    BY <2>2 DEF PairOf
  <2>4. b \in Publishers(g)
    BY <2>3 DEF ShapeInv, Publishers
  <2>5. e \in fresh[b]
    BY <1>4, <2>2
  <2>6. <<b, e>> \in E
    BY <2>3, <2>4, <2>5 DEF EntriesFor
  <2> QED
    BY <1>9, <2>6, FS_EmptySet
<1>13. ASSUME Cardinality(E) >= 1
       PROVE  \E b \in App, h \in Group : Promised(b, h, p) \/ Changed(b, h, p)
  <2>1. Cardinality(PromisedPairs(p)) # 0
    BY <1>9, <1>10, <1>11, <1>13
  <2>2. PromisedPairs(p) # {}
    BY <2>1, FS_EmptySet
  <2> QED
    BY <2>2 DEF PromisedPairs
<1>14. QED
  BY <1>2, <1>3, <1>9, <1>10, <1>11, <1>12, <1>13

SentInv == SubscribedReceive /\ OnlySubscribersReceive /\ OneCopyPerSubscription

LEMMA NextSent ==
  ASSUME TypeOK, ShapeInv, PromiseInv, SentInv, [Next]_vars
  PROVE  SentInv'
<1>1. CASE last'.kind # "event"
  BY <1>1 DEF SentInv, SubscribedReceive, OnlySubscribersReceive, OneCopyPerSubscription
<1>2. CASE UNCHANGED vars
  BY <1>2 DEF vars, SentInv, SubscribedReceive, OnlySubscribersReceive,
              OneCopyPerSubscription, Promised, Changed
<1>3. ASSUME NEW a \in App, NEW g \in Group, SendEvent(a, g) PROVE SentInv'
  <2>1. UNCHANGED <<promise, changed, now>>
    BY <1>3 DEF SendEvent
  <2>2. \A b, h, p : /\ Promised(b, h, p)' <=> Promised(b, h, p)
                     /\ Changed(b, h, p)' <=> Changed(b, h, p)
    BY <2>1 DEF Promised, Changed
  <2>3. SubscribedReceive' /\ OnlySubscribersReceive'
    BY <1>3, <2>2, EventCopies DEF SubscribedReceive, OnlySubscribersReceive
  <2>4. \A p \in Peer : 
          {ag \in App \X Group : Promised(ag[1], ag[2], p)' \/ Changed(ag[1], ag[2], p)'}
            = PromisedPairs(p)
    BY <2>2 DEF PromisedPairs
  <2>5. OneCopyPerSubscription'
    BY <1>3, <2>4, EventCopies DEF OneCopyPerSubscription
  <2> QED
    BY <2>3, <2>5 DEF SentInv
<1>4. QED
  BY <1>1, <1>2, <1>3, SendsEvent

LEMMA SentAlways == Spec => []SentInv
<1>1. Init => SentInv
  BY DEF Init, Nothing, SentInv, SubscribedReceive, OnlySubscribersReceive,
         OneCopyPerSubscription
<1>2. TypeOK /\ ShapeInv /\ EventsInv /\ SentInv /\ [Next]_vars => SentInv'
  BY NextSent DEF EventsInv
<1>3. QED
  BY <1>1, <1>2, EventsAlways, PTL DEF Spec

\* An event reaches every peer whose acknowledgement for the eventgroup still holds,
\* if the service has an endpoint (_handle_send_event_request) and its last renewal did
\* not ask for another time to live.
THEOREM SubscribersReceive == Spec => []SubscribedReceive
<1>1. SentInv => SubscribedReceive
  BY DEF SentInv
<1>2. QED
  BY <1>1, SentAlways, PTL

\* An event reaches nobody whose every subscription has ended, unless a renewal asked
\* for another time to live.
THEOREM NobodyElseReceives == Spec => []OnlySubscribersReceive
<1>1. SentInv => OnlySubscribersReceive
  BY DEF SentInv
<1>2. QED
  BY <1>1, SentAlways, PTL

\* A peer gets at most one copy of an event for each offer and eventgroup that
\* acknowledged it, however often it renewed and whatever it asked for.
THEOREM OneCopyEach == Spec => []OneCopyPerSubscription
<1>1. SentInv => OneCopyPerSubscription
  BY DEF SentInv
<1>2. QED
  BY <1>1, SentAlways, PTL
-----------------------------------------------------------------------------
(* What applications know of their subscribers.                            *)

LEMMA NextNotice ==
  ASSUME TypeOK, ShapeInv, EventsInv, RenewalIsKnown, [Next]_vars
  PROVE  RenewalIsKnown'
<1>n. Nothing.kind # "notice"
  BY DEF Nothing
<1>1. ASSUME last' = Nothing \/ last'.kind = "event" PROVE RenewalIsKnown'
  BY <1>n, <1>1 DEF RenewalIsKnown
<1>2. ASSUME NEW w \in Wanted, NEW ttl \in Lifetime[w[2]], Subscribe(w, ttl),
             NEW a \in Matching(w) \cap connected,
             last' = [kind |-> "notice", app |-> a, before |-> told[a][w],
                      renewal |-> IsRenewal(Update(table[a]), w),
                      changed |-> w \in changed[a]]
      PROVE  RenewalIsKnown'
  <2>1. a \in App /\ a \in connected
    BY DEF TypeOK
  <2>2. now' = now /\ heirs' = heirs
    BY <1>2 DEF Subscribe
  <2>3. /\ last'.app = a /\ last'.before = told[a][w]
        /\ last'.renewal = IsRenewal(Update(table[a]), w)
        /\ last'.changed <=> w \in changed[a]
    BY <1>2
  <2>4. ASSUME a \notin heirs, w \notin changed[a] PROVE told[a][w] = promise[a][w]
    BY <2>1, <2>4 DEF EventsInv, KnownInv
  <2>5. IsRenewal(Update(table[a]), w) <=> \E e \in table[a] : PairOf(e) = w /\ Alive(e)
    BY UpdateIsPart DEF IsRenewal, SameSubscriber, PairOf
  <2>6. w \notin changed[a] =>
          (promise[a][w] > now <=> \E e \in table[a] : PairOf(e) = w /\ Alive(e))
    BY <2>1, PromisedMeans DEF EventsInv
  <2>7. a \notin heirs /\ w \notin changed[a] =>
          (IsRenewal(Update(table[a]), w) <=> told[a][w] > now)
    BY <2>4, <2>5, <2>6
  <2> HIDE DEF IsRenewal
  <2> QED
    BY <2>2, <2>3, <2>7 DEF RenewalIsKnown
<1>3. ASSUME NEW w \in Wanted, NEW ttl \in Lifetime[w[2]], Subscribe(w, ttl)
      PROVE  RenewalIsKnown'
  <2>1. connected \subseteq App
    BY DEF TypeOK
  <2>2. \/ last' = Nothing
        \/ \E a \in Matching(w) \cap connected :
             last' = [kind |-> "notice", app |-> a, before |-> told[a][w],
                      renewal |-> IsRenewal(Update(table[a]), w),
                      changed |-> w \in changed[a]]
    BY <1>3, <2>1 DEF Subscribe
  <2> QED
    BY <1>1, <1>2, <1>3, <2>2
<1>4. ASSUME NEW a \in App,
             \/ Connect(a) \/ Disconnect(a) \/ RemoveClient(a)
             \/ OfferService(a) \/ StopOfferService(a)
      PROVE  RenewalIsKnown'
  BY <1>1, <1>4 DEF Connect, Disconnect, RemoveClient, OfferService, StopOfferService
<1>5. ASSUME NEW a \in App, NEW g \in Group, SendEvent(a, g) PROVE RenewalIsKnown'
  BY <1>1, <1>5 DEF SendEvent
<1>6. CASE Tick
  BY <1>1, <1>6 DEF Tick
<1>7. CASE UNCHANGED vars
  BY <1>7 DEF vars, RenewalIsKnown
<1>8. QED
  BY <1>3, <1>4, <1>5, <1>6, <1>7 DEF Next

\* A subscription is announced as a renewal exactly if the application was told of
\* it before and its time has not passed (_handle_subscription, is_renewal), unless it
\* inherited its table or the renewal before asked for another time to live.
THEOREM RenewalsAreKnown == Spec => []RenewalIsKnown
<1>1. Init => RenewalIsKnown
  BY DEF Init, Nothing, RenewalIsKnown
<1>2. TypeOK /\ ShapeInv /\ EventsInv /\ RenewalIsKnown /\ [Next]_vars => RenewalIsKnown'
  BY NextNotice
<1>3. QED
  BY <1>1, <1>2, EventsAlways, PTL DEF Spec
=============================================================================
