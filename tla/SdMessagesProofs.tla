--------------------------- MODULE SdMessagesProofs ---------------------------
(***************************************************************************)
(* The session handlers, for any number of messages, services and peers,   *)
(* and any width of the session counter; then the messages: how sequences  *)
(* are put together, the options of a message, what a reader makes of an   *)
(* entry, the messages of the daemon and those of other ECUs, and the      *)
(* invariant that the last message is one of these.                        *)
(***************************************************************************)
EXTENDS SdMessages, SequenceTheorems, FiniteSetTheorems, TLAPS

Handler == [session : 0..MaxSession, reboot : BOOLEAN]

\* What a peer knows of a channel.
Knowledge == [any : {FALSE}] \cup [any : {TRUE}, session : 1..MaxSession, reboot : BOOLEAN]

\* Once a peer got a message of this boot on a channel, the flag of the channel
\* is cleared; a handler whose flag is set has counted nothing.
SessionInv ==
  /\ handler \in [Channel -> Handler]
  /\ \A c \in Channel : handler[c].reboot <=> handler[c].session = 0
  /\ seen \in [Channel -> Knowledge]
  /\ restarted \subseteq Channel
  /\ \A c \in Channel : seen[c].any /\ c \notin restarted => ~handler[c].reboot

\* No message carries a session that its receivers discard.
SessionIsNotZero == Sent => last.message.session # 0

\* A handler that has counted nothing has a set flag.
LEMMA BootType == Boot \in Handler /\ Boot.reboot /\ Boot.session = 0
BY NumberAssumption DEF Boot, Handler

\* The counter skips zero when it wraps.
LEMMA UpdatedType ==
  ASSUME NEW h \in Handler
  PROVE  /\ Updated(h) \in Handler
         /\ Updated(h).session \in 1..MaxSession
         /\ Updated(h).session # 0
         /\ ~Updated(h).reboot
BY NumberAssumption DEF Updated, Handler

\* What serialize_sd_message keeps of the message's session and flag.
LEMMA Serialized ==
  ASSUME NEW entries, NEW session
  PROVE  /\ SerializeSdMessage(entries, session).session = session
         /\ SerializeSdMessage(entries, session).reboot = FALSE
BY DEF SerializeSdMessage, Message

\* What build_subscribe_eventgroup_ack_sd_header keeps of them.
LEMMA Acknowledged ==
  ASSUME NEW entry, NEW session, NEW reboot
  PROVE  /\ AckMessage(entry, session, reboot).session = session
         /\ AckMessage(entry, session, reboot).reboot = reboot
BY DEF AckMessage

\* A message with the next session of its channel, and a flag that is set only
\* if that of the handler is, preserves the invariant and announces no false
\* reboot, whether it arrives or not.
LEMMA SendKeeps ==
  ASSUME SessionInv,
         NEW channel \in Channel, NEW entries, NEW message,
         message.session = Updated(handler[channel]).session,
         message.reboot \in BOOLEAN,
         message.reboot => handler[channel].reboot,
         Send(channel, entries, message)
  PROVE  SessionInv' /\ NoFalseReboot' /\ SessionIsNotZero'
<1> DEFINE h == handler[channel]
<1>1. h \in Handler
  BY DEF SessionInv
<1>2. /\ Updated(h) \in Handler
      /\ Updated(h).session \in 1..MaxSession /\ Updated(h).session # 0
      /\ ~Updated(h).reboot
  BY <1>1, UpdatedType
<1>3. handler' = [handler EXCEPT ![channel] = Updated(h)]
  BY DEF Send
<1>4. handler' \in [Channel -> Handler]
  BY <1>2, <1>3 DEF SessionInv
<1>5. \A c \in Channel : handler'[c].reboot <=> handler'[c].session = 0
  BY <1>2, <1>3 DEF SessionInv
<1>6. /\ seen' \in [Channel -> Knowledge]
      /\ restarted' \subseteq Channel
      /\ \A c \in Channel \ {channel} : seen'[c] = seen[c] /\ (c \in restarted' <=> c \in restarted)
  <2>1. CASE UNCHANGED <<seen, restarted>>
    BY <2>1 DEF SessionInv
  <2>2. CASE /\ seen' = [seen EXCEPT ![channel] =
                           [any |-> TRUE, session |-> message.session, reboot |-> message.reboot]]
             /\ restarted' = restarted \ {channel}
    <3>1. [any |-> TRUE, session |-> message.session, reboot |-> message.reboot] \in Knowledge
      BY <1>2 DEF Knowledge
    <3> QED
      BY <2>2, <3>1 DEF SessionInv
  <2> QED
    BY <2>1, <2>2 DEF Send
<1>7. \A c \in Channel : seen'[c].any /\ c \notin restarted' => ~handler'[c].reboot
  <2> TAKE c \in Channel
  <2>1. CASE c = channel
    BY <2>1, <1>2, <1>3 DEF SessionInv
  <2>2. CASE c # channel
    BY <2>2, <1>3, <1>6 DEF SessionInv
  <2> QED
    BY <2>1, <2>2
<1>8. SessionInv'
  BY <1>4, <1>5, <1>6, <1>7 DEF SessionInv
<1>9. last' = [kind |-> "own", channel |-> channel, entries |-> entries, message |-> message,
               before |-> seen, restarted |-> channel \in restarted]
  BY DEF Send
<1>10. NoFalseReboot'
  BY <1>9 DEF NoFalseReboot, Reboot, SessionInv
<1>11. SessionIsNotZero'
  BY <1>9, <1>2 DEF SessionIsNotZero, Sent
<1> QED
  BY <1>8, <1>10, <1>11

\* The same for a message of serialize_sd_message.
LEMMA SendEntriesKeeps ==
  ASSUME SessionInv, NEW channel \in Channel, NEW entries, SendEntries(channel, entries)
  PROVE  SessionInv' /\ NoFalseReboot' /\ SessionIsNotZero'
<1> DEFINE message == SerializeSdMessage(entries, Updated(handler[channel]).session)
<1>1. message.session = Updated(handler[channel]).session /\ message.reboot = FALSE
  BY Serialized
<1>2. Send(channel, entries, message)
  BY DEF SendEntries
<1> HIDE DEF message
<1> QED
  BY <1>1, <1>2, SendKeeps

\* A step that leaves the handlers alone and has no message of its own.
LEMMA SilenceKeeps ==
  ASSUME SessionInv, UNCHANGED <<handler, seen, restarted>>, last' = NoMessage
  PROVE  SessionInv' /\ NoFalseReboot' /\ SessionIsNotZero'
BY DEF SessionInv, NoFalseReboot, SessionIsNotZero, Sent, NoMessage

\* A session that is used up for nothing.
LEMMA SkippingKeeps ==
  ASSUME SessionInv, NEW channel \in Channel,
         handler' = [handler EXCEPT ![channel] = Updated(@)],
         UNCHANGED <<seen, restarted>>, last' = NoMessage
  PROVE  SessionInv' /\ NoFalseReboot' /\ SessionIsNotZero'
<1>1. handler[channel] \in Handler
  BY DEF SessionInv
<1>2. /\ Updated(handler[channel]) \in Handler
      /\ Updated(handler[channel]).session # 0 /\ ~Updated(handler[channel]).reboot
  BY <1>1, UpdatedType
<1>3. handler' \in [Channel -> Handler]
  BY <1>2 DEF SessionInv
<1>4. ASSUME NEW c \in Channel
      PROVE  /\ handler'[c].reboot <=> handler'[c].session = 0
             /\ seen'[c].any /\ c \notin restarted' => ~handler'[c].reboot
  <2>1. CASE c = channel
    BY <1>2, <2>1 DEF SessionInv
  <2>2. CASE c # channel
    BY <2>2 DEF SessionInv
  <2> QED
    BY <2>1, <2>2
<1>5. SessionInv'
  BY <1>3, <1>4 DEF SessionInv
<1> QED
  BY <1>5 DEF NoFalseReboot, SessionIsNotZero, Sent, NoMessage

\* The handlers of a daemon that has just started.
LEMMA InitHolds == Init => SessionInv /\ NoFalseReboot /\ SessionIsNotZero
<1> SUFFICES ASSUME Init PROVE SessionInv /\ NoFalseReboot /\ SessionIsNotZero
  OBVIOUS
<1>1. SessionInv
  BY BootType DEF Init, SessionInv, Knowledge
<1>2. NoFalseReboot /\ SessionIsNotZero
  BY DEF Init, NoFalseReboot, SessionIsNotZero, Sent, NoMessage
<1> QED
  BY <1>1, <1>2

\* Every step preserves the invariant of the handlers.
LEMMA StepKeeps ==
  SessionInv /\ NoFalseReboot /\ SessionIsNotZero /\ [Next]_vars
    => SessionInv' /\ NoFalseReboot' /\ SessionIsNotZero'
<1> SUFFICES ASSUME SessionInv, NoFalseReboot, SessionIsNotZero, [Next]_vars
             PROVE  SessionInv' /\ NoFalseReboot' /\ SessionIsNotZero'
  OBVIOUS
<1>0. "multicast" \in Channel /\ "unicast" \in Channel
  BY DEF Channel
<1>1. ASSUME NEW s \in Service, Offer(s)
      PROVE  SessionInv' /\ NoFalseReboot' /\ SessionIsNotZero'
  BY <1>1, SilenceKeeps DEF Offer
<1>2. ASSUME NEW s \in Service, StopOffer(s)
      PROVE  SessionInv' /\ NoFalseReboot' /\ SessionIsNotZero'
  BY <1>0, <1>2, SendEntriesKeeps DEF StopOffer
<1>3. ASSUME NEW s \in Remote, FindService(s)
      PROVE  SessionInv' /\ NoFalseReboot' /\ SessionIsNotZero'
  BY <1>0, <1>3, SendEntriesKeeps DEF FindService
<1>4. CASE OfferTimer
  <2> DEFINE entries == [i \in DOMAIN offered |-> OfferEntry("OfferService", offered[i])]
  <2>1. CASE SendEntries("multicast", entries)
    BY <1>0, <2>1, SendEntriesKeeps
  <2>2. CASE /\ handler' = [handler EXCEPT !["multicast"] = Updated(@)]
             /\ UNCHANGED <<seen, restarted>> /\ last' = NoMessage
    BY <1>0, <2>2, SkippingKeeps
  <2> QED
    BY <1>4, <2>1, <2>2 DEF OfferTimer
<1>5. ASSUME NEW s \in Remote, NEW ttl \in Ttl, NEW kind, NEW endpoints,
             SubscriptionEntry(kind, s, ttl, endpoints)
      PROVE  SessionInv' /\ NoFalseReboot' /\ SessionIsNotZero'
  BY <1>0, <1>5, SendEntriesKeeps DEF SubscriptionEntry
<1>6. ASSUME NEW s \in Remote, NEW ttl \in Ttl, Acknowledge(s, ttl)
      PROVE  SessionInv' /\ NoFalseReboot' /\ SessionIsNotZero'
  <2> DEFINE entry   == Entry("Ack", s, ttl, <<>>)
             h       == handler["unicast"]
             message == AckMessage(entry, Updated(h).session, h.reboot)
  <2>1. message.session = Updated(h).session /\ message.reboot = h.reboot
    BY Acknowledged
  <2>2. h.reboot \in BOOLEAN
    BY <1>0 DEF SessionInv, Handler
  <2>3. Send("unicast", <<entry>>, message)
    BY <1>6 DEF Acknowledge
  <2> HIDE DEF message, entry
  <2> QED
    BY <1>0, <2>1, <2>2, <2>3, SendKeeps
<1>7. ASSUME NEW channel \in Channel, NEW entries \in PeerEntries, PeerSends(channel, entries)
      PROVE  SessionInv' /\ NoFalseReboot' /\ SessionIsNotZero'
  <2>1. PeerMessage(entries, 1).session = 1
    BY DEF PeerMessage, Message
  <2>2. SessionInv'
    BY <1>7 DEF PeerSends, SessionInv
  <2>3. last'.kind = "peer" /\ last'.message = PeerMessage(entries, 1)
    BY <1>7 DEF PeerSends
  <2> QED
    BY <2>1, <2>2, <2>3 DEF NoFalseReboot, SessionIsNotZero, Sent
<1>8. CASE Restart
  <2>1. SessionInv'
    BY <1>8, BootType DEF Restart, SessionInv
  <2> QED
    BY <1>8, <2>1 DEF Restart, NoFalseReboot, SessionIsNotZero, Sent, NoMessage
<1>9. CASE UNCHANGED vars
  BY <1>9 DEF vars, SessionInv, NoFalseReboot, Reboot, SessionIsNotZero, Sent
<1> QED
  BY <1>1, <1>2, <1>3, <1>4, <1>5, <1>6, <1>7, <1>8, <1>9 DEF Next

\* A peer that watches one channel never takes the daemon for restarted when it
\* was not, however wide the counter is and whatever is lost: session_handler.py
\* clears the flag with the first message of the channel, and the counter that
\* wraps to one does so with a cleared flag.
THEOREM NoRebootIsFalse == Spec => []NoFalseReboot
<1>1. Init => SessionInv /\ NoFalseReboot /\ SessionIsNotZero
  BY InitHolds
<1>2. SessionInv /\ NoFalseReboot /\ SessionIsNotZero /\ [Next]_vars
        => SessionInv' /\ NoFalseReboot' /\ SessionIsNotZero'
  BY StepKeeps
<1> QED
  BY <1>1, <1>2, PTL DEF Spec

\* No message carries session zero, which is_sd_header refuses, however often
\* the counter of its channel has wrapped.
THEOREM SessionsAreNeverZero == Spec => []SessionIsNotZero
<1>1. Init => SessionInv /\ NoFalseReboot /\ SessionIsNotZero
  BY InitHolds
<1>2. SessionInv /\ NoFalseReboot /\ SessionIsNotZero /\ [Next]_vars
        => SessionInv' /\ NoFalseReboot' /\ SessionIsNotZero'
  BY StepKeeps
<1> QED
  BY <1>1, <1>2, PTL DEF Spec

-----------------------------------------------------------------------------
(* Loops: what is true at first, and after a step if before it, is true.   *)

\* Induction up to N: what holds of 0, and of n + 1 if of n, holds of all.
LEMMA UpTo ==
  ASSUME NEW N \in Nat, NEW S, 0 \in S, \A n \in 0..(N - 1) : n \in S => n + 1 \in S
  PROVE  \A n \in 0..N : n \in S
<1> SUFFICES ASSUME NEW n \in 0..N, n \notin S PROVE FALSE
  OBVIOUS
<1> DEFINE T == {k \in 0..N : k \notin S}
<1>1. T \subseteq Nat /\ T # {}
  OBVIOUS
<1>2. PICK k \in T : \A j \in T : ~(<<j, k>> \in OpToRel(<, Nat))
  <2> HIDE DEF T
  <2> QED
    BY <1>1, NatLessThanWellFounded, WFMin
<1>3. \A j \in T : ~(j < k)
  <2> HIDE DEF T
  <2>1. \A j \in Nat : j < k => <<j, k>> \in OpToRel(<, Nat)
    BY <1>1 DEF OpToRel
  <2> QED
    BY <1>1, <1>2, <2>1
<1>4. k # 0 /\ k - 1 \in 0..(N - 1) /\ k - 1 \notin T
  BY <1>3
<1>5. k - 1 \in S
  BY <1>4
<1> QED
  BY <1>4, <1>5

\* f has the results of a loop over 1..N, whose step is the function G.
IsLoop(f, X, x, N, G) ==
  /\ f \in [0..N -> X]
  /\ f[0] = x
  /\ \A n \in 1..N : f[n] = G[n][f[n - 1]]

\* A loop has a result after each step.
LEMMA Iterates ==
  ASSUME NEW X, NEW x \in X, NEW N \in Nat, NEW G \in [1..N -> [X -> X]]
  PROVE  \E f : IsLoop(f, X, x, N, G)
<1> DEFINE Runs4(f, m) == f[0] = x /\ \A n \in 1..m : f[n] = G[n][f[n - 1]]
           S == {m \in 0..N : \E f \in [0..m -> X] : Runs4(f, m)}
<1>1. 0 \in S
  <2> DEFINE f == [k \in 0..0 |-> x]
  <2>1. f \in [0..0 -> X] /\ Runs4(f, 0)
    OBVIOUS
  <2> HIDE DEF f, Runs4
  <2>2. 0 \in 0..N
    OBVIOUS
  <2> QED
    BY <2>1, <2>2, Zenon
<1>2. ASSUME NEW m \in 0..(N - 1), m \in S PROVE m + 1 \in S
  <2>1. PICK f \in [0..m -> X] : Runs4(f, m)
    BY <1>2
  <2> HIDE DEF Runs4, S
  <2>a. m \in Nat /\ m + 1 \in 1..N /\ m \in 0..m
    OBVIOUS
  <2> DEFINE g == [k \in 0..(m + 1) |-> IF k <= m THEN f[k] ELSE G[m + 1][f[m]]]
  <2>2. f[m] \in X /\ m + 1 \in 1..N
    BY <2>a
  <2>3. G[m + 1][f[m]] \in X
    BY <2>2
  <2>4. g \in [0..(m + 1) -> X]
    BY <2>3
  <2>5. g[0] = x
    BY <2>1 DEF Runs4
  <2>6. ASSUME NEW n \in 1..(m + 1) PROVE g[n] = G[n][g[n - 1]]
    <3>1. CASE n \in 1..m
      <4>1. g[n] = f[n] /\ g[n - 1] = f[n - 1]
        BY <3>1
      <4> QED
        BY <2>1, <3>1, <4>1 DEF Runs4
    <3>2. CASE n = m + 1
      BY <2>a, <3>2
    <3> QED
      BY <3>1, <3>2
  <2> HIDE DEF g
  <2>7. Runs4(g, m + 1)
    BY <2>5, <2>6 DEF Runs4
  <2>8. m + 1 \in 0..N
    OBVIOUS
  <2> QED
    BY <2>4, <2>7, <2>8 DEF S
<1> HIDE DEF S
<1>3. \A n \in 0..N : n \in S
  BY <1>1, <1>2, UpTo, Zenon
<1>4. N \in S
  BY <1>3
<1> QED
  BY <1>4 DEF S, Runs4, IsLoop

-----------------------------------------------------------------------------
(* The bytes of options.                                                   *)

HaveLengths(options) == \A i \in 1..Len(options) : options[i].length \in Nat

\* Every option begins before the end of the array.
LEMMA BytesGrow ==
  ASSUME NEW options, Len(options) \in Nat, HaveLengths(options)
  PROVE  /\ BytesUpTo(options)[0] = 0
         /\ \A n \in 0..Len(options) : BytesUpTo(options)[n] \in Nat
         /\ \A n \in 1..Len(options) :
              BytesUpTo(options)[n] = BytesUpTo(options)[n - 1] + options[n].length + 3
<1> DEFINE N == Len(options)
           Loop(f) == f = [n \in 0..N |-> IF n = 0 THEN 0 ELSE f[n - 1] + options[n].length + 3]
           G == [n \in 1..N |-> [v \in Nat |-> v + options[n].length + 3]]
           b == BytesUpTo(options)
<1>0. N \in Nat
  OBVIOUS
<1>1. \E f : Loop(f)
  <2>1. G \in [1..N -> [Nat -> Nat]]
    BY DEF HaveLengths
  <2>2. \A n \in 1..N : \A v \in Nat : G[n][v] = v + options[n].length + 3
    OBVIOUS
  <2> HIDE DEF G
  <2>3. PICK f \in [0..N -> Nat] : f[0] = 0 /\ \A n \in 1..N : f[n] = G[n][f[n - 1]]
    <3> DEFINE X == Nat
               x == 0
    <3>1. x \in X /\ G \in [1..N -> [X -> X]] /\ N \in Nat
      BY <1>0, <2>1
    <3> HIDE DEF N, X, x, Loop
    <3>2. \E f : IsLoop(f, X, x, N, G)
      BY <3>1, Iterates, Zenon
    <3> QED
      BY <3>2 DEF IsLoop, X, x
  <2>4. ASSUME NEW n \in 0..N
        PROVE  f[n] = IF n = 0 THEN 0 ELSE f[n - 1] + options[n].length + 3
    <3>1. n # 0 => n \in 1..N /\ f[n - 1] \in Nat
      OBVIOUS
    <3> QED
      BY <2>2, <2>3, <3>1
  <2>5. Loop(f)
    BY <2>4
  <2> QED
    BY <2>5
<1>2. Loop(b)
  BY <1>1 DEF BytesUpTo
<1> HIDE DEF b
<1>3. /\ b[0] = 0
      /\ \A n \in 1..N : b[n] = b[n - 1] + options[n].length + 3
  BY <1>2
<1>4. \A n \in 0..N : b[n] \in Nat
  <2> DEFINE S == {n \in 0..N : b[n] \in Nat}
  <2>1. 0 \in S
    BY <1>3
  <2>2. ASSUME NEW n \in 0..(N - 1), n \in S PROVE n + 1 \in S
    <3>1. n + 1 \in 1..N /\ (n + 1) - 1 = n
      OBVIOUS
    <3>2. b[n] \in Nat /\ b[n + 1] = b[n] + options[n + 1].length + 3
      BY <1>3, <2>2, <3>1
    <3>3. options[n + 1].length \in Nat
      BY <3>1 DEF HaveLengths
    <3>4. b[n + 1] \in Nat /\ n + 1 \in 0..N
      BY <3>1, <3>2, <3>3
    <3> QED
      BY <3>4
  <2> HIDE DEF S, N
  <2>3. \A n \in 0..N : n \in S
    BY <1>0, <2>1, <2>2, UpTo, Zenon
  <2> QED
    BY <2>3 DEF S
<1> QED
  BY <1>3, <1>4 DEF b

\* So the walk of the readers over the options stops after the last one only.
LEMMA OptionsBeginBefore ==
  ASSUME NEW options, Len(options) \in Nat, HaveLengths(options)
  PROVE  /\ OptionsLength(options) \in Nat
         /\ \A i \in 1..Len(options) : BytesUpTo(options)[i - 1] < OptionsLength(options)
<1> DEFINE N == Len(options)
           b == BytesUpTo(options)
           S == {n \in 0..N : \A i \in 1..n : b[i - 1] < b[n]}
<1>1. /\ \A n \in 0..N : b[n] \in Nat
      /\ \A n \in 1..N : b[n] = b[n - 1] + options[n].length + 3
  BY BytesGrow
<1> HIDE DEF b
<1>2. 0 \in S
  OBVIOUS
<1>3. ASSUME NEW n \in 0..(N - 1), n \in S PROVE n + 1 \in S
  <2>1. /\ n + 1 \in 1..N /\ (n + 1) - 1 = n /\ n \in 0..N /\ n + 1 \in 0..N
        /\ b[n + 1] = b[n] + options[n + 1].length + 3
    BY <1>1
  <2>2. b[n] < b[n + 1]
    <3>1. b[n] \in Nat /\ options[n + 1].length \in Nat
      BY <1>1, <2>1 DEF HaveLengths
    <3> HIDE DEF S
    <3> QED
      BY <2>1, <3>1
  <2>3. ASSUME NEW i \in 1..(n + 1) PROVE b[i - 1] < b[n + 1]
    <3>1. CASE i \in 1..n
      <4>1. b[i - 1] < b[n] /\ i - 1 \in 0..N
        BY <1>3, <3>1
      <4>2. b[i - 1] \in Nat /\ b[n] \in Nat /\ b[n + 1] \in Nat
        BY <1>1, <2>1, <4>1
      <4> HIDE DEF S
      <4> QED
        BY <2>2, <4>1, <4>2
    <3>2. CASE i = n + 1
      BY <2>2, <3>2
    <3> QED
      BY <3>1, <3>2
  <2> QED
    BY <2>1, <2>3
<1>4. N \in S
  <2> HIDE DEF S, N
  <2>1. N \in Nat
    BY DEF N
  <2>2. \A n \in 0..N : n \in S
    BY <1>2, <1>3, <2>1, UpTo, Zenon
  <2> QED
    BY <2>1, <2>2
<1> QED
  BY <1>1, <1>4 DEF b, OptionsLength

-----------------------------------------------------------------------------
(* Sequences that are put together.                                        *)

\* f[n] is the first n of the sequences put together.
IsFlat(f, X, seqs) ==
  /\ f \in [0..Len(seqs) -> Seq(X)]
  /\ f[0] = <<>>
  /\ \A n \in 1..Len(seqs) : f[n] = f[n - 1] \o seqs[n]

\* Any number of sequences can be put together.
LEMMA FlatExists ==
  ASSUME NEW X, NEW seqs \in Seq(Seq(X))
  PROVE  \E f : IsFlat(f, X, seqs)
<1> DEFINE N == Len(seqs)
           Y == Seq(X)
           G == [n \in 1..N |-> [v \in Y |-> v \o seqs[n]]]
           none == <<>>
<1>1. N \in Nat /\ none \in Y
  OBVIOUS
<1>2. G \in [1..N -> [Y -> Y]]
  <2>1. \A n \in 1..N : \A v \in Y : v \o seqs[n] \in Y
    BY ConcatProperties
  <2> QED
    BY <2>1
<1>3. \A n \in 1..N : \A v \in Y : G[n][v] = v \o seqs[n]
  OBVIOUS
<1> HIDE DEF G, Y, N, none
<1>4. PICK f : IsLoop(f, Y, none, N, G)
  BY <1>1, <1>2, Iterates, Zenon
<1>5. f \in [0..N -> Y] /\ f[0] = none /\ \A n \in 1..N : f[n] = G[n][f[n - 1]]
  BY <1>4 DEF IsLoop
<1>6. ASSUME NEW n \in 1..N PROVE f[n] = f[n - 1] \o seqs[n]
  <2>1. n - 1 \in 0..N
    BY <1>1
  <2>2. f[n - 1] \in Y
    BY <1>5, <2>1
  <2> QED
    BY <1>3, <1>5, <2>2
<1> QED
  BY <1>5, <1>6 DEF IsFlat, N, Y, none

\* The first m of the sequences put together.
Joined(seqs, m) == FlattenSeq([j \in 1..m |-> seqs[j]])

\* FlattenSeq puts sequences together one after the other.
LEMMA FlattenIsFlat ==
  ASSUME NEW X, NEW seqs \in Seq(Seq(X)), NEW f, IsFlat(f, X, seqs), NEW m \in 0..Len(seqs)
  PROVE  Joined(seqs, m) = f[m]
<1> DEFINE s == [j \in 1..m |-> seqs[j]]
           Loop(h) == h = [i \in 1..m |-> IF i = 1 THEN s[i] ELSE h[i - 1] \o s[i]]
<1>1. /\ m \in Nat /\ Len(s) = m /\ \A i \in 1..m : s[i] = seqs[i] /\ s[i] \in Seq(X)
      /\ m = 0 => s = <<>>
  OBVIOUS
<1>2. /\ f[0] = <<>>
      /\ \A n \in 1..m : f[n] = f[n - 1] \o s[n] /\ f[n - 1] \in Seq(X)
  <2>1. \A n \in 1..m : n \in 1..Len(seqs) /\ n - 1 \in 0..Len(seqs)
    OBVIOUS
  <2> HIDE DEF s
  <2> QED
    BY <1>1, <2>1 DEF IsFlat
<1> HIDE DEF s
<1>3. m # 0 => f[1] = s[1]
  <2>0. m # 0 => 1 \in 1..m /\ 1 - 1 = 0
    BY <1>1
  <2>1. m # 0 => f[1] = <<>> \o s[1] /\ s[1] \in Seq(X)
    <3>1. m # 0 => f[1] = f[1 - 1] \o s[1] /\ s[1] \in Seq(X)
      BY <1>1, <1>2, <2>0, Zenon
    <3> QED
      BY <1>2, <2>0, <3>1
  <2>2. \A t \in Seq(X) : <<>> \o t = t
    BY ConcatEmptySeq
  <2> QED
    BY <2>1, <2>2
<1>4. CASE m = 0
  BY <1>1, <1>2, <1>4 DEF FlattenSeq, Joined, s
<1>5. CASE m # 0
  <2> DEFINE g == [i \in 1..m |-> f[i]]
  <2>1. Loop(g)
    <3>1. ASSUME NEW i \in 1..m
          PROVE  g[i] = IF i = 1 THEN s[i] ELSE g[i - 1] \o s[i]
      <4>1. CASE i = 1
        BY <1>3, <1>5, <4>1
      <4>2. CASE i # 1
        <5>1. i - 1 \in 1..m /\ g[i - 1] = f[i - 1]
          BY <4>2
        <5> QED
          BY <1>2, <4>2, <5>1
      <4> QED
        BY <4>1, <4>2
    <3> QED
      BY <3>1
  <2>2. PICK h : Loop(h) /\ FlattenSeq(s) = h[m]
    <3> DEFINE c == CHOOSE h : Loop(h)
    <3>1. Loop(c)
      BY <2>1
    <3>2. FlattenSeq(s) = c[m]
      BY <1>1, <1>5 DEF FlattenSeq
    <3> HIDE DEF c
    <3> QED
      BY <3>1, <3>2
  <2> DEFINE S == {i \in 0..m : i # 0 => h[i] = f[i]}
  <2>3. 0 \in S
    BY <1>1
  <2>4. ASSUME NEW i \in 0..(m - 1), i \in S PROVE i + 1 \in S
    <3>1. i + 1 \in 1..m /\ i \in Nat /\ (i + 1) - 1 = i
      BY <1>1
    <3>2. h[i + 1] = IF i + 1 = 1 THEN s[i + 1] ELSE h[(i + 1) - 1] \o s[i + 1]
      BY <2>2, <3>1
    <3>3. CASE i = 0
      BY <1>3, <1>5, <3>1, <3>2, <3>3
    <3>4. CASE i # 0
      <4>0. h[i] = f[i]
        BY <2>4, <3>4
      <4>1. h[i + 1] = h[i] \o s[i + 1] /\ h[i] = f[i]
        <5> HIDE DEF Loop, S
        <5>1. i + 1 # 1
          BY <3>1, <3>4
        <5>2. h[i + 1] = h[(i + 1) - 1] \o s[i + 1]
          BY <3>2, <5>1, Zenon
        <5> QED
          BY <3>1, <4>0, <5>2, Zenon
      <4>2. f[i + 1] = f[i] \o s[i + 1]
        BY <1>2, <3>1
      <4>3. h[i + 1] = f[i + 1]
        BY <4>1, <4>2
      <4> QED
        BY <3>1, <4>3
    <3> QED
      BY <3>3, <3>4
  <2>5. m \in S
    <3> HIDE DEF S, Loop
    <3>1. \A n \in 0..m : n \in S
      BY <1>1, <2>3, <2>4, UpTo, Zenon
    <3> QED
      BY <1>1, <3>1
  <2> QED
    BY <1>5, <2>2, <2>5 DEF s, Joined
<1> QED
  BY <1>4, <1>5

\* Where each element of the sequences is.
IsPlaced(f, X, seqs, m) ==
  /\ f[m] \in Seq(X)
  /\ \A i \in 1..m : \A j \in 1..Len(seqs[i]) :
       /\ Len(f[i - 1]) + j \in 1..Len(f[m])
       /\ f[m][Len(f[i - 1]) + j] = seqs[i][j]
  /\ \A k \in 1..Len(f[m]) : \E i \in 1..m : \E j \in 1..Len(seqs[i]) : f[m][k] = seqs[i][j]

\* An element is where those before it end; and there are no others.
LEMMA FlatPlaces ==
  ASSUME NEW X, NEW seqs \in Seq(Seq(X)), NEW f, IsFlat(f, X, seqs), NEW m \in 0..Len(seqs)
  PROVE  IsPlaced(f, X, seqs, m)
<1> DEFINE N == Len(seqs)
           Placed(n) ==
             \A i \in 1..n : \A j \in 1..Len(seqs[i]) :
               /\ Len(f[i - 1]) + j \in 1..Len(f[n])
               /\ f[n][Len(f[i - 1]) + j] = seqs[i][j]
           From(n) ==
             \A k \in 1..Len(f[n]) :
               \E i \in 1..n : \E j \in 1..Len(seqs[i]) : f[n][k] = seqs[i][j]
           S == {n \in 0..N : Placed(n) /\ From(n)}
<1>1. /\ N \in Nat /\ \A n \in 1..N : seqs[n] \in Seq(X) /\ Len(seqs[n]) \in Nat
      /\ \A n \in 0..N : f[n] \in Seq(X) /\ Len(f[n]) \in Nat
      /\ f[0] = <<>>
      /\ \A n \in 1..N : f[n] = f[n - 1] \o seqs[n]
  <2>1. /\ N \in Nat /\ \A n \in 1..N : seqs[n] \in Seq(X)
        /\ \A n \in 0..N : f[n] \in Seq(X)
        /\ f[0] = <<>>
        /\ \A n \in 1..N : f[n] = f[n - 1] \o seqs[n]
    <3>1. N \in Nat /\ \A n \in 1..N : seqs[n] \in Seq(X)
      OBVIOUS
    <3>2. /\ f \in [0..N -> Seq(X)]
          /\ f[0] = <<>>
          /\ \A n \in 1..N : f[n] = f[n - 1] \o seqs[n]
      BY Zenon DEF IsFlat
    <3> HIDE DEF N
    <3> QED
      BY <3>1, <3>2, Zenon
  <2>2. \A t \in Seq(X) : Len(t) \in Nat
    OBVIOUS
  <2> QED
    BY <2>1, <2>2
<1> HIDE DEF N
<1>2. 0 \in S
  <2>1. Len(f[0]) = 0
    BY <1>1
  <2> QED
    BY <1>1, <2>1
<1>3. ASSUME NEW n \in 0..(N - 1), n \in S PROVE n + 1 \in S
  <2> DEFINE a == f[n]
             b == seqs[n + 1]
             c == f[n + 1]
  <2>1. /\ n \in Nat /\ n \in 0..N /\ n + 1 \in 1..N /\ n + 1 \in 0..N /\ (n + 1) - 1 = n
        /\ Placed(n) /\ From(n)
    BY <1>1, <1>3
  <2>2. /\ a \in Seq(X) /\ b \in Seq(X) /\ Len(a) \in Nat /\ Len(b) \in Nat
        /\ c = a \o b
    <3>1. f[n + 1] = f[(n + 1) - 1] \o seqs[n + 1]
      BY <1>1, <2>1
    <3> QED
      BY <1>1, <2>1, <3>1
  <2>3. /\ Len(c) = Len(a) + Len(b)
        /\ \A k \in 1..Len(a) : c[k] = a[k]
        /\ \A j \in 1..Len(b) : c[Len(a) + j] = b[j]
    <3> HIDE DEF a, b, c
    <3> QED
      BY <2>2, ConcatProperties
  <2>4. ASSUME NEW i \in 1..(n + 1), NEW j \in 1..Len(seqs[i])
        PROVE  /\ Len(f[i - 1]) + j \in 1..Len(c)
               /\ c[Len(f[i - 1]) + j] = seqs[i][j]
    <3>1. CASE i \in 1..n
      <4> DEFINE k == Len(f[i - 1]) + j
      <4>1. k \in 1..Len(a) /\ a[k] = seqs[i][j]
        BY <2>1, <3>1
      <4> HIDE DEF a, b, c, k, Placed, From, S
      <4>2. k \in 1..Len(c) /\ c[k] = a[k]
        BY <2>2, <2>3, <4>1
      <4> QED
        BY <4>1, <4>2 DEF k
    <3>2. CASE i = n + 1
      <4>1. f[i - 1] = a /\ seqs[i] = b /\ j \in 1..Len(b)
        BY <2>1, <3>2
      <4> HIDE DEF a, b, c, Placed, From, S
      <4>2. Len(a) + j \in 1..Len(c) /\ c[Len(a) + j] = b[j]
        BY <2>2, <2>3, <4>1
      <4> QED
        BY <4>1, <4>2
    <3> QED
      BY <2>1, <3>1, <3>2
  <2>5. ASSUME NEW k \in 1..Len(c)
        PROVE  \E i \in 1..(n + 1) : \E j \in 1..Len(seqs[i]) : c[k] = seqs[i][j]
    <3>1. CASE k \in 1..Len(a)
      <4>1. \E i \in 1..n : \E j \in 1..Len(seqs[i]) : a[k] = seqs[i][j]
        BY <2>1, <3>1
      <4> HIDE DEF a, b, c, Placed, From, S
      <4>2. \A i \in 1..n : i \in 1..(n + 1)
        BY <2>1
      <4> QED
        BY <2>3, <3>1, <4>1, <4>2
    <3>2. CASE k \notin 1..Len(a)
      <4> DEFINE j == k - Len(a)
      <4> HIDE DEF a, b, c, Placed, From, S
      <4>1. j \in 1..Len(b) /\ Len(a) + j = k
        BY <2>2, <2>3, <3>2
      <4> HIDE DEF j
      <4>2. c[k] = b[j] /\ n + 1 \in 1..(n + 1)
        BY <2>1, <2>3, <4>1
      <4> QED
        BY <4>1, <4>2 DEF b
    <3> QED
      BY <3>1, <3>2
  <2> HIDE DEF Placed, From
  <2>6. Placed(n + 1) /\ From(n + 1)
    BY <2>4, <2>5 DEF Placed, From
  <2> QED
    BY <2>1, <2>6
<1>4. \A n \in 0..N : n \in S
  <2> HIDE DEF S, Placed, From
  <2> QED
    BY <1>1, <1>2, <1>3, UpTo, Zenon
<1>5. f[m] \in Seq(X) /\ Placed(m) /\ From(m)
  BY <1>1, <1>4 DEF N
<1> QED
  BY <1>5 DEF IsPlaced

\* What FlattenSeq yields has these places.
LEMMA FlattenPlaces ==
  ASSUME NEW X, NEW seqs \in Seq(Seq(X))
  PROVE  \E f : IsFlat(f, X, seqs) /\ FlattenSeq(seqs) = f[Len(seqs)]
<1>1. PICK f : IsFlat(f, X, seqs)
  BY FlatExists
<1>2. Len(seqs) \in 0..Len(seqs)
  OBVIOUS
<1>3. Joined(seqs, Len(seqs)) = f[Len(seqs)]
  BY <1>1, <1>2, FlattenIsFlat, Zenon
<1>4. [j \in 1..Len(seqs) |-> seqs[j]] = seqs
  OBVIOUS
<1>5. FlattenSeq(seqs) = f[Len(seqs)]
  BY <1>3, <1>4, Zenon DEF Joined
<1> QED
  BY <1>1, <1>5

-----------------------------------------------------------------------------
(* The options of a message: every one once.                               *)

\* What a sequence contains when an element is put at its end.
LEMMA AppendContains ==
  ASSUME NEW X, NEW s \in Seq(X), NEW e \in X
  PROVE  /\ Append(s, e) \in Seq(X)
         /\ \A x : Contains(Append(s, e), x) <=> Contains(s, x) \/ x = e
         /\ IsInjective(s) /\ ~Contains(s, e) => IsInjective(Append(s, e))
<1> DEFINE t == Append(s, e)
<1>1. /\ Len(s) \in Nat /\ Len(t) = Len(s) + 1 /\ t[Len(s) + 1] = e
      /\ \A i \in 1..Len(s) : t[i] = s[i]
      /\ t \in Seq(X) /\ DOMAIN t = 1..Len(t) /\ DOMAIN s = 1..Len(s)
  OBVIOUS
<1> HIDE DEF t
<1>2. \A i \in 1..Len(t) : i \in 1..Len(s) \/ i = Len(s) + 1
  BY <1>1
<1>3. 1..Len(s) \subseteq 1..Len(t) /\ Len(s) + 1 \in 1..Len(t)
  BY <1>1
<1>4. ASSUME NEW x PROVE Contains(t, x) <=> Contains(s, x) \/ x = e
  BY <1>1, <1>2, <1>3 DEF Contains
<1>5. ASSUME IsInjective(s), ~Contains(s, e) PROVE IsInjective(t)
  BY <1>1, <1>2, <1>5 DEF Contains, IsInjective
<1> QED
  BY <1>1, <1>4, <1>5 DEF t

\* u[n] are the elements that the first n of a sequence has, each one once.
IsFirsts(u, X, all) ==
  /\ u[0] = <<>>
  /\ \A n \in 1..Len(all) : u[n] = IF Contains(u[n - 1], all[n]) THEN u[n - 1]
                                   ELSE Append(u[n - 1], all[n])

\* v has the first m elements of a sequence, each one once.
HasFirsts(v, X, all, m) ==
  /\ v \in Seq(X) /\ IsInjective(v)
  /\ \A x : Contains(v, x) <=> \E k \in 1..m : all[k] = x

\* Going through a sequence and leaving out what is there already.
LEMMA FirstsOf ==
  ASSUME NEW X, NEW all \in Seq(X), NEW u, IsFirsts(u, X, all), NEW m \in 0..Len(all)
  PROVE  HasFirsts(u[m], X, all, m)
<1> DEFINE N == Len(all)
           Good(n) == /\ u[n] \in Seq(X) /\ IsInjective(u[n])
                      /\ \A x : Contains(u[n], x) <=> \E k \in 1..n : all[k] = x
           S == {n \in 0..N : Good(n)}
<1>1. N \in Nat /\ \A n \in 1..N : all[n] \in X
  OBVIOUS
<1>2. 0 \in S
  <2>1. u[0] = <<>> /\ <<>> \in Seq(X) /\ Len(<<>>) = 0 /\ DOMAIN <<>> = 1..0
    BY DEF IsFirsts
  <2>2. IsInjective(u[0]) /\ \A x : ~Contains(u[0], x)
    BY <2>1 DEF IsInjective, Contains
  <2>3. 0 \in 0..N /\ ~\E k \in 1..0 : TRUE
    BY <1>1
  <2>4. u[0] \in Seq(X)
    BY <2>1
  <2>5. Good(0)
    BY <2>2, <2>3, <2>4, Zenon
  <2> HIDE DEF N, Good
  <2> QED
    BY <2>3, <2>5
<1>3. ASSUME NEW n \in 0..(N - 1), n \in S PROVE n + 1 \in S
  <2> DEFINE v == u[n]
             e == all[n + 1]
  <2>1. /\ n + 1 \in 1..N /\ (n + 1) - 1 = n /\ n + 1 \in 0..N /\ n \in Nat
        /\ Good(n)
    BY <1>1, <1>3
  <2>2. /\ v \in Seq(X) /\ IsInjective(v) /\ e \in X
        /\ \A x : Contains(v, x) <=> \E k \in 1..n : all[k] = x
    BY <1>1, <2>1
  <2>3. u[n + 1] = IF Contains(v, e) THEN v ELSE Append(v, e)
    <3>1. u[n + 1] = IF Contains(u[(n + 1) - 1], all[n + 1]) THEN u[(n + 1) - 1]
                     ELSE Append(u[(n + 1) - 1], all[n + 1])
      BY <2>1 DEF IsFirsts
    <3> QED
      BY <2>1, <3>1
  <2>4. \A x : (\E k \in 1..(n + 1) : all[k] = x) <=> (\E k \in 1..n : all[k] = x) \/ x = e
    <3>1. \A k : k \in 1..(n + 1) <=> k \in 1..n \/ k = n + 1
      BY <2>1
    <3> QED
      BY <3>1, Zenon
  <2> DEFINE w == u[n + 1]
  <2> HIDE DEF v, e, w
  <2>5. w = IF Contains(v, e) THEN v ELSE Append(v, e)
    BY <2>3 DEF w
  <2>6. /\ w \in Seq(X) /\ IsInjective(w)
        /\ \A x : Contains(w, x) <=> Contains(v, x) \/ x = e
    <3>1. CASE Contains(v, e)
      BY <2>2, <2>5, <3>1, Zenon
    <3>2. CASE ~Contains(v, e)
      <4>1. w = Append(v, e)
        BY <2>5, <3>2
      <4> QED
        BY <2>2, <3>2, <4>1, AppendContains, Zenon
    <3> QED
      BY <3>1, <3>2
  <2>7. Good(n + 1)
    BY <2>2, <2>4, <2>6, Zenon DEF w
  <2> HIDE DEF Good
  <2> QED
    BY <2>1, <2>7
<1>4. \A n \in 0..N : n \in S
  <2> HIDE DEF S, Good, N
  <2> QED
    BY <1>1, <1>2, <1>3, UpTo, Zenon
<1> QED
  BY <1>4 DEF HasFirsts

\* There is a result for every sequence.
LEMMA FirstsExist ==
  ASSUME NEW X, NEW all \in Seq(X)
  PROVE  \E u : u = [n \in 0..Len(all) |->
                       IF n = 0 THEN <<>>
                       ELSE IF Contains(u[n - 1], all[n]) THEN u[n - 1]
                       ELSE Append(u[n - 1], all[n])]
<1> DEFINE N == Len(all)
           Y == Seq(X)
           G == [n \in 1..N |-> [v \in Y |-> IF Contains(v, all[n]) THEN v ELSE Append(v, all[n])]]
           none == <<>>
<1>1. N \in Nat /\ none \in Y /\ \A n \in 1..N : all[n] \in X
  OBVIOUS
<1>2. G \in [1..N -> [Y -> Y]]
  <2>1. \A n \in 1..N : \A v \in Y : Append(v, all[n]) \in Y
    BY <1>1
  <2> QED
    BY <2>1
<1>3. \A n \in 1..N : \A v \in Y : G[n][v] = IF Contains(v, all[n]) THEN v ELSE Append(v, all[n])
  OBVIOUS
<1> HIDE DEF G, Y, N, none
<1>4. PICK f : IsLoop(f, Y, none, N, G)
  BY <1>1, <1>2, Iterates, Zenon
<1>5. f \in [0..N -> Y] /\ f[0] = none /\ \A n \in 1..N : f[n] = G[n][f[n - 1]]
  BY <1>4 DEF IsLoop
<1>6. ASSUME NEW n \in 0..N
      PROVE  f[n] = IF n = 0 THEN none
                    ELSE IF Contains(f[n - 1], all[n]) THEN f[n - 1]
                    ELSE Append(f[n - 1], all[n])
  <2>1. CASE n = 0
    BY <1>5, <2>1
  <2>2. CASE n # 0
    <3>1. n \in 1..N /\ n - 1 \in 0..N
      BY <1>1, <2>2
    <3>2. f[n - 1] \in Y
      BY <1>5, <3>1
    <3> QED
      BY <1>3, <1>5, <2>2, <3>1, <3>2
  <2> QED
    BY <2>1, <2>2
<1>7. f = [n \in 0..N |-> IF n = 0 THEN none
                          ELSE IF Contains(f[n - 1], all[n]) THEN f[n - 1]
                          ELSE Append(f[n - 1], all[n])]
  BY <1>5, <1>6
<1> QED
  BY <1>7 DEF N, none

\* The endpoints that serialize_sd_message collects, entry by entry.
Listed(entries) ==
  [i \in DOMAIN entries |->
     IF entries[i].kind \in WithOptions THEN entries[i].endpoints ELSE <<>>]

\* The array has the endpoints of all entries, each one once.
LEMMA CollectedOnce ==
  ASSUME NEW X, NEW entries, Listed(entries) \in Seq(Seq(X))
  PROVE  /\ Collected(entries) \in Seq(X) /\ IsInjective(Collected(entries))
         /\ \A x : Contains(Collected(entries), x)
                     <=> \E i \in 1..Len(Listed(entries)) : Contains(Listed(entries)[i], x)
<1> DEFINE seqs == Listed(entries)
           all  == FlattenSeq(seqs)
           N    == Len(all)
           Loop(u) == u = [n \in 0..N |-> IF n = 0 THEN <<>>
                                          ELSE IF Contains(u[n - 1], all[n]) THEN u[n - 1]
                                          ELSE Append(u[n - 1], all[n])]
           u == CHOOSE u : Loop(u)
<1>1. seqs \in Seq(Seq(X)) /\ Len(seqs) \in 0..Len(seqs)
  OBVIOUS
<1>2. PICK f : IsFlat(f, X, seqs) /\ all = f[Len(seqs)]
  <2> HIDE DEF seqs
  <2> QED
    BY <1>1, FlattenPlaces, Zenon
<1>3. IsPlaced(f, X, seqs, Len(seqs))
  <2> HIDE DEF seqs, all
  <2> QED
    BY <1>1, <1>2, FlatPlaces, Zenon
<1>4. Collected(entries) = u[N]
  BY DEF Collected, Listed
<1> HIDE DEF seqs, all
<1>5. all \in Seq(X) /\ N \in Nat
  BY <1>2, <1>3 DEF IsPlaced
<1>6. Loop(u)
  <2>1. \E v : Loop(v)
    BY <1>5, FirstsExist
  <2> QED
    BY <2>1
<1> HIDE DEF u
<1>7. IsFirsts(u, X, all)
  <2>1. u[0] = <<>>
    BY <1>5, <1>6
  <2>2. ASSUME NEW n \in 1..N
        PROVE  u[n] = IF Contains(u[n - 1], all[n]) THEN u[n - 1] ELSE Append(u[n - 1], all[n])
    <3>1. n \in 0..N /\ n # 0
      BY <1>5
    <3> QED
      BY <1>6, <3>1
  <2> QED
    BY <2>1, <2>2 DEF IsFirsts
<1> HIDE DEF Loop
<1>8. N \in 0..N
  BY <1>5
<1>9. HasFirsts(u[N], X, all, N)
  BY <1>5, <1>7, <1>8, FirstsOf, Zenon
<1>10. ASSUME NEW x
       PROVE  (\E k \in 1..N : all[k] = x) <=> \E i \in 1..Len(seqs) : Contains(seqs[i], x)
  <2>1. ASSUME NEW k \in 1..N, all[k] = x PROVE \E i \in 1..Len(seqs) : Contains(seqs[i], x)
    BY <1>2, <1>3, <2>1 DEF Contains, IsPlaced
  <2>2. ASSUME NEW i \in 1..Len(seqs), Contains(seqs[i], x) PROVE \E k \in 1..N : all[k] = x
    <3>1. PICK j \in 1..Len(seqs[i]) : seqs[i][j] = x
      BY <2>2 DEF Contains
    <3> DEFINE k == Len(f[i - 1]) + j
    <3>2. k \in 1..N /\ all[k] = x
      BY <1>2, <1>3, <3>1 DEF IsPlaced
    <3> QED
      BY <3>2
  <2> QED
    BY <2>1, <2>2
<1> QED
  BY <1>4, <1>9, <1>10, Zenon DEF seqs, HasFirsts

-----------------------------------------------------------------------------
(* The endpoints of a run.                                                 *)

\* option_runs keeps the order, and no option is left out that is an endpoint.
LEMMA EndpointsInOrder ==
  ASSUME NEW e, NEW options, NEW run, run = Runs(e, options), Len(run) \in Nat,
         \A n \in 1..Len(run) : IsEndpoint(run[n])
  PROVE  EndpointsIn(e, options) = [i \in 1..Len(run) |-> run[i].endpoint]
<1> DEFINE N == Len(run)
           Loop(u) == u = [n \in 0..N |-> IF n = 0 THEN <<>>
                                          ELSE IF IsEndpoint(run[n])
                                               THEN Append(u[n - 1], run[n].endpoint)
                                          ELSE u[n - 1]]
           First(n) == [i \in 1..n |-> run[i].endpoint]
           u == CHOOSE u : Loop(u)
<1>1. EndpointsIn(e, options) = u[N]
  BY DEF EndpointsIn
<1>2. First(0) = <<>>
  OBVIOUS
<1>3. ASSUME NEW n \in Nat PROVE First(n + 1) = Append(First(n), run[n + 1].endpoint)
  <2> DEFINE X == {run[i].endpoint : i \in 1..(n + 1)}
             a == First(n)
             b == Append(a, run[n + 1].endpoint)
             c == First(n + 1)
  <2>1. /\ a \in Seq(X) /\ Len(a) = n /\ run[n + 1].endpoint \in X
        /\ c \in Seq(X) /\ Len(c) = n + 1
    <3>1. \A i \in 1..n : i \in 1..(n + 1)
      OBVIOUS
    <3>2. n + 1 \in 1..(n + 1)
      OBVIOUS
    <3>3. \A i \in 1..(n + 1) : run[i].endpoint \in X
      OBVIOUS
    <3> HIDE DEF X
    <3> QED
      BY <3>1, <3>2, <3>3
  <2>2. /\ b \in Seq(X) /\ Len(b) = n + 1 /\ b[n + 1] = run[n + 1].endpoint
        /\ \A i \in 1..n : b[i] = a[i]
    <3> HIDE DEF a, X
    <3> QED
      BY <2>1
  <2>3. \A i \in 1..(n + 1) : b[i] = c[i]
    <3>1. \A i \in 1..(n + 1) : i \in 1..n \/ i = n + 1
      OBVIOUS
    <3>2. /\ \A i \in 1..n : a[i] = run[i].endpoint
          /\ \A i \in 1..(n + 1) : c[i] = run[i].endpoint
      OBVIOUS
    <3> HIDE DEF a, b, c, X
    <3> QED
      BY <2>2, <3>1, <3>2
  <2> HIDE DEF a, b, c, X
  <2>4. \A f, g \in Seq(X) : Len(f) = Len(g) /\ (\A i \in 1..Len(f) : f[i] = g[i]) => f = g
    BY SeqEqual
  <2>5. Len(b) = Len(c) /\ \A i \in 1..Len(b) : b[i] = c[i]
    BY <2>1, <2>2, <2>3
  <2>6. b = c
    BY <2>1, <2>2, <2>4, <2>5, Zenon
  <2> QED
    BY <2>6 DEF a, b, c
<1> HIDE DEF First, N
<1>n. N \in Nat
  BY DEF N
<1>4. \E v : Loop(v)
  <2> DEFINE v == [n \in 0..N |-> First(n)]
  <2>1. ASSUME NEW n \in 0..N
        PROVE  v[n] = IF n = 0 THEN <<>>
                      ELSE IF IsEndpoint(run[n]) THEN Append(v[n - 1], run[n].endpoint)
                      ELSE v[n - 1]
    <3>1. CASE n = 0
      BY <1>2, <3>1
    <3>2. CASE n # 0
      <4>1. n - 1 \in Nat /\ (n - 1) + 1 = n /\ n - 1 \in 0..N /\ n \in 1..N
        BY <1>n, <3>2
      <4>2. IsEndpoint(run[n])
        BY <4>1 DEF N
      <4>3. First(n) = Append(First(n - 1), run[n].endpoint)
        BY <1>3, <4>1
      <4> QED
        BY <3>2, <4>1, <4>2, <4>3
    <3> QED
      BY <3>1, <3>2
  <2>2. Loop(v)
    BY <2>1
  <2> QED
    BY <2>2
<1>5. Loop(u)
  BY <1>4
<1> HIDE DEF u
<1> DEFINE S == {n \in 0..N : u[n] = First(n)}
<1>6. 0 \in S
  BY <1>n, <1>2, <1>5
<1>7. ASSUME NEW n \in 0..(N - 1), n \in S PROVE n + 1 \in S
  <2>1. n + 1 \in 0..N /\ n + 1 # 0 /\ n + 1 \in 1..N /\ n \in Nat /\ (n + 1) - 1 = n
    BY <1>n
  <2>2. IsEndpoint(run[n + 1])
    BY <2>1 DEF N
  <2>3. u[n + 1] = IF n + 1 = 0 THEN <<>>
                   ELSE IF IsEndpoint(run[n + 1])
                        THEN Append(u[(n + 1) - 1], run[n + 1].endpoint)
                   ELSE u[(n + 1) - 1]
    BY <1>5, <2>1
  <2> HIDE DEF Loop
  <2>4. u[n + 1] = Append(u[n], run[n + 1].endpoint)
    BY <2>1, <2>2, <2>3
  <2>5. u[n] = First(n)
    BY <1>7
  <2>6. u[n + 1] = First(n + 1)
    BY <1>3, <2>1, <2>4, <2>5
  <2> QED
    BY <2>1, <2>6
<1>8. \A n \in 0..N : n \in S
  <2> HIDE DEF S, Loop
  <2> QED
    BY <1>n, <1>6, <1>7, UpTo, Zenon
<1>9. u[N] = First(N)
  BY <1>n, <1>8
<1> QED
  BY <1>1, <1>9 DEF First, N

-----------------------------------------------------------------------------
(* Messages whose lengths are those of their bytes.                        *)

\* How many places there are.
LEMMA Numbers == \A n \in Nat : IsFiniteSet(1..n) /\ Cardinality(1..n) = n
<1> TAKE n \in Nat
<1>1. 1 \in Int /\ n \in Int
  OBVIOUS
<1>2. IsFiniteSet(1..n) /\ Cardinality(1..n) = IF 1 > n THEN 0 ELSE n - 1 + 1
  BY <1>1, FS_Interval
<1>3. (IF 1 > n THEN 0 ELSE n - 1 + 1) = n
  OBVIOUS
<1> QED
  BY <1>2, <1>3

\* A message with entries from A and options from B whose lengths are true.
IsTrue(m, A, B) ==
  /\ m.sd /\ m.session \in Nat \ {0}
  /\ m.entries \in Seq(A) /\ m.options \in Seq(B) /\ HaveLengths(m.options)
  /\ m.length = HeaderLength + EntryLength * Len(m.entries) + OptionsLength(m.options) - 8
  /\ m.entriesLength = EntryLength * Len(m.entries)
  /\ m.optionsLength = OptionsLength(m.options)

\* What is read of a message.
IsReadWhole(m) ==
  /\ IsSdMessage(m)
  /\ ReadEntries(m) = m.entries
  /\ ReadOptions(m) = m.options

\* Such a message is accepted, and the readers find all its entries and options.
LEMMA TrueLengthsAreAccepted ==
  ASSUME NEW m, NEW A, NEW B, IsTrue(m, A, B)
  PROVE  IsReadWhole(m)
<1> DEFINE N == Len(m.entries)
           K == Len(m.options)
           bytes == OptionsLength(m.options)
<1>1. N \in Nat /\ K \in Nat
  BY DEF IsTrue
<1>2. bytes \in Nat /\ \A i \in 1..K : BytesUpTo(m.options)[i - 1] < bytes
  BY <1>1, OptionsBeginBefore DEF IsTrue
<1>3. IsSdMessage(m)
  <2> HIDE DEF N, K, bytes
  <2>1. m.length = 28 + 16 * N + bytes - 8 /\ m.session # 0 /\ m.sd
    BY DEF N, K, bytes, IsTrue, HeaderLength, EntryLength
  <2>2. m.length >= 12 /\ m.length >= 8 /\ m.length + 8 <= 28 + 16 * N + bytes
    BY <1>1, <1>2, <2>1
  <2> QED
    BY <2>1, <2>2 DEF IsSdMessage, IsSdHeader, N, bytes, HeaderLength, EntryLength
<1>4. ReadEntries(m) = m.entries
  <2>1. m.entriesLength \div EntryLength = N
    <3>1. \A n \in Nat : (16 * n) \div 16 = n
      OBVIOUS
    <3>2. m.entriesLength = 16 * N
      BY DEF IsTrue, EntryLength
    <3> HIDE DEF N
    <3> QED
      BY <1>1, <3>1, <3>2 DEF EntryLength
  <2>2. SubSeq(m.entries, 1, N) = m.entries
    BY SubSeqFull DEF IsTrue
  <2> QED
    BY <2>1, <2>2 DEF ReadEntries
<1>5. ReadOptions(m) = m.options
  <2> DEFINE S == {i \in DOMAIN m.options : BytesUpTo(m.options)[i - 1] < m.optionsLength}
  <2>1. DOMAIN m.options = 1..K
    BY DEF IsTrue
  <2>2. S = 1..K
    BY <1>2, <2>1 DEF IsTrue
  <2>3. Cardinality(1..K) = K
    BY <1>1, Numbers
  <2>4. SubSeq(m.options, 1, K) = m.options
    BY SubSeqFull DEF IsTrue
  <2>5. ReadOptions(m) = SubSeq(m.options, 1, Cardinality(S))
    BY DEF ReadOptions
  <2> QED
    BY <2>2, <2>3, <2>4, <2>5
<1> QED
  BY <1>3, <1>4, <1>5 DEF IsReadWhole

-----------------------------------------------------------------------------
(* Entries, as they are meant and as they are read.                        *)

EntryType ==
  [kind : Kind, service : Service, ttl : 1..MaxTtl, endpoints : Seq(Endpoint)]

\* Entry w, with the options of its message, says what e was to say.
Says(w, e, options) ==
  /\ ReadKind(w) = e.kind
  /\ w.service = e.service
  /\ e.kind \in {"OfferService", "Subscribe"} =>
       /\ w.ttl = e.ttl
       /\ Range(EndpointsIn(w, options)) = Range(e.endpoints)
  /\ e.kind = "OfferService" =>
       EndpointsIn(w, options)[1].port = e.endpoints[1].port
  /\ e.kind \in {"OfferService", "StopOfferService"} => InRange(w, options)

\* The kind of an entry is read from its code and time to live.
LEMMA KindIsRead ==
  ASSUME NEW e \in EntryType, NEW w, w.code = OnWire[e.kind], w.ttl = TtlOnWire(e)
  PROVE  /\ ReadKind(w) = e.kind
         /\ e.kind \in {"OfferService", "Subscribe"} => w.ttl = e.ttl
<1>1. e.ttl \in 1..MaxTtl /\ e.kind \in Kind /\ MaxTtl \in Nat
  BY NumberAssumption DEF EntryType
<1>2. e.ttl % (MaxTtl + 1) = e.ttl /\ e.ttl # 0
  BY <1>1
<1>3. TtlOnWire(e) = IF e.kind \in {"StopOfferService", "StopSubscribe", "Nack"} THEN 0 ELSE e.ttl
  BY <1>2 DEF TtlOnWire
<1>4. CASE e.kind = "OfferService"
  BY <1>2, <1>3, <1>4 DEF ReadKind, OnWire, Kind
<1>5. CASE e.kind = "StopOfferService"
  BY <1>2, <1>3, <1>5 DEF ReadKind, OnWire, Kind
<1>6. CASE e.kind = "FindService"
  BY <1>2, <1>3, <1>6 DEF ReadKind, OnWire, Kind
<1>7. CASE e.kind = "Subscribe"
  BY <1>2, <1>3, <1>7 DEF ReadKind, OnWire, Kind
<1>8. CASE e.kind = "StopSubscribe"
  BY <1>2, <1>3, <1>8 DEF ReadKind, OnWire, Kind
<1>9. CASE e.kind = "Ack"
  BY <1>2, <1>3, <1>9 DEF ReadKind, OnWire, Kind
<1>10. CASE e.kind = "Nack"
  BY <1>2, <1>3, <1>10 DEF ReadKind, OnWire, Kind
<1> QED
  BY <1>1, <1>4, <1>5, <1>6, <1>7, <1>8, <1>9, <1>10 DEF Kind

OfferOf(e) ==
  [service |-> e.service, ttl |-> e.ttl, port |-> e.endpoints[1].port,
   protocols |-> {e.endpoints[i].protocol : i \in DOMAIN e.endpoints}]

\* The offers among entries, entry by entry.
LEMMA OffersAre ==
  ASSUME NEW entries, NEW x
  PROVE  x \in Offers(entries) <=>
           \E i \in DOMAIN entries : entries[i].kind = "OfferService" /\ x = OfferOf(entries[i])
BY DEF Offers, OfferOf, Range

SubscriptionOf(service, ttl, p) == [service |-> service, ttl |-> ttl, endpoint |-> p]

\* The subscriptions that a message is read to ask for, entry by entry.
LEMMA SubscriptionsAre ==
  ASSUME NEW m, NEW x
  PROVE  x \in Subscriptions(m) <=>
           \E i \in DOMAIN ReadEntries(m) :
             /\ ReadKind(ReadEntries(m)[i]) = "Subscribe"
             /\ \E p \in Range(EndpointsIn(ReadEntries(m)[i], ReadOptions(m))) :
                  x = SubscriptionOf(ReadEntries(m)[i].service, ReadEntries(m)[i].ttl, p)
<1> DEFINE W == ReadEntries(m)
           O == ReadOptions(m)
           Of(e) == {SubscriptionOf(e.service, e.ttl, p) : p \in Range(EndpointsIn(e, O))}
<1>1. Subscriptions(m) = UNION {Of(e) : e \in {f \in Range(W) : ReadKind(f) = "Subscribe"}}
  BY DEF Subscriptions, SubscriptionOf
<1>2. x \in Subscriptions(m) <=>
        \E e \in Range(W) : ReadKind(e) = "Subscribe" /\ x \in Of(e)
  <2> HIDE DEF Of, W
  <2> QED
    BY <1>1
<1>3. \A e : x \in Of(e) <=>
        \E p \in Range(EndpointsIn(e, O)) : x = SubscriptionOf(e.service, e.ttl, p)
  OBVIOUS
<1> HIDE DEF Of, W, O
<1>4. x \in Subscriptions(m) <=> \E i \in DOMAIN W : ReadKind(W[i]) = "Subscribe" /\ x \in Of(W[i])
  BY <1>2 DEF Range
<1> QED
  BY <1>3, <1>4, Zenon DEF W, O

\* A message that is read whole, and whose entries say what they were to say, is
\* understood: on multicast by the reader of offers, if it has no eventgroup
\* entry; on unicast by those of subscriptions and answers.
LEMMA Understood ==
  ASSUME NEW m, IsReadWhole(m), NEW entries, DOMAIN m.entries = DOMAIN entries,
         \A i \in DOMAIN entries : Says(m.entries[i], entries[i], m.options),
         NEW channel \in Channel,
         channel = "multicast" => \A i \in DOMAIN entries : entries[i].kind \in Kind \ Eventgroup
  PROVE  ReadOn(channel, m) = Meant(channel, entries)
<1> DEFINE W == m.entries
           O == m.options
           D == DOMAIN entries
<1>1. /\ IsSdMessage(m) /\ IsSdHeader(m)
      /\ ReadEntries(m) = W /\ ReadOptions(m) = O /\ DOMAIN W = D
  BY DEF IsReadWhole, IsSdMessage
<1>2. \A i \in D : /\ ReadKind(W[i]) = entries[i].kind
                   /\ W[i].service = entries[i].service
  BY DEF Says
<1>3. \A kind : Answers(m, kind) = {e.service : e \in {f \in Range(entries) : f.kind = kind}}
  BY <1>1, <1>2 DEF Answers, Range
<1>4. CASE channel = "multicast"
  <2> DEFINE read == DeserializeSdMessage(m)
             R(w) == Entry(ReadKind(w), w.service, w.ttl,
                           IF ReadKind(w) = "FindService" THEN <<>> ELSE EndpointsIn(w, O))
  <2>1. \A i \in D : entries[i].kind \in {"OfferService", "StopOfferService", "FindService"}
    BY <1>4 DEF Kind, Eventgroup
  <2>2. \A i \in D : ~Raises(W[i], O)
    <3> TAKE i \in D
    <3>1. CASE entries[i].kind = "FindService"
      BY <1>2, <3>1 DEF Raises, Eventgroup
    <3>2. CASE entries[i].kind \in {"OfferService", "StopOfferService"}
      <4>1. InRange(W[i], O)
        BY <3>2 DEF Says
      <4> QED
        BY <1>2, <3>2, <4>1 DEF Raises, Eventgroup
    <3> QED
      BY <2>1, <3>1, <3>2
  <2>3. read = [ok |-> TRUE, entries |-> [i \in D |-> R(W[i])]]
    BY <1>1, <2>2 DEF DeserializeSdMessage
  <2> HIDE DEF read
  <2>4. read.ok /\ read.entries = [i \in D |-> R(W[i])]
    BY <2>3
  <2>5. \A i \in D : /\ read.entries[i].kind = entries[i].kind
                     /\ entries[i].kind = "OfferService" =>
                          OfferOf(read.entries[i]) = OfferOf(entries[i])
    <3> TAKE i \in D
    <3>1. read.entries[i] = R(W[i])
      BY <2>4
    <3>2. read.entries[i].kind = entries[i].kind
      BY <1>2, <3>1 DEF Entry
    <3>3. ASSUME entries[i].kind = "OfferService"
          PROVE  OfferOf(read.entries[i]) = OfferOf(entries[i])
      <4> DEFINE E == EndpointsIn(W[i], O)
                 P == entries[i].endpoints
      <4>1. /\ read.entries[i].service = entries[i].service
            /\ read.entries[i].ttl = entries[i].ttl
            /\ read.entries[i].endpoints = E
        BY <1>2, <3>1, <3>3 DEF Entry, Says
      <4>2. Range(E) = Range(P) /\ E[1].port = P[1].port
        BY <3>3 DEF Says
      <4> HIDE DEF E, P
      <4>3. {E[j].protocol : j \in DOMAIN E} = {p.protocol : p \in Range(E)}
        BY DEF Range
      <4>4. {P[j].protocol : j \in DOMAIN P} = {p.protocol : p \in Range(P)}
        BY DEF Range
      <4>5. {E[j].protocol : j \in DOMAIN E} = {P[j].protocol : j \in DOMAIN P}
        BY <4>2, <4>3, <4>4
      <4> QED
        BY <4>1, <4>2, <4>5 DEF OfferOf, P
    <3> QED
      BY <3>2, <3>3
  <2>6. DOMAIN read.entries = D
    BY <2>4
  <2>7. Offers(read.entries) = Offers(entries)
    <3>1. \A x : x \in Offers(read.entries) <=> x \in Offers(entries)
      BY <2>5, <2>6, OffersAre
    <3> QED
      BY <3>1
  <2>8. Subscriptions(m) = {}
    <3>1. \A x : x \notin Subscriptions(m)
      BY <1>1, <1>2, <2>1, SubscriptionsAre
    <3> QED
      BY <3>1
  <2>9. Answers(m, "Ack") = {}
    BY <1>3, <2>1 DEF Range
  <2> QED
    BY <1>1, <1>4, <2>4, <2>7, <2>8, <2>9 DEF ReadOn, ReadMulticast, Meant, read
<1>5. CASE channel = "unicast"
  <2> DEFINE Of(e) == {SubscriptionOf(e.service, e.ttl, p) : p \in Range(e.endpoints)}
             meant == UNION {Of(e) : e \in {f \in Range(entries) : f.kind = "Subscribe"}}
  <2>1. \A x : x \in Subscriptions(m) <=> x \in meant
    <3> TAKE x
    <3>1. \A i \in D : entries[i].kind = "Subscribe" =>
            /\ W[i].service = entries[i].service /\ W[i].ttl = entries[i].ttl
            /\ Range(EndpointsIn(W[i], O)) = Range(entries[i].endpoints)
      BY DEF Says
    <3>2. x \in Subscriptions(m) <=>
            \E i \in D : entries[i].kind = "Subscribe" /\ x \in Of(entries[i])
      <4>1. \A i \in D : x \in Of(entries[i]) <=>
              \E p \in Range(entries[i].endpoints) :
                x = SubscriptionOf(entries[i].service, entries[i].ttl, p)
        OBVIOUS
      <4> HIDE DEF Of
      <4> QED
        BY <1>1, <1>2, <3>1, <4>1, SubscriptionsAre
    <3>3. x \in meant <=> \E i \in D : entries[i].kind = "Subscribe" /\ x \in Of(entries[i])
      <4> HIDE DEF Of
      <4> QED
        BY DEF Range
    <3> QED
      BY <3>2, <3>3
  <2>2. Subscriptions(m) = meant
    <3> HIDE DEF meant
    <3> QED
      BY <2>1
  <2>3. Meant(channel, entries) =
          Heard({}, meant, {e.service : e \in {f \in Range(entries) : f.kind = "Ack"}},
                {e.service : e \in {f \in Range(entries) : f.kind = "Nack"}})
    BY <1>5 DEF Meant, SubscriptionOf
  <2> HIDE DEF meant
  <2> QED
    BY <1>1, <1>3, <1>5, <2>2, <2>3 DEF ReadOn, ReadUnicast
<1> QED
  BY <1>4, <1>5 DEF Channel

-----------------------------------------------------------------------------
(* Messages of the daemon.                                                 *)

\* Places that lie side by side are those from the first one on.
LEMMA SideBySide ==
  ASSUME NEW N \in Nat, NEW S \in SUBSET (1..N), NEW first \in S, \A j \in S : first <= j,
         \A j, k \in S : k - j < Cardinality(S)
  PROVE  S = first..(first + Cardinality(S) - 1)
<1> DEFINE m == Cardinality(S)
           T == first..(first + m - 1)
<1>1. IsFiniteSet(S)
  <2>1. IsFiniteSet(1..N)
    BY Numbers
  <2> QED
    BY <2>1, FS_Subset
<1>2. m \in Nat
  BY <1>1, FS_CardinalityType
<1>3. S \subseteq T
  <2> HIDE DEF m
  <2> QED
    BY <1>2 DEF m
<1>4. m # 0
  BY <1>1, FS_EmptySet
<1>5. IsFiniteSet(T) /\ Cardinality(T) = m
  <2> HIDE DEF m
  <2>1. first \in Int /\ first + m - 1 \in Int /\ first <= first + m - 1
    BY <1>2, <1>4
  <2>2. (first + m - 1) - first + 1 = m
    BY <1>2
  <2> QED
    BY <2>1, <2>2, FS_Interval
<1> HIDE DEF m, T
<1>6. Cardinality(S) = Cardinality(T)
  BY <1>5 DEF m
<1>7. T = S
  BY <1>3, <1>5, <1>6, FS_Subset
<1> QED
  BY <1>7 DEF T, m

\* As many options of the array are an entry's as the entry has endpoints.
LEMMA AsManyAsEndpoints ==
  ASSUME NEW X, NEW C \in Seq(X), NEW P \in Seq(X), IsInjective(C), IsInjective(P),
         \A k \in 1..Len(P) : Contains(C, P[k])
  PROVE  Cardinality({j \in DOMAIN C : Contains(P, C[j])}) = Len(P)
<1> DEFINE mine == {j \in DOMAIN C : Contains(P, C[j])}
           place == [k \in 1..Len(P) |-> CHOOSE j \in mine : C[j] = P[k]]
<1>1. DOMAIN C = 1..Len(C) /\ DOMAIN P = 1..Len(P) /\ Len(P) \in Nat
  OBVIOUS
<1>2. ASSUME NEW k \in 1..Len(P) PROVE place[k] \in mine /\ C[place[k]] = P[k]
  <2>1. \E j \in mine : C[j] = P[k]
    BY <1>1 DEF Contains
  <2> QED
    BY <2>1
<1>3. ASSUME NEW j \in mine PROVE \E k \in 1..Len(P) : place[k] = j
  <2>1. PICK k \in 1..Len(P) : P[k] = C[j]
    BY DEF Contains
  <2>2. place[k] \in DOMAIN C /\ C[place[k]] = C[j]
    BY <1>2, <2>1
  <2> QED
    BY <2>2 DEF IsInjective
<1>4. place \in Bijection(1..Len(P), mine)
  <2>1. place \in [1..Len(P) -> mine]
    BY <1>2
  <2>2. \A a, b \in 1..Len(P) : place[a] = place[b] => a = b
    BY <1>1, <1>2 DEF IsInjective
  <2> HIDE DEF place, mine
  <2> QED
    BY <1>3, <2>1, <2>2 DEF Bijection, Injection, Surjection, IsInjective
<1>5. ExistsBijection(1..Len(P), mine)
  BY <1>4 DEF ExistsBijection
<1>6. IsFiniteSet(1..Len(P)) /\ Cardinality(1..Len(P)) = Len(P)
  BY <1>1, Numbers
<1> HIDE DEF mine
<1> QED
  BY <1>5, <1>6, FS_Bijection DEF mine

OptionsOf(C) == [j \in DOMAIN C |-> EndpointOption(C[j])]

\* Those options of C that are the endpoints of P.
Mine(P, C) == {j \in DOMAIN C : Contains(P, C[j])}

\* An entry whose options lie side by side has all of them in its one run, and
\* no others.
LEMMA RunIsRead ==
  ASSUME NEW X, NEW C \in Seq(X), IsInjective(C), NEW e, e.endpoints \in Seq(X),
         IsInjective(e.endpoints), e.kind \in WithOptions,
         \A k \in 1..Len(e.endpoints) : Contains(C, e.endpoints[k]),
         \A j, k \in Mine(e.endpoints, C) : k - j < Cardinality(Mine(e.endpoints, C)),
         NEW w, w = WireEntry(e, C)
  PROVE  /\ InRange(w, OptionsOf(C))
         /\ Range(EndpointsIn(w, OptionsOf(C))) = Range(e.endpoints)
         /\ DOMAIN EndpointsIn(w, OptionsOf(C)) = DOMAIN e.endpoints
<1> DEFINE P == e.endpoints
           M == Mine(P, C)
           n == Len(P)
           O == OptionsOf(C)
           run == Runs(w, O)
<1>1. /\ w.first = FirstIndex(e, C) /\ w.count = n /\ w.second = 0 /\ w.count2 = 0
  BY DEF WireEntry
<1>2. n \in Nat /\ DOMAIN P = 1..n /\ Len(C) \in Nat /\ DOMAIN C = 1..Len(C)
  OBVIOUS
<1>3. Len(O) = Len(C) /\ DOMAIN O = 1..Len(C) /\ \A j \in 1..Len(C) : O[j] = EndpointOption(C[j])
  BY <1>2 DEF OptionsOf
<1>4. Cardinality(M) = n
  BY AsManyAsEndpoints DEF Mine
<1>5. w.first = IF M = {} THEN 0 ELSE (CHOOSE i \in M : \A j \in M : i <= j) - 1
  BY <1>1 DEF FirstIndex, Mine
<1>6. M \subseteq 1..Len(C)
  BY <1>2 DEF Mine
<1> HIDE DEF M, O, n
<1>7. CASE M = {}
  <2>1. n = 0
    BY <1>4, <1>7, FS_EmptySet
  <2>2. InRange(w, O)
    BY <1>1, <2>1 DEF InRange
  <2>3. run = <<>> /\ Len(run) = 0
    BY <1>1, <2>1 DEF Runs
  <2>4. EndpointsIn(w, O) = [i \in 1..Len(run) |-> run[i].endpoint]
    <3>1. Len(run) \in Nat /\ \A k \in 1..Len(run) : IsEndpoint(run[k])
      BY <2>3
    <3> HIDE DEF run
    <3>2. run = Runs(w, O)
      BY DEF run
    <3> QED
      BY <3>1, <3>2, EndpointsInOrder
  <2>5. DOMAIN EndpointsIn(w, O) = 1..0
    BY <2>3, <2>4
  <2>6. DOMAIN P = 1..0
    BY <1>2, <2>1
  <2> QED
    BY <2>2, <2>5, <2>6 DEF Range, O
<1>8. CASE M # {}
  <2> DEFINE first == CHOOSE i \in M : \A j \in M : i <= j
  <2>1. first \in M /\ \A j \in M : first <= j
    <3>1. \E i \in M : \A j \in M : i <= j
      <4>1. M \subseteq Nat
        BY <1>2, <1>6
      <4>2. PICK i \in M : \A j \in M : ~(<<j, i>> \in OpToRel(<, Nat))
        BY <1>8, <4>1, NatLessThanWellFounded, WFMin
      <4>3. \A j \in Nat : j < i => <<j, i>> \in OpToRel(<, Nat)
        BY <4>1 DEF OpToRel
      <4>4. \A j \in M : ~(j < i)
        BY <4>1, <4>2, <4>3
      <4> QED
        BY <4>1, <4>4
    <3> QED
      BY <3>1
  <2>2. w.first = first - 1
    BY <1>5, <1>8
  <2> HIDE DEF first
  <2>3. M = first..(first + n - 1)
    <3>1. \A j, k \in M : k - j < Cardinality(M)
      BY DEF M
    <3>2. M = first..(first + Cardinality(M) - 1)
      BY <1>2, <1>6, <2>1, <3>1, SideBySide
    <3> QED
      BY <1>4, <3>2
  <2>4. first \in Nat \ {0} /\ first + n - 1 \in 1..Len(C) /\ n # 0
    <3>1. first \in 1..Len(C) /\ first <= first + n - 1
      BY <1>2, <1>6, <2>1, <2>3
    <3>2. first + n - 1 \in M
      BY <1>2, <2>3, <3>1
    <3> QED
      BY <1>2, <1>6, <3>1, <3>2
  <2>5. InRange(w, O)
    BY <1>1, <1>2, <1>3, <2>2, <2>4 DEF InRange
  <2>6. /\ Len(run) = n
        /\ \A i \in 1..n : run[i] = EndpointOption(C[first + i - 1])
    <3> DEFINE a == [i \in 1..n |-> O[w.first + i]]
               b == [i \in 1..w.count2 |-> O[w.second + i]]
               Y == {O[j] : j \in 1..Len(C)}
    <3>1. \A i \in 1..n : w.first + i = first + i - 1 /\ first + i - 1 \in 1..Len(C)
      BY <1>2, <2>2, <2>4
    <3>2. a \in Seq(Y) /\ Len(a) = n /\ \A i \in 1..n : a[i] = EndpointOption(C[first + i - 1])
      <4>1. \A i \in 1..n : a[i] = O[first + i - 1] /\ O[first + i - 1] \in Y
        BY <3>1
      <4>2. DOMAIN a = 1..n
        OBVIOUS
      <4>3. a \in [1..n -> Y]
        BY <4>1
      <4> HIDE DEF a, Y
      <4> QED
        <5>1. a \in Seq(Y) /\ Len(a) = n
          BY <1>2, <4>3
        <5> QED
          BY <1>3, <3>1, <4>1, <5>1
    <3>3. b = <<>>
      BY <1>1
    <3>4. run = a \o b
      BY <1>1 DEF Runs
    <3> HIDE DEF a, b, Y
    <3>5. a \o <<>> = a
      BY <3>2, ConcatEmptySeq
    <3>6. run = a
      BY <3>3, <3>4, <3>5
    <3> QED
      BY <3>2, <3>6
  <2> DEFINE E == EndpointsIn(w, O)
  <2>7. E = [i \in 1..n |-> C[first + i - 1]]
    <3>1. Len(run) \in Nat /\ \A i \in 1..Len(run) : IsEndpoint(run[i])
      BY <1>2, <2>6 DEF EndpointOption, IsEndpoint
    <3>2. E = [i \in 1..Len(run) |-> run[i].endpoint]
      <4> DEFINE r == run
      <4>1. r = Runs(w, O)
        OBVIOUS
      <4> HIDE DEF r, E, run
      <4>2. Len(r) \in Nat /\ \A i \in 1..Len(r) : IsEndpoint(r[i])
        BY <3>1 DEF r
      <4>3. EndpointsIn(w, O) = [i \in 1..Len(r) |-> r[i].endpoint]
        BY <4>1, <4>2, EndpointsInOrder
      <4> QED
        BY <4>3 DEF r, E
    <3>3. \A i \in 1..n : run[i].endpoint = C[first + i - 1]
      BY <2>6 DEF EndpointOption
    <3> HIDE DEF run, E
    <3> QED
      BY <2>6, <3>2, <3>3
  <2>8. DOMAIN E = 1..n
    BY <2>7
  <2>9. Range(E) = {C[j] : j \in M}
    <3>1. ASSUME NEW i \in 1..n PROVE E[i] \in {C[j] : j \in M}
      <4>1. first + i - 1 \in M
        BY <1>2, <2>3, <2>4
      <4> QED
        BY <2>7, <4>1
    <3>2. ASSUME NEW j \in M PROVE C[j] \in Range(E)
      <4>1. j - first + 1 \in 1..n /\ first + (j - first + 1) - 1 = j
        BY <1>2, <2>3, <2>4
      <4>2. E[j - first + 1] = C[j]
        BY <2>7, <4>1
      <4> HIDE DEF E
      <4> QED
        BY <2>8, <4>1, <4>2 DEF Range
    <3> HIDE DEF E
    <3> QED
      BY <2>8, <3>1, <3>2 DEF Range
  <2>10. Range(P) = {C[j] : j \in M}
    <3>1. \A j \in M : \E k \in 1..n : P[k] = C[j]
      BY DEF M, Mine, n, Contains
    <3>2. ASSUME NEW k \in 1..n PROVE \E j \in M : C[j] = P[k]
      <4>1. PICK j \in 1..Len(C) : C[j] = P[k]
        BY DEF n, Contains
      <4>2. j \in M
        BY <1>2, <4>1 DEF M, Mine, n, Contains
      <4> QED
        BY <4>1, <4>2
    <3>3. Range(P) = {P[k] : k \in 1..n}
      BY <1>2 DEF Range
    <3> HIDE DEF P
    <3> QED
      BY <3>1, <3>2, <3>3
  <2> HIDE DEF E
  <2> QED
    BY <1>2, <2>5, <2>8, <2>9, <2>10 DEF E, O, P
<1> QED
  BY <1>7, <1>8

\* What the daemon puts into its own messages: endpoints of different protocols,
\* and for an offer at least one, all with its port.
OwnEntry(e) ==
  /\ e \in EntryType
  /\ IsInjective(e.endpoints)
  /\ e.kind = "OfferService" =>
       /\ e.endpoints # <<>>
       /\ \A i, j \in DOMAIN e.endpoints : e.endpoints[i].port = e.endpoints[j].port

OwnEntries(entries) ==
  /\ entries \in Seq(EntryType)
  /\ \A i \in DOMAIN entries : OwnEntry(entries[i])

\* The array of a message of the daemon has its entries' endpoints once each.
LEMMA OwnOptions ==
  ASSUME NEW entries, OwnEntries(entries)
  PROVE  /\ Collected(entries) \in Seq(Endpoint) /\ IsInjective(Collected(entries))
         /\ \A i \in DOMAIN entries : entries[i].kind \in WithOptions =>
              \A k \in 1..Len(entries[i].endpoints) :
                Contains(Collected(entries), entries[i].endpoints[k])
<1> DEFINE L == Listed(entries)
<1>1. /\ DOMAIN entries = 1..Len(entries) /\ Len(entries) \in Nat
      /\ \A i \in DOMAIN entries : entries[i].endpoints \in Seq(Endpoint)
  <2>1. DOMAIN entries = 1..Len(entries) /\ Len(entries) \in Nat
    BY DEF OwnEntries
  <2>2. \A i \in DOMAIN entries : entries[i] \in EntryType
    BY DEF OwnEntries, OwnEntry
  <2>3. \A e \in EntryType : e.endpoints \in Seq(Endpoint)
    BY DEF EntryType
  <2> QED
    BY <2>1, <2>2, <2>3
<1>2. \A i \in DOMAIN entries :
        L[i] = IF entries[i].kind \in WithOptions THEN entries[i].endpoints ELSE <<>>
  BY DEF Listed
<1>3. DOMAIN L = DOMAIN entries
  BY DEF Listed
<1>4. \A i \in DOMAIN entries : L[i] \in Seq(Endpoint)
  <2>1. <<>> \in Seq(Endpoint)
    OBVIOUS
  <2> HIDE DEF L
  <2> QED
    BY <1>1, <1>2, <2>1
<1>5. L \in Seq(Seq(Endpoint)) /\ Len(L) = Len(entries)
  <2>1. L = [i \in 1..Len(entries) |-> L[i]]
    BY <1>1 DEF Listed
  <2> HIDE DEF L
  <2> QED
    BY <1>1, <1>4, <2>1
<1>6. /\ Collected(entries) \in Seq(Endpoint) /\ IsInjective(Collected(entries))
      /\ \A x : Contains(Collected(entries), x) <=> \E i \in 1..Len(L) : Contains(L[i], x)
  BY <1>5, CollectedOnce
<1>7. ASSUME NEW i \in DOMAIN entries, entries[i].kind \in WithOptions,
             NEW k \in 1..Len(entries[i].endpoints)
      PROVE  Contains(Collected(entries), entries[i].endpoints[k])
  <2>1. L[i] = entries[i].endpoints /\ i \in 1..Len(L)
    BY <1>1, <1>2, <1>5, <1>7
  <2> HIDE DEF L
  <2>2. Contains(L[i], entries[i].endpoints[k])
    BY <2>1 DEF Contains
  <2> QED
    BY <1>6, <2>1, <2>2
<1> QED
  BY <1>6, <1>7

\* An own entry is read as it was meant, if its options lie side by side.
LEMMA OwnEntrySays ==
  ASSUME NEW entries, OwnEntries(entries), Adjacent(entries), NEW i \in DOMAIN entries
  PROVE  Says(WireEntry(entries[i], Collected(entries)), entries[i], OptionsOf(Collected(entries)))
<1> DEFINE C == Collected(entries)
           e == entries[i]
           w == WireEntry(e, C)
           O == OptionsOf(C)
           E == EndpointsIn(w, O)
<1>1. e \in EntryType /\ OwnEntry(e) /\ e.endpoints \in Seq(Endpoint)
  <2>1. OwnEntry(e)
    BY DEF OwnEntries
  <2>2. \A x \in EntryType : x.endpoints \in Seq(Endpoint)
    BY DEF EntryType
  <2> HIDE DEF e
  <2> QED
    BY <2>1, <2>2 DEF OwnEntry
<1>2. C \in Seq(Endpoint) /\ IsInjective(C)
  BY OwnOptions
<1>3. ReadKind(w) = e.kind /\ (e.kind \in {"OfferService", "Subscribe"} => w.ttl = e.ttl)
  <2>1. w.code = OnWire[e.kind] /\ w.ttl = TtlOnWire(e)
    BY DEF WireEntry
  <2> HIDE DEF w, e
  <2> QED
    BY <1>1, <2>1, KindIsRead
<1>4. w.service = e.service
  BY DEF WireEntry
<1>5. ASSUME e.kind \in WithOptions
      PROVE  /\ InRange(w, O) /\ Range(E) = Range(e.endpoints)
             /\ DOMAIN E = DOMAIN e.endpoints
  <2>1. \A k \in 1..Len(e.endpoints) : Contains(C, e.endpoints[k])
    BY <1>5, OwnOptions
  <2>2. \A j, k \in Mine(e.endpoints, C) : k - j < Cardinality(Mine(e.endpoints, C))
    BY DEF Adjacent, Mine
  <2>3. w = WireEntry(e, C) /\ IsInjective(e.endpoints)
    BY <1>1 DEF OwnEntry
  <2> HIDE DEF C, e, w
  <2>4. /\ InRange(w, OptionsOf(C))
        /\ Range(EndpointsIn(w, OptionsOf(C))) = Range(e.endpoints)
        /\ DOMAIN EndpointsIn(w, OptionsOf(C)) = DOMAIN e.endpoints
    BY <1>1, <1>2, <1>5, <2>1, <2>2, <2>3, RunIsRead
  <2> QED
    BY <2>4
<1> HIDE DEF C, e, w, O, E
<1>6. ASSUME e.kind = "OfferService" PROVE E[1].port = e.endpoints[1].port
  <2>1. Range(E) = Range(e.endpoints) /\ DOMAIN E = DOMAIN e.endpoints
    BY <1>5, <1>6 DEF WithOptions
  <2>2. 1 \in DOMAIN e.endpoints
    BY <1>1, <1>6 DEF OwnEntry
  <2>3. \E k \in DOMAIN e.endpoints : e.endpoints[k] = E[1]
    BY <2>1, <2>2 DEF Range
  <2> QED
    BY <1>1, <1>6, <2>2, <2>3 DEF OwnEntry
<1> QED
  BY <1>3, <1>4, <1>5, <1>6 DEF Says, WithOptions, C, e, w, O, E

\* A sequence of results of a function of places.
LEMMA Laid ==
  ASSUME NEW N \in Nat, NEW f, f = [i \in 1..N |-> f[i]]
  PROVE  f \in Seq({f[i] : i \in 1..N}) /\ Len(f) = N /\ DOMAIN f = 1..N
<1> DEFINE X == {f[i] : i \in 1..N}
<1>1. \A i \in 1..N : f[i] \in X
  OBVIOUS
<1>2. DOMAIN f = 1..N
  OBVIOUS
<1> HIDE DEF X
<1>3. f \in [1..N -> X]
  BY <1>1
<1>4. f \in Seq(X) /\ Len(f) = N
  BY <1>3
<1> QED
  BY <1>2, <1>4 DEF X

\* The options of endpoints have the lengths that the readers go by.
LEMMA OptionsHaveLengths ==
  ASSUME NEW X, NEW C \in Seq(X), NEW O, O = OptionsOf(C)
  PROVE  /\ O \in Seq({O[i] : i \in 1..Len(C)}) /\ HaveLengths(O)
         /\ Len(O) = Len(C) /\ DOMAIN O = 1..Len(C)
         /\ \A i \in 1..Len(C) : O[i] = EndpointOption(C[i])
<1>1. Len(C) \in Nat /\ DOMAIN C = 1..Len(C)
  OBVIOUS
<1>2. O = [i \in 1..Len(C) |-> EndpointOption(C[i])]
  BY <1>1 DEF OptionsOf
<1>3. \A i \in 1..Len(C) : O[i] = EndpointOption(C[i])
  BY <1>2
<1>4. O = [i \in 1..Len(C) |-> O[i]]
  BY <1>2
<1>5. O \in Seq({O[i] : i \in 1..Len(C)}) /\ Len(O) = Len(C) /\ DOMAIN O = 1..Len(C)
  BY <1>1, <1>4, Laid
<1>6. HaveLengths(O)
  BY <1>3, <1>5 DEF HaveLengths, EndpointOption
<1> QED
  BY <1>3, <1>5, <1>6

\* serialize_sd_message: the lengths are true, and the receivers accept the message.
LEMMA OwnIsAccepted ==
  ASSUME NEW entries, OwnEntries(entries), NEW session \in Nat \ {0},
         NEW m, m = SerializeSdMessage(entries, session)
  PROVE  IsReadWhole(m)
<1> DEFINE C == Collected(entries)
           O == OptionsOf(C)
           W == [i \in DOMAIN entries |-> WireEntry(entries[i], C)]
           A == {W[i] : i \in 1..Len(entries)}
           B == {O[i] : i \in 1..Len(C)}
<1>1. C \in Seq(Endpoint)
  BY OwnOptions
<1>2. O \in Seq(B) /\ HaveLengths(O)
  <2>1. O = OptionsOf(C)
    OBVIOUS
  <2> HIDE DEF O, C
  <2> QED
    BY <1>1, <2>1, OptionsHaveLengths
<1>3. W \in Seq(A)
  <2>1. DOMAIN entries = 1..Len(entries) /\ Len(entries) \in Nat
    BY DEF OwnEntries
  <2>2. W = [i \in 1..Len(entries) |-> W[i]]
    BY <2>1
  <2> HIDE DEF W
  <2> QED
    BY <2>1, <2>2, Laid
<1>4. DOMAIN C = 1..Len(C)
  BY <1>1
<1>5. m = Message(session, FALSE, W, O)
  BY DEF SerializeSdMessage, OptionsOf
<1> HIDE DEF C, O, W, A, B
<1>6. IsTrue(m, A, B)
  BY <1>2, <1>3, <1>5 DEF Message, IsTrue
<1> QED
  BY <1>6, TrueLengthsAreAccepted

\* serialize_sd_message: the receivers hear what was meant.
LEMMA OwnIsUnderstood ==
  ASSUME NEW entries, OwnEntries(entries), Adjacent(entries), NEW session \in Nat \ {0},
         NEW m, m = SerializeSdMessage(entries, session), NEW channel \in Channel,
         channel = "multicast" => \A i \in DOMAIN entries : entries[i].kind \notin Eventgroup
  PROVE  ReadOn(channel, m) = Meant(channel, entries)
<1> DEFINE C == Collected(entries)
<1>1. IsReadWhole(m)
  BY OwnIsAccepted
<1>2. /\ m.entries = [i \in DOMAIN entries |-> WireEntry(entries[i], C)]
      /\ m.options = OptionsOf(C)
  BY DEF SerializeSdMessage, Message, OptionsOf
<1> HIDE DEF C
<1>3. DOMAIN m.entries = DOMAIN entries
  BY <1>2
<1>4. \A i \in DOMAIN entries : Says(m.entries[i], entries[i], m.options)
  <2> TAKE i \in DOMAIN entries
  <2>1. Says(WireEntry(entries[i], C), entries[i], OptionsOf(C))
    BY OwnEntrySays DEF C
  <2>2. m.entries[i] = WireEntry(entries[i], C)
    BY <1>2
  <2> QED
    BY <1>2, <2>1, <2>2
<1>5. \A i \in DOMAIN entries : entries[i].kind \in Kind
  <2>1. \A e \in EntryType : e.kind \in Kind
    BY DEF EntryType
  <2> QED
    BY <2>1 DEF OwnEntries, OwnEntry
<1> QED
  BY <1>1, <1>3, <1>4, <1>5, Understood

\* The acknowledgement, whose lengths are computed by hand.
LEMMA AckIsAccepted ==
  ASSUME NEW entry, NEW session \in Nat \ {0}, NEW reboot,
         NEW m, m = AckMessage(entry, session, reboot)
  PROVE  IsReadWhole(m)
<1> DEFINE w == WireEntry(entry, <<>>)
<1>1. /\ m.sd /\ m.session = session /\ m.entries = <<w>> /\ m.options = <<>>
      /\ m.length = 36 /\ m.entriesLength = 16 /\ m.optionsLength = 0
  BY DEF AckMessage, EntryLength
<1> HIDE DEF w
<1>2. <<w>> \in Seq({w}) /\ Len(<<w>>) = 1 /\ <<>> \in Seq({}) /\ Len(<<>>) = 0
  OBVIOUS
<1>3. HaveLengths(<<>>)
  BY <1>2 DEF HaveLengths
<1>4. OptionsLength(<<>>) = 0
  <2>1. BytesUpTo(<<>>)[0] = 0
    <3> DEFINE none == <<>>
    <3>1. Len(none) \in Nat /\ HaveLengths(none)
      BY <1>2, <1>3
    <3> HIDE DEF none
    <3>2. BytesUpTo(none)[0] = 0
      BY <3>1, BytesGrow
    <3> QED
      BY <3>2 DEF none
  <2> QED
    BY <1>2, <2>1 DEF OptionsLength
<1>5. IsTrue(m, {w}, {})
  BY <1>1, <1>2, <1>3, <1>4 DEF IsTrue, HeaderLength, EntryLength
<1> QED
  BY <1>5, TrueLengthsAreAccepted

\* The acknowledgement is heard as one, of that service.
LEMMA AckIsUnderstood ==
  ASSUME NEW s \in Service, NEW ttl \in 1..MaxTtl, NEW session \in Nat \ {0}, NEW reboot,
         NEW entry, entry = Entry("Ack", s, ttl, <<>>),
         NEW m, m = AckMessage(entry, session, reboot)
  PROVE  ReadOn("unicast", m) = Meant("unicast", <<entry>>)
<1> DEFINE w == WireEntry(entry, <<>>)
<1>1. IsReadWhole(m)
  BY AckIsAccepted
<1>2. m.entries = <<w>> /\ DOMAIN m.entries = DOMAIN <<entry>>
  BY DEF AckMessage
<1>3. entry \in EntryType /\ entry.kind = "Ack" /\ entry.service = s
  BY DEF Entry, EntryType, Kind
<1>4. w.code = OnWire[entry.kind] /\ w.ttl = TtlOnWire(entry) /\ w.service = entry.service
  BY DEF WireEntry
<1> HIDE DEF w
<1>5. ReadKind(w) = entry.kind
  BY <1>3, <1>4, KindIsRead
<1>6. Says(w, entry, m.options)
  BY <1>3, <1>4, <1>5 DEF Says
<1>7. \A i \in DOMAIN <<entry>> : Says(m.entries[i], <<entry>>[i], m.options)
  BY <1>2, <1>6
<1>8. "unicast" \in Channel /\ "unicast" # "multicast"
  BY DEF Channel
<1> DEFINE entries == <<entry>>
<1> HIDE DEF entries
<1>9. ReadOn("unicast", m) = Meant("unicast", entries)
  BY <1>1, <1>2, <1>7, <1>8, Understood DEF entries
<1> QED
  BY <1>9 DEF entries

-----------------------------------------------------------------------------
(* Messages of other ECUs.                                                 *)

\* The options of such a message: one that is no endpoint, then those of C.
PeerOptions(C) == <<OtherOption>> \o OptionsOf(C)

\* Where the options of another ECU are.
LEMMA PeerOptionsAre ==
  ASSUME NEW X, NEW C \in Seq(X), NEW O, O = PeerOptions(C)
  PROVE  /\ Len(O) = Len(C) + 1 /\ HaveLengths(O)
         /\ \A k \in 1..Len(C) : O[k + 1] = EndpointOption(C[k])
         /\ \E B : O \in Seq(B)
<1> DEFINE Q == OptionsOf(C)
           B == {Q[i] : i \in 1..Len(C)}
           D == {OtherOption} \cup B
           one == <<OtherOption>>
<1>1. /\ Q \in Seq(B) /\ HaveLengths(Q) /\ Len(Q) = Len(C)
      /\ \A i \in 1..Len(C) : Q[i] = EndpointOption(C[i])
  BY OptionsHaveLengths
<1>2. Len(C) \in Nat /\ O = one \o Q
  BY DEF PeerOptions
<1>3. OtherOption.length \in Nat
  BY DEF OtherOption
<1> HIDE DEF Q, B
<1>4. one \in Seq(D) /\ Len(one) = 1 /\ one[1] = OtherOption
  OBVIOUS
<1>5. Q \in Seq(D)
  BY <1>1
<1> HIDE DEF D, one
<1>6. /\ O \in Seq(D) /\ Len(O) = 1 + Len(Q) /\ O[1] = OtherOption
      /\ \A k \in 1..Len(Q) : O[1 + k] = Q[k]
  <2>1. /\ one \o Q \in Seq(D) /\ Len(one \o Q) = Len(one) + Len(Q)
        /\ \A i \in 1..(Len(one) + Len(Q)) :
             (one \o Q)[i] = IF i <= Len(one) THEN one[i] ELSE Q[i - Len(one)]
    BY <1>4, <1>5, ConcatProperties
  <2>2. \A k \in 1..Len(Q) : 1 + k \in 1..(1 + Len(Q)) /\ ~(1 + k <= 1) /\ (1 + k) - 1 = k
    BY <1>1, <1>2
  <2>3. 1 \in 1..(1 + Len(Q))
    BY <1>1, <1>2
  <2> QED
    BY <1>2, <1>4, <2>1, <2>2, <2>3
<1>7. Len(O) = Len(C) + 1 /\ \A k \in 1..Len(C) : k + 1 = 1 + k
  BY <1>1, <1>2, <1>6
<1>8. \A k \in 1..Len(C) : O[k + 1] = EndpointOption(C[k])
  BY <1>1, <1>6, <1>7
<1>9. HaveLengths(O)
  <2>1. \A i \in 1..Len(O) : i = 1 \/ (i - 1 \in 1..Len(Q) /\ 1 + (i - 1) = i)
    BY <1>1, <1>2, <1>6
  <2> QED
    BY <1>1, <1>3, <1>6, <2>1 DEF HaveLengths
<1> QED
  BY <1>6, <1>7, <1>8, <1>9

\* The entry of a peer with endpoints P, before whose options there are n others.
PeerWire(e, n) ==
  [code |-> OnWire[e.kind], service |-> e.service, ttl |-> TtlOnWire(e),
   first |-> 1 + n, count |-> IF Len(e.endpoints) > 0 THEN 1 ELSE 0,
   second |-> 2 + n, count2 |-> IF Len(e.endpoints) > 1 THEN Len(e.endpoints) - 1 ELSE 0]

\* Its two runs together are its endpoints, in their order.
LEMMA TwoRunsAreRead ==
  ASSUME NEW X, NEW C \in Seq(X), NEW e, e.endpoints \in Seq(X), NEW n \in Nat,
         \A j \in 1..Len(e.endpoints) : n + j \in 1..Len(C) /\ C[n + j] = e.endpoints[j],
         NEW w, w = PeerWire(e, n)
  PROVE  /\ InRange(w, PeerOptions(C))
         /\ EndpointsIn(w, PeerOptions(C)) = e.endpoints
<1> DEFINE P == e.endpoints
           N == Len(P)
           O == PeerOptions(C)
           p == w.count
           q == w.count2
           a == [i \in 1..p |-> O[w.first + i]]
           b == [i \in 1..q |-> O[w.second + i]]
           Z == {EndpointOption(x) : x \in X}
           run == Runs(w, O)
<1>1. /\ w.first = 1 + n /\ w.second = 2 + n
      /\ p = IF N > 0 THEN 1 ELSE 0
      /\ q = IF N > 1 THEN N - 1 ELSE 0
  BY DEF PeerWire
<1>2. N \in Nat /\ DOMAIN P = 1..N /\ Len(C) \in Nat
  OBVIOUS
<1>3. Len(O) = Len(C) + 1 /\ \A k \in 1..Len(C) : O[k + 1] = EndpointOption(C[k])
  BY PeerOptionsAre
<1>4. \A j \in 1..N : /\ n + j \in 1..Len(C) /\ P[j] \in X
                      /\ O[n + j + 1] = EndpointOption(P[j])
  BY <1>3
<1> HIDE DEF O, P, N, p, q
<1>5. InRange(w, O)
  <2>1. N > 0 => 1 + n + 1 <= Len(O)
    <3>1. N > 0 => 1 \in 1..N
      BY <1>2
    <3> QED
      BY <1>2, <1>3, <1>4, <3>1
  <2>2. N > 1 => 2 + n + (N - 1) <= Len(O)
    <3>1. N > 1 => N \in 1..N
      BY <1>2
    <3> QED
      BY <1>2, <1>3, <1>4, <3>1
  <2> QED
    BY <1>1, <1>2, <2>1, <2>2 DEF InRange, p, q
<1>6. p \in Nat /\ q \in Nat /\ p + q = N
  BY <1>1, <1>2
<1>7. /\ \A i \in 1..p : a[i] = EndpointOption(P[i]) /\ i \in 1..N
      /\ \A i \in 1..q : b[i] = EndpointOption(P[p + i]) /\ p + i \in 1..N
  <2>1. ASSUME NEW i \in 1..p
        PROVE  /\ a[i] = EndpointOption(P[i])
               /\ i \in 1..N
    <3>1. i = 1 /\ 1 \in 1..N /\ w.first + i = n + 1 + 1
      BY <1>1, <1>2
    <3>2. a[i] = O[n + 1 + 1]
      BY <3>1
    <3> QED
      BY <1>4, <3>1, <3>2
  <2>2. ASSUME NEW i \in 1..q
        PROVE  /\ b[i] = EndpointOption(P[p + i])
               /\ p + i \in 1..N
    <3>1. p = 1 /\ 1 + i \in 1..N /\ w.second + i = n + (1 + i) + 1
      BY <1>1, <1>2
    <3>2. b[i] = O[n + (1 + i) + 1]
      BY <3>1
    <3> QED
      BY <1>4, <3>1, <3>2
  <2> QED
    BY <2>1, <2>2
<1>8. /\ a \in Seq(Z) /\ Len(a) = p
      /\ b \in Seq(Z) /\ Len(b) = q
  <2>1. a \in [1..p -> Z] /\ b \in [1..q -> Z]
    BY <1>4, <1>7
  <2> HIDE DEF a, b, Z
  <2> QED
    BY <1>6, <2>1
<1>9. run = a \o b
  BY DEF Runs, p, q
<1> HIDE DEF a, b, Z, run
<1>10. /\ Len(run) = p + q
       /\ \A i \in 1..p : run[i] = a[i]
       /\ \A i \in 1..q : run[p + i] = b[i]
  <2>1. /\ Len(run) = Len(a) + Len(b)
        /\ \A i \in 1..Len(a) : run[i] = a[i]
        /\ \A i \in 1..Len(b) : run[Len(a) + i] = b[i]
    <3>1. /\ Len(a \o b) = Len(a) + Len(b)
          /\ \A i \in 1..(Len(a) + Len(b)) :
               (a \o b)[i] = IF i <= Len(a) THEN a[i] ELSE b[i - Len(a)]
      BY <1>8, ConcatProperties
    <3>2. \A i \in 1..Len(b) : Len(a) + i \in 1..(Len(a) + Len(b)) /\ ~(Len(a) + i <= Len(a))
                              /\ (Len(a) + i) - Len(a) = i
      BY <1>6, <1>8
    <3>3. \A i \in 1..Len(a) : i \in 1..(Len(a) + Len(b)) /\ i <= Len(a)
      BY <1>6, <1>8
    <3> QED
      BY <1>9, <3>1, <3>2, <3>3
  <2> QED
    BY <1>8, <2>1
<1>11. Len(run) = N /\ \A k \in 1..N : run[k] = EndpointOption(P[k])
  <2>1. Len(run) = N
    BY <1>6, <1>10
  <2>2. ASSUME NEW k \in 1..N PROVE run[k] = EndpointOption(P[k])
    <3>1. CASE k \in 1..p
      BY <1>7, <1>10, <3>1
    <3>2. CASE k \notin 1..p
      <4>1. k - p \in 1..q /\ p + (k - p) = k
        BY <1>2, <1>6, <3>2
      <4> QED
        BY <1>7, <1>10, <4>1
    <3> QED
      BY <3>1, <3>2
  <2> QED
    BY <2>1, <2>2
<1>12. EndpointsIn(w, O) = [i \in 1..N |-> run[i].endpoint]
  <2>1. run = Runs(w, O) /\ Len(run) \in Nat /\ \A k \in 1..Len(run) : IsEndpoint(run[k])
    BY <1>2, <1>11 DEF run, IsEndpoint, EndpointOption
  <2> QED
    BY <1>11, <2>1, EndpointsInOrder
<1>13. [i \in 1..N |-> run[i].endpoint] = [i \in 1..N |-> P[i]]
  BY <1>11 DEF EndpointOption
<1>14. P = [i \in 1..N |-> P[i]]
  BY DEF P, N
<1> QED
  BY <1>5, <1>12, <1>13, <1>14 DEF O, P

\* A message of another ECU is accepted, and every entry says what it was to say.
LEMMA PeerIsRead ==
  ASSUME NEW entries \in PeerEntries, NEW session \in Nat \ {0},
         NEW m, m = PeerMessage(entries, session)
  PROVE  /\ IsReadWhole(m)
         /\ DOMAIN m.entries = DOMAIN entries
         /\ \A i \in DOMAIN entries : entries[i] \in EntryType
         /\ \A i \in DOMAIN entries : Says(m.entries[i], entries[i], m.options)
<1> DEFINE N == Len(entries)
           seqs == [i \in DOMAIN entries |-> entries[i].endpoints]
           all == FlattenSeq(seqs)
           O == PeerOptions(all)
           Before(i) == Len(FlattenSeq([j \in 1..(i - 1) |-> entries[j].endpoints]))
           W == [i \in DOMAIN entries |-> PeerWire(entries[i], Before(i))]
           A == {W[i] : i \in 1..N}
<1>1. N \in Nat /\ DOMAIN entries = 1..N
  BY PeerAssumption
<1>2. \A i \in 1..N : entries[i] \in EntryType /\ entries[i].endpoints \in Seq(Endpoint)
  <2>1. entries \in Seq(EntryType)
    BY PeerAssumption DEF EntryType
  <2>2. \A i \in 1..N : entries[i] \in EntryType
    BY <2>1
  <2>3. \A e \in EntryType : e.endpoints \in Seq(Endpoint)
    BY DEF EntryType
  <2> QED
    BY <2>2, <2>3
<1>3. m = Message(session, FALSE, W, O)
  BY DEF PeerMessage, PeerWire, PeerOptions, OptionsOf
<1>4. seqs = [i \in 1..N |-> entries[i].endpoints]
  BY <1>1
<1>5. seqs \in Seq(Seq(Endpoint)) /\ Len(seqs) = N
  <2>1. seqs \in [1..N -> Seq(Endpoint)]
    BY <1>2, <1>4
  <2> HIDE DEF seqs, N
  <2> QED
    BY <1>1, <2>1
<1>6. \A i \in 1..N : seqs[i] = entries[i].endpoints
  BY <1>4
<1>7. PICK f : IsFlat(f, Endpoint, seqs) /\ all = f[Len(seqs)]
  <2> HIDE DEF seqs
  <2> QED
    BY <1>5, FlattenPlaces, Zenon
<1> HIDE DEF seqs, all
<1>8. IsPlaced(f, Endpoint, seqs, N)
  <2>1. N \in 0..Len(seqs)
    BY <1>1, <1>5
  <2> QED
    BY <1>5, <1>7, <2>1, FlatPlaces, Zenon
<1>9. ASSUME NEW i \in 1..N PROVE Before(i) = Len(f[i - 1]) /\ Before(i) \in Nat
  <2>1. i - 1 \in 0..Len(seqs)
    BY <1>1, <1>5
  <2>2. FlattenSeq([j \in 1..(i - 1) |-> seqs[j]]) = f[i - 1]
    <3> DEFINE k == i - 1
    <3>1. k \in 0..Len(seqs)
      BY <2>1
    <3> HIDE DEF k
    <3>2. seqs \in Seq(Seq(Endpoint)) /\ IsFlat(f, Endpoint, seqs)
      BY <1>5, <1>7
    <3>3. Joined(seqs, k) = f[k]
      BY <3>1, <3>2, FlattenIsFlat, Zenon
    <3> QED
      BY <3>3, Zenon DEF k, Joined
  <2>3. [j \in 1..(i - 1) |-> seqs[j]] = [j \in 1..(i - 1) |-> entries[j].endpoints]
    <3>1. \A j \in 1..(i - 1) : j \in 1..N
      BY <1>1
    <3> QED
      BY <1>6, <3>1
  <2>4. FlattenSeq([j \in 1..(i - 1) |-> entries[j].endpoints]) = f[i - 1]
    BY <2>2, <2>3
  <2>5. f[i - 1] \in Seq(Endpoint)
    BY <1>7, <2>1 DEF IsFlat
  <2> QED
    BY <2>4, <2>5
<1>10. all \in Seq(Endpoint)
  BY <1>5, <1>7, <1>8 DEF IsPlaced
<1> HIDE DEF Before, O
<1>11. HaveLengths(O) /\ \E B : O \in Seq(B)
  BY <1>10, PeerOptionsAre DEF O
<1>12. W \in Seq(A) /\ DOMAIN W = 1..N
  <2>1. W = [i \in 1..N |-> W[i]]
    BY <1>1
  <2> HIDE DEF W, N
  <2> QED
    BY <1>1, <2>1, Laid
<1>13. m.entries = W /\ m.options = O
  BY <1>3 DEF Message
<1>14. \A i \in 1..N : W[i] = PeerWire(entries[i], Before(i))
  BY <1>1
<1> HIDE DEF W, A
<1>15. IsReadWhole(m)
  <2>1. PICK B : O \in Seq(B)
    BY <1>11
  <2>2. IsTrue(m, A, B)
    BY <1>3, <1>11, <1>12, <2>1 DEF Message, IsTrue
  <2> QED
    BY <2>2, TrueLengthsAreAccepted
<1>16. ASSUME NEW i \in 1..N PROVE Says(W[i], entries[i], O)
  <2> DEFINE e == entries[i]
             w == W[i]
             n == Before(i)
  <2>1. e \in EntryType /\ e.endpoints \in Seq(Endpoint)
    BY <1>2
  <2>2. w = PeerWire(e, n) /\ n \in Nat
    BY <1>9, <1>14
  <2>3. \A j \in 1..Len(e.endpoints) : n + j \in 1..Len(all) /\ all[n + j] = e.endpoints[j]
    <3>1. seqs[i] = e.endpoints /\ all = f[N] /\ n = Len(f[i - 1])
      BY <1>5, <1>6, <1>7, <1>9
    <3>2. \A j \in 1..Len(seqs[i]) :
            /\ Len(f[i - 1]) + j \in 1..Len(f[N])
            /\ f[N][Len(f[i - 1]) + j] = seqs[i][j]
      BY <1>8 DEF IsPlaced
    <3> HIDE DEF e, w, n, N
    <3> QED
      BY <3>1, <3>2
  <2> HIDE DEF e, w, n
  <2>4. ReadKind(w) = e.kind /\ (e.kind \in {"OfferService", "Subscribe"} => w.ttl = e.ttl)
    <3>1. w.code = OnWire[e.kind] /\ w.ttl = TtlOnWire(e)
      BY <2>2 DEF PeerWire
    <3> QED
      BY <2>1, <3>1, KindIsRead
  <2>5. w.service = e.service
    BY <2>2 DEF PeerWire
  <2>6. InRange(w, O) /\ EndpointsIn(w, O) = e.endpoints
    BY <1>10, <2>1, <2>2, <2>3, TwoRunsAreRead DEF O
  <2>7. Says(w, e, O)
    BY <2>4, <2>5, <2>6 DEF Says
  <2> QED
    BY <2>7 DEF e, w
<1> QED
  BY <1>1, <1>2, <1>12, <1>13, <1>15, <1>16

\* The daemon hears what another ECU means.
LEMMA PeerIsUnderstood ==
  ASSUME NEW entries \in PeerEntries, NEW session \in Nat \ {0},
         NEW m, m = PeerMessage(entries, session), NEW channel \in Channel,
         channel = "multicast" => \A i \in DOMAIN entries : entries[i].kind \notin Eventgroup
  PROVE  ReadOn(channel, m) = Meant(channel, entries)
<1>1. /\ IsReadWhole(m)
      /\ DOMAIN m.entries = DOMAIN entries
      /\ \A i \in DOMAIN entries : entries[i] \in EntryType
      /\ \A i \in DOMAIN entries : Says(m.entries[i], entries[i], m.options)
  BY PeerIsRead
<1>2. \A e \in EntryType : e.kind \in Kind
  BY DEF EntryType
<1> QED
  BY <1>1, <1>2, Understood

-----------------------------------------------------------------------------
(* The services of an offer timer.                                         *)

StorageInv ==
  /\ offered \in Seq(Service) /\ IsInjective(offered)
  /\ ticking \in BOOLEAN /\ (ticking => offered # <<>>)

\* What is left of a storage has no service twice.
LEMMA RemovedOnce ==
  ASSUME NEW X, NEW s \in Seq(X), IsInjective(s), NEW e
  PROVE  RemoveFirst(s, e) \in Seq(X) /\ IsInjective(RemoveFirst(s, e))
<1> DEFINE N == Len(s)
           I == {i \in 1..N : s[i] = e}
           k == CHOOSE i \in I : \A j \in I : i <= j
           a == SubSeq(s, 1, k - 1)
           b == SubSeq(s, k + 1, N)
           t == a \o b
<1>1. N \in Nat /\ DOMAIN s = 1..N /\ \A i \in 1..N : s[i] \in X
  OBVIOUS
<1>2. CASE I = {}
  <2>1. RemoveFirst(s, e) = s
    BY <1>2 DEF RemoveFirst
  <2> QED
    BY <2>1
<1>3. CASE I # {}
  <2>1. k \in I
    <3>1. \E i \in I : \A j \in I : i <= j
      <4>1. I \subseteq Nat
        BY <1>1
      <4> HIDE DEF I
      <4>2. PICK i \in I : \A j \in I : ~(<<j, i>> \in OpToRel(<, Nat))
        BY <1>3, <4>1, NatLessThanWellFounded, WFMin
      <4>3. \A j \in Nat : j < i => <<j, i>> \in OpToRel(<, Nat)
        BY <4>1 DEF OpToRel
      <4>4. \A j \in I : ~(j < i)
        BY <4>1, <4>2, <4>3
      <4> QED
        BY <4>1, <4>4
    <3> HIDE DEF I
    <3> QED
      BY <3>1
  <2>2. RemoveFirst(s, e) = t
    BY <1>3 DEF RemoveFirst, RemoveAt, SelectInSeq, Min
  <2>3. k \in 1..N
    BY <2>1
  <2> HIDE DEF I, k, N
  <2>4. /\ a \in Seq(X) /\ Len(a) = k - 1 /\ \A i \in 1..(k - 1) : a[i] = s[i]
    <3>1. /\ 1 \in Int /\ k - 1 \in Int /\ \A i \in 1..(k - 1) : s[i] \in X
          /\ (k - 1) - 1 + 1 = k - 1 /\ (~(1 <= k - 1) => k - 1 = 0)
          /\ \A i \in 1..(k - 1) : 1 + i - 1 = i
      BY <1>1, <2>3
    <3>2. /\ a \in Seq(X)
          /\ Len(a) = IF 1 <= k - 1 THEN (k - 1) - 1 + 1 ELSE 0
          /\ \A i \in 1..((k - 1) - 1 + 1) : a[i] = s[1 + i - 1]
      BY <3>1, SubSeqProperties
    <3> HIDE DEF a
    <3> QED
      BY <3>1, <3>2
  <2>5. /\ b \in Seq(X) /\ Len(b) = N - k /\ \A i \in 1..(N - k) : b[i] = s[k + i]
    <3>1. /\ k + 1 \in Int /\ N \in Int /\ \A i \in (k + 1)..N : s[i] \in X
          /\ N - (k + 1) + 1 = N - k /\ (~(k + 1 <= N) => N - k = 0)
          /\ \A i \in 1..(N - k) : k + 1 + i - 1 = k + i
      BY <1>1, <2>3
    <3>2. /\ b \in Seq(X)
          /\ Len(b) = IF k + 1 <= N THEN N - (k + 1) + 1 ELSE 0
          /\ \A i \in 1..(N - (k + 1) + 1) : b[i] = s[k + 1 + i - 1]
      BY <3>1, SubSeqProperties
    <3> HIDE DEF b
    <3> QED
      BY <3>1, <3>2
  <2> HIDE DEF a, b
  <2>6. /\ t \in Seq(X) /\ Len(t) = Len(a) + Len(b)
        /\ \A i \in 1..(Len(a) + Len(b)) : t[i] = IF i <= Len(a) THEN a[i] ELSE b[i - Len(a)]
    BY <2>4, <2>5, ConcatProperties
  <2>7. DOMAIN t = 1..Len(t)
    BY <2>6
  <2> HIDE DEF t
  <2>8. /\ Len(t) = N - 1
        /\ \A i \in 1..(N - 1) : t[i] = IF i < k THEN s[i] ELSE s[i + 1]
    <3>1. Len(t) = N - 1 /\ Len(a) + Len(b) = N - 1
      BY <1>1, <2>3, <2>4, <2>5, <2>6
    <3>2. ASSUME NEW i \in 1..(N - 1) PROVE t[i] = IF i < k THEN s[i] ELSE s[i + 1]
      <4>1. CASE i < k
        <5>1. i \in 1..(k - 1) /\ i <= Len(a)
          BY <1>1, <2>3, <2>4, <4>1
        <5> QED
          BY <2>4, <2>6, <3>1, <4>1, <5>1
      <4>2. CASE ~(i < k)
        <5>1. ~(i <= Len(a)) /\ i - Len(a) \in 1..(N - k) /\ k + (i - Len(a)) = i + 1
          BY <1>1, <2>3, <2>4, <4>2
        <5>2. t[i] = b[i - Len(a)]
          BY <2>6, <3>1, <5>1
        <5>3. b[i - Len(a)] = s[k + (i - Len(a))]
          BY <2>5, <5>1
        <5> QED
          BY <4>2, <5>1, <5>2, <5>3
      <4> QED
        BY <4>1, <4>2
    <3> QED
      BY <3>1, <3>2
  <2>9. IsInjective(t)
    <3> SUFFICES ASSUME NEW i \in 1..(N - 1), NEW j \in 1..(N - 1), t[i] = t[j] PROVE i = j
      BY <2>7, <2>8 DEF IsInjective
    <3> DEFINE from(n) == IF n < k THEN n ELSE n + 1
    <3>1. from(i) \in 1..N /\ from(j) \in 1..N
      BY <1>1, <2>3
    <3>2. s[from(i)] = s[from(j)]
      BY <2>8
    <3>3. from(i) = from(j)
      <4> HIDE DEF from
      <4> QED
        BY <1>1, <3>1, <3>2 DEF IsInjective
    <3> QED
      BY <1>1, <2>3, <3>3
  <2> QED
    BY <2>2, <2>6, <2>9
<1> QED
  BY <1>2, <1>3

-----------------------------------------------------------------------------
(* The last message is one of the daemon's, an acknowledgement or a peer's. *)

LastIs(kind, channel, entries, message) ==
  /\ last.kind = kind
  /\ last.channel = channel
  /\ last.entries = entries
  /\ last.message = message

LastIsOwn ==
  \E channel \in Channel, session \in Nat \ {0} : \E entries :
    /\ OwnEntries(entries)
    /\ LastIs("own", channel, entries, SerializeSdMessage(entries, session))

LastIsAck ==
  \E s \in Service, ttl \in 1..MaxTtl, session \in Nat \ {0} : \E reboot :
    LET entry == Entry("Ack", s, ttl, <<>>)
    IN  LastIs("own", "unicast", <<entry>>, AckMessage(entry, session, reboot))

LastIsPeers ==
  \E channel \in Channel, entries \in PeerEntries :
    LastIs("peer", channel, entries, PeerMessage(entries, 1))

MessageInv == last = NoMessage \/ LastIsOwn \/ LastIsAck \/ LastIsPeers

\* So every message is accepted and understood.
LEMMA MessagesAreGood == MessageInv => MessagesAreAccepted /\ MeaningIsKept
<1> SUFFICES ASSUME MessageInv PROVE MessagesAreAccepted /\ MeaningIsKept
  OBVIOUS
<1> DEFINE c == last.channel
           m == last.message
           es == last.entries
           Hears == ReadOn(c, m) = Meant(c, es)
<1>1. CASE last = NoMessage
  BY <1>1 DEF NoMessage, MessagesAreAccepted, MeaningIsKept, Sent
<1>2. ASSUME Sent => IsReadWhole(m),
             Sent
             /\ (last.kind = "own" => Adjacent(es))
             /\ (c = "multicast" => \A i \in DOMAIN es : es[i].kind \notin Eventgroup)
               => Hears
      PROVE  MessagesAreAccepted /\ MeaningIsKept
  <2>1. MessagesAreAccepted
    BY <1>2 DEF MessagesAreAccepted, IsReadWhole
  <2> HIDE DEF Hears
  <2>2. MeaningIsKept
    BY <1>2 DEF MeaningIsKept, Hears
  <2> QED
    BY <2>1, <2>2
<1>3. CASE LastIsOwn
  <2>1. PICK channel, session, entries :
          /\ channel \in Channel /\ session \in Nat \ {0}
          /\ OwnEntries(entries)
          /\ LastIs("own", channel, entries, SerializeSdMessage(entries, session))
    BY <1>3 DEF LastIsOwn
  <2>2. /\ last.kind = "own" /\ c = channel /\ es = entries
        /\ m = SerializeSdMessage(entries, session)
    BY <2>1 DEF LastIs
  <2> HIDE DEF c, m, es
  <2>3. IsReadWhole(m)
    BY <2>1, <2>2, OwnIsAccepted
  <2>4. ASSUME Adjacent(es),
               c = "multicast" => \A i \in DOMAIN es : es[i].kind \notin Eventgroup
        PROVE  Hears
    BY <2>1, <2>2, <2>4, OwnIsUnderstood
  <2> HIDE DEF Hears
  <2> QED
    BY <1>2, <2>2, <2>3, <2>4
<1>4. CASE LastIsAck
  <2>1. PICK s, ttl, session, reboot :
          /\ s \in Service /\ ttl \in 1..MaxTtl /\ session \in Nat \ {0}
          /\ LET entry == Entry("Ack", s, ttl, <<>>)
             IN  LastIs("own", "unicast", <<entry>>, AckMessage(entry, session, reboot))
    BY <1>4 DEF LastIsAck
  <2> DEFINE entry == Entry("Ack", s, ttl, <<>>)
  <2>2. c = "unicast" /\ es = <<entry>> /\ m = AckMessage(entry, session, reboot)
    BY <2>1 DEF LastIs
  <2>0. entry = Entry("Ack", s, ttl, <<>>)
    OBVIOUS
  <2> HIDE DEF c, m, es, entry
  <2>3. IsReadWhole(m)
    BY <2>1, <2>2, AckIsAccepted
  <2>4. ReadOn("unicast", m) = Meant("unicast", <<entry>>)
    BY <2>0, <2>1, <2>2, AckIsUnderstood
  <2> QED
    BY <1>2, <2>2, <2>3, <2>4
<1>5. CASE LastIsPeers
  <2>1. PICK channel \in Channel, entries \in PeerEntries :
          LastIs("peer", channel, entries, PeerMessage(entries, 1))
    BY <1>5 DEF LastIsPeers
  <2>2. c = channel /\ es = entries /\ m = PeerMessage(entries, 1) /\ 1 \in Nat \ {0}
    BY <2>1 DEF LastIs
  <2> HIDE DEF c, m, es
  <2>3. IsReadWhole(m)
    BY <2>2, PeerIsRead
  <2>4. ASSUME c = "multicast" => \A i \in DOMAIN es : es[i].kind \notin Eventgroup
        PROVE  Hears
    BY <2>2, <2>4, PeerIsUnderstood
  <2> HIDE DEF Hears
  <2> QED
    BY <1>2, <2>3, <2>4
<1> QED
  BY <1>1, <1>3, <1>4, <1>5 DEF MessageInv

\* A message with one entry.
LEMMA OneEntry ==
  ASSUME NEW e, OwnEntry(e)
  PROVE  OwnEntries(<<e>>)
<1>1. e \in EntryType
  BY DEF OwnEntry
<1>2. <<e>> \in Seq(EntryType) /\ \A i \in DOMAIN <<e>> : <<e>>[i] = e
  BY <1>1
<1> QED
  BY <1>2 DEF OwnEntries

\* An offer or a stop has the endpoints of its service.
LEMMA OfferEntryIsOwn ==
  ASSUME NEW kind \in Kind, NEW s \in Service
  PROVE  OwnEntry(OfferEntry(kind, s))
<1> DEFINE e == OfferEntry(kind, s)
<1>1. e = [kind |-> kind, service |-> s, ttl |-> OfferTtl[s], endpoints |-> EndpointsOf[s]]
  BY DEF OfferEntry, Entry
<1>2. OfferTtl[s] \in 1..MaxTtl
  BY NumberAssumption
<1>3. /\ EndpointsOf[s] \in Seq(Endpoint) /\ EndpointsOf[s] # <<>>
      /\ IsInjective(EndpointsOf[s])
      /\ \A i, j \in DOMAIN EndpointsOf[s] : EndpointsOf[s][i].port = EndpointsOf[s][j].port
  BY EndpointAssumption
<1>4. e \in EntryType
  BY <1>1, <1>2, <1>3 DEF EntryType
<1>5. e.endpoints = EndpointsOf[s]
  BY <1>1
<1> HIDE DEF e
<1> QED
  BY <1>3, <1>4, <1>5 DEF OwnEntry, e

\* The endpoints that a subscription can have: each of the client's once.
LEMMA ClientEndpoints ==
  ASSUME NEW endpoints \in SetToSeqs(Client) \cup {<<e>> : e \in Client}
  PROVE  endpoints \in Seq(Endpoint) /\ IsInjective(endpoints)
<1>1. CASE endpoints \in SetToSeqs(Client)
  <2> DEFINE n == Cardinality(Client)
  <2>1. n \in Nat
    BY ClientAssumption, FS_CardinalityType
  <2>2. /\ endpoints \in [1..n -> Client]
        /\ \A i, j \in 1..n : i # j => endpoints[i] # endpoints[j]
    BY <1>1 DEF SetToSeqs
  <2> HIDE DEF n
  <2>3. endpoints \in [1..n -> Endpoint]
    BY <2>2, ClientAssumption
  <2>4. endpoints \in Seq(Endpoint) /\ DOMAIN endpoints = 1..n
    BY <2>1, <2>3
  <2> QED
    BY <2>2, <2>4 DEF IsInjective
<1>2. CASE endpoints \in {<<e>> : e \in Client}
  <2>1. PICK e \in Client : endpoints = <<e>>
    BY <1>2
  <2>2. e \in Endpoint
    BY ClientAssumption
  <2>3. endpoints \in Seq(Endpoint) /\ \A i, j \in DOMAIN endpoints : i = j
    BY <2>1, <2>2
  <2> QED
    BY <2>3 DEF IsInjective
<1> QED
  BY <1>1, <1>2

\* A message of serialize_sd_message is the daemon's own.
LEMMA OwnIsLast ==
  ASSUME SessionInv, NEW channel \in Channel, NEW entries, OwnEntries(entries),
         SendEntries(channel, entries)
  PROVE  MessageInv'
<1> DEFINE session == Updated(handler[channel]).session
<1>1. session \in Nat \ {0}
  <2>1. session \in 1..MaxSession
    BY UpdatedType DEF SessionInv
  <2> HIDE DEF session
  <2> QED
    BY <2>1, NumberAssumption
<1>2. /\ last'.kind = "own" /\ last'.channel = channel /\ last'.entries = entries
      /\ last'.message = SerializeSdMessage(entries, session)
  BY DEF SendEntries, Send
<1> HIDE DEF session
<1>3. PICK n \in Nat \ {0} : LastIs("own", channel, entries, SerializeSdMessage(entries, n))'
  BY <1>1, <1>2 DEF LastIs
<1> QED
  BY <1>3 DEF MessageInv, LastIsOwn

\* Every step leaves a message of one of these kinds, or none.
LEMMA MessageStep ==
  SessionInv /\ StorageInv /\ MessageInv /\ [Next]_vars => StorageInv' /\ MessageInv'
<1> SUFFICES ASSUME SessionInv, StorageInv, MessageInv, [Next]_vars
             PROVE  StorageInv' /\ MessageInv'
  OBVIOUS
<1>0. "multicast" \in Channel /\ "unicast" \in Channel
  BY DEF Channel
<1>1. ASSUME NEW s \in Service, Offer(s) PROVE StorageInv' /\ MessageInv'
  <2>1. offered' = Append(offered, s) /\ ~Contains(offered, s) /\ last' = NoMessage
    BY <1>1 DEF Offer
  <2>2. Append(offered, s) \in Seq(Service) /\ IsInjective(Append(offered, s))
    BY <2>1, AppendContains DEF StorageInv
  <2>3. ticking' = (offered = <<>> \/ ticking) /\ offered' # <<>>
    <3>1. Append(offered, s) # <<>>
      BY DEF StorageInv
    <3> QED
      BY <1>1, <2>1, <3>1 DEF Offer
  <2> QED
    BY <2>1, <2>2, <2>3 DEF StorageInv, MessageInv
<1>2. ASSUME NEW s \in Service, StopOffer(s) PROVE StorageInv' /\ MessageInv'
  <2> DEFINE e == OfferEntry("StopOfferService", s)
  <2>1. offered' = RemoveFirst(offered, s) /\ SendEntries("multicast", <<e>>)
    BY <1>2 DEF StopOffer
  <2>2. OwnEntry(e)
    BY OfferEntryIsOwn DEF Kind
  <2> HIDE DEF e
  <2>3. StorageInv'
    <3>1. ticking' = (ticking /\ offered' # <<>>)
      BY <1>2 DEF StopOffer
    <3> QED
      BY <2>1, <3>1, RemovedOnce DEF StorageInv
  <2>4. OwnEntries(<<e>>)
    BY <2>2, OneEntry
  <2> QED
    BY <1>0, <2>1, <2>3, <2>4, OwnIsLast
<1>3. ASSUME NEW s \in Remote, FindService(s) PROVE StorageInv' /\ MessageInv'
  <2> DEFINE e == Entry("FindService", s, MaxTtl, <<>>)
  <2>1. SendEntries("multicast", <<e>>) /\ UNCHANGED <<offered, ticking>>
    BY <1>3 DEF FindService
  <2>2. OwnEntry(e)
    <3>1. e \in EntryType
      BY NumberAssumption, RemoteAssumption DEF EntryType, Entry, Kind
    <3>2. e.endpoints = <<>> /\ e.kind = "FindService" /\ IsInjective(<<>>)
      BY DEF Entry, IsInjective
    <3> HIDE DEF e
    <3> QED
      BY <3>1, <3>2 DEF OwnEntry
  <2> HIDE DEF e
  <2>3. OwnEntries(<<e>>)
    BY <2>2, OneEntry
  <2>4. StorageInv'
    BY <2>1 DEF StorageInv
  <2> QED
    BY <1>0, <2>1, <2>3, <2>4, OwnIsLast
<1>4. CASE OfferTimer
  <2> DEFINE entries == [i \in DOMAIN offered |-> OfferEntry("OfferService", offered[i])]
             N == Len(offered)
  <2>1. /\ ticking /\ UNCHANGED offered
        /\ \/ SendEntries("multicast", entries) /\ UNCHANGED ticking
           \/ ticking' = FALSE /\ last' = NoMessage
    BY <1>4 DEF OfferTimer
  <2>2. N \in Nat /\ DOMAIN offered = 1..N /\ \A i \in 1..N : offered[i] \in Service
    BY DEF StorageInv
  <2>3. entries = [i \in 1..N |-> OfferEntry("OfferService", offered[i])]
    BY <2>2
  <2>4. \A i \in 1..N : OwnEntry(entries[i])
    <3>1. \A s \in Service : OwnEntry(OfferEntry("OfferService", s))
      BY OfferEntryIsOwn DEF Kind
    <3> QED
      BY <2>2, <2>3, <3>1
  <2> HIDE DEF entries, N
  <2>5. OwnEntries(entries)
    <3>1. DOMAIN entries = 1..N /\ \A i \in 1..N : entries[i] \in EntryType
      BY <2>3, <2>4 DEF OwnEntry
    <3>2. entries \in [1..N -> EntryType]
      BY <2>3, <3>1
    <3>3. entries \in Seq(EntryType)
      BY <2>2, <3>2
    <3> QED
      BY <2>4, <3>1, <3>3 DEF OwnEntries
  <2>6. StorageInv'
    BY <2>1 DEF StorageInv
  <2>7. MessageInv'
    <3>1. CASE SendEntries("multicast", entries)
      BY <1>0, <2>5, <3>1, OwnIsLast
    <3>2. CASE last' = NoMessage
      BY <3>2 DEF MessageInv
    <3> QED
      BY <2>1, <3>1, <3>2
  <2> QED
    BY <2>6, <2>7
<1>5. ASSUME NEW s \in Remote, NEW ttl \in Ttl, NEW kind \in {"Subscribe", "StopSubscribe"},
             NEW endpoints \in SetToSeqs(Client) \cup {<<e>> : e \in Client},
             SubscriptionEntry(kind, s, ttl, endpoints)
      PROVE  StorageInv' /\ MessageInv'
  <2> DEFINE e == Entry(kind, s, ttl, endpoints)
  <2>1. SendEntries("unicast", <<e>>) /\ UNCHANGED <<offered, ticking>>
    BY <1>5 DEF SubscriptionEntry
  <2>2. endpoints \in Seq(Endpoint) /\ IsInjective(endpoints)
    BY ClientEndpoints
  <2>3. OwnEntry(e)
    <3>1. e \in EntryType
      BY <2>2, NumberAssumption, RemoteAssumption DEF EntryType, Entry, Kind
    <3>2. e.endpoints = endpoints /\ e.kind # "OfferService"
      BY DEF Entry
    <3> HIDE DEF e
    <3> QED
      BY <2>2, <3>1, <3>2 DEF OwnEntry
  <2> HIDE DEF e
  <2>4. OwnEntries(<<e>>)
    BY <2>3, OneEntry
  <2>5. StorageInv'
    BY <2>1 DEF StorageInv
  <2> QED
    BY <1>0, <2>1, <2>4, <2>5, OwnIsLast
<1>6. ASSUME NEW s \in Remote, NEW ttl \in Ttl, Acknowledge(s, ttl)
      PROVE  StorageInv' /\ MessageInv'
  <2> DEFINE entry   == Entry("Ack", s, ttl, <<>>)
             h       == handler["unicast"]
             session == Updated(h).session
  <2>1. /\ last'.kind = "own" /\ last'.channel = "unicast" /\ last'.entries = <<entry>>
        /\ last'.message = AckMessage(entry, session, h.reboot) /\ UNCHANGED <<offered, ticking>>
    BY <1>6 DEF Acknowledge, Send
  <2>2. session \in Nat \ {0}
    <3>1. session \in 1..MaxSession
      BY <1>0, UpdatedType DEF SessionInv
    <3> HIDE DEF session
    <3> QED
      BY <3>1, NumberAssumption
  <2>3. s \in Service /\ ttl \in 1..MaxTtl
    BY NumberAssumption, RemoteAssumption
  <2> DEFINE flag == h.reboot
  <2> HIDE DEF session, flag
  <2>4. LastIsAck'
    BY <2>1, <2>2, <2>3 DEF LastIsAck, LastIs, flag
  <2>5. StorageInv'
    BY <2>1 DEF StorageInv
  <2> QED
    BY <2>4, <2>5 DEF MessageInv
<1>7. ASSUME NEW channel \in Channel, NEW entries \in PeerEntries, PeerSends(channel, entries)
      PROVE  StorageInv' /\ MessageInv'
  <2>1. /\ last'.kind = "peer" /\ last'.channel = channel /\ last'.entries = entries
        /\ last'.message = PeerMessage(entries, 1) /\ UNCHANGED <<offered, ticking>>
    BY <1>7 DEF PeerSends
  <2>2. LastIs("peer", channel, entries, PeerMessage(entries, 1))'
    BY <2>1 DEF LastIs
  <2>3. LastIsPeers'
    BY <2>2 DEF LastIsPeers
  <2> QED
    BY <2>1, <2>3 DEF StorageInv, MessageInv
<1>8. CASE Restart
  <2>1. offered' = <<>> /\ ticking' = FALSE /\ last' = NoMessage
    BY <1>8 DEF Restart
  <2>2. <<>> \in Seq(Service) /\ IsInjective(<<>>)
    BY DEF IsInjective
  <2> QED
    BY <2>1, <2>2 DEF StorageInv, MessageInv
<1>9. CASE UNCHANGED vars
  <2>1. UNCHANGED <<offered, ticking, last>>
    BY <1>9 DEF vars
  <2>2. StorageInv'
    BY <2>1 DEF StorageInv
  <2>3. MessageInv'
    BY <2>1 DEF MessageInv, LastIsOwn, LastIsAck, LastIsPeers, LastIs
  <2> QED
    BY <2>2, <2>3
<1> QED
  BY <1>1, <1>2, <1>3, <1>4, <1>5, <1>6, <1>7, <1>8, <1>9 DEF Next

-----------------------------------------------------------------------------
(* The theorems about messages.                                            *)

\* No message has been sent at the start.
LEMMA InitTells == Init => StorageInv /\ MessageInv
<1> SUFFICES ASSUME Init PROVE StorageInv /\ MessageInv
  OBVIOUS
<1>1. offered = <<>> /\ ticking = FALSE /\ last = NoMessage
  BY DEF Init
<1>2. <<>> \in Seq(Service) /\ IsInjective(<<>>)
  BY DEF IsInjective
<1> QED
  BY <1>1, <1>2 DEF StorageInv, MessageInv

\* The invariant of the messages, on top of that of the handlers.
LEMMA MessagesHold ==
  Spec => [](SessionInv /\ StorageInv /\ MessageInv)
<1>1. Init => SessionInv /\ NoFalseReboot /\ SessionIsNotZero
  BY InitHolds
<1>2. SessionInv /\ NoFalseReboot /\ SessionIsNotZero /\ [Next]_vars
        => SessionInv' /\ NoFalseReboot' /\ SessionIsNotZero'
  BY StepKeeps
<1>3. Init => StorageInv /\ MessageInv
  BY InitTells
<1>4. SessionInv /\ StorageInv /\ MessageInv /\ [Next]_vars => StorageInv' /\ MessageInv'
  BY MessageStep
<1> QED
  BY <1>1, <1>2, <1>3, <1>4, PTL DEF Spec

\* The state is well typed for any number of services, endpoints and peers: no
\* service is offered twice by an offer timer, which goes through its storage
\* as a list, and the flag of a handler is set exactly while it counted nothing.
THEOREM TypesAreRight == Spec => []TypeOK
<1>1. SessionInv /\ StorageInv => TypeOK
  BY DEF SessionInv, StorageInv, TypeOK, Handler, Knowledge
<1> QED
  BY <1>1, MessagesHold, PTL

\* No message of the daemon, and none of the peers' layout, is one that its
\* receivers discard or read in part, whatever its entries and options are: the
\* lengths of serialize_sd_message and those that to_buffer computes by hand are
\* those of the bytes, and the walk over the options ends with the last one.
THEOREM AllAreAccepted == Spec => []MessagesAreAccepted
<1>1. MessageInv => MessagesAreAccepted
  BY MessagesAreGood
<1> QED
  BY <1>1, MessagesHold, PTL

\* Whoever receives a message hears what its sender meant, and nothing else, for
\* any entries and any sharing of options that leaves those of an entry side by
\* side: the one index and count that serialize_sd_message gives an entry, and
\* the two runs of another ECU, lead the readers to the entry's own endpoints.
THEOREM MeaningSurvives == Spec => []MeaningIsKept
<1>1. MessageInv => MeaningIsKept
  BY MessagesAreGood
<1> QED
  BY <1>1, MessagesHold, PTL
=============================================================================
