----------------------------- MODULE MCSdMessages -----------------------------
(* Small instances of SdMessages for TLC. *)
EXTENDS SdMessages, TLC

CONSTANTS s1, s2, s3

Udp(port) == [protocol |-> "udp", port |-> port]
Tcp(port) == [protocol |-> "tcp", port |-> port]

\* Two services share an address, with different protocols; one has its own.
ThreeEndpoints == (s1 :> <<Udp(1), Tcp(1)>>) @@ (s2 :> <<Tcp(1)>>) @@ (s3 :> <<Udp(2)>>)

OfferTimes == (s1 :> 2) @@ (s2 :> 1) @@ (s3 :> 1)

BothProtocols == {Udp(3), Tcp(3)}

\* Offers with their options in two runs, a stop; subscriptions and answers.
PeerMessages == {
  <<Entry("FindService", s1, 1, <<>>), Entry("OfferService", s1, 1, <<Udp(1), Tcp(1)>>),
    Entry("OfferService", s3, 2, <<Udp(2)>>)>>,
  <<Entry("StopOfferService", s1, 1, <<Udp(1), Tcp(1)>>), Entry("OfferService", s2, 1, <<Tcp(1)>>)>>,
  <<Entry("Subscribe", s1, 2, <<Udp(3), Tcp(3)>>), Entry("StopSubscribe", s2, 2, <<Tcp(3)>>)>>,
  <<Entry("Ack", s1, 1, <<>>), Entry("Nack", s2, 1, <<>>)>>}
===============================================================================
