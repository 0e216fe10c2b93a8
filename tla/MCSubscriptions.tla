--------------------------- MODULE MCSubscriptions ---------------------------
(* Small instances of Subscriptions for TLC. *)
EXTENDS Subscriptions, TLC

CONSTANTS c1, c2, s1, g1, g2, p1, e1, udp, tcp

Req(g, p, protocols, ttl) ==
  [service |-> s1, group |-> g, port |-> p, protocols |-> protocols, ttl |-> ttl]

\* Requests for one eventgroup on one endpoint that disagree on the protocol:
\* the offer below serves the first and has nothing in common with the second.
MixedRequests == {Req(g1, p1, {udp}, 1), Req(g1, p1, {tcp}, 1)}

\* Two eventgroups with different times to live.
TimingRequests == {Req(g1, p1, {udp}, 1), Req(g2, p1, {udp}, 2)}

UdpOffers == {[service |-> s1, server |-> e1, protocols |-> {udp}, ttl |-> 1]}

ClientSymmetry == Permutations(Client)
==============================================================================
