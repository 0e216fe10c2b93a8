----------------------------- MODULE MCEndpoints -----------------------------
(* Small instances of Endpoints for TLC. *)
EXTENDS Endpoints, TLC

CONSTANTS c1, c2, p1, p2, d1, d2, s1, s2, s3, s4, s5

Service(port, protocols, delay) ==
  [port |-> port, protocols |-> protocols, delay |-> delay]

\* Two services on one port, with different offer delays, and a second listener.
SharedPort ==
  {Service(p1, {"udp", "tcp"}, d1), Service(p1, {"udp"}, d2), Service(p2, {"tcp"}, d1)}

Symmetry == Permutations(Client) \cup Permutations(SocketId)
==============================================================================
