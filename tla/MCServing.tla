------------------------------ MODULE MCServing ------------------------------
(* Two services of one application at two ports, each over TCP and by          *)
(* datagrams; the first is called over TCP, and the second by a datagram.      *)
EXTENDS Serving

MCService ==
  {[id |-> "id", instance |-> 1, application |-> "app", port |-> 1, protocols |-> {"tcp", "udp"}],
   [id |-> "id", instance |-> 2, application |-> "app", port |-> 2, protocols |-> {"tcp", "udp"}]}

MCRequest ==
  {[id |-> "id", port |-> 1, protocol |-> "tcp", key |-> k] : k \in 1..2}
    \cup {[id |-> "id", port |-> 2, protocol |-> "udp", key |-> 3]}
=============================================================================
