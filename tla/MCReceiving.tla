------------------------------ MODULE MCReceiving ------------------------------
(* The small instances of Subscriptions, with events. *)
EXTENDS MCSubscriptions, Receiving

CONSTANT v1

\* All services are instances of one, with one event in every eventgroup.
OneId == [s \in Service |-> 1]

OneEvent == [g \in Group |-> {v1}]
===============================================================================
