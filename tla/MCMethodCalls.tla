---------------------------- MODULE MCMethodCalls ----------------------------
(* Small instances of MethodCalls for TLC. *)
EXTENDS MethodCalls, TLC

CONSTANTS a1, a2, i1, i2, k1, p1, p2

\* Two applications call the same method with the same client id from different
\* ports; the first calls twice and may be restarted once.
TwoApps == (i1 :> a1) @@ (i2 :> a2)
OneKey == (i1 :> k1) @@ (i2 :> k1)
OwnPorts == (i1 :> p1) @@ (i2 :> p2)
CallsOfTwoApps == (i1 :> 2) @@ (i2 :> 1)
RestartsOfTwoApps == (a1 :> 1) @@ (a2 :> 0)

\* One instance with two calls.
OneInstance == i1 :> a1
ItsKey == i1 :> k1
ItsPort == i1 :> p1
TwoCalls == i1 :> 2
NeverRestarted == a1 :> 0
==============================================================================
