---------------------------- MODULE MCFindService ----------------------------
(* Small instances of FindService for TLC. *)
EXTENDS FindService, TLC

CONSTANTS t1, t2, s1, s2

\* One caller looks for any instance, another for one.
TwoFinds == (t1 :> {s1, s2}) @@ (t2 :> {s2})
==============================================================================
