----------------------------- MODULE MCPublishing -----------------------------
(* Small instances of Publishing for TLC. *)
EXTENDS Publishing, TLC

CONSTANTS a1, a2, g1, g2, p1, p2

\* The successor of an application offers one eventgroup more.
GroupsOfTwo == (a1 :> {g1}) @@ (a2 :> {g1, g2})

\* One peer subscribes to both eventgroups, the other to the one that only the
\* successor has.
WantedByTwo == {<<g1, p1>>, <<g2, p1>>, <<g2, p2>>}

\* The first asks for two seconds each time, the other for one, two or for ever as it
\* likes.
Lifetimes == (p1 :> {2}) @@ (p2 :> {1, 2, Forever})
===============================================================================
