---------------------------- MODULE RemoteService ----------------------------
(***************************************************************************)
(* What a connection to a service promises its caller: requests are taken  *)
(* up in the order they were made and at most once each, an answer belongs *)
(* to a request that was taken up, and answers arrive in the order they    *)
(* were given and at most once each.  When the connection breaks, what is  *)
(* under way in either direction is lost, and nothing else is.             *)
(***************************************************************************)
EXTENDS Sequences, FiniteSets

CONSTANT Request

VARIABLES
  requests,  \* on the way to the service
  taken,     \* taken up and not yet answered
  answers,   \* on the way back, each named by its request
  received   \* the answers that the caller got

vars == <<requests, taken, answers, received>>

Init == requests = <<>> /\ taken = {} /\ answers = <<>> /\ received = <<>>

Ask(r) ==
  /\ requests' = Append(requests, r)
  /\ UNCHANGED <<taken, answers, received>>

\* A request that nobody serves is taken up by nobody.
Take ==
  /\ requests # <<>>
  /\ requests' = Tail(requests)
  /\ taken' \in {taken, taken \cup {Head(requests)}}
  /\ UNCHANGED <<answers, received>>

\* An answer given while there is no connection is lost.
Answer(r) ==
  /\ r \in taken
  /\ taken' = taken \ {r}
  /\ answers' \in {answers, Append(answers, r)}
  /\ UNCHANGED <<requests, received>>

Receive ==
  /\ answers # <<>>
  /\ answers' = Tail(answers)
  /\ received' = Append(received, Head(answers))
  /\ UNCHANGED <<requests, taken>>

\* The connection breaks, or what is behind it, or both.
Break ==
  /\ requests' \in {requests, <<>>}
  /\ answers' \in {answers, <<>>}
  /\ taken' \subseteq taken
  /\ UNCHANGED received

Next ==
  \/ \E r \in Request : Ask(r) \/ Answer(r)
  \/ Take
  \/ Receive
  \/ Break

Spec == Init /\ [][Next]_vars
=============================================================================
