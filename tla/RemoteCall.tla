------------------------------ MODULE RemoteCall ------------------------------
(***************************************************************************)
(* What a method call promises its caller, without the daemon and the      *)
(* network: it waits until it is answered or given up, whichever is first, *)
(* and stays so.  It is answered by the response to a request that this    *)
(* caller made with this session, now or before it was started again.      *)
(* Requests may never be asked, late, after the call was given up too, and *)
(* are never asked for an earlier life.                                    *)
(***************************************************************************)
EXTENDS Naturals

CONSTANTS Caller, Session, NoAnswer

VARIABLES
  state,   \* state[c][s]: of the call of c with session s
  result,  \* result[c][s]: the request whose response answered it
  asked,   \* the requests that a server was asked
  life     \* life[c]: how often c was started again

vars == <<state, result, asked, life>>

Init ==
  /\ state = [c \in Caller |-> [s \in Session |-> "none"]]
  /\ result = [c \in Caller |-> [s \in Session |-> NoAnswer]]
  /\ asked = {}
  /\ life = [c \in Caller |-> 0]

\* Sessions count up.
Make(c, s) ==
  /\ state[c][s] = "none"
  /\ \A t \in Session : t < s => state[c][t] # "none"
  /\ state' = [state EXCEPT ![c][s] = "waiting"]
  /\ UNCHANGED <<result, asked, life>>

Ask(c, s) ==
  /\ state[c][s] # "none"
  /\ asked' = asked \cup {[instance |-> c, life |-> life[c], session |-> s]}
  /\ UNCHANGED <<state, result, life>>

Answer(c, s) ==
  /\ state[c][s] = "waiting"
  /\ state' = [state EXCEPT ![c][s] = "answered"]
  /\ \E r \in asked : /\ r.instance = c /\ r.session = s
                      /\ result' = [result EXCEPT ![c][s] = r]
  /\ UNCHANGED <<asked, life>>

GiveUp(c, s) ==
  /\ state[c][s] = "waiting"
  /\ state' = [state EXCEPT ![c][s] = "given_up"]
  /\ UNCHANGED <<result, asked, life>>

\* The callers of one application start again together.
Restart(callers) ==
  /\ state' = [c \in Caller |-> IF c \in callers THEN [s \in Session |-> "none"] ELSE state[c]]
  /\ result' = [c \in Caller |->
                  IF c \in callers THEN [s \in Session |-> NoAnswer] ELSE result[c]]
  /\ life' = [c \in Caller |-> IF c \in callers THEN life[c] + 1 ELSE life[c]]
  /\ UNCHANGED asked

Next ==
  \/ \E c \in Caller, s \in Session : Make(c, s) \/ Ask(c, s) \/ Answer(c, s) \/ GiveUp(c, s)
  \/ \E callers \in SUBSET Caller : Restart(callers)

Spec == Init /\ [][Next]_vars
=============================================================================
