---------------------------- MODULE HttpExchange ----------------------------
(***************************************************************************)
(* What a client of the proxy is promised: a request that has arrived gets *)
(* one response at most, and none only while it is pending or if the       *)
(* server is shut down under it.                                           *)
(***************************************************************************)
EXTENDS Naturals

CONSTANT Clients   \* the exchanges, one request each

VARIABLES
  phase,  \* "idle", "pending", "answered" or "cut"
  heads   \* responses started towards the client

exchange == <<phase, heads>>

Idle == phase = [c \in Clients |-> "idle"] /\ heads = [c \in Clients |-> 0]

Arrive(c) ==
  /\ phase[c] = "idle"
  /\ phase' = [phase EXCEPT ![c] = "pending"]
  /\ UNCHANGED heads

(* The answer may be given in the step in which the request arrives. *)
Respond(c) ==
  /\ phase[c] \in {"idle", "pending"}
  /\ phase' = [phase EXCEPT ![c] = "answered"]
  /\ heads' = [heads EXCEPT ![c] = @ + 1]

(* One shutdown cuts whatever is pending. *)
Cut ==
  /\ phase' = [c \in Clients |-> IF phase[c] = "pending" THEN "cut" ELSE phase[c]]
  /\ UNCHANGED heads

Exchange == Cut \/ \E c \in Clients : Arrive(c) \/ Respond(c)

OneResponse == Idle /\ [][Exchange]_exchange
=============================================================================
