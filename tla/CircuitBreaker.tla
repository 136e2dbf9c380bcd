--------------------------- MODULE CircuitBreaker ---------------------------
(***************************************************************************)
(* One upstream's circuit breaker (proxy/pool.py, class CircuitBreaker) as *)
(* operators on its record.  The state is lazy: an open breaker becomes    *)
(* half-open only when somebody reads it after the cooldown.  The sliding  *)
(* window of failure times is written and never read; it is left out.      *)
(***************************************************************************)
EXTENDS Integers

CONSTANTS
  MaxFailures,  \* circuit_breaker.max_failures, at least 1 by the schema
  Cooldown      \* circuit_breaker.cooldown_s, positive by the schema

ASSUME BreakerAssumption ==
  /\ MaxFailures \in Nat \ {0}
  /\ Cooldown \in Nat \ {0}

Breaker == [state : {"closed", "open", "half-open"}, failures : Nat, openedAt : Nat]

NewBreaker == [state |-> "closed", failures |-> 0, openedAt |-> 0]

(* Mutant: the count is kept when the breaker becomes half-open. *)
ReadKeepsCount(b, now) ==
  IF b.state = "open" /\ now - b.openedAt >= Cooldown
    THEN [b EXCEPT !.state = "half-open"]
    ELSE b

(* Mutant: the cooldown takes one unit more. *)
ReadOneLater(b, now) ==
  IF b.state = "open" /\ now - b.openedAt > Cooldown
    THEN [b EXCEPT !.state = "half-open", !.failures = 0]
    ELSE b

(* The breaker after its state property was read at time now. *)
Read(b, now) ==
  IF b.state = "open" /\ now - b.openedAt >= Cooldown
    THEN [b EXCEPT !.state = "half-open", !.failures = 0]
    ELSE b

(* allow(): everything but an open breaker; half-open limits nothing. *)
Allows(b, now) == Read(b, now).state # "open"

(* Mutant: a success takes one failure off the count. *)
SucceedOneLess(b) == [b EXCEPT !.failures = @ - 1, !.state = "closed"]

(* record(ok=True), in whatever state. *)
Succeed(b) == [b EXCEPT !.failures = 0, !.state = "closed"]

(* record(ok=False): the count goes up in every state, only a breaker that *)
(* is not open can open.                                                   *)
FailOnce(b, now) ==
  LET counted == [b EXCEPT !.failures = @ + 1]
  IN  IF b.state # "open" /\ counted.failures >= MaxFailures
        THEN [counted EXCEPT !.state = "open", !.openedAt = now]
        ELSE counted

Record(b, ok, now) == IF ok THEN Succeed(b) ELSE FailOnce(b, now)
=============================================================================
