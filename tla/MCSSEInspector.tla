--------------------------- MODULE MCSSEInspector ---------------------------
(***************************************************************************)
(* Instances of SSEInspector for TLC: a policy that blocks "inj", redacts  *)
(* "pii", flags "ip" and blocks what the judge finds; the rule for "odd"   *)
(* is one for another tenant, so that nothing matches it here.             *)
(***************************************************************************)
EXTENDS SSEInspector

Rule(detector, on, action) ==
  [on |-> on, tenants |-> {"*"}, detector |-> detector, min_confidence |-> 7,
   max_severity |-> 4, action |-> action]

MCRules ==
  << Rule("pii", "both", "redact"), Rule("inj", "stream", "block"),
     Rule("ip", "both", "flag"), Rule("judge", "stream", "block"),
     [Rule("odd", "stream", "block") EXCEPT !.tenants = {"t2"}] >>

F(detector, start, end) ==
  [detector |-> detector, severity |-> 3, confidence |-> 8, start |-> start, end |-> end]

(* Nothing, one finding, two that touch or overlap or follow each other. *)
MCTexts ==
  { {},
    {F("pii", 0, 2)},
    {F("pii", 1, 3)},
    {F("inj", 1, 4)},
    {F("pii", 0, 1), F("pii", 3, 5)},
    {F("pii", 0, 2), F("ip", 4, 6)},
    {F("inj", 0, 2), F("pii", 1, 5)},
    {F("ip", 0, 1), F("inj", 2, 6)},
    {F("odd", 1, 2)},
    {F("judge", 2, 4)} }

(* One finding only, for the run that ends in a counterexample. *)
BlockTexts == {{F("inj", 1, 3)}}
=============================================================================
