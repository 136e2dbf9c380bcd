-------------------------- MODULE MCBodyInspection --------------------------
(***************************************************************************)
(* Instances of BodyInspection for TLC: a field with up to three findings  *)
(* of two detectors and any spans, next to a field with at most one, under *)
(* policies that block, redact and flag; one of them misspells an action.  *)
(***************************************************************************)
EXTENDS BodyInspection

(* Replacement texts. *)
PII == 101
KEY == 102
X == 103

Rule(detector, on, action, replace_with) ==
  [on |-> on, tenants |-> {"*"}, detector |-> detector, min_confidence |-> 7,
   max_severity |-> 4, action |-> action, replace_with |-> replace_with]

F(detector, start, end) ==
  [detector |-> detector, severity |-> 3, confidence |-> 8, start |-> start, end |-> end]

AllSpans == {s \in (0..(Width - 1)) \X (1..Width) : s[1] < s[2]}

Found == {F(d, s[1], s[2]) : d \in {"pii", "key"}, s \in AllSpans}

FirstFields == {{a, b, c} : a \in Found, b \in Found, c \in Found} \cup {{}}

SecondFields == {{}, {F("odd", 0, 1)}, {F("pii", 1, 2)}, {F("inj", 0, 2)}}

MCBodies == {<<a, b>> : a \in FirstFields, b \in SecondFields}

MCPolicies ==
  { << Rule("pii", "both", "redact", PII), Rule("key", "both", "redact", KEY),
       Rule("inj", "request", "block", X) >>,
    << Rule("key", "both", "flag", KEY), Rule("pii", "response", "redact", PII),
       Rule("inj", "both", "block", X) >>,
    << Rule("pii", "request", "flag", PII), Rule("inj", "response", "allow", X),
       Rule("key", "both", "block", X) >>,
    << Rule("pii", "both", "redact", NoText), Rule("key", "both", "redact", KEY) >>,
    << Rule("pii", "both", "Block", PII), Rule("key", "request", "redact", KEY) >> }
=============================================================================
