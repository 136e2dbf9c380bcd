--------------------------- MODULE BodyInspection ---------------------------
(***************************************************************************)
(* The inspection of a request or of a response that is not streamed       *)
(* (gateway.py _inspect_request and _inspect_response): the text fields of *)
(* the body are scanned one after another, the policy decides over all     *)
(* that was found, and the fields are redacted (Redaction).                *)
(*                                                                         *)
(* Paths, parsing and serialisation are left out: a path leads back to its *)
(* field.  A body that is one JSON string has an empty path and is left    *)
(* out with them: putting its text back raises, and nothing is forwarded.  *)
(***************************************************************************)
EXTENDS PolicyEngine, Redaction

CONSTANTS
  NumFields,  \* the text fields of a body, in the order of extract_chunks
  Bodies,     \* what may be found: a set of findings for each field
  Policies,   \* the rules that may be in force, each with its replace_with
  Tenant,
  FailMode

Fields == 1..NumFields

ASSUME InspectionAssumption ==
  /\ NumFields \in Nat
  /\ \A b \in Bodies : \A i \in Fields : \A f \in b[i] :
       f.start \in 0..(Width - 1) /\ f.end \in (f.start + 1)..Width
  /\ \A p \in Policies :
       /\ DOMAIN p \subseteq Nat
       /\ \A j \in DOMAIN p : p[j].replace_with \in Int \ 0..(Width - 1)
  /\ FailMode \in FailModes

VARIABLES
  phase,     \* "request" or "response"
  body,      \* what a scan finds in each field
  rules,     \* the policy of the route
  next,      \* the field to be scanned next
  found,     \* per_chunk and all_findings: what was found in each field
  decision,
  output,    \* the fields as they are forwarded
  status     \* "scanning", "forwarded", "blocked" or "failed"

vars == <<phase, body, rules, next, found, decision, output, status>>

-----------------------------------------------------------------------------

(* The rules whose replace_with may be taken: those that redact, for a     *)
(* request, and every hit, for a response.                                 *)
Candidates(d) ==
  {h \in d.hits : phase = "response" \/ h.rule.action = "redact"}

(* _replacement_for: the first of them with a detector found in the field; *)
(* its text replaces everything found there.                               *)
Fitting(d, findings) ==
  {h \in Candidates(d) : \E f \in findings : f.detector = h.rule.detector}

Replacement(d, findings) ==
  IF Fitting(d, findings) = {} THEN NoText
  ELSE (CHOOSE h \in Fitting(d, findings) :
          \A g \in Fitting(d, findings) : h.at <= g.at).rule.replace_with

(* A field with findings is rewritten when there is a text to put there. *)
Rewritten(d, findings) ==
  LET token == Replacement(d, findings)
  IN  IF findings = {} \/ token = NoText THEN Original ELSE RedactSpans(token, findings)

(* Mutant: what is flagged is rewritten too. *)
ApplyRedactionToFlagged(d, per_field) ==
  [i \in Fields |-> IF d.action # "allow" THEN Rewritten(d, per_field[i]) ELSE Original]

(* apply_redaction: each rewritten field goes back to its own path. *)
ApplyRedaction(d, per_field) ==
  [i \in Fields |-> IF d.action = "redact" THEN Rewritten(d, per_field[i]) ELSE Original]

AllFindings(per_field) == UNION {per_field[i] : i \in Fields}

-----------------------------------------------------------------------------

Init ==
  /\ phase \in {"request", "response"}
  /\ body \in Bodies
  /\ rules \in Policies
  /\ next = 1
  /\ found = [i \in Fields |-> {}]
  /\ decision = Allow
  /\ output = [i \in Fields |-> <<>>]
  /\ status = "scanning"

(* A body that is not JSON is forwarded as it is, unseen. *)
NotJson ==
  /\ status = "scanning"
  /\ next = 1
  /\ status' = "forwarded"
  /\ output' = [i \in Fields |-> Original]
  /\ next' = 0
  /\ UNCHANGED <<phase, body, rules, found, decision>>

(* Mutant: the findings of the first field are kept for every path. *)
ScanFieldStale ==
  /\ status = "scanning"
  /\ next \in Fields
  /\ found' = [found EXCEPT ![next] = body[1]]
  /\ next' = next + 1
  /\ UNCHANGED <<phase, body, rules, decision, output, status>>

(* One field is scanned, judges included. *)
ScanField ==
  /\ status = "scanning"
  /\ next \in Fields
  /\ found' = [found EXCEPT ![next] = body[next]]
  /\ next' = next + 1
  /\ UNCHANGED <<phase, body, rules, decision, output, status>>

(* Mutant: the decision is made over the field scanned last. *)
ConcludeOnLast ==
  /\ status = "scanning"
  /\ next = NumFields + 1
  /\ LET d == Evaluate(rules, phase, found[NumFields], Tenant, FailMode)
     IN  /\ decision' = d
         /\ status' = IF d.action = "block" THEN "blocked" ELSE "forwarded"
         /\ output' = ApplyRedaction(d, found)
  /\ UNCHANGED <<phase, body, rules, next, found>>

(* When all fields are scanned: the decision, over all findings together,  *)
(* and what becomes of the body.                                           *)
Conclude ==
  /\ status = "scanning"
  /\ next = NumFields + 1
  /\ LET d == Evaluate(rules, phase, AllFindings(found), Tenant, FailMode)
     IN  /\ decision' = d
         /\ status' = IF d.action = "block" THEN "blocked" ELSE "forwarded"
         /\ output' = ApplyRedaction(d, found)
  /\ UNCHANGED <<phase, body, rules, next, found>>

(* A judge raises: the exception ends the inspection, nothing is forwarded *)
(* from here.                                                              *)
ScanFails ==
  /\ status = "scanning"
  /\ next \in Fields
  /\ status' = "failed"
  /\ UNCHANGED <<phase, body, rules, next, found, decision, output>>

Next == NotJson \/ ScanField \/ Conclude \/ ScanFails

Spec == Init /\ [][Next]_vars

-----------------------------------------------------------------------------
(* Properties *)

(* The types of the inspection's state. *)
TypeOK ==
  /\ next \in 0..(NumFields + 1)
  /\ \A i \in Fields : found[i] \in {{}, body[i]}
  /\ decision.action \in Actions
  /\ status \in {"scanning", "forwarded", "blocked", "failed"}
  /\ \A i \in Fields : Len(output[i]) <= Width + Len(Regions(body[i]))

(* Inspected == the body was JSON and has been forwarded. *)
Inspected == status = "forwarded" /\ next # 0

Claimed(i, action) == ClaimedBy(Match(rules, phase, body[i], Tenant), action)

(* A body that holds anything a rule blocks, in whichever of its fields,   *)
(* is not forwarded, whatever the other fields and rules say.              *)
BlockedNeverForwarded ==
  Inspected => \A i \in Fields : Claimed(i, "block") = {}

(* No character that a rule redacts is forwarded, in whichever field and   *)
(* however the findings of several detectors overlap, as long as every     *)
(* rule has a text to put in its place.                                    *)
ClaimedNeverForwarded ==
  (Inspected /\ \A j \in DOMAIN rules : rules[j].replace_with # NoText)
    => \A i \in Fields : \A f \in Claimed(i, "redact") :
         \A p \in DOMAIN output[i] : output[i][p] \notin f.start .. (f.end - 1)

(* A rule whose text may stand in a field: its detector found something    *)
(* there, whether or not the rule matches that.                            *)
Offers(j, i) ==
  /\ Applies(rules[j], phase, Tenant)
  /\ phase = "response" \/ rules[j].action = "redact"
  /\ \E f \in body[i] : f.detector = rules[j].detector

(* A field is forwarded as it came, or with one rule's text in the place   *)
(* of all that was found in it, matched by a rule or not, and of nothing   *)
(* else, however the findings overlap; and it is replaced only if a rule   *)
(* that redacts in this phase matches something in some field.             *)
(* docs/policy.md says that "matched spans" are replaced "per detector":   *)
(* that the others of the field go as well, under the same text, is what   *)
(* the code does.                                                          *)
RedactionExact ==
  status = "forwarded" =>
    \A i \in Fields :
      \/ output[i] = Original
      \/ /\ \E j \in DOMAIN rules : /\ rules[j].action = "redact"
                                    /\ Applies(rules[j], phase, Tenant)
                                    /\ Matching(rules[j], AllFindings(body)) # {}
         /\ \E j \in DOMAIN rules :
              /\ Offers(j, i)
              /\ output[i] = Reference(LAMBDA p : rules[j].replace_with, body[i])

(* The facade, which has its own copy of the algorithm, raises for a text   *)
(* with a finding it blocks, and otherwise replaces what the gateway would, *)
(* with the words for a credit card where, however they overlap or touch,   *)
(* one of the findings is a card's.                                         *)
FacadeExact ==
  \A i \in Fields :
    SanitizePrompt(body[i]) =
      IF \E f \in body[i] : IsBlock(f) THEN Intercepted
      ELSE Reference(LAMBDA p : FacadeToken(HasCard(body[i], p)), body[i])

(* In fail-closed mode a body that holds anything goes on only if a rule    *)
(* whose action the engine knows took one of its findings: what no rule     *)
(* claims, or only a rule with a misspelt action, is blocked, as long as it *)
(* comes alone, in whichever fields.                                        *)
UnmatchedAloneBlocks ==
  (Inspected /\ FailMode = "fail-closed" /\ AllFindings(body) # {})
    => \E i \in Fields :
         HitActions(Match(rules, phase, body[i], Tenant)) \cap Actions # {}

=============================================================================
