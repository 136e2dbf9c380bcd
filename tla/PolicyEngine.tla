---------------------------- MODULE PolicyEngine ----------------------------
(***************************************************************************)
(* The policy engine (policy.py): which one action follows from the        *)
(* findings a scan reported, the decisions (rules) of a policy, the phase  *)
(* and the tenant.  It keeps no state; this module holds its operators,    *)
(* shared by the stream inspector and by the gateway.                      *)
(*                                                                         *)
(*   finding   [detector, severity, confidence, start, end]                *)
(*   rule      [on, tenants, detector, min_confidence, max_severity,       *)
(*              action]                                                    *)
(*   decision  [action, hits, findings]                                    *)
(*                                                                         *)
(* Severities are the ranks of patterns.SEVERITY_RANK (info 0 .. critical  *)
(* 4) and confidences are integers.  Labels, reasons and identifiers only  *)
(* word messages and are left out.                                         *)
(***************************************************************************)
EXTENDS Integers, Sequences

Phases == {"request", "response", "stream"}

Actions == {"allow", "block", "redact", "flag"}

FailModes == {"fail-open", "fail-closed"}

-----------------------------------------------------------------------------

(* The wildcard and the tenant's own id admit a tenant to a rule. *)
TenantsMatch(allowed, tenant) == "*" \in allowed \/ tenant \in allowed

(* One rule is considered in a phase only for its own phase or "both". *)
Applies(rule, phase, tenant) ==
  /\ rule.on \in {"both", phase}
  /\ TenantsMatch(rule.tenants, tenant)

(* The findings one rule claims: its detector, at least its confidence and *)
(* at most its severity.                                                   *)
Matching(rule, findings) ==
  {f \in findings : /\ f.detector = rule.detector
                    /\ f.confidence >= rule.min_confidence
                    /\ f.severity <= rule.max_severity}

(* The hits: the rules that apply and claim a finding, each with its place *)
(* among the rules (the gateway takes the text of the first).              *)
Match(rules, phase, findings, tenant) ==
  {[at |-> i, rule |-> rules[i], findings |-> Matching(rules[i], findings)] :
     i \in {j \in DOMAIN rules : /\ Applies(rules[j], phase, tenant)
                                 /\ Matching(rules[j], findings) # {}}}

HitActions(hits) == {h.rule.action : h \in hits}

(* The findings claimed by the hits of one action. *)
ClaimedBy(hits, action) ==
  UNION {h.findings : h \in {g \in hits : g.rule.action = action}}

(* block over redact over flag over allow *)
Precedence == [allow |-> 0, flag |-> 1, redact |-> 2, block |-> 3]

Strongest(acts) == CHOOSE a \in acts : \A b \in acts : Precedence[b] <= Precedence[a]

-----------------------------------------------------------------------------

Allow == [action |-> "allow", hits |-> {}, findings |-> {}]

(* Mutant: what is not critical is allowed when no rule names it. *)
UnclaimedIfCritical(findings, fail_mode) ==
  IF \A f \in findings : f.severity < 4 THEN Allow
  ELSE [action   |-> IF fail_mode = "fail-closed" THEN "block" ELSE "flag",
        hits     |-> {},
        findings |-> findings]

(* What is decided when no rule hit: findings nobody claimed fall to the   *)
(* fail mode, and a text without findings is allowed.                      *)
Unclaimed(findings, fail_mode) ==
  IF findings = {} THEN Allow
  ELSE [action   |-> IF fail_mode = "fail-closed" THEN "block" ELSE "flag",
        hits     |-> {},
        findings |-> findings]

(* PolicyEngine.evaluate: the strongest action of the hits; the fail mode  *)
(* only when there is no hit of an action the engine knows.  The schema    *)
(* checks the actions of the policy "default" alone.                       *)
Evaluate(rules, phase, findings, tenant, fail_mode) ==
  LET hits   == Match(rules, phase, findings, tenant)
      known  == HitActions(hits) \cap Actions
      action == Strongest(known)
  IN  CASE known = {} -> Unclaimed(findings, fail_mode)
        [] known # {} /\ action = "allow" -> Allow
        [] known # {} /\ action # "allow" ->
             [action   |-> action,
              hits     |-> hits,
              findings |-> IF action = "redact" THEN ClaimedBy(hits, "redact") ELSE findings]
=============================================================================
