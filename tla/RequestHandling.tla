-------------------------- MODULE RequestHandling ---------------------------
(***************************************************************************)
(* The life of a request in the gateway: the middleware around every       *)
(* handler (gateway.py _middleware), the proxy handler from authentication *)
(* to forwarding (_proxy_handler), the context that log lines take their   *)
(* correlation fields from (log.py), and the counter of requests; under    *)
(* any of the configurations with which the gateway starts.                *)
(*                                                                         *)
(* All requests are tasks of one thread and interleave where they await:   *)
(* while the body is read, the quota is checked, a judge is asked and an   *)
(* upstream is tried.  What the quota, the inspection and the upstreams    *)
(* decide is left open here; QuotaStore, BodyInspection and Forwarding     *)
(* say it.                                                                 *)
(***************************************************************************)
EXTENDS Authentication

CONSTANTS
  Requests,
  Nobody,       \* None, the request_id of no request
  Credentials,  \* what may be presented
  Files         \* the configuration files

ASSUME HandlingAssumption ==
  /\ Nobody \notin Requests
  /\ Credentials \subseteq Credential
  /\ \A f \in Files : \A i \in DOMAIN Get(f, "tenants", <<>>) :
       f.tenants[i].id \in Names

VARIABLES
  config,     \* the configuration in force
  presented,  \* the credential and the tenant header of each request
  pc,         \* where its handler is
  tenant,     \* the tenant it is handled for
  context,    \* log._CTX, a threading.local: one for all the tasks
  status,     \* the status its client got, 0 for none
  counted,    \* history: the status labels it got in requests_total
  spent,      \* history: the requests a quota has counted
  lines       \* history: by whom a log line was written, and whose id it has

(* The configurations of the files with which the gateway starts. *)
InForce == {Build(f) : f \in {g \in Files : Starts(g)}}

vars == <<config, presented, pc, tenant, context, status, counted, spent, lines>>

(* Where a handler awaits. *)
Awaiting == {"reading", "checking", "inspecting", "forwarding"}

Context == [request_id : Requests \cup {Nobody}, tenant : Names]

(* Mutant: the tenant is cleared to None, which is no name. *)
ClearedToNone == [request_id |-> Nobody, tenant |-> Nobody]

(* clear_request_context() *)
Cleared == [request_id |-> Nobody, tenant |-> NoTenant]

-----------------------------------------------------------------------------
(* The ways out, through except and finally of the middleware *)

(* The counter is called with the status the middleware knows of.          *)
Finish(r, answer, known, ctx) ==
  /\ pc' = [pc EXCEPT ![r] = "ended"]
  /\ status' = [status EXCEPT ![r] = answer]
  /\ counted' = [counted EXCEPT ![r] = Append(@, known)]
  /\ context' = ctx

(* Mutant: only a request that succeeds clears the context. *)
EndUncleared(r, answer) ==
  Finish(r, answer, answer, IF answer = 200 THEN Cleared ELSE context)

(* A response, or an error with a status of its own. *)
End(r, answer) == Finish(r, answer, answer, Cleared)

(* A line is formatted with the context as it is now. *)
Logged(r, ctx) == lines' = lines \cup {[by |-> r, carries |-> ctx.request_id]}

(* Mutant: the middleware does not note the status of the error. *)
CrashUncounted(r, ctx) == Logged(r, ctx) /\ Finish(r, 500, 200, Cleared)

(* Any other exception is logged and becomes a 500, in either fail mode.   *)
Crash(r, ctx) == Logged(r, ctx) /\ End(r, 500)

-----------------------------------------------------------------------------

Init ==
  /\ config \in InForce
  /\ presented \in [Requests -> [credential : Credentials, header : Names]]
  /\ \A r \in Requests : Presentable(config, presented[r].credential)
  /\ pc = [r \in Requests |-> "new"]
  /\ tenant = [r \in Requests |-> NoTenant]
  /\ context = Cleared
  /\ status = [r \in Requests |-> 0]
  /\ counted = [r \in Requests |-> <<>>]
  /\ spent = {}
  /\ lines = {}

Admission(r) == Gate(config, presented[r].credential, presented[r].header)

(* A path or a method that no route has: the router's HTTPException passes *)
(* through the middleware, which has noted no status.                      *)
NoRoute(r) ==
  /\ pc[r] = "new"
  /\ \E answer \in {404, 405} : Finish(r, answer, 200, Cleared)
  /\ UNCHANGED <<config, presented, tenant, spent, lines>>

(* The gateway's own pages: nothing is awaited, readiness may be refused,  *)
(* and the telemetry asks for credentials.                                 *)
OwnPage(r) ==
  /\ pc[r] = "new"
  /\ \/ \E answer \in {200, 503} : End(r, answer) /\ UNCHANGED lines
     \/ Admission(r).result = "refused" /\ End(r, 401) /\ UNCHANGED lines
     \/ Admission(r).result = "raised" /\ Crash(r, [request_id |-> r, tenant |-> NoTenant])
  /\ UNCHANGED <<config, presented, tenant, spent>>

(* Up to the first await: the context is set, the request authenticated    *)
(* and, when it is let in with no more than max_bytes announced, its       *)
(* context set again and its body asked for.                               *)
Begin(r) ==
  /\ pc[r] = "new"
  /\ LET gate == Admission(r)
         own  == [request_id |-> r, tenant |-> gate.tenant]
     IN  \/ /\ gate.result = "refused"
            /\ End(r, 401)
            /\ UNCHANGED <<tenant, lines>>
         \/ /\ gate.result = "raised"
            /\ Crash(r, own)
            /\ UNCHANGED tenant
         \/ /\ gate.result \in {"accepted", "anonymous"}
            /\ tenant' = [tenant EXCEPT ![r] = gate.tenant]
            /\ \/ End(r, 413)
               \/ /\ pc' = [pc EXCEPT ![r] = "reading"]
                  /\ context' = own
                  /\ UNCHANGED <<status, counted>>
            /\ UNCHANGED lines
  /\ UNCHANGED <<config, presented, spent>>

(* _tenant_quota and rpm: who is asked for a quota. *)
HasQuota(r) == TenantQuota(config, tenant[r]) > 0

Continue(r, place) ==
  /\ pc' = [pc EXCEPT ![r] = place]
  /\ UNCHANGED <<context, status, counted, lines>>

(* Mutant: the quota is checked before the size of the body. *)
BodyReadCounting(r) ==
  /\ pc[r] = "reading"
  /\ spent' = spent \cup (IF HasQuota(r) THEN {r} ELSE {})
  /\ \/ End(r, 413) /\ UNCHANGED lines
     \/ Continue(r, "inspecting")
  /\ UNCHANGED <<config, presented, tenant>>

(* read() returns, with the whole body or the part of it that has arrived; *)
(* that is too large or not.                                               *)
BodyRead(r) ==
  /\ pc[r] = "reading"
  /\ \/ End(r, 413) /\ UNCHANGED lines
     \/ Continue(r, IF HasQuota(r) THEN "checking" ELSE "inspecting")
  /\ UNCHANGED <<config, presented, tenant, spent>>

(* quotas.check() counts the request, whatever its answer. *)
QuotaChecked(r) ==
  /\ pc[r] = "checking"
  /\ spent' = spent \cup {r}
  /\ \/ Continue(r, "inspecting")
     \/ End(r, 429) /\ UNCHANGED lines
  /\ UNCHANGED <<config, presented, tenant>>

(* The inspection blocks it or lets it through. *)
Inspected(r) ==
  /\ pc[r] = "inspecting"
  /\ \/ End(r, 403) /\ UNCHANGED lines
     \/ Continue(r, "forwarding")
  /\ UNCHANGED <<config, presented, tenant, spent>>

(* An attempt fails, which is logged, and another one is made. *)
AttemptFails(r) ==
  /\ pc[r] = "forwarding"
  /\ Logged(r, context)
  /\ UNCHANGED <<config, presented, pc, tenant, context, status, counted, spent>>

(* Forwarding ends: an upstream's response, for which 200 stands, a        *)
(* response that is blocked, or no upstream.  The client of a stream that  *)
(* broke has got a 200 already.                                            *)
Forwarded(r) ==
  /\ pc[r] = "forwarding"
  /\ \E known \in {200, 403, 502}, answer \in {200, 403, 502} :
       answer \in {200, known} /\ Finish(r, answer, known, Cleared)
  /\ UNCHANGED <<config, presented, tenant, spent, lines>>

(* The client's connection, the store or a judge fails under the handler,  *)
(* or the body turns out to be no JSON object; the loop over the upstreams *)
(* handles its own exceptions.                                             *)
Raises(r) ==
  /\ pc[r] \in Awaiting \ {"forwarding"}
  /\ Crash(r, context)
  /\ \/ UNCHANGED spent
     \/ pc[r] = "checking" /\ spent' = spent \cup {r}
  /\ UNCHANGED <<config, presented, tenant>>

(* The shutdown cancels a handler: no except clause takes it, and finally  *)
(* counts the status it began with.  A stream's client has got a 200.      *)
Cancelled(r) ==
  /\ pc[r] \in Awaiting
  /\ \/ Finish(r, 0, 200, Cleared)
     \/ pc[r] = "forwarding" /\ Finish(r, 200, 200, Cleared)
  /\ \/ UNCHANGED spent
     \/ pc[r] = "checking" /\ spent' = spent \cup {r}
  /\ UNCHANGED <<config, presented, tenant, lines>>

Handle(r) ==
  \/ NoRoute(r) \/ OwnPage(r)
  \/ Begin(r) \/ BodyRead(r) \/ QuotaChecked(r) \/ Inspected(r)
  \/ AttemptFails(r) \/ Forwarded(r) \/ Raises(r) \/ Cancelled(r)

Next == \E r \in Requests : Handle(r)

Spec == Init /\ [][Next]_vars

-----------------------------------------------------------------------------
(* Properties *)

(* What the gateway itself answers when it refuses or fails. *)
Refusals == {401, 403, 413, 429, 500, 502, 503}

Answers == {0, 200, 404, 405} \cup Refusals

(* The types of the handlers' state. *)
TypeOK ==
  /\ config.auth.mode \in Modes /\ TenantIds(config) \subseteq Names
  /\ presented \in [Requests -> [credential : Credentials, header : Names]]
  /\ pc \in [Requests -> Awaiting \cup {"new", "ended"}]
  /\ tenant \in [Requests -> Names]
  /\ context \in Context
  /\ status \in [Requests -> Answers]
  /\ counted \in [Requests -> Seq(Answers)]
  /\ spent \subseteq Requests
  /\ lines \subseteq [by : Requests, carries : Requests \cup {Nobody}]

(* The context that all the tasks share names a request that is being      *)
(* handled, together with its own tenant, or nobody: no request leaves its *)
(* identity behind, however it ends and whoever else is under way.         *)
ContextOfLiveRequest ==
  context # Cleared =>
    /\ context.request_id \in Requests
    /\ pc[context.request_id] \in Awaiting
    /\ context.tenant = tenant[context.request_id]

(* A request that got past the gate is handled for the tenant its          *)
(* credential leads to, if that leads to one with a name, whatever its     *)
(* header says; for a tenant whose id is empty the header counts.  And no  *)
(* request gets past the gate by the header alone, except without          *)
(* authentication or with a valid token that has no tenant.                *)
TenantOfCredential ==
  \A r \in Requests :
    LET c == presented[r].credential
    IN  (pc[r] \in Awaiting /\ config.auth.mode # "none") =>
          /\ c.check = "valid"
          /\ c.tenant \in TenantIds(config) \ {NoTenant} => tenant[r] = c.tenant
          /\ c.tenant \notin TenantIds(config) =>
               config.auth.mode = "oidc" /\ c.tenant = NoTenant

(* A quota is spent by those only who were let in under its tenant's name  *)
(* and whose body was accepted: neither a refused credential nor too large *)
(* a body uses it up; and no limited request is inspected or forwarded     *)
(* without having been counted.                                            *)
QuotaSpentByAdmitted ==
  \A r \in Requests :
    /\ r \in spent => (HasQuota(r) /\ pc[r] # "reading" /\ status[r] \notin {401, 413})
    /\ (pc[r] \in {"inspecting", "forwarding"} /\ HasQuota(r)) => r \in spent

(* However a request ends, with an exception, cancelled or in the middle   *)
(* of a stream, it is counted once; and if its client is told that the     *)
(* gateway refused it or failed, it is counted as that.  (Not every        *)
(* request is counted under its client's status: a 404 is counted as 200.) *)
CountedOnce ==
  \A r \in Requests :
    IF pc[r] = "ended"
      THEN /\ Len(counted[r]) = 1
           /\ status[r] \in Refusals => counted[r] = <<status[r]>>
      ELSE counted[r] = <<>>

-----------------------------------------------------------------------------
(* What the documents say and the code does not do *)

(* log.py: "Every log line carries request_id, tenant, route and event";   *)
(* docs/observability.md: "A correlation request_id is set per request".   *)
(* A line that is written for a request carries that request's id.         *)
LinesCarryOwnRequest == \A l \in lines : l.carries = l.by
=============================================================================
