----------------------- MODULE RequestHandlingProofs ------------------------
(***************************************************************************)
(* Proofs about RequestHandling, for every set of requests, tenants and    *)
(* credentials.                                                            *)
(***************************************************************************)
EXTENDS RequestHandling, TLAPS

(* The configuration stays one with which the gateway starts, and what was *)
(* presented is what can be presented under it.                            *)
Configured ==
  /\ config \in InForce
  /\ \A r \in Requests : Presentable(config, presented[r].credential)

(* A request that has not begun has spent nothing, no client is answered   *)
(* before its handler ends, and only who has a quota waits for its check.  *)
InOrder ==
  \A r \in Requests :
    /\ pc[r] = "new" => (r \notin spent /\ status[r] = 0)
    /\ pc[r] \in Awaiting => status[r] = 0
    /\ pc[r] = "checking" => HasQuota(r)

(* The inductive invariant. *)
IInv ==
  /\ TypeOK /\ Configured /\ InOrder
  /\ ContextOfLiveRequest /\ TenantOfCredential /\ QuotaSpentByAdmitted /\ CountedOnce

-----------------------------------------------------------------------------

(* What the checks of a file are for: the mode is one of the four, and no  *)
(* key leads to a tenant that is not configured.                           *)
LEMMA ChecksSuffice ==
  ASSUME NEW cf \in InForce
  PROVE  /\ cf.auth.mode \in Modes
         /\ TenantIds(cf) \subseteq Names
         /\ cf.auth.mode = "api-key" => KeyTenants(cf) \subseteq TenantIds(cf)
  <1>1. PICK f \in Files : Starts(f) /\ cf = Build(f)
    BY DEF InForce
  <1>2. cf.auth.mode \in Modes
    <2>1. cf.auth.mode = Get(Get(f, "auth", Nothing), "mode", "none")
      BY <1>1 DEF Build, BuildAuth
    <2>2. CASE "auth" \in DOMAIN f
      BY <1>1, <2>1, <2>2 DEF Starts, Valid, ValidAuth, Get
    <2>3. CASE "auth" \notin DOMAIN f
      BY <2>1, <2>3 DEF Get, Nothing, Modes
    <2> QED
      BY <2>2, <2>3
  <1>3. TenantIds(cf) \subseteq Names
    <2> DEFINE list == Get(f, "tenants", <<>>)
    <2>1. cf.tenants = [i \in DOMAIN list |-> BuildTenant(list[i])]
      BY <1>1 DEF Build, Each
    <2>2. \A i \in DOMAIN list : cf.tenants[i].id = list[i].id
      BY <2>1 DEF BuildTenant
    <2>3. \A i \in DOMAIN list : list[i].id \in Names
      <3>1. CASE "tenants" \in DOMAIN f
        BY <3>1, HandlingAssumption DEF Get
      <3>2. CASE "tenants" \notin DOMAIN f
        <4>1. list = << >>
          BY <3>2 DEF Get
        <4> QED
          BY <4>1
      <3> QED
        BY <3>1, <3>2
    <2> HIDE DEF list
    <2> QED
      BY <2>1, <2>2, <2>3 DEF TenantIds, Ids
  <1>4. ASSUME cf.auth.mode = "api-key" PROVE KeyTenants(cf) \subseteq TenantIds(cf)
    <2>1. \A i \in DOMAIN cf.auth.api_keys : cf.auth.api_keys[i].tenant \in Ids(cf.tenants)
      BY <1>1, <1>4 DEF Starts, SemanticCheck, KeyResolves
    <2> QED
      BY <2>1 DEF KeyTenants, TenantIds
  <1> QED
    BY <1>2, <1>3, <1>4

(* The gate lets in whom it should, under a name that is a name. *)
LEMMA GateAdmits ==
  ASSUME NEW cf \in InForce, NEW c \in Credential, NEW header \in Names, Presentable(cf, c)
  PROVE  /\ Gate(cf, c, header).result \in {"accepted", "anonymous", "refused", "raised"}
         /\ Gate(cf, c, header).tenant \in Names
         /\ (cf.auth.mode # "none" /\ Gate(cf, c, header).result \in {"accepted", "anonymous"}) =>
              /\ c.check = "valid"
              /\ c.tenant \in TenantIds(cf) \ {NoTenant} =>
                   Gate(cf, c, header).tenant = c.tenant
              /\ c.tenant \notin TenantIds(cf) =>
                   (cf.auth.mode = "oidc" /\ c.tenant = NoTenant)
  <1> DEFINE m == cf.auth.mode
             ids == TenantIds(cf)
             x == Authenticate(cf, c, header)
  <1>1. /\ m \in Modes /\ ids \subseteq Names
        /\ (m = "api-key" /\ c.check = "valid") => c.tenant \in ids
    BY ChecksSuffice DEF Presentable
  <1>2. /\ x \in [result : {"accepted", "anonymous", "refused", "raised"}, tenant : Names]
        /\ (m # "none" /\ x.result \in {"accepted", "anonymous"}) =>
             /\ c.check = "valid" /\ x.tenant = c.tenant
             /\ c.tenant \notin ids => (m = "oidc" /\ c.tenant = NoTenant)
    <2> USE <1>1, AuthenticationAssumption
    <2> HIDE DEF ids
    <2>1. CASE m = "none"
      BY <2>1 DEF Authenticate, Anonymous, TenantForRequest
    <2>2. CASE m = "api-key"
      BY <2>2 DEF Authenticate, AuthenticateApiKey, Accepted, Refused, Credential
    <2>3. CASE m = "oidc"
      BY <2>3 DEF Authenticate, AuthenticateOidc, Accepted, Refused, Raised, Credential, ids
    <2>4. CASE m = "mtls"
      BY <2>4 DEF Authenticate, AuthenticateMtls, Accepted, Refused, Raised, Credential, ids
    <2> QED
      BY <2>1, <2>2, <2>3, <2>4 DEF Modes
  <1>3. \/ Gate(cf, c, header) = x
        \/ x.tenant = NoTenant /\ Gate(cf, c, header) = [x EXCEPT !.tenant = header]
    BY DEF Gate
  <1> HIDE DEF x
  <1> QED
    BY <1>1, <1>2, <1>3

-----------------------------------------------------------------------------
(* The ways out and the ways on *)

(* A request that ends, after having been counted never before, is counted *)
(* once and leaves the context cleared.                                    *)
LEMMA FinishKeeps ==
  ASSUME IInv, NEW r \in Requests, pc[r] # "ended",
         NEW answer \in Answers, NEW known \in Answers,
         Finish(r, answer, known, Cleared),
         answer \in Refusals => known = answer,
         UNCHANGED <<config, presented>>
  PROVE  /\ pc' \in [Requests -> Awaiting \cup {"new", "ended"}]
         /\ status' \in [Requests -> Answers]
         /\ counted' \in [Requests -> Seq(Answers)]
         /\ context' \in Context
         /\ CountedOnce' /\ ContextOfLiveRequest'
  <1>1. counted[r] = <<>>
    BY DEF IInv, CountedOnce
  <1>2. /\ pc' \in [Requests -> Awaiting \cup {"new", "ended"}]
        /\ status' \in [Requests -> Answers]
    BY DEF IInv, TypeOK, Finish
  <1>3. Append(counted[r], known) = <<known>> /\ <<known>> \in Seq(Answers)
    BY <1>1
  <1>4. counted' = [counted EXCEPT ![r] = <<known>>]
    BY <1>3 DEF Finish
  <1>5. counted' \in [Requests -> Seq(Answers)]
    BY <1>3, <1>4 DEF IInv, TypeOK
  <1>6. context' = Cleared /\ Cleared \in Context
    BY AuthenticationAssumption DEF Finish, Cleared, Context
  <1>7. ContextOfLiveRequest'
    BY <1>6 DEF ContextOfLiveRequest, Cleared
  <1>8. CountedOnce'
    <2> SUFFICES ASSUME NEW q \in Requests
                 PROVE  IF pc'[q] = "ended"
                          THEN /\ Len(counted'[q]) = 1
                               /\ status'[q] \in Refusals => counted'[q] = <<status'[q]>>
                          ELSE counted'[q] = <<>>
      BY DEF CountedOnce
    <2>1. CASE q = r
      <3>1. counted'[r] = <<known>> /\ status'[r] = answer /\ pc'[r] = "ended"
        BY <1>4 DEF IInv, TypeOK, Finish
      <3> QED
        BY <2>1, <3>1
    <2>2. CASE q # r
      <3>1. pc'[q] = pc[q] /\ status'[q] = status[q] /\ counted'[q] = counted[q]
        BY <1>4, <2>2 DEF IInv, TypeOK, Finish
      <3> QED
        BY <3>1 DEF IInv, CountedOnce
    <2> QED
      BY <2>1, <2>2
  <1> QED
    BY <1>2, <1>5, <1>6, <1>7, <1>8

(* A way out keeps the whole invariant, if a request that was counted by a *)
(* quota has that quota, and its client is not told that it was not let in *)
(* or that its body is too large.                                          *)
LEMMA LeavingKeeps ==
  ASSUME IInv, NEW r \in Requests, pc[r] # "ended",
         NEW answer \in Answers, NEW known \in Answers,
         Finish(r, answer, known, Cleared),
         answer \in Refusals => known = answer,
         NEW t \in Names, tenant' = [tenant EXCEPT ![r] = t],
         spent' = spent \/ spent' = spent \cup {r},
         r \in spent' => (TenantQuota(config, t) > 0 /\ answer \notin {401, 413}),
         lines' \subseteq [by : Requests, carries : Requests \cup {Nobody}],
         UNCHANGED <<config, presented>>
  PROVE  IInv'
  <1>1. /\ pc' \in [Requests -> Awaiting \cup {"new", "ended"}]
        /\ status' \in [Requests -> Answers]
        /\ counted' \in [Requests -> Seq(Answers)]
        /\ context' \in Context
        /\ CountedOnce' /\ ContextOfLiveRequest'
    BY FinishKeeps
  <1>2. /\ pc'[r] = "ended" /\ status'[r] = answer /\ tenant'[r] = t
        /\ \A q \in Requests \ {r} :
             /\ pc'[q] = pc[q] /\ status'[q] = status[q] /\ tenant'[q] = tenant[q]
             /\ q \in spent' <=> q \in spent
    BY DEF Finish, IInv, TypeOK
  <1>3. TypeOK'
    <2>1. tenant' \in [Requests -> Names] /\ spent' \subseteq Requests
      BY DEF IInv, TypeOK
    <2>2. /\ config'.auth.mode \in Modes /\ (TenantIds(config))' \subseteq Names
          /\ presented' \in [Requests -> [credential : Credentials, header : Names]]
      BY DEF IInv, TypeOK
    <2> QED
      BY <1>1, <2>1, <2>2 DEF TypeOK
  <1>4. Configured'
    BY DEF IInv, Configured
  <1>5. InOrder'
    BY <1>2 DEF IInv, InOrder, Awaiting, HasQuota
  <1>6. TenantOfCredential'
    BY <1>2 DEF IInv, TenantOfCredential, Awaiting
  <1>7. QuotaSpentByAdmitted'
    BY <1>2 DEF IInv, QuotaSpentByAdmitted, HasQuota
  <1> QED
    BY <1>1, <1>3, <1>4, <1>5, <1>6, <1>7 DEF IInv

(* So does a step from one await to the next, if a request that goes on to *)
(* be inspected has been counted by its quota.                             *)
LEMMA ContinuingKeeps ==
  ASSUME IInv, NEW r \in Requests, pc[r] \in Awaiting,
         NEW place \in {"checking", "inspecting", "forwarding"},
         Continue(r, place),
         \/ spent' = spent
         \/ spent' = spent \cup {r} /\ HasQuota(r),
         place = "checking" => HasQuota(r),
         (place # "checking" /\ HasQuota(r)) => r \in spent',
         UNCHANGED <<config, presented, tenant>>
  PROVE  IInv'
  <1>1. /\ pc'[r] = place /\ pc'[r] \in Awaiting
        /\ \A q \in Requests \ {r} : pc'[q] = pc[q] /\ (q \in spent' <=> q \in spent)
    BY DEF Continue, IInv, TypeOK, Awaiting
  <1>2. UNCHANGED <<context, status, counted, lines, config, presented, tenant>>
    BY DEF Continue
  <1>3. TypeOK'
    BY <1>2 DEF Continue, IInv, TypeOK, Awaiting
  <1>4. Configured'
    BY <1>2 DEF IInv, Configured
  <1>5. InOrder'
    BY <1>1, <1>2 DEF IInv, InOrder, Awaiting, HasQuota
  <1>6. ContextOfLiveRequest'
    <2>1. (context # Cleared)' <=> context # Cleared
      BY <1>2 DEF Cleared
    <2> QED
      BY <1>1, <1>2, <2>1 DEF IInv, ContextOfLiveRequest
  <1>7. TenantOfCredential'
    BY <1>1, <1>2 DEF IInv, TenantOfCredential
  <1>8. QuotaSpentByAdmitted'
    <2>1. status[r] = 0
      BY DEF IInv, InOrder
    <2>2. \A q \in Requests : HasQuota(q)' <=> HasQuota(q)
      BY <1>2 DEF HasQuota
    <2> QED
      BY <1>1, <1>2, <2>1, <2>2 DEF IInv, QuotaSpentByAdmitted
  <1>9. CountedOnce'
    BY <1>1, <1>2 DEF IInv, CountedOnce, Awaiting
  <1> QED
    BY <1>3, <1>4, <1>5, <1>6, <1>7, <1>8, <1>9 DEF IInv

(* A line is a line, whosever id the context gives it. *)
LEMMA LoggedLines ==
  ASSUME IInv, NEW r \in Requests, NEW ctx, ctx.request_id \in Requests \cup {Nobody},
         Logged(r, ctx)
  PROVE  lines' \subseteq [by : Requests, carries : Requests \cup {Nobody}]
  BY DEF Logged, IInv, TypeOK

-----------------------------------------------------------------------------
(* The steps *)

(* A request that no route has, or that is for one of the own pages. *)
LEMMA AnsweredAtOnceKeeps ==
  ASSUME IInv, NEW r \in Requests, NoRoute(r) \/ OwnPage(r)
  PROVE  IInv'
  <1>1. /\ pc[r] = "new" /\ r \notin spent
        /\ UNCHANGED <<config, presented, tenant, spent>>
    BY DEF NoRoute, OwnPage, IInv, InOrder
  <1>2. /\ tenant[r] \in Names /\ tenant = [tenant EXCEPT ![r] = tenant[r]]
        /\ lines \subseteq [by : Requests, carries : Requests \cup {Nobody}]
    BY DEF IInv, TypeOK
  <1>3. {200, 401, 404, 405, 500, 503} \subseteq Answers /\ 404 \notin Refusals /\ 405 \notin Refusals
    BY DEF Answers, Refusals
  <1>4. ASSUME NEW answer \in Answers, NEW known \in Answers, Finish(r, answer, known, Cleared),
               answer \in Refusals => known = answer,
               lines' \subseteq [by : Requests, carries : Requests \cup {Nobody}]
        PROVE  IInv'
    BY <1>1, <1>2, <1>4, LeavingKeeps
  <1>5. CASE NoRoute(r)
    BY <1>2, <1>3, <1>4, <1>5 DEF NoRoute
  <1>6. CASE \E answer \in {200, 401, 503} : End(r, answer) /\ UNCHANGED lines
    BY <1>2, <1>3, <1>4, <1>6 DEF End
  <1>7. CASE Crash(r, [request_id |-> r, tenant |-> NoTenant])
    <2>1. lines' \subseteq [by : Requests, carries : Requests \cup {Nobody}]
      BY <1>7, LoggedLines DEF Crash
    <2> QED
      BY <1>3, <1>4, <1>7, <2>1 DEF Crash, End
  <1> QED
    BY <1>5, <1>6, <1>7 DEF OwnPage

LEMMA BeginKeeps ==
  ASSUME IInv, NEW r \in Requests, Begin(r)
  PROVE  IInv'
  <1> DEFINE gate == Admission(r)
             own  == [request_id |-> r, tenant |-> gate.tenant]
  <1>1. /\ pc[r] = "new" /\ r \notin spent /\ status[r] = 0
        /\ UNCHANGED <<config, presented, spent>>
    BY DEF Begin, IInv, InOrder
  <1>2. /\ gate.result \in {"accepted", "anonymous", "refused", "raised"}
        /\ gate.tenant \in Names
        /\ (config.auth.mode # "none" /\ gate.result \in {"accepted", "anonymous"}) =>
             /\ presented[r].credential.check = "valid"
             /\ presented[r].credential.tenant \in TenantIds(config) \ {NoTenant} =>
                  gate.tenant = presented[r].credential.tenant
             /\ presented[r].credential.tenant \notin TenantIds(config) =>
                  (config.auth.mode = "oidc" /\ presented[r].credential.tenant = NoTenant)
    <2>1. /\ config \in InForce /\ presented[r].credential \in Credential
          /\ presented[r].header \in Names /\ Presentable(config, presented[r].credential)
      BY HandlingAssumption DEF IInv, TypeOK, Configured
    <2> QED
      BY <2>1, GateAdmits DEF Admission
  <1> HIDE DEF gate
  <1>3. /\ tenant[r] \in Names /\ tenant = [tenant EXCEPT ![r] = tenant[r]]
        /\ lines \subseteq [by : Requests, carries : Requests \cup {Nobody}]
    BY DEF IInv, TypeOK
  <1>4. {401, 413, 500} \subseteq Answers
    BY DEF Answers, Refusals
  <1>5. CASE End(r, 401) /\ UNCHANGED <<tenant, lines>>
    BY <1>1, <1>3, <1>4, <1>5, LeavingKeeps DEF End
  <1>6. CASE Crash(r, own) /\ UNCHANGED tenant
    <2>1. lines' \subseteq [by : Requests, carries : Requests \cup {Nobody}]
      BY <1>6, LoggedLines DEF Crash
    <2> QED
      BY <1>1, <1>3, <1>4, <1>6, <2>1, LeavingKeeps DEF Crash, End
  <1>7. CASE End(r, 413) /\ tenant' = [tenant EXCEPT ![r] = gate.tenant] /\ UNCHANGED lines
    <2>1. PICK t \in Names : t = gate.tenant
      BY <1>2
    <2>2. Finish(r, 413, 413, Cleared) /\ tenant' = [tenant EXCEPT ![r] = t]
      BY <1>7, <2>1 DEF End
    <2>3. /\ UNCHANGED <<config, presented>> /\ spent' = spent /\ r \notin spent'
          /\ lines' \subseteq [by : Requests, carries : Requests \cup {Nobody}]
      BY <1>1, <1>3, <1>7
    <2>4. 413 \in Answers /\ pc[r] # "ended"
      BY <1>1, <1>4
    <2> QED
      BY <2>2, <2>3, <2>4, LeavingKeeps, ZenonT(60)
  <1>8. CASE /\ gate.result \in {"accepted", "anonymous"}
             /\ tenant' = [tenant EXCEPT ![r] = gate.tenant]
             /\ pc' = [pc EXCEPT ![r] = "reading"]
             /\ context' = own
             /\ UNCHANGED <<status, counted, lines>>
    <2>1. /\ pc'[r] = "reading" /\ tenant'[r] = gate.tenant
          /\ \A q \in Requests \ {r} : pc'[q] = pc[q] /\ tenant'[q] = tenant[q]
      BY <1>8 DEF IInv, TypeOK
    <2>2. TypeOK'
      BY <1>1, <1>2, <1>8 DEF IInv, TypeOK, Awaiting, Context
    <2>3. Configured'
      BY <1>1 DEF IInv, Configured
    <2>4. InOrder'
      BY <1>1, <1>8, <2>1 DEF IInv, InOrder, Awaiting, HasQuota
    <2>5. ContextOfLiveRequest'
      BY <1>8, <2>1 DEF ContextOfLiveRequest, Awaiting
    <2>6. TenantOfCredential'
      BY <1>1, <1>2, <1>8, <2>1 DEF IInv, TenantOfCredential
    <2>7. QuotaSpentByAdmitted'
      BY <1>1, <1>8, <2>1 DEF IInv, QuotaSpentByAdmitted, HasQuota
    <2>8. CountedOnce'
      BY <1>1, <1>8, <2>1 DEF IInv, CountedOnce
    <2> QED
      BY <2>2, <2>3, <2>4, <2>5, <2>6, <2>7, <2>8 DEF IInv
  <1> QED
    BY <1>5, <1>6, <1>7, <1>8 DEF Begin, gate

(* The steps of a handler that is under way. *)
LEMMA UnderwayKeeps ==
  ASSUME IInv, NEW r \in Requests,
         BodyRead(r) \/ QuotaChecked(r) \/ Inspected(r) \/ Forwarded(r)
  PROVE  IInv'
  <1>1. /\ tenant[r] \in Names /\ tenant = [tenant EXCEPT ![r] = tenant[r]]
        /\ lines \subseteq [by : Requests, carries : Requests \cup {Nobody}]
    BY DEF IInv, TypeOK
  <1>2. {200, 403, 413, 429, 502} \subseteq Answers
    BY DEF Answers, Refusals
  <1>3. r \in spent => (TenantQuota(config, tenant[r]) > 0 /\ pc[r] # "reading")
    BY DEF IInv, QuotaSpentByAdmitted, HasQuota
  <1>4. pc[r] = "checking" => HasQuota(r)
    BY DEF IInv, InOrder
  <1>5. CASE BodyRead(r)
    <2>1. pc[r] = "reading" /\ UNCHANGED <<config, presented, tenant, spent>> /\ r \notin spent
      BY <1>3, <1>5 DEF BodyRead
    <2>2. CASE End(r, 413) /\ UNCHANGED lines
      BY <1>1, <1>2, <2>1, <2>2, LeavingKeeps DEF End
    <2>3. CASE HasQuota(r) /\ Continue(r, "checking")
      BY <2>1, <2>3, ContinuingKeeps DEF Awaiting
    <2>4. CASE ~HasQuota(r) /\ Continue(r, "inspecting")
      BY <2>1, <2>4, ContinuingKeeps DEF Awaiting
    <2> QED
      BY <1>5, <2>2, <2>3, <2>4 DEF BodyRead
  <1>6. CASE QuotaChecked(r)
    <2>1. /\ pc[r] = "checking" /\ UNCHANGED <<config, presented, tenant>>
          /\ spent' = spent \cup {r} /\ HasQuota(r)
      BY <1>4, <1>6 DEF QuotaChecked
    <2>2. CASE End(r, 429) /\ UNCHANGED lines
      BY <1>1, <1>2, <2>1, <2>2, LeavingKeeps DEF End, HasQuota
    <2>3. CASE Continue(r, "inspecting")
      BY <2>1, <2>3, ContinuingKeeps DEF Awaiting
    <2> QED
      BY <1>6, <2>2, <2>3 DEF QuotaChecked
  <1>7. CASE Inspected(r)
    <2>1. pc[r] = "inspecting" /\ UNCHANGED <<config, presented, tenant, spent>>
      BY <1>7 DEF Inspected
    <2>2. CASE End(r, 403) /\ UNCHANGED lines
      BY <1>1, <1>2, <1>3, <2>1, <2>2, LeavingKeeps DEF End
    <2>3. CASE Continue(r, "forwarding")
      <3>1. HasQuota(r) => r \in spent
        BY <2>1 DEF IInv, QuotaSpentByAdmitted
      <3> QED
        BY <2>1, <2>3, <3>1, ContinuingKeeps DEF Awaiting
    <2> QED
      BY <1>7, <2>2, <2>3 DEF Inspected
  <1>8. CASE Forwarded(r)
    <2>1. /\ pc[r] = "forwarding" /\ UNCHANGED <<config, presented, tenant, spent, lines>>
      BY <1>8 DEF Forwarded
    <2>2. PICK known \in {200, 403, 502}, answer \in {200, 403, 502} :
            answer \in {200, known} /\ Finish(r, answer, known, Cleared)
      BY <1>8 DEF Forwarded
    <2>3. known \in Answers /\ answer \in Answers /\ answer \notin {401, 413}
      BY <1>2
    <2>4. answer \in Refusals => known = answer
      BY <2>2 DEF Refusals
    <2> QED
      BY <1>1, <1>3, <2>1, <2>2, <2>3, <2>4, LeavingKeeps
  <1> QED
    BY <1>5, <1>6, <1>7, <1>8

(* An attempt that fails, an exception, and the shutdown. *)
LEMMA DisturbedKeeps ==
  ASSUME IInv, NEW r \in Requests, AttemptFails(r) \/ Raises(r) \/ Cancelled(r)
  PROVE  IInv'
  <1>1. /\ tenant[r] \in Names /\ tenant = [tenant EXCEPT ![r] = tenant[r]]
        /\ lines \subseteq [by : Requests, carries : Requests \cup {Nobody}]
        /\ context.request_id \in Requests \cup {Nobody}
    BY DEF IInv, TypeOK, Context
  <1>2. {0, 200, 500} \subseteq Answers /\ 0 \notin Refusals /\ 200 \notin Refusals
    BY DEF Answers, Refusals
  <1>3. (r \in spent \/ pc[r] = "checking") => TenantQuota(config, tenant[r]) > 0
    BY DEF IInv, QuotaSpentByAdmitted, InOrder, HasQuota
  <1>4. CASE AttemptFails(r)
    <2>1. lines' \subseteq [by : Requests, carries : Requests \cup {Nobody}]
      BY <1>1, <1>4, LoggedLines DEF AttemptFails
    <2>2. UNCHANGED <<config, presented, pc, tenant, context, status, counted, spent>>
      BY <1>4 DEF AttemptFails
    <2> QED
      BY <2>1, <2>2 DEF IInv, TypeOK, Configured, InOrder, ContextOfLiveRequest,
                        TenantOfCredential, QuotaSpentByAdmitted, CountedOnce, HasQuota
  <1>5. CASE Raises(r)
    <2>1. /\ pc[r] \in Awaiting /\ Crash(r, context) /\ UNCHANGED <<config, presented, tenant>>
          /\ spent' = spent \/ (pc[r] = "checking" /\ spent' = spent \cup {r})
      BY <1>5 DEF Raises
    <2>2. lines' \subseteq [by : Requests, carries : Requests \cup {Nobody}]
      BY <1>1, <2>1, LoggedLines DEF Crash
    <2> QED
      BY <1>1, <1>2, <1>3, <2>1, <2>2, LeavingKeeps DEF Crash, End, Awaiting
  <1>6. CASE Cancelled(r)
    <2>1. /\ pc[r] \in Awaiting
          /\ UNCHANGED <<config, presented, tenant, lines>>
          /\ spent' = spent \/ (pc[r] = "checking" /\ spent' = spent \cup {r})
      BY <1>6 DEF Cancelled
    <2>2. PICK answer \in {0, 200} : Finish(r, answer, 200, Cleared)
      BY <1>6 DEF Cancelled
    <2> QED
      BY <1>1, <1>2, <1>3, <2>1, <2>2, LeavingKeeps DEF Awaiting
  <1> QED
    BY <1>4, <1>5, <1>6

-----------------------------------------------------------------------------
(* The theorems *)

(* The inductive invariant holds throughout. *)
THEOREM Invariance == Spec => []IInv
  <1>1. Init => IInv
    <2> SUFFICES ASSUME Init PROVE IInv
      OBVIOUS
    <2>1. TypeOK
      BY ChecksSuffice, AuthenticationAssumption
      DEF Init, TypeOK, Cleared, Context, Answers
    <2> QED
      BY <2>1 DEF Init, IInv, Configured, InOrder, ContextOfLiveRequest,
                  TenantOfCredential, QuotaSpentByAdmitted, CountedOnce, Awaiting
  <1>2. IInv /\ [Next]_vars => IInv'
    <2> SUFFICES ASSUME IInv, [Next]_vars PROVE IInv'
      OBVIOUS
    <2>1. ASSUME NEW r \in Requests, Handle(r) PROVE IInv'
      BY <2>1, AnsweredAtOnceKeeps, BeginKeeps, UnderwayKeeps, DisturbedKeeps DEF Handle
    <2>2. CASE UNCHANGED vars
      BY <2>2 DEF vars, IInv, TypeOK, Configured, InOrder, ContextOfLiveRequest,
                  TenantOfCredential, QuotaSpentByAdmitted, CountedOnce, HasQuota, Cleared
    <2> QED
      BY <2>1, <2>2 DEF Next
  <1> QED
    BY <1>1, <1>2, PTL DEF Spec

(* The types of the handlers' state. *)
THEOREM TypeCorrect == Spec => []TypeOK
  <1>1. IInv => TypeOK
    BY DEF IInv
  <1> QED
    BY Invariance, <1>1, PTL

(* The shared context names a live request and its tenant, or nobody. *)
THEOREM ContextCorrect == Spec => []ContextOfLiveRequest
  <1>1. IInv => ContextOfLiveRequest
    BY DEF IInv
  <1> QED
    BY Invariance, <1>1, PTL

(* A credential's tenant is not replaced by a header's. *)
THEOREM TenantCorrect == Spec => []TenantOfCredential
  <1>1. IInv => TenantOfCredential
    BY DEF IInv
  <1> QED
    BY Invariance, <1>1, PTL

(* Quotas are spent by admitted requests, and by all that are limited. *)
THEOREM QuotaCorrect == Spec => []QuotaSpentByAdmitted
  <1>1. IInv => QuotaSpentByAdmitted
    BY DEF IInv
  <1> QED
    BY Invariance, <1>1, PTL

(* Every request is counted once, and as refused or failed if its client   *)
(* is told that it was.                                                    *)
THEOREM CountCorrect == Spec => []CountedOnce
  <1>1. IInv => CountedOnce
    BY DEF IInv
  <1> QED
    BY Invariance, <1>1, PTL
=============================================================================
