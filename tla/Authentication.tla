--------------------------- MODULE Authentication ---------------------------
(***************************************************************************)
(* Authentication (auth.py) and the choice of the tenant a request is      *)
(* handled for (gateway.py _gate_authentication), under a configuration in *)
(* force: pure operators.                                                  *)
(*                                                                         *)
(* A credential is what the mode looks at, a key, a token or a client      *)
(* certificate:                                                            *)
(*   check    "absent", "invalid" or "valid"                               *)
(*   tenant   the tenant its key, its claims or its names lead to          *)
(*   awkward  whether it holds what trips the code up: a token's roles that *)
(*            are no list, a certificate's subject of names of one part    *)
(* The bytes of keys, tokens and certificates are left out.                *)
(***************************************************************************)
EXTENDS Configuration

CONSTANT Names   \* what a header, a claim, a certificate or a tenant's id may be

ASSUME AuthenticationAssumption == NoTenant \in Names

Credential == [check : {"absent", "invalid", "valid"}, tenant : Names, awkward : BOOLEAN]

(* Who presents a key of the table has its tenant; nobody presents a       *)
(* certificate unasked.                                                    *)
Presentable(config, c) ==
  /\ (config.auth.mode = "api-key" /\ c.check = "valid") => c.tenant \in KeyTenants(config)
  /\ (config.auth.mode = "mtls" /\ c.check # "absent") => AsksForCertificates(config)

-----------------------------------------------------------------------------

Accepted(t) == [result |-> "accepted", tenant |-> t]

Anonymous(t) == [result |-> "anonymous", tenant |-> t]

(* UnauthorizedError *)
Refused == [result |-> "refused", tenant |-> NoTenant]

(* Any other exception. *)
Raised == [result |-> "raised", tenant |-> NoTenant]

(* _tenant_for_request *)
TenantForRequest(config, header) ==
  IF header \in TenantIds(config) THEN header ELSE NoTenant

AuthenticateApiKey(c) == IF c.check = "valid" THEN Accepted(c.tenant) ELSE Refused

(* A token without a tenant is accepted, one with a foreign tenant is not; *)
(* then its roles are iterated over.                                       *)
AuthenticateOidc(config, c) ==
  IF /\ KeyServer(config) /\ c.check = "valid"
     /\ c.tenant \in TenantIds(config) \cup {NoTenant}
    THEN IF c.awkward THEN Raised ELSE Accepted(c.tenant)
    ELSE Refused

(* The first alternative name that is a tenant, and none of them is empty; *)
(* an unverified certificate has no names.  When there is none the subject *)
(* is looked at, and unpacking its first name raises: a relative name is a *)
(* tuple of pairs, not a pair.                                             *)
AuthenticateMtls(config, c) ==
  CASE c.check # "valid"           -> Refused
    [] /\ c.check = "valid"
       /\ c.tenant \in TenantIds(config) \ {NoTenant} -> Accepted(c.tenant)
    [] OTHER                       -> IF c.awkward THEN Raised ELSE Refused

Authenticate(config, c, header) ==
  LET mode == config.auth.mode
  IN  CASE mode = "none"    -> Anonymous(TenantForRequest(config, header))
        [] mode = "api-key" -> AuthenticateApiKey(c)
        [] mode = "oidc"    -> AuthenticateOidc(config, c)
        [] mode = "mtls"    -> AuthenticateMtls(config, c)

(* Mutant: the header names the tenant, whatever the credential says. *)
GateHeaderFirst(config, c, header) ==
  LET context == Authenticate(config, c, header)
  IN  IF context.result \in {"accepted", "anonymous"} /\ header # NoTenant
        THEN [context EXCEPT !.tenant = header]
        ELSE context

(* _gate_authentication: a request that is let in without a tenant takes   *)
(* the one its header names, known or not, if tenants are configured.      *)
Gate(config, c, header) ==
  LET context == Authenticate(config, c, header)
  IN  IF /\ context.result \in {"accepted", "anonymous"}
         /\ context.tenant = NoTenant /\ config.tenants # <<>>
        THEN [context EXCEPT !.tenant = header]
        ELSE context
=============================================================================
