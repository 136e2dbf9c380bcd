---------------------------- MODULE Configuration ----------------------------
(***************************************************************************)
(* From a configuration file to the configuration in force (config.py,     *)
(* config.schema.json): what is accepted, what is filled in, and what the  *)
(* gateway, the policy engine and the authenticator look up in it.  Pure   *)
(* operators.                                                              *)
(*                                                                         *)
(* A file is a record of what it says: a key that it leaves out is no      *)
(* field of it.  Lists are sequences.  Of a section only what decides      *)
(* which requests are let in, for which tenant, against which quota, and   *)
(* whether the gateway starts at all is kept; hosts, paths, timeouts and   *)
(* the texts of rules are left out, and so are the environment's values.   *)
(***************************************************************************)
EXTENDS Integers, SequencesExt

CONSTANTS
  Specs,     \* patterns.SPECS: the ids of the detectors that are built in
  NoTenant   \* the empty string; the schema takes it for a tenant's id, too

Modes == {"none", "api-key", "oidc", "mtls"}

(* {}: a section that is left out. *)
Nothing == [k \in {} |-> k]

(* dict.get *)
Get(section, key, default) == IF key \in DOMAIN section THEN section[key] ELSE default

Each(list, Op(_)) == [i \in DOMAIN list |-> Op(list[i])]

Ids(list) == {list[i].id : i \in DOMAIN list}

-----------------------------------------------------------------------------
(* validate_config *)

(* The schema's condition on a mode also holds of a section without one.   *)
MayBe(auth, m) == Get(auth, "mode", m) = m

(* What the modes require; a requirement within a section asks for nothing *)
(* when the section is missing.                                            *)
ValidAuth(auth) ==
  /\ Get(auth, "mode", "none") \in Modes
  /\ MayBe(auth, "api-key") => "api_keys" \in DOMAIN auth
  /\ (MayBe(auth, "oidc") /\ "oidc" \in DOMAIN auth)
       => {"issuer", "audience"} \subseteq DOMAIN auth.oidc
  /\ (MayBe(auth, "mtls") /\ "mtls" \in DOMAIN auth)
       => "ca_cert_file" \in DOMAIN auth.mtls

ValidRoute(route) ==
  {"upstreams", "policy"} \subseteq DOMAIN route /\ route.upstreams # <<>>

Valid(file) ==
  /\ "auth" \in DOMAIN file => ValidAuth(file.auth)
  /\ \A i \in DOMAIN Get(file, "routes", <<>>) : ValidRoute(file.routes[i])

-----------------------------------------------------------------------------
(* build_config *)

Hash(secret) == <<secret>>

NoHash == <<>>

(* The hash of a key that is given takes the place of one that is given. *)
BuildKey(key) ==
  [tenant   |-> key.tenant,
   key_hash |-> IF "key" \in DOMAIN key THEN Hash(key.key) ELSE Get(key, "key_hash", NoHash)]

BuildAuth(auth) ==
  LET oidc == Get(auth, "oidc", Nothing)
  IN  [mode         |-> Get(auth, "mode", "none"),
       api_keys     |-> Each(Get(auth, "api_keys", <<>>), BuildKey),
       issuer       |-> Get(oidc, "issuer", ""),
       audience     |-> Get(oidc, "audience", ""),
       jwks_url     |-> Get(oidc, "jwks_url", ""),
       ca_cert_file |-> Get(Get(auth, "mtls", Nothing), "ca_cert_file", "")]

BuildTenant(tenant) ==
  [id |-> tenant.id, rpm |-> Get(Get(tenant, "quotas", Nothing), "rpm", 0)]

(* The detectors that the decisions of a policy name. *)
BuildPolicy(policy) == {d.detector : d \in ToSet(Get(policy, "decisions", <<>>))}

(* A policy of the file joins the default one, or takes its place. *)
BuildPolicies(policies) ==
  [p \in DOMAIN policies \cup {"default"} |-> BuildPolicy(Get(policies, p, Nothing))]

Build(file) ==
  LET server == Get(file, "server", Nothing)
  IN  [tls       |-> Get(server, "tls", FALSE),
       auth      |-> BuildAuth(Get(file, "auth", Nothing)),
       tenants   |-> Each(Get(file, "tenants", <<>>), BuildTenant),
       upstreams |-> Ids(Get(file, "upstreams", <<>>)),
       routes    |-> Get(file, "routes", <<>>),
       policies  |-> BuildPolicies(Get(file, "policies", Nothing)),
       detectors |-> Get(file, "detectors", <<>>)]

-----------------------------------------------------------------------------
(* _semantic_check *)

RouteResolves(config, route) ==
  /\ ToSet(route.upstreams) \subseteq config.upstreams
  /\ route.policy \in DOMAIN config.policies

(* Mutant: which tenant a key names is not looked at. *)
KeyResolvesAnyhow(config, key) == key.key_hash # NoHash

KeyResolves(config, key) ==
  key.key_hash # NoHash /\ key.tenant \in Ids(config.tenants)

SemanticCheck(config) ==
  /\ \A i \in DOMAIN config.routes : RouteResolves(config, config.routes[i])
  /\ config.auth.mode = "api-key" =>
       /\ config.auth.api_keys # <<>>
       /\ \A i \in DOMAIN config.auth.api_keys : KeyResolves(config, config.auth.api_keys[i])
  /\ config.auth.mode = "oidc" => config.auth.issuer # "" /\ config.auth.audience # ""

(* _build_engine: a judge without an endpoint is left out. *)
Detectors(config) ==
  Specs \cup {d.id : d \in {e \in ToSet(config.detectors) : "endpoint" \in DOMAIN e}}

(* The policy engine refuses a decision whose detector nobody has. *)
ValidateRules(config) ==
  \A p \in DOMAIN config.policies : config.policies[p] \subseteq Detectors(config)

(* load_config() and the gateway's construction raise nothing. *)
Starts(file) ==
  Valid(file) /\ SemanticCheck(Build(file)) /\ ValidateRules(Build(file))

-----------------------------------------------------------------------------
(* What is looked up in a configuration in force *)

TenantIds(config) == Ids(config.tenants)

(* The authenticator's table of keys: of two with one hash the later counts. *)
KeyTenants(config) ==
  LET keys == config.auth.api_keys
  IN  {keys[i].tenant : i \in {j \in DOMAIN keys :
         \A k \in DOMAIN keys : keys[k].key_hash = keys[j].key_hash => k <= j}}

(* There is a server to ask for the keys that sign tokens. *)
KeyServer(config) == config.auth.jwks_url # ""

(* Clients are asked for certificates. *)
AsksForCertificates(config) ==
  config.tls /\ config.auth.mode = "mtls" /\ config.auth.ca_cert_file # ""

(* _tenant_quota and its rpm: of two tenants with one id the first counts; *)
(* one with an empty id has no quota.                                      *)
TenantQuota(config, tenant) ==
  LET at == {i \in DOMAIN config.tenants : config.tenants[i].id = tenant}
  IN  IF tenant = NoTenant \/ at = {} THEN 0 ELSE config.tenants[Min(at)].rpm
=============================================================================
