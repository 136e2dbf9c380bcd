------------------------- MODULE MCRequestHandling --------------------------
(***************************************************************************)
(* An instance of RequestHandling for TLC: files for each mode, some of    *)
(* which are refused, and credentials that are missing, wrong, and right   *)
(* with a tenant's name, with another one and without any; one tenant has  *)
(* an empty id.                                                            *)
(***************************************************************************)
EXTENDS RequestHandling

CONSTANTS t1, t2

Shown(check, t, awkward) == [check |-> check, tenant |-> t, awkward |-> awkward]

MCCredentials ==
  {Shown("absent", t1, FALSE), Shown("invalid", t1, TRUE), Shown("valid", t1, TRUE), Shown("valid", t1, FALSE),
   Shown("valid", t2, FALSE), Shown("valid", NoTenant, FALSE), Shown("valid", t2, TRUE)}

Limit(t) == [id |-> t, quotas |-> [rpm |-> 1]]
Unlimited(t) == [id |-> t]

Route(upstream, policy) == [upstreams |-> <<upstream>>, policy |-> policy]

(* What the files have in common, with a policy and a judge of their own. *)
Served ==
  [upstreams |-> <<[id |-> "u1"], [id |-> "u2"]>>,
   routes    |-> <<Route("u1", "default"), Route("u2", "strict")>>,
   policies  |-> [strict |-> [decisions |-> <<[detector |-> "pii"], [detector |-> "judge"]>>]],
   detectors |-> <<[id |-> "judge", endpoint |-> "e"]>>]

Server(tls) == [server |-> [tls |-> tls]]

Auth(auth) == [auth |-> auth]

Serving(tenants) == [tenants |-> tenants] @@ Served

Key(t, secret) == [tenant |-> t, key |-> secret]

MCFiles ==
  { Served,
    Serving(<<Limit(t1), Unlimited(t1), Unlimited(t2)>>),
    Auth([mode |-> "api-key", api_keys |-> <<Key(t1, "k"), [tenant |-> t2, key_hash |-> Hash("l")]>>])
      @@ Serving(<<Unlimited(t2), Limit(t1)>>),
    Auth([mode |-> "api-key", api_keys |-> <<Key(t2, "k"), Key(t1, "k")>>])
      @@ Serving(<<Limit(t1), Unlimited(t2)>>),
    Auth([mode |-> "api-key", api_keys |-> <<Key(NoTenant, "k"), Key(t1, "l")>>])
      @@ Serving(<<Limit(NoTenant), Limit(t1)>>),
    Auth([mode |-> "oidc", oidc |-> [issuer |-> "i", audience |-> "a", jwks_url |-> "j"]])
      @@ Serving(<<Limit(t1)>>),
    Auth([mode |-> "oidc", oidc |-> [issuer |-> "i", audience |-> "a"]])
      @@ Serving(<<Limit(t1), Unlimited(t2)>>),
    Auth([mode |-> "mtls", mtls |-> [ca_cert_file |-> "ca"]])
      @@ Server(TRUE) @@ Serving(<<Limit(t1)>>),
    Auth([mode |-> "mtls"]) @@ Serving(<<Limit(t1)>>),
    \* refused: keys without a tenant that is configured, none, no hash
    Auth([mode |-> "api-key", api_keys |-> <<Key(t1, "k"), Key(t2, "l")>>])
      @@ Serving(<<Limit(t1)>>),
    Auth([mode |-> "api-key", api_keys |-> <<>>]) @@ Serving(<<Limit(t1)>>),
    Auth([mode |-> "api-key", api_keys |-> <<[tenant |-> t1]>>]) @@ Serving(<<Limit(t1)>>),
    \* refused: no mode and no keys, no issuer, an unknown upstream, policy or detector
    Auth([header |-> "h"]) @@ Serving(<<Limit(t1)>>),
    Auth([mode |-> "oidc"]) @@ Serving(<<Limit(t1)>>),
    [routes |-> <<Route("u3", "default")>>] @@ Served,
    [routes |-> <<Route("u1", "lax")>>] @@ Served,
    [detectors |-> <<[id |-> "judge"]>>] @@ Served }
=============================================================================
