---------------------------- MODULE MCForwarding ----------------------------
(***************************************************************************)
(* Instances of Forwarding for TLC: one request that is streamed and one   *)
(* that is not, over two upstreams; the route lists each once, or one of   *)
(* them twice, as the schema allows.                                       *)
(***************************************************************************)
EXTENDS Forwarding, TLC

CONSTANTS u1, u2, r1, s1

OneEach == (u1 :> 1) @@ (u2 :> 1)
TwiceRoute == (u1 :> 2) @@ (u2 :> 1)

TwoHeaders == (u1 :> "Authorization") @@ (u2 :> "x-api-key")

(* One client sends what both kinds of upstreams look at, one the common. *)
Both == (r1 :> Headers) @@ (s1 :> {"Authorization"})
=============================================================================
