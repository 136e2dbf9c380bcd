---------------------------- MODULE MCQuotaStore ----------------------------
(***************************************************************************)
(* An instance of QuotaStore for TLC.  Requests and replicas are           *)
(* interchangeable: no definition of QuotaStore tells them apart.          *)
(***************************************************************************)
EXTENDS QuotaStore, TLC

Symmetry == Permutations(Requests) \cup Permutations(Replicas)
=============================================================================
