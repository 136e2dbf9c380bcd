----------------------------- MODULE MCAuditLog -----------------------------
(***************************************************************************)
(* Instances of AuditLog for TLC: two workers, small files, one backup or  *)
(* two, lines shorter and longer than what a file may hold.                *)
(***************************************************************************)
EXTENDS AuditLog

CONSTANTS w1, w2

Lines == [n \in 1..MaxRecords |-> <<1, 3, 2, 1, 1, 3>>[n]]
=============================================================================
