----------------------------- MODULE MCMonitor -----------------------------
(***************************************************************************)
(* Monitor for TLC: two tenants with a process each, one of them with two  *)
(* movements, so that a routine is interrupted between two inserts.        *)
(***************************************************************************)
EXTENDS Monitor, TLC

CONSTANTS t1, t2, p1, p2, m1, m2

MCTenantDe == (p1 :> t1) @@ (p2 :> t2)
MCProcessoDe == (m1 :> p1) @@ (m2 :> p1)
=============================================================================
