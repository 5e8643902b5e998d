---------------------------- MODULE MCAudiencias ----------------------------
(***************************************************************************)
(* Audiencias for TLC: two hearings of one tenant.  With MaxCorpo 4 the    *)
(* first text is cut between two characters, the second inside one.        *)
(***************************************************************************)
EXTENDS Audiencias, TLC

CONSTANTS t1, h1, h2

MCTenantDe == (h1 :> t1) @@ (h2 :> t1)
MCResumoDe == (h1 :> <<2, 2, 1>>) @@ (h2 :> <<1, 2, 2>>)
=============================================================================
