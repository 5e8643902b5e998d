-------------------------- MODULE MCMovimentacoes --------------------------
(***************************************************************************)
(* Movimentacoes for TLC: two movements of one tenant, so that one may be  *)
(* in a batch behind the other, and a batch may die with both.             *)
(***************************************************************************)
EXTENDS Movimentacoes, TLC

CONSTANTS t1, m1, m2

(* A text longer than MaxCorpo wherever a run sets it below 6: cut between *)
(* two characters when MaxCorpo is even, inside one when it is odd.        *)
MCDescricaoDe == (m1 :> <<2, 2, 2>>) @@ (m2 :> <<2, 2, 2>>)

MCTenantDe == (m1 :> t1) @@ (m2 :> t1)

(* Same tenant, same text: nothing tells the movements apart.              *)
Simetria == Permutations(Andamentos)
=============================================================================
