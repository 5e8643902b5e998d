----------------------------- MODULE MCSessoes -----------------------------
(***************************************************************************)
(* Sessoes for TLC: two tabs, two e-mails of which one is typed in two     *)
(* ways.                                                                   *)
(***************************************************************************)
EXTENDS Sessoes, TLC

MCMinusculo == ("Ana" :> "ana") @@ ("ana" :> "ana") @@ ("bia" :> "bia")

MCFormularios == {<<"cadastro", <<"Ana", "p">>>>, <<"cadastro", <<"bia", "q">>>>,
                  <<"login", <<"ana", "p">>>>, <<"perfil", <<"bia", "">>>>,
                  <<"senha", <<"p", "q">>>>}

(* The places are alike, and so are the tabs.                              *)
Simetria == Permutations(Pedidos) \cup Permutations(Clientes)
=============================================================================
