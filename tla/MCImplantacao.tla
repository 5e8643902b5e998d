--------------------------- MODULE MCImplantacao ---------------------------
(***************************************************************************)
(* Implantacao for TLC: the default password of the first deploy and two   *)
(* others, two passwords of the role, and as many files as it takes: one   *)
(* before the GRANTs, the GRANTs, one after.                               *)
(***************************************************************************)
EXTENDS Implantacao

MCConfiguracoes == {[dono |-> "meirinho", app |-> "a"],
                    [dono |-> "nova", app |-> "b"],
                    [dono |-> "outra", app |-> "b"]}

MCArquivos == <<"0001_init", "0002_rls", "0003_pontos_criticos">>
MCPrecisaDoPapel == {"0002_rls"}
=============================================================================
