-------------------------- MODULE VidaDaAudiencia --------------------------
(***************************************************************************)
(* What the hearing services together promise about each hearing: its      *)
(* audio is stored before there is a row, it is transcribed before it is   *)
(* analysed, a failure is final, its alert comes after the analysis and at *)
(* most once, and an alert once read stays read.  A hearing may stop half  *)
(* way; it never goes back.                                                *)
(***************************************************************************)
CONSTANT Audiencias

VARIABLE etapa   \* etapa[h]: how far hearing h got

Etapas == {"nova", "guardada", "registrada", "transcrita", "analisada",
           "falhou", "alertada", "lida"}

Caminhos == {<<"nova", "guardada">>,
             <<"guardada", "registrada">>,
             <<"registrada", "transcrita">>,
             <<"registrada", "falhou">>,
             <<"transcrita", "analisada">>,
             <<"transcrita", "falhou">>,
             <<"analisada", "alertada">>,
             <<"alertada", "lida">>}

TypeOK == etapa \in [Audiencias -> Etapas]

Init == etapa = [h \in Audiencias |-> "nova"]

Avancar(h) == \E p \in Caminhos : /\ etapa[h] = p[1]
                                  /\ etapa' = [etapa EXCEPT ![h] = p[2]]

(* POST /lidas reads every alert of one tenant at once.                    *)
LerVarias == \E lidos \in SUBSET {h \in Audiencias : etapa[h] = "alertada"} :
                 etapa' = [h \in Audiencias |->
                              IF h \in lidos THEN "lida" ELSE etapa[h]]

Next == LerVarias \/ \E h \in Audiencias : Avancar(h)

Spec == Init /\ [][Next]_etapa
=============================================================================
