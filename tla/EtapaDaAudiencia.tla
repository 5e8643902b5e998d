-------------------------- MODULE EtapaDaAudiencia --------------------------
(***************************************************************************)
(* One stage of the hearing pipeline.  transcription-worker and            *)
(* analysis-service run the same handler over different data: take a       *)
(* message, mark the row as being worked on, run the engine (Whisper, the  *)
(* model), write its result into the row, publish the next event.  An      *)
(* engine that fails leaves the row "failed".  Every call may fail alone.  *)
(*                                                                         *)
(* No step looks at the row before it writes it.  A graceful shutdown      *)
(* cancels the context of every call the handler has left, so it changes   *)
(* no more than a crash does.                                              *)
(***************************************************************************)
EXTENDS Fluxo

CONSTANTS Replicas, Audiencias, Falhas, MaxEventos,
          EmCurso,    \* the status while the engine runs
          Pronto,     \* the status once its result is saved
          Coluna      \* the column of the result

VARIABLES linhas,     \* hearing.hearings: status, erro, columns filled
          entrada,    \* the stream the stage consumes, and its group
          lote,       \* lote[w]: the batch replica w has in hand
          lugar,      \* lugar[w]: where in the handler w is
          saida       \* the stream the stage publishes to

C == INSTANCE Consumidores WITH fluxo <- entrada, Mensagens <- Audiencias,
                                MaxMensagens <- MaxEventos

Lugares == {"livre", "motor", "publicar", "confirmar"}

Audiencia(w) == entrada.itens[C!Cabeca(lote[w])]

(* The handler of w returns an error: no XACK.                             *)
Desistir(w) == /\ C!Falhar(w)
               /\ lugar' = [lugar EXCEPT ![w] = "livre"]

Ler(w) ==
    /\ lugar[w] = "livre"
    /\ C!Ler(w) \/ ("ack" \in Falhas /\ C!LeituraPerdida(w))
    /\ UNCHANGED <<linhas, lugar, saida>>

(* marcarStatus(EmCurso, nil)                                              *)
LinhasEmCurso(h) == [linhas EXCEPT ![h].status = EmCurso, ![h].erro = FALSE]

Marcar(w) ==
    /\ lugar[w] = "livre"
    /\ lote[w] # {}
    /\ linhas' = LinhasEmCurso(Audiencia(w))
    /\ lugar' = [lugar EXCEPT ![w] = "motor"]
    /\ UNCHANGED <<entrada, lote, saida>>

FalharMarcar(w) ==
    /\ lugar[w] = "livre"
    /\ lote[w] # {}
    /\ \/ "banco" \in Falhas /\ UNCHANGED linhas
       \/ "commit" \in Falhas /\ linhas' = LinhasEmCurso(Audiencia(w))
    /\ Desistir(w)
    /\ UNCHANGED saida

(* Mutant: a failure of the engine is taken for a payload not worth a      *)
(* second try, and acknowledged.                                           *)
FalharMotorCalado(w) ==
    /\ lugar[w] = "motor"
    /\ "motor" \in Falhas
    /\ C!Concluir(w)
    /\ lugar' = [lugar EXCEPT ![w] = "livre"]
    /\ UNCHANGED <<linhas, saida>>

(* The engine failed.  The write of "failed" may fail too: its error is    *)
(* ignored, and the handler ends with the engine's.                        *)
FalharMotor(w) ==
    /\ lugar[w] = "motor"
    /\ "motor" \in Falhas
    /\ \/ linhas' = [linhas EXCEPT ![Audiencia(w)].status = "failed",
                                   ![Audiencia(w)].erro = TRUE]
       \/ "banco" \in Falhas /\ UNCHANGED linhas
    /\ Desistir(w)
    /\ UNCHANGED saida

(* The engine answered: its result, the status and erro = NULL are one     *)
(* UPDATE.                                                                 *)
LinhasProntas(h) == [linhas EXCEPT ![h].status = Pronto, ![h].erro = FALSE,
                                   ![h].colunas = @ \cup {Coluna}]

Salvar(w) ==
    /\ lugar[w] = "motor"
    /\ linhas' = LinhasProntas(Audiencia(w))
    /\ lugar' = [lugar EXCEPT ![w] = "publicar"]
    /\ UNCHANGED <<entrada, lote, saida>>

FalharSalvar(w) ==
    /\ lugar[w] = "motor"
    /\ \/ "banco" \in Falhas /\ UNCHANGED linhas
       \/ "commit" \in Falhas /\ linhas' = LinhasProntas(Audiencia(w))
    /\ Desistir(w)
    /\ UNCHANGED saida

Publicar(w) ==
    /\ lugar[w] = "publicar"
    /\ saida' \in Publicacoes(saida, Audiencia(w), "duplicacao" \in Falhas)
    /\ lugar' = [lugar EXCEPT ![w] = "confirmar"]
    /\ UNCHANGED <<linhas, entrada, lote>>

(* Mutant: the error of Publish is only logged, as upload does.            *)
FalharPublicarSeguindo(w) ==
    /\ lugar[w] = "publicar"
    /\ "barramento" \in Falhas
    /\ lugar' = [lugar EXCEPT ![w] = "confirmar"]
    /\ UNCHANGED <<linhas, entrada, lote, saida>>

(* An error of Publish is the handler's, whether the XADD was applied or   *)
(* not.                                                                    *)
FalharPublicar(w) ==
    /\ lugar[w] = "publicar"
    /\ "barramento" \in Falhas
    /\ saida' \in Publicacoes(saida, Audiencia(w), "duplicacao" \in Falhas) \cup {saida}
    /\ Desistir(w)
    /\ UNCHANGED linhas

Confirmar(w) ==
    /\ lugar[w] = "confirmar"
    /\ C!Concluir(w) \/ ("ack" \in Falhas /\ C!Falhar(w))
    /\ lugar' = [lugar EXCEPT ![w] = "livre"]
    /\ UNCHANGED <<linhas, saida>>

(* Mutant: a restart gives the batch back to the group.                    *)
CairDevolvendo(w) ==
    /\ "queda" \in Falhas
    /\ C!ReiniciarDevolvendo(w)
    /\ lugar' = [lugar EXCEPT ![w] = "livre"]
    /\ UNCHANGED <<linhas, saida>>

Cair(w) ==
    /\ "queda" \in Falhas
    /\ C!Reiniciar(w)
    /\ lugar' = [lugar EXCEPT ![w] = "livre"]
    /\ UNCHANGED <<linhas, saida>>

Passo(w) == \/ Ler(w)
            \/ Marcar(w)
            \/ FalharMarcar(w)
            \/ FalharMotor(w)
            \/ Salvar(w)
            \/ FalharSalvar(w)
            \/ Publicar(w)
            \/ FalharPublicar(w)
            \/ Confirmar(w)
=============================================================================
