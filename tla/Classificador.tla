---------------------------- MODULE Classificador ----------------------------
(***************************************************************************)
(* classificador.Classificar of the classification-worker: it asks the     *)
(* language model up to `tentativas` times and turns the outcome into a    *)
(* classification, falling back to the configured floor (piso) whenever    *)
(* the answer cannot be trusted.  A behaviour is one call, under one       *)
(* configuration; the context may be cancelled (shutdown) at any moment.   *)
(***************************************************************************)
EXTENDS Fallback

CONSTANTS Respondidas,   \* what the model may put in "urgencia"
          Confiancas,    \* the confidences it may give
          Minimos,       \* values of CLASSIFY_MIN_CONFIANCA
          Tentativas     \* values of CLASSIFY_TENTATIVAS

(* "nil" stands for no answer, below; it is no text of the model's.        *)
ASSUME ClassificadorAssumption ==
    /\ "nil" \notin Respondidas
    /\ Confiancas \subseteq Int
    /\ Minimos \subseteq Int
    /\ Tentativas \subseteq Int

Respostas == [urg : Respondidas, confianca : Confiancas]

(* The nil a call with no attempt gets instead of an answer or an error.   *)
Nenhuma == [urg |-> "nil", confianca |-> -1]

Resultados == [urg : Urgencias \cup Respondidas, fallback : BOOLEAN]

-----------------------------------------------------------------------------
VARIABLES
    config,      \* the configuration: piso, minimo, tentativas
    fase,        \* "tentando", "respondeu", "desistiu", "devolveu", "panico"
    feitas,      \* attempts already failed
    cancelado,   \* ctx.Err() # nil
    resposta,    \* the answer comRetry got
    resultado    \* what Classificar returned

vars == <<config, fase, feitas, cancelado, resposta, resultado>>

TypeOK == /\ config \in [piso : Urgencias, minimo : Minimos, tentativas : Tentativas]
          /\ fase \in {"tentando", "respondeu", "desistiu", "devolveu", "panico"}
          /\ feitas \in Nat
          /\ cancelado \in BOOLEAN
          /\ resposta \in Respostas \cup {Nenhuma}
          /\ resultado \in Resultados

(* main refuses to start with a floor ParseUrgencia rejects; the other two *)
(* settings are taken as they come.                                        *)
Init == /\ config \in [piso : Urgencias, minimo : Minimos, tentativas : Tentativas]
        /\ fase = "tentando"
        /\ feitas = 0
        /\ cancelado = FALSE
        /\ resposta = Nenhuma
        /\ resultado = SemResposta(config.piso)

(* The model answers.                                                      *)
Responder == /\ fase = "tentando"
             /\ feitas < config.tentativas
             /\ resposta' \in Respostas
             /\ fase' = "respondeu"
             /\ UNCHANGED <<config, feitas, cancelado, resultado>>

(* The attempt fails; a cancelled context ends the retries.                *)
ErrarTentativa == /\ fase = "tentando"
                  /\ feitas < config.tentativas
                  /\ feitas' = feitas + 1
                  /\ fase' = IF cancelado THEN "desistiu" ELSE "tentando"
                  /\ UNCHANGED <<config, cancelado, resposta, resultado>>

(* Mutant: the retry loop stops one attempt early.                         *)
EsgotarUmaAntes ==
    /\ fase = "tentando"
    /\ ~(feitas + 1 < config.tentativas)
    /\ fase' = IF feitas = 0 THEN "respondeu" ELSE "desistiu"
    /\ UNCHANGED <<config, feitas, cancelado, resposta, resultado>>

(* The loop ends.  comRetry returns the last error, which is nil, together *)
(* with a nil answer, when no attempt was ever made.                       *)
Esgotar == /\ fase = "tentando"
           /\ ~(feitas < config.tentativas)
           /\ fase' = IF feitas = 0 THEN "respondeu" ELSE "desistiu"
           /\ UNCHANGED <<config, feitas, cancelado, resposta, resultado>>

Cancelar == /\ ~cancelado
            /\ cancelado' = TRUE
            /\ UNCHANGED <<config, fase, feitas, resposta, resultado>>

(* Classificar turns comRetry's outcome into its own; reading the urgency  *)
(* of a nil answer panics.                                                 *)
Devolver ==
    \/ /\ fase = "desistiu"
       /\ fase' = "devolveu"
       /\ resultado' = SemResposta(config.piso)
       /\ UNCHANGED <<config, feitas, cancelado, resposta>>
    \/ /\ fase = "respondeu"
       /\ IF resposta = Nenhuma
          THEN /\ fase' = "panico"
               /\ UNCHANGED resultado
          ELSE /\ fase' = "devolveu"
               /\ resultado' = PorResposta(resposta, config.piso, config.minimo)
       /\ UNCHANGED <<config, feitas, cancelado, resposta>>

Next == Responder \/ ErrarTentativa \/ Esgotar \/ Cancelar \/ Devolver

Spec == Init /\ [][Next]_vars

-----------------------------------------------------------------------------
(***************************************************************************)
(* "Classificar devolve sempre uma classificacao utilizavel": the call     *)
(* never dies, and the urgency it returns is one of the four: the column   *)
(* process.movements.urgencia_classificada has no CHECK of its own.        *)
(***************************************************************************)
SempreUtilizavel ==
    /\ fase # "panico"
    /\ fase = "devolveu" => resultado.urg \in Urgencias

(***************************************************************************)
(* "Elevar, nunca rebaixar": a fallback returns the higher of the floor    *)
(* and what the model said, whatever it said, even a text that is no       *)
(* urgency; with no answer, the floor.                                     *)
(***************************************************************************)
NaDuvidaOMaior ==
    fase = "devolveu" /\ resultado.fallback =>
        LET n == Nivel(resposta.urg)
            p == Nivel(config.piso)
        IN  Nivel(resultado.urg) = IF n > p THEN n ELSE p

(***************************************************************************)
(* A classification without the fallback mark, the only kind that the      *)
(* notification filter may silence, is the model's own, valid, and at      *)
(* least as confident as the configured minimum.                           *)
(***************************************************************************)
SemMarcaEhConfiavel ==
    fase = "devolveu" /\ ~resultado.fallback =>
        /\ resultado.urg = resposta.urg
        /\ resposta.urg \in Urgencias
        /\ resposta.confianca >= config.minimo

(***************************************************************************)
(* A call that gave up without having been cancelled made exactly the      *)
(* configured number of attempts: no fewer, no more.                       *)
(***************************************************************************)
DesisteDepoisDeTodas ==
    fase = "devolveu" /\ resposta = Nenhuma /\ ~cancelado =>
        feitas = config.tentativas
=============================================================================
