------------------------------ MODULE Partida ------------------------------
(***************************************************************************)
(* How a service starts.  Its main waits for one dependency after another  *)
(* and only then serves or consumes; what it cannot get in sixty tries     *)
(* ends the process, and docker starts it again from the first.  A service *)
(* is created by a deploy whose runner came to the end.                    *)
(*                                                                         *)
(* The consumers of notification-service are apart: goroutines that log    *)
(* the error and leave the service up.                                     *)
(***************************************************************************)
EXTENDS Migracao

CONSTANT Servicos       \* the services of the instance

VARIABLES etapa,        \* etapa[s]: the dependency s waits for; 0: no container
          ambiente,     \* ambiente[s]: the password in its DATABASE_URL
          bucket,       \* the bucket of the recordings exists
          escuta        \* escuta[f]: the consumer of stream f in notification

partidaVars == <<etapa, ambiente, bucket, escuta>>

-----------------------------------------------------------------------------
(* The mains, in order of what they wait for.  "grupo": a worker's last    *)
(* step is Consume, which creates the group and then reads from it.        *)
Auth == <<"banco">>
Hearing == <<"banco", "redis", "bucket">>
Transcription == <<"banco", "redis", "bucket", "grupo">>
Analysis == <<"banco", "redis", "grupo">>
Classification == <<"banco", "redis", "grupo">>
Monitor == <<"banco", "redis">>
Notification == <<"banco", "redis">>

Espera == [s \in Servicos |->
              CASE s = "auth-service" -> Auth
                [] s = "hearing-service" -> Hearing
                [] s = "transcription-worker" -> Transcription
                [] s = "analysis-service" -> Analysis
                [] s = "classification-worker" -> Classification
                [] s = "process-monitor-service" -> Monitor
                [] s = "notification-service" -> Notification]

ASSUME PartidaAssumption ==
    Servicos \subseteq {"auth-service", "hearing-service", "transcription-worker",
                        "analysis-service", "classification-worker",
                        "process-monitor-service", "notification-service"}

Fluxos == IF "notification-service" \in Servicos
          THEN {"hearing.analyzed", "movement.classified"} ELSE {}

Pronto(s) == Len(Espera[s]) + 1
NoAr(s) == etapa[s] = Pronto(s)

PartidaTypeOK ==
    /\ etapa \in [Servicos -> Nat]
    /\ \A s \in Servicos : etapa[s] <= Pronto(s)
    /\ ambiente \in [Servicos -> Apps \cup {""}]
    /\ bucket \in BOOLEAN
    /\ escuta \in [Fluxos -> {"parada", "ouvindo", "surda"}]

PartidaInit ==
    /\ etapa = [s \in Servicos |-> 0]
    /\ ambiente = [s \in Servicos |-> ""]
    /\ bucket = FALSE
    /\ escuta = [f \in Fluxos |-> "parada"]

-----------------------------------------------------------------------------
(* A container that starts starts from the first dependency, with no       *)
(* consumer.                                                               *)
Calar(S) == escuta' = [f \in Fluxos |->
                          IF "notification-service" \in S THEN "parada" ELSE escuta[f]]

(* service_completed_successfully: compose creates the services that are   *)
(* not there, and those whose environment changed again.                   *)
Subir(m) ==
    LET novos == {s \in Servicos : ambiente[s] # Env(m).app}
    IN  /\ migrador[m].passo = "ok"
        /\ migrador' = [migrador EXCEPT ![m] = Parado]
        /\ ambiente' = [s \in Servicos |-> Env(m).app]
        /\ etapa' = [s \in Servicos |-> IF s \in novos THEN 1 ELSE etapa[s]]
        /\ Calar(novos)
        /\ UNCHANGED <<volume, schema, versoes, implantacoes, quedas, bucket>>

(* What s waits for answers.  Postgres lets in who has the password.       *)
Atendido(s) == Espera[s][etapa[s]] = "banco" =>
                   volume.fase = "pronto" /\ volume.papel = ambiente[s]

(* Mutant: the loop leaves the last dependency out of its count.           *)
AvancarDemais(s) ==
    /\ etapa[s] > 0
    /\ etapa' = [etapa EXCEPT ![s] = @ + 1]
    /\ UNCHANGED <<migracaoVars, ambiente, bucket, escuta>>

(* The bucket is created if it is not there.                               *)
GarantirBucket(s) == bucket \/ Espera[s][etapa[s]] = "bucket"

Avancar(s) ==
    /\ etapa[s] \in DOMAIN Espera[s]
    /\ Atendido(s)
    /\ etapa' = [etapa EXCEPT ![s] = @ + 1]
    /\ bucket' = GarantirBucket(s)
    /\ UNCHANGED <<migracaoVars, ambiente, escuta>>

(* Mutant: a container that ended is not started again.                    *)
Desligar(s) ==
    /\ quedas < MaxQuedas
    /\ etapa[s] > 1
    /\ etapa' = [etapa EXCEPT ![s] = 0]
    /\ Calar({s})
    /\ quedas' = quedas + 1
    /\ UNCHANGED <<volumeVars, migrador, implantacoes, ambiente, bucket>>

(***************************************************************************)
(* The process ends, by itself (Fatal: a dependency that did not answer in *)
(* time, a group that could not be created) or killed, and docker starts   *)
(* it again: unless-stopped.  A service refused for its password ends in   *)
(* its first step and comes back to it: no change.                         *)
(***************************************************************************)
Recomecar(s) ==
    /\ quedas < MaxQuedas
    /\ etapa[s] > 1
    /\ etapa' = [etapa EXCEPT ![s] = 1]
    /\ Calar({s})
    /\ quedas' = quedas + 1
    /\ UNCHANGED <<volumeVars, migrador, implantacoes, ambiente, bucket>>

Escutar(f) ==
    /\ NoAr("notification-service")
    /\ escuta[f] = "parada"
    /\ escuta' = [escuta EXCEPT ![f] = "ouvindo"]
    /\ UNCHANGED <<migracaoVars, etapa, ambiente, bucket>>

(* The group of f could not be created: the goroutine ends, /health goes   *)
(* on answering, and nothing tries again before the next start.            *)
Ensurdecer(f) ==
    /\ quedas < MaxQuedas
    /\ NoAr("notification-service")
    /\ escuta[f] = "parada"
    /\ escuta' = [escuta EXCEPT ![f] = "surda"]
    /\ quedas' = quedas + 1
    /\ UNCHANGED <<volumeVars, migrador, implantacoes, etapa, ambiente, bucket>>
=============================================================================
