----------------------------- MODULE Audiencias -----------------------------
(***************************************************************************)
(* The hearing pipeline, end to end.  hearing-service stores the audio,    *)
(* inserts the row and publishes audio.uploaded; transcription-worker and  *)
(* analysis-service are two instances of EtapaDaAudiencia, one feeding the *)
(* other; notification-service turns hearing.analyzed into an alert,       *)
(* unless the tenant turned those alerts off.                              *)
(*                                                                         *)
(* A member of AudienciasPossiveis stands for one request of upload: its   *)
(* object key and, once inserted, its row.                                 *)
(***************************************************************************)
EXTENDS Corpo, Fluxo

CONSTANTS AudienciasPossiveis,
          Tenants,
          TenantDe,        \* TenantDe[h]: who sends h
          ResumoDe,        \* ResumoDe[h]: the text of its analysis
          Transcritores,   \* replicas of the transcription-worker
          Analistas,       \* replicas of the analysis-service
          Notificadores,   \* replicas of the notification-service
          Falhas

TodasAsFalhas == {"storage", "banco", "commit", "barramento", "duplicacao",
                  "queda", "motor", "ack"}

ASSUME AudienciasAssumption ==
    /\ TenantDe \in [AudienciasPossiveis -> Tenants]
    /\ ResumoDe \in [AudienciasPossiveis -> Textos]
    /\ Falhas \subseteq TodasAsFalhas

VARIABLES
    objetos,      \* the audio objects in the bucket
    pedido,       \* pedido[h]: how far the handler of the upload got
    linhas,       \* hearing.hearings
    uploaded, transcribed, analyzed,   \* the three streams and their groups
    loteT, lugarT,   \* transcription-worker: batch in hand, place
    loteA, lugarA,   \* analysis-service
    loteN, lugarN,   \* notification-service, consumer of hearing.analyzed
    alertar,      \* preferencias.alertar_audiencias; "padrao": no row saved
    alertas       \* alertas[h]: column lida of the alerts that refer to h

uploadVars == <<objetos, pedido>>
transcricaoVars == <<loteT, lugarT>>
analiseVars == <<loteA, lugarA>>
avisoVars == <<loteN, lugarN, alertar, alertas>>
vars == <<uploadVars, linhas, uploaded, transcribed, analyzed,
          transcricaoVars, analiseVars, avisoVars>>

MaxEventos == 8 * Cardinality(AudienciasPossiveis)

T == INSTANCE EtapaDaAudiencia WITH
         Replicas <- Transcritores, Audiencias <- AudienciasPossiveis,
         EmCurso <- "transcribing", Pronto <- "transcribed",
         Coluna <- "transcript", entrada <- uploaded, lote <- loteT,
         lugar <- lugarT, saida <- transcribed

A == INSTANCE EtapaDaAudiencia WITH
         Replicas <- Analistas, Audiencias <- AudienciasPossiveis,
         EmCurso <- "analyzing", Pronto <- "analyzed",
         Coluna <- "summary", entrada <- transcribed, lote <- loteA,
         lugar <- lugarA, saida <- analyzed

N == INSTANCE Consumidores WITH
         Replicas <- Notificadores, Mensagens <- AudienciasPossiveis,
         MaxMensagens <- MaxEventos, fluxo <- analyzed, lote <- loteN

(* domain.HearingStatus; "" where there is no row.                         *)
Situacoes == {"", "uploaded", "transcribing", "transcribed", "analyzing",
              "analyzed", "failed"}

SemLinha == [status |-> "", erro |-> FALSE, colunas |-> {}]

Fases == {"nova", "guardada", "registrada", "respondida", "recusada"}

TypeOK ==
    /\ objetos \in SUBSET AudienciasPossiveis
    /\ pedido \in [AudienciasPossiveis -> Fases]
    /\ linhas \in [AudienciasPossiveis ->
                      [status : Situacoes, erro : BOOLEAN,
                       colunas : SUBSET {"transcript", "summary"}]]
    /\ \A f \in {uploaded, transcribed, analyzed} : f \in Fluxos(AudienciasPossiveis)
    /\ loteT \in [Transcritores -> SUBSET Nat]
    /\ lugarT \in [Transcritores -> T!Lugares]
    /\ loteA \in [Analistas -> SUBSET Nat]
    /\ lugarA \in [Analistas -> A!Lugares]
    /\ loteN \in [Notificadores -> SUBSET Nat]
    /\ lugarN \in [Notificadores -> {"livre", "criar", "confirmar"}]
    /\ alertar \in [Tenants -> {"padrao", "sim", "nao"}]
    /\ alertas \in [AudienciasPossiveis -> Seq(BOOLEAN)]

Init ==
    /\ objetos = {}
    /\ pedido = [h \in AudienciasPossiveis |-> "nova"]
    /\ linhas = [h \in AudienciasPossiveis |-> SemLinha]
    /\ uploaded = FluxoVazio
    /\ transcribed = FluxoVazio
    /\ analyzed = FluxoVazio
    /\ loteT = [w \in Transcritores |-> {}]
    /\ lugarT = [w \in Transcritores |-> "livre"]
    /\ loteA = [w \in Analistas |-> {}]
    /\ lugarA = [w \in Analistas |-> "livre"]
    /\ loteN = [n \in Notificadores |-> {}]
    /\ lugarN = [n \in Notificadores |-> "livre"]
    /\ alertar = [t \in Tenants |-> "padrao"]
    /\ alertas = [h \in AudienciasPossiveis |-> << >>]

-----------------------------------------------------------------------------
(* hearing-service: POST /api/hearings, once the form is found valid.      *)
foraDoUpload == <<transcribed, analyzed, transcricaoVars, analiseVars, avisoVars>>

(* storage.Upload under a fresh key.  On an error the request ends, and    *)
(* the object may be there all the same.                                   *)
Guardar(h) ==
    /\ pedido[h] = "nova"
    /\ objetos' = objetos \cup {h}
    /\ pedido' = [pedido EXCEPT ![h] = "guardada"]
    /\ UNCHANGED <<foraDoUpload, linhas, uploaded>>

FalharGuardar(h) ==
    /\ pedido[h] = "nova"
    /\ "storage" \in Falhas
    /\ objetos' \in {objetos, objetos \cup {h}}
    /\ pedido' = [pedido EXCEPT ![h] = "recusada"]
    /\ UNCHANGED <<foraDoUpload, linhas, uploaded>>

ComLinha(h) == [linhas EXCEPT ![h].status = "uploaded"]

(* Mutant: the row is inserted before the audio is stored.                 *)
RegistrarAntes(h) ==
    /\ pedido[h] \in {"nova", "guardada"}
    /\ linhas' = ComLinha(h)
    /\ pedido' = [pedido EXCEPT ![h] = "registrada"]
    /\ UNCHANGED <<foraDoUpload, objetos, uploaded>>

(* store.criar                                                             *)
Registrar(h) ==
    /\ pedido[h] = "guardada"
    /\ linhas' = ComLinha(h)
    /\ pedido' = [pedido EXCEPT ![h] = "registrada"]
    /\ UNCHANGED <<foraDoUpload, objetos, uploaded>>

(* The insert fails and the client gets a 500; nothing removes the object. *)
FalharRegistrar(h) ==
    /\ pedido[h] = "guardada"
    /\ \/ "banco" \in Falhas /\ UNCHANGED linhas
       \/ "commit" \in Falhas /\ linhas' = ComLinha(h)
    /\ pedido' = [pedido EXCEPT ![h] = "recusada"]
    /\ UNCHANGED <<foraDoUpload, objetos, uploaded>>

(* Publish; its error is only logged, and the answer is 202 either way.    *)
PublicarUpload(h) ==
    /\ pedido[h] = "registrada"
    /\ uploaded' \in Publicacoes(uploaded, h, "duplicacao" \in Falhas)
                     \cup (IF "barramento" \in Falhas THEN {uploaded} ELSE {})
    /\ pedido' = [pedido EXCEPT ![h] = "respondida"]
    /\ UNCHANGED <<foraDoUpload, objetos, linhas>>

(* hearing-service dies, or the client goes away and cancels the context   *)
(* of every call that is left.                                             *)
InterromperUpload(h) ==
    /\ pedido[h] \in {"guardada", "registrada"}
    /\ "queda" \in Falhas
    /\ pedido' = [pedido EXCEPT ![h] = "recusada"]
    /\ UNCHANGED <<foraDoUpload, objetos, linhas, uploaded>>

-----------------------------------------------------------------------------
(* transcription-worker and analysis-service                               *)
foraDaTranscricao == <<uploadVars, analyzed, analiseVars, avisoVars>>
foraDaAnalise == <<uploadVars, uploaded, transcricaoVars, avisoVars>>

Transcrever(w) == T!Passo(w) /\ UNCHANGED foraDaTranscricao
CairTranscritor(w) == T!Cair(w) /\ UNCHANGED foraDaTranscricao

Analisar(w) == A!Passo(w) /\ UNCHANGED foraDaAnalise
CairAnalista(w) == A!Cair(w) /\ UNCHANGED foraDaAnalise

-----------------------------------------------------------------------------
(* notification-service, consumer of hearing.analyzed                      *)
foraDoAviso == <<uploadVars, linhas, uploaded, transcribed,
                 transcricaoVars, analiseVars>>

LerAnalisadas(n) ==
    /\ lugarN[n] = "livre"
    /\ N!Ler(n) \/ ("ack" \in Falhas /\ N!LeituraPerdida(n))
    /\ UNCHANGED <<foraDoAviso, lugarN, alertar, alertas>>

AudienciaDe(n) == analyzed.itens[N!Cabeca(loteN[n])]

(* prefsDoTenant: preferences never saved, or that cannot be read, are the *)
(* defaults, with the alerts of hearings on.                               *)
AlertarLido(t) ==
    {alertar[t] # "nao"} \cup (IF "banco" \in Falhas THEN {TRUE} ELSE {})

(* Mutant: the handler goes on to a mark of its own, as deMovimentacao.    *)
DecidirMarcando(n) ==
    /\ lugarN[n] = "livre"
    /\ loteN[n] # {}
    /\ \E b \in AlertarLido(TenantDe[AudienciaDe(n)]) :
           lugarN' = [lugarN EXCEPT ![n] = IF b THEN "criar" ELSE "marcar"]
    /\ UNCHANGED <<foraDoAviso, analyzed, loteN, alertar, alertas>>

(* deAudiencia decides; with the alerts off it returns nil.                *)
Decidir(n) ==
    /\ lugarN[n] = "livre"
    /\ loteN[n] # {}
    /\ \E b \in AlertarLido(TenantDe[AudienciaDe(n)]) :
           lugarN' = [lugarN EXCEPT ![n] = IF b THEN "criar" ELSE "confirmar"]
    /\ UNCHANGED <<foraDoAviso, analyzed, loteN, alertar, alertas>>

ComAlerta(n) == [alertas EXCEPT ![AudienciaDe(n)] = Append(@, FALSE)]

(* store.criar: the INSERT takes the text only if Postgres accepts it.     *)
CriarAlerta(n) ==
    /\ lugarN[n] = "criar"
    /\ Gravavel(ResumoDe[AudienciaDe(n)])
    /\ alertas' = ComAlerta(n)
    /\ lugarN' = [lugarN EXCEPT ![n] = "confirmar"]
    /\ UNCHANGED <<foraDoAviso, analyzed, loteN, alertar>>

(* Mutant: a failed INSERT is only logged.                                 *)
FalharAlertaSeguindo(n) ==
    /\ lugarN[n] = "criar"
    /\ (Gravavel(ResumoDe[AudienciaDe(n)]) => "banco" \in Falhas)
    /\ lugarN' = [lugarN EXCEPT ![n] = "confirmar"]
    /\ UNCHANGED <<foraDoAviso, analyzed, loteN, alertar, alertas>>

FalharAlerta(n) ==
    /\ lugarN[n] = "criar"
    /\ \/ /\ (Gravavel(ResumoDe[AudienciaDe(n)]) => "banco" \in Falhas)
          /\ UNCHANGED alertas
       \/ /\ "commit" \in Falhas /\ Gravavel(ResumoDe[AudienciaDe(n)])
          /\ alertas' = ComAlerta(n)
    /\ N!Falhar(n)
    /\ lugarN' = [lugarN EXCEPT ![n] = "livre"]
    /\ UNCHANGED <<foraDoAviso, alertar>>

ConfirmarAnalisada(n) ==
    /\ lugarN[n] = "confirmar"
    /\ N!Concluir(n) \/ ("ack" \in Falhas /\ N!Falhar(n))
    /\ lugarN' = [lugarN EXCEPT ![n] = "livre"]
    /\ UNCHANGED <<foraDoAviso, alertar, alertas>>

(* Mutant: a restart gives the batch back to the group.                    *)
CairNotificadorDevolvendo(n) ==
    /\ "queda" \in Falhas
    /\ N!ReiniciarDevolvendo(n)
    /\ lugarN' = [lugarN EXCEPT ![n] = "livre"]
    /\ UNCHANGED <<foraDoAviso, alertar, alertas>>

CairNotificador(n) ==
    /\ "queda" \in Falhas
    /\ N!Reiniciar(n)
    /\ lugarN' = [lugarN EXCEPT ![n] = "livre"]
    /\ UNCHANGED <<foraDoAviso, alertar, alertas>>

-----------------------------------------------------------------------------
(* The lawyer's requests to notification-service.                          *)
foraDaCaixa == <<foraDoAviso, analyzed, loteN, lugarN>>

(* PUT /preferencias, alertar_audiencias                                   *)
SalvarPreferencias(t) ==
    /\ \E b \in {"sim", "nao"} : alertar' = [alertar EXCEPT ![t] = b]
    /\ UNCHANGED <<foraDaCaixa, alertas>>

(* POST /{id}/lida                                                         *)
MarcarLida(h) ==
    /\ \E i \in 1 .. Len(alertas[h]) :
           /\ ~alertas[h][i]
           /\ alertas' = [alertas EXCEPT ![h][i] = TRUE]
    /\ UNCHANGED <<foraDaCaixa, alertar>>

(* POST /lidas: one UPDATE over the tenant's rows.                         *)
MarcarTodasLidas(t) ==
    /\ alertas' = [h \in AudienciasPossiveis |->
                      IF TenantDe[h] = t
                      THEN [i \in 1 .. Len(alertas[h]) |-> TRUE]
                      ELSE alertas[h]]
    /\ UNCHANGED <<foraDaCaixa, alertar>>

-----------------------------------------------------------------------------
UploadNext(h) == \/ Guardar(h)
                 \/ FalharGuardar(h)
                 \/ Registrar(h)
                 \/ FalharRegistrar(h)
                 \/ PublicarUpload(h)

NotificadorNext(n) == \/ LerAnalisadas(n)
                      \/ Decidir(n)
                      \/ CriarAlerta(n)
                      \/ FalharAlerta(n)
                      \/ ConfirmarAnalisada(n)

Next == \/ \E h \in AudienciasPossiveis : UploadNext(h) \/ InterromperUpload(h)
        \/ \E w \in Transcritores : Transcrever(w) \/ CairTranscritor(w)
        \/ \E w \in Analistas : Analisar(w) \/ CairAnalista(w)
        \/ \E n \in Notificadores : NotificadorNext(n) \/ CairNotificador(n)
        \/ \E t \in Tenants : SalvarPreferencias(t) \/ MarcarTodasLidas(t)
        \/ \E h \in AudienciasPossiveis : MarcarLida(h)

Spec == Init /\ [][Next]_vars

(***************************************************************************)
(* Fairness: the handler of an upload returns, each worker keeps reading,  *)
(* and its handler goes on to its end, well or badly.  Crashes, and the    *)
(* lawyer, owe nothing.                                                    *)
(***************************************************************************)
Justica ==
    /\ \A h \in AudienciasPossiveis : WF_vars(pedido[h] # "nova" /\ UploadNext(h))
    /\ \A w \in Transcritores : WF_vars(Transcrever(w))
    /\ \A w \in Analistas : WF_vars(Analisar(w))
    /\ \A n \in Notificadores : WF_vars(NotificadorNext(n))

SpecJusta == Spec /\ Justica

-----------------------------------------------------------------------------
(***************************************************************************)
(* The status tells what the row holds, whichever of the two workers wrote *)
(* it last and wherever a handler stopped: nothing before the transcript,  *)
(* the transcript from "transcribed" on, the analysis exactly when         *)
(* "analyzed", an error exactly when "failed".                             *)
(***************************************************************************)
StatusDizOQueHa ==
    \A h \in AudienciasPossiveis :
        LET l == linhas[h]
        IN  /\ l.erro <=> l.status = "failed"
            /\ "summary" \in l.colunas <=> l.status = "analyzed"
            /\ l.status \in {"transcribed", "analyzing", "analyzed"}
                   => "transcript" \in l.colunas
            /\ l.status \in {"", "uploaded", "transcribing"} => l.colunas = {}

(***************************************************************************)
(* The lawyer gets at most one alert per hearing, although nothing in the  *)
(* table of alerts says so.                                                *)
(***************************************************************************)
UmAlertaPorAudiencia ==
    \A h \in AudienciasPossiveis : Len(alertas[h]) <= 1

(***************************************************************************)
(* An acknowledgement is never premature: a message a worker acked has had *)
(* its effect and handed the hearing on, and the last one left an alert    *)
(* for a lawyer who never changed the preferences.  So what went wrong on  *)
(* the way is still in a pending list, not lost without a trace.           *)
(***************************************************************************)
Segue(de, para) == \A i \in de.confirmadas :
                       \E j \in 1 .. Len(para.itens) : para.itens[j] = de.itens[i]

ConfirmadaSegueAdiante ==
    /\ Segue(uploaded, transcribed)
    /\ Segue(transcribed, analyzed)
    /\ \A i \in analyzed.confirmadas :
           LET h == analyzed.itens[i]
           IN  alertar[TenantDe[h]] = "padrao" => alertas[h] # << >>

(***************************************************************************)
(* A message of h nobody will handle: delivered or trimmed, not acked, and *)
(* in no replica's hands.                                                  *)
(***************************************************************************)
Abandonada(f, lotes, h) ==
    \E i \in (1 .. Maior(f.entregue, f.corte)) \ f.confirmadas :
        f.itens[i] = h /\ \A w \in DOMAIN lotes : i \notin lotes[w]

(* The handler of the upload is over and audio.uploaded has no message.    *)
NuncaPublicada(h) ==
    /\ pedido[h] \in {"respondida", "recusada"}
    /\ \A i \in 1 .. Len(uploaded.itens) : uploaded.itens[i] # h

(* deAudiencia returned nil for h, with an alert or because they are off.  *)
Tratada(h) == \E i \in analyzed.confirmadas : analyzed.itens[i] = h

(***************************************************************************)
(* Every hearing that has a row comes to an end the system can tell, for   *)
(* all the failures and crashes: it failed and says so, the lawyer's alert *)
(* was dealt with, or it stopped at a message left pending or never        *)
(* published.  None stays in progress with nothing to show for it.         *)
(***************************************************************************)
TemDestino(h) == \/ linhas[h].status = "failed"
                 \/ Tratada(h)
                 \/ NuncaPublicada(h)
                 \/ Abandonada(uploaded, loteT, h)
                 \/ Abandonada(transcribed, loteA, h)
                 \/ Abandonada(analyzed, loteN, h)

TodaAudienciaTemDestino ==
    \A h \in AudienciasPossiveis : (linhas[h].status # "") ~> TemDestino(h)

-----------------------------------------------------------------------------
(***************************************************************************)
(* The services implement VidaDaAudiencia.                                 *)
(***************************************************************************)
EtapaDe(h) ==
    IF alertas[h] # << >>
    THEN (IF \A i \in 1 .. Len(alertas[h]) : alertas[h][i] THEN "lida" ELSE "alertada")
    ELSE IF "summary" \in linhas[h].colunas THEN "analisada"
    ELSE IF linhas[h].status = "failed" THEN "falhou"
    ELSE IF "transcript" \in linhas[h].colunas THEN "transcrita"
    ELSE IF linhas[h].status # "" THEN "registrada"
    ELSE IF h \in objetos THEN "guardada"
    ELSE "nova"

V == INSTANCE VidaDaAudiencia WITH
         Audiencias <- AudienciasPossiveis,
         etapa <- [h \in AudienciasPossiveis |-> EtapaDe(h)]

(* Every hearing lives the life VidaDaAudiencia allows, failures and all.  *)
ImplementaVida == V!Spec
=============================================================================
