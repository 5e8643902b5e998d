---------------------------- MODULE Movimentacoes ----------------------------
(***************************************************************************)
(* The movement pipeline, end to end.  The process monitor, as Entrada     *)
(* shows it, inserts a movement and publishes movement.received; the       *)
(* classification-worker consumes it, writes the classification into the   *)
(* row and publishes movement.classified; the notification-service         *)
(* consumes that, creates the alert or silences it, and marks the row.     *)
(*                                                                         *)
(* Each worker is a replica of Consumidores whose handler takes several    *)
(* steps, one per transaction or publication, and may fail or die between  *)
(* any two of them.                                                        *)
(***************************************************************************)
EXTENDS Entrada, Fallback, Corpo

CONSTANTS Tenants,           \* rows of auth.tenants
          TenantDe,          \* TenantDe[m]: whose movement m is
          DescricaoDe,       \* DescricaoDe[m]: its text, which the alert quotes
          Classificadores,   \* replicas of the classification-worker
          Notificadores,     \* replicas of the notification-service
          Piso,              \* CLASSIFY_PISO
          Respondidas,       \* urgencies the model answers with
          MinimaPadrao,      \* NOTIFY_URGENCIA_MINIMA
          Minimas,           \* minimum urgencies a tenant may choose
          SemLaudo           \* NULL in movements.urgencia_classificada

(* The failures: a transaction that rolls back, a commit whose answer is   *)
(* lost, an XADD that returns an error, an XADD the client sends again     *)
(* although it was applied, a crash of a service, a model that answers     *)
(* every attempt with an error, a read or an XACK that goes wrong.         *)
TodasAsFalhas ==
    {"banco", "commit", "barramento", "duplicacao", "queda", "llm", "ack"}

ASSUME MovimentacoesAssumption ==
    /\ IsFiniteSet(Andamentos)
    /\ Piso \in Urgencias
    /\ MinimaPadrao \in Urgencias
    /\ Minimas \subseteq Urgencias
    /\ Falhas \subseteq TodasAsFalhas
    /\ TenantDe \in [Andamentos -> Tenants]
    /\ DescricaoDe \in [Andamentos -> Textos]
    /\ SemLaudo \notin [urg : Urgencias, fallback : BOOLEAN]

VARIABLES
    laudo,        \* laudo[m]: columns urgencia_classificada, fallback_aplicado
    notificada,   \* rows whose notificado_em is set
    avisos,       \* avisos[m]: the alerts in the inbox that refer to m
    antigas,      \* movements older than NOTIFY_IDADE_MAXIMA by now
    minima,       \* notification.preferencias: minima[t]
    classified,   \* the stream movement.classified and its consumer group
    loteC, cw,    \* classification-worker: batch in hand; handler's place
    loteN, ns     \* notification-service: the same

consumidorVars == <<laudo, notificada, avisos, antigas, minima, classified,
                    loteC, cw, loteN, ns>>
vars == <<entradaVars, consumidorVars>>

MaxEventos == 4 * Cardinality(Andamentos)

C == INSTANCE Consumidores WITH fluxo <- received, lote <- loteC,
         Replicas <- Classificadores, Mensagens <- Andamentos,
         MaxMensagens <- MaxEventos

Laudos == [urg : Urgencias, fallback : BOOLEAN]
Classificadas == [mov : Andamentos, urg : Urgencias, fallback : BOOLEAN]

N == INSTANCE Consumidores WITH fluxo <- classified, lote <- loteN,
         Replicas <- Notificadores, Mensagens <- Classificadas,
         MaxMensagens <- MaxEventos

CwLivre == [fase |-> "livre", res |-> SemLaudo]

TypeOK ==
    /\ EntradaTypeOK
    /\ laudo \in [Andamentos -> Laudos \cup {SemLaudo}]
    /\ notificada \in SUBSET Andamentos
    /\ avisos \in [Andamentos -> Seq(Laudos)]
    /\ antigas \in SUBSET Andamentos
    /\ minima \in [Tenants -> Urgencias]
    /\ classified \in Fluxos(Classificadas)
    /\ loteC \in [Classificadores -> SUBSET Nat]
    /\ cw \in [Classificadores -> [fase : {"livre", "salvar", "publicar", "confirmar"},
                                   res : Laudos \cup {SemLaudo}]]
    /\ loteN \in [Notificadores -> SUBSET Nat]
    /\ ns \in [Notificadores -> {"livre", "criar", "marcar", "confirmar"}]

Init == /\ EntradaInit
        /\ laudo = [m \in Andamentos |-> SemLaudo]
        /\ notificada = {}
        /\ avisos = [m \in Andamentos |-> << >>]
        /\ antigas \in SUBSET Andamentos
        /\ minima = [t \in Tenants |-> MinimaPadrao]
        /\ classified = FluxoVazio
        /\ loteC = [w \in Classificadores |-> {}]
        /\ cw = [w \in Classificadores |-> CwLivre]
        /\ loteN = [n \in Notificadores |-> {}]
        /\ ns = [n \in Notificadores |-> "livre"]

-----------------------------------------------------------------------------
(* The process monitor.                                                    *)
Monitorar == EntradaNext /\ UNCHANGED consumidorVars

(* Time passes: a movement becomes too old to be worth an alert.           *)
Envelhecer(m) ==
    /\ m \notin antigas
    /\ antigas' = antigas \cup {m}
    /\ UNCHANGED <<entradaVars, laudo, notificada, avisos, minima, classified,
                   loteC, cw, loteN, ns>>

(* PUT /api/notifications/preferencias, urgencia_minima.                   *)
SalvarPreferencias(t, u) ==
    /\ minima[t] # u
    /\ minima' = [minima EXCEPT ![t] = u]
    /\ UNCHANGED <<entradaVars, laudo, notificada, avisos, antigas, classified,
                   loteC, cw, loteN, ns>>

-----------------------------------------------------------------------------
(* classification-worker *)
cLivres == <<gravados, emVoo, notificada, avisos, antigas, minima, loteN, ns>>

LerRecebidas(w) ==
    /\ cw[w].fase = "livre"
    /\ C!Ler(w) \/ ("ack" \in Falhas /\ C!LeituraPerdida(w))
    /\ UNCHANGED <<cLivres, laudo, classified, cw>>

MovDe(w) == received.itens[C!Cabeca(loteC[w])]

(* Classificar never fails: the worst outcome is the floor.  The payload   *)
(* always decodes, Publish having encoded it.                              *)
Classificacoes ==
    {PorResposta([urg |-> u, confianca |-> c], Piso, 1) : u \in Respondidas, c \in {0, 1}}
    \cup (IF "llm" \in Falhas THEN {SemResposta(Piso)} ELSE {})

(* Mutant: an error of the model ends the handler.                         *)
ClassificarOuDesistir(w) ==
    /\ cw[w].fase = "livre"
    /\ \/ /\ loteC[w] # {}
          /\ \E r \in Classificacoes :
                 cw' = [cw EXCEPT ![w] = [fase |-> "salvar", res |-> r]]
          /\ UNCHANGED <<received, loteC>>
       \/ "llm" \in Falhas /\ C!Falhar(w) /\ UNCHANGED cw
    /\ UNCHANGED <<cLivres, laudo, classified>>

Classificar(w) ==
    /\ cw[w].fase = "livre"
    /\ loteC[w] # {}
    /\ \E r \in Classificacoes :
           cw' = [cw EXCEPT ![w] = [fase |-> "salvar", res |-> r]]
    /\ UNCHANGED <<cLivres, received, loteC, laudo, classified>>

(* salvar: UPDATE the row.  An error ends the handler, whether the update  *)
(* was rolled back or committed.                                           *)
Salvar(w) ==
    /\ cw[w].fase = "salvar"
    /\ laudo' = [laudo EXCEPT ![MovDe(w)] = cw[w].res]
    /\ cw' = [cw EXCEPT ![w].fase = "publicar"]
    /\ UNCHANGED <<cLivres, received, loteC, classified>>

(* Mutant: the error of the update is ignored.                             *)
FalharSalvarSeguindo(w) ==
    /\ cw[w].fase = "salvar"
    /\ "banco" \in Falhas
    /\ cw' = [cw EXCEPT ![w].fase = "publicar"]
    /\ UNCHANGED <<cLivres, laudo, received, loteC, classified>>

FalharSalvar(w) ==
    /\ cw[w].fase = "salvar"
    /\ \/ "banco" \in Falhas /\ UNCHANGED laudo
       \/ "commit" \in Falhas /\ laudo' = [laudo EXCEPT ![MovDe(w)] = cw[w].res]
    /\ C!Falhar(w)
    /\ cw' = [cw EXCEPT ![w] = CwLivre]
    /\ UNCHANGED <<cLivres, classified>>

(* Mutant: the event does not carry the fallback mark.                     *)
EventoSemMarca(w) == [mov |-> MovDe(w), urg |-> cw[w].res.urg, fallback |-> FALSE]

EventoDe(w) == [mov |-> MovDe(w), urg |-> cw[w].res.urg, fallback |-> cw[w].res.fallback]

PublicarClassificada(w) ==
    /\ cw[w].fase = "publicar"
    /\ classified' \in Publicacoes(classified, EventoDe(w), "duplicacao" \in Falhas)
    /\ cw' = [cw EXCEPT ![w].fase = "confirmar"]
    /\ UNCHANGED <<cLivres, received, loteC, laudo>>

(* Mutant: the error of Publish is logged, and the message acknowledged.   *)
FalharClassificadaConfirmando(w) ==
    /\ cw[w].fase = "publicar"
    /\ "barramento" \in Falhas
    /\ C!Concluir(w)
    /\ cw' = [cw EXCEPT ![w] = CwLivre]
    /\ UNCHANGED <<cLivres, laudo, classified>>

(* An error of Publish ends the handler too, whether the XADD was applied  *)
(* or not.                                                                 *)
FalharClassificada(w) ==
    /\ cw[w].fase = "publicar"
    /\ "barramento" \in Falhas
    /\ classified' \in Publicacoes(classified, EventoDe(w), "duplicacao" \in Falhas)
                           \cup {classified}
    /\ C!Falhar(w)
    /\ cw' = [cw EXCEPT ![w] = CwLivre]
    /\ UNCHANGED <<cLivres, laudo>>

ConfirmarRecebida(w) ==
    /\ cw[w].fase = "confirmar"
    /\ C!Concluir(w) \/ ("ack" \in Falhas /\ C!Falhar(w))
    /\ cw' = [cw EXCEPT ![w] = CwLivre]
    /\ UNCHANGED <<cLivres, laudo, classified>>

CairClassificador(w) ==
    /\ "queda" \in Falhas
    /\ C!Reiniciar(w)
    /\ cw' = [cw EXCEPT ![w] = CwLivre]
    /\ UNCHANGED <<cLivres, laudo, classified>>

-----------------------------------------------------------------------------
(* notification-service, consumer of movement.classified *)
nLivres == <<entradaVars, laudo, antigas, minima, loteC, cw>>

LerClassificadas(n) ==
    /\ ns[n] = "livre"
    /\ N!Ler(n) \/ ("ack" \in Falhas /\ N!LeituraPerdida(n))
    /\ UNCHANGED <<nLivres, notificada, avisos, ns>>

Evento(n) == classified.itens[N!Cabeca(loteN[n])]
TenantDoEvento(n) == TenantDe[Evento(n).mov]

(* prefsDoTenant: if the preferences cannot be read, the defaults serve.   *)
MinimasLidas(t) ==
    {minima[t]} \cup (IF "banco" \in Falhas THEN {MinimaPadrao} ELSE {})

(* Mutant: the filter ignores the fallback mark.                           *)
IrrelevanteSemMarca(ev, m) == Nivel(ev.urg) < Nivel(m)

(* The filter: an urgency below the tenant's minimum is irrelevant, unless *)
(* it is a fallback, where it means "unknown".                             *)
Irrelevante(ev, m) == ~ev.fallback /\ Nivel(ev.urg) < Nivel(m)

(* deMovimentacao decides: an old or irrelevant movement is only marked.   *)
(* The age is looked at first and the preferences then; nothing else reads *)
(* the clock in between, so one step does for both.                        *)
Decidir(n) ==
    /\ ns[n] = "livre"
    /\ loteN[n] # {}
    /\ \E m \in MinimasLidas(TenantDoEvento(n)) :
           ns' = [ns EXCEPT ![n] =
                     IF Evento(n).mov \in antigas \/ Irrelevante(Evento(n), m)
                     THEN "marcar" ELSE "criar"]
    /\ UNCHANGED <<nLivres, classified, loteN, notificada, avisos>>

(* store.criar: INSERT the alert, if Postgres accepts its text.  Nothing   *)
(* makes it unique.  Despachar, which follows, changes no state and never  *)
(* fails.                                                                  *)
CorpoAceito(n) == Gravavel(DescricaoDe[Evento(n).mov])

AvisosCom(n) ==
    [avisos EXCEPT ![Evento(n).mov] =
        Append(@, [urg |-> Evento(n).urg, fallback |-> Evento(n).fallback])]

CriarAviso(n) ==
    /\ ns[n] = "criar"
    /\ CorpoAceito(n)
    /\ avisos' = AvisosCom(n)
    /\ ns' = [ns EXCEPT ![n] = "marcar"]
    /\ UNCHANGED <<nLivres, classified, loteN, notificada>>

(* An error ends the handler, whether the alert was committed or not.      *)
FalharAviso(n) ==
    /\ ns[n] = "criar"
    /\ \/ (CorpoAceito(n) => "banco" \in Falhas) /\ UNCHANGED avisos
       \/ "commit" \in Falhas /\ CorpoAceito(n) /\ avisos' = AvisosCom(n)
    /\ N!Falhar(n)
    /\ ns' = [ns EXCEPT ![n] = "livre"]
    /\ UNCHANGED <<nLivres, notificada>>

(* marcarMovimentacaoNotificada: a transaction of its own, after the alert *)
Marcar(n) ==
    /\ ns[n] = "marcar"
    /\ notificada' = notificada \cup {Evento(n).mov}
    /\ ns' = [ns EXCEPT ![n] = "confirmar"]
    /\ UNCHANGED <<nLivres, classified, loteN, avisos>>

FalharMarcar(n) ==
    /\ ns[n] = "marcar"
    /\ \/ "banco" \in Falhas /\ UNCHANGED notificada
       \/ "commit" \in Falhas /\ notificada' = notificada \cup {Evento(n).mov}
    /\ N!Falhar(n)
    /\ ns' = [ns EXCEPT ![n] = "livre"]
    /\ UNCHANGED <<nLivres, avisos>>

ConfirmarClassificada(n) ==
    /\ ns[n] = "confirmar"
    /\ N!Concluir(n) \/ ("ack" \in Falhas /\ N!Falhar(n))
    /\ ns' = [ns EXCEPT ![n] = "livre"]
    /\ UNCHANGED <<nLivres, notificada, avisos>>

CairNotificador(n) ==
    /\ "queda" \in Falhas
    /\ N!Reiniciar(n)
    /\ ns' = [ns EXCEPT ![n] = "livre"]
    /\ UNCHANGED <<nLivres, notificada, avisos>>

-----------------------------------------------------------------------------
ClassificadorNext(w) == \/ LerRecebidas(w)
                        \/ Classificar(w)
                        \/ Salvar(w)
                        \/ FalharSalvar(w)
                        \/ PublicarClassificada(w)
                        \/ FalharClassificada(w)
                        \/ ConfirmarRecebida(w)

NotificadorNext(n) == \/ LerClassificadas(n)
                      \/ Decidir(n)
                      \/ CriarAviso(n)
                      \/ FalharAviso(n)
                      \/ Marcar(n)
                      \/ FalharMarcar(n)
                      \/ ConfirmarClassificada(n)

Next == \/ Monitorar
        \/ \E m \in Andamentos : Envelhecer(m)
        \/ \E t \in Tenants, u \in Minimas : SalvarPreferencias(t, u)
        \/ \E w \in Classificadores : ClassificadorNext(w) \/ CairClassificador(w)
        \/ \E n \in Notificadores : NotificadorNext(n) \/ CairNotificador(n)

Spec == Init /\ [][Next]_vars

(***************************************************************************)
(* Fairness: what is in flight gets published, each worker keeps reading,  *)
(* and its handler goes on to its end, well or badly: no answer of the     *)
(* model, of the database or of Redis is waited for for ever.              *)
(***************************************************************************)
Justica ==
    /\ \A m \in Andamentos : WF_vars(Publicar(m) /\ UNCHANGED consumidorVars)
    /\ \A w \in Classificadores : WF_vars(ClassificadorNext(w))
    /\ \A n \in Notificadores : WF_vars(NotificadorNext(n))

SpecJusta == Spec /\ Justica

-----------------------------------------------------------------------------
(***************************************************************************)
(* The lawyer gets at most one alert per movement, although nothing in     *)
(* the notification table says so: it rests on one event per movement and  *)
(* on consumer groups that never deliver an entry twice.                   *)
(***************************************************************************)
UmAvisoPorAndamento == \A m \in Andamentos : Len(avisos[m]) <= 1

(***************************************************************************)
(* What the bus carries and what the inbox shows about a movement is what  *)
(* its row says: the same urgency and the same fallback mark.              *)
(***************************************************************************)
RelatosConcordam ==
    /\ \A i \in 1 .. Len(classified.itens) :
           LET ev == classified.itens[i]
           IN  laudo[ev.mov] = [urg |-> ev.urg, fallback |-> ev.fallback]
    /\ \A m \in Andamentos : \A i \in 1 .. Len(avisos[m]) : avisos[m][i] = laudo[m]

(***************************************************************************)
(* No silence by mistake: a movement marked as dealt with that is still    *)
(* recent, and is of the highest urgency or was classified by the          *)
(* fallback, has its alert, whatever minimum the tenant set and whenever.  *)
(***************************************************************************)
NenhumSilencioIndevido ==
    \A m \in notificada \ antigas :
        laudo[m].fallback \/ laudo[m].urg = "alta" => avisos[m] # << >>

(***************************************************************************)
(* A movement that was received leaves the pending lists only when it is   *)
(* dealt with: the classifier acknowledges after the event is on its way,  *)
(* the notifier after the mark.  So a movement that stopped half way, at   *)
(* any failure of either service, is still named by an entry that no one   *)
(* acknowledged, read or unread: nothing else would tell it from one that  *)
(* is done.                                                                *)
(***************************************************************************)
Efeito(i) == \E k \in 1 .. Len(classified.itens) :
                 classified.itens[k].mov = received.itens[i]

ConfirmadaFezEfeito ==
    /\ \A i \in received.confirmadas : Efeito(i)
    /\ \A k \in classified.confirmadas : classified.itens[k].mov \in notificada

(***************************************************************************)
(* "toda movimentacao recebida e resolvida": if the database and the bus   *)
(* do their part, failures of the model and of the provider stop nothing:  *)
(* every recorded movement ends up classified and marked.                  *)
(***************************************************************************)
TodaMovimentacaoResolvida ==
    \A m \in Andamentos : (m \in gravados) ~> (m \in notificada)

-----------------------------------------------------------------------------
(***************************************************************************)
(* The pipeline implements Ciclo.                                          *)
(***************************************************************************)
EtapaDe(m) ==
    IF m \in notificada THEN (IF avisos[m] = << >> THEN "silenciada" ELSE "encerrada")
    ELSE IF avisos[m] # << >> THEN "avisada"
    ELSE IF laudo[m] # SemLaudo THEN "classificada"
    ELSE IF m \in gravados THEN "gravada"
    ELSE "desconhecida"

Cic == INSTANCE Ciclo WITH etapa <- [m \in Andamentos |-> EtapaDe(m)]

(* Every movement lives the life Ciclo promises, failures and all.         *)
ImplementaCiclo == Cic!Spec
=============================================================================
