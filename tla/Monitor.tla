------------------------------- MODULE Monitor -------------------------------
(***************************************************************************)
(* process-monitor-service: the portfolio of processes of each tenant, the *)
(* poller that asks the court's provider about every active process, and   *)
(* the goroutine POST /api/processes starts to ask about the new one at    *)
(* once.  Both run sincronizar, concurrently: insert each movement with ON *)
(* CONFLICT DO NOTHING, and publish movement.received for each one that    *)
(* was not there.                                                          *)
(*                                                                         *)
(* A tenant's data is its processes; a movement belongs to one process and *)
(* is named by the (process, provider_event_id) pair of the unique index.  *)
(***************************************************************************)
EXTENDS Fluxo

CONSTANTS Tenants,       \* rows of auth.tenants
          Processos,     \* the processes that may be registered
          Andamentos,    \* the movements the courts may publish
          TenantDe,      \* TenantDe[p]: the tenant that registers p
          ProcessoDe,    \* ProcessoDe[m]: the process m belongs to
          Poller,        \* the poller's thread of control
          Historico,     \* movements every answer of the provider includes
          Nenhum,        \* no process, no movement
          Falhas         \* the kinds of failure that may happen

(* The failures of this module: the provider's query, a transaction that   *)
(* rolls back, a commit whose answer is lost, an XADD that is not applied, *)
(* an XADD the client retries although it was applied, a process crash.    *)
FalhasDoMonitor ==
    {"provider", "banco", "commit", "barramento", "duplicacao", "queda"}

ASSUME MonitorAssumption ==
    /\ TenantDe \in [Processos -> Tenants]
    /\ ProcessoDe \in [Andamentos -> Processos]
    /\ Historico \subseteq Andamentos
    /\ Falhas \subseteq FalhasDoMonitor
    /\ Poller \notin Processos
    /\ Nenhum \notin Processos /\ Nenhum \notin Andamentos

(* The goroutine POST starts for process p is named p: a process is        *)
(* registered once, so it starts at most once.                             *)
Rotinas == Processos \cup {Poller}

VARIABLES
    processo,    \* process.monitored_processes: the status of each process
    visiveis,    \* what the provider answers about: published movements
    gravados,    \* process.movements: the rows there are
    received,    \* the stream movement.received and its consumer group
    passada,     \* the poller's pass: tenants to visit, processes to query
    sinc         \* sinc[r]: where routine r is inside sincronizar

monitorVars == <<processo, visiveis, gravados, received, passada, sinc>>

Parada == [fase |-> "parada", alvo |-> Nenhum, restam |-> {}, atual |-> Nenhum]

PassadaVazia == [tenants |-> {}, processos |-> {}]

MonitorTypeOK ==
    /\ processo \in [Processos -> {"inexistente", "ativo", "arquivado"}]
    /\ visiveis \in SUBSET Andamentos
    /\ gravados \in SUBSET Andamentos
    /\ received \in Fluxos(Andamentos)
    /\ passada \in [tenants : SUBSET Tenants, processos : SUBSET Processos]
    /\ sinc \in [Rotinas -> [fase : {"parada", "consultar", "gravar", "publicar"},
                             alvo : Processos \cup {Nenhum},
                             restam : SUBSET Andamentos,
                             atual : Andamentos \cup {Nenhum}]]

MonitorInit ==
    /\ processo = [p \in Processos |-> "inexistente"]
    /\ visiveis = Historico
    /\ gravados = {}
    /\ received = FluxoVazio
    /\ passada = PassadaVazia
    /\ sinc = [r \in Rotinas |-> Parada]

-----------------------------------------------------------------------------
(* The court publishes a movement: the queries answer it from now on.      *)
PublicarNoTribunal(m) ==
    /\ m \notin visiveis
    /\ visiveis' = visiveis \cup {m}
    /\ UNCHANGED <<processo, gravados, received, passada, sinc>>

(* A movement of the day leaves the provider's answers when the day ends;  *)
(* those of the history are in every answer.                               *)
SairDasRespostas(m) ==
    /\ m \in visiveis \ Historico
    /\ visiveis' = visiveis \ {m}
    /\ UNCHANGED <<processo, gravados, received, passada, sinc>>

(* POST /api/processes: the unique index refuses a number already in the   *)
(* portfolio, an archived one included.  When the answer to the commit is  *)
(* lost the process exists and nobody starts the goroutine.                *)
Cadastrar(p) ==
    /\ processo[p] = "inexistente"
    /\ processo' = [processo EXCEPT ![p] = "ativo"]
    /\ \/ sinc' = [sinc EXCEPT ![p] = [Parada EXCEPT !.fase = "consultar", !.alvo = p]]
       \/ "commit" \in Falhas /\ UNCHANGED sinc
    /\ UNCHANGED <<visiveis, gravados, received, passada>>

(* DELETE /api/processes/{id}: the status changes, the rows stay.          *)
Arquivar(p) ==
    /\ processo[p] = "ativo"
    /\ processo' = [processo EXCEPT ![p] = "arquivado"]
    /\ UNCHANGED <<visiveis, gravados, received, passada, sinc>>

-----------------------------------------------------------------------------
(* passada: the first one at once, then one at every tick that finds the   *)
(* previous one over.  A failure to list the tenants ends it there.        *)
PassadaOciosa == /\ passada = PassadaVazia
                 /\ sinc[Poller].fase = "parada"

IniciarPassada == /\ PassadaOciosa
                  /\ passada' = [PassadaVazia EXCEPT !.tenants = Tenants]
                  /\ UNCHANGED <<processo, visiveis, gravados, received, sinc>>

(* Mutant: the list is read outside the tenant, and is empty.              *)
AtivosForaDoTenant(t) == {}

(* Mutant: the query forgets the status.                                   *)
AtivosComArquivados(t) ==
    {p \in Processos : TenantDe[p] = t /\ processo[p] # "inexistente"}

(* passadaTenant: the list of active processes is read once, in its own    *)
(* transaction, and goes stale while the processes are queried.            *)
Ativos(t) == {p \in Processos : TenantDe[p] = t /\ processo[p] = "ativo"}

ListarAtivosComo(t, lista) ==
    /\ t \in passada.tenants
    /\ passada.processos = {}
    /\ sinc[Poller].fase = "parada"
    /\ passada' = [tenants |-> passada.tenants \ {t}, processos |-> lista]
    /\ UNCHANGED <<processo, visiveis, gravados, received, sinc>>

ListarAtivos(t) == ListarAtivosComo(t, Ativos(t))

(* An error listing one tenant's processes skips that tenant only.         *)
FalharListagem(t) == /\ "banco" \in Falhas
                     /\ ListarAtivosComo(t, {})

(* The next process of the pass enters sincronizar.                        *)
TomarProcesso(p) ==
    /\ p \in passada.processos
    /\ sinc[Poller].fase = "parada"
    /\ passada' = [passada EXCEPT !.processos = @ \ {p}]
    /\ sinc' = [sinc EXCEPT ![Poller] = [Parada EXCEPT !.fase = "consultar", !.alvo = p]]
    /\ UNCHANGED <<processo, visiveis, gravados, received>>

-----------------------------------------------------------------------------
(* sincronizar: after a movement, the next one, or the end.                *)
Seguinte(r, restam) ==
    [sinc EXCEPT ![r] = IF restam = {} THEN Parada
                        ELSE [fase |-> "gravar", alvo |-> @.alvo,
                              restam |-> restam, atual |-> Nenhum]]

Consultar(r) ==
    /\ sinc[r].fase = "consultar"
    /\ sinc' = Seguinte(r, {m \in visiveis : ProcessoDe[m] = sinc[r].alvo})
    /\ UNCHANGED <<processo, visiveis, gravados, received, passada>>

(* The provider fails: this process is left for the next pass.             *)
FalharConsulta(r) ==
    /\ sinc[r].fase = "consultar"
    /\ "provider" \in Falhas
    /\ sinc' = [sinc EXCEPT ![r] = Parada]
    /\ UNCHANGED <<processo, visiveis, gravados, received, passada>>

(* Mutant: an insert that does not tell a conflict from a new row.         *)
GravarSemConflito(r, m) ==
    /\ sinc[r].fase = "gravar"
    /\ m \in sinc[r].restam
    /\ gravados' = gravados \cup {m}
    /\ sinc' = [sinc EXCEPT ![r].fase = "publicar", ![r].atual = m,
                            ![r].restam = @ \ {m}]
    /\ UNCHANGED <<processo, visiveis, received, passada>>

(* inserirMovimentacao returns an id: the row is new and committed, and    *)
(* the routine goes on to publish it.                                      *)
Gravar(r, m) ==
    /\ sinc[r].fase = "gravar"
    /\ m \in sinc[r].restam
    /\ m \notin gravados
    /\ gravados' = gravados \cup {m}
    /\ sinc' = [sinc EXCEPT ![r].fase = "publicar", ![r].atual = m,
                            ![r].restam = @ \ {m}]
    /\ UNCHANGED <<processo, visiveis, received, passada>>

(* Mutant: a conflict is published as if it were a new row.                *)
JaConhecidaPublicando(r, m) ==
    /\ sinc[r].fase = "gravar"
    /\ m \in sinc[r].restam
    /\ m \in gravados
    /\ sinc' = [sinc EXCEPT ![r].fase = "publicar", ![r].atual = m,
                            ![r].restam = @ \ {m}]
    /\ UNCHANGED <<processo, visiveis, gravados, received, passada>>

(* ON CONFLICT DO NOTHING: the provider sent again what is already there.  *)
JaConhecida(r, m) ==
    /\ sinc[r].fase = "gravar"
    /\ m \in sinc[r].restam
    /\ m \in gravados
    /\ sinc' = Seguinte(r, sinc[r].restam \ {m})
    /\ UNCHANGED <<processo, visiveis, gravados, received, passada>>

(* Mutant: the error of the insert is ignored.                             *)
FalharGravacaoSeguindo(r, m) ==
    /\ sinc[r].fase = "gravar"
    /\ m \in sinc[r].restam
    /\ "banco" \in Falhas
    /\ sinc' = [sinc EXCEPT ![r].fase = "publicar", ![r].atual = m,
                            ![r].restam = @ \ {m}]
    /\ UNCHANGED <<processo, visiveis, gravados, received, passada>>

(* inserirMovimentacao returns an error: the movement is skipped until the *)
(* next pass, whether its row was rolled back or committed.                *)
FalharGravacao(r, m) ==
    /\ sinc[r].fase = "gravar"
    /\ m \in sinc[r].restam
    /\ \/ "banco" \in Falhas /\ UNCHANGED gravados
       \/ "commit" \in Falhas /\ gravados' = gravados \cup {m}
    /\ sinc' = Seguinte(r, sinc[r].restam \ {m})
    /\ UNCHANGED <<processo, visiveis, received, passada>>

(* Publish movement.received, after the row is committed.                  *)
PublicarRecebida(r) ==
    /\ sinc[r].fase = "publicar"
    /\ received' \in Publicacoes(received, sinc[r].atual, "duplicacao" \in Falhas)
    /\ sinc' = Seguinte(r, sinc[r].restam)
    /\ UNCHANGED <<processo, visiveis, gravados, passada>>

(* The XADD is not applied: the error is logged and the event is lost.  An *)
(* XADD that is applied and yet returns an error differs from a success    *)
(* only in the log: it is PublicarRecebida.                                *)
FalharPublicacao(r) ==
    /\ sinc[r].fase = "publicar"
    /\ "barramento" \in Falhas
    /\ sinc' = Seguinte(r, sinc[r].restam)
    /\ UNCHANGED <<processo, visiveis, gravados, received, passada>>

(* The service dies and comes back: what the poller and the goroutines     *)
(* had in hand is forgotten.                                               *)
CairMonitor ==
    /\ "queda" \in Falhas
    /\ passada' = PassadaVazia
    /\ sinc' = [r \in Rotinas |-> Parada]
    /\ <<passada, sinc>>' # <<passada, sinc>>
    /\ UNCHANGED <<processo, visiveis, gravados, received>>

-----------------------------------------------------------------------------
SincronizarOk(r) == \/ Consultar(r)
                    \/ \E m \in Andamentos : Gravar(r, m) \/ JaConhecida(r, m)
                    \/ PublicarRecebida(r)

SincronizarFalha(r) == \/ FalharConsulta(r)
                       \/ \E m \in Andamentos : FalharGravacao(r, m)
                       \/ FalharPublicacao(r)

MonitorNext ==
    \/ \E m \in Andamentos : PublicarNoTribunal(m) \/ SairDasRespostas(m)
    \/ \E p \in Processos : Cadastrar(p) \/ Arquivar(p) \/ TomarProcesso(p)
    \/ IniciarPassada
    \/ \E t \in Tenants : ListarAtivos(t) \/ FalharListagem(t)
    \/ \E r \in Rotinas : SincronizarOk(r) \/ SincronizarFalha(r)
    \/ CairMonitor

MonitorSpec == MonitorInit /\ [][MonitorNext]_monitorVars

(***************************************************************************)
(* Fairness: the ticker keeps firing and a routine inside sincronizar      *)
(* keeps running (weak); a query or a transaction that is tried again and  *)
(* again, pass after pass, succeeds at some point (strong).  Publishing is *)
(* never tried again, so nothing strong is assumed of it.                  *)
(***************************************************************************)
MonitorJustica ==
    /\ WF_monitorVars(IniciarPassada)
    /\ \A t \in Tenants : /\ WF_monitorVars(ListarAtivos(t) \/ FalharListagem(t))
                          /\ SF_monitorVars(ListarAtivos(t))
    /\ \A p \in Processos : SF_monitorVars(TomarProcesso(p))
    /\ \A r \in Rotinas : WF_monitorVars(SincronizarOk(r) \/ SincronizarFalha(r))
    /\ \A p \in Processos : SF_monitorVars(sinc[Poller].alvo = p /\ Consultar(Poller))
    /\ \A m \in Andamentos : SF_monitorVars(Gravar(Poller, m) \/ JaConhecida(Poller, m))

MonitorSpecJusta == MonitorSpec /\ MonitorJustica

-----------------------------------------------------------------------------
(* Routine r has inserted m and not yet published it.                      *)
Publicando(r, m) == sinc[r].fase = "publicar" /\ sinc[r].atual = m

(* Monitor implements Entrada: what is in flight is what some routine has  *)
(* inserted and is about to publish.                                       *)
EmVoo == {m \in Andamentos : \E r \in Rotinas : Publicando(r, m)}

Ent == INSTANCE Entrada WITH emVoo <- EmVoo

(* Rows and events come and go only as Entrada says.                       *)
ImplementaEntrada == Ent!EntradaSpec

(* A movement enters the bus at most once (see Entrada).                   *)
UmEventoPorAndamento == Ent!UmEventoPorAndamento

(***************************************************************************)
(* An event is published, or about to be, only for a committed row; the    *)
(* right to publish a row belongs to the one routine that inserted it, and *)
(* ends with the event.                                                    *)
(***************************************************************************)
PublicaQuemInseriu ==
    \A m \in Andamentos :
        /\ Ent!Publicado(m) => m \in gravados
        /\ \A r \in Rotinas : Publicando(r, m) => m \in gravados /\ ~Ent!Publicado(m)
        /\ \A r, s \in Rotinas : Publicando(r, m) /\ Publicando(s, m) => r = s

(***************************************************************************)
(* Whatever fails on the way to the database, a movement the provider      *)
(* answers about an active process gets its row: a failed query or insert  *)
(* is made good by a later pass, unless the process is archived or the     *)
(* provider stops answering it.                                            *)
(***************************************************************************)
TodoAndamentoGravado ==
    \A m \in Andamentos :
        (m \in visiveis /\ processo[ProcessoDe[m]] = "ativo")
            ~> \/ m \in gravados
               \/ processo[ProcessoDe[m]] = "arquivado"
               \/ m \notin visiveis

(***************************************************************************)
(* Archiving takes effect: a pass that already listed the process may      *)
(* still query it once, and after that no routine ever touches it again.   *)
(***************************************************************************)
ArquivamentoEncerra ==
    \A p \in Processos :
        (processo[p] = "arquivado") ~> [](\A r \in Rotinas : sinc[r].alvo # p)
=============================================================================
