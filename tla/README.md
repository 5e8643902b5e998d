# Meirinho in TLA+

Formal models of Meirinho: Go services around a Redis Streams bus and a
Postgres database that watch a lawyer's court processes, classify each movement
by urgency, and raise alerts. The modules are translated from the Go code and
keep its (Portuguese) names; TLC checks them on small instances and TLAPS
proves the central theorems for every value of the constants.

## 1. Inventory of the system

| component | state it keeps | operations | talks to |
|---|---|---|---|
| event bus (`internal/platform/events`) | a stream per topic, one consumer group per service, pending entries | `Publish`, `Consume` | every service |
| process-monitor-service | processes, movements; poller and goroutines in memory | register, archive, poll, `sincronizar` | court provider, database, bus |
| classification-worker | the classification columns of a movement | `processar`, `Classificar`, `comRetry` | model, database, bus |
| notification-service | alerts, preferences, the mark `notificado_em` | `deMovimentacao`, `deAudiencia`, preferences, mark as read | database, bus |
| hearing-service | hearings, audio objects | upload, list, detail | storage, database, bus |
| transcription-worker | status and transcript of a hearing | `processar` | storage, transcriber, database, bus |
| analysis-service | status and analysis of a hearing | `processar` | model, database, bus |
| auth-service, `authn` | tenants, password hashes; tokens keep no state | register, log in, profile, password, retention | database |
| `db` | transactions (`TenantTx`, `AdminTx`), `schema_migrations` | migrate | Postgres |
| `storage`, `llm` | none | clients of MinIO and of the model | |
| `service`, `config`, `httpx`, `logging`, `obs` | none | plumbing | |
| `apps/web` | session token, what each page loaded | load, poll, log in and out | gateway |
| `cmd/migrate`, volume of Postgres | `schema_migrations`, passwords of two roles | enter, apply, synchronise | Postgres |
| `cmd/seed`, mock data | the demonstration account | fill it through the API | gateway |
| gateway, compose | volumes, order and restart of containers | deploy | all |

The movement pipeline is
`process-monitor --movement.received--> classification-worker
--movement.classified--> notification-service`; the hearing pipeline is
`hearing --audio.uploaded--> transcription --audio.transcribed--> analysis
--hearing.analyzed--> notification`. The services share the database, one
transaction at a time. The notification-service writes a column of the
monitor's table.

What is hard, and the properties that make each component correct:

- **Bus.** A message that is read but not acknowledged, replicas that die and
  return under another name, answers of Redis that get lost, and a trim that
  ignores readers. Correct means that no message has two holders, none is
  handled twice, none is lost unread except by a group more than MAXLEN behind,
  and none stays in hand for ever.
- **Monitor.** Two routines insert the same movement at the same time; the row
  and its event are two steps; the list of active processes goes stale; the
  provider and the database fail. Correct means one event per movement, from
  whoever inserted the row, every movement of an active process recorded, and
  an archived process left alone.
- **Classification.** Retries, cancellation and doubtful answers. Correct means
  a usable result always, raised and never lowered, and unmarked only when it
  can be trusted.
- **Notification.** The filter, the alert and the mark are separate steps over
  data other services wrote. Correct means at most one alert per movement, no
  silence without a reason, and an inbox that agrees with the row.
- **Hearings.** Storage, row and event are three steps; two workers write one
  status; a shutdown cuts a transcription and its record of the failure; the
  text of an alert is cut by bytes. Correct means a status that tells what the
  row holds, one alert, no acknowledgement before its effect, and no hearing left
  in progress with nothing to show for it.
- **Accounts and sessions.** A password is compared in one transaction and
  written in another; tabs share a token and get each other's answers late.
  Correct means that only who knew the password changes it, that a living session
  ends for known reasons only, and that a tab shows the account it acts for.
- **Deploy.** The volume remembers the first passwords; two runners look at the
  same list of files; each service waits for its dependencies and starts over; the
  seed may stop anywhere. Correct means the files applied once and in order before
  anyone serves, passwords that change only in the ways foreseen, services that
  come up, and a seed that sends nothing twice.

The full list of hazards, each with its line and the properties that would catch
it, is in `PROJECT.json`.

## 2. Modules

| module | models | state |
|---|---|---|
| `Fluxo` | one Redis stream and its group as `events.go` uses them: XADD with approximate MAXLEN, XREADGROUP `>`, XACK | operators on a record |
| `Consumidores` | `Bus.Consume` run by several replicas | `fluxo`; `lote[c]`, the batch replica c holds |
| `Entrega` | abstract: the one-way life of each message | `situacao[i]` |
| `Urgencia`, `Fallback` | `domain.Urgencia`; the conservative fallback of `Classificar` | operators |
| `Classificador` | one call of `Classificar`, with `comRetry` | configuration, attempts, answer, result |
| `Entrada` | abstract: a row is inserted once, and its event published at most once by whoever inserted it | `gravados`, `emVoo`, `received` |
| `Monitor` | process-monitor-service | `processo`, `visiveis`, `gravados`, `received`, `passada`, `sinc[r]` |
| `Movimentacoes` | the pipeline: `Entrada`, two `Consumidores` and their handlers | streams, rows, alerts, place of each handler |
| `Ciclo` | abstract: what the three services promise about each movement | `etapa[m]`, `laudo[m]`, `antigas` |
| `Corpo` | `truncar`: a text is the widths of its characters | operators |
| `EtapaDaAudiencia` | one worker of the hearing pipeline: mark, engine, save, publish, acknowledge, with every failure | `entrada`, `lote`, `lugar`, `linhas`, `saida` (its parameters) |
| `Audiencias` | hearing-service, two instances of `EtapaDaAudiencia`, `deAudiencia`, marks of read alerts | objects, rows, three streams, places, alerts |
| `VidaDaAudiencia` | abstract: the life of a hearing | `etapa[h]` |
| `Contas` | auth-service and `authn` | `contas`, tokens, `pedido[r]` (requests in flight) |
| `Sessoes` | `api.ts`, `auth.tsx` and the pages that open or end a session, over `Contas` | the shared token, account each tab shows |
| `Migracao` | the volume, init.sh, `cmd/migrate`, `db.Migrar` | `volume`, `schema`, `versoes`, `migrador[m]` |
| `Partida` | the mains of the services up to where they serve or consume; `Fatal` and the restart policy | `etapa[s]`, `ambiente[s]`, `bucket`, `escuta[f]` |
| `Semeadura` | `cmd/seed`, request by request | `semente`, `conta`, `carteira`, `acervo` |
| `Implantacao` | a deploy: the three above | |
| `MC...` | an instance of the module named after it, for TLC | |
| `ConsumidoresProofs`, `ClassificadorProofs`, `EntradaProofs`, `MonitorProofs`, `MovimentacoesProofs`, `AudienciasProofs`, `SessoesProofs`, `ImplantacaoProofs` | lemmas and theorems | |

How code becomes actions. A database transaction (`TenantTx`), an XADD, an
XREADGROUP, an XACK and a call to the provider or the model are one step each;
local code between two of them belongs to the step before or after it. The place
of a goroutine between steps is explicit: `sinc[r].fase` for `sincronizar`,
`cw[w].fase` for `processar` of the classification-worker, `ns[n]` for
`deMovimentacao`. An action is named after the code it stands for, and its
failure is an action beside it (`Gravar` / `FalharGravacao`, `Salvar` /
`FalharSalvar`, `CriarAviso` / `FalharAviso`). A failed transaction has two
outcomes: rolled back (`"banco"`), or committed with the answer lost
(`"commit"`). The constant `Falhas` says which kinds of failure an instance has.

Composition. `Movimentacoes` extends `Entrada`, and takes two instances of
`Consumidores`: `C` over `received` and `N` over `classified`. Each handler
action that reads, finishes or drops a message *is* the action of that instance
(`C!Ler(w)`, `C!Concluir(w)`, `C!Falhar(w)`, `C!Reiniciar(w)`). `Monitor` implements
`Entrada` (`emVoo` is the set of movements some routine has inserted and is
about to publish), which is why the pipeline can use `Entrada` in its place.
`Audiencias` takes `EtapaDaAudiencia` twice, `T` (transcription-worker) from
`uploaded` to `transcribed` and `A` (analysis-service) from there to `analyzed`;
each is in turn a `Consumidores`. `Sessoes` extends `Contas`: what a tab sends
is a request of `Contas`, and what it does with the answer is an action of
`Sessoes`. `Partida` extends `Migracao`, and `Semeadura` extends `Partida`: a
service connects if its password is the one the volume has, and a request of the
seed is answered if its service is up.

Abstractions. Payloads are the fields later steps read. The confidence is an
integer compared with an integer minimum. The provider's movements are taken in
any order, as are the processes of a pass. An applied XADD may be sent again
once (the client's default allows three retries; one already makes a
duplicate). A movement `m` stands for its `(process, provider_event_id)` pair; its
tenant and process are functions. An account keeps the passwords it has had, in
order, and a token is the index of who it was issued for. In `Semeadura` one
failed request may have been served; of a log in followed by a registration only
the outcome is kept. Compose never passes an empty `APP_DB_PASSWORD`, so the early
return of `sincronizarPapelApp` has no state; it reads `pg_roles` and changes the
role in one step, since nothing drops roles. Formatting, texts, logs, metrics and HTTP
validation are left out. In each module, comments that begin with "Mutant:" mark
variants of a definition with a plausible bug; no specification uses them. They
show which property breaks when the code is wrong in that way.

## 3. Runs

| run | instance | what it shows |
|---|---|---|
| `consumidores` | 2 replicas, 5 messages, MAXLEN 2, batches of 2 | `PosseUnica`, `NuncaReentregue`, refinement of `Entrega`, `SemAtrasoNadaSePerde` (no entry goes undelivered to a group that was never more than MAXLEN behind), and that every message settles |
| `consumidores_pendente` | 2 messages, 2 replicas; every read is answered and none stops | **violated**: a message whose handler failed is never handed over again |
| `classificador` | 4 floors, 5 answers x 3 confidences, 4 minimums, 1 to 3 attempts | the result is usable, never lowered, marked when doubtful; all attempts are used |
| `classificador_sem_tentativa` | attempts -1 to 1 | **violated**: no attempt, nil answer, panic |
| `monitor` | 2 tenants, 2 processes, 2 movements of one of them; every failure but duplication | one event per movement by its inserter, refinement of `Entrada`, every movement recorded, archiving final |
| `monitor_reenvio` | the same with only duplication | **violated**: an XADD sent again makes two events |
| `movimentacoes` | 2 movements, 1 classifier, 1 notifier, batches of 2, MAXLEN 1, every failure but duplication | at most one alert, agreement of row, event and alert, no undue silence, no acknowledgement before the event or the mark it stands for (`ConfirmadaFezEfeito`), refinement of `Ciclo` |
| `movimentacoes_vivas` | 2 movements, 2 classifiers, 1 notifier, failing model only | every recorded movement is resolved |
| `movimentacoes_texto` | 2 movements, no failure at all, a text whose cut falls inside a character | **violated**: that movement is never resolved |
| `audiencias` | 2 hearings of one tenant, 1 replica of each service, every failure but duplication; one text is cut inside a character | status and row agree, one alert, no early acknowledgement, refinement of `VidaDaAudiencia`, and every hearing comes to an end that can be told |
| `sessoes` | 2 tabs, 2 accounts (an e-mail in two spellings), 2 requests at once, 2 tokens, failures of database and network | `TrocaDeQuemSabia`, `SessaoViveAteQue`, `TelaDizQuemE` |
| `implantacao` | volume new or old, with or without the role; 2 runners, 2 deploys out of 3 configurations, 3 files, hearing- and notification-service, 1 crash or outage, 2 runs of the seed with 2 processes and 2 hearings | `EsquemaEmDia`, `SenhasDoVolume`, services come up, `SementeUmaVez` |

Why these bounds are enough. In `consumidores`, five messages with MAXLEN 2 and
batches of 2 let the trim pass the group's cursor, let a replica hold a whole
batch while the other reads the next one, and leave messages unread behind both.
`monitor` has three routines (the poller and two goroutines), so two can be
between the insert and the publication of the same process, and two movements
so that a routine is interrupted between its two inserts; the second tenant is
there for the pass that goes on. In `movimentacoes`, two movements fit in one
batch, so a crash or failure on the first can meet the second, and MAXLEN 1
allows a trim of messages still unread. The two replicas of a worker compete in
`consumidores` and in `movimentacoes_vivas`; their independence for any number is
proved. `MaxMensagens` and `MaxEventos` bound the messages ever published; the
pipeline never reaches `MaxEventos`. Movements in `movimentacoes` are
symmetric, and that run has no liveness property. In `audiencias`, two hearings
share a batch, so the failure of one meets the other, and MaxLen 1 lets a trim
pass unread messages; with `MaxCorpo` 4, two texts of 5 bytes are cut at and
inside a character. In `sessoes`, two tabs with two requests are the least in
which an answer arrives after the token it was sent with was replaced by another
tab's; three spellings of two e-mails reach the index on `lower(email)`; `MaxTrocas`
bounds the password changes. In `implantacao`, the volumes left by an earlier
start spare a deploy, so that two runners can both enter with the default
password; of three files one precedes the GRANTs and one follows; hearing- and
notification-service are the two kinds of main that the properties tell apart
(one with a bucket, one with consumers on the side), a service outside the
instance is taken for one that answers, and the workers differ only in one more
dependency. `MaxQuedas` is 1: a crash in each place, not two. `CHECK_DEADLOCK FALSE` is
everywhere because each instance can legitimately stop: the call returns, or
every bounded message has been handled and nothing more arrives.

What the violated runs say about the code:

1. `events.go` says twice that a failed message "fica pendente no grupo e pode
   ser reprocessada". It reads only `>`, and nothing claims pending entries. The run
   has neither lost reads nor restarts (`SpecSemPerda`): in its trace a handler
   returns an error, and the message is pending for ever while both replicas run.
2. `Classificar` "devolve sempre uma classificação utilizável", except with
   `CLASSIFY_TENTATIVAS` at or below zero, which nothing refuses.
3. The unique index keeps duplicated rows out, but the default retries of the
   Redis client may still put two events of one row on the bus.
4. `truncar` cuts at a byte: a long description with an accent in the wrong place
   is no UTF-8, Postgres refuses the alert, and the message stays pending
   (`movimentacoes_texto`; `audiencias` has the same text as a summary).

Three properties of passing runs are weaker than a comment of the code, four
times in all (see `findings`): a password change is of who knew *a*
password the account had since the request began, not the current one
(`TrocaDeQuemSabia`); a living token is dropped by a load whose `/auth/eu` failed with
anything but a 401 (the network, or the 404 of a failed database), by a 401 to a request
sent with a dead token, and by a 401 to a log in, of a wrong password or of a database
that failed with the right one (`SessaoViveAteQue`); `sincronizarPapelApp` cannot create a missing role, as the
GRANTs fail first; and a default owner's password may be replaced twice
(`SenhasDoVolume`).

## 4. Fairness

- `Consumidores`: weak fairness of reading and of *some* end of a handler in
  hand. The loop reads while the process lives; a handler's calls all time out
  or return. Nothing is assumed of success, publishers or crashes. `SpecSemPerda` has the
  same fairness, without the steps of a lost read and of a restart.
- `Monitor`: weak fairness of the ticker and of the routine inside
  `sincronizar`. Strong fairness of the steps that every pass tries again
  (listing a tenant, taking a process, querying, inserting): an operation that is
  tried for ever succeeds at some point. Publication is never tried again, and
  nothing strong is assumed of it.
- `Movimentacoes`: weak fairness of the publication of what is in flight and of
  each worker's next step. `TodaMovimentacaoResolvida` is checked without
  failures of the database and the bus, since with them a movement may stop
  half way: the run `movimentacoes` includes those behaviours, and `Ciclo` allows them.

- `Audiencias`: weak fairness of each step of the upload's handler and of each
  worker. A handler may fail or crash at every step; only going on is assumed,
  which is why the liveness property names the ways a hearing may be left behind.
- `Contas` and `Sessoes`: none. Their properties say what a step may not do.
- `Implantacao`: weak fairness of init.sh, of a runner's next statement, of compose
  creating services, and of a service's next dependency once it answers. Crashes
  are bounded by `MaxQuedas` in this instance; `TodoServicoSobe` asks that the
  service's password be, from some time on, the role's. No deploy is assumed.

## 5. Proofs

`tlapm` checks eight modules; each starts from the named assumptions on the
constants (`FluxoAssumption`, `ConsumidoresAssumption`, `ClassificadorAssumption`,
`MonitorAssumption`, `MovimentacoesAssumption`, `CorpoAssumption`,
`AudienciasAssumption`, `ContasAssumption`, `SessoesAssumption`, `MigracaoAssumption`,
`PartidaAssumption`, `SemeaduraAssumption`), which TLC evaluates in the runs.
`MovimentacoesAssumption` asks for finitely many movements, since the bound
of the two streams (`MaxEventos`) is counted from them, and `ContasAssumption` for
finitely many requests at once, since those on their way are counted against the bounds
on accounts and tokens. `SessoesAssumption` leaves out the forms that a handler's first
checks refuse: they change nothing.

- **`ConsumidoresProofs`**: first, what XADD, XREADGROUP and XACK preserve of a stream
  (`FluxoCoerente`: cursor and trim point within the stream, at least MAXLEN
  entries left by a trim, pending and confirmed entries delivered and disjoint).
  Then the replicas: the inductive invariant is `TypeOK`, `FluxoCoerente`
  and `PosseUnica`. `PosseUnica` alone is not inductive: that a new batch is
  nobody else's follows from the pending list lying below the cursor, together
  with the coherence of the stream. From it: `PosseUnica` and
  `NuncaReentregue` for any number of replicas, and the refinement of `Entrega`,
  with one lemma per action about the change of each message's situation.
  `SemAtrasoNadaSePerde` needs more: that every entry behind the cursor was delivered
  (`SemBuracos`) is inductive while the group is not more than MAXLEN behind, because
  a trim then ends at the cursor or before it (`CorteAtrasDoCursor`) and the next read
  starts where the last one ended. Another part is what the two pipelines need of a service whose handler has several
  steps (`PassoDoServico`): `Passada` says that a message was delivered and that
  the handler of the replica that still holds it, if one does, is at one of a set of
  places. No step of the service undoes that when no move of a handler leaves the
  set (`ServicoSegue`).
- **`ClassificadorProofs`**: an invariant about the answer and result of each
  phase (`Decorre`) gives the two fallback properties for all configurations; a
  second one (`Esforco`) relates attempts, phase and cancellation, and needs
  `Tentativas \subseteq Nat \ {0}`, the assumption whose absence is finding 2.
- **`EntradaProofs`**: what is in flight is recorded and not yet published, and what was
  published is recorded (`EntradaDireito`, inductive whatever fails); so a publication
  never repeats an event, if XADD is not duplicated.
- **`MonitorProofs`**: types; at most one routine publishes each movement
  (`DonoUnico`), inductive with the types, and a goroutine runs only
  after its process was registered (`DepoisDoCadastro`); every step is a step of
  `Entrada` or a stutter; hence, through `EntradaProofs`, one event per movement,
  and `PublicaQuemInseriu`. The former assumes `"duplicacao" \notin Falhas`, and
  finding 3 shows that it must; the latter holds even if an XADD is sent again.
- **`MovimentacoesProofs`**: the inductive invariant `MovInv` ties every row to the
  place of a handler: a movement has a classification only if its message is past
  the saving (`Classificacao`), an event classified only if it is past the publication
  of that row, an alert only if the notifier is past creating it, and the mark
  only past that (`Aviso`). `UmAvisoPorAndamento` alone is not inductive: nothing
  in the table of alerts forbids a second one, only that its message is in one
  replica's hands, once. From it: types, one alert, `RelatosConcordam`,
  `NenhumSilencioIndevido`, and the refinement of `Ciclo`, by one lemma for each way a
  movement changes its stage. `ConfirmadaFezEfeito` has an invariant of its own,
  `Entregas`: a handler at its last place has its event on the bus, or its row marked,
  and each worker acknowledges only from there (`PassoDoServico`).
- **`AudienciasProofs`**: `AudInv` does the same for the three streams of hearings.
  Besides the types and the three groups (`Base`) and no hearing twice in a
  stream (`UmaVez`), it says what the row may be while the request of the upload is
  at each of its phases (`Envio`) and while the message is before or past each place of
  the two workers (`Transcricao`, `Analise`); `Linhas` lists the seven rows there are.
  The workers write the status without reading it; it stays true because a row is
  written only by the handler that holds its one message. `Aviso` and `Entregas` are
  about the notifier and the acknowledgements. From it: the four invariants of
  the run, and the refinement of `VidaDaAudiencia`. `Base /\ Entregas` is inductive by
  itself, even with duplication, and gives the types and `ConfirmadaSegueAdiante`.
- **`SessoesProofs`**: the inductive invariant `SessInv` of auth-service and the tabs. The
  bounds hold because every request on its way that may create an account or a token has
  its place reserved (`Reservas`). Every token has an owner, and every account a password
  (`Donos`). Each request (`Certo`) keeps three things while others interleave with it: what
  it carries was issued and fits (`Preenchido`); between the two transactions of
  `trocarSenha`, the password shown is one the account held when it was compared, which no
  later change takes out of its history (`Comparado`); and an answer that waits still tells the
  truth when it arrives: a new token is of the account it comes with, a profile of the
  owner of the token it was asked with, and a 401 to anything but a log in came to a token that
  was dead and stays dead (`Respondido`). `SessInv` rests on accounts and tokens only ever
  growing (`Crescem`). From it, the types and the three action properties of the run:
  `TrocaDeQuemSabia` by `Comparado`; `SessaoViveAteQue` and `TelaDizQuemE` by
  `Respondido`, with one case for each way a tab takes an answer.
- **`ImplantacaoProofs`**: the inductive invariant says what a runner has behind it
  wherever it is: every file before its place applied, all of them when it reaches
  the role or has ended well (`Feito`); the role exists from the file with the GRANTs on
  (`Papel`); a container exists only after a runner that ended well, and a service
  past its wait for the bucket left it there (`Depende`). `EsquemaEmDia` alone is
  not inductive: it says nothing of a runner half way. From it, `EsquemaEmDia` and
  `SenhasDoVolume` for any number of runners, deploys, crashes and files. A second
  invariant, `Semeada`, is about the seed: the hearings there are a prefix of its list,
  none comes before the account and all processes, and where a run stands agrees
  with what there is; it gives `SementeUmaVez`. The types need three more parts: a
  stopped runner is at rest (`Repouso`), deploys and crashes keep to their bounds
  (`Limites`), and no service is past its last dependency (`Degraus`).

The types of both pipelines, `PublicaQuemInseriu`, `ConfirmadaFezEfeito` and
`ConfirmadaSegueAdiante` are proved whatever fails: an XADD sent again adds a second entry, and the groups keep their
invariant with one XADD or two (`PublicacoesPreserva`). The other theorems of
`MovimentacoesProofs` and `AudienciasProofs` assume `"duplicacao" \notin Falhas`. It cannot
be dropped from what they say of rows and alerts: with an XADD
sent again and a crash in the same instances, TLC finds `UmAvisoPorAndamento`,
`RelatosConcordam`, `NenhumSilencioIndevido`, `StatusDizOQueHa` and
`UmAlertaPorAudiencia` violated. A second message of one movement or hearing is not always
recognised as such by the handlers, and finding 3 is how it can come.

Only model-checked: every liveness property (fairness and ENABLED are out of the
prover's reach: `AlguemChega`, `ArquivamentoEncerra` and those whose names begin with
`Tod`). No module uses
RECURSIVE operators or proves by induction over data.

## 6. Not modelled, and the plan

Not modelled for good: HTTP plumbing and validation of forms, configuration
parsing, logging, tracing, prompts and mock texts, the generated tone of the seed,
page layout, nginx. They keep no state the properties speak of. The endpoints
that only read change nothing, and their order of rows is SQL. Row level security
is a mechanism of Postgres: here a tenant's transaction sees the tenant's rows.
Two runners that race in `CREATE TABLE IF NOT EXISTS schema_migrations`, of which one may
get an error, create the table one after the other here. A payload that does not decode
is acknowledged and dropped by the handlers; every payload here was encoded by `Publish`.
A request of the seed is served before its client gives up, or not at all.

Not modelled yet: the pages' data (`useDados`, `usePolling`: answers of
overlapping polls that arrive out of order), and preferences saved from two tabs.

The next step of this project is `Tela`: `useDados` and `usePolling` with late
answers.

## 7. Running

`tlc -config X.cfg M` for a run of the table (module and configuration are in
`PROJECT.json`); `tlapm M.tla` for a proof module.
