---------------------------- MODULE MonitorProofs ----------------------------
(***************************************************************************)
(* The process monitor, for any portfolio and any set of movements: what   *)
(* its routines insert and publish is what Entrada allows.                 *)
(***************************************************************************)
EXTENDS Monitor, TLAPS

(* Only one routine publishes a row, a row that exists.                    *)
DonoUnico ==
    /\ \A r \in Rotinas : sinc[r].fase = "publicar" =>
           sinc[r].atual \in Andamentos /\ sinc[r].atual \in gravados
    /\ \A r, s \in Rotinas :
           sinc[r].fase = "publicar" /\ sinc[s].fase = "publicar"
               /\ sinc[r].atual = sinc[s].atual => r = s

(* The goroutine of a POST starts only when the POST has inserted the row. *)
DepoisDoCadastro ==
    \A p \in Processos : processo[p] = "inexistente" => sinc[p].fase = "parada"

MonitorInvariante == MonitorTypeOK /\ DonoUnico

Sincs == [fase : {"parada", "consultar", "gravar", "publicar"},
          alvo : Processos \cup {Nenhum},
          restam : SUBSET Andamentos,
          atual : Andamentos \cup {Nenhum}]

-----------------------------------------------------------------------------
LEMMA ParadaTipo ==
    /\ Parada \in Sincs
    /\ Parada.fase = "parada"
    /\ \A p \in Processos : [Parada EXCEPT !.fase = "consultar", !.alvo = p] \in Sincs
BY DEF Parada, Sincs

(* Seguinte leaves every other routine alone, and its own not publishing.  *)
LEMMA SeguinteTipo ==
    ASSUME sinc \in [Rotinas -> Sincs], NEW r \in Rotinas,
           NEW restam \in SUBSET Andamentos
    PROVE  /\ Seguinte(r, restam) \in [Rotinas -> Sincs]
           /\ Seguinte(r, restam)[r].fase # "publicar"
           /\ \A s \in Rotinas : s # r => Seguinte(r, restam)[s] = sinc[s]
<1>0. sinc[r] \in Sincs /\ sinc[r].alvo \in Processos \cup {Nenhum}
  BY DEF Sincs
<1>1. Seguinte(r, restam)[r] =
          IF restam = {} THEN Parada
          ELSE [fase |-> "gravar", alvo |-> sinc[r].alvo, restam |-> restam, atual |-> Nenhum]
  BY DEF Seguinte
<1>2. [fase |-> "gravar", alvo |-> sinc[r].alvo, restam |-> restam, atual |-> Nenhum]
          \in Sincs
  BY <1>0 DEF Sincs
<1>3. Seguinte(r, restam)[r] \in Sincs /\ Seguinte(r, restam)[r].fase # "publicar"
  <2>1. CASE restam = {}
    BY <1>1, <2>1, ParadaTipo
  <2>2. CASE restam # {}
    <3> DEFINE x == [fase |-> "gravar", alvo |-> sinc[r].alvo, restam |-> restam,
                     atual |-> Nenhum]
    <3>1. x.fase # "publicar"
      OBVIOUS
    <3>2. Seguinte(r, restam)[r] = x
      BY <1>1, <2>2
    <3>3. x \in Sincs
      BY <1>2
    <3> HIDE DEF x
    <3> QED BY <3>1, <3>2, <3>3
  <2> QED BY <2>1, <2>2
<1>4. /\ DOMAIN Seguinte(r, restam) = Rotinas
      /\ \A s \in Rotinas : s # r => Seguinte(r, restam)[s] = sinc[s]
      /\ Seguinte(r, restam) = [s \in Rotinas |-> Seguinte(r, restam)[s]]
  BY DEF Seguinte
<1> QED BY <1>3, <1>4

(* Consultar, JaConhecida, PublicarRecebida and the failures all end a     *)
(* movement with Seguinte or Parada: no routine starts to publish.         *)
LEMMA SemNovoDono ==
    ASSUME DonoUnico, gravados \subseteq gravados', NEW r \in Rotinas,
           \A s \in Rotinas : s # r => sinc'[s] = sinc[s],
           sinc'[r].fase # "publicar"
    PROVE  DonoUnico'
BY DEF DonoUnico

(* What Publish leaves, sent again by the client or not, is a stream.      *)
LEMMA PublicacoesSaoFluxos ==
    ASSUME NEW M, NEW f \in Fluxos(M), NEW m \in M,
           NEW reenvio, NEW g \in Publicacoes(f, m, reenvio)
    PROVE  g \in Fluxos(M)
<1>1. ASSUME NEW x \in Fluxos(M), NEW y \in XAdd(x, m)
      PROVE  y \in Fluxos(M)
  <2>1. PICK c \in Cortes(Len(x.itens) + 1, x.corte) :
            y = [x EXCEPT !.itens = Append(@, m), !.corte = c]
    BY <1>1 DEF XAdd
  <2>2. c \in Nat
    BY <1>1, FluxoAssumption DEF Cortes, Maior, Fluxos
  <2>3. Append(x.itens, m) \in Seq(M)
    BY <1>1 DEF Fluxos
  <2> QED BY <2>1, <2>2, <2>3 DEF Fluxos
<1>2. CASE g \in XAdd(f, m)
  BY <1>1, <1>2
<1>3. CASE g \notin XAdd(f, m)
  <2>1. PICK h \in XAdd(f, m) : g \in XAdd(h, m)
    BY <1>3 DEF Publicacoes
  <2> QED BY <1>1, <2>1
<1> QED BY <1>2, <1>3

LEMMA MonitorInicial == MonitorInit => MonitorInvariante
<1> SUFFICES ASSUME MonitorInit PROVE MonitorInvariante
  OBVIOUS
<1>1. received \in Fluxos(Andamentos)
  BY DEF MonitorInit, FluxoVazio, Fluxos
<1>2. MonitorTypeOK
  BY <1>1, ParadaTipo, MonitorAssumption
     DEF MonitorInit, MonitorTypeOK, PassadaVazia, Sincs
<1>3. DonoUnico
  BY DEF MonitorInit, DonoUnico, Parada
<1> QED BY <1>1, <1>2, <1>3 DEF MonitorInvariante
-----------------------------------------------------------------------------
(* The environment, the portfolio and the poller's own steps.              *)
LEMMA ForaDaSincronizacao ==
    ASSUME MonitorInvariante,
           \/ \E m \in Andamentos : PublicarNoTribunal(m) \/ SairDasRespostas(m)
           \/ \E p \in Processos : Cadastrar(p) \/ Arquivar(p) \/ TomarProcesso(p)
           \/ IniciarPassada
           \/ \E t \in Tenants : ListarAtivos(t) \/ FalharListagem(t)
           \/ CairMonitor
    PROVE  MonitorInvariante'
<1> USE DEF MonitorInvariante
<1>0. sinc \in [Rotinas -> Sincs] /\ Poller \in Rotinas /\ Processos \subseteq Rotinas
  BY DEF MonitorTypeOK, Sincs, Rotinas
<1>1. ASSUME NEW m \in Andamentos, PublicarNoTribunal(m) \/ SairDasRespostas(m)
      PROVE  MonitorInvariante'
  BY <1>1 DEF PublicarNoTribunal, SairDasRespostas, MonitorTypeOK, DonoUnico
<1>2. ASSUME NEW p \in Processos, Cadastrar(p) PROVE MonitorInvariante'
  <2>1. sinc' \in [Rotinas -> Sincs]
    BY <1>0, <1>2, ParadaTipo DEF Cadastrar
  <2>2. MonitorTypeOK'
    BY <1>2, <2>1 DEF Cadastrar, MonitorTypeOK, Sincs
  <2>3. DonoUnico'
    BY <1>0, <1>2, SemNovoDono DEF Cadastrar, Parada, DonoUnico
  <2> QED BY <1>2, <2>2, <2>3 DEF Cadastrar
<1>3. ASSUME NEW p \in Processos, Arquivar(p) PROVE MonitorInvariante'
  BY <1>3 DEF Arquivar, MonitorTypeOK, DonoUnico
<1>4. ASSUME NEW p \in Processos, TomarProcesso(p) PROVE MonitorInvariante'
  <2>1. sinc' \in [Rotinas -> Sincs]
    BY <1>0, <1>4, ParadaTipo DEF TomarProcesso
  <2>2. MonitorTypeOK'
    BY <1>4, <2>1 DEF TomarProcesso, MonitorTypeOK, Sincs
  <2>3. DonoUnico'
    BY <1>0, <1>4, SemNovoDono DEF TomarProcesso, Parada
  <2> QED BY <1>4, <2>2, <2>3 DEF TomarProcesso
<1>5. CASE IniciarPassada
  BY <1>5 DEF IniciarPassada, PassadaVazia, MonitorTypeOK, DonoUnico
<1>6. ASSUME NEW t \in Tenants, ListarAtivos(t) \/ FalharListagem(t)
      PROVE  MonitorInvariante'
  BY <1>6 DEF ListarAtivos, FalharListagem, ListarAtivosComo, Ativos, MonitorTypeOK, DonoUnico
<1>7. CASE CairMonitor
  <2>1. MonitorTypeOK'
    BY <1>7, ParadaTipo DEF CairMonitor, PassadaVazia, MonitorTypeOK, Sincs
  <2>2. DonoUnico'
    BY <1>7 DEF CairMonitor, DonoUnico, Parada
  <2> QED BY <1>7, <2>1, <2>2 DEF CairMonitor
<1> QED BY <1>1, <1>2, <1>3, <1>4, <1>5, <1>6, <1>7

(* sincronizar: its steps that insert, and the others.                     *)
LEMMA GravarMantem ==
    ASSUME MonitorInvariante, NEW r \in Rotinas, NEW m \in Andamentos, Gravar(r, m)
    PROVE  MonitorInvariante'
<1> USE DEF MonitorInvariante
<1>0. sinc \in [Rotinas -> Sincs]
  BY DEF MonitorTypeOK, Sincs
<1>1. sinc[r] \in Sincs
  BY <1>0
<1>2. /\ sinc'[r] = [fase |-> "publicar", alvo |-> sinc[r].alvo,
                     restam |-> sinc[r].restam \ {m}, atual |-> m]
      /\ \A s \in Rotinas : s # r => sinc'[s] = sinc[s]
      /\ sinc' = [s \in Rotinas |-> sinc'[s]]
  BY <1>0, <1>1 DEF Gravar, Sincs
<1>3. sinc' \in [Rotinas -> Sincs]
  BY <1>0, <1>1, <1>2 DEF Sincs
<1>4. MonitorTypeOK'
  BY <1>3 DEF Gravar, MonitorTypeOK, Sincs
<1>5. \A s \in Rotinas : sinc[s].fase = "publicar" => sinc[s].atual # m
  BY DEF Gravar, DonoUnico
<1>6. gravados' = gravados \cup {m}
  BY DEF Gravar
<1>7. \A s \in Rotinas : sinc'[s].fase = "publicar" =>
          sinc'[s].atual \in Andamentos /\ sinc'[s].atual \in gravados'
  BY <1>2, <1>6 DEF DonoUnico
<1>8. \A s \in Rotinas : s # r /\ sinc'[s].fase = "publicar" => sinc'[s].atual # m
  BY <1>2, <1>5
<1>9. \A s, t \in Rotinas :
          sinc'[s].fase = "publicar" /\ sinc'[t].fase = "publicar"
              /\ sinc'[s].atual = sinc'[t].atual => s = t
  <2>1. sinc'[r].atual = m
    BY <1>2
  <2> QED BY <1>2, <1>8, <2>1 DEF DonoUnico
<1>10. DonoUnico'
  BY <1>7, <1>9 DEF DonoUnico
<1> QED BY <1>4, <1>10 DEF Gravar

LEMMA SincronizarMantem ==
    ASSUME MonitorInvariante, NEW r \in Rotinas, SincronizarOk(r) \/ SincronizarFalha(r)
    PROVE  MonitorInvariante'
<1> USE DEF MonitorInvariante
<1>0. sinc \in [Rotinas -> Sincs] /\ sinc[r].restam \in SUBSET Andamentos
  BY DEF MonitorTypeOK, Sincs
<1>1. CASE \E m \in Andamentos : Gravar(r, m)
  BY <1>1, GravarMantem
<1>2. CASE ~\E m \in Andamentos : Gravar(r, m)
  <2>1. \/ \E resto \in SUBSET Andamentos : sinc' = Seguinte(r, resto)
        \/ sinc' = [sinc EXCEPT ![r] = Parada]
    <3>1. \A m : sinc[r].restam \ {m} \in SUBSET Andamentos
      BY <1>0
    <3>2. {m \in visiveis : ProcessoDe[m] = sinc[r].alvo} \in SUBSET Andamentos
      BY DEF MonitorTypeOK
    <3> QED BY <1>0, <1>2, <3>1, <3>2
            DEF SincronizarOk, SincronizarFalha, Consultar, JaConhecida, PublicarRecebida,
                FalharConsulta, FalharGravacao, FalharPublicacao
  <2>2. /\ sinc' \in [Rotinas -> Sincs]
        /\ sinc'[r].fase # "publicar"
        /\ \A s \in Rotinas : s # r => sinc'[s] = sinc[s]
    BY <1>0, <2>1, SeguinteTipo, ParadaTipo, ZenonT(60)
  <2>3. /\ UNCHANGED <<processo, visiveis, passada>>
        /\ gravados \subseteq gravados'
        /\ gravados' \in SUBSET Andamentos
    BY <1>2 DEF MonitorTypeOK, SincronizarOk, SincronizarFalha, Consultar, JaConhecida,
                PublicarRecebida, FalharConsulta, FalharGravacao, FalharPublicacao
  <2>4. received' \in Fluxos(Andamentos)
    <3>1. CASE PublicarRecebida(r)
      <4>1. sinc[r].atual \in Andamentos
        BY <3>1 DEF PublicarRecebida, DonoUnico
      <4>2. received' \in Publicacoes(received, sinc[r].atual, "duplicacao" \in Falhas)
        BY <3>1 DEF PublicarRecebida
      <4> QED BY <4>1, <4>2, PublicacoesSaoFluxos DEF MonitorTypeOK
    <3>2. CASE ~PublicarRecebida(r)
      <4>1. UNCHANGED received
        BY <1>2, <3>2 DEF SincronizarOk, SincronizarFalha, Consultar, JaConhecida,
                          FalharConsulta, FalharGravacao, FalharPublicacao
      <4> QED BY <4>1 DEF MonitorTypeOK
    <3> QED BY <3>1, <3>2
  <2>5. MonitorTypeOK'
    BY <2>2, <2>3, <2>4 DEF MonitorTypeOK, Sincs
  <2>6. DonoUnico'
    BY <2>2, <2>3, SemNovoDono
  <2> QED BY <2>4, <2>5, <2>6
<1> QED BY <1>1, <1>2

LEMMA MonitorMantido == MonitorInvariante /\ [MonitorNext]_monitorVars => MonitorInvariante'
<1> SUFFICES ASSUME MonitorInvariante, [MonitorNext]_monitorVars
             PROVE  MonitorInvariante'
  OBVIOUS
<1>1. CASE UNCHANGED monitorVars
  BY <1>1 DEF monitorVars, MonitorInvariante, MonitorTypeOK, DonoUnico
<1>2. CASE \E r \in Rotinas : SincronizarOk(r) \/ SincronizarFalha(r)
  BY <1>2, SincronizarMantem
<1> QED BY <1>1, <1>2, ForaDaSincronizacao DEF MonitorNext

LEMMA MonitorSempre == MonitorSpec => []MonitorInvariante
BY MonitorInicial, MonitorMantido, PTL DEF MonitorSpec

(* The tables, the stream and the routines keep their types.               *)
THEOREM MonitorTipos == MonitorSpec => []MonitorTypeOK
BY MonitorSempre, PTL DEF MonitorInvariante

-----------------------------------------------------------------------------
(* What a step of sincronizar in routine r does to the routines.           *)
LEMMA PassoDeSincronizar ==
    ASSUME MonitorInvariante, NEW r \in Rotinas, SincronizarOk(r) \/ SincronizarFalha(r)
    PROVE  /\ sinc[r].fase # "parada"
           /\ \A s \in Rotinas : s # r => sinc'[s] = sinc[s]
           /\ UNCHANGED processo
<1> USE DEF MonitorInvariante
<1>1. sinc \in [Rotinas -> Sincs]
  BY DEF MonitorTypeOK, Sincs
<1>2. sinc[r].fase # "parada" /\ UNCHANGED processo
  BY DEF SincronizarOk, SincronizarFalha, Consultar, Gravar, JaConhecida, PublicarRecebida,
         FalharConsulta, FalharGravacao, FalharPublicacao
<1>3. \A s \in Rotinas : s # r => sinc'[s] = sinc[s]
  <2>1. CASE \E m \in Andamentos : Gravar(r, m)
    BY <1>1, <2>1 DEF Gravar
  <2>2. CASE ~\E m \in Andamentos : Gravar(r, m)
    <3>1. \/ \E resto : sinc' = Seguinte(r, resto)
          \/ sinc' = [sinc EXCEPT ![r] = Parada]
      BY <2>2 DEF SincronizarOk, SincronizarFalha, Consultar, JaConhecida, PublicarRecebida,
                  FalharConsulta, FalharGravacao, FalharPublicacao
    <3> QED BY <1>1, <3>1 DEF Seguinte
  <2> QED BY <2>1, <2>2
<1> QED BY <1>2, <1>3

LEMMA CadastroMantido ==
    MonitorInvariante /\ DepoisDoCadastro /\ [MonitorNext]_monitorVars => DepoisDoCadastro'
<1> SUFFICES ASSUME MonitorInvariante, DepoisDoCadastro, [MonitorNext]_monitorVars
             PROVE  DepoisDoCadastro'
  OBVIOUS
<1> USE DEF DepoisDoCadastro
<1>0. /\ sinc \in [Rotinas -> Sincs] /\ Processos \subseteq Rotinas /\ Poller \notin Processos
      /\ processo \in [Processos -> {"inexistente", "ativo", "arquivado"}]
  BY MonitorAssumption DEF MonitorInvariante, MonitorTypeOK, Sincs, Rotinas
<1>1. CASE UNCHANGED monitorVars
  BY <1>1 DEF monitorVars
<1>2. ASSUME NEW r \in Rotinas, SincronizarOk(r) \/ SincronizarFalha(r)
      PROVE  DepoisDoCadastro'
  BY <1>0, <1>2, PassoDeSincronizar
<1>3. ASSUME NEW m \in Andamentos, PublicarNoTribunal(m) \/ SairDasRespostas(m)
      PROVE  DepoisDoCadastro'
  BY <1>3 DEF PublicarNoTribunal, SairDasRespostas
<1>4. ASSUME NEW p \in Processos, Cadastrar(p) PROVE DepoisDoCadastro'
  BY <1>0, <1>4 DEF Cadastrar
<1>5. ASSUME NEW p \in Processos, Arquivar(p) PROVE DepoisDoCadastro'
  BY <1>0, <1>5 DEF Arquivar
<1>6. ASSUME NEW p \in Processos, TomarProcesso(p) PROVE DepoisDoCadastro'
  BY <1>0, <1>6 DEF TomarProcesso
<1>7. CASE IniciarPassada
  BY <1>7 DEF IniciarPassada
<1>8. ASSUME NEW t \in Tenants, ListarAtivos(t) \/ FalharListagem(t)
      PROVE  DepoisDoCadastro'
  BY <1>8 DEF ListarAtivos, FalharListagem, ListarAtivosComo
<1>9. CASE CairMonitor
  BY <1>0, <1>9 DEF CairMonitor, Parada
<1> QED BY <1>1, <1>2, <1>3, <1>4, <1>5, <1>6, <1>7, <1>8, <1>9 DEF MonitorNext

LEMMA CadastroSempre == MonitorSpec => []DepoisDoCadastro
<1>1. MonitorInit => DepoisDoCadastro
  BY DEF MonitorInit, DepoisDoCadastro, Rotinas, Parada
<1> QED BY <1>1, MonitorSempre, CadastroMantido, PTL DEF MonitorSpec

-----------------------------------------------------------------------------
(* EmVoo, the variable of Entrada that Monitor has not, step by step.      *)
LEMMA EmVooNoMesmo ==
    ASSUME NEW r \in Rotinas, \A s \in Rotinas : s # r => sinc'[s] = sinc[s],
           sinc[r].fase # "publicar", sinc'[r].fase # "publicar"
    PROVE  EmVoo' = EmVoo
BY DEF EmVoo, Publicando

LEMMA EmVooSemMais ==
    ASSUME DonoUnico, NEW r \in Rotinas,
           \A s \in Rotinas : s # r => sinc'[s] = sinc[s],
           sinc[r].fase = "publicar", sinc'[r].fase # "publicar"
    PROVE  EmVoo' = EmVoo \ {sinc[r].atual} /\ sinc[r].atual \in EmVoo
BY DEF EmVoo, Publicando, DonoUnico

LEMMA EmVooCom ==
    ASSUME NEW r \in Rotinas, NEW m \in Andamentos,
           \A s \in Rotinas : s # r => sinc'[s] = sinc[s],
           sinc[r].fase # "publicar", sinc'[r].fase = "publicar", sinc'[r].atual = m
    PROVE  EmVoo' = EmVoo \cup {m}
BY DEF EmVoo, Publicando

(* Entrada, instantiated, publishes to the stream as this module does.     *)
LEMMA MesmasPublicacoes ==
    \A f, m, reenvio : Ent!Publicacoes(f, m, reenvio) = Publicacoes(f, m, reenvio)
BY DEF Ent!Publicacoes, Ent!XAdd, Ent!Cortes, Ent!Maior, Publicacoes, XAdd, Cortes, Maior

(* sincronizar, seen from Entrada.                                         *)
LEMMA SincronizarImplementa ==
    ASSUME MonitorInvariante, NEW r \in Rotinas, SincronizarOk(r) \/ SincronizarFalha(r)
    PROVE  [Ent!EntradaNext]_<<gravados, EmVoo, received>>
<1> USE DEF MonitorInvariante
<1>0. /\ sinc \in [Rotinas -> Sincs] /\ sinc[r].restam \in SUBSET Andamentos
      /\ \A m : sinc[r].restam \ {m} \in SUBSET Andamentos
      /\ \A s \in Rotinas : s # r => sinc'[s] = sinc[s]
  BY PassoDeSincronizar DEF MonitorTypeOK, Sincs
<1>1. CASE Consultar(r) \/ FalharConsulta(r)
  <2>1. {m \in visiveis : ProcessoDe[m] = sinc[r].alvo} \in SUBSET Andamentos
    BY DEF MonitorTypeOK
  <2>2. sinc[r].fase # "publicar" /\ sinc'[r].fase # "publicar"
    BY <1>0, <1>1, <2>1, SeguinteTipo, ParadaTipo DEF Consultar, FalharConsulta
  <2> QED BY <1>0, <1>1, <2>2, EmVooNoMesmo DEF Consultar, FalharConsulta
<1>2. ASSUME NEW m \in Andamentos, Gravar(r, m)
      PROVE  Ent!Inserir(m)
  <2>1. sinc[r] \in Sincs
    BY <1>0
  <2>2. sinc[r].fase # "publicar" /\ sinc'[r].fase = "publicar" /\ sinc'[r].atual = m
    BY <1>0, <1>2, <2>1 DEF Gravar, Sincs
  <2>3. EmVoo' = EmVoo \cup {m}
    BY <1>0, <2>2, EmVooCom
  <2> QED BY <1>2, <2>3 DEF Gravar, Ent!Inserir
<1>3. ASSUME NEW m \in Andamentos, JaConhecida(r, m)
      PROVE  UNCHANGED <<gravados, EmVoo, received>>
  <2>1. sinc[r].fase # "publicar" /\ sinc'[r].fase # "publicar"
    BY <1>0, <1>3, SeguinteTipo DEF JaConhecida
  <2> QED BY <1>0, <1>3, <2>1, EmVooNoMesmo DEF JaConhecida
<1>4. ASSUME NEW m \in Andamentos, FalharGravacao(r, m)
      PROVE  Ent!InserirOrfa(m) \/ UNCHANGED <<gravados, EmVoo, received>>
  <2>1. sinc[r].fase # "publicar" /\ sinc'[r].fase # "publicar"
    BY <1>0, <1>4, SeguinteTipo DEF FalharGravacao
  <2>2. EmVoo' = EmVoo
    BY <1>0, <2>1, EmVooNoMesmo
  <2>3. UNCHANGED received
    BY <1>4 DEF FalharGravacao
  <2>4. CASE gravados' = gravados
    BY <2>2, <2>3, <2>4
  <2>5. CASE gravados' # gravados
    <3>1. "commit" \in Falhas /\ gravados' = gravados \cup {m} /\ m \notin gravados
      BY <1>4, <2>5 DEF FalharGravacao
    <3> QED BY <2>2, <2>3, <3>1 DEF Ent!InserirOrfa
  <2> QED BY <2>4, <2>5
<1>5. CASE PublicarRecebida(r)
  <2>1. sinc[r].fase = "publicar" /\ sinc'[r].fase # "publicar"
    BY <1>0, <1>5, SeguinteTipo DEF PublicarRecebida
  <2>2. EmVoo' = EmVoo \ {sinc[r].atual} /\ sinc[r].atual \in EmVoo
    BY <1>0, <2>1, EmVooSemMais
  <2>3. sinc[r].atual \in Andamentos
    BY <2>1 DEF DonoUnico
  <2>4. Ent!Publicar(sinc[r].atual)
    BY <1>5, <2>2, MesmasPublicacoes DEF PublicarRecebida, Ent!Publicar
  <2> QED BY <2>3, <2>4 DEF Ent!EntradaNext
<1>6. CASE FalharPublicacao(r)
  <2>1. sinc[r].fase = "publicar" /\ sinc'[r].fase # "publicar"
    BY <1>0, <1>6, SeguinteTipo DEF FalharPublicacao
  <2>2. EmVoo' = EmVoo \ {sinc[r].atual} /\ sinc[r].atual \in EmVoo
    BY <1>0, <2>1, EmVooSemMais
  <2>3. Ent!Perder
    BY <1>6, <2>2 DEF FalharPublicacao, Ent!Perder
  <2> QED BY <2>3 DEF Ent!EntradaNext
<1> QED BY <1>1, <1>2, <1>3, <1>4, <1>5, <1>6
        DEF SincronizarOk, SincronizarFalha, Ent!EntradaNext

LEMMA PassoImplementa ==
    ASSUME MonitorInvariante, DepoisDoCadastro, [MonitorNext]_monitorVars
    PROVE  [Ent!EntradaNext]_<<gravados, EmVoo, received>>
<1> USE DEF MonitorInvariante
<1>0. /\ sinc \in [Rotinas -> Sincs] /\ Processos \subseteq Rotinas /\ Poller \in Rotinas
  BY DEF MonitorTypeOK, Sincs, Rotinas
<1>1. CASE UNCHANGED monitorVars
  BY <1>1 DEF monitorVars, EmVoo, Publicando
<1>2. CASE \E r \in Rotinas : SincronizarOk(r) \/ SincronizarFalha(r)
  BY <1>2, SincronizarImplementa
<1>3. ASSUME NEW p \in Processos, Cadastrar(p)
      PROVE  UNCHANGED <<gravados, EmVoo, received>>
  <2>1. CASE UNCHANGED sinc
    BY <1>3, <2>1 DEF Cadastrar, EmVoo, Publicando
  <2>2. CASE ~UNCHANGED sinc
    <3>1. sinc[p].fase # "publicar"
      BY <1>3 DEF Cadastrar, DepoisDoCadastro
    <3>2. /\ sinc'[p].fase # "publicar"
          /\ \A s \in Rotinas : s # p => sinc'[s] = sinc[s]
      BY <1>0, <1>3, <2>2 DEF Cadastrar, Parada
    <3> QED BY <1>0, <1>3, <3>1, <3>2, EmVooNoMesmo DEF Cadastrar
  <2> QED BY <2>1, <2>2
<1>4. ASSUME NEW p \in Processos, TomarProcesso(p)
      PROVE  UNCHANGED <<gravados, EmVoo, received>>
  <2>1. /\ sinc[Poller].fase # "publicar" /\ sinc'[Poller].fase # "publicar"
        /\ \A s \in Rotinas : s # Poller => sinc'[s] = sinc[s]
    BY <1>0, <1>4 DEF TomarProcesso, Parada
  <2> QED BY <1>0, <1>4, <2>1, EmVooNoMesmo DEF TomarProcesso
<1>5. CASE \/ \E m \in Andamentos : PublicarNoTribunal(m) \/ SairDasRespostas(m)
           \/ \E p \in Processos : Arquivar(p)
           \/ IniciarPassada
           \/ \E t \in Tenants : ListarAtivos(t) \/ FalharListagem(t)
  BY <1>5 DEF PublicarNoTribunal, SairDasRespostas, Arquivar, IniciarPassada, ListarAtivos, FalharListagem,
              ListarAtivosComo, EmVoo, Publicando
<1>6. CASE CairMonitor
  <2>1. EmVoo' = {} /\ UNCHANGED <<gravados, received>> /\ "queda" \in Falhas
    BY <1>6 DEF CairMonitor, EmVoo, Publicando, Parada
  <2>2. CASE EmVoo = {}
    BY <2>1, <2>2
  <2>3. CASE EmVoo # {}
    BY <2>1, <2>3 DEF Ent!EntradaNext, Ent!Perder
  <2> QED BY <2>2, <2>3
<1> QED BY <1>1, <1>2, <1>3, <1>4, <1>5, <1>6 DEF MonitorNext

(***************************************************************************)
(* The poller and the goroutines of the POSTs, however they interleave,    *)
(* fail and restart, insert and publish only as Entrada allows.            *)
(***************************************************************************)
THEOREM MonitorImplementaEntrada == MonitorSpec => ImplementaEntrada
<1>1. MonitorInit => Ent!EntradaInit
  BY DEF MonitorInit, Ent!EntradaInit, EmVoo, Publicando, Parada, FluxoVazio, Ent!FluxoVazio
<1>2. MonitorInvariante /\ DepoisDoCadastro /\ [MonitorNext]_monitorVars
          => [Ent!EntradaNext]_(Ent!entradaVars)
  BY PassoImplementa DEF Ent!entradaVars
<1> QED BY <1>1, <1>2, MonitorSempre, CadastroSempre, PTL
        DEF MonitorSpec, ImplementaEntrada, Ent!EntradaSpec

-----------------------------------------------------------------------------
(* What EntradaProofs proves of Entrada, under the mapping of Ent.         *)
EntP == INSTANCE EntradaProofs WITH emVoo <- EmVoo

LEMMA MesmaPublicacaoDaEntrada ==
    \A f, m, reenvio : EntP!Publicacoes(f, m, reenvio) = Ent!Publicacoes(f, m, reenvio)
BY DEF Ent!Publicacoes, Ent!XAdd, Ent!Cortes, Ent!Maior,
       EntP!Publicacoes, EntP!XAdd, EntP!Cortes, EntP!Maior

LEMMA MesmaEntrada ==
    /\ Ent!EntradaInit <=> EntP!EntradaInit
    /\ Ent!EntradaNext <=> EntP!EntradaNext
<1>1. Ent!EntradaInit <=> EntP!EntradaInit
  BY DEF Ent!EntradaInit, EntP!EntradaInit, Ent!FluxoVazio, EntP!FluxoVazio
<1>2. \A m : Ent!Publicar(m) <=> EntP!Publicar(m)
  BY MesmaPublicacaoDaEntrada DEF Ent!Publicar, EntP!Publicar
<1>3. Ent!EntradaNext <=> EntP!EntradaNext
  BY <1>2 DEF Ent!EntradaNext, EntP!EntradaNext, Ent!Inserir, EntP!Inserir,
              Ent!InserirOrfa, EntP!InserirOrfa, Ent!Perder, EntP!Perder
<1> QED BY <1>1, <1>3

LEMMA EntradaNoMonitor ==
    MonitorSpec => EntP!EntradaInit /\ [][EntP!EntradaNext]_(EntP!entradaVars)
<1>1. Ent!EntradaInit => EntP!EntradaInit
  BY MesmaEntrada
<1>2. [Ent!EntradaNext]_(Ent!entradaVars) => [EntP!EntradaNext]_(EntP!entradaVars)
  BY MesmaEntrada DEF Ent!entradaVars, EntP!entradaVars
<1> QED BY <1>1, <1>2, MonitorImplementaEntrada, PTL DEF ImplementaEntrada, Ent!EntradaSpec

LEMMA DireitoNoMonitor == MonitorSpec => []EntP!EntradaDireito
<1>1. EntP!EntradaInit => EntP!EntradaDireito
  BY EntP!EntradaInicial, FluxoAssumption DEF EntP!EntradaInvariante
<1>2. EntP!EntradaDireito /\ [EntP!EntradaNext]_(EntP!entradaVars) => EntP!EntradaDireito'
  BY EntP!DireitoMantido, FluxoAssumption
<1> QED BY <1>1, <1>2, EntradaNoMonitor, PTL

LEMMA EntradaDoMonitor ==
    ASSUME "duplicacao" \notin Falhas
    PROVE  MonitorSpec => []EntP!EntradaInvariante
<1>1. EntP!EntradaInit => EntP!EntradaInvariante
  BY EntP!EntradaInicial, FluxoAssumption
<1>2. EntP!EntradaInvariante /\ [EntP!EntradaNext]_(EntP!entradaVars)
          => EntP!EntradaInvariante'
  BY EntP!EntradaMantida, FluxoAssumption
<1> QED BY <1>1, <1>2, EntradaNoMonitor, PTL

(***************************************************************************)
(* However often the provider sends a movement, and whichever of the       *)
(* poller and the goroutines see it, it enters the bus at most once,       *)
(* unless the Redis client may send an applied XADD again.                 *)
(***************************************************************************)
THEOREM MonitorUmEvento ==
    ASSUME "duplicacao" \notin Falhas
    PROVE  MonitorSpec => []UmEventoPorAndamento
<1>1. EntP!EntradaInvariante => UmEventoPorAndamento
  BY DEF EntP!EntradaInvariante, EntP!UmEventoPorAndamento, UmEventoPorAndamento,
         Ent!UmEventoPorAndamento
<1> QED BY <1>1, EntradaDoMonitor, PTL

(***************************************************************************)
(* The right to publish a row is its inserter's alone, ends with the       *)
(* event, and there is no event without a row, even if an XADD is sent     *)
(* again.                                                                  *)
(***************************************************************************)
THEOREM MonitorPublicaQuemInseriu == MonitorSpec => []PublicaQuemInseriu
<1>1. MonitorInvariante /\ EntP!EntradaDireito => PublicaQuemInseriu
  <2> SUFFICES ASSUME MonitorInvariante, EntP!EntradaDireito, NEW m \in Andamentos
               PROVE  /\ Ent!Publicado(m) => m \in gravados
                      /\ \A r \in Rotinas :
                             Publicando(r, m) => m \in gravados /\ ~Ent!Publicado(m)
                      /\ \A r, s \in Rotinas : Publicando(r, m) /\ Publicando(s, m) => r = s
    BY DEF PublicaQuemInseriu
  <2>1. Ent!Publicado(m) <=> EntP!Publicado(m)
    BY DEF Ent!Publicado, EntP!Publicado
  <2>2. /\ m \in EmVoo => m \in gravados /\ ~EntP!Publicado(m)
        /\ EntP!Publicado(m) => m \in gravados
    BY DEF EntP!EntradaDireito, EntP!DireitoDePublicar
  <2>3. \A r \in Rotinas : Publicando(r, m) => m \in EmVoo
    BY DEF EmVoo
  <2>4. \A r, s \in Rotinas : Publicando(r, m) /\ Publicando(s, m) => r = s
    BY DEF MonitorInvariante, DonoUnico, Publicando
  <2> QED BY <2>1, <2>2, <2>3, <2>4
<1> QED BY <1>1, MonitorSempre, DireitoNoMonitor, PTL
=============================================================================
