------------------------- MODULE MovimentacoesProofs -------------------------
(***************************************************************************)
(* The movement pipeline for any number of movements, tenants and replicas *)
(* and any MAXLEN and batch size: one alert per movement, no silence by    *)
(* mistake, no acknowledgement too early.  All but the types and the       *)
(* acknowledgements supposes that the Redis client does not send again an  *)
(* XADD that was applied ("duplicacao" is not among the Falhas).           *)
(***************************************************************************)
EXTENDS Movimentacoes, EntradaProofs

(* What ConsumidoresProofs proves of each worker's group.                  *)
CP == INSTANCE ConsumidoresProofs WITH fluxo <- received, lote <- loteC,
          Replicas <- Classificadores, Mensagens <- Andamentos,
          MaxMensagens <- MaxEventos

NP == INSTANCE ConsumidoresProofs WITH fluxo <- classified, lote <- loteN,
          Replicas <- Notificadores, Mensagens <- Classificadas,
          MaxMensagens <- MaxEventos

-----------------------------------------------------------------------------
(* Where the handlers are with the entries delivered to their groups.      *)
FaseC == [w \in Classificadores |-> cw[w].fase]

PassouC(D, i) == CP!Passou(received, loteC, FaseC, D, i)
PassouN(D, k) == NP!Passou(classified, loteN, ns, D, k)

(* The one event of m was received, and its handler is past D.             *)
Recebida(m, D) ==
    \E i \in 1 .. Len(received.itens) : received.itens[i] = m /\ PassouC(D, i)

Anunciada(m, D) ==
    \E k \in 1 .. Len(classified.itens) : classified.itens[k].mov = m /\ PassouN(D, k)

(* What Classificar may return.                                            *)
Possiveis == {l \in Laudos : l.fallback => Nivel(l.urg) >= Nivel(Piso)}

Lugares ==
    /\ \A w \in Classificadores :
           cw[w].fase # "livre" => loteC[w] # {} /\ cw[w].res \in Possiveis
    /\ \A n \in Notificadores : ns[n] # "livre" => loteN[n] # {}

(* The right types and two well-behaved groups; and one event a movement.  *)
Tipos == /\ TypeOK
         /\ Lugares
         /\ EntradaDireito
         /\ CP!Invariante
         /\ NP!Invariante

Base == Tipos /\ UmEventoPorAndamento

(***************************************************************************)
(* A movement has a classification only after the handler of its event     *)
(* saved it, and an event classified only after the handler published it;  *)
(* so each is written once, and the two agree.                             *)
(***************************************************************************)
Classificacao ==
    /\ \A m \in Andamentos : laudo[m] # SemLaudo => Recebida(m, {"publicar", "confirmar"})
    /\ \A w \in Classificadores : cw[w].fase = "publicar" => laudo[MovDe(w)] = cw[w].res
    /\ \A k \in 1 .. Len(classified.itens) :
           /\ Recebida(classified.itens[k].mov, {"confirmar"})
           /\ laudo[classified.itens[k].mov] =
                  [urg |-> classified.itens[k].urg, fallback |-> classified.itens[k].fallback]
    /\ \A k, l \in 1 .. Len(classified.itens) :
           classified.itens[k].mov = classified.itens[l].mov => k = l

(* A recent movement that is urgent, or may be, has its alert.             *)
Devido(m) == m \notin antigas /\ (laudo[m].fallback \/ laudo[m].urg = "alta")
                 => avisos[m] # << >>

(***************************************************************************)
(* The same of the alert and of the mark; and where the mark is next, or   *)
(* was made, the alert is not missing.                                     *)
(***************************************************************************)
Aviso ==
    /\ \A m \in Andamentos :
           /\ avisos[m] # << >> => Anunciada(m, {"marcar", "confirmar"})
           /\ Len(avisos[m]) <= 1
           /\ \A i \in 1 .. Len(avisos[m]) : avisos[m][i] = laudo[m]
    /\ \A m \in notificada : Anunciada(m, {"confirmar"}) /\ Devido(m)
    /\ \A n \in Notificadores : ns[n] = "marcar" => Devido(Evento(n).mov)

MovInv == Base /\ Classificacao /\ Aviso

-----------------------------------------------------------------------------
(* The groups of Movimentacoes are those of ConsumidoresProofs.            *)
LEMMA MesmaCabeca == \A l : C!Cabeca(l) = CP!Cabeca(l) /\ N!Cabeca(l) = NP!Cabeca(l)
BY DEF C!Cabeca, CP!Cabeca, N!Cabeca, NP!Cabeca

LEMMA MesmosPassosC ==
    ASSUME NEW w \in Classificadores
    PROVE  /\ C!Ler(w) <=> CP!Ler(w)
           /\ C!LeituraPerdida(w) <=> CP!LeituraPerdida(w)
           /\ C!Concluir(w) <=> CP!Concluir(w)
           /\ C!Falhar(w) <=> CP!Falhar(w)
           /\ C!Reiniciar(w) <=> CP!Reiniciar(w)
<1>1. /\ C!Legiveis(received) = CP!Legiveis(received)
      /\ C!XReadGroup(received) = CP!XReadGroup(received)
  BY DEF C!Legiveis, CP!Legiveis, C!XReadGroup, CP!XReadGroup, C!Maior, CP!Maior,
         C!Menor, CP!Menor
<1>2. \A i : C!XAck(received, i) = CP!XAck(received, i)
  BY DEF C!XAck, CP!XAck
<1> QED BY <1>1, <1>2, MesmaCabeca
        DEF C!Ler, CP!Ler, C!LeituraPerdida, CP!LeituraPerdida, C!Concluir, CP!Concluir,
            C!Falhar, CP!Falhar, C!Reiniciar, CP!Reiniciar

LEMMA MesmosPassosN ==
    ASSUME NEW n \in Notificadores
    PROVE  /\ N!Ler(n) <=> NP!Ler(n)
           /\ N!LeituraPerdida(n) <=> NP!LeituraPerdida(n)
           /\ N!Concluir(n) <=> NP!Concluir(n)
           /\ N!Falhar(n) <=> NP!Falhar(n)
           /\ N!Reiniciar(n) <=> NP!Reiniciar(n)
<1>1. /\ N!Legiveis(classified) = NP!Legiveis(classified)
      /\ N!XReadGroup(classified) = NP!XReadGroup(classified)
  BY DEF N!Legiveis, NP!Legiveis, N!XReadGroup, NP!XReadGroup, N!Maior, NP!Maior,
         N!Menor, NP!Menor
<1>2. \A i : N!XAck(classified, i) = NP!XAck(classified, i)
  BY DEF N!XAck, NP!XAck
<1> QED BY <1>1, <1>2, MesmaCabeca
        DEF N!Ler, NP!Ler, N!LeituraPerdida, NP!LeituraPerdida, N!Concluir, NP!Concluir,
            N!Falhar, NP!Falhar, N!Reiniciar, NP!Reiniciar

LEMMA LimiteDeEventos == MaxEventos \in Nat
<1>1. Cardinality(Andamentos) \in Nat
  BY MovimentacoesAssumption, FS_CardinalityType
<1> QED BY <1>1 DEF MaxEventos

(* Whatever the model says, or if it says nothing, the classification is   *)
(* an urgency, and with the fallback mark it is not below the floor.       *)
LEMMA ClassificacoesPossiveis == Classificacoes \subseteq Possiveis
<1>1. \A u : Nivel(u) \in -1 .. 3 /\ (Nivel(u) >= 0 <=> u \in Urgencias)
  BY DEF Nivel, Urgencias
<1>2. Piso \in Urgencias
  BY MovimentacoesAssumption
<1>3. SemResposta(Piso) \in Possiveis
  BY <1>1, <1>2 DEF SemResposta, Possiveis, Laudos
<1>4. ASSUME NEW u, NEW c \in {0, 1}
      PROVE  PorResposta([urg |-> u, confianca |-> c], Piso, 1) \in Possiveis
  <2>1. Elevada(u, Piso) \in Urgencias /\ Nivel(Elevada(u, Piso)) >= Nivel(Piso)
    BY <1>1, <1>2 DEF Elevada
  <2>2. CASE Confiavel([urg |-> u, confianca |-> c], 1)
    BY <1>1, <2>2 DEF PorResposta, Confiavel, Valida, Possiveis, Laudos
  <2>3. CASE ~Confiavel([urg |-> u, confianca |-> c], 1)
    BY <2>1, <2>3 DEF PorResposta, Possiveis, Laudos
  <2> QED BY <2>2, <2>3
<1> DEFINE R(u, c) == PorResposta([urg |-> u, confianca |-> c], Piso, 1)
<1>5. \A u \in Respondidas, c \in {0, 1} : R(u, c) \in Possiveis
  BY <1>4
<1>6. Classificacoes = {R(u, c) : u \in Respondidas, c \in {0, 1}}
                       \cup (IF "llm" \in Falhas THEN {SemResposta(Piso)} ELSE {})
  BY DEF Classificacoes
<1> HIDE DEF R
<1> QED BY <1>3, <1>5, <1>6

-----------------------------------------------------------------------------
(* The entry a classifier works on, and what it says of its movement: no   *)
(* other entry has it, so it is past exactly the places its handler is at. *)
LEMMA DaMaoDoClassificador ==
    ASSUME Tipos, NEW w \in Classificadores, loteC[w] # {}
    PROVE  /\ C!Cabeca(loteC[w]) \in loteC[w]
           /\ C!Cabeca(loteC[w]) \in 1 .. Len(received.itens)
           /\ MovDe(w) \in Andamentos
           /\ \A g, D : CP!Passou(received, loteC, g, D, C!Cabeca(loteC[w])) <=> g[w] \in D
<1> DEFINE k == C!Cabeca(loteC[w])
<1>1. k = CP!Cabeca(loteC[w])
  BY MesmaCabeca
<1>2. /\ k \in loteC[w]
      /\ k \in 1 .. Len(received.itens)
      /\ \A g, D : CP!Passou(received, loteC, g, D, k) <=> g[w] \in D
  BY <1>1, CP!CabecaPassou, FluxoAssumption, LimiteDeEventos DEF Tipos
<1>3. received.itens \in Seq(Andamentos)
  BY DEF Tipos, TypeOK, EntradaTypeOK, Fluxos
<1>4. MovDe(w) = received.itens[k]
  BY DEF MovDe
<1> HIDE DEF k
<1>5. MovDe(w) \in Andamentos
  BY <1>2, <1>3, <1>4
<1> QED BY <1>2, <1>5 DEF k

LEMMA EventoClassificado ==
    ASSUME Tipos, NEW w \in Classificadores, cw[w].fase = "publicar"
    PROVE  EventoDe(w) \in Classificadas
<1>1. loteC[w] # {} /\ cw[w].res \in Laudos
  BY DEF Tipos, Lugares, Possiveis
<1>2. MovDe(w) \in Andamentos
  BY <1>1, DaMaoDoClassificador
<1> QED BY <1>1, <1>2 DEF EventoDe, Classificadas, Laudos

LEMMA NaMaoDoClassificador ==
    ASSUME Base, NEW w \in Classificadores, loteC[w] # {}
    PROVE  /\ C!Cabeca(loteC[w]) \in loteC[w]
           /\ C!Cabeca(loteC[w]) \in 1 .. Len(received.itens)
           /\ MovDe(w) \in Andamentos
           /\ \A g, D : CP!Passou(received, loteC, g, D, C!Cabeca(loteC[w])) <=> g[w] \in D
           /\ \A D : Recebida(MovDe(w), D) <=> cw[w].fase \in D
<1>1. PICK k : k = C!Cabeca(loteC[w])
  OBVIOUS
<1>2. /\ k \in loteC[w] /\ k \in 1 .. Len(received.itens) /\ MovDe(w) \in Andamentos
      /\ \A g, D : CP!Passou(received, loteC, g, D, k) <=> g[w] \in D
  BY <1>1, DaMaoDoClassificador DEF Base
<1>4. MovDe(w) = received.itens[k]
  BY <1>1 DEF MovDe
<1>6. ASSUME NEW D PROVE Recebida(MovDe(w), D) <=> cw[w].fase \in D
  <2>1. PassouC(D, k) <=> cw[w].fase \in D
    BY <1>2 DEF PassouC, FaseC
  <2>2. \A i \in 1 .. Len(received.itens) : received.itens[i] = MovDe(w) => i = k
    BY <1>2, <1>4 DEF Base, UmEventoPorAndamento
  <2> QED BY <1>2, <1>4, <2>1, <2>2 DEF Recebida
<1> QED BY <1>1, <1>2, <1>6

LEMMA DaMaoDoNotificador ==
    ASSUME Tipos, NEW n \in Notificadores, loteN[n] # {}
    PROVE  /\ N!Cabeca(loteN[n]) \in loteN[n]
           /\ N!Cabeca(loteN[n]) \in 1 .. Len(classified.itens)
           /\ Evento(n) \in Classificadas
           /\ \A g, D : NP!Passou(classified, loteN, g, D, N!Cabeca(loteN[n])) <=> g[n] \in D
<1> DEFINE k == N!Cabeca(loteN[n])
<1>1. k = NP!Cabeca(loteN[n])
  BY MesmaCabeca
<1>2. /\ k \in loteN[n]
      /\ k \in 1 .. Len(classified.itens)
      /\ \A g, D : NP!Passou(classified, loteN, g, D, k) <=> g[n] \in D
  BY <1>1, NP!CabecaPassou, FluxoAssumption, LimiteDeEventos DEF Tipos
<1>3. classified.itens \in Seq(Classificadas)
  BY DEF Tipos, TypeOK, Fluxos
<1>4. Evento(n) = classified.itens[k]
  BY DEF Evento
<1> HIDE DEF k
<1>5. Evento(n) \in Classificadas
  BY <1>2, <1>3, <1>4
<1> QED BY <1>2, <1>5 DEF k

LEMMA NaMaoDoNotificador ==
    ASSUME Base, NEW n \in Notificadores, loteN[n] # {}
    PROVE  /\ N!Cabeca(loteN[n]) \in loteN[n]
           /\ N!Cabeca(loteN[n]) \in 1 .. Len(classified.itens)
           /\ Evento(n) \in Classificadas
           /\ \A g, D : NP!Passou(classified, loteN, g, D, N!Cabeca(loteN[n])) <=> g[n] \in D
           /\ Classificacao => \A D : Anunciada(Evento(n).mov, D) <=> ns[n] \in D
<1>1. PICK k : k = N!Cabeca(loteN[n])
  OBVIOUS
<1>2. /\ k \in loteN[n] /\ k \in 1 .. Len(classified.itens) /\ Evento(n) \in Classificadas
      /\ \A g, D : NP!Passou(classified, loteN, g, D, k) <=> g[n] \in D
  BY <1>1, DaMaoDoNotificador DEF Base
<1>4. Evento(n) = classified.itens[k]
  BY <1>1 DEF Evento
<1>6. ASSUME Classificacao, NEW D PROVE Anunciada(Evento(n).mov, D) <=> ns[n] \in D
  <2>1. PassouN(D, k) <=> ns[n] \in D
    BY <1>2 DEF PassouN
  <2>2. \A i \in 1 .. Len(classified.itens) : classified.itens[i].mov = Evento(n).mov => i = k
    BY <1>2, <1>4, <1>6 DEF Classificacao
  <2> QED BY <1>2, <1>4, <2>1, <2>2 DEF Anunciada
<1> QED BY <1>1, <1>2, <1>6

-----------------------------------------------------------------------------
(* Without duplication, a publication is one XADD.                         *)
LEMMA UmXAdd ==
    ASSUME "duplicacao" \notin Falhas
    PROVE  /\ \A f, m : Publicacoes(f, m, "duplicacao" \in Falhas) = XAdd(f, m)
           /\ \A f, m : C!XAdd(f, m) = XAdd(f, m) /\ N!XAdd(f, m) = XAdd(f, m)
BY DEF Publicacoes, XAdd, Cortes, Maior, C!XAdd, C!Cortes, C!Maior, N!XAdd, N!Cortes, N!Maior

-----------------------------------------------------------------------------
(* The types, the places of the handlers and the two groups.               *)
Fases == {"livre", "salvar", "publicar", "confirmar"}
Places == [fase : Fases, res : Laudos \cup {SemLaudo}]

LEMMA BaseInicial == Init => Base
<1> SUFFICES ASSUME Init PROVE Base
  OBVIOUS
<1>1. EntradaDireito /\ UmEventoPorAndamento
  BY EntradaInicial DEF Init, EntradaInvariante
<1>2. classified = FluxoVazio /\ received = FluxoVazio
  BY DEF Init, EntradaInit
<1>3. classified \in Fluxos(Classificadas)
  BY <1>2, VazioEhFluxo
<1>4. CwLivre \in Places /\ CwLivre.fase = "livre"
  BY DEF CwLivre, Places, Fases
<1>5. TypeOK
  BY <1>1, <1>3, <1>4, MovimentacoesAssumption
     DEF Init, TypeOK, EntradaDireito, Places, Fases
<1>6. Lugares
  BY <1>4 DEF Init, Lugares
<1>7. CP!Init => CP!Invariante
  BY CP!InvarianteInicial, FluxoAssumption, LimiteDeEventos
<1>8. NP!Init => NP!Invariante
  BY NP!InvarianteInicial, FluxoAssumption, LimiteDeEventos
<1>9. CP!Init /\ NP!Init
  BY <1>2 DEF Init, CP!Init, NP!Init, CP!FluxoVazio, NP!FluxoVazio, FluxoVazio
<1> QED BY <1>1, <1>5, <1>6, <1>7, <1>8, <1>9 DEF Base, Tipos

(* What is published is published to the group, once or twice.             *)
LEMMA PublicadaAosGrupos ==
    ASSUME NEW f, NEW m, NEW g \in Publicacoes(f, m, "duplicacao" \in Falhas)
    PROVE  g \in CP!Publicacoes(f, m, TRUE) /\ g \in NP!Publicacoes(f, m, TRUE)
<1>1. \A e, k : CP!XAdd(e, k) = XAdd(e, k) /\ NP!XAdd(e, k) = XAdd(e, k)
  BY DEF XAdd, Cortes, Maior, CP!XAdd, CP!Cortes, CP!Maior, NP!XAdd, NP!Cortes, NP!Maior
<1>2. g \in Publicacoes(f, m, TRUE)
  BY DEF Publicacoes
<1> QED BY <1>1, <1>2 DEF Publicacoes, CP!Publicacoes, NP!Publicacoes

(* The two groups, by what ConsumidoresProofs proves of any.               *)
LEMMA GrupoDosClassificadores ==
    ASSUME Tipos, [Next]_vars
    PROVE  CP!Invariante'
<1>0. CP!Invariante
  BY DEF Tipos
<1>1. CP!Invariante /\ [CP!Next]_(CP!vars) => CP!Invariante'
  BY CP!InvarianteMantido, FluxoAssumption, LimiteDeEventos
<1>2. ASSUME UNCHANGED <<received, loteC>> PROVE CP!Invariante'
  BY <1>0, <1>1, <1>2 DEF CP!vars
<1>3. CASE Monitorar
  <2>1. UNCHANGED loteC /\ EntradaNext
    BY <1>3 DEF Monitorar, consumidorVars
  <2>2. ASSUME NEW m \in Andamentos, Publicar(m) PROVE CP!Invariante'
    <3>1. received' \in CP!Publicacoes(received, m, TRUE)
      BY <2>2, PublicadaAosGrupos DEF Publicar
    <3> QED BY <1>0, <2>1, <3>1, CP!PublicacoesPreserva, FluxoAssumption, LimiteDeEventos
  <2> QED BY <1>2, <2>1, <2>2 DEF EntradaNext, Inserir, InserirOrfa, Perder
<1>4. ASSUME NEW w \in Classificadores, ClassificadorNext(w) \/ CairClassificador(w)
      PROVE  CP!Invariante'
  <2>1. CP!Next \/ UNCHANGED <<received, loteC>>
    BY <1>4, MesmosPassosC
       DEF ClassificadorNext, CairClassificador, LerRecebidas, Classificar, Salvar,
           FalharSalvar, PublicarClassificada, FalharClassificada, ConfirmarRecebida, CP!Next
  <2> QED BY <1>0, <1>1, <1>2, <2>1
<1>5. ASSUME NEW n \in Notificadores, NotificadorNext(n) \/ CairNotificador(n)
      PROVE  UNCHANGED <<received, loteC>>
  BY <1>5 DEF NotificadorNext, CairNotificador, LerClassificadas, Decidir, CriarAviso,
              FalharAviso, Marcar, FalharMarcar, ConfirmarClassificada, nLivres, entradaVars
<1>6. CASE \/ UNCHANGED vars
           \/ \E m \in Andamentos : Envelhecer(m)
           \/ \E t \in Tenants, u \in Minimas : SalvarPreferencias(t, u)
  BY <1>2, <1>6 DEF vars, consumidorVars, Envelhecer, SalvarPreferencias, entradaVars
<1> QED BY <1>2, <1>3, <1>4, <1>5, <1>6 DEF Next

LEMMA GrupoDosNotificadores ==
    ASSUME Tipos, [Next]_vars
    PROVE  NP!Invariante'
<1>0. NP!Invariante
  BY DEF Tipos
<1>1. NP!Invariante /\ [NP!Next]_(NP!vars) => NP!Invariante'
  BY NP!InvarianteMantido, FluxoAssumption, LimiteDeEventos
<1>2. ASSUME UNCHANGED <<classified, loteN>> PROVE NP!Invariante'
  BY <1>0, <1>1, <1>2 DEF NP!vars
<1>3. ASSUME NEW w \in Classificadores, ClassificadorNext(w) \/ CairClassificador(w)
      PROVE  NP!Invariante'
  <2>1. UNCHANGED loteN
    BY <1>3 DEF ClassificadorNext, CairClassificador, LerRecebidas, Classificar, Salvar,
                FalharSalvar, PublicarClassificada, FalharClassificada, ConfirmarRecebida,
                cLivres
  <2>2. CASE UNCHANGED classified
    BY <1>2, <2>1, <2>2
  <2>3. CASE ~UNCHANGED classified
    <3>1. /\ cw[w].fase = "publicar"
          /\ classified' \in Publicacoes(classified, EventoDe(w), "duplicacao" \in Falhas)
      BY <1>3, <2>3
         DEF ClassificadorNext, CairClassificador, LerRecebidas, Classificar, Salvar,
             FalharSalvar, PublicarClassificada, FalharClassificada, ConfirmarRecebida
    <3>4. PICK e \in Classificadas : e = EventoDe(w)
      BY <3>1, EventoClassificado
    <3>5. classified' \in NP!Publicacoes(classified, e, TRUE)
      BY <3>1, <3>4, PublicadaAosGrupos
    <3> QED BY <1>0, <2>1, <3>5, NP!PublicacoesPreserva, FluxoAssumption, LimiteDeEventos
  <2> QED BY <2>2, <2>3
<1>4. ASSUME NEW n \in Notificadores, NotificadorNext(n) \/ CairNotificador(n)
      PROVE  NP!Invariante'
  <2>1. NP!Next \/ UNCHANGED <<classified, loteN>>
    BY <1>4, MesmosPassosN
       DEF NotificadorNext, CairNotificador, LerClassificadas, Decidir, CriarAviso,
           FalharAviso, Marcar, FalharMarcar, ConfirmarClassificada, NP!Next
  <2> QED BY <1>0, <1>1, <1>2, <2>1
<1>5. CASE \/ UNCHANGED vars \/ Monitorar
           \/ \E m \in Andamentos : Envelhecer(m)
           \/ \E t \in Tenants, u \in Minimas : SalvarPreferencias(t, u)
  BY <1>2, <1>5 DEF vars, consumidorVars, Monitorar, Envelhecer, SalvarPreferencias
<1> QED BY <1>3, <1>4, <1>5 DEF Next

(* The entrance goes on as Entrada has it; the group reads, no more.       *)
LEMMA EntradaSegue ==
    ASSUME Tipos, [Next]_vars
    PROVE  EntradaDireito' /\ (Monitorar \/ received'.itens = received.itens)
<1>1. CASE Monitorar
  BY <1>1, DireitoMantido DEF Monitorar, Tipos
<1>2. CASE ~Monitorar
  <2>1. UNCHANGED <<gravados, emVoo>> /\ received'.itens = received.itens
    <3>1. received \in Fluxos(Andamentos)
      BY DEF Tipos, TypeOK, EntradaTypeOK
    <3>2. ASSUME NEW w \in Classificadores,
                 \/ C!Ler(w) \/ C!LeituraPerdida(w) \/ C!Concluir(w)
                 \/ C!Falhar(w) \/ C!Reiniciar(w)
          PROVE  received'.itens = received.itens
      BY <3>1, <3>2 DEF C!Ler, C!LeituraPerdida, C!Concluir, C!Falhar, C!Reiniciar,
                        C!XReadGroup, C!XAck, Fluxos
    <3>3. CASE UNCHANGED vars
      BY <3>3 DEF vars, entradaVars
    <3>4. CASE \/ \E m \in Andamentos : Envelhecer(m)
               \/ \E t \in Tenants, u \in Minimas : SalvarPreferencias(t, u)
      BY <3>4 DEF Envelhecer, SalvarPreferencias, entradaVars
    <3>5. ASSUME NEW w \in Classificadores, ClassificadorNext(w) \/ CairClassificador(w)
          PROVE  UNCHANGED <<gravados, emVoo>> /\ received'.itens = received.itens
      BY <3>2, <3>5 DEF ClassificadorNext, CairClassificador, LerRecebidas, Classificar,
              Salvar, FalharSalvar, PublicarClassificada, FalharClassificada,
              ConfirmarRecebida, cLivres
    <3>6. ASSUME NEW n \in Notificadores, NotificadorNext(n) \/ CairNotificador(n)
          PROVE  UNCHANGED entradaVars
      BY <3>6 DEF NotificadorNext, CairNotificador, LerClassificadas, Decidir, CriarAviso,
              FalharAviso, Marcar, FalharMarcar, ConfirmarClassificada, nLivres
    <3> QED BY <1>2, <3>3, <3>4, <3>5, <3>6 DEF Next, entradaVars
  <2>2. received' \in Fluxos(Andamentos)
    <3>1. CP!Invariante'
      BY GrupoDosClassificadores
    <3> QED BY <3>1 DEF CP!Invariante, CP!TypeOK, CP!Fluxos, Fluxos
  <2> QED BY <2>1, <2>2 DEF Tipos, EntradaDireito, EntradaTypeOK, DireitoDePublicar,
                            Publicado
<1> QED BY <1>1, <1>2

-----------------------------------------------------------------------------
(* What a classifier's step does to its own place, and what it writes.     *)
LEMMA LugarDoClassificador ==
    ASSUME Tipos, NEW w \in Classificadores, ClassificadorNext(w) \/ CairClassificador(w)
    PROVE  /\ cw' \in [Classificadores -> Places]
           /\ \A v \in Classificadores :
                  cw'[v].fase # "livre" => loteC'[v] # {} /\ cw'[v].res \in Possiveis
           /\ laudo' \in [Andamentos -> Laudos \cup {SemLaudo}]
<1>1. /\ cw \in [Classificadores -> Places]
      /\ loteC \in [Classificadores -> SUBSET Nat]
      /\ laudo \in [Andamentos -> Laudos \cup {SemLaudo}]
  BY DEF Tipos, TypeOK, Places, Fases
<1>2. Possiveis \subseteq Laudos /\ CwLivre \in Places /\ CwLivre.fase = "livre"
  BY DEF Possiveis, CwLivre, Places, Fases
<1>3. \A v \in Classificadores :
          cw[v].fase # "livre" => loteC[v] # {} /\ cw[v].res \in Possiveis
  BY DEF Tipos, Lugares
<1>4. ASSUME NEW x \in Places, cw' = [cw EXCEPT ![w] = x],
             x.fase # "livre" => loteC[w] # {} /\ x.res \in Possiveis,
             \A v \in Classificadores : loteC'[v] = loteC[v] \/ (v = w /\ x = CwLivre)
      PROVE  /\ cw' \in [Classificadores -> Places]
             /\ \A v \in Classificadores :
                    cw'[v].fase # "livre" => loteC'[v] # {} /\ cw'[v].res \in Possiveis
  <2>1. \A v \in Classificadores : cw'[v] = IF v = w THEN x ELSE cw[v]
    BY <1>1, <1>4
  <2>2. cw' \in [Classificadores -> Places]
    BY <1>1, <1>4
  <2> QED BY <1>2, <1>3, <1>4, <2>1, <2>2
<1>5. cw[w] \in Places
  BY <1>1
<1>6. \A f \in Fases : /\ [cw EXCEPT ![w].fase = f] =
                              [cw EXCEPT ![w] = [fase |-> f, res |-> cw[w].res]]
                       /\ [fase |-> f, res |-> cw[w].res] \in Places
  <2> SUFFICES ASSUME NEW f \in Fases
               PROVE  /\ [cw EXCEPT ![w].fase = f] =
                             [cw EXCEPT ![w] = [fase |-> f, res |-> cw[w].res]]
                      /\ [fase |-> f, res |-> cw[w].res] \in Places
    OBVIOUS
  <2>1. [cw[w] EXCEPT !.fase = f] = [fase |-> f, res |-> cw[w].res]
    BY <1>5 DEF Places
  <2>2. [fase |-> f, res |-> cw[w].res] \in Places
    BY <1>5 DEF Places
  <2>3. [cw EXCEPT ![w].fase = f] = [cw EXCEPT ![w] = [cw[w] EXCEPT !.fase = f]]
    OBVIOUS
  <2> QED BY <2>1, <2>2, <2>3
<1>7. ASSUME cw[w].fase = "salvar"
      PROVE  [laudo EXCEPT ![MovDe(w)] = cw[w].res] \in [Andamentos -> Laudos \cup {SemLaudo}]
  <2>1. cw[w].res \in Laudos
    BY <1>2, <1>3, <1>7
  <2> QED BY <1>1, <2>1
<1>8. CASE LerRecebidas(w)
  <2>1. UNCHANGED <<cw, laudo>> /\ \A v \in Classificadores : loteC'[v] = loteC[v] \/ v = w
    BY <1>1, <1>8 DEF LerRecebidas, cLivres, C!Ler, C!LeituraPerdida
  <2>2. cw[w].fase = "livre"
    BY <1>8 DEF LerRecebidas
  <2> QED BY <1>1, <1>3, <2>1, <2>2
<1>9. CASE Classificar(w)
  <2>1. PICK r \in Classificacoes : cw' = [cw EXCEPT ![w] = [fase |-> "salvar", res |-> r]]
    BY <1>9 DEF Classificar
  <2>2. r \in Possiveis
    BY <2>1, ClassificacoesPossiveis
  <2>3. [fase |-> "salvar", res |-> r] \in Places
    BY <1>2, <2>2 DEF Places, Fases
  <2>4. loteC[w] # {} /\ UNCHANGED <<loteC, laudo>>
    BY <1>9 DEF Classificar
  <2> QED BY <1>1, <1>4, <2>1, <2>2, <2>3, <2>4
<1>10. CASE Salvar(w) \/ PublicarClassificada(w)
  <2>1. PICK f \in Fases : cw' = [cw EXCEPT ![w].fase = f]
    BY <1>10 DEF Salvar, PublicarClassificada, Fases
  <2>2. cw[w].fase # "livre" /\ UNCHANGED loteC
    BY <1>10 DEF Salvar, PublicarClassificada
  <2>3. laudo' \in [Andamentos -> Laudos \cup {SemLaudo}]
    BY <1>1, <1>7, <1>10 DEF Salvar, PublicarClassificada
  <2> QED BY <1>3, <1>4, <1>6, <2>1, <2>2, <2>3
<1>11. CASE \/ FalharSalvar(w) \/ FalharClassificada(w) \/ ConfirmarRecebida(w)
            \/ CairClassificador(w)
  <2>1. cw' = [cw EXCEPT ![w] = CwLivre]
    BY <1>11 DEF FalharSalvar, FalharClassificada, ConfirmarRecebida, CairClassificador
  <2>2. \A v \in Classificadores : loteC'[v] = loteC[v] \/ v = w
    BY <1>1, <1>11 DEF FalharSalvar, FalharClassificada, ConfirmarRecebida,
                       CairClassificador, C!Falhar, C!Concluir, C!Reiniciar
  <2>3. laudo' \in [Andamentos -> Laudos \cup {SemLaudo}]
    BY <1>1, <1>7, <1>11 DEF FalharSalvar, FalharClassificada, ConfirmarRecebida,
                             CairClassificador
  <2> QED BY <1>2, <1>4, <2>1, <2>2, <2>3
<1> QED BY <1>8, <1>9, <1>10, <1>11 DEF ClassificadorNext

(* The same of a notifier's step.                                          *)
LEMMA LugarDoNotificador ==
    ASSUME Tipos, NEW n \in Notificadores, NotificadorNext(n) \/ CairNotificador(n)
    PROVE  /\ ns' \in [Notificadores -> {"livre", "criar", "marcar", "confirmar"}]
           /\ \A v \in Notificadores : ns'[v] # "livre" => loteN'[v] # {}
           /\ notificada' \in SUBSET Andamentos
           /\ avisos' \in [Andamentos -> Seq(Laudos)]
<1> USE DEF Tipos, TypeOK, Lugares
<1>1. loteN[n] # {} => Evento(n) \in Classificadas
  BY DaMaoDoNotificador
<1>2. \A v \in Notificadores : ns[v] # "livre" => loteN[v] # {}
  OBVIOUS
<1>3. ASSUME loteN[n] # {} PROVE AvisosCom(n) \in [Andamentos -> Seq(Laudos)]
  <2> DEFINE m == Evento(n).mov
             l == [urg |-> Evento(n).urg, fallback |-> Evento(n).fallback]
  <2>1. m \in Andamentos /\ l \in Laudos
    BY <1>1, <1>3 DEF Classificadas, Laudos
  <2>2. AvisosCom(n) = [avisos EXCEPT ![m] = Append(avisos[m], l)]
    BY DEF AvisosCom
  <2>3. avisos \in [Andamentos -> Seq(Laudos)]
    OBVIOUS
  <2> HIDE DEF m, l
  <2>4. Append(avisos[m], l) \in Seq(Laudos)
    BY <2>1, <2>3
  <2> QED BY <2>2, <2>3, <2>4
<1>4. CASE LerClassificadas(n)
  BY <1>4 DEF LerClassificadas, N!Ler, N!LeituraPerdida
<1>5. CASE Decidir(n)
  BY <1>5 DEF Decidir
<1>6. CASE CriarAviso(n)
  BY <1>2, <1>3, <1>6 DEF CriarAviso
<1>7. CASE Marcar(n)
  BY <1>1, <1>2, <1>7 DEF Marcar, Classificadas
<1>8. CASE FalharAviso(n) \/ FalharMarcar(n) \/ ConfirmarClassificada(n) \/ CairNotificador(n)
  <2>1. ns' = [ns EXCEPT ![n] = "livre"]
    BY <1>8 DEF FalharAviso, FalharMarcar, ConfirmarClassificada, CairNotificador
  <2>2. \A v \in Notificadores : loteN'[v] = loteN[v] \/ v = n
    BY <1>8 DEF FalharAviso, FalharMarcar, ConfirmarClassificada, CairNotificador,
                N!Falhar, N!Concluir, N!Reiniciar
  <2>3. notificada' \in SUBSET Andamentos
    BY <1>1, <1>2, <1>8 DEF FalharAviso, FalharMarcar, ConfirmarClassificada,
                            CairNotificador, Classificadas
  <2>4. avisos' \in [Andamentos -> Seq(Laudos)]
    BY <1>2, <1>3, <1>8 DEF FalharAviso, FalharMarcar, ConfirmarClassificada,
                            CairNotificador
  <2> QED BY <1>2, <2>1, <2>2, <2>3, <2>4
<1> QED BY <1>4, <1>5, <1>6, <1>7, <1>8 DEF NotificadorNext

LEMMA TiposMantidos ==
    ASSUME Tipos, [Next]_vars
    PROVE  Tipos'
<1>1. EntradaDireito' /\ CP!Invariante' /\ NP!Invariante'
  BY EntradaSegue, GrupoDosClassificadores, GrupoDosNotificadores
<1>2. /\ EntradaTypeOK'
      /\ loteC' \in [Classificadores -> SUBSET Nat]
      /\ loteN' \in [Notificadores -> SUBSET Nat]
      /\ classified' \in Fluxos(Classificadas)
  BY <1>1 DEF EntradaDireito, CP!Invariante, CP!TypeOK, NP!Invariante, NP!TypeOK,
              NP!Fluxos, Fluxos
<1> DEFINE DoClassificador ==
               /\ cw \in [Classificadores -> Places]
               /\ laudo \in [Andamentos -> Laudos \cup {SemLaudo}]
               /\ \A v \in Classificadores :
                      cw[v].fase # "livre" => loteC[v] # {} /\ cw[v].res \in Possiveis
           DoNotificador ==
               /\ ns \in [Notificadores -> {"livre", "criar", "marcar", "confirmar"}]
               /\ notificada \in SUBSET Andamentos
               /\ avisos \in [Andamentos -> Seq(Laudos)]
               /\ \A v \in Notificadores : ns[v] # "livre" => loteN[v] # {}
           Resto == antigas \in SUBSET Andamentos /\ minima \in [Tenants -> Urgencias]
<1>3. DoClassificador /\ DoNotificador /\ Resto
  BY DEF Tipos, TypeOK, Lugares, Places, Fases
<1>4. ASSUME NEW w \in Classificadores, ClassificadorNext(w) \/ CairClassificador(w)
      PROVE  DoClassificador' /\ DoNotificador' /\ Resto'
  <2>1. UNCHANGED <<ns, notificada, avisos, loteN, antigas, minima>>
    BY <1>4 DEF ClassificadorNext, CairClassificador, LerRecebidas, Classificar, Salvar,
                FalharSalvar, PublicarClassificada, FalharClassificada, ConfirmarRecebida,
                cLivres
  <2> QED BY <1>3, <1>4, <2>1, LugarDoClassificador
<1>5. ASSUME NEW n \in Notificadores, NotificadorNext(n) \/ CairNotificador(n)
      PROVE  DoClassificador' /\ DoNotificador' /\ Resto'
  <2>1. UNCHANGED <<cw, laudo, loteC, antigas, minima>>
    BY <1>5 DEF NotificadorNext, CairNotificador, LerClassificadas, Decidir, CriarAviso,
                FalharAviso, Marcar, FalharMarcar, ConfirmarClassificada, nLivres
  <2> QED BY <1>3, <1>5, <2>1, LugarDoNotificador
<1>6. ASSUME UNCHANGED vars \/ Monitorar
      PROVE  DoClassificador' /\ DoNotificador' /\ Resto'
  BY <1>3, <1>6 DEF vars, consumidorVars, Monitorar
<1>7. ASSUME \/ \E m \in Andamentos : Envelhecer(m)
             \/ \E t \in Tenants, u \in Minimas : SalvarPreferencias(t, u)
      PROVE  DoClassificador' /\ DoNotificador' /\ Resto'
  <2>1. UNCHANGED <<cw, laudo, loteC, ns, notificada, avisos, loteN>>
    BY <1>7 DEF Envelhecer, SalvarPreferencias
  <2>2. Resto'
    BY <1>3, <1>7, MovimentacoesAssumption DEF Envelhecer, SalvarPreferencias
  <2> QED BY <1>3, <2>1, <2>2
<1> DEFINE Tudo == DoClassificador /\ DoNotificador /\ Resto
<1>8. Tudo' => TypeOK' /\ Lugares'
  BY <1>2 DEF TypeOK, Lugares, Places, Fases
<1> HIDE DEF DoClassificador, DoNotificador, Resto
<1>9. Tudo'
  BY <1>4, <1>5, <1>6, <1>7 DEF Next
<1> QED BY <1>1, <1>8, <1>9 DEF Tipos

LEMMA BaseMantida ==
    ASSUME "duplicacao" \notin Falhas, Base, [Next]_vars
    PROVE  Base'
<1>1. Tipos' /\ (Monitorar \/ received'.itens = received.itens)
  BY TiposMantidos, EntradaSegue DEF Base
<1>2. CASE Monitorar
  <2>1. EntradaInvariante /\ EntradaNext
    BY <1>2 DEF Base, Tipos, EntradaInvariante, Monitorar
  <2> QED BY <1>1, <2>1, EntradaMantida DEF Base, EntradaInvariante
<1>3. CASE received'.itens = received.itens
  BY <1>1, <1>3 DEF Base, UmEventoPorAndamento
<1> QED BY <1>1, <1>2, <1>3

-----------------------------------------------------------------------------
(***************************************************************************)
(* Each worker takes the steps of a service on the bus: its handler moves  *)
(* from place to place with the entry in hand, and acknowledges only from  *)
(* the last place.                                                         *)
(***************************************************************************)
AndaresC == {<<"livre", "salvar">>, <<"salvar", "publicar">>, <<"publicar", "confirmar">>}
AndaresN == {<<"livre", "criar">>, <<"livre", "marcar">>, <<"criar", "marcar">>,
             <<"marcar", "confirmar">>}

LEMMA PassoDosClassificadores ==
    ASSUME Tipos, [Next]_vars
    PROVE  CP!PassoDoServico(FaseC, FaseC', AndaresC)
<1>0. cw \in [Classificadores -> Places]
  BY DEF Tipos, TypeOK, Places, Fases
<1>1. ASSUME UNCHANGED <<received, loteC, cw>> PROVE CP!PassoDoServico(FaseC, FaseC', AndaresC)
  BY <1>1 DEF FaseC, CP!PassoDoServico
<1>2. CASE Monitorar
  <2>1. loteC' = loteC /\ FaseC' = FaseC /\ EntradaNext /\ cw' = cw
    BY <1>2 DEF Monitorar, consumidorVars, FaseC
  <2>2. ASSUME NEW m \in Andamentos, Publicar(m)
        PROVE  received' \in CP!Publicacoes(received, m, TRUE)
    BY <2>2, PublicadaAosGrupos DEF Publicar
  <2>3. received' = received \/ \E m \in Andamentos : Publicar(m)
    BY <2>1 DEF EntradaNext, Inserir, InserirOrfa, Perder
  <2> QED BY <2>1, <2>2, <2>3 DEF CP!PassoDoServico
<1>3. ASSUME NEW w \in Classificadores, ClassificadorNext(w) \/ CairClassificador(w)
      PROVE  CP!PassoDoServico(FaseC, FaseC', AndaresC)
  <2>1. \A v \in Classificadores : v # w => FaseC'[v] = FaseC[v]
    BY <1>0, <1>3 DEF ClassificadorNext, CairClassificador, LerRecebidas, Classificar, Salvar,
       FalharSalvar, PublicarClassificada, FalharClassificada, ConfirmarRecebida, FaseC
  <2>2. CASE LerRecebidas(w)
    <3>1. (CP!Ler(w) \/ CP!LeituraPerdida(w)) /\ FaseC'[w] = FaseC[w]
      BY <2>2, MesmosPassosC DEF LerRecebidas, FaseC
    <3> QED BY <2>1, <3>1 DEF CP!PassoDoServico
  <2>3. CASE Classificar(w) \/ Salvar(w) \/ PublicarClassificada(w)
    <3>1. loteC[w] # {} /\ UNCHANGED <<received, loteC>>
      BY <2>3 DEF Classificar, Salvar, PublicarClassificada, Tipos, Lugares
    <3>2. <<FaseC[w], FaseC'[w]>> \in AndaresC
      BY <1>0, <2>3 DEF Classificar, Salvar, PublicarClassificada, FaseC, AndaresC, Places
    <3> QED BY <2>1, <3>1, <3>2 DEF CP!PassoDoServico
  <2>4. CASE \/ FalharSalvar(w) \/ FalharClassificada(w) \/ ConfirmarRecebida(w)
             \/ CairClassificador(w)
    <3>1. /\ FaseC'[w] = "livre"
          /\ CP!Falhar(w) \/ CP!Reiniciar(w) \/ (FaseC[w] = "confirmar" /\ CP!Concluir(w))
      BY <1>0, <2>4, MesmosPassosC DEF FalharSalvar, FalharClassificada, ConfirmarRecebida,
         CairClassificador, FaseC, CwLivre
    <3> QED BY <2>1, <3>1 DEF CP!PassoDoServico
  <2> QED BY <1>3, <2>2, <2>3, <2>4 DEF ClassificadorNext
<1>4. CASE \/ UNCHANGED vars
           \/ \E m \in Andamentos : Envelhecer(m)
           \/ \E t \in Tenants, u \in Minimas : SalvarPreferencias(t, u)
  BY <1>1, <1>4 DEF vars, entradaVars, consumidorVars, Envelhecer, SalvarPreferencias
<1>5. ASSUME NEW n \in Notificadores, NotificadorNext(n) \/ CairNotificador(n)
      PROVE  UNCHANGED <<received, loteC, cw>>
  BY <1>5 DEF NotificadorNext, CairNotificador, LerClassificadas, Decidir, CriarAviso,
              FalharAviso, Marcar, FalharMarcar, ConfirmarClassificada, nLivres, entradaVars
<1> QED BY <1>1, <1>2, <1>3, <1>4, <1>5 DEF Next

LEMMA PassoDosNotificadores ==
    ASSUME Tipos, [Next]_vars
    PROVE  NP!PassoDoServico(ns, ns', AndaresN)
<1>0. ns \in [Notificadores -> {"livre", "criar", "marcar", "confirmar"}]
  BY DEF Tipos, TypeOK
<1>1. ASSUME UNCHANGED <<classified, loteN, ns>> PROVE NP!PassoDoServico(ns, ns', AndaresN)
  BY <1>1 DEF NP!PassoDoServico
<1>2. ASSUME NEW w \in Classificadores, ClassificadorNext(w) \/ CairClassificador(w)
      PROVE  NP!PassoDoServico(ns, ns', AndaresN)
  <2>1. UNCHANGED <<loteN, ns>>
    BY <1>2 DEF ClassificadorNext, CairClassificador, LerRecebidas, Classificar, Salvar,
                FalharSalvar, PublicarClassificada, FalharClassificada, ConfirmarRecebida,
                cLivres
  <2>2. CASE UNCHANGED classified
    BY <1>1, <2>1, <2>2
  <2>3. CASE ~UNCHANGED classified
    <3>1. /\ cw[w].fase = "publicar"
          /\ classified' \in Publicacoes(classified, EventoDe(w), "duplicacao" \in Falhas)
      BY <1>2, <2>3
         DEF ClassificadorNext, CairClassificador, LerRecebidas, Classificar, Salvar,
             FalharSalvar, PublicarClassificada, FalharClassificada, ConfirmarRecebida
    <3>2. PICK e \in Classificadas : e = EventoDe(w)
      BY <3>1, EventoClassificado
    <3>3. classified' \in NP!Publicacoes(classified, e, TRUE)
      BY <3>1, <3>2, PublicadaAosGrupos
    <3> QED BY <2>1, <3>3 DEF NP!PassoDoServico
  <2> QED BY <2>2, <2>3
<1>3. ASSUME NEW n \in Notificadores, NotificadorNext(n) \/ CairNotificador(n)
      PROVE  NP!PassoDoServico(ns, ns', AndaresN)
  <2>1. \A v \in Notificadores : v # n => ns'[v] = ns[v]
    BY <1>0, <1>3 DEF NotificadorNext, CairNotificador, LerClassificadas, Decidir, CriarAviso,
       FalharAviso, Marcar, FalharMarcar, ConfirmarClassificada
  <2>2. CASE LerClassificadas(n)
    <3>1. (NP!Ler(n) \/ NP!LeituraPerdida(n)) /\ ns'[n] = ns[n]
      BY <2>2, MesmosPassosN DEF LerClassificadas
    <3> QED BY <2>1, <3>1 DEF NP!PassoDoServico
  <2>3. CASE Decidir(n) \/ CriarAviso(n) \/ Marcar(n)
    <3>1. loteN[n] # {} /\ UNCHANGED <<classified, loteN>>
      BY <2>3 DEF Decidir, CriarAviso, Marcar, Tipos, Lugares
    <3>2. <<ns[n], ns'[n]>> \in AndaresN
      BY <1>0, <2>3 DEF Decidir, CriarAviso, Marcar, AndaresN
    <3> QED BY <2>1, <3>1, <3>2 DEF NP!PassoDoServico
  <2>4. CASE \/ FalharAviso(n) \/ FalharMarcar(n) \/ ConfirmarClassificada(n)
             \/ CairNotificador(n)
    <3>1. /\ ns'[n] = "livre"
          /\ NP!Falhar(n) \/ NP!Reiniciar(n) \/ (ns[n] = "confirmar" /\ NP!Concluir(n))
      BY <1>0, <2>4, MesmosPassosN DEF FalharAviso, FalharMarcar, ConfirmarClassificada,
         CairNotificador
    <3> QED BY <2>1, <3>1 DEF NP!PassoDoServico
  <2> QED BY <1>3, <2>2, <2>3, <2>4 DEF NotificadorNext
<1>4. CASE \/ UNCHANGED vars \/ Monitorar
           \/ \E m \in Andamentos : Envelhecer(m)
           \/ \E t \in Tenants, u \in Minimas : SalvarPreferencias(t, u)
  BY <1>1, <1>4 DEF vars, consumidorVars, Monitorar, Envelhecer, SalvarPreferencias
<1> QED BY <1>1, <1>2, <1>3, <1>4 DEF Next

(* The two streams only grow.                                              *)
LEMMA ItensSeguem ==
    ASSUME Tipos, [Next]_vars
    PROVE  /\ \A i \in 1 .. Len(received.itens) :
                  i \in 1 .. Len(received'.itens) /\ received'.itens[i] = received.itens[i]
           /\ \A k \in 1 .. Len(classified.itens) :
                  k \in 1 .. Len(classified'.itens) /\ classified'.itens[k] = classified.itens[k]
<1>1. CP!Invariante /\ NP!Invariante
  BY DEF Tipos
<1>2. CP!PassoDoServico(FaseC, FaseC', AndaresC) /\ NP!PassoDoServico(ns, ns', AndaresN)
  BY PassoDosClassificadores, PassoDosNotificadores
<1>3. \A i \in 1 .. Len(received.itens) :
          i \in 1 .. Len(received'.itens) /\ received'.itens[i] = received.itens[i]
  BY <1>1, <1>2, CP!ServicoSegue, FluxoAssumption, LimiteDeEventos
<1>4. \A k \in 1 .. Len(classified.itens) :
          k \in 1 .. Len(classified'.itens) /\ classified'.itens[k] = classified.itens[k]
  BY <1>1, <1>2, NP!ServicoSegue, FluxoAssumption, LimiteDeEventos
<1> QED BY <1>3, <1>4

-----------------------------------------------------------------------------
(* An entry past the saving, or past the publication, stays past it.       *)
LugaresFinaisC == {{"publicar", "confirmar"}, {"confirmar"}}
LugaresFinaisN == {{"marcar", "confirmar"}, {"confirmar"}}

LEMMA PassouCSegue ==
    ASSUME "duplicacao" \notin Falhas, Base, [Next]_vars,
           NEW D \in LugaresFinaisC, NEW i, PassouC(D, i)
    PROVE  PassouC(D, i)'
<1> USE DEF LugaresFinaisC
<1>1. CP!Passou(received, loteC, FaseC, D, i)
  BY DEF PassouC
<1>2. CP!Invariante
  BY DEF Base, Tipos
<1>3. cw \in [Classificadores -> Places]
  BY DEF Base, Tipos, TypeOK, Places, Fases
<1> SUFFICES CP!Passou(received', loteC', FaseC', D, i)
  BY DEF PassouC
<1>4. CASE UNCHANGED <<received, loteC, cw>>
  BY <1>1, <1>4 DEF FaseC
<1>5. CASE Monitorar
  <2>1. received'.entregue = received.entregue
    <3>1. ASSUME NEW m \in Andamentos, Publicar(m)
          PROVE  received'.entregue = received.entregue
      <4>1. received \in Fluxos(Andamentos)
        BY DEF Base, Tipos, TypeOK, EntradaTypeOK
      <4>2. received' \in XAdd(received, m)
        BY <3>1, UmXAdd DEF Publicar
      <4> QED BY <4>1, <4>2, XAddAcrescenta
    <3> QED BY <1>5, <3>1 DEF Monitorar, EntradaNext, Inserir, InserirOrfa, Perder
  <2>2. loteC' = loteC /\ FaseC' = FaseC
    BY <1>5 DEF Monitorar, consumidorVars, FaseC
  <2> QED BY <1>1, <2>1, <2>2 DEF CP!Passou
<1>6. ASSUME NEW w \in Classificadores, ClassificadorNext(w) \/ CairClassificador(w)
      PROVE  CP!Passou(received', loteC', FaseC', D, i)
  <2>1. CASE LerRecebidas(w)
    <3>1. CP!Ler(w) \/ CP!LeituraPerdida(w)
      BY <2>1, MesmosPassosC DEF LerRecebidas
    <3>2. FaseC' = FaseC
      BY <2>1 DEF LerRecebidas, FaseC
    <3>3. CP!Passou(received', loteC', FaseC, D, i)
      BY <1>1, <1>2, <3>1, CP!PassouAoLer, FluxoAssumption, LimiteDeEventos
    <3> QED BY <3>2, <3>3
  <2>2. CASE Classificar(w) \/ Salvar(w) \/ PublicarClassificada(w)
    <3>1. received'.entregue = received.entregue /\ loteC' = loteC
      BY <2>2 DEF Classificar, Salvar, PublicarClassificada
    <3>2. \A v \in Classificadores : v # w => FaseC'[v] = FaseC[v]
      BY <1>3, <2>2 DEF Classificar, Salvar, PublicarClassificada, FaseC
    <3>3. FaseC[w] \in D => FaseC'[w] \in D
      BY <1>3, <2>2 DEF Classificar, Salvar, PublicarClassificada, FaseC, Places
    <3> QED BY <1>1, <3>1, <3>2, <3>3, CP!PassouAoAndar, FluxoAssumption, LimiteDeEventos
  <2>3. CASE \/ FalharSalvar(w) \/ FalharClassificada(w) \/ ConfirmarRecebida(w)
             \/ CairClassificador(w)
    <3>1. CP!Concluir(w) \/ CP!Falhar(w) \/ CP!Reiniciar(w)
      BY <2>3, MesmosPassosC DEF FalharSalvar, FalharClassificada, ConfirmarRecebida,
                                 CairClassificador
    <3>2. \A v \in Classificadores : v # w => FaseC'[v] = FaseC[v]
      BY <1>3, <2>3 DEF FalharSalvar, FalharClassificada, ConfirmarRecebida,
                        CairClassificador, FaseC
    <3> QED BY <1>1, <1>2, <3>1, <3>2, CP!PassouAoLargar, FluxoAssumption, LimiteDeEventos
  <2> QED BY <1>6, <2>1, <2>2, <2>3 DEF ClassificadorNext
<1>7. CASE \/ UNCHANGED vars
           \/ \E m \in Andamentos : Envelhecer(m)
           \/ \E t \in Tenants, u \in Minimas : SalvarPreferencias(t, u)
  BY <1>4, <1>7 DEF vars, entradaVars, consumidorVars, Envelhecer, SalvarPreferencias
<1>8. ASSUME NEW n \in Notificadores, NotificadorNext(n) \/ CairNotificador(n)
      PROVE  UNCHANGED <<received, loteC, cw>>
  BY <1>8 DEF NotificadorNext, CairNotificador, LerClassificadas, Decidir, CriarAviso,
              FalharAviso, Marcar, FalharMarcar, ConfirmarClassificada, nLivres, entradaVars
<1> QED BY <1>4, <1>5, <1>6, <1>7, <1>8 DEF Next

LEMMA PassouNSegue ==
    ASSUME "duplicacao" \notin Falhas, Base, Classificacao, [Next]_vars,
           NEW D \in LugaresFinaisN, NEW i, PassouN(D, i)
    PROVE  PassouN(D, i)'
<1> USE DEF LugaresFinaisN
<1>1. NP!Passou(classified, loteN, ns, D, i)
  BY DEF PassouN
<1>2. NP!Invariante
  BY DEF Base, Tipos
<1>3. ns \in [Notificadores -> {"livre", "criar", "marcar", "confirmar"}]
  BY DEF Base, Tipos, TypeOK
<1> SUFFICES NP!Passou(classified', loteN', ns', D, i)
  BY DEF PassouN
<1>4. CASE UNCHANGED <<classified, loteN, ns>>
  BY <1>1, <1>4
<1>5. ASSUME NEW w \in Classificadores, ClassificadorNext(w) \/ CairClassificador(w)
      PROVE  NP!Passou(classified', loteN', ns', D, i)
  <2>1. loteN' = loteN /\ ns' = ns
    BY <1>5 DEF ClassificadorNext, CairClassificador, LerRecebidas, Classificar, Salvar,
                FalharSalvar, PublicarClassificada, FalharClassificada, ConfirmarRecebida,
                cLivres
  <2>2. classified'.entregue = classified.entregue
    <3>1. CASE UNCHANGED classified
      BY <3>1
    <3>2. CASE ~UNCHANGED classified
      <4>1. classified \in Fluxos(Classificadas)
        BY DEF Base, Tipos, TypeOK
      <4>2. classified' \in UNION {XAdd(classified, EventoDe(v)) : v \in Classificadores}
        BY <1>5, <3>2, UmXAdd
           DEF ClassificadorNext, CairClassificador, LerRecebidas, Classificar, Salvar,
               FalharSalvar, PublicarClassificada, FalharClassificada, ConfirmarRecebida
      <4>3. PICK v \in Classificadores : classified' \in XAdd(classified, EventoDe(v))
        BY <4>2
      <4> QED BY <4>1, <4>3 DEF XAdd, Fluxos
    <3> QED BY <3>1, <3>2
  <2> QED BY <1>1, <2>1, <2>2 DEF NP!Passou
<1>6. ASSUME NEW n \in Notificadores, NotificadorNext(n) \/ CairNotificador(n)
      PROVE  NP!Passou(classified', loteN', ns', D, i)
  <2>1. CASE LerClassificadas(n)
    <3>1. NP!Ler(n) \/ NP!LeituraPerdida(n)
      BY <2>1, MesmosPassosN DEF LerClassificadas
    <3>2. ns' = ns
      BY <2>1 DEF LerClassificadas
    <3>3. NP!Passou(classified', loteN', ns, D, i)
      BY <1>1, <1>2, <3>1, NP!PassouAoLer, FluxoAssumption, LimiteDeEventos
    <3> QED BY <3>2, <3>3
  <2>2. CASE Decidir(n) \/ CriarAviso(n) \/ Marcar(n)
    <3>1. classified'.entregue = classified.entregue /\ loteN' = loteN
      BY <2>2 DEF Decidir, CriarAviso, Marcar
    <3>2. \A v \in Notificadores : v # n => ns'[v] = ns[v]
      BY <1>3, <2>2 DEF Decidir, CriarAviso, Marcar
    <3>3. ns[n] \in D => ns'[n] \in D
      BY <1>3, <2>2 DEF Decidir, CriarAviso, Marcar
    <3> QED BY <1>1, <3>1, <3>2, <3>3, NP!PassouAoAndar, FluxoAssumption, LimiteDeEventos
  <2>3. CASE \/ FalharAviso(n) \/ FalharMarcar(n) \/ ConfirmarClassificada(n)
             \/ CairNotificador(n)
    <3>1. NP!Concluir(n) \/ NP!Falhar(n) \/ NP!Reiniciar(n)
      BY <2>3, MesmosPassosN DEF FalharAviso, FalharMarcar, ConfirmarClassificada,
                                 CairNotificador
    <3>2. \A v \in Notificadores : v # n => ns'[v] = ns[v]
      BY <1>3, <2>3 DEF FalharAviso, FalharMarcar, ConfirmarClassificada, CairNotificador
    <3> QED BY <1>1, <1>2, <3>1, <3>2, NP!PassouAoLargar, FluxoAssumption, LimiteDeEventos
  <2> QED BY <1>6, <2>1, <2>2, <2>3 DEF NotificadorNext
<1>7. CASE \/ UNCHANGED vars
           \/ Monitorar
           \/ \E m \in Andamentos : Envelhecer(m)
           \/ \E t \in Tenants, u \in Minimas : SalvarPreferencias(t, u)
  BY <1>4, <1>7 DEF vars, consumidorVars, Monitorar, Envelhecer, SalvarPreferencias
<1> QED BY <1>4, <1>5, <1>6, <1>7 DEF Next

LEMMA RecebidaSegue ==
    ASSUME "duplicacao" \notin Falhas, Base, [Next]_vars,
           NEW m, NEW D \in LugaresFinaisC, Recebida(m, D)
    PROVE  Recebida(m, D)'
<1>1. PICK i \in 1 .. Len(received.itens) : received.itens[i] = m /\ PassouC(D, i)
  BY DEF Recebida
<1>2. PassouC(D, i)'
  BY <1>1, PassouCSegue
<1>3. i \in 1 .. Len(received'.itens) /\ received'.itens[i] = m
  BY <1>1, ItensSeguem DEF Base
<1> QED BY <1>2, <1>3 DEF Recebida

(* The movement a classifier has just written, and goes on with or drops,  *)
(* is past the place the classifier had come to.                           *)
LEMMA CabecaFica ==
    ASSUME "duplicacao" \notin Falhas, Base, [Next]_vars,
           NEW w \in Classificadores, loteC[w] # {}, NEW D, NEW x \in D,
           \A v \in Classificadores : v # w => cw'[v] = cw[v],
           \/ received' = received /\ loteC' = loteC /\ cw'[w].fase = x
           \/ C!Falhar(w),
           NEW m, m = MovDe(w)
    PROVE  Recebida(m, D)'
<1> DEFINE g == [FaseC EXCEPT ![w] = x]
<1>0. PICK k : k = C!Cabeca(loteC[w])
  OBVIOUS
<1>1. k \in 1 .. Len(received.itens) /\ received.itens[k] = m
  BY <1>0, NaMaoDoClassificador DEF MovDe
<1>2. g[w] \in D /\ \A v \in Classificadores : v # w => g[v] = FaseC[v] /\ FaseC'[v] = g[v]
  BY DEF FaseC
<1>3. CP!Passou(received, loteC, g, D, k)
  BY <1>0, <1>2, NaMaoDoClassificador
<1> HIDE DEF g
<1>4. CP!Passou(received', loteC', FaseC', D, k)
  <2>1. CASE received' = received /\ loteC' = loteC /\ cw'[w].fase = x
    <3>1. FaseC'[w] \in D
      BY <2>1 DEF FaseC
    <3> QED BY <1>2, <1>3, <2>1, <3>1, CP!PassouAoAndar, FluxoAssumption, LimiteDeEventos
  <2>2. CASE C!Falhar(w)
    <3>1. CP!Falhar(w)
      BY <2>2, MesmosPassosC
    <3>2. CP!Invariante
      BY DEF Base, Tipos
    <3> QED BY <1>2, <1>3, <3>1, <3>2, CP!PassouAoLargar, FluxoAssumption, LimiteDeEventos
  <2> QED BY <2>1, <2>2
<1>5. PassouC(D, k)'
  BY <1>4 DEF PassouC
<1>6. k \in 1 .. Len(received'.itens) /\ received'.itens[k] = m
  BY <1>1, ItensSeguem DEF Base
<1> QED BY <1>5, <1>6 DEF Recebida

(* A movement is written by the handler of its event, once, and nothing    *)
(* else changes in that step.                                              *)
LEMMA LaudoEscrito ==
    ASSUME "duplicacao" \notin Falhas, Base, [Next]_vars, laudo' # laudo
    PROVE  \E w \in Classificadores, m \in Andamentos :
              /\ cw[w].fase = "salvar"
              /\ m = MovDe(w)
              /\ cw[w].res \in Possiveis
              /\ laudo' = [laudo EXCEPT ![m] = cw[w].res]
              /\ ~Recebida(m, {"publicar", "confirmar"})
              /\ Recebida(m, {"publicar", "confirmar"})'
              /\ UNCHANGED <<gravados, notificada, avisos, antigas, classified, loteN, ns>>
<1>1. PICK w \in Classificadores : Salvar(w) \/ FalharSalvar(w)
  <2>1. CASE \/ UNCHANGED vars
             \/ Monitorar
             \/ \E m \in Andamentos : Envelhecer(m)
             \/ \E t \in Tenants, u \in Minimas : SalvarPreferencias(t, u)
    BY <2>1 DEF vars, consumidorVars, Monitorar, Envelhecer, SalvarPreferencias
  <2>2. ASSUME NEW n \in Notificadores, NotificadorNext(n) \/ CairNotificador(n)
        PROVE  FALSE
    BY <2>2 DEF NotificadorNext, CairNotificador, LerClassificadas, Decidir, CriarAviso,
                FalharAviso, Marcar, FalharMarcar, ConfirmarClassificada, nLivres
  <2>3. ASSUME NEW w \in Classificadores, ClassificadorNext(w) \/ CairClassificador(w)
        PROVE  Salvar(w) \/ FalharSalvar(w)
    BY <2>3 DEF ClassificadorNext, CairClassificador, LerRecebidas, Classificar,
                PublicarClassificada, FalharClassificada, ConfirmarRecebida
  <2> QED BY <2>1, <2>2, <2>3 DEF Next
<1> DEFINE m == MovDe(w)
<1>2. cw[w].fase = "salvar" /\ loteC[w] # {} /\ cw[w].res \in Possiveis
  BY <1>1 DEF Salvar, FalharSalvar, Base, Tipos, Lugares
<1>3. m \in Andamentos /\ ~Recebida(m, {"publicar", "confirmar"})
  BY <1>2, NaMaoDoClassificador
<1>4. cw \in [Classificadores -> Places]
  BY DEF Base, Tipos, TypeOK, Places, Fases
<1>5. laudo' = [laudo EXCEPT ![m] = cw[w].res]
  BY <1>1 DEF Salvar, FalharSalvar
<1>6. UNCHANGED <<gravados, notificada, avisos, antigas, classified, loteN, ns>>
  BY <1>1 DEF Salvar, FalharSalvar, cLivres
<1>7. \A v \in Classificadores : v # w => cw'[v] = cw[v]
  BY <1>1, <1>4 DEF Salvar, FalharSalvar
<1>8. \/ UNCHANGED <<received, loteC>> /\ cw'[w].fase = "publicar" /\ cw'[w].res = cw[w].res
      \/ C!Falhar(w) /\ cw'[w].fase = "livre"
  BY <1>1, <1>4 DEF Salvar, FalharSalvar, Places, CwLivre
<1>9. \A k : k = m => Recebida(k, {"publicar", "confirmar"})'
  BY <1>2, <1>7, <1>8, CabecaFica
<1> HIDE DEF m
<1>10. PICK k \in Andamentos : k = m
  BY <1>3
<1> QED BY <1>2, <1>3, <1>5, <1>6, <1>9, <1>10 DEF m

(* An event is published by the handler of the movement's own event, once. *)
LEMMA EventoPublicado ==
    ASSUME "duplicacao" \notin Falhas, Base, [Next]_vars, classified'.itens # classified.itens
    PROVE  \E w \in Classificadores, m \in Andamentos :
              /\ cw[w].fase = "publicar"
              /\ m = MovDe(w)
              /\ cw[w].res \in Laudos
              /\ classified'.itens =
                     Append(classified.itens,
                            [mov |-> m, urg |-> cw[w].res.urg, fallback |-> cw[w].res.fallback])
              /\ ~Recebida(m, {"confirmar"})
              /\ Recebida(m, {"confirmar"})'
              /\ UNCHANGED <<laudo, notificada, avisos, loteN, ns>>
<1>0. classified \in Fluxos(Classificadas)
  BY DEF Base, Tipos, TypeOK
<1>1. PICK w \in Classificadores : PublicarClassificada(w) \/ FalharClassificada(w)
  <2>1. CASE \/ UNCHANGED vars
             \/ Monitorar
             \/ \E m \in Andamentos : Envelhecer(m)
             \/ \E t \in Tenants, u \in Minimas : SalvarPreferencias(t, u)
    BY <2>1 DEF vars, consumidorVars, Monitorar, Envelhecer, SalvarPreferencias
  <2>2. ASSUME NEW n \in Notificadores, NotificadorNext(n) \/ CairNotificador(n)
        PROVE  FALSE
    <3>1. ASSUME \/ N!Ler(n) \/ N!LeituraPerdida(n) \/ N!Concluir(n)
                 \/ N!Falhar(n) \/ N!Reiniciar(n)
          PROVE  classified'.itens = classified.itens
      BY <1>0, <3>1 DEF N!Ler, N!LeituraPerdida, N!Concluir, N!Falhar, N!Reiniciar,
                        N!XReadGroup, N!XAck, Fluxos
    <3> QED BY <2>2, <3>1
            DEF NotificadorNext, CairNotificador, LerClassificadas, Decidir, CriarAviso,
                FalharAviso, Marcar, FalharMarcar, ConfirmarClassificada
  <2>3. ASSUME NEW w \in Classificadores, ClassificadorNext(w) \/ CairClassificador(w)
        PROVE  PublicarClassificada(w) \/ FalharClassificada(w)
    BY <2>3 DEF ClassificadorNext, CairClassificador, LerRecebidas, Classificar, Salvar,
                FalharSalvar, ConfirmarRecebida
  <2> QED BY <2>1, <2>2, <2>3 DEF Next
<1>2. cw[w].fase = "publicar" /\ loteC[w] # {} /\ cw[w].res \in Laudos
  BY <1>1 DEF PublicarClassificada, FalharClassificada, Base, Tipos, Lugares, Possiveis
<1>3. MovDe(w) \in Andamentos /\ ~Recebida(MovDe(w), {"confirmar"})
  BY <1>2, NaMaoDoClassificador
<1>4. PICK m \in Andamentos : m = MovDe(w)
  BY <1>3
<1>5. cw \in [Classificadores -> Places]
  BY DEF Base, Tipos, TypeOK, Places, Fases
<1>6. \A v \in Classificadores : v # w => cw'[v] = cw[v]
  BY <1>1, <1>5 DEF PublicarClassificada, FalharClassificada
<1>7. \/ received' = received /\ loteC' = loteC /\ cw'[w].fase = "confirmar"
      \/ C!Falhar(w)
  BY <1>1, <1>5 DEF PublicarClassificada, FalharClassificada, Places
<1>8. Recebida(m, {"confirmar"})'
  BY <1>2, <1>4, <1>6, <1>7, CabecaFica
<1>9. classified'.itens = Append(classified.itens, EventoDe(w))
  <2>1. classified' \in XAdd(classified, EventoDe(w))
    BY <1>1, UmXAdd DEF PublicarClassificada, FalharClassificada
  <2> QED BY <1>0, <2>1 DEF XAdd, Fluxos
<1>10. UNCHANGED <<laudo, notificada, avisos, loteN, ns>>
  BY <1>1 DEF PublicarClassificada, FalharClassificada, cLivres
<1> QED BY <1>2, <1>3, <1>4, <1>8, <1>9, <1>10 DEF EventoDe

LEMMA AnunciadaSegue ==
    ASSUME "duplicacao" \notin Falhas, Base, Classificacao, [Next]_vars,
           NEW m, NEW D \in LugaresFinaisN, Anunciada(m, D)
    PROVE  Anunciada(m, D)'
<1>1. PICK k \in 1 .. Len(classified.itens) : classified.itens[k].mov = m /\ PassouN(D, k)
  BY DEF Anunciada
<1>2. PassouN(D, k)'
  BY <1>1, PassouNSegue
<1>3. k \in 1 .. Len(classified'.itens) /\ classified'.itens[k].mov = m
  BY <1>1, ItensSeguem DEF Base
<1> QED BY <1>2, <1>3 DEF Anunciada

(* What is past the second place is past the first.                        *)
LEMMA PassadaPassada ==
    ASSUME NEW m
    PROVE  /\ Recebida(m, {"confirmar"}) => Recebida(m, {"publicar", "confirmar"})
           /\ Anunciada(m, {"confirmar"}) => Anunciada(m, {"marcar", "confirmar"})
BY DEF Recebida, Anunciada, PassouC, PassouN, CP!Passou, NP!Passou

-----------------------------------------------------------------------------
(* The classification part of the invariant.                               *)
LEMMA LaudosSeguem ==
    ASSUME "duplicacao" \notin Falhas, Base, [Next]_vars,
           NEW m \in Andamentos, Recebida(m, {"publicar", "confirmar"})
    PROVE  laudo'[m] = laudo[m]
<1>1. laudo \in [Andamentos -> Laudos \cup {SemLaudo}]
  BY DEF Base, Tipos, TypeOK
<1> QED BY <1>1, LaudoEscrito

(* A handler about to publish has just saved, or has not moved.            *)
LEMMA NaPublicacao ==
    ASSUME "duplicacao" \notin Falhas, Base, [Next]_vars,
           NEW v \in Classificadores, cw'[v].fase = "publicar"
    PROVE  /\ MovDe(v)' = MovDe(v)
           /\ \/ cw'[v] = cw[v]
              \/ /\ cw[v].fase = "salvar"
                 /\ cw'[v].res = cw[v].res
                 /\ laudo' = [laudo EXCEPT ![MovDe(v)] = cw[v].res]
<1>0. cw \in [Classificadores -> Places] /\ loteC \in [Classificadores -> SUBSET Nat]
  BY DEF Base, Tipos, TypeOK, Places, Fases
<1>1. /\ loteC'[v] = loteC[v]
      /\ \/ cw'[v] = cw[v]
         \/ /\ cw[v].fase = "salvar"
            /\ cw'[v].res = cw[v].res
            /\ laudo' = [laudo EXCEPT ![MovDe(v)] = cw[v].res]
  <2>1. CASE \/ UNCHANGED vars
             \/ Monitorar
             \/ \E m \in Andamentos : Envelhecer(m)
             \/ \E t \in Tenants, u \in Minimas : SalvarPreferencias(t, u)
    BY <2>1 DEF vars, consumidorVars, Monitorar, Envelhecer, SalvarPreferencias
  <2>2. ASSUME NEW n \in Notificadores, NotificadorNext(n) \/ CairNotificador(n)
        PROVE  UNCHANGED <<loteC, cw>>
    BY <2>2 DEF NotificadorNext, CairNotificador, LerClassificadas, Decidir, CriarAviso,
                FalharAviso, Marcar, FalharMarcar, ConfirmarClassificada, nLivres
  <2>3. ASSUME NEW w \in Classificadores, w # v, ClassificadorNext(w) \/ CairClassificador(w)
        PROVE  loteC'[v] = loteC[v] /\ cw'[v] = cw[v]
    <3>1. loteC'[v] = loteC[v]
      BY <1>0, <2>3
         DEF ClassificadorNext, CairClassificador, LerRecebidas, Classificar, Salvar,
             FalharSalvar, PublicarClassificada, FalharClassificada, ConfirmarRecebida,
             C!Ler, C!LeituraPerdida, C!Concluir, C!Falhar, C!Reiniciar
    <3>2. cw'[v] = cw[v]
      BY <1>0, <2>3
         DEF ClassificadorNext, CairClassificador, LerRecebidas, Classificar, Salvar,
             FalharSalvar, PublicarClassificada, FalharClassificada, ConfirmarRecebida
    <3> QED BY <3>1, <3>2
  <2>4. CASE ClassificadorNext(v) \/ CairClassificador(v)
    <3>1. CASE LerRecebidas(v)
      BY <3>1 DEF LerRecebidas
    <3>2. CASE Salvar(v)
      <4>1. cw[v] \in Places /\ cw' = [cw EXCEPT ![v] = [cw[v] EXCEPT !.fase = "publicar"]]
        BY <1>0, <3>2 DEF Salvar
      <4>2. cw'[v].res = cw[v].res
        BY <1>0, <4>1 DEF Places
      <4> QED BY <3>2, <4>2 DEF Salvar
    <3>3. CASE ~LerRecebidas(v) /\ ~Salvar(v)
      <4>1. cw'[v].fase # "publicar"
        BY <1>0, <2>4, <3>3
           DEF ClassificadorNext, CairClassificador, Classificar, FalharSalvar,
               PublicarClassificada, FalharClassificada, ConfirmarRecebida, CwLivre, Places
      <4> QED BY <4>1
    <3> QED BY <3>1, <3>2, <3>3
  <2> QED BY <2>1, <2>2, <2>3, <2>4 DEF Next
<1>2. loteC[v] # {}
  <2>1. cw[v].fase \in {"salvar", "publicar"}
    BY <1>1
  <2> QED BY <2>1 DEF Base, Tipos, Lugares
<1>3. C!Cabeca(loteC[v]) \in 1 .. Len(received.itens)
  BY <1>2, NaMaoDoClassificador
<1> QED BY <1>1, <1>3, ItensSeguem DEF MovDe, Base

LEMMA ClassificacaoMantida ==
    ASSUME "duplicacao" \notin Falhas, Base, Classificacao, [Next]_vars
    PROVE  Classificacao'
<1>0. /\ laudo \in [Andamentos -> Laudos \cup {SemLaudo}]
      /\ classified.itens \in Seq(Classificadas)
      /\ Len(classified.itens) \in Nat
      /\ SemLaudo \notin Laudos
  BY MovimentacoesAssumption DEF Base, Tipos, TypeOK, Fluxos, Laudos
<1>1. ASSUME NEW m \in Andamentos, laudo'[m] # SemLaudo
      PROVE  Recebida(m, {"publicar", "confirmar"})'
  <2>1. CASE laudo[m] # SemLaudo
    BY <2>1, RecebidaSegue DEF Classificacao, LugaresFinaisC
  <2>2. CASE laudo[m] = SemLaudo
    <3>1. laudo'[m] # laudo[m]
      BY <1>1, <2>2
    <3> QED BY <1>0, <3>1, LaudoEscrito
  <2> QED BY <2>1, <2>2
<1>2. ASSUME NEW v \in Classificadores, cw'[v].fase = "publicar"
      PROVE  laudo'[MovDe(v)'] = cw'[v].res
  <2>1. MovDe(v)' = MovDe(v)
    BY <1>2, NaPublicacao
  <2>2. cw[v].fase \in {"salvar", "publicar"}
    BY <1>2, NaPublicacao
  <2>3. loteC[v] # {}
    BY <2>2 DEF Base, Tipos, Lugares
  <2>4. MovDe(v) \in Andamentos
    BY <2>3, NaMaoDoClassificador
  <2>5. CASE cw'[v] = cw[v]
    <3>1. Recebida(MovDe(v), {"publicar", "confirmar"})
      BY <1>2, <2>3, <2>5, NaMaoDoClassificador
    <3>2. laudo'[MovDe(v)] = laudo[MovDe(v)]
      BY <2>4, <3>1, LaudosSeguem
    <3> QED BY <1>2, <2>1, <2>5, <3>2 DEF Classificacao
  <2>6. CASE cw'[v] # cw[v]
    BY <1>0, <1>2, <2>1, <2>4, <2>6, NaPublicacao
  <2> QED BY <2>5, <2>6
<1>3. ASSUME NEW k \in 1 .. Len(classified.itens)
      PROVE  /\ classified.itens[k] \in Classificadas
             /\ Recebida(classified.itens[k].mov, {"confirmar"})
             /\ Recebida(classified.itens[k].mov, {"publicar", "confirmar"})
             /\ laudo'[classified.itens[k].mov] =
                    [urg |-> classified.itens[k].urg, fallback |-> classified.itens[k].fallback]
  <2>1. classified.itens[k] \in Classificadas
    BY <1>0
  <2>2. classified.itens[k].mov \in Andamentos
    BY <2>1 DEF Classificadas
  <2>3. Recebida(classified.itens[k].mov, {"confirmar"})
    BY DEF Classificacao
  <2>4. Recebida(classified.itens[k].mov, {"publicar", "confirmar"})
    BY <2>3, PassadaPassada
  <2> QED BY <2>1, <2>2, <2>3, <2>4, LaudosSeguem DEF Classificacao
<1>4. ASSUME NEW m, Recebida(m, {"confirmar"})
      PROVE  Recebida(m, {"confirmar"})'
  BY <1>4, RecebidaSegue DEF LugaresFinaisC
<1>5. ASSUME NEW k \in 1 .. Len(classified'.itens)
      PROVE  /\ \A m : m = classified'.itens[k].mov => Recebida(m, {"confirmar"})'
             /\ laudo'[classified'.itens[k].mov] =
                    [urg |-> classified'.itens[k].urg,
                     fallback |-> classified'.itens[k].fallback]
             /\ k \notin 1 .. Len(classified.itens) =>
                    /\ k = Len(classified.itens) + 1
                    /\ ~Recebida(classified'.itens[k].mov, {"confirmar"})
  <2>1. CASE k \in 1 .. Len(classified.itens)
    <3>1. classified'.itens[k] = classified.itens[k]
      BY <2>1, ItensSeguem DEF Base
    <3> QED BY <1>3, <1>4, <2>1, <3>1
  <2>2. CASE k \notin 1 .. Len(classified.itens)
    <3>1. PICK w \in Classificadores, m \in Andamentos :
              /\ cw[w].fase = "publicar"
              /\ m = MovDe(w)
              /\ cw[w].res \in Laudos
              /\ classified'.itens =
                     Append(classified.itens,
                            [mov |-> m, urg |-> cw[w].res.urg, fallback |-> cw[w].res.fallback])
              /\ ~Recebida(m, {"confirmar"})
              /\ Recebida(m, {"confirmar"})'
              /\ UNCHANGED laudo
      BY <2>2, EventoPublicado
    <3> DEFINE e == [mov |-> m, urg |-> cw[w].res.urg, fallback |-> cw[w].res.fallback]
    <3>2. k = Len(classified.itens) + 1 /\ classified'.itens[k] = e
      BY <1>0, <2>2, <3>1
    <3>3. laudo'[m] = cw[w].res
      BY <3>1 DEF Classificacao
    <3>4. cw[w].res = [urg |-> e.urg, fallback |-> e.fallback]
      BY <3>1 DEF Laudos
    <3> QED BY <2>2, <3>1, <3>2, <3>3, <3>4
  <2> QED BY <2>1, <2>2
<1>6. ASSUME NEW k \in 1 .. Len(classified'.itens)
      PROVE  Recebida(classified.itens[k].mov, {"confirmar"})'
  BY <1>5
<1>7. ASSUME NEW k \in 1 .. Len(classified'.itens), NEW l \in 1 .. Len(classified'.itens),
             classified'.itens[k].mov = classified'.itens[l].mov
      PROVE  k = l
  <2>1. \A j \in 1 .. Len(classified.itens) :
            /\ classified'.itens[j] = classified.itens[j]
            /\ Recebida(classified'.itens[j].mov, {"confirmar"})
    BY <1>3, ItensSeguem DEF Base
  <2>2. CASE k \in 1 .. Len(classified.itens) /\ l \in 1 .. Len(classified.itens)
    BY <1>7, <2>1, <2>2 DEF Classificacao
  <2>3. CASE ~(k \in 1 .. Len(classified.itens) /\ l \in 1 .. Len(classified.itens))
    BY <1>5, <1>7, <2>1, <2>3
  <2> QED BY <2>2, <2>3
<1> QED BY <1>1, <1>2, <1>5, <1>6, <1>7 DEF Classificacao

-----------------------------------------------------------------------------
(* The alerts and the marks.  The same of the notifiers: the movement one  *)
(* has just alerted of or marked is past the place the notifier had come to *)
LEMMA CabecaFicaN ==
    ASSUME "duplicacao" \notin Falhas, Base, Classificacao, [Next]_vars,
           NEW n \in Notificadores, loteN[n] # {}, NEW D, NEW x \in D,
           \A v \in Notificadores : v # n => ns'[v] = ns[v],
           \/ classified' = classified /\ loteN' = loteN /\ ns'[n] = x
           \/ N!Falhar(n),
           NEW m, m = Evento(n).mov
    PROVE  Anunciada(m, D)'
<1> DEFINE g == [ns EXCEPT ![n] = x]
<1>0. PICK k : k = N!Cabeca(loteN[n])
  OBVIOUS
<1>1. k \in 1 .. Len(classified.itens) /\ classified.itens[k].mov = m
  BY <1>0, NaMaoDoNotificador DEF Evento
<1>2. g[n] \in D /\ \A v \in Notificadores : v # n => g[v] = ns[v] /\ ns'[v] = g[v]
  BY DEF Base, Tipos, TypeOK
<1>3. NP!Passou(classified, loteN, g, D, k)
  BY <1>0, <1>2, NaMaoDoNotificador
<1> HIDE DEF g
<1>4. NP!Passou(classified', loteN', ns', D, k)
  <2>1. CASE classified' = classified /\ loteN' = loteN /\ ns'[n] = x
    BY <1>2, <1>3, <2>1, NP!PassouAoAndar, FluxoAssumption, LimiteDeEventos
  <2>2. CASE N!Falhar(n)
    <3>1. NP!Falhar(n)
      BY <2>2, MesmosPassosN
    <3>2. NP!Invariante
      BY DEF Base, Tipos
    <3> QED BY <1>2, <1>3, <3>1, <3>2, NP!PassouAoLargar, FluxoAssumption, LimiteDeEventos
  <2> QED BY <2>1, <2>2
<1>5. PassouN(D, k)'
  BY <1>4 DEF PassouN
<1>6. k \in 1 .. Len(classified'.itens) /\ classified'.itens[k].mov = m
  BY <1>1, ItensSeguem DEF Base
<1> QED BY <1>5, <1>6 DEF Anunciada

LEMMA SoNotificadoresAvisam ==
    ASSUME [Next]_vars, ~UNCHANGED <<notificada, avisos>>
    PROVE  \E n \in Notificadores :
              CriarAviso(n) \/ FalharAviso(n) \/ Marcar(n) \/ FalharMarcar(n)
<1>1. CASE \/ UNCHANGED vars
           \/ Monitorar
           \/ \E m \in Andamentos : Envelhecer(m)
           \/ \E t \in Tenants, u \in Minimas : SalvarPreferencias(t, u)
  BY <1>1 DEF vars, consumidorVars, Monitorar, Envelhecer, SalvarPreferencias
<1>2. ASSUME NEW w \in Classificadores, ClassificadorNext(w) \/ CairClassificador(w)
      PROVE  FALSE
  BY <1>2 DEF ClassificadorNext, CairClassificador, LerRecebidas, Classificar, Salvar,
              FalharSalvar, PublicarClassificada, FalharClassificada, ConfirmarRecebida,
              cLivres
<1>3. ASSUME NEW n \in Notificadores, NotificadorNext(n) \/ CairNotificador(n)
      PROVE  CriarAviso(n) \/ FalharAviso(n) \/ Marcar(n) \/ FalharMarcar(n)
  BY <1>3 DEF NotificadorNext, CairNotificador, LerClassificadas, Decidir,
              ConfirmarClassificada
<1> QED BY <1>1, <1>2, <1>3 DEF Next

(* An alert is created by the handler of the movement's event, once.       *)
LEMMA AvisoCriado ==
    ASSUME "duplicacao" \notin Falhas, Base, Classificacao, [Next]_vars, avisos' # avisos
    PROVE  \E n \in Notificadores, m \in Andamentos, l \in Laudos :
              /\ ns[n] = "criar"
              /\ m = Evento(n).mov
              /\ l = [urg |-> Evento(n).urg, fallback |-> Evento(n).fallback]
              /\ avisos' = [avisos EXCEPT ![m] = Append(avisos[m], l)]
              /\ ~Anunciada(m, {"marcar", "confirmar"})
              /\ Anunciada(m, {"marcar", "confirmar"})'
              /\ UNCHANGED <<gravados, laudo, notificada, antigas>>
<1>1. PICK n \in Notificadores : CriarAviso(n) \/ FalharAviso(n)
  BY SoNotificadoresAvisam DEF Marcar, FalharMarcar
<1>2. ns[n] = "criar" /\ loteN[n] # {}
  BY <1>1 DEF CriarAviso, FalharAviso, Base, Tipos, Lugares
<1>3. Evento(n) \in Classificadas /\ ~Anunciada(Evento(n).mov, {"marcar", "confirmar"})
  BY <1>2, NaMaoDoNotificador
<1>4. PICK m \in Andamentos, l \in Laudos :
          m = Evento(n).mov /\ l = [urg |-> Evento(n).urg, fallback |-> Evento(n).fallback]
  BY <1>3 DEF Classificadas, Laudos
<1>5. ns \in [Notificadores -> {"livre", "criar", "marcar", "confirmar"}]
  BY DEF Base, Tipos, TypeOK
<1>6. \A v \in Notificadores : v # n => ns'[v] = ns[v]
  BY <1>1, <1>5 DEF CriarAviso, FalharAviso
<1>7. \/ classified' = classified /\ loteN' = loteN /\ ns'[n] = "marcar"
      \/ N!Falhar(n)
  BY <1>1, <1>5 DEF CriarAviso, FalharAviso
<1>8. Anunciada(m, {"marcar", "confirmar"})'
  BY <1>2, <1>4, <1>6, <1>7, CabecaFicaN
<1>9. avisos' = [avisos EXCEPT ![m] = Append(avisos[m], l)]
  <2>1. avisos' = AvisosCom(n)
    BY <1>1 DEF CriarAviso, FalharAviso
  <2> QED BY <1>4, <2>1 DEF AvisosCom
<1>10. UNCHANGED <<gravados, laudo, notificada, antigas>>
  BY <1>1 DEF CriarAviso, FalharAviso, nLivres, entradaVars
<1> QED BY <1>2, <1>3, <1>4, <1>8, <1>9, <1>10

(* So is the mark.                                                         *)
LEMMA MarcaFeita ==
    ASSUME "duplicacao" \notin Falhas, Base, Classificacao, [Next]_vars,
           notificada' # notificada
    PROVE  \E n \in Notificadores, m \in Andamentos :
              /\ ns[n] = "marcar"
              /\ m = Evento(n).mov
              /\ notificada' = notificada \cup {m}
              /\ Anunciada(m, {"marcar", "confirmar"})
              /\ Anunciada(m, {"confirmar"})'
              /\ UNCHANGED <<gravados, laudo, avisos, antigas>>
<1>1. PICK n \in Notificadores : Marcar(n) \/ FalharMarcar(n)
  BY SoNotificadoresAvisam DEF CriarAviso, FalharAviso
<1>2. ns[n] = "marcar" /\ loteN[n] # {}
  BY <1>1 DEF Marcar, FalharMarcar, Base, Tipos, Lugares
<1>3. Evento(n) \in Classificadas /\ Anunciada(Evento(n).mov, {"marcar", "confirmar"})
  BY <1>2, NaMaoDoNotificador
<1>4. PICK m \in Andamentos : m = Evento(n).mov
  BY <1>3 DEF Classificadas
<1>5. ns \in [Notificadores -> {"livre", "criar", "marcar", "confirmar"}]
  BY DEF Base, Tipos, TypeOK
<1>6. \A v \in Notificadores : v # n => ns'[v] = ns[v]
  BY <1>1, <1>5 DEF Marcar, FalharMarcar
<1>7. \/ classified' = classified /\ loteN' = loteN /\ ns'[n] = "confirmar"
      \/ N!Falhar(n)
  BY <1>1, <1>5 DEF Marcar, FalharMarcar
<1>8. Anunciada(m, {"confirmar"})'
  BY <1>2, <1>4, <1>6, <1>7, CabecaFicaN
<1>9. notificada' = notificada \cup {m}
  BY <1>1, <1>4 DEF Marcar, FalharMarcar
<1>10. UNCHANGED <<gravados, laudo, avisos, antigas>>
  BY <1>1 DEF Marcar, FalharMarcar, nLivres, entradaVars
<1> QED BY <1>2, <1>3, <1>4, <1>8, <1>9, <1>10

(* A handler about to mark has just created the alert, or decided that     *)
(* none is due, or has not moved.                                          *)
LEMMA NaMarcacao ==
    ASSUME "duplicacao" \notin Falhas, Base, Classificacao, [Next]_vars,
           NEW v \in Notificadores, ns'[v] = "marcar"
    PROVE  /\ loteN[v] # {}
           /\ Evento(v)' = Evento(v)
           /\ \/ ns[v] = "marcar"
              \/ avisos' = AvisosCom(v)
              \/ Evento(v).mov \in antigas
              \/ \E u \in Urgencias : Irrelevante(Evento(v), u)
<1>0. /\ ns \in [Notificadores -> {"livre", "criar", "marcar", "confirmar"}]
      /\ loteN \in [Notificadores -> SUBSET Nat]
  BY DEF Base, Tipos, TypeOK
<1>1. /\ loteN'[v] = loteN[v]
      /\ \/ ns[v] = "marcar"
         \/ ns[v] = "criar" /\ avisos' = AvisosCom(v)
         \/ /\ loteN[v] # {}
            /\ \/ Evento(v).mov \in antigas
               \/ \E u \in Urgencias : Irrelevante(Evento(v), u)
  <2>1. CASE \/ UNCHANGED vars
             \/ Monitorar
             \/ \E m \in Andamentos : Envelhecer(m)
             \/ \E t \in Tenants, u \in Minimas : SalvarPreferencias(t, u)
    BY <2>1 DEF vars, consumidorVars, Monitorar, Envelhecer, SalvarPreferencias
  <2>2. ASSUME NEW w \in Classificadores, ClassificadorNext(w) \/ CairClassificador(w)
        PROVE  UNCHANGED <<loteN, ns>>
    BY <2>2 DEF ClassificadorNext, CairClassificador, LerRecebidas, Classificar, Salvar,
                FalharSalvar, PublicarClassificada, FalharClassificada, ConfirmarRecebida,
                cLivres
  <2>3. ASSUME NEW n \in Notificadores, n # v, NotificadorNext(n) \/ CairNotificador(n)
        PROVE  loteN'[v] = loteN[v] /\ ns'[v] = ns[v]
    <3>1. loteN'[v] = loteN[v]
      BY <1>0, <2>3
         DEF NotificadorNext, CairNotificador, LerClassificadas, Decidir, CriarAviso,
             FalharAviso, Marcar, FalharMarcar, ConfirmarClassificada,
             N!Ler, N!LeituraPerdida, N!Concluir, N!Falhar, N!Reiniciar
    <3>2. ns'[v] = ns[v]
      BY <1>0, <2>3
         DEF NotificadorNext, CairNotificador, LerClassificadas, Decidir, CriarAviso,
             FalharAviso, Marcar, FalharMarcar, ConfirmarClassificada
    <3> QED BY <3>1, <3>2
  <2>4. CASE NotificadorNext(v) \/ CairNotificador(v)
    <3>1. CASE LerClassificadas(v)
      BY <3>1 DEF LerClassificadas
    <3>2. CASE Decidir(v)
      <4>1. MinimasLidas(TenantDoEvento(v)) \subseteq Urgencias
        <5>1. loteN[v] # {}
          BY <3>2 DEF Decidir
        <5>2. Evento(v).mov \in Andamentos
          BY <5>1, NaMaoDoNotificador DEF Classificadas
        <5>3. TenantDoEvento(v) \in Tenants
          BY <5>2, MovimentacoesAssumption DEF TenantDoEvento
        <5> QED BY <5>3, MovimentacoesAssumption DEF MinimasLidas, Base, Tipos, TypeOK
      <4>2. PICK m \in MinimasLidas(TenantDoEvento(v)) :
                ns'[v] = IF Evento(v).mov \in antigas \/ Irrelevante(Evento(v), m)
                         THEN "marcar" ELSE "criar"
        BY <1>0, <3>2 DEF Decidir
      <4>3. Evento(v).mov \in antigas \/ Irrelevante(Evento(v), m)
        BY <4>2
      <4> QED BY <3>2, <4>1, <4>3 DEF Decidir
    <3>3. CASE CriarAviso(v)
      BY <3>3 DEF CriarAviso
    <3>4. CASE ~LerClassificadas(v) /\ ~Decidir(v) /\ ~CriarAviso(v)
      <4>1. ns'[v] # "marcar"
        BY <1>0, <2>4, <3>4
           DEF NotificadorNext, CairNotificador, FalharAviso, Marcar, FalharMarcar,
               ConfirmarClassificada
      <4> QED BY <4>1
    <3> QED BY <3>1, <3>2, <3>3, <3>4
  <2> QED BY <2>1, <2>2, <2>3, <2>4 DEF Next
<1>2. loteN[v] # {}
  BY <1>1 DEF Base, Tipos, Lugares
<1>3. N!Cabeca(loteN[v]) \in 1 .. Len(classified.itens)
  BY <1>2, NaMaoDoNotificador
<1>4. Evento(v)' = Evento(v)
  BY <1>1, <1>3, ItensSeguem DEF Evento, Base
<1> QED BY <1>1, <1>2, <1>4

(* An announced movement has been classified, so its laudo stays.          *)
LEMMA AnunciadaTemLaudo ==
    ASSUME "duplicacao" \notin Falhas, Base, Classificacao, [Next]_vars,
           NEW m \in Andamentos, NEW D, Anunciada(m, D)
    PROVE  laudo[m] \in Laudos /\ laudo'[m] = laudo[m]
<1>1. PICK k \in 1 .. Len(classified.itens) : classified.itens[k].mov = m
  BY DEF Anunciada
<1>2. classified.itens[k] \in Classificadas
  BY DEF Base, Tipos, TypeOK, Fluxos
<1>3. laudo[m] \in Laudos
  <2>1. laudo[m] = [urg |-> classified.itens[k].urg, fallback |-> classified.itens[k].fallback]
    BY <1>1 DEF Classificacao
  <2>2. classified.itens[k].urg \in Urgencias /\ classified.itens[k].fallback \in BOOLEAN
    BY <1>2 DEF Classificadas
  <2> QED BY <2>1, <2>2 DEF Laudos
<1>4. Recebida(m, {"publicar", "confirmar"})
  BY <1>1, PassadaPassada DEF Classificacao
<1> QED BY <1>3, <1>4, LaudosSeguem

LEMMA AntigasCrescem ==
    ASSUME [Next]_vars
    PROVE  antigas \subseteq antigas'
<1>1. ASSUME NEW w \in Classificadores, ClassificadorNext(w) \/ CairClassificador(w)
      PROVE  UNCHANGED antigas
  BY <1>1 DEF ClassificadorNext, CairClassificador, LerRecebidas, Classificar, Salvar,
              FalharSalvar, PublicarClassificada, FalharClassificada, ConfirmarRecebida,
              cLivres
<1>2. ASSUME NEW n \in Notificadores, NotificadorNext(n) \/ CairNotificador(n)
      PROVE  UNCHANGED antigas
  BY <1>2 DEF NotificadorNext, CairNotificador, LerClassificadas, Decidir, CriarAviso,
              FalharAviso, Marcar, FalharMarcar, ConfirmarClassificada, nLivres
<1> QED BY <1>1, <1>2 DEF Next, vars, consumidorVars, Monitorar, Envelhecer,
                          SalvarPreferencias

LEMMA AvisosCrescem ==
    ASSUME "duplicacao" \notin Falhas, Base, Classificacao, [Next]_vars,
           NEW m \in Andamentos, avisos[m] # << >>
    PROVE  avisos'[m] # << >>
<1>1. avisos \in [Andamentos -> Seq(Laudos)]
  BY DEF Base, Tipos, TypeOK
<1>2. CASE avisos' # avisos
  <2>1. PICK k \in Andamentos, l \in Laudos :
            avisos' = [avisos EXCEPT ![k] = Append(avisos[k], l)]
    BY <1>2, AvisoCriado
  <2>2. Append(avisos[k], l) # << >>
    BY <1>1, <2>1
  <2> QED BY <1>1, <2>1, <2>2
<1> QED BY <1>2

(* What is due stays given.                                                *)
LEMMA DevidoSegue ==
    ASSUME "duplicacao" \notin Falhas, Base, Classificacao, [Next]_vars,
           NEW m \in Andamentos, NEW D, Anunciada(m, D), Devido(m)
    PROVE  Devido(m)'
<1>1. laudo'[m] = laudo[m]
  BY AnunciadaTemLaudo
<1> QED BY <1>1, AntigasCrescem, AvisosCrescem DEF Devido

LEMMA AvisoMantido ==
    ASSUME "duplicacao" \notin Falhas, Base, Classificacao, Aviso, [Next]_vars
    PROVE  Aviso'
<1>0. /\ avisos \in [Andamentos -> Seq(Laudos)]
      /\ notificada \subseteq Andamentos
      /\ laudo \in [Andamentos -> Laudos \cup {SemLaudo}]
  BY DEF Base, Tipos, TypeOK
<1>1. ASSUME NEW m \in Andamentos
      PROVE  /\ avisos'[m] # << >> => Anunciada(m, {"marcar", "confirmar"})'
             /\ Len(avisos'[m]) <= 1
             /\ \A i \in 1 .. Len(avisos'[m]) : avisos'[m][i] = laudo'[m]
  <2>1. CASE avisos'[m] = avisos[m]
    <3>1. CASE avisos[m] = << >>
      BY <2>1, <3>1
    <3>2. CASE avisos[m] # << >>
      <4>1. Anunciada(m, {"marcar", "confirmar"})
        BY <3>2 DEF Aviso
      <4>2. Anunciada(m, {"marcar", "confirmar"})'
        BY <4>1, AnunciadaSegue DEF LugaresFinaisN
      <4>3. laudo'[m] = laudo[m]
        BY <4>1, AnunciadaTemLaudo
      <4> QED BY <2>1, <4>2, <4>3 DEF Aviso
    <3> QED BY <3>1, <3>2
  <2>2. CASE avisos'[m] # avisos[m]
    <3>1. PICK n \in Notificadores, k \in Andamentos, l \in Laudos :
              /\ ns[n] = "criar"
              /\ k = Evento(n).mov
              /\ l = [urg |-> Evento(n).urg, fallback |-> Evento(n).fallback]
              /\ avisos' = [avisos EXCEPT ![k] = Append(avisos[k], l)]
              /\ ~Anunciada(k, {"marcar", "confirmar"})
              /\ Anunciada(k, {"marcar", "confirmar"})'
              /\ UNCHANGED laudo
      BY <2>2, AvisoCriado
    <3>2. k = m
      BY <1>0, <2>2, <3>1
    <3>3. avisos[m] = << >>
      BY <3>1, <3>2 DEF Aviso
    <3>4. avisos'[m] = <<l>>
      BY <1>0, <3>1, <3>2, <3>3
    <3>5. laudo[m] = l
      <4>1. loteN[n] # {}
        BY <3>1 DEF Base, Tipos, Lugares
      <4>2. PICK i \in 1 .. Len(classified.itens) : classified.itens[i] = Evento(n)
        BY <4>1, NaMaoDoNotificador DEF Evento
      <4>3. laudo[classified.itens[i].mov] =
                [urg |-> classified.itens[i].urg, fallback |-> classified.itens[i].fallback]
        BY DEF Classificacao
      <4> QED BY <3>1, <3>2, <4>2, <4>3
    <3>6. Len(avisos'[m]) = 1 /\ avisos'[m][1] = l
      BY <3>4
    <3>7. \A i \in 1 .. Len(avisos'[m]) : avisos'[m][i] = laudo'[m]
      BY <3>1, <3>5, <3>6
    <3>8. Anunciada(m, {"marcar", "confirmar"})'
      BY <3>1, <3>2
    <3>9. Len(avisos'[m]) <= 1
      BY <3>6
    <3> QED BY <3>7, <3>8, <3>9, Zenon
  <2> QED BY <2>1, <2>2
<1>2. ASSUME NEW m \in notificada'
      PROVE  Anunciada(m, {"confirmar"})' /\ Devido(m)'
  <2>1. CASE m \in notificada
    <3>1. m \in Andamentos /\ Anunciada(m, {"confirmar"}) /\ Devido(m)
      BY <1>0, <2>1 DEF Aviso
    <3> QED BY <3>1, AnunciadaSegue, DevidoSegue DEF LugaresFinaisN
  <2>2. CASE m \notin notificada
    <3>1. PICK n \in Notificadores, k \in Andamentos :
              /\ ns[n] = "marcar"
              /\ k = Evento(n).mov
              /\ notificada' = notificada \cup {k}
              /\ Anunciada(k, {"marcar", "confirmar"})
              /\ Anunciada(k, {"confirmar"})'
      BY <1>2, <2>2, MarcaFeita
    <3>2. k = m
      BY <1>2, <2>2, <3>1
    <3>3. Devido(k)
      BY <3>1 DEF Aviso
    <3>4. Devido(k)'
      BY <3>1, <3>3, DevidoSegue
    <3> QED BY <3>1, <3>2, <3>4
  <2> QED BY <2>1, <2>2
<1>3. ASSUME NEW v \in Notificadores, ns'[v] = "marcar"
      PROVE  Devido(Evento(v).mov)'
  <2>1. loteN[v] # {} /\ Evento(v)' = Evento(v)
    BY <1>3, NaMarcacao
  <2>2. /\ Evento(v) \in Classificadas
        /\ N!Cabeca(loteN[v]) \in 1 .. Len(classified.itens)
        /\ classified.itens[N!Cabeca(loteN[v])] = Evento(v)
    BY <2>1, NaMaoDoNotificador DEF Evento
  <2>3. PICK m \in Andamentos : m = Evento(v).mov
    BY <2>2 DEF Classificadas
  <2>4. laudo[m] = [urg |-> Evento(v).urg, fallback |-> Evento(v).fallback]
    BY <2>2, <2>3 DEF Classificacao
  <2>5. Anunciada(m, {"livre", "criar", "marcar", "confirmar"})
    <3>1. ns[v] \in {"livre", "criar", "marcar", "confirmar"}
      BY DEF Base, Tipos, TypeOK
    <3> QED BY <2>1, <2>3, <3>1, NaMaoDoNotificador
  <2>6. laudo'[m] = laudo[m]
    BY <2>5, AnunciadaTemLaudo
  <2>7. Devido(m)'
    <3>1. CASE ns[v] = "marcar"
      <4>1. Devido(m)
        BY <2>3, <3>1 DEF Aviso
      <4> QED BY <2>5, <4>1, DevidoSegue
    <3>2. CASE avisos' = AvisosCom(v)
      <4> DEFINE l == [urg |-> Evento(v).urg, fallback |-> Evento(v).fallback]
      <4>1. avisos' = [avisos EXCEPT ![m] = Append(avisos[m], l)] /\ l \in Laudos
        BY <2>2, <2>3, <3>2 DEF AvisosCom, Classificadas, Laudos
      <4>2. avisos'[m] # << >>
        BY <1>0, <4>1
      <4> QED BY <4>2 DEF Devido
    <3>3. CASE Evento(v).mov \in antigas
      BY <2>3, <3>3, AntigasCrescem DEF Devido
    <3>4. CASE \E u \in Urgencias : Irrelevante(Evento(v), u)
      <4>1. ~Evento(v).fallback /\ Evento(v).urg # "alta"
        BY <3>4 DEF Irrelevante, Nivel, Urgencias
      <4> QED BY <2>4, <2>6, <4>1 DEF Devido
    <3> QED BY <1>3, <3>1, <3>2, <3>3, <3>4, NaMarcacao
  <2> QED BY <2>1, <2>3, <2>7 DEF Devido
<1> QED BY <1>1, <1>2, <1>3 DEF Aviso

-----------------------------------------------------------------------------
LEMMA MovInvInicial == Init => MovInv
<1> SUFFICES ASSUME Init PROVE MovInv
  OBVIOUS
<1>1. Base
  BY BaseInicial
<1>2. Classificacao
  BY DEF Init, Classificacao, FluxoVazio, CwLivre
<1>3. Aviso
  BY DEF Init, Aviso
<1> QED BY <1>1, <1>2, <1>3 DEF MovInv

LEMMA MovInvMantido ==
    ASSUME "duplicacao" \notin Falhas
    PROVE  MovInv /\ [Next]_vars => MovInv'
BY BaseMantida, ClassificacaoMantida, AvisoMantido DEF MovInv

LEMMA MovInvSempre ==
    ASSUME "duplicacao" \notin Falhas
    PROVE  Spec => []MovInv
BY MovInvInicial, MovInvMantido, PTL DEF Spec

(***************************************************************************)
(* The rows, the streams, the batches, the places of the handlers and the  *)
(* alerts keep their types.                                                *)
(***************************************************************************)
THEOREM TiposDoCaminho == Spec => []TypeOK
<1>1. Init => Tipos
  BY BaseInicial DEF Base
<1>2. Tipos /\ [Next]_vars => Tipos'
  BY TiposMantidos
<1>3. Tipos => TypeOK
  BY DEF Tipos
<1> QED BY <1>1, <1>2, <1>3, PTL DEF Spec

(***************************************************************************)
(* However the three services fail, restart and interleave, the lawyer     *)
(* gets at most one alert per movement.                                    *)
(***************************************************************************)
THEOREM NoMaximoUmAviso ==
    ASSUME "duplicacao" \notin Falhas
    PROVE  Spec => []UmAvisoPorAndamento
<1>1. MovInv => UmAvisoPorAndamento
  BY DEF MovInv, Aviso, UmAvisoPorAndamento
<1> QED BY <1>1, MovInvSempre, PTL

(***************************************************************************)
(* Row, event and alert of a movement say the same urgency and the same    *)
(* fallback mark.                                                          *)
(***************************************************************************)
THEOREM RelatosSempreConcordam ==
    ASSUME "duplicacao" \notin Falhas
    PROVE  Spec => []RelatosConcordam
<1>1. MovInv => RelatosConcordam
  BY DEF MovInv, Classificacao, Aviso, RelatosConcordam
<1> QED BY <1>1, MovInvSempre, PTL

(***************************************************************************)
(* A recent movement that is of the highest urgency, or whose urgency is   *)
(* only the fallback's guess, is never marked as dealt with without its    *)
(* alert.                                                                  *)
(***************************************************************************)
THEOREM SemSilencioIndevido ==
    ASSUME "duplicacao" \notin Falhas
    PROVE  Spec => []NenhumSilencioIndevido
<1>1. MovInv => NenhumSilencioIndevido
  BY DEF MovInv, Aviso, Devido, NenhumSilencioIndevido
<1> QED BY <1>1, MovInvSempre, PTL

-----------------------------------------------------------------------------
(***************************************************************************)
(* What is acknowledged was dealt with.  What a handler did it did before  *)
(* it comes to "confirmar", with the entry it will acknowledge.            *)
(***************************************************************************)
NoBarramento(m) == \E k \in 1 .. Len(classified.itens) : classified.itens[k].mov = m

Entregas ==
    /\ ConfirmadaFezEfeito
    /\ \A w \in Classificadores : cw[w].fase = "confirmar" => NoBarramento(MovDe(w))
    /\ \A n \in Notificadores : ns[n] = "confirmar" => Evento(n).mov \in notificada

(* What was done stays done.                                               *)
LEMMA FeitoFica ==
    ASSUME Tipos, [Next]_vars
    PROVE  /\ \A m : NoBarramento(m) => NoBarramento(m)'
           /\ notificada \subseteq notificada'
<1>1. \A m : NoBarramento(m) => NoBarramento(m)'
  BY ItensSeguem DEF NoBarramento
<1>2. ASSUME NEW n \in Notificadores, NotificadorNext(n) \/ CairNotificador(n)
      PROVE  notificada \subseteq notificada'
  BY <1>2 DEF NotificadorNext, CairNotificador, LerClassificadas, Decidir, CriarAviso,
              FalharAviso, Marcar, FalharMarcar, ConfirmarClassificada
<1>3. ASSUME NEW w \in Classificadores, ClassificadorNext(w) \/ CairClassificador(w)
      PROVE  UNCHANGED notificada
  BY <1>3 DEF ClassificadorNext, CairClassificador, LerRecebidas, Classificar, Salvar,
              FalharSalvar, PublicarClassificada, FalharClassificada, ConfirmarRecebida,
              cLivres
<1>4. CASE \/ UNCHANGED vars \/ Monitorar
           \/ \E m \in Andamentos : Envelhecer(m)
           \/ \E t \in Tenants, u \in Minimas : SalvarPreferencias(t, u)
  BY <1>1, <1>4 DEF vars, consumidorVars, Monitorar, Envelhecer, SalvarPreferencias
<1> QED BY <1>1, <1>2, <1>3, <1>4 DEF Next

(* A publication that reports success put the event on the stream.         *)
LEMMA PublicadaNoBarramento ==
    ASSUME Tipos, NEW w \in Classificadores, PublicarClassificada(w)
    PROVE  NoBarramento(MovDe(w))'
<1>1. cw[w].fase = "publicar" /\ UNCHANGED <<received, loteC, loteN>>
  BY DEF PublicarClassificada, cLivres
<1>2. PICK e \in Classificadas : e = EventoDe(w)
  BY <1>1, EventoClassificado
<1>3. classified' \in NP!Publicacoes(classified, e, TRUE)
  BY <1>2, PublicadaAosGrupos DEF PublicarClassificada
<1>4. NP!Invariante
  BY DEF Tipos
<1>5. PICK k \in 1 .. Len(classified'.itens) : classified'.itens[k] = e
  BY <1>1, <1>3, <1>4, NP!PublicacoesPreserva, FluxoAssumption, LimiteDeEventos
<1>6. e.mov = MovDe(w) /\ MovDe(w)' = MovDe(w)
  BY <1>1, <1>2 DEF EventoDe, MovDe
<1> QED BY <1>5, <1>6 DEF NoBarramento

(* A handler that comes to "confirmar", or waits there, did its work.      *)
LEMMA ConfirmarFeito ==
    ASSUME Tipos, Entregas, [Next]_vars
    PROVE  /\ \A w \in Classificadores :
                  (cw[w].fase = "confirmar" => NoBarramento(MovDe(w)))'
           /\ \A n \in Notificadores : (ns[n] = "confirmar" => Evento(n).mov \in notificada)'
<1>0. /\ CP!Invariante /\ NP!Invariante
      /\ CP!Ocupados(FaseC) /\ NP!Ocupados(ns)
      /\ CP!PassoDoServico(FaseC, FaseC', AndaresC)
      /\ NP!PassoDoServico(ns, ns', AndaresN)
      /\ cw \in [Classificadores -> Places]
      /\ ns \in [Notificadores -> {"livre", "criar", "marcar", "confirmar"}]
  BY PassoDosClassificadores, PassoDosNotificadores
     DEF Tipos, TypeOK, Lugares, FaseC, CP!Ocupados, NP!Ocupados, Places, Fases
<1>1. ASSUME NEW w \in Classificadores, cw'[w].fase = "confirmar"
      PROVE  NoBarramento(MovDe(w))'
  <2>1. FaseC'[w] = "confirmar"
    BY <1>1 DEF FaseC
  <2>2. received'.itens[CP!Cabeca(loteC'[w])] = received.itens[CP!Cabeca(loteC[w])]
    BY <1>0, <2>1, CP!NoLugar, FluxoAssumption, LimiteDeEventos
  <2>3. MovDe(w)' = MovDe(w)
    BY <2>2, MesmaCabeca DEF MovDe
  <2>4. CASE cw[w].fase = "confirmar"
    BY <2>3, <2>4, FeitoFica DEF Entregas, NoBarramento
  <2>5. CASE cw[w].fase # "confirmar"
    <3>1. ~UNCHANGED cw
      BY <1>1, <2>5
    <3>2. PICK v \in Classificadores : ClassificadorNext(v) \/ CairClassificador(v)
      BY <3>1 DEF Next, vars, consumidorVars, Monitorar, Envelhecer, SalvarPreferencias,
         NotificadorNext, CairNotificador, LerClassificadas, Decidir, CriarAviso,
         FalharAviso, Marcar, FalharMarcar, ConfirmarClassificada, nLivres
    <3>3. PublicarClassificada(w)
      BY <1>0, <1>1, <2>5, <3>2
         DEF ClassificadorNext, CairClassificador, LerRecebidas, Classificar, Salvar,
             FalharSalvar, PublicarClassificada, FalharClassificada, ConfirmarRecebida,
             CwLivre, Places
    <3> QED BY <3>3, PublicadaNoBarramento
  <2> QED BY <2>4, <2>5
<1>2. ASSUME NEW n \in Notificadores, ns'[n] = "confirmar"
      PROVE  Evento(n)'.mov \in notificada'
  <2>1. classified'.itens[NP!Cabeca(loteN'[n])] = classified.itens[NP!Cabeca(loteN[n])]
    BY <1>0, <1>2, NP!NoLugar, FluxoAssumption, LimiteDeEventos
  <2>2. Evento(n)' = Evento(n)
    BY <2>1, MesmaCabeca DEF Evento
  <2>3. CASE ns[n] = "confirmar"
    BY <2>2, <2>3, FeitoFica DEF Entregas
  <2>4. CASE ns[n] # "confirmar"
    <3>1. ~UNCHANGED ns
      BY <1>2, <2>4
    <3>2. PICK v \in Notificadores : NotificadorNext(v) \/ CairNotificador(v)
      BY <3>1 DEF Next, vars, consumidorVars, Monitorar, Envelhecer, SalvarPreferencias,
         ClassificadorNext, CairClassificador, LerRecebidas, Classificar, Salvar,
         FalharSalvar, PublicarClassificada, FalharClassificada, ConfirmarRecebida, cLivres
    <3>3. Marcar(n)
      BY <1>0, <1>2, <2>4, <3>2
         DEF NotificadorNext, CairNotificador, LerClassificadas, Decidir, CriarAviso,
             FalharAviso, Marcar, FalharMarcar, ConfirmarClassificada
    <3> QED BY <2>2, <3>3 DEF Marcar
  <2> QED BY <2>3, <2>4
<1> QED BY <1>1, <1>2

LEMMA EntregasMantidas ==
    ASSUME Tipos, Entregas, [Next]_vars
    PROVE  Entregas'
<1>0. /\ CP!Invariante /\ NP!Invariante
      /\ CP!PassoDoServico(FaseC, FaseC', AndaresC)
      /\ NP!PassoDoServico(ns, ns', AndaresN)
  BY PassoDosClassificadores, PassoDosNotificadores DEF Tipos
<1>1. ASSUME NEW i \in received'.confirmadas PROVE Efeito(i)'
  <2>1. i \in 1 .. Len(received.itens) /\ NoBarramento(received.itens[i])
    <3>1. CASE i \in received.confirmadas
      <4>1. i \in 1 .. Len(received.itens)
        BY <1>0, <3>1, CP!ConfirmadasNoFluxo, FluxoAssumption, LimiteDeEventos
      <4> QED BY <3>1, <4>1 DEF Entregas, ConfirmadaFezEfeito, Efeito, NoBarramento
    <3>2. CASE i \notin received.confirmadas
      <4>1. PICK w \in Classificadores :
                FaseC[w] = "confirmar" /\ loteC[w] # {} /\ i = CP!Cabeca(loteC[w])
        BY <1>0, <3>2, CP!NovaConfirmada, FluxoAssumption, LimiteDeEventos
      <4>2. cw[w].fase = "confirmar" /\ MovDe(w) = received.itens[i]
        BY <4>1, MesmaCabeca DEF FaseC, MovDe
      <4>3. i \in 1 .. Len(received.itens)
        BY <4>1, DaMaoDoClassificador, MesmaCabeca
      <4> QED BY <4>2, <4>3 DEF Entregas
    <3> QED BY <3>1, <3>2
  <2>2. received'.itens[i] = received.itens[i] /\ NoBarramento(received.itens[i])'
    BY <2>1, ItensSeguem, FeitoFica
  <2> QED BY <2>2 DEF Efeito, NoBarramento
<1>2. ASSUME NEW k \in classified'.confirmadas PROVE classified'.itens[k].mov \in notificada'
  <2>1. k \in 1 .. Len(classified.itens) /\ classified.itens[k].mov \in notificada
    <3>1. CASE k \in classified.confirmadas
      <4>1. k \in 1 .. Len(classified.itens)
        BY <1>0, <3>1, NP!ConfirmadasNoFluxo, FluxoAssumption, LimiteDeEventos
      <4> QED BY <3>1, <4>1 DEF Entregas, ConfirmadaFezEfeito
    <3>2. CASE k \notin classified.confirmadas
      <4>1. PICK n \in Notificadores :
                ns[n] = "confirmar" /\ loteN[n] # {} /\ k = NP!Cabeca(loteN[n])
        BY <1>0, <3>2, NP!NovaConfirmada, FluxoAssumption, LimiteDeEventos
      <4>2. Evento(n) = classified.itens[k]
        BY <4>1, MesmaCabeca DEF Evento
      <4>3. k \in 1 .. Len(classified.itens)
        BY <4>1, DaMaoDoNotificador, MesmaCabeca
      <4> QED BY <4>1, <4>2, <4>3 DEF Entregas
    <3> QED BY <3>1, <3>2
  <2> QED BY <2>1, ItensSeguem, FeitoFica
<1>3. ConfirmadaFezEfeito'
  BY <1>1, <1>2 DEF ConfirmadaFezEfeito
<1> QED BY <1>3, ConfirmarFeito DEF Entregas

(***************************************************************************)
(* Whatever fails in either service, an entry is acknowledged only when    *)
(* the next step of its movement is already written: the event published,  *)
(* or the row marked.  An XADD sent twice does not change that.            *)
(***************************************************************************)
THEOREM ConfirmadaSempreFezEfeito == Spec => []ConfirmadaFezEfeito
<1>1. Init => Tipos /\ Entregas
  <2>1. Init => Entregas
    BY DEF Init, EntradaInit, FluxoVazio, CwLivre, Entregas, ConfirmadaFezEfeito
  <2> QED BY <2>1, BaseInicial DEF Base
<1>2. (Tipos /\ Entregas) /\ [Next]_vars => (Tipos /\ Entregas)'
  BY TiposMantidos, EntregasMantidas
<1>3. Entregas => ConfirmadaFezEfeito
  BY DEF Entregas
<1> QED BY <1>1, <1>2, <1>3, PTL DEF Spec

-----------------------------------------------------------------------------
(* The refinement.  How far a movement got, by what is written about it:   *)
(* nothing comes before the step it rests on.                              *)
LEMMA EtapasEmOrdem ==
    ASSUME MovInv, NEW m \in Andamentos
    PROVE  /\ laudo[m] # SemLaudo => m \in gravados
           /\ avisos[m] # << >> => laudo[m] # SemLaudo
           /\ m \in notificada => laudo[m] # SemLaudo
           /\ \A D : Recebida(m, D) => m \in gravados
           /\ \A D : Anunciada(m, D) => laudo[m] # SemLaudo
<1>1. ASSUME NEW D, Recebida(m, D) PROVE m \in gravados
  BY <1>1 DEF Recebida, MovInv, Base, Tipos, EntradaDireito, DireitoDePublicar,
                  Publicado
<1>2. laudo[m] # SemLaudo => m \in gravados
  BY <1>1 DEF MovInv, Classificacao
<1>3. ASSUME NEW D, Anunciada(m, D) PROVE laudo[m] # SemLaudo
  <2>1. PICK k \in 1 .. Len(classified.itens) : classified.itens[k].mov = m
    BY <1>3 DEF Anunciada
  <2>2. classified.itens[k] \in Classificadas
    BY DEF MovInv, Base, Tipos, TypeOK, Fluxos
  <2>3. laudo[m] = [urg |-> classified.itens[k].urg, fallback |-> classified.itens[k].fallback]
    BY <2>1 DEF MovInv, Classificacao
  <2>4. classified.itens[k].urg \in Urgencias /\ classified.itens[k].fallback \in BOOLEAN
    BY <2>2 DEF Classificadas
  <2> QED BY <2>3, <2>4, MovimentacoesAssumption
<1>4. avisos[m] # << >> => laudo[m] # SemLaudo
  BY <1>3 DEF MovInv, Aviso
<1>5. m \in notificada => laudo[m] # SemLaudo
  BY <1>3 DEF MovInv, Aviso
<1> QED BY <1>1, <1>2, <1>3, <1>4, <1>5

Etapa == [m \in Andamentos |-> EtapaDe(m)]

(* One movement advances and the others stay.                              *)
LEMMA UmAvanca ==
    ASSUME NEW m \in Andamentos, NEW de, NEW para, EtapaDe(m) = de, EtapaDe(m)' = para,
           \A k \in Andamentos : k # m => EtapaDe(k)' = EtapaDe(k)
    PROVE  Etapa[m] = de /\ Etapa' = [Etapa EXCEPT ![m] = para]
<1>1. Etapa' = [k \in Andamentos |-> EtapaDe(k)']
  BY DEF Etapa
<1> QED BY <1>1 DEF Etapa

LEMMA Gravada ==
    ASSUME MovInv, [Next]_vars, gravados' # gravados
    PROVE  \E m \in Andamentos : Cic!Gravar(m)
<1>1. Monitorar
  <2>1. ASSUME NEW w \in Classificadores, ClassificadorNext(w) \/ CairClassificador(w)
        PROVE  UNCHANGED gravados
    BY <2>1 DEF ClassificadorNext, CairClassificador, LerRecebidas, Classificar, Salvar,
                FalharSalvar, PublicarClassificada, FalharClassificada, ConfirmarRecebida,
                cLivres
  <2>2. ASSUME NEW n \in Notificadores, NotificadorNext(n) \/ CairNotificador(n)
        PROVE  UNCHANGED gravados
    BY <2>2 DEF NotificadorNext, CairNotificador, LerClassificadas, Decidir, CriarAviso,
                FalharAviso, Marcar, FalharMarcar, ConfirmarClassificada, nLivres,
                entradaVars
  <2> QED BY <2>1, <2>2 DEF Next, vars, entradaVars, Envelhecer, SalvarPreferencias
<1>2. PICK m \in Andamentos : m \notin gravados /\ gravados' = gravados \cup {m}
  BY <1>1 DEF Monitorar, EntradaNext, Inserir, InserirOrfa, Publicar, Perder
<1>3. UNCHANGED <<laudo, notificada, avisos, antigas>>
  BY <1>1 DEF Monitorar, consumidorVars
<1>4. laudo[m] = SemLaudo /\ avisos[m] = << >> /\ m \notin notificada
  BY <1>2, EtapasEmOrdem
<1>5. EtapaDe(m) = "desconhecida" /\ EtapaDe(m)' = "gravada"
  BY <1>2, <1>3, <1>4 DEF EtapaDe
<1>6. \A k \in Andamentos : k # m => EtapaDe(k)' = EtapaDe(k)
  BY <1>2, <1>3 DEF EtapaDe
<1>7. Etapa[m] = "desconhecida" /\ Etapa' = [Etapa EXCEPT ![m] = "gravada"]
  BY <1>5, <1>6, UmAvanca
<1>8. Cic!Avancar(m, "desconhecida", "gravada")
  BY <1>7 DEF Cic!Avancar, Etapa
<1> QED BY <1>3, <1>8 DEF Cic!Gravar

LEMMA Classificada ==
    ASSUME "duplicacao" \notin Falhas, MovInv, [Next]_vars, laudo' # laudo
    PROVE  \E m \in Andamentos : Cic!Classificar(m)
<1>0. laudo \in [Andamentos -> Laudos \cup {SemLaudo}]
  BY DEF MovInv, Base, Tipos, TypeOK
<1>1. PICK w \in Classificadores, m \in Andamentos :
          /\ cw[w].fase = "salvar"
          /\ m = MovDe(w)
          /\ cw[w].res \in Possiveis
          /\ laudo' = [laudo EXCEPT ![m] = cw[w].res]
          /\ ~Recebida(m, {"publicar", "confirmar"})
          /\ UNCHANGED <<gravados, notificada, avisos, antigas>>
  BY LaudoEscrito DEF MovInv
<1>2. laudo[m] = SemLaudo /\ avisos[m] = << >> /\ m \notin notificada
  BY <1>1, EtapasEmOrdem DEF MovInv, Classificacao
<1>3. m \in gravados
  <2>1. loteC[w] # {}
    BY <1>1 DEF MovInv, Base, Tipos, Lugares
  <2>2. Recebida(m, {"salvar"})
    BY <1>1, <2>1, NaMaoDoClassificador DEF MovInv
  <2> QED BY <2>2, EtapasEmOrdem
<1>4. cw[w].res \in Laudos /\ laudo'[m] = cw[w].res /\ laudo'[m] # SemLaudo
  BY <1>0, <1>1, MovimentacoesAssumption DEF Possiveis, Laudos
<1>5. EtapaDe(m) = "gravada" /\ EtapaDe(m)' = "classificada"
  BY <1>1, <1>2, <1>3, <1>4 DEF EtapaDe
<1>6. \A k \in Andamentos : k # m => EtapaDe(k)' = EtapaDe(k)
  BY <1>0, <1>1 DEF EtapaDe
<1>7. Etapa[m] = "gravada" /\ Etapa' = [Etapa EXCEPT ![m] = "classificada"]
  BY <1>5, <1>6, UmAvanca
<1>8. Cic!Avancar(m, "gravada", "classificada")
  BY <1>7 DEF Cic!Avancar, Etapa
<1>9. /\ cw[w].res \in [urg : Cic!Urgencias, fallback : BOOLEAN]
      /\ cw[w].res.fallback => Cic!Nivel(cw[w].res.urg) >= Cic!Nivel(Piso)
  BY <1>1, <1>4 DEF Possiveis, Laudos, Urgencias, Cic!Urgencias, Nivel, Cic!Nivel
<1> QED BY <1>1, <1>8, <1>9 DEF Cic!Classificar

LEMMA Avisada ==
    ASSUME "duplicacao" \notin Falhas, MovInv, [Next]_vars, avisos' # avisos
    PROVE  \E m \in Andamentos : Cic!Avisar(m)
<1>0. avisos \in [Andamentos -> Seq(Laudos)]
  BY DEF MovInv, Base, Tipos, TypeOK
<1>1. PICK n \in Notificadores, m \in Andamentos, l \in Laudos :
          /\ ns[n] = "criar"
          /\ m = Evento(n).mov
          /\ avisos' = [avisos EXCEPT ![m] = Append(avisos[m], l)]
          /\ ~Anunciada(m, {"marcar", "confirmar"})
          /\ UNCHANGED <<gravados, laudo, notificada, antigas>>
  BY AvisoCriado DEF MovInv
<1>2. avisos[m] = << >> /\ m \notin notificada
  BY <1>1, PassadaPassada DEF MovInv, Aviso
<1>3. laudo[m] # SemLaudo
  <2>1. loteN[n] # {}
    BY <1>1 DEF MovInv, Base, Tipos, Lugares
  <2>2. Anunciada(m, {"criar"})
    BY <1>1, <2>1, NaMaoDoNotificador DEF MovInv
  <2> QED BY <2>2, EtapasEmOrdem
<1>4. avisos'[m] # << >>
  <2>1. Append(avisos[m], l) # << >>
    BY <1>0
  <2> QED BY <1>0, <1>1, <2>1
<1>5. EtapaDe(m) = "classificada" /\ EtapaDe(m)' = "avisada"
  BY <1>1, <1>2, <1>3, <1>4 DEF EtapaDe
<1>6. \A k \in Andamentos : k # m => EtapaDe(k)' = EtapaDe(k)
  BY <1>0, <1>1 DEF EtapaDe
<1>7. Etapa[m] = "classificada" /\ Etapa' = [Etapa EXCEPT ![m] = "avisada"]
  BY <1>5, <1>6, UmAvanca
<1>8. Cic!Avancar(m, "classificada", "avisada")
  BY <1>7 DEF Cic!Avancar, Etapa
<1> QED BY <1>1, <1>8 DEF Cic!Avisar

LEMMA Fechada ==
    ASSUME "duplicacao" \notin Falhas, MovInv, [Next]_vars, notificada' # notificada
    PROVE  \E m \in Andamentos : Cic!Encerrar(m) \/ Cic!Silenciar(m)
<1>1. PICK n \in Notificadores, m \in Andamentos :
          /\ ns[n] = "marcar"
          /\ m = Evento(n).mov
          /\ notificada' = notificada \cup {m}
          /\ Anunciada(m, {"marcar", "confirmar"})
          /\ UNCHANGED <<gravados, laudo, avisos, antigas>>
  BY MarcaFeita DEF MovInv
<1>2. m \notin notificada /\ laudo[m] # SemLaudo /\ Devido(m)
  BY <1>1, EtapasEmOrdem DEF MovInv, Aviso
<1>3. \A k \in Andamentos : k # m => EtapaDe(k)' = EtapaDe(k)
  BY <1>1 DEF EtapaDe
<1>4. CASE avisos[m] # << >>
  <2>1. EtapaDe(m) = "avisada" /\ EtapaDe(m)' = "encerrada"
    BY <1>1, <1>2, <1>4 DEF EtapaDe
  <2>2. Etapa[m] = "avisada" /\ Etapa' = [Etapa EXCEPT ![m] = "encerrada"]
    BY <1>3, <2>1, UmAvanca
  <2>3. Cic!Avancar(m, "avisada", "encerrada")
    BY <2>2 DEF Cic!Avancar, Etapa
  <2> QED BY <1>1, <2>3 DEF Cic!Encerrar
<1>5. CASE avisos[m] = << >>
  <2>1. EtapaDe(m) = "classificada" /\ EtapaDe(m)' = "silenciada"
    BY <1>1, <1>2, <1>5 DEF EtapaDe
  <2>2. Etapa[m] = "classificada" /\ Etapa' = [Etapa EXCEPT ![m] = "silenciada"]
    BY <1>3, <2>1, UmAvanca
  <2>3. Cic!Avancar(m, "classificada", "silenciada")
    BY <2>2 DEF Cic!Avancar, Etapa
  <2>4. m \in antigas \/ (~laudo[m].fallback /\ laudo[m].urg # "alta")
    BY <1>2, <1>5 DEF Devido
  <2> QED BY <1>1, <2>3, <2>4 DEF Cic!Silenciar
<1> QED BY <1>4, <1>5

LEMMA Envelhecida ==
    ASSUME [Next]_vars, antigas' # antigas
    PROVE  \E m \in Andamentos : antigas' = antigas \cup {m}
<1>1. ASSUME NEW w \in Classificadores, ClassificadorNext(w) \/ CairClassificador(w)
      PROVE  UNCHANGED antigas
  BY <1>1 DEF ClassificadorNext, CairClassificador, LerRecebidas, Classificar, Salvar,
              FalharSalvar, PublicarClassificada, FalharClassificada, ConfirmarRecebida,
              cLivres
<1>2. ASSUME NEW n \in Notificadores, NotificadorNext(n) \/ CairNotificador(n)
      PROVE  UNCHANGED antigas
  BY <1>2 DEF NotificadorNext, CairNotificador, LerClassificadas, Decidir, CriarAviso,
              FalharAviso, Marcar, FalharMarcar, ConfirmarClassificada, nLivres
<1> QED BY <1>1, <1>2 DEF Next, vars, consumidorVars, entradaVars, Monitorar, Envelhecer,
                          SalvarPreferencias

(***************************************************************************)
(* The three services together implement Ciclo: a movement is recorded,    *)
(* classified, alerted of and closed in that order and once each, or is    *)
(* closed in silence for one of the reasons Ciclo allows.                  *)
(***************************************************************************)
THEOREM CaminhoImplementaCiclo ==
    ASSUME "duplicacao" \notin Falhas
    PROVE  Spec => ImplementaCiclo
<1>1. Init => Cic!Init
  BY DEF Init, EntradaInit, Cic!Init, EtapaDe
<1>2. MovInv /\ [Next]_vars => [Cic!Next]_(Cic!vars)
  <2> SUFFICES ASSUME MovInv, [Next]_vars PROVE [Cic!Next]_(Cic!vars)
    OBVIOUS
  <2>1. CASE gravados' # gravados
    BY <2>1, Gravada DEF Cic!Next
  <2>2. CASE laudo' # laudo
    BY <2>2, Classificada DEF Cic!Next
  <2>3. CASE avisos' # avisos
    BY <2>3, Avisada DEF Cic!Next
  <2>4. CASE notificada' # notificada
    BY <2>4, Fechada DEF Cic!Next
  <2>5. CASE UNCHANGED <<gravados, laudo, avisos, notificada>>
    <3>1. UNCHANGED Etapa
      BY <2>5 DEF Etapa, EtapaDe
    <3>2. CASE antigas' = antigas
      BY <2>5, <3>1, <3>2 DEF Cic!vars, Etapa
    <3>3. CASE antigas' # antigas
      <4>1. PICK m \in Andamentos : antigas' = antigas \cup {m}
        BY <3>3, Envelhecida
      <4> QED BY <2>5, <3>1, <4>1 DEF Cic!Next, Cic!Envelhecer, Etapa
    <3> QED BY <3>2, <3>3
  <2> QED BY <2>1, <2>2, <2>3, <2>4, <2>5
<1> QED BY <1>1, <1>2, MovInvSempre, PTL DEF Spec, ImplementaCiclo, Cic!Spec
=============================================================================
