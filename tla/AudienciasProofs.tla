-------------------------- MODULE AudienciasProofs --------------------------
(***************************************************************************)
(* The hearing pipeline for any number of hearings, tenants and replicas   *)
(* and any MAXLEN and batch size: what a row says, one alert per hearing,  *)
(* no premature acknowledgement, and the life of a hearing.  The types and *)
(* the acknowledgements need no assumption on what may fail; the rest      *)
(* supposes that the Redis client does not send again an XADD that was     *)
(* applied ("duplicacao" is not among the Falhas).                         *)
(***************************************************************************)
EXTENDS Audiencias, TLAPS

(* What ConsumidoresProofs proves of each group.  The bound of its own     *)
(* producers plays no part: here the services are the producers.           *)
TP == INSTANCE ConsumidoresProofs WITH
          fluxo <- uploaded, lote <- loteT, Replicas <- Transcritores,
          Mensagens <- AudienciasPossiveis, MaxMensagens <- 0

AP == INSTANCE ConsumidoresProofs WITH
          fluxo <- transcribed, lote <- loteA, Replicas <- Analistas,
          Mensagens <- AudienciasPossiveis, MaxMensagens <- 0

NP == INSTANCE ConsumidoresProofs WITH
          fluxo <- analyzed, lote <- loteN, Replicas <- Notificadores,
          Mensagens <- AudienciasPossiveis, MaxMensagens <- 0

-----------------------------------------------------------------------------
(* The moves of the handlers: of the two workers, and of the notifier.     *)
Avancos == {<<"livre", "motor">>, <<"motor", "publicar">>, <<"publicar", "confirmar">>}
AvancosDoAviso == {<<"livre", "criar">>, <<"livre", "confirmar">>, <<"criar", "confirmar">>}

(* The places from each one on.                                            *)
DoMotor == {"motor", "publicar", "confirmar"}
DePublicar == {"publicar", "confirmar"}
DeConfirmar == {"confirmar"}

(* The message of h was delivered, and its handler is past D.              *)
PassouT(h, D) == TP!Passada(uploaded, loteT, lugarT, D, h)
PassouA(h, D) == AP!Passada(transcribed, loteA, lugarA, D, h)
PassouN(h, D) == NP!Passada(analyzed, loteN, lugarN, D, h)

(* All that a row is in its life.                                          *)
Linha(status, erro, colunas) == [status |-> status, erro |-> erro, colunas |-> colunas]

Registrada == Linha("uploaded", FALSE, {})
EmTranscricao == Linha("transcribing", FALSE, {})
SemTranscricao == Linha("failed", TRUE, {})
Transcrita == Linha("transcribed", FALSE, {"transcript"})
EmAnalise == Linha("analyzing", FALSE, {"transcript"})
SemAnalise == Linha("failed", TRUE, {"transcript"})
Analisada == Linha("analyzed", FALSE, {"transcript", "summary"})

AntesDoTexto == {Registrada, EmTranscricao}
ComTexto == {Transcrita, EmAnalise, SemAnalise, Analisada}
ComFim == {SemAnalise, Analisada}
Linhas == {SemLinha, SemTranscricao} \cup AntesDoTexto \cup ComTexto

-----------------------------------------------------------------------------
(* The right types, and three well-behaved groups.                         *)
Base == /\ TypeOK
        /\ TP!Invariante /\ TP!Ocupados(lugarT)
        /\ AP!Invariante /\ AP!Ocupados(lugarA)
        /\ NP!Invariante /\ NP!Ocupados(lugarN)

(* No hearing is twice in a stream.                                        *)
UmaVez == TP!SemRepeticao /\ AP!SemRepeticao /\ NP!SemRepeticao

(* The request of the upload goes from the object to the row, and from the *)
(* row to the event.                                                       *)
Envio ==
    /\ \A h \in AudienciasPossiveis :
           /\ pedido[h] = "nova" => h \notin objetos
           /\ pedido[h] = "guardada" => h \in objetos
           /\ pedido[h] \in {"nova", "guardada"} => linhas[h] = SemLinha
           /\ pedido[h] = "registrada" => linhas[h] = Registrada
    /\ \A i \in 1 .. Len(uploaded.itens) :
           /\ pedido[uploaded.itens[i]] = "respondida"
           /\ linhas[uploaded.itens[i]] # SemLinha

(***************************************************************************)
(* A row changes only after the handler of its message wrote it, so it is  *)
(* as the step before left it; and a message is published only after the   *)
(* row was saved.                                                          *)
(***************************************************************************)
Transcricao ==
    /\ \A h \in AudienciasPossiveis :
           /\ linhas[h] \in Linhas
           /\ linhas[h] \notin {SemLinha, Registrada} => PassouT(h, DoMotor)
           /\ linhas[h] \notin {SemLinha} \cup AntesDoTexto => PassouT(h, DePublicar)
    /\ \A w \in Transcritores : lugarT[w] = "publicar" => linhas[T!Audiencia(w)] = Transcrita
    /\ \A i \in 1 .. Len(transcribed.itens) :
           /\ PassouT(transcribed.itens[i], DeConfirmar)
           /\ linhas[transcribed.itens[i]] \in ComTexto

Analise ==
    /\ \A h \in AudienciasPossiveis :
           /\ linhas[h] \in {EmAnalise} \cup ComFim => PassouA(h, DoMotor)
           /\ linhas[h] \in ComFim => PassouA(h, DePublicar)
    /\ \A w \in Analistas : lugarA[w] = "publicar" => linhas[A!Audiencia(w)] = Analisada
    /\ \A i \in 1 .. Len(analyzed.itens) :
           /\ PassouA(analyzed.itens[i], DeConfirmar)
           /\ linhas[analyzed.itens[i]] = Analisada

(* An alert is created by the handler of the one message of its hearing.   *)
Aviso == \A h \in AudienciasPossiveis :
             /\ alertas[h] # << >> => PassouN(h, DeConfirmar)
             /\ Len(alertas[h]) <= 1

(* A handler about to acknowledge has handed its hearing on.               *)
EmDia(h) == alertar[TenantDe[h]] = "padrao" => alertas[h] # << >>

Publicada(f, h) == \E j \in 1 .. Len(f.itens) : f.itens[j] = h

Entregas ==
    /\ \A w \in Transcritores :
           lugarT[w] = "confirmar" => Publicada(transcribed, T!Audiencia(w))
    /\ \A w \in Analistas : lugarA[w] = "confirmar" => Publicada(analyzed, A!Audiencia(w))
    /\ \A n \in Notificadores : lugarN[n] = "confirmar" => EmDia(AudienciaDe(n))
    /\ ConfirmadaSegueAdiante

AudInv == Base /\ UmaVez /\ Envio /\ Transcricao /\ Analise /\ Aviso /\ Entregas

-----------------------------------------------------------------------------
(* The groups of Audiencias are those of ConsumidoresProofs.               *)
LEMMA MesmaCabeca == \A l : /\ T!C!Cabeca(l) = TP!Cabeca(l)
                            /\ A!C!Cabeca(l) = AP!Cabeca(l)
                            /\ N!Cabeca(l) = NP!Cabeca(l)
BY DEF T!C!Cabeca, TP!Cabeca, A!C!Cabeca, AP!Cabeca, N!Cabeca, NP!Cabeca

LEMMA MesmosPassosT ==
    ASSUME NEW w
    PROVE  /\ T!C!Ler(w) <=> TP!Ler(w)
           /\ T!C!LeituraPerdida(w) <=> TP!LeituraPerdida(w)
           /\ T!C!Concluir(w) <=> TP!Concluir(w)
           /\ T!C!Falhar(w) <=> TP!Falhar(w)
           /\ T!C!Reiniciar(w) <=> TP!Reiniciar(w)
<1>1. /\ T!C!Legiveis(uploaded) = TP!Legiveis(uploaded)
      /\ T!C!XReadGroup(uploaded) = TP!XReadGroup(uploaded)
  BY DEF T!C!Legiveis, TP!Legiveis, T!C!XReadGroup, TP!XReadGroup, T!C!Maior, TP!Maior,
         T!C!Menor, TP!Menor
<1>2. \A i : T!C!XAck(uploaded, i) = TP!XAck(uploaded, i)
  BY DEF T!C!XAck, TP!XAck
<1> QED BY <1>1, <1>2, MesmaCabeca
        DEF T!C!Ler, TP!Ler, T!C!LeituraPerdida, TP!LeituraPerdida, T!C!Concluir, TP!Concluir,
            T!C!Falhar, TP!Falhar, T!C!Reiniciar, TP!Reiniciar

LEMMA MesmosPassosA ==
    ASSUME NEW w
    PROVE  /\ A!C!Ler(w) <=> AP!Ler(w)
           /\ A!C!LeituraPerdida(w) <=> AP!LeituraPerdida(w)
           /\ A!C!Concluir(w) <=> AP!Concluir(w)
           /\ A!C!Falhar(w) <=> AP!Falhar(w)
           /\ A!C!Reiniciar(w) <=> AP!Reiniciar(w)
<1>1. /\ A!C!Legiveis(transcribed) = AP!Legiveis(transcribed)
      /\ A!C!XReadGroup(transcribed) = AP!XReadGroup(transcribed)
  BY DEF A!C!Legiveis, AP!Legiveis, A!C!XReadGroup, AP!XReadGroup, A!C!Maior, AP!Maior,
         A!C!Menor, AP!Menor
<1>2. \A i : A!C!XAck(transcribed, i) = AP!XAck(transcribed, i)
  BY DEF A!C!XAck, AP!XAck
<1> QED BY <1>1, <1>2, MesmaCabeca
        DEF A!C!Ler, AP!Ler, A!C!LeituraPerdida, AP!LeituraPerdida, A!C!Concluir, AP!Concluir,
            A!C!Falhar, AP!Falhar, A!C!Reiniciar, AP!Reiniciar

LEMMA MesmosPassosN ==
    ASSUME NEW n
    PROVE  /\ N!Ler(n) <=> NP!Ler(n)
           /\ N!LeituraPerdida(n) <=> NP!LeituraPerdida(n)
           /\ N!Concluir(n) <=> NP!Concluir(n)
           /\ N!Falhar(n) <=> NP!Falhar(n)
           /\ N!Reiniciar(n) <=> NP!Reiniciar(n)
<1>1. /\ N!Legiveis(analyzed) = NP!Legiveis(analyzed)
      /\ N!XReadGroup(analyzed) = NP!XReadGroup(analyzed)
  BY DEF N!Legiveis, NP!Legiveis, N!XReadGroup, NP!XReadGroup, N!Maior, NP!Maior,
         N!Menor, NP!Menor
<1>2. \A i : N!XAck(analyzed, i) = NP!XAck(analyzed, i)
  BY DEF N!XAck, NP!XAck
<1> QED BY <1>1, <1>2, MesmaCabeca
        DEF N!Ler, NP!Ler, N!LeituraPerdida, NP!LeituraPerdida, N!Concluir, NP!Concluir,
            N!Falhar, NP!Falhar, N!Reiniciar, NP!Reiniciar

(* A publication by any of the services is one to the groups.              *)
LEMMA MesmasPublicacoes ==
    ASSUME NEW f, NEW h, NEW g,
           \/ g \in Publicacoes(f, h, "duplicacao" \in Falhas)
           \/ g \in T!Publicacoes(f, h, "duplicacao" \in Falhas)
           \/ g \in A!Publicacoes(f, h, "duplicacao" \in Falhas)
    PROVE  /\ g \in TP!Publicacoes(f, h, TRUE)
           /\ g \in AP!Publicacoes(f, h, TRUE)
           /\ g \in NP!Publicacoes(f, h, TRUE)
<1>1. /\ \A e, m : T!XAdd(e, m) = XAdd(e, m) /\ A!XAdd(e, m) = XAdd(e, m)
      /\ \A e, m : /\ TP!XAdd(e, m) = XAdd(e, m)
                   /\ AP!XAdd(e, m) = XAdd(e, m)
                   /\ NP!XAdd(e, m) = XAdd(e, m)
  BY DEF XAdd, Cortes, Maior, T!XAdd, T!Cortes, T!Maior, A!XAdd, A!Cortes, A!Maior,
         TP!XAdd, TP!Cortes, TP!Maior, AP!XAdd, AP!Cortes, AP!Maior, NP!XAdd, NP!Cortes,
         NP!Maior
<1>2. g \in Publicacoes(f, h, TRUE)
  BY <1>1 DEF Publicacoes, T!Publicacoes, A!Publicacoes
<1> QED BY <1>1, <1>2 DEF Publicacoes, TP!Publicacoes, AP!Publicacoes, NP!Publicacoes

(* Without duplication, a publication is one XADD.                         *)
LEMMA UmXAdd ==
    ASSUME "duplicacao" \notin Falhas, NEW f, NEW h
    PROVE  /\ Publicacoes(f, h, "duplicacao" \in Falhas) = XAdd(f, h)
           /\ T!Publicacoes(f, h, "duplicacao" \in Falhas) = XAdd(f, h)
           /\ A!Publicacoes(f, h, "duplicacao" \in Falhas) = XAdd(f, h)
           /\ TP!XAdd(f, h) = XAdd(f, h)
           /\ AP!XAdd(f, h) = XAdd(f, h)
           /\ NP!XAdd(f, h) = XAdd(f, h)
<1>1. /\ \A g, m : T!XAdd(g, m) = XAdd(g, m) /\ A!XAdd(g, m) = XAdd(g, m)
      /\ \A g, m : /\ TP!XAdd(g, m) = XAdd(g, m)
                   /\ AP!XAdd(g, m) = XAdd(g, m)
                   /\ NP!XAdd(g, m) = XAdd(g, m)
  BY DEF XAdd, Cortes, Maior, T!XAdd, T!Cortes, T!Maior, A!XAdd, A!Cortes, A!Maior,
         TP!XAdd, TP!Cortes, TP!Maior, AP!XAdd, AP!Cortes, AP!Maior, NP!XAdd, NP!Cortes,
         NP!Maior
<1> QED BY <1>1 DEF Publicacoes, T!Publicacoes, A!Publicacoes

-----------------------------------------------------------------------------
(* The hearing a handler works on, in the words of ConsumidoresProofs.     *)
LEMMA DaMaoT ==
    ASSUME Base, NEW w \in Transcritores, loteT[w] # {}
    PROVE  /\ T!Audiencia(w) = uploaded.itens[TP!Cabeca(loteT[w])]
           /\ TP!Cabeca(loteT[w]) \in 1 .. Len(uploaded.itens)
           /\ T!Audiencia(w) \in AudienciasPossiveis
<1>1. T!Audiencia(w) = uploaded.itens[TP!Cabeca(loteT[w])]
  BY MesmaCabeca DEF T!Audiencia
<1> QED BY <1>1, TP!CabecaNoFluxo, FluxoAssumption DEF Base

LEMMA NaMaoT ==
    ASSUME Base, TP!SemRepeticao, NEW w \in Transcritores, loteT[w] # {}
    PROVE  /\ T!Audiencia(w) = uploaded.itens[TP!Cabeca(loteT[w])]
           /\ TP!Cabeca(loteT[w]) \in 1 .. Len(uploaded.itens)
           /\ T!Audiencia(w) \in AudienciasPossiveis
           /\ \A D : PassouT(T!Audiencia(w), D) <=> lugarT[w] \in D
<1>1. T!Audiencia(w) = uploaded.itens[TP!Cabeca(loteT[w])]
  BY MesmaCabeca DEF T!Audiencia
<1> QED BY <1>1, TP!CabecaPassada, FluxoAssumption DEF Base, PassouT

LEMMA DaMaoA ==
    ASSUME Base, NEW w \in Analistas, loteA[w] # {}
    PROVE  /\ A!Audiencia(w) = transcribed.itens[AP!Cabeca(loteA[w])]
           /\ AP!Cabeca(loteA[w]) \in 1 .. Len(transcribed.itens)
           /\ A!Audiencia(w) \in AudienciasPossiveis
<1>1. A!Audiencia(w) = transcribed.itens[AP!Cabeca(loteA[w])]
  BY MesmaCabeca DEF A!Audiencia
<1> QED BY <1>1, AP!CabecaNoFluxo, FluxoAssumption DEF Base

LEMMA NaMaoA ==
    ASSUME Base, AP!SemRepeticao, NEW w \in Analistas, loteA[w] # {}
    PROVE  /\ A!Audiencia(w) = transcribed.itens[AP!Cabeca(loteA[w])]
           /\ AP!Cabeca(loteA[w]) \in 1 .. Len(transcribed.itens)
           /\ A!Audiencia(w) \in AudienciasPossiveis
           /\ \A D : PassouA(A!Audiencia(w), D) <=> lugarA[w] \in D
<1>1. A!Audiencia(w) = transcribed.itens[AP!Cabeca(loteA[w])]
  BY MesmaCabeca DEF A!Audiencia
<1> QED BY <1>1, AP!CabecaPassada, FluxoAssumption DEF Base, PassouA

LEMMA DaMaoN ==
    ASSUME Base, NEW n \in Notificadores, loteN[n] # {}
    PROVE  /\ AudienciaDe(n) = analyzed.itens[NP!Cabeca(loteN[n])]
           /\ NP!Cabeca(loteN[n]) \in 1 .. Len(analyzed.itens)
           /\ AudienciaDe(n) \in AudienciasPossiveis
<1>1. AudienciaDe(n) = analyzed.itens[NP!Cabeca(loteN[n])]
  BY MesmaCabeca DEF AudienciaDe
<1> QED BY <1>1, NP!CabecaNoFluxo, FluxoAssumption DEF Base

LEMMA NaMaoN ==
    ASSUME Base, NP!SemRepeticao, NEW n \in Notificadores, loteN[n] # {}
    PROVE  /\ AudienciaDe(n) = analyzed.itens[NP!Cabeca(loteN[n])]
           /\ NP!Cabeca(loteN[n]) \in 1 .. Len(analyzed.itens)
           /\ AudienciaDe(n) \in AudienciasPossiveis
           /\ \A D : PassouN(AudienciaDe(n), D) <=> lugarN[n] \in D
<1>1. AudienciaDe(n) = analyzed.itens[NP!Cabeca(loteN[n])]
  BY MesmaCabeca DEF AudienciaDe
<1> QED BY <1>1, NP!CabecaPassada, FluxoAssumption DEF Base, PassouN

-----------------------------------------------------------------------------
(* The lawyer's requests change neither a row nor a stream.                *)
Advogado == \/ \E t \in Tenants : SalvarPreferencias(t) \/ MarcarTodasLidas(t)
            \/ \E h \in AudienciasPossiveis : MarcarLida(h)

LEMMA AdvogadoDeFora == ASSUME Advogado PROVE UNCHANGED <<foraDaCaixa>>
BY DEF Advogado, SalvarPreferencias, MarcarTodasLidas, MarcarLida

LEMMA UploadDeFora ==
    ASSUME NEW h, UploadNext(h) \/ InterromperUpload(h)
    PROVE  UNCHANGED foraDoUpload
BY DEF UploadNext, Guardar, FalharGuardar, Registrar, FalharRegistrar, PublicarUpload,
       InterromperUpload

LEMMA NotificadorDeFora ==
    ASSUME NEW n, NotificadorNext(n) \/ CairNotificador(n)
    PROVE  UNCHANGED <<foraDoAviso>> /\ UNCHANGED alertar
BY DEF NotificadorNext, CairNotificador, LerAnalisadas, Decidir, CriarAlerta, FalharAlerta,
       ConfirmarAnalisada

(* To a group, a step of the system is a step of its service, or nothing.  *)
LEMMA PassoT ==
    ASSUME Base, [Next]_vars
    PROVE  TP!PassoDoServico(lugarT, lugarT', Avancos)
<1>0. lugarT \in [Transcritores -> {"livre", "motor", "publicar", "confirmar"}]
  BY DEF Base, TypeOK, T!Lugares
<1>1. ASSUME UNCHANGED <<loteT, lugarT>>,
             \/ uploaded' = uploaded
             \/ \E h \in AudienciasPossiveis : uploaded' \in TP!Publicacoes(uploaded, h, TRUE)
      PROVE  TP!PassoDoServico(lugarT, lugarT', Avancos)
  BY <1>1 DEF TP!PassoDoServico
<1>2. CASE UNCHANGED vars
  BY <1>1, <1>2 DEF vars, transcricaoVars
<1>3. ASSUME NEW h \in AudienciasPossiveis, UploadNext(h) \/ InterromperUpload(h)
      PROVE  TP!PassoDoServico(lugarT, lugarT', Avancos)
  <2>1. UNCHANGED <<loteT, lugarT>>
    BY <1>3, UploadDeFora DEF foraDoUpload, transcricaoVars
  <2>2. uploaded' = uploaded \/ uploaded' \in TP!Publicacoes(uploaded, h, TRUE)
    BY <1>3, MesmasPublicacoes DEF UploadNext, Guardar, FalharGuardar, Registrar,
             FalharRegistrar, PublicarUpload, InterromperUpload
  <2> QED BY <1>1, <2>1, <2>2
<1>4. ASSUME NEW w \in Analistas, Analisar(w) \/ CairAnalista(w)
      PROVE  TP!PassoDoServico(lugarT, lugarT', Avancos)
  BY <1>1, <1>4 DEF Analisar, CairAnalista, foraDaAnalise, transcricaoVars
<1>5. ASSUME NEW n \in Notificadores, NotificadorNext(n) \/ CairNotificador(n)
      PROVE  TP!PassoDoServico(lugarT, lugarT', Avancos)
  BY <1>1, <1>5, NotificadorDeFora DEF foraDoAviso, transcricaoVars
<1>6. CASE Advogado
  BY <1>1, <1>6, AdvogadoDeFora DEF foraDaCaixa, foraDoAviso, transcricaoVars
<1>7. ASSUME NEW w \in Transcritores, Transcrever(w) \/ CairTranscritor(w)
      PROVE  TP!PassoDoServico(lugarT, lugarT', Avancos)
  <2>1. CASE T!Ler(w)
    <3>1. (TP!Ler(w) \/ TP!LeituraPerdida(w)) /\ lugarT' = lugarT
      BY <2>1, MesmosPassosT DEF T!Ler
    <3> QED BY <3>1 DEF TP!PassoDoServico
  <2>2. CASE T!Marcar(w) \/ T!Salvar(w) \/ T!Publicar(w)
    <3>1. /\ \A d \in Transcritores : d # w => lugarT'[d] = lugarT[d]
          /\ <<lugarT[w], lugarT'[w]>> \in Avancos
          /\ UNCHANGED <<uploaded, loteT>>
      BY <1>0, <2>2 DEF T!Marcar, T!Salvar, T!Publicar, Avancos
    <3>2. loteT[w] # {}
      BY <2>2 DEF T!Marcar, T!Salvar, T!Publicar, Base, TP!Ocupados
    <3> QED BY <3>1, <3>2 DEF TP!PassoDoServico
  <2>3. CASE \/ T!FalharMarcar(w) \/ T!FalharMotor(w) \/ T!FalharSalvar(w)
             \/ T!FalharPublicar(w) \/ T!Confirmar(w) \/ T!Cair(w)
    <3>1. \/ TP!Falhar(w) \/ TP!Reiniciar(w)
          \/ lugarT[w] = "confirmar" /\ TP!Concluir(w)
      BY <2>3, MesmosPassosT DEF T!FalharMarcar, T!FalharMotor, T!FalharSalvar,
            T!FalharPublicar, T!Confirmar, T!Cair, T!Desistir
    <3>2. lugarT' = [lugarT EXCEPT ![w] = "livre"]
      BY <2>3 DEF T!FalharMarcar, T!FalharMotor, T!FalharSalvar, T!FalharPublicar,
            T!Confirmar, T!Cair, T!Desistir
    <3> QED BY <1>0, <3>1, <3>2 DEF TP!PassoDoServico
  <2> QED BY <1>7, <2>1, <2>2, <2>3 DEF Transcrever, CairTranscritor, T!Passo
<1> QED BY <1>2, <1>3, <1>4, <1>5, <1>6, <1>7 DEF Next, Advogado

LEMMA PassoA ==
    ASSUME Base, [Next]_vars
    PROVE  AP!PassoDoServico(lugarA, lugarA', Avancos)
<1>0. lugarA \in [Analistas -> {"livre", "motor", "publicar", "confirmar"}]
  BY DEF Base, TypeOK, A!Lugares
<1>1. ASSUME UNCHANGED <<loteA, lugarA>>,
             \/ transcribed' = transcribed
             \/ \E h \in AudienciasPossiveis :
                    transcribed' \in AP!Publicacoes(transcribed, h, TRUE)
      PROVE  AP!PassoDoServico(lugarA, lugarA', Avancos)
  BY <1>1 DEF AP!PassoDoServico
<1>2. CASE UNCHANGED vars
  BY <1>1, <1>2 DEF vars, analiseVars
<1>3. ASSUME NEW h \in AudienciasPossiveis, UploadNext(h) \/ InterromperUpload(h)
      PROVE  AP!PassoDoServico(lugarA, lugarA', Avancos)
  BY <1>1, <1>3, UploadDeFora DEF foraDoUpload, analiseVars
<1>4. ASSUME NEW w \in Transcritores, Transcrever(w) \/ CairTranscritor(w)
      PROVE  AP!PassoDoServico(lugarA, lugarA', Avancos)
  <2>1. UNCHANGED <<loteA, lugarA>>
    BY <1>4 DEF Transcrever, CairTranscritor, foraDaTranscricao, analiseVars
  <2>2. CASE transcribed' = transcribed
    BY <1>1, <2>1, <2>2
  <2>3. CASE transcribed' # transcribed
    <3>1. /\ lugarT[w] = "publicar"
          /\ transcribed' \in AP!Publicacoes(transcribed, T!Audiencia(w), TRUE)
      BY <1>4, <2>3, MesmasPublicacoes DEF Transcrever, CairTranscritor, T!Passo, T!Cair, T!Ler,
            T!Marcar, T!FalharMarcar, T!FalharMotor, T!Salvar, T!FalharSalvar, T!Publicar,
            T!FalharPublicar, T!Confirmar
    <3>2. loteT[w] # {}
      BY <3>1 DEF Base, TP!Ocupados
    <3> QED BY <1>1, <2>1, <3>1, <3>2, DaMaoT
  <2> QED BY <2>2, <2>3
<1>5. ASSUME NEW n \in Notificadores, NotificadorNext(n) \/ CairNotificador(n)
      PROVE  AP!PassoDoServico(lugarA, lugarA', Avancos)
  BY <1>1, <1>5, NotificadorDeFora DEF foraDoAviso, analiseVars
<1>6. CASE Advogado
  BY <1>1, <1>6, AdvogadoDeFora DEF foraDaCaixa, foraDoAviso, analiseVars
<1>7. ASSUME NEW w \in Analistas, Analisar(w) \/ CairAnalista(w)
      PROVE  AP!PassoDoServico(lugarA, lugarA', Avancos)
  <2>1. CASE A!Ler(w)
    <3>1. (AP!Ler(w) \/ AP!LeituraPerdida(w)) /\ lugarA' = lugarA
      BY <2>1, MesmosPassosA DEF A!Ler
    <3> QED BY <3>1 DEF AP!PassoDoServico
  <2>2. CASE A!Marcar(w) \/ A!Salvar(w) \/ A!Publicar(w)
    <3>1. /\ \A d \in Analistas : d # w => lugarA'[d] = lugarA[d]
          /\ <<lugarA[w], lugarA'[w]>> \in Avancos
          /\ UNCHANGED <<transcribed, loteA>>
      BY <1>0, <2>2 DEF A!Marcar, A!Salvar, A!Publicar, Avancos
    <3>2. loteA[w] # {}
      BY <2>2 DEF A!Marcar, A!Salvar, A!Publicar, Base, AP!Ocupados
    <3> QED BY <3>1, <3>2 DEF AP!PassoDoServico
  <2>3. CASE \/ A!FalharMarcar(w) \/ A!FalharMotor(w) \/ A!FalharSalvar(w)
             \/ A!FalharPublicar(w) \/ A!Confirmar(w) \/ A!Cair(w)
    <3>1. \/ AP!Falhar(w) \/ AP!Reiniciar(w)
          \/ lugarA[w] = "confirmar" /\ AP!Concluir(w)
      BY <2>3, MesmosPassosA DEF A!FalharMarcar, A!FalharMotor, A!FalharSalvar,
            A!FalharPublicar, A!Confirmar, A!Cair, A!Desistir
    <3>2. lugarA' = [lugarA EXCEPT ![w] = "livre"]
      BY <2>3 DEF A!FalharMarcar, A!FalharMotor, A!FalharSalvar, A!FalharPublicar,
            A!Confirmar, A!Cair, A!Desistir
    <3> QED BY <1>0, <3>1, <3>2 DEF AP!PassoDoServico
  <2> QED BY <1>7, <2>1, <2>2, <2>3 DEF Analisar, CairAnalista, A!Passo
<1> QED BY <1>2, <1>3, <1>4, <1>5, <1>6, <1>7 DEF Next, Advogado

LEMMA PassoN ==
    ASSUME Base, [Next]_vars
    PROVE  NP!PassoDoServico(lugarN, lugarN', AvancosDoAviso)
<1>0. lugarN \in [Notificadores -> {"livre", "criar", "confirmar"}]
  BY DEF Base, TypeOK
<1>1. ASSUME UNCHANGED <<loteN, lugarN>>,
             \/ analyzed' = analyzed
             \/ \E h \in AudienciasPossiveis : analyzed' \in NP!Publicacoes(analyzed, h, TRUE)
      PROVE  NP!PassoDoServico(lugarN, lugarN', AvancosDoAviso)
  BY <1>1 DEF NP!PassoDoServico
<1>2. CASE UNCHANGED vars
  BY <1>1, <1>2 DEF vars, avisoVars
<1>3. ASSUME NEW h \in AudienciasPossiveis, UploadNext(h) \/ InterromperUpload(h)
      PROVE  NP!PassoDoServico(lugarN, lugarN', AvancosDoAviso)
  BY <1>1, <1>3, UploadDeFora DEF foraDoUpload, avisoVars
<1>4. ASSUME NEW w \in Transcritores, Transcrever(w) \/ CairTranscritor(w)
      PROVE  NP!PassoDoServico(lugarN, lugarN', AvancosDoAviso)
  BY <1>1, <1>4 DEF Transcrever, CairTranscritor, foraDaTranscricao, avisoVars
<1>5. ASSUME NEW w \in Analistas, Analisar(w) \/ CairAnalista(w)
      PROVE  NP!PassoDoServico(lugarN, lugarN', AvancosDoAviso)
  <2>1. UNCHANGED <<loteN, lugarN>>
    BY <1>5 DEF Analisar, CairAnalista, foraDaAnalise, avisoVars
  <2>2. CASE analyzed' = analyzed
    BY <1>1, <2>1, <2>2
  <2>3. CASE analyzed' # analyzed
    <3>1. /\ lugarA[w] = "publicar"
          /\ analyzed' \in NP!Publicacoes(analyzed, A!Audiencia(w), TRUE)
      BY <1>5, <2>3, MesmasPublicacoes DEF Analisar, CairAnalista, A!Passo, A!Cair, A!Ler, A!Marcar,
            A!FalharMarcar, A!FalharMotor, A!Salvar, A!FalharSalvar, A!Publicar,
            A!FalharPublicar, A!Confirmar
    <3>2. loteA[w] # {}
      BY <3>1 DEF Base, AP!Ocupados
    <3> QED BY <1>1, <2>1, <3>1, <3>2, DaMaoA
  <2> QED BY <2>2, <2>3
<1>6. CASE Advogado
  BY <1>1, <1>6, AdvogadoDeFora DEF foraDaCaixa
<1>7. ASSUME NEW n \in Notificadores, NotificadorNext(n) \/ CairNotificador(n)
      PROVE  NP!PassoDoServico(lugarN, lugarN', AvancosDoAviso)
  <2>1. CASE LerAnalisadas(n)
    <3>1. (NP!Ler(n) \/ NP!LeituraPerdida(n)) /\ lugarN' = lugarN
      BY <2>1, MesmosPassosN DEF LerAnalisadas
    <3> QED BY <3>1 DEF NP!PassoDoServico
  <2>2. CASE Decidir(n) \/ CriarAlerta(n)
    <3>1. /\ \A d \in Notificadores : d # n => lugarN'[d] = lugarN[d]
          /\ <<lugarN[n], lugarN'[n]>> \in AvancosDoAviso
          /\ UNCHANGED <<analyzed, loteN>>
      BY <1>0, <2>2 DEF Decidir, CriarAlerta, AvancosDoAviso
    <3>2. loteN[n] # {}
      BY <2>2 DEF Decidir, CriarAlerta, Base, NP!Ocupados
    <3> QED BY <3>1, <3>2 DEF NP!PassoDoServico
  <2>3. CASE FalharAlerta(n) \/ ConfirmarAnalisada(n) \/ CairNotificador(n)
    <3>1. \/ NP!Falhar(n) \/ NP!Reiniciar(n)
          \/ lugarN[n] = "confirmar" /\ NP!Concluir(n)
      BY <2>3, MesmosPassosN DEF FalharAlerta, ConfirmarAnalisada, CairNotificador
    <3>2. lugarN' = [lugarN EXCEPT ![n] = "livre"]
      BY <2>3 DEF FalharAlerta, ConfirmarAnalisada, CairNotificador
    <3> QED BY <1>0, <3>1, <3>2 DEF NP!PassoDoServico
  <2> QED BY <1>7, <2>1, <2>2, <2>3 DEF NotificadorNext
<1> QED BY <1>2, <1>3, <1>4, <1>5, <1>6, <1>7 DEF Next, Advogado

-----------------------------------------------------------------------------
(* What the steps leave as it was: the groups, what was published, and     *)
(* what is past.                                                           *)
LEMMA GruposMantidos ==
    ASSUME Base, [Next]_vars
    PROVE  /\ TP!Invariante' /\ TP!Ocupados(lugarT)'
           /\ AP!Invariante' /\ AP!Ocupados(lugarA)'
           /\ NP!Invariante' /\ NP!Ocupados(lugarN)'
<1>1. /\ TP!PassoDoServico(lugarT, lugarT', Avancos)
      /\ AP!PassoDoServico(lugarA, lugarA', Avancos)
      /\ NP!PassoDoServico(lugarN, lugarN', AvancosDoAviso)
  BY PassoT, PassoA, PassoN
<1>2. \A p \in Avancos \cup AvancosDoAviso : p[1] = "livre" \/ p[2] # "livre"
  BY DEF Avancos, AvancosDoAviso
<1>3. TP!Invariante' /\ \A c \in Transcritores : lugarT'[c] # "livre" => loteT'[c] # {}
  BY <1>1, <1>2, TP!ServicoPreserva, FluxoAssumption DEF Base
<1>4. AP!Invariante' /\ \A c \in Analistas : lugarA'[c] # "livre" => loteA'[c] # {}
  BY <1>1, <1>2, AP!ServicoPreserva, FluxoAssumption DEF Base
<1>5. NP!Invariante' /\ \A c \in Notificadores : lugarN'[c] # "livre" => loteN'[c] # {}
  BY <1>1, <1>2, NP!ServicoPreserva, FluxoAssumption DEF Base
<1> QED BY <1>3, <1>4, <1>5 DEF TP!Ocupados, AP!Ocupados, NP!Ocupados

LEMMA SegueT ==
    ASSUME Base, [Next]_vars
    PROVE  /\ \A i \in 1 .. Len(uploaded.itens) :
                  i \in 1 .. Len(uploaded'.itens) /\ uploaded'.itens[i] = uploaded.itens[i]
           /\ \A h : /\ PassouT(h, DoMotor) => PassouT(h, DoMotor)'
                     /\ PassouT(h, DePublicar) => PassouT(h, DePublicar)'
                     /\ PassouT(h, DeConfirmar) => PassouT(h, DeConfirmar)'
<1>1. TP!PassoDoServico(lugarT, lugarT', Avancos)
  BY PassoT
<1>2. \A D \in {DoMotor, DePublicar, DeConfirmar} :
          \A p \in Avancos : p[1] \in D => p[2] \in D
  BY DEF Avancos, DoMotor, DePublicar, DeConfirmar
<1> QED BY <1>1, <1>2, TP!ServicoSegue, FluxoAssumption DEF Base, PassouT

LEMMA SegueA ==
    ASSUME Base, [Next]_vars
    PROVE  /\ \A i \in 1 .. Len(transcribed.itens) :
                  /\ i \in 1 .. Len(transcribed'.itens)
                  /\ transcribed'.itens[i] = transcribed.itens[i]
           /\ \A h : /\ PassouA(h, DoMotor) => PassouA(h, DoMotor)'
                     /\ PassouA(h, DePublicar) => PassouA(h, DePublicar)'
                     /\ PassouA(h, DeConfirmar) => PassouA(h, DeConfirmar)'
<1>1. AP!PassoDoServico(lugarA, lugarA', Avancos)
  BY PassoA
<1>2. \A D \in {DoMotor, DePublicar, DeConfirmar} :
          \A p \in Avancos : p[1] \in D => p[2] \in D
  BY DEF Avancos, DoMotor, DePublicar, DeConfirmar
<1> QED BY <1>1, <1>2, AP!ServicoSegue, FluxoAssumption DEF Base, PassouA

LEMMA SegueN ==
    ASSUME Base, [Next]_vars
    PROVE  /\ \A i \in 1 .. Len(analyzed.itens) :
                  i \in 1 .. Len(analyzed'.itens) /\ analyzed'.itens[i] = analyzed.itens[i]
           /\ \A h : PassouN(h, DeConfirmar) => PassouN(h, DeConfirmar)'
<1>1. NP!PassoDoServico(lugarN, lugarN', AvancosDoAviso)
  BY PassoN
<1>2. \A p \in AvancosDoAviso : p[1] \in DeConfirmar => p[2] \in DeConfirmar
  BY DEF AvancosDoAviso, DeConfirmar
<1> QED BY <1>1, <1>2, NP!ServicoSegue, FluxoAssumption DEF Base, PassouN

(* Past a place is past the places before it.                              *)
LEMMA PassouMenos ==
    ASSUME NEW h
    PROVE  /\ PassouT(h, DeConfirmar) => PassouT(h, DePublicar)
           /\ PassouT(h, DePublicar) => PassouT(h, DoMotor)
           /\ PassouA(h, DeConfirmar) => PassouA(h, DePublicar)
           /\ PassouA(h, DePublicar) => PassouA(h, DoMotor)
BY DEF PassouT, PassouA, TP!Passada, AP!Passada, TP!Passou, AP!Passou, DoMotor, DePublicar,
       DeConfirmar

-----------------------------------------------------------------------------
(* The rows.                                                               *)
Registros == [status : Situacoes, erro : BOOLEAN, colunas : SUBSET {"transcript", "summary"}]

LEMMA LinhasSaoRegistros == Linhas \subseteq Registros
BY DEF Linhas, AntesDoTexto, ComTexto, SemLinha, Registrada, EmTranscricao, SemTranscricao,
       Transcrita, EmAnalise, SemAnalise, Analisada, Linha, Registros, Situacoes

(* What each of the eight rows holds, and so what tells them apart.        *)
LEMMA LinhasDistintas ==
    /\ SemLinha.status = "" /\ SemLinha.colunas = {}
    /\ Registrada.status = "uploaded" /\ Registrada.colunas = {}
    /\ EmTranscricao.status = "transcribing" /\ EmTranscricao.colunas = {}
    /\ SemTranscricao.status = "failed" /\ SemTranscricao.colunas = {}
    /\ Transcrita.status = "transcribed" /\ Transcrita.colunas = {"transcript"}
    /\ EmAnalise.status = "analyzing" /\ EmAnalise.colunas = {"transcript"}
    /\ SemAnalise.status = "failed" /\ SemAnalise.colunas = {"transcript"}
    /\ Analisada.status = "analyzed" /\ Analisada.colunas = {"transcript", "summary"}
BY Zenon DEF SemLinha, Registrada, EmTranscricao, SemTranscricao, Transcrita, EmAnalise,
             SemAnalise, Analisada, Linha

LEMMA Escritas ==
    ASSUME linhas \in [AudienciasPossiveis -> Registros], NEW h \in AudienciasPossiveis
    PROVE  /\ ComLinha(h) = [linhas EXCEPT ![h] =
                                 Linha("uploaded", linhas[h].erro, linhas[h].colunas)]
           /\ T!LinhasEmCurso(h) = [linhas EXCEPT ![h] =
                                        Linha("transcribing", FALSE, linhas[h].colunas)]
           /\ A!LinhasEmCurso(h) = [linhas EXCEPT ![h] =
                                        Linha("analyzing", FALSE, linhas[h].colunas)]
           /\ T!LinhasProntas(h) = [linhas EXCEPT ![h] =
                  Linha("transcribed", FALSE, linhas[h].colunas \cup {"transcript"})]
           /\ A!LinhasProntas(h) = [linhas EXCEPT ![h] =
                  Linha("analyzed", FALSE, linhas[h].colunas \cup {"summary"})]
           /\ [linhas EXCEPT ![h].status = "failed", ![h].erro = TRUE] =
                  [linhas EXCEPT ![h] = Linha("failed", TRUE, linhas[h].colunas)]
<1>1. PICK r \in Registros : r = linhas[h]
  OBVIOUS
<1>2. /\ \A s : [r EXCEPT !.status = s] = Linha(s, r.erro, r.colunas)
      /\ \A s, e : [r EXCEPT !.status = s, !.erro = e] = Linha(s, e, r.colunas)
      /\ \A s, e, c : [r EXCEPT !.status = s, !.erro = e, !.colunas = c] = Linha(s, e, c)
  <2>1. \A s, e, c :
            /\ [r EXCEPT !.status = s] = Linha(s, r.erro, r.colunas)
            /\ [r EXCEPT !.status = s, !.erro = e] = Linha(s, e, r.colunas)
            /\ [r EXCEPT !.status = s, !.erro = e, !.colunas = c] = Linha(s, e, c)
    <3> TAKE s, e, c
    <3>0. PICK S, E, C : r \in [status : S, erro : E, colunas : C]
      BY <1>1, Zenon DEF Registros
    <3>1. PICK p : p = [r EXCEPT !.status = s]
      OBVIOUS
    <3>2. p = Linha(s, r.erro, r.colunas)
      BY <3>0, <3>1 DEF Linha
    <3>3. PICK U, F, D : p \in [status : U, erro : F, colunas : D]
      <4>1. p \in [status : {s}, erro : {r.erro}, colunas : {r.colunas}]
        BY <3>2 DEF Linha
      <4> QED BY <4>1
    <3>4. PICK q : q = [p EXCEPT !.erro = e]
      OBVIOUS
    <3>5. q = Linha(p.status, e, p.colunas)
      BY <3>3, <3>4 DEF Linha
    <3>6. PICK U2, F2, D2 : q \in [status : U2, erro : F2, colunas : D2]
      <4>1. q \in [status : {p.status}, erro : {e}, colunas : {p.colunas}]
        BY <3>5 DEF Linha
      <4> QED BY <4>1
    <3>7. [q EXCEPT !.colunas = c] = Linha(q.status, q.erro, c)
      BY <3>6 DEF Linha
    <3>8. p.status = s /\ p.colunas = r.colunas
      BY <3>2 DEF Linha
    <3>9. q.status = p.status /\ q.erro = e
      BY <3>5 DEF Linha
    <3> QED BY <3>1, <3>2, <3>4, <3>5, <3>7, <3>8, <3>9, Zenon
  <2> QED BY <2>1, Zenon
<1>3. /\ ComLinha(h) = [linhas EXCEPT ![h] = [r EXCEPT !.status = "uploaded"]]
      /\ T!LinhasEmCurso(h) =
             [linhas EXCEPT ![h] = [r EXCEPT !.status = "transcribing", !.erro = FALSE]]
      /\ A!LinhasEmCurso(h) =
             [linhas EXCEPT ![h] = [r EXCEPT !.status = "analyzing", !.erro = FALSE]]
  BY <1>1 DEF ComLinha, T!LinhasEmCurso, A!LinhasEmCurso
<1>4. /\ T!LinhasProntas(h) =
             [linhas EXCEPT ![h] = [r EXCEPT !.status = "transcribed", !.erro = FALSE,
                                             !.colunas = r.colunas \cup {"transcript"}]]
      /\ A!LinhasProntas(h) =
             [linhas EXCEPT ![h] = [r EXCEPT !.status = "analyzed", !.erro = FALSE,
                                             !.colunas = r.colunas \cup {"summary"}]]
  BY <1>1 DEF T!LinhasProntas, A!LinhasProntas
<1>5. [linhas EXCEPT ![h].status = "failed", ![h].erro = TRUE] =
          [linhas EXCEPT ![h] = [r EXCEPT !.status = "failed", !.erro = TRUE]]
  BY <1>1
<1>6. /\ ComLinha(h) = [linhas EXCEPT ![h] = Linha("uploaded", r.erro, r.colunas)]
      /\ T!LinhasEmCurso(h) = [linhas EXCEPT ![h] = Linha("transcribing", FALSE, r.colunas)]
      /\ A!LinhasEmCurso(h) = [linhas EXCEPT ![h] = Linha("analyzing", FALSE, r.colunas)]
  BY <1>2, <1>3, Zenon
<1>7. /\ T!LinhasProntas(h) = [linhas EXCEPT ![h] =
              Linha("transcribed", FALSE, r.colunas \cup {"transcript"})]
      /\ A!LinhasProntas(h) = [linhas EXCEPT ![h] =
              Linha("analyzed", FALSE, r.colunas \cup {"summary"})]
      /\ [linhas EXCEPT ![h].status = "failed", ![h].erro = TRUE] =
             [linhas EXCEPT ![h] = Linha("failed", TRUE, r.colunas)]
  BY <1>2, <1>4, <1>5, Zenon
<1> QED BY <1>1, <1>6, <1>7, Zenon

-----------------------------------------------------------------------------
(* Who writes a row, from what to what.  Only the request of the upload    *)
(* creates one.                                                            *)
LEMMA EscritaDoUpload ==
    ASSUME Base, Envio, NEW h \in AudienciasPossiveis, UploadNext(h) \/ InterromperUpload(h),
           linhas' # linhas
    PROVE  /\ linhas' = [linhas EXCEPT ![h] = Registrada]
           /\ linhas[h] = SemLinha
           /\ pedido[h] = "guardada"
           /\ \E f \in {"registrada", "recusada"} : pedido' = [pedido EXCEPT ![h] = f]
           /\ UNCHANGED <<objetos, uploaded>>
<1>1. /\ linhas' = ComLinha(h)
      /\ pedido[h] = "guardada"
      /\ \E f \in {"registrada", "recusada"} : pedido' = [pedido EXCEPT ![h] = f]
      /\ UNCHANGED <<objetos, uploaded>>
  BY DEF UploadNext, InterromperUpload, Guardar, FalharGuardar, Registrar, FalharRegistrar,
         PublicarUpload
<1>2. linhas[h] = SemLinha
  BY <1>1 DEF Envio
<1>3. linhas \in [AudienciasPossiveis -> Registros]
  BY DEF Base, TypeOK, Registros
<1>4. linhas' = [linhas EXCEPT ![h] = Linha("uploaded", linhas[h].erro, linhas[h].colunas)]
  BY <1>1, <1>3, Escritas
<1>5. linhas[h].erro = FALSE /\ linhas[h].colunas = {}
  <2>1. SemLinha.erro = FALSE /\ SemLinha.colunas = {}
    BY Zenon DEF SemLinha
  <2> QED BY <1>2, <2>1, Zenon
<1>6. linhas' = [linhas EXCEPT ![h] = Registrada]
  BY <1>4, <1>5, Zenon DEF Registrada
<1> QED BY <1>1, <1>2, <1>6

(* The transcriber writes the row of the message it has in hand, which has *)
(* no transcript yet.                                                      *)
LEMMA EscritaT ==
    ASSUME Base, UmaVez, Envio, Transcricao, NEW w \in Transcritores,
           Transcrever(w) \/ CairTranscritor(w), linhas' # linhas
    PROVE  \E h \in AudienciasPossiveis, x \in {EmTranscricao, SemTranscricao, Transcrita} :
              /\ h = T!Audiencia(w) /\ loteT[w] # {}
              /\ linhas' = [linhas EXCEPT ![h] = x]
              /\ linhas[h] \in AntesDoTexto
              /\ pedido[h] = "respondida"
              /\ ~PassouT(h, DePublicar)
              /\ PassouT(h, DoMotor)'
              /\ x # EmTranscricao => PassouT(h, DePublicar)'
              /\ lugarT'[w] = "publicar" => x = Transcrita
<1>0. /\ linhas \in [AudienciasPossiveis -> Registros]
      /\ lugarT \in [Transcritores -> {"livre", "motor", "publicar", "confirmar"}]
  BY DEF Base, TypeOK, Registros, T!Lugares
<1>1. \/ T!Marcar(w) \/ T!FalharMarcar(w) \/ T!FalharMotor(w) \/ T!Salvar(w)
      \/ T!FalharSalvar(w)
  BY DEF Transcrever, CairTranscritor, T!Passo, T!Ler, T!Publicar, T!FalharPublicar,
         T!Confirmar, T!Cair
<1>2. loteT[w] # {} /\ lugarT[w] \in {"livre", "motor"}
  BY <1>1 DEF T!Marcar, T!FalharMarcar, T!FalharMotor, T!Salvar, T!FalharSalvar, Base,
              TP!Ocupados
<1>3. PICK h : h = T!Audiencia(w)
  OBVIOUS
<1>4. /\ h = uploaded.itens[TP!Cabeca(loteT[w])]
      /\ TP!Cabeca(loteT[w]) \in 1 .. Len(uploaded.itens)
      /\ h \in AudienciasPossiveis
      /\ \A D : PassouT(h, D) <=> lugarT[w] \in D
  BY <1>2, <1>3, NaMaoT DEF UmaVez
<1>5. pedido[h] = "respondida" /\ linhas[h] # SemLinha
  BY <1>4 DEF Envio
<1>6. ~PassouT(h, DePublicar) /\ linhas[h] \in AntesDoTexto
  <2>1. ~PassouT(h, DePublicar)
    BY <1>2, <1>4 DEF DePublicar
  <2> QED BY <1>4, <1>5, <2>1 DEF Transcricao
<1>7. lugarT[w] = "livre" => linhas[h] = Registrada
  <2>1. lugarT[w] = "livre" => ~PassouT(h, DoMotor)
    BY <1>4 DEF DoMotor
  <2> QED BY <1>4, <1>5, <2>1 DEF Transcricao
<1>8. linhas[h].colunas = {}
  BY <1>6 DEF AntesDoTexto, Registrada, EmTranscricao, Linha
<1>9. /\ T!LinhasEmCurso(h) = [linhas EXCEPT ![h] = EmTranscricao]
      /\ T!LinhasProntas(h) = [linhas EXCEPT ![h] = Transcrita]
      /\ [linhas EXCEPT ![h].status = "failed", ![h].erro = TRUE] =
             [linhas EXCEPT ![h] = SemTranscricao]
  <2>1. {} \cup {"transcript"} = {"transcript"}
    OBVIOUS
  <2>2. /\ T!LinhasEmCurso(h) = [linhas EXCEPT ![h] = Linha("transcribing", FALSE, {})]
        /\ T!LinhasProntas(h) = [linhas EXCEPT ![h] = Linha("transcribed", FALSE, {"transcript"})]
        /\ [linhas EXCEPT ![h].status = "failed", ![h].erro = TRUE] =
               [linhas EXCEPT ![h] = Linha("failed", TRUE, {})]
    <3>1. PICK c : c = linhas[h].colunas
      BY ZenonT(60)
    <3>2. /\ T!LinhasEmCurso(h) = [linhas EXCEPT ![h] = Linha("transcribing", FALSE, c)]
          /\ T!LinhasProntas(h) =
                 [linhas EXCEPT ![h] = Linha("transcribed", FALSE, c \cup {"transcript"})]
          /\ [linhas EXCEPT ![h].status = "failed", ![h].erro = TRUE] =
                 [linhas EXCEPT ![h] = Linha("failed", TRUE, c)]
      BY <1>0, <1>4, <3>1, Escritas, ZenonT(60)
    <3> QED BY <1>8, <2>1, <3>1, <3>2, Zenon
  <2> QED BY <2>2 DEF EmTranscricao, Transcrita, SemTranscricao
<1>10. ASSUME NEW D, (UNCHANGED <<uploaded, loteT>> /\ lugarT'[w] \in D) \/ TP!Falhar(w)
       PROVE  PassouT(h, D)'
  <2>1. TP!Passada(uploaded', loteT', lugarT', D, h)
    BY <1>2, <1>4, <1>10, TP!CabecaFica, FluxoAssumption DEF Base
  <2> QED BY <2>1 DEF PassouT
<1>11. CASE T!Marcar(w)
  <2>1. linhas' = [linhas EXCEPT ![h] = EmTranscricao] /\ lugarT'[w] = "motor"
    BY <1>0, <1>3, <1>9, <1>11 DEF T!Marcar
  <2>2. PassouT(h, DoMotor)'
    BY <1>10, <1>11, <2>1 DEF T!Marcar, DoMotor
  <2> QED BY <1>2, <1>3, <1>4, <1>5, <1>6, <2>1, <2>2
<1>12. CASE T!Salvar(w)
  <2>1. linhas' = [linhas EXCEPT ![h] = Transcrita] /\ lugarT'[w] = "publicar"
    BY <1>0, <1>3, <1>9, <1>12 DEF T!Salvar
  <2>2. PassouT(h, DoMotor)' /\ PassouT(h, DePublicar)'
    BY <1>10, <1>12, <2>1 DEF T!Salvar, DoMotor, DePublicar
  <2> QED BY <1>2, <1>3, <1>4, <1>5, <1>6, <2>1, <2>2
<1>13. CASE T!FalharMarcar(w) \/ T!FalharMotor(w) \/ T!FalharSalvar(w)
  <2>1. \E x \in {EmTranscricao, SemTranscricao, Transcrita} :
            linhas' = [linhas EXCEPT ![h] = x]
    BY <1>3, <1>9, <1>13 DEF T!FalharMarcar, T!FalharMotor, T!FalharSalvar
  <2>2. TP!Falhar(w) /\ lugarT'[w] = "livre"
    BY <1>0, <1>13, MesmosPassosT DEF T!FalharMarcar, T!FalharMotor, T!FalharSalvar, T!Desistir
  <2>3. PassouT(h, DoMotor)' /\ PassouT(h, DePublicar)'
    BY <1>10, <2>2
  <2> QED BY <1>2, <1>3, <1>4, <1>5, <1>6, <2>1, <2>2, <2>3
<1> QED BY <1>1, <1>11, <1>12, <1>13

(* The analyst writes the row of the message it has in hand, which has its *)
(* transcript, saved by a transcriber that is done with it.                *)
LEMMA EscritaA ==
    ASSUME Base, UmaVez, Envio, Transcricao, Analise, NEW w \in Analistas,
           Analisar(w) \/ CairAnalista(w), linhas' # linhas
    PROVE  \E h \in AudienciasPossiveis, x \in {EmAnalise, SemAnalise, Analisada} :
              /\ h = A!Audiencia(w) /\ loteA[w] # {}
              /\ linhas' = [linhas EXCEPT ![h] = x]
              /\ linhas[h] \in {Transcrita, EmAnalise}
              /\ pedido[h] \notin {"nova", "guardada", "registrada"}
              /\ PassouT(h, DeConfirmar)
              /\ ~PassouA(h, DePublicar)
              /\ PassouA(h, DoMotor)'
              /\ x # EmAnalise => PassouA(h, DePublicar)'
              /\ lugarA'[w] = "publicar" => x = Analisada
<1>0. /\ linhas \in [AudienciasPossiveis -> Registros]
      /\ lugarA \in [Analistas -> {"livre", "motor", "publicar", "confirmar"}]
  BY DEF Base, TypeOK, Registros, A!Lugares
<1>1. \/ A!Marcar(w) \/ A!FalharMarcar(w) \/ A!FalharMotor(w) \/ A!Salvar(w)
      \/ A!FalharSalvar(w)
  BY DEF Analisar, CairAnalista, A!Passo, A!Ler, A!Publicar, A!FalharPublicar,
         A!Confirmar, A!Cair
<1>2. loteA[w] # {} /\ lugarA[w] \in {"livre", "motor"}
  BY <1>1 DEF A!Marcar, A!FalharMarcar, A!FalharMotor, A!Salvar, A!FalharSalvar, Base,
              AP!Ocupados
<1>3. PICK h : h = A!Audiencia(w)
  OBVIOUS
<1>4. /\ h = transcribed.itens[AP!Cabeca(loteA[w])]
      /\ AP!Cabeca(loteA[w]) \in 1 .. Len(transcribed.itens)
      /\ h \in AudienciasPossiveis
      /\ \A D : PassouA(h, D) <=> lugarA[w] \in D
  BY <1>2, <1>3, NaMaoA DEF UmaVez
<1>5. PassouT(h, DeConfirmar) /\ linhas[h] \in ComTexto
  BY <1>4 DEF Transcricao
<1>6. ~PassouA(h, DePublicar) /\ linhas[h] \in {Transcrita, EmAnalise}
  <2>1. ~PassouA(h, DePublicar)
    BY <1>2, <1>4 DEF DePublicar
  <2>2. linhas[h] \notin ComFim
    BY <1>4, <2>1 DEF Analise
  <2> QED BY <1>5, <2>1, <2>2 DEF ComTexto, ComFim
<1>7. linhas[h].colunas = {"transcript"}
  BY <1>6 DEF Transcrita, EmAnalise, Linha
<1>8. pedido[h] \notin {"nova", "guardada", "registrada"}
  <2>1. linhas[h] # SemLinha /\ linhas[h] # Registrada
    BY <1>6, LinhasDistintas
  <2> QED BY <1>4, <2>1 DEF Envio
<1>9. /\ A!LinhasEmCurso(h) = [linhas EXCEPT ![h] = EmAnalise]
      /\ A!LinhasProntas(h) = [linhas EXCEPT ![h] = Analisada]
      /\ [linhas EXCEPT ![h].status = "failed", ![h].erro = TRUE] =
             [linhas EXCEPT ![h] = SemAnalise]
  <2>1. {"transcript"} \cup {"summary"} = {"transcript", "summary"}
    OBVIOUS
  <2>2. PICK c : c = linhas[h].colunas
    BY Zenon
  <2>3. /\ A!LinhasEmCurso(h) = [linhas EXCEPT ![h] = Linha("analyzing", FALSE, c)]
        /\ A!LinhasProntas(h) =
               [linhas EXCEPT ![h] = Linha("analyzed", FALSE, c \cup {"summary"})]
        /\ [linhas EXCEPT ![h].status = "failed", ![h].erro = TRUE] =
               [linhas EXCEPT ![h] = Linha("failed", TRUE, c)]
    BY <1>0, <1>4, <2>2, Escritas, Zenon
  <2> QED BY <1>7, <2>1, <2>2, <2>3, Zenon DEF EmAnalise, Analisada, SemAnalise
<1>10. ASSUME NEW D, (UNCHANGED <<transcribed, loteA>> /\ lugarA'[w] \in D) \/ AP!Falhar(w)
       PROVE  PassouA(h, D)'
  <2>1. AP!Passada(transcribed', loteA', lugarA', D, h)
    BY <1>2, <1>4, <1>10, AP!CabecaFica, FluxoAssumption DEF Base
  <2> QED BY <2>1 DEF PassouA
<1>11. CASE A!Marcar(w)
  <2>1. linhas' = [linhas EXCEPT ![h] = EmAnalise] /\ lugarA'[w] = "motor"
    BY <1>0, <1>3, <1>9, <1>11 DEF A!Marcar
  <2>2. PassouA(h, DoMotor)'
    BY <1>10, <1>11, <2>1 DEF A!Marcar, DoMotor
  <2> QED BY <1>2, <1>3, <1>4, <1>5, <1>6, <1>8, <2>1, <2>2
<1>12. CASE A!Salvar(w)
  <2>1. linhas' = [linhas EXCEPT ![h] = Analisada] /\ lugarA'[w] = "publicar"
    BY <1>0, <1>3, <1>9, <1>12 DEF A!Salvar
  <2>2. PassouA(h, DoMotor)' /\ PassouA(h, DePublicar)'
    BY <1>10, <1>12, <2>1 DEF A!Salvar, DoMotor, DePublicar
  <2> QED BY <1>2, <1>3, <1>4, <1>5, <1>6, <1>8, <2>1, <2>2
<1>13. CASE A!FalharMarcar(w) \/ A!FalharMotor(w) \/ A!FalharSalvar(w)
  <2>1. \E x \in {EmAnalise, SemAnalise, Analisada} : linhas' = [linhas EXCEPT ![h] = x]
    BY <1>3, <1>9, <1>13 DEF A!FalharMarcar, A!FalharMotor, A!FalharSalvar
  <2>2. AP!Falhar(w) /\ lugarA'[w] = "livre"
    BY <1>0, <1>13, MesmosPassosA DEF A!FalharMarcar, A!FalharMotor, A!FalharSalvar, A!Desistir
  <2>3. PassouA(h, DoMotor)' /\ PassouA(h, DePublicar)'
    BY <1>10, <2>2
  <2> QED BY <1>2, <1>3, <1>4, <1>5, <1>6, <1>8, <2>1, <2>2, <2>3
<1> QED BY <1>1, <1>11, <1>12, <1>13

(* A step that writes a row writes one, at one of these three points of    *)
(* the hearing's life.                                                     *)
Escreve(h, x) ==
    /\ linhas' = [linhas EXCEPT ![h] = x]
    /\ \/ /\ linhas[h] = SemLinha /\ x = Registrada /\ pedido[h] = "guardada"
          /\ \E f \in {"registrada", "recusada"} : pedido' = [pedido EXCEPT ![h] = f]
       \/ /\ linhas[h] \in AntesDoTexto /\ x \in {EmTranscricao, SemTranscricao, Transcrita}
          /\ pedido[h] = "respondida" /\ UNCHANGED pedido
          /\ ~PassouT(h, DePublicar)
          /\ PassouT(h, DoMotor)'
          /\ x # EmTranscricao => PassouT(h, DePublicar)'
       \/ /\ linhas[h] \in {Transcrita, EmAnalise} /\ x \in {EmAnalise, SemAnalise, Analisada}
          /\ pedido[h] \notin {"nova", "guardada", "registrada"} /\ UNCHANGED pedido
          /\ PassouT(h, DeConfirmar)
          /\ ~PassouA(h, DePublicar)
          /\ PassouA(h, DoMotor)'
          /\ x # EmAnalise => PassouA(h, DePublicar)'

LEMMA LinhaEscrita ==
    ASSUME Base, UmaVez, Envio, Transcricao, Analise, [Next]_vars, linhas' # linhas
    PROVE  \E h \in AudienciasPossiveis, x \in Linhas : Escreve(h, x)
<1>1. \/ \E h \in AudienciasPossiveis : UploadNext(h) \/ InterromperUpload(h)
      \/ \E w \in Transcritores : Transcrever(w) \/ CairTranscritor(w)
      \/ \E w \in Analistas : Analisar(w) \/ CairAnalista(w)
  <2>1. ~UNCHANGED vars
    BY DEF vars
  <2>2. \A n : ~(NotificadorNext(n) \/ CairNotificador(n))
    BY NotificadorDeFora DEF foraDoAviso
  <2>3. ~Advogado
    BY AdvogadoDeFora DEF foraDaCaixa, foraDoAviso
  <2> QED BY <2>1, <2>2, <2>3 DEF Next, Advogado
<1>2. {Registrada, EmTranscricao, SemTranscricao, Transcrita, EmAnalise, SemAnalise, Analisada}
          \subseteq Linhas
  BY DEF Linhas, AntesDoTexto, ComTexto
<1>3. ASSUME NEW h \in AudienciasPossiveis, UploadNext(h) \/ InterromperUpload(h)
      PROVE  Escreve(h, Registrada)
  BY <1>3, EscritaDoUpload DEF Escreve
<1>4. ASSUME NEW w \in Transcritores, Transcrever(w) \/ CairTranscritor(w)
      PROVE  \E h \in AudienciasPossiveis, x \in Linhas : Escreve(h, x)
  <2>1. UNCHANGED pedido
    BY <1>4 DEF Transcrever, CairTranscritor, foraDaTranscricao, uploadVars
  <2> QED BY <1>2, <1>4, <2>1, EscritaT DEF Escreve
<1>5. ASSUME NEW w \in Analistas, Analisar(w) \/ CairAnalista(w)
      PROVE  \E h \in AudienciasPossiveis, x \in Linhas : Escreve(h, x)
  <2>1. UNCHANGED pedido
    BY <1>5 DEF Analisar, CairAnalista, foraDaAnalise, uploadVars
  <2> QED BY <1>2, <1>5, <2>1, EscritaA DEF Escreve
<1> QED BY <1>1, <1>2, <1>3, <1>4, <1>5

-----------------------------------------------------------------------------
(* Who publishes, and what.                                                *)
LEMMA PublicadaU ==
    ASSUME "duplicacao" \notin Falhas, Base, [Next]_vars, uploaded'.itens # uploaded.itens
    PROVE  \E h \in AudienciasPossiveis :
              /\ pedido[h] = "registrada"
              /\ pedido' = [pedido EXCEPT ![h] = "respondida"]
              /\ uploaded'.itens = Append(uploaded.itens, h)
              /\ UNCHANGED <<objetos, linhas>>
<1>1. uploaded' # uploaded
  OBVIOUS
<1>2. ASSUME NEW w \in Transcritores, Transcrever(w) \/ CairTranscritor(w)
      PROVE  FALSE
  <2>1. \/ TP!Ler(w) \/ TP!LeituraPerdida(w) \/ TP!Concluir(w) \/ TP!Falhar(w)
        \/ TP!Reiniciar(w)
    BY <1>1, <1>2, MesmosPassosT DEF Transcrever, CairTranscritor, T!Passo, T!Cair, T!Ler,
       T!Marcar, T!FalharMarcar, T!FalharMotor, T!Salvar, T!FalharSalvar, T!Publicar,
       T!FalharPublicar, T!Confirmar, T!Desistir
  <2> QED BY <2>1, TP!GrupoNaoEscreve, FluxoAssumption DEF Base
<1>3. PICK h \in AudienciasPossiveis : PublicarUpload(h)
  <2>1. ~UNCHANGED vars
    BY <1>1 DEF vars
  <2>2. \A w \in Analistas : ~(Analisar(w) \/ CairAnalista(w))
    BY <1>1 DEF Analisar, CairAnalista, foraDaAnalise
  <2>3. \A n : ~(NotificadorNext(n) \/ CairNotificador(n))
    BY <1>1, NotificadorDeFora DEF foraDoAviso
  <2>4. ~Advogado
    BY <1>1, AdvogadoDeFora DEF foraDaCaixa, foraDoAviso
  <2>5. PICK h \in AudienciasPossiveis : UploadNext(h) \/ InterromperUpload(h)
    BY <1>2, <2>1, <2>2, <2>3, <2>4 DEF Next, Advogado
  <2> QED BY <1>1, <2>5 DEF UploadNext, InterromperUpload, Guardar, FalharGuardar,
                            Registrar, FalharRegistrar
<1>4. uploaded' \in TP!XAdd(uploaded, h) /\ UNCHANGED loteT
  BY <1>1, <1>3, UmXAdd DEF PublicarUpload, foraDoUpload, transcricaoVars
<1>5. uploaded'.itens = Append(uploaded.itens, h)
  BY <1>4, TP!XAddPreserva, FluxoAssumption DEF Base
<1> QED BY <1>3, <1>5 DEF PublicarUpload

LEMMA PublicadaT ==
    ASSUME "duplicacao" \notin Falhas, Base, UmaVez, [Next]_vars,
           transcribed'.itens # transcribed.itens
    PROVE  \E w \in Transcritores, h \in AudienciasPossiveis :
              /\ lugarT[w] = "publicar" /\ h = T!Audiencia(w)
              /\ transcribed'.itens = Append(transcribed.itens, h)
              /\ UNCHANGED linhas
              /\ ~PassouT(h, DeConfirmar)
              /\ PassouT(h, DeConfirmar)'
<1>1. transcribed' # transcribed
  OBVIOUS
<1>2. ASSUME NEW w \in Analistas, Analisar(w) \/ CairAnalista(w)
      PROVE  FALSE
  <2>1. \/ AP!Ler(w) \/ AP!LeituraPerdida(w) \/ AP!Concluir(w) \/ AP!Falhar(w)
        \/ AP!Reiniciar(w)
    BY <1>1, <1>2, MesmosPassosA DEF Analisar, CairAnalista, A!Passo, A!Cair, A!Ler,
       A!Marcar, A!FalharMarcar, A!FalharMotor, A!Salvar, A!FalharSalvar, A!Publicar,
       A!FalharPublicar, A!Confirmar, A!Desistir
  <2> QED BY <2>1, AP!GrupoNaoEscreve, FluxoAssumption DEF Base
<1>3. PICK w \in Transcritores : Transcrever(w) \/ CairTranscritor(w)
  <2>1. ~UNCHANGED vars
    BY <1>1 DEF vars
  <2>2. \A h \in AudienciasPossiveis : ~(UploadNext(h) \/ InterromperUpload(h))
    BY <1>1, UploadDeFora DEF foraDoUpload
  <2>3. \A n : ~(NotificadorNext(n) \/ CairNotificador(n))
    BY <1>1, NotificadorDeFora DEF foraDoAviso
  <2>4. ~Advogado
    BY <1>1, AdvogadoDeFora DEF foraDaCaixa, foraDoAviso
  <2> QED BY <1>2, <2>1, <2>2, <2>3, <2>4 DEF Next, Advogado
<1>4. /\ T!Publicar(w) \/ T!FalharPublicar(w)
      /\ UNCHANGED loteA
  BY <1>1, <1>3 DEF Transcrever, CairTranscritor, T!Passo, T!Cair, T!Ler, T!Marcar,
     T!FalharMarcar, T!FalharMotor, T!Salvar, T!FalharSalvar, T!Confirmar,
     foraDaTranscricao, analiseVars
<1>5. PICK h : h = T!Audiencia(w)
  OBVIOUS
<1>6. /\ lugarT[w] = "publicar" /\ loteT[w] # {} /\ UNCHANGED linhas
      /\ transcribed' \in AP!XAdd(transcribed, h)
  <2>1. lugarT[w] = "publicar" /\ UNCHANGED linhas
    BY <1>4 DEF T!Publicar, T!FalharPublicar
  <2>2. transcribed' \in AP!XAdd(transcribed, h)
    BY <1>1, <1>4, <1>5, UmXAdd DEF T!Publicar, T!FalharPublicar
  <2> QED BY <2>1, <2>2 DEF Base, TP!Ocupados
<1>7. /\ h = uploaded.itens[TP!Cabeca(loteT[w])]
      /\ h \in AudienciasPossiveis
      /\ ~PassouT(h, DeConfirmar)
  BY <1>5, <1>6, NaMaoT DEF UmaVez, DeConfirmar
<1>8. transcribed'.itens = Append(transcribed.itens, h)
  BY <1>4, <1>6, <1>7, AP!XAddPreserva, FluxoAssumption DEF Base
<1>9. (UNCHANGED <<uploaded, loteT>> /\ lugarT'[w] \in DeConfirmar) \/ TP!Falhar(w)
  BY <1>4, MesmosPassosT DEF T!Publicar, T!FalharPublicar, T!Desistir, DeConfirmar, Base,
                             TypeOK
<1>10. TP!Passada(uploaded', loteT', lugarT', DeConfirmar, h)
  BY <1>6, <1>7, <1>9, TP!CabecaFica, FluxoAssumption DEF Base
<1> QED BY <1>5, <1>6, <1>7, <1>8, <1>10 DEF PassouT

LEMMA PublicadaA ==
    ASSUME "duplicacao" \notin Falhas, Base, UmaVez, [Next]_vars,
           analyzed'.itens # analyzed.itens
    PROVE  \E w \in Analistas, h \in AudienciasPossiveis :
              /\ lugarA[w] = "publicar" /\ h = A!Audiencia(w)
              /\ analyzed'.itens = Append(analyzed.itens, h)
              /\ UNCHANGED linhas
              /\ ~PassouA(h, DeConfirmar)
              /\ PassouA(h, DeConfirmar)'
<1>1. analyzed' # analyzed
  OBVIOUS
<1>2. ASSUME NEW n \in Notificadores, NotificadorNext(n) \/ CairNotificador(n)
      PROVE  FALSE
  <2>1. \/ NP!Ler(n) \/ NP!LeituraPerdida(n) \/ NP!Concluir(n) \/ NP!Falhar(n)
        \/ NP!Reiniciar(n)
    BY <1>1, <1>2, MesmosPassosN DEF NotificadorNext, LerAnalisadas, Decidir, CriarAlerta,
       FalharAlerta, ConfirmarAnalisada, CairNotificador
  <2> QED BY <2>1, NP!GrupoNaoEscreve, FluxoAssumption DEF Base
<1>3. PICK w \in Analistas : Analisar(w) \/ CairAnalista(w)
  <2>1. ~UNCHANGED vars
    BY <1>1 DEF vars
  <2>2. \A h \in AudienciasPossiveis : ~(UploadNext(h) \/ InterromperUpload(h))
    BY <1>1, UploadDeFora DEF foraDoUpload
  <2>3. \A t \in Transcritores : ~(Transcrever(t) \/ CairTranscritor(t))
    BY <1>1 DEF Transcrever, CairTranscritor, foraDaTranscricao
  <2>4. ~Advogado
    BY <1>1, AdvogadoDeFora DEF foraDaCaixa
  <2> QED BY <1>2, <2>1, <2>2, <2>3, <2>4 DEF Next, Advogado
<1>4. /\ A!Publicar(w) \/ A!FalharPublicar(w)
      /\ UNCHANGED loteN
  BY <1>1, <1>3 DEF Analisar, CairAnalista, A!Passo, A!Cair, A!Ler, A!Marcar,
     A!FalharMarcar, A!FalharMotor, A!Salvar, A!FalharSalvar, A!Confirmar,
     foraDaAnalise, avisoVars
<1>5. PICK h : h = A!Audiencia(w)
  OBVIOUS
<1>6. /\ lugarA[w] = "publicar" /\ loteA[w] # {} /\ UNCHANGED linhas
      /\ analyzed' \in NP!XAdd(analyzed, h)
  <2>1. lugarA[w] = "publicar" /\ UNCHANGED linhas
    BY <1>4 DEF A!Publicar, A!FalharPublicar
  <2>2. analyzed' \in NP!XAdd(analyzed, h)
    BY <1>1, <1>4, <1>5, UmXAdd DEF A!Publicar, A!FalharPublicar
  <2> QED BY <2>1, <2>2 DEF Base, AP!Ocupados
<1>7. /\ h = transcribed.itens[AP!Cabeca(loteA[w])]
      /\ h \in AudienciasPossiveis
      /\ ~PassouA(h, DeConfirmar)
  BY <1>5, <1>6, NaMaoA DEF UmaVez, DeConfirmar
<1>8. analyzed'.itens = Append(analyzed.itens, h)
  BY <1>4, <1>6, <1>7, NP!XAddPreserva, FluxoAssumption DEF Base
<1>9. (UNCHANGED <<transcribed, loteA>> /\ lugarA'[w] \in DeConfirmar) \/ AP!Falhar(w)
  BY <1>4, MesmosPassosA DEF A!Publicar, A!FalharPublicar, A!Desistir, DeConfirmar, Base,
                             TypeOK
<1>10. AP!Passada(transcribed', loteA', lugarA', DeConfirmar, h)
  BY <1>6, <1>7, <1>9, AP!CabecaFica, FluxoAssumption DEF Base
<1> QED BY <1>5, <1>6, <1>7, <1>8, <1>10 DEF PassouA

-----------------------------------------------------------------------------
(* A handler at a place of its own has the message it had, and was there   *)
(* already or has just come.                                               *)
LEMMA NoLugarT ==
    ASSUME Base, [Next]_vars,
           NEW w \in Transcritores, lugarT'[w] # "livre"
    PROVE  /\ loteT[w] # {}
           /\ T!Audiencia(w)' = T!Audiencia(w)
           /\ lugarT'[w] = lugarT[w] \/ T!Marcar(w) \/ T!Salvar(w) \/ T!Publicar(w)
<1>1. TP!PassoDoServico(lugarT, lugarT', Avancos)
  BY PassoT
<1>2. /\ loteT[w] # {}
      /\ uploaded'.itens[TP!Cabeca(loteT'[w])] = uploaded.itens[TP!Cabeca(loteT[w])]
  BY <1>1, TP!NoLugar, FluxoAssumption DEF Base
<1>3. T!Audiencia(w)' = T!Audiencia(w)
  BY <1>2, MesmaCabeca DEF T!Audiencia
<1>4. ASSUME lugarT'[w] # lugarT[w]
      PROVE  T!Marcar(w) \/ T!Salvar(w) \/ T!Publicar(w)
  <2>0. lugarT \in [Transcritores -> {"livre", "motor", "publicar", "confirmar"}]
    BY DEF Base, TypeOK, T!Lugares
  <2>1. PICK d \in Transcritores : Transcrever(d) \/ CairTranscritor(d)
    <3>1. ~UNCHANGED vars
      BY <1>4 DEF vars, transcricaoVars
    <3>2. \A h \in AudienciasPossiveis : ~(UploadNext(h) \/ InterromperUpload(h))
      BY <1>4, UploadDeFora DEF foraDoUpload, transcricaoVars
    <3>3. \A n : ~(NotificadorNext(n) \/ CairNotificador(n))
      BY <1>4, NotificadorDeFora DEF foraDoAviso, transcricaoVars
    <3>4. ~Advogado
      BY <1>4, AdvogadoDeFora DEF foraDaCaixa, foraDoAviso, transcricaoVars
    <3>5. \A a \in Analistas : ~(Analisar(a) \/ CairAnalista(a))
      BY <1>4 DEF Analisar, CairAnalista, foraDaAnalise, transcricaoVars
    <3> QED BY <3>1, <3>2, <3>3, <3>4, <3>5 DEF Next, Advogado
  <2>2. \/ T!Marcar(d) \/ T!Salvar(d) \/ T!Publicar(d)
        \/ lugarT' = [lugarT EXCEPT ![d] = "livre"]
    BY <1>4, <2>1 DEF Transcrever, CairTranscritor, T!Passo, T!Ler, T!FalharMarcar,
       T!FalharMotor, T!FalharSalvar, T!FalharPublicar, T!Confirmar, T!Cair, T!Desistir
  <2>3. d = w
    BY <1>4, <2>0, <2>2 DEF T!Marcar, T!Salvar, T!Publicar
  <2> QED BY <2>0, <2>2, <2>3
<1> QED BY <1>2, <1>3, <1>4

LEMMA NoLugarA ==
    ASSUME Base, [Next]_vars,
           NEW w \in Analistas, lugarA'[w] # "livre"
    PROVE  /\ loteA[w] # {}
           /\ A!Audiencia(w)' = A!Audiencia(w)
           /\ lugarA'[w] = lugarA[w] \/ A!Marcar(w) \/ A!Salvar(w) \/ A!Publicar(w)
<1>1. AP!PassoDoServico(lugarA, lugarA', Avancos)
  BY PassoA
<1>2. /\ loteA[w] # {}
      /\ transcribed'.itens[AP!Cabeca(loteA'[w])] = transcribed.itens[AP!Cabeca(loteA[w])]
  BY <1>1, AP!NoLugar, FluxoAssumption DEF Base
<1>3. A!Audiencia(w)' = A!Audiencia(w)
  BY <1>2, MesmaCabeca DEF A!Audiencia
<1>4. ASSUME lugarA'[w] # lugarA[w]
      PROVE  A!Marcar(w) \/ A!Salvar(w) \/ A!Publicar(w)
  <2>0. lugarA \in [Analistas -> {"livre", "motor", "publicar", "confirmar"}]
    BY DEF Base, TypeOK, A!Lugares
  <2>1. PICK d \in Analistas : Analisar(d) \/ CairAnalista(d)
    <3>1. ~UNCHANGED vars
      BY <1>4 DEF vars, analiseVars
    <3>2. \A h \in AudienciasPossiveis : ~(UploadNext(h) \/ InterromperUpload(h))
      BY <1>4, UploadDeFora DEF foraDoUpload, analiseVars
    <3>3. \A n : ~(NotificadorNext(n) \/ CairNotificador(n))
      BY <1>4, NotificadorDeFora DEF foraDoAviso, analiseVars
    <3>4. ~Advogado
      BY <1>4, AdvogadoDeFora DEF foraDaCaixa, foraDoAviso, analiseVars
    <3>5. \A a \in Transcritores : ~(Transcrever(a) \/ CairTranscritor(a))
      BY <1>4 DEF Transcrever, CairTranscritor, foraDaTranscricao, analiseVars
    <3> QED BY <3>1, <3>2, <3>3, <3>4, <3>5 DEF Next, Advogado
  <2>2. \/ A!Marcar(d) \/ A!Salvar(d) \/ A!Publicar(d)
        \/ lugarA' = [lugarA EXCEPT ![d] = "livre"]
    BY <1>4, <2>1 DEF Analisar, CairAnalista, A!Passo, A!Ler, A!FalharMarcar,
       A!FalharMotor, A!FalharSalvar, A!FalharPublicar, A!Confirmar, A!Cair, A!Desistir
  <2>3. d = w
    BY <1>4, <2>0, <2>2 DEF A!Marcar, A!Salvar, A!Publicar
  <2> QED BY <2>0, <2>2, <2>3
<1> QED BY <1>2, <1>3, <1>4

LEMMA NoLugarN ==
    ASSUME Base, [Next]_vars,
           NEW n \in Notificadores, lugarN'[n] # "livre"
    PROVE  /\ loteN[n] # {}
           /\ AudienciaDe(n)' = AudienciaDe(n)
           /\ lugarN'[n] = lugarN[n] \/ Decidir(n) \/ CriarAlerta(n)
<1>1. NP!PassoDoServico(lugarN, lugarN', AvancosDoAviso)
  BY PassoN
<1>2. /\ loteN[n] # {}
      /\ analyzed'.itens[NP!Cabeca(loteN'[n])] = analyzed.itens[NP!Cabeca(loteN[n])]
  BY <1>1, NP!NoLugar, FluxoAssumption DEF Base
<1>3. AudienciaDe(n)' = AudienciaDe(n)
  BY <1>2, MesmaCabeca DEF AudienciaDe
<1>4. ASSUME lugarN'[n] # lugarN[n]
      PROVE  Decidir(n) \/ CriarAlerta(n)
  <2>0. lugarN \in [Notificadores -> {"livre", "criar", "confirmar"}]
    BY DEF Base, TypeOK
  <2>1. PICK d \in Notificadores : NotificadorNext(d) \/ CairNotificador(d)
    <3>1. ~UNCHANGED vars
      BY <1>4 DEF vars, avisoVars
    <3>2. \A h \in AudienciasPossiveis : ~(UploadNext(h) \/ InterromperUpload(h))
      BY <1>4, UploadDeFora DEF foraDoUpload, avisoVars
    <3>3. ~Advogado
      BY <1>4, AdvogadoDeFora DEF foraDaCaixa
    <3>4. \A a \in Transcritores : ~(Transcrever(a) \/ CairTranscritor(a))
      BY <1>4 DEF Transcrever, CairTranscritor, foraDaTranscricao, avisoVars
    <3>5. \A a \in Analistas : ~(Analisar(a) \/ CairAnalista(a))
      BY <1>4 DEF Analisar, CairAnalista, foraDaAnalise, avisoVars
    <3> QED BY <3>1, <3>2, <3>3, <3>4, <3>5 DEF Next, Advogado
  <2>2. \/ Decidir(d) \/ CriarAlerta(d)
        \/ lugarN' = [lugarN EXCEPT ![d] = "livre"]
    BY <1>4, <2>1 DEF NotificadorNext, CairNotificador, LerAnalisadas, FalharAlerta,
                      ConfirmarAnalisada
  <2>3. d = n
    BY <1>4, <2>0, <2>2, SMTT(30) DEF Decidir, CriarAlerta
  <2> QED BY <2>0, <2>2, <2>3
<1> QED BY <1>2, <1>3, <1>4

(* Only the handler of a hearing's message adds an alert.                  *)
LEMMA QuemAlerta ==
    ASSUME Base, [Next]_vars, ~Advogado, alertas' # alertas
    PROVE  \E n \in Notificadores, h \in AudienciasPossiveis :
              /\ lugarN[n] = "criar" /\ h = AudienciaDe(n) /\ loteN[n] # {}
              /\ alertas' = [alertas EXCEPT ![h] = Append(alertas[h], FALSE)]
              /\ UNCHANGED <<linhas, alertar, objetos>>
              /\ (UNCHANGED <<analyzed, loteN>> /\ lugarN'[n] \in DeConfirmar) \/ NP!Falhar(n)
<1>0. lugarN \in [Notificadores -> {"livre", "criar", "confirmar"}]
  BY DEF Base, TypeOK
<1>1. PICK n \in Notificadores : NotificadorNext(n) \/ CairNotificador(n)
  <2>1. ~UNCHANGED vars
    BY DEF vars, avisoVars
  <2>2. \A h \in AudienciasPossiveis : ~(UploadNext(h) \/ InterromperUpload(h))
    BY UploadDeFora DEF foraDoUpload, avisoVars
  <2>3. \A a \in Transcritores : ~(Transcrever(a) \/ CairTranscritor(a))
    BY DEF Transcrever, CairTranscritor, foraDaTranscricao, avisoVars
  <2>4. \A a \in Analistas : ~(Analisar(a) \/ CairAnalista(a))
    BY DEF Analisar, CairAnalista, foraDaAnalise, avisoVars
  <2> QED BY <2>1, <2>2, <2>3, <2>4 DEF Next, Advogado
<1>2. PICK h : h = AudienciaDe(n)
  OBVIOUS
<1>3. /\ CriarAlerta(n) \/ FalharAlerta(n)
      /\ alertas' = [alertas EXCEPT ![h] = Append(alertas[h], FALSE)]
  BY <1>1, <1>2 DEF NotificadorNext, CairNotificador, LerAnalisadas, Decidir, CriarAlerta,
                    FalharAlerta, ConfirmarAnalisada, ComAlerta
<1>4. /\ lugarN[n] = "criar"
      /\ UNCHANGED <<linhas, alertar, objetos>>
      /\ (UNCHANGED <<analyzed, loteN>> /\ lugarN'[n] \in DeConfirmar) \/ NP!Falhar(n)
  BY <1>0, <1>3, MesmosPassosN DEF CriarAlerta, FalharAlerta, foraDoAviso, uploadVars,
                                   DeConfirmar
<1>5. loteN[n] # {}
  BY <1>4 DEF Base, NP!Ocupados
<1>6. h \in AudienciasPossiveis
  BY <1>2, <1>5, DaMaoN
<1> QED BY <1>2, <1>3, <1>4, <1>5, <1>6

(* If the hearing has no other message, it goes past the point where it    *)
(* could.                                                                  *)
LEMMA AlertaCriado ==
    ASSUME Base, UmaVez, [Next]_vars, ~Advogado, alertas' # alertas
    PROVE  \E n \in Notificadores, h \in AudienciasPossiveis :
              /\ lugarN[n] = "criar" /\ h = AudienciaDe(n) /\ loteN[n] # {}
              /\ alertas' = [alertas EXCEPT ![h] = Append(alertas[h], FALSE)]
              /\ UNCHANGED <<linhas, alertar, objetos>>
              /\ ~PassouN(h, DeConfirmar)
              /\ PassouN(h, DeConfirmar)'
<1>1. PICK n \in Notificadores, h \in AudienciasPossiveis :
          /\ lugarN[n] = "criar" /\ h = AudienciaDe(n) /\ loteN[n] # {}
          /\ alertas' = [alertas EXCEPT ![h] = Append(alertas[h], FALSE)]
          /\ UNCHANGED <<linhas, alertar, objetos>>
          /\ (UNCHANGED <<analyzed, loteN>> /\ lugarN'[n] \in DeConfirmar) \/ NP!Falhar(n)
  BY QuemAlerta
<1>2. /\ h = analyzed.itens[NP!Cabeca(loteN[n])]
      /\ ~PassouN(h, DeConfirmar)
  BY <1>1, NaMaoN DEF UmaVez, DeConfirmar
<1>3. NP!Passada(analyzed', loteN', lugarN', DeConfirmar, h)
  BY <1>1, <1>2, NP!CabecaFica, FluxoAssumption DEF Base
<1> QED BY <1>1, <1>2, <1>3 DEF PassouN

-----------------------------------------------------------------------------
(* The invariant is kept, part by part.                                    *)
LEMMA LinhasMantidas ==
    ASSUME Base, UmaVez, Envio, Transcricao, Analise, [Next]_vars
    PROVE  linhas' \in [AudienciasPossiveis -> Linhas]
<1>1. linhas \in [AudienciasPossiveis -> Linhas]
  BY DEF Base, TypeOK, Transcricao
<1>2. CASE linhas' # linhas
  BY <1>1, <1>2, LinhaEscrita DEF Escreve
<1> QED BY <1>1, <1>2

(* Whoever writes a row writes a status, an error and columns.             *)
LEMMA RegistrosMantidos ==
    ASSUME Base, [Next]_vars
    PROVE  linhas' \in [AudienciasPossiveis -> Registros]
<1>0. linhas \in [AudienciasPossiveis -> Registros]
  BY DEF Base, TypeOK, Registros
<1>1. ASSUME NEW h \in AudienciasPossiveis,
             \E st \in Situacoes, e \in BOOLEAN, c \in SUBSET {"transcript", "summary"} :
                 linhas' = [linhas EXCEPT ![h] = Linha(st, e, c)]
      PROVE  linhas' \in [AudienciasPossiveis -> Registros]
  <2>1. PICK r \in Registros : linhas' = [linhas EXCEPT ![h] = r]
    BY <1>1 DEF Linha, Registros
  <2> QED BY <1>0, <2>1
<1>2. ASSUME NEW h \in AudienciasPossiveis,
             \/ linhas' = ComLinha(h)
             \/ linhas' = T!LinhasEmCurso(h) \/ linhas' = T!LinhasProntas(h)
             \/ linhas' = A!LinhasEmCurso(h) \/ linhas' = A!LinhasProntas(h)
             \/ linhas' = [linhas EXCEPT ![h].status = "failed", ![h].erro = TRUE]
      PROVE  linhas' \in [AudienciasPossiveis -> Registros]
  <2>1. PICK e, c : e = linhas[h].erro /\ c = linhas[h].colunas
    OBVIOUS
  <2>2. /\ e \in BOOLEAN /\ c \in SUBSET {"transcript", "summary"}
        /\ c \cup {"transcript"} \in SUBSET {"transcript", "summary"}
        /\ c \cup {"summary"} \in SUBSET {"transcript", "summary"}
    BY <1>0, <2>1 DEF Registros
  <2>3. /\ \A x \in {"uploaded", "transcribing", "transcribed", "analyzing", "analyzed",
                      "failed"} : x \in Situacoes
        /\ TRUE \in BOOLEAN /\ FALSE \in BOOLEAN
    BY DEF Situacoes
  <2>4. \/ linhas' = [linhas EXCEPT ![h] = Linha("uploaded", e, c)]
        \/ linhas' = [linhas EXCEPT ![h] = Linha("transcribing", FALSE, c)]
        \/ linhas' = [linhas EXCEPT ![h] = Linha("analyzing", FALSE, c)]
        \/ linhas' = [linhas EXCEPT ![h] = Linha("transcribed", FALSE, c \cup {"transcript"})]
        \/ linhas' = [linhas EXCEPT ![h] = Linha("analyzed", FALSE, c \cup {"summary"})]
        \/ linhas' = [linhas EXCEPT ![h] = Linha("failed", TRUE, c)]
    BY <1>0, <1>2, <2>1, Escritas, Zenon
  <2>5. \E st \in Situacoes, f \in BOOLEAN, d \in SUBSET {"transcript", "summary"} :
            linhas' = [linhas EXCEPT ![h] = Linha(st, f, d)]
    BY <2>2, <2>3, <2>4
  <2> QED BY <1>1, <2>5
<1>3. ASSUME NEW h \in AudienciasPossiveis, UploadNext(h) \/ InterromperUpload(h)
      PROVE  linhas' \in [AudienciasPossiveis -> Registros]
  <2>1. linhas' = linhas \/ linhas' = ComLinha(h)
    BY <1>3 DEF UploadNext, InterromperUpload, Guardar, FalharGuardar, Registrar,
                FalharRegistrar, PublicarUpload
  <2> QED BY <1>0, <1>2, <2>1
<1>4. ASSUME NEW w \in Transcritores, Transcrever(w) \/ CairTranscritor(w)
      PROVE  linhas' \in [AudienciasPossiveis -> Registros]
  <2>1. PICK h : h = T!Audiencia(w)
    OBVIOUS
  <2>2. \/ linhas' = linhas
        \/ /\ lugarT[w] # "livre" \/ loteT[w] # {}
           /\ \/ linhas' = T!LinhasEmCurso(h) \/ linhas' = T!LinhasProntas(h)
              \/ linhas' = [linhas EXCEPT ![h].status = "failed", ![h].erro = TRUE]
    BY <1>4, <2>1 DEF Transcrever, CairTranscritor, T!Passo, T!Cair, T!Ler, T!Marcar,
       T!FalharMarcar, T!FalharMotor, T!Salvar, T!FalharSalvar, T!Publicar,
       T!FalharPublicar, T!Confirmar
  <2>3. lugarT[w] # "livre" => loteT[w] # {}
    BY DEF Base, TP!Ocupados
  <2>4. loteT[w] # {} => h \in AudienciasPossiveis
    BY <2>1, DaMaoT
  <2> QED BY <1>0, <1>2, <2>2, <2>3, <2>4
<1>5. ASSUME NEW w \in Analistas, Analisar(w) \/ CairAnalista(w)
      PROVE  linhas' \in [AudienciasPossiveis -> Registros]
  <2>1. PICK h : h = A!Audiencia(w)
    OBVIOUS
  <2>2. \/ linhas' = linhas
        \/ /\ lugarA[w] # "livre" \/ loteA[w] # {}
           /\ \/ linhas' = A!LinhasEmCurso(h) \/ linhas' = A!LinhasProntas(h)
              \/ linhas' = [linhas EXCEPT ![h].status = "failed", ![h].erro = TRUE]
    BY <1>5, <2>1 DEF Analisar, CairAnalista, A!Passo, A!Cair, A!Ler, A!Marcar,
       A!FalharMarcar, A!FalharMotor, A!Salvar, A!FalharSalvar, A!Publicar,
       A!FalharPublicar, A!Confirmar
  <2>3. lugarA[w] # "livre" => loteA[w] # {}
    BY DEF Base, AP!Ocupados
  <2>4. loteA[w] # {} => h \in AudienciasPossiveis
    BY <2>1, DaMaoA
  <2> QED BY <1>0, <1>2, <2>2, <2>3, <2>4
<1>6. ASSUME NEW n \in Notificadores, NotificadorNext(n) \/ CairNotificador(n)
      PROVE  linhas' \in [AudienciasPossiveis -> Registros]
  BY <1>0, <1>6, NotificadorDeFora DEF foraDoAviso
<1>7. CASE Advogado \/ UNCHANGED vars
  BY <1>0, <1>7, AdvogadoDeFora DEF foraDaCaixa, foraDoAviso, vars
<1> QED BY <1>3, <1>4, <1>5, <1>6, <1>7 DEF Next, Advogado

LEMMA AlertasMantidos ==
    ASSUME Base, [Next]_vars
    PROVE  alertas' \in [AudienciasPossiveis -> Seq(BOOLEAN)]
<1>0. alertas \in [AudienciasPossiveis -> Seq(BOOLEAN)]
  BY DEF Base, TypeOK
<1>1. CASE ~Advogado /\ alertas' # alertas
  <2>1. PICK h \in AudienciasPossiveis :
            alertas' = [alertas EXCEPT ![h] = Append(alertas[h], FALSE)]
    BY <1>1, QuemAlerta
  <2>2. FALSE \in BOOLEAN
    OBVIOUS
  <2>3. Append(alertas[h], FALSE) \in Seq(BOOLEAN)
    BY <1>0, <2>2
  <2> QED BY <1>0, <2>1, <2>3
<1>2. ASSUME NEW t \in Tenants, SalvarPreferencias(t)
      PROVE  alertas' \in [AudienciasPossiveis -> Seq(BOOLEAN)]
  BY <1>0, <1>2 DEF SalvarPreferencias
<1>3. ASSUME NEW h \in AudienciasPossiveis, MarcarLida(h)
      PROVE  alertas' \in [AudienciasPossiveis -> Seq(BOOLEAN)]
  <2>1. PICK i \in 1 .. Len(alertas[h]) : alertas' = [alertas EXCEPT ![h][i] = TRUE]
    BY <1>3 DEF MarcarLida
  <2>2. PICK s : s = [alertas[h] EXCEPT ![i] = TRUE]
    OBVIOUS
  <2>3. s \in Seq(BOOLEAN)
    BY <1>0, <2>1, <2>2
  <2>4. alertas' = [alertas EXCEPT ![h] = s]
    BY <1>0, <2>1, <2>2
  <2> QED BY <1>0, <2>3, <2>4
<1>4. ASSUME NEW t \in Tenants, MarcarTodasLidas(t)
      PROVE  alertas' \in [AudienciasPossiveis -> Seq(BOOLEAN)]
  <2>1. \A h \in AudienciasPossiveis : [i \in 1 .. Len(alertas[h]) |-> TRUE] \in Seq(BOOLEAN)
    BY <1>0
  <2> QED BY <1>0, <1>4, <2>1 DEF MarcarTodasLidas
<1> QED BY <1>0, <1>1, <1>2, <1>3, <1>4 DEF Advogado

LEMMA LugaresMantidos ==
    ASSUME Base, [Next]_vars
    PROVE  /\ objetos' \in SUBSET AudienciasPossiveis
           /\ pedido' \in [AudienciasPossiveis -> Fases]
           /\ lugarT' \in [Transcritores -> T!Lugares]
           /\ lugarA' \in [Analistas -> A!Lugares]
           /\ lugarN' \in [Notificadores -> {"livre", "criar", "confirmar"}]
           /\ alertar' \in [Tenants -> {"padrao", "sim", "nao"}]
<1>0. TypeOK
  BY DEF Base
<1>1. CASE UNCHANGED vars
  BY <1>0, <1>1 DEF vars, TypeOK, uploadVars, transcricaoVars, analiseVars, avisoVars
<1>2. ASSUME NEW h \in AudienciasPossiveis, UploadNext(h) \/ InterromperUpload(h)
      PROVE  /\ objetos' \in SUBSET AudienciasPossiveis
             /\ pedido' \in [AudienciasPossiveis -> Fases]
             /\ UNCHANGED <<lugarT, lugarA, lugarN, alertar>>
  <2>1. UNCHANGED <<lugarT, lugarA, lugarN, alertar>>
    BY <1>2, UploadDeFora DEF foraDoUpload, transcricaoVars, analiseVars, avisoVars
  <2>2. \E f \in Fases : pedido' = [pedido EXCEPT ![h] = f]
    BY <1>2 DEF UploadNext, InterromperUpload, Guardar, FalharGuardar, Registrar,
                FalharRegistrar, PublicarUpload, Fases
  <2>3. objetos' \in {objetos, objetos \cup {h}}
    BY <1>2 DEF UploadNext, InterromperUpload, Guardar, FalharGuardar, Registrar,
                FalharRegistrar, PublicarUpload
  <2> QED BY <1>0, <2>1, <2>2, <2>3 DEF TypeOK
<1>3. ASSUME NEW w \in Transcritores, Transcrever(w) \/ CairTranscritor(w)
      PROVE  /\ lugarT' \in [Transcritores -> T!Lugares]
             /\ UNCHANGED <<objetos, pedido, lugarA, lugarN, alertar>>
  <2>1. UNCHANGED <<objetos, pedido, lugarA, lugarN, alertar>>
    BY <1>3 DEF Transcrever, CairTranscritor, foraDaTranscricao, uploadVars, analiseVars,
                avisoVars
  <2>2. lugarT' = lugarT \/ \E l \in T!Lugares : lugarT' = [lugarT EXCEPT ![w] = l]
    BY <1>3 DEF Transcrever, CairTranscritor, T!Passo, T!Cair, T!Ler, T!Marcar,
       T!FalharMarcar, T!FalharMotor, T!Salvar, T!FalharSalvar, T!Publicar,
       T!FalharPublicar, T!Confirmar, T!Desistir, T!Lugares
  <2> QED BY <1>0, <2>1, <2>2, SMTT(30) DEF TypeOK
<1>4. ASSUME NEW w \in Analistas, Analisar(w) \/ CairAnalista(w)
      PROVE  /\ lugarA' \in [Analistas -> A!Lugares]
             /\ UNCHANGED <<objetos, pedido, lugarT, lugarN, alertar>>
  <2>1. UNCHANGED <<objetos, pedido, lugarT, lugarN, alertar>>
    BY <1>4 DEF Analisar, CairAnalista, foraDaAnalise, uploadVars, transcricaoVars,
                avisoVars
  <2>2. lugarA' = lugarA \/ \E l \in A!Lugares : lugarA' = [lugarA EXCEPT ![w] = l]
    BY <1>4 DEF Analisar, CairAnalista, A!Passo, A!Cair, A!Ler, A!Marcar,
       A!FalharMarcar, A!FalharMotor, A!Salvar, A!FalharSalvar, A!Publicar,
       A!FalharPublicar, A!Confirmar, A!Desistir, A!Lugares
  <2> QED BY <1>0, <2>1, <2>2 DEF TypeOK
<1>5. ASSUME NEW n \in Notificadores, NotificadorNext(n) \/ CairNotificador(n)
      PROVE  /\ lugarN' \in [Notificadores -> {"livre", "criar", "confirmar"}]
             /\ UNCHANGED <<objetos, pedido, lugarT, lugarA, alertar>>
  <2>1. UNCHANGED <<objetos, pedido, lugarT, lugarA, alertar>>
    BY <1>5, NotificadorDeFora DEF foraDoAviso, uploadVars, transcricaoVars, analiseVars
  <2>2. \/ lugarN' = lugarN
        \/ \E l \in {"livre", "criar", "confirmar"} : lugarN' = [lugarN EXCEPT ![n] = l]
    BY <1>5 DEF NotificadorNext, CairNotificador, LerAnalisadas, Decidir, CriarAlerta,
                FalharAlerta, ConfirmarAnalisada
  <2> QED BY <1>0, <2>1, <2>2 DEF TypeOK
<1>6. CASE Advogado
  <2>1. UNCHANGED <<objetos, pedido, lugarT, lugarA, lugarN>>
    BY <1>6, AdvogadoDeFora DEF foraDaCaixa, foraDoAviso, uploadVars, transcricaoVars,
                                analiseVars
  <2>2. \/ alertar' = alertar
        \/ \E t \in Tenants, b \in {"sim", "nao"} : alertar' = [alertar EXCEPT ![t] = b]
    BY <1>6 DEF Advogado, SalvarPreferencias, MarcarTodasLidas, MarcarLida
  <2> QED BY <1>0, <2>1, <2>2 DEF TypeOK
<1> QED BY <1>0, <1>1, <1>2, <1>3, <1>4, <1>5, <1>6 DEF TypeOK, Next, Advogado

LEMMA BaseMantida ==
    ASSUME Base, [Next]_vars
    PROVE  Base'
<1>1. /\ TP!Invariante' /\ TP!Ocupados(lugarT)'
      /\ AP!Invariante' /\ AP!Ocupados(lugarA)'
      /\ NP!Invariante' /\ NP!Ocupados(lugarN)'
  BY GruposMantidos
<1>2. linhas' \in [AudienciasPossiveis -> Registros]
  BY RegistrosMantidos
<1>3. /\ uploaded' \in Fluxos(AudienciasPossiveis)
      /\ transcribed' \in Fluxos(AudienciasPossiveis)
      /\ analyzed' \in Fluxos(AudienciasPossiveis)
      /\ loteT' \in [Transcritores -> SUBSET Nat]
      /\ loteA' \in [Analistas -> SUBSET Nat]
      /\ loteN' \in [Notificadores -> SUBSET Nat]
  BY <1>1 DEF TP!Invariante, TP!TypeOK, TP!Fluxos, AP!Invariante, AP!TypeOK, AP!Fluxos,
              NP!Invariante, NP!TypeOK, NP!Fluxos, Fluxos
<1>4. TypeOK'
  BY <1>2, <1>3, LugaresMantidos, AlertasMantidos DEF TypeOK, Registros
<1> QED BY <1>1, <1>4 DEF Base

LEMMA NoFim ==
    ASSUME NEW s \in Seq(AudienciasPossiveis), NEW h \in AudienciasPossiveis
    PROVE  /\ Len(s) \in Nat
           /\ Len(Append(s, h)) = Len(s) + 1
           /\ Append(s, h)[Len(s) + 1] = h
           /\ \A i \in 1 .. Len(s) : Append(s, h)[i] = s[i]
           /\ \A i \in 1 .. Len(Append(s, h)) : i \in 1 .. Len(s) \/ i = Len(s) + 1
OBVIOUS

(* A message that was not in the stream does not come twice.               *)
LEMMA SemRepetir ==
    ASSUME NEW s \in Seq(AudienciasPossiveis), NEW h \in AudienciasPossiveis,
           \A i, j \in 1 .. Len(s) : s[i] = s[j] => i = j,
           \A i \in 1 .. Len(s) : s[i] # h
    PROVE  \A i, j \in 1 .. Len(Append(s, h)) : Append(s, h)[i] = Append(s, h)[j] => i = j
<1> SUFFICES ASSUME NEW i \in 1 .. Len(Append(s, h)), NEW j \in 1 .. Len(Append(s, h)),
                    Append(s, h)[i] = Append(s, h)[j]
             PROVE  i = j
  OBVIOUS
<1> QED BY NoFim

LEMMA UmaVezMantida ==
    ASSUME "duplicacao" \notin Falhas, Base, UmaVez, Envio, Transcricao, Analise, [Next]_vars
    PROVE  UmaVez'
<1>0. /\ uploaded.itens \in Seq(AudienciasPossiveis)
      /\ transcribed.itens \in Seq(AudienciasPossiveis)
      /\ analyzed.itens \in Seq(AudienciasPossiveis)
  BY DEF Base, TypeOK, Fluxos
<1>1. TP!SemRepeticao'
  <2>1. CASE uploaded'.itens = uploaded.itens
    BY <2>1 DEF UmaVez, TP!SemRepeticao
  <2>2. CASE uploaded'.itens # uploaded.itens
    <3>1. PICK h \in AudienciasPossiveis : /\ pedido[h] = "registrada"
                                           /\ uploaded'.itens = Append(uploaded.itens, h)
      BY <2>2, PublicadaU
    <3>2. \A i \in 1 .. Len(uploaded.itens) : uploaded.itens[i] # h
      BY <3>1 DEF Envio
    <3> QED BY <1>0, <3>1, <3>2, SemRepetir DEF UmaVez, TP!SemRepeticao
  <2> QED BY <2>1, <2>2
<1>2. AP!SemRepeticao'
  <2>1. CASE transcribed'.itens = transcribed.itens
    BY <2>1 DEF UmaVez, AP!SemRepeticao
  <2>2. CASE transcribed'.itens # transcribed.itens
    <3>1. PICK h \in AudienciasPossiveis :
              /\ ~PassouT(h, DeConfirmar)
              /\ transcribed'.itens = Append(transcribed.itens, h)
      BY <2>2, PublicadaT
    <3>2. \A i \in 1 .. Len(transcribed.itens) : transcribed.itens[i] # h
      BY <3>1 DEF Transcricao
    <3> QED BY <1>0, <3>1, <3>2, SemRepetir DEF UmaVez, AP!SemRepeticao
  <2> QED BY <2>1, <2>2
<1>3. NP!SemRepeticao'
  <2>1. CASE analyzed'.itens = analyzed.itens
    BY <2>1 DEF UmaVez, NP!SemRepeticao
  <2>2. CASE analyzed'.itens # analyzed.itens
    <3>1. PICK h \in AudienciasPossiveis :
              /\ ~PassouA(h, DeConfirmar)
              /\ analyzed'.itens = Append(analyzed.itens, h)
      BY <2>2, PublicadaA
    <3>2. \A i \in 1 .. Len(analyzed.itens) : analyzed.itens[i] # h
      BY <3>1 DEF Analise
    <3> QED BY <1>0, <3>1, <3>2, SemRepetir DEF UmaVez, NP!SemRepeticao
  <2> QED BY <2>1, <2>2
<1> QED BY <1>1, <1>2, <1>3 DEF UmaVez

(* How far the request of the upload of h got, and the row it left.        *)
LEMMA EnvioMantido ==
    ASSUME "duplicacao" \notin Falhas, Base, UmaVez, Envio, Transcricao, Analise, [Next]_vars
    PROVE  Envio'
<1>0. /\ uploaded.itens \in Seq(AudienciasPossiveis)
      /\ pedido \in [AudienciasPossiveis -> Fases]
      /\ linhas \in [AudienciasPossiveis -> Linhas]
  BY DEF Base, TypeOK, Fluxos, Transcricao
<1>1. ASSUME NEW h \in AudienciasPossiveis
      PROVE  /\ pedido'[h] = "nova" => h \notin objetos'
             /\ pedido'[h] = "guardada" => h \in objetos'
             /\ pedido'[h] \in {"nova", "guardada"} => linhas'[h] = SemLinha
             /\ pedido'[h] = "registrada" => linhas'[h] = Registrada
  <2>1. CASE linhas' # linhas
    <3>1. PICK g \in AudienciasPossiveis, x \in Linhas : Escreve(g, x)
      BY <2>1, LinhaEscrita
    <3>2. UNCHANGED objetos
      <4>1. \A u \in AudienciasPossiveis :
                UploadNext(u) \/ InterromperUpload(u) => UNCHANGED objetos
        BY <2>1, EscritaDoUpload
      <4>2. \A w : Transcrever(w) \/ CairTranscritor(w) => UNCHANGED objetos
        BY DEF Transcrever, CairTranscritor, foraDaTranscricao, uploadVars
      <4>3. \A w : Analisar(w) \/ CairAnalista(w) => UNCHANGED objetos
        BY DEF Analisar, CairAnalista, foraDaAnalise, uploadVars
      <4>4. \A n : NotificadorNext(n) \/ CairNotificador(n) => UNCHANGED objetos
        BY NotificadorDeFora DEF foraDoAviso, uploadVars
      <4>5. Advogado => UNCHANGED objetos
        BY AdvogadoDeFora DEF foraDaCaixa, foraDoAviso, uploadVars
      <4> QED BY <4>1, <4>2, <4>3, <4>4, <4>5 DEF Next, Advogado, vars, uploadVars
    <3>3. linhas'[h] = IF h = g THEN x ELSE linhas[h]
      BY <1>0, <3>1 DEF Escreve
    <3>4. h # g => pedido'[h] = pedido[h]
      BY <1>0, <3>1 DEF Escreve
    <3>5. CASE h # g
      BY <3>2, <3>3, <3>4, <3>5 DEF Envio
    <3>6. CASE h = g
      <4>1. pedido'[h] \in {"nova", "guardada"} => FALSE
        BY <1>0, <3>1, <3>6 DEF Escreve, Fases
      <4>2. pedido'[h] = "registrada" => x = Registrada
        BY <1>0, <3>1, <3>6 DEF Escreve
      <4> QED BY <3>3, <3>6, <4>1, <4>2
    <3> QED BY <3>5, <3>6
  <2>2. CASE linhas' = linhas
    <3>1. CASE UNCHANGED <<objetos, pedido>>
      BY <2>2, <3>1 DEF Envio
    <3>2. ASSUME NEW g \in AudienciasPossiveis, UploadNext(g) \/ InterromperUpload(g)
          PROVE  /\ pedido'[h] = "nova" => h \notin objetos'
                 /\ pedido'[h] = "guardada" => h \in objetos'
                 /\ pedido'[h] \in {"nova", "guardada"} => linhas'[h] = SemLinha
                 /\ pedido'[h] = "registrada" => linhas'[h] = Registrada
      <4>1. CASE Guardar(g) \/ FalharGuardar(g)
        BY <1>0, <2>2, <4>1 DEF Guardar, FalharGuardar, Envio
      <4>2. CASE Registrar(g)
        <5>1. linhas' = [linhas EXCEPT ![g] = Registrada]
          <6>1. linhas \in [AudienciasPossiveis -> Registros]
            BY <1>0, LinhasSaoRegistros
          <6>2. linhas[g] = SemLinha
            BY <4>2 DEF Registrar, Envio
          <6>3. SemLinha.erro = FALSE /\ SemLinha.colunas = {}
            BY Zenon DEF SemLinha
          <6>4. ComLinha(g) = [linhas EXCEPT ![g] =
                                   Linha("uploaded", linhas[g].erro, linhas[g].colunas)]
            BY <6>1, Escritas
          <6> QED BY <4>2, <6>2, <6>3, <6>4, Zenon DEF Registrar, Registrada
        <5> QED BY <1>0, <2>2, <4>2, <5>1 DEF Registrar, Envio
      <4>3. CASE FalharRegistrar(g) \/ PublicarUpload(g) \/ InterromperUpload(g)
        BY <1>0, <2>2, <4>3 DEF FalharRegistrar, PublicarUpload, InterromperUpload, Envio
      <4> QED BY <3>2, <4>1, <4>2, <4>3 DEF UploadNext
    <3>3. ASSUME ~UNCHANGED <<objetos, pedido>>
          PROVE  \E g \in AudienciasPossiveis : UploadNext(g) \/ InterromperUpload(g)
      <4>1. ~UNCHANGED vars
        BY <3>3 DEF vars, uploadVars
      <4>2. \A w : ~(Transcrever(w) \/ CairTranscritor(w))
        BY <3>3 DEF Transcrever, CairTranscritor, foraDaTranscricao, uploadVars
      <4>3. \A w : ~(Analisar(w) \/ CairAnalista(w))
        BY <3>3 DEF Analisar, CairAnalista, foraDaAnalise, uploadVars
      <4>4. \A n : ~(NotificadorNext(n) \/ CairNotificador(n))
        BY <3>3, NotificadorDeFora DEF foraDoAviso, uploadVars
      <4>5. ~Advogado
        BY <3>3, AdvogadoDeFora DEF foraDaCaixa, foraDoAviso, uploadVars
      <4> QED BY <4>1, <4>2, <4>3, <4>4, <4>5 DEF Next, Advogado
    <3> QED BY <3>1, <3>2, <3>3
  <2> QED BY <2>1, <2>2
<1>2. ASSUME NEW h \in AudienciasPossiveis, pedido[h] = "respondida", linhas[h] # SemLinha
      PROVE  pedido'[h] = "respondida" /\ linhas'[h] # SemLinha
  <2>1. pedido'[h] = "respondida"
    <3>1. \A g \in AudienciasPossiveis :
              UploadNext(g) \/ InterromperUpload(g) => pedido'[h] = pedido[h]
      BY <1>0, <1>2 DEF UploadNext, InterromperUpload, Guardar, FalharGuardar, Registrar,
                        FalharRegistrar, PublicarUpload
    <3>2. \A w : Transcrever(w) \/ CairTranscritor(w) => UNCHANGED pedido
      BY DEF Transcrever, CairTranscritor, foraDaTranscricao, uploadVars
    <3>3. \A w : Analisar(w) \/ CairAnalista(w) => UNCHANGED pedido
      BY DEF Analisar, CairAnalista, foraDaAnalise, uploadVars
    <3>4. \A n : NotificadorNext(n) \/ CairNotificador(n) => UNCHANGED pedido
      BY NotificadorDeFora DEF foraDoAviso, uploadVars
    <3>5. Advogado => UNCHANGED pedido
      BY AdvogadoDeFora DEF foraDaCaixa, foraDoAviso, uploadVars
    <3> QED BY <1>2, <3>1, <3>2, <3>3, <3>4, <3>5 DEF Next, Advogado, vars, uploadVars
  <2>2. linhas'[h] # SemLinha
    <3>1. CASE linhas' # linhas
      <4>1. PICK g \in AudienciasPossiveis, x \in Linhas : Escreve(g, x)
        BY <3>1, LinhaEscrita
      <4>2. x # SemLinha
        BY <4>1, LinhasDistintas DEF Escreve
      <4> QED BY <1>0, <1>2, <4>1, <4>2 DEF Escreve
    <3> QED BY <1>2, <3>1
  <2> QED BY <2>1, <2>2
<1>3. ASSUME NEW i \in 1 .. Len(uploaded'.itens)
      PROVE  /\ pedido'[uploaded'.itens[i]] = "respondida"
             /\ linhas'[uploaded'.itens[i]] # SemLinha
  <2>1. PICK h : h = uploaded'.itens[i]
    OBVIOUS
  <2>2. CASE i \in 1 .. Len(uploaded.itens)
    <3>1. h = uploaded.itens[i] /\ h \in AudienciasPossiveis
      BY <1>0, <2>1, <2>2, SegueT
    <3> QED BY <1>2, <2>1, <2>2, <3>1 DEF Envio
  <2>3. CASE i \notin 1 .. Len(uploaded.itens)
    <3>1. PICK g \in AudienciasPossiveis :
              /\ pedido[g] = "registrada"
              /\ pedido' = [pedido EXCEPT ![g] = "respondida"]
              /\ uploaded'.itens = Append(uploaded.itens, g)
              /\ UNCHANGED linhas
      BY <1>3, <2>3, PublicadaU
    <3>2. h = g
      BY <1>0, <1>3, <2>1, <2>3, <3>1, NoFim
    <3>3. linhas[h] # SemLinha
      BY <3>1, <3>2, LinhasDistintas DEF Envio
    <3> QED BY <1>0, <2>1, <3>1, <3>2, <3>3
  <2> QED BY <2>2, <2>3
<1> QED BY <1>1, <1>3 DEF Envio

LEMMA TranscricaoMantida ==
    ASSUME "duplicacao" \notin Falhas, Base, UmaVez, Envio, Transcricao, Analise, [Next]_vars
    PROVE  Transcricao'
<1>0. /\ uploaded.itens \in Seq(AudienciasPossiveis)
      /\ transcribed.itens \in Seq(AudienciasPossiveis)
      /\ linhas \in [AudienciasPossiveis -> Linhas]
      /\ linhas' \in [AudienciasPossiveis -> Linhas]
  BY LinhasMantidas DEF Base, TypeOK, Fluxos, Transcricao
<1>1. ASSUME NEW h \in AudienciasPossiveis
      PROVE  /\ linhas'[h] \notin {SemLinha, Registrada} => PassouT(h, DoMotor)'
             /\ linhas'[h] \notin {SemLinha} \cup AntesDoTexto => PassouT(h, DePublicar)'
  <2>1. CASE linhas'[h] = linhas[h]
    BY <2>1, SegueT DEF Transcricao
  <2>2. CASE linhas'[h] # linhas[h]
    <3>1. PICK g \in AudienciasPossiveis, x \in Linhas : Escreve(g, x)
      BY <2>2, LinhaEscrita
    <3>2. g = h /\ linhas'[h] = x
      BY <1>0, <2>2, <3>1 DEF Escreve
    <3>3. Escreve(h, x)
      BY <3>1, <3>2
    <3>4. CASE linhas[h] = SemLinha /\ x = Registrada
      BY <3>2, <3>4 DEF AntesDoTexto
    <3>5. CASE PassouT(h, DoMotor)' /\ (x # EmTranscricao => PassouT(h, DePublicar)')
      BY <3>2, <3>5 DEF AntesDoTexto
    <3>6. CASE linhas[h] \in {Transcrita, EmAnalise}
      <4>1. linhas[h] \notin {SemLinha, Registrada, EmTranscricao}
        BY <3>6, LinhasDistintas
      <4>2. PassouT(h, DoMotor) /\ PassouT(h, DePublicar)
        BY <4>1 DEF Transcricao, AntesDoTexto
      <4> QED BY <4>2, SegueT
    <3> QED BY <3>3, <3>4, <3>5, <3>6 DEF Escreve
  <2> QED BY <2>1, <2>2
<1>2. ASSUME NEW w \in Transcritores, lugarT'[w] = "publicar"
      PROVE  (linhas[T!Audiencia(w)] = Transcrita)'
  <2>1. PICK h : h = T!Audiencia(w)
    OBVIOUS
  <2>2. /\ loteT[w] # {} /\ h = T!Audiencia(w)'
        /\ lugarT[w] = "publicar" \/ T!Salvar(w)
    BY <1>2, <2>1, NoLugarT DEF T!Marcar, T!Publicar, Base, TypeOK
  <2>3. h \in AudienciasPossiveis /\ \A D : PassouT(h, D) <=> lugarT[w] \in D
    BY <2>1, <2>2, NaMaoT DEF UmaVez
  <2>4. linhas'[h] = Transcrita
    <3>1. CASE lugarT[w] = "publicar"
      <4>1. linhas[h] = Transcrita
        BY <2>1, <3>1 DEF Transcricao
      <4>2. PassouT(h, DePublicar) /\ ~PassouT(h, DeConfirmar)
        BY <2>3, <3>1 DEF DePublicar, DeConfirmar
      <4>3. linhas[h] # SemLinha
        BY <4>1, LinhasDistintas
      <4>4. CASE linhas' # linhas
        <5>1. PICK g \in AudienciasPossiveis, x \in Linhas : Escreve(g, x)
          BY <4>4, LinhaEscrita
        <5>2. g # h
          BY <4>2, <4>3, <5>1 DEF Escreve
        <5> QED BY <1>0, <2>3, <4>1, <5>1, <5>2 DEF Escreve
      <4> QED BY <4>1, <4>4
    <3>2. CASE lugarT[w] # "publicar"
      <4>1. T!Salvar(w)
        BY <2>2, <3>2
      <4>2. CASE linhas' # linhas
        <5>1. \E d \in Transcritores : Transcrever(d)
          <6>1. ~\E u \in AudienciasPossiveis : UploadNext(u) \/ InterromperUpload(u)
            BY <1>2, <3>2, UploadDeFora DEF foraDoUpload, transcricaoVars
          <6>2. ~\E a \in Analistas : Analisar(a) \/ CairAnalista(a)
            BY <1>2, <3>2 DEF Analisar, CairAnalista, foraDaAnalise, transcricaoVars
          <6>3. ~\E n \in Notificadores : NotificadorNext(n) \/ CairNotificador(n)
            BY <1>2, <3>2, NotificadorDeFora DEF foraDoAviso, transcricaoVars
          <6>4. ~Advogado
            BY <1>2, <3>2, AdvogadoDeFora DEF foraDaCaixa, foraDoAviso, transcricaoVars
          <6>5. ~\E d \in Transcritores : CairTranscritor(d)
            <7>1. lugarT \in [Transcritores -> T!Lugares]
              BY DEF Base, TypeOK
            <7> QED BY <1>2, <3>2, <7>1 DEF CairTranscritor, T!Cair
          <6>6. ~UNCHANGED vars
            BY <4>2 DEF vars
          <6> QED BY <6>1, <6>2, <6>3, <6>4, <6>5, <6>6 DEF Next, Advogado
        <5>2. Transcrever(w)
          BY <4>1, <5>1 DEF Transcrever, T!Passo
        <5>3. PICK g \in AudienciasPossiveis, x \in Linhas :
                  /\ g = T!Audiencia(w)
                  /\ linhas' = [linhas EXCEPT ![g] = x]
                  /\ x = Transcrita
          BY <1>2, <4>2, <5>2, EscritaT DEF Linhas, ComTexto, AntesDoTexto
        <5> QED BY <1>0, <2>1, <2>3, <5>3
      <4>3. CASE linhas' = linhas
        <5>1. linhas' = T!LinhasProntas(h)
          BY <2>1, <4>1 DEF T!Salvar
        <5>2. linhas'[h] = Linha("transcribed", FALSE, linhas[h].colunas \cup {"transcript"})
          <6>1. linhas \in [AudienciasPossiveis -> Registros]
            BY <1>0, LinhasSaoRegistros
          <6> QED BY <2>3, <5>1, <6>1, Escritas
        <5>3. linhas'[h].status = "transcribed"
          <6>1. \A c : Linha("transcribed", FALSE, c).status = "transcribed"
            BY Zenon DEF Linha
          <6> QED BY <5>2, <6>1, Zenon
        <5>4. linhas'[h] \in Linhas
          BY <1>0, <2>3
        <5> QED BY <5>3, <5>4, LinhasDistintas DEF Linhas, ComTexto, AntesDoTexto
      <4> QED BY <4>2, <4>3
    <3> QED BY <3>1, <3>2
  <2> QED BY <2>2, <2>4
<1>3. ASSUME NEW h \in AudienciasPossiveis, PassouT(h, DeConfirmar), linhas[h] \in ComTexto
      PROVE  PassouT(h, DeConfirmar)' /\ linhas'[h] \in ComTexto
  <2>1. PassouT(h, DeConfirmar)' /\ PassouT(h, DePublicar)
    BY <1>3, SegueT, PassouMenos
  <2>2. CASE linhas' # linhas
    <3>1. PICK g \in AudienciasPossiveis, x \in Linhas : Escreve(g, x)
      BY <2>2, LinhaEscrita
    <3>2. linhas[h] # SemLinha
      BY <1>3, LinhasDistintas DEF ComTexto
    <3>3. g = h => x \in ComTexto
      BY <2>1, <3>1, <3>2 DEF Escreve, ComTexto
    <3> QED BY <1>0, <1>3, <2>1, <3>1, <3>3 DEF Escreve
  <2> QED BY <1>3, <2>1, <2>2
<1>4. ASSUME NEW i \in 1 .. Len(transcribed'.itens)
      PROVE  (PassouT(transcribed.itens[i], DeConfirmar) /\ linhas[transcribed.itens[i]] \in ComTexto)'
  <2>1. PICK h : h = transcribed'.itens[i]
    OBVIOUS
  <2>2. PassouT(h, DeConfirmar)' /\ linhas'[h] \in ComTexto
    <3>1. CASE i \in 1 .. Len(transcribed.itens)
      <4>1. h = transcribed.itens[i] /\ h \in AudienciasPossiveis
        BY <1>0, <2>1, <3>1, SegueA
      <4> QED BY <1>3, <3>1, <4>1 DEF Transcricao
    <3>2. CASE i \notin 1 .. Len(transcribed.itens)
      <4>1. PICK w \in Transcritores, g \in AudienciasPossiveis :
                /\ lugarT[w] = "publicar" /\ g = T!Audiencia(w)
                /\ transcribed'.itens = Append(transcribed.itens, g)
                /\ UNCHANGED linhas
                /\ PassouT(g, DeConfirmar)'
        BY <1>4, <3>2, PublicadaT
      <4>2. h = g
        BY <1>0, <1>4, <2>1, <3>2, <4>1, NoFim
      <4> QED BY <4>1, <4>2 DEF Transcricao, ComTexto
    <3> QED BY <3>1, <3>2
  <2> QED BY <2>1, <2>2
<1> QED BY <1>0, <1>1, <1>2, <1>4 DEF Transcricao

LEMMA AnaliseMantida ==
    ASSUME "duplicacao" \notin Falhas, Base, UmaVez, Envio, Transcricao, Analise, [Next]_vars
    PROVE  Analise'
<1>0. /\ transcribed.itens \in Seq(AudienciasPossiveis)
      /\ analyzed.itens \in Seq(AudienciasPossiveis)
      /\ linhas \in [AudienciasPossiveis -> Linhas]
      /\ linhas' \in [AudienciasPossiveis -> Linhas]
  BY LinhasMantidas DEF Base, TypeOK, Fluxos, Transcricao
<1>1. ASSUME NEW h \in AudienciasPossiveis
      PROVE  /\ linhas'[h] \in {EmAnalise} \cup ComFim => PassouA(h, DoMotor)'
             /\ linhas'[h] \in ComFim => PassouA(h, DePublicar)'
  <2>1. CASE linhas'[h] = linhas[h]
    BY <2>1, SegueA DEF Analise
  <2>2. CASE linhas'[h] # linhas[h]
    <3>1. PICK g \in AudienciasPossiveis, x \in Linhas : Escreve(g, x)
      BY <2>2, LinhaEscrita
    <3>2. g = h /\ linhas'[h] = x
      BY <1>0, <2>2, <3>1 DEF Escreve
    <3>3. Escreve(h, x)
      BY <3>1, <3>2
    <3>4. CASE x \in {Registrada, EmTranscricao, SemTranscricao, Transcrita}
      <4>1. x \notin {EmAnalise, SemAnalise, Analisada}
        BY <3>4, LinhasDistintas
      <4> QED BY <3>2, <4>1 DEF ComFim
    <3>5. CASE PassouA(h, DoMotor)' /\ (x # EmAnalise => PassouA(h, DePublicar)')
      <4>1. EmAnalise \notin ComFim
        BY LinhasDistintas DEF ComFim
      <4> QED BY <3>2, <3>5, <4>1
    <3> QED BY <3>3, <3>4, <3>5 DEF Escreve
  <2> QED BY <2>1, <2>2
<1>2. ASSUME NEW w \in Analistas, lugarA'[w] = "publicar"
      PROVE  (linhas[A!Audiencia(w)] = Analisada)'
  <2>1. PICK h : h = A!Audiencia(w)
    OBVIOUS
  <2>2. /\ loteA[w] # {} /\ h = A!Audiencia(w)'
        /\ lugarA[w] = "publicar" \/ A!Salvar(w)
    BY <1>2, <2>1, NoLugarA DEF A!Marcar, A!Publicar, Base, TypeOK
  <2>3. /\ h \in AudienciasPossiveis
        /\ \A D : PassouA(h, D) <=> lugarA[w] \in D
        /\ PassouT(h, DePublicar)
    <3>1. /\ h = transcribed.itens[AP!Cabeca(loteA[w])]
          /\ AP!Cabeca(loteA[w]) \in 1 .. Len(transcribed.itens)
          /\ h \in AudienciasPossiveis
          /\ \A D : PassouA(h, D) <=> lugarA[w] \in D
      BY <2>1, <2>2, NaMaoA DEF UmaVez
    <3>2. PassouT(h, DeConfirmar)
      BY <3>1 DEF Transcricao
    <3> QED BY <3>1, <3>2, PassouMenos
  <2>4. linhas'[h] = Analisada
    <3>1. CASE lugarA[w] = "publicar"
      <4>1. linhas[h] = Analisada
        BY <2>1, <3>1 DEF Analise
      <4>2. PassouA(h, DePublicar)
        BY <2>3, <3>1 DEF DePublicar
      <4>3. linhas[h] # SemLinha
        BY <4>1, LinhasDistintas
      <4>4. CASE linhas' # linhas
        <5>1. PICK g \in AudienciasPossiveis, x \in Linhas : Escreve(g, x)
          BY <4>4, LinhaEscrita
        <5>2. g # h
          BY <2>3, <4>2, <4>3, <5>1 DEF Escreve
        <5> QED BY <1>0, <2>3, <4>1, <5>1, <5>2 DEF Escreve
      <4> QED BY <4>1, <4>4
    <3>2. CASE lugarA[w] # "publicar"
      <4>1. A!Salvar(w)
        BY <2>2, <3>2
      <4>2. CASE linhas' # linhas
        <5>1. \E d \in Analistas : Analisar(d)
          <6>1. ~\E u \in AudienciasPossiveis : UploadNext(u) \/ InterromperUpload(u)
            BY <1>2, <3>2, UploadDeFora DEF foraDoUpload, analiseVars
          <6>2. ~\E a \in Transcritores : Transcrever(a) \/ CairTranscritor(a)
            BY <1>2, <3>2 DEF Transcrever, CairTranscritor, foraDaTranscricao, analiseVars
          <6>3. ~\E n \in Notificadores : NotificadorNext(n) \/ CairNotificador(n)
            BY <1>2, <3>2, NotificadorDeFora DEF foraDoAviso, analiseVars
          <6>4. ~Advogado
            BY <1>2, <3>2, AdvogadoDeFora DEF foraDaCaixa, foraDoAviso, analiseVars
          <6>5. ~\E d \in Analistas : CairAnalista(d)
            <7>1. lugarA \in [Analistas -> A!Lugares]
              BY DEF Base, TypeOK
            <7> QED BY <1>2, <3>2, <7>1 DEF CairAnalista, A!Cair
          <6>6. ~UNCHANGED vars
            BY <4>2 DEF vars
          <6> QED BY <6>1, <6>2, <6>3, <6>4, <6>5, <6>6 DEF Next, Advogado
        <5>2. Analisar(w)
          BY <4>1, <5>1 DEF Analisar, A!Passo
        <5>3. PICK g \in AudienciasPossiveis, x \in Linhas :
                  /\ g = A!Audiencia(w)
                  /\ linhas' = [linhas EXCEPT ![g] = x]
                  /\ x = Analisada
          BY <1>2, <4>2, <5>2, EscritaA DEF Linhas, ComTexto
        <5> QED BY <1>0, <2>1, <2>3, <5>3
      <4>3. CASE linhas' = linhas
        <5>1. linhas' = A!LinhasProntas(h)
          BY <2>1, <4>1 DEF A!Salvar
        <5>2. linhas'[h] = Linha("analyzed", FALSE, linhas[h].colunas \cup {"summary"})
          <6>1. linhas \in [AudienciasPossiveis -> Registros]
            BY <1>0, LinhasSaoRegistros
          <6> QED BY <2>3, <5>1, <6>1, Escritas
        <5>3. linhas'[h].status = "analyzed"
          <6>1. \A c : Linha("analyzed", FALSE, c).status = "analyzed"
            BY Zenon DEF Linha
          <6> QED BY <5>2, <6>1, Zenon
        <5>4. linhas'[h] \in Linhas
          BY <1>0, <2>3
        <5> QED BY <5>3, <5>4, LinhasDistintas DEF Linhas, ComTexto, AntesDoTexto
      <4> QED BY <4>2, <4>3
    <3> QED BY <3>1, <3>2
  <2> QED BY <2>2, <2>4
<1>3. ASSUME NEW h \in AudienciasPossiveis, PassouA(h, DeConfirmar), linhas[h] = Analisada
      PROVE  PassouA(h, DeConfirmar)' /\ linhas'[h] = Analisada
  <2>1. PassouA(h, DeConfirmar)' /\ PassouA(h, DePublicar)
    BY <1>3, SegueA, PassouMenos
  <2>2. CASE linhas' # linhas
    <3>1. PICK g \in AudienciasPossiveis, x \in Linhas : Escreve(g, x)
      BY <2>2, LinhaEscrita
    <3>2. linhas[h] \notin {SemLinha} \cup AntesDoTexto
      BY <1>3, LinhasDistintas DEF AntesDoTexto
    <3>3. g # h
      BY <2>1, <3>1, <3>2 DEF Escreve
    <3> QED BY <1>0, <1>3, <2>1, <3>1, <3>3 DEF Escreve
  <2> QED BY <1>3, <2>1, <2>2
<1>4. ASSUME NEW i \in 1 .. Len(analyzed'.itens)
      PROVE  (PassouA(analyzed.itens[i], DeConfirmar) /\ linhas[analyzed.itens[i]] = Analisada)'
  <2>1. PICK h : h = analyzed'.itens[i]
    OBVIOUS
  <2>2. PassouA(h, DeConfirmar)' /\ linhas'[h] = Analisada
    <3>1. CASE i \in 1 .. Len(analyzed.itens)
      <4>1. h = analyzed.itens[i] /\ h \in AudienciasPossiveis
        BY <1>0, <2>1, <3>1, SegueN
      <4> QED BY <1>3, <3>1, <4>1 DEF Analise
    <3>2. CASE i \notin 1 .. Len(analyzed.itens)
      <4>1. PICK w \in Analistas, g \in AudienciasPossiveis :
                /\ lugarA[w] = "publicar" /\ g = A!Audiencia(w)
                /\ analyzed'.itens = Append(analyzed.itens, g)
                /\ UNCHANGED linhas
                /\ PassouA(g, DeConfirmar)'
        BY <1>4, <3>2, PublicadaA
      <4>2. h = g
        BY <1>0, <1>4, <2>1, <3>2, <4>1, NoFim
      <4> QED BY <4>1, <4>2 DEF Analise
    <3> QED BY <3>1, <3>2
  <2> QED BY <2>1, <2>2
<1> QED BY <1>1, <1>2, <1>4 DEF Analise

(* The lawyer reads alerts, and neither adds nor removes one.              *)
LEMMA SoLeitura ==
    ASSUME Base, Advogado, NEW h \in AudienciasPossiveis
    PROVE  /\ Len(alertas'[h]) = Len(alertas[h])
           /\ alertas'[h] = << >> <=> alertas[h] = << >>
<1>0. alertas \in [AudienciasPossiveis -> Seq(BOOLEAN)]
  BY DEF Base, TypeOK
<1>1. ASSUME NEW g \in AudienciasPossiveis, MarcarLida(g)
      PROVE  Len(alertas'[h]) = Len(alertas[h]) /\ alertas'[h] \in Seq(BOOLEAN)
  <2>1. PICK i \in 1 .. Len(alertas[g]) : alertas' = [alertas EXCEPT ![g][i] = TRUE]
    BY <1>1 DEF MarcarLida
  <2>2. PICK s : s = [alertas[g] EXCEPT ![i] = TRUE]
    OBVIOUS
  <2>3. s \in Seq(BOOLEAN) /\ Len(s) = Len(alertas[g])
    BY <1>0, <2>1, <2>2
  <2>4. alertas' = [alertas EXCEPT ![g] = s]
    BY <1>0, <2>1, <2>2
  <2> QED BY <1>0, <2>3, <2>4
<1>2. ASSUME NEW t \in Tenants, MarcarTodasLidas(t)
      PROVE  Len(alertas'[h]) = Len(alertas[h]) /\ alertas'[h] \in Seq(BOOLEAN)
  <2>1. PICK s : s = [i \in 1 .. Len(alertas[h]) |-> TRUE]
    OBVIOUS
  <2>2. s \in Seq(BOOLEAN) /\ Len(s) = Len(alertas[h])
    BY <1>0, <2>1
  <2>3. alertas'[h] = s \/ alertas'[h] = alertas[h]
    BY <1>2, <2>1 DEF MarcarTodasLidas
  <2> QED BY <1>0, <2>2, <2>3
<1>3. Len(alertas'[h]) = Len(alertas[h]) /\ alertas'[h] \in Seq(BOOLEAN)
  <2>1. ASSUME NEW t \in Tenants, SalvarPreferencias(t) PROVE UNCHANGED alertas
    BY <2>1 DEF SalvarPreferencias
  <2> QED BY <1>0, <1>1, <1>2, <2>1 DEF Advogado
<1>4. \A s \in Seq(BOOLEAN) : s = << >> <=> Len(s) = 0
  OBVIOUS
<1> QED BY <1>0, <1>3, <1>4

LEMMA AvisoMantido ==
    ASSUME "duplicacao" \notin Falhas, Base, UmaVez, Aviso, [Next]_vars
    PROVE  /\ Aviso'
           /\ \A h \in AudienciasPossiveis : alertas[h] # << >> => alertas'[h] # << >>
<1>0. alertas \in [AudienciasPossiveis -> Seq(BOOLEAN)]
  BY DEF Base, TypeOK
<1>1. ASSUME NEW h \in AudienciasPossiveis
      PROVE  /\ alertas'[h] # << >> => PassouN(h, DeConfirmar)'
             /\ Len(alertas'[h]) <= 1
             /\ alertas[h] # << >> => alertas'[h] # << >>
  <2>1. CASE alertas' = alertas
    BY <2>1, SegueN DEF Aviso
  <2>2. CASE Advogado
    BY <2>2, SoLeitura, SegueN DEF Aviso
  <2>3. CASE ~Advogado /\ alertas' # alertas
    <3>1. PICK g \in AudienciasPossiveis :
              /\ alertas' = [alertas EXCEPT ![g] = Append(alertas[g], FALSE)]
              /\ ~PassouN(g, DeConfirmar)
              /\ PassouN(g, DeConfirmar)'
      BY <2>3, AlertaCriado
    <3>2. CASE h # g
      <4>1. alertas'[h] = alertas[h]
        BY <1>0, <3>1, <3>2
      <4> QED BY <4>1, SegueN DEF Aviso
    <3>3. CASE h = g
      <4>1. alertas[h] = << >>
        BY <3>1, <3>3 DEF Aviso
      <4>2. alertas'[h] = Append(<< >>, FALSE)
        BY <1>0, <3>1, <3>3, <4>1
      <4>3. Len(Append(<< >>, FALSE)) = 1
        OBVIOUS
      <4> QED BY <3>1, <3>3, <4>1, <4>2, <4>3
    <3> QED BY <3>2, <3>3
  <2> QED BY <2>1, <2>2, <2>3
<1> QED BY <1>1 DEF Aviso

LEMMA AcrescentadaCheia == \A s \in Seq(BOOLEAN) : Append(s, FALSE) # << >>
<1> TAKE s \in Seq(BOOLEAN)
<1>1. Len(Append(s, FALSE)) = Len(s) + 1 /\ Len(s) \in Nat
  OBVIOUS
<1>2. \A z : z = << >> => Len(z) = 0
  OBVIOUS
<1>3. Len(Append(s, FALSE)) # 0
  BY <1>1
<1> QED BY <1>2, <1>3, Zenon

(* An alert is never taken back.                                           *)
LEMMA AlertaFica ==
    ASSUME Base, [Next]_vars, NEW h \in AudienciasPossiveis, alertas[h] # << >>
    PROVE  alertas'[h] # << >>
<1>0. alertas \in [AudienciasPossiveis -> Seq(BOOLEAN)]
  BY DEF Base, TypeOK
<1>1. CASE Advogado
  BY <1>1, SoLeitura
<1>2. CASE ~Advogado /\ alertas' # alertas
  <2>1. PICK g \in AudienciasPossiveis :
            alertas' = [alertas EXCEPT ![g] = Append(alertas[g], FALSE)]
    BY <1>2, QuemAlerta
  <2>2. alertas'[h] = alertas[h] \/ alertas'[h] = Append(alertas[h], FALSE)
    BY <1>0, <2>1
  <2> QED BY <1>0, <2>2, AcrescentadaCheia
<1> QED BY <1>1, <1>2

(* What was handed on stays handed on.                                     *)
LEMMA SegueEmDia ==
    ASSUME Base, [Next]_vars, NEW h \in AudienciasPossiveis
    PROVE  /\ Publicada(transcribed, h) => Publicada(transcribed', h)
           /\ Publicada(analyzed, h) => Publicada(analyzed', h)
           /\ EmDia(h) => EmDia(h)'
<1>1. alertar \in [Tenants -> {"padrao", "sim", "nao"}] /\ TenantDe[h] \in Tenants
  BY AudienciasAssumption DEF Base, TypeOK
<1>2. alertar'[TenantDe[h]] = "padrao" => alertar[TenantDe[h]] = "padrao"
  <2>1. CASE UNCHANGED alertar
    BY <2>1
  <2>2. CASE ~UNCHANGED alertar
    <3>1. PICK t \in Tenants : SalvarPreferencias(t)
      <4>1. \A u \in AudienciasPossiveis : ~(UploadNext(u) \/ InterromperUpload(u))
        BY <2>2, UploadDeFora DEF foraDoUpload, avisoVars
      <4>2. \A w : ~(Transcrever(w) \/ CairTranscritor(w))
        BY <2>2 DEF Transcrever, CairTranscritor, foraDaTranscricao, avisoVars
      <4>3. \A w : ~(Analisar(w) \/ CairAnalista(w))
        BY <2>2 DEF Analisar, CairAnalista, foraDaAnalise, avisoVars
      <4>4. \A n : ~(NotificadorNext(n) \/ CairNotificador(n))
        BY <2>2, NotificadorDeFora
      <4>5. \A t : ~MarcarTodasLidas(t) /\ ~MarcarLida(t)
        BY <2>2 DEF MarcarTodasLidas, MarcarLida
      <4>6. ~UNCHANGED vars
        BY <2>2 DEF vars, avisoVars
      <4> QED BY <4>1, <4>2, <4>3, <4>4, <4>5, <4>6 DEF Next
    <3> QED BY <1>1, <3>1 DEF SalvarPreferencias
  <2> QED BY <2>1, <2>2
<1>3. EmDia(h) => EmDia(h)'
  BY <1>2, AlertaFica DEF EmDia
<1>4. Publicada(transcribed, h) => Publicada(transcribed', h)
  BY SegueA DEF Publicada
<1>5. Publicada(analyzed, h) => Publicada(analyzed', h)
  BY SegueN DEF Publicada
<1> QED BY <1>3, <1>4, <1>5

(* A handler that comes to "confirmar" has just handed its hearing on.     *)
LEMMA ConfirmarEmDia ==
    ASSUME Base, Entregas, [Next]_vars
    PROVE  /\ \A w \in Transcritores :
                  (lugarT[w] = "confirmar" => Publicada(transcribed, T!Audiencia(w)))'
           /\ \A w \in Analistas :
                  (lugarA[w] = "confirmar" => Publicada(analyzed, A!Audiencia(w)))'
           /\ \A n \in Notificadores : (lugarN[n] = "confirmar" => EmDia(AudienciaDe(n)))'
<1>0. /\ transcribed.itens \in Seq(AudienciasPossiveis)
      /\ analyzed.itens \in Seq(AudienciasPossiveis)
      /\ lugarT \in [Transcritores -> T!Lugares]
      /\ lugarA \in [Analistas -> A!Lugares]
      /\ lugarN \in [Notificadores -> {"livre", "criar", "confirmar"}]
      /\ alertas \in [AudienciasPossiveis -> Seq(BOOLEAN)]
  BY DEF Base, TypeOK, Fluxos
<1>1. ASSUME NEW w \in Transcritores, lugarT'[w] = "confirmar"
      PROVE  Publicada(transcribed, T!Audiencia(w))'
  <2>1. PICK h : h = T!Audiencia(w)
    OBVIOUS
  <2>2. /\ loteT[w] # {} /\ h = T!Audiencia(w)'
        /\ lugarT[w] = "confirmar" \/ T!Publicar(w)
    BY <1>0, <1>1, <2>1, NoLugarT DEF T!Marcar, T!Salvar
  <2>3. h \in AudienciasPossiveis
    BY <2>1, <2>2, DaMaoT
  <2>4. CASE lugarT[w] = "confirmar"
    <3>1. Publicada(transcribed', h)
      BY <2>1, <2>3, <2>4, SegueEmDia DEF Entregas
    <3> QED BY <2>2, <3>1 DEF Publicada
  <2>5. CASE lugarT[w] # "confirmar"
    <3>1. transcribed' \in AP!Publicacoes(transcribed, h, TRUE)
      BY <2>1, <2>2, <2>5, MesmasPublicacoes DEF T!Publicar
    <3>2. UNCHANGED loteA
      <4>1. ~\E a \in Analistas : Analisar(a) \/ CairAnalista(a)
        BY <1>1, <2>5 DEF Analisar, CairAnalista, foraDaAnalise, transcricaoVars
      <4>2. \A u \in AudienciasPossiveis :
                UploadNext(u) \/ InterromperUpload(u) => UNCHANGED loteA
        BY UploadDeFora DEF foraDoUpload, analiseVars
      <4>3. \A d : Transcrever(d) \/ CairTranscritor(d) => UNCHANGED loteA
        BY DEF Transcrever, CairTranscritor, foraDaTranscricao, analiseVars
      <4>4. \A n : NotificadorNext(n) \/ CairNotificador(n) => UNCHANGED loteA
        BY NotificadorDeFora DEF foraDoAviso, analiseVars
      <4>5. Advogado => UNCHANGED loteA
        BY AdvogadoDeFora DEF foraDaCaixa, foraDoAviso, analiseVars
      <4> QED BY <4>1, <4>2, <4>3, <4>4, <4>5 DEF Next, Advogado, vars, analiseVars
    <3>3. Publicada(transcribed', h)
      BY <2>3, <3>1, <3>2, AP!PublicacoesPreserva, FluxoAssumption DEF Base, Publicada
    <3> QED BY <2>2, <3>3 DEF Publicada
  <2> QED BY <2>4, <2>5
<1>2. ASSUME NEW w \in Analistas, lugarA'[w] = "confirmar"
      PROVE  Publicada(analyzed, A!Audiencia(w))'
  <2>1. PICK h : h = A!Audiencia(w)
    OBVIOUS
  <2>2. /\ loteA[w] # {} /\ h = A!Audiencia(w)'
        /\ lugarA[w] = "confirmar" \/ A!Publicar(w)
    BY <1>0, <1>2, <2>1, NoLugarA DEF A!Marcar, A!Salvar
  <2>3. h \in AudienciasPossiveis
    BY <2>1, <2>2, DaMaoA
  <2>4. CASE lugarA[w] = "confirmar"
    <3>1. Publicada(analyzed', h)
      BY <2>1, <2>3, <2>4, SegueEmDia DEF Entregas
    <3> QED BY <2>2, <3>1 DEF Publicada
  <2>5. CASE lugarA[w] # "confirmar"
    <3>1. analyzed' \in NP!Publicacoes(analyzed, h, TRUE)
      BY <2>1, <2>2, <2>5, MesmasPublicacoes DEF A!Publicar
    <3>2. UNCHANGED loteN
      <4>1. ~\E n \in Notificadores : NotificadorNext(n) \/ CairNotificador(n)
        BY <1>2, <2>5, NotificadorDeFora DEF foraDoAviso, analiseVars
      <4>2. \A u \in AudienciasPossiveis :
                UploadNext(u) \/ InterromperUpload(u) => UNCHANGED loteN
        BY UploadDeFora DEF foraDoUpload, avisoVars
      <4>3. \A d : Transcrever(d) \/ CairTranscritor(d) => UNCHANGED loteN
        BY DEF Transcrever, CairTranscritor, foraDaTranscricao, avisoVars
      <4>4. \A a : Analisar(a) \/ CairAnalista(a) => UNCHANGED loteN
        BY DEF Analisar, CairAnalista, foraDaAnalise, avisoVars
      <4>5. Advogado => UNCHANGED loteN
        BY AdvogadoDeFora DEF foraDaCaixa
      <4> QED BY <4>1, <4>2, <4>3, <4>4, <4>5 DEF Next, Advogado, vars, avisoVars
    <3>3. Publicada(analyzed', h)
      BY <2>3, <3>1, <3>2, NP!PublicacoesPreserva, FluxoAssumption DEF Base, Publicada
    <3> QED BY <2>2, <3>3 DEF Publicada
  <2> QED BY <2>4, <2>5
<1>3. ASSUME NEW n \in Notificadores, lugarN'[n] = "confirmar"
      PROVE  EmDia(AudienciaDe(n))'
  <2>1. PICK h : h = AudienciaDe(n)
    OBVIOUS
  <2>2. /\ loteN[n] # {} /\ h = AudienciaDe(n)'
        /\ lugarN[n] = "confirmar" \/ Decidir(n) \/ CriarAlerta(n)
    BY <1>3, <2>1, NoLugarN
  <2>3. h \in AudienciasPossiveis
    BY <2>1, <2>2, DaMaoN
  <2>4. CASE lugarN[n] = "confirmar"
    <3>1. EmDia(h)'
      BY <2>1, <2>3, <2>4, SegueEmDia DEF Entregas
    <3> QED BY <2>2, <3>1 DEF EmDia
  <2>5. CASE Decidir(n)
    <3>1. FALSE \in AlertarLido(TenantDe[h])
      <4>1. PICK b \in AlertarLido(TenantDe[h]) :
                lugarN' = [lugarN EXCEPT ![n] = IF b THEN "criar" ELSE "confirmar"]
        BY <2>1, <2>5 DEF Decidir
      <4>2. ~b
        BY <1>0, <1>3, <4>1
      <4>3. b \in BOOLEAN
        BY <4>1 DEF AlertarLido
      <4> QED BY <4>1, <4>2, <4>3
    <3>2. alertar[TenantDe[h]] = "nao"
      BY <3>1 DEF AlertarLido
    <3>3. alertar' = alertar
      BY <2>5 DEF Decidir
    <3>4. EmDia(h)'
      BY <3>2, <3>3 DEF EmDia
    <3> QED BY <2>2, <3>4 DEF EmDia
  <2>6. CASE CriarAlerta(n)
    <3>1. alertas'[h] = Append(alertas[h], FALSE)
      BY <1>0, <2>1, <2>3, <2>6 DEF CriarAlerta, ComAlerta
    <3>2. EmDia(h)'
      BY <1>0, <2>3, <3>1, AcrescentadaCheia DEF EmDia
    <3> QED BY <2>2, <3>2 DEF EmDia
  <2> QED BY <2>2, <2>4, <2>5, <2>6
<1> QED BY <1>1, <1>2, <1>3

LEMMA EntregasMantidas ==
    ASSUME Base, Entregas, [Next]_vars
    PROVE  Entregas'
<1>0. /\ uploaded.itens \in Seq(AudienciasPossiveis)
      /\ transcribed.itens \in Seq(AudienciasPossiveis)
      /\ analyzed.itens \in Seq(AudienciasPossiveis)
  BY DEF Base, TypeOK, Fluxos
<1>1. \A i \in uploaded'.confirmadas :
          \E j \in 1 .. Len(transcribed'.itens) : transcribed'.itens[j] = uploaded'.itens[i]
  <2> TAKE i \in uploaded'.confirmadas
  <2>1. PICK h : h = uploaded.itens[i]
    OBVIOUS
  <2>2. i \in 1 .. Len(uploaded.itens) /\ Publicada(transcribed, h)
    <3>1. CASE i \in uploaded.confirmadas
      <4>1. i \in 1 .. Len(uploaded.itens)
        BY <3>1, TP!ConfirmadasNoFluxo, FluxoAssumption DEF Base
      <4> QED BY <2>1, <3>1, <4>1 DEF Entregas, ConfirmadaSegueAdiante, Segue, Publicada
    <3>2. CASE i \notin uploaded.confirmadas
      <4>1. PICK w \in Transcritores :
                lugarT[w] = "confirmar" /\ loteT[w] # {} /\ i = TP!Cabeca(loteT[w])
        BY <3>2, PassoT, TP!NovaConfirmada, FluxoAssumption DEF Base
      <4> QED BY <2>1, <4>1, DaMaoT DEF Entregas
    <3> QED BY <3>1, <3>2
  <2>3. uploaded'.itens[i] = h /\ h \in AudienciasPossiveis
    BY <1>0, <2>1, <2>2, SegueT
  <2> QED BY <2>2, <2>3, SegueEmDia DEF Publicada
<1>2. \A i \in transcribed'.confirmadas :
          \E j \in 1 .. Len(analyzed'.itens) : analyzed'.itens[j] = transcribed'.itens[i]
  <2> TAKE i \in transcribed'.confirmadas
  <2>1. PICK h : h = transcribed.itens[i]
    OBVIOUS
  <2>2. i \in 1 .. Len(transcribed.itens) /\ Publicada(analyzed, h)
    <3>1. CASE i \in transcribed.confirmadas
      <4>1. i \in 1 .. Len(transcribed.itens)
        BY <3>1, AP!ConfirmadasNoFluxo, FluxoAssumption DEF Base
      <4> QED BY <2>1, <3>1, <4>1 DEF Entregas, ConfirmadaSegueAdiante, Segue, Publicada
    <3>2. CASE i \notin transcribed.confirmadas
      <4>1. PICK w \in Analistas :
                lugarA[w] = "confirmar" /\ loteA[w] # {} /\ i = AP!Cabeca(loteA[w])
        BY <3>2, PassoA, AP!NovaConfirmada, FluxoAssumption DEF Base
      <4> QED BY <2>1, <4>1, DaMaoA DEF Entregas
    <3> QED BY <3>1, <3>2
  <2>3. transcribed'.itens[i] = h /\ h \in AudienciasPossiveis
    BY <1>0, <2>1, <2>2, SegueA
  <2> QED BY <2>2, <2>3, SegueEmDia DEF Publicada
<1>3. \A i \in analyzed'.confirmadas : EmDia(analyzed.itens[i])'
  <2> TAKE i \in analyzed'.confirmadas
  <2>1. PICK h : h = analyzed.itens[i]
    OBVIOUS
  <2>2. i \in 1 .. Len(analyzed.itens) /\ EmDia(h)
    <3>1. CASE i \in analyzed.confirmadas
      <4>1. i \in 1 .. Len(analyzed.itens)
        BY <3>1, NP!ConfirmadasNoFluxo, FluxoAssumption DEF Base
      <4> QED BY <2>1, <3>1, <4>1 DEF Entregas, ConfirmadaSegueAdiante, EmDia
    <3>2. CASE i \notin analyzed.confirmadas
      <4>1. PICK n \in Notificadores :
                lugarN[n] = "confirmar" /\ loteN[n] # {} /\ i = NP!Cabeca(loteN[n])
        BY <3>2, PassoN, NP!NovaConfirmada, FluxoAssumption DEF Base
      <4> QED BY <2>1, <4>1, DaMaoN DEF Entregas
    <3> QED BY <3>1, <3>2
  <2>3. analyzed'.itens[i] = h /\ h \in AudienciasPossiveis
    BY <1>0, <2>1, <2>2, SegueN
  <2>4. EmDia(h)'
    BY <2>2, <2>3, SegueEmDia
  <2> QED BY <2>3, <2>4 DEF EmDia
<1>4. ConfirmadaSegueAdiante'
  BY <1>1, <1>2, <1>3 DEF ConfirmadaSegueAdiante, Segue, EmDia
<1> QED BY <1>4, ConfirmarEmDia DEF Entregas

-----------------------------------------------------------------------------
LEMMA AudInicial == Init => AudInv
<1> SUFFICES ASSUME Init PROVE AudInv
  OBVIOUS
<1>0. FluxoVazio.itens = << >> /\ FluxoVazio.confirmadas = {} /\ Len(<< >>) = 0
  BY DEF FluxoVazio
<1>1. TP!Invariante /\ AP!Invariante /\ NP!Invariante
  <2>1. TP!FluxoVazio = FluxoVazio /\ AP!FluxoVazio = FluxoVazio /\ NP!FluxoVazio = FluxoVazio
    BY DEF FluxoVazio, TP!FluxoVazio, AP!FluxoVazio, NP!FluxoVazio
  <2>2. TP!Init /\ AP!Init /\ NP!Init
    BY <2>1 DEF Init, TP!Init, AP!Init, NP!Init
  <2>3. TP!Invariante
    BY <2>2, TP!InvarianteInicial, FluxoAssumption
  <2>4. AP!Invariante
    BY <2>2, AP!InvarianteInicial, FluxoAssumption
  <2>5. NP!Invariante
    BY <2>2, NP!InvarianteInicial, FluxoAssumption
  <2> QED BY <2>3, <2>4, <2>5
<1>2. linhas \in [AudienciasPossiveis -> Registros] /\ linhas \in [AudienciasPossiveis -> Linhas]
  <2>1. SemLinha \in Linhas
    BY DEF Linhas
  <2> QED BY <2>1, LinhasSaoRegistros DEF Init
<1>3. TypeOK
  <2>1. /\ uploaded \in Fluxos(AudienciasPossiveis)
        /\ transcribed \in Fluxos(AudienciasPossiveis)
        /\ analyzed \in Fluxos(AudienciasPossiveis)
        /\ loteT \in [Transcritores -> SUBSET Nat]
        /\ loteA \in [Analistas -> SUBSET Nat]
        /\ loteN \in [Notificadores -> SUBSET Nat]
    BY <1>1 DEF TP!Invariante, TP!TypeOK, TP!Fluxos, AP!Invariante, AP!TypeOK, AP!Fluxos,
                NP!Invariante, NP!TypeOK, NP!Fluxos, Fluxos
  <2>2. << >> \in Seq(BOOLEAN)
    OBVIOUS
  <2> QED BY <1>2, <2>1, <2>2 DEF Init, TypeOK, Registros, Fases, T!Lugares, A!Lugares
<1>4. Base
  BY <1>1, <1>3 DEF Base, Init, TP!Ocupados, AP!Ocupados, NP!Ocupados
<1>5. UmaVez
  BY <1>0 DEF Init, UmaVez, TP!SemRepeticao, AP!SemRepeticao, NP!SemRepeticao
<1>6. Envio
  BY <1>0 DEF Init, Envio
<1>7. Transcricao
  BY <1>0, <1>2 DEF Init, Transcricao
<1>8. Analise
  <2>1. SemLinha \notin {EmAnalise} \cup ComFim
    BY LinhasDistintas DEF ComFim
  <2> QED BY <1>0, <2>1 DEF Init, Analise, ComFim
<1>9. Aviso
  BY <1>0 DEF Init, Aviso
<1>10. Entregas
  BY <1>0 DEF Init, Entregas, ConfirmadaSegueAdiante, Segue
<1> QED BY <1>4, <1>5, <1>6, <1>7, <1>8, <1>9, <1>10 DEF AudInv

(* The parts that need no assumption on what may fail.                     *)
LEMMA EntregasSempre == Spec => [](Base /\ Entregas)
<1>1. Init => Base /\ Entregas
  BY AudInicial DEF AudInv
<1>2. (Base /\ Entregas) /\ [Next]_vars => (Base /\ Entregas)'
  BY BaseMantida, EntregasMantidas
<1> QED BY <1>1, <1>2, PTL DEF Spec

LEMMA AudMantido == "duplicacao" \notin Falhas /\ AudInv /\ [Next]_vars => AudInv'
BY BaseMantida, UmaVezMantida, EnvioMantido, TranscricaoMantida, AnaliseMantida, AvisoMantido,
   EntregasMantidas DEF AudInv

LEMMA AudSempre ==
    ASSUME "duplicacao" \notin Falhas
    PROVE  Spec => []AudInv
<1>1. AudInv /\ [Next]_vars => AudInv'
  BY AudMantido
<1> QED BY <1>1, AudInicial, PTL DEF Spec

(* Each of the eight rows says what it holds.                              *)
LEMMA LinhasDizem ==
    \A l \in Linhas :
        /\ l.erro <=> l.status = "failed"
        /\ "summary" \in l.colunas <=> l.status = "analyzed"
        /\ l.status \in {"transcribed", "analyzing", "analyzed"} => "transcript" \in l.colunas
        /\ l.status \in {"", "uploaded", "transcribing"} => l.colunas = {}
<1>1. /\ ~SemLinha.erro /\ ~Registrada.erro /\ ~EmTranscricao.erro /\ SemTranscricao.erro
      /\ ~Transcrita.erro /\ ~EmAnalise.erro /\ SemAnalise.erro /\ ~Analisada.erro
  BY ZenonT(60) DEF SemLinha, Registrada, EmTranscricao, SemTranscricao, Transcrita,
                    EmAnalise, SemAnalise, Analisada, Linha
<1> QED BY <1>1, LinhasDistintas DEF Linhas, AntesDoTexto, ComTexto

-----------------------------------------------------------------------------
(***************************************************************************)
(* The variables keep their types: the handlers stay at their places, a    *)
(* request of upload at one of its phases, every row at one of its states. *)
(***************************************************************************)
THEOREM TiposDasAudiencias == Spec => []TypeOK
<1>1. Base /\ Entregas => TypeOK
  BY DEF Base
<1> QED BY <1>1, EntregasSempre, PTL

(***************************************************************************)
(* The status of a hearing tells what its row holds, whatever the number   *)
(* of replicas of the two workers that write it without looking, and       *)
(* wherever their handlers stop.                                           *)
(***************************************************************************)
THEOREM StatusSempreDiz ==
    ASSUME "duplicacao" \notin Falhas
    PROVE  Spec => []StatusDizOQueHa
<1>1. AudInv => StatusDizOQueHa
  BY LinhasDizem DEF AudInv, Transcricao, StatusDizOQueHa
<1> QED BY <1>1, AudSempre, PTL

(***************************************************************************)
(* No hearing has two alerts, although the table of alerts has no key that *)
(* says so: its one message is handled once.                               *)
(***************************************************************************)
THEOREM NoMaximoUmAlerta ==
    ASSUME "duplicacao" \notin Falhas
    PROVE  Spec => []UmAlertaPorAudiencia
<1>1. AudInv => UmAlertaPorAudiencia
  BY DEF AudInv, Aviso, UmAlertaPorAudiencia
<1> QED BY <1>1, AudSempre, PTL

(***************************************************************************)
(* What a worker acknowledged went on: the next stream has the hearing,    *)
(* and at the end of the line the lawyer who never changed the preferences *)
(* has the alert, whatever fails and even if an XADD is sent again.        *)
(***************************************************************************)
THEOREM ConfirmadaSempreSegue == Spec => []ConfirmadaSegueAdiante
<1>1. Base /\ Entregas => ConfirmadaSegueAdiante
  BY DEF Entregas
<1> QED BY <1>1, EntregasSempre, PTL

-----------------------------------------------------------------------------
(***************************************************************************)
(* The life of a hearing.  Of its stage, the alerts tell the end, the      *)
(* object the beginning, and the row what is between.                      *)
(***************************************************************************)
EtapaDaLinha(l) == IF "summary" \in l.colunas THEN "analisada"
                   ELSE IF l.status = "failed" THEN "falhou"
                   ELSE IF "transcript" \in l.colunas THEN "transcrita"
                   ELSE "registrada"

LEMMA EtapasDasLinhas ==
    /\ EtapaDaLinha(Registrada) = "registrada"
    /\ EtapaDaLinha(EmTranscricao) = "registrada"
    /\ EtapaDaLinha(SemTranscricao) = "falhou"
    /\ EtapaDaLinha(Transcrita) = "transcrita"
    /\ EtapaDaLinha(EmAnalise) = "transcrita"
    /\ EtapaDaLinha(SemAnalise) = "falhou"
    /\ EtapaDaLinha(Analisada) = "analisada"
BY LinhasDistintas DEF EtapaDaLinha

LEMMA EtapaPelaLinha ==
    ASSUME NEW h
    PROVE  /\ alertas[h] = << >> /\ linhas[h] \in Linhas \ {SemLinha}
                  => EtapaDe(h) = EtapaDaLinha(linhas[h])
           /\ alertas'[h] = << >> /\ linhas'[h] \in Linhas \ {SemLinha}
                  => EtapaDe(h)' = EtapaDaLinha(linhas'[h])
           /\ alertas[h] = << >> /\ linhas[h] = SemLinha
                  => EtapaDe(h) = IF h \in objetos THEN "guardada" ELSE "nova"
           /\ alertas'[h] = << >> /\ linhas'[h] = SemLinha
                  => EtapaDe(h)' = IF h \in objetos' THEN "guardada" ELSE "nova"
<1>1. \A l \in Linhas \ {SemLinha} : l.status # ""
  BY LinhasDistintas DEF Linhas, AntesDoTexto, ComTexto
<1> QED BY <1>1, LinhasDistintas DEF EtapaDe, EtapaDaLinha

(* A hearing with an alert has one, and its row is analysed.               *)
LEMMA AlertaDeAnalisada ==
    ASSUME AudInv, NEW h \in AudienciasPossiveis, alertas[h] # << >>
    PROVE  /\ linhas[h] = Analisada
           /\ Len(alertas[h]) = 1
           /\ EtapaDe(h) = IF alertas[h][1] THEN "lida" ELSE "alertada"
<1>1. PICK i \in 1 .. Len(analyzed.itens) : analyzed.itens[i] = h
  BY DEF AudInv, Aviso, PassouN, NP!Passada
<1>2. linhas[h] = Analisada
  BY <1>1 DEF AudInv, Analise
<1>3. alertas[h] \in Seq(BOOLEAN) /\ Len(alertas[h]) <= 1
  BY DEF AudInv, Base, TypeOK, Aviso
<1>4. \A s \in Seq(BOOLEAN) : s = << >> <=> Len(s) = 0
  OBVIOUS
<1>5. Len(alertas[h]) = 1
  <2>1. PICK s \in Seq(BOOLEAN) : s = alertas[h]
    BY <1>3
  <2>2. s # << >>
    BY <2>1
  <2>3. Len(s) # 0
    BY <1>4, <2>2, Zenon
  <2>4. Len(s) \in Nat
    OBVIOUS
  <2>5. Len(s) <= 1
    BY <1>3, <2>1
  <2>6. \A n \in Nat : n # 0 /\ n <= 1 => n = 1
    OBVIOUS
  <2>7. Len(s) = 1
    BY <2>3, <2>4, <2>5, <2>6, Zenon
  <2> QED BY <2>1, <2>7, Zenon
<1>6. 1 \in 1 .. Len(alertas[h]) /\ \A j \in 1 .. Len(alertas[h]) : j = 1
  BY <1>5
<1>7. CASE alertas[h][1]
  <2>1. \A j \in 1 .. Len(alertas[h]) : alertas[h][j]
    BY <1>6, <1>7, Zenon
  <2>2. EtapaDe(h) = "lida"
    BY <2>1, Zenon DEF EtapaDe
  <2> QED BY <1>2, <1>5, <1>7, <2>2, Zenon
<1>8. CASE ~alertas[h][1]
  <2>1. ~ \A j \in 1 .. Len(alertas[h]) : alertas[h][j]
    BY <1>6, <1>8, Zenon
  <2>2. EtapaDe(h) = "alertada"
    BY <2>1, Zenon DEF EtapaDe
  <2> QED BY <1>2, <1>5, <1>8, <2>2, Zenon
<1> QED BY <1>7, <1>8, Zenon

LEMMA EtapaPorHora ==
    ASSUME NEW h, alertas'[h] = alertas[h], linhas'[h] = linhas[h],
           h \in objetos' <=> h \in objetos
    PROVE  EtapaDe(h)' = EtapaDe(h)
BY DEF EtapaDe

(* One hearing goes one stage on, or none does.                            *)
LEMMA UmaAnda ==
    ASSUME NEW h \in AudienciasPossiveis, NEW a, NEW b,
           <<a, b>> \in V!Caminhos \/ a = b, EtapaDe(h) = a, EtapaDe(h)' = b,
           \A g \in AudienciasPossiveis : g # h => EtapaDe(g)' = EtapaDe(g)
    PROVE  [V!Next]_([g \in AudienciasPossiveis |-> EtapaDe(g)])
<1>1. CASE a = b
  BY <1>1
<1>2. CASE <<a, b>> \in V!Caminhos
  <2>1. PICK p \in V!Caminhos : p = <<a, b>>
    BY <1>2
  <2>2. p[1] = EtapaDe(h) /\ p[2] = EtapaDe(h)'
    BY <2>1
  <2>3. V!Avancar(h)
    BY <2>1, <2>2 DEF V!Avancar
  <2> QED BY <2>3 DEF V!Next
<1> QED BY <1>1, <1>2

(* Only the request of the upload stores objects.                          *)
LEMMA ObjetoGuardado ==
    ASSUME [Next]_vars, objetos' # objetos
    PROVE  \E h \in AudienciasPossiveis :
              /\ pedido[h] = "nova" /\ objetos' = objetos \cup {h}
              /\ UNCHANGED <<linhas, alertas>>
<1>1. \A w : ~(Transcrever(w) \/ CairTranscritor(w))
  BY DEF Transcrever, CairTranscritor, foraDaTranscricao, uploadVars
<1>2. \A w : ~(Analisar(w) \/ CairAnalista(w))
  BY DEF Analisar, CairAnalista, foraDaAnalise, uploadVars
<1>3. \A n : ~(NotificadorNext(n) \/ CairNotificador(n))
  BY NotificadorDeFora DEF foraDoAviso, uploadVars
<1>4. ~Advogado
  BY AdvogadoDeFora DEF foraDaCaixa, foraDoAviso, uploadVars
<1>5. PICK h \in AudienciasPossiveis : UploadNext(h) \/ InterromperUpload(h)
  BY <1>1, <1>2, <1>3, <1>4 DEF Next, Advogado, vars, uploadVars
<1> QED BY <1>5 DEF UploadNext, InterromperUpload, Guardar, FalharGuardar, Registrar,
                    FalharRegistrar, PublicarUpload, foraDoUpload, avisoVars

LEMMA PassoDaVida ==
    ASSUME "duplicacao" \notin Falhas, AudInv, AudInv', [Next]_vars
    PROVE  [V!Next]_([h \in AudienciasPossiveis |-> EtapaDe(h)])
<1>0. /\ linhas \in [AudienciasPossiveis -> Linhas]
      /\ alertas \in [AudienciasPossiveis -> Seq(BOOLEAN)]
      /\ alertas' \in [AudienciasPossiveis -> Seq(BOOLEAN)]
  BY DEF AudInv, Base, TypeOK, Transcricao
<1>1. CASE objetos' # objetos
  <2>1. PICK h \in AudienciasPossiveis : /\ pedido[h] = "nova" /\ objetos' = objetos \cup {h}
                                         /\ UNCHANGED <<linhas, alertas>>
    BY <1>1, ObjetoGuardado
  <2>2. linhas[h] = SemLinha /\ h \notin objetos
    BY <2>1 DEF AudInv, Envio
  <2>3. alertas[h] = << >>
    BY <2>2, AlertaDeAnalisada, LinhasDistintas
  <2>4. EtapaDe(h) = "nova" /\ EtapaDe(h)' = "guardada"
    BY <2>1, <2>2, <2>3, EtapaPelaLinha
  <2>5. <<"nova", "guardada">> \in V!Caminhos
    BY DEF V!Caminhos
  <2>6. \A g \in AudienciasPossiveis : g # h => EtapaDe(g)' = EtapaDe(g)
    BY <2>1, EtapaPorHora
  <2> QED BY <2>4, <2>5, <2>6, UmaAnda
<1>2. CASE objetos' = objetos /\ linhas' # linhas
  <2>1. PICK h \in AudienciasPossiveis, x \in Linhas : Escreve(h, x)
    BY <1>2, LinhaEscrita DEF AudInv
  <2>2. /\ linhas'[h] = x
        /\ \A g \in AudienciasPossiveis : g # h => linhas'[g] = linhas[g]
    BY <1>0, <2>1 DEF Escreve
  <2>3. UNCHANGED alertas
    <3>1. \A n : ~(NotificadorNext(n) \/ CairNotificador(n))
      BY <1>2, NotificadorDeFora DEF foraDoAviso
    <3>2. ~Advogado
      BY <1>2, AdvogadoDeFora DEF foraDaCaixa, foraDoAviso
    <3>3. \A u : UploadNext(u) \/ InterromperUpload(u) => UNCHANGED alertas
      BY UploadDeFora DEF foraDoUpload, avisoVars
    <3>4. \A w : Transcrever(w) \/ CairTranscritor(w) => UNCHANGED alertas
      BY DEF Transcrever, CairTranscritor, foraDaTranscricao, avisoVars
    <3>5. \A w : Analisar(w) \/ CairAnalista(w) => UNCHANGED alertas
      BY DEF Analisar, CairAnalista, foraDaAnalise, avisoVars
    <3> QED BY <3>1, <3>2, <3>3, <3>4, <3>5 DEF Next, Advogado, vars, avisoVars
  <2>4. linhas[h] # Analisada /\ x # SemLinha
    BY <2>1, LinhasDistintas DEF Escreve, AntesDoTexto
  <2>5. alertas[h] = << >>
    BY <2>4, AlertaDeAnalisada
  <2>6. \A g \in AudienciasPossiveis : g # h => EtapaDe(g)' = EtapaDe(g)
    BY <1>2, <2>2, <2>3, EtapaPorHora
  <2>7. EtapaDe(h)' = EtapaDaLinha(x)
    BY <2>2, <2>3, <2>4, <2>5, EtapaPelaLinha
  <2>8. PICK a : a = EtapaDe(h)
    OBVIOUS
  <2>9. PICK b : b = EtapaDaLinha(x)
    OBVIOUS
  <2>10. <<a, b>> \in V!Caminhos \/ a = b
    <3>1. CASE linhas[h] = SemLinha /\ x = Registrada /\ pedido[h] = "guardada"
      <4>1. h \in objetos
        BY <3>1 DEF AudInv, Envio
      <4>2. a = "guardada" /\ b = "registrada"
        BY <2>5, <2>8, <2>9, <3>1, <4>1, EtapaPelaLinha, EtapasDasLinhas
      <4> QED BY <4>2 DEF V!Caminhos
    <3>2. CASE linhas[h] \in AntesDoTexto /\ x \in {EmTranscricao, SemTranscricao, Transcrita}
      <4>1. linhas[h] \in Linhas \ {SemLinha}
        BY <3>2, LinhasDistintas DEF Linhas, AntesDoTexto
      <4>2. a = "registrada"
        BY <2>5, <2>8, <3>2, <4>1, EtapaPelaLinha, EtapasDasLinhas DEF AntesDoTexto
      <4>3. b \in {"registrada", "falhou", "transcrita"}
        BY <2>9, <3>2, EtapasDasLinhas
      <4> QED BY <4>2, <4>3 DEF V!Caminhos
    <3>3. CASE linhas[h] \in {Transcrita, EmAnalise} /\ x \in {EmAnalise, SemAnalise, Analisada}
      <4>1. linhas[h] \in Linhas \ {SemLinha}
        BY <3>3, LinhasDistintas DEF Linhas, ComTexto
      <4>2. a = "transcrita"
        BY <2>5, <2>8, <3>3, <4>1, EtapaPelaLinha, EtapasDasLinhas
      <4>3. b \in {"transcrita", "falhou", "analisada"}
        BY <2>9, <3>3, EtapasDasLinhas
      <4> QED BY <4>2, <4>3 DEF V!Caminhos
    <3> QED BY <2>1, <3>1, <3>2, <3>3 DEF Escreve
  <2> QED BY <2>6, <2>7, <2>8, <2>9, <2>10, UmaAnda
<1>3. CASE objetos' = objetos /\ linhas' = linhas /\ ~Advogado
  <2>1. CASE alertas' = alertas
    BY <1>3, <2>1, EtapaPorHora
  <2>2. CASE alertas' # alertas
    <3>1. PICK n \in Notificadores, h \in AudienciasPossiveis :
              /\ h = AudienciaDe(n) /\ loteN[n] # {}
              /\ alertas' = [alertas EXCEPT ![h] = Append(alertas[h], FALSE)]
              /\ ~PassouN(h, DeConfirmar)
      BY <1>3, <2>2, AlertaCriado DEF AudInv
    <3>2. linhas[h] = Analisada /\ alertas[h] = << >>
      <4>1. linhas[h] = Analisada
        BY <3>1, NaMaoN DEF AudInv, Analise, UmaVez
      <4> QED BY <3>1, <4>1 DEF AudInv, Aviso
    <3>3. EtapaDe(h) = "analisada"
      <4>1. Analisada \in Linhas \ {SemLinha}
        BY LinhasDistintas DEF Linhas, ComTexto
      <4> QED BY <3>2, <4>1, EtapaPelaLinha, EtapasDasLinhas
    <3>4. EtapaDe(h)' = "alertada"
      <4>1. alertas'[h] = Append(<< >>, FALSE)
        BY <1>0, <3>1, <3>2
      <4>2. Append(<< >>, FALSE) = <<FALSE>> /\ <<FALSE>> # << >> /\ Len(<<FALSE>>) = 1
        OBVIOUS
      <4>3. ~<<FALSE>>[1] /\ 1 \in 1 .. 1
        OBVIOUS
      <4> QED BY <4>1, <4>2, <4>3, Zenon DEF EtapaDe
    <3>5. \A g \in AudienciasPossiveis : g # h => EtapaDe(g)' = EtapaDe(g)
      BY <1>0, <1>3, <3>1, EtapaPorHora
    <3>6. <<"analisada", "alertada">> \in V!Caminhos
      BY DEF V!Caminhos
    <3> QED BY <3>3, <3>4, <3>5, <3>6, UmaAnda
  <2> QED BY <2>1, <2>2
<1>4. ASSUME objetos' = objetos, linhas' = linhas, NEW h \in AudienciasPossiveis, MarcarLida(h)
      PROVE  [V!Next]_([g \in AudienciasPossiveis |-> EtapaDe(g)])
  <2>1. PICK i \in 1 .. Len(alertas[h]) : /\ ~alertas[h][i]
                                          /\ alertas' = [alertas EXCEPT ![h][i] = TRUE]
    BY <1>4 DEF MarcarLida
  <2>2. alertas[h] # << >>
    BY <2>1
  <2>3. i = 1 /\ EtapaDe(h) = "alertada"
    BY <2>1, <2>2, AlertaDeAnalisada
  <2>4. alertas'[h] = [alertas[h] EXCEPT ![1] = TRUE] /\ Len(alertas'[h]) = 1
    BY <1>0, <2>1, <2>2, <2>3, AlertaDeAnalisada
  <2>5. EtapaDe(h)' = "lida"
    <3>1. alertas'[h] # << >>
      BY <2>4
    <3>2. \A j \in 1 .. Len(alertas'[h]) : j = 1
      <4>1. Len(alertas'[h]) = 1
        BY <2>4, Zenon
      <4>2. \A j \in 1 .. 1 : j = 1
        OBVIOUS
      <4> QED BY <4>1, <4>2, Zenon
    <3>3. alertas'[h][1]
      <4>1. PICK a : a = alertas[h]
        OBVIOUS
      <4>2. a \in Seq(BOOLEAN) /\ Len(a) = 1
        BY <4>1, <2>2, AlertaDeAnalisada DEF AudInv, Base, TypeOK
      <4>3. 1 \in DOMAIN a
        BY <4>2
      <4>4. [a EXCEPT ![1] = TRUE][1] = TRUE
        BY <4>3, Zenon
      <4> QED BY <2>4, <4>1, <4>4, Zenon
    <3>4. \A j \in 1 .. Len(alertas'[h]) : alertas'[h][j]
      BY <3>2, <3>3, Zenon
    <3> QED BY <3>1, <3>4, Zenon DEF EtapaDe
  <2>6. \A g \in AudienciasPossiveis : g # h => EtapaDe(g)' = EtapaDe(g)
    BY <1>0, <1>4, <2>1, EtapaPorHora
  <2>7. <<"alertada", "lida">> \in V!Caminhos
    BY DEF V!Caminhos
  <2> QED BY <2>3, <2>5, <2>6, <2>7, UmaAnda
<1>5. ASSUME objetos' = objetos, linhas' = linhas, NEW t \in Tenants, MarcarTodasLidas(t)
      PROVE  [V!Next]_([g \in AudienciasPossiveis |-> EtapaDe(g)])
  <2>1. PICK lidos : lidos = {h \in AudienciasPossiveis : TenantDe[h] = t /\ EtapaDe(h) = "alertada"}
    OBVIOUS
  <2>2. \A g \in AudienciasPossiveis : EtapaDe(g)' = IF g \in lidos THEN "lida" ELSE EtapaDe(g)
    <3> TAKE g \in AudienciasPossiveis
    <3>1. CASE TenantDe[g] = t /\ alertas[g] # << >>
      <4>1. EtapaDe(g) \in {"lida", "alertada"} /\ Len(alertas[g]) = 1
        BY <3>1, AlertaDeAnalisada
      <4>2. alertas'[g] = [i \in 1 .. Len(alertas[g]) |-> TRUE]
        BY <1>5, <3>1 DEF MarcarTodasLidas
      <4>3. alertas'[g] # << >>
        BY <1>5, <3>1, SoLeitura DEF AudInv, Advogado
      <4>4. \A j \in 1 .. Len(alertas'[g]) : alertas'[g][j]
        <5>1. Len(alertas'[g]) = Len(alertas[g])
          BY <1>5, SoLeitura DEF AudInv, Advogado
        <5> QED BY <4>1, <4>2, <5>1
      <4>5. EtapaDe(g)' = "lida"
        BY <4>3, <4>4, Zenon DEF EtapaDe
      <4> QED BY <2>1, <3>1, <4>1, <4>5
    <3>2. CASE TenantDe[g] # t
      <4>1. alertas'[g] = alertas[g]
        BY <1>5, <3>2 DEF MarcarTodasLidas
      <4> QED BY <1>5, <2>1, <3>2, <4>1, EtapaPorHora
    <3>3. CASE alertas[g] = << >>
      <4>1. alertas'[g] = << >>
        BY <1>5, <3>3, SoLeitura DEF AudInv, Advogado
      <4>2. EtapaDe(g)' = EtapaDe(g)
        BY <1>5, <3>3, <4>1, EtapaPorHora
      <4>3. EtapaDe(g) # "alertada"
        BY <3>3 DEF EtapaDe
      <4> QED BY <2>1, <4>2, <4>3
    <3> QED BY <3>1, <3>2, <3>3
  <2>3. V!LerVarias
    <3>1. lidos \in SUBSET {h \in AudienciasPossiveis :
                               [g \in AudienciasPossiveis |-> EtapaDe(g)][h] = "alertada"}
      BY <2>1
    <3> QED BY <2>2, <3>1 DEF V!LerVarias
  <2> QED BY <2>3 DEF V!Next
<1>6. CASE objetos' = objetos /\ linhas' = linhas /\ Advogado
  <2>1. ASSUME NEW t \in Tenants, SalvarPreferencias(t)
        PROVE  [V!Next]_([g \in AudienciasPossiveis |-> EtapaDe(g)])
    <3>1. UNCHANGED alertas
      BY <2>1 DEF SalvarPreferencias
    <3> QED BY <1>6, <3>1, EtapaPorHora
  <2> QED BY <1>4, <1>5, <1>6, <2>1 DEF Advogado
<1> QED BY <1>1, <1>2, <1>3, <1>6

(***************************************************************************)
(* Every hearing lives the life VidaDaAudiencia allows: stored, recorded,  *)
(* transcribed, analysed, one alert, read; a failure is final, and no step *)
(* of any service or crash takes a hearing back.                           *)
(***************************************************************************)
THEOREM AudienciasImplementamVida ==
    ASSUME "duplicacao" \notin Falhas
    PROVE  Spec => ImplementaVida
<1>1. Init => V!Init
  <2> SUFFICES ASSUME Init PROVE V!Init
    OBVIOUS
  <2>1. \A h \in AudienciasPossiveis : EtapaDe(h) = "nova"
    BY EtapaPelaLinha DEF Init
  <2> QED BY <2>1 DEF V!Init
<1>2. AudInv /\ AudInv' /\ [Next]_vars => [V!Next]_([h \in AudienciasPossiveis |-> EtapaDe(h)])
  BY PassoDaVida
<1> QED BY <1>1, <1>2, AudSempre, PTL DEF Spec, ImplementaVida, V!Spec
=============================================================================
