---------------------------- MODULE EntradaProofs ----------------------------
(***************************************************************************)
(* The entrance of the pipeline, for any number of movements: only what is *)
(* recorded enters the bus, and, if the Redis client never sends an        *)
(* applied XADD again, a movement has one event.                           *)
(***************************************************************************)
EXTENDS Entrada, FiniteSetTheorems, TLAPS

(* The stream, from the side of those who write to it.                     *)
LEMMA VazioEhFluxo == \A M : FluxoVazio \in Fluxos(M)
BY DEF FluxoVazio, Fluxos

(* XADD appends one entry, and leaves the group as it was.                 *)
LEMMA XAddAcrescenta ==
    ASSUME NEW M, NEW f \in Fluxos(M), NEW m \in M, NEW g \in XAdd(f, m)
    PROVE  /\ g \in Fluxos(M)
           /\ g.itens = Append(f.itens, m)
           /\ Len(g.itens) = Len(f.itens) + 1
           /\ g.entregue = f.entregue
<1>1. PICK c \in Cortes(Len(f.itens) + 1, f.corte) :
          g = [f EXCEPT !.itens = Append(@, m), !.corte = c]
  BY DEF XAdd
<1>2. Len(f.itens) \in Nat /\ f.corte \in Nat /\ f.itens \in Seq(M)
  BY DEF Fluxos
<1>3. c \in Nat
  BY <1>2, FluxoAssumption DEF Cortes, Maior
<1>4. /\ Append(f.itens, m) \in Seq(M)
      /\ Len(Append(f.itens, m)) = Len(f.itens) + 1
  BY <1>2
<1>5. g.itens = Append(f.itens, m) /\ g.entregue = f.entregue
  BY <1>1 DEF Fluxos
<1>6. g \in Fluxos(M)
  BY <1>1, <1>3, <1>4 DEF Fluxos
<1> QED BY <1>4, <1>5, <1>6

(* The right to publish: held for rows that exist, and used up by the      *)
(* event.                                                                  *)
DireitoDePublicar ==
    \A m \in Andamentos :
        /\ m \in emVoo => m \in gravados /\ ~Publicado(m)
        /\ Publicado(m) => m \in gravados

EntradaDireito == EntradaTypeOK /\ DireitoDePublicar

EntradaInvariante == EntradaDireito /\ UmEventoPorAndamento

-----------------------------------------------------------------------------
LEMMA EntradaInicial == EntradaInit => EntradaInvariante
<1> SUFFICES ASSUME EntradaInit PROVE EntradaInvariante
  OBVIOUS
<1>1. EntradaTypeOK
  BY VazioEhFluxo DEF EntradaInit, EntradaTypeOK
<1>2. Len(received.itens) = 0
  BY DEF EntradaInit, FluxoVazio
<1>3. DireitoDePublicar /\ UmEventoPorAndamento
  BY <1>2 DEF EntradaInit, DireitoDePublicar, Publicado, UmEventoPorAndamento
<1> QED BY <1>1, <1>3 DEF EntradaInvariante, EntradaDireito

(* What XADD adds to the stream, and what it leaves there.                 *)
LEMMA XAddComUmaAMais ==
    ASSUME NEW M, NEW f \in Fluxos(M), NEW m \in M, NEW g \in XAdd(f, m)
    PROVE  /\ g \in Fluxos(M)
           /\ Len(f.itens) \in Nat /\ Len(g.itens) = Len(f.itens) + 1
           /\ g.itens[Len(f.itens) + 1] = m
           /\ \A i \in 1 .. Len(f.itens) : g.itens[i] = f.itens[i]
<1>1. /\ g \in Fluxos(M) /\ g.itens = Append(f.itens, m)
      /\ Len(g.itens) = Len(f.itens) + 1
  BY XAddAcrescenta
<1>2. f.itens \in Seq(M) /\ Len(f.itens) \in Nat
  BY DEF Fluxos
<1>3. \A i \in 1 .. Len(f.itens) + 1 :
          Append(f.itens, m)[i] = IF i <= Len(f.itens) THEN f.itens[i] ELSE m
  BY <1>2
<1> QED BY <1>1, <1>2, <1>3

(* One XADD of m or two: after it the movements in the stream are those    *)
(* that were there, and m.                                                 *)
Contem(f, k) == \E i \in 1 .. Len(f.itens) : f.itens[i] = k

LEMMA XAddContem ==
    ASSUME NEW M, NEW f \in Fluxos(M), NEW m \in M, NEW g \in XAdd(f, m), NEW k
    PROVE  Contem(g, k) <=> Contem(f, k) \/ k = m
<1>1. /\ Len(f.itens) \in Nat /\ Len(g.itens) = Len(f.itens) + 1
      /\ g.itens[Len(f.itens) + 1] = m
      /\ \A i \in 1 .. Len(f.itens) : g.itens[i] = f.itens[i]
  BY XAddComUmaAMais
<1> QED BY <1>1 DEF Contem

LEMMA PublicacoesContem ==
    ASSUME NEW M, NEW f \in Fluxos(M), NEW m \in M, NEW reenvio,
           NEW g \in Publicacoes(f, m, reenvio)
    PROVE  /\ g \in Fluxos(M)
           /\ \A k : Contem(g, k) <=> Contem(f, k) \/ k = m
<1>1. CASE g \in XAdd(f, m)
  BY <1>1, XAddAcrescenta, XAddContem
<1>2. CASE \E e \in XAdd(f, m) : g \in XAdd(e, m)
  <2>1. PICK e \in XAdd(f, m) : g \in XAdd(e, m)
    BY <1>2
  <2>2. e \in Fluxos(M) /\ \A k : Contem(e, k) <=> Contem(f, k) \/ k = m
    BY XAddAcrescenta, XAddContem
  <2>3. g \in Fluxos(M) /\ \A k : Contem(g, k) <=> Contem(e, k) \/ k = m
    BY <2>1, <2>2, XAddAcrescenta, XAddContem
  <2> QED BY <2>2, <2>3
<1> QED BY <1>1, <1>2 DEF Publicacoes

LEMMA PublicarComDireito ==
    ASSUME EntradaDireito, NEW m \in Andamentos, Publicar(m)
    PROVE  EntradaDireito'
<1>1. m \in gravados /\ gravados' = gravados /\ emVoo' = emVoo \ {m}
  BY DEF Publicar, EntradaDireito, DireitoDePublicar
<1>2. \A k : Publicado(k) <=> Contem(received, k)
  BY DEF Publicado, Contem
<1>3. \A k : Publicado(k)' <=> Contem(received', k)
  BY DEF Publicado, Contem
<1>4. /\ received' \in Fluxos(Andamentos)
      /\ \A k : Contem(received', k) <=> Contem(received, k) \/ k = m
  <2>1. received \in Fluxos(Andamentos)
    BY DEF EntradaDireito, EntradaTypeOK
  <2>2. received' \in Publicacoes(received, m, "duplicacao" \in Falhas)
    BY DEF Publicar
  <2> QED BY <2>1, <2>2, PublicacoesContem
<1>5. EntradaTypeOK'
  BY <1>1, <1>4 DEF EntradaDireito, EntradaTypeOK
<1>6. DireitoDePublicar'
  BY <1>1, <1>2, <1>3, <1>4 DEF EntradaDireito, DireitoDePublicar
<1> QED BY <1>5, <1>6 DEF EntradaDireito

LEMMA DireitoMantido == EntradaDireito /\ [EntradaNext]_entradaVars => EntradaDireito'
<1> SUFFICES ASSUME EntradaDireito, [EntradaNext]_entradaVars
             PROVE  EntradaDireito'
  OBVIOUS
<1> USE DEF EntradaDireito, EntradaTypeOK, DireitoDePublicar, Publicado
<1>1. ASSUME NEW m \in Andamentos, Inserir(m) PROVE EntradaDireito'
  BY <1>1 DEF Inserir
<1>2. ASSUME NEW m \in Andamentos, InserirOrfa(m) PROVE EntradaDireito'
  BY <1>2 DEF InserirOrfa
<1>3. ASSUME NEW m \in Andamentos, Publicar(m) PROVE EntradaDireito'
  BY <1>3, PublicarComDireito
<1>4. CASE Perder
  BY <1>4 DEF Perder
<1>5. CASE UNCHANGED entradaVars
  BY <1>5 DEF entradaVars
<1> QED BY <1>1, <1>2, <1>3, <1>4, <1>5 DEF EntradaNext

(* XADD once: a movement that was not in the stream is there once.         *)
LEMMA PublicarUmaVez ==
    ASSUME "duplicacao" \notin Falhas, EntradaInvariante,
           NEW m \in Andamentos, Publicar(m)
    PROVE  UmEventoPorAndamento'
<1> DEFINE n == Len(received.itens)
<1>1. /\ n \in Nat
      /\ Len(received'.itens) = n + 1
      /\ received'.itens[n + 1] = m
      /\ \A i \in 1 .. n : received'.itens[i] = received.itens[i]
  <2>1. received \in Fluxos(Andamentos) /\ received' \in XAdd(received, m)
    BY DEF Publicar, Publicacoes, EntradaInvariante, EntradaDireito, EntradaTypeOK
  <2> QED BY <2>1, XAddComUmaAMais
<1> HIDE DEF n
<1>2. \A i \in 1 .. n : received.itens[i] # m
  BY DEF Publicar, EntradaInvariante, EntradaDireito, DireitoDePublicar, Publicado, n
<1> SUFFICES ASSUME NEW i \in 1 .. n + 1, NEW j \in 1 .. n + 1,
                    received'.itens[i] = received'.itens[j]
             PROVE  i = j
  BY <1>1 DEF UmEventoPorAndamento
<1>3. CASE i \in 1 .. n /\ j \in 1 .. n
  BY <1>1, <1>3 DEF EntradaInvariante, UmEventoPorAndamento, n
<1>4. CASE i = n + 1 /\ j \in 1 .. n
  BY <1>1, <1>2, <1>4
<1>5. CASE i \in 1 .. n /\ j = n + 1
  BY <1>1, <1>2, <1>5
<1> QED BY <1>1, <1>3, <1>4, <1>5

LEMMA EntradaMantida ==
    ASSUME "duplicacao" \notin Falhas
    PROVE  EntradaInvariante /\ [EntradaNext]_entradaVars => EntradaInvariante'
<1> SUFFICES ASSUME EntradaInvariante, [EntradaNext]_entradaVars
             PROVE  UmEventoPorAndamento'
  BY DireitoMantido DEF EntradaInvariante
<1>1. ASSUME NEW m \in Andamentos, Publicar(m) PROVE UmEventoPorAndamento'
  BY <1>1, PublicarUmaVez
<1>2. CASE UNCHANGED received
  BY <1>2 DEF EntradaInvariante, UmEventoPorAndamento
<1> QED BY <1>1, <1>2 DEF EntradaNext, Inserir, InserirOrfa, Perder, entradaVars

LEMMA EntradaSempre ==
    ASSUME "duplicacao" \notin Falhas
    PROVE  EntradaSpec => []EntradaInvariante
BY EntradaInicial, EntradaMantida, PTL DEF EntradaSpec

(***************************************************************************)
(* A movement enters the bus at most once, unless the client may send an   *)
(* applied XADD again.                                                     *)
(***************************************************************************)
THEOREM EntradaUmEvento ==
    ASSUME "duplicacao" \notin Falhas
    PROVE  EntradaSpec => []UmEventoPorAndamento
<1>1. EntradaInvariante => UmEventoPorAndamento
  BY DEF EntradaInvariante
<1> QED BY <1>1, EntradaSempre, PTL
=============================================================================
