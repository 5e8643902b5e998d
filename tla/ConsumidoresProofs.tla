------------------------- MODULE ConsumidoresProofs -------------------------
(***************************************************************************)
(* Bus.Consume for any number of replicas, any batch size and any MAXLEN:  *)
(* the loop never hands an entry over twice.  Before that, what XADD,      *)
(* XREADGROUP and XACK do to one stream and its group.                     *)
(***************************************************************************)
EXTENDS Consumidores, FiniteSetTheorems, TLAPS

(***************************************************************************)
(* The cursor and the trim never pass the last entry; only delivered       *)
(* entries are pending or acked, and none is both; once something was      *)
(* trimmed, MaxLen entries are left.                                       *)
(***************************************************************************)
FluxoCoerente(f) ==
    /\ f.entregue <= Len(f.itens)
    /\ f.corte <= Len(f.itens)
    /\ f.corte > 0 => Len(f.itens) - f.corte >= MaxLen
    /\ f.pendentes \subseteq 1 .. f.entregue
    /\ f.confirmadas \subseteq 1 .. f.entregue
    /\ f.pendentes \cap f.confirmadas = {}

-----------------------------------------------------------------------------
(***************************************************************************)
(* A nonempty set of naturals has a least element: the first entry of a    *)
(* batch exists.  The sets l \cap (0 .. n), for n in l, are finite, so one *)
(* of them has none of the others strictly inside it.                      *)
(***************************************************************************)
LEMMA TemMinimo ==
    ASSUME NEW l \in SUBSET Nat, l # {}
    PROVE  \E i \in l : \A j \in l : i <= j
<1> DEFINE Ate(n) == l \cap (0 .. n)
           Cortados == {Ate(n) : n \in l}
<1>1. Cortados # {} /\ Cortados \subseteq FiniteSubsetsOf(Nat)
  <2>1. ASSUME NEW n \in l PROVE Ate(n) \in FiniteSubsetsOf(Nat)
    <3>1. IsFiniteSet(0 .. n) BY FS_Interval
    <3>2. IsFiniteSet(Ate(n)) BY <3>1, FS_Subset
    <3> QED BY <3>2 DEF FiniteSubsetsOf
  <2> QED BY <2>1
<1>2. PICK x \in Cortados :
          \A y \in Cortados : <<y, x>> \notin StrictSubsetOrdering(Nat)
  <2> HIDE DEF Cortados
  <2> QED BY <1>1, FS_StrictSubsetOrderingWellFounded, WFMin
<1>3. PICK i \in l : x = Ate(i)
  OBVIOUS
<1>4. ASSUME NEW j \in l, j < i PROVE FALSE
  <2>1. Ate(j) \subseteq Ate(i) /\ i \in Ate(i) /\ i \notin Ate(j)
    BY <1>4
  <2>2. <<Ate(j), x>> \in StrictSubsetOrdering(Nat)
    BY <2>1, <1>3 DEF StrictSubsetOrdering
  <2> QED BY <2>2, <1>2
<1> QED BY <1>4

-----------------------------------------------------------------------------
(* The empty stream is coherent, whatever its payloads are.                *)
LEMMA VazioCoerente ==
    ASSUME NEW M
    PROVE  FluxoVazio \in Fluxos(M) /\ FluxoCoerente(FluxoVazio)
BY FluxoAssumption DEF FluxoVazio, Fluxos, FluxoCoerente

(***************************************************************************)
(* XADD appends one entry, may only raise the trim point, never to the new *)
(* entry, and keeps the stream coherent.                                   *)
(***************************************************************************)
LEMMA XAddCoerente ==
    ASSUME NEW M, NEW f \in Fluxos(M), FluxoCoerente(f), NEW m \in M,
           NEW g \in XAdd(f, m)
    PROVE  /\ g \in Fluxos(M)
           /\ FluxoCoerente(g)
           /\ g.itens = Append(f.itens, m)
           /\ Len(g.itens) = Len(f.itens) + 1
           /\ f.corte <= g.corte
           /\ g.entregue = f.entregue
           /\ g.pendentes = f.pendentes
           /\ g.confirmadas = f.confirmadas
<1>1. PICK c \in Cortes(Len(f.itens) + 1, f.corte) :
          g = [f EXCEPT !.itens = Append(@, m), !.corte = c]
  BY DEF XAdd
<1>2. Len(f.itens) \in Nat /\ f.corte \in Nat /\ f.itens \in Seq(M)
  BY DEF Fluxos
<1>3. /\ c \in Nat
      /\ f.corte <= c
      /\ c <= Len(f.itens)
      /\ c > 0 => (Len(f.itens) + 1) - c >= MaxLen
  BY <1>2, FluxoAssumption DEF Cortes, Maior, FluxoCoerente
<1>4. /\ Append(f.itens, m) \in Seq(M)
      /\ Len(Append(f.itens, m)) = Len(f.itens) + 1
  BY <1>2
<1>5. /\ g.itens = Append(f.itens, m)
      /\ g.corte = c
      /\ g.entregue = f.entregue
      /\ g.pendentes = f.pendentes
      /\ g.confirmadas = f.confirmadas
  BY <1>1 DEF Fluxos
<1>6. g \in Fluxos(M)
  BY <1>1, <1>3, <1>4 DEF Fluxos
<1>7. FluxoCoerente(g)
  BY <1>2, <1>3, <1>4, <1>5 DEF FluxoCoerente, Fluxos
<1> QED BY <1>3, <1>4, <1>5, <1>6, <1>7

(***************************************************************************)
(* XREADGROUP ">" hands over entries that were never delivered and are     *)
(* still in the stream, moves the cursor past them, and keeps the stream   *)
(* coherent.                                                               *)
(***************************************************************************)
LEMMA LegiveisNovas ==
    ASSUME NEW M, NEW f \in Fluxos(M), FluxoCoerente(f)
    PROVE  /\ Legiveis(f) \subseteq Nat
           /\ \A i \in Legiveis(f) : /\ i > f.entregue
                                     /\ i > f.corte
                                     /\ i <= XReadGroup(f).entregue
           /\ \A i \in Nat : i > f.entregue /\ i > f.corte
                                 /\ i <= XReadGroup(f).entregue => i \in Legiveis(f)
<1> DEFINE inicio == Maior(f.entregue, f.corte)
<1>1. /\ f.entregue \in Nat /\ f.corte \in Nat /\ Len(f.itens) \in Nat
      /\ Lote \in Nat
  BY FluxoAssumption DEF Fluxos
<1>2. XReadGroup(f).entregue = Menor(inicio + Lote, Len(f.itens))
  BY DEF XReadGroup, Fluxos
<1>3. /\ inicio \in Nat
      /\ inicio >= f.entregue
      /\ inicio >= f.corte
      /\ inicio = f.entregue \/ inicio = f.corte
  BY <1>1 DEF Maior
<1>4. Legiveis(f) = (inicio + 1) .. Menor(inicio + Lote, Len(f.itens))
  BY DEF Legiveis
<1>5. Menor(inicio + Lote, Len(f.itens)) \in Nat
  BY <1>1, <1>3 DEF Menor
<1> HIDE DEF inicio
<1> QED BY <1>1, <1>2, <1>3, <1>4, <1>5

LEMMA XReadGroupCoerente ==
    ASSUME NEW M, NEW f \in Fluxos(M), FluxoCoerente(f)
    PROVE  LET g == XReadGroup(f)
           IN  /\ g \in Fluxos(M)
               /\ FluxoCoerente(g)
               /\ g.itens = f.itens
               /\ g.corte = f.corte
               /\ g.confirmadas = f.confirmadas
               /\ g.pendentes = f.pendentes \cup Legiveis(f)
               /\ g.entregue >= f.entregue
               /\ g.entregue >= f.corte
<1> DEFINE g == XReadGroup(f)
<1>1. /\ f.entregue \in Nat /\ f.corte \in Nat /\ Len(f.itens) \in Nat
      /\ f.pendentes \subseteq Nat
      /\ Lote \in Nat
  BY FluxoAssumption DEF Fluxos
<1>2. /\ g.entregue = Menor(Maior(f.entregue, f.corte) + Lote, Len(f.itens))
      /\ g.itens = f.itens
      /\ g.corte = f.corte
      /\ g.confirmadas = f.confirmadas
      /\ g.pendentes = f.pendentes \cup Legiveis(f)
  BY DEF XReadGroup, Fluxos
<1>3. /\ g.entregue \in Nat
      /\ g.entregue >= f.entregue
      /\ g.entregue >= f.corte
      /\ g.entregue <= Len(f.itens)
  BY <1>1, <1>2 DEF Menor, Maior, FluxoCoerente
<1>4. /\ Legiveis(f) \subseteq Nat
      /\ \A i \in Legiveis(f) : i > f.entregue /\ i <= g.entregue
  BY LegiveisNovas
<1>5. g \in Fluxos(M)
  BY <1>1, <1>2, <1>3, <1>4 DEF Fluxos, XReadGroup
<1>6. FluxoCoerente(g)
  <2> HIDE DEF g
  <2>1. g.pendentes \subseteq 1 .. g.entregue
    BY <1>1, <1>2, <1>3, <1>4 DEF FluxoCoerente
  <2>2. g.confirmadas \subseteq 1 .. g.entregue
    BY <1>1, <1>2, <1>3 DEF FluxoCoerente
  <2>3. g.pendentes \cap g.confirmadas = {}
    BY <1>1, <1>2, <1>4 DEF FluxoCoerente
  <2> QED BY <1>1, <1>2, <1>3, <2>1, <2>2, <2>3 DEF FluxoCoerente
<1> HIDE DEF g
<1>7. g \in Fluxos(M) /\ FluxoCoerente(g) /\ g.itens = f.itens /\ g.corte = f.corte
      /\ g.confirmadas = f.confirmadas /\ g.pendentes = f.pendentes \cup Legiveis(f)
      /\ g.entregue >= f.entregue /\ g.entregue >= f.corte
  BY <1>2, <1>3, <1>5, <1>6
<1> QED BY <1>7 DEF g

(***************************************************************************)
(* XACK of a pending entry moves it from pending to acked, no more.        *)
(***************************************************************************)
LEMMA XAckCoerente ==
    ASSUME NEW M, NEW f \in Fluxos(M), FluxoCoerente(f), NEW i \in f.pendentes
    PROVE  LET g == XAck(f, i)
           IN  /\ g \in Fluxos(M)
               /\ FluxoCoerente(g)
               /\ g.itens = f.itens
               /\ g.corte = f.corte
               /\ g.entregue = f.entregue
               /\ g.pendentes = f.pendentes \ {i}
               /\ g.confirmadas = f.confirmadas \cup {i}
<1> DEFINE g == XAck(f, i)
<1>1. /\ g.itens = f.itens
      /\ g.corte = f.corte
      /\ g.entregue = f.entregue
      /\ g.pendentes = f.pendentes \ {i}
      /\ g.confirmadas = f.confirmadas \cup {i}
  BY DEF XAck, Fluxos
<1>2. g \in Fluxos(M)
  BY DEF XAck, Fluxos
<1>3. FluxoCoerente(g)
  <2> HIDE DEF g
  <2> QED BY <1>1 DEF FluxoCoerente
<1> HIDE DEF g
<1>4. g \in Fluxos(M) /\ FluxoCoerente(g) /\ g.itens = f.itens /\ g.corte = f.corte
      /\ g.entregue = f.entregue /\ g.pendentes = f.pendentes \ {i}
      /\ g.confirmadas = f.confirmadas \cup {i}
  BY <1>1, <1>2, <1>3
<1> QED BY <1>4 DEF g

-----------------------------------------------------------------------------
(* PosseUnica is inductive once the stream is coherent: a replica is only  *)
(* given entries past the cursor, and everyone's entries are behind it.    *)
Invariante == TypeOK /\ FluxoCoerente(fluxo) /\ PosseUnica

(* A nonempty batch has a head, and it is its oldest entry.                *)
LEMMA CabecaEhDoLote ==
    ASSUME NEW l \in SUBSET Nat, l # {}
    PROVE  Cabeca(l) \in l /\ \A j \in l : Cabeca(l) <= j
BY TemMinimo DEF Cabeca

LEMMA InvarianteInicial == Init => Invariante
<1> SUFFICES ASSUME Init PROVE Invariante
  OBVIOUS
<1>1. FluxoVazio \in Fluxos(Mensagens) /\ FluxoCoerente(FluxoVazio)
  BY VazioCoerente
<1>2. TypeOK /\ FluxoCoerente(fluxo)
  BY <1>1 DEF Init, TypeOK
<1>3. PosseUnica
  BY DEF Init, PosseUnica, FluxoVazio
<1> QED BY <1>2, <1>3 DEF Invariante

(* Taking entries out of a replica's hands.                                *)
LEMMA LargarPreserva ==
    ASSUME Invariante, NEW c \in Replicas, NEW l \in SUBSET lote[c],
           lote' = [lote EXCEPT ![c] = l], UNCHANGED fluxo
    PROVE  Invariante'
<1>1. TypeOK'
  BY DEF Invariante, TypeOK
<1>2. FluxoCoerente(fluxo')
  BY DEF Invariante
<1>3. \A d \in Replicas : lote'[d] \subseteq lote[d]
  BY DEF Invariante, TypeOK
<1>4. PosseUnica'
  BY <1>3 DEF Invariante, PosseUnica
<1> QED BY <1>1, <1>2, <1>4 DEF Invariante

(* The state after XREADGROUP, whoever gets the answer.                    *)
LEMMA LerPreserva ==
    ASSUME Invariante, NEW c \in Replicas, Ler(c)
    PROVE  Invariante'
<1> USE DEF Invariante
<1>1. fluxo \in Fluxos(Mensagens) /\ lote \in [Replicas -> SUBSET Nat]
  BY DEF TypeOK
<1>2. /\ fluxo' \in Fluxos(Mensagens)
      /\ FluxoCoerente(fluxo')
      /\ fluxo'.pendentes = fluxo.pendentes \cup Legiveis(fluxo)
  BY <1>1, XReadGroupCoerente DEF Ler
<1>3. /\ Legiveis(fluxo) \subseteq Nat
      /\ \A i \in Legiveis(fluxo) : i > fluxo.entregue
  BY <1>1, LegiveisNovas
<1>4. \A d \in Replicas : lote'[d] = IF d = c THEN Legiveis(fluxo) ELSE lote[d]
  BY <1>1 DEF Ler
<1>5. TypeOK'
  BY <1>1, <1>2, <1>3 DEF Ler, TypeOK
<1>6. fluxo'.pendentes \subseteq 1 .. fluxo'.entregue
  BY <1>2 DEF FluxoCoerente
<1>7. ASSUME NEW d \in Replicas PROVE lote'[d] \subseteq fluxo'.pendentes
  BY <1>2, <1>4 DEF PosseUnica
<1>8. ASSUME NEW d \in Replicas, NEW e \in Replicas, d # e
      PROVE  lote'[d] \cap lote'[e] = {}
  <2>1. \A k \in Replicas : \A i \in lote[k] : ~(i > fluxo.entregue)
    BY <1>1 DEF PosseUnica, Fluxos
  <2>2. lote[d] \cap lote[e] = {}
    BY <1>8 DEF PosseUnica
  <2> QED BY <1>3, <1>4, <1>8, <2>1, <2>2
<1> QED BY <1>2, <1>5, <1>6, <1>7, <1>8 DEF PosseUnica

LEMMA LeituraPerdidaPreserva ==
    ASSUME Invariante, NEW c \in Replicas, LeituraPerdida(c)
    PROVE  Invariante'
<1> USE DEF Invariante
<1>1. fluxo \in Fluxos(Mensagens)
  BY DEF TypeOK
<1>2. /\ fluxo' \in Fluxos(Mensagens)
      /\ FluxoCoerente(fluxo')
      /\ fluxo'.pendentes = fluxo.pendentes \cup Legiveis(fluxo)
  BY <1>1, XReadGroupCoerente DEF LeituraPerdida
<1>3. TypeOK'
  BY <1>2 DEF LeituraPerdida, TypeOK
<1>4. PosseUnica'
  BY <1>2 DEF LeituraPerdida, PosseUnica, FluxoCoerente
<1> QED BY <1>2, <1>3, <1>4

LEMMA ConcluirPreserva ==
    ASSUME Invariante, NEW c \in Replicas, Concluir(c)
    PROVE  Invariante'
<1> USE DEF Invariante
<1> DEFINE i == Cabeca(lote[c])
<1>1. fluxo \in Fluxos(Mensagens) /\ lote \in [Replicas -> SUBSET Nat]
  BY DEF TypeOK
<1>2. i \in lote[c]
  BY <1>1, CabecaEhDoLote DEF Concluir
<1>3. i \in fluxo.pendentes
  BY <1>2 DEF PosseUnica
<1>4. lote' = [lote EXCEPT ![c] = @ \ {i}] /\ fluxo' = XAck(fluxo, i)
  BY DEF Concluir
<1> HIDE DEF i
<1>5. /\ fluxo' \in Fluxos(Mensagens)
      /\ FluxoCoerente(fluxo')
      /\ fluxo'.entregue = fluxo.entregue
      /\ fluxo'.pendentes = fluxo.pendentes \ {i}
  BY <1>1, <1>3, <1>4, XAckCoerente
<1>6. \A d \in Replicas : lote'[d] = IF d = c THEN lote[d] \ {i} ELSE lote[d]
  BY <1>1, <1>4
<1>7. TypeOK'
  BY <1>1, <1>4, <1>5 DEF TypeOK
<1>8. \A d \in Replicas : d # c => i \notin lote[d]
  BY <1>2 DEF PosseUnica
<1>9. PosseUnica'
  BY <1>5, <1>6, <1>8 DEF PosseUnica
<1> QED BY <1>5, <1>7, <1>9

LEMMA PublicarPreserva ==
    ASSUME Invariante, NEW m \in Mensagens, Publicar(m)
    PROVE  Invariante'
<1> USE DEF Invariante
<1>1. /\ fluxo' \in Fluxos(Mensagens)
      /\ FluxoCoerente(fluxo')
      /\ fluxo'.entregue = fluxo.entregue
      /\ fluxo'.pendentes = fluxo.pendentes
  BY XAddCoerente DEF Publicar, TypeOK
<1>2. TypeOK'
  BY <1>1 DEF Publicar, TypeOK
<1>3. PosseUnica'
  BY <1>1 DEF Publicar, PosseUnica
<1> QED BY <1>1, <1>2, <1>3

LEMMA InvarianteMantido == Invariante /\ [Next]_vars => Invariante'
<1> SUFFICES ASSUME Invariante, [Next]_vars PROVE Invariante'
  OBVIOUS
<1>1. ASSUME NEW m \in Mensagens, Publicar(m) PROVE Invariante'
  BY <1>1, PublicarPreserva
<1>2. ASSUME NEW c \in Replicas, Ler(c) PROVE Invariante'
  BY <1>2, LerPreserva
<1>3. ASSUME NEW c \in Replicas, LeituraPerdida(c) PROVE Invariante'
  BY <1>3, LeituraPerdidaPreserva
<1>4. ASSUME NEW c \in Replicas, Concluir(c) PROVE Invariante'
  BY <1>4, ConcluirPreserva
<1>5. ASSUME NEW c \in Replicas, Falhar(c) PROVE Invariante'
  <2>1. lote[c] \ {Cabeca(lote[c])} \in SUBSET lote[c]
    OBVIOUS
  <2>2. lote' = [lote EXCEPT ![c] = lote[c] \ {Cabeca(lote[c])}]
    BY <1>5 DEF Falhar
  <2> QED BY <1>5, <2>1, <2>2, LargarPreserva DEF Falhar
<1>6. ASSUME NEW c \in Replicas, Reiniciar(c) PROVE Invariante'
  <2>1. {} \in SUBSET lote[c]
    OBVIOUS
  <2> QED BY <1>6, <2>1, LargarPreserva DEF Reiniciar
<1>7. CASE UNCHANGED vars
  BY <1>7 DEF vars, Invariante, TypeOK, PosseUnica
<1> QED BY <1>1, <1>2, <1>3, <1>4, <1>5, <1>6, <1>7 DEF Next

LEMMA InvarianteSempre == Spec => []Invariante
BY InvarianteInicial, InvarianteMantido, PTL DEF Spec

-----------------------------------------------------------------------------
(***************************************************************************)
(* A handler of several steps keeps its place in g[c].  Entry i is past D  *)
(* when it was delivered, and a replica that still has it in hand has it   *)
(* at the head of its batch, with the handler at a place in D.  Once past, *)
(* an entry stays past: this is how at-most-once becomes "the effect of a  *)
(* step happens once per message" in the services built on the bus.        *)
(***************************************************************************)
Passou(f, l, g, D, i) ==
    /\ i \in 1 .. f.entregue
    /\ \A c \in Replicas : i \in l[c] => i = Cabeca(l[c]) /\ g[c] \in D

(* The handler at work on an entry tells whether the entry is past.        *)
LEMMA CabecaPassou ==
    ASSUME Invariante, NEW c \in Replicas, lote[c] # {}, NEW g, NEW D
    PROVE  /\ Cabeca(lote[c]) \in lote[c]
           /\ Cabeca(lote[c]) \in 1 .. fluxo.entregue
           /\ Cabeca(lote[c]) \in 1 .. Len(fluxo.itens)
           /\ Passou(fluxo, lote, g, D, Cabeca(lote[c])) <=> g[c] \in D
<1> DEFINE k == Cabeca(lote[c])
<1>1. fluxo \in Fluxos(Mensagens) /\ lote \in [Replicas -> SUBSET Nat]
  BY DEF Invariante, TypeOK
<1>2. k \in lote[c]
  BY <1>1, CabecaEhDoLote
<1>3. k \in 1 .. fluxo.entregue
  BY <1>2 DEF Invariante, PosseUnica
<1>4. fluxo.entregue \in Nat /\ Len(fluxo.itens) \in Nat /\ fluxo.entregue <= Len(fluxo.itens)
  BY <1>1 DEF Fluxos, Invariante, FluxoCoerente
<1>5. k \in 1 .. Len(fluxo.itens)
  BY <1>3, <1>4
<1>6. \A d \in Replicas : d # c => k \notin lote[d]
  BY <1>2 DEF Invariante, PosseUnica
<1>7. Passou(fluxo, lote, g, D, k) <=> g[c] \in D
  BY <1>2, <1>3, <1>6 DEF Passou
<1> QED BY <1>2, <1>3, <1>5, <1>7

(* Reading brings only entries never delivered before.                     *)
LEMMA PassouAoLer ==
    ASSUME Invariante, NEW c \in Replicas, Ler(c) \/ LeituraPerdida(c),
           NEW g, NEW D, NEW i, Passou(fluxo, lote, g, D, i)
    PROVE  Passou(fluxo', lote', g, D, i)
<1>1. fluxo \in Fluxos(Mensagens) /\ lote \in [Replicas -> SUBSET Nat]
      /\ FluxoCoerente(fluxo) /\ fluxo.entregue \in Nat
  BY DEF Invariante, TypeOK, Fluxos
<1>2. fluxo' \in Fluxos(Mensagens) /\ fluxo'.entregue >= fluxo.entregue
  BY <1>1, XReadGroupCoerente DEF Ler, LeituraPerdida
<1>3. i \in 1 .. fluxo'.entregue
  BY <1>1, <1>2 DEF Passou, Fluxos
<1>4. i \notin Legiveis(fluxo)
  BY <1>1, LegiveisNovas DEF Passou
<1>5. \A d \in Replicas : lote'[d] = lote[d] \/ lote'[d] = Legiveis(fluxo)
  BY <1>1 DEF Ler, LeituraPerdida
<1> QED BY <1>3, <1>4, <1>5 DEF Passou

(* The end of a handler, well or badly, and a crash take entries away, and *)
(* an entry that was past can only have been the head.                     *)
LEMMA PassouAoLargar ==
    ASSUME Invariante, NEW c \in Replicas, Concluir(c) \/ Falhar(c) \/ Reiniciar(c),
           NEW g, NEW h, \A d \in Replicas : d # c => h[d] = g[d],
           NEW D, NEW i, Passou(fluxo, lote, g, D, i)
    PROVE  Passou(fluxo', lote', h, D, i)
<1>1. fluxo \in Fluxos(Mensagens) /\ lote \in [Replicas -> SUBSET Nat]
  BY DEF Invariante, TypeOK
<1>2. fluxo'.entregue = fluxo.entregue
  BY <1>1 DEF Concluir, Falhar, Reiniciar, XAck, Fluxos
<1>3. /\ lote'[c] \subseteq lote[c] \ {Cabeca(lote[c])}
      /\ \A d \in Replicas : d # c => lote'[d] = lote[d]
  BY <1>1 DEF Concluir, Falhar, Reiniciar
<1> QED BY <1>2, <1>3 DEF Passou

(* The handler of c goes on: an entry stays past what c does not leave.    *)
LEMMA PassouAoAndar ==
    ASSUME NEW c \in Replicas, fluxo'.entregue = fluxo.entregue, lote' = lote,
           NEW g, NEW h, \A d \in Replicas : d # c => h[d] = g[d],
           NEW D, g[c] \in D => h[c] \in D, NEW i, Passou(fluxo, lote, g, D, i)
    PROVE  Passou(fluxo', lote', h, D, i)
BY DEF Passou

-----------------------------------------------------------------------------
(***************************************************************************)
(* A service built on the bus: g[c] is the place of c's handler, "livre"   *)
(* between messages.  In one step somebody publishes, with the XADD sent   *)
(* once or again, or one replica reads, or goes on within its handler, by  *)
(* a move of P, or ends it; only at "confirmar" is there an                *)
(* acknowledgement.                                                        *)
(***************************************************************************)
PassoDoServico(g, h, P) ==
    \/ /\ h = g /\ lote' = lote
       /\ fluxo' = fluxo \/ \E m \in Mensagens : fluxo' \in Publicacoes(fluxo, m, TRUE)
    \/ \E c \in Replicas :
          /\ \A d \in Replicas : d # c => h[d] = g[d]
          /\ \/ /\ Ler(c) \/ LeituraPerdida(c)
                /\ h[c] = g[c]
             \/ /\ lote[c] # {} /\ UNCHANGED <<fluxo, lote>>
                /\ <<g[c], h[c]>> \in P
             \/ /\ Falhar(c) \/ Reiniciar(c) \/ (g[c] = "confirmar" /\ Concluir(c))
                /\ h[c] = "livre"

(* The handlers at work have a message in hand.                            *)
Ocupados(g) == \A c \in Replicas : g[c] # "livre" => lote[c] # {}

SemRepeticao == \A i, j \in 1 .. Len(fluxo.itens) : fluxo.itens[i] = fluxo.itens[j] => i = j

(* Some entry of message m is past D.                                      *)
Passada(f, l, g, D, m) ==
    \E i \in 1 .. Len(f.itens) : f.itens[i] = m /\ Passou(f, l, g, D, i)

(* XADD, whatever number of entries there are.                             *)
LEMMA XAddPreserva ==
    ASSUME Invariante, NEW m \in Mensagens, fluxo' \in XAdd(fluxo, m), UNCHANGED lote
    PROVE  /\ Invariante'
           /\ fluxo'.itens = Append(fluxo.itens, m)
           /\ fluxo'.entregue = fluxo.entregue
           /\ fluxo'.confirmadas = fluxo.confirmadas
<1> USE DEF Invariante
<1>1. /\ fluxo' \in Fluxos(Mensagens)
      /\ FluxoCoerente(fluxo')
      /\ fluxo'.itens = Append(fluxo.itens, m)
      /\ fluxo'.entregue = fluxo.entregue
      /\ fluxo'.pendentes = fluxo.pendentes
      /\ fluxo'.confirmadas = fluxo.confirmadas
  BY XAddCoerente DEF TypeOK
<1>2. TypeOK'
  BY <1>1 DEF TypeOK
<1>3. PosseUnica'
  BY <1>1 DEF PosseUnica
<1> QED BY <1>1, <1>2, <1>3

(* A publication is one XADD or two of the same entry.                     *)
LEMMA PublicacoesPreserva ==
    ASSUME Invariante, NEW m \in Mensagens, fluxo' \in Publicacoes(fluxo, m, TRUE),
           UNCHANGED lote
    PROVE  /\ Invariante'
           /\ fluxo'.itens \in {Append(fluxo.itens, m), Append(Append(fluxo.itens, m), m)}
           /\ \A i \in 1 .. Len(fluxo.itens) :
                  i \in 1 .. Len(fluxo'.itens) /\ fluxo'.itens[i] = fluxo.itens[i]
           /\ \E i \in 1 .. Len(fluxo'.itens) : fluxo'.itens[i] = m
           /\ fluxo'.entregue = fluxo.entregue
           /\ fluxo'.confirmadas = fluxo.confirmadas
<1> DEFINE s == fluxo.itens
           t == Append(s, m)
           u == Append(t, m)
<1>1. /\ fluxo \in Fluxos(Mensagens) /\ FluxoCoerente(fluxo)
      /\ s \in Seq(Mensagens) /\ Len(s) \in Nat
  BY DEF Invariante, TypeOK, Fluxos
<1>2. /\ t \in Seq(Mensagens) /\ Len(t) = Len(s) + 1 /\ t[Len(s) + 1] = m
      /\ \A i \in 1 .. Len(s) : t[i] = s[i]
  BY <1>1
<1>3. /\ u \in Seq(Mensagens) /\ Len(u) = Len(t) + 1
      /\ \A i \in 1 .. Len(t) : u[i] = t[i]
  BY <1>2
<1> HIDE DEF s, t, u
<1>4. /\ fluxo' \in Fluxos(Mensagens) /\ FluxoCoerente(fluxo')
      /\ fluxo'.itens \in {t, u}
      /\ fluxo'.entregue = fluxo.entregue
      /\ fluxo'.pendentes = fluxo.pendentes
      /\ fluxo'.confirmadas = fluxo.confirmadas
  <2>1. CASE fluxo' \in XAdd(fluxo, m)
    BY <1>1, <2>1, XAddCoerente DEF t, s
  <2>2. CASE fluxo' \notin XAdd(fluxo, m)
    <3>1. PICK g \in XAdd(fluxo, m) : fluxo' \in XAdd(g, m)
      BY <2>2 DEF Publicacoes
    <3>2. /\ g \in Fluxos(Mensagens) /\ FluxoCoerente(g) /\ g.itens = t
          /\ g.entregue = fluxo.entregue
          /\ g.pendentes = fluxo.pendentes
          /\ g.confirmadas = fluxo.confirmadas
      BY <1>1, XAddCoerente DEF t, s
    <3>3. /\ fluxo' \in Fluxos(Mensagens) /\ FluxoCoerente(fluxo')
          /\ fluxo'.itens = Append(g.itens, m)
          /\ fluxo'.entregue = g.entregue
          /\ fluxo'.pendentes = g.pendentes
          /\ fluxo'.confirmadas = g.confirmadas
      BY <3>1, <3>2, XAddCoerente
    <3> QED BY <3>2, <3>3 DEF u
  <2> QED BY <2>1, <2>2
<1>5. Invariante'
  BY <1>4 DEF Invariante, TypeOK, PosseUnica
<1>6. \A i \in 1 .. Len(s) : i \in 1 .. Len(fluxo'.itens) /\ fluxo'.itens[i] = s[i]
  BY <1>1, <1>2, <1>3, <1>4
<1>7. \E i \in 1 .. Len(fluxo'.itens) : fluxo'.itens[i] = m
  <2>1. PICK i : i = Len(s) + 1
    OBVIOUS
  <2>2. i \in 1 .. Len(fluxo'.itens) /\ fluxo'.itens[i] = m
    BY <1>1, <1>2, <1>3, <1>4, <2>1
  <2> QED BY <2>2
<1> QED BY <1>4, <1>5, <1>6, <1>7 DEF s, t, u

(* The replicas of a service add nothing to the stream they read, and      *)
(* acknowledge only the head of a batch.                                   *)
LEMMA GrupoNaoEscreve ==
    ASSUME Invariante, NEW c \in Replicas,
           \/ Ler(c) \/ LeituraPerdida(c) \/ Concluir(c) \/ Falhar(c) \/ Reiniciar(c)
    PROVE  /\ Invariante'
           /\ fluxo'.itens = fluxo.itens
           /\ fluxo'.confirmadas \subseteq
                  IF Concluir(c) THEN fluxo.confirmadas \cup {Cabeca(lote[c])}
                  ELSE fluxo.confirmadas
<1>1. Next
  BY DEF Next
<1>2. fluxo \in Fluxos(Mensagens)
  BY DEF Invariante, TypeOK
<1>3. /\ fluxo'.itens = fluxo.itens
      /\ \/ fluxo'.confirmadas = fluxo.confirmadas
         \/ Concluir(c) /\ fluxo'.confirmadas = fluxo.confirmadas \cup {Cabeca(lote[c])}
  BY <1>2 DEF Ler, LeituraPerdida, Concluir, Falhar, Reiniciar, XReadGroup, XAck, Fluxos
<1> QED BY <1>1, <1>3, InvarianteMantido

LEMMA ServicoPreserva ==
    ASSUME Invariante, NEW g, NEW h, NEW P, Ocupados(g), PassoDoServico(g, h, P),
           \A p \in P : p[1] = "livre" \/ p[2] # "livre"
    PROVE  /\ Invariante'
           /\ \A c \in Replicas : h[c] # "livre" => lote'[c] # {}
<1>0. lote \in [Replicas -> SUBSET Nat]
  BY DEF Invariante, TypeOK
<1>1. CASE h = g /\ UNCHANGED <<fluxo, lote>>
  BY <1>1 DEF Invariante, TypeOK, PosseUnica, Ocupados
<1>2. ASSUME h = g, UNCHANGED lote, NEW m \in Mensagens,
             fluxo' \in Publicacoes(fluxo, m, TRUE)
      PROVE  /\ Invariante'
             /\ \A c \in Replicas : h[c] # "livre" => lote'[c] # {}
  BY <1>2, PublicacoesPreserva DEF Ocupados
<1>3. ASSUME NEW c \in Replicas, \A d \in Replicas : d # c => h[d] = g[d],
             \/ (Ler(c) \/ LeituraPerdida(c)) /\ h[c] = g[c]
             \/ lote[c] # {} /\ UNCHANGED <<fluxo, lote>> /\ <<g[c], h[c]>> \in P
             \/ /\ Falhar(c) \/ Reiniciar(c) \/ (g[c] = "confirmar" /\ Concluir(c))
                /\ h[c] = "livre"
      PROVE  /\ Invariante'
             /\ \A d \in Replicas : h[d] # "livre" => lote'[d] # {}
  <2>1. Invariante'
    <3>1. CASE UNCHANGED <<fluxo, lote>>
      BY <3>1 DEF Invariante, TypeOK, PosseUnica
    <3>2. CASE ~UNCHANGED <<fluxo, lote>>
      BY <1>3, <3>2, GrupoNaoEscreve
    <3> QED BY <3>1, <3>2
  <2>2. \A d \in Replicas : d # c => lote'[d] = lote[d]
    BY <1>0, <1>3 DEF Ler, LeituraPerdida, Falhar, Reiniciar, Concluir
  <2>3. h[c] # "livre" => lote'[c] # {}
    BY <1>0, <1>3 DEF Ler, LeituraPerdida, Falhar, Reiniciar, Concluir, Ocupados
  <2> QED BY <1>3, <2>1, <2>2, <2>3 DEF Ocupados
<1> QED BY <1>1, <1>2, <1>3 DEF PassoDoServico

(* What was in the stream stays where it was, and what is past stays past  *)
(* a set of places that no move leaves.                                    *)
LEMMA ServicoSegue ==
    ASSUME Invariante, NEW g, NEW h, NEW P, PassoDoServico(g, h, P)
    PROVE  /\ \A i \in 1 .. Len(fluxo.itens) :
                  i \in 1 .. Len(fluxo'.itens) /\ fluxo'.itens[i] = fluxo.itens[i]
           /\ \A D, m : (\A p \in P : p[1] \in D => p[2] \in D)
                            /\ Passada(fluxo, lote, g, D, m)
                                => Passada(fluxo', lote', h, D, m)
<1>0. fluxo.itens \in Seq(Mensagens) /\ Len(fluxo.itens) \in Nat
  BY DEF Invariante, TypeOK, Fluxos
<1>1. ASSUME fluxo'.itens # fluxo.itens
      PROVE  \A i \in 1 .. Len(fluxo.itens) :
                 i \in 1 .. Len(fluxo'.itens) /\ fluxo'.itens[i] = fluxo.itens[i]
  BY <1>1, PublicacoesPreserva, GrupoNaoEscreve DEF PassoDoServico
<1>2. \A i \in 1 .. Len(fluxo.itens) :
          i \in 1 .. Len(fluxo'.itens) /\ fluxo'.itens[i] = fluxo.itens[i]
  BY <1>0, <1>1
<1>3. ASSUME NEW D, NEW i, \A p \in P : p[1] \in D => p[2] \in D,
             Passou(fluxo, lote, g, D, i)
      PROVE  Passou(fluxo', lote', h, D, i)
  <2>1. CASE h = g /\ lote' = lote /\ fluxo' = fluxo
    BY <1>3, <2>1
  <2>2. ASSUME h = g, UNCHANGED lote, NEW m \in Mensagens,
               fluxo' \in Publicacoes(fluxo, m, TRUE)
        PROVE  Passou(fluxo', lote', h, D, i)
    BY <1>3, <2>2, PublicacoesPreserva DEF Passou
  <2>3. ASSUME NEW c \in Replicas, \A d \in Replicas : d # c => h[d] = g[d],
               Ler(c) \/ LeituraPerdida(c), h[c] = g[c]
        PROVE  Passou(fluxo', lote', h, D, i)
    <3>1. Passou(fluxo', lote', g, D, i)
      BY <1>3, <2>3, PassouAoLer
    <3> QED BY <2>3, <3>1 DEF Passou
  <2>4. ASSUME NEW c \in Replicas, \A d \in Replicas : d # c => h[d] = g[d],
               UNCHANGED <<fluxo, lote>>, <<g[c], h[c]>> \in P
        PROVE  Passou(fluxo', lote', h, D, i)
    BY <1>3, <2>4, PassouAoAndar
  <2>5. ASSUME NEW c \in Replicas, \A d \in Replicas : d # c => h[d] = g[d],
               Concluir(c) \/ Falhar(c) \/ Reiniciar(c)
        PROVE  Passou(fluxo', lote', h, D, i)
    BY <1>3, <2>5, PassouAoLargar
  <2> QED BY <2>1, <2>2, <2>3, <2>4, <2>5 DEF PassoDoServico
<1>4. ASSUME NEW D, NEW m, \A p \in P : p[1] \in D => p[2] \in D,
             Passada(fluxo, lote, g, D, m)
      PROVE  Passada(fluxo', lote', h, D, m)
  BY <1>2, <1>3, <1>4 DEF Passada
<1> QED BY <1>2, <1>4

(* The message a handler works on is one of those in the stream.           *)
LEMMA CabecaNoFluxo ==
    ASSUME Invariante, NEW c \in Replicas, lote[c] # {}
    PROVE  /\ fluxo.itens[Cabeca(lote[c])] \in Mensagens
           /\ Cabeca(lote[c]) \in 1 .. Len(fluxo.itens)
<1>1. PICK k : k = Cabeca(lote[c])
  OBVIOUS
<1>2. k \in 1 .. Len(fluxo.itens) /\ fluxo.itens \in Seq(Mensagens)
  BY <1>1, CabecaPassou DEF Invariante, TypeOK, Fluxos
<1> QED BY <1>1, <1>2

(* If no other entry has it, it is past exactly the places its handler is  *)
(* at.                                                                     *)
LEMMA CabecaPassada ==
    ASSUME Invariante, SemRepeticao, NEW c \in Replicas, lote[c] # {}, NEW g
    PROVE  LET m == fluxo.itens[Cabeca(lote[c])]
           IN  /\ m \in Mensagens
               /\ Cabeca(lote[c]) \in 1 .. Len(fluxo.itens)
               /\ \A D : Passada(fluxo, lote, g, D, m) <=> g[c] \in D
<1>1. PICK k : k = Cabeca(lote[c])
  OBVIOUS
<1>2. k \in 1 .. Len(fluxo.itens) /\ fluxo.itens \in Seq(Mensagens)
  BY <1>1, CabecaPassou DEF Invariante, TypeOK, Fluxos
<1>3. \A D : Passou(fluxo, lote, g, D, k) <=> g[c] \in D
  BY <1>1, CabecaPassou
<1>4. \A D : Passada(fluxo, lote, g, D, fluxo.itens[k]) <=> g[c] \in D
  BY <1>2, <1>3 DEF Passada, SemRepeticao
<1> QED BY <1>1, <1>2, <1>4

(* The message a handler was at work on is past the place it moves to, and *)
(* past any when the handler ends.                                         *)
LEMMA CabecaFica ==
    ASSUME Invariante, NEW c \in Replicas, lote[c] # {}, NEW h, NEW D,
           \/ UNCHANGED <<fluxo, lote>> /\ h[c] \in D
           \/ Concluir(c) \/ Falhar(c) \/ Reiniciar(c)
    PROVE  Passada(fluxo', lote', h, D, fluxo.itens[Cabeca(lote[c])])
<1>1. PICK k : k = Cabeca(lote[c])
  OBVIOUS
<1>2. fluxo \in Fluxos(Mensagens) /\ lote \in [Replicas -> SUBSET Nat]
  BY DEF Invariante, TypeOK
<1>3. /\ k \in lote[c] /\ k \in 1 .. fluxo.entregue /\ k \in 1 .. Len(fluxo.itens)
      /\ \A d \in Replicas : d # c => k \notin lote[d]
  BY <1>1, CabecaPassou DEF Invariante, PosseUnica
<1>4. fluxo'.itens = fluxo.itens /\ fluxo'.entregue = fluxo.entregue
  BY <1>2 DEF Concluir, Falhar, Reiniciar, XAck, Fluxos
<1>5. /\ \A d \in Replicas : d # c => lote'[d] = lote[d]
      /\ \/ lote'[c] = lote[c] /\ h[c] \in D
         \/ k \notin lote'[c]
  BY <1>1, <1>2 DEF Concluir, Falhar, Reiniciar
<1>6. Passou(fluxo', lote', h, D, k)
  BY <1>1, <1>3, <1>4, <1>5 DEF Passou
<1> QED BY <1>1, <1>3, <1>4, <1>6 DEF Passada

(* A handler at a place other than "livre" has the message it had when it  *)
(* came there.                                                             *)
LEMMA NoLugar ==
    ASSUME Invariante, NEW g, NEW h, NEW P, Ocupados(g), PassoDoServico(g, h, P),
           NEW c \in Replicas, h[c] # "livre"
    PROVE  /\ lote[c] # {}
           /\ fluxo'.itens[Cabeca(lote'[c])] = fluxo.itens[Cabeca(lote[c])]
<1>0. lote \in [Replicas -> SUBSET Nat]
  BY DEF Invariante, TypeOK
<1>1. lote'[c] = lote[c] /\ lote[c] # {}
  BY <1>0 DEF PassoDoServico, Ocupados, Ler, LeituraPerdida, Falhar, Reiniciar, Concluir
<1>2. PICK k : k = Cabeca(lote[c])
  OBVIOUS
<1>3. k \in 1 .. Len(fluxo.itens)
  BY <1>1, <1>2, CabecaPassou
<1>4. fluxo'.itens[k] = fluxo.itens[k]
  BY <1>3, ServicoSegue
<1> QED BY <1>1, <1>2, <1>4

LEMMA ConfirmadasNoFluxo ==
    Invariante => \A i \in fluxo.confirmadas : i \in 1 .. Len(fluxo.itens)
<1> SUFFICES ASSUME Invariante, NEW i \in fluxo.confirmadas
             PROVE  i \in 1 .. Len(fluxo.itens)
  OBVIOUS
<1>1. /\ fluxo.entregue \in Nat /\ Len(fluxo.itens) \in Nat
      /\ fluxo.entregue <= Len(fluxo.itens) /\ i \in 1 .. fluxo.entregue
  BY DEF Invariante, TypeOK, Fluxos, FluxoCoerente
<1> QED BY <1>1

(* Only a handler at "confirmar" adds to the acknowledged entries, and it  *)
(* adds its own.                                                           *)
LEMMA NovaConfirmada ==
    ASSUME Invariante, NEW g, NEW h, NEW P, PassoDoServico(g, h, P),
           NEW i \in fluxo'.confirmadas, i \notin fluxo.confirmadas
    PROVE  \E c \in Replicas : g[c] = "confirmar" /\ lote[c] # {} /\ i = Cabeca(lote[c])
<1>1. ~(fluxo' = fluxo)
  OBVIOUS
<1>2. ~\E m \in Mensagens : lote' = lote /\ fluxo' \in Publicacoes(fluxo, m, TRUE)
  BY PublicacoesPreserva
<1>3. PICK c \in Replicas :
          \/ Ler(c) \/ LeituraPerdida(c) \/ Falhar(c) \/ Reiniciar(c)
          \/ g[c] = "confirmar" /\ Concluir(c)
  BY <1>1, <1>2 DEF PassoDoServico
<1>4. Concluir(c) /\ i = Cabeca(lote[c])
  BY <1>3, GrupoNaoEscreve
<1>5. lote \in [Replicas -> SUBSET Nat]
  BY DEF Invariante, TypeOK
<1>6. ~Ler(c) /\ ~LeituraPerdida(c)
  BY <1>4 DEF Concluir, Ler, LeituraPerdida
<1>7. ~Falhar(c) /\ ~Reiniciar(c)
  BY <1>1 DEF Falhar, Reiniciar
<1> QED BY <1>3, <1>4, <1>6, <1>7 DEF Concluir

-----------------------------------------------------------------------------
(* The stream, its group and the batches keep their types.                 *)
THEOREM TiposCertos == Spec => []TypeOK
BY InvarianteSempre, PTL DEF Invariante

(***************************************************************************)
(* Every entry in a replica's hands is pending, delivered, and in no other *)
(* replica's hands, however many replicas the service has.                 *)
(***************************************************************************)
THEOREM PosseSempreUnica == Spec => []PosseUnica
BY InvarianteSempre, PTL DEF Invariante

(***************************************************************************)
(* At-most-once: what a step puts in a replica's hands was never delivered *)
(* before.                                                                 *)
(***************************************************************************)
THEOREM NuncaEntregueDeNovo == Spec => NuncaReentregue
<1> DEFINE SoNovas == \A c \in Replicas : \A i \in lote'[c] \ lote[c] : i > fluxo.entregue
<1>1. Invariante /\ [Next]_vars => [SoNovas]_vars
  <2> SUFFICES ASSUME Invariante, Next, NEW c \in Replicas, NEW i \in lote'[c] \ lote[c]
               PROVE  i > fluxo.entregue
    OBVIOUS
  <2>1. fluxo \in Fluxos(Mensagens) /\ lote \in [Replicas -> SUBSET Nat]
    BY DEF Invariante, TypeOK
  <2>2. \A d \in Replicas : ~(Concluir(d) \/ Falhar(d) \/ Reiniciar(d))
    BY <2>1 DEF Concluir, Falhar, Reiniciar
  <2>3. \A m \in Mensagens : ~Publicar(m)
    BY DEF Publicar
  <2>4. \A d \in Replicas : ~LeituraPerdida(d)
    BY DEF LeituraPerdida
  <2>5. PICK d \in Replicas : Ler(d)
    BY <2>2, <2>3, <2>4 DEF Next
  <2>6. i \in Legiveis(fluxo)
    BY <2>1, <2>5 DEF Ler
  <2> QED BY <2>1, <2>6, LegiveisNovas DEF Invariante
<1> QED BY <1>1, InvarianteSempre, PTL DEF Spec, NuncaReentregue

-----------------------------------------------------------------------------
(* How each action moves one message already in the stream.                *)
LEMMA PassoDaMensagem ==
    ASSUME Invariante, Next, NEW i \in 1 .. Len(fluxo.itens)
    PROVE  <<SituacaoDe(i), SituacaoDe(i)'>> \in E!Passos
<1> USE DEF E!Passos, E!Situacoes
<1>0. /\ fluxo \in Fluxos(Mensagens) /\ lote \in [Replicas -> SUBSET Nat]
      /\ FluxoCoerente(fluxo) /\ PosseUnica
      /\ fluxo.entregue \in Nat /\ fluxo.corte \in Nat
      /\ i \in Nat
      /\ fluxo.pendentes \subseteq Nat
  BY DEF Invariante, TypeOK, Fluxos
<1>1. SituacaoDe(i) \in E!Situacoes
  BY DEF SituacaoDe
<1>2. \A s : s = SituacaoDe(i) => <<s, s>> \in E!Passos
  BY <1>1
<1>3. i > Maior(fluxo.entregue, fluxo.corte) <=> i > fluxo.entregue /\ i > fluxo.corte
  BY <1>0 DEF Maior
<1>4. i \in fluxo.confirmadas \/ EmMaos(i) \/ i \in fluxo.pendentes => ~(i > fluxo.entregue)
  BY <1>0 DEF FluxoCoerente, PosseUnica, EmMaos
<1>5. ASSUME NEW m \in Mensagens, Publicar(m)
      PROVE  <<SituacaoDe(i), SituacaoDe(i)'>> \in E!Passos
  <2>1. /\ fluxo'.confirmadas = fluxo.confirmadas
        /\ fluxo'.pendentes = fluxo.pendentes
        /\ fluxo'.entregue = fluxo.entregue
        /\ fluxo'.corte >= fluxo.corte
        /\ fluxo'.corte \in Nat
    BY <1>0, <1>5, XAddCoerente DEF Publicar, Fluxos
  <2>2. EmMaos(i)' <=> EmMaos(i)
    BY <1>5 DEF Publicar, EmMaos
  <2>3. i > Maior(fluxo.entregue, fluxo.corte)' => i > Maior(fluxo.entregue, fluxo.corte)
    BY <1>0, <1>3, <2>1 DEF Maior
  <2> QED BY <2>1, <2>2, <2>3 DEF SituacaoDe
<1>6. ASSUME NEW c \in Replicas, Ler(c) \/ LeituraPerdida(c)
      PROVE  <<SituacaoDe(i), SituacaoDe(i)'>> \in E!Passos
  <2>1. fluxo' = XReadGroup(fluxo)
    BY <1>6 DEF Ler, LeituraPerdida
  <2>2. /\ fluxo'.confirmadas = fluxo.confirmadas
        /\ fluxo'.pendentes = fluxo.pendentes \cup Legiveis(fluxo)
        /\ fluxo'.corte = fluxo.corte
        /\ fluxo'.entregue >= fluxo.entregue
        /\ fluxo'.entregue >= fluxo.corte
        /\ fluxo'.entregue \in Nat
    BY <1>0, <2>1, XReadGroupCoerente DEF Fluxos
  <2>3. i > Maior(fluxo.entregue, fluxo.corte)' <=> i > fluxo'.entregue
    BY <1>0, <2>2 DEF Maior
  <2>4. i \in Legiveis(fluxo) <=> i > fluxo.entregue /\ i > fluxo.corte /\ i <= fluxo'.entregue
    BY <1>0, <2>1, LegiveisNovas
  <2>5. /\ EmMaos(i) => EmMaos(i)'
        /\ EmMaos(i)' => EmMaos(i) \/ i \in Legiveis(fluxo)
    <3>1. CASE Ler(c)
      <4>1. \A d \in Replicas : lote'[d] = IF d = c THEN Legiveis(fluxo) ELSE lote[d]
        BY <1>0, <3>1 DEF Ler
      <4>2. lote[c] = {}
        BY <3>1 DEF Ler
      <4> QED BY <4>1, <4>2 DEF EmMaos
    <3>2. CASE LeituraPerdida(c)
      BY <3>2 DEF LeituraPerdida, EmMaos
    <3> QED BY <1>6, <3>1, <3>2
  <2>6. CASE i \in Legiveis(fluxo)
    <3>1. SituacaoDe(i) = "nova"
      BY <1>0, <1>3, <1>4, <2>4, <2>6 DEF SituacaoDe
    <3>2. SituacaoDe(i)' \in {"emMaos", "abandonada"}
      BY <1>0, <1>4, <2>2, <2>4, <2>6 DEF SituacaoDe
    <3> QED BY <3>1, <3>2
  <2>7. CASE i \notin Legiveis(fluxo)
    <3>1. EmMaos(i)' <=> EmMaos(i)
      BY <2>5, <2>7
    <3>2. i > Maior(fluxo.entregue, fluxo.corte)' <=> i > Maior(fluxo.entregue, fluxo.corte)
      BY <1>0, <1>3, <2>2, <2>3, <2>4, <2>7
    <3>3. i \in fluxo'.pendentes <=> i \in fluxo.pendentes
      BY <2>2, <2>7
    <3>4. SituacaoDe(i)' = SituacaoDe(i)
      BY <2>2, <3>1, <3>2, <3>3 DEF SituacaoDe
    <3> QED BY <1>2, <3>4
  <2> QED BY <2>6, <2>7
<1>7. ASSUME NEW c \in Replicas, Concluir(c)
      PROVE  <<SituacaoDe(i), SituacaoDe(i)'>> \in E!Passos
  <2> DEFINE k == Cabeca(lote[c])
  <2>1. k \in lote[c] /\ k \in fluxo.pendentes /\ k \notin fluxo.confirmadas
    BY <1>0, <1>7, CabecaEhDoLote DEF Concluir, PosseUnica, FluxoCoerente
  <2>2. fluxo' = XAck(fluxo, k) /\ lote' = [lote EXCEPT ![c] = @ \ {k}]
    BY <1>7 DEF Concluir
  <2> HIDE DEF k
  <2>3. /\ fluxo'.confirmadas = fluxo.confirmadas \cup {k}
        /\ fluxo'.pendentes = fluxo.pendentes \ {k}
        /\ fluxo'.corte = fluxo.corte
        /\ fluxo'.entregue = fluxo.entregue
    BY <1>0, <2>1, <2>2, XAckCoerente
  <2>4. \A d \in Replicas : lote'[d] = IF d = c THEN lote[d] \ {k} ELSE lote[d]
    BY <1>0, <2>2
  <2>5. CASE i = k
    <3>1. SituacaoDe(i) = "emMaos"
      BY <2>1, <2>5 DEF SituacaoDe, EmMaos
    <3>2. SituacaoDe(i)' = "confirmada"
      BY <2>3, <2>5 DEF SituacaoDe
    <3> QED BY <3>1, <3>2
  <2>6. CASE i # k
    <3>1. EmMaos(i)' <=> EmMaos(i)
      BY <2>4, <2>6 DEF EmMaos
    <3>2. SituacaoDe(i)' = SituacaoDe(i)
      BY <2>3, <2>6, <3>1 DEF SituacaoDe
    <3> QED BY <1>2, <3>2
  <2> QED BY <2>5, <2>6
<1>8. ASSUME NEW c \in Replicas, Falhar(c) \/ Reiniciar(c)
      PROVE  <<SituacaoDe(i), SituacaoDe(i)'>> \in E!Passos
  <2>1. fluxo' = fluxo
    BY <1>8 DEF Falhar, Reiniciar
  <2>2. \A d \in Replicas : lote'[d] \subseteq lote[d] /\ (d # c => lote'[d] = lote[d])
    BY <1>0, <1>8 DEF Falhar, Reiniciar
  <2>3. CASE EmMaos(i)' <=> EmMaos(i)
    <3>1. SituacaoDe(i)' = SituacaoDe(i)
      BY <2>1, <2>3 DEF SituacaoDe
    <3> QED BY <1>2, <3>1
  <2>4. CASE ~(EmMaos(i)' <=> EmMaos(i))
    <3>1. EmMaos(i) /\ ~EmMaos(i)'
      BY <2>2, <2>4 DEF EmMaos
    <3>2. i \in fluxo.pendentes /\ i \notin fluxo.confirmadas
      BY <1>0, <3>1 DEF EmMaos, PosseUnica, FluxoCoerente
    <3>3. SituacaoDe(i) = "emMaos" /\ SituacaoDe(i)' = "abandonada"
      BY <2>1, <3>1, <3>2 DEF SituacaoDe
    <3> QED BY <3>3
  <2> QED BY <2>3, <2>4
<1> QED BY <1>5, <1>6, <1>7, <1>8 DEF Next

(* Publish brings one new message; nothing else changes how many there are *)
LEMMA ChegaUmaNova ==
    ASSUME Invariante, Next
    PROVE  \/ Len(fluxo'.itens) = Len(fluxo.itens)
           \/ /\ Len(fluxo'.itens) = Len(fluxo.itens) + 1
              /\ \A i : i = Len(fluxo'.itens) => SituacaoDe(i)' = "nova"
<1>1. /\ fluxo \in Fluxos(Mensagens) /\ lote \in [Replicas -> SUBSET Nat]
      /\ FluxoCoerente(fluxo) /\ PosseUnica
      /\ Len(fluxo.itens) \in Nat /\ fluxo.entregue \in Nat
      /\ MaxLen \in Nat \ {0}
  BY FluxoAssumption DEF Invariante, TypeOK, Fluxos
<1>2. ASSUME NEW m \in Mensagens, Publicar(m)
      PROVE  /\ Len(fluxo'.itens) = Len(fluxo.itens) + 1
             /\ \A i : i = Len(fluxo'.itens) => SituacaoDe(i)' = "nova"
  <2>1. /\ fluxo' \in Fluxos(Mensagens)
        /\ FluxoCoerente(fluxo')
        /\ Len(fluxo'.itens) = Len(fluxo.itens) + 1
        /\ fluxo'.confirmadas = fluxo.confirmadas
        /\ fluxo'.pendentes = fluxo.pendentes
        /\ fluxo'.entregue = fluxo.entregue
    BY <1>1, <1>2, XAddCoerente DEF Publicar
  <2> SUFFICES ASSUME NEW i, i = Len(fluxo'.itens) PROVE SituacaoDe(i)' = "nova"
    BY <2>1
  <2>2. i \in Nat /\ i > fluxo.entregue /\ fluxo'.corte \in Nat /\ i > fluxo'.corte
    BY <1>1, <2>1 DEF FluxoCoerente, Fluxos
  <2>3. i \notin fluxo.pendentes /\ i \notin fluxo.confirmadas
    BY <1>1, <2>2 DEF FluxoCoerente
  <2>4. ~EmMaos(i)'
    BY <1>1, <1>2, <2>3 DEF EmMaos, PosseUnica, Publicar
  <2>5. i > Maior(fluxo.entregue, fluxo.corte)'
    BY <1>1, <2>1, <2>2 DEF Maior
  <2> QED BY <2>1, <2>3, <2>4, <2>5 DEF SituacaoDe
<1>3. ASSUME NEW c \in Replicas,
             Ler(c) \/ LeituraPerdida(c) \/ Concluir(c) \/ Falhar(c) \/ Reiniciar(c)
      PROVE  Len(fluxo'.itens) = Len(fluxo.itens)
  <2>1. fluxo' \in {XReadGroup(fluxo), fluxo, XAck(fluxo, Cabeca(lote[c]))}
    BY <1>3 DEF Ler, LeituraPerdida, Concluir, Falhar, Reiniciar
  <2> QED BY <1>1, <2>1 DEF XReadGroup, XAck, Fluxos
<1> QED BY <1>2, <1>3 DEF Next

(***************************************************************************)
(* The consume loop implements at-most-once delivery, as Entrega has it.   *)
(***************************************************************************)
THEOREM ConsumidoresImplementaEntrega == Spec => ImplementaEntrega
<1>1. Init => E!Init
  <2>1. Init => SituacaoDasMensagens = << >>
    BY DEF Init, FluxoVazio, SituacaoDasMensagens
  <2> QED BY <2>1 DEF E!Init
<1>2. Invariante /\ [Next]_vars => [E!Next]_SituacaoDasMensagens
  <2> SUFFICES ASSUME Invariante, [Next]_vars
               PROVE  [E!Next]_SituacaoDasMensagens
    OBVIOUS
  <2>1. CASE UNCHANGED vars
    <3>1. UNCHANGED SituacaoDasMensagens
      BY <2>1 DEF vars, SituacaoDasMensagens, SituacaoDe, EmMaos
    <3> QED BY <3>1
  <2>2. CASE Next
    <3> DEFINE n == Len(fluxo.itens)
               S == SituacaoDasMensagens
    <3>1. n \in Nat /\ n' \in Nat
      BY <2>2, InvarianteMantido DEF Invariante, TypeOK, Fluxos
    <3>2. /\ Len(S) = n /\ \A i \in 1 .. n : S[i] = SituacaoDe(i)
          /\ Len(S') = n' /\ \A i \in 1 .. n' : S'[i] = SituacaoDe(i)'
      BY <3>1 DEF SituacaoDasMensagens
    <3>3. \A i \in 1 .. n : <<SituacaoDe(i), SituacaoDe(i)'>> \in E!Passos
      BY <2>2, PassoDaMensagem
    <3>4. \/ n' = n
          \/ n' = n + 1 /\ \A i : i = n' => SituacaoDe(i)' = "nova"
      BY <2>2, ChegaUmaNova
    <3> HIDE DEF n, S
    <3>5. Len(S') \in {Len(S), Len(S) + 1}
      BY <3>1, <3>2, <3>4
    <3>6. \A i \in 1 .. Len(S) : <<S[i], S'[i]>> \in E!Passos
      BY <3>1, <3>2, <3>3, <3>4
    <3>7. Len(S') > Len(S) => S'[Len(S')] = "nova"
      BY <3>1, <3>2, <3>4
    <3> QED BY <3>5, <3>6, <3>7 DEF E!Next, S
  <2> QED BY <2>1, <2>2
<1> QED BY <1>1, <1>2, InvarianteSempre, PTL DEF Spec, ImplementaEntrega, E!Spec

-----------------------------------------------------------------------------
(***************************************************************************)
(* Every entry the cursor left behind was delivered: it is pending or      *)
(* acked.  A read keeps this only if the trim has not passed the cursor,   *)
(* which is what Atrasado is about.                                        *)
(***************************************************************************)
SemBuracos == \A i \in 1 .. fluxo.entregue : i \in fluxo.pendentes \cup fluxo.confirmadas

LEMMA CorteAtrasDoCursor ==
    ASSUME Invariante, ~Atrasado
    PROVE  fluxo.corte <= fluxo.entregue
<1>1. /\ fluxo.corte \in Nat /\ fluxo.entregue \in Nat /\ Len(fluxo.itens) \in Nat
      /\ MaxLen \in Nat
  BY FluxoAssumption DEF Invariante, TypeOK, Fluxos
<1>2. fluxo.corte > 0 => Len(fluxo.itens) - fluxo.corte >= MaxLen
  BY DEF Invariante, FluxoCoerente
<1> QED BY <1>1, <1>2 DEF Atrasado

LEMMA SemBuracosAoLer ==
    ASSUME Invariante, ~Atrasado, SemBuracos, fluxo' = XReadGroup(fluxo)
    PROVE  SemBuracos'
<1>1. fluxo \in Fluxos(Mensagens) /\ FluxoCoerente(fluxo) /\ fluxo.entregue \in Nat
  BY DEF Invariante, TypeOK, Fluxos
<1>2. /\ fluxo'.confirmadas = fluxo.confirmadas
      /\ fluxo'.pendentes = fluxo.pendentes \cup Legiveis(fluxo)
      /\ fluxo'.entregue \in Nat
  BY <1>1, XReadGroupCoerente DEF Fluxos
<1>3. fluxo.corte \in Nat /\ fluxo.corte <= fluxo.entregue
  BY <1>1, CorteAtrasDoCursor DEF Fluxos
<1>4. ASSUME NEW i \in 1 .. fluxo'.entregue
      PROVE  i \in fluxo'.pendentes \cup fluxo'.confirmadas
  <2>1. CASE i <= fluxo.entregue
    <3>1. i \in 1 .. fluxo.entregue
      BY <1>1, <1>2, <1>4, <2>1
    <3> QED BY <1>2, <3>1 DEF SemBuracos
  <2>2. CASE i > fluxo.entregue
    <3>1. i \in Nat /\ i > fluxo.corte /\ i <= fluxo'.entregue
      BY <1>1, <1>2, <1>3, <1>4, <2>2
    <3>2. i \in Legiveis(fluxo)
      BY <1>1, <2>2, <3>1, LegiveisNovas
    <3> QED BY <1>2, <3>2
  <2> QED BY <1>1, <1>2, <1>4, <2>1, <2>2
<1> QED BY <1>4 DEF SemBuracos

LEMMA SemBuracosMantido ==
    ASSUME Invariante, ~Atrasado, SemBuracos, [Next]_vars
    PROVE  SemBuracos'
<1>1. ASSUME NEW m \in Mensagens, Publicar(m)
      PROVE  SemBuracos'
  <2>1. /\ fluxo'.entregue = fluxo.entregue
        /\ fluxo'.pendentes = fluxo.pendentes
        /\ fluxo'.confirmadas = fluxo.confirmadas
    BY <1>1, XAddCoerente DEF Publicar, Invariante, TypeOK
  <2> QED BY <2>1 DEF SemBuracos
<1>2. ASSUME NEW c \in Replicas, Ler(c) \/ LeituraPerdida(c)
      PROVE  SemBuracos'
  BY <1>2, SemBuracosAoLer DEF Ler, LeituraPerdida
<1>3. ASSUME NEW c \in Replicas, Concluir(c)
      PROVE  SemBuracos'
  <2> DEFINE k == Cabeca(lote[c])
  <2>1. k \in fluxo.pendentes /\ fluxo \in Fluxos(Mensagens) /\ FluxoCoerente(fluxo)
    BY <1>3, CabecaEhDoLote DEF Concluir, Invariante, TypeOK, PosseUnica
  <2>2. fluxo' = XAck(fluxo, k)
    BY <1>3 DEF Concluir
  <2> HIDE DEF k
  <2>3. /\ fluxo'.entregue = fluxo.entregue
        /\ fluxo'.pendentes = fluxo.pendentes \ {k}
        /\ fluxo'.confirmadas = fluxo.confirmadas \cup {k}
    BY <2>1, <2>2, XAckCoerente
  <2> QED BY <2>3 DEF SemBuracos
<1>4. ASSUME NEW c \in Replicas, Falhar(c) \/ Reiniciar(c)
      PROVE  SemBuracos'
  BY <1>4 DEF Falhar, Reiniciar, SemBuracos
<1>5. CASE UNCHANGED vars
  BY <1>5 DEF vars, SemBuracos
<1> QED BY <1>1, <1>2, <1>3, <1>4, <1>5 DEF Next

(* Nothing is passed over where there is no gap behind the cursor.         *)
LEMMA SemBuracosNadaPerdido ==
    ASSUME Invariante, ~Atrasado, SemBuracos
    PROVE  \A i \in 1 .. Len(fluxo.itens) : SituacaoDe(i) # "descartada"
<1>1. /\ fluxo.corte \in Nat /\ fluxo.entregue \in Nat /\ Len(fluxo.itens) \in Nat
      /\ fluxo.corte <= fluxo.entregue
  BY CorteAtrasDoCursor DEF Invariante, TypeOK, Fluxos
<1> SUFFICES ASSUME NEW i \in 1 .. Len(fluxo.itens)
             PROVE  SituacaoDe(i) # "descartada"
  OBVIOUS
<1>2. CASE i > fluxo.entregue
  <2>1. i > Maior(fluxo.entregue, fluxo.corte)
    BY <1>1, <1>2 DEF Maior
  <2> QED BY <2>1 DEF SituacaoDe
<1>3. CASE ~(i > fluxo.entregue)
  <2>1. i \in 1 .. fluxo.entregue
    BY <1>1, <1>3
  <2>2. i \in fluxo.pendentes \/ i \in fluxo.confirmadas
    BY <2>1 DEF SemBuracos
  <2> QED BY <2>2 DEF SituacaoDe
<1> QED BY <1>2, <1>3

(***************************************************************************)
(* A group that was never more than MaxLen behind misses no message, for   *)
(* any number of replicas, any batch and any MAXLEN, whatever reads are    *)
(* lost, handlers fail and replicas restart.                               *)
(***************************************************************************)
THEOREM EmDiaNadaPerde == Spec => SemAtrasoNadaSePerde
<1> DEFINE NadaPerdido == \A i \in 1 .. Len(fluxo.itens) : SituacaoDe(i) # "descartada"
<1>1. Init => SemBuracos
  BY DEF Init, FluxoVazio, SemBuracos
<1>2. Invariante /\ ~Atrasado /\ SemBuracos /\ [Next]_vars => SemBuracos'
  BY SemBuracosMantido
<1>3. Invariante /\ ~Atrasado /\ SemBuracos => NadaPerdido
  BY SemBuracosNadaPerdido
<1> HIDE DEF NadaPerdido
<1>4. Spec => ([]~Atrasado => []NadaPerdido)
  BY <1>1, <1>2, <1>3, InvarianteSempre, PTL DEF Spec
<1> QED BY <1>4 DEF NadaPerdido, SemAtrasoNadaSePerde
=============================================================================
