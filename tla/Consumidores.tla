---------------------------- MODULE Consumidores ----------------------------
(***************************************************************************)
(* Bus.Consume (internal/platform/events/events.go): the replicas of one   *)
(* service read one stream as one consumer group.  Each replica holds the  *)
(* batch XREADGROUP gave it and runs the handler over it in order.         *)
(*                                                                         *)
(* The handler is abstract here: it ends well (nil, then XACK) or badly    *)
(* (an error, so no XACK).  Movimentacoes composes this module with the    *)
(* steps of two real handlers.                                             *)
(***************************************************************************)
EXTENDS Fluxo

CONSTANTS Replicas,       \* the running replicas of the service
          Mensagens,      \* the payloads
          MaxMensagens    \* bound: how many entries producers add

ASSUME ConsumidoresAssumption == MaxMensagens \in Nat

VARIABLES fluxo,   \* the stream and its group, a record of Fluxo
          lote     \* lote[c]: entries replica c holds and has not finished

vars == <<fluxo, lote>>

TypeOK == /\ fluxo \in Fluxos(Mensagens)
          /\ lote \in [Replicas -> SUBSET Nat]

(* XGroupCreateMkStream "0": the group starts before the first entry.      *)
Init == /\ fluxo = FluxoVazio
        /\ lote = [c \in Replicas |-> {}]

(* The entry whose handler runs: a batch is handled in stream order.       *)
Cabeca(l) == CHOOSE i \in l : \A j \in l : i <= j

(* Some replica holds entry i.                                             *)
EmMaos(i) == \E c \in Replicas : i \in lote[c]

-----------------------------------------------------------------------------
(* Bus.Publish, from any service. *)
Publicar(m) == /\ Len(fluxo.itens) < MaxMensagens
               /\ fluxo' \in XAdd(fluxo, m)
               /\ UNCHANGED lote

(* Mutant: the loop waits for a full batch.                                *)
LerLoteCheio(c) == /\ lote[c] = {}
                   /\ Cardinality(Legiveis(fluxo)) = Lote
                   /\ lote' = [lote EXCEPT ![c] = Legiveis(fluxo)]
                   /\ fluxo' = XReadGroup(fluxo)

(* XREADGROUP answers: the loop reads only with no batch left to handle.   *)
Ler(c) == /\ lote[c] = {}
          /\ Legiveis(fluxo) # {}
          /\ lote' = [lote EXCEPT ![c] = Legiveis(fluxo)]
          /\ fluxo' = XReadGroup(fluxo)

(* Mutant: after an error the loop goes on from the end of the stream.     *)
LeituraPerdidaPulando(c) == /\ lote[c] = {}
                            /\ Legiveis(fluxo) # {}
                            /\ fluxo' = [fluxo EXCEPT !.entregue = Len(fluxo.itens)]
                            /\ UNCHANGED lote

(* XREADGROUP took effect and its answer was lost: the loop logs the error *)
(* and reads ">" again, which never returns these entries.                 *)
LeituraPerdida(c) == /\ lote[c] = {}
                     /\ Legiveis(fluxo) # {}
                     /\ fluxo' = XReadGroup(fluxo)
                     /\ UNCHANGED lote

(* The handler returned nil and XACK took effect.                          *)
Concluir(c) == /\ lote[c] # {}
               /\ lote' = [lote EXCEPT ![c] = @ \ {Cabeca(@)}]
               /\ fluxo' = XAck(fluxo, Cabeca(lote[c]))

(* The handler returned an error, or XACK failed: the entry stays pending  *)
(* and the loop goes on with the next one.                                 *)
Falhar(c) == /\ lote[c] # {}
             /\ lote' = [lote EXCEPT ![c] = @ \ {Cabeca(@)}]
             /\ UNCHANGED fluxo

(* Mutant: a restart moves the cursor back and drops the entries.          *)
ReiniciarDevolvendo(c) ==
    /\ lote[c] # {}
    /\ lote' = [lote EXCEPT ![c] = {}]
    /\ fluxo' = [fluxo EXCEPT !.entregue = Cabeca(lote[c]) - 1,
                             !.pendentes = @ \ lote[c]]

(* The replica dies, or shuts down and every handler left in its batch     *)
(* fails on the cancelled context.  It comes back under a fresh consumer   *)
(* name, so nothing of the old batch is its own any more.                  *)
Reiniciar(c) == /\ lote[c] # {}
                /\ lote' = [lote EXCEPT ![c] = {}]
                /\ UNCHANGED fluxo

Next == \/ \E m \in Mensagens : Publicar(m)
        \/ \E c \in Replicas : \/ Ler(c)
                               \/ LeituraPerdida(c)
                               \/ Concluir(c)
                               \/ Falhar(c)
                               \/ Reiniciar(c)

Spec == Init /\ [][Next]_vars

(***************************************************************************)
(* Fairness: the consume loop keeps reading while the process runs, and a  *)
(* handler that got a message returns.  Nothing says how it returns, and   *)
(* publishers and crashes owe nothing.                                     *)
(***************************************************************************)
Justica == \A c \in Replicas : /\ WF_vars(Ler(c))
                               /\ WF_vars(Concluir(c) \/ Falhar(c))

SpecJusta == Spec /\ Justica

(***************************************************************************)
(* The same service on a good day: Redis answers every read and no replica *)
(* stops.  Only a handler that returns an error, or an XACK that fails,    *)
(* can leave an entry pending.                                             *)
(***************************************************************************)
NextSemPerda == \/ \E m \in Mensagens : Publicar(m)
                \/ \E c \in Replicas : Ler(c) \/ Concluir(c) \/ Falhar(c)

SpecSemPerda == Init /\ [][NextSemPerda]_vars /\ Justica

-----------------------------------------------------------------------------
(***************************************************************************)
(* Every entry in some replica's hands is pending, already delivered, and  *)
(* in no other replica's hands: two replicas of a worker never run the     *)
(* handler on the same message, whatever restarts and failures happen.     *)
(***************************************************************************)
PosseUnica ==
    /\ fluxo.pendentes \subseteq 1 .. fluxo.entregue
    /\ \A c \in Replicas : lote[c] \subseteq fluxo.pendentes
    /\ \A c, d \in Replicas : c # d => lote[c] \cap lote[d] = {}

(***************************************************************************)
(* At-most-once: a message that a replica has in hand for the first time   *)
(* was never delivered before.  A handler never runs twice on an entry,    *)
(* which is why handlers that are not idempotent (notification-service)    *)
(* do not duplicate their effects after a failure or a restart.            *)
(***************************************************************************)
NuncaReentregue ==
    [][\A c \in Replicas : \A i \in lote'[c] \ lote[c] : i > fluxo.entregue]_vars

(***************************************************************************)
(* Every message is, sooner or later, either passed over for good or       *)
(* settled: acked, or left pending with no replica working on it.  No      *)
(* message stays in hand or unread while the service runs.                 *)
(***************************************************************************)
Assentada(i) == i <= fluxo.entregue /\ ~EmMaos(i)
TodaMensagemAssenta ==
    \A i \in 1 .. MaxMensagens : (i <= Len(fluxo.itens)) ~> Assentada(i)

(***************************************************************************)
(* What events.go says of a message whose handler failed: "ela fica        *)
(* pendente no grupo e pode ser reprocessada".  Read as a promise: a       *)
(* pending message nobody holds is handed to some replica again.  The code *)
(* reads only ">", so this does not hold, not even under SpecSemPerda,     *)
(* where every message that is pending and not in hand is one whose        *)
(* handler, or whose XACK, failed.                                         *)
(***************************************************************************)
PendenteEhReprocessada ==
    \A i \in 1 .. MaxMensagens :
        (i \in fluxo.pendentes /\ ~EmMaos(i)) ~> EmMaos(i)

-----------------------------------------------------------------------------
(***************************************************************************)
(* Consumidores implements Entrega: the state of the group and of the      *)
(* replicas' hands says where each message is in its one-way life.         *)
(***************************************************************************)
SituacaoDe(i) ==
    IF i \in fluxo.confirmadas THEN "confirmada"
    ELSE IF EmMaos(i) THEN "emMaos"
    ELSE IF i \in fluxo.pendentes THEN "abandonada"
    ELSE IF i > Maior(fluxo.entregue, fluxo.corte) THEN "nova"
    ELSE "descartada"

SituacaoDasMensagens == [i \in 1 .. Len(fluxo.itens) |-> SituacaoDe(i)]

E == INSTANCE Entrega WITH situacao <- SituacaoDasMensagens

(* The life of every message is the one Entrega allows.                    *)
ImplementaEntrega == E!Spec

(***************************************************************************)
(* MAXLEN trims with no regard to the group.  Still, a group that never    *)
(* was more than MaxLen messages behind misses none: every message the     *)
(* cursor left behind was delivered, by whichever replica's read, through  *)
(* lost answers, failures and restarts.  (Publishers may stop at any time  *)
(* and the group catch up, so a message missed so far is not excused by    *)
(* what comes later.)                                                      *)
(***************************************************************************)
Atrasado == Len(fluxo.itens) - fluxo.entregue > MaxLen

SemAtrasoNadaSePerde ==
    []~Atrasado =>
        [](\A i \in 1 .. Len(fluxo.itens) : SituacaoDe(i) # "descartada")
=============================================================================
