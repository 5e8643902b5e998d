------------------------------- MODULE Fluxo -------------------------------
(***************************************************************************)
(* One Redis stream and the one consumer group that reads it, as           *)
(* internal/platform/events uses them: XADD with an approximate MAXLEN,    *)
(* XREADGROUP with ">" and a COUNT, XACK.  An entry is named by its        *)
(* position in the stream, so entry ids grow by one.                       *)
(*                                                                         *)
(*   itens        every payload ever added, oldest first                   *)
(*   corte        entries 1..corte are gone, trimmed by MAXLEN             *)
(*   entregue     the group's last-delivered-id                            *)
(*   pendentes    the group's pending entries list: delivered, not acked   *)
(*   confirmadas  entries the group acked (a history variable: Redis keeps *)
(*                no such list; no operator reads it)                      *)
(***************************************************************************)
EXTENDS Integers, FiniteSets, Sequences

CONSTANTS MaxLen,   \* the MAXLEN of every XADD (10000 in the code)
          Lote      \* the COUNT of every XREADGROUP (10 in the code)

ASSUME FluxoAssumption == /\ MaxLen \in Nat \ {0}
                          /\ Lote \in Nat \ {0}

Maior(a, b) == IF a > b THEN a ELSE b
Menor(a, b) == IF a < b THEN a ELSE b

FluxoVazio == [itens |-> << >>, corte |-> 0, entregue |-> 0,
               pendentes |-> {}, confirmadas |-> {}]

Fluxos(Mensagem) == [itens : Seq(Mensagem), corte : Nat, entregue : Nat,
                     pendentes : SUBSET Nat, confirmadas : SUBSET Nat]

(* Mutant: the trim point is computed without the lower bound.             *)
CortesSemMinimo(n, corte) == {n - MaxLen}

(***************************************************************************)
(* The values the trim point may take after an XADD that leaves n entries  *)
(* ever added.  MAXLEN ~ removes whole nodes: it may remove nothing, and   *)
(* it never leaves fewer than MaxLen entries.                              *)
(***************************************************************************)
Cortes(n, corte) == corte .. Maior(corte, n - MaxLen)

XAdd(f, m) ==
    {[f EXCEPT !.itens = Append(@, m), !.corte = c] :
        c \in Cortes(Len(f.itens) + 1, f.corte)}

(***************************************************************************)
(* What one call of Publish that reports success may have done.  New gives *)
(* the Redis client no option but the address, so the client retries a     *)
(* command whose answer timed out: if the network allows it (reenvio), an  *)
(* XADD that was applied is applied a second time.                         *)
(***************************************************************************)
Publicacoes(f, m, reenvio) ==
    XAdd(f, m) \cup
    IF reenvio THEN UNION {XAdd(g, m) : g \in XAdd(f, m)} ELSE {}

(* Mutant: the group hands pending entries over again.                     *)
LegiveisComPendentes(f) ==
    f.pendentes \cup ((f.entregue + 1) .. Menor(f.entregue + Lote, Len(f.itens)))

(***************************************************************************)
(* The entries one XREADGROUP ">" hands over: the oldest Lote of those     *)
(* never delivered to the group and still in the stream.                   *)
(***************************************************************************)
Legiveis(f) ==
    LET inicio == Maior(f.entregue, f.corte)
    IN  (inicio + 1) .. Menor(inicio + Lote, Len(f.itens))

XReadGroup(f) ==
    [f EXCEPT !.entregue = Menor(Maior(f.entregue, f.corte) + Lote, Len(f.itens)),
              !.pendentes = @ \cup Legiveis(f)]

XAck(f, i) == [f EXCEPT !.pendentes = @ \ {i}, !.confirmadas = @ \cup {i}]
=============================================================================
