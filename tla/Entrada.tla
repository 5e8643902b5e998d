------------------------------ MODULE Entrada ------------------------------
(***************************************************************************)
(* How a movement enters the system, as the rest of it can tell: the row   *)
(* process.movements is inserted once, whoever inserted it holds the right *)
(* to publish it (emVoo) until it publishes it or loses it, and nobody     *)
(* else ever publishes it.  This is sincronizar without who runs it and    *)
(* when; Monitor has those, and implements this module.                    *)
(***************************************************************************)
EXTENDS Fluxo

CONSTANTS Andamentos,   \* the movements, by (process, provider_event_id)
          Falhas        \* the kinds of failure that may happen

VARIABLES gravados,     \* process.movements: the rows there are
          emVoo,        \* rows inserted whose event somebody will publish
          received      \* the stream movement.received and its group

entradaVars == <<gravados, emVoo, received>>

EntradaTypeOK == /\ gravados \in SUBSET Andamentos
                 /\ emVoo \in SUBSET Andamentos
                 /\ received \in Fluxos(Andamentos)

EntradaInit == /\ gravados = {}
               /\ emVoo = {}
               /\ received = FluxoVazio

(* inserirMovimentacao returned the id of a new row: publish it next.      *)
Inserir(m) == /\ m \notin gravados
              /\ gravados' = gravados \cup {m}
              /\ emVoo' = emVoo \cup {m}
              /\ UNCHANGED received

(* The commit's answer was lost: the row is there, its event never will be *)
InserirOrfa(m) == /\ "commit" \in Falhas
                  /\ m \notin gravados
                  /\ gravados' = gravados \cup {m}
                  /\ UNCHANGED <<emVoo, received>>

Publicar(m) ==
    /\ m \in emVoo
    /\ received' \in Publicacoes(received, m, "duplicacao" \in Falhas)
    /\ emVoo' = emVoo \ {m}
    /\ UNCHANGED gravados

(* A publication fails, or the service dies with some of them to do.       *)
Perder == /\ {"barramento", "queda"} \cap Falhas # {}
          /\ emVoo' \in SUBSET emVoo
          /\ emVoo' # emVoo
          /\ UNCHANGED <<gravados, received>>

EntradaNext == \/ \E m \in Andamentos : Inserir(m) \/ InserirOrfa(m) \/ Publicar(m)
               \/ Perder

EntradaSpec == EntradaInit /\ [][EntradaNext]_entradaVars

-----------------------------------------------------------------------------
Publicado(m) == \E i \in 1 .. Len(received.itens) : received.itens[i] = m

(***************************************************************************)
(* A movement enters the bus at most once, although the provider sends it  *)
(* again at every query, and the poller and the goroutine of the POST may  *)
(* query the same process at the same time.                                *)
(***************************************************************************)
UmEventoPorAndamento ==
    \A i, j \in 1 .. Len(received.itens) :
        received.itens[i] = received.itens[j] => i = j
=============================================================================
