-------------------------------- MODULE Ciclo --------------------------------
(***************************************************************************)
(* What the three services together promise a lawyer about each movement:  *)
(* recorded once, classified once, and its alert raised at most once.  A   *)
(* movement may be closed without an alert only for a reason: it is old,   *)
(* or a classification that carries no fallback mark put it below the      *)
(* highest urgency.  It may also stop half way, but never goes back.       *)
(***************************************************************************)
EXTENDS Fallback

CONSTANTS Andamentos,
          Piso,        \* the floor of the fallback
          SemLaudo     \* not classified yet

VARIABLES etapa,    \* etapa[m]: how far m got
          laudo,    \* laudo[m]: its classification
          antigas   \* the movements older than the alert's age limit

vars == <<etapa, laudo, antigas>>

Etapas == {"desconhecida", "gravada", "classificada",
           "avisada", "encerrada", "silenciada"}

TypeOK == /\ etapa \in [Andamentos -> Etapas]
          /\ laudo \in [Andamentos -> [urg : Urgencias, fallback : BOOLEAN] \cup {SemLaudo}]
          /\ antigas \in SUBSET Andamentos

Init == /\ etapa = [m \in Andamentos |-> "desconhecida"]
        /\ laudo = [m \in Andamentos |-> SemLaudo]
        /\ antigas \in SUBSET Andamentos

Avancar(m, de, para) == /\ etapa[m] = de
                        /\ etapa' = [etapa EXCEPT ![m] = para]

Gravar(m) == /\ Avancar(m, "desconhecida", "gravada")
             /\ UNCHANGED <<laudo, antigas>>

Classificar(m) ==
    /\ Avancar(m, "gravada", "classificada")
    /\ \E l \in [urg : Urgencias, fallback : BOOLEAN] :
           /\ l.fallback => Nivel(l.urg) >= Nivel(Piso)
           /\ laudo' = [laudo EXCEPT ![m] = l]
    /\ UNCHANGED antigas

Avisar(m) == /\ Avancar(m, "classificada", "avisada")
             /\ UNCHANGED <<laudo, antigas>>

Encerrar(m) == /\ Avancar(m, "avisada", "encerrada")
               /\ UNCHANGED <<laudo, antigas>>

Silenciar(m) == /\ Avancar(m, "classificada", "silenciada")
                /\ m \in antigas \/ (~laudo[m].fallback /\ laudo[m].urg # "alta")
                /\ UNCHANGED <<laudo, antigas>>

Envelhecer(m) == /\ antigas' = antigas \cup {m}
                 /\ UNCHANGED <<etapa, laudo>>

Next == \E m \in Andamentos : \/ Gravar(m)
                              \/ Classificar(m)
                              \/ Avisar(m)
                              \/ Encerrar(m)
                              \/ Silenciar(m)
                              \/ Envelhecer(m)

Spec == Init /\ [][Next]_vars
=============================================================================
