------------------------------ MODULE Fallback ------------------------------
(***************************************************************************)
(* The conservative fallback of the classification-worker: how Classificar *)
(* turns what the model said into a classification [urg, fallback].        *)
(***************************************************************************)
EXTENDS Urgencia

(* Mutant: the zero value instead of the floor.                            *)
SemRespostaSemPiso(piso) == [urg |-> "", fallback |-> TRUE]

(* No answer at all: deliver the movement at the floor.                    *)
SemResposta(piso) == [urg |-> piso, fallback |-> TRUE]

(* Mutant: the comparison is the wrong way round: it lowers.               *)
ElevadaTrocada(u, piso) == IF Nivel(u) > Nivel(piso) THEN piso ELSE u

(* An answer: kept as it is if valid and confident enough; otherwise       *)
(* raised to the floor, never lowered to it, and marked.                   *)
Elevada(u, piso) == IF Nivel(u) < Nivel(piso) THEN piso ELSE u

(* Mutant: the minimum confidence is off by one.                           *)
ConfiavelAbaixo(r, minimo) == Valida(r.urg) /\ ~(r.confianca < minimo - 1)

Confiavel(r, minimo) == Valida(r.urg) /\ ~(r.confianca < minimo)

PorResposta(r, piso, minimo) ==
    IF Confiavel(r, minimo) THEN [urg |-> r.urg, fallback |-> FALSE]
                            ELSE [urg |-> Elevada(r.urg, piso), fallback |-> TRUE]
=============================================================================
