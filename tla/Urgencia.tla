------------------------------ MODULE Urgencia ------------------------------
(***************************************************************************)
(* domain.Urgencia (internal/domain/types.go): the four urgencies of a     *)
(* movement and their order.  A text outside the four has level -1, below  *)
(* every urgency, "nenhuma" included.                                      *)
(***************************************************************************)
EXTENDS Integers

Urgencias == {"alta", "media", "baixa", "nenhuma"}

Nivel(u) == CASE u = "alta" -> 3
              [] u = "media" -> 2
              [] u = "baixa" -> 1
              [] u = "nenhuma" -> 0
              [] OTHER -> -1

(* Mutant: an unknown text passes as an urgency.                           *)
ValidaFrouxa(u) == Nivel(u) >= -1

Valida(u) == Nivel(u) >= 0
=============================================================================
