-------------------------- MODULE MCClassificador --------------------------
(***************************************************************************)
(* Classificador for TLC: every floor, a text outside the four urgencies,  *)
(* confidences below, at and above the minimum, and minimums no answer     *)
(* reaches or every answer reaches.                                        *)
(***************************************************************************)
EXTENDS Classificador

MCRespondidas == Urgencias \cup {"urgentissima"}
MCConfiancas == 0 .. 2
MCMinimos == 0 .. 3
MCTentativas == 1 .. 3
(* config.Int takes any integer from CLASSIFY_TENTATIVAS.                  *)
MCTentativasSemFiltro == -1 .. 1
=============================================================================
