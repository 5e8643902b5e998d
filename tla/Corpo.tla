------------------------------- MODULE Corpo -------------------------------
(***************************************************************************)
(* The body of an alert.  truncar cuts the text at a number of BYTES, and  *)
(* a character takes one to four: a text is the sequence of the widths of  *)
(* its characters, which is all the cut looks at.                          *)
(***************************************************************************)
EXTENDS Integers, Sequences

CONSTANT MaxCorpo   \* maxCorpo: 400 in the code

ASSUME CorpoAssumption == MaxCorpo \in Nat \ {0}

Textos == Seq(1 .. 4)

(* len(s[:k]), the bytes of the first k characters of t.                   *)
Bytes(t, k) == LET soma[j \in 0 .. k] == IF j = 0 THEN 0 ELSE soma[j - 1] + t[j]
               IN  soma[k]

(***************************************************************************)
(* truncar(t, maxCorpo) is text Postgres accepts: t was short enough, or   *)
(* the cut fell between two characters.  A cut inside a character leaves   *)
(* its first bytes, which is no UTF-8, and the INSERT is refused.          *)
(***************************************************************************)
Gravavel(t) == \/ Bytes(t, Len(t)) <= MaxCorpo
               \/ \E k \in 1 .. Len(t) : Bytes(t, k) = MaxCorpo
=============================================================================
