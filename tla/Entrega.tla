------------------------------ MODULE Entrega ------------------------------
(***************************************************************************)
(* What the bus promises of each message, whatever replicas, restarts and  *)
(* failures there are: a one-way life.  A message is new until it is given *)
(* to one replica; from there it is confirmed or abandoned, and neither is *)
(* ever undone.  A new message can also be discarded by the trim, or be    *)
(* abandoned by a read whose answer is lost.  This is at-most-once.        *)
(***************************************************************************)
EXTENDS Naturals, Sequences

VARIABLE situacao   \* situacao[i]: where the i-th message of the stream is

Situacoes == {"nova", "emMaos", "confirmada", "abandonada", "descartada"}

TypeOK == situacao \in Seq(Situacoes)

Init == situacao = << >>

Passos == {<<s, s>> : s \in Situacoes} \cup
          {<<"nova", "emMaos">>, <<"nova", "abandonada">>, <<"nova", "descartada">>,
           <<"emMaos", "confirmada">>, <<"emMaos", "abandonada">>}

(* The messages already there each stay or take one step; at most one new  *)
(* message arrives, at the end.                                            *)
Next == /\ Len(situacao') \in {Len(situacao), Len(situacao) + 1}
        /\ \A i \in 1 .. Len(situacao) : <<situacao[i], situacao'[i]>> \in Passos
        /\ Len(situacao') > Len(situacao) => situacao'[Len(situacao')] = "nova"

Spec == Init /\ [][Next]_situacao
=============================================================================
