------------------------ MODULE ClassificadorProofs ------------------------
(***************************************************************************)
(* The conservative fallback, for every floor, minimum confidence, number  *)
(* of attempts and whatever the model answers.                             *)
(***************************************************************************)
EXTENDS Classificador, TLAPS

(* What Classificar returned is a function of what comRetry got, and there *)
(* is an answer only after the model gave one.                             *)
Decorre ==
    /\ fase \in {"tentando", "desistiu"} => resposta = Nenhuma
    /\ fase = "devolveu" =>
           \/ resposta = Nenhuma /\ resultado = SemResposta(config.piso)
           \/ /\ resposta \in Respostas
              /\ resultado = PorResposta(resposta, config.piso, config.minimo)

(* With at least one attempt configured, the loop cannot end without an    *)
(* answer or an error.                                                     *)
Esforco ==
    /\ fase # "panico"
    /\ feitas <= config.tentativas
    /\ fase = "respondeu" => resposta # Nenhuma
    /\ fase = "desistiu" /\ ~cancelado => feitas = config.tentativas
    /\ fase = "devolveu" /\ resposta = Nenhuma /\ ~cancelado =>
           feitas = config.tentativas

-----------------------------------------------------------------------------
(* The level of an urgency is 0 to 3, and of any other text, -1.           *)
LEMMA Niveis ==
    /\ \A u : Nivel(u) \in -1 .. 3
    /\ \A u : Nivel(u) >= 0 <=> u \in Urgencias
BY DEF Nivel, Urgencias

(* The marker of "no answer" is not an answer.                             *)
LEMMA NenhumaNaoEhResposta == Nenhuma \notin Respostas
BY ClassificadorAssumption DEF Nenhuma, Respostas

(* The fallback returns an urgency or a text the model gave.               *)
LEMMA TipoDoResultado ==
    /\ \A p \in Urgencias : SemResposta(p) \in Resultados
    /\ \A r \in Respostas, p \in Urgencias, m \in Int : PorResposta(r, p, m) \in Resultados
BY DEF SemResposta, PorResposta, Elevada, Resultados, Respostas

LEMMA TipoMantido == TypeOK /\ [Next]_vars => TypeOK'
<1> SUFFICES ASSUME TypeOK, [Next]_vars PROVE TypeOK'
  OBVIOUS
<1> USE DEF TypeOK
<1>1. CASE Responder
  BY <1>1 DEF Responder
<1>2. CASE ErrarTentativa
  BY <1>2 DEF ErrarTentativa
<1>3. CASE Esgotar
  BY <1>3 DEF Esgotar
<1>4. CASE Cancelar
  BY <1>4 DEF Cancelar
<1>5. CASE Devolver
  <2>1. config.piso \in Urgencias /\ config.minimo \in Int
    BY ClassificadorAssumption
  <2>2. resultado' \in Resultados
    BY <1>5, <2>1, TipoDoResultado DEF Devolver
  <2> QED BY <1>5, <2>2 DEF Devolver
<1>6. CASE UNCHANGED vars
  BY <1>6 DEF vars
<1> QED BY <1>1, <1>2, <1>3, <1>4, <1>5, <1>6 DEF Next

LEMMA DecorreMantido == TypeOK /\ Decorre /\ [Next]_vars => Decorre'
<1> SUFFICES ASSUME TypeOK, Decorre, [Next]_vars PROVE Decorre'
  OBVIOUS
<1> USE DEF Decorre
<1>1. CASE Responder
  BY <1>1 DEF Responder
<1>2. CASE ErrarTentativa
  BY <1>2 DEF ErrarTentativa
<1>3. CASE Esgotar
  BY <1>3 DEF Esgotar
<1>4. CASE Cancelar
  BY <1>4 DEF Cancelar
<1>5. CASE Devolver
  BY <1>5 DEF Devolver, TypeOK
<1>6. CASE UNCHANGED vars
  BY <1>6 DEF vars
<1> QED BY <1>1, <1>2, <1>3, <1>4, <1>5, <1>6 DEF Next

LEMMA EsforcoMantido ==
    ASSUME Tentativas \subseteq Nat \ {0}
    PROVE  TypeOK /\ Decorre /\ Esforco /\ [Next]_vars => Esforco'
<1> SUFFICES ASSUME TypeOK, Decorre, Esforco, [Next]_vars PROVE Esforco'
  OBVIOUS
<1> USE DEF Esforco
<1>0. config.tentativas \in Nat \ {0} /\ feitas \in Nat
  BY DEF TypeOK
<1>1. CASE Responder
  BY <1>1, NenhumaNaoEhResposta DEF Responder
<1>2. CASE ErrarTentativa
  BY <1>0, <1>2 DEF ErrarTentativa
<1>3. CASE Esgotar
  BY <1>0, <1>3 DEF Esgotar
<1>4. CASE Cancelar
  BY <1>4 DEF Cancelar
<1>5. CASE Devolver
  BY <1>5, NenhumaNaoEhResposta DEF Devolver, Decorre
<1>6. CASE UNCHANGED vars
  BY <1>6 DEF vars
<1> QED BY <1>1, <1>2, <1>3, <1>4, <1>5, <1>6 DEF Next

LEMMA Inicial == Init => TypeOK /\ Decorre
<1> SUFFICES ASSUME Init PROVE TypeOK /\ Decorre
  OBVIOUS
<1>1. resultado \in Resultados
  BY TipoDoResultado DEF Init
<1> QED BY <1>1 DEF Init, TypeOK, Decorre

LEMMA DecorreSempre == Spec => [](TypeOK /\ Decorre)
<1>1. TypeOK /\ Decorre /\ [Next]_vars => (TypeOK /\ Decorre)'
  BY TipoMantido, DecorreMantido
<1> QED BY <1>1, Inicial, PTL DEF Spec

LEMMA EsforcoSempre ==
    ASSUME Tentativas \subseteq Nat \ {0}
    PROVE  Spec => []Esforco
<1>1. Init => Esforco
  <2> SUFFICES ASSUME Init PROVE Esforco
    OBVIOUS
  <2>1. config.tentativas \in Nat
    BY DEF Init
  <2> QED BY <2>1 DEF Init, Esforco
<1>2. TypeOK /\ Decorre /\ Esforco /\ [Next]_vars => Esforco'
  BY EsforcoMantido
<1> QED BY <1>1, <1>2, DecorreSempre, PTL DEF Spec

-----------------------------------------------------------------------------
(* A call of Classificar keeps its types.                                  *)
THEOREM TiposCertos == Spec => []TypeOK
BY DecorreSempre, PTL

(***************************************************************************)
(* "Elevar, nunca rebaixar", for any floor and any answer.                 *)
(***************************************************************************)
THEOREM SempreNaDuvidaOMaior == Spec => []NaDuvidaOMaior
<1>1. TypeOK /\ Decorre => NaDuvidaOMaior
  <2> SUFFICES ASSUME TypeOK, Decorre, fase = "devolveu", resultado.fallback
               PROVE  Nivel(resultado.urg) =
                          IF Nivel(resposta.urg) > Nivel(config.piso)
                          THEN Nivel(resposta.urg) ELSE Nivel(config.piso)
    BY DEF NaDuvidaOMaior
  <2>0. /\ Nivel(config.piso) \in Int /\ Nivel(config.piso) >= 0
        /\ Nivel(resposta.urg) \in Int
    BY Niveis DEF TypeOK
  <2>1. CASE resposta = Nenhuma /\ resultado = SemResposta(config.piso)
    <3>1. Nivel(resposta.urg) = -1
      BY <2>1 DEF Nenhuma, Nivel
    <3> QED BY <2>0, <2>1, <3>1 DEF SemResposta
  <2>2. CASE resultado = PorResposta(resposta, config.piso, config.minimo)
    <3>1. resultado.urg = Elevada(resposta.urg, config.piso)
      BY <2>2 DEF PorResposta
    <3> QED BY <2>0, <3>1 DEF Elevada
  <2> QED BY <2>1, <2>2 DEF Decorre
<1> QED BY <1>1, DecorreSempre, PTL

(***************************************************************************)
(* A classification without the fallback mark is the model's own, valid    *)
(* and confident enough.                                                   *)
(***************************************************************************)
THEOREM SempreSemMarcaEhConfiavel == Spec => []SemMarcaEhConfiavel
<1>1. TypeOK /\ Decorre => SemMarcaEhConfiavel
  <2> SUFFICES ASSUME TypeOK, Decorre, fase = "devolveu", ~resultado.fallback
               PROVE  /\ resultado.urg = resposta.urg
                      /\ resposta.urg \in Urgencias
                      /\ resposta.confianca >= config.minimo
    BY DEF SemMarcaEhConfiavel
  <2>1. /\ resposta \in Respostas
        /\ resultado = PorResposta(resposta, config.piso, config.minimo)
    BY DEF Decorre, SemResposta
  <2>2. /\ Confiavel(resposta, config.minimo)
        /\ resultado.urg = resposta.urg
    BY <2>1 DEF PorResposta
  <2>3. resposta.confianca \in Int /\ config.minimo \in Int
    BY <2>1, ClassificadorAssumption DEF Respostas, TypeOK
  <2> QED BY <2>2, <2>3, Niveis DEF Confiavel, Valida
<1> QED BY <1>1, DecorreSempre, PTL

(***************************************************************************)
(* When CLASSIFY_TENTATIVAS is at least 1, Classificar never panics and    *)
(* always returns one of the four urgencies.                               *)
(***************************************************************************)
THEOREM UtilizavelComTentativa ==
    ASSUME Tentativas \subseteq Nat \ {0}
    PROVE  Spec => []SempreUtilizavel
<1>1. TypeOK /\ Decorre /\ Esforco => SempreUtilizavel
  <2> SUFFICES ASSUME TypeOK, Decorre, Esforco, fase = "devolveu"
               PROVE  resultado.urg \in Urgencias
    BY DEF SempreUtilizavel, Esforco
  <2>1. config.piso \in Urgencias
    BY DEF TypeOK
  <2>2. CASE resultado = SemResposta(config.piso)
    BY <2>1, <2>2 DEF SemResposta
  <2>3. CASE resultado = PorResposta(resposta, config.piso, config.minimo)
    <3>1. CASE Confiavel(resposta, config.minimo)
      BY <2>3, <3>1, Niveis DEF PorResposta, Confiavel, Valida
    <3>2. CASE ~Confiavel(resposta, config.minimo)
      <4>1. resultado.urg = Elevada(resposta.urg, config.piso)
        BY <2>3, <3>2 DEF PorResposta
      <4>2. Nivel(resposta.urg) \in Int /\ Nivel(config.piso) \in Int
            /\ Nivel(config.piso) >= 0
        BY <2>1, Niveis
      <4>3. Nivel(resposta.urg) >= Nivel(config.piso) => resposta.urg \in Urgencias
        BY <4>2, Niveis
      <4> QED BY <2>1, <4>1, <4>2, <4>3 DEF Elevada
    <3> QED BY <3>1, <3>2
  <2> QED BY <2>2, <2>3 DEF Decorre
<1> QED BY <1>1, DecorreSempre, EsforcoSempre, PTL

(***************************************************************************)
(* When CLASSIFY_TENTATIVAS is at least 1, a call that gave up without     *)
(* being cancelled made exactly that many attempts.                        *)
(***************************************************************************)
THEOREM DesisteSoDepoisDeTodas ==
    ASSUME Tentativas \subseteq Nat \ {0}
    PROVE  Spec => []DesisteDepoisDeTodas
<1>1. Esforco => DesisteDepoisDeTodas
  BY DEF Esforco, DesisteDepoisDeTodas
<1> QED BY <1>1, EsforcoSempre, PTL
=============================================================================
