---------------------------- MODULE SessoesProofs ----------------------------
(***************************************************************************)
(* The accounts and the sessions, for any number of accounts, tabs, tokens *)
(* and requests in flight: who may change a password, what ends a living   *)
(* session, and whose account a tab shows.                                 *)
(***************************************************************************)
EXTENDS Sessoes, FiniteSetTheorems, TLAPS

-----------------------------------------------------------------------------
(* The requests that may still create an account, or a token.              *)
AindaCria(ops) == {r \in Pedidos : pedido[r].op \in ops /\ pedido[r].fase = "ida"}

(* What they may create fits.                                              *)
Reservas ==
    /\ Len(contas) + Cardinality(AindaCria({"cadastro"})) <= MaxContas
    /\ Len(emitidos) + Cardinality(AindaCria({"cadastro", "login"})) <= MaxTokens

(* An account has a password, a token is of an account there is, and the   *)
(* token in place was issued.                                              *)
Donos ==
    /\ \A c \in 1 .. Len(contas) : contas[c].senhas # << >>
    /\ \A t \in 1 .. Len(emitidos) : emitidos[t] \in 1 .. Len(contas)
    /\ token \in 0 .. Len(emitidos)

(* A request was sent with a token issued before, and what it would store  *)
(* fits its column.                                                        *)
Preenchido(p) ==
    /\ p.token \in 0 .. Len(emitidos)
    /\ p.op \in {"cadastro", "perfil"} => p.dado[1] \in Emails
    /\ p.op \in {"cadastro", "senha"} => p.dado[2] \in Senhas

(***************************************************************************)
(* Between the two transactions of trocarSenha: the password shown is the  *)
(* one the column held when it was compared, which nothing takes out of    *)
(* the history of the account.                                             *)
(***************************************************************************)
Comparado(p) ==
    p.fase = "trocar" =>
        /\ p.op = "senha"
        /\ p.token # 0
        /\ p.desde \in 1 .. Len(contas[Dono(p.token)].senhas)
        /\ contas[Dono(p.token)].senhas[p.desde] = p.dado[1]

(***************************************************************************)
(* What an answer tells, however long it waits: a new token is of the      *)
(* account it comes with, a profile is of the owner of the token it was    *)
(* asked with, and a 401 comes from the middleware, which never stops a    *)
(* living token, or from a log in.                                         *)
(***************************************************************************)
Respondido(p) ==
    IF p.fase = "volta"
    THEN /\ p.resp.token # 0 => /\ p.resp.token \in 1 .. Len(emitidos)
                                /\ p.resp.conta = Dono(p.resp.token)
         /\ p.op \in {"eu", "perfil"} /\ p.resp.status = 200 =>
                p.token # 0 /\ p.resp.conta = Dono(p.token)
         /\ p.resp.status = 401 => p.op = "login" \/ ~Vivo(p.token)
    ELSE p.resp = SemResposta

Certo(p) == Preenchido(p) /\ Comparado(p) /\ Respondido(p)

SessInv == TypeOK /\ Reservas /\ Donos /\ \A r \in Pedidos : Certo(pedido[r])

-----------------------------------------------------------------------------
(* What the server keeps: the accounts with the passwords they had, the    *)
(* tokens and whose they are.                                              *)
Guardado ==
    /\ contas \in Seq(ContasPossiveis)
    /\ emitidos \in Seq(Ids)
    /\ expirados \subseteq DOMAIN emitidos
    /\ \A c \in 1 .. Len(contas) : contas[c].senhas # << >>
    /\ \A t \in 1 .. Len(emitidos) : emitidos[t] \in 1 .. Len(contas)

(* It only grows, and a token never comes back.                            *)
ContasCrescem ==
    /\ Len(contas) <= Len(contas')
    /\ \A c \in 1 .. Len(contas) :
           /\ Len(contas[c].senhas) <= Len(contas'[c].senhas)
           /\ \A i \in 1 .. Len(contas[c].senhas) :
                  contas'[c].senhas[i] = contas[c].senhas[i]

TokensCrescem ==
    /\ Len(emitidos) <= Len(emitidos')
    /\ \A t \in 1 .. Len(emitidos) : emitidos'[t] = emitidos[t]
    /\ expirados \subseteq expirados'

Crescem == ContasCrescem /\ TokensCrescem /\ Guardado'

(* Request p became q, which carries what p carried.                       *)
Mesmo(p, q) == q.op = p.op /\ q.de = p.de /\ q.token = p.token /\ q.dado = p.dado

(* In one step only the request in place r changes, and becomes q.         *)
Passa(r, q) == pedido' = [pedido EXCEPT ![r] = q]

(* The request in place r comes back with answer b.                        *)
Volta(r, b) ==
    \E q \in PedidosPossiveis :
        Passa(r, q) /\ Mesmo(pedido[r], q) /\ q.fase = "volta" /\ q.resp = b

Situacoes == {0, 200, 201, 204, 400, 401, 404, 409, 500, 502}

LEMMA UmSoPedido ==
    ASSUME ContasTypeOK, NEW r \in Pedidos, NEW q, Passa(r, q)
    PROVE  /\ pedido'[r] = q
           /\ \A s \in Pedidos : s # r => pedido'[s] = pedido[s]
           /\ q \in PedidosPossiveis \cup {Vago} =>
                  pedido' \in [Pedidos -> PedidosPossiveis \cup {Vago}]
BY DEF ContasTypeOK, Passa

Respostas == [status : Situacoes, token : {0} \cup Tokens, conta : {0} \cup Ids]

(* A request at the places of p, from there on.                            *)
Adiante(p, fase, desde, resp) ==
    [op |-> p.op, de |-> p.de, token |-> p.token, dado |-> p.dado,
     fase |-> fase, desde |-> desde, resp |-> resp]

LEMMA VagoSemNada == Vago.fase = "" /\ Vago.op = "vago" /\ Vago.token = 0 /\ Vago.resp = SemResposta
BY DEF Vago

LEMMA PedidoPossivel ==
    ASSUME ContasTypeOK, NEW r \in Pedidos, pedido[r].fase # ""
    PROVE  pedido[r] \in PedidosPossiveis
<1>1. pedido[r] \in PedidosPossiveis \/ pedido[r] = Vago
  BY DEF ContasTypeOK
<1> QED BY <1>1, VagoSemNada, Zenon

LEMMA CamposDoPedido ==
    ASSUME NEW p \in PedidosPossiveis
    PROVE  /\ p.op \in Ops /\ p.de \in Clientes \cup {"ninguem"}
           /\ p.token \in {0} \cup Tokens /\ p.dado \in DadosPossiveis
           /\ p.fase \in {"ida", "trocar", "volta"} /\ p.desde \in Nat
           /\ p.resp \in Respostas
<1> HIDE DEF Ops, DadosPossiveis, Tokens, Ids
<1> QED BY DEF PedidosPossiveis, Respostas, Situacoes

LEMMA UmCampo ==
    ASSUME NEW p \in PedidosPossiveis, NEW v
    PROVE  /\ [p EXCEPT !.fase = v] = Adiante(p, v, p.desde, p.resp)
           /\ [p EXCEPT !.desde = v] = Adiante(p, p.fase, v, p.resp)
           /\ [p EXCEPT !.resp = v] = Adiante(p, p.fase, p.desde, v)
BY DEF PedidosPossiveis, Adiante

LEMMA CamposAdiante ==
    ASSUME NEW p, NEW f, NEW d, NEW y
    PROVE  /\ Mesmo(p, Adiante(p, f, d, y))
           /\ Adiante(p, f, d, y).fase = f
           /\ Adiante(p, f, d, y).desde = d
           /\ Adiante(p, f, d, y).resp = y
BY DEF Mesmo, Adiante

LEMMA AdianteCabe ==
    ASSUME NEW p \in PedidosPossiveis, NEW f \in {"trocar", "volta"}, NEW d \in Nat,
           NEW y \in Respostas
    PROVE  Adiante(p, f, d, y) \in PedidosPossiveis
BY CamposDoPedido DEF PedidosPossiveis, Respostas, Situacoes, Adiante

LEMMA PedidoAdiante ==
    ASSUME NEW p \in PedidosPossiveis, NEW f \in {"trocar", "volta"}, NEW d \in Nat,
           NEW y \in Respostas
    PROVE  /\ [p EXCEPT !.fase = f, !.resp = y] = Adiante(p, f, p.desde, y)
           /\ [p EXCEPT !.fase = f, !.desde = d] = Adiante(p, f, d, p.resp)
<1>2. PICK m : m = [p EXCEPT !.fase = f]
  OBVIOUS
<1>3. m = Adiante(p, f, p.desde, p.resp)
  BY <1>2, UmCampo
<1>4. m \in PedidosPossiveis
  BY <1>3, AdianteCabe, CamposDoPedido
<1>5. Mesmo(p, m) /\ m.fase = f /\ m.desde = p.desde /\ m.resp = p.resp
  BY <1>3, CamposAdiante
<1>6. [m EXCEPT !.resp = y] = Adiante(p, f, p.desde, y)
  <2>1. [m EXCEPT !.resp = y] = Adiante(m, m.fase, m.desde, y)
    BY <1>4, UmCampo, Zenon
  <2>2. Adiante(m, m.fase, m.desde, y) = Adiante(p, f, p.desde, y)
    BY <1>5 DEF Adiante, Mesmo
  <2> QED BY <2>1, <2>2, Zenon
<1>7. [m EXCEPT !.desde = d] = Adiante(p, f, d, p.resp)
  <2>1. [m EXCEPT !.desde = d] = Adiante(m, m.fase, d, m.resp)
    BY <1>4, UmCampo, Zenon
  <2>2. Adiante(m, m.fase, d, m.resp) = Adiante(p, f, d, p.resp)
    BY <1>5 DEF Adiante, Mesmo
  <2> QED BY <2>1, <2>2, Zenon
<1>8. [p EXCEPT !.fase = f, !.resp = y] = Adiante(p, f, p.desde, y)
  BY <1>2, <1>6, Zenon
<1>9. [p EXCEPT !.fase = f, !.desde = d] = Adiante(p, f, d, p.resp)
  BY <1>2, <1>7, Zenon
<1> QED BY <1>8, <1>9

(* The three ways a handler answers.                                       *)
LEMMA AoResponder ==
    ASSUME ContasTypeOK, NEW r \in Pedidos, pedido[r].fase # "",
           NEW st \in Situacoes, Responder(r, st)
    PROVE  \E q \in PedidosPossiveis :
               /\ Passa(r, q) /\ Mesmo(pedido[r], q) /\ q.fase = "volta"
               /\ q.resp = [status |-> st, token |-> pedido[r].resp.token,
                            conta |-> pedido[r].resp.conta]
<1>1. PICK p \in PedidosPossiveis : p = pedido[r]
  BY PedidoPossivel
<1>2. PICK a \in Respostas : a = p.resp
  BY CamposDoPedido
<1>3. PICK b : b = [a EXCEPT !.status = st]
  OBVIOUS
<1>4. b = [status |-> st, token |-> a.token, conta |-> a.conta] /\ b \in Respostas
  BY <1>3 DEF Respostas
<1>5. Passa(r, [p EXCEPT !.fase = "volta", !.resp = b])
  BY <1>1, <1>2, <1>3 DEF Responder, Passa, ContasTypeOK
<1>6. Passa(r, Adiante(p, "volta", p.desde, b))
  BY <1>4, <1>5, PedidoAdiante, Zenon
<1>7. p.desde \in Nat
  BY CamposDoPedido
<1>8. PICK q : q = Adiante(p, "volta", p.desde, b)
  OBVIOUS
<1>9. q \in PedidosPossiveis /\ Mesmo(p, q) /\ q.fase = "volta" /\ q.resp = b
  <2>1. "volta" \in {"trocar", "volta"}
    OBVIOUS
  <2>2. q \in PedidosPossiveis
    BY <1>4, <1>7, <1>8, <2>1, AdianteCabe, Zenon
  <2>3. Mesmo(p, q) /\ q.fase = "volta" /\ q.resp = b
    BY <1>8 DEF Adiante, Mesmo
  <2> QED BY <2>2, <2>3
<1> QED BY <1>1, <1>2, <1>4, <1>6, <1>8, <1>9, Zenon

LEMMA AoResponderConta ==
    ASSUME ContasTypeOK, NEW r \in Pedidos, pedido[r].fase # "",
           NEW st \in Situacoes, NEW c \in {0} \cup Ids, ResponderConta(r, st, c)
    PROVE  \E q \in PedidosPossiveis :
               /\ Passa(r, q) /\ Mesmo(pedido[r], q) /\ q.fase = "volta"
               /\ q.resp = [status |-> st, token |-> 0, conta |-> c]
<1>1. PICK p \in PedidosPossiveis : p = pedido[r]
  BY PedidoPossivel
<1>2. PICK b \in Respostas : b = [status |-> st, token |-> 0, conta |-> c]
  BY DEF Respostas
<1>3. Passa(r, [p EXCEPT !.fase = "volta", !.resp = b])
  BY <1>1, <1>2 DEF ResponderConta, Passa, ContasTypeOK
<1>4. p.desde \in Nat
  BY CamposDoPedido
<1>5. PICK q : q = Adiante(p, "volta", p.desde, b)
  OBVIOUS
<1>6. Passa(r, q)
  BY <1>3, <1>4, <1>5, PedidoAdiante, Zenon
<1>7. q \in PedidosPossiveis /\ Mesmo(p, q) /\ q.fase = "volta" /\ q.resp = b
  <2>1. "volta" \in {"trocar", "volta"}
    OBVIOUS
  <2>2. q \in PedidosPossiveis
    BY <1>4, <1>5, <2>1, AdianteCabe, Zenon
  <2>3. Mesmo(p, q) /\ q.fase = "volta" /\ q.resp = b
    BY <1>5 DEF Adiante, Mesmo
  <2> QED BY <2>2, <2>3
<1> QED BY <1>1, <1>2, <1>6, <1>7, Zenon

LEMMA AoResponderSessao ==
    ASSUME ContasTypeOK, NEW r \in Pedidos, pedido[r].fase # "",
           NEW st \in Situacoes, NEW c \in Ids,
           NEW t \in Tokens, t = Len(emitidos) + 1, ResponderSessao(r, st, c)
    PROVE  Volta(r, [status |-> st, token |-> t, conta |-> c])
<1>1. PICK p \in PedidosPossiveis : p = pedido[r]
  BY PedidoPossivel
<1>2. PICK b \in Respostas : b = [status |-> st, token |-> t, conta |-> c]
  BY DEF Respostas
<1>3. Passa(r, [p EXCEPT !.fase = "volta", !.resp = b])
  BY <1>1, <1>2 DEF ResponderSessao, Passa, ContasTypeOK
<1>4. p.desde \in Nat
  BY CamposDoPedido
<1>5. PICK q : q = Adiante(p, "volta", p.desde, b)
  OBVIOUS
<1>6. Passa(r, q)
  BY <1>3, <1>4, <1>5, PedidoAdiante, Zenon
<1>7. q \in PedidosPossiveis /\ Mesmo(p, q) /\ q.fase = "volta" /\ q.resp = b
  <2>1. "volta" \in {"trocar", "volta"}
    OBVIOUS
  <2>2. q \in PedidosPossiveis
    BY <1>4, <1>5, <2>1, AdianteCabe, Zenon
  <2>3. Mesmo(p, q) /\ q.fase = "volta" /\ q.resp = b
    BY <1>5 DEF Adiante, Mesmo
  <2> QED BY <2>2, <2>3
<1> QED BY <1>1, <1>2, <1>6, <1>7, Zenon DEF Volta

-----------------------------------------------------------------------------
(* What may become of the accounts: one is added, or one gets another      *)
(* e-mail, another password after those it had, or another term.           *)
Retencoes == 30 .. 3650

LEMMA FormaDaConta ==
    ContasPossiveis = [email : Emails, senhas : Seq(Senhas), retencao : Retencoes]
BY DEF ContasPossiveis, Retencoes

LEMMA CamposDaConta ==
    ASSUME contas \in Seq(ContasPossiveis), NEW c \in 1 .. Len(contas)
    PROVE  /\ contas[c] \in ContasPossiveis
           /\ contas[c].email \in Emails
           /\ contas[c].senhas \in Seq(Senhas)
           /\ Len(contas[c].senhas) \in Nat
           /\ contas[c].retencao \in Retencoes
<1>1. contas[c] \in ContasPossiveis
  OBVIOUS
<1>2. \A x \in ContasPossiveis : /\ x.email \in Emails /\ x.senhas \in Seq(Senhas)
                                 /\ x.retencao \in Retencoes
  BY FormaDaConta
<1>3. \A s \in Seq(Senhas) : Len(s) \in Nat
  OBVIOUS
<1> QED BY <1>1, <1>2, <1>3

LEMMA ContaCriada ==
    ASSUME contas \in Seq(ContasPossiveis), NEW r \in Pedidos, Preenchido(pedido[r]),
           pedido[r].op = "cadastro", contas' = ComConta(r)
    PROVE  /\ contas' \in Seq(ContasPossiveis)
           /\ Len(contas') = Len(contas) + 1
           /\ \A c \in 1 .. Len(contas) : contas'[c] = contas[c]
           /\ contas'[Len(contas) + 1].senhas # << >>
<1>1. PICK x : x = [email |-> pedido[r].dado[1], senhas |-> <<pedido[r].dado[2]>>, retencao |-> 365]
  OBVIOUS
<1>2. x \in ContasPossiveis /\ x.senhas # << >>
  <2>1. <<pedido[r].dado[2]>> \in Seq(Senhas) /\ <<pedido[r].dado[2]>> # << >>
    BY DEF Preenchido
  <2>2. x.senhas = <<pedido[r].dado[2]>>
    BY <1>1
  <2>3. x \in ContasPossiveis
    BY <1>1, <2>1 DEF Preenchido, ContasPossiveis
  <2> QED BY <2>1, <2>2, <2>3
<1>3. contas' = Append(contas, x)
  BY <1>1 DEF ComConta
<1> QED BY <1>2, <1>3

(* Account c, and no other, is x now.                                      *)
SoUmaMudou(c, x) ==
    /\ contas' \in Seq(ContasPossiveis)
    /\ Len(contas') = Len(contas)
    /\ contas'[c] = x
    /\ \A d \in 1 .. Len(contas) : d # c => contas'[d] = contas[d]

LEMMA ContaMudada ==
    ASSUME contas \in Seq(ContasPossiveis), NEW c \in 1 .. Len(contas),
           NEW x \in ContasPossiveis, contas' = [contas EXCEPT ![c] = x]
    PROVE  SoUmaMudou(c, x)
BY DEF SoUmaMudou

AContaCom(e, s, n) == [email |-> e, senhas |-> s, retencao |-> n]

LEMMA UmCampoDaConta ==
    ASSUME NEW y \in ContasPossiveis, NEW v
    PROVE  /\ [y EXCEPT !.email = v] = AContaCom(v, y.senhas, y.retencao)
           /\ [y EXCEPT !.senhas = v] = AContaCom(y.email, v, y.retencao)
           /\ [y EXCEPT !.retencao = v] = AContaCom(y.email, y.senhas, v)
<1>1. PICK S : S = Seq(Senhas)
  OBVIOUS
<1>2. y \in [email : Emails, senhas : S, retencao : Retencoes]
  BY <1>1, FormaDaConta, Zenon
<1> QED BY <1>2 DEF AContaCom

LEMMA ContaCabe ==
    ASSUME NEW e \in Emails, NEW s \in Seq(Senhas), NEW n \in Retencoes
    PROVE  /\ AContaCom(e, s, n) \in ContasPossiveis
           /\ AContaCom(e, s, n).senhas = s
<1>1. AContaCom(e, s, n) \in ContasPossiveis
  BY FormaDaConta DEF AContaCom
<1>2. AContaCom(e, s, n).senhas = s
  BY DEF AContaCom
<1> QED BY <1>1, <1>2

LEMMA EmailMudado ==
    ASSUME contas \in Seq(ContasPossiveis), NEW c \in 1 .. Len(contas), NEW e \in Emails,
           contas' = [contas EXCEPT ![c].email = e]
    PROVE  /\ contas' \in Seq(ContasPossiveis)
           /\ Len(contas') = Len(contas)
           /\ \A d \in 1 .. Len(contas) : contas'[d].senhas = contas[d].senhas
<1>1. PICK s \in Seq(Senhas), n \in Retencoes : s = contas[c].senhas /\ n = contas[c].retencao
  BY CamposDaConta
<1>2. [contas[c] EXCEPT !.email = e] = AContaCom(e, s, n)
  BY <1>1, CamposDaConta, UmCampoDaConta, Zenon
<1>3. PICK x \in ContasPossiveis : x = AContaCom(e, s, n) /\ x.senhas = s
  BY ContaCabe, Zenon
<1>4. contas' = [contas EXCEPT ![c] = x]
  BY <1>2, <1>3, Zenon
<1>5. SoUmaMudou(c, x)
  BY <1>4, ContaMudada, Zenon
<1> QED BY <1>1, <1>3, <1>5, Zenon DEF SoUmaMudou

LEMMA PrazoMudado ==
    ASSUME contas \in Seq(ContasPossiveis), NEW c \in 1 .. Len(contas), NEW n \in Retencoes,
           contas' = [contas EXCEPT ![c].retencao = n]
    PROVE  /\ contas' \in Seq(ContasPossiveis)
           /\ Len(contas') = Len(contas)
           /\ \A d \in 1 .. Len(contas) : contas'[d].senhas = contas[d].senhas
<1>1. PICK s \in Seq(Senhas), e \in Emails : s = contas[c].senhas /\ e = contas[c].email
  BY CamposDaConta
<1>2. [contas[c] EXCEPT !.retencao = n] = AContaCom(e, s, n)
  BY <1>1, CamposDaConta, UmCampoDaConta, Zenon
<1>3. PICK x \in ContasPossiveis : x = AContaCom(e, s, n) /\ x.senhas = s
  BY ContaCabe, Zenon
<1>4. contas' = [contas EXCEPT ![c] = x]
  BY <1>2, <1>3, Zenon
<1>5. SoUmaMudou(c, x)
  BY <1>4, ContaMudada, Zenon
<1> QED BY <1>1, <1>3, <1>5, Zenon DEF SoUmaMudou

LEMMA MaisUmaSenha == \A z \in Seq(Senhas), s \in Senhas : Append(z, s) \in Seq(Senhas)
OBVIOUS

LEMMA SenhaMudada ==
    ASSUME contas \in Seq(ContasPossiveis), NEW c \in 1 .. Len(contas), NEW s \in Senhas,
           contas' = [contas EXCEPT ![c].senhas = Append(@, s)]
    PROVE  /\ contas' \in Seq(ContasPossiveis)
           /\ Len(contas') = Len(contas)
           /\ \A d \in 1 .. Len(contas) : d # c => contas'[d].senhas = contas[d].senhas
           /\ contas'[c].senhas = Append(contas[c].senhas, s)
<1>1. PICK e \in Emails, n \in Retencoes : e = contas[c].email /\ n = contas[c].retencao
  BY CamposDaConta
<1>2. PICK z \in Seq(Senhas) : z = Append(contas[c].senhas, s)
  BY CamposDaConta, MaisUmaSenha, Zenon
<1>3. [contas[c] EXCEPT !.senhas = z] = AContaCom(e, z, n)
  BY <1>1, CamposDaConta, UmCampoDaConta, Zenon
<1>4. PICK x \in ContasPossiveis : x = AContaCom(e, z, n) /\ x.senhas = z
  BY ContaCabe, Zenon
<1>5. contas' = [contas EXCEPT ![c] = x]
  BY <1>2, <1>3, <1>4, Zenon
<1>6. SoUmaMudou(c, x)
  BY <1>5, ContaMudada, Zenon
<1> QED BY <1>2, <1>4, <1>6, Zenon DEF SoUmaMudou

-----------------------------------------------------------------------------
(* Every step of the server makes what it keeps grow.                      *)
LEMMA SenhasEmSequencia ==
    ASSUME Guardado, NEW c \in 1 .. Len(contas)
    PROVE  contas[c].senhas \in Seq(Senhas) /\ Len(contas[c].senhas) \in Nat
BY CamposDaConta DEF Guardado

LEMMA NadaMuda ==
    ASSUME Guardado, UNCHANGED <<contas, emitidos, expirados>>
    PROVE  Crescem
<1>1. ContasCrescem
  BY SenhasEmSequencia DEF ContasCrescem, Guardado
<1>2. TokensCrescem
  BY DEF TokensCrescem, Guardado
<1>3. Guardado'
  BY DEF Guardado
<1> QED BY <1>1, <1>2, <1>3 DEF Crescem

(* The accounts change, and the tokens do not.                             *)
LEMMA SoContas ==
    ASSUME Guardado, ContasCrescem, contas' \in Seq(ContasPossiveis),
           \A c \in 1 .. Len(contas') : contas'[c].senhas # << >>,
           UNCHANGED emitidos, expirados \subseteq expirados',
           expirados' \subseteq DOMAIN emitidos
    PROVE  Crescem
<1>1. TokensCrescem
  BY DEF TokensCrescem, Guardado
<1>2. \A t \in 1 .. Len(emitidos') : emitidos'[t] \in 1 .. Len(contas')
  <2>1. Len(contas) \in Nat /\ Len(contas') \in Nat /\ Len(contas) <= Len(contas')
    BY DEF ContasCrescem, Guardado
  <2> QED BY <2>1 DEF Guardado
<1>3. Guardado'
  BY <1>2 DEF Guardado
<1> QED BY <1>1, <1>3 DEF Crescem

(* An account is added.                                                    *)
ComOutra ==
    /\ contas' \in Seq(ContasPossiveis)
    /\ Len(contas') = Len(contas) + 1
    /\ \A c \in 1 .. Len(contas) : contas'[c] = contas[c]
    /\ contas'[Len(contas) + 1].senhas # << >>

LEMMA ContaAMais ==
    ASSUME Guardado, ComOutra
    PROVE  /\ ContasCrescem /\ contas' \in Seq(ContasPossiveis)
           /\ \A c \in 1 .. Len(contas') : contas'[c].senhas # << >>
<1>1. Len(contas) \in Nat
  BY DEF Guardado
<1>2. ContasCrescem
  <2>1. \A c \in 1 .. Len(contas) : Len(contas[c].senhas) \in Nat
    BY SenhasEmSequencia
  <2> QED BY <1>1, <2>1 DEF ContasCrescem, ComOutra
<1>3. \A c \in 1 .. Len(contas') : contas'[c].senhas # << >>
  <2>1. TAKE c \in 1 .. Len(contas')
  <2>2. c \in 1 .. Len(contas) \/ c = Len(contas) + 1
    BY <1>1 DEF ComOutra
  <2> QED BY <2>2 DEF ComOutra, Guardado
<1> QED BY <1>2, <1>3 DEF ComOutra

(* The passwords stay.                                                     *)
MesmasSenhas ==
    /\ contas' \in Seq(ContasPossiveis)
    /\ Len(contas') = Len(contas)
    /\ \A c \in 1 .. Len(contas) : contas'[c].senhas = contas[c].senhas

LEMMA SenhasFicam ==
    ASSUME Guardado, MesmasSenhas
    PROVE  /\ ContasCrescem /\ contas' \in Seq(ContasPossiveis)
           /\ \A c \in 1 .. Len(contas') : contas'[c].senhas # << >>
<1>1. Len(contas) \in Nat
  BY DEF Guardado
<1>2. \A c \in 1 .. Len(contas) : Len(contas[c].senhas) \in Nat
  BY SenhasEmSequencia
<1>3. ContasCrescem
  BY <1>1, <1>2 DEF ContasCrescem, MesmasSenhas
<1> QED BY <1>1, <1>3 DEF MesmasSenhas, Guardado

(* Account k has password s after those it had.                            *)
OutraSenha(k, s) ==
    /\ contas' \in Seq(ContasPossiveis)
    /\ Len(contas') = Len(contas)
    /\ \A c \in 1 .. Len(contas) : c # k => contas'[c].senhas = contas[c].senhas
    /\ contas'[k].senhas = Append(contas[k].senhas, s)

LEMMA SenhaAMais ==
    ASSUME Guardado, NEW k \in 1 .. Len(contas), NEW s \in Senhas, OutraSenha(k, s)
    PROVE  /\ ContasCrescem /\ contas' \in Seq(ContasPossiveis)
           /\ \A c \in 1 .. Len(contas') : contas'[c].senhas # << >>
<1>1. Len(contas) \in Nat
  BY DEF Guardado
<1>2. \A z \in Seq(Senhas) : /\ Len(Append(z, s)) = Len(z) + 1
                             /\ Append(z, s) # << >>
                             /\ \A i \in 1 .. Len(z) : Append(z, s)[i] = z[i]
  OBVIOUS
<1>3. \A c \in 1 .. Len(contas) : /\ contas[c].senhas \in Seq(Senhas)
                                  /\ Len(contas[c].senhas) \in Nat
  BY SenhasEmSequencia
<1>4. /\ Len(contas'[k].senhas) = Len(contas[k].senhas) + 1
      /\ contas'[k].senhas # << >>
      /\ \A i \in 1 .. Len(contas[k].senhas) : contas'[k].senhas[i] = contas[k].senhas[i]
  BY <1>2, <1>3 DEF OutraSenha
<1>5. ASSUME NEW c \in 1 .. Len(contas)
      PROVE  /\ Len(contas[c].senhas) <= Len(contas'[c].senhas)
             /\ \A i \in 1 .. Len(contas[c].senhas) :
                    contas'[c].senhas[i] = contas[c].senhas[i]
             /\ contas'[c].senhas # << >>
  <2>1. CASE c = k
    BY <1>3, <1>4, <2>1
  <2>2. CASE c # k
    BY <1>3, <2>2 DEF OutraSenha, Guardado
  <2> QED BY <2>1, <2>2
<1> QED BY <1>1, <1>5 DEF OutraSenha, ContasCrescem

-----------------------------------------------------------------------------
(* What is true of a request stays true while what the server keeps grows. *)
LEMMA DonoFica ==
    ASSUME Guardado, Crescem, NEW t \in 1 .. Len(emitidos)
    PROVE  /\ t \in 1 .. Len(emitidos') /\ Dono(t)' = Dono(t)
           /\ Dono(t) \in 1 .. Len(contas)
<1>1. Len(emitidos) \in Nat /\ Len(emitidos') \in Nat /\ Len(emitidos) <= Len(emitidos')
  BY DEF Guardado, Crescem, TokensCrescem
<1> QED BY <1>1 DEF Guardado, Crescem, TokensCrescem, Dono

LEMMA PreenchidoFica ==
    ASSUME Guardado, Crescem, NEW p, Preenchido(p)
    PROVE  Preenchido(p)'
<1>1. Len(emitidos) \in Nat /\ Len(emitidos') \in Nat /\ Len(emitidos) <= Len(emitidos')
  BY DEF Guardado, Crescem, TokensCrescem
<1> QED BY <1>1 DEF Preenchido

LEMMA ComparadoFica ==
    ASSUME Guardado, Crescem, NEW p, Preenchido(p), Comparado(p)
    PROVE  Comparado(p)'
<1> SUFFICES ASSUME p.fase = "trocar"
             PROVE  /\ p.op = "senha"
                    /\ p.token # 0
                    /\ p.desde \in 1 .. Len(contas'[Dono(p.token)'].senhas)
                    /\ contas'[Dono(p.token)'].senhas[p.desde] = p.dado[1]
  BY DEF Comparado
<1>1. p.token \in 1 .. Len(emitidos)
  <2>1. Len(emitidos) \in Nat
    BY DEF Guardado
  <2> QED BY <2>1 DEF Comparado, Preenchido
<1>2. PICK c \in 1 .. Len(contas) : c = Dono(p.token) /\ c = Dono(p.token)'
  BY <1>1, DonoFica
<1>3. /\ Len(contas[c].senhas) \in Nat /\ Len(contas'[c].senhas) \in Nat
      /\ Len(contas[c].senhas) <= Len(contas'[c].senhas)
      /\ \A i \in 1 .. Len(contas[c].senhas) : contas'[c].senhas[i] = contas[c].senhas[i]
  <2>1. Len(contas[c].senhas) \in Nat
    BY SenhasEmSequencia
  <2>2. c \in 1 .. Len(contas')
    <3>1. Len(contas) \in Nat /\ Len(contas') \in Nat /\ Len(contas) <= Len(contas')
      BY DEF Guardado, Crescem, ContasCrescem
    <3> QED BY <3>1
  <2>3. Len(contas'[c].senhas) \in Nat
    <3>1. contas'[c] \in ContasPossiveis
      BY <2>2 DEF Crescem, Guardado
    <3>2. \A x \in ContasPossiveis : x.senhas \in Seq(Senhas)
      BY FormaDaConta
    <3>3. \A s \in Seq(Senhas) : Len(s) \in Nat
      OBVIOUS
    <3> QED BY <3>1, <3>2, <3>3, Zenon
  <2> QED BY <2>1, <2>3 DEF Crescem, ContasCrescem
<1>4. p.op = "senha" /\ p.token # 0 /\ p.desde \in 1 .. Len(contas[c].senhas)
      /\ contas[c].senhas[p.desde] = p.dado[1]
  BY <1>2 DEF Comparado
<1>5. p.desde \in 1 .. Len(contas'[c].senhas) /\ contas'[c].senhas[p.desde] = p.dado[1]
  BY <1>3, <1>4
<1> QED BY <1>2, <1>4, <1>5, Zenon

LEMMA MortoFica ==
    ASSUME Crescem, NEW t, ~Vivo(t)
    PROVE  ~Vivo(t)'
BY DEF Crescem, TokensCrescem, Vivo

LEMMA RespondidoFica ==
    ASSUME Guardado, Crescem, NEW p, Preenchido(p), Respondido(p)
    PROVE  Respondido(p)'
<1>1. CASE p.fase # "volta"
  BY <1>1 DEF Respondido
<1>2. CASE p.fase = "volta"
  <2>1. p.resp.token # 0 => /\ p.resp.token \in 1 .. Len(emitidos')
                            /\ p.resp.conta = Dono(p.resp.token)'
    BY <1>2, DonoFica DEF Respondido
  <2>2. ASSUME p.op \in {"eu", "perfil"}, p.resp.status = 200
        PROVE  p.token # 0 /\ p.resp.conta = Dono(p.token)'
    <3>1. p.token # 0 /\ p.resp.conta = Dono(p.token)
      BY <1>2, <2>2 DEF Respondido
    <3>2. p.token \in 1 .. Len(emitidos)
      <4>1. Len(emitidos) \in Nat
        BY DEF Guardado
      <4> QED BY <3>1, <4>1 DEF Preenchido
    <3> QED BY <3>1, <3>2, DonoFica
  <2>3. p.resp.status = 401 => p.op = "login" \/ ~Vivo(p.token)'
    BY <1>2, MortoFica DEF Respondido
  <2> QED BY <1>2, <2>1, <2>2, <2>3 DEF Respondido
<1> QED BY <1>1, <1>2

LEMMA CertoFica ==
    ASSUME Guardado, Crescem, NEW p, Certo(p)
    PROVE  Certo(p)'
BY PreenchidoFica, ComparadoFica, RespondidoFica DEF Certo

(* A place left, or a request whose page is gone.                          *)
LEMMA VagoCerto == ASSUME Guardado PROVE Certo(Vago)
<1>1. 0 \in 0 .. Len(emitidos)
  BY DEF Guardado
<1> QED BY <1>1, VagoSemNada DEF Certo, Preenchido, Comparado, Respondido

LEMMA Orfao ==
    ASSUME NEW p \in PedidosPossiveis
    PROVE  \E q \in PedidosPossiveis :
               /\ q = [p EXCEPT !.de = "ninguem"]
               /\ q.op = p.op /\ q.fase = p.fase
               /\ Certo(p) => Certo(q)
<1>1. PICK q : q = [p EXCEPT !.de = "ninguem"]
  OBVIOUS
<1>2. q = [op |-> p.op, de |-> "ninguem", token |-> p.token, dado |-> p.dado,
           fase |-> p.fase, desde |-> p.desde, resp |-> p.resp]
  BY <1>1 DEF PedidosPossiveis
<1>3. q \in PedidosPossiveis
  BY <1>2, CamposDoPedido DEF PedidosPossiveis, Respostas, Situacoes
<1>4. /\ q.op = p.op /\ q.token = p.token /\ q.dado = p.dado /\ q.fase = p.fase
      /\ q.desde = p.desde /\ q.resp = p.resp
  BY <1>2
<1>5. Certo(p) => Certo(q)
  BY <1>4 DEF Certo, Preenchido, Comparado, Respondido
<1> QED BY <1>1, <1>3, <1>4, <1>5, Zenon

(* A request with these fields.                                            *)
Um(op, de, t, d, fase, desde, resp) ==
    [op |-> op, de |-> de, token |-> t, dado |-> d,
     fase |-> fase, desde |-> desde, resp |-> resp]

LEMMA VagoPreenchido ==
    ASSUME NEW op, NEW a, NEW t, NEW d
    PROVE  [Vago EXCEPT !.op = op, !.de = a, !.token = t, !.dado = d, !.fase = "ida"]
               = Um(op, a, t, d, "ida", 0, SemResposta)
<1>1. PICK o0, a0, t0, d0, f0 : /\ o0 = "vago" /\ a0 = "ninguem" /\ t0 = 0
                                /\ d0 = <<"", "">> /\ f0 = ""
  OBVIOUS
<1>2. PICK y, ida : y = SemResposta /\ ida = "ida"
  OBVIOUS
<1>3. PICK m : m = Um(o0, a0, t0, d0, f0, 0, y)
  OBVIOUS
<1>4. m = Vago
  BY <1>1, <1>2, <1>3, Zenon DEF Vago, Um
<1>5. [Um(o0, a0, t0, d0, f0, 0, y) EXCEPT !.op = op] = Um(op, a0, t0, d0, f0, 0, y)
  BY DEF Um
<1>6. PICK m1 : m1 = [m EXCEPT !.op = op]
  OBVIOUS
<1>7. m1 = Um(op, a0, t0, d0, f0, 0, y)
  BY <1>3, <1>5, <1>6, Zenon
<1>8. [Um(op, a0, t0, d0, f0, 0, y) EXCEPT !.de = a] = Um(op, a, t0, d0, f0, 0, y)
  BY DEF Um
<1>9. PICK m2 : m2 = [m1 EXCEPT !.de = a]
  OBVIOUS
<1>10. m2 = Um(op, a, t0, d0, f0, 0, y)
  BY <1>7, <1>8, <1>9, Zenon
<1>11. [Um(op, a, t0, d0, f0, 0, y) EXCEPT !.token = t] = Um(op, a, t, d0, f0, 0, y)
  BY DEF Um
<1>12. PICK m3 : m3 = [m2 EXCEPT !.token = t]
  OBVIOUS
<1>13. m3 = Um(op, a, t, d0, f0, 0, y)
  BY <1>10, <1>11, <1>12, Zenon
<1>14. [Um(op, a, t, d0, f0, 0, y) EXCEPT !.dado = d] = Um(op, a, t, d, f0, 0, y)
  BY DEF Um
<1>15. PICK m4 : m4 = [m3 EXCEPT !.dado = d]
  OBVIOUS
<1>16. m4 = Um(op, a, t, d, f0, 0, y)
  BY <1>13, <1>14, <1>15, Zenon
<1>17. [Um(op, a, t, d, f0, 0, y) EXCEPT !.fase = ida] = Um(op, a, t, d, ida, 0, y)
  BY DEF Um
<1>18. [m4 EXCEPT !.fase = ida] = Um(op, a, t, d, ida, 0, y)
  BY <1>16, <1>17, Zenon
<1> QED BY <1>2, <1>4, <1>6, <1>9, <1>12, <1>15, <1>18, Zenon

(* A request just sent, with the token in place.                           *)
LEMMA Novo ==
    ASSUME Guardado, token \in 0 .. Len(emitidos), token \in {0} \cup Tokens,
           NEW op \in Ops, NEW a \in Clientes, NEW d \in DadosPossiveis,
           op \in {"cadastro", "perfil"} => d[1] \in Emails,
           op \in {"cadastro", "senha"} => d[2] \in Senhas
    PROVE  \E q \in PedidosPossiveis :
               /\ q = [Vago EXCEPT !.op = op, !.de = a, !.token = token, !.dado = d,
                                   !.fase = "ida"]
               /\ q.op = op /\ q.fase = "ida" /\ Certo(q)
<1>1. PICK t : t = token
  OBVIOUS
<1>2. PICK q : q = Um(op, a, t, d, "ida", 0, SemResposta)
  OBVIOUS
<1>3. q = [Vago EXCEPT !.op = op, !.de = a, !.token = t, !.dado = d, !.fase = "ida"]
  BY <1>2, VagoPreenchido, Zenon
<1>4. SemResposta \in Respostas
  BY DEF SemResposta, Respostas, Situacoes
<1>5. q \in PedidosPossiveis
  BY <1>1, <1>2, <1>4 DEF PedidosPossiveis, Respostas, Situacoes, Um
<1>6. q.op = op /\ q.token = t /\ q.dado = d /\ q.fase = "ida" /\ q.resp = SemResposta
  BY <1>2 DEF Um
<1>7. Certo(q)
  BY <1>1, <1>6 DEF Certo, Preenchido, Comparado, Respondido
<1> QED BY <1>1, <1>3, <1>5, <1>6, <1>7, Zenon

-----------------------------------------------------------------------------
(* What a handler leaves in its place: an answer, or a password compared.  *)
Atendido(r) ==
    \E q \in PedidosPossiveis :
        /\ Passa(r, q)
        /\ q.fase \in {"trocar", "volta"}
        /\ pedido[r].fase = "trocar" => q.fase = "volta"
        /\ Certo(q)'

(* An answer is right if what it tells is.                                 *)
LEMMA RespostaCerta ==
    ASSUME Guardado, Crescem, NEW p, Certo(p), NEW q, Mesmo(p, q), q.fase = "volta",
           Respondido(q)'
    PROVE  Certo(q)'
<1>1. Preenchido(q)'
  <2>1. Preenchido(p)'
    BY PreenchidoFica DEF Certo
  <2> QED BY <2>1 DEF Preenchido, Mesmo
<1>2. Comparado(q)'
  BY DEF Comparado
<1> QED BY <1>1, <1>2 DEF Certo

LEMMA AtendidoSimples ==
    ASSUME ContasTypeOK, Guardado, Crescem, NEW r \in Pedidos, Certo(pedido[r]),
           pedido[r].fase \in {"ida", "trocar"}, NEW st \in Situacoes, Responder(r, st),
           st = 200 => pedido[r].op \notin {"eu", "perfil"},
           st = 401 => pedido[r].op = "login" \/ ~Vivo(pedido[r].token)
    PROVE  Atendido(r)
<1>1. pedido[r].fase # "" /\ pedido[r].fase # "volta"
  OBVIOUS
<1>2. PICK p : p = pedido[r]
  OBVIOUS
<1>3. p.resp = SemResposta
  BY <1>1, <1>2 DEF Certo, Respondido
<1>4. PICK q \in PedidosPossiveis :
          /\ Passa(r, q) /\ Mesmo(p, q) /\ q.fase = "volta"
          /\ q.resp = [status |-> st, token |-> p.resp.token, conta |-> p.resp.conta]
  BY <1>1, <1>2, AoResponder
<1>5. q.resp.status = st /\ q.resp.token = 0
  BY <1>3, <1>4 DEF SemResposta
<1>6. Respondido(q)'
  <2>1. st = 200 => q.op \notin {"eu", "perfil"}
    BY <1>2, <1>4 DEF Mesmo
  <2>2. st = 401 => q.op = "login" \/ ~Vivo(q.token)'
    BY <1>2, <1>4, MortoFica DEF Mesmo
  <2> QED BY <1>4, <1>5, <2>1, <2>2 DEF Respondido
<1>7. Certo(q)'
  BY <1>2, <1>4, <1>6, RespostaCerta
<1> QED BY <1>2, <1>4, <1>7 DEF Atendido

LEMMA AtendidoConta ==
    ASSUME ContasTypeOK, Guardado, Crescem, NEW r \in Pedidos, Certo(pedido[r]),
           pedido[r].fase = "ida", Vivo(pedido[r].token),
           ResponderConta(r, 200, Conta(r))
    PROVE  Atendido(r)
<1>1. pedido[r].fase # ""
  OBVIOUS
<1>2. PICK p : p = pedido[r]
  OBVIOUS
<1>3. p.token \in 1 .. Len(emitidos)
  <2>1. Len(emitidos) \in Nat
    BY DEF Guardado
  <2> QED BY <1>2, <2>1 DEF Certo, Preenchido, Vivo
<1>4. PICK c : c = Conta(r)
  OBVIOUS
<1>5. c = Dono(p.token) /\ c = Dono(p.token)'
  BY <1>2, <1>3, <1>4, DonoFica DEF Conta
<1>6. c \in {0} \cup Ids
  <2>1. \A t \in 1 .. Len(emitidos) : Dono(t) \in Ids
    BY DEF Guardado, Dono
  <2> QED BY <1>3, <1>5, <2>1, Zenon
<1>7. PICK q \in PedidosPossiveis :
          /\ Passa(r, q) /\ Mesmo(p, q) /\ q.fase = "volta"
          /\ q.resp = [status |-> 200, token |-> 0, conta |-> c]
  <2>1. PICK st \in Situacoes : st = 200
    BY DEF Situacoes
  <2>2. ResponderConta(r, st, c)
    BY <1>4, <2>1
  <2>3. PICK q \in PedidosPossiveis :
            /\ Passa(r, q) /\ Mesmo(pedido[r], q) /\ q.fase = "volta"
            /\ q.resp = [status |-> st, token |-> 0, conta |-> c]
    BY <1>1, <1>6, <2>2, AoResponderConta
  <2> QED BY <1>2, <2>1, <2>3
<1>8. Respondido(q)'
  <2>1. q.resp.status = 200 /\ q.resp.token = 0 /\ q.resp.conta = c /\ q.token = p.token
    BY <1>7 DEF Mesmo
  <2> QED BY <1>3, <1>5, <1>7, <2>1 DEF Respondido
<1>9. Certo(q)'
  BY <1>2, <1>7, <1>8, RespostaCerta
<1> QED BY <1>2, <1>7, <1>9 DEF Atendido

(* A request that waits for a session, and the status of a session given.  *)
PedeSessao(r, st) ==
    /\ pedido[r].fase = "ida" /\ pedido[r].op \in {"cadastro", "login"}
    /\ st \in {200, 201}

LEMMA AtendidoSessao ==
    ASSUME ContasTypeOK, Guardado, Crescem, NEW r \in Pedidos, Certo(pedido[r]),
           NEW st, PedeSessao(r, st), NEW c \in Ids,
           Len(emitidos) + 1 \in Tokens, ResponderSessao(r, st, c)
    PROVE  Atendido(r)
<1>0. pedido[r].op \in {"cadastro", "login"} /\ st \in {200, 201}
  BY DEF PedeSessao
<1>1. pedido[r].fase # ""
  BY DEF PedeSessao
<1>2. PICK p : p = pedido[r]
  OBVIOUS
<1>3. PICK t \in Tokens : t = Len(emitidos) + 1
  OBVIOUS
<1>4. t \in 1 .. Len(emitidos') /\ Dono(t)' = c
  <2>1. emitidos' = Append(emitidos, c) /\ emitidos \in Seq(Ids)
    BY DEF ResponderSessao, Guardado
  <2>2. Len(emitidos') = Len(emitidos) + 1 /\ Len(emitidos) \in Nat
    BY <2>1
  <2>3. emitidos'[Len(emitidos) + 1] = c
    BY <2>1
  <2> QED BY <1>3, <2>2, <2>3 DEF Dono
<1>5. PICK q \in PedidosPossiveis :
          /\ Passa(r, q) /\ Mesmo(p, q) /\ q.fase = "volta"
          /\ q.resp = [status |-> st, token |-> t, conta |-> c]
  <2>1. PICK s \in Situacoes : s = st
    BY <1>0 DEF Situacoes
  <2>2. ResponderSessao(r, s, c)
    BY <2>1
  <2>3. Volta(r, [status |-> s, token |-> t, conta |-> c])
    BY <1>1, <1>3, <2>2, AoResponderSessao, Zenon
  <2>4. PICK q \in PedidosPossiveis :
            /\ Passa(r, q) /\ Mesmo(pedido[r], q) /\ q.fase = "volta"
            /\ q.resp = [status |-> s, token |-> t, conta |-> c]
    BY <2>3 DEF Volta
  <2> QED BY <1>2, <2>1, <2>4
<1>6. Respondido(q)'
  <2>1. q.resp.status = st /\ q.resp.token = t /\ q.resp.conta = c /\ q.op = p.op
    BY <1>5 DEF Mesmo
  <2> QED BY <1>0, <1>2, <1>4, <1>5, <2>1 DEF Respondido
<1>7. Certo(q)'
  BY <1>2, <1>5, <1>6, RespostaCerta
<1> QED BY <1>2, <1>5, <1>7 DEF Atendido

LEMMA AtendidoComparar ==
    ASSUME ContasTypeOK, Guardado, Crescem, NEW r \in Pedidos, Certo(pedido[r]),
           CompararSenha(r)
    PROVE  Atendido(r)
<1>1. PICK p : p = pedido[r]
  OBVIOUS
<1>2. p.op = "senha" /\ p.fase = "ida" /\ Vivo(p.token) /\ p.dado[1] = Senha(Conta(r))
  BY <1>1 DEF CompararSenha, Admitido, Chegou
<1>3. p \in PedidosPossiveis
  BY <1>1, <1>2, PedidoPossivel
<1>4. p.token \in 1 .. Len(emitidos) /\ p.token # 0
  <2>1. Len(emitidos) \in Nat
    BY DEF Guardado
  <2> QED BY <1>1, <1>2, <2>1 DEF Certo, Preenchido, Vivo
<1>5. PICK c \in 1 .. Len(contas) : c = Dono(p.token) /\ c = Dono(p.token)' /\ c = Conta(r)
  BY <1>1, <1>4, DonoFica DEF Conta
<1>6. PICK s \in Seq(Senhas) : s = contas[c].senhas
  BY SenhasEmSequencia
<1>7. PICK n : n = Len(s)
  OBVIOUS
<1>8. n \in Nat /\ n \in 1 .. Len(s) /\ s[n] = p.dado[1]
  <2>1. s # << >>
    BY <1>6 DEF Guardado
  <2>2. n \in Nat /\ n \in 1 .. Len(s)
    BY <1>7, <2>1
  <2>3. p.dado[1] = Last(s)
    BY <1>2, <1>5, <1>6, Zenon DEF Senha
  <2> QED BY <1>7, <2>2, <2>3 DEF Last
<1>9. s = contas'[c].senhas
  BY <1>6 DEF CompararSenha
<1>10. Passa(r, [p EXCEPT !.fase = "trocar", !.desde = n])
  BY <1>1, <1>5, <1>6, <1>7 DEF CompararSenha, Comparada, Passa, ContasTypeOK
<1>11. PICK q : q = Adiante(p, "trocar", n, p.resp)
  OBVIOUS
<1>12. p.resp \in Respostas /\ "trocar" \in {"trocar", "volta"}
  BY <1>3, CamposDoPedido
<1>13. [p EXCEPT !.fase = "trocar", !.desde = n] = q
  BY <1>3, <1>8, <1>11, <1>12, PedidoAdiante, Zenon
<1>14. Passa(r, q)
  BY <1>10, <1>13, Zenon
<1>15. q \in PedidosPossiveis
  BY <1>3, <1>8, <1>11, <1>12, AdianteCabe, Zenon
<1>16. Mesmo(p, q) /\ q.fase = "trocar" /\ q.desde = n /\ q.resp = p.resp
  BY <1>11 DEF Adiante, Mesmo
<1>17. Certo(q)'
  <2>1. Preenchido(q)'
    <3>1. Preenchido(p)'
      BY <1>1, PreenchidoFica DEF Certo
    <3> QED BY <1>16, <3>1 DEF Preenchido, Mesmo
  <2>2. Comparado(q)'
    <3>1. q.op = "senha" /\ q.token = p.token /\ q.dado = p.dado
      BY <1>2, <1>16 DEF Mesmo
    <3>2. contas'[Dono(q.token)'].senhas = s
      BY <1>5, <1>9, <3>1, Zenon
    <3> QED BY <1>4, <1>8, <1>16, <3>1, <3>2 DEF Comparado
  <2>3. Respondido(q)'
    BY <1>1, <1>2, <1>16 DEF Certo, Respondido
  <2> QED BY <2>1, <2>2, <2>3 DEF Certo
<1> QED BY <1>1, <1>2, <1>14, <1>15, <1>16, <1>17 DEF Atendido

LEMMA AtendidoPerdido ==
    ASSUME ContasTypeOK, Guardado, Crescem, NEW r \in Pedidos, Certo(pedido[r]),
           PerderNaRede(r)
    PROVE  Atendido(r)
<1>1. PICK p : p = pedido[r]
  OBVIOUS
<1>2. p.fase \in {"ida", "volta"}
  BY <1>1 DEF PerderNaRede
<1>3. p \in PedidosPossiveis
  BY <1>1, <1>2, PedidoPossivel
<1>4. PICK b : b = [SemResposta EXCEPT !.status = 502]
  OBVIOUS
<1>5. b \in Respostas
  BY <1>4 DEF SemResposta, Respostas, Situacoes
<1>6. Passa(r, [p EXCEPT !.fase = "volta", !.resp = b])
  BY <1>1, <1>4, ZenonT(60) DEF PerderNaRede, Passa, ContasTypeOK
<1>7. PICK q : q = Adiante(p, "volta", p.desde, b)
  OBVIOUS
<1>8. p.desde \in Nat /\ "volta" \in {"trocar", "volta"}
  BY <1>3, CamposDoPedido
<1>9. [p EXCEPT !.fase = "volta", !.resp = b] = q
  BY <1>3, <1>5, <1>7, <1>8, PedidoAdiante, Zenon
<1>10. Passa(r, q)
  BY <1>6, <1>9, Zenon
<1>11. q \in PedidosPossiveis
  BY <1>3, <1>5, <1>7, <1>8, AdianteCabe, Zenon
<1>12. Mesmo(p, q) /\ q.fase = "volta" /\ q.resp = b
  BY <1>7 DEF Adiante, Mesmo
<1>13. Respondido(q)'
  <2>1. b.status = 502 /\ b.token = 0
    BY <1>4 DEF SemResposta
  <2> QED BY <1>12, <2>1 DEF Respondido
<1>14. Certo(q)'
  BY <1>1, <1>12, <1>13, RespostaCerta
<1> QED BY <1>10, <1>11, <1>12, <1>14 DEF Atendido

-----------------------------------------------------------------------------
(* Whatever is created had its place reserved.                             *)
LEMMA CriamFinito ==
    ASSUME NEW ops
    PROVE  IsFiniteSet(AindaCria(ops)) /\ Cardinality(AindaCria(ops)) \in Nat
<1>1. AindaCria(ops) \subseteq Pedidos
  BY DEF AindaCria
<1> QED BY <1>1, ContasAssumption, FS_Subset, FS_CardinalityType

LEMMA ComReserva ==
    ASSUME NEW ops, NEW r \in Pedidos, Chegou(r, "cadastro") \/ Chegou(r, "login"),
           pedido[r].op \in ops
    PROVE  Cardinality(AindaCria(ops)) >= 1
<1>1. r \in AindaCria(ops)
  BY DEF AindaCria, Chegou
<1> QED BY <1>1, CriamFinito, FS_EmptySet

LEMMA Limites == MaxContas \in Nat /\ MaxTokens \in Nat
BY ContasAssumption

LEMMA ContaCabeNoLimite ==
    ASSUME Guardado, Reservas, NEW r \in Pedidos, Chegou(r, "cadastro")
    PROVE  Len(contas) + 1 \in Ids
<1>1. Cardinality(AindaCria({"cadastro"})) >= 1
  BY ComReserva DEF Chegou
<1>2. Len(contas) \in Nat
  BY DEF Guardado
<1> QED BY <1>1, <1>2, CriamFinito, Limites DEF Reservas, Ids

LEMMA TokenCabeNoLimite ==
    ASSUME Guardado, Reservas, NEW r \in Pedidos, Chegou(r, "cadastro") \/ Chegou(r, "login")
    PROVE  Len(emitidos) + 1 \in Tokens
<1>1. Cardinality(AindaCria({"cadastro", "login"})) >= 1
  BY ComReserva DEF Chegou
<1>2. Len(emitidos) \in Nat
  BY DEF Guardado
<1> QED BY <1>1, <1>2, CriamFinito, Limites DEF Reservas, Tokens

LEMMA ReservaUsada ==
    ASSUME ContasTypeOK, NEW r \in Pedidos, Atendido(r), NEW ops
    PROVE  /\ Cardinality(AindaCria(ops)') \in Nat
           /\ Cardinality(AindaCria(ops)') <= Cardinality(AindaCria(ops))
           /\ pedido[r].op \in ops /\ pedido[r].fase = "ida" =>
                  Cardinality(AindaCria(ops)') = Cardinality(AindaCria(ops)) - 1
<1>1. PICK q : Passa(r, q) /\ q.fase # "ida"
  BY DEF Atendido
<1>2. AindaCria(ops)' = AindaCria(ops) \ {r}
  <2>1. pedido'[r] = q /\ \A s \in Pedidos : s # r => pedido'[s] = pedido[s]
    BY <1>1, UmSoPedido
  <2> QED BY <1>1, <2>1 DEF AindaCria
<1>3. r \in AindaCria(ops) <=> pedido[r].op \in ops /\ pedido[r].fase = "ida"
  BY DEF AindaCria
<1>4. PICK S : S = AindaCria(ops)
  OBVIOUS
<1>5. IsFiniteSet(S) /\ Cardinality(S) \in Nat
  BY <1>4, CriamFinito
<1>6. /\ Cardinality(S \ {r}) \in Nat
      /\ Cardinality(S \ {r}) = IF r \in S THEN Cardinality(S) - 1 ELSE Cardinality(S)
  BY <1>5, FS_RemoveElement, FS_CardinalityType
<1> QED BY <1>2, <1>3, <1>4, <1>5, <1>6

LEMMA ReservasSeguem ==
    ASSUME ContasTypeOK, Guardado, Reservas, Crescem, NEW r \in Pedidos, Atendido(r),
           \/ Len(contas') = Len(contas)
           \/ Len(contas') = Len(contas) + 1 /\ Chegou(r, "cadastro"),
           \/ Len(emitidos') = Len(emitidos)
           \/ /\ Len(emitidos') = Len(emitidos) + 1
              /\ Chegou(r, "cadastro") \/ Chegou(r, "login")
    PROVE  Reservas'
<1>1. /\ Len(contas) \in Nat /\ Len(emitidos) \in Nat
      /\ Len(contas') \in Nat /\ Len(emitidos') \in Nat
  BY DEF Guardado, Crescem
<1>2. PICK A, A1 : /\ A = Cardinality(AindaCria({"cadastro"}))
                   /\ A1 = Cardinality(AindaCria({"cadastro"})')
  OBVIOUS
<1>3. PICK B, B1 : /\ B = Cardinality(AindaCria({"cadastro", "login"}))
                   /\ B1 = Cardinality(AindaCria({"cadastro", "login"})')
  OBVIOUS
<1>4. /\ A \in Nat /\ A1 \in Nat /\ A1 <= A
      /\ Chegou(r, "cadastro") => A1 = A - 1
  BY <1>2, CriamFinito, ReservaUsada DEF Chegou
<1>5. /\ B \in Nat /\ B1 \in Nat /\ B1 <= B
      /\ Chegou(r, "cadastro") \/ Chegou(r, "login") => B1 = B - 1
  BY <1>3, CriamFinito, ReservaUsada DEF Chegou
<1>6. Len(contas) + A <= MaxContas /\ Len(emitidos) + B <= MaxTokens
  BY <1>2, <1>3 DEF Reservas
<1>7. Len(contas') + A1 <= MaxContas /\ Len(emitidos') + B1 <= MaxTokens
  BY <1>1, <1>4, <1>5, <1>6, Limites
<1> QED BY <1>2, <1>3, <1>7 DEF Reservas

-----------------------------------------------------------------------------
(* Every step of a handler.                                                *)
Antes == ContasTypeOK /\ Guardado /\ Reservas /\ \A r \in Pedidos : Certo(pedido[r])

Passou(r) == Crescem /\ Atendido(r) /\ Reservas'

LEMMA DonoDoPedido ==
    ASSUME Guardado, NEW r \in Pedidos, Certo(pedido[r]), pedido[r].token # 0
    PROVE  Conta(r) \in 1 .. Len(contas)
<1>1. PICK t : t = pedido[r].token
  OBVIOUS
<1>2. Len(emitidos) \in Nat
  BY DEF Guardado
<1>3. t \in 0 .. Len(emitidos) /\ t # 0
  BY <1>1 DEF Certo, Preenchido
<1>4. t \in 1 .. Len(emitidos)
  BY <1>2, <1>3
<1>5. Conta(r) = emitidos[t]
  BY <1>1, Zenon DEF Conta, Dono
<1> QED BY <1>4, <1>5 DEF Guardado

LEMMA ContaNova ==
    ASSUME Antes, NEW r \in Pedidos, Chegou(r, "cadastro"), contas' = ComConta(r)
    PROVE  ComOutra
<1>1. /\ contas \in Seq(ContasPossiveis) /\ Preenchido(pedido[r])
      /\ pedido[r].op = "cadastro"
  BY DEF Antes, Guardado, Certo, Chegou
<1> QED BY <1>1, ContaCriada DEF ComOutra

LEMMA EmailGravado ==
    ASSUME Antes, NEW r \in Pedidos, Admitido(r, "perfil"), contas' = ComEmail(r)
    PROVE  MesmasSenhas
<1>1. contas \in Seq(ContasPossiveis)
  BY DEF Antes, Guardado
<1>2. Certo(pedido[r]) /\ pedido[r].op = "perfil" /\ pedido[r].token # 0
  BY DEF Antes, Admitido, Chegou, Vivo
<1>3. PICK c \in 1 .. Len(contas) : c = Conta(r)
  BY <1>2, DonoDoPedido DEF Antes
<1>4. PICK e \in Emails : e = pedido[r].dado[1]
  BY <1>2 DEF Certo, Preenchido
<1>5. contas' = [contas EXCEPT ![c].email = e]
  BY <1>3, <1>4, Zenon DEF ComEmail
<1> QED BY <1>1, <1>5, EmailMudado, Zenon DEF MesmasSenhas

LEMMA SenhaGravada ==
    ASSUME Antes, NEW r \in Pedidos, pedido[r].fase = "trocar", contas' = ComSenha(r)
    PROVE  /\ Conta(r) \in 1 .. Len(contas)
           /\ \E s \in Senhas : OutraSenha(Conta(r), s)
<1>1. contas \in Seq(ContasPossiveis)
  BY DEF Antes, Guardado
<1>2. Certo(pedido[r]) /\ pedido[r].op = "senha" /\ pedido[r].token # 0
  BY DEF Antes, Certo, Comparado
<1>3. PICK c \in 1 .. Len(contas) : c = Conta(r)
  BY <1>2, DonoDoPedido DEF Antes
<1>4. PICK s \in Senhas : s = pedido[r].dado[2]
  BY <1>2 DEF Certo, Preenchido
<1>5. contas' = [contas EXCEPT ![c].senhas = Append(@, s)]
  BY <1>3, <1>4, Zenon DEF ComSenha
<1>6. OutraSenha(c, s)
  BY <1>1, <1>5, SenhaMudada, Zenon DEF OutraSenha
<1> QED BY <1>3, <1>6, Zenon

(* A handler that keeps nothing and answers.                               *)
LEMMA PassouSemGravar ==
    ASSUME Antes, NEW r \in Pedidos, pedido[r].fase \in {"ida", "trocar"},
           NEW st \in Situacoes, Responder(r, st),
           st = 200 => pedido[r].op \notin {"eu", "perfil"},
           st = 401 => pedido[r].op = "login" \/ ~Vivo(pedido[r].token),
           UNCHANGED <<contas, emitidos, expirados>>
    PROVE  Passou(r)
<1>1. ContasTypeOK /\ Guardado /\ Reservas /\ Certo(pedido[r])
  BY DEF Antes
<1>2. Crescem
  BY <1>1, NadaMuda
<1>3. Atendido(r)
  BY <1>1, <1>2, AtendidoSimples
<1>4. Reservas'
  BY <1>1, <1>2, <1>3, ReservasSeguem
<1> QED BY <1>2, <1>3, <1>4 DEF Passou

(* One that keeps something of the accounts and, having lost the answer of *)
(* the database or with nothing to tell, answers.                          *)
LEMMA PassouGravando ==
    ASSUME Antes, NEW r \in Pedidos, pedido[r].fase \in {"ida", "trocar"},
           NEW st \in {204, 500}, Responder(r, st),
           UNCHANGED <<emitidos, expirados>>,
           \/ ComOutra /\ Chegou(r, "cadastro")
           \/ MesmasSenhas
           \/ \E k \in 1 .. Len(contas), s \in Senhas : OutraSenha(k, s)
    PROVE  Passou(r)
<1>1. ContasTypeOK /\ Guardado /\ Reservas /\ Certo(pedido[r])
  BY DEF Antes
<1>2. /\ ContasCrescem /\ contas' \in Seq(ContasPossiveis)
      /\ \A c \in 1 .. Len(contas') : contas'[c].senhas # << >>
  BY <1>1, ContaAMais, SenhasFicam, SenhaAMais
<1>3. Crescem
  BY <1>1, <1>2, SoContas DEF Guardado
<1>4. st \in Situacoes /\ st # 200 /\ st # 401
  BY DEF Situacoes
<1>5. Atendido(r)
  BY <1>1, <1>3, <1>4, AtendidoSimples
<1>6. \/ Len(contas') = Len(contas)
      \/ Len(contas') = Len(contas) + 1 /\ Chegou(r, "cadastro")
  <2>1. ASSUME NEW k, NEW s, OutraSenha(k, s)
        PROVE  Len(contas') = Len(contas)
    BY <2>1, Zenon DEF OutraSenha
  <2>2. MesmasSenhas => Len(contas') = Len(contas)
    BY Zenon DEF MesmasSenhas
  <2>3. ComOutra => Len(contas') = Len(contas) + 1
    BY Zenon DEF ComOutra
  <2>4. CASE \E k \in 1 .. Len(contas), s \in Senhas : OutraSenha(k, s)
    BY <2>1, <2>4
  <2> QED BY <2>2, <2>3, <2>4
<1>7. Reservas'
  BY <1>1, <1>3, <1>5, <1>6, ReservasSeguem
<1> QED BY <1>3, <1>5, <1>7 DEF Passou

LEMMA PassouSessao ==
    ASSUME Antes, NEW r \in Pedidos, Chegou(r, "cadastro") \/ Chegou(r, "login"),
           NEW st \in {200, 201}, NEW c \in Ids, c \in 1 .. Len(contas'),
           ResponderSessao(r, st, c), UNCHANGED expirados,
           \/ ComOutra /\ Chegou(r, "cadastro")
           \/ UNCHANGED contas
    PROVE  Passou(r)
<1>1. ContasTypeOK /\ Guardado /\ Reservas /\ Certo(pedido[r])
  BY DEF Antes
<1>2. /\ ContasCrescem /\ contas' \in Seq(ContasPossiveis)
      /\ \A k \in 1 .. Len(contas') : contas'[k].senhas # << >>
  <2>1. CASE ComOutra
    BY <1>1, <2>1, ContaAMais
  <2>2. CASE UNCHANGED contas
    <3>1. MesmasSenhas
      BY <1>1, <2>2 DEF MesmasSenhas, Guardado
    <3> QED BY <1>1, <3>1, SenhasFicam
  <2> QED BY <2>1, <2>2
<1>3. emitidos \in Seq(Ids) /\ emitidos' = Append(emitidos, c)
  BY <1>1 DEF Guardado, ResponderSessao
<1>4. /\ emitidos' \in Seq(Ids) /\ Len(emitidos) \in Nat /\ Len(emitidos') = Len(emitidos) + 1
      /\ \A t \in 1 .. Len(emitidos) : emitidos'[t] = emitidos[t]
      /\ emitidos'[Len(emitidos) + 1] = c
  BY <1>3
<1>5. TokensCrescem
  BY <1>4 DEF TokensCrescem
<1>6. \A t \in 1 .. Len(emitidos') : emitidos'[t] \in 1 .. Len(contas')
  <2>1. TAKE t \in 1 .. Len(emitidos')
  <2>2. t \in 1 .. Len(emitidos) \/ t = Len(emitidos) + 1
    BY <1>4
  <2>3. Len(contas) \in Nat /\ Len(contas') \in Nat /\ Len(contas) <= Len(contas')
    BY <1>1, <1>2 DEF ContasCrescem, Guardado
  <2>4. CASE t \in 1 .. Len(emitidos)
    <3>1. emitidos[t] \in 1 .. Len(contas)
      BY <1>1, <2>4 DEF Guardado
    <3> QED BY <1>4, <2>3, <2>4, <3>1
  <2>5. CASE t = Len(emitidos) + 1
    BY <1>4, <2>5
  <2> QED BY <2>2, <2>4, <2>5
<1>7. expirados' \subseteq DOMAIN emitidos'
  BY <1>1, <1>4 DEF Guardado
<1>8. Crescem
  BY <1>2, <1>4, <1>5, <1>6, <1>7 DEF Crescem, Guardado
<1>9. Atendido(r)
  <2>1. Len(emitidos) + 1 \in Tokens
    BY <1>1, TokenCabeNoLimite
  <2>2. PedeSessao(r, st)
    BY DEF Chegou, PedeSessao
  <2> QED BY <1>1, <1>8, <2>1, <2>2, AtendidoSessao
<1>10. \/ Len(contas') = Len(contas)
       \/ Len(contas') = Len(contas) + 1 /\ Chegou(r, "cadastro")
  BY Zenon DEF ComOutra
<1>11. Reservas'
  BY <1>1, <1>4, <1>8, <1>9, <1>10, ReservasSeguem
<1> QED BY <1>8, <1>9, <1>11 DEF Passou

LEMMA PassouConta ==
    ASSUME Antes, NEW r \in Pedidos, pedido[r].fase = "ida", Vivo(pedido[r].token),
           ResponderConta(r, 200, Conta(r)), UNCHANGED <<emitidos, expirados>>,
           MesmasSenhas
    PROVE  Passou(r)
<1>1. ContasTypeOK /\ Guardado /\ Reservas /\ Certo(pedido[r])
  BY DEF Antes
<1>2. /\ ContasCrescem /\ contas' \in Seq(ContasPossiveis)
      /\ \A k \in 1 .. Len(contas') : contas'[k].senhas # << >>
  BY <1>1, SenhasFicam
<1>3. Crescem
  BY <1>1, <1>2, SoContas DEF Guardado
<1>4. Atendido(r)
  BY <1>1, <1>3, AtendidoConta
<1>5. Reservas'
  BY <1>1, <1>3, <1>4, ReservasSeguem DEF MesmasSenhas
<1> QED BY <1>3, <1>4, <1>5 DEF Passou

LEMMA NadaMudouSenhas ==
    ASSUME Antes, UNCHANGED contas
    PROVE  MesmasSenhas
BY DEF Antes, Guardado, MesmasSenhas

LEMMA StatusDoServidor == {200, 204, 400, 401, 404, 409, 500} \subseteq Situacoes
BY DEF Situacoes

LEMMA CadastroPassou ==
    ASSUME Antes, NEW r \in Pedidos, Cadastrar(r) \/ FalharCadastro(r)
    PROVE  Passou(r)
<1>1. CASE Cadastrar(r)
  <2>1. Chegou(r, "cadastro") /\ contas' = ComConta(r)
    BY <1>1 DEF Cadastrar
  <2>2. ComOutra
    BY <2>1, ContaNova
  <2>3. PICK c : c = Len(contas) + 1
    OBVIOUS
  <2>4. c \in Ids /\ c \in 1 .. Len(contas')
    <3>1. c \in Ids
      BY <2>1, <2>3, ContaCabeNoLimite DEF Antes
    <3>2. Len(contas) \in Nat /\ Len(contas') = Len(contas) + 1
      BY <2>2 DEF ComOutra, Antes, Guardado
    <3> QED BY <2>3, <3>1, <3>2
  <2>5. ResponderSessao(r, 201, c) /\ UNCHANGED expirados
    BY <1>1, <2>3 DEF Cadastrar
  <2> QED BY <2>1, <2>2, <2>4, <2>5, PassouSessao
<1>2. CASE FalharCadastro(r)
  <2>1. Chegou(r, "cadastro") /\ pedido[r].fase = "ida" /\ UNCHANGED <<emitidos, expirados>>
    BY <1>2 DEF FalharCadastro, Chegou
  <2>2. \/ \E st \in {409, 500} : Responder(r, st) /\ UNCHANGED contas
        \/ Responder(r, 500) /\ contas' = ComConta(r)
    BY <1>2 DEF FalharCadastro
  <2>3. ASSUME NEW st \in {409, 500}, Responder(r, st), UNCHANGED contas
        PROVE  Passou(r)
    <3>1. st \in Situacoes /\ st # 200 /\ st # 401
      BY StatusDoServidor
    <3> QED BY <2>1, <2>3, <3>1, PassouSemGravar
  <2>4. ASSUME Responder(r, 500), contas' = ComConta(r)
        PROVE  Passou(r)
    <3>1. ComOutra
      BY <2>1, <2>4, ContaNova
    <3> QED BY <2>1, <2>4, <3>1, PassouGravando
  <2> QED BY <2>2, <2>3, <2>4
<1> QED BY <1>1, <1>2

LEMMA LoginPassou ==
    ASSUME Antes, NEW r \in Pedidos, Entrar(r) \/ FalharLogin(r)
    PROVE  Passou(r)
<1>1. CASE Entrar(r)
  <2>1. PICK c \in DOMAIN contas : ResponderSessao(r, 200, c)
    BY <1>1 DEF Entrar
  <2>2. Chegou(r, "login") /\ UNCHANGED <<contas, expirados>>
    BY <1>1 DEF Entrar
  <2>3. c \in 1 .. Len(contas')
    BY <2>1, <2>2 DEF Antes, Guardado
  <2>4. c \in Ids
    <3>1. Len(contas) \in Nat /\ Cardinality(AindaCria({"cadastro"})) \in Nat
      BY CriamFinito DEF Antes, Guardado
    <3>2. Len(contas) <= MaxContas
      BY <3>1, Limites DEF Antes, Reservas
    <3> QED BY <2>2, <2>3, <3>1, <3>2, Limites DEF Ids
  <2> QED BY <2>1, <2>2, <2>3, <2>4, PassouSessao
<1>2. CASE FalharLogin(r)
  <2>1. /\ pedido[r].fase = "ida" /\ pedido[r].op = "login"
        /\ Responder(r, 401) /\ UNCHANGED <<contas, emitidos, expirados>>
    BY <1>2 DEF FalharLogin, Chegou
  <2>2. 401 \in Situacoes
    BY StatusDoServidor
  <2> QED BY <2>1, <2>2, PassouSemGravar
<1> QED BY <1>1, <1>2

LEMMA PerfilPassou ==
    ASSUME Antes, NEW r \in Pedidos,
           Eu(r) \/ FalharEu(r) \/ AtualizarPerfil(r) \/ FalharPerfil(r)
    PROVE  Passou(r)
<1>1. CASE Eu(r)
  <2>1. /\ pedido[r].fase = "ida" /\ Vivo(pedido[r].token)
        /\ ResponderConta(r, 200, Conta(r)) /\ UNCHANGED <<contas, emitidos, expirados>>
    BY <1>1 DEF Eu, Admitido, Chegou
  <2> QED BY <2>1, NadaMudouSenhas, PassouConta
<1>2. CASE FalharEu(r)
  <2>1. /\ pedido[r].fase = "ida" /\ Responder(r, 404)
        /\ UNCHANGED <<contas, emitidos, expirados>>
    BY <1>2 DEF FalharEu, Admitido, Chegou
  <2>2. 404 \in Situacoes
    BY StatusDoServidor
  <2> QED BY <2>1, <2>2, PassouSemGravar
<1>3. CASE AtualizarPerfil(r)
  <2>1. /\ Admitido(r, "perfil") /\ pedido[r].fase = "ida" /\ Vivo(pedido[r].token)
        /\ contas' = ComEmail(r)
        /\ ResponderConta(r, 200, Conta(r)) /\ UNCHANGED <<emitidos, expirados>>
    BY <1>3 DEF AtualizarPerfil, Admitido, Chegou
  <2> QED BY <2>1, EmailGravado, PassouConta
<1>4. CASE FalharPerfil(r)
  <2>1. /\ Admitido(r, "perfil") /\ pedido[r].fase = "ida"
        /\ UNCHANGED <<emitidos, expirados>>
    BY <1>4 DEF FalharPerfil, Admitido, Chegou
  <2>2. \/ \E st \in {409, 500} : Responder(r, st) /\ UNCHANGED contas
        \/ Responder(r, 500) /\ contas' = ComEmail(r)
    BY <1>4 DEF FalharPerfil
  <2>3. ASSUME NEW st \in {409, 500}, Responder(r, st), UNCHANGED contas
        PROVE  Passou(r)
    <3>1. st \in Situacoes /\ st # 200 /\ st # 401
      BY StatusDoServidor
    <3> QED BY <2>1, <2>3, <3>1, PassouSemGravar
  <2>4. ASSUME Responder(r, 500), contas' = ComEmail(r)
        PROVE  Passou(r)
    <3>1. MesmasSenhas
      BY <2>1, <2>4, EmailGravado
    <3> QED BY <2>1, <2>4, <3>1, PassouGravando
  <2> QED BY <2>2, <2>3, <2>4
<1> QED BY <1>1, <1>2, <1>3, <1>4

LEMMA SenhaPassou ==
    ASSUME Antes, NEW r \in Pedidos,
           CompararSenha(r) \/ RecusarSenha(r) \/ GravarSenha(r) \/ FalharSenha(r)
    PROVE  Passou(r)
<1>1. CASE CompararSenha(r)
  <2>1. ContasTypeOK /\ Guardado /\ Reservas /\ Certo(pedido[r])
    BY DEF Antes
  <2>2. UNCHANGED <<contas, emitidos, expirados>>
    BY <1>1 DEF CompararSenha
  <2>3. Crescem
    BY <2>1, <2>2, NadaMuda
  <2>4. Atendido(r)
    BY <1>1, <2>1, <2>3, AtendidoComparar
  <2>5. Reservas'
    BY <2>1, <2>2, <2>3, <2>4, ReservasSeguem
  <2> QED BY <2>3, <2>4, <2>5 DEF Passou
<1>2. CASE RecusarSenha(r)
  <2>1. PICK st \in {400, 500} : Responder(r, st)
    BY <1>2 DEF RecusarSenha
  <2>2. pedido[r].fase = "ida" /\ UNCHANGED <<contas, emitidos, expirados>>
    BY <1>2 DEF RecusarSenha, Admitido, Chegou
  <2>3. st \in Situacoes /\ st # 200 /\ st # 401
    BY StatusDoServidor
  <2> QED BY <2>1, <2>2, <2>3, PassouSemGravar
<1>3. ASSUME NEW st \in {204, 500}, Responder(r, st), pedido[r].fase = "trocar",
             contas' = ComSenha(r), UNCHANGED <<emitidos, expirados>>
      PROVE  Passou(r)
  <2>1. \E k \in 1 .. Len(contas), s \in Senhas : OutraSenha(k, s)
    BY <1>3, SenhaGravada
  <2> QED BY <1>3, <2>1, PassouGravando
<1>4. CASE GravarSenha(r)
  BY <1>3, <1>4 DEF GravarSenha
<1>5. CASE FalharSenha(r)
  <2>1. /\ pedido[r].fase = "trocar" /\ Responder(r, 500)
        /\ UNCHANGED <<emitidos, expirados>>
        /\ UNCHANGED contas \/ contas' = ComSenha(r)
    BY <1>5 DEF FalharSenha
  <2>2. CASE UNCHANGED contas
    <3>1. 500 \in Situacoes
      BY StatusDoServidor
    <3> QED BY <2>1, <2>2, <3>1, PassouSemGravar
  <2>3. CASE contas' = ComSenha(r)
    BY <1>3, <2>1, <2>3
  <2> QED BY <2>1, <2>2, <2>3
<1> QED BY <1>1, <1>2, <1>4, <1>5

LEMMA TratarPassou ==
    ASSUME Antes, NEW r \in Pedidos, Tratar(r)
    PROVE  Passou(r)
<1>1. CASE Barrar(r)
  <2>1. /\ pedido[r].fase = "ida" /\ ~Vivo(pedido[r].token) /\ Responder(r, 401)
        /\ UNCHANGED <<contas, emitidos, expirados>>
    BY <1>1 DEF Barrar
  <2>2. 401 \in Situacoes
    BY StatusDoServidor
  <2> QED BY <2>1, <2>2, PassouSemGravar
<1>2. CASE Dados(r)
  <2>1. /\ pedido[r].fase = "ida" /\ pedido[r].op = "dados" /\ Responder(r, 200)
        /\ UNCHANGED <<contas, emitidos, expirados>>
    BY <1>2 DEF Dados, Admitido, Chegou
  <2>2. 200 \in Situacoes
    BY StatusDoServidor
  <2> QED BY <2>1, <2>2, PassouSemGravar
<1>3. CASE PerderNaRede(r)
  <2>1. ContasTypeOK /\ Guardado /\ Reservas /\ Certo(pedido[r])
    BY DEF Antes
  <2>2. UNCHANGED <<contas, emitidos, expirados>>
    BY <1>3 DEF PerderNaRede
  <2>3. Crescem
    BY <2>1, <2>2, NadaMuda
  <2>4. Atendido(r)
    BY <1>3, <2>1, <2>3, AtendidoPerdido
  <2>5. Reservas'
    BY <2>1, <2>2, <2>3, <2>4, ReservasSeguem
  <2> QED BY <2>3, <2>4, <2>5 DEF Passou
<1> QED BY <1>1, <1>2, <1>3, CadastroPassou, LoginPassou, PerfilPassou, SenhaPassou DEF Tratar

-----------------------------------------------------------------------------
(* The invariant, a step at a time: the server.                            *)
LEMMA InvAntes ==
    ASSUME SessInv
    PROVE  Antes /\ Guardado /\ token \in 0 .. Len(emitidos)
<1>1. ContasTypeOK /\ Reservas /\ Donos /\ \A r \in Pedidos : Certo(pedido[r])
  BY DEF SessInv, TypeOK
<1>2. Guardado
  BY <1>1 DEF ContasTypeOK, Donos, Guardado
<1> QED BY <1>1, <1>2 DEF Antes, Donos

(* What a step owes to the invariant, once what the server keeps grows.    *)
PedidosCertos ==
    /\ pedido' \in [Pedidos -> PedidosPossiveis \cup {Vago}]
    /\ \A s \in Pedidos : \E q : q = pedido'[s] /\ Certo(q)'

AbasCertas ==
    /\ token' \in {0} \cup Tokens /\ token' \in 0 .. Len(emitidos')
    /\ tenant' \in [Abas -> {0} \cup Ids]
    /\ carregando' \in SUBSET Abas

LEMMA InvDepois ==
    ASSUME Crescem, Reservas', PedidosCertos, AbasCertas
    PROVE  SessInv'
<1>1. Guardado'
  BY DEF Crescem
<1>2. ContasTypeOK'
  BY <1>1 DEF ContasTypeOK, Guardado, PedidosCertos
<1>3. TypeOK'
  BY <1>2 DEF TypeOK, AbasCertas
<1>4. Donos'
  BY <1>1 DEF Donos, Guardado, AbasCertas
<1>5. \A r \in Pedidos : Certo(pedido[r])'
  <2>1. TAKE r \in Pedidos
  <2>2. PICK q : q = pedido'[r] /\ Certo(q)'
    BY DEF PedidosCertos
  <2> QED BY <2>2
<1> QED BY <1>3, <1>4, <1>5 DEF SessInv

LEMMA AbasParadas ==
    ASSUME SessInv, Crescem, UNCHANGED abaVars
    PROVE  AbasCertas
<1>1. /\ token \in 0 .. Len(emitidos) /\ token \in {0} \cup Tokens
      /\ tenant \in [Abas -> {0} \cup Ids] /\ carregando \in SUBSET Abas
  BY DEF SessInv, Donos, TypeOK
<1>2. Len(emitidos) \in Nat /\ Len(emitidos') \in Nat /\ Len(emitidos) <= Len(emitidos')
  BY InvAntes DEF Guardado, Crescem, TokensCrescem
<1> QED BY <1>1, <1>2 DEF AbasCertas, abaVars

LEMMA PedidosParados ==
    ASSUME SessInv, Crescem, UNCHANGED pedido
    PROVE  PedidosCertos
<1>1. ASSUME NEW s \in Pedidos
      PROVE  \E q : q = pedido'[s] /\ Certo(q)'
  <2>1. PICK q : q = pedido[s]
    OBVIOUS
  <2>2. Certo(q)
    BY <2>1 DEF SessInv
  <2>3. Certo(q)'
    BY <2>2, InvAntes, CertoFica
  <2> QED BY <2>1, <2>3
<1> QED BY <1>1 DEF PedidosCertos, SessInv, TypeOK, ContasTypeOK

LEMMA UmPedidoCerto ==
    ASSUME SessInv, Crescem, NEW r \in Pedidos, NEW q, q \in PedidosPossiveis \cup {Vago},
           Passa(r, q), Certo(q)'
    PROVE  PedidosCertos
<1>1. ContasTypeOK
  BY DEF SessInv, TypeOK
<1>2. /\ pedido'[r] = q /\ \A s \in Pedidos : s # r => pedido'[s] = pedido[s]
      /\ pedido' \in [Pedidos -> PedidosPossiveis \cup {Vago}]
  BY <1>1, UmSoPedido
<1>3. ASSUME NEW s \in Pedidos
      PROVE  \E p : p = pedido'[s] /\ Certo(p)'
  <2>1. CASE s = r
    BY <1>2, <2>1
  <2>2. CASE s # r
    <3>1. PICK p : p = pedido[s]
      OBVIOUS
    <3>2. Certo(p)
      BY <3>1 DEF SessInv
    <3>3. Certo(p)'
      BY <3>2, InvAntes, CertoFica
    <3> QED BY <1>2, <2>2, <3>1, <3>3
  <2> QED BY <2>1, <2>2
<1> QED BY <1>2, <1>3 DEF PedidosCertos

LEMMA ReservasParadas ==
    ASSUME Reservas, UNCHANGED pedido, Len(contas') = Len(contas), Len(emitidos') = Len(emitidos)
    PROVE  Reservas'
<1>1. \A ops : AindaCria(ops)' = AindaCria(ops)
  BY DEF AindaCria
<1> QED BY <1>1 DEF Reservas

LEMMA Servidor ==
    ASSUME SessInv, ServidorNext, UNCHANGED abaVars
    PROVE  Crescem /\ SessInv'
<1>1. Antes /\ Guardado /\ Reservas
  BY InvAntes DEF Antes
<1>2. ASSUME NEW r \in Pedidos, Tratar(r)
      PROVE  Crescem /\ SessInv'
  <2>1. Crescem /\ Atendido(r) /\ Reservas'
    BY <1>1, <1>2, TratarPassou DEF Passou
  <2>2. PICK q \in PedidosPossiveis : Passa(r, q) /\ Certo(q)'
    BY <2>1 DEF Atendido
  <2>3. PedidosCertos
    BY <2>1, <2>2, UmPedidoCerto
  <2> QED BY <2>1, <2>3, AbasParadas, InvDepois
<1>3. ASSUME NEW c \in DOMAIN contas, NEW dias \in Prazos, AjustarRetencao(c, dias)
      PROVE  Crescem /\ SessInv'
  <2>1. dias \in Retencoes
    BY <1>3, ContasAssumption, SMTT(30) DEF AjustarRetencao, PrazoValido, Retencoes
  <2>2. contas \in Seq(ContasPossiveis) /\ c \in 1 .. Len(contas)
    BY <1>1 DEF Guardado
  <2>3. contas' = [contas EXCEPT ![c].retencao = dias]
    BY <1>3, Zenon DEF AjustarRetencao
  <2>4. MesmasSenhas
    BY <2>1, <2>2, <2>3, PrazoMudado, Zenon DEF MesmasSenhas
  <2>5. UNCHANGED <<emitidos, expirados, pedido>>
    BY <1>3, Zenon DEF AjustarRetencao
  <2>6. /\ ContasCrescem /\ contas' \in Seq(ContasPossiveis)
        /\ \A k \in 1 .. Len(contas') : contas'[k].senhas # << >>
    BY <1>1, <2>4, SenhasFicam, Zenon
  <2>7. Len(contas') = Len(contas) /\ expirados \subseteq expirados'
        /\ expirados' \subseteq DOMAIN emitidos
    <3>1. expirados \subseteq DOMAIN emitidos
      BY <1>1, Zenon DEF Guardado
    <3> QED BY <2>4, <2>5, <3>1, Zenon DEF MesmasSenhas
  <2>8. Crescem
    BY <1>1, <2>5, <2>6, <2>7, SoContas, Zenon
  <2>9. Reservas'
    BY <1>1, <2>5, <2>7, ReservasParadas, Zenon
  <2>10. PedidosCertos /\ AbasCertas
    BY <2>5, <2>8, PedidosParados, AbasParadas, Zenon
  <2> QED BY <2>8, <2>9, <2>10, InvDepois, Zenon
<1>4. ASSUME NEW t \in DOMAIN emitidos, Expirar(t)
      PROVE  Crescem /\ SessInv'
  <2>1. UNCHANGED <<contas, emitidos, pedido>> /\ expirados' = expirados \cup {t}
    BY <1>4 DEF Expirar
  <2>2. MesmasSenhas
    BY <1>1, <2>1, NadaMudouSenhas
  <2>3. /\ ContasCrescem /\ contas' \in Seq(ContasPossiveis)
        /\ \A k \in 1 .. Len(contas') : contas'[k].senhas # << >>
    BY <1>1, <2>2, SenhasFicam
  <2>4. Crescem
    BY <1>1, <2>1, <2>3, SoContas DEF Guardado
  <2>5. Reservas'
    BY <1>1, <2>1, ReservasParadas
  <2> QED BY <2>1, <2>4, <2>5, PedidosParados, AbasParadas, InvDepois
<1> QED BY <1>2, <1>3, <1>4 DEF ServidorNext

-----------------------------------------------------------------------------
(* The invariant, a step at a time: the tabs.  None touches what the       *)
(* server keeps.                                                           *)
LEMMA ServidorParado ==
    ASSUME SessInv, UNCHANGED <<contas, emitidos, expirados>>
    PROVE  Crescem
BY InvAntes, NadaMuda

LEMMA MenosReservas ==
    ASSUME Reservas, UNCHANGED <<contas, emitidos, expirados>>,
           \A s \in Pedidos : pedido'[s].fase = "ida" =>
               \/ pedido'[s].op \notin {"cadastro", "login"}
               \/ pedido[s].fase = "ida" /\ pedido[s].op = pedido'[s].op,
           Guardado
    PROVE  Reservas'
<1>1. ASSUME NEW ops \in SUBSET {"cadastro", "login"}
      PROVE  /\ Cardinality(AindaCria(ops)) \in Nat
             /\ Cardinality(AindaCria(ops)') \in Nat
             /\ Cardinality(AindaCria(ops)') <= Cardinality(AindaCria(ops))
  <2>1. AindaCria(ops)' \subseteq AindaCria(ops)
    BY DEF AindaCria
  <2>2. IsFiniteSet(AindaCria(ops))
    BY CriamFinito
  <2>3. IsFiniteSet(AindaCria(ops)')
    BY <2>1, <2>2, FS_Subset
  <2> QED BY <2>1, <2>2, <2>3, FS_Subset, FS_CardinalityType
<1>2. Len(contas) \in Nat /\ Len(emitidos) \in Nat
  BY DEF Guardado
<1>3. /\ Len(contas) + Cardinality(AindaCria({"cadastro"})') <= MaxContas
      /\ Len(emitidos) + Cardinality(AindaCria({"cadastro", "login"})') <= MaxTokens
  BY <1>1, <1>2, Limites DEF Reservas
<1> QED BY <1>3 DEF Reservas

LEMMA VagoCabe == Vago \in PedidosPossiveis \cup {Vago}
OBVIOUS

(* An answer is taken, or nobody waits for it any more.                    *)
LEMMA Esvazia ==
    ASSUME SessInv, NEW r \in Pedidos, Passa(r, Vago),
           UNCHANGED <<contas, emitidos, expirados>>
    PROVE  PedidosCertos /\ Reservas'
<1>1. Crescem /\ Guardado /\ ContasTypeOK /\ Reservas
  BY ServidorParado, InvAntes DEF SessInv, TypeOK
<1>2. Certo(Vago)'
  BY <1>1, VagoCerto, CertoFica
<1>3. PedidosCertos
  BY <1>1, <1>2, VagoCabe, UmPedidoCerto
<1>4. \A s \in Pedidos : pedido'[s].fase = "ida" =>
          pedido[s].fase = "ida" /\ pedido[s].op = pedido'[s].op
  <2>1. /\ pedido'[r] = Vago /\ \A s \in Pedidos : s # r => pedido'[s] = pedido[s]
    BY <1>1, UmSoPedido
  <2> QED BY <2>1, VagoSemNada
<1>5. Reservas'
  BY <1>1, <1>4, MenosReservas
<1> QED BY <1>3, <1>5

LEMMA ChegaEsvazia ==
    ASSUME NEW r \in Pedidos, NEW ops, Chega(r, ops)
    PROVE  Passa(r, Vago) /\ UNCHANGED <<contas, emitidos, expirados>>
BY DEF Chega, Passa

(* A request is sent.                                                      *)
LEMMA EnviarPassa ==
    ASSUME SessInv, NEW r \in Pedidos, NEW op \in Ops, NEW a \in Abas,
           NEW d \in DadosPossiveis,
           op \in {"cadastro", "perfil"} => d[1] \in Emails,
           op \in {"cadastro", "senha"} => d[2] \in Senhas,
           Enviar(r, op, a, d)
    PROVE  \E q \in PedidosPossiveis :
               /\ Passa(r, q) /\ q.op = op /\ q.fase = "ida" /\ Certo(q)
<1>1. /\ Guardado /\ token \in 0 .. Len(emitidos) /\ token \in {0} \cup Tokens
  BY InvAntes DEF SessInv, TypeOK
<1>2. PICK q \in PedidosPossiveis :
          /\ q = [Vago EXCEPT !.op = op, !.de = a, !.token = token, !.dado = d,
                              !.fase = "ida"]
          /\ q.op = op /\ q.fase = "ida" /\ Certo(q)
  BY <1>1, Novo, Zenon DEF Abas
<1>3. Passa(r, q)
  BY <1>2, Zenon DEF Enviar, Enviado, Passa
<1> QED BY <1>2, <1>3

LEMMA EnviarCerto ==
    ASSUME SessInv, NEW r \in Pedidos, NEW q \in PedidosPossiveis, Passa(r, q), Certo(q),
           UNCHANGED <<contas, emitidos, expirados>>
    PROVE  PedidosCertos
<1>1. Crescem /\ Guardado
  BY ServidorParado, InvAntes
<1>2. Certo(q)'
  BY <1>1, CertoFica
<1> QED BY <1>1, <1>2, UmPedidoCerto

(* What a form creates has its place: the bounds of the tabs count every   *)
(* request of the kind, and so no fewer than may still create.             *)
LEMMA EmCursoContaMais ==
    ASSUME NEW ops
    PROVE  /\ EmCurso(ops) \in Nat
           /\ Cardinality(AindaCria(ops)) <= EmCurso(ops)
<1>1. PICK S : S = {r \in Pedidos : pedido[r].op \in ops}
  OBVIOUS
<1>2. S \subseteq Pedidos /\ AindaCria(ops) \subseteq S
  BY <1>1 DEF AindaCria
<1>3. IsFiniteSet(S) /\ Cardinality(S) \in Nat
  BY <1>2, ContasAssumption, FS_Subset, FS_CardinalityType
<1>4. Cardinality(AindaCria(ops)) <= Cardinality(S)
  BY <1>2, <1>3, FS_Subset
<1> QED BY <1>1, <1>3, <1>4 DEF EmCurso

LEMMA MaisUmaReserva ==
    ASSUME ContasTypeOK, NEW r \in Pedidos, NEW q, Passa(r, q), NEW ops
    PROVE  /\ Cardinality(AindaCria(ops)') \in Nat
           /\ Cardinality(AindaCria(ops)') <= Cardinality(AindaCria(ops)) + 1
           /\ q.op \notin ops =>
                  Cardinality(AindaCria(ops)') <= Cardinality(AindaCria(ops))
<1>1. pedido'[r] = q /\ \A s \in Pedidos : s # r => pedido'[s] = pedido[s]
  BY UmSoPedido
<1>2. PICK S : S = AindaCria(ops)
  OBVIOUS
<1>3. PICK T : T = AindaCria(ops)'
  OBVIOUS
<1>4. T \subseteq S \cup {r} /\ (q.op \notin ops => T \subseteq S)
  BY <1>1, <1>2, <1>3 DEF AindaCria
<1>5. IsFiniteSet(S) /\ Cardinality(S) \in Nat
  BY <1>2, CriamFinito
<1>6. IsFiniteSet(S \cup {r}) /\ Cardinality(S \cup {r}) \in Nat
      /\ Cardinality(S \cup {r}) <= Cardinality(S) + 1
  <2>1. IsFiniteSet(S \cup {r})
    BY <1>5, FS_AddElement
  <2>2. Cardinality(S \cup {r}) = IF r \in S THEN Cardinality(S) ELSE Cardinality(S) + 1
    BY <1>5, FS_AddElement
  <2>3. PICK n : n = Cardinality(S)
    OBVIOUS
  <2> QED BY <1>5, <2>1, <2>2, <2>3
<1>7. /\ IsFiniteSet(T) /\ Cardinality(T) <= Cardinality(S \cup {r})
      /\ q.op \notin ops => Cardinality(T) <= Cardinality(S)
  BY <1>4, <1>5, <1>6, FS_Subset
<1>8. Cardinality(T) \in Nat
  BY <1>7, FS_CardinalityType
<1> QED BY <1>2, <1>3, <1>5, <1>6, <1>7, <1>8

LEMMA FormularioPreenchido ==
    ASSUME NEW f \in Formularios
    PROVE  /\ f[1] \in Ops /\ f[2] \in DadosPossiveis
           /\ f[1] \in {"cadastro", "perfil"} => f[2][1] \in Emails
           /\ f[1] \in {"cadastro", "senha"} => f[2][2] \in Senhas
<1>1. f \in Ops \X DadosPossiveis
  BY SessoesAssumption
<1>2. f[1] \in Ops /\ f[2] \in DadosPossiveis
  BY <1>1, Zenon
<1> QED BY <1>2, SessoesAssumption

LEMMA EntradaCerta ==
    ASSUME SessInv, NEW a \in Abas, PedirEntrada(a)
    PROVE  Crescem /\ SessInv'
<1>1. /\ UNCHANGED <<contas, emitidos, expirados>> /\ UNCHANGED abaVars /\ CabeToken
  BY DEF PedirEntrada
<1>2. PICK r \in Pedidos, f \in Formularios :
          /\ f[1] = "login" \/ (f[1] = "cadastro" /\ CabeConta)
          /\ Enviar(r, f[1], a, f[2])
  BY DEF PedirEntrada
<1>3. Crescem /\ Guardado /\ ContasTypeOK /\ Reservas
  BY <1>1, ServidorParado, InvAntes DEF Antes
<1>4. PICK q \in PedidosPossiveis : Passa(r, q) /\ q.op = f[1] /\ q.fase = "ida" /\ Certo(q)
  BY <1>2, FormularioPreenchido, EnviarPassa
<1>5. PedidosCertos
  BY <1>1, <1>4, EnviarCerto
<1>6. Reservas'
  <2>1. Len(contas) \in Nat /\ Len(emitidos) \in Nat
    BY <1>3 DEF Guardado
  <2>2. PICK A, A1, EA : /\ A = Cardinality(AindaCria({"cadastro"}))
                         /\ A1 = Cardinality(AindaCria({"cadastro"})')
                         /\ EA = EmCurso({"cadastro"})
    OBVIOUS
  <2>3. PICK B, B1, EB : /\ B = Cardinality(AindaCria({"cadastro", "login"}))
                         /\ B1 = Cardinality(AindaCria({"cadastro", "login"})')
                         /\ EB = EmCurso({"cadastro", "login"})
    OBVIOUS
  <2>4. /\ A \in Nat /\ A1 \in Nat /\ EA \in Nat /\ A <= EA /\ A1 <= A + 1
        /\ q.op # "cadastro" => A1 <= A
    BY <1>3, <1>4, <2>2, CriamFinito, MaisUmaReserva, EmCursoContaMais
  <2>5. B \in Nat /\ B1 \in Nat /\ EB \in Nat /\ B <= EB /\ B1 <= B + 1
    BY <1>3, <1>4, <2>3, CriamFinito, MaisUmaReserva, EmCursoContaMais
  <2>6. Len(contas) + A <= MaxContas
    BY <1>3, <2>2 DEF Reservas
  <2>7. q.op = "cadastro" => Len(contas) + EA < MaxContas
    BY <1>2, <1>4, <2>2 DEF CabeConta
  <2>8. Len(emitidos) + EB < MaxTokens
    BY <1>1, <2>3 DEF CabeToken
  <2>9. Len(contas) + A1 <= MaxContas /\ Len(emitidos) + B1 <= MaxTokens
    BY <2>1, <2>4, <2>5, <2>6, <2>7, <2>8, Limites
  <2> QED BY <1>1, <2>2, <2>3, <2>9 DEF Reservas
<1> QED BY <1>1, <1>3, <1>5, <1>6, AbasParadas, InvDepois

LEMMA OutraCerta ==
    ASSUME SessInv, NEW a \in Abas, EditarConta(a) \/ Consultar(a)
    PROVE  Crescem /\ SessInv'
<1>1. UNCHANGED <<contas, emitidos, expirados>> /\ UNCHANGED abaVars
  BY DEF EditarConta, Consultar
<1>2. Crescem /\ Guardado /\ ContasTypeOK /\ Reservas
  BY <1>1, ServidorParado, InvAntes DEF Antes
<1>3. PICK r \in Pedidos, q \in PedidosPossiveis :
          /\ Passa(r, q) /\ q.op \notin {"cadastro", "login"} /\ Certo(q)
  <2>1. CASE EditarConta(a)
    <3>1. PICK r \in Pedidos, f \in Formularios :
              f[1] \in {"perfil", "senha"} /\ Enviar(r, f[1], a, f[2])
      BY <2>1 DEF EditarConta
    <3>2. \E q \in PedidosPossiveis : Passa(r, q) /\ q.op = f[1] /\ q.fase = "ida" /\ Certo(q)
      BY <3>1, FormularioPreenchido, EnviarPassa
    <3> QED BY <3>1, <3>2
  <2>2. CASE Consultar(a)
    <3>1. PICK r \in Pedidos : Enviar(r, "dados", a, <<"", "">>)
      BY <2>2 DEF Consultar
    <3>2. "dados" \in Ops /\ <<"", "">> \in DadosPossiveis
      BY DEF Ops, DadosPossiveis
    <3>3. \E q \in PedidosPossiveis : Passa(r, q) /\ q.op = "dados" /\ q.fase = "ida" /\ Certo(q)
      BY <3>1, <3>2, EnviarPassa
    <3> QED BY <3>3
  <2> QED BY <2>1, <2>2
<1>4. PedidosCertos
  BY <1>1, <1>3, EnviarCerto
<1>5. \A s \in Pedidos : pedido'[s].fase = "ida" =>
          \/ pedido'[s].op \notin {"cadastro", "login"}
          \/ pedido[s].fase = "ida" /\ pedido[s].op = pedido'[s].op
  BY <1>2, <1>3, UmSoPedido
<1>6. Reservas'
  BY <1>1, <1>2, <1>5, MenosReservas
<1> QED BY <1>1, <1>2, <1>4, <1>6, AbasParadas, InvDepois

(* What is left of a page that is gone.                                    *)
LEMMA OrfaosCertos ==
    ASSUME SessInv, NEW a \in Abas
    PROVE  /\ Orfaos(a) \in [Pedidos -> PedidosPossiveis \cup {Vago}]
           /\ \A s \in Pedidos : /\ Certo(Orfaos(a)[s])
                                 /\ Orfaos(a)[s].fase = "ida" =>
                                        /\ pedido[s].fase = "ida"
                                        /\ pedido[s].op = Orfaos(a)[s].op
<1>1. ASSUME NEW s \in Pedidos
      PROVE  /\ Orfaos(a)[s] \in PedidosPossiveis \cup {Vago}
             /\ Certo(Orfaos(a)[s])
             /\ Orfaos(a)[s].fase = "ida" =>
                    pedido[s].fase = "ida" /\ pedido[s].op = Orfaos(a)[s].op
  <2>1. PICK p : p = pedido[s]
    OBVIOUS
  <2>2. p \in PedidosPossiveis \cup {Vago} /\ Certo(p)
    BY <2>1 DEF SessInv, TypeOK, ContasTypeOK
  <2>3. PICK o : o = Orfaos(a)[s]
    OBVIOUS
  <2>4. o = IF p.de # a THEN p
            ELSE IF p.op \in {"cadastro", "perfil", "senha"} /\ p.fase # "volta"
                 THEN [p EXCEPT !.de = "ninguem"]
                 ELSE Vago
    BY <2>1, <2>3, Zenon DEF Orfaos
  <2>5. CASE o = p
    BY <2>1, <2>2, <2>3, <2>5
  <2>6. CASE o = Vago
    <3>1. Certo(Vago)
      BY InvAntes, VagoCerto
    <3> QED BY <2>3, <2>6, <3>1, VagoSemNada
  <2>7. CASE o = [p EXCEPT !.de = "ninguem"] /\ p.op \in {"cadastro", "perfil", "senha"}
    <3>1. p # Vago
      <4>1. "vago" \notin {"cadastro", "perfil", "senha"}
        OBVIOUS
      <4> QED BY <2>7, <4>1, VagoSemNada, Zenon
    <3>2. p \in PedidosPossiveis
      BY <2>2, <3>1, Zenon
    <3>3. PICK q \in PedidosPossiveis :
              /\ q = [p EXCEPT !.de = "ninguem"]
              /\ q.op = p.op /\ q.fase = p.fase
              /\ Certo(p) => Certo(q)
      BY <3>2, Orfao, Zenon
    <3>4. o = q
      BY <2>7, <3>3, Zenon
    <3>5. Certo(q) /\ q.op = p.op /\ q.fase = p.fase
      BY <2>2, <3>3, Zenon
    <3> QED BY <2>1, <2>3, <3>4, <3>5, Zenon
  <2> QED BY <2>4, <2>5, <2>6, <2>7, Zenon
<1>2. Orfaos(a) = [s \in Pedidos |-> Orfaos(a)[s]]
  BY Zenon DEF Orfaos
<1>3. PICK O : O = Orfaos(a)
  OBVIOUS
<1>4. O = [s \in Pedidos |-> O[s]] /\ \A s \in Pedidos : O[s] \in PedidosPossiveis \cup {Vago}
  BY <1>1, <1>2, <1>3, Zenon
<1>5. O \in [Pedidos -> PedidosPossiveis \cup {Vago}]
  BY <1>4
<1> QED BY <1>1, <1>3, <1>5, Zenon

LEMMA AbasComServidorParado ==
    ASSUME SessInv, UNCHANGED <<contas, emitidos, expirados>>,
           token' = token \/ token' = 0
                          \/ (token' \in Tokens /\ token' \in 1 .. Len(emitidos)),
           tenant' \in [Abas -> {0} \cup Ids],
           carregando' \in SUBSET Abas
    PROVE  AbasCertas
<1>1. token \in {0} \cup Tokens /\ token \in 0 .. Len(emitidos)
  BY DEF SessInv, TypeOK, Donos
<1>2. Len(emitidos) \in Nat
  BY InvAntes DEF Guardado
<1> QED BY <1>1, <1>2 DEF AbasCertas

LEMMA TiposDasAbas ==
    ASSUME SessInv
    PROVE  tenant \in [Abas -> {0} \cup Ids] /\ carregando \in SUBSET Abas
BY DEF SessInv, TypeOK

LEMMA AbrirCerta ==
    ASSUME SessInv, NEW a \in Abas, Abrir(a)
    PROVE  Crescem /\ SessInv'
<1>1. UNCHANGED <<contas, emitidos, expirados, token>> /\ tenant' = [tenant EXCEPT ![a] = 0]
  BY DEF Abrir
<1>2. Crescem /\ Guardado /\ Reservas
  BY <1>1, ServidorParado, InvAntes DEF Antes
<1>3. PICK O : O = Orfaos(a)
  OBVIOUS
<1>4. /\ O \in [Pedidos -> PedidosPossiveis \cup {Vago}]
      /\ \A s \in Pedidos : Certo(O[s])
      /\ \A s \in Pedidos : O[s].fase = "ida" => pedido[s].fase = "ida" /\ pedido[s].op = O[s].op
  BY <1>3, OrfaosCertos, Zenon
<1>5. AbasCertas
  <2>1. carregando' \in SUBSET Abas
    BY TiposDasAbas DEF Abrir
  <2>2. tenant' \in [Abas -> {0} \cup Ids]
    BY <1>1, TiposDasAbas
  <2> QED BY <1>1, <2>1, <2>2, AbasComServidorParado
<1>6. PedidosCertos /\ Reservas'
  <2>1. CASE pedido' = O
    <3>1. ASSUME NEW s \in Pedidos
          PROVE  \E q : q = pedido'[s] /\ Certo(q)'
      <4>1. PICK q : q = O[s]
        OBVIOUS
      <4>2. Certo(q)'
        BY <1>2, <1>4, <4>1, CertoFica
      <4> QED BY <2>1, <4>1, <4>2, Zenon
    <3>2. PedidosCertos
      BY <1>4, <2>1, <3>1 DEF PedidosCertos
    <3>3. \A s \in Pedidos : pedido'[s].fase = "ida" =>
              pedido[s].fase = "ida" /\ pedido[s].op = pedido'[s].op
      BY <1>4, <2>1, Zenon
    <3>4. Reservas'
      BY <1>1, <1>2, <3>3, MenosReservas
    <3> QED BY <3>2, <3>4
  <2>2. CASE \E r \in Pedidos :
                 pedido' = [O EXCEPT ![r] = Enviado(r, "eu", a, token, <<"", "">>)[r]]
    <3>1. PICK r \in Pedidos :
              pedido' = [O EXCEPT ![r] = Enviado(r, "eu", a, token, <<"", "">>)[r]]
      BY <2>2
    <3>2. PICK d : d = <<"", "">>
      OBVIOUS
    <3>3. d \in DadosPossiveis /\ "eu" \in Ops
      BY <3>2 DEF DadosPossiveis, Ops
    <3>4. PICK q \in PedidosPossiveis :
              /\ q = [Vago EXCEPT !.op = "eu", !.de = a, !.token = token, !.dado = d,
                                  !.fase = "ida"]
              /\ q.op = "eu" /\ q.fase = "ida" /\ Certo(q)
      <4>1. Guardado /\ token \in 0 .. Len(emitidos) /\ token \in {0} \cup Tokens
        BY InvAntes DEF SessInv, TypeOK
      <4>2. PICK o \in Ops : o = "eu"
        BY <3>3
      <4>3. /\ o \in {"cadastro", "perfil"} => d[1] \in Emails
            /\ o \in {"cadastro", "senha"} => d[2] \in Senhas
        BY <4>2
      <4>5. a \in Clientes /\ d \in DadosPossiveis
        BY <3>3 DEF Abas
      <4>4. PICK q \in PedidosPossiveis :
                /\ q = [Vago EXCEPT !.op = o, !.de = a, !.token = token, !.dado = d,
                                    !.fase = "ida"]
                /\ q.op = o /\ q.fase = "ida" /\ Certo(q)
        BY <4>1, <4>3, <4>5, Novo, Zenon
      <4> QED BY <4>2, <4>4, Zenon
    <3>5. Enviado(r, "eu", a, token, d)[r] = q
      <4>1. Enviado(r, "eu", a, token, d) = [pedido EXCEPT ![r] = q]
        BY <3>4, Zenon DEF Enviado
      <4>2. r \in DOMAIN pedido
        BY DEF SessInv, TypeOK, ContasTypeOK
      <4>3. [pedido EXCEPT ![r] = q][r] = q
        BY <4>2
      <4> QED BY <4>1, <4>3, Zenon
    <3>6. pedido' = [O EXCEPT ![r] = q]
      BY <3>1, <3>2, <3>5, Zenon
    <3>7. /\ pedido' \in [Pedidos -> PedidosPossiveis \cup {Vago}]
          /\ pedido'[r] = q
          /\ \A s \in Pedidos : s # r => pedido'[s] = O[s]
      BY <1>4, <3>6
    <3>8. ASSUME NEW s \in Pedidos
          PROVE  \E p : p = pedido'[s] /\ Certo(p)'
      <4>1. PICK p : p = pedido'[s]
        OBVIOUS
      <4>2. Certo(p)
        BY <1>4, <3>4, <3>7, <4>1
      <4>3. Certo(p)'
        BY <1>2, <4>2, CertoFica
      <4> QED BY <4>1, <4>3
    <3>9. PedidosCertos
      BY <3>7, <3>8 DEF PedidosCertos
    <3>10. \A s \in Pedidos : pedido'[s].fase = "ida" =>
               \/ pedido'[s].op \notin {"cadastro", "login"}
               \/ pedido[s].fase = "ida" /\ pedido[s].op = pedido'[s].op
      <4>1. q.op \notin {"cadastro", "login"}
        BY <3>4
      <4> QED BY <1>4, <3>7, <4>1
    <3>11. Reservas'
      BY <1>1, <1>2, <3>10, MenosReservas
    <3> QED BY <3>9, <3>11
  <2>3. \/ pedido' = O
        \/ \E r \in Pedidos :
               pedido' = [O EXCEPT ![r] = Enviado(r, "eu", a, token, <<"", "">>)[r]]
    BY <1>3, Zenon DEF Abrir
  <2> QED BY <2>1, <2>2, <2>3
<1> QED BY <1>2, <1>5, <1>6, InvDepois

LEMMA SairCerta ==
    ASSUME SessInv, NEW a \in Abas, Sair(a)
    PROVE  Crescem /\ SessInv'
<1>1. /\ UNCHANGED <<contas, emitidos, expirados>> /\ UNCHANGED <<pedido, carregando>>
      /\ token' = 0 /\ tenant' = [tenant EXCEPT ![a] = 0]
  BY DEF Sair, contasVars
<1>2. Crescem /\ Guardado /\ Reservas
  BY <1>1, ServidorParado, InvAntes DEF Antes
<1>3. PedidosCertos
  BY <1>1, <1>2, PedidosParados
<1>4. Reservas'
  BY <1>1, <1>2, ReservasParadas
<1>5. AbasCertas
  <2>1. tenant' \in [Abas -> {0} \cup Ids] /\ carregando' \in SUBSET Abas
    BY <1>1, TiposDasAbas
  <2> QED BY <1>1, <2>1, AbasComServidorParado
<1> QED BY <1>2, <1>3, <1>4, <1>5, InvDepois

LEMMA ReceberCerta ==
    ASSUME SessInv, NEW r \in Pedidos, Receber(r)
    PROVE  Crescem /\ SessInv'
<1>1. Passa(r, Vago) /\ UNCHANGED <<contas, emitidos, expirados>>
  <2>1. (\E ops : Chega(r, ops)) \/ Descartar(r)
    BY DEF Receber, NaoAutorizado, EuNaoRespondeu, MostrarConta, AbrirSessao, Mostrar
  <2> QED BY <2>1, ChegaEsvazia DEF Descartar, Passa
<1>2. Crescem
  BY <1>1, ServidorParado
<1>3. PedidosCertos /\ Reservas'
  BY <1>1, Esvazia
<1>4. carregando' \in SUBSET Abas
  BY TiposDasAbas DEF Receber, NaoAutorizado, EuNaoRespondeu, MostrarConta, AbrirSessao,
                      Mostrar, Descartar, Carregada, abaVars
<1>5. PICK p : p = pedido[r]
  OBVIOUS
<1>6. p \in PedidosPossiveis \/ p = Vago
  BY <1>5 DEF SessInv, TypeOK, ContasTypeOK
<1>7. p.resp.conta \in {0} \cup Ids /\ p.resp.token \in {0} \cup Tokens
  <2>1. CASE p \in PedidosPossiveis
    BY <2>1, CamposDoPedido DEF Respostas
  <2>2. CASE p = Vago
    BY <2>2 DEF Vago, SemResposta
  <2> QED BY <1>6, <2>1, <2>2
<1>8. tenant' \in [Abas -> {0} \cup Ids]
  <2>1. \/ tenant' = tenant
        \/ \E a : tenant' = [tenant EXCEPT ![a] = 0]
        \/ \E a : tenant' = [tenant EXCEPT ![a] = p.resp.conta]
    BY <1>5, Zenon DEF Receber, NaoAutorizado, EuNaoRespondeu, MostrarConta, AbrirSessao,
                       Mostrar, Descartar, Resp, abaVars
  <2> QED BY <1>7, <2>1, TiposDasAbas
<1>9. \/ token' = token
      \/ token' = 0
      \/ token' \in Tokens /\ token' \in 1 .. Len(emitidos)
  <2>1. token' = token \/ token' = 0 \/ AbrirSessao(r)
    BY DEF Receber, NaoAutorizado, EuNaoRespondeu, MostrarConta, Mostrar, Descartar, abaVars
  <2>2. ASSUME AbrirSessao(r)
        PROVE  token' \in Tokens /\ token' \in 1 .. Len(emitidos)
    <3>1. p.fase = "volta" /\ p.resp.token # 0 /\ token' = p.resp.token
      BY <1>5, <2>2 DEF AbrirSessao, Chega, Resp
    <3>2. p.resp.token \in 1 .. Len(emitidos)
      BY <1>5, <3>1 DEF SessInv, Certo, Respondido
    <3> QED BY <1>7, <3>1, <3>2
  <2> QED BY <2>1, <2>2
<1>10. AbasCertas
  BY <1>1, <1>4, <1>8, <1>9, AbasComServidorParado
<1> QED BY <1>2, <1>3, <1>10, InvDepois

-----------------------------------------------------------------------------
LEMMA NoComeco == ASSUME Init PROVE SessInv
<1>1. /\ contas = << >> /\ emitidos = << >> /\ expirados = {}
      /\ pedido = [r \in Pedidos |-> Vago]
      /\ token = 0 /\ tenant = [a \in Abas |-> 0] /\ carregando = {}
  BY DEF Init, ContasInit
<1>2. Guardado
  BY <1>1 DEF Guardado
<1>3. ContasTypeOK
  BY <1>1 DEF ContasTypeOK
<1>4. TypeOK
  BY <1>1, <1>3 DEF TypeOK
<1>5. Donos
  BY <1>1 DEF Donos
<1>6. \A r \in Pedidos : Certo(pedido[r])
  <2>1. Certo(Vago)
    BY <1>2, VagoCerto
  <2> QED BY <1>1, <2>1
<1>7. Reservas
  <2>1. \A ops : AindaCria(ops) = {}
    <3>1. \A r \in Pedidos : pedido[r].fase = ""
      BY <1>1, VagoSemNada
    <3> QED BY <3>1 DEF AindaCria
  <2>2. Cardinality({}) = 0
    BY FS_EmptySet
  <2>3. /\ Cardinality(AindaCria({"cadastro"})) = 0
        /\ Cardinality(AindaCria({"cadastro", "login"})) = 0
    BY <2>1, <2>2, Zenon
  <2>4. Len(contas) = 0 /\ Len(emitidos) = 0
    BY <1>1
  <2> QED BY <2>3, <2>4, Limites DEF Reservas
<1> QED BY <1>4, <1>5, <1>6, <1>7 DEF SessInv

LEMMA PassoCerto ==
    ASSUME SessInv, Next
    PROVE  Crescem /\ SessInv'
<1>1. \/ ServidorNext /\ UNCHANGED abaVars
      \/ \E a \in Abas : \/ Abrir(a) \/ PedirEntrada(a) \/ Sair(a)
                         \/ EditarConta(a) \/ Consultar(a)
      \/ \E r \in Pedidos : Receber(r)
  BY DEF Next
<1> QED BY <1>1, Servidor, AbrirCerta, EntradaCerta, OutraCerta, SairCerta, ReceberCerta

LEMMA NadaAcontece == ASSUME SessInv, UNCHANGED vars PROVE SessInv'
<1>1. UNCHANGED <<contas, emitidos, expirados>> /\ UNCHANGED pedido /\ UNCHANGED abaVars
  BY DEF vars, contasVars
<1>2. Crescem /\ Guardado /\ Reservas
  BY <1>1, ServidorParado, InvAntes DEF Antes
<1>3. Reservas'
  BY <1>1, <1>2, ReservasParadas
<1> QED BY <1>1, <1>2, <1>3, PedidosParados, AbasParadas, InvDepois

(***************************************************************************)
(* The invariant of the sessions holds of every behaviour: bounds are      *)
(* respected, tokens have owners, a password compared is in the history of *)
(* its account, and an answer on its way is still right.                   *)
(***************************************************************************)
THEOREM SessoesInvariante == Spec => []SessInv
<1>1. Init => SessInv
  BY NoComeco
<1>2. SessInv /\ [Next]_vars => SessInv'
  BY PassoCerto, NadaAcontece
<1> QED BY <1>1, <1>2, PTL DEF Spec

(***************************************************************************)
(* Accounts, tokens, requests and tabs keep their types: what is created   *)
(* fits the bounds, however the requests in flight interleave.             *)
(***************************************************************************)
THEOREM SessoesTypeOK == Spec => []TypeOK
<1>1. SessInv => TypeOK
  BY DEF SessInv
<1> QED BY <1>1, SessoesInvariante, PTL

-----------------------------------------------------------------------------
(* Only trocarSenha writes a password over another.                        *)
LEMMA QuemTrocaSabia ==
    ASSUME SessInv, NEW r \in Pedidos, pedido[r].fase = "trocar",
           contas' = ComSenha(r), NEW st, Responder(r, st),
           NEW c \in DOMAIN contas, contas'[c].senhas # contas[c].senhas
    PROVE  \E s \in Pedidos :
               /\ pedido[s].fase = "trocar" /\ pedido'[s].fase = "volta"
               /\ Conta(s) = c
               /\ \E i \in pedido[s].desde .. Len(contas[c].senhas) :
                      contas[c].senhas[i] = pedido[s].dado[1]
<1>1. Antes /\ Guardado /\ Certo(pedido[r])
  BY InvAntes DEF SessInv
<1>2. Conta(r) \in 1 .. Len(contas) /\ \E s \in Senhas : OutraSenha(Conta(r), s)
  BY <1>1, SenhaGravada
<1>3. c \in 1 .. Len(contas)
  BY <1>1 DEF Guardado
<1>4. Conta(r) = c
  BY <1>2, <1>3, Zenon DEF OutraSenha
<1>5. PICK p : p = pedido[r]
  OBVIOUS
<1>6. PICK s \in Seq(Senhas) : s = contas[c].senhas /\ Len(s) \in Nat
  BY <1>1, <1>3, SenhasEmSequencia
<1>7. p.desde \in 1 .. Len(s) /\ s[p.desde] = p.dado[1]
  <2>1. Dono(p.token) = c
    BY <1>4, <1>5 DEF Conta
  <2> QED BY <1>1, <1>5, <1>6, <2>1 DEF Certo, Comparado
<1>8. p.desde \in p.desde .. Len(s)
  BY <1>6, <1>7
<1>9. pedido'[r].fase = "volta"
  <2>1. r \in DOMAIN pedido
    BY <1>1 DEF Antes, ContasTypeOK
  <2>2. p.fase = "trocar"
    BY <1>5
  <2>3. p \in PedidosPossiveis
    BY <1>1, <1>5, <2>2, PedidoPossivel DEF Antes
  <2> QED BY <1>5, <2>1, <2>3 DEF Responder, PedidosPossiveis
<1> QED BY <1>4, <1>5, <1>6, <1>7, <1>8, <1>9

LEMMA QuemMudaSenhas ==
    ASSUME SessInv, Next, NEW c \in DOMAIN contas, contas'[c].senhas # contas[c].senhas
    PROVE  \E r \in Pedidos : /\ pedido[r].fase = "trocar" /\ contas' = ComSenha(r)
                              /\ \E st : Responder(r, st)
<1>1. Antes /\ Guardado /\ c \in 1 .. Len(contas)
  BY InvAntes DEF Guardado
<1>2. ~MesmasSenhas /\ ~ComOutra /\ contas' # contas
  BY <1>1 DEF MesmasSenhas, ComOutra
<1>3. ServidorNext
  <2>1. \A a \in Abas : /\ Abrir(a) \/ PedirEntrada(a) \/ EditarConta(a) => UNCHANGED contas
                        /\ Consultar(a) \/ Sair(a) => UNCHANGED contas
    BY DEF Abrir, PedirEntrada, EditarConta, Consultar, Sair, contasVars
  <2>2. \A r \in Pedidos : Receber(r) => UNCHANGED contas
    BY DEF Receber, NaoAutorizado, EuNaoRespondeu, MostrarConta, AbrirSessao, Mostrar,
           Chega, Descartar
  <2> QED BY <1>2, <2>1, <2>2 DEF Next
<1>4. ASSUME NEW k \in DOMAIN contas, NEW dias \in Prazos, AjustarRetencao(k, dias)
      PROVE  FALSE
  <2>1. dias \in Retencoes
    BY <1>4, ContasAssumption DEF AjustarRetencao, PrazoValido, Retencoes
  <2>2. contas \in Seq(ContasPossiveis) /\ k \in 1 .. Len(contas)
    BY <1>1 DEF Guardado
  <2>3. contas' = [contas EXCEPT ![k].retencao = dias]
    BY <1>4, Zenon DEF AjustarRetencao
  <2>4. MesmasSenhas
    BY <2>1, <2>2, <2>3, PrazoMudado, Zenon DEF MesmasSenhas
  <2> QED BY <1>2, <2>4
<1>5. ASSUME NEW t \in DOMAIN emitidos, Expirar(t)
      PROVE  FALSE
  BY <1>2, <1>5 DEF Expirar
<1>6. ASSUME NEW r \in Pedidos, Tratar(r)
      PROVE  /\ pedido[r].fase = "trocar" /\ contas' = ComSenha(r)
             /\ \E st : Responder(r, st)
  <2>1. \/ UNCHANGED contas
        \/ Chegou(r, "cadastro") /\ contas' = ComConta(r)
        \/ Admitido(r, "perfil") /\ contas' = ComEmail(r)
        \/ GravarSenha(r) \/ FalharSenha(r)
    BY <1>6, Zenon DEF Tratar, Cadastrar, FalharCadastro, Entrar, FalharLogin, Barrar, Eu,
           FalharEu, AtualizarPerfil, FalharPerfil, CompararSenha, RecusarSenha, Dados,
           PerderNaRede
  <2>2. GravarSenha(r) \/ FalharSenha(r)
    BY <1>1, <1>2, <2>1, ContaNova, EmailGravado
  <2> QED BY <1>2, <2>2 DEF GravarSenha, FalharSenha
<1> QED BY <1>3, <1>4, <1>5, <1>6 DEF ServidorNext

(***************************************************************************)
(* Whoever writes a password over the one in place has shown one that was  *)
(* in place since it was compared (auth-service, trocarSenha).             *)
(***************************************************************************)
THEOREM SessoesTrocaDeQuemSabia == Spec => TrocaDeQuemSabia
<1>1. SessInv /\ [Next]_vars =>
          [\A c \in DOMAIN contas :
              contas'[c].senhas # contas[c].senhas =>
                  \E r \in Pedidos :
                      /\ pedido[r].fase = "trocar" /\ pedido'[r].fase = "volta"
                      /\ Conta(r) = c
                      /\ \E i \in pedido[r].desde .. Len(contas[c].senhas) :
                             contas[c].senhas[i] = pedido[r].dado[1]]_vars
  <2>1. SUFFICES ASSUME SessInv, Next, NEW c \in DOMAIN contas,
                        contas'[c].senhas # contas[c].senhas
                 PROVE  \E r \in Pedidos :
                            /\ pedido[r].fase = "trocar" /\ pedido'[r].fase = "volta"
                            /\ Conta(r) = c
                            /\ \E i \in pedido[r].desde .. Len(contas[c].senhas) :
                                   contas[c].senhas[i] = pedido[r].dado[1]
    OBVIOUS
  <2>2. PICK r \in Pedidos : /\ pedido[r].fase = "trocar" /\ contas' = ComSenha(r)
                             /\ \E st : Responder(r, st)
    BY <2>1, QuemMudaSenhas
  <2>3. PICK st : Responder(r, st)
    BY <2>2
  <2> QED BY <2>1, <2>2, <2>3, QuemTrocaSabia, Zenon
<1> QED BY <1>1, SessoesInvariante, PTL DEF Spec, TrocaDeQuemSabia

-----------------------------------------------------------------------------
(* What ends a session that is alive.                                      *)
LEMMA ChegaTomada ==
    ASSUME SessInv, NEW r \in Pedidos, NEW ops, Chega(r, ops)
    PROVE  Tomada(r)
<1>1. Passa(r, Vago) /\ pedido[r].fase = "volta"
  BY ChegaEsvazia DEF Chega
<1>2. pedido'[r] = Vago
  BY <1>1, UmSoPedido DEF SessInv, TypeOK
<1> QED BY <1>1, <1>2 DEF Tomada

FimDeSessao ==
    \/ \E a \in Abas : tenant[a] # 0 /\ tenant'[a] = 0 /\ UNCHANGED pedido
    \/ \E r \in Pedidos :
           /\ Tomada(r)
           /\ \/ /\ Resp(r).status = 401 /\ pedido[r].op # "login"
                 /\ ~Vivo(pedido[r].token)
              \/ Resp(r).status = 401 /\ pedido[r].op = "login"
              \/ Resp(r).status \notin {200, 401} /\ pedido[r].op = "eu"

LEMMA QuemTiraOToken ==
    ASSUME SessInv, Next, Vivo(token), token' = 0
    PROVE  \/ \E a \in Abas : Sair(a)
           \/ \E r \in Pedidos : NaoAutorizado(r) \/ EuNaoRespondeu(r)
<1>1. token # 0
  BY DEF Vivo
<1>2. ~UNCHANGED abaVars
  BY <1>1 DEF abaVars
<1>3. ASSUME NEW a \in Abas, Abrir(a) \/ PedirEntrada(a) \/ EditarConta(a) \/ Consultar(a)
      PROVE  FALSE
  BY <1>1, <1>2, <1>3 DEF Abrir, PedirEntrada, EditarConta, Consultar
<1>4. ASSUME NEW r \in Pedidos, MostrarConta(r) \/ AbrirSessao(r) \/ Mostrar(r) \/ Descartar(r)
      PROVE  FALSE
  BY <1>1, <1>2, <1>4 DEF MostrarConta, AbrirSessao, Mostrar, Descartar
<1> QED BY <1>2, <1>3, <1>4 DEF Next, Receber

LEMMA FimPorUmDosTres ==
    ASSUME SessInv, Next, Vivo(token), token' = 0
    PROVE  FimDeSessao
<1>1. ASSUME NEW a \in Abas, Sair(a)
      PROVE  FimDeSessao
  <2>1. tenant'[a] = 0
    BY <1>1, TiposDasAbas DEF Sair
  <2> QED BY <1>1, <2>1 DEF Sair, FimDeSessao, contasVars
<1>2. ASSUME NEW r \in Pedidos, NaoAutorizado(r)
      PROVE  FimDeSessao
  <2>1. Tomada(r) /\ pedido[r].fase = "volta" /\ Resp(r).status = 401
    BY <1>2, ChegaTomada DEF NaoAutorizado, Tomada
  <2>2. pedido[r].op = "login" \/ ~Vivo(pedido[r].token)
    BY <2>1 DEF SessInv, Certo, Respondido, Resp
  <2> QED BY <2>1, <2>2 DEF FimDeSessao
<1>3. ASSUME NEW r \in Pedidos, EuNaoRespondeu(r)
      PROVE  FimDeSessao
  <2>1. Tomada(r) /\ Resp(r).status \notin {200, 401} /\ pedido[r].op = "eu"
    BY <1>3, ChegaTomada DEF EuNaoRespondeu, Chega
  <2> QED BY <2>1 DEF FimDeSessao
<1> QED BY <1>1, <1>2, <1>3, QuemTiraOToken

(***************************************************************************)
(* A living session ends without a log out only by a 401 to a request sent *)
(* with a dead token, by a 401 to a log in (a wrong password, or a failed  *)
(* database), or by a load whose /auth/eu failed with anything but a 401   *)
(* (apps/web, api.ts and auth.tsx; auth-service, main.go).                 *)
(***************************************************************************)
THEOREM SessoesSessaoViveAteQue == Spec => SessaoViveAteQue
<1>1. SessInv /\ [Next]_vars =>
          [Vivo(token) /\ token' = 0 =>
              \/ \E a \in Abas : tenant[a] # 0 /\ tenant'[a] = 0 /\ UNCHANGED pedido
              \/ \E r \in Pedidos :
                     /\ Tomada(r)
                     /\ \/ /\ Resp(r).status = 401 /\ pedido[r].op # "login"
                           /\ ~Vivo(pedido[r].token)
                        \/ Resp(r).status = 401 /\ pedido[r].op = "login"
                        \/ Resp(r).status \notin {200, 401} /\ pedido[r].op = "eu"]_vars
  BY FimPorUmDosTres DEF FimDeSessao
<1> QED BY <1>1, SessoesInvariante, PTL DEF Spec, SessaoViveAteQue

-----------------------------------------------------------------------------
(* Whose account a tab shows.                                              *)
TrocaDeTela(a) ==
    \E r \in Pedidos :
        /\ Tomada(r)
        /\ IF pedido[r].de = a THEN pedido[r].token # token ELSE Resp(r).token # 0

LEMMA MesmaTela ==
    ASSUME SessInv, Crescem, NEW a, UNCHANGED <<token, tenant>>, DeOutro(a)'
    PROVE  DeOutro(a)
<1>1. token # 0 /\ tenant[a] # 0 /\ tenant[a] # Dono(token)'
  BY DEF DeOutro
<1>2. token \in 1 .. Len(emitidos) /\ Guardado
  BY <1>1, InvAntes DEF Guardado
<1>3. Dono(token)' = Dono(token)
  <2>1. PICK t : t = token
    OBVIOUS
  <2>2. Dono(t)' = Dono(t)
    BY <1>2, <2>1, DonoFica
  <2>3. token' = t
    BY <2>1
  <2> QED BY <2>1, <2>2, <2>3 DEF Dono
<1> QED BY <1>1, <1>3 DEF DeOutro

LEMMA TelaApagada ==
    ASSUME SessInv, Crescem, NEW a \in Abas, NEW b, UNCHANGED token,
           tenant' = [tenant EXCEPT ![b] = 0], DeOutro(a)'
    PROVE  DeOutro(a)
<1>1. a # b /\ tenant'[a] = tenant[a]
  BY TiposDasAbas DEF DeOutro
<1>2. token # 0 /\ tenant[a] # 0 /\ tenant[a] # Dono(token)'
  BY <1>1 DEF DeOutro
<1>3. token \in 1 .. Len(emitidos) /\ Guardado
  BY <1>2, InvAntes DEF Guardado
<1>4. PICK t : t = token
  OBVIOUS
<1>5. Dono(t)' = Dono(t)
  BY <1>3, <1>4, DonoFica
<1>6. Dono(token)' = Dono(token)
  BY <1>4, <1>5 DEF Dono
<1> QED BY <1>2, <1>6 DEF DeOutro

LEMMA QuemMudaATela ==
    ASSUME SessInv, Next, Crescem, NEW a \in Abas, ~DeOutro(a), DeOutro(a)'
    PROVE  TrocaDeTela(a)
<1>1. token' # 0
  BY DEF DeOutro
<1>2. ~UNCHANGED abaVars
  BY MesmaTela DEF abaVars
<1>3. ASSUME NEW b \in Abas, \/ Abrir(b) \/ PedirEntrada(b) \/ Sair(b)
                             \/ EditarConta(b) \/ Consultar(b)
      PROVE  FALSE
  BY <1>1, <1>2, <1>3, TelaApagada DEF Abrir, PedirEntrada, EditarConta, Consultar, Sair
<1>4. PICK r \in Pedidos : Receber(r)
  BY <1>2, <1>3 DEF Next
<1>5. MostrarConta(r) \/ AbrirSessao(r)
  BY <1>1, <1>2, <1>4 DEF Receber, NaoAutorizado, EuNaoRespondeu, Mostrar, Descartar
<1>6. Tomada(r) /\ pedido[r].fase = "volta"
  BY <1>5, ChegaTomada DEF MostrarConta, AbrirSessao, Tomada
<1>7. PICK p : p = pedido[r]
  OBVIOUS
<1>8. Respondido(p) /\ Preenchido(p)
  BY <1>7 DEF SessInv, Certo
<1>9. UNCHANGED emitidos
  BY <1>5 DEF MostrarConta, AbrirSessao, Chega
<1>10. CASE MostrarConta(r)
  <2>1. /\ UNCHANGED token /\ p.op \in {"eu", "perfil"} /\ p.resp.status = 200
        /\ tenant' = [tenant EXCEPT ![p.de] = p.resp.conta]
    BY <1>7, <1>10 DEF MostrarConta, Chega, Resp
  <2>2. p.resp.conta = Dono(p.token)
    BY <1>6, <1>7, <1>8, <2>1 DEF Respondido
  <2>3. p.de = a
    <3>1. p.de # a => tenant'[a] = tenant[a]
      BY <2>1, TiposDasAbas
    <3>2. tenant'[a] # tenant[a]
      BY <1>9, <2>1 DEF DeOutro, Dono
    <3> QED BY <3>1, <3>2
  <2>4. tenant'[a] = Dono(p.token)
    BY <2>1, <2>2, <2>3, TiposDasAbas
  <2>5. p.token # token
    BY <1>9, <2>1, <2>4 DEF DeOutro, Dono
  <2> QED BY <1>6, <1>7, <2>3, <2>5 DEF TrocaDeTela
<1>11. CASE AbrirSessao(r)
  <2>1. /\ p.resp.token # 0 /\ token' = p.resp.token
        /\ tenant' = [tenant EXCEPT ![p.de] = p.resp.conta]
    BY <1>7, <1>11 DEF AbrirSessao, Resp
  <2>2. p.resp.conta = Dono(p.resp.token)
    BY <1>6, <1>7, <1>8, <2>1 DEF Respondido
  <2>3. p.de # a
    <3>1. p.de = a => tenant'[a] = Dono(p.resp.token)
      BY <2>1, <2>2, TiposDasAbas
    <3>2. tenant'[a] # Dono(p.resp.token)
      BY <1>9, <2>1 DEF DeOutro, Dono
    <3> QED BY <3>1, <3>2
  <2> QED BY <1>6, <1>7, <2>1, <2>3 DEF TrocaDeTela, Resp
<1> QED BY <1>5, <1>10, <1>11

(***************************************************************************)
(* A tab comes to show one account over the token of another only when     *)
(* another tab opens a session, or with the answer to a token that is no   *)
(* longer the one in place (apps/web, auth.tsx and api.ts).                *)
(***************************************************************************)
THEOREM SessoesTelaDizQuemE == Spec => TelaDizQuemE
<1>1. SessInv /\ [Next]_vars =>
          [\A a \in Abas :
              ~DeOutro(a) /\ DeOutro(a)' =>
                  \E r \in Pedidos :
                      /\ Tomada(r)
                      /\ IF pedido[r].de = a THEN pedido[r].token # token
                         ELSE Resp(r).token # 0]_vars
  BY PassoCerto, QuemMudaATela DEF TrocaDeTela
<1> QED BY <1>1, SessoesInvariante, PTL DEF Spec, TelaDizQuemE
=============================================================================
