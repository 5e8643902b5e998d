------------------------------- MODULE Contas -------------------------------
(***************************************************************************)
(* auth-service: registration, log in, profile, password, retention, and   *)
(* the tokens authn issues and verifies.  A request holds one of a few     *)
(* places; the handler takes it from "ida" to "volta", where its answer    *)
(* waits for the client.                                                   *)
(*                                                                         *)
(* Every handler is one transaction, except trocarSenha: it reads the hash *)
(* and compares in one, and writes in another.                             *)
(***************************************************************************)
EXTENDS Integers, FiniteSets, Sequences, SequencesExt

CONSTANTS Pedidos,       \* places for requests in flight
          Clientes,      \* who may send them
          Emails,        \* e-mails as they are typed
          Minusculo,     \* Minusculo[e]: lower(e), what the index is on
          Senhas,
          Prazos,        \* values asked of retencao_dias
          MaxContas, MaxTokens, MaxTrocas,
          FalhasDoServidor

ASSUME ContasAssumption ==
    /\ IsFiniteSet(Pedidos)
    /\ Emails \subseteq DOMAIN Minusculo
    /\ Prazos \subseteq Int
    /\ {MaxContas, MaxTokens, MaxTrocas} \subseteq Nat
    /\ FalhasDoServidor \subseteq {"banco", "commit", "rede"}

VARIABLES contas,      \* auth.tenants, in order of registration
          emitidos,    \* emitidos[t]: whose token t is; 0 is no token
          expirados,   \* tokens past their JWT_TTL
          pedido       \* pedido[r]: the request in place r

contasVars == <<contas, emitidos, expirados, pedido>>

Ids == 1 .. MaxContas
Tokens == 1 .. MaxTokens

(* senhas is what senha_hash has held, in order; its last is the column.   *)
ContasPossiveis == [email : Emails, senhas : Seq(Senhas), retencao : 30 .. 3650]

Ops == {"cadastro", "login", "eu", "perfil", "senha", "dados"}

SemResposta == [status |-> 0, token |-> 0, conta |-> 0]

Vago == [op |-> "vago", de |-> "ninguem", token |-> 0, dado |-> <<"", "">>,
         fase |-> "", desde |-> 0, resp |-> SemResposta]

DadosPossiveis == (Emails \cup Senhas \cup {""}) \X (Senhas \cup {""})

PedidosPossiveis ==
    [op : Ops, de : Clientes \cup {"ninguem"}, token : {0} \cup Tokens,
     dado : DadosPossiveis,
     fase : {"ida", "trocar", "volta"}, desde : Nat,
     resp : [status : {0, 200, 201, 204, 400, 401, 404, 409, 500, 502},
             token : {0} \cup Tokens, conta : {0} \cup Ids]]

ContasTypeOK ==
    /\ contas \in Seq(ContasPossiveis)
    /\ emitidos \in Seq(Ids)
    /\ expirados \subseteq DOMAIN emitidos
    /\ pedido \in [Pedidos -> PedidosPossiveis \cup {Vago}]

ContasInit == /\ contas = << >>
              /\ emitidos = << >>
              /\ expirados = {}
              /\ pedido = [r \in Pedidos |-> Vago]

-----------------------------------------------------------------------------
Senha(c) == Last(contas[c].senhas)

(* tenants_email_uniq: another account than c has this e-mail, whatever    *)
(* the case.                                                               *)
Ocupado(e, c) == \E i \in DOMAIN contas :
                     i # c /\ Minusculo[contas[i].email] = Minusculo[e]

Vivo(t) == t # 0 /\ t \notin expirados
Dono(t) == emitidos[t]

Chegou(r, op) == pedido[r].op = op /\ pedido[r].fase = "ida"

(* The request leaves the client with the token it has at that moment.     *)
Enviado(r, op, de, t, dado) ==
    [pedido EXCEPT ![r] = [Vago EXCEPT !.op = op, !.de = de, !.token = t,
                                       !.dado = dado, !.fase = "ida"]]

Responder(r, status) ==
    pedido' = [pedido EXCEPT ![r].fase = "volta", ![r].resp.status = status]

(* The answer carries an account: its profile.                             *)
ResponderConta(r, status, c) ==
    pedido' = [pedido EXCEPT ![r].fase = "volta",
                             ![r].resp = [status |-> status, token |-> 0, conta |-> c]]

(* responderSessao: a new token of account c.                              *)
ResponderSessao(r, status, c) ==
    /\ emitidos' = Append(emitidos, c)
    /\ pedido' = [pedido EXCEPT
                     ![r].fase = "volta",
                     ![r].resp = [status |-> status, token |-> Len(emitidos) + 1,
                                  conta |-> c]]

-----------------------------------------------------------------------------
(* cadastro                                                                *)
ComConta(r) == Append(contas, [email |-> pedido[r].dado[1],
                               senhas |-> <<pedido[r].dado[2]>>, retencao |-> 365])

Cadastrar(r) ==
    /\ Chegou(r, "cadastro")
    /\ ~Ocupado(pedido[r].dado[1], 0)
    /\ contas' = ComConta(r)
    /\ ResponderSessao(r, 201, Len(contas) + 1)
    /\ UNCHANGED expirados

FalharCadastro(r) ==
    /\ Chegou(r, "cadastro")
    /\ \/ /\ Ocupado(pedido[r].dado[1], 0)
          /\ Responder(r, 409)
          /\ UNCHANGED contas
       \/ /\ "banco" \in FalhasDoServidor
          /\ Responder(r, 500)
          /\ UNCHANGED contas
       \/ /\ "commit" \in FalhasDoServidor
          /\ ~Ocupado(pedido[r].dado[1], 0)
                /\ contas' = ComConta(r)
          /\ Responder(r, 500)
    /\ UNCHANGED <<emitidos, expirados>>

(* login: porEmail finds the account under lower(email), then the password *)
(* is compared with the hash just read.                                    *)
Confere(r, c) == /\ Minusculo[contas[c].email] = Minusculo[pedido[r].dado[1]]
                 /\ Senha(c) = pedido[r].dado[2]

Entrar(r) ==
    /\ Chegou(r, "login")
    /\ \E c \in DOMAIN contas : Confere(r, c) /\ ResponderSessao(r, 200, c)
    /\ UNCHANGED <<contas, expirados>>

(* Any error of porEmail is answered as a wrong password.                  *)
FalharLogin(r) ==
    /\ Chegou(r, "login")
    /\ (\E c \in DOMAIN contas : Confere(r, c)) => "banco" \in FalhasDoServidor
    /\ Responder(r, 401)
    /\ UNCHANGED <<contas, emitidos, expirados>>

-----------------------------------------------------------------------------
(* authn.Middleware, before every handler below.  The account of a request *)
(* is the one its token names.                                             *)
Protegidos == {"eu", "perfil", "senha", "dados"}

Barrar(r) ==
    /\ pedido[r].op \in Protegidos
    /\ pedido[r].fase = "ida"
    /\ ~Vivo(pedido[r].token)
    /\ Responder(r, 401)
    /\ UNCHANGED <<contas, emitidos, expirados>>

Admitido(r, op) == Chegou(r, op) /\ Vivo(pedido[r].token)

(* Mutant: the claims are kept beside the verifier, for all requests.      *)
ContaDoUltimo(r) == Last(emitidos)

Conta(r) == Dono(pedido[r].token)

(* eu: any error of porID is a 404.                                        *)
Eu(r) ==
    /\ Admitido(r, "eu")
    /\ ResponderConta(r, 200, Conta(r))
    /\ UNCHANGED <<contas, emitidos, expirados>>

FalharEu(r) ==
    /\ Admitido(r, "eu")
    /\ "banco" \in FalhasDoServidor
    /\ Responder(r, 404)
    /\ UNCHANGED <<contas, emitidos, expirados>>

(* atualizarPerfil; of name, OAB and e-mail, only the e-mail is looked up. *)
ComEmail(r) == [contas EXCEPT ![Conta(r)].email = pedido[r].dado[1]]

AtualizarPerfil(r) ==
    /\ Admitido(r, "perfil")
    /\ ~Ocupado(pedido[r].dado[1], Conta(r))
    /\ contas' = ComEmail(r)
    /\ ResponderConta(r, 200, Conta(r))
    /\ UNCHANGED <<emitidos, expirados>>

FalharPerfil(r) ==
    /\ Admitido(r, "perfil")
    /\ \/ /\ Ocupado(pedido[r].dado[1], Conta(r))
          /\ Responder(r, 409)
          /\ UNCHANGED contas
       \/ /\ "banco" \in FalhasDoServidor
          /\ Responder(r, 500)
          /\ UNCHANGED contas
       \/ /\ "commit" \in FalhasDoServidor
          /\ ~Ocupado(pedido[r].dado[1], Conta(r))
          /\ contas' = ComEmail(r)
          /\ Responder(r, 500)
    /\ UNCHANGED <<emitidos, expirados>>

(* trocarSenha, first half: read the hash, compare with senha_atual.       *)
(* desde notes which password the column held then.                        *)
Comparada(r) == [pedido EXCEPT ![r].fase = "trocar",
                               ![r].desde = Len(contas[Conta(r)].senhas)]

(* Mutant: the token alone is enough.                                      *)
CompararNada(r) ==
    /\ Admitido(r, "senha")
    /\ pedido' = Comparada(r)
    /\ UNCHANGED <<contas, emitidos, expirados>>

CompararSenha(r) ==
    /\ Admitido(r, "senha")
    /\ pedido[r].dado[1] = Senha(Conta(r))
    /\ pedido' = Comparada(r)
    /\ UNCHANGED <<contas, emitidos, expirados>>

(* Mutant: a wrong senha_atual is answered as a wrong password of login.   *)
RecusarComoLogin(r) ==
    /\ Admitido(r, "senha")
    /\ \/ pedido[r].dado[1] # Senha(Conta(r)) /\ Responder(r, 401)
       \/ "banco" \in FalhasDoServidor /\ Responder(r, 500)
    /\ UNCHANGED <<contas, emitidos, expirados>>

RecusarSenha(r) ==
    /\ Admitido(r, "senha")
    /\ \/ pedido[r].dado[1] # Senha(Conta(r)) /\ Responder(r, 400)
       \/ "banco" \in FalhasDoServidor /\ Responder(r, 500)
    /\ UNCHANGED <<contas, emitidos, expirados>>

(* Second half: the UPDATE looks at the id alone.                          *)
ComSenha(r) == [contas EXCEPT ![Conta(r)].senhas = Append(@, pedido[r].dado[2])]

GravarSenha(r) ==
    /\ pedido[r].fase = "trocar"
    /\ contas' = ComSenha(r)
    /\ Responder(r, 204)
    /\ UNCHANGED <<emitidos, expirados>>

FalharSenha(r) ==
    /\ pedido[r].fase = "trocar"
    /\ \/ "banco" \in FalhasDoServidor /\ UNCHANGED contas
       \/ /\ "commit" \in FalhasDoServidor
                /\ contas' = ComSenha(r)
    /\ Responder(r, 500)
    /\ UNCHANGED <<emitidos, expirados>>

(* Any other protected request, of this service or another, and whatever   *)
(* its answer: past the middleware it is no 401.                           *)
Dados(r) ==
    /\ Admitido(r, "dados")
    /\ Responder(r, 200)
    /\ UNCHANGED <<contas, emitidos, expirados>>

-----------------------------------------------------------------------------
(* PATCH /retencao, by whoever has a live token of c: no page asks for it. *)

(* Mutant: the limit is off by one.                                        *)
PrazoQuaseValido(dias) == dias >= 29 /\ dias <= 3650

PrazoValido(dias) == dias >= 30 /\ dias <= 3650

AjustarRetencao(c, dias) ==
    /\ \E t \in DOMAIN emitidos : Vivo(t) /\ Dono(t) = c
    /\ PrazoValido(dias)
    /\ contas' = [contas EXCEPT ![c].retencao = dias]
    /\ UNCHANGED <<emitidos, expirados, pedido>>

Expirar(t) ==
    /\ Vivo(t)
    /\ expirados' = expirados \cup {t}
    /\ UNCHANGED <<contas, emitidos, pedido>>

(* The request or its answer is lost on the way: the client sees a failure *)
(* of the network or of the gateway.                                       *)
PerderNaRede(r) ==
    /\ "rede" \in FalhasDoServidor
    /\ pedido[r].fase \in {"ida", "volta"}
    /\ pedido' = [pedido EXCEPT ![r].fase = "volta",
                                ![r].resp = [SemResposta EXCEPT !.status = 502]]
    /\ UNCHANGED <<contas, emitidos, expirados>>

Tratar(r) == \/ Cadastrar(r)
             \/ FalharCadastro(r)
             \/ Entrar(r)
             \/ FalharLogin(r)
             \/ Barrar(r)
             \/ Eu(r)
             \/ FalharEu(r)
             \/ AtualizarPerfil(r)
             \/ FalharPerfil(r)
             \/ CompararSenha(r)
             \/ RecusarSenha(r)
             \/ GravarSenha(r)
             \/ FalharSenha(r)
             \/ Dados(r)
             \/ PerderNaRede(r)

ServidorNext == \/ \E r \in Pedidos : Tratar(r)
                \/ \E c \in DOMAIN contas, dias \in Prazos : AjustarRetencao(c, dias)
                \/ \E t \in DOMAIN emitidos : Expirar(t)
=============================================================================
