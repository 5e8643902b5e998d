------------------------------ MODULE Sessoes ------------------------------
(***************************************************************************)
(* The session of a lawyer, from the browser to the server: the tabs of    *)
(* one browser (apps/web) in front of auth-service (Contas).  The tabs     *)
(* share the token in localStorage; each has its own React state, and none *)
(* listens to what another does.  Answers arrive in any order.             *)
(***************************************************************************)
EXTENDS Contas

CONSTANT Formularios   \* what may be typed: pairs of an operation and its data

(* A form the handler's first checks refuse changes nothing and is not one *)
(* of these: an account and a profile have an e-mail, and a password to be *)
(* stored is long enough.                                                  *)
ASSUME SessoesAssumption ==
    /\ Formularios \subseteq Ops \X DadosPossiveis
    /\ \A f \in Formularios :
           /\ f[1] \in {"cadastro", "perfil"} => f[2][1] \in Emails
           /\ f[1] \in {"cadastro", "senha"} => f[2][2] \in Senhas

VARIABLES token,        \* localStorage "meirinho.token"; 0: none
          tenant,       \* tenant[a]: the account tab a shows; 0: the login page
          carregando    \* tabs that wait for /auth/eu before showing anything

abaVars == <<token, tenant, carregando>>
vars == <<contasVars, abaVars>>

Abas == Clientes

TypeOK == /\ ContasTypeOK
          /\ token \in {0} \cup Tokens
          /\ tenant \in [Abas -> {0} \cup Ids]
          /\ carregando \in SUBSET Abas

Init == /\ ContasInit
        /\ token = 0
        /\ tenant = [a \in Abas |-> 0]
        /\ carregando = {}

-----------------------------------------------------------------------------
(* What a tab sends.                                                       *)
Espera(a, op) == \E r \in Pedidos : pedido[r].op = op /\ pedido[r].de = a

Enviar(r, op, a, dado) ==
    /\ pedido[r] = Vago
    /\ pedido' = Enviado(r, op, a, token, dado)

EmCurso(ops) == Cardinality({r \in Pedidos : pedido[r].op \in ops})

(* The bounds: a request is sent only if what it may create still fits.    *)
CabeConta == Len(contas) + EmCurso({"cadastro"}) < MaxContas
CabeToken == Len(emitidos) + EmCurso({"cadastro", "login"}) < MaxTokens
CabeSenha == \A c \in DOMAIN contas :
                 Len(contas[c].senhas) + EmCurso({"senha"}) < MaxTrocas

(* The requests of a, once its page is gone: the server may still carry    *)
(* out those that write; of the others nothing is left.                    *)
Orfaos(a) ==
    [r \in Pedidos |->
        IF pedido[r].de # a THEN pedido[r]
        ELSE IF pedido[r].op \in {"cadastro", "perfil", "senha"} /\ pedido[r].fase # "volta"
             THEN [pedido[r] EXCEPT !.de = "ninguem"]
             ELSE Vago]

(* The page is opened or reloaded: its React state is gone.  With a token, *)
(* it asks whose that is before showing anything.  A page that is still    *)
(* loading is not reloaded.                                                *)
Abrir(a) ==
    /\ a \notin carregando
    /\ tenant' = [tenant EXCEPT ![a] = 0]
    /\ IF token = 0
       THEN pedido' = Orfaos(a) /\ UNCHANGED carregando
       ELSE /\ \E r \in Pedidos :
                   /\ Orfaos(a)[r] = Vago
                   /\ pedido' = [Orfaos(a) EXCEPT
                                    ![r] = Enviado(r, "eu", a, token, <<"", "">>)[r]]
            /\ carregando' = carregando \cup {a}
    /\ UNCHANGED <<contas, emitidos, expirados, token>>

(* LoginPage: log in or register; the button waits for the answer.         *)
PedirEntrada(a) ==
    /\ a \notin carregando
    /\ tenant[a] = 0
    /\ ~Espera(a, "login") /\ ~Espera(a, "cadastro")
    /\ CabeToken
    /\ \E r \in Pedidos, f \in Formularios :
           /\ f[1] = "login" \/ (f[1] = "cadastro" /\ CabeConta)
           /\ Enviar(r, f[1], a, f[2])
    /\ UNCHANGED <<contas, emitidos, expirados, abaVars>>

(* ContaPage: save the profile, change the password.                       *)
EditarConta(a) ==
    /\ tenant[a] # 0
    /\ \E r \in Pedidos, f \in Formularios :
           /\ f[1] = "perfil" \/ (f[1] = "senha" /\ CabeSenha)
           /\ Enviar(r, f[1], a, f[2])
    /\ UNCHANGED <<contas, emitidos, expirados, abaVars>>

(* Layout: the count of unread alerts, every 15 s.                         *)
Consultar(a) ==
    /\ tenant[a] # 0
    /\ ~Espera(a, "dados")
    /\ \E r \in Pedidos : Enviar(r, "dados", a, <<"", "">>)
    /\ UNCHANGED <<contas, emitidos, expirados, abaVars>>

(* sair, from the menu.                                                    *)
Sair(a) ==
    /\ tenant[a] # 0
    /\ token' = 0
    /\ tenant' = [tenant EXCEPT ![a] = 0]
    /\ UNCHANGED <<contasVars, carregando>>

-----------------------------------------------------------------------------
(* What a tab does with an answer.                                         *)
Chega(r, ops) == /\ pedido[r].fase = "volta"
                 /\ pedido[r].op \in ops
                 /\ pedido[r].de # "ninguem"
                 /\ pedido' = [pedido EXCEPT ![r] = Vago]
                 /\ UNCHANGED <<contas, emitidos, expirados>>

Resp(r) == pedido[r].resp

(* The promise of eu settles: finally(() => setCarregando(false)).         *)
Carregada(r) == IF pedido[r].op = "eu" THEN carregando \ {pedido[r].de} ELSE carregando

(* Any 401, whatever the token it was sent with: the token of now goes,    *)
(* and the event takes this tab to the login page.                         *)
NaoAutorizado(r) ==
    /\ Chega(r, Ops)
    /\ Resp(r).status = 401
    /\ token' = 0
    /\ tenant' = [tenant EXCEPT ![pedido[r].de] = 0]
    /\ carregando' = Carregada(r)

(* eu: any other failure, of the network too, throws the token away.       *)
EuNaoRespondeu(r) ==
    /\ Chega(r, {"eu"})
    /\ Resp(r).status \notin {200, 401}
    /\ token' = 0
    /\ carregando' = Carregada(r)
    /\ UNCHANGED tenant

(* setTenant with the account of the answer: eu, and the profile saved.    *)
MostrarConta(r) ==
    /\ Chega(r, {"eu", "perfil"})
    /\ Resp(r).status = 200
    /\ tenant' = [tenant EXCEPT ![pedido[r].de] = Resp(r).conta]
    /\ carregando' = Carregada(r)
    /\ UNCHANGED token

(* entrar, cadastrar: gravarToken and setTenant.                           *)
AbrirSessao(r) ==
    /\ Chega(r, {"login", "cadastro"})
    /\ Resp(r).token # 0
    /\ token' = Resp(r).token
    /\ tenant' = [tenant EXCEPT ![pedido[r].de] = Resp(r).conta]
    /\ UNCHANGED carregando

(* Every other answer is shown, and changes none of this.                  *)
Mostrar(r) ==
    /\ Chega(r, Ops \ {"eu"})
    /\ Resp(r).status # 401
    /\ Resp(r).conta = 0
    /\ UNCHANGED abaVars

(* Nobody waits for the answer any more; and a handler whose client went   *)
(* away has its context cancelled, at whatever point.                      *)
Descartar(r) ==
    /\ pedido[r] # Vago
    /\ pedido[r].de = "ninguem"
    /\ pedido' = [pedido EXCEPT ![r] = Vago]
    /\ UNCHANGED <<contas, emitidos, expirados, abaVars>>

Receber(r) == \/ NaoAutorizado(r)
              \/ EuNaoRespondeu(r)
              \/ MostrarConta(r)
              \/ AbrirSessao(r)
              \/ Mostrar(r)
              \/ Descartar(r)

Next == \/ ServidorNext /\ UNCHANGED abaVars
        \/ \E a \in Abas : \/ Abrir(a)
                           \/ PedirEntrada(a)
                           \/ EditarConta(a)
                           \/ Consultar(a)
                           \/ Sair(a)
        \/ \E r \in Pedidos : Receber(r)

Spec == Init /\ [][Next]_vars

-----------------------------------------------------------------------------
(* The answer of r is taken in this step.                                  *)
Tomada(r) == pedido[r].fase = "volta" /\ pedido'[r] = Vago

(***************************************************************************)
(* "trocarSenha exige a senha atual": whoever writes a password over the   *)
(* one in place has shown one that was in place since it was compared.  It *)
(* need not be the one written over: two changes at once both compare with *)
(* the same password, and the second takes the first one back.             *)
(***************************************************************************)
TrocaDeQuemSabia ==
    [][\A c \in DOMAIN contas :
          contas'[c].senhas # contas[c].senhas =>
              \E r \in Pedidos :
                  /\ pedido[r].fase = "trocar" /\ pedido'[r].fase = "volta"
                  /\ Conta(r) = c
                  /\ \E i \in pedido[r].desde .. Len(contas[c].senhas) :
                         contas[c].senhas[i] = pedido[r].dado[1]]_vars

(***************************************************************************)
(* A session that is alive ends without a log out only when one of three   *)
(* answers arrives.  A 401 to a request whose own token was dead, and so   *)
(* is not the one in place.  A 401 to a log in, of any tab and whatever    *)
(* the token in place: a wrong password, but also a database that failed   *)
(* while it looked up the account of the right one.  Or any failure of     *)
(* /auth/eu but a 401, of the database or on the way, as a page loads.     *)
(* So nothing that a tab asks with the living token once it has loaded,    *)
(* answered or failed, ends the session; nor does a change of password.    *)
(***************************************************************************)
SessaoViveAteQue ==
    [][Vivo(token) /\ token' = 0 =>
          \/ \E a \in Abas : tenant[a] # 0 /\ tenant'[a] = 0 /\ UNCHANGED pedido
          \/ \E r \in Pedidos :
                 /\ Tomada(r)
                 /\ \/ /\ Resp(r).status = 401 /\ pedido[r].op # "login"
                       /\ ~Vivo(pedido[r].token)
                    \/ Resp(r).status = 401 /\ pedido[r].op = "login"
                    \/ Resp(r).status \notin {200, 401} /\ pedido[r].op = "eu"]_vars

(***************************************************************************)
(* A tab comes to show one account over the token of another only when     *)
(* another tab opens a session, or when it takes the answer of a request   *)
(* sent with a token that is no longer the one in place.                   *)
(***************************************************************************)
DeOutro(a) == tenant[a] # 0 /\ token # 0 /\ tenant[a] # Dono(token)

TelaDizQuemE ==
    [][\A a \in Abas :
          ~DeOutro(a) /\ DeOutro(a)' =>
              \E r \in Pedidos :
                  /\ Tomada(r)
                  /\ IF pedido[r].de = a THEN pedido[r].token # token
                     ELSE Resp(r).token # 0]_vars
=============================================================================
