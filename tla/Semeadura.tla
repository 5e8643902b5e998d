----------------------------- MODULE Semeadura -----------------------------
(***************************************************************************)
(* cmd/seed: the demonstration account, filled through the public API, one *)
(* request after another.  It may be run again and again, one run at a     *)
(* time.  A request that fails may have been served all the same: the      *)
(* client gives up after thirty seconds.                                   *)
(***************************************************************************)
EXTENDS Partida

CONSTANTS Processos,     \* how many processes it registers
          Audiencias,    \* how many hearings it sends
          MaxSemeaduras

ASSUME SemeaduraAssumption == {Processos, Audiencias, MaxSemeaduras} \subseteq Nat \ {0}

VARIABLES semente,       \* what this run of the seed does, and of which item
          semeaduras,    \* runs so far
          conta,         \* the demonstration account exists
          carteira,      \* its processes
          acervo         \* its hearings, in order of insertion

semeaduraVars == <<semente, semeaduras, conta, carteira, acervo>>
partidaEMigracaoVars == <<migracaoVars, partidaVars>>

PassosDaSemente == {"fora", "aguardar", "entrar", "processos", "listar", "audiencias"}
Fora == [passo |-> "fora", n |-> 1]

SemeaduraTypeOK ==
    /\ semente \in [passo : PassosDaSemente, n : Nat]
    /\ semeaduras \in 0 .. MaxSemeaduras
    /\ conta \in BOOLEAN
    /\ carteira \subseteq 1 .. Processos
    /\ acervo \in Seq(1 .. Audiencias)

SemeaduraInit ==
    /\ semente = Fora
    /\ semeaduras = 0
    /\ conta = FALSE
    /\ carteira = {}
    /\ acervo = << >>

-----------------------------------------------------------------------------
(* The service a request of each step is for.                              *)
Destino == ("entrar" :> "auth-service") @@ ("processos" :> "process-monitor-service")
           @@ ("listar" :> "hearing-service") @@ ("audiencias" :> "hearing-service")

(* A service outside the instance is taken for one that is up.             *)
Responde(s) == s \in Servicos => NoAr(s)

NoPasso(p) == semente.passo = p /\ Responde(Destino[p])

(* The gateway starts after the services are created, the seed after it.   *)
Semear ==
    /\ semente = Fora
    /\ semeaduras < MaxSemeaduras
    /\ \A s \in Servicos : etapa[s] > 0
    /\ semente' = [passo |-> "aguardar", n |-> 1]
    /\ semeaduras' = semeaduras + 1
    /\ UNCHANGED <<partidaEMigracaoVars, conta, carteira, acervo>>

(* aguardar: the gateway's /health says ok before the services are up, so  *)
(* a route of each of them is asked too.                                   *)
AguardarRotas ==
    /\ semente.passo = "aguardar"
    /\ \A s \in {"auth-service", "hearing-service", "process-monitor-service",
                 "notification-service"} : Responde(s)
    /\ semente' = [semente EXCEPT !.passo = "entrar"]
    /\ UNCHANGED <<partidaEMigracaoVars, semeaduras, conta, carteira, acervo>>

(* What the request of the step leaves on the server.                      *)
Servido ==
    /\ conta' = (conta \/ semente.passo = "entrar")
    /\ carteira' = IF semente.passo = "processos" THEN carteira \cup {semente.n}
                   ELSE carteira
    /\ acervo' = IF semente.passo = "audiencias" THEN Append(acervo, semente.n)
                 ELSE acervo

Depois(p, ultimo) ==
    semente' = IF semente.n < ultimo THEN [semente EXCEPT !.n = @ + 1]
               ELSE [passo |-> p, n |-> 1]

(* entrarOuCadastrar: log in, and on a 401 register the account.           *)
EntrarOuCadastrar ==
    /\ NoPasso("entrar")
    /\ Servido
    /\ Depois("processos", 1)
    /\ UNCHANGED <<partidaEMigracaoVars, semeaduras>>

(* One more process; the 409 of one that is there already is no error.     *)
CadastrarProcesso ==
    /\ NoPasso("processos")
    /\ Servido
    /\ Depois("listar", Processos)
    /\ UNCHANGED <<partidaEMigracaoVars, semeaduras>>

(* Mutant: the list is asked for and not looked at.                        *)
ListarSemOlhar ==
    /\ NoPasso("listar")
    /\ semente' = [passo |-> "audiencias", n |-> 1]
    /\ UNCHANGED <<partidaEMigracaoVars, semeaduras, conta, carteira, acervo>>

(* Hearings are sent to an account that has none, and to no other.         *)
ListarAudiencias ==
    /\ NoPasso("listar")
    /\ semente' = IF acervo = << >> THEN [passo |-> "audiencias", n |-> 1] ELSE Fora
    /\ UNCHANGED <<partidaEMigracaoVars, semeaduras, conta, carteira, acervo>>

EnviarAudio ==
    /\ NoPasso("audiencias")
    /\ Servido
    /\ Depois("fora", Audiencias)
    /\ UNCHANGED <<partidaEMigracaoVars, semeaduras>>

(* falhar: whatever goes wrong ends the run, and what it sent stays.  The  *)
(* request it was waiting for may have been served, if its service is up.  *)
FalharSemente ==
    /\ semente # Fora
    /\ semente' = Fora
    /\ \/ UNCHANGED <<conta, carteira, acervo>>
       \/ semente.passo \in DOMAIN Destino /\ NoPasso(semente.passo) /\ Servido
    /\ UNCHANGED <<partidaEMigracaoVars, semeaduras>>

AndarSemente == \/ AguardarRotas \/ EntrarOuCadastrar \/ CadastrarProcesso
                \/ ListarAudiencias \/ EnviarAudio
=============================================================================
