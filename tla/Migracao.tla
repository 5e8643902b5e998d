------------------------------ MODULE Migracao ------------------------------
(***************************************************************************)
(* The Postgres volume and cmd/migrate.  The volume keeps the passwords of *)
(* its first start; the migration runner enters as the owner, applies the  *)
(* files once each and in order, and then gives meirinho_app the password  *)
(* configured.  Several runners may work at once: overlapping deploys.     *)
(*                                                                         *)
(* A statement is atomic, and so is the transaction of one file.  A failed *)
(* step ends the runner: it is never restarted.                            *)
(***************************************************************************)
EXTENDS Integers, FiniteSets, SequencesExt

CONSTANTS Migradores,     \* containers of cmd/migrate
          Configuracoes,  \* the .env of a deploy: [dono, app], two passwords
          SenhaPadraoDono,
          Arquivos,       \* migrations/*.sql, in the order of their names
          PrecisaDoPapel, \* those that name meirinho_app
          MaxImplantacoes,
          MaxQuedas

ASSUME MigracaoAssumption ==
    /\ Configuracoes \subseteq [dono : STRING, app : STRING \ {""}]
    /\ Arquivos \in Seq(STRING) /\ IsInjective(Arquivos)
    /\ PrecisaDoPapel \subseteq ToSet(Arquivos) /\ PrecisaDoPapel # {}
    /\ {MaxImplantacoes, MaxQuedas} \subseteq Nat

VARIABLES volume,       \* pgdata: owner's and meirinho_app's password, and
                        \* the one init.sh will give to meirinho_app
          schema,       \* schema[a]: times the SQL of file a was committed
          versoes,      \* the rows of schema_migrations
          migrador,     \* migrador[m]: where the runner is, its environment
          implantacoes, \* deploys so far
          quedas        \* crashes and outages so far

volumeVars == <<volume, schema, versoes>>
migracaoVars == <<volume, schema, versoes, migrador, implantacoes, quedas>>

Donos == {c.dono : c \in Configuracoes} \cup {SenhaPadraoDono}
Apps == {c.app : c \in Configuracoes}
SemPapel == ""          \* the role meirinho_app does not exist

SemAmbiente == [dono |-> "", app |-> ""]
Parado == [passo |-> "parado", n |-> 1, env |-> SemAmbiente]

Passos == {"conectar", "padrao", "trocar", "reconectar", "tabela",
           "checar", "aplicar", "papel", "ok", "erro"}

MigracaoTypeOK ==
    /\ volume \in [fase : {"ausente", "initdb", "pronto"},
                   dono : Donos \cup {""}, papel : Apps \cup {SemPapel},
                   inicial : Apps \cup {""}]
    /\ schema \in [ToSet(Arquivos) -> Nat]
    /\ versoes \subseteq ToSet(Arquivos)
    /\ migrador \in [Migradores ->
           [passo : Passos, n : 1 .. Len(Arquivos) + 1, env : Configuracoes]
           \cup {Parado}]
    /\ implantacoes \in 0 .. MaxImplantacoes
    /\ quedas \in 0 .. MaxQuedas

(* No volume yet, or the one a deploy before these left, whose runner      *)
(* applied nothing: with the role, or without it.                          *)
Volumes == {[fase |-> "ausente", dono |-> "", papel |-> SemPapel, inicial |-> ""]}
           \cup [fase : {"pronto"}, dono : {SenhaPadraoDono},
                 papel : Apps \cup {SemPapel}, inicial : {""}]

MigracaoInit ==
    /\ volume \in Volumes
    /\ schema = [a \in ToSet(Arquivos) |-> 0]
    /\ versoes = {}
    /\ migrador = [m \in Migradores |-> Parado]
    /\ implantacoes = 0
    /\ quedas = 0

-----------------------------------------------------------------------------
(* A deploy, `docker compose up`: a runner with the configuration of the   *)
(* day.  The first one creates the volume, with the owner's password.      *)
Implantar(m, c) ==
    /\ migrador[m] = Parado
    /\ implantacoes < MaxImplantacoes
    /\ implantacoes' = implantacoes + 1
    /\ migrador' = [migrador EXCEPT ![m] =
                        [passo |-> "conectar", n |-> 1, env |-> c]]
    /\ volume' = IF volume.fase # "ausente" THEN volume
                 ELSE [fase |-> "initdb", dono |-> c.dono, papel |-> SemPapel,
                       inicial |-> c.app]
    /\ UNCHANGED <<schema, versoes, quedas>>

(* init.sh creates meirinho_app, on the creation of the volume only.       *)
CriarPapel ==
    /\ volume.fase = "initdb"
    /\ volume' = [volume EXCEPT !.fase = "pronto", !.papel = volume.inicial,
                                !.inicial = ""]
    /\ UNCHANGED <<schema, versoes, migrador, implantacoes, quedas>>

(* Postgres dies between initdb and init.sh.  It restarts, finds a         *)
(* database in the volume and never runs init.sh again.                    *)
CairNoInit ==
    /\ quedas < MaxQuedas
    /\ volume.fase = "initdb"
    /\ volume' = [volume EXCEPT !.fase = "pronto", !.inicial = ""]
    /\ quedas' = quedas + 1
    /\ UNCHANGED <<schema, versoes, migrador, implantacoes>>

-----------------------------------------------------------------------------
Env(m) == migrador[m].env
Arquivo(m) == Arquivos[migrador[m].n]

Em(m, passo) == migrador[m].passo = passo /\ volume.fase = "pronto"
Ir(m, passo) == migrador' = [migrador EXCEPT ![m].passo = passo]
SoOMigrador == UNCHANGED <<volume, schema, versoes, implantacoes, quedas>>

(* conectar: a refused password does not get better by waiting.  There is  *)
(* no default password to try when it is the configured one.               *)
Conectar(m) ==
    /\ Em(m, "conectar")
    /\ Ir(m, IF volume.dono = Env(m).dono THEN "tabela"
             ELSE IF Env(m).dono = SenhaPadraoDono THEN "erro"
             ELSE "padrao")
    /\ SoOMigrador

(* trocarSenhaPadraoDoDono: enters with the default password...            *)
EntrarComPadrao(m) ==
    /\ Em(m, "padrao")
    /\ Ir(m, IF volume.dono = SenhaPadraoDono THEN "trocar" ELSE "erro")
    /\ SoOMigrador

(* ...and sets the configured one, over the connection it already has.     *)
TrocarSenhaDoDono(m) ==
    /\ Em(m, "trocar")
    /\ volume' = [volume EXCEPT !.dono = Env(m).dono]
    /\ Ir(m, "reconectar")
    /\ UNCHANGED <<schema, versoes, implantacoes, quedas>>

Reconectar(m) ==
    /\ Em(m, "reconectar")
    /\ Ir(m, IF volume.dono = Env(m).dono THEN "tabela" ELSE "erro")
    /\ SoOMigrador

(* CREATE TABLE IF NOT EXISTS schema_migrations: an empty table is no row. *)
CriarTabela(m) ==
    /\ Em(m, "tabela")
    /\ Ir(m, "checar")
    /\ SoOMigrador

(* Migrar, one turn of the loop: is this file applied already?             *)
Checar(m) ==
    /\ Em(m, "checar")
    /\ IF migrador[m].n > Len(Arquivos) THEN Ir(m, "papel")
       ELSE IF Arquivo(m) \notin versoes THEN Ir(m, "aplicar")
       ELSE migrador' = [migrador EXCEPT ![m].n = @ + 1]
    /\ SoOMigrador

(* One transaction: the SQL of the file and its row, or nothing and the    *)
(* end of the runner.                                                      *)
Transacao(m, aceita) ==
    /\ Em(m, "aplicar")
    /\ IF aceita
       THEN /\ schema' = [schema EXCEPT ![Arquivo(m)] = @ + 1]
            /\ versoes' = versoes \cup {Arquivo(m)}
            /\ migrador' = [migrador EXCEPT ![m].passo = "checar", ![m].n = @ + 1]
       ELSE Ir(m, "erro") /\ UNCHANGED <<schema, versoes>>
    /\ UNCHANGED <<volume, implantacoes, quedas>>

TemPapel(m) == Arquivo(m) \in PrecisaDoPapel => volume.papel # SemPapel

(* Mutant: schema_migrations without its primary key.                      *)
AplicarSemChave(m) == Transacao(m, TemPapel(m))

(* Mutant: the GRANTs are skipped where the role is not there.             *)
AplicarSemPapel(m) == Transacao(m, Arquivo(m) \notin versoes)

(***************************************************************************)
(* Migrar, one file.  The GRANTs fail without the role; the row fails when *)
(* another runner committed it since the check, its primary key being the  *)
(* only thing between them.                                                *)
(***************************************************************************)
Aplicar(m) == Transacao(m, TemPapel(m) /\ Arquivo(m) \notin versoes)

(* sincronizarPapelApp: ALTER ROLE, or CREATE ROLE if it is not there.     *)
SincronizarPapel(m) ==
    /\ Em(m, "papel")
    /\ volume' = [volume EXCEPT !.papel = Env(m).app]
    /\ Ir(m, "ok")
    /\ UNCHANGED <<schema, versoes, implantacoes, quedas>>

(* A statement fails, the two minutes of the context pass, or the container*)
(* dies.  What was committed stays.                                        *)
FalharMigracao(m) ==
    /\ quedas < MaxQuedas
    /\ migrador[m].passo \notin {"parado", "ok", "erro"}
    /\ Ir(m, "erro")
    /\ quedas' = quedas + 1
    /\ UNCHANGED <<volume, schema, versoes, implantacoes>>

(* The deploy of a failed runner ends there.                               *)
Encerrar(m) ==
    /\ migrador[m].passo = "erro"
    /\ migrador' = [migrador EXCEPT ![m] = Parado]
    /\ SoOMigrador

Migrar(m) == \/ Conectar(m) \/ EntrarComPadrao(m) \/ TrocarSenhaDoDono(m)
             \/ Reconectar(m) \/ CriarTabela(m) \/ Checar(m) \/ Aplicar(m)
             \/ SincronizarPapel(m) \/ Encerrar(m)
=============================================================================
