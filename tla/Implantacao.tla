---------------------------- MODULE Implantacao ----------------------------
(***************************************************************************)
(* A deploy from the empty volume to the demonstration account: Postgres,  *)
(* cmd/migrate, the services and cmd/seed, with the crashes, outages and   *)
(* overlapping deploys of MaxQuedas and MaxImplantacoes.                   *)
(***************************************************************************)
EXTENDS Semeadura

vars == <<volume, schema, versoes, migrador, implantacoes, quedas, etapa,
          ambiente, bucket, escuta, semente, semeaduras, conta, carteira, acervo>>

TypeOK == MigracaoTypeOK /\ PartidaTypeOK /\ SemeaduraTypeOK

Init == MigracaoInit /\ PartidaInit /\ SemeaduraInit

(* The steps of the volume and the runners leave the rest alone.           *)
Banco == /\ \/ CriarPapel \/ CairNoInit
            \/ \E m \in Migradores :
                  \/ Migrar(m) \/ FalharMigracao(m)
                  \/ \E c \in Configuracoes : Implantar(m, c)
         /\ UNCHANGED <<partidaVars, semeaduraVars>>

Containers == /\ \/ \E m \in Migradores : Subir(m)
                 \/ \E s \in Servicos : Avancar(s) \/ Recomecar(s)
                 \/ \E f \in Fluxos : Escutar(f) \/ Ensurdecer(f)
              /\ UNCHANGED semeaduraVars

Next == Banco \/ Containers \/ Semear \/ AndarSemente \/ FalharSemente

Spec == Init /\ [][Next]_vars

(* What runs goes on running: a runner takes its next statement, compose   *)
(* creates the services when it is done, and a service goes on to its next *)
(* dependency when the one it waits for answers.  No deploy and no seed is *)
(* promised.                                                               *)
SpecJusta ==
    /\ Spec
    /\ WF_vars(CriarPapel /\ UNCHANGED <<partidaVars, semeaduraVars>>)
    /\ \A m \in Migradores :
           /\ WF_vars(Migrar(m) /\ UNCHANGED <<partidaVars, semeaduraVars>>)
           /\ WF_vars(Subir(m) /\ UNCHANGED semeaduraVars)
    /\ \A s \in Servicos : WF_vars(Avancar(s) /\ UNCHANGED semeaduraVars)
    /\ \A f \in Fluxos : WF_vars(Escutar(f) /\ UNCHANGED semeaduraVars)

-----------------------------------------------------------------------------
(***************************************************************************)
(* Whatever runners overlapped and died, a file's SQL was committed once   *)
(* if its row is there and never if not, and the files applied are the     *)
(* first ones.  A service that is up finds the whole schema; hearing and   *)
(* transcription find the bucket.                                          *)
(***************************************************************************)
EsquemaEmDia ==
    /\ \A a \in ToSet(Arquivos) : schema[a] = IF a \in versoes THEN 1 ELSE 0
    /\ \A i \in DOMAIN Arquivos : Arquivos[i] \in versoes =>
           \A j \in 1 .. i : Arquivos[j] \in versoes
    /\ \A s \in Servicos : NoAr(s) =>
           /\ versoes = ToSet(Arquivos)
           /\ "bucket" \in ToSet(Espera[s]) => bucket

(* What a step may do to the passwords, for SenhasDoVolume.                *)
MudancaDeSenha ==
    /\ volume'.papel # volume.papel =>
           IF volume.papel = SemPapel THEN volume.fase = "initdb"
           ELSE versoes = ToSet(Arquivos)
    /\ volume'.dono # volume.dono /\ volume.fase = "pronto" =>
           \E m \in Migradores : /\ migrador[m].passo = "trocar"
                                 /\ Env(m).dono = volume'.dono
                                 /\ Env(m).dono # SenhaPadraoDono

(***************************************************************************)
(* meirinho_app is born with the volume or never: a volume that lost       *)
(* init.sh has no other way to get it, the runner's CREATE ROLE being      *)
(* reached only where the role exists.  The owner's password changes only  *)
(* by a runner that found the default one, and the role's only to the      *)
(* configuration of a runner that applied everything.                      *)
(***************************************************************************)
SenhasDoVolume == [][MudancaDeSenha]_vars

(***************************************************************************)
(* Runners that race for the files do not stop each other for good: where  *)
(* the role exists, the one that loses a file ends, and another applies    *)
(* them all, unless something fails.                                       *)
(***************************************************************************)
CorridaTemVencedor ==
    (volume.papel # SemPapel /\ \E m \in Migradores : migrador[m].passo = "tabela")
        ~> (versoes = ToSet(Arquivos) \/ quedas > 0)

(***************************************************************************)
(* Every service whose password is from some time on the role's comes up   *)
(* and stays, however often it fell on the way; each consumer of           *)
(* notification-service reads or has given up for good.                    *)
(***************************************************************************)
TodoServicoSobe ==
    \A s \in Servicos :
        <>[](ambiente[s] # "" /\ ambiente[s] = volume.papel) =>
            <>[](/\ NoAr(s)
                 /\ s = "notification-service" =>
                        \A f \in Fluxos : escuta[f] # "parada")

AlguemChega == CorridaTemVencedor /\ TodoServicoSobe

(***************************************************************************)
(* The seed may be run again and again: no demonstration hearing is there  *)
(* twice, and what is there is the beginning of its list, after all of its *)
(* processes.                                                              *)
(***************************************************************************)
SementeUmaVez ==
    /\ acervo = [i \in 1 .. Len(acervo) |-> i]
    /\ acervo # << >> => conta /\ carteira = 1 .. Processos
=============================================================================
