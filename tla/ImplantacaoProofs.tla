-------------------------- MODULE ImplantacaoProofs --------------------------
(***************************************************************************)
(* The deploy, for any number of runners, deploys, files and crashes: the  *)
(* schema a service finds, and how the passwords of the volume change.     *)
(***************************************************************************)
EXTENDS Implantacao, TLAPS

Estados == [passo : Passos \cup {"parado"}, n : 1 .. Len(Arquivos) + 1,
            env : Configuracoes \cup {SemAmbiente}]

(* What a runner in state x has behind it when the files vs are applied.   *)
Feito(x, vs) ==
    /\ x.passo # "parado" => x.env \in Configuracoes
    /\ \A i \in 1 .. x.n - 1 : Arquivos[i] \in vs
    /\ x.passo = "aplicar" => x.n <= Len(Arquivos)
    /\ x.passo \in {"papel", "ok"} => x.n = Len(Arquivos) + 1
    /\ x.passo \in {"padrao", "trocar"} => x.env.dono # SenhaPadraoDono

Corredores == /\ migrador \in [Migradores -> Estados]
              /\ \A m \in Migradores : Feito(migrador[m], versoes)

(* The role is there from the GRANTs on, and not before init.sh.           *)
Papel == /\ volume \in [fase : {"ausente", "initdb", "pronto"}, dono : Donos \cup {""},
                        papel : Apps \cup {SemPapel}, inicial : Apps \cup {""}]
         /\ volume.fase # "pronto" => volume.papel = SemPapel
         /\ versoes \cap PrecisaDoPapel # {} => volume.papel # SemPapel

UmaVez == /\ schema \in [ToSet(Arquivos) -> Nat]
          /\ versoes \subseteq ToSet(Arquivos)
          /\ \A a \in ToSet(Arquivos) : schema[a] = IF a \in versoes THEN 1 ELSE 0

EmOrdem == \A i \in DOMAIN Arquivos :
               Arquivos[i] \in versoes => \A j \in 1 .. i : Arquivos[j] \in versoes

(* A container is there only after a runner that came to the end, and a    *)
(* service past its bucket left it there.                                  *)
Depende == /\ etapa \in [Servicos -> Nat]
           /\ bucket \in BOOLEAN
           /\ \A s \in Servicos : etapa[s] > 0 => versoes = ToSet(Arquivos)
           /\ \A s \in Servicos : \A i \in DOMAIN Espera[s] :
                  i < etapa[s] /\ Espera[s][i] = "bucket" => bucket

IInv == Corredores /\ Papel /\ UmaVez /\ EmOrdem /\ Depende

-----------------------------------------------------------------------------
Dependencias == {"banco", "redis", "bucket", "grupo"}

LEMMA EsperaTipo == \A s \in Servicos : /\ Espera[s] \in Seq(Dependencias)
                                       /\ Len(Espera[s]) \in Nat
                                       /\ DOMAIN Espera[s] = 1 .. Len(Espera[s])
<1> DEFINE Listas == {Auth, Hearing, Transcription, Analysis, Classification, Monitor,
                      Notification}
<1>1. Listas \subseteq Seq(Dependencias)
  BY DEF Auth, Hearing, Transcription, Analysis, Classification, Monitor, Notification,
         Dependencias
<1>2. ASSUME NEW s \in Servicos PROVE Espera[s] \in Listas
  BY PartidaAssumption DEF Espera
<1> HIDE DEF Listas
<1> QED BY <1>1, <1>2

LEMMA ArquivosTipo ==
    /\ Len(Arquivos) \in Nat
    /\ DOMAIN Arquivos = 1 .. Len(Arquivos)
    /\ \A a : a \in ToSet(Arquivos) <=> \E i \in 1 .. Len(Arquivos) : Arquivos[i] = a
    /\ \A i, j \in 1 .. Len(Arquivos) : Arquivos[i] = Arquivos[j] => i = j
<1>1. Arquivos \in Seq(STRING) /\ IsInjective(Arquivos)
  BY MigracaoAssumption
<1>2. Len(Arquivos) \in Nat /\ DOMAIN Arquivos = 1 .. Len(Arquivos)
  BY <1>1
<1>3. \A a : a \in ToSet(Arquivos) <=> \E i \in DOMAIN Arquivos : Arquivos[i] = a
  BY DEF ToSet
<1>4. \A i, j \in DOMAIN Arquivos : Arquivos[i] = Arquivos[j] => i = j
  BY <1>1 DEF IsInjective
<1> QED BY <1>2, <1>3, <1>4

(* A runner changes and the files applied only grow: all runners keep what *)
(* they have behind them.                                                  *)
LEMMA UmCorredorMuda ==
    ASSUME Corredores, NEW m \in Migradores, NEW x \in Estados,
           migrador' = [migrador EXCEPT ![m] = x],
           versoes \subseteq versoes', Feito(x, versoes')
    PROVE  Corredores'
<1>1. migrador' \in [Migradores -> Estados]
  BY DEF Corredores
<1>2. ASSUME NEW k \in Migradores PROVE Feito(migrador'[k], versoes')
  <2>1. CASE k = m
    BY <2>1 DEF Corredores
  <2>2. CASE k # m
    BY <2>2 DEF Corredores, Feito
  <2> QED BY <2>1, <2>2
<1> QED BY <1>1, <1>2 DEF Corredores

(* A step of a runner that changes nothing but where it is.                *)
LEMMA SoUmCorredor ==
    ASSUME IInv, NEW m \in Migradores, NEW x \in Estados,
           migrador' = [migrador EXCEPT ![m] = x], Feito(x, versoes),
           UNCHANGED <<volume, schema, versoes, etapa, bucket>>
    PROVE  IInv'
<1>1. Corredores'
  BY UmCorredorMuda DEF IInv, Feito
<1> QED BY <1>1 DEF IInv, Papel, UmaVez, EmOrdem, Depende

LEMMA QuietoBasta == ASSUME IInv, UNCHANGED <<volume, schema, versoes, migrador, etapa, bucket>>
                     PROVE  IInv'
BY DEF IInv, Corredores, Papel, UmaVez, EmOrdem, Depende, Feito

LEMMA ParadoServe == /\ Parado \in Estados
                     /\ \A vs : Feito(Parado, vs)
<1>1. Parado.passo = "parado" /\ Parado.n = 1
  BY DEF Parado
<1>2. 1 \in 1 .. Len(Arquivos) + 1
  BY ArquivosTipo
<1>3. Parado \in Estados
  BY <1>2 DEF Estados, Parado
<1> QED BY <1>1, <1>3 DEF Feito

LEMMA VolumesServem ==
    \A v \in Volumes :
        /\ v \in [fase : {"ausente", "initdb", "pronto"}, dono : Donos \cup {""},
                  papel : Apps \cup {SemPapel}, inicial : Apps \cup {""}]
        /\ v.fase # "pronto" => v.papel = SemPapel
<1> DEFINE nenhum == [fase |-> "ausente", dono |-> "", papel |-> SemPapel, inicial |-> ""]
           velhos == [fase : {"pronto"}, dono : {SenhaPadraoDono},
                      papel : Apps \cup {SemPapel}, inicial : {""}]
<1>1. Volumes = {nenhum} \cup velhos
  BY DEF Volumes
<1>2. ASSUME NEW v \in velhos
      PROVE  /\ v \in [fase : {"ausente", "initdb", "pronto"}, dono : Donos \cup {""},
                       papel : Apps \cup {SemPapel}, inicial : Apps \cup {""}]
             /\ v.fase = "pronto"
  BY DEF Donos
<1>3. /\ nenhum \in [fase : {"ausente", "initdb", "pronto"}, dono : Donos \cup {""},
                     papel : Apps \cup {SemPapel}, inicial : Apps \cup {""}]
      /\ nenhum.papel = SemPapel
  OBVIOUS
<1> HIDE DEF nenhum, velhos
<1> QED BY <1>1, <1>2, <1>3

LEMMA Inicio == Init => IInv
<1> SUFFICES ASSUME Init PROVE IInv
  OBVIOUS
<1>1. /\ migrador = [m \in Migradores |-> Parado]
      /\ volume \in Volumes
      /\ versoes = {} /\ schema = [a \in ToSet(Arquivos) |-> 0]
      /\ etapa = [s \in Servicos |-> 0] /\ bucket = FALSE
  BY DEF Init, MigracaoInit, PartidaInit
<1> HIDE DEF Init
<1>2. Corredores
  BY <1>1, ParadoServe DEF Corredores
<1>3. Papel
  BY <1>1, VolumesServem DEF Papel
<1>4. UmaVez /\ EmOrdem
  BY <1>1 DEF UmaVez, EmOrdem
<1>5. Depende
  <2>1. ASSUME NEW s \in Servicos, NEW i \in DOMAIN Espera[s]
        PROVE  ~(i < etapa[s])
    <3>1. i \in 1 .. Len(Espera[s]) /\ Len(Espera[s]) \in Nat /\ etapa[s] = 0
      BY <1>1, EsperaTipo
    <3> QED BY <3>1
  <2>2. etapa \in [Servicos -> Nat] /\ \A s \in Servicos : ~(etapa[s] > 0)
    BY <1>1
  <2>3. bucket \in BOOLEAN
    BY <1>1
  <2> QED BY <2>1, <2>2, <2>3 DEF Depende
<1> QED BY <1>2, <1>3, <1>4, <1>5 DEF IInv

-----------------------------------------------------------------------------
(* Where Ir takes a runner, as one value of its state.                     *)
Levado(m, passo) == [passo |-> passo, n |-> migrador[m].n, env |-> migrador[m].env]

LEMMA IrLeva ==
    ASSUME Corredores, NEW m \in Migradores, NEW p \in Passos, Ir(m, p)
    PROVE  /\ Levado(m, p) \in Estados
           /\ migrador' = [migrador EXCEPT ![m] = Levado(m, p)]
<1>1. migrador[m] \in Estados
  BY DEF Corredores
<1>2. [migrador[m] EXCEPT !.passo = p] = Levado(m, p)
  BY <1>1 DEF Estados, Levado
<1>3. Levado(m, p) \in Estados
  BY <1>1 DEF Estados, Levado
<1>4. migrador' = [migrador EXCEPT ![m] = [migrador[m] EXCEPT !.passo = p]]
  BY DEF Ir
<1> QED BY <1>2, <1>3, <1>4

(* A runner that is not idle, on its way to a step that asks nothing of    *)
(* it, or to one whose demand it meets.                                    *)
LEMMA Segue ==
    ASSUME Corredores, NEW m \in Migradores, NEW p \in Passos, NEW vs,
           versoes \subseteq vs, migrador[m].passo # "parado",
           p = "aplicar" => migrador[m].n <= Len(Arquivos),
           p \in {"papel", "ok"} => migrador[m].n = Len(Arquivos) + 1,
           p \in {"padrao", "trocar"} => Env(m).dono # SenhaPadraoDono
    PROVE  Feito(Levado(m, p), vs)
BY DEF Corredores, Feito, Levado, Env

(* A runner that goes to step p and changes nothing else.                  *)
LEMMA IrBasta ==
    ASSUME IInv, NEW m \in Migradores, NEW p \in Passos, Ir(m, p),
           migrador[m].passo # "parado",
           p = "aplicar" => migrador[m].n <= Len(Arquivos),
           p \in {"papel", "ok"} => migrador[m].n = Len(Arquivos) + 1,
           p \in {"padrao", "trocar"} => Env(m).dono # SenhaPadraoDono,
           UNCHANGED <<volume, schema, versoes, etapa, bucket>>
    PROVE  IInv'
<1>1. Corredores
  BY DEF IInv
<1>2. Feito(Levado(m, p), versoes)
  BY <1>1, Segue
<1>3. Levado(m, p) \in Estados /\ migrador' = [migrador EXCEPT ![m] = Levado(m, p)]
  BY <1>1, IrLeva
<1> QED BY <1>2, <1>3, SoUmCorredor

LEMMA PassosDeConectar ==
    ASSUME IInv, NEW m \in Migradores, UNCHANGED <<partidaVars, semeaduraVars>>,
           \/ Conectar(m) \/ EntrarComPadrao(m) \/ Reconectar(m) \/ CriarTabela(m)
           \/ FalharMigracao(m)
    PROVE  IInv'
<1> USE DEF Passos
<1>0. UNCHANGED <<etapa, bucket>>
  BY DEF partidaVars
<1>1. CASE Conectar(m)
  <2>1. CASE volume.dono = Env(m).dono
    BY <1>0, <1>1, <2>1, IrBasta DEF Conectar, Em, SoOMigrador
  <2>2. CASE volume.dono # Env(m).dono /\ Env(m).dono = SenhaPadraoDono
    BY <1>0, <1>1, <2>2, IrBasta DEF Conectar, Em, SoOMigrador
  <2>3. CASE volume.dono # Env(m).dono /\ Env(m).dono # SenhaPadraoDono
    BY <1>0, <1>1, <2>3, IrBasta DEF Conectar, Em, SoOMigrador
  <2> QED BY <2>1, <2>2, <2>3
<1>2. CASE EntrarComPadrao(m)
  <2>1. Env(m).dono # SenhaPadraoDono
    BY <1>2 DEF EntrarComPadrao, Em, IInv, Corredores, Feito, Env
  <2> QED BY <1>0, <1>2, <2>1, IrBasta DEF EntrarComPadrao, Em, SoOMigrador
<1>3. CASE Reconectar(m)
  BY <1>0, <1>3, IrBasta DEF Reconectar, Em, SoOMigrador
<1>4. CASE CriarTabela(m)
  BY <1>0, <1>4, IrBasta DEF CriarTabela, Em, SoOMigrador
<1>5. CASE FalharMigracao(m)
  BY <1>0, <1>5, IrBasta DEF FalharMigracao
<1> QED BY <1>1, <1>2, <1>3, <1>4, <1>5

LEMMA PassoDeChecar ==
    ASSUME IInv, NEW m \in Migradores, UNCHANGED <<partidaVars, semeaduraVars>>, Checar(m)
    PROVE  IInv'
<1>0. UNCHANGED <<volume, schema, versoes, etapa, bucket>> /\ migrador[m].passo = "checar"
  BY DEF partidaVars, Checar, SoOMigrador, Em
<1>1. migrador[m] \in Estados /\ Feito(migrador[m], versoes)
  BY DEF IInv, Corredores
<1>n. migrador[m].n \in 1 .. Len(Arquivos) + 1 /\ Len(Arquivos) \in Nat
  BY <1>1, ArquivosTipo DEF Estados
<1>2. CASE migrador[m].n > Len(Arquivos)
  <2>1. Ir(m, "papel")
    BY <1>2 DEF Checar
  <2>2. migrador[m].n = Len(Arquivos) + 1
    BY <1>n, <1>2
  <2> QED BY <1>0, <2>1, <2>2, IrBasta DEF Passos
<1>3. CASE migrador[m].n <= Len(Arquivos) /\ Arquivo(m) \notin versoes
  <2>1. ~(migrador[m].n > Len(Arquivos))
    BY <1>3, <1>n
  <2>2. Ir(m, "aplicar")
    BY <1>3, <2>1 DEF Checar
  <2> QED BY <1>0, <1>3, <2>2, IrBasta DEF Passos
<1>4. CASE migrador[m].n <= Len(Arquivos) /\ Arquivo(m) \in versoes
  <2> DEFINE x == [passo |-> "checar", n |-> migrador[m].n + 1, env |-> migrador[m].env]
  <2>1. ~(migrador[m].n > Len(Arquivos))
    BY <1>4, <1>n
  <2>2. migrador' = [migrador EXCEPT ![m].n = @ + 1]
    BY <1>4, <2>1 DEF Checar
  <2>3. migrador' = [migrador EXCEPT ![m] = x]
    <3>1. [migrador[m] EXCEPT !.n = @ + 1] = x
      BY <1>0, <1>1 DEF Estados
    <3>2. migrador' = [migrador EXCEPT ![m] = [migrador[m] EXCEPT !.n = @ + 1]]
      BY <2>2
    <3> HIDE DEF x
    <3> QED BY <3>1, <3>2
  <2>4. x \in Estados
    BY <1>1, <1>n, <1>4 DEF Estados, Passos
  <2>5. \A i \in 1 .. migrador[m].n : Arquivos[i] \in versoes
    BY <1>n, <1>1, <1>4 DEF Feito, Arquivo
  <2>6. Feito(x, versoes)
    <3>1. x.n - 1 = migrador[m].n
      BY <1>n
    <3> QED BY <1>0, <1>1, <2>5, <3>1 DEF Feito
  <2> HIDE DEF x
  <2> QED BY <1>0, <2>3, <2>4, <2>6, SoUmCorredor
<1> QED BY <1>n, <1>2, <1>3, <1>4

(* Two files are one only if they are the same place of the list.          *)
LEMMA PassoDeAplicar ==
    ASSUME IInv, NEW m \in Migradores, UNCHANGED <<partidaVars, semeaduraVars>>, Aplicar(m)
    PROVE  IInv'
<1> DEFINE a == Arquivo(m)
           x == [passo |-> "checar", n |-> migrador[m].n + 1, env |-> migrador[m].env]
<1>0. UNCHANGED <<volume, etapa, bucket>> /\ migrador[m].passo = "aplicar"
  BY DEF partidaVars, Aplicar, Transacao, Em
<1>1. migrador[m] \in Estados /\ Feito(migrador[m], versoes)
  BY DEF IInv, Corredores
<1>n. migrador[m].n \in 1 .. Len(Arquivos) /\ Len(Arquivos) \in Nat
  BY <1>0, <1>1, ArquivosTipo DEF Estados, Feito
<1>a. a \in ToSet(Arquivos) /\ a = Arquivos[migrador[m].n]
  BY <1>n, ArquivosTipo DEF Arquivo
<1>2. CASE ~(TemPapel(m) /\ a \notin versoes)
  <2>1. Ir(m, "erro") /\ UNCHANGED <<schema, versoes>>
    BY <1>2 DEF Aplicar, Transacao
  <2> QED BY <1>0, <2>1, IrBasta DEF Passos
<1>3. CASE TemPapel(m) /\ a \notin versoes
  <2>1. /\ schema' = [schema EXCEPT ![a] = @ + 1]
        /\ versoes' = versoes \cup {a}
        /\ migrador' = [migrador EXCEPT ![m].passo = "checar", ![m].n = @ + 1]
    BY <1>3 DEF Aplicar, Transacao
  <2> HIDE DEF a
  <2>2. migrador' = [migrador EXCEPT ![m] = x]
    BY <1>1, <2>1 DEF IInv, Corredores, Estados
  <2>3. x \in Estados
    BY <1>1, <1>n DEF Estados, Passos
  <2>4. Feito(x, versoes')
    <3>1. x.n - 1 = migrador[m].n
      BY <1>n
    <3>2. \A i \in 1 .. migrador[m].n : Arquivos[i] \in versoes'
      BY <1>n, <1>1, <1>a, <2>1 DEF Feito
    <3> QED BY <1>0, <1>1, <3>1, <3>2 DEF Feito
  <2>5. Corredores'
    <3>1. Corredores /\ versoes \subseteq versoes'
      BY <2>1 DEF IInv
    <3> HIDE DEF x
    <3> QED BY <2>2, <2>3, <2>4, <3>1, UmCorredorMuda
  <2>6. Papel'
    BY <1>0, <1>3, <2>1 DEF IInv, Papel, TemPapel, a
  <2>7. UmaVez'
    <3>1. schema' \in [ToSet(Arquivos) -> Nat] /\ versoes' \subseteq ToSet(Arquivos)
      BY <1>a, <2>1 DEF IInv, UmaVez
    <3>2. ASSUME NEW b \in ToSet(Arquivos)
          PROVE  schema'[b] = IF b \in versoes' THEN 1 ELSE 0
      BY <1>3, <1>a, <2>1 DEF IInv, UmaVez
    <3> QED BY <3>1, <3>2 DEF UmaVez
  <2>8. EmOrdem'
    <3> SUFFICES ASSUME NEW i \in DOMAIN Arquivos, Arquivos[i] \in versoes',
                        NEW j \in 1 .. i
                 PROVE  Arquivos[j] \in versoes'
      BY DEF EmOrdem
    <3>1. CASE Arquivos[i] \in versoes
      BY <2>1, <3>1 DEF IInv, EmOrdem
    <3>2. CASE Arquivos[i] = a
      <4>1. i = migrador[m].n
        BY <1>n, <1>a, <3>2, ArquivosTipo
      <4>2. j = migrador[m].n \/ j \in 1 .. migrador[m].n - 1
        BY <1>n, <4>1
      <4> QED BY <1>1, <1>a, <2>1, <4>2 DEF Feito
    <3> QED BY <2>1, <3>1, <3>2
  <2>9. Depende'
    <3>1. \A s \in Servicos : ~(etapa[s] > 0)
      BY <1>3, <1>a DEF IInv, Depende
    <3> QED BY <1>0, <3>1 DEF IInv, Depende
  <2> QED BY <2>5, <2>6, <2>7, <2>8, <2>9 DEF IInv
<1> QED BY <1>2, <1>3

(* The passwords: the owner's, by a runner let in with the default one,    *)
(* and the role's, by one that applied everything.                         *)
LEMMA PassosDasSenhas ==
    ASSUME IInv, NEW m \in Migradores, UNCHANGED <<partidaVars, semeaduraVars>>,
           TrocarSenhaDoDono(m) \/ SincronizarPapel(m)
    PROVE  IInv'
<1>0. UNCHANGED <<schema, versoes, etapa, bucket>> /\ migrador[m].passo \in {"trocar", "papel"}
  BY DEF partidaVars, TrocarSenhaDoDono, SincronizarPapel, Em
<1>1. migrador[m] \in Estados /\ Feito(migrador[m], versoes) /\ Env(m) \in Configuracoes
  BY <1>0 DEF IInv, Corredores, Feito, Env
<1>2. Corredores
  BY DEF IInv
<1>3. CASE TrocarSenhaDoDono(m)
  <2>1. Corredores'
    BY <1>0, <1>2, <1>3, IrLeva, Segue, UmCorredorMuda DEF TrocarSenhaDoDono, Passos
  <2>2. Papel'
    <3>1. Env(m).dono \in Donos
      BY <1>1 DEF Donos
    <3>2. volume' = [volume EXCEPT !.dono = Env(m).dono]
      BY <1>3 DEF TrocarSenhaDoDono
    <3> QED BY <1>0, <3>1, <3>2 DEF IInv, Papel
  <2> QED BY <1>0, <2>1, <2>2 DEF IInv, UmaVez, EmOrdem, Depende
<1>4. CASE SincronizarPapel(m)
  <2>1. Corredores'
    <3>1. migrador[m].n = Len(Arquivos) + 1
      BY <1>1, <1>4 DEF SincronizarPapel, Em, Feito
    <3> QED BY <1>0, <1>2, <1>4, <3>1, IrLeva, Segue, UmCorredorMuda DEF SincronizarPapel, Passos
  <2>2. Papel'
    <3>1. Env(m).app \in Apps /\ Env(m).app # SemPapel
      BY <1>1, MigracaoAssumption DEF Apps, SemPapel
    <3>2. volume' = [volume EXCEPT !.papel = Env(m).app] /\ volume.fase = "pronto"
      BY <1>4 DEF SincronizarPapel, Em
    <3> QED BY <1>0, <3>1, <3>2 DEF IInv, Papel
  <2> QED BY <1>0, <2>1, <2>2 DEF IInv, UmaVez, EmOrdem, Depende
<1> QED BY <1>3, <1>4

LEMMA PassosDoVolume ==
    ASSUME IInv, UNCHANGED <<partidaVars, semeaduraVars>>, CriarPapel \/ CairNoInit
    PROVE  IInv'
<1>0. UNCHANGED <<schema, versoes, migrador, etapa, bucket>> /\ volume.fase = "initdb"
  BY DEF partidaVars, CriarPapel, CairNoInit
<1>1. volume.papel = SemPapel /\ versoes \cap PrecisaDoPapel = {}
  BY <1>0 DEF IInv, Papel
<1>2. Papel'
  BY <1>0, <1>1 DEF IInv, Papel, CriarPapel, CairNoInit, SemPapel
<1> QED BY <1>0, <1>2 DEF IInv, Corredores, Feito, UmaVez, EmOrdem, Depende

LEMMA PassosDaImplantacao ==
    ASSUME IInv, NEW m \in Migradores, UNCHANGED <<partidaVars, semeaduraVars>>,
           Encerrar(m) \/ \E c \in Configuracoes : Implantar(m, c)
    PROVE  IInv'
<1>0. UNCHANGED <<schema, versoes, etapa, bucket>>
  BY DEF partidaVars, Encerrar, SoOMigrador, Implantar
<1>1. CASE Encerrar(m)
  BY <1>0, <1>1, ParadoServe, SoUmCorredor DEF Encerrar, SoOMigrador
<1>2. CASE \E c \in Configuracoes : Implantar(m, c)
  <2>1. PICK c \in Configuracoes : Implantar(m, c)
    BY <1>2
  <2> DEFINE x == [passo |-> "conectar", n |-> 1, env |-> c]
  <2>2. x \in Estados
    <3>1. 1 \in 1 .. Len(Arquivos) + 1
      BY ArquivosTipo
    <3> QED BY <3>1 DEF Estados, Passos
  <2>3. Feito(x, versoes') /\ migrador' = [migrador EXCEPT ![m] = x]
    BY <2>1 DEF Implantar, Feito
  <2>4. Corredores'
    <3> HIDE DEF x
    <3> QED BY <1>0, <2>2, <2>3, UmCorredorMuda DEF IInv
  <2>5. Papel'
    <3>1. CASE volume.fase # "ausente"
      BY <1>0, <2>1, <3>1 DEF IInv, Papel, Implantar
    <3>2. CASE volume.fase = "ausente"
      <4>1. c.dono \in Donos /\ c.app \in Apps
        BY DEF Donos, Apps
      <4>2. volume' = [fase |-> "initdb", dono |-> c.dono, papel |-> SemPapel,
                       inicial |-> c.app]
        BY <2>1, <3>2 DEF Implantar
      <4>3. versoes' \cap PrecisaDoPapel = {}
        BY <1>0, <3>2 DEF IInv, Papel
      <4> QED BY <4>1, <4>2, <4>3 DEF Papel
    <3> QED BY <3>1, <3>2
  <2> QED BY <1>0, <2>4, <2>5 DEF IInv, UmaVez, EmOrdem, Depende
<1> QED BY <1>1, <1>2

(* A runner that ended well has applied every file.                        *)
LEMMA PassoDeSubir ==
    ASSUME IInv, NEW m \in Migradores, Subir(m)
    PROVE  IInv'
<1>0. /\ UNCHANGED <<volume, schema, versoes, bucket>>
      /\ migrador[m].passo = "ok" /\ migrador' = [migrador EXCEPT ![m] = Parado]
  BY DEF Subir
<1>1. migrador[m] \in Estados /\ Feito(migrador[m], versoes) /\ UmaVez
  BY DEF IInv, Corredores
<1>2. \A i \in 1 .. Len(Arquivos) : Arquivos[i] \in versoes
  BY <1>0, <1>1, ArquivosTipo DEF Feito
<1>3. versoes = ToSet(Arquivos)
  <2>1. versoes \subseteq ToSet(Arquivos)
    BY <1>1 DEF UmaVez
  <2>2. ASSUME NEW a \in ToSet(Arquivos) PROVE a \in versoes
    BY <1>2, ArquivosTipo
  <2> QED BY <2>1, <2>2
<1>4. Corredores'
  BY <1>0, ParadoServe, UmCorredorMuda DEF IInv
<1>5. \A s \in Servicos : etapa'[s] \in {1, etapa[s]}
  BY DEF Subir
<1>6. etapa' \in [Servicos -> Nat]
  BY <1>5 DEF Subir, IInv, Depende
<1>7. ASSUME NEW s \in Servicos, NEW i \in DOMAIN Espera[s], i < etapa'[s],
             Espera[s][i] = "bucket"
      PROVE  bucket
  <2>1. i \in Nat /\ i >= 1
    BY EsperaTipo
  <2>2. i < etapa[s]
    BY <1>5, <1>7, <2>1
  <2> QED BY <1>7, <2>2 DEF IInv, Depende
<1>8. Depende'
  BY <1>0, <1>3, <1>6, <1>7 DEF IInv, Depende
<1> QED BY <1>0, <1>4, <1>8 DEF IInv, Papel, UmaVez, EmOrdem

LEMMA PassoDeAvancar ==
    ASSUME IInv, NEW s \in Servicos, Avancar(s)
    PROVE  IInv'
<1>0. /\ UNCHANGED <<volume, schema, versoes, migrador>>
      /\ etapa' = [etapa EXCEPT ![s] = @ + 1] /\ etapa[s] \in DOMAIN Espera[s]
      /\ bucket' = GarantirBucket(s)
  BY DEF Avancar, migracaoVars
<1>1. etapa[s] \in Nat /\ etapa[s] >= 1 /\ Depende
  BY <1>0, EsperaTipo DEF IInv, Depende
<1>2. etapa' \in [Servicos -> Nat] /\ bucket' \in BOOLEAN
  BY <1>0, <1>1 DEF Depende, GarantirBucket
<1>3. ASSUME NEW r \in Servicos, etapa'[r] > 0 PROVE versoes' = ToSet(Arquivos)
  BY <1>0, <1>1 DEF Depende
<1>4. ASSUME NEW r \in Servicos, NEW i \in DOMAIN Espera[r], i < etapa'[r],
             Espera[r][i] = "bucket"
      PROVE  bucket'
  <2>1. i \in Nat
    BY EsperaTipo
  <2>2. CASE i < etapa[r]
    BY <1>0, <1>1, <1>4, <2>2 DEF Depende, GarantirBucket
  <2>3. CASE ~(i < etapa[r])
    <3>1. r = s /\ i = etapa[s]
      BY <1>0, <1>1, <1>4, <2>1, <2>3 DEF Depende
    <3> QED BY <1>0, <1>4, <3>1 DEF GarantirBucket
  <2> QED BY <2>2, <2>3
<1>5. Depende'
  BY <1>2, <1>3, <1>4 DEF Depende
<1> QED BY <1>0, <1>5 DEF IInv, Corredores, Feito, Papel, UmaVez, EmOrdem

LEMMA PassoDeRecomecar ==
    ASSUME IInv, NEW s \in Servicos, Recomecar(s)
    PROVE  IInv'
<1>0. /\ UNCHANGED <<volume, schema, versoes, migrador, bucket>>
      /\ etapa' = [etapa EXCEPT ![s] = 1] /\ etapa[s] > 1
  BY DEF Recomecar, volumeVars
<1>1. Depende
  BY DEF IInv
<1>2. etapa' \in [Servicos -> Nat]
  BY <1>0, <1>1 DEF Depende
<1>3. \A r \in Servicos : etapa'[r] <= etapa[r] /\ (etapa'[r] > 0 => etapa[r] > 0)
  BY <1>0, <1>1 DEF Depende
<1>4. ASSUME NEW r \in Servicos, NEW i \in DOMAIN Espera[r], i < etapa'[r],
             Espera[r][i] = "bucket"
      PROVE  bucket
  <2>1. i \in Nat /\ etapa[r] \in Nat /\ etapa'[r] \in Nat
    BY <1>1, <1>2, EsperaTipo DEF Depende
  <2>2. i < etapa[r]
    BY <1>3, <1>4, <2>1
  <2> QED BY <1>1, <1>4, <2>2 DEF Depende
<1>5. Depende'
  BY <1>0, <1>1, <1>2, <1>3, <1>4 DEF Depende
<1> QED BY <1>0, <1>5 DEF IInv, Corredores, Feito, Papel, UmaVez, EmOrdem

-----------------------------------------------------------------------------
LEMMA Passo == IInv /\ [Next]_vars => IInv'
<1> SUFFICES ASSUME IInv, [Next]_vars PROVE IInv'
  OBVIOUS
<1>1. CASE Banco
  <2> UNCHANGED <<partidaVars, semeaduraVars>>
    BY <1>1 DEF Banco
  <2>1. CASE CriarPapel \/ CairNoInit
    BY <2>1, PassosDoVolume
  <2>2. CASE \E m \in Migradores : Migrar(m) \/ FalharMigracao(m)
    BY <2>2, PassosDeConectar, PassoDeChecar, PassoDeAplicar, PassosDasSenhas,
       PassosDaImplantacao DEF Migrar
  <2>3. CASE \E m \in Migradores, c \in Configuracoes : Implantar(m, c)
    BY <2>3, PassosDaImplantacao
  <2> QED BY <1>1, <2>1, <2>2, <2>3 DEF Banco
<1>2. CASE Containers
  <2>1. CASE \E f \in Fluxos : Escutar(f) \/ Ensurdecer(f)
    BY <2>1, QuietoBasta DEF Escutar, Ensurdecer, migracaoVars, volumeVars
  <2> QED BY <1>2, <2>1, PassoDeSubir, PassoDeAvancar, PassoDeRecomecar DEF Containers
<1>3. CASE Semear \/ AndarSemente \/ FalharSemente
  BY <1>3, QuietoBasta DEF Semear, AndarSemente, FalharSemente, AguardarRotas,
     EntrarOuCadastrar, CadastrarProcesso, ListarAudiencias, EnviarAudio,
     partidaEMigracaoVars, migracaoVars, partidaVars
<1>4. CASE UNCHANGED vars
  BY <1>4, QuietoBasta DEF vars
<1> QED BY <1>1, <1>2, <1>3, <1>4 DEF Next

LEMMA Invariante == Spec => []IInv
BY Inicio, Passo, PTL DEF Spec

(***************************************************************************)
(* Whatever runners overlap and die, files are applied once and in order,  *)
(* and no service is up before all of them and what it needs (EsquemaEmDia *)
(* of the run implantacao), for any configuration of the deploys.          *)
(***************************************************************************)
THEOREM EsquemaSempreEmDia == Spec => []EsquemaEmDia
<1>1. IInv => EsquemaEmDia
  <2> SUFFICES ASSUME IInv PROVE EsquemaEmDia
    OBVIOUS
  <2>1. \A a \in ToSet(Arquivos) : schema[a] = IF a \in versoes THEN 1 ELSE 0
    BY DEF IInv, UmaVez
  <2>2. \A i \in DOMAIN Arquivos : Arquivos[i] \in versoes =>
            \A j \in 1 .. i : Arquivos[j] \in versoes
    BY DEF IInv, EmOrdem
  <2>3. ASSUME NEW s \in Servicos, NoAr(s)
        PROVE  versoes = ToSet(Arquivos) /\ ("bucket" \in ToSet(Espera[s]) => bucket)
    <3>1. etapa[s] = Len(Espera[s]) + 1 /\ Len(Espera[s]) \in Nat
      BY <2>3, EsperaTipo DEF NoAr, Pronto
    <3>2. \A i \in DOMAIN Espera[s] : i < etapa[s]
      BY <3>1, EsperaTipo
    <3> QED BY <3>1, <3>2 DEF IInv, Depende, ToSet
  <2> QED BY <2>1, <2>2, <2>3 DEF EsquemaEmDia
<1> QED BY <1>1, Invariante, PTL

(***************************************************************************)
(* The ways the two passwords of the volume change (SenhasDoVolume): the   *)
(* role is born with the volume, and the runner's CREATE ROLE is reached   *)
(* in no deploy, however many there are.                                   *)
(***************************************************************************)
THEOREM SenhasSoAssim == Spec => SenhasDoVolume
<1>1. IInv /\ [Next]_vars => [MudancaDeSenha]_vars
  <2> SUFFICES ASSUME IInv, [Next]_vars, volume' # volume PROVE MudancaDeSenha
    BY DEF MudancaDeSenha
  <2>1. \/ CriarPapel \/ CairNoInit
        \/ \E m \in Migradores : \/ TrocarSenhaDoDono(m) \/ SincronizarPapel(m)
                                 \/ \E c \in Configuracoes : Implantar(m, c)
    BY DEF Next, vars, Banco, Migrar, Conectar, EntrarComPadrao, Reconectar, CriarTabela,
       Checar, Aplicar, Transacao, Encerrar, FalharMigracao, SoOMigrador, Containers,
       Subir, Avancar, Recomecar, Escutar, Ensurdecer, Semear, AndarSemente,
       FalharSemente, AguardarRotas, EntrarOuCadastrar, CadastrarProcesso,
       ListarAudiencias, EnviarAudio, partidaEMigracaoVars, migracaoVars, volumeVars
  <2>2. CASE CriarPapel \/ CairNoInit
    BY <2>2 DEF IInv, Papel, MudancaDeSenha, CriarPapel, CairNoInit
  <2>3. ASSUME NEW m \in Migradores, TrocarSenhaDoDono(m) PROVE MudancaDeSenha
    <3>1. /\ volume' = [volume EXCEPT !.dono = Env(m).dono]
          /\ migrador[m].passo = "trocar"
      BY <2>3 DEF TrocarSenhaDoDono, Em
    <3>2. Env(m).dono # SenhaPadraoDono
      BY <3>1 DEF IInv, Corredores, Feito, Env
    <3> QED BY <3>1, <3>2 DEF IInv, Papel, MudancaDeSenha
  <2>4. ASSUME NEW m \in Migradores, SincronizarPapel(m) PROVE MudancaDeSenha
    <3>1. /\ volume' = [volume EXCEPT !.papel = Env(m).app]
          /\ migrador[m].passo = "papel" /\ migrador[m] \in Estados
          /\ Feito(migrador[m], versoes) /\ UmaVez /\ Papel
      BY <2>4 DEF SincronizarPapel, Em, IInv, Corredores
    <3>2. migrador[m].n - 1 = Len(Arquivos)
      BY <3>1, ArquivosTipo DEF Feito
    <3>3. ASSUME NEW a \in ToSet(Arquivos) PROVE a \in versoes
      BY <3>1, <3>2, ArquivosTipo DEF Feito
    <3>4. versoes = ToSet(Arquivos)
      BY <3>1, <3>3 DEF UmaVez
    <3>5. volume.papel # SemPapel
      <4>1. \E a \in PrecisaDoPapel : a \in ToSet(Arquivos)
        BY MigracaoAssumption
      <4> QED BY <3>1, <3>4, <4>1 DEF Papel
    <3> QED BY <3>1, <3>4, <3>5 DEF Papel, MudancaDeSenha
  <2>5. ASSUME NEW m \in Migradores, NEW c \in Configuracoes, Implantar(m, c)
        PROVE  MudancaDeSenha
    BY <2>5 DEF Implantar, IInv, Papel, MudancaDeSenha
  <2> QED BY <2>1, <2>2, <2>3, <2>4, <2>5
<1> QED BY <1>1, Invariante, PTL DEF Spec, SenhasDoVolume

-----------------------------------------------------------------------------
(***************************************************************************)
(* cmd/seed.  A run that sends hearings found none, with everything before *)
(* them in place, so it sends the next one of the list.                    *)
(***************************************************************************)
Semeada ==
    /\ semente \in [passo : PassosDaSemente, n : Nat \ {0}]
    /\ acervo \in Seq(1 .. Audiencias)
    /\ \A i \in 1 .. Len(acervo) : acervo[i] = i
    /\ carteira \subseteq 1 .. Processos
    /\ conta \in BOOLEAN
    /\ semeaduras \in 0 .. MaxSemeaduras
    /\ semente.passo \in {"fora", "aguardar", "entrar", "listar"} => semente.n = 1
    /\ semente.passo \in {"processos", "listar", "audiencias"} => conta
    /\ semente.passo = "processos" => /\ semente.n <= Processos
                                      /\ 1 .. semente.n - 1 \subseteq carteira
    /\ semente.passo \in {"listar", "audiencias"} => carteira = 1 .. Processos
    /\ semente.passo = "audiencias" => /\ semente.n <= Audiencias
                                       /\ Len(acervo) = semente.n - 1
    /\ Len(acervo) > 0 => conta /\ carteira = 1 .. Processos

LEMMA Quantidades == Processos \in Nat \ {0} /\ Audiencias \in Nat \ {0} /\ MaxSemeaduras \in Nat \ {0}
BY SemeaduraAssumption

(* What a request leaves behind, whether its answer comes or not.          *)
LEMMA ServidoMantem ==
    ASSUME Semeada, Servido,
           semente.passo \in {"entrar", "processos", "audiencias"}
    PROVE  /\ acervo' \in Seq(1 .. Audiencias)
           /\ \A i \in 1 .. Len(acervo') : acervo'[i] = i
           /\ carteira' \subseteq 1 .. Processos
           /\ conta' \in BOOLEAN
           /\ conta'
           /\ semente.passo = "processos" => carteira' = carteira \cup {semente.n}
           /\ semente.passo # "processos" => carteira' = carteira
           /\ semente.passo = "audiencias" => Len(acervo') = semente.n
           /\ semente.passo # "audiencias" => acervo' = acervo
           /\ Len(acervo') > 0 => carteira' = 1 .. Processos
<1>1. semente.n \in Nat \ {0} /\ Len(acervo) \in Nat
  BY DEF Semeada
<1>2. CASE semente.passo = "audiencias"
  <2>1. acervo' = Append(acervo, semente.n) /\ carteira' = carteira /\ conta' = TRUE
    BY <1>2 DEF Servido, Semeada
  <2>2. semente.n \in 1 .. Audiencias /\ Len(acervo) = semente.n - 1
    BY <1>1, <1>2, Quantidades DEF Semeada
  <2>3. acervo' \in Seq(1 .. Audiencias) /\ Len(acervo') = Len(acervo) + 1
    BY <2>1, <2>2 DEF Semeada
  <2>4. \A i \in 1 .. Len(acervo') : acervo'[i] = i
    <3>1. ASSUME NEW i \in 1 .. Len(acervo) + 1
          PROVE  Append(acervo, semente.n)[i] = i
      BY <1>1, <2>2 DEF Semeada
    <3> QED BY <2>1, <2>3, <3>1
  <2> QED BY <1>1, <1>2, <2>1, <2>2, <2>3, <2>4 DEF Semeada
<1>3. CASE semente.passo = "processos"
  <2>1. conta' = TRUE /\ carteira' = carteira \cup {semente.n} /\ acervo' = acervo
    BY <1>3 DEF Servido, Semeada
  <2>2. /\ acervo \in Seq(1 .. Audiencias) /\ carteira \subseteq 1 .. Processos
        /\ \A i \in 1 .. Len(acervo) : acervo[i] = i
        /\ Len(acervo) > 0 => carteira = 1 .. Processos
        /\ semente.n <= Processos
    BY <1>3 DEF Semeada
  <2>3. semente.n \in 1 .. Processos
    BY <1>1, <2>2, Quantidades
  <2>4. /\ carteira' \subseteq 1 .. Processos
        /\ Len(acervo) > 0 => carteira' = 1 .. Processos
    BY <2>1, <2>2, <2>3
  <2> QED BY <1>3, <2>1, <2>2, <2>4
<1>4. CASE semente.passo = "entrar"
  <2>1. conta' = TRUE /\ UNCHANGED <<carteira, acervo>>
    BY <1>4 DEF Servido
  <2>2. /\ acervo \in Seq(1 .. Audiencias) /\ carteira \subseteq 1 .. Processos
        /\ \A i \in 1 .. Len(acervo) : acervo[i] = i
        /\ Len(acervo) > 0 => carteira = 1 .. Processos
    BY DEF Semeada
  <2> QED BY <1>4, <2>1, <2>2
<1> QED BY <1>2, <1>3, <1>4

LEMMA SemeadaInicial == Init => Semeada
<1> SUFFICES ASSUME SemeaduraInit PROVE Semeada
  BY DEF Init
<1>1. /\ semente = [passo |-> "fora", n |-> 1] /\ semeaduras = 0 /\ conta = FALSE
      /\ carteira = {} /\ acervo = << >>
  BY DEF SemeaduraInit, Fora
<1>2. /\ semente \in [passo : PassosDaSemente, n : Nat \ {0}]
      /\ semente.passo = "fora" /\ semente.n = 1
  BY <1>1 DEF PassosDaSemente
<1>3. acervo \in Seq(1 .. Audiencias) /\ Len(acervo) = 0
  BY <1>1
<1>4. \A i \in 1 .. Len(acervo) : acervo[i] = i
  BY <1>3
<1>5. semeaduras \in 0 .. MaxSemeaduras
  BY <1>1, Quantidades
<1>6. carteira \subseteq 1 .. Processos /\ conta \in BOOLEAN
  BY <1>1
<1>7. ~(Len(acervo) > 0)
  BY <1>3
<1> QED BY <1>2, <1>3, <1>4, <1>5, <1>6, <1>7 DEF Semeada

LEMMA SemeadaMantida == Semeada /\ [Next]_vars => Semeada'
<1> SUFFICES ASSUME Semeada, [Next]_vars PROVE Semeada'
  OBVIOUS
<1>1. semente \in [passo : PassosDaSemente, n : Nat \ {0}] /\ Len(acervo) \in Nat
  BY DEF Semeada
<1>2. ASSUME UNCHANGED semeaduraVars PROVE Semeada'
  BY <1>2 DEF semeaduraVars, Semeada
<1>3. CASE UNCHANGED vars
  BY <1>2, <1>3 DEF vars, semeaduraVars
<1>4. CASE Banco \/ Containers
  BY <1>2, <1>4 DEF Banco, Containers
<1>5. CASE Semear
  <2>1. semente' = [passo |-> "aguardar", n |-> 1] /\ UNCHANGED <<conta, carteira, acervo>>
    BY <1>5 DEF Semear
  <2>2. semeaduras' \in 0 .. MaxSemeaduras
    BY <1>5, Quantidades DEF Semear, Semeada
  <2> QED BY <2>1, <2>2 DEF Semeada, PassosDaSemente
<1>6. CASE AguardarRotas
  <2>1. semente' = [passo |-> "entrar", n |-> 1]
    BY <1>1, <1>6 DEF AguardarRotas, Semeada
  <2>2. UNCHANGED <<semeaduras, conta, carteira, acervo>>
    BY <1>6 DEF AguardarRotas
  <2> QED BY <2>1, <2>2 DEF Semeada, PassosDaSemente
<1>7. CASE EntrarOuCadastrar
  <2>1. semente.passo = "entrar" /\ Servido /\ UNCHANGED semeaduras
    BY <1>7 DEF EntrarOuCadastrar, NoPasso
  <2>2. semente' = [passo |-> "processos", n |-> 1]
    BY <1>7, <2>1 DEF EntrarOuCadastrar, Depois, Semeada
  <2> QED BY <2>1, <2>2, ServidoMantem, Quantidades DEF Semeada, PassosDaSemente
<1>8. CASE CadastrarProcesso
  <2>1. semente.passo = "processos" /\ Servido /\ UNCHANGED semeaduras
    BY <1>8 DEF CadastrarProcesso, NoPasso
  <2>2. /\ semente.n <= Processos /\ 1 .. semente.n - 1 \subseteq carteira
        /\ carteira' = carteira \cup {semente.n} /\ carteira' \subseteq 1 .. Processos
    BY <2>1, ServidoMantem DEF Semeada
  <2>3. 1 .. semente.n \subseteq carteira'
    BY <1>1, <2>2
  <2>4. CASE semente.n < Processos
    <3>1. semente' = [passo |-> "processos", n |-> semente.n + 1]
      BY <1>1, <1>8, <2>1, <2>4 DEF CadastrarProcesso, Depois
    <3>2. semente'.n - 1 = semente.n
      BY <1>1, <3>1
    <3> QED BY <1>1, <2>1, <2>3, <2>4, <3>1, <3>2, ServidoMantem, Quantidades
            DEF Semeada, PassosDaSemente
  <2>5. CASE ~(semente.n < Processos)
    <3>1. semente' = [passo |-> "listar", n |-> 1]
      BY <1>8, <2>5 DEF CadastrarProcesso, Depois
    <3>2. semente.n = Processos
      BY <1>1, <2>2, <2>5, Quantidades
    <3>3. carteira' = 1 .. Processos
      BY <2>2, <2>3, <3>2
    <3> QED BY <2>1, <3>1, <3>3, ServidoMantem DEF Semeada, PassosDaSemente
  <2> QED BY <2>4, <2>5
<1>9. CASE ListarAudiencias
  <2>1. semente.passo = "listar" /\ UNCHANGED <<semeaduras, conta, carteira, acervo>>
    BY <1>9 DEF ListarAudiencias, NoPasso
  <2>2. CASE acervo = << >>
    <3>1. semente' = [passo |-> "audiencias", n |-> 1]
      BY <1>9, <2>2 DEF ListarAudiencias
    <3> QED BY <2>1, <2>2, <3>1, Quantidades DEF Semeada, PassosDaSemente
  <2>3. CASE acervo # << >>
    <3>1. semente' = [passo |-> "fora", n |-> 1]
      BY <1>9, <2>3 DEF ListarAudiencias, Fora
    <3> QED BY <2>1, <3>1 DEF Semeada, PassosDaSemente
  <2> QED BY <2>2, <2>3
<1>10. CASE EnviarAudio
  <2>1. semente.passo = "audiencias" /\ Servido /\ UNCHANGED semeaduras
    BY <1>10 DEF EnviarAudio, NoPasso
  <2>2. Len(acervo') = semente.n /\ carteira' = carteira
    BY <2>1, ServidoMantem
  <2>3. CASE semente.n < Audiencias
    <3>1. semente' = [passo |-> "audiencias", n |-> semente.n + 1]
      BY <1>1, <1>10, <2>1, <2>3 DEF EnviarAudio, Depois
    <3> QED BY <1>1, <2>1, <2>2, <2>3, <3>1, ServidoMantem, Quantidades
            DEF Semeada, PassosDaSemente
  <2>4. CASE ~(semente.n < Audiencias)
    <3>1. semente' = [passo |-> "fora", n |-> 1]
      BY <1>10, <2>4 DEF EnviarAudio, Depois
    <3> QED BY <2>1, <2>2, <3>1, ServidoMantem DEF Semeada, PassosDaSemente
  <2> QED BY <2>3, <2>4
<1>11. CASE FalharSemente
  <2>1. semente' = [passo |-> "fora", n |-> 1] /\ UNCHANGED semeaduras
    BY <1>11 DEF FalharSemente, Fora
  <2>2. CASE UNCHANGED <<conta, carteira, acervo>>
    BY <2>1, <2>2 DEF Semeada, PassosDaSemente
  <2>3. CASE ~UNCHANGED <<conta, carteira, acervo>>
    <3>1. Servido /\ semente.passo \in {"entrar", "processos", "audiencias"}
      BY <1>11, <2>3 DEF FalharSemente, Servido, Semeada
    <3> QED BY <2>1, <3>1, ServidoMantem DEF Semeada, PassosDaSemente
  <2> QED BY <2>2, <2>3
<1> QED BY <1>3, <1>4, <1>5, <1>6, <1>7, <1>8, <1>9, <1>10, <1>11 DEF Next, AndarSemente

LEMMA SemeadaSempre == Spec => []Semeada
BY SemeadaInicial, SemeadaMantida, PTL DEF Spec

(***************************************************************************)
(* However often the seed is run, and wherever it is cut, no demonstration *)
(* hearing is there twice and none before its account and processes.       *)
(***************************************************************************)
THEOREM SementeSoUmaVez == Spec => []SementeUmaVez
<1>1. Semeada => SementeUmaVez
  <2> SUFFICES ASSUME Semeada PROVE SementeUmaVez
    OBVIOUS
  <2>1. acervo = [i \in 1 .. Len(acervo) |-> i]
    BY DEF Semeada
  <2>2. acervo # << >> => Len(acervo) > 0
    BY DEF Semeada
  <2> QED BY <2>1, <2>2 DEF Semeada, SementeUmaVez
<1> QED BY <1>1, SemeadaSempre, PTL

-----------------------------------------------------------------------------
(***************************************************************************)
(* Types.  What the invariants above leave out: the values of an idle      *)
(* runner, the bounds, and how far a service goes.                         *)
(***************************************************************************)
Repouso == \A m \in Migradores : migrador[m].passo = "parado" => migrador[m] = Parado

Limites == implantacoes \in 0 .. MaxImplantacoes /\ quedas \in 0 .. MaxQuedas

Degraus == /\ \A s \in Servicos : etapa[s] <= Pronto(s)
           /\ ambiente \in [Servicos -> Apps \cup {""}]
           /\ escuta \in [Fluxos -> {"parada", "ouvindo", "surda"}]

LEMMA ProntoTipo ==
    ASSUME NEW s \in Servicos
    PROVE  /\ Pronto(s) \in Nat /\ 1 <= Pronto(s)
           /\ \A k \in DOMAIN Espera[s] : k + 1 <= Pronto(s)
<1>1. PICK n \in Nat : Len(Espera[s]) = n /\ DOMAIN Espera[s] = 1 .. n
  BY EsperaTipo
<1>2. Pronto(s) = n + 1
  BY <1>1 DEF Pronto
<1> QED BY <1>1, <1>2

LEMMA IrNaoPara ==
    ASSUME Corredores, Repouso, NEW m \in Migradores, NEW p \in Passos, Ir(m, p)
    PROVE  Repouso'
<1>1. migrador' = [migrador EXCEPT ![m] = Levado(m, p)]
  BY IrLeva
<1>2. Levado(m, p).passo # "parado"
  BY DEF Levado, Passos
<1> QED BY <1>1, <1>2 DEF Corredores, Repouso

LEMMA RepousoMantido == IInv /\ Repouso /\ [Next]_vars => Repouso'
<1> SUFFICES ASSUME Corredores, Repouso, [Next]_vars PROVE Repouso'
  BY DEF IInv
<1> USE DEF Passos
<1>1. migrador \in [Migradores -> Estados]
  BY DEF Corredores
<1>2. ASSUME UNCHANGED migrador PROVE Repouso'
  BY <1>2 DEF Repouso
<1>3. CASE UNCHANGED vars \/ CriarPapel \/ CairNoInit
  BY <1>2, <1>3 DEF vars, CriarPapel, CairNoInit
<1>4. CASE Semear \/ AndarSemente \/ FalharSemente
  BY <1>2, <1>4 DEF Semear, AndarSemente, FalharSemente, AguardarRotas, EntrarOuCadastrar,
     CadastrarProcesso, ListarAudiencias, EnviarAudio, partidaEMigracaoVars, migracaoVars
<1>5. ASSUME NEW s \in Servicos, Avancar(s) \/ Recomecar(s) PROVE Repouso'
  BY <1>2, <1>5 DEF Avancar, Recomecar, migracaoVars
<1>6. ASSUME NEW f \in Fluxos, Escutar(f) \/ Ensurdecer(f) PROVE Repouso'
  BY <1>2, <1>6 DEF Escutar, Ensurdecer, migracaoVars
<1>7. ASSUME NEW m \in Migradores, Subir(m) \/ Encerrar(m) PROVE Repouso'
  <2>1. migrador' = [migrador EXCEPT ![m] = Parado]
    BY <1>7 DEF Subir, Encerrar
  <2> QED BY <1>1, <2>1 DEF Repouso
<1>8. ASSUME NEW m \in Migradores, NEW c \in Configuracoes, Implantar(m, c) PROVE Repouso'
  <2> DEFINE x == [passo |-> "conectar", n |-> 1, env |-> c]
  <2>1. migrador' = [migrador EXCEPT ![m] = x]
    BY <1>8 DEF Implantar
  <2>2. x.passo # "parado"
    OBVIOUS
  <2> HIDE DEF x
  <2> QED BY <1>1, <2>1, <2>2 DEF Repouso
<1>9. ASSUME NEW m \in Migradores, NEW p \in Passos, Ir(m, p) PROVE Repouso'
  BY <1>9, IrNaoPara
<1>10. ASSUME NEW m \in Migradores,
              \/ Conectar(m) \/ EntrarComPadrao(m) \/ TrocarSenhaDoDono(m)
              \/ Reconectar(m) \/ CriarTabela(m) \/ SincronizarPapel(m)
              \/ FalharMigracao(m)
       PROVE  Repouso'
  <2>1. \E p \in Passos : Ir(m, p)
    BY <1>10 DEF Conectar, EntrarComPadrao, TrocarSenhaDoDono, Reconectar, CriarTabela,
                SincronizarPapel, FalharMigracao
  <2> QED BY <1>9, <2>1
<1>11. ASSUME NEW m \in Migradores, Checar(m) \/ Aplicar(m) PROVE Repouso'
  <2>1. migrador[m].passo \in {"checar", "aplicar"}
    BY <1>11 DEF Checar, Aplicar, Transacao, Em
  <2>2. \/ \E p \in Passos : Ir(m, p)
        \/ migrador' = [migrador EXCEPT ![m].n = @ + 1]
        \/ migrador' = [migrador EXCEPT ![m].passo = "checar", ![m].n = @ + 1]
    BY <1>11 DEF Checar, Aplicar, Transacao
  <2>3. CASE migrador' = [migrador EXCEPT ![m].n = @ + 1]
    BY <1>1, <2>1, <2>3 DEF Repouso, Estados
  <2>4. CASE migrador' = [migrador EXCEPT ![m].passo = "checar", ![m].n = @ + 1]
    BY <1>1, <2>1, <2>4 DEF Repouso, Estados
  <2> QED BY <1>9, <2>2, <2>3, <2>4
<1> QED BY <1>3, <1>4, <1>5, <1>6, <1>7, <1>8, <1>10, <1>11
        DEF Next, Banco, Containers, Migrar

LEMMA LimitesMantidos == Limites /\ [Next]_vars => Limites'
<1> SUFFICES ASSUME Limites, [Next]_vars PROVE Limites'
  OBVIOUS
<1>1. MaxImplantacoes \in Nat /\ MaxQuedas \in Nat
  BY MigracaoAssumption
<1>2. \/ UNCHANGED implantacoes
      \/ implantacoes < MaxImplantacoes /\ implantacoes' = implantacoes + 1
  BY DEF Next, vars, Banco, Containers, Migrar, Implantar, CriarPapel, CairNoInit, Conectar,
     EntrarComPadrao, TrocarSenhaDoDono, Reconectar, CriarTabela, Checar, Aplicar, Transacao,
     SincronizarPapel, FalharMigracao, Encerrar, SoOMigrador, Subir, Avancar, Recomecar,
     Escutar, Ensurdecer, Semear, AndarSemente, FalharSemente, AguardarRotas,
     EntrarOuCadastrar, CadastrarProcesso, ListarAudiencias, EnviarAudio,
     partidaEMigracaoVars, migracaoVars
<1>3. \/ UNCHANGED quedas
      \/ quedas < MaxQuedas /\ quedas' = quedas + 1
  BY DEF Next, vars, Banco, Containers, Migrar, Implantar, CriarPapel, CairNoInit, Conectar,
     EntrarComPadrao, TrocarSenhaDoDono, Reconectar, CriarTabela, Checar, Aplicar, Transacao,
     SincronizarPapel, FalharMigracao, Encerrar, SoOMigrador, Subir, Avancar, Recomecar,
     Escutar, Ensurdecer, Semear, AndarSemente, FalharSemente, AguardarRotas,
     EntrarOuCadastrar, CadastrarProcesso, ListarAudiencias, EnviarAudio,
     partidaEMigracaoVars, migracaoVars
<1> QED BY <1>1, <1>2, <1>3 DEF Limites

LEMMA DegrausMantidos == IInv /\ Degraus /\ [Next]_vars => Degraus'
<1> SUFFICES ASSUME IInv, Degraus, [Next]_vars PROVE Degraus'
  OBVIOUS
<1>1. /\ etapa \in [Servicos -> Nat]
      /\ ambiente \in [Servicos -> Apps \cup {""}]
      /\ escuta \in [Fluxos -> {"parada", "ouvindo", "surda"}]
  BY DEF IInv, Depende, Degraus
<1>2. \A s \in Servicos : Pronto(s) \in Nat /\ 1 <= Pronto(s) /\ etapa[s] <= Pronto(s)
  BY ProntoTipo DEF Degraus
<1>3. ASSUME UNCHANGED <<etapa, ambiente, escuta>> PROVE Degraus'
  BY <1>3 DEF Degraus
<1>c. ASSUME NEW S, Calar(S)
      PROVE  escuta' \in [Fluxos -> {"parada", "ouvindo", "surda"}]
  BY <1>1, <1>c DEF Calar
<1>4. CASE UNCHANGED vars \/ Banco
  BY <1>3, <1>4 DEF vars, Banco, partidaVars
<1>5. CASE Semear \/ AndarSemente \/ FalharSemente
  BY <1>3, <1>5 DEF Semear, AndarSemente, FalharSemente, AguardarRotas, EntrarOuCadastrar,
     CadastrarProcesso, ListarAudiencias, EnviarAudio, partidaEMigracaoVars, partidaVars
<1>6. ASSUME NEW m \in Migradores, Subir(m) PROVE Degraus'
  <2>1. Env(m).app \in Apps
    BY <1>6 DEF Subir, IInv, Corredores, Feito, Env, Apps
  <2>2. PICK novos \in SUBSET Servicos :
            /\ etapa' = [s \in Servicos |-> IF s \in novos THEN 1 ELSE etapa[s]]
            /\ Calar(novos)
    BY <1>6 DEF Subir
  <2>3. ambiente' \in [Servicos -> Apps \cup {""}]
    BY <1>6, <2>1 DEF Subir
  <2>4. \A s \in Servicos : etapa'[s] <= Pronto(s)
    BY <1>2, <2>2
  <2> QED BY <1>c, <2>2, <2>3, <2>4 DEF Degraus
<1>7. ASSUME NEW s \in Servicos, Avancar(s) PROVE Degraus'
  <2>1. /\ etapa' = [etapa EXCEPT ![s] = @ + 1] /\ UNCHANGED <<ambiente, escuta>>
        /\ etapa[s] \in DOMAIN Espera[s]
    BY <1>7 DEF Avancar
  <2>2. etapa[s] + 1 <= Pronto(s)
    BY <2>1, ProntoTipo
  <2> QED BY <1>1, <1>2, <2>1, <2>2 DEF Degraus
<1>8. ASSUME NEW s \in Servicos, Recomecar(s) PROVE Degraus'
  <2>1. etapa' = [etapa EXCEPT ![s] = 1] /\ Calar({s}) /\ UNCHANGED ambiente
    BY <1>8 DEF Recomecar
  <2> QED BY <1>1, <1>2, <1>c, <2>1 DEF Degraus
<1>9. ASSUME NEW f \in Fluxos, Escutar(f) \/ Ensurdecer(f) PROVE Degraus'
  <2>1. \E x \in {"ouvindo", "surda"} : escuta' = [escuta EXCEPT ![f] = x]
    BY <1>9 DEF Escutar, Ensurdecer
  <2>2. UNCHANGED <<etapa, ambiente>>
    BY <1>9 DEF Escutar, Ensurdecer
  <2> QED BY <1>1, <1>2, <2>1, <2>2 DEF Degraus
<1> QED BY <1>4, <1>5, <1>6, <1>7, <1>8, <1>9 DEF Next, Containers

LEMMA PartesIniciais == Init => Repouso /\ Limites /\ Degraus
<1> SUFFICES ASSUME Init PROVE Repouso /\ Limites /\ Degraus
  OBVIOUS
<1>1. migrador = [m \in Migradores |-> Parado] /\ implantacoes = 0 /\ quedas = 0
  BY DEF Init, MigracaoInit
<1>e. \A s \in Servicos : etapa[s] = 0
  BY DEF Init, PartidaInit
<1>f. /\ ambiente = [s \in Servicos |-> ""]
      /\ escuta = [f \in Fluxos |-> "parada"]
  BY DEF Init, PartidaInit
<1>2. Repouso
  BY <1>1 DEF Repouso
<1>3. Limites
  <2>1. MaxImplantacoes \in Nat /\ MaxQuedas \in Nat
    BY MigracaoAssumption
  <2> QED BY <1>1, <2>1 DEF Limites
<1>4. Degraus
  <2>1. \A s \in Servicos : Pronto(s) \in Nat /\ 1 <= Pronto(s)
    BY ProntoTipo
  <2>2. \A s \in Servicos : etapa[s] <= Pronto(s)
    BY <1>e, <2>1
  <2> QED BY <1>f, <2>2 DEF Degraus
<1> QED BY <1>2, <1>3, <1>4

LEMMA PartesSempre == Spec => [](Repouso /\ Limites /\ Degraus)
<1>1. IInv /\ (Repouso /\ Limites /\ Degraus) /\ [Next]_vars
          => (Repouso /\ Limites /\ Degraus)'
  BY RepousoMantido, LimitesMantidos, DegrausMantidos
<1> QED BY <1>1, PartesIniciais, Invariante, PTL DEF Spec

(***************************************************************************)
(* Every variable of a deploy keeps its type: no runner goes past the last *)
(* file, no service past its last dependency, and a service's password is  *)
(* of some deploy's configuration.                                         *)
(***************************************************************************)
THEOREM TiposDaImplantacao == Spec => []TypeOK
<1>1. IInv /\ Semeada /\ Repouso /\ Limites /\ Degraus => TypeOK
  <2> SUFFICES ASSUME IInv, Semeada, Repouso, Limites, Degraus PROVE TypeOK
    OBVIOUS
  <2>1. \A m \in Migradores :
            migrador[m] \in [passo : Passos, n : 1 .. Len(Arquivos) + 1,
                             env : Configuracoes] \cup {Parado}
    <3> SUFFICES ASSUME NEW m \in Migradores, migrador[m] # Parado
                 PROVE  migrador[m] \in [passo : Passos, n : 1 .. Len(Arquivos) + 1,
                                         env : Configuracoes]
      OBVIOUS
    <3>1. migrador[m] \in Estados /\ Feito(migrador[m], versoes)
      BY DEF IInv, Corredores
    <3>2. migrador[m].passo # "parado"
      BY DEF Repouso
    <3>3. migrador[m].env \in Configuracoes
      BY <3>1, <3>2 DEF Feito
    <3> QED BY <3>1, <3>2, <3>3 DEF Estados
  <2>2. MigracaoTypeOK
    BY <2>1 DEF MigracaoTypeOK, IInv, Corredores, Papel, UmaVez, Limites
  <2>3. PartidaTypeOK
    BY DEF PartidaTypeOK, IInv, Depende, Degraus
  <2>4. SemeaduraTypeOK
    BY DEF SemeaduraTypeOK, Semeada
  <2> QED BY <2>2, <2>3, <2>4 DEF TypeOK
<1> QED BY <1>1, Invariante, SemeadaSempre, PartesSempre, PTL
=============================================================================
