SPECIFICATION SpecJusta
CONSTANTS
    Migradores = {m1, m2}
    Configuracoes <- MCConfiguracoes
    SenhaPadraoDono = "meirinho"
    Arquivos <- MCArquivos
    PrecisaDoPapel <- MCPrecisaDoPapel
    MaxImplantacoes = 2
    MaxQuedas = 1
    Servicos = {"hearing-service", "notification-service"}
    Processos = 2
    Audiencias = 2
    MaxSemeaduras = 2
INVARIANT TypeOK
INVARIANT EsquemaEmDia
INVARIANT SementeUmaVez
PROPERTY SenhasDoVolume
PROPERTY AlguemChega
CHECK_DEADLOCK FALSE
