SPECIFICATION SpecJusta
CONSTANTS
    t1 = t1
    h1 = h1
    h2 = h2
    MaxLen = 1
    Lote = 2
    MaxCorpo = 4
    AudienciasPossiveis = {h1, h2}
    Tenants = {t1}
    TenantDe <- MCTenantDe
    ResumoDe <- MCResumoDe
    Transcritores = {w1}
    Analistas = {a1}
    Notificadores = {n1}
    Falhas = {"storage", "banco", "commit", "barramento", "queda", "motor", "ack"}
INVARIANT TypeOK
INVARIANT StatusDizOQueHa
INVARIANT UmAlertaPorAudiencia
INVARIANT ConfirmadaSegueAdiante
PROPERTY ImplementaVida
PROPERTY TodaAudienciaTemDestino
CHECK_DEADLOCK FALSE
