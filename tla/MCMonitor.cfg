SPECIFICATION MonitorSpecJusta
CONSTANTS
    t1 = t1
    t2 = t2
    p1 = p1
    p2 = p2
    m1 = m1
    m2 = m2
    MaxLen = 3
    Lote = 1
    Tenants = {t1, t2}
    Processos = {p1, p2}
    Andamentos = {m1, m2}
    TenantDe <- MCTenantDe
    ProcessoDe <- MCProcessoDe
    Poller = poller
    Historico = {m1}
    Nenhum = nenhum
    Falhas = {"provider", "banco", "commit", "barramento", "queda"}
INVARIANT MonitorTypeOK
INVARIANT UmEventoPorAndamento
INVARIANT PublicaQuemInseriu
PROPERTY ImplementaEntrada
PROPERTY TodoAndamentoGravado
PROPERTY ArquivamentoEncerra
CHECK_DEADLOCK FALSE
