SPECIFICATION SpecJusta
CONSTANTS
    t1 = t1
    m1 = m1
    m2 = m2
    MaxLen = 4
    Lote = 2
    Tenants = {t1}
    Andamentos = {m1, m2}
    TenantDe <- MCTenantDe
    DescricaoDe <- MCDescricaoDe
    MaxCorpo = 3
    Falhas = {}
    Classificadores = {c1}
    Notificadores = {n1}
    Piso = "media"
    Respondidas = {"alta", "nenhuma"}
    MinimaPadrao = "baixa"
    Minimas = {"alta", "baixa"}
    SemLaudo = semLaudo
PROPERTY TodaMovimentacaoResolvida
CHECK_DEADLOCK FALSE
