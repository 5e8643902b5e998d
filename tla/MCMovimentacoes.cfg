SPECIFICATION Spec
CONSTANTS
    t1 = t1
    m1 = m1
    m2 = m2
    MaxLen = 1
    Lote = 2
    Tenants = {t1}
    Andamentos = {m1, m2}
    TenantDe <- MCTenantDe
    DescricaoDe <- MCDescricaoDe
    MaxCorpo = 4
    Falhas = {"banco", "commit", "barramento", "queda", "llm", "ack"}
    Classificadores = {c1}
    Notificadores = {n1}
    Piso = "media"
    Respondidas = {"alta", "nenhuma"}
    MinimaPadrao = "baixa"
    Minimas = {"alta", "baixa"}
    SemLaudo = semLaudo
SYMMETRY Simetria
INVARIANT TypeOK
INVARIANT UmAvisoPorAndamento
INVARIANT RelatosConcordam
INVARIANT NenhumSilencioIndevido
INVARIANT ConfirmadaFezEfeito
PROPERTY ImplementaCiclo
CHECK_DEADLOCK FALSE
