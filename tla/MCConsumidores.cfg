SPECIFICATION SpecJusta
CONSTANTS
    MaxLen = 2
    Lote = 2
    Replicas = {r1, r2}
    Mensagens = {m}
    MaxMensagens = 5
INVARIANT TypeOK
INVARIANT PosseUnica
PROPERTY NuncaReentregue
PROPERTY ImplementaEntrega
PROPERTY TodaMensagemAssenta
PROPERTY SemAtrasoNadaSePerde
CHECK_DEADLOCK FALSE
