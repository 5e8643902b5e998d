SPECIFICATION SpecSemPerda
CONSTANTS
    MaxLen = 2
    Lote = 2
    Replicas = {r1, r2}
    Mensagens = {m}
    MaxMensagens = 2
PROPERTY PendenteEhReprocessada
CHECK_DEADLOCK FALSE
