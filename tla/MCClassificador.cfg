SPECIFICATION Spec
CONSTANTS
    Respondidas <- MCRespondidas
    Confiancas <- MCConfiancas
    Minimos <- MCMinimos
    Tentativas <- MCTentativas
INVARIANT TypeOK
INVARIANT SempreUtilizavel
INVARIANT NaDuvidaOMaior
INVARIANT SemMarcaEhConfiavel
INVARIANT DesisteDepoisDeTodas
CHECK_DEADLOCK FALSE
