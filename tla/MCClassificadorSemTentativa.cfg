SPECIFICATION Spec
CONSTANTS
    Respondidas <- MCRespondidas
    Confiancas <- MCConfiancas
    Minimos <- MCMinimos
    Tentativas <- MCTentativasSemFiltro
INVARIANT SempreUtilizavel
CHECK_DEADLOCK FALSE
