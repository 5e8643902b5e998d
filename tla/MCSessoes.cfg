SPECIFICATION Spec
CONSTANTS
    Pedidos = {r1, r2}
    Clientes = {aba1, aba2}
    Emails = {"Ana", "ana", "bia"}
    Minusculo <- MCMinusculo
    Formularios <- MCFormularios
    Senhas = {"p", "q"}
    Prazos = {29, 365}
    MaxContas = 2
    MaxTokens = 2
    MaxTrocas = 3
    FalhasDoServidor = {"banco", "commit", "rede"}
SYMMETRY Simetria
INVARIANT TypeOK
PROPERTY TrocaDeQuemSabia
PROPERTY SessaoViveAteQue
PROPERTY TelaDizQuemE
CHECK_DEADLOCK FALSE
