CONSTANTS
    caneca = caneca
    nada = nada
    semNome = semNome
    Empresas <- So
    Nomes <- So
    Mensagens <- Pedidos
    SemPedido = nada
    SemNome = semNome
    PodeFalhar = FALSE
    IntSpan = 100000
    MaxObj = 3
    MaxLic = 2
SPECIFICATION SistemaSpec
INVARIANT PutAtualizaOLeilao
