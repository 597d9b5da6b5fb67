CONSTANTS
    caneca = caneca
    mesas = mesas
    nada = nada
    Empresas <- So
    Nomes <- CanecaMesas
    Mensagens <- PedidosLimite
    SemPedido = nada
    IntSpan = 8000
    MaxObj = 2
    MaxLic = 3
SPECIFICATION FairSpec
INVARIANTS  AlocacaoMinima
PROPERTIES LeilaoFecha ImplementaLeilao
CHECK_DEADLOCK FALSE
