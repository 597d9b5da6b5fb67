CONSTANTS
    caneca = caneca
    mesas = mesas
    nada = nada
    Empresas <- So
    Nomes <- CanecaMesas
    Mensagens <- PedidosLimite
    SemPedido = nada
    IntSpan = 100000
    MaxObj = 2
    MaxLic = 2
SPECIFICATION FairSpec
PROPERTY PedidoRespondido
CHECK_DEADLOCK FALSE
