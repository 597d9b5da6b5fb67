CONSTANTS
    caneca = caneca
    mesas = mesas
    nada = nada
    Empresas <- So
    Nomes <- So
    Mensagens <- PedidosCaneca
    SemPedido = nada
    IntSpan = 100000
    MaxObj = 3
    MaxLic = 2
SPECIFICATION Spec
INVARIANT EmissaoTerminaNoSeuPrazo
