CONSTANTS
    caneca = caneca
    nada = nada
    semNome = semNome
    Empresas <- So
    Nomes <- So
    Mensagens <- Pedidos
    SemPedido = nada
    SemNome = semNome
    PodeFalhar = TRUE
    IntSpan = 100000
    MaxObj = 2
    MaxLic = 2
SPECIFICATION SistemaFairSpec
INVARIANT DiretorioOrdenado
PROPERTIES EntradaFecha 
