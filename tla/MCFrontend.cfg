SPECIFICATION FairSpec
CONSTANTS
    c1 = c1
    c2 = c2
    noite = noite
    agua = agua
    mesas = mesas
    ninguem = ninguem
    x1 = x1
    x2 = x2
    Clientes = {c1, c2}
    Investidores = {noite}
    Empresas = {agua, mesas}
    Desconhecida = ninguem
    Servidores = {x1, x2}
    Rota <- MCRota
    Serve <- MCServe
    MaxContextos = 1
    MaxPedidos = 2
    MaxLogins = 3
CHECK_DEADLOCK FALSE
INVARIANTS
    TypeOK
    ContaDeUmaSessao
    ContaPresaExplicada
    RespostaCerta
PROPERTIES
    ClienteAtendido
