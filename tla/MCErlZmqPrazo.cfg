SPECIFICATION Spec
CONSTANTS
    p1 = p1
    p2 = p2
    s1 = s1
    s2 = s2
    Nenhum = Nenhum
    Procs = {p1, p2}
    Socks = {s1, s2}
    Leem = {s1}
    Escrevem = {s1, s2}
    FilaMax = 2
    MaxPedidos = 4
    MaxChamadas = 3
    MaxMsgs = 2
CHECK_DEADLOCK FALSE
INVARIANT PrazoNaoPerde
