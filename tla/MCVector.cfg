SPECIFICATION Spec
CONSTANTS
    v1 = v1
    v2 = v2
    um = um
    dois = dois
    Lixo = Lixo
    Morto = Morto
    Vetores = {v1, v2}
    Valores = {um, dois}
    Argumentos <- MCArgumentos
INVARIANTS
    TypeOK
    MemoriaSegura
    LimiteRespeitado
PROPERTIES
    ImplementaLista
