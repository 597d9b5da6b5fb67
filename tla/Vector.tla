------------------------------- MODULE Vector -------------------------------
(***************************************************************************)
(* The growable arrays of the erlzmq2 binding (c_src/vector.c, vector.h),  *)
(* in which its polling thread keeps poll items and pending requests.      *)
(*                                                                         *)
(* Sizes are in bytes, as in the code.  The allocated block is kept as the *)
(* elements that fit in it: DOMAIN v.p is exactly the set of element       *)
(* positions inside the allocation, so an access outside it is undefined   *)
(* behaviour (result "ub").  malloc and realloc may fail at any call.      *)
(*                                                                         *)
(* Callers keep the contract the code takes for granted: a live array, an  *)
(* index below count, a source range inside the source.                    *)
(***************************************************************************)
EXTENDS Naturals, Sequences, FiniteSets, SequencesExt

CONSTANTS Vetores,      \* the arrays
          Valores,      \* element values
          Lixo,         \* the contents of memory nobody wrote
          Morto,        \* abstract value of an array that is not initialised
          Argumentos    \* calls to vector_initialize: records of its four sizes

VARIABLES vec,   \* vec[x]: the vector_t of array x
          res    \* how the last call ended: "ok", "falha" or "ub"

vars == <<vec, res>>
-----------------------------------------------------------------------------
(***************************************************************************)
(* Memory.                                                                 *)
(***************************************************************************)
Posicoes(bytes, element_size) == 0 .. (bytes \div element_size) - 1

(* the block after realloc: old contents kept, the new part unwritten      *)
Realoca(p, dom) == [k \in dom |-> IF k \in DOMAIN p THEN p[k] ELSE Lixo]

Dentro(p, i, n) == \A k \in i .. i + n - 1 : k \in DOMAIN p

(* memcpy / memmove of n elements; memmove allows the ranges to overlap    *)
Memmove(dst, j, src, i, n) ==
    [k \in DOMAIN dst |-> IF k \in j .. j + n - 1 THEN src[k - j + i] ELSE dst[k]]

(* The loop halves n down to 1: value is the greatest power of two that is *)
(* at most n.  It is 1 for n = 0, and 1 # 0, so greater_pow2(0) is 2, not  *)
(* 0: the doubling branch of vector_reserve is never taken.                *)
Potencias2(n) == {p \in 1 .. n : \E bits \in 0 .. n : p = 2 ^ bits}

greater_pow2(n) ==
    LET value == IF n <= 1 THEN 1 ELSE Max(Potencias2(n))
    IN IF value = n THEN value ELSE 2 * value

(* vector_initialize rounds the first block up; the binding's calls ask    *)
(* for one element, so that it stays within the limit                      *)
ASSUME ArgumentosAssumption ==
    /\ \A a \in Argumentos :
         /\ a \in [allocation_increment : Nat, allocation_size : Nat,
                   allocation_size_max : Nat, element_size : Nat \ {0}]
         /\ greater_pow2(a.allocation_size) <= a.allocation_size_max
    /\ Lixo \notin Valores
    /\ Morto \notin Seq(Valores)

(* the first of size, size + increment, ... that holds n bytes; or, with   *)
(* no increment, the first doubling                                        *)
Cresce(v, n) ==
    LET a == v.allocation_size
        d == v.allocation_increment
    IN IF n <= a THEN a
       ELSE IF d = 0
            THEN a * 2 ^ (CHOOSE k \in 1 .. n : a * 2 ^ k >= n /\ a * 2 ^ (k - 1) < n)
            ELSE a + d * (CHOOSE k \in 1 .. n : a + d * k >= n /\ a + d * (k - 1) < n)

Menor(a, b) == IF a < b THEN a ELSE b

Fim(v, r) == [v |-> v, r |-> r]
-----------------------------------------------------------------------------
(***************************************************************************)
(* The functions of vector.c.  Each returns the set of its possible        *)
(* outcomes [v |-> the vector_t afterwards, r |-> "ok" | "falha" | "ub"].  *)
(***************************************************************************)
vector_initialize(v, a) ==
    LET alloc == greater_pow2(a.allocation_size)
        novo  == [allocation_size      |-> alloc,
                  allocation_increment |-> greater_pow2(a.allocation_increment),
                  allocation_size_max  |-> a.allocation_size_max,
                  element_size         |-> a.element_size,
                  count                |-> 0,
                  vivo                 |-> TRUE,
                  p |-> [k \in Posicoes(alloc, a.element_size) |-> Lixo]]
    IN {Fim(novo, "ok"), Fim(v, "falha")}

(* Mutant of vector_reserve: growth past the limit is not cut.             *)
vector_reserve_sem_corte(v, n) ==
    LET size == v.element_size * n
        novo == Cresce(v, size)
    IN CASE size < v.allocation_size     -> {Fim(v, "ok")}
         [] /\ size >= v.allocation_size
            /\ size > v.allocation_size_max -> {Fim(v, "falha")}
         [] OTHER -> {Fim(v, "falha"),
                      Fim([v EXCEPT !.allocation_size = novo,
                                    !.p = Realoca(@, Posicoes(novo, v.element_size))],
                          "ok")}

(* Mutant of vector_reserve: elements are compared with bytes.             *)
vector_reserve_em_elementos(v, n) ==
    LET novo == Menor(Cresce(v, n), v.allocation_size_max)
    IN CASE n < v.allocation_size        -> {Fim(v, "ok")}
         [] /\ n >= v.allocation_size
            /\ n > v.allocation_size_max -> {Fim(v, "falha")}
         [] OTHER -> {Fim(v, "falha"),
                      Fim([v EXCEPT !.allocation_size = novo,
                                    !.p = Realoca(@, Posicoes(novo, v.element_size))],
                          "ok")}

(* Mutant of vector_reserve: the new size is set although realloc failed.  *)
vector_reserve_antes(v, n) ==
    LET size == v.element_size * n
        novo == Menor(Cresce(v, size), v.allocation_size_max)
    IN CASE size < v.allocation_size     -> {Fim(v, "ok")}
         [] /\ size >= v.allocation_size
            /\ size > v.allocation_size_max -> {Fim(v, "falha")}
         [] OTHER -> {Fim([v EXCEPT !.allocation_size = novo], "falha"),
                      Fim([v EXCEPT !.allocation_size = novo,
                                    !.p = Realoca(@, Posicoes(novo, v.element_size))],
                          "ok")}

vector_reserve(v, n) ==
    LET size == v.element_size * n
        novo == Menor(Cresce(v, size), v.allocation_size_max)
    IN CASE size < v.allocation_size     -> {Fim(v, "ok")}
         [] /\ size >= v.allocation_size
            /\ size > v.allocation_size_max -> {Fim(v, "falha")}
         [] OTHER -> {Fim(v, "falha"),
                      Fim([v EXCEPT !.allocation_size = novo,
                                    !.p = Realoca(@, Posicoes(novo, v.element_size))],
                          "ok")}

(* the tail shared by copy and move: write n elements of src at j          *)
Escreve(o, j, src, i, n) ==
    IF o.r # "ok" THEN o
    ELSE IF ~ (Dentro(o.v.p, j, n) /\ Dentro(src, i, n)) THEN Fim(o.v, "ub")
    ELSE Fim([o.v EXCEPT !.p = Memmove(@, j, src, i, n),
                         !.count = IF j + n > @ THEN j + n ELSE @], "ok")

vector_copy(v, src, i_src, count_src, i_dst) ==
    LET n == IF count_src = 0 THEN src.count ELSE count_src
    IN IF v.element_size # src.element_size THEN {Fim(v, "falha")}
       ELSE {Escreve(o, i_dst, src.p, i_src, n) : o \in vector_reserve(v, i_dst + n)}

vector_move(v, i_dst, i_src, count_src) ==
    LET n == IF count_src = 0 THEN v.count - i_src ELSE count_src
    IN {Escreve(o, i_dst, o.v.p, i_src, n) : o \in vector_reserve(v, i_dst + n)}

vector_append_element(v, e, size) ==
    IF v.element_size # size THEN {Fim(v, "falha")}
    ELSE {IF o.r # "ok" THEN o
          ELSE IF ~ Dentro(o.v.p, v.count, 1) THEN Fim(o.v, "ub")
          ELSE Fim([o.v EXCEPT !.p[v.count] = e, !.count = @ + 1], "ok")
            : o \in vector_reserve(v, v.count + 1)}

(* Mutant of vector_remove: the last element takes the place of the one    *)
(* removed, instead of the tail moving down.                               *)
vector_remove_troca(v, i) ==
    IF i + 1 = v.count THEN {Fim([v EXCEPT !.count = @ - 1], "ok")}
    ELSE {IF o.r # "ok" THEN o ELSE Fim([o.v EXCEPT !.count = @ - 1], "ok")
            : o \in vector_move(v, i, v.count - 1, 1)}

vector_remove(v, i) ==
    IF i + 1 = v.count THEN {Fim([v EXCEPT !.count = @ - 1], "ok")}
    ELSE {IF o.r # "ok" THEN o ELSE Fim([o.v EXCEPT !.count = @ - 1], "ok")
            : o \in vector_move(v, i, i + 1, 0)}

vector_destroy(v) == [v EXCEPT !.vivo = FALSE, !.p = << >>, !.count = 0]
-----------------------------------------------------------------------------
(***************************************************************************)
(* Any sequence of legal calls.                                            *)
(***************************************************************************)
NaoInicializado ==
    [allocation_size |-> 0, allocation_increment |-> 0, allocation_size_max |-> 0,
     element_size |-> 1, count |-> 0, vivo |-> FALSE, p |-> << >>]

Init == /\ vec = [x \in Vetores |-> NaoInicializado]
        /\ res = "ok"

Resultado(x, outs) == \E o \in outs : /\ vec' = [vec EXCEPT ![x] = o.v]
                                      /\ res' = o.r

Vivos == {x \in Vetores : vec[x].vivo}

Inicializa(x) == /\ ~ vec[x].vivo
                 /\ \E a \in Argumentos : Resultado(x, vector_initialize(vec[x], a))

Destroi(x) == /\ vec' = [vec EXCEPT ![x] = vector_destroy(@)]
              /\ res' = "ok"

Reserva(x) == \E n \in 0 .. vec[x].count + 2 : Resultado(x, vector_reserve(vec[x], n))

Acrescenta(x) == \E e \in Valores, size \in {y.element_size : y \in Argumentos} :
                    Resultado(x, vector_append_element(vec[x], e, size))

Retira(x) == \E i \in 0 .. vec[x].count - 1 : Resultado(x, vector_remove(vec[x], i))

Move(x) == \E i \in 0 .. vec[x].count, j \in 0 .. vec[x].count :
             \E n \in 0 .. vec[x].count - i :
                Resultado(x, vector_move(vec[x], j, i, n))

(* vector_copy: a range of the source, or vector_copy_all                  *)
Copia(x, y) ==
    /\ x # y
    /\ \/ \E i \in 0 .. vec[y].count, j \in 0 .. vec[x].count :
             \E n \in 1 .. vec[y].count - i :
                Resultado(x, vector_copy(vec[x], vec[y], i, n, j))
       \/ Resultado(x, vector_copy(vec[x], vec[y], 0, 0, 0))

Next == \/ \E x \in Vetores : Inicializa(x)
        \/ \E x \in Vivos : \/ Destroi(x)
                            \/ Reserva(x)
                            \/ Acrescenta(x)
                            \/ Retira(x)
                            \/ Move(x)
                            \/ \E y \in Vivos : Copia(x, y)

Spec == Init /\ [][Next]_vars
-----------------------------------------------------------------------------
(***************************************************************************)
(* Properties.                                                             *)
(***************************************************************************)
(* Type invariant of the vector_t structures.                              *)
TypeOK ==
    /\ \A x \in Vetores :
         /\ vec[x].vivo \in BOOLEAN
         /\ {vec[x].allocation_size, vec[x].allocation_increment,
             vec[x].allocation_size_max, vec[x].count} \subseteq Nat
         /\ vec[x].element_size \in Nat \ {0}
         /\ vec[x].vivo => vec[x].p \in [Posicoes(vec[x].allocation_size,
                                                  vec[x].element_size)
                                            -> Valores \cup {Lixo}]
    /\ res \in {"ok", "falha", "ub"}

(* No call touches memory outside the allocated block, whatever mixture of *)
(* growth, failed realloc, removal and copying came before it, and the     *)
(* elements below count are inside the block and were written.             *)
MemoriaSegura ==
    /\ res # "ub"
    /\ \A x \in Vivos : \A k \in 0 .. vec[x].count - 1 :
            k \in DOMAIN vec[x].p /\ vec[x].p[k] # Lixo

(* The limit given at initialisation is never passed, by the block or by   *)
(* the elements, however the block grew: the polling thread relies on      *)
(* vector_append failing at ERLZMQ_MAX_CONCURRENT_REQUESTS.                *)
LimiteRespeitado ==
    \A x \in Vivos :
        /\ vec[x].allocation_size <= vec[x].allocation_size_max
        /\ vec[x].count * vec[x].element_size <= vec[x].allocation_size_max

(* The arrays are lists: the elements below count, in order.               *)
Conteudo(x) == IF vec[x].vivo THEN [k \in 1 .. vec[x].count |-> vec[x].p[k - 1]]
               ELSE Morto
Listas == [x \in Vetores |-> Conteudo(x)]

(* Every sequence of calls, with allocation failures at any point,         *)
(* implements the abstract lists: a call that fails changes nothing, one   *)
(* that succeeds does its list operation and only that.                    *)
L == INSTANCE Lista WITH lista <- Listas

ImplementaLista == L!Spec
=============================================================================
