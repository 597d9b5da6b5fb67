---------------------------- MODULE VectorProofs ----------------------------
(***************************************************************************)
(* Proofs about the growable arrays, for any arrays, values, sizes and     *)
(* limits: no access outside the block, no growth past the limit, and the  *)
(* arrays are the lists of Lista.                                          *)
(***************************************************************************)
EXTENDS Vector, Lemas

-----------------------------------------------------------------------------
(* The invariant of one vector_t.                                          *)

Forma(v) == v = [allocation_size      |-> v.allocation_size,
                 allocation_increment |-> v.allocation_increment,
                 allocation_size_max  |-> v.allocation_size_max,
                 element_size         |-> v.element_size,
                 count                |-> v.count,
                 vivo                 |-> v.vivo,
                 p                    |-> v.p]

Tamanhos(v) == /\ v.allocation_size \in Nat /\ v.allocation_increment \in Nat
               /\ v.allocation_size_max \in Nat /\ v.count \in Nat
               /\ v.element_size \in Nat \ {0}
               /\ v.vivo \in BOOLEAN

\* what a live array satisfies: the block is as large as it says, within the
\* limit, and the elements below count are in it and were written
Bom(v) == /\ Forma(v) /\ Tamanhos(v) /\ v.vivo
          /\ v.allocation_increment > 0
          /\ v.allocation_size <= v.allocation_size_max
          /\ v.p \in [Posicoes(v.allocation_size, v.element_size) -> Valores \cup {Lixo}]
          /\ v.count * v.element_size <= v.allocation_size
          /\ \A k \in 0 .. v.count - 1 : v.p[k] \in Valores

Indutivo == /\ DOMAIN vec = Vetores
            /\ \A x \in Vetores : /\ Forma(vec[x]) /\ Tamanhos(vec[x])
                                  /\ vec[x].vivo => Bom(vec[x])
            /\ res \in {"ok", "falha"}
-----------------------------------------------------------------------------
(* Sizes.                                                                  *)

(* greater_pow2 never returns 0, so an array always grows by something.    *)
LEMMA GreaterPow2Properties == ASSUME NEW n \in Nat PROVE greater_pow2(n) \in Nat \ {0}
<1>. DEFINE S == Potencias2(n)
<1>1. ASSUME n > 1 PROVE Max(S) \in 1 .. n
  <2>. DEFINE D == {d \in 0 .. n : n - d \in S}
  <2>1. S \subseteq 1 .. n /\ 1 \in S
    <3>1. 2 ^ 0 = 1 /\ 0 \in 0 .. n /\ 1 \in 1 .. n
      BY <1>1
    <3>. QED
      BY <3>1 DEF Potencias2
  <2>. HIDE DEF S
  <2>2. n - 1 \in D
    <3>1. n - (n - 1) = 1 /\ n - 1 \in 0 .. n
      BY <1>1
    <3>. QED
      BY <2>1, <3>1
  <2>3. \E d \in D : \A e \in D : d <= e
    <3>1. D \subseteq Nat /\ D # {}
      BY <2>2
    <3>. HIDE DEF D
    <3>. QED
      BY <3>1, MenorElemento
  <2>4. PICK d \in D : \A e \in D : d <= e
    BY <2>3
  <2>5. n - d \in S /\ \A y \in S : n - d >= y
    <3>1. n - d \in S
      BY <2>4
    <3>2. ASSUME NEW y \in S PROVE n - d >= y
      <4>1. n - y \in 0 .. n /\ n - (n - y) = y
        BY <2>1
      <4>2. n - y \in D
        BY <4>1
      <4>. QED
        BY <2>1, <2>4, <4>2
    <3>. QED
      BY <3>1, <3>2
  <2>6. Max(S) \in S
    BY <2>5 DEF Max
  <2>. QED
    BY <2>1, <2>6
<1>2. (IF n <= 1 THEN 1 ELSE Max(S)) \in Nat \ {0}
  <2>. HIDE DEF S
  <2>. QED
    BY <1>1
<1>. QED
  BY <1>2 DEF greater_pow2

(* The growth loop ends at a size that is enough and no smaller than the   *)
(* one it started from.                                                    *)
LEMMA CresceProperties ==
    ASSUME NEW v, v.allocation_size \in Nat, v.allocation_increment \in Nat \ {0},
           NEW n \in Nat
    PROVE  Cresce(v, n) \in Nat /\ n <= Cresce(v, n) /\ v.allocation_size <= Cresce(v, n)
<1>. DEFINE a == v.allocation_size
            d == v.allocation_increment
            K == {k \in Nat : a + d * k >= n}
            P(k) == a + d * k >= n /\ a + d * (k - 1) < n
<1>0. a \in Nat /\ d \in Nat \ {0}
  OBVIOUS
<1>. HIDE DEF a, d
<1>1. CASE n <= a
  BY <1>0, <1>1 DEF Cresce, a
<1>2. CASE n > a
  <2>1. n \in K
    <3>1. d * n >= n
      BY <1>0
    <3>. QED
      BY <1>0, <3>1
  <2>2. \E k \in K : \A j \in K : k <= j
    <3>1. K \subseteq Nat /\ K # {}
      BY <2>1
    <3>. HIDE DEF K
    <3>. QED
      BY <3>1, MenorElemento
  <2>3. PICK k \in K : \A j \in K : k <= j
    BY <2>2
  <2>4. k \in Nat /\ a + d * k >= n /\ k <= n
    BY <2>1, <2>3
  <2>5. k # 0
    <3>1. a + d * 0 = a
      BY <1>0
    <3>. QED
      BY <1>0, <1>2, <2>4, <3>1
  <2>6. k - 1 \in Nat /\ k - 1 \notin K
    BY <2>3, <2>4, <2>5
  <2>7. a + d * (k - 1) < n
    <3>1. d * (k - 1) \in Nat
      BY <1>0, <2>6
    <3>. QED
      BY <1>0, <2>6, <3>1
  <2>8. k \in 1 .. n /\ P(k)
    BY <2>4, <2>5, <2>7
  <2>. DEFINE c == CHOOSE i \in 1 .. n : P(i)
  <2>9. c \in 1 .. n /\ P(c)
    <3>. HIDE DEF P
    <3>. QED
      BY <2>8
  <2>10. Cresce(v, n) = a + d * c
    BY <1>0, <1>2 DEF Cresce, a, d
  <2>. HIDE DEF c
  <2>11. c \in Nat /\ d * c \in Nat
    BY <1>0, <2>9
  <2>. QED
    BY <1>0, <2>9, <2>10, <2>11 DEF a
<1>. QED
  BY <1>0, <1>1, <1>2

(* An element whose bytes are inside the block has a position in it.       *)
LEMMA PosicoesProperties ==
    ASSUME NEW bytes \in Nat, NEW es \in Nat \ {0}, NEW n \in Nat, n * es <= bytes
    PROVE  \A k \in 0 .. n - 1 : k \in Posicoes(bytes, es)
<1>. DEFINE q == bytes \div es
<1>1. q \in Nat /\ bytes < q * es + es
  OBVIOUS
<1>. HIDE DEF q
<1>2. n <= q
  <2>. SUFFICES ASSUME n > q PROVE FALSE
    BY <1>1
  <2>1. q * es + es <= n * es
    BY <1>1
  <2>2. q * es \in Nat /\ n * es \in Nat
    BY <1>1
  <2>. QED
    BY <1>1, <2>1, <2>2
<1>. QED
  BY <1>1, <1>2 DEF Posicoes, q

(* A larger block has all the positions of a smaller one.                  *)
LEMMA PosicoesCrescem ==
    ASSUME NEW a \in Nat, NEW b \in Nat, a <= b, NEW es \in Nat \ {0}
    PROVE  Posicoes(a, es) \subseteq Posicoes(b, es)
<1>. DEFINE q == a \div es
<1>1. q \in Nat /\ q * es <= a
  OBVIOUS
<1>2. Posicoes(a, es) = 0 .. q - 1
  BY DEF Posicoes
<1>. HIDE DEF q
<1>3. q * es <= b
  <2>1. q * es \in Nat
    BY <1>1
  <2>. QED
    BY <1>1, <2>1
<1>4. \A k \in 0 .. q - 1 : k \in Posicoes(b, es)
  BY <1>1, <1>3, PosicoesProperties
<1>. QED
  BY <1>2, <1>4
(* The fields of a vector_t after an assignment.                           *)
Vet(alloc, incr, limite, es, n, vivo, p) ==
    [allocation_size |-> alloc, allocation_increment |-> incr,
     allocation_size_max |-> limite, element_size |-> es, count |-> n,
     vivo |-> vivo, p |-> p]

(* Reading the fields back gives what was assigned.                        *)
LEMMA VetProperties ==
    ASSUME NEW alloc, NEW incr, NEW limite, NEW es, NEW n, NEW vivo, NEW p
    PROVE  LET w == Vet(alloc, incr, limite, es, n, vivo, p)
           IN /\ w.allocation_size = alloc /\ w.allocation_increment = incr
              /\ w.allocation_size_max = limite /\ w.element_size = es
              /\ w.count = n /\ w.vivo = vivo /\ w.p = p
              /\ Forma(w)
BY DEF Vet, Forma

(* An assignment to one field leaves the others alone.                     *)
LEMMA CamposProperties ==
    ASSUME NEW v, Forma(v)
    PROVE  /\ \A s, q : [v EXCEPT !.allocation_size = s, !.p = q] =
                 Vet(s, v.allocation_increment, v.allocation_size_max, v.element_size,
                     v.count, v.vivo, q)
           /\ \A n, q : [v EXCEPT !.p = q, !.count = n] =
                 Vet(v.allocation_size, v.allocation_increment, v.allocation_size_max,
                     v.element_size, n, v.vivo, q)
           /\ \A n : [v EXCEPT !.count = n] =
                 Vet(v.allocation_size, v.allocation_increment, v.allocation_size_max,
                     v.element_size, n, v.vivo, v.p)
           /\ \A b, q, n : [v EXCEPT !.vivo = b, !.p = q, !.count = n] =
                 Vet(v.allocation_size, v.allocation_increment, v.allocation_size_max,
                     v.element_size, n, b, q)
<1>. DEFINE a == v.allocation_size
            i == v.allocation_increment
            m == v.allocation_size_max
            e == v.element_size
            c == v.count
            b == v.vivo
            q == v.p
<1>1. v = [allocation_size |-> a, allocation_increment |-> i, allocation_size_max |-> m,
           element_size |-> e, count |-> c, vivo |-> b, p |-> q]
  BY DEF Forma
<1>. HIDE DEF a, i, m, e, c, b, q
<1>. DEFINE R(s, n, k, t) ==
               [allocation_size |-> s, allocation_increment |-> i,
                allocation_size_max |-> m, element_size |-> e, count |-> n, vivo |-> k,
                p |-> t]
<1>6. \A s, n, k, t, x : /\ [R(s, n, k, t) EXCEPT !.allocation_size = x] = R(x, n, k, t)
                            /\ [R(s, n, k, t) EXCEPT !.count = x] = R(s, x, k, t)
                            /\ [R(s, n, k, t) EXCEPT !.vivo = x] = R(s, n, x, t)
                            /\ [R(s, n, k, t) EXCEPT !.p = x] = R(s, n, k, x)
  OBVIOUS
<1>7. v = R(a, c, b, q) /\ \A s, n, k, t : R(s, n, k, t) = Vet(s, i, m, e, n, k, t)
  BY <1>1 DEF Vet
<1>. HIDE DEF R
<1>2. ASSUME NEW s, NEW t
      PROVE  [v EXCEPT !.allocation_size = s, !.p = t] = Vet(s, i, m, e, c, b, t)
  <2>1. [v EXCEPT !.allocation_size = s, !.p = t] =
           [[v EXCEPT !.allocation_size = s] EXCEPT !.p = t]
    OBVIOUS
  <2>2. [v EXCEPT !.allocation_size = s] = R(s, c, b, q)
    BY <1>6, <1>7
  <2>3. [R(s, c, b, q) EXCEPT !.p = t] = R(s, c, b, t)
    BY <1>6
  <2>. QED
    BY <1>7, <2>1, <2>2, <2>3
<1>3. ASSUME NEW n, NEW t
      PROVE  [v EXCEPT !.p = t, !.count = n] = Vet(a, i, m, e, n, b, t)
  <2>1. [v EXCEPT !.p = t, !.count = n] = [[v EXCEPT !.p = t] EXCEPT !.count = n]
    OBVIOUS
  <2>2. [v EXCEPT !.p = t] = R(a, c, b, t)
    BY <1>6, <1>7
  <2>3. [R(a, c, b, t) EXCEPT !.count = n] = R(a, n, b, t)
    BY <1>6
  <2>. QED
    BY <1>7, <2>1, <2>2, <2>3
<1>4. \A n : [v EXCEPT !.count = n] = Vet(a, i, m, e, n, b, q)
  BY <1>6, <1>7
<1>5. ASSUME NEW d, NEW t, NEW n
      PROVE  [v EXCEPT !.vivo = d, !.p = t, !.count = n] = Vet(a, i, m, e, n, d, t)
  <2>1. [v EXCEPT !.vivo = d, !.p = t, !.count = n] =
           [[[v EXCEPT !.vivo = d] EXCEPT !.p = t] EXCEPT !.count = n]
    OBVIOUS
  <2>2. [v EXCEPT !.vivo = d] = R(a, c, d, q)
    BY <1>6, <1>7
  <2>3. [R(a, c, d, q) EXCEPT !.p = t] = R(a, c, d, t)
    BY <1>6
  <2>4. [R(a, c, d, t) EXCEPT !.count = n] = R(a, n, d, t)
    BY <1>6
  <2>. QED
    BY <1>7, <2>1, <2>2, <2>3, <2>4
<1>. QED
  BY <1>2, <1>3, <1>4, <1>5 DEF a, i, m, e, c, b, q
-----------------------------------------------------------------------------
(* vector_reserve: on success n elements fit; on failure nothing changed;  *)
(* either way the elements are the same.                                   *)
LEMMA ReservaProperties ==
    ASSUME NEW v, Bom(v), NEW n \in Nat, NEW o \in vector_reserve(v, n)
    PROVE  /\ o.r \in {"ok", "falha"}
           /\ o.r = "falha" => o.v = v
           /\ o.r = "ok" => n * v.element_size <= o.v.allocation_size
           /\ Bom(o.v)
           /\ o.v.count = v.count /\ o.v.element_size = v.element_size
           /\ \A k \in 0 .. v.count - 1 : o.v.p[k] = v.p[k]
<1>. DEFINE size == v.element_size * n
            novo == Menor(Cresce(v, size), v.allocation_size_max)
            w    == [v EXCEPT !.allocation_size = novo,
                              !.p = Realoca(@, Posicoes(novo, v.element_size))]
<1>1. /\ v.element_size \in Nat \ {0} /\ v.allocation_size \in Nat
      /\ v.allocation_size_max \in Nat /\ v.count \in Nat
      /\ v.allocation_increment \in Nat \ {0}
      /\ v.allocation_size <= v.allocation_size_max
  BY DEF Bom, Tamanhos
<1>2. size \in Nat /\ size = n * v.element_size
  BY <1>1
<1>. HIDE DEF size
<1>3. /\ Cresce(v, size) \in Nat /\ size <= Cresce(v, size)
      /\ v.allocation_size <= Cresce(v, size)
  BY <1>1, <1>2, CresceProperties
<1>4. /\ novo \in Nat /\ v.allocation_size <= novo /\ novo <= v.allocation_size_max
      /\ size <= v.allocation_size_max => size <= novo
  BY <1>1, <1>2, <1>3 DEF Menor
<1>. HIDE DEF novo
<1>5. /\ w.allocation_size = novo
      /\ w.p = Realoca(v.p, Posicoes(novo, v.element_size))
      /\ w.allocation_increment = v.allocation_increment
      /\ w.allocation_size_max = v.allocation_size_max
      /\ w.element_size = v.element_size /\ w.count = v.count /\ w.vivo = v.vivo
      /\ Forma(w)
  <2>1. w = Vet(novo, v.allocation_increment, v.allocation_size_max, v.element_size,
                v.count, v.vivo, Realoca(v.p, Posicoes(novo, v.element_size)))
    <3>1. w = [v EXCEPT !.allocation_size = novo,
                        !.p = Realoca(v.p, Posicoes(novo, v.element_size))]
      OBVIOUS
    <3>2. Forma(v)
      BY DEF Bom
    <3>3. \A s, q : [v EXCEPT !.allocation_size = s, !.p = q] =
             Vet(s, v.allocation_increment, v.allocation_size_max, v.element_size,
                 v.count, v.vivo, q)
      BY <3>2, CamposProperties
    <3>. HIDE DEF w
    <3>. QED
      BY <3>1, <3>3
  <2>. QED
    BY <2>1, VetProperties
<1>. HIDE DEF w
<1>6. v.p \in [Posicoes(v.allocation_size, v.element_size) -> Valores \cup {Lixo}]
  BY DEF Bom
<1>7. w.p \in [Posicoes(novo, v.element_size) -> Valores \cup {Lixo}]
  BY <1>5, <1>6 DEF Realoca
<1>8. \A k \in 0 .. v.count - 1 : /\ k \in Posicoes(v.allocation_size, v.element_size)
                                  /\ k \in Posicoes(novo, v.element_size)
  <2>1. v.count * v.element_size <= v.allocation_size
    BY DEF Bom
  <2>2. \A k \in 0 .. v.count - 1 : k \in Posicoes(v.allocation_size, v.element_size)
    BY <1>1, <2>1, PosicoesProperties
  <2>. QED
    BY <1>1, <1>4, <2>2, PosicoesCrescem
<1>9. \A k \in 0 .. v.count - 1 : w.p[k] = v.p[k]
  BY <1>5, <1>6, <1>8 DEF Realoca
<1>10. Bom(w)
  <2>1. v.count * v.element_size <= novo
    <3>1. v.count * v.element_size \in Nat /\ v.count * v.element_size <= v.allocation_size
      BY <1>1 DEF Bom
    <3>. QED
      BY <1>1, <1>4, <3>1
  <2>. QED
    BY <1>1, <1>4, <1>5, <1>7, <1>9, <2>1 DEF Bom, Tamanhos
<1>11. \/ size < v.allocation_size /\ o = Fim(v, "ok")
       \/ o = Fim(v, "falha")
       \/ size <= v.allocation_size_max /\ o = Fim(w, "ok")
  <2>1. vector_reserve(v, n) =
          CASE size < v.allocation_size     -> {Fim(v, "ok")}
            [] /\ size >= v.allocation_size
               /\ size > v.allocation_size_max -> {Fim(v, "falha")}
            [] OTHER -> {Fim(v, "falha"), Fim(w, "ok")}
    BY DEF vector_reserve, size, novo, w
  <2>2. CASE size < v.allocation_size
    BY <2>1, <2>2
  <2>3. CASE size >= v.allocation_size /\ size > v.allocation_size_max
    <3>1. ~ (size < v.allocation_size)
      BY <1>1, <1>2, <2>3
    <3>. QED
      BY <2>1, <2>3, <3>1
  <2>4. CASE size >= v.allocation_size /\ size <= v.allocation_size_max
    <3>1. ~ (size < v.allocation_size) /\ ~ (size > v.allocation_size_max)
      BY <1>1, <1>2, <2>4
    <3>. QED
      BY <2>1, <2>4, <3>1
  <2>. QED
    BY <1>1, <1>2, <2>2, <2>3, <2>4
<1>12. \A u, r : Fim(u, r).v = u /\ Fim(u, r).r = r
  BY DEF Fim
<1>. QED
  BY <1>1, <1>2, <1>4, <1>5, <1>9, <1>10, <1>11, <1>12

\* the range of a source that a call reads, and what a call that wrote it at j
\* leaves
Fonte(src, i, n) == \A k \in i .. i + n - 1 : k \in DOMAIN src /\ src[k] \in Valores
Escrito(w, v, j, src, i, n) ==
    LET c == IF j + n > v.count THEN j + n ELSE v.count
    IN /\ w.r \in {"ok", "falha"}
       /\ w.r = "falha" => w.v = v
       /\ w.r = "ok" =>
             /\ Bom(w.v) /\ w.v.element_size = v.element_size /\ w.v.count = c
             /\ \A k \in 0 .. c - 1 :
                   w.v.p[k] = IF k \in j .. j + n - 1 THEN src[k - j + i] ELSE v.p[k]

(* memcpy or memmove after a reserve: it stays inside both blocks, writes  *)
(* the range and nothing else, and count covers what was written.          *)
LEMMA EscreveProperties ==
    ASSUME NEW v, Bom(v), NEW j \in 0 .. v.count, NEW n \in Nat, NEW i \in Nat, NEW src,
           Fonte(src, i, n), NEW o \in vector_reserve(v, j + n)
    PROVE  Escrito(Escreve(o, j, src, i, n), v, j, src, i, n)
<1>. DEFINE w == Escreve(o, j, src, i, n)
            c == IF j + n > v.count THEN j + n ELSE v.count
<1>0. \A k \in i .. i + n - 1 : k \in DOMAIN src /\ src[k] \in Valores
  BY DEF Fonte
<1>1. j \in Nat /\ v.count \in Nat /\ j <= v.count /\ j + n \in Nat
      /\ v.element_size \in Nat \ {0}
  BY DEF Bom, Tamanhos
<1>2. /\ o.r \in {"ok", "falha"}
      /\ o.r = "falha" => o.v = v
      /\ o.r = "ok" => (j + n) * v.element_size <= o.v.allocation_size
      /\ Bom(o.v)
      /\ o.v.count = v.count /\ o.v.element_size = v.element_size
      /\ \A k \in 0 .. v.count - 1 : o.v.p[k] = v.p[k]
  BY <1>1, ReservaProperties
<1>3. CASE o.r = "falha"
  <2>1. w = o
    BY <1>3 DEF Escreve
  <2>. HIDE DEF w
  <2>. QED
    BY <1>2, <1>3, <2>1 DEF w, Escrito
<1>4. CASE o.r = "ok"
  <2>. DEFINE a == o.v.allocation_size
              es == v.element_size
              q == Memmove(o.v.p, j, src, i, n)
              u == [o.v EXCEPT !.p = q, !.count = c]
  <2>1. a \in Nat /\ o.v.p \in [Posicoes(a, es) -> Valores \cup {Lixo}]
        /\ Forma(o.v) /\ o.v.count * es <= a /\ es \in Nat \ {0}
    BY <1>2 DEF Bom, Tamanhos
  <2>2. c \in Nat /\ c * es <= a /\ j + n <= c /\ v.count <= c
    BY <1>1, <1>2, <1>4, <2>1
  <2>3. \A k \in 0 .. c - 1 : k \in Posicoes(a, es)
    <3>. HIDE DEF a, es, c
    <3>. QED
      BY <2>1, <2>2, PosicoesProperties
  <2>4. Dentro(o.v.p, j, n) /\ Dentro(src, i, n)
    <3>1. \A k \in j .. j + n - 1 : k \in 0 .. c - 1
      BY <1>1, <2>2
    <3>2. \A k \in j .. j + n - 1 : k \in DOMAIN o.v.p
      <4>. HIDE DEF a, es, c
      <4>. QED
        BY <2>1, <2>3, <3>1
    <3>. QED
      BY <1>0, <3>2 DEF Dentro
  <2>5. w = Fim(u, "ok")
    <3>1. w = Fim([o.v EXCEPT !.p = Memmove(@, j, src, i, n),
                              !.count = IF j + n > @ THEN j + n ELSE @], "ok")
      BY <1>4, <2>4 DEF Escreve
    <3>2. [o.v EXCEPT !.p = Memmove(@, j, src, i, n),
                      !.count = IF j + n > @ THEN j + n ELSE @] = u
      <4>1. [o.v EXCEPT !.p = Memmove(@, j, src, i, n),
                        !.count = IF j + n > @ THEN j + n ELSE @] =
            [[o.v EXCEPT !.p = q] EXCEPT !.count = IF j + n > @ THEN j + n ELSE @]
        OBVIOUS
      <4>2. [o.v EXCEPT !.p = q].count = v.count
        BY <1>2, <2>1 DEF Forma
      <4>. HIDE DEF q
      <4>3. [[o.v EXCEPT !.p = q] EXCEPT !.count = IF j + n > @ THEN j + n ELSE @] =
            [[o.v EXCEPT !.p = q] EXCEPT !.count = c]
        BY <4>2
      <4>4. u = [[o.v EXCEPT !.p = q] EXCEPT !.count = c]
        OBVIOUS
      <4>. QED
        BY <4>1, <4>3, <4>4 DEF q
    <3>. QED
      BY <3>1, <3>2
  <2>6. u = Vet(o.v.allocation_size, o.v.allocation_increment, o.v.allocation_size_max,
                o.v.element_size, c, o.v.vivo, q)
    <3>1. \A x, y : [o.v EXCEPT !.p = y, !.count = x] =
             Vet(o.v.allocation_size, o.v.allocation_increment, o.v.allocation_size_max,
                 o.v.element_size, x, o.v.vivo, y)
      BY <2>1, CamposProperties
    <3>. HIDE DEF q
    <3>. QED
      BY <3>1
  <2>. HIDE DEF u
  <2>7. /\ u.allocation_size = a /\ u.allocation_increment = o.v.allocation_increment
        /\ u.allocation_size_max = o.v.allocation_size_max /\ u.element_size = es
        /\ u.count = c /\ u.vivo = o.v.vivo /\ u.p = q /\ Forma(u)
    <3>. HIDE DEF q
    <3>. QED
      BY <1>2, <2>6, VetProperties
  <2>8. /\ q \in [Posicoes(a, es) -> Valores \cup {Lixo}]
        /\ \A k \in Posicoes(a, es) :
              q[k] = IF k \in j .. j + n - 1 THEN src[k - j + i] ELSE o.v.p[k]
    <3>1. DOMAIN o.v.p = Posicoes(a, es)
      BY <2>1
    <3>2. q = [k \in Posicoes(a, es) |-> IF k \in j .. j + n - 1 THEN src[k - j + i]
                                         ELSE o.v.p[k]]
      BY <3>1 DEF Memmove
    <3>3. \A k \in Posicoes(a, es) : k \in j .. j + n - 1 => src[k - j + i] \in Valores
      <4>. SUFFICES ASSUME NEW k \in j .. j + n - 1 PROVE src[k - j + i] \in Valores
        OBVIOUS
      <4>1. k - j + i \in i .. i + n - 1
        BY <1>1
      <4>. QED
        BY <1>0, <4>1
    <3>. HIDE DEF q, a, es
    <3>. QED
      BY <2>1, <3>2, <3>3
  <2>. HIDE DEF q
  <2>9. \A k \in 0 .. c - 1 :
           q[k] = IF k \in j .. j + n - 1 THEN src[k - j + i] ELSE v.p[k]
    <3>. SUFFICES ASSUME NEW k \in 0 .. c - 1, ~ (k \in j .. j + n - 1)
                  PROVE  q[k] = v.p[k]
      BY <2>3, <2>8
    <3>1. k \in 0 .. v.count - 1
      BY <1>1
    <3>. QED
      BY <1>2, <2>3, <2>8, <3>1
  <2>10. \A k \in 0 .. c - 1 : q[k] \in Valores
    <3>. SUFFICES ASSUME NEW k \in 0 .. c - 1 PROVE q[k] \in Valores
      OBVIOUS
    <3>1. CASE k \in j .. j + n - 1
      <4>1. k - j + i \in i .. i + n - 1
        BY <1>1, <3>1
      <4>. QED
        BY <1>0, <2>9, <3>1, <4>1
    <3>2. CASE ~ (k \in j .. j + n - 1)
      <4>1. k \in 0 .. v.count - 1
        BY <1>1, <3>2
      <4>. QED
        BY <2>9, <3>2, <4>1 DEF Bom
    <3>. QED
      BY <3>1, <3>2
  <2>11. Bom(u)
    BY <1>2, <2>1, <2>2, <2>7, <2>8, <2>10 DEF Bom, Tamanhos
  <2>12. w.v = u /\ w.r = "ok"
    BY <2>5 DEF Fim
  <2>. QED
    BY <2>7, <2>9, <2>11, <2>12 DEF Escrito
<1>. QED
  BY <1>2, <1>3, <1>4

(* vector_copy of a range of another live array, or of all of it.          *)
LEMMA CopiaProperties ==
    ASSUME NEW v, Bom(v), NEW s, Bom(s), NEW j \in 0 .. v.count, NEW i \in 0 .. s.count,
           NEW m \in 0 .. s.count - i, m = 0 => i = 0,
           NEW w \in vector_copy(v, s, i, m, j)
    PROVE  \/ w.r = "falha" /\ w.v = v
           \/ \E n \in 0 .. s.count - i : Escrito(w, v, j, s.p, i, n)
<1>. DEFINE n == IF m = 0 THEN s.count ELSE m
<1>1. /\ s.count \in Nat /\ v.count \in Nat /\ s.element_size \in Nat \ {0}
      /\ s.allocation_size \in Nat
      /\ s.p \in [Posicoes(s.allocation_size, s.element_size) -> Valores \cup {Lixo}]
      /\ s.count * s.element_size <= s.allocation_size
  BY DEF Bom, Tamanhos
<1>2. n \in 0 .. s.count - i /\ n \in Nat /\ i \in Nat
  BY <1>1
<1>3. \A k \in 0 .. s.count - 1 : k \in DOMAIN s.p /\ s.p[k] \in Valores
  <2>1. \A k \in 0 .. s.count - 1 : k \in Posicoes(s.allocation_size, s.element_size)
    BY <1>1, PosicoesProperties
  <2>. QED
    BY <1>1, <2>1 DEF Bom
<1>4. Fonte(s.p, i, n)
  <2>1. \A k \in i .. i + n - 1 : k \in 0 .. s.count - 1
    <3>. HIDE DEF n
    <3>. QED
      BY <1>1, <1>2
  <2>. QED
    BY <1>3, <2>1 DEF Fonte
<1>5. \/ w = Fim(v, "falha")
      \/ \E o \in vector_reserve(v, j + n) : w = Escreve(o, j, s.p, i, n)
  BY DEF vector_copy
<1>. HIDE DEF n
<1>6. CASE w = Fim(v, "falha")
  BY <1>6 DEF Fim
<1>7. ASSUME NEW o \in vector_reserve(v, j + n), w = Escreve(o, j, s.p, i, n)
      PROVE  Escrito(w, v, j, s.p, i, n)
  BY <1>2, <1>4, <1>7, EscreveProperties
<1>. QED
  BY <1>2, <1>5, <1>6, <1>7

(* vector_move of a range of the array over another part of it.            *)
LEMMA MoveProperties ==
    ASSUME NEW v, Bom(v), NEW i \in 0 .. v.count, NEW j \in 0 .. v.count,
           NEW m \in 0 .. v.count - i, NEW w \in vector_move(v, j, i, m)
    PROVE  LET n == IF m = 0 THEN v.count - i ELSE m
           IN n \in 0 .. v.count - i /\ Escrito(w, v, j, v.p, i, n)
<1>. DEFINE n == IF m = 0 THEN v.count - i ELSE m
            c == IF j + n > v.count THEN j + n ELSE v.count
<1>1. v.count \in Nat
  BY DEF Bom, Tamanhos
<1>2. n \in 0 .. v.count - i /\ n \in Nat /\ i \in Nat /\ j + n \in Nat
  BY <1>1
<1>3. PICK o \in vector_reserve(v, j + n) : w = Escreve(o, j, o.v.p, i, n)
  BY DEF vector_move
<1>. HIDE DEF n
<1>4. /\ Bom(o.v) /\ o.v.count = v.count
      /\ \A k \in 0 .. v.count - 1 : o.v.p[k] = v.p[k]
  BY <1>2, ReservaProperties
<1>5. \A k \in 0 .. v.count - 1 : k \in DOMAIN o.v.p /\ o.v.p[k] \in Valores
  <2>. DEFINE a == o.v.allocation_size
              es == o.v.element_size
  <2>1. /\ a \in Nat /\ es \in Nat \ {0} /\ v.count * es <= a
        /\ o.v.p \in [Posicoes(a, es) -> Valores \cup {Lixo}]
        /\ \A k \in 0 .. v.count - 1 : o.v.p[k] \in Valores
    BY <1>4 DEF Bom, Tamanhos
  <2>. HIDE DEF a, es
  <2>2. \A k \in 0 .. v.count - 1 : k \in Posicoes(a, es)
    BY <1>1, <2>1, PosicoesProperties
  <2>. QED
    BY <2>1, <2>2
<1>6. \A k \in i .. i + n - 1 : k \in 0 .. v.count - 1
  BY <1>1, <1>2
<1>7. Fonte(o.v.p, i, n)
  BY <1>5, <1>6 DEF Fonte
<1>8. Escrito(w, v, j, o.v.p, i, n)
  BY <1>2, <1>3, <1>7, EscreveProperties
<1>9. \A k \in j .. j + n - 1 : o.v.p[k - j + i] = v.p[k - j + i]
  <2>. SUFFICES ASSUME NEW k \in j .. j + n - 1 PROVE o.v.p[k - j + i] = v.p[k - j + i]
    OBVIOUS
  <2>1. k - j + i \in i .. i + n - 1
    BY <1>1, <1>2
  <2>. QED
    BY <1>4, <1>6, <2>1
<1>10. Escrito(w, v, j, v.p, i, n)
  BY <1>8, <1>9 DEF Escrito
<1>. QED
  BY <1>2, <1>10 DEF n

(* vector_append_element: the new element is last.                         *)
LEMMA AcrescentaProperties ==
    ASSUME NEW v, Bom(v), NEW e \in Valores, NEW size,
           NEW w \in vector_append_element(v, e, size)
    PROVE  /\ w.r \in {"ok", "falha"}
           /\ w.r = "falha" => w.v = v
           /\ w.r = "ok" => /\ Bom(w.v) /\ w.v.count = v.count + 1
                            /\ \A k \in 0 .. v.count : w.v.p[k] =
                                  IF k = v.count THEN e ELSE v.p[k]
<1>1. v.count \in Nat /\ v.element_size \in Nat \ {0}
  BY DEF Bom, Tamanhos
<1>2. CASE w = Fim(v, "falha")
  BY <1>2 DEF Fim
<1>3. CASE w # Fim(v, "falha")
  <2>1. PICK o \in vector_reserve(v, v.count + 1) :
           w = IF o.r # "ok" THEN o
               ELSE IF ~ Dentro(o.v.p, v.count, 1) THEN Fim(o.v, "ub")
               ELSE Fim([o.v EXCEPT !.p[v.count] = e, !.count = @ + 1], "ok")
    BY <1>3 DEF vector_append_element
  <2>2. /\ o.r \in {"ok", "falha"}
        /\ o.r = "falha" => o.v = v
        /\ o.r = "ok" => (v.count + 1) * v.element_size <= o.v.allocation_size
        /\ Bom(o.v)
        /\ o.v.count = v.count /\ o.v.element_size = v.element_size
        /\ \A k \in 0 .. v.count - 1 : o.v.p[k] = v.p[k]
    BY <1>1, ReservaProperties
  <2>3. CASE o.r = "falha"
    BY <2>1, <2>2, <2>3
  <2>4. CASE o.r = "ok"
    <3>. DEFINE a == o.v.allocation_size
                es == v.element_size
                c == v.count
                q == [o.v.p EXCEPT ![c] = e]
                u == [o.v EXCEPT !.p = q, !.count = c + 1]
    <3>1. /\ a \in Nat /\ o.v.p \in [Posicoes(a, es) -> Valores \cup {Lixo}]
          /\ Forma(o.v) /\ es \in Nat \ {0} /\ c \in Nat /\ (c + 1) * es <= a
      BY <2>2, <2>4 DEF Bom, Tamanhos
    <3>2. \A k \in 0 .. c : k \in Posicoes(a, es)
      <4>. HIDE DEF a, es, c
      <4>1. \A k \in 0 .. (c + 1) - 1 : k \in Posicoes(a, es)
        <5>1. c + 1 \in Nat
          BY <3>1
        <5>. QED
          BY <3>1, <5>1, PosicoesProperties
      <4>. QED
        BY <3>1, <4>1
    <3>3. Dentro(o.v.p, c, 1)
      <4>1. \A k \in c .. c + 1 - 1 : k \in 0 .. c
        BY <3>1
      <4>. QED
        BY <3>1, <3>2, <4>1 DEF Dentro
    <3>4. w = Fim(u, "ok")
      <4>1. w = Fim([o.v EXCEPT !.p[v.count] = e, !.count = @ + 1], "ok")
        BY <2>1, <2>4, <3>3
      <4>2. [o.v EXCEPT !.p[v.count] = e, !.count = @ + 1] =
            [[o.v EXCEPT !.p = q] EXCEPT !.count = @ + 1]
        OBVIOUS
      <4>3. [o.v EXCEPT !.p = q].count = c
        BY <2>2, <3>1 DEF Forma
      <4>4. [[o.v EXCEPT !.p = q] EXCEPT !.count = @ + 1] =
            [[o.v EXCEPT !.p = q] EXCEPT !.count = c + 1]
        <5>. HIDE DEF q, c
        <5>. QED
          BY <4>3
      <4>5. u = [[o.v EXCEPT !.p = q] EXCEPT !.count = c + 1]
        OBVIOUS
      <4>. QED
        BY <4>1, <4>2, <4>4, <4>5
    <3>5. u = Vet(o.v.allocation_size, o.v.allocation_increment, o.v.allocation_size_max,
                  o.v.element_size, c + 1, o.v.vivo, q)
      <4>1. \A x, y : [o.v EXCEPT !.p = y, !.count = x] =
               Vet(o.v.allocation_size, o.v.allocation_increment, o.v.allocation_size_max,
                   o.v.element_size, x, o.v.vivo, y)
        BY <3>1, CamposProperties
      <4>. HIDE DEF q, c
      <4>. QED
        BY <4>1
    <3>. HIDE DEF u
    <3>6. /\ u.allocation_size = a /\ u.allocation_increment = o.v.allocation_increment
          /\ u.allocation_size_max = o.v.allocation_size_max /\ u.element_size = es
          /\ u.count = c + 1 /\ u.vivo = o.v.vivo /\ u.p = q /\ Forma(u)
      <4>. HIDE DEF q, c
      <4>. QED
        BY <2>2, <3>5, VetProperties
    <3>7. /\ q \in [Posicoes(a, es) -> Valores \cup {Lixo}]
          /\ \A k \in 0 .. c : q[k] = IF k = c THEN e ELSE v.p[k]
      <4>1. \A k \in 0 .. c : k # c => k \in 0 .. c - 1
        BY <3>1
      <4>. QED
        BY <2>2, <3>1, <3>2, <4>1
    <3>8. \A k \in 0 .. c : q[k] \in Valores
      <4>1. \A k \in 0 .. c : k # c => k \in 0 .. c - 1
        BY <3>1
      <4>2. \A k \in 0 .. c - 1 : v.p[k] \in Valores
        BY DEF Bom
      <4>. HIDE DEF q, c
      <4>. QED
        BY <3>7, <4>1, <4>2
    <3>9. Bom(u)
      <4>1. c + 1 \in Nat /\ \A k \in 0 .. c + 1 - 1 : q[k] \in Valores
        BY <3>1, <3>8
      <4>. HIDE DEF q, c, a, es
      <4>2. Tamanhos(o.v) /\ o.v.vivo /\ o.v.allocation_increment > 0
            /\ a <= o.v.allocation_size_max
        BY <2>2 DEF Bom, a
      <4>. QED
        BY <3>1, <3>6, <3>7, <4>1, <4>2 DEF Bom, Tamanhos
    <3>10. w.v = u /\ w.r = "ok"
      BY <3>4 DEF Fim
    <3>. HIDE DEF q
    <3>. QED
      BY <3>6, <3>7, <3>9, <3>10
  <2>. QED
    BY <2>2, <2>3, <2>4
<1>. QED
  BY <1>2, <1>3

(* One element less.                                                       *)
LEMMA DecrementaProperties ==
    ASSUME NEW v, Bom(v), v.count # 0
    PROVE  LET w == [v EXCEPT !.count = @ - 1]
           IN Bom(w) /\ w.count = v.count - 1 /\ w.p = v.p
<1>. DEFINE w == [v EXCEPT !.count = @ - 1]
<1>1. /\ v.count \in Nat \ {0} /\ v.element_size \in Nat \ {0} /\ v.allocation_size \in Nat
      /\ v.count * v.element_size <= v.allocation_size
  BY DEF Bom, Tamanhos
<1>2. w = Vet(v.allocation_size, v.allocation_increment, v.allocation_size_max,
              v.element_size, v.count - 1, v.vivo, v.p)
  <2>1. w = [v EXCEPT !.count = v.count - 1]
    OBVIOUS
  <2>2. \A n : [v EXCEPT !.count = n] =
           Vet(v.allocation_size, v.allocation_increment, v.allocation_size_max,
               v.element_size, n, v.vivo, v.p)
    BY CamposProperties DEF Bom
  <2>. HIDE DEF w
  <2>. QED
    BY <2>1, <2>2
<1>. HIDE DEF w
<1>3. /\ w.allocation_size = v.allocation_size
      /\ w.allocation_increment = v.allocation_increment
      /\ w.allocation_size_max = v.allocation_size_max
      /\ w.element_size = v.element_size
      /\ w.count = v.count - 1 /\ w.vivo = v.vivo /\ w.p = v.p /\ Forma(w)
  BY <1>2, VetProperties
<1>4. (v.count - 1) * v.element_size <= v.allocation_size
  <2>1. (v.count - 1) * v.element_size = v.count * v.element_size - v.element_size
    BY <1>1
  <2>2. v.count * v.element_size \in Nat
    BY <1>1
  <2>. QED
    BY <1>1, <2>1, <2>2
<1>5. v.count - 1 \in Nat /\ \A k \in 0 .. (v.count - 1) - 1 : k \in 0 .. v.count - 1
  BY <1>1
<1>6. Bom(w)
  BY <1>3, <1>4, <1>5 DEF Bom, Tamanhos
<1>. QED
  BY <1>3, <1>6 DEF w

(* vector_remove: the elements after the one removed move down by one.     *)
LEMMA RetiraProperties ==
    ASSUME NEW v, Bom(v), NEW i \in 0 .. v.count - 1, NEW w \in vector_remove(v, i)
    PROVE  /\ w.r \in {"ok", "falha"}
           /\ w.r = "falha" => w.v = v
           /\ w.r = "ok" => /\ Bom(w.v) /\ w.v.count = v.count - 1
                            /\ \A k \in 0 .. v.count - 2 : w.v.p[k] =
                                  IF k < i THEN v.p[k] ELSE v.p[k + 1]
<1>1. v.count \in Nat /\ v.count # 0 /\ i \in Nat
  BY DEF Bom, Tamanhos
<1>2. CASE i + 1 = v.count
  <2>1. w = Fim([v EXCEPT !.count = @ - 1], "ok")
    BY <1>2 DEF vector_remove
  <2>2. w.v = [v EXCEPT !.count = @ - 1] /\ w.r = "ok"
    BY <2>1 DEF Fim
  <2>3. Bom(w.v) /\ w.v.count = v.count - 1 /\ w.v.p = v.p
    BY <1>1, <2>2, DecrementaProperties
  <2>4. \A k \in 0 .. v.count - 2 : k < i
    BY <1>1, <1>2
  <2>. QED
    BY <2>2, <2>3, <2>4
<1>3. CASE i + 1 # v.count
  <2>. DEFINE n == v.count - (i + 1)
  <2>1. PICK o \in vector_move(v, i, i + 1, 0) :
           w = IF o.r # "ok" THEN o ELSE Fim([o.v EXCEPT !.count = @ - 1], "ok")
    BY <1>3 DEF vector_remove
  <2>2. /\ i + 1 \in 0 .. v.count /\ i \in 0 .. v.count /\ 0 \in 0 .. v.count - (i + 1)
        /\ ~ (i + n > v.count) /\ i + n - 1 = v.count - 2
    BY <1>1
  <2>3. /\ o.r \in {"ok", "falha"}
        /\ o.r = "falha" => o.v = v
        /\ o.r = "ok" =>
              /\ Bom(o.v) /\ o.v.count = v.count
              /\ \A k \in 0 .. v.count - 1 : o.v.p[k] =
                    IF k \in i .. i + n - 1 THEN v.p[k - i + (i + 1)] ELSE v.p[k]
    <3>. DEFINE N == IF 0 = 0 THEN v.count - (i + 1) ELSE 0
    <3>1. Escrito(o, v, i, v.p, i + 1, N)
      BY <2>2, MoveProperties
    <3>2. N = n
      OBVIOUS
    <3>. HIDE DEF N
    <3>. QED
      BY <2>2, <3>1, <3>2 DEF Escrito
  <2>4. CASE o.r = "falha"
    BY <2>1, <2>3, <2>4
  <2>5. CASE o.r = "ok"
    <3>1. w.v = [o.v EXCEPT !.count = @ - 1] /\ w.r = "ok"
      BY <2>1, <2>5 DEF Fim
    <3>2. Bom(w.v) /\ w.v.count = v.count - 1 /\ w.v.p = o.v.p
      BY <1>1, <2>3, <2>5, <3>1, DecrementaProperties
    <3>3. ASSUME NEW k \in 0 .. v.count - 2
          PROVE  o.v.p[k] = IF k < i THEN v.p[k] ELSE v.p[k + 1]
      <4>1. k \in 0 .. v.count - 1 /\ (k \in i .. i + n - 1 <=> ~ (k < i))
            /\ k - i + (i + 1) = k + 1
        BY <1>1, <2>2
      <4>. QED
        BY <2>3, <2>5, <4>1
    <3>. QED
      BY <3>1, <3>2, <3>3
  <2>. QED
    BY <2>3, <2>4, <2>5
<1>. QED
  BY <1>2, <1>3

-----------------------------------------------------------------------------
(* The lists.                                                              *)

Lst(v) == [k \in 1 .. v.count |-> v.p[k - 1]]

(* A live array is a list of values.                                       *)
LEMMA LstProperties ==
    ASSUME NEW v, Bom(v)
    PROVE  /\ v.count \in Nat
           /\ Lst(v) \in Seq(Valores) /\ Len(Lst(v)) = v.count /\ Lst(v) # Morto
           /\ \A k \in 1 .. v.count : Lst(v)[k] = v.p[k - 1]
<1>1. v.count \in Nat /\ \A k \in 0 .. v.count - 1 : v.p[k] \in Valores
  BY DEF Bom, Tamanhos
<1>2. \A k \in 1 .. v.count : k - 1 \in 0 .. v.count - 1
  BY <1>1
<1>3. Lst(v) \in [1 .. v.count -> Valores]
  BY <1>1, <1>2 DEF Lst
<1>4. Lst(v) \in Seq(Valores) /\ Len(Lst(v)) = v.count
  BY <1>1, <1>3
<1>. QED
  BY <1>1, <1>4, ArgumentosAssumption DEF Lst

(* Appending.                                                              *)
LEMMA LstAcrescenta ==
    ASSUME NEW v, Bom(v), NEW u, Bom(u), NEW e \in Valores, u.count = v.count + 1,
           \A k \in 0 .. v.count : u.p[k] = IF k = v.count THEN e ELSE v.p[k]
    PROVE  Lst(u) = Append(Lst(v), e)
<1>. DEFINE s == Lst(v)
            t == Append(s, e)
<1>1. /\ v.count \in Nat /\ s \in Seq(Valores) /\ Len(s) = v.count
      /\ \A k \in 1 .. v.count : s[k] = v.p[k - 1]
  BY LstProperties
<1>2. /\ Lst(u) \in Seq(Valores) /\ Len(Lst(u)) = v.count + 1
      /\ \A k \in 1 .. v.count + 1 : Lst(u)[k] = u.p[k - 1]
  BY LstProperties
<1>. HIDE DEF s
<1>3. /\ t \in Seq(Valores) /\ Len(t) = v.count + 1
      /\ \A k \in 1 .. v.count : t[k] = s[k]
      /\ t[v.count + 1] = e
  BY <1>1, AppendProperties
<1>. HIDE DEF t
<1>4. ASSUME NEW k \in 1 .. v.count + 1 PROVE Lst(u)[k] = t[k]
  <2>1. k - 1 \in 0 .. v.count
    BY <1>1
  <2>2. CASE k = v.count + 1
    <3>1. k - 1 = v.count
      BY <1>1, <2>2
    <3>. QED
      BY <1>2, <1>3, <2>1, <2>2, <3>1
  <2>3. CASE k # v.count + 1
    <3>1. k - 1 # v.count /\ k \in 1 .. v.count
      BY <1>1, <2>3
    <3>. QED
      BY <1>1, <1>2, <1>3, <2>1, <3>1
  <2>. QED
    BY <2>2, <2>3
<1>5. Lst(u) = t
  BY <1>2, <1>3, <1>4, SeqEqual
<1>. QED
  BY <1>5 DEF s, t

(* Removing.                                                               *)
LEMMA LstRetira ==
    ASSUME NEW v, Bom(v), NEW u, Bom(u), NEW i \in 0 .. v.count - 1, u.count = v.count - 1,
           \A k \in 0 .. v.count - 2 : u.p[k] = IF k < i THEN v.p[k] ELSE v.p[k + 1]
    PROVE  Lst(u) = RemoveAt(Lst(v), i + 1)
<1>. DEFINE s == Lst(v)
            t == RemoveAt(s, i + 1)
<1>1. /\ v.count \in Nat /\ s \in Seq(Valores) /\ Len(s) = v.count
      /\ \A k \in 1 .. v.count : s[k] = v.p[k - 1]
  BY LstProperties
<1>2. /\ Lst(u) \in Seq(Valores) /\ Len(Lst(u)) = v.count - 1
      /\ \A k \in 1 .. v.count - 1 : Lst(u)[k] = u.p[k - 1]
  BY LstProperties
<1>. HIDE DEF s
<1>3. /\ t \in Seq(Valores) /\ Len(t) = v.count - 1
      /\ \A k \in 1 .. v.count - 1 : t[k] = IF k < i + 1 THEN s[k] ELSE s[k + 1]
  <2>1. i + 1 \in 1 .. Len(s)
    BY <1>1
  <2>. QED
    BY <1>1, <2>1, RemoveAtProperties
<1>. HIDE DEF t
<1>4. ASSUME NEW k \in 1 .. v.count - 1 PROVE Lst(u)[k] = t[k]
  <2>1. /\ k - 1 \in 0 .. v.count - 2 /\ (k - 1) + 1 = k /\ (k + 1) - 1 = k
        /\ k \in 1 .. v.count /\ k + 1 \in 1 .. v.count
        /\ (k - 1 < i <=> k < i + 1)
    BY <1>1
  <2>. QED
    BY <1>1, <1>2, <1>3, <2>1
<1>5. Lst(u) = t
  BY <1>2, <1>3, <1>4, SeqEqual
<1>. QED
  BY <1>5 DEF s, t

(* Copying and moving.                                                     *)
LEMMA LstSobrepor ==
    ASSUME NEW v, Bom(v), NEW s, Bom(s), NEW j \in 0 .. v.count, NEW i \in 0 .. s.count,
           NEW n \in 0 .. s.count - i, NEW w, w.r = "ok", Escrito(w, v, j, s.p, i, n)
    PROVE  Lst(w.v) = L!Sobrepor(Lst(v), Lst(s), i, n, j)
<1>. DEFINE c == IF j + n > v.count THEN j + n ELSE v.count
<1>1. /\ v.count \in Nat /\ s.count \in Nat /\ Len(Lst(v)) = v.count
      /\ \A k \in 1 .. v.count : Lst(v)[k] = v.p[k - 1]
      /\ \A k \in 1 .. s.count : Lst(s)[k] = s.p[k - 1]
  BY LstProperties
<1>2. /\ w.v.count = c
      /\ \A k \in 0 .. c - 1 :
            w.v.p[k] = IF k \in j .. j + n - 1 THEN s.p[k - j + i] ELSE v.p[k]
  BY DEF Escrito
<1>3. L!Sobrepor(Lst(v), Lst(s), i, n, j) =
         [k \in 1 .. c |-> IF j < k /\ k <= j + n THEN Lst(s)[i + k - j] ELSE Lst(v)[k]]
  BY <1>1 DEF L!Sobrepor
<1>4. ASSUME NEW k \in 1 .. c
      PROVE  w.v.p[k - 1] = IF j < k /\ k <= j + n THEN Lst(s)[i + k - j] ELSE Lst(v)[k]
  <2>1. k - 1 \in 0 .. c - 1
    BY <1>1
  <2>2. CASE j < k /\ k <= j + n
    <3>1. /\ k - 1 \in j .. j + n - 1 /\ i + k - j \in 1 .. s.count
          /\ (k - 1) - j + i = (i + k - j) - 1
      BY <1>1, <2>2
    <3>. QED
      BY <1>1, <1>2, <2>1, <2>2, <3>1
  <2>3. CASE ~ (j < k /\ k <= j + n)
    <3>1. ~ (k - 1 \in j .. j + n - 1) /\ k \in 1 .. v.count
      BY <1>1, <2>3
    <3>. QED
      BY <1>1, <1>2, <2>1, <2>3, <3>1
  <2>. QED
    BY <2>2, <2>3
<1>5. Lst(w.v) = [k \in 1 .. c |-> w.v.p[k - 1]]
  BY <1>2 DEF Lst
<1>. HIDE DEF c
<1>. QED
  BY <1>3, <1>4, <1>5
-----------------------------------------------------------------------------
(* Steps.                                                                  *)

(* The lists the arrays stand for.                                         *)
LEMMA ListasProperties ==
    ASSUME Indutivo
    PROVE  /\ DOMAIN Listas = Vetores
           /\ \A x \in Vivos : x \in Vetores /\ Bom(vec[x]) /\ Listas[x] = Lst(vec[x])
           /\ \A x \in Vetores \ Vivos : Listas[x] = Morto
           /\ Vivos = L!Vivos
<1>1. /\ DOMAIN Listas = Vetores
      /\ \A x \in Vivos : x \in Vetores /\ Bom(vec[x]) /\ Listas[x] = Lst(vec[x])
      /\ \A x \in Vetores \ Vivos : Listas[x] = Morto
  BY DEF Listas, Conteudo, Vivos, Indutivo, Lst
<1>2. \A x \in Vivos : Listas[x] # Morto
  BY <1>1, LstProperties
<1>3. Vivos = L!Vivos
  BY <1>1, <1>2 DEF L!Vivos, Vivos
<1>. QED
  BY <1>1, <1>3

(* One array changes: the invariant is kept, and only its list changes.    *)
LEMMA UmVetorMuda ==
    ASSUME Indutivo, NEW x \in Vetores, NEW w, vec' = [vec EXCEPT ![x] = w],
           Forma(w), Tamanhos(w), w.vivo => Bom(w), res' \in {"ok", "falha"}
    PROVE  /\ Indutivo'
           /\ Listas' = [Listas EXCEPT ![x] = IF w.vivo THEN Lst(w) ELSE Morto]
<1>1. DOMAIN vec = Vetores
  BY DEF Indutivo
<1>2. DOMAIN vec' = Vetores /\ vec'[x] = w /\ \A y \in Vetores \ {x} : vec'[y] = vec[y]
  BY <1>1
<1>3. Indutivo'
  BY <1>2 DEF Indutivo
<1>4. Listas' = [y \in Vetores |-> IF vec'[y].vivo THEN Lst(vec'[y]) ELSE Morto]
  BY DEF Listas, Conteudo, Lst
<1>5. Listas = [y \in Vetores |-> IF vec[y].vivo THEN Lst(vec[y]) ELSE Morto]
  BY DEF Listas, Conteudo, Lst
<1>. QED
  BY <1>2, <1>3, <1>4, <1>5

(* A call that failed, or that changed no element: the lists stay.         *)
LEMMA NadaMuda ==
    ASSUME Indutivo, NEW x \in Vivos, NEW w, vec' = [vec EXCEPT ![x] = w],
           Bom(w), Lst(w) = Lst(vec[x]), res' \in {"ok", "falha"}
    PROVE  Indutivo' /\ Listas' = Listas
<1>1. x \in Vetores /\ Listas[x] = Lst(vec[x]) /\ DOMAIN Listas = Vetores
  BY ListasProperties
<1>2. Forma(w) /\ Tamanhos(w) /\ w.vivo
  BY DEF Bom
<1>3. Indutivo' /\ Listas' = [Listas EXCEPT ![x] = IF w.vivo THEN Lst(w) ELSE Morto]
  BY <1>1, <1>2, UmVetorMuda
<1>4. Listas' = [Listas EXCEPT ![x] = Listas[x]]
  BY <1>1, <1>2, <1>3
<1>5. Listas = [y \in Vetores |-> Listas[y]]
  BY DEF Listas
<1>. QED
  BY <1>1, <1>3, <1>4, <1>5

(* vector_initialize makes an empty list, or fails and makes nothing.      *)
LEMMA PassoInicializa ==
    ASSUME Indutivo, NEW x \in Vetores, Inicializa(x)
    PROVE  Indutivo' /\ (L!Cria(x) \/ Listas' = Listas)
<1>1. PICK a \in Argumentos : Resultado(x, vector_initialize(vec[x], a))
  BY DEF Inicializa
<1>. DEFINE alloc == greater_pow2(a.allocation_size)
            novo == Vet(alloc, greater_pow2(a.allocation_increment), a.allocation_size_max,
                        a.element_size, 0, TRUE,
                        [k \in Posicoes(alloc, a.element_size) |-> Lixo])
<1>2. ~ vec[x].vivo /\ Listas[x] = Morto /\ Forma(vec[x]) /\ Tamanhos(vec[x])
      /\ DOMAIN Listas = Vetores
  BY ListasProperties DEF Inicializa, Vivos, Indutivo
<1>3. /\ a.allocation_increment \in Nat /\ a.allocation_size \in Nat
      /\ a.allocation_size_max \in Nat /\ a.element_size \in Nat \ {0}
      /\ alloc <= a.allocation_size_max
  BY ArgumentosAssumption
<1>4. alloc \in Nat \ {0} /\ greater_pow2(a.allocation_increment) \in Nat \ {0}
  BY <1>3, GreaterPow2Properties
<1>5. PICK o \in {Fim(novo, "ok"), Fim(vec[x], "falha")} :
         vec' = [vec EXCEPT ![x] = o.v] /\ res' = o.r
  BY <1>1 DEF Resultado, vector_initialize, Vet
<1>. HIDE DEF alloc
<1>6. CASE o = Fim(vec[x], "falha")
  <2>1. o.v = vec[x] /\ o.r = "falha"
    BY <1>6 DEF Fim
  <2>2. Indutivo' /\ Listas' = [Listas EXCEPT ![x] = Morto]
    BY <1>2, <1>5, <2>1, UmVetorMuda
  <2>3. Listas = [y \in Vetores |-> Listas[y]]
    BY DEF Listas
  <2>4. Listas' = Listas
    BY <1>2, <2>2, <2>3
  <2>. QED
    BY <2>2, <2>4
<1>7. CASE o = Fim(novo, "ok")
  <2>. DEFINE w == o.v
  <2>1. w = novo /\ o.r = "ok"
    BY <1>7 DEF Fim
  <2>. HIDE DEF w
  <2>2. /\ w.allocation_size = alloc
        /\ w.allocation_increment = greater_pow2(a.allocation_increment)
        /\ w.allocation_size_max = a.allocation_size_max
        /\ w.element_size = a.element_size /\ w.count = 0 /\ w.vivo = TRUE
        /\ w.p = [k \in Posicoes(alloc, a.element_size) |-> Lixo]
        /\ Forma(w)
    <3>1. PICK b : b = TRUE
      OBVIOUS
    <3>2. PICK q : q = [k \in Posicoes(alloc, a.element_size) |-> Lixo]
      OBVIOUS
    <3>3. w = Vet(alloc, greater_pow2(a.allocation_increment), a.allocation_size_max,
                  a.element_size, 0, b, q)
      BY <2>1, <3>1, <3>2
    <3>4. /\ w.allocation_size = alloc
          /\ w.allocation_increment = greater_pow2(a.allocation_increment)
          /\ w.allocation_size_max = a.allocation_size_max
          /\ w.element_size = a.element_size /\ w.count = 0 /\ w.vivo = b
          /\ w.p = q /\ Forma(w)
      BY <3>3, VetProperties
    <3>. QED
      BY <3>1, <3>2, <3>4
  <2>3. Tamanhos(w)
    <3>1. w.vivo \in BOOLEAN
      BY <2>2, Zenon
    <3>. QED
      BY <1>3, <1>4, <2>2, <3>1 DEF Tamanhos
  <2>4. w.count * w.element_size = 0
    BY <1>3, <2>2
  <2>5. Bom(w)
    BY <1>3, <1>4, <2>2, <2>3, <2>4 DEF Bom
  <2>6. Lst(w) = << >>
    <3>1. Lst(w) \in Seq(Valores) /\ Len(Lst(w)) = 0
      BY <2>2, <2>5, LstProperties
    <3>. QED
      BY <3>1, EmptySeq
  <2>7. Indutivo' /\ Listas' = [Listas EXCEPT ![x] = << >>]
    BY <1>5, <2>1, <2>2, <2>3, <2>5, <2>6, UmVetorMuda DEF w
  <2>. QED
    BY <1>2, <2>7 DEF L!Cria
<1>. QED
  BY <1>5, <1>6, <1>7

(* vector_destroy ends the list.                                           *)
LEMMA PassoDestroi ==
    ASSUME Indutivo, NEW x \in Vivos, Destroi(x)
    PROVE  Indutivo' /\ L!Destroi(x)
<1>1. /\ x \in Vetores /\ Bom(vec[x]) /\ Listas[x] = Lst(vec[x]) /\ DOMAIN Listas = Vetores
      /\ DOMAIN vec = Vetores
  BY ListasProperties DEF Indutivo
<1>. DEFINE v == vec[x]
            w == vector_destroy(v)
<1>2. w = Vet(v.allocation_size, v.allocation_increment, v.allocation_size_max,
              v.element_size, 0, FALSE, << >>)
  <2>1. \A b, q, n : [v EXCEPT !.vivo = b, !.p = q, !.count = n] =
           Vet(v.allocation_size, v.allocation_increment, v.allocation_size_max,
               v.element_size, n, b, q)
    BY <1>1, CamposProperties DEF Bom
  <2>2. w = [v EXCEPT !.vivo = FALSE, !.p = << >>, !.count = 0]
    BY DEF vector_destroy
  <2>. HIDE DEF v, w
  <2>. QED
    BY <2>1, <2>2
<1>3. vec' = [vec EXCEPT ![x] = w] /\ res' = "ok"
  BY <1>1 DEF Destroi
<1>. HIDE DEF w
<1>4. /\ w.allocation_size = v.allocation_size
      /\ w.allocation_increment = v.allocation_increment
      /\ w.allocation_size_max = v.allocation_size_max
      /\ w.element_size = v.element_size /\ w.count = 0 /\ w.vivo = FALSE /\ Forma(w)
  <2>1. PICK b, q : b = FALSE /\ q = << >>
    OBVIOUS
  <2>2. w = Vet(v.allocation_size, v.allocation_increment, v.allocation_size_max,
                v.element_size, 0, b, q)
    BY <1>2, <2>1
  <2>3. /\ w.allocation_size = v.allocation_size
        /\ w.allocation_increment = v.allocation_increment
        /\ w.allocation_size_max = v.allocation_size_max
        /\ w.element_size = v.element_size /\ w.count = 0 /\ w.vivo = b /\ Forma(w)
    BY <2>2, VetProperties
  <2>. QED
    BY <2>1, <2>3
<1>5. Tamanhos(w)
  <2>1. w.vivo \in BOOLEAN
    BY <1>4, Zenon
  <2>. QED
    BY <1>1, <1>4, <2>1 DEF Bom, Tamanhos
<1>6. Indutivo' /\ Listas' = [Listas EXCEPT ![x] = Morto]
  BY <1>1, <1>3, <1>4, <1>5, UmVetorMuda
<1>7. Listas[x] # Morto
  BY <1>1, LstProperties
<1>. QED
  BY <1>6, <1>7 DEF L!Destroi

(* vector_reserve is not seen by the lists.                                *)
LEMMA PassoReserva ==
    ASSUME Indutivo, NEW x \in Vivos, Reserva(x)
    PROVE  Indutivo' /\ Listas' = Listas
<1>1. x \in Vetores /\ Bom(vec[x])
  BY ListasProperties
<1>2. vec[x].count \in Nat
  BY <1>1, LstProperties
<1>3. PICK n \in Nat : Resultado(x, vector_reserve(vec[x], n))
  BY <1>2 DEF Reserva
<1>4. PICK o \in vector_reserve(vec[x], n) : vec' = [vec EXCEPT ![x] = o.v] /\ res' = o.r
  BY <1>3 DEF Resultado
<1>5. /\ o.r \in {"ok", "falha"} /\ Bom(o.v) /\ o.v.count = vec[x].count
      /\ \A k \in 0 .. vec[x].count - 1 : o.v.p[k] = vec[x].p[k]
  BY <1>1, ReservaProperties
<1>6. Lst(o.v) = Lst(vec[x])
  <2>1. \A k \in 1 .. vec[x].count : k - 1 \in 0 .. vec[x].count - 1
    BY <1>2
  <2>. QED
    BY <1>5, <2>1 DEF Lst
<1>. QED
  BY <1>4, <1>5, <1>6, NadaMuda

(* A call that reports failure changes nothing.                            *)
LEMMA PassoFalha ==
    ASSUME Indutivo, NEW x \in Vivos, NEW o, o.r = "falha", o.v = vec[x],
           vec' = [vec EXCEPT ![x] = o.v], res' = o.r
    PROVE  Indutivo' /\ Listas' = Listas
<1>1. Bom(o.v) /\ Lst(o.v) = Lst(vec[x])
  BY ListasProperties
<1>. QED
  BY <1>1, NadaMuda

(* A call that succeeds leaves its array live, with a new list.            *)
LEMMA PassoSucesso ==
    ASSUME Indutivo, NEW x \in Vivos, NEW o, o.r = "ok", Bom(o.v),
           vec' = [vec EXCEPT ![x] = o.v], res' = o.r
    PROVE  Indutivo' /\ Listas' = [Listas EXCEPT ![x] = Lst(o.v)]
<1>1. x \in Vetores /\ Forma(o.v) /\ Tamanhos(o.v) /\ o.v.vivo
  BY ListasProperties DEF Bom
<1>2. Listas' = [Listas EXCEPT ![x] = IF o.v.vivo THEN Lst(o.v) ELSE Morto] /\ Indutivo'
  BY <1>1, UmVetorMuda
<1>. QED
  BY <1>1, <1>2

(* vector_append: the list with one element more, or as it was.            *)
LEMMA PassoAcrescenta ==
    ASSUME Indutivo, NEW x \in Vivos, Acrescenta(x)
    PROVE  Indutivo' /\ ((\E e \in Valores : L!Acrescenta(x, e)) \/ Listas' = Listas)
<1>1. x \in Vetores /\ Bom(vec[x]) /\ Listas[x] = Lst(vec[x]) /\ DOMAIN Listas = Vetores
  BY ListasProperties
<1>2. PICK e \in Valores, size \in {y.element_size : y \in Argumentos} :
         Resultado(x, vector_append_element(vec[x], e, size))
  BY DEF Acrescenta
<1>3. PICK o \in vector_append_element(vec[x], e, size) :
         vec' = [vec EXCEPT ![x] = o.v] /\ res' = o.r
  BY <1>2 DEF Resultado
<1>4. /\ o.r \in {"ok", "falha"}
      /\ o.r = "falha" => o.v = vec[x]
      /\ o.r = "ok" => /\ Bom(o.v) /\ o.v.count = vec[x].count + 1
                       /\ \A k \in 0 .. vec[x].count : o.v.p[k] =
                             IF k = vec[x].count THEN e ELSE vec[x].p[k]
  BY <1>1, AcrescentaProperties
<1>5. CASE o.r = "falha"
  BY <1>3, <1>4, <1>5, PassoFalha
<1>6. CASE o.r = "ok"
  <2>1. Lst(o.v) = Append(Lst(vec[x]), e)
    BY <1>1, <1>4, <1>6, LstAcrescenta
  <2>2. Indutivo' /\ Listas' = [Listas EXCEPT ![x] = Lst(o.v)]
    BY <1>3, <1>4, <1>6, PassoSucesso
  <2>3. L!Acrescenta(x, e)
    BY <1>1, <2>1, <2>2 DEF L!Acrescenta
  <2>. QED
    BY <2>2, <2>3
<1>. QED
  BY <1>4, <1>5, <1>6

(* vector_remove: the list without that element, or as it was.             *)
LEMMA PassoRetira ==
    ASSUME Indutivo, NEW x \in Vivos, Retira(x)
    PROVE  /\ Indutivo'
           /\ ((\E i \in 0 .. Len(Listas[x]) - 1 : L!Retira(x, i)) \/ Listas' = Listas)
<1>1. x \in Vetores /\ Bom(vec[x]) /\ Listas[x] = Lst(vec[x]) /\ DOMAIN Listas = Vetores
  BY ListasProperties
<1>2. Len(Listas[x]) = vec[x].count
  BY <1>1, LstProperties
<1>3. PICK i \in 0 .. vec[x].count - 1 : Resultado(x, vector_remove(vec[x], i))
  BY DEF Retira
<1>4. PICK o \in vector_remove(vec[x], i) : vec' = [vec EXCEPT ![x] = o.v] /\ res' = o.r
  BY <1>3 DEF Resultado
<1>5. /\ o.r \in {"ok", "falha"}
      /\ o.r = "falha" => o.v = vec[x]
      /\ o.r = "ok" => /\ Bom(o.v) /\ o.v.count = vec[x].count - 1
                       /\ \A k \in 0 .. vec[x].count - 2 : o.v.p[k] =
                             IF k < i THEN vec[x].p[k] ELSE vec[x].p[k + 1]
  BY <1>1, RetiraProperties
<1>6. CASE o.r = "falha"
  BY <1>4, <1>5, <1>6, PassoFalha
<1>7. CASE o.r = "ok"
  <2>1. Lst(o.v) = RemoveAt(Lst(vec[x]), i + 1)
    BY <1>1, <1>5, <1>7, LstRetira
  <2>2. Indutivo' /\ Listas' = [Listas EXCEPT ![x] = Lst(o.v)]
    BY <1>4, <1>5, <1>7, PassoSucesso
  <2>3. Listas' = [Listas EXCEPT ![x] = RemoveAt(Listas[x], i + 1)]
    BY <1>1, <2>1, <2>2
  <2>4. L!Retira(x, i)
    BY <2>3 DEF L!Retira, L!RemoveAt, RemoveAt
  <2>. QED
    BY <1>2, <2>2, <2>4
<1>. QED
  BY <1>5, <1>6, <1>7

(* A range written over a list, or the list as it was.                     *)
LEMMA PassoEscrito ==
    ASSUME Indutivo, NEW x \in Vivos, NEW y \in Vivos,
           NEW j \in 0 .. vec[x].count, NEW i \in 0 .. vec[y].count,
           NEW n \in 0 .. vec[y].count - i,
           NEW o, Escrito(o, vec[x], j, vec[y].p, i, n),
           vec' = [vec EXCEPT ![x] = o.v], res' = o.r
    PROVE  /\ Indutivo'
           /\ \/ Listas' = Listas
              \/ \E k \in 0 .. Len(Listas[y]) :
                    \E m \in 0 .. Len(Listas[y]) - k :
                       \E l \in 0 .. Len(Listas[x]) : L!Copia(x, y, k, m, l)
<1>1. /\ x \in Vetores /\ Bom(vec[x]) /\ Listas[x] = Lst(vec[x]) /\ DOMAIN Listas = Vetores
      /\ Bom(vec[y]) /\ Listas[y] = Lst(vec[y])
  BY ListasProperties
<1>2. Len(Listas[x]) = vec[x].count /\ Len(Listas[y]) = vec[y].count
  BY <1>1, LstProperties
<1>3. /\ o.r \in {"ok", "falha"}
      /\ o.r = "falha" => o.v = vec[x]
      /\ o.r = "ok" => Bom(o.v)
  BY DEF Escrito
<1>4. CASE o.r = "falha"
  BY <1>3, <1>4, PassoFalha
<1>5. CASE o.r = "ok"
  <2>1. Lst(o.v) = L!Sobrepor(Lst(vec[x]), Lst(vec[y]), i, n, j)
    BY <1>1, <1>5, LstSobrepor
  <2>2. Indutivo' /\ Listas' = [Listas EXCEPT ![x] = Lst(o.v)]
    BY <1>3, <1>5, PassoSucesso
  <2>3. L!Copia(x, y, i, n, j)
    BY <1>1, <2>1, <2>2 DEF L!Copia
  <2>. QED
    BY <1>2, <2>2, <2>3
<1>. QED
  BY <1>3, <1>4, <1>5

(* Every step is a step of the lists or leaves them as they were.          *)
LEMMA Passo ==
    ASSUME Indutivo, [Next]_vars
    PROVE  Indutivo' /\ [L!Next]_Listas
<1>1. Vivos = L!Vivos
  BY ListasProperties
<1>2. CASE UNCHANGED vars
  <2>1. vec' = vec /\ res' = res
    BY <1>2 DEF vars
  <2>2. Indutivo'
    BY <2>1 DEF Indutivo
  <2>3. Listas' = Listas
    BY <2>1 DEF Listas, Conteudo
  <2>. QED
    BY <2>2, <2>3
<1>3. ASSUME NEW x \in Vetores, Inicializa(x) PROVE Indutivo' /\ [L!Next]_Listas
  BY <1>3, PassoInicializa DEF L!Next
<1>4. ASSUME NEW x \in Vivos, Destroi(x) PROVE Indutivo' /\ [L!Next]_Listas
  BY <1>1, <1>4, PassoDestroi DEF L!Next
<1>5. ASSUME NEW x \in Vivos, Reserva(x) PROVE Indutivo' /\ [L!Next]_Listas
  BY <1>5, PassoReserva
<1>6. ASSUME NEW x \in Vivos, Acrescenta(x) PROVE Indutivo' /\ [L!Next]_Listas
  BY <1>1, <1>6, PassoAcrescenta DEF L!Next
<1>7. ASSUME NEW x \in Vivos, Retira(x) PROVE Indutivo' /\ [L!Next]_Listas
  BY <1>1, <1>7, PassoRetira DEF L!Next
<1>8. ASSUME NEW x \in Vivos, NEW y \in Vivos, Indutivo',
             \/ Listas' = Listas
             \/ \E k \in 0 .. Len(Listas[y]) :
                   \E m \in 0 .. Len(Listas[y]) - k :
                      \E l \in 0 .. Len(Listas[x]) : L!Copia(x, y, k, m, l)
      PROVE  Indutivo' /\ [L!Next]_Listas
  BY <1>1, <1>8 DEF L!Next
<1>9. \A x \in Vivos : vec[x].count \in Nat /\ Bom(vec[x])
  BY ListasProperties, LstProperties
<1>10. ASSUME NEW x \in Vivos, Move(x) PROVE Indutivo' /\ [L!Next]_Listas
  <2>1. PICK i \in 0 .. vec[x].count, j \in 0 .. vec[x].count :
           \E m \in 0 .. vec[x].count - i : Resultado(x, vector_move(vec[x], j, i, m))
    BY <1>10 DEF Move
  <2>2. PICK m \in 0 .. vec[x].count - i : Resultado(x, vector_move(vec[x], j, i, m))
    BY <2>1
  <2>3. PICK o \in vector_move(vec[x], j, i, m) :
           vec' = [vec EXCEPT ![x] = o.v] /\ res' = o.r
    BY <2>2 DEF Resultado
  <2>. DEFINE n == IF m = 0 THEN vec[x].count - i ELSE m
  <2>4. n \in 0 .. vec[x].count - i /\ Escrito(o, vec[x], j, vec[x].p, i, n)
    BY <1>9, MoveProperties
  <2>. HIDE DEF n
  <2>. QED
    BY <1>8, <2>3, <2>4, PassoEscrito
<1>11. ASSUME NEW x \in Vivos, NEW y \in Vivos, Copia(x, y)
       PROVE  Indutivo' /\ [L!Next]_Listas
  <2>1. PICK i \in 0 .. vec[y].count, j \in 0 .. vec[x].count :
           \E m \in 0 .. vec[y].count - i :
              (m = 0 => i = 0) /\ Resultado(x, vector_copy(vec[x], vec[y], i, m, j))
    <3>1. CASE \E i \in 0 .. vec[y].count, j \in 0 .. vec[x].count :
                  \E n \in 1 .. vec[y].count - i :
                     Resultado(x, vector_copy(vec[x], vec[y], i, n, j))
      <4>1. PICK i \in 0 .. vec[y].count, j \in 0 .. vec[x].count :
                  \E n \in 1 .. vec[y].count - i :
                     Resultado(x, vector_copy(vec[x], vec[y], i, n, j))
        BY <3>1
      <4>2. PICK n \in 1 .. vec[y].count - i :
               Resultado(x, vector_copy(vec[x], vec[y], i, n, j))
        BY <4>1
      <4>3. n \in 0 .. vec[y].count - i /\ n # 0
        BY <1>9
      <4>. QED
        BY <4>2, <4>3
    <3>2. CASE Resultado(x, vector_copy(vec[x], vec[y], 0, 0, 0))
      <4>1. 0 \in 0 .. vec[y].count /\ 0 \in 0 .. vec[x].count /\ 0 \in 0 .. vec[y].count - 0
        BY <1>9
      <4>. QED
        BY <3>2, <4>1
    <3>. QED
      BY <1>11, <3>1, <3>2 DEF Copia
  <2>2. PICK m \in 0 .. vec[y].count - i :
           (m = 0 => i = 0) /\ Resultado(x, vector_copy(vec[x], vec[y], i, m, j))
    BY <2>1
  <2>3. PICK o \in vector_copy(vec[x], vec[y], i, m, j) :
           vec' = [vec EXCEPT ![x] = o.v] /\ res' = o.r
    BY <2>2 DEF Resultado
  <2>4. \/ o.r = "falha" /\ o.v = vec[x]
        \/ \E n \in 0 .. vec[y].count - i : Escrito(o, vec[x], j, vec[y].p, i, n)
    BY <1>9, <2>2, CopiaProperties
  <2>5. CASE o.r = "falha" /\ o.v = vec[x]
    BY <2>3, <2>5, PassoFalha
  <2>6. ASSUME NEW n \in 0 .. vec[y].count - i, Escrito(o, vec[x], j, vec[y].p, i, n)
        PROVE  Indutivo' /\ [L!Next]_Listas
    BY <1>8, <2>3, <2>6, PassoEscrito
  <2>. QED
    BY <2>4, <2>5, <2>6
<1>. QED
  BY <1>2, <1>3, <1>4, <1>5, <1>6, <1>7, <1>10, <1>11 DEF Next

(* The initial state satisfies the invariant and is the abstract one.      *)
LEMMA Inicio == Init => Indutivo /\ L!Init
<1>. SUFFICES ASSUME Init PROVE Indutivo /\ L!Init
  OBVIOUS
<1>1. /\ NaoInicializado = Vet(0, 0, 0, 1, 0, FALSE, << >>)
      /\ vec = [x \in Vetores |-> NaoInicializado] /\ res = "ok"
  BY DEF NaoInicializado, Vet, Init
<1>2. LET w == NaoInicializado
      IN /\ w.allocation_size = 0 /\ w.allocation_increment = 0
         /\ w.allocation_size_max = 0 /\ w.element_size = 1 /\ w.count = 0
         /\ w.vivo = FALSE /\ Forma(w)
  <2>1. PICK b, q : b = FALSE /\ q = << >>
    OBVIOUS
  <2>2. NaoInicializado = Vet(0, 0, 0, 1, 0, b, q)
    BY <1>1, <2>1
  <2>3. LET w == NaoInicializado
        IN /\ w.allocation_size = 0 /\ w.allocation_increment = 0
           /\ w.allocation_size_max = 0 /\ w.element_size = 1 /\ w.count = 0
           /\ w.vivo = b /\ Forma(w)
    BY <2>2, VetProperties
  <2>. QED
    BY <2>1, <2>3
<1>3. Tamanhos(NaoInicializado)
  <2>1. NaoInicializado.vivo \in BOOLEAN
    BY <1>2, Zenon
  <2>. QED
    BY <1>2, <2>1 DEF Tamanhos
<1>4. Indutivo
  BY <1>1, <1>2, <1>3 DEF Indutivo
<1>5. L!Init
  BY <1>1, <1>2 DEF L!Init, Listas, Conteudo
<1>. QED
  BY <1>4, <1>5
-----------------------------------------------------------------------------
(* The results.                                                            *)

(* The invariant holds in every reachable state.                           *)
LEMMA SempreIndutivo == Spec => []Indutivo
<1>1. Indutivo /\ [Next]_vars => Indutivo'
  BY Passo
<1>. QED
  BY <1>1, Inicio, PTL DEF Spec

(* The vector_t structures are well-formed: a live array's block has as    *)
(* many positions as its allocation_size says.                             *)
THEOREM TiposCorretos == Spec => []TypeOK
<1>1. Indutivo => TypeOK
  BY DEF Indutivo, Bom, Tamanhos, TypeOK
<1>. QED
  BY <1>1, SempreIndutivo, PTL

(* No call of vector.c reads or writes outside its block, and no element   *)
(* below count is unwritten memory, for any sizes, after any sequence of   *)
(* calls and allocation failures.                                          *)
THEOREM AcessosNoBloco == Spec => []MemoriaSegura
<1>1. Indutivo => MemoriaSegura
  <2>. SUFFICES ASSUME Indutivo PROVE MemoriaSegura
    OBVIOUS
  <2>1. res # "ub"
    BY DEF Indutivo
  <2>2. ASSUME NEW x \in Vivos, NEW k \in 0 .. vec[x].count - 1
        PROVE  k \in DOMAIN vec[x].p /\ vec[x].p[k] # Lixo
    <3>1. /\ vec[x].allocation_size \in Nat /\ vec[x].element_size \in Nat \ {0}
          /\ vec[x].count \in Nat
          /\ vec[x].count * vec[x].element_size <= vec[x].allocation_size
          /\ DOMAIN vec[x].p = Posicoes(vec[x].allocation_size, vec[x].element_size)
          /\ vec[x].p[k] \in Valores
      BY DEF Indutivo, Vivos, Bom, Tamanhos
    <3>2. k \in Posicoes(vec[x].allocation_size, vec[x].element_size)
      BY <3>1, PosicoesProperties
    <3>. QED
      BY <3>1, <3>2, ArgumentosAssumption
  <2>. QED
    BY <2>1, <2>2 DEF MemoriaSegura
<1>. QED
  BY <1>1, SempreIndutivo, PTL

(* However a block grew, neither it nor its elements pass the limit given  *)
(* to vector_initialize.                                                   *)
THEOREM LimitesRespeitados == Spec => []LimiteRespeitado
<1>1. Indutivo => LimiteRespeitado
  <2>. SUFFICES ASSUME Indutivo, NEW x \in Vivos
                PROVE  /\ vec[x].allocation_size <= vec[x].allocation_size_max
                       /\ vec[x].count * vec[x].element_size <= vec[x].allocation_size_max
    BY DEF LimiteRespeitado
  <2>1. /\ vec[x].count \in Nat /\ vec[x].element_size \in Nat
        /\ vec[x].allocation_size \in Nat /\ vec[x].allocation_size_max \in Nat
        /\ vec[x].allocation_size <= vec[x].allocation_size_max
        /\ vec[x].count * vec[x].element_size <= vec[x].allocation_size
    BY DEF Indutivo, Vivos, Bom, Tamanhos
  <2>2. vec[x].count * vec[x].element_size \in Nat
    BY <2>1
  <2>. QED
    BY <2>1, <2>2
<1>. QED
  BY <1>1, SempreIndutivo, PTL

(* The arrays of vector.c implement the abstract lists: a call does its    *)
(* list operation entirely, or fails and changes no list.                  *)
THEOREM VetoresSaoListas == Spec => ImplementaLista
<1>1. Init => L!Init
  BY Inicio
<1>2. Indutivo /\ [Next]_vars => [L!Next]_Listas
  BY Passo
<1>. QED
  BY <1>1, <1>2, SempreIndutivo, PTL DEF Spec, ImplementaLista, L!Spec
=============================================================================
