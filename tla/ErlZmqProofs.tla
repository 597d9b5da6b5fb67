---------------------------- MODULE ErlZmqProofs ----------------------------
(***************************************************************************)
(* Proofs about the Erlang binding to ZeroMQ, for any number of processes, *)
(* sockets, calls, messages and any capacity of the pipe and the vectors.  *)
(***************************************************************************)
EXTENDS ErlZmq, Lemas

-----------------------------------------------------------------------------
(* The inductive invariant.                                                *)

Antes == {"tranca", "ctx", "envia", "cheia"}   \* before the request is on the pipe
Depois == {"keep", "timeo", "espera"}          \* after it

NaFila == Range(fila)
Campos(e) == [tipo |-> e.tipo, s |-> e.s, p |-> e.p, ref |-> e.ref, zmq |-> e.zmq]
Vistos(q) == {Campos(q[i]) : i \in DOMAIN q}   \* the items, but for what was polled
NosItens == Vistos(itens)
Saidas == Range(saidas)

Distinta(q) == \A i, j \in DOMAIN q : q[i].ref = q[j].ref => i = j

\* the context, its thread and the pipe
InvEstado ==
    /\ ctx = "nada" <=> fio.pc = "nada"
    /\ ctx = "terminado" <=> Terminada
    /\ ctx # "vivo" => fila = << >> /\ itens = << >>
    /\ dono # Nenhum => ctx = "vivo"
    /\ fio.pronta => fila # << >> /\ fio.pc \in {"ciclo", "bloqueado"}
    /\ fio.pc = "bloqueado" => Vez # 0
    /\ \A s \in Socks : sock[s].estado # "nada" => ctx # "nada"
    /\ \A p \in Procs : proc[p].pc # "livre" => ctx # "nada"
    /\ \A p \in Procs :
         /\ proc[p].pc = "tranca" => proc[p].op \in {"bind", "setsockopt", "send", "recv"}
         /\ proc[p].op \in {"bind", "setsockopt"} => proc[p].pc \in {"livre", "tranca"}

\* every ref in use was given by a call
InvLimites ==
    /\ \A e \in NaFila : e.p \in Procs /\ e.ref \in 1 .. chamadas
    /\ \A e \in NosItens : e.ref \in 1 .. chamadas
    /\ \A p \in Procs : IF proc[p].pc = "livre" THEN proc[p].ref = 0
                        ELSE proc[p].ref \in 1 .. chamadas
    /\ Saidas \subseteq 1 .. chamadas
    /\ \A p \in Procs : \A m \in caixa[p] : m.ref \in 1 .. chamadas
    /\ fio.pc = "term" => fio.ped.p \in Procs /\ fio.ped.ref \in 1 .. chamadas

SemPedido(r) == /\ \A e \in NaFila : e.ref # r
                /\ \A e \in NosItens : e.ref # r
                /\ fio.pc = "term" => fio.ped.ref # r
SemResposta(r) == \A p \in Procs : \A m \in caixa[p] : m.ref # r

\* one ref, one request, one answer, one caller
RefDeUm == \A p, q \in Procs : proc[p].pc # "livre" /\ proc[p].ref = proc[q].ref => p = q
RefNova == \A p \in Procs : proc[p].pc \in Antes => /\ SemPedido(proc[p].ref)
                                                     /\ SemResposta(proc[p].ref)
                                                     /\ proc[p].ref \notin Saidas
Guardado(e) == /\ e.ref \notin Saidas
               /\ SemResposta(e.ref)
               /\ fio.pc = "term" => e.ref # fio.ped.ref
               /\ \A q \in Procs : proc[q].ref = e.ref => e.p = q /\ e.s = proc[q].s
PedidosFila == \A e \in NaFila : Guardado(e) /\ \A d \in NosItens : e.ref # d.ref
PedidosItens == \A e \in NosItens : Guardado(e)
PedidoDoTerm ==
    fio.pc = "term" => /\ SemResposta(fio.ped.ref)
                       /\ \A q \in Procs : proc[q].ref = fio.ped.ref => fio.ped.p = q
SaidaUnica == \A i, j \in DOMAIN saidas : saidas[i] = saidas[j] => i = j
RespostaDoDono == \A p, q \in Procs : \A m \in caixa[q] : m.ref = proc[p].ref => p = q
RespostaUnica == \A p \in Procs : \A m, n \in caixa[p] : m.ref = n.ref => m = n
InvRefs == /\ RefDeUm /\ RefNova /\ Distinta(fila) /\ Distinta(itens)
           /\ PedidosFila /\ PedidosItens /\ PedidoDoTerm
           /\ SaidaUnica /\ RespostaDoDono /\ RespostaUnica
-----------------------------------------------------------------------------
(* The pipe and the vectors.                                               *)

(* A request written to the pipe, or an item registered, comes last.       *)
LEMMA Acrescentado ==
    ASSUME NEW S, NEW q \in Seq(S), NEW e \in S
    PROVE  /\ Append(q, e) \in Seq(S) /\ Len(Append(q, e)) = Len(q) + 1
           /\ DOMAIN Append(q, e) = 1 .. Len(q) + 1 /\ DOMAIN q = 1 .. Len(q)
           /\ Len(q) \in Nat
           /\ \A i \in 1 .. Len(q) : Append(q, e)[i] = q[i]
           /\ Append(q, e)[Len(q) + 1] = e
           /\ Range(Append(q, e)) = Range(q) \cup {e}
<1>1. /\ Append(q, e) \in Seq(S) /\ Len(Append(q, e)) = Len(q) + 1
      /\ \A i \in 1 .. Len(q) : Append(q, e)[i] = q[i]
      /\ Append(q, e)[Len(q) + 1] = e
  BY AppendProperties
<1>2. Len(q) \in Nat /\ DOMAIN q = 1 .. Len(q)
  OBVIOUS
<1>. DEFINE a == Append(q, e)
<1>3. DOMAIN a = 1 .. Len(q) + 1
  BY <1>1
<1>. HIDE DEF a
<1>4. /\ \A i \in 1 .. Len(q) : a[i] = q[i]
      /\ a[Len(q) + 1] = e
  BY <1>1 DEF a
<1>5. Range(a) = Range(q) \cup {e}
  BY <1>2, <1>3, <1>4 DEF Range
<1>. QED
  BY <1>1, <1>2, <1>3, <1>5 DEF a

(* Refs stay distinct when one that is not there comes.                    *)
LEMMA AcrescentadoDistinta ==
    ASSUME NEW S, NEW q \in Seq(S), NEW e \in S, Distinta(q),
           \A d \in Range(q) : d.ref # e.ref
    PROVE  Distinta(Append(q, e))
<1>. DEFINE a == Append(q, e)
<1>1. /\ DOMAIN a = 1 .. Len(q) + 1 /\ DOMAIN q = 1 .. Len(q) /\ Len(q) \in Nat
      /\ \A i \in 1 .. Len(q) : a[i] = q[i]
      /\ a[Len(q) + 1] = e
  BY Acrescentado
<1>. HIDE DEF a
<1>2. \A i \in 1 .. Len(q) : q[i].ref # e.ref
  BY <1>1 DEF Range
<1>3. Distinta(a)
  BY <1>1, <1>2 DEF Distinta
<1>. QED
  BY <1>3 DEF a

(* The first request leaves the pipe.                                      *)
LEMMA Retirado ==
    ASSUME NEW S, NEW q \in Seq(S), q # << >>
    PROVE  /\ Head(q) \in S /\ Tail(q) \in Seq(S) /\ Len(Tail(q)) = Len(q) - 1
           /\ Head(q) = q[1] /\ 1 \in DOMAIN q /\ Len(q) \in Nat
           /\ DOMAIN q = 1 .. Len(q) /\ DOMAIN Tail(q) = 1 .. Len(q) - 1
           /\ \A i \in 1 .. Len(q) - 1 : Tail(q)[i] = q[i + 1]
           /\ Range(q) = {Head(q)} \cup Range(Tail(q))
<1>1. /\ Head(q) \in S /\ Tail(q) \in Seq(S) /\ Len(Tail(q)) = Len(q) - 1
      /\ \A i \in 1 .. Len(Tail(q)) : Tail(q)[i] = q[i + 1]
  BY HeadTailProperties
<1>2. Len(q) \in Nat /\ DOMAIN q = 1 .. Len(q) /\ Head(q) = q[1] /\ Len(q) # 0
  BY EmptySeq
<1>. DEFINE a == Tail(q)
            h == Head(q)
<1>3. DOMAIN a = 1 .. Len(q) - 1
  BY <1>1
<1>4. \A i \in 1 .. Len(q) - 1 : a[i] = q[i + 1]
  BY <1>1
<1>5. h = q[1]
  BY <1>2
<1>. HIDE DEF a, h
<1>6. Range(q) = {h} \cup Range(a)
  <2>1. \A i \in 1 .. Len(q) : i = 1 \/ (i - 1 \in 1 .. Len(q) - 1 /\ (i - 1) + 1 = i)
    BY <1>2
  <2>2. \A i \in 1 .. Len(q) : q[i] = h \/ q[i] \in Range(a)
    <3>. SUFFICES ASSUME NEW i \in 1 .. Len(q), q[i] # h PROVE q[i] \in Range(a)
      OBVIOUS
    <3>1. i - 1 \in 1 .. Len(q) - 1 /\ (i - 1) + 1 = i
      BY <2>1, <1>5
    <3>2. a[i - 1] = q[i] /\ i - 1 \in DOMAIN a
      BY <3>1, <1>3, <1>4
    <3>. QED
      BY <3>2 DEF Range
  <2>3. \A i \in 1 .. Len(q) - 1 : i + 1 \in 1 .. Len(q)
    BY <1>2
  <2>4. \A i \in 1 .. Len(q) - 1 : a[i] \in Range(q)
    BY <2>3, <1>2, <1>4 DEF Range
  <2>5. h \in Range(q)
    BY <1>2, <1>5 DEF Range
  <2>. QED
    BY <2>2, <2>4, <2>5, <1>2, <1>3 DEF Range
<1>. QED
  BY <1>1, <1>2, <1>3, <1>4, <1>6 DEF a, h

(* Its ref is then not on the pipe.                                        *)
LEMMA RetiradoDistinta ==
    ASSUME NEW S, NEW q \in Seq(S), q # << >>, Distinta(q)
    PROVE  /\ Distinta(Tail(q)) /\ Head(q) \in Range(q)
           /\ \A d \in Range(Tail(q)) : d.ref # Head(q).ref /\ d \in Range(q)
           /\ \A d \in Range(q) : d = Head(q) \/ d \in Range(Tail(q))
<1>. DEFINE a == Tail(q)
            h == Head(q)
<1>1. /\ h = q[1] /\ 1 \in DOMAIN q /\ Len(q) \in Nat
      /\ DOMAIN q = 1 .. Len(q) /\ DOMAIN a = 1 .. Len(q) - 1
      /\ \A i \in 1 .. Len(q) - 1 : a[i] = q[i + 1]
      /\ Range(q) = {h} \cup Range(a)
  BY Retirado
<1>. HIDE DEF a, h
<1>2. \A i \in 1 .. Len(q) - 1 : i + 1 \in 1 .. Len(q) /\ i + 1 # 1
  BY <1>1
<1>3. Distinta(a)
  <2>. SUFFICES ASSUME NEW i \in DOMAIN a, NEW j \in DOMAIN a, a[i].ref = a[j].ref
                PROVE  i = j
    BY DEF Distinta
  <2>1. q[i + 1].ref = q[j + 1].ref /\ i + 1 \in DOMAIN q /\ j + 1 \in DOMAIN q
    BY <1>1, <1>2
  <2>2. i + 1 = j + 1
    BY <2>1 DEF Distinta
  <2>. QED
    BY <2>2, <1>1
<1>4. \A d \in Range(a) : d.ref # h.ref
  <2>. SUFFICES ASSUME NEW i \in DOMAIN a, a[i].ref = h.ref PROVE FALSE
    BY DEF Range
  <2>1. q[i + 1].ref = q[1].ref /\ i + 1 \in DOMAIN q /\ 1 \in DOMAIN q /\ i + 1 # 1
    BY <1>1, <1>2
  <2>. QED
    BY <2>1 DEF Distinta
<1>. QED
  BY <1>1, <1>3, <1>4 DEF a, h

\* w holds the items of q at the indices f, but for what was polled
Parte(w, q, f) == /\ f \in [DOMAIN w -> DOMAIN q]
                  /\ \A j, k \in DOMAIN w : f[j] = f[k] => j = k
                  /\ \A k \in DOMAIN w : Campos(w[k]) = Campos(q[f[k]])

(* Items that are kept, by their indices: what remains of the vector.      *)
LEMMA Mantidos ==
    ASSUME NEW q, NEW w, NEW f, Distinta(q), Parte(w, q, f)
    PROVE  /\ Distinta(w)
           /\ Vistos(w) \subseteq Vistos(q)
           /\ Vistos(w) = {Campos(q[i]) : i \in {f[k] : k \in DOMAIN w}}
<1>. USE DEF Parte
<1>1. \A e, d : Campos(e) = Campos(d) => e.ref = d.ref
  BY DEF Campos
<1>2. \A k \in DOMAIN w : w[k].ref = q[f[k]].ref /\ f[k] \in DOMAIN q
  BY <1>1
<1>3. Distinta(w)
  BY <1>2 DEF Distinta
<1>4. Vistos(w) \subseteq Vistos(q)
  BY DEF Vistos
<1>5. Vistos(w) = {Campos(q[i]) : i \in {f[k] : k \in DOMAIN w}}
  BY DEF Vistos
<1>. QED
  BY <1>3, <1>4, <1>5

(* An item that is answered leaves the vector.                             *)
LEMMA Largado ==
    ASSUME NEW q \in Seq(TipoItem), Distinta(q), NEW i \in DOMAIN q
    PROVE  /\ RemoveAt(q, i) \in Seq(TipoItem) /\ Len(RemoveAt(q, i)) = Len(q) - 1
           /\ Distinta(RemoveAt(q, i))
           /\ Vistos(RemoveAt(q, i)) = Vistos(q) \ {Campos(q[i])}
           /\ \A e \in Vistos(RemoveAt(q, i)) : e.ref # q[i].ref
           /\ \A k \in DOMAIN RemoveAt(q, i) :
                 \E j \in DOMAIN q : j # i /\ RemoveAt(q, i)[k] = q[j]
<1>. DEFINE w == RemoveAt(q, i)
            f == [k \in DOMAIN w |-> IF k < i THEN k ELSE k + 1]
<1>1. Len(q) \in Nat /\ DOMAIN q = 1 .. Len(q)
  OBVIOUS
<1>2. /\ w \in Seq(TipoItem) /\ Len(w) = Len(q) - 1
      /\ \A k \in 1 .. Len(q) - 1 : w[k] = IF k < i THEN q[k] ELSE q[k + 1]
  BY <1>1, RemoveAtProperties
<1>. HIDE DEF w
<1>3. DOMAIN w = 1 .. Len(q) - 1
  BY <1>1, <1>2
<1>4. \A k \in DOMAIN w : f[k] \in DOMAIN q /\ f[k] # i /\ w[k] = q[f[k]]
  BY <1>1, <1>2, <1>3
<1>5. \A j, k \in DOMAIN w : f[j] = f[k] => j = k
  BY <1>1, <1>3
<1>6. {f[k] : k \in DOMAIN w} = DOMAIN q \ {i}
  <2>1. \A j \in DOMAIN q \ {i} : \E k \in DOMAIN w : f[k] = j
    <3>. SUFFICES ASSUME NEW j \in DOMAIN q, j # i PROVE \E k \in DOMAIN w : f[k] = j
      OBVIOUS
    <3>1. CASE j < i
      BY <3>1, <1>1, <1>3
    <3>2. CASE j > i
      <4>1. j - 1 \in DOMAIN w /\ ~ (j - 1 < i) /\ (j - 1) + 1 = j
        BY <3>2, <1>1, <1>3
      <4>. QED
        BY <4>1
    <3>. QED
      BY <3>1, <3>2, <1>1
  <2>. QED
    BY <2>1, <1>4
<1>7. f \in [DOMAIN w -> DOMAIN q]
  BY <1>4
<1>. HIDE DEF f
<1>8. Parte(w, q, f)
  BY <1>4, <1>5, <1>7 DEF Parte
<1>9. /\ Distinta(w)
      /\ Vistos(w) = {Campos(q[j]) : j \in {f[k] : k \in DOMAIN w}}
  BY <1>8, Mantidos
<1>10. Vistos(w) = {Campos(q[j]) : j \in DOMAIN q \ {i}}
  BY <1>6, <1>9
<1>11. \A j \in DOMAIN q \ {i} : Campos(q[j]).ref # q[i].ref
  BY DEF Distinta, Campos
<1>12. Campos(q[i]).ref = q[i].ref
  BY DEF Campos
<1>13. Vistos(w) = Vistos(q) \ {Campos(q[i])}
  BY <1>10, <1>11, <1>12 DEF Vistos
<1>14. \A e \in Vistos(w) : e.ref # q[i].ref
  BY <1>10, <1>11
<1>15. \A k \in DOMAIN w : \E j \in DOMAIN q : j # i /\ w[k] = q[j]
  BY <1>4
<1>. QED
  BY <1>2, <1>9, <1>13, <1>14, <1>15 DEF w

(* An item that is registered.                                             *)
LEMMA Registado ==
    ASSUME NEW q \in Seq(TipoItem), Distinta(q), NEW e \in TipoItem,
           \A d \in Vistos(q) : d.ref # e.ref
    PROVE  /\ Append(q, e) \in Seq(TipoItem) /\ Len(Append(q, e)) = Len(q) + 1
           /\ Distinta(Append(q, e))
           /\ Vistos(Append(q, e)) = Vistos(q) \cup {Campos(e)}
           /\ \A k \in DOMAIN Append(q, e) : Append(q, e)[k] = e \/
                 \E j \in DOMAIN q : Append(q, e)[k] = q[j]
<1>. DEFINE a == Append(q, e)
<1>1. /\ a \in Seq(TipoItem) /\ Len(a) = Len(q) + 1
      /\ DOMAIN a = 1 .. Len(q) + 1 /\ DOMAIN q = 1 .. Len(q) /\ Len(q) \in Nat
      /\ \A i \in 1 .. Len(q) : a[i] = q[i]
      /\ a[Len(q) + 1] = e
  BY Acrescentado
<1>2. \A d \in Range(q) : d.ref # e.ref
  <2>. SUFFICES ASSUME NEW i \in DOMAIN q PROVE q[i].ref # e.ref
    BY DEF Range
  <2>1. Campos(q[i]) \in Vistos(q) /\ Campos(q[i]).ref = q[i].ref
    BY DEF Vistos, Campos
  <2>. QED
    BY <2>1
<1>3. Distinta(a)
  BY <1>2, AcrescentadoDistinta
<1>. HIDE DEF a
<1>4. Vistos(a) = Vistos(q) \cup {Campos(e)}
  BY <1>1 DEF Vistos
<1>5. \A k \in DOMAIN a : a[k] = e \/ \E j \in DOMAIN q : a[k] = q[j]
  BY <1>1
<1>. QED
  BY <1>1, <1>3, <1>4, <1>5 DEF a

(* The items a close leaves.                                               *)
LEMMA Ficaram ==
    ASSUME itens \in Seq(TipoItem), Distinta(itens), NEW T \in SUBSET DOMAIN itens,
           Ficam(T)
    PROVE  /\ itens' \in Seq(TipoItem) /\ Len(itens') <= Len(itens)
           /\ Distinta(itens') /\ IsFiniteSet(T)
           /\ Vistos(itens') = {Campos(itens[i]) : i \in T}
           /\ \A k \in DOMAIN itens' : \E j \in T : itens'[k] = itens[j]
<1>. DEFINE n == Cardinality(T)
<1>1. Len(itens) \in Nat /\ DOMAIN itens = 1 .. Len(itens)
  OBVIOUS
<1>2. IsFiniteSet(T) /\ n \in Nat /\ n <= Len(itens)
  <2>1. IsFiniteSet(1 .. Len(itens)) /\ Cardinality(1 .. Len(itens)) = Len(itens)
    <3>1. PICK m : m = Len(itens)
      OBVIOUS
    <3>2. 1 \in Int /\ m \in Int /\ m >= 0
      BY <1>1, <3>1
    <3>3. IsFiniteSet(1 .. m) /\ Cardinality(1 .. m) = IF 1 > m THEN 0 ELSE m - 1 + 1
      BY <3>2, FS_Interval
    <3>. QED
      BY <3>1, <3>2, <3>3
  <2>2. IsFiniteSet(T) /\ n <= Len(itens)
    BY <1>1, <2>1, FS_Subset
  <2>. QED
    BY <2>2, FS_CardinalityType
<1>. HIDE DEF n
<1>3. PICK f \in Bijection(1 .. n, T) : itens' = [k \in DOMAIN f |-> itens[f[k]]]
  BY DEF Ficam, n
<1>4. /\ f \in [1 .. n -> T] /\ \A j, k \in 1 .. n : f[j] = f[k] => j = k
      /\ \A i \in T : \E k \in 1 .. n : f[k] = i
  BY DEF Bijection, Injection, Surjection, IsInjective
<1>5. PICK w : w = itens'
  OBVIOUS
<1>6. w = [k \in 1 .. n |-> itens[f[k]]]
  BY <1>3, <1>4, <1>5
<1>7. \A k \in 1 .. n : f[k] \in DOMAIN itens /\ itens[f[k]] \in TipoItem
  BY <1>4
<1>8. w \in Seq(TipoItem) /\ Len(w) = n /\ DOMAIN w = 1 .. n
  BY <1>2, <1>6, <1>7, IsASeq
<1>9. Parte(w, itens, f)
  BY <1>4, <1>6, <1>7, <1>8 DEF Parte
<1>10. /\ Distinta(w)
       /\ Vistos(w) = {Campos(itens[i]) : i \in {f[k] : k \in DOMAIN w}}
  BY <1>9, Mantidos
<1>11. {f[k] : k \in DOMAIN w} = T
  BY <1>4, <1>8
<1>12. \A k \in DOMAIN w : \E j \in T : w[k] = itens[j]
  BY <1>4, <1>6, <1>8
<1>. QED
  BY <1>2, <1>5, <1>8, <1>10, <1>11, <1>12

(* The item whose turn it is.                                              *)
LEMMA VezProperties ==
    ASSUME itens \in Seq(TipoItem)
    PROVE  /\ Vez # 0 => Vez \in DOMAIN itens /\ itens[Vez].rev
           /\ Vez = 0 => \A i \in DOMAIN itens : ~ itens[i].rev
<1>1. Len(itens) \in Nat /\ DOMAIN itens = 1 .. Len(itens)
  OBVIOUS
<1>2. CASE ~ \E i \in DOMAIN itens : itens[i].rev
  BY <1>2 DEF Vez
<1>3. CASE \E i \in DOMAIN itens : itens[i].rev
  <2>. DEFINE T == {i \in DOMAIN itens : itens[i].rev}
              c == CHOOSE i \in DOMAIN itens : /\ itens[i].rev
                                               /\ \A j \in 1 .. i - 1 : ~ itens[j].rev
  <2>1. T \subseteq Nat /\ T # {}
    BY <1>1, <1>3
  <2>2. \E x \in T : \A y \in T : x <= y
    <3>. HIDE DEF T
    <3>. QED
      BY <2>1, MenorElemento
  <2>3. PICK x \in T : \A y \in T : x <= y
    BY <2>2
  <2>4. \A j \in 1 .. x - 1 : ~ itens[j].rev
    <3>. SUFFICES ASSUME NEW j \in 1 .. x - 1, itens[j].rev PROVE FALSE
      OBVIOUS
    <3>1. x \in 1 .. Len(itens)
      BY <1>1
    <3>2. j \in DOMAIN itens /\ ~ (x <= j)
      BY <1>1, <3>1
    <3>. QED
      BY <2>3, <3>2
  <2>5. \E i \in DOMAIN itens : itens[i].rev /\ \A j \in 1 .. i - 1 : ~ itens[j].rev
    BY <2>3, <2>4
  <2>6. c \in DOMAIN itens /\ itens[c].rev
    BY <2>5
  <2>7. Vez = c
    BY <1>3 DEF Vez
  <2>. HIDE DEF c
  <2>8. c # 0
    BY <1>1, <2>6
  <2>. QED
    BY <2>6, <2>7, <2>8
<1>. QED
  BY <1>2, <1>3
-----------------------------------------------------------------------------
(* What a step does to the process that takes it.                          *)

Move(p) == /\ proc' \in [Procs -> TipoProc]
           /\ \A q \in Procs : q # p => proc'[q] = proc[q]
Solto(p) == /\ Move(p)
            /\ proc'[p].pc = "livre" /\ proc'[p].ref = 0 /\ proc'[p].op = "bind"
            /\ ~ proc'[p].prazo
Passou(p, pc) == /\ Move(p)
                 /\ proc'[p].pc = pc /\ proc'[p].op = proc[p].op
                 /\ proc'[p].s = proc[p].s /\ proc'[p].ref = proc[p].ref
                 /\ proc'[p].prazo = proc[p].prazo

EstadosProc == {"livre", "tranca", "ctx", "envia", "cheia", "keep", "timeo", "espera",
                "morto"}
Operacoes == Tipos \cup {"bind", "setsockopt", "ativa"}

(* The record of an idle process.                                          *)
LEMMA LivreProperties == /\ Livre \in TipoProc /\ Livre.pc = "livre" /\ Livre.ref = 0
                         /\ Livre.op = "bind" /\ ~ Livre.prazo /\ Livre.s \in Socks
<1>. DEFINE s0 == CHOOSE s \in Socks : TRUE
<1>1. s0 \in Socks
  BY ErlZmqAssumption
<1>2. Livre = [pc |-> "livre", op |-> "bind", s |-> s0, ref |-> 0, prazo |-> FALSE]
  BY DEF Livre
<1>. HIDE DEF s0
<1>. QED
  BY <1>1, <1>2 DEF TipoProc

(* A field of the record of one process.                                   *)
LEMMA ProcTipo ==
    ASSUME NEW v \in TipoProc, NEW pc \in EstadosProc, NEW op \in Operacoes, NEW b \in BOOLEAN
    PROVE  /\ v.pc \in EstadosProc /\ v.op \in Operacoes /\ v.s \in Socks /\ v.ref \in Nat
           /\ v.prazo \in BOOLEAN
           /\ [v EXCEPT !.pc = pc] \in TipoProc
           /\ [v EXCEPT !.pc = pc, !.op = op] \in TipoProc
           /\ [v EXCEPT !.pc = pc, !.prazo = b] \in TipoProc
BY DEF TipoProc, EstadosProc, Operacoes

(* A call that returns leaves its process idle.                            *)
LEMMA ProcVolta ==
    ASSUME TypeOK, NEW p \in Procs, Volta(p)
    PROVE  Solto(p)
<1>1. proc \in [Procs -> TipoProc] /\ proc' = [proc EXCEPT ![p] = Livre]
  BY DEF TypeOK, Volta
<1>. QED
  BY <1>1, LivreProperties DEF Solto, Move

(* A call that goes on changes only where it is.                           *)
LEMMA ProcPassa ==
    ASSUME TypeOK, NEW p \in Procs, NEW pc \in EstadosProc, Passa(p, pc)
    PROVE  Passou(p, pc)
<1>1. proc \in [Procs -> TipoProc] /\ proc' = [proc EXCEPT ![p].pc = pc]
  BY DEF TypeOK, Passa
<1>2. PICK v \in TipoProc : v = proc[p]
  BY <1>1
<1>3. PICK w : w = [v EXCEPT !.pc = pc]
  OBVIOUS
<1>4. w \in TipoProc
  BY <1>3, ProcTipo DEF Operacoes
<1>5. w.pc = pc /\ w.op = v.op /\ w.s = v.s /\ w.ref = v.ref /\ w.prazo = v.prazo
  BY <1>3 DEF TipoProc
<1>6. proc' = [proc EXCEPT ![p] = w]
  BY <1>1, <1>2, <1>3
<1>. QED
  BY <1>1, <1>2, <1>4, <1>5, <1>6 DEF Passou, Move

\* what a step does to the sockets: the fields the invariants look at
SockTipo == sock' \in [Socks -> TipoSock]
EstadosIguais == \A t \in Socks : sock'[t].estado = sock[t].estado
ActivesIguais == \A t \in Socks : sock'[t].active = sock[t].active

(* A socket becomes active.                                                *)
LEMMA SockAtiva ==
    ASSUME TypeOK, NEW s \in Socks, sock' = [sock EXCEPT ![s].active = "ON"]
    PROVE  /\ SockTipo /\ EstadosIguais
           /\ \A t \in Socks : /\ sock'[t].active = IF t = s THEN "ON" ELSE sock[t].active
                               /\ sock'[t].refc = sock[t].refc
<1>. USE DEF SockTipo, EstadosIguais, ActivesIguais
<1>1. sock \in [Socks -> TipoSock]
  BY DEF TypeOK
<1>2. PICK v \in TipoSock : v = sock[s]
  BY <1>1
<1>3. PICK w : w = [v EXCEPT !.active = "ON"]
  OBVIOUS
<1>4. w \in TipoSock /\ w.estado = v.estado /\ w.refc = v.refc /\ w.active = "ON"
  BY <1>3 DEF TipoSock
<1>5. sock' = [sock EXCEPT ![s] = w]
  BY <1>1, <1>2, <1>3
<1>6. SockTipo /\ \A t \in Socks : sock'[t] = IF t = s THEN w ELSE sock[t]
  BY <1>1, <1>4, <1>5
<1>. QED
  BY <1>2, <1>4, <1>6

(* A timeout is set.                                                       *)
LEMMA SockTempo ==
    ASSUME TypeOK, NEW s \in Socks, NEW b, b \in BOOLEAN,
           sock' = [sock EXCEPT ![s].timeo = b]
    PROVE  /\ SockTipo /\ EstadosIguais /\ ActivesIguais
           /\ \A t \in Socks : sock'[t].refc = sock[t].refc
<1>. USE DEF SockTipo, EstadosIguais, ActivesIguais
<1>1. sock \in [Socks -> TipoSock]
  BY DEF TypeOK
<1>2. PICK v \in TipoSock : v = sock[s]
  BY <1>1
<1>3. PICK w : w = [v EXCEPT !.timeo = b]
  OBVIOUS
<1>4. w \in TipoSock /\ w.estado = v.estado /\ w.refc = v.refc /\ w.active = v.active
  BY <1>3 DEF TipoSock
<1>5. sock' = [sock EXCEPT ![s] = w]
  BY <1>1, <1>2, <1>3
<1>6. SockTipo /\ \A t \in Socks : sock'[t] = IF t = s THEN w ELSE sock[t]
  BY <1>1, <1>4, <1>5
<1>. QED
  BY <1>2, <1>4, <1>6

(* A reference is counted or released.                                     *)
LEMMA SockConta ==
    ASSUME TypeOK, NEW s \in Socks, NEW n \in Int,
           sock' = [sock EXCEPT ![s].refc = n]
    PROVE  /\ SockTipo /\ EstadosIguais /\ ActivesIguais
           /\ \A t \in Socks : sock'[t].refc = IF t = s THEN n ELSE sock[t].refc
<1>. USE DEF SockTipo, EstadosIguais, ActivesIguais
<1>1. sock \in [Socks -> TipoSock]
  BY DEF TypeOK
<1>2. PICK v \in TipoSock : v = sock[s]
  BY <1>1
<1>3. PICK w : w = [v EXCEPT !.refc = n]
  OBVIOUS
<1>4. w \in TipoSock /\ w.estado = v.estado /\ w.refc = n /\ w.active = v.active
  BY <1>3 DEF TipoSock
<1>5. sock' = [sock EXCEPT ![s] = w]
  BY <1>1, <1>2, <1>3
<1>6. SockTipo /\ \A t \in Socks : sock'[t] = IF t = s THEN w ELSE sock[t]
  BY <1>1, <1>4, <1>5
<1>. QED
  BY <1>2, <1>4, <1>6

(* A socket is closed.                                                     *)
LEMMA SockFecha ==
    ASSUME TypeOK, NEW s \in Socks, NEW n \in Int,
           sock' = [sock EXCEPT ![s].estado = "fechado", ![s].refc = n]
    PROVE  /\ SockTipo /\ ActivesIguais
           /\ \A t \in Socks :
                /\ sock'[t].estado = IF t = s THEN "fechado" ELSE sock[t].estado
                /\ sock'[t].refc = IF t = s THEN n ELSE sock[t].refc
<1>. USE DEF SockTipo, EstadosIguais, ActivesIguais
<1>1. sock \in [Socks -> TipoSock]
  BY DEF TypeOK
<1>2. PICK v \in TipoSock : v = sock[s]
  BY <1>1
<1>3. PICK w : w = [v EXCEPT !.estado = "fechado", !.refc = n]
  OBVIOUS
<1>4. w \in TipoSock /\ w.estado = "fechado" /\ w.refc = n /\ w.active = v.active
  BY <1>3 DEF TipoSock
<1>5. sock' = [sock EXCEPT ![s] = w]
  BY <1>1, <1>2, <1>3
<1>6. SockTipo /\ \A t \in Socks : sock'[t] = IF t = s THEN w ELSE sock[t]
  BY <1>1, <1>4, <1>5
<1>. QED
  BY <1>2, <1>4, <1>6

-----------------------------------------------------------------------------
(* What each action does, in the terms of the invariant.                   *)

Quieto == /\ ctx' = ctx /\ fila' = fila /\ fio' = fio /\ itens' = itens
          /\ caixa' = caixa /\ chamadas' = chamadas /\ abuso' = abuso

(* The messages taken out of a socket and put in one.                      *)
LEMMA Mensagens ==
    ASSUME TypeOK, NEW s \in Socks
    PROVE  /\ inbox[s] # << >> => /\ Head(inbox[s]) \in 1 .. MaxMsgs
                                  /\ [inbox EXCEPT ![s] = Tail(@)] \in [Socks -> Seq(1 .. MaxMsgs)]
           /\ [inbox EXCEPT ![s] = << >>] \in [Socks -> Seq(1 .. MaxMsgs)]
           /\ \A m \in 1 .. MaxMsgs :
                /\ [inbox EXCEPT ![s] = Append(@, m)] \in [Socks -> Seq(1 .. MaxMsgs)]
                /\ Append(inbox[s], m) # << >>
                /\ [obtidas EXCEPT ![s] = Append(@, m)] \in [Socks -> Seq(1 .. MaxMsgs)]
           /\ \A r \in 1 .. MaxChamadas : Append(saidas, r) \in Seq(1 .. MaxChamadas)
<1>1. /\ inbox \in [Socks -> Seq(1 .. MaxMsgs)] /\ obtidas \in [Socks -> Seq(1 .. MaxMsgs)]
      /\ saidas \in Seq(1 .. MaxChamadas)
  BY DEF TypeOK
<1>. DEFINE M == 1 .. MaxMsgs
<1>. HIDE DEF M
<1>2. PICK q \in Seq(M), o \in Seq(M) : q = inbox[s] /\ o = obtidas[s]
  BY <1>1 DEF M
<1>3. q # << >> => Head(q) \in M /\ Tail(q) \in Seq(M)
  BY HeadTailProperties
<1>4. << >> \in Seq(M)
  BY EmptySeq
<1>5. \A m \in M : /\ Append(q, m) \in Seq(M) /\ Append(o, m) \in Seq(M)
                   /\ Append(q, m) # << >>
  <2>1. \A m \in M : /\ Append(q, m) \in Seq(M) /\ Append(o, m) \in Seq(M)
                     /\ Len(Append(q, m)) = Len(q) + 1 /\ Len(q) \in Nat
    BY AppendProperties
  <2>2. Len(<< >>) = 0
    OBVIOUS
  <2>. QED
    BY <2>1, <2>2
<1>6. \A r \in 1 .. MaxChamadas : Append(saidas, r) \in Seq(1 .. MaxChamadas)
  BY <1>1, AppendProperties
<1>. QED
  BY <1>1, <1>2, <1>3, <1>4, <1>5, <1>6 DEF M

(* Bind, connect: the call returns, or activates its socket.               *)
LEMMA EfeitoBind ==
    ASSUME TypeOK, NEW p \in Procs, Bind(p)
    PROVE  /\ TypeOK' /\ Quieto
           /\ UNCHANGED <<dono, inbox, saidas, queda, expirou>>
           /\ proc[p].pc = "tranca" /\ proc[p].op = "bind" /\ Aberto(proc[p].s)
           /\ \/ Solto(p) /\ sock' = sock
              \/ /\ Move(p) /\ proc'[p].pc = "ctx" /\ proc'[p].op = "ativa"
                 /\ proc'[p].s = proc[p].s /\ proc'[p].ref = proc[p].ref
                 /\ proc'[p].prazo = proc[p].prazo
                 /\ sock[proc[p].s].active = "PENDING" /\ EstadosIguais
                 /\ \A t \in Socks :
                       /\ sock'[t].active = IF t = proc[p].s THEN "ON" ELSE sock[t].active
                       /\ sock'[t].refc = sock[t].refc
<1>1. /\ Quieto /\ UNCHANGED <<dono, inbox, saidas, queda, expirou, cheio, chegadas, obtidas>>
      /\ proc[p].pc = "tranca" /\ proc[p].op = "bind" /\ Aberto(proc[p].s)
  BY DEF Bind, NaSecao, Quieto, ctxVars, logVars
<1>2. proc \in [Procs -> TipoProc] /\ sock \in [Socks -> TipoSock]
  BY DEF TypeOK
<1>3. PICK v \in TipoProc : v = proc[p]
  BY <1>2
<1>4. v.s \in Socks
  BY ProcTipo DEF TipoProc
<1>5. CASE Volta(p) /\ sock' = sock
  <2>1. Solto(p)
    BY <1>5, ProcVolta
  <2>. QED
    BY <1>1, <1>5, <2>1 DEF TypeOK, Solto, Move, Quieto
<1>6. CASE /\ sock[v.s].active = "PENDING"
           /\ sock' = [sock EXCEPT ![v.s].active = "ON"]
           /\ proc' = [proc EXCEPT ![p].pc = "ctx", ![p].op = "ativa"]
  <2>1. PICK w : w = [v EXCEPT !.pc = "ctx", !.op = "ativa"]
    OBVIOUS
  <2>2. /\ w \in TipoProc /\ w.pc = "ctx" /\ w.op = "ativa" /\ w.s = v.s /\ w.ref = v.ref
        /\ w.prazo = v.prazo
    BY <2>1 DEF TipoProc
  <2>3. proc' = [proc EXCEPT ![p] = w]
    BY <1>2, <1>3, <1>6, <2>1
  <2>4. /\ Move(p) /\ proc'[p] = w
    BY <1>2, <2>2, <2>3 DEF Move
  <2>5. /\ SockTipo /\ EstadosIguais
        /\ \A t \in Socks : /\ sock'[t].active = IF t = v.s THEN "ON" ELSE sock[t].active
                            /\ sock'[t].refc = sock[t].refc
    BY <1>4, <1>6, SockAtiva
  <2>. QED
    BY <1>1, <1>3, <1>6, <2>2, <2>4, <2>5 DEF TypeOK, Move, Quieto, SockTipo
<1>. QED
  BY <1>3, <1>5, <1>6 DEF Bind

(* Setsockopt.                                                             *)
LEMMA EfeitoSetsockopt ==
    ASSUME TypeOK, NEW p \in Procs, Setsockopt(p)
    PROVE  /\ TypeOK' /\ Quieto
           /\ UNCHANGED <<dono, inbox, saidas, queda, expirou>>
           /\ proc[p].pc = "tranca" /\ Solto(p) /\ EstadosIguais /\ ActivesIguais
           /\ \A t \in Socks : sock'[t].refc = sock[t].refc
<1>1. /\ Quieto /\ UNCHANGED <<dono, inbox, saidas, queda, expirou, cheio, chegadas, obtidas>>
      /\ proc[p].pc = "tranca" /\ Volta(p)
  BY DEF Setsockopt, NaSecao, Quieto, ctxVars, logVars
<1>2. proc \in [Procs -> TipoProc] /\ sock \in [Socks -> TipoSock]
  BY DEF TypeOK
<1>3. PICK s \in Socks : s = proc[p].s
  BY <1>2 DEF TipoProc
<1>4. PICK b \in BOOLEAN : sock' = [sock EXCEPT ![s].timeo = IF Terminada THEN @ ELSE b]
  BY <1>3 DEF Setsockopt
<1>5. PICK c \in BOOLEAN : c = IF Terminada THEN sock[s].timeo ELSE b
  BY <1>2 DEF TipoSock
<1>6. sock' = [sock EXCEPT ![s].timeo = c]
  BY <1>2, <1>4, <1>5
<1>7. /\ SockTipo /\ EstadosIguais /\ ActivesIguais
      /\ \A t \in Socks : sock'[t].refc = sock[t].refc
  BY <1>6, SockTempo
<1>8. Solto(p)
  BY <1>1, ProcVolta
<1>. QED
  BY <1>1, <1>7, <1>8 DEF TypeOK, Solto, Move, Quieto, SockTipo

(* Send and recv without waiting.                                          *)
LEMMA EfeitoTenta ==
    ASSUME TypeOK, InvLimites, NEW p \in Procs, Tenta(p)
    PROVE  /\ TypeOK' /\ Quieto
           /\ UNCHANGED <<dono, sock, queda, expirou>>
           /\ proc[p].pc = "tranca" /\ proc[p].op \in {"send", "recv"}
           /\ proc[p].s \in Socks
           /\ \/ (Solto(p) \/ Passou(p, "ctx")) /\ UNCHANGED <<inbox, saidas>>
              \/ /\ Solto(p) /\ proc[p].op = "send"
                 /\ saidas' = Append(saidas, proc[p].ref) /\ inbox' = inbox
              \/ /\ Solto(p) /\ proc[p].op = "recv" /\ saidas' = saidas
                 /\ inbox' = [inbox EXCEPT ![proc[p].s] = Tail(@)]
<1>1. /\ Quieto /\ UNCHANGED <<dono, sock, queda, expirou, cheio, chegadas>>
      /\ proc[p].pc = "tranca" /\ proc[p].op \in {"send", "recv"}
  BY DEF Tenta, NaSecao, Quieto, ctxVars
<1>2. proc \in [Procs -> TipoProc] /\ chamadas \in 0 .. MaxChamadas
  BY DEF TypeOK
<1>3. PICK s \in Socks : s = proc[p].s
  BY <1>2 DEF TipoProc
<1>4. proc[p].ref \in 1 .. MaxChamadas
  <2>1. proc[p].ref \in 1 .. chamadas
    BY <1>1 DEF InvLimites
  <2>. QED
    BY <1>2, <2>1, ErlZmqAssumption
<1>5. \/ Volta(p) /\ UNCHANGED <<inbox, saidas, obtidas>>
      \/ Passa(p, "ctx") /\ UNCHANGED <<inbox, saidas, obtidas>>
      \/ /\ Volta(p) /\ proc[p].op = "send"
         /\ saidas' = Append(saidas, proc[p].ref) /\ UNCHANGED <<inbox, obtidas>>
      \/ /\ Volta(p) /\ proc[p].op = "recv" /\ saidas' = saidas /\ inbox[s] # << >>
         /\ inbox' = [inbox EXCEPT ![s] = Tail(@)]
         /\ obtidas' = [obtidas EXCEPT ![s] = Append(@, Head(inbox[s]))]
  BY <1>3 DEF Tenta, NaSecao
<1>6. CASE Volta(p) /\ UNCHANGED <<inbox, saidas, obtidas>>
  <2>1. Solto(p)
    BY <1>6, ProcVolta
  <2>. QED
    BY <1>1, <1>3, <1>6, <2>1 DEF TypeOK, Solto, Move, Quieto
<1>7. CASE Passa(p, "ctx") /\ UNCHANGED <<inbox, saidas, obtidas>>
  <2>1. Passou(p, "ctx")
    BY <1>7, ProcPassa DEF EstadosProc
  <2>. QED
    BY <1>1, <1>3, <1>7, <2>1 DEF TypeOK, Passou, Move, Quieto
<1>8. CASE /\ Volta(p) /\ proc[p].op = "send"
           /\ saidas' = Append(saidas, proc[p].ref) /\ UNCHANGED <<inbox, obtidas>>
  <2>1. Solto(p)
    BY <1>8, ProcVolta
  <2>2. saidas' \in Seq(1 .. MaxChamadas)
    BY <1>3, <1>4, <1>8, Mensagens
  <2>. QED
    BY <1>1, <1>3, <1>8, <2>1, <2>2 DEF TypeOK, Solto, Move, Quieto
<1>9. CASE /\ Volta(p) /\ proc[p].op = "recv" /\ saidas' = saidas /\ inbox[s] # << >>
           /\ inbox' = [inbox EXCEPT ![s] = Tail(@)]
           /\ obtidas' = [obtidas EXCEPT ![s] = Append(@, Head(inbox[s]))]
  <2>1. Solto(p)
    BY <1>9, ProcVolta
  <2>2. /\ inbox' \in [Socks -> Seq(1 .. MaxMsgs)] /\ obtidas' \in [Socks -> Seq(1 .. MaxMsgs)]
    BY <1>9, Mensagens
  <2>. QED
    BY <1>1, <1>3, <1>9, <2>1, <2>2 DEF TypeOK, Solto, Move, Quieto
<1>. QED
  BY <1>5, <1>6, <1>7, <1>8, <1>9

(* The lock on a socket whose mutex is gone.                               *)
LEMMA EfeitoTrancaNula ==
    ASSUME TypeOK, NEW p \in Procs, TrancaNula(p)
    PROVE  /\ TypeOK' /\ Quieto
           /\ UNCHANGED <<dono, sock, inbox, saidas, expirou>>
           /\ proc[p].pc = "tranca" /\ ~ Aberto(proc[p].s)
           /\ \/ queda' = "ub" /\ proc' = proc
              \/ queda' = queda /\ Solto(p)
<1>1. /\ Quieto /\ UNCHANGED <<dono, sock, inbox, saidas, expirou, cheio, chegadas, obtidas>>
      /\ proc[p].pc = "tranca" /\ ~ Aberto(proc[p].s)
  BY DEF TrancaNula, Quieto, ctxVars, logVars, zmqVars
<1>2. CASE queda' = "ub" /\ proc' = proc
  BY <1>1, <1>2 DEF TypeOK, Quieto
<1>3. CASE Volta(p) /\ queda' = queda
  <2>1. Solto(p)
    BY <1>3, ProcVolta
  <2>. QED
    BY <1>1, <1>3, <2>1 DEF TypeOK, Solto, Move, Quieto
<1>. QED
  BY <1>2, <1>3 DEF TrancaNula

(* The test of the context's mutex.                                        *)
LEMMA EfeitoTestaCtx ==
    ASSUME TypeOK, NEW p \in Procs, TestaCtx(p)
    PROVE  /\ TypeOK' /\ Quieto
           /\ UNCHANGED <<dono, sock, inbox, saidas, queda, expirou>>
           /\ proc[p].pc = "ctx"
           /\ Solto(p) \/ (Passou(p, "envia") /\ ctx # "terminado")
<1>1. /\ Quieto /\ proc[p].pc = "ctx"
      /\ UNCHANGED <<dono, sock, inbox, saidas, queda, expirou, cheio, chegadas, obtidas>>
  BY DEF TestaCtx, Quieto, ctxVars, logVars, zmqVars
<1>2. CASE Volta(p)
  <2>1. Solto(p)
    BY <1>2, ProcVolta
  <2>. QED
    BY <1>1, <2>1 DEF TypeOK, Solto, Move, Quieto
<1>3. CASE Passa(p, "envia") /\ ctx # "terminado"
  <2>1. Passou(p, "envia")
    BY <1>3, ProcPassa DEF EstadosProc
  <2>. QED
    BY <1>1, <1>3, <2>1 DEF TypeOK, Passou, Move, Quieto
<1>. QED
  BY <1>2, <1>3 DEF TestaCtx

(* The request of a call.                                                  *)
LEMMA PedidoProperties ==
    ASSUME TypeOK, NEW p \in Procs, proc[p].op \notin {"bind", "setsockopt"}
    PROVE  /\ Pedido(p) \in Pedidos /\ Pedido(p).s = proc[p].s /\ Pedido(p).p = p
           /\ Pedido(p).ref = proc[p].ref
           /\ Pedido(p).tipo = IF proc[p].op = "ativa" THEN "recv" ELSE proc[p].op
<1>1. proc[p] \in TipoProc
  BY DEF TypeOK
<1>2. PICK v \in TipoProc : v = proc[p]
  BY <1>1
<1>3. /\ v.op \in Operacoes /\ v.s \in Socks /\ v.ref \in Nat
  BY DEF TipoProc, Operacoes
<1>4. PICK t : t = IF v.op = "ativa" THEN "recv" ELSE v.op
  OBVIOUS
<1>5. t \in Tipos
  BY <1>2, <1>3, <1>4 DEF Operacoes, Tipos
<1>6. Pedido(p) = [tipo |-> t, s |-> v.s, p |-> p, ref |-> v.ref]
  BY <1>2, <1>4 DEF Pedido
<1>7. Pedido(p) \in Pedidos
  BY <1>3, <1>5, <1>6 DEF Pedidos
<1>. QED
  BY <1>2, <1>4, <1>6, <1>7

(* The request goes down the pipe, or its sender blocks on a full one.     *)
LEMMA EfeitoEnvia ==
    ASSUME TypeOK, InvEstado, NEW p \in Procs, Envia(p)
    PROVE  /\ TypeOK'
           /\ UNCHANGED <<ctx, fio, itens, caixa, chamadas, abuso, sock, inbox, saidas,
                          queda, expirou>>
           /\ proc[p].pc \in {"envia", "cheia"} /\ ctx = "vivo"
           /\ proc[p].op \notin {"bind", "setsockopt"}
           /\ \/ fila' = Append(fila, Pedido(p)) /\ dono' = Nenhum /\ Passou(p, "keep")
              \/ fila' = fila /\ dono' = p /\ Passou(p, "cheia")
<1>1. /\ UNCHANGED <<ctx, fio, itens, caixa, chamadas, abuso, sock, inbox, saidas,
                     queda, expirou, cheio, chegadas, obtidas>>
      /\ proc[p].pc \in {"envia", "cheia"}
  BY DEF Envia, logVars, zmqVars
<1>2. ctx = "vivo"
  BY ErlZmqAssumption DEF Envia, InvEstado
<1>3. proc[p].op \notin {"bind", "setsockopt"}
  BY <1>1 DEF InvEstado
<1>4. CASE /\ Len(fila) < FilaMax
           /\ fila' = Append(fila, Pedido(p)) /\ dono' = Nenhum /\ Passa(p, "keep")
  <2>1. Passou(p, "keep")
    BY <1>4, ProcPassa DEF EstadosProc
  <2>2. fila' \in Seq(Pedidos) /\ Len(fila') <= FilaMax
    <3>1. fila \in Seq(Pedidos) /\ Pedido(p) \in Pedidos /\ FilaMax \in Nat
      BY <1>3, PedidoProperties, ErlZmqAssumption DEF TypeOK
    <3>2. fila' \in Seq(Pedidos) /\ Len(fila') = Len(fila) + 1 /\ Len(fila) \in Nat
      BY <1>4, <3>1, Acrescentado
    <3>. QED
      BY <1>4, <3>1, <3>2
  <2>. QED
    BY <1>1, <1>2, <1>3, <1>4, <2>1, <2>2 DEF TypeOK, Passou, Move
<1>5. CASE fila' = fila /\ dono' = p /\ Passa(p, "cheia")
  <2>1. Passou(p, "cheia")
    BY <1>5, ProcPassa DEF EstadosProc
  <2>. QED
    BY <1>1, <1>2, <1>3, <1>5, <2>1 DEF TypeOK, Passou, Move
<1>. QED
  BY <1>4, <1>5 DEF Envia

(* The lock on a context that was terminated.                              *)
LEMMA EfeitoEnviaNula ==
    ASSUME TypeOK, NEW p \in Procs, EnviaNula(p)
    PROVE  /\ TypeOK' /\ Quieto
           /\ UNCHANGED <<dono, inbox, saidas, expirou>>
           /\ proc[p].pc = "envia" /\ ctx = "terminado" /\ proc[p].s \in Socks
           /\ \/ queda' = "ub" /\ UNCHANGED <<sock, proc>>
              \/ queda' = queda /\ Solto(p) /\ sock' = sock
              \/ /\ queda' = queda /\ Solto(p) /\ Aberto(proc[p].s)
                 /\ ActivesIguais
                 /\ \A t \in Socks :
                      /\ sock'[t].estado = IF t = proc[p].s THEN "fechado" ELSE sock[t].estado
                      /\ sock'[t].refc = IF t = proc[p].s THEN sock[t].refc - 1
                                         ELSE sock[t].refc
<1>1. /\ Quieto /\ UNCHANGED <<dono, inbox, saidas, expirou, cheio, chegadas, obtidas>>
      /\ proc[p].pc = "envia" /\ ctx = "terminado"
  BY DEF EnviaNula, Quieto, ctxVars, logVars, zmqVars
<1>2. proc \in [Procs -> TipoProc] /\ sock \in [Socks -> TipoSock]
  BY DEF TypeOK
<1>3. PICK s \in Socks : s = proc[p].s
  BY <1>2 DEF TipoProc
<1>4. CASE queda' = "ub" /\ UNCHANGED <<sock, proc>>
  BY <1>1, <1>3, <1>4 DEF TypeOK, Quieto
<1>5. CASE Volta(p) /\ sock' = sock /\ queda' = queda
  <2>1. Solto(p)
    BY <1>5, ProcVolta
  <2>. QED
    BY <1>1, <1>3, <1>5, <2>1 DEF TypeOK, Solto, Move, Quieto
<1>6. CASE /\ Volta(p) /\ queda' = queda /\ Aberto(s)
           /\ sock' = [sock EXCEPT ![s].estado = "fechado", ![s].refc = @ - 1]
  <2>1. Solto(p)
    BY <1>6, ProcVolta
  <2>2. PICK n \in Int : n = sock[s].refc - 1
    BY <1>2 DEF TipoSock
  <2>3. sock' = [sock EXCEPT ![s].estado = "fechado", ![s].refc = n]
    BY <1>2, <1>6, <2>2
  <2>4. /\ SockTipo /\ ActivesIguais
        /\ \A t \in Socks : /\ sock'[t].estado = IF t = s THEN "fechado" ELSE sock[t].estado
                            /\ sock'[t].refc = IF t = s THEN n ELSE sock[t].refc
    BY <2>3, SockFecha
  <2>. QED
    BY <1>1, <1>3, <1>6, <2>1, <2>2, <2>4 DEF TypeOK, Solto, Move, Quieto, SockTipo
<1>. QED
  BY <1>3, <1>4, <1>5, <1>6 DEF EnviaNula

(* The reference counted after the request was written.                    *)
LEMMA EfeitoKeep ==
    ASSUME TypeOK, NEW p \in Procs, Keep(p)
    PROVE  /\ TypeOK' /\ Quieto
           /\ UNCHANGED <<dono, inbox, saidas, queda, expirou>>
           /\ proc[p].pc = "keep" /\ EstadosIguais /\ ActivesIguais
           /\ \A t \in Socks : sock'[t].refc =
                 IF proc[p].op # "term" /\ t = proc[p].s THEN sock[t].refc + 1 ELSE sock[t].refc
           /\ \/ Solto(p) /\ proc[p].op = "ativa"
              \/ Passou(p, "timeo") /\ proc[p].op \in {"send", "recv"}
              \/ Passou(p, "espera") /\ proc[p].op \notin {"send", "recv", "ativa"}
<1>1. /\ Quieto /\ proc[p].pc = "keep"
      /\ UNCHANGED <<dono, inbox, saidas, queda, expirou, cheio, chegadas, obtidas>>
  BY DEF Keep, Quieto, ctxVars, logVars, zmqVars
<1>2. proc \in [Procs -> TipoProc] /\ sock \in [Socks -> TipoSock]
  BY DEF TypeOK
<1>3. PICK s \in Socks : s = proc[p].s
  BY <1>2 DEF TipoProc
<1>4. /\ SockTipo /\ EstadosIguais /\ ActivesIguais
      /\ \A t \in Socks : sock'[t].refc =
            IF proc[p].op # "term" /\ t = s THEN sock[t].refc + 1 ELSE sock[t].refc
  <2>1. CASE proc[p].op = "term"
    <3>1. sock' = sock
      BY <2>1 DEF Keep
    <3>. QED
      BY <1>2, <2>1, <3>1 DEF SockTipo, EstadosIguais, ActivesIguais
  <2>2. CASE proc[p].op # "term"
    <3>1. PICK n \in Int : n = sock[s].refc + 1
      BY <1>2 DEF TipoSock
    <3>2. sock' = [sock EXCEPT ![s].refc = n]
      BY <1>2, <1>3, <2>2, <3>1 DEF Keep
    <3>3. /\ SockTipo /\ EstadosIguais /\ ActivesIguais
          /\ \A t \in Socks : sock'[t].refc = IF t = s THEN n ELSE sock[t].refc
      BY <3>2, SockConta
    <3>. QED
      BY <2>2, <3>1, <3>3
  <2>. QED
    BY <2>1, <2>2
<1>5. \/ Solto(p) /\ proc[p].op = "ativa"
      \/ Passou(p, "timeo") /\ proc[p].op \in {"send", "recv"}
      \/ Passou(p, "espera") /\ proc[p].op \notin {"send", "recv", "ativa"}
  <2>1. CASE proc[p].op = "ativa"
    <3>1. Volta(p)
      BY <2>1 DEF Keep
    <3>. QED
      BY <2>1, <3>1, ProcVolta
  <2>2. CASE proc[p].op \in {"send", "recv"}
    <3>1. Passa(p, "timeo")
      BY <2>2 DEF Keep
    <3>. QED
      BY <2>2, <3>1, ProcPassa DEF EstadosProc
  <2>3. CASE proc[p].op \notin {"send", "recv", "ativa"}
    <3>1. Passa(p, "espera")
      BY <2>3 DEF Keep
    <3>. QED
      BY <2>3, <3>1, ProcPassa DEF EstadosProc
  <2>. QED
    BY <2>1, <2>2, <2>3
<1>6. TypeOK'
  BY <1>1, <1>4, <1>5 DEF TypeOK, Solto, Passou, Move, Quieto, SockTipo
<1>. QED
  BY <1>1, <1>3, <1>4, <1>5, <1>6

(* The timeout read before waiting.                                        *)
LEMMA EfeitoGetsockopt ==
    ASSUME TypeOK, NEW p \in Procs, Getsockopt(p)
    PROVE  /\ TypeOK' /\ Quieto
           /\ UNCHANGED <<dono, sock, inbox, saidas, queda, expirou>>
           /\ proc[p].pc = "timeo"
           /\ \/ /\ Move(p) /\ proc'[p].pc = "espera" /\ proc'[p].op = proc[p].op
                 /\ proc'[p].s = proc[p].s /\ proc'[p].ref = proc[p].ref
              \/ Passou(p, "morto") /\ ~ (Aberto(proc[p].s) /\ ~ Terminada)
<1>1. /\ Quieto /\ proc[p].pc = "timeo"
      /\ UNCHANGED <<dono, sock, inbox, saidas, queda, expirou, cheio, chegadas, obtidas>>
  BY DEF Getsockopt, Quieto, ctxVars, logVars, zmqVars
<1>2. proc \in [Procs -> TipoProc] /\ sock \in [Socks -> TipoSock]
  BY DEF TypeOK
<1>3. PICK v \in TipoProc : v = proc[p]
  BY <1>2
<1>4. CASE proc' = [proc EXCEPT ![p].pc = "espera", ![p].prazo = sock[v.s].timeo]
  <2>1. PICK b : b = sock[v.s].timeo
    OBVIOUS
  <2>2. b \in BOOLEAN
    BY <1>2, <2>1 DEF TipoProc, TipoSock
  <2>3. PICK w : w = [v EXCEPT !.pc = "espera", !.prazo = b]
    OBVIOUS
  <2>4. /\ w \in TipoProc /\ w.pc = "espera" /\ w.op = v.op /\ w.s = v.s /\ w.ref = v.ref
    BY <2>2, <2>3 DEF TipoProc
  <2>5. proc' = [proc EXCEPT ![p] = w]
    BY <1>2, <1>3, <1>4, <2>1, <2>3
  <2>6. Move(p) /\ proc'[p] = w
    BY <1>2, <2>4, <2>5 DEF Move
  <2>. QED
    BY <1>1, <1>3, <2>4, <2>6 DEF TypeOK, Move, Quieto
<1>5. CASE Passa(p, "morto") /\ ~ (Aberto(v.s) /\ ~ Terminada)
  <2>1. Passou(p, "morto")
    BY <1>5, ProcPassa DEF EstadosProc
  <2>. QED
    BY <1>1, <1>3, <1>5, <2>1 DEF TypeOK, Passou, Move, Quieto
<1>. QED
  BY <1>3, <1>4, <1>5 DEF Getsockopt

(* A waiting call gets its answer.                                         *)
LEMMA EfeitoRecebe ==
    ASSUME TypeOK, NEW p \in Procs, Recebe(p)
    PROVE  /\ TypeOK'
           /\ UNCHANGED <<ctx, fila, fio, itens, chamadas, abuso, dono, sock, inbox, saidas,
                          queda, expirou>>
           /\ proc[p].pc = "espera" /\ Solto(p)
           /\ \E m \in caixa[p] : m.ref = proc[p].ref
           /\ \A q \in Procs : caixa'[q] \subseteq caixa[q] /\ (q # p => caixa'[q] = caixa[q])
<1>1. /\ proc[p].pc = "espera" /\ Volta(p)
      /\ UNCHANGED <<ctx, fila, fio, itens, chamadas, abuso, dono, sock, inbox, saidas,
                     queda, expirou, cheio, chegadas>>
  BY DEF Recebe, ctxVars, zmqVars
<1>2. /\ proc \in [Procs -> TipoProc] /\ caixa \in [Procs -> SUBSET TipoResposta]
      /\ obtidas \in [Socks -> Seq(1 .. MaxMsgs)]
  BY DEF TypeOK
<1>3. PICK m \in caixa[p] : /\ m.ref = proc[p].ref
                            /\ caixa' = [caixa EXCEPT ![p] = @ \ {m}]
                            /\ obtidas' = IF m.res = 0 THEN obtidas
                                 ELSE [obtidas EXCEPT ![proc[p].s] = Append(@, m.res)]
  BY DEF Recebe
<1>4. PICK s \in Socks : s = proc[p].s
  BY <1>2 DEF TipoProc
<1>5. Solto(p)
  BY <1>1, ProcVolta
<1>6. m.res \in 0 .. MaxMsgs
  BY <1>2 DEF TipoResposta
<1>7. obtidas' \in [Socks -> Seq(1 .. MaxMsgs)]
  <2>1. CASE m.res = 0
    BY <1>2, <1>3, <2>1
  <2>2. CASE m.res # 0
    <3>1. m.res \in 1 .. MaxMsgs
      BY <1>6, <2>2, ErlZmqAssumption
    <3>. QED
      BY <1>3, <1>4, <2>2, <3>1, Mensagens
  <2>. QED
    BY <2>1, <2>2
<1>8. /\ caixa' \in [Procs -> SUBSET TipoResposta]
      /\ \A q \in Procs : caixa'[q] \subseteq caixa[q] /\ (q # p => caixa'[q] = caixa[q])
  BY <1>2, <1>3
<1>9. TypeOK'
  BY <1>1, <1>5, <1>7, <1>8 DEF TypeOK, Solto, Move
<1>. QED
  BY <1>1, <1>3, <1>5, <1>8, <1>9

(* A waiting call gives up.                                                *)
LEMMA EfeitoExpira ==
    ASSUME TypeOK, NEW p \in Procs, Expira(p)
    PROVE  /\ TypeOK' /\ Quieto
           /\ UNCHANGED <<dono, sock, inbox, saidas, queda>> /\ expirou' = TRUE
           /\ proc[p].pc = "espera" /\ proc[p].prazo /\ Solto(p)
<1>1. /\ Quieto /\ UNCHANGED <<dono, sock, inbox, saidas, queda, cheio, chegadas, obtidas>>
      /\ expirou' = TRUE
      /\ proc[p].pc = "espera" /\ proc[p].prazo /\ Volta(p)
  BY DEF Expira, Quieto, ctxVars, logVars, zmqVars
<1>2. Solto(p)
  BY <1>1, ProcVolta
<1>3. {abuso, expirou}' \subseteq BOOLEAN
  <2>1. abuso \in BOOLEAN
    BY DEF TypeOK
  <2>. QED
    BY <1>1, <2>1 DEF Quieto
<1>. QED
  BY <1>1, <1>2, <1>3 DEF TypeOK, Solto, Move, Quieto

(* The entry of a call.                                                    *)
LEMMA EfeitoChama ==
    ASSUME TypeOK, NEW p \in Procs, NEW s \in Socks,
           NEW op \in {"bind", "setsockopt", "send", "recv", "close", "term"}, Chama(p, op, s)
    PROVE  /\ TypeOK'
           /\ UNCHANGED <<ctx, fila, fio, itens, caixa, dono, sock, inbox, saidas, queda,
                          expirou>>
           /\ chamadas' = chamadas + 1 /\ chamadas \in Nat
           /\ abuso' = (abuso \/ Cruza(p, op, s))
           /\ proc[p].pc = "livre" /\ Move(p)
           /\ proc'[p].op = op /\ proc'[p].s = s /\ proc'[p].ref = chamadas + 1
           /\ ~ proc'[p].prazo
           /\ \/ proc'[p].pc = "tranca" /\ op \notin {"close", "term"} /\ Aberto(s)
              \/ proc'[p].pc = "ctx" /\ (op \in {"close", "term"} \/
                                          (op = "send" /\ sock[s].active # "OFF"))
           /\ IF op = "term" THEN ctx # "nada" ELSE sock[s].estado # "nada"
           /\ op = "recv" => sock[s].active = "OFF"
<1>1. /\ UNCHANGED <<ctx, fila, fio, itens, caixa, dono, sock, inbox, saidas, queda,
                     expirou, cheio, chegadas, obtidas>>
      /\ chamadas' = chamadas + 1 /\ chamadas < MaxChamadas
      /\ abuso' = (abuso \/ Cruza(p, op, s))
      /\ proc[p].pc = "livre"
      /\ op = "recv" => sock[s].active = "OFF"
  BY DEF Chama, ctxVars, logVars, zmqVars
<1>2. /\ proc \in [Procs -> TipoProc] /\ chamadas \in 0 .. MaxChamadas
      /\ {abuso, expirou} \subseteq BOOLEAN
  BY DEF TypeOK
<1>3. chamadas \in Nat /\ chamadas + 1 \in 0 .. MaxChamadas
  BY <1>1, <1>2, ErlZmqAssumption
<1>. DEFINE direta == op \in {"close", "term"} \/ (op = "send" /\ sock[s].active # "OFF")
<1>4. PICK c : c = IF direta THEN "ctx" ELSE "tranca"
  OBVIOUS
<1>5. PICK w : w = [pc |-> c, op |-> op, s |-> s, ref |-> chamadas + 1, prazo |-> FALSE]
  OBVIOUS
<1>6. proc' = [proc EXCEPT ![p] = w]
  BY <1>4, <1>5 DEF Chama
<1>7. c \in {"ctx", "tranca"} /\ op \in Tipos \cup {"bind", "setsockopt", "ativa"}
  BY <1>4 DEF Tipos
<1>8. /\ w \in TipoProc /\ w.pc = c /\ w.op = op /\ w.s = s /\ w.ref = chamadas + 1
      /\ ~ w.prazo
  BY <1>3, <1>5, <1>7 DEF TipoProc
<1>9. Move(p) /\ proc'[p] = w
  BY <1>2, <1>6, <1>8 DEF Move
<1>10. \/ c = "tranca" /\ op \notin {"close", "term"} /\ Aberto(s)
       \/ c = "ctx" /\ (op \in {"close", "term"} \/ (op = "send" /\ sock[s].active # "OFF"))
  BY <1>4 DEF Chama
<1>11. IF op = "term" THEN ctx # "nada" ELSE sock[s].estado # "nada"
  BY DEF Chama
<1>12. {abuso, expirou}' \subseteq BOOLEAN
  <2>1. abuso' \in BOOLEAN
    BY <1>1
  <2>. QED
    BY <1>1, <1>2, <2>1
<1>13. TypeOK'
  <2>1. chamadas' \in 0 .. MaxChamadas /\ proc' \in [Procs -> TipoProc]
    BY <1>1, <1>3, <1>9 DEF Move
  <2>. QED
    BY <1>1, <1>12, <2>1 DEF TypeOK
<1>. QED
  BY <1>1, <1>3, <1>8, <1>9, <1>10, <1>11, <1>13

(* The thread goes on to another part of its loop.                         *)
LEMMA FioPc ==
    ASSUME TypeOK, NEW c \in {"nada", "ciclo", "bloqueado", "term", "zmq_term", "fim"},
           fio' = [fio EXCEPT !.pc = c]
    PROVE  /\ fio' \in TipoFio
           /\ fio'.pc = c /\ fio'.pronta = fio.pronta /\ fio'.ped = fio.ped
<1>1. PICK v \in TipoFio : v = fio
  BY DEF TypeOK
<1>2. PICK x : x = [v EXCEPT !.pc = c]
  OBVIOUS
<1>3. x \in TipoFio /\ x.pc = c /\ x.pronta = v.pronta /\ x.ped = v.ped
  BY <1>2 DEF TipoFio
<1>. QED
  BY <1>1, <1>2, <1>3

(* The pipe was polled.                                                    *)
LEMMA FioPronta ==
    ASSUME TypeOK, NEW b, b \in BOOLEAN, fio' = [fio EXCEPT !.pronta = b]
    PROVE  /\ fio' \in TipoFio
           /\ fio'.pc = fio.pc /\ fio'.pronta = b /\ fio'.ped = fio.ped
<1>1. PICK v \in TipoFio : v = fio
  BY DEF TypeOK
<1>2. PICK x : x = [v EXCEPT !.pronta = b]
  OBVIOUS
<1>3. x \in TipoFio /\ x.pc = v.pc /\ x.pronta = b /\ x.ped = v.ped
  BY <1>2 DEF TipoFio
<1>. QED
  BY <1>1, <1>2, <1>3

(* The request that was polled has been taken.                             *)
LEMMA FioTirou ==
    ASSUME TypeOK, fio' = [fio EXCEPT !.pronta = FALSE]
    PROVE  /\ fio' \in TipoFio
           /\ fio'.pc = fio.pc /\ ~ fio'.pronta /\ fio'.ped = fio.ped
<1>1. PICK b : b = FALSE
  OBVIOUS
<1>2. fio' = [fio EXCEPT !.pronta = b] /\ b \in BOOLEAN
  BY <1>1
<1>3. fio' \in TipoFio /\ fio'.pc = fio.pc /\ fio'.pronta = b /\ fio'.ped = fio.ped
  BY <1>2, FioPronta
<1>. QED
  BY <1>1, <1>3

(* The thread starts to terminate the context.                             *)
LEMMA FioTerm ==
    ASSUME TypeOK, NEW r \in Pedidos,
           fio' = [fio EXCEPT !.pc = "term", !.pronta = FALSE, !.ped = r]
    PROVE  /\ fio' \in TipoFio
           /\ fio'.pc = "term" /\ ~ fio'.pronta /\ fio'.ped = r
<1>1. PICK v \in TipoFio : v = fio
  BY DEF TypeOK
<1>2. PICK x : x = [v EXCEPT !.pc = "term", !.pronta = FALSE, !.ped = r]
  OBVIOUS
<1>3. x \in TipoFio /\ x.pc = "term" /\ ~ x.pronta /\ x.ped = r
  BY <1>2 DEF TipoFio
<1>. QED
  BY <1>1, <1>2, <1>3

(* An answer goes to the mailbox of its caller.                            *)
LEMMA Respondido ==
    ASSUME TypeOK, NEW p \in Procs, NEW r \in 1 .. MaxChamadas, NEW v \in 0 .. MaxMsgs,
           Responde(p, r, v)
    PROVE  /\ caixa' \in [Procs -> SUBSET TipoResposta]
           /\ \A q \in Procs : caixa'[q] = IF q = p THEN caixa[q] \cup {[ref |-> r, res |-> v]}
                                           ELSE caixa[q]
<1>1. caixa \in [Procs -> SUBSET TipoResposta]
  BY DEF TypeOK
<1>2. [ref |-> r, res |-> v] \in TipoResposta
  BY DEF TipoResposta
<1>3. PICK m \in TipoResposta : m = [ref |-> r, res |-> v]
  BY <1>2
<1>4. caixa' = [caixa EXCEPT ![p] = @ \cup {m}]
  BY <1>3 DEF Responde
<1>5. /\ caixa' \in [Procs -> SUBSET TipoResposta]
      /\ \A q \in Procs : caixa'[q] = IF q = p THEN caixa[q] \cup {m} ELSE caixa[q]
  BY <1>1, <1>4
<1>. QED
  BY <1>3, <1>5

(* The item whose turn it is.                                              *)
LEMMA ItemDaVez ==
    ASSUME TypeOK, InvLimites, Vez # 0
    PROVE  /\ Vez \in DOMAIN itens /\ itens[Vez] \in TipoItem /\ itens[Vez].rev
           /\ itens[Vez].tipo \in {"send", "recv"} /\ itens[Vez].s \in Socks
           /\ itens[Vez].p \in Procs /\ itens[Vez].ref \in 1 .. MaxChamadas
           /\ Campos(itens[Vez]) \in NosItens
<1>1. itens \in Seq(TipoItem) /\ chamadas \in 0 .. MaxChamadas
  BY DEF TypeOK
<1>2. Vez \in DOMAIN itens /\ itens[Vez].rev
  BY <1>1, VezProperties
<1>3. PICK i \in DOMAIN itens : i = Vez
  BY <1>2
<1>4. itens[i] \in TipoItem
  BY <1>1
<1>5. PICK e \in TipoItem : e = itens[i]
  BY <1>4
<1>6. e.tipo \in {"send", "recv"} /\ e.s \in Socks /\ e.p \in Procs /\ e.ref \in Nat
  BY DEF TipoItem
<1>7. Campos(e) \in NosItens /\ Campos(e).ref = e.ref
  BY <1>5 DEF NosItens, Vistos, Campos
<1>8. e.ref \in 1 .. MaxChamadas
  <2>1. e.ref \in 1 .. chamadas
    BY <1>7 DEF InvLimites
  <2>. QED
    BY <1>1, <2>1, ErlZmqAssumption
<1>. QED
  BY <1>2, <1>3, <1>5, <1>6, <1>7, <1>8

\* item i was answered and left; or it stays, no longer ready
Largou(i) ==
    /\ SockTipo /\ EstadosIguais /\ ActivesIguais
    /\ \A t \in Socks : sock'[t].refc = IF t = itens[i].s THEN sock[t].refc - 1
                                        ELSE sock[t].refc
    /\ itens' \in Seq(TipoItem) /\ Len(itens') < MaxPedidos
    /\ Distinta(itens)'
    /\ NosItens' = NosItens \ {Campos(itens[i])}
    /\ \A e \in NosItens' : e.ref # itens[i].ref
    /\ \A k \in DOMAIN itens' : \E j \in DOMAIN itens : j # i /\ itens'[k] = itens[j]
Manteve(i) ==
    /\ sock' = sock
    /\ itens' \in Seq(TipoItem) /\ Len(itens') < MaxPedidos
    /\ Distinta(itens)' /\ NosItens' = NosItens
    /\ \A k \in DOMAIN itens' :
         /\ k \in DOMAIN itens /\ itens'[k].tipo = itens[k].tipo /\ itens'[k].s = itens[k].s
         /\ itens'[k].rev => itens[k].rev /\ k # i

(* The item leaves.                                                        *)
LEMMA EfeitoLarga ==
    ASSUME TypeOK, Distinta(itens), NEW i \in DOMAIN itens, Larga(i)
    PROVE  Largou(i)
<1>1. /\ itens \in Seq(TipoItem) /\ sock \in [Socks -> TipoSock] /\ Len(itens) < MaxPedidos
      /\ Len(itens) \in Nat /\ MaxPedidos \in Nat
  BY ErlZmqAssumption DEF TypeOK
<1>2. itens[i] \in TipoItem
  BY <1>1
<1>3. PICK s \in Socks : s = itens[i].s
  BY <1>2 DEF TipoItem
<1>4. PICK n \in Int : n = sock[s].refc - 1
  BY <1>1 DEF TipoSock
<1>5. sock' = [sock EXCEPT ![s].refc = n]
  BY <1>1, <1>3, <1>4 DEF Larga
<1>6. /\ SockTipo /\ EstadosIguais /\ ActivesIguais
      /\ \A t \in Socks : sock'[t].refc = IF t = s THEN n ELSE sock[t].refc
  BY <1>5, SockConta
<1>7. PICK w : w = itens'
  OBVIOUS
<1>8. w = RemoveAt(itens, i)
  BY <1>7 DEF Larga
<1>9. /\ w \in Seq(TipoItem) /\ Len(w) = Len(itens) - 1 /\ Distinta(w)
      /\ Vistos(w) = Vistos(itens) \ {Campos(itens[i])}
      /\ \A e \in Vistos(w) : e.ref # itens[i].ref
      /\ \A k \in DOMAIN w : \E j \in DOMAIN itens : j # i /\ w[k] = itens[j]
  BY <1>1, <1>8, Largado
<1>10. Len(w) < MaxPedidos
  BY <1>1, <1>9
<1>11. NosItens' = Vistos(w) /\ NosItens = Vistos(itens)
  BY <1>7 DEF NosItens
<1>. QED
  BY <1>3, <1>4, <1>6, <1>7, <1>9, <1>10, <1>11 DEF Largou

\* w holds the items of q with the poll results r
ComResultados(w, q, r) == /\ r \in [DOMAIN q -> BOOLEAN]
                          /\ w = [k \in DOMAIN q |-> [q[k] EXCEPT !.rev = r[k]]]

(* Items with other poll results are the same items.                       *)
LEMMA OutrosResultados ==
    ASSUME NEW q \in Seq(TipoItem), Distinta(q), NEW r, NEW w, ComResultados(w, q, r)
    PROVE  /\ w \in Seq(TipoItem) /\ Len(w) = Len(q) /\ DOMAIN w = DOMAIN q
           /\ Distinta(w) /\ Vistos(w) = Vistos(q)
           /\ \A k \in DOMAIN w : w[k].tipo = q[k].tipo /\ w[k].s = q[k].s /\ w[k].rev = r[k]
<1>1. Len(q) \in Nat /\ DOMAIN q = 1 .. Len(q)
  OBVIOUS
<1>2. /\ r \in [DOMAIN q -> BOOLEAN]
      /\ w = [k \in DOMAIN q |-> [q[k] EXCEPT !.rev = r[k]]]
  BY DEF ComResultados
<1>3. ASSUME NEW k \in DOMAIN q
      PROVE  /\ w[k] \in TipoItem /\ w[k].tipo = q[k].tipo /\ w[k].s = q[k].s
             /\ w[k].rev = r[k] /\ Campos(w[k]) = Campos(q[k])
  <2>1. PICK v \in TipoItem : v = q[k]
    OBVIOUS
  <2>2. PICK b : b = r[k] /\ b \in BOOLEAN
    BY <1>2
  <2>3. PICK x : x = [v EXCEPT !.rev = b]
    OBVIOUS
  <2>4. /\ x \in TipoItem /\ x.tipo = v.tipo /\ x.s = v.s /\ x.p = v.p /\ x.ref = v.ref
        /\ x.zmq = v.zmq /\ x.rev = b
    BY <2>2, <2>3 DEF TipoItem
  <2>5. w[k] = x
    BY <1>2, <2>1, <2>2, <2>3
  <2>6. Campos(x) = Campos(v)
    BY <2>4 DEF Campos
  <2>. QED
    BY <2>1, <2>2, <2>4, <2>5, <2>6
<1>4. w \in Seq(TipoItem) /\ Len(w) = Len(q) /\ DOMAIN w = DOMAIN q
  BY <1>1, <1>2, <1>3, IsASeq
<1>5. PICK f : f = [k \in DOMAIN q |-> k]
  OBVIOUS
<1>6. Parte(w, q, f)
  BY <1>3, <1>4, <1>5 DEF Parte
<1>7. Distinta(w)
  BY <1>6, Mantidos
<1>8. Vistos(w) = Vistos(q)
  <2>1. \A k \in DOMAIN q : Campos(w[k]) = Campos(q[k])
    BY <1>3
  <2>2. Vistos(w) = {Campos(q[k]) : k \in DOMAIN q}
    BY <1>4, <2>1 DEF Vistos
  <2>. QED
    BY <2>2 DEF Vistos
<1>. QED
  BY <1>3, <1>4, <1>7, <1>8

(* The item stays.                                                         *)
LEMMA EfeitoMantem ==
    ASSUME TypeOK, Distinta(itens), NEW i \in DOMAIN itens, Mantem(i)
    PROVE  Manteve(i)
<1>1. /\ itens \in Seq(TipoItem) /\ Len(itens) < MaxPedidos
      /\ itens' = [itens EXCEPT ![i].rev = FALSE] /\ sock' = sock
  BY DEF TypeOK, Mantem
<1>2. PICK r : r = [k \in DOMAIN itens |-> IF k = i THEN FALSE ELSE itens[k].rev]
  OBVIOUS
<1>3. r \in [DOMAIN itens -> BOOLEAN]
  <2>1. \A k \in DOMAIN itens : itens[k].rev \in BOOLEAN
    <3>1. \A v \in TipoItem : v.rev \in BOOLEAN
      BY DEF TipoItem
    <3>. QED
      BY <1>1, <3>1
  <2>. QED
    BY <1>2, <2>1
<1>4. PICK w : w = itens'
  OBVIOUS
<1>5. w = [k \in DOMAIN itens |-> [itens[k] EXCEPT !.rev = r[k]]]
  <2>1. \A v \in TipoItem : v = [v EXCEPT !.rev = v.rev]
    BY DEF TipoItem
  <2>2. \A k \in DOMAIN itens : itens[k] = [itens[k] EXCEPT !.rev = itens[k].rev]
    BY <1>1, <2>1
  <2>3. w = [k \in DOMAIN itens |-> IF k = i THEN [itens[i] EXCEPT !.rev = FALSE]
                                    ELSE itens[k]]
    BY <1>1, <1>4
  <2>4. ASSUME NEW k \in DOMAIN itens
        PROVE  [itens[k] EXCEPT !.rev = r[k]] =
                  IF k = i THEN [itens[i] EXCEPT !.rev = FALSE] ELSE itens[k]
    <3>1. CASE k = i
      BY <1>2, <3>1
    <3>2. CASE k # i
      <4>1. r[k] = itens[k].rev
        BY <1>2, <3>2
      <4>. QED
        BY <2>2, <3>2, <4>1
    <3>. QED
      BY <3>1, <3>2
  <2>. QED
    BY <2>3, <2>4
<1>6. /\ w \in Seq(TipoItem) /\ Len(w) = Len(itens) /\ DOMAIN w = DOMAIN itens
      /\ Distinta(w) /\ Vistos(w) = Vistos(itens)
      /\ \A k \in DOMAIN w : /\ w[k].tipo = itens[k].tipo /\ w[k].s = itens[k].s
                             /\ w[k].rev = r[k]
  <2>1. ComResultados(w, itens, r)
    BY <1>3, <1>5 DEF ComResultados
  <2>. QED
    BY <1>1, <2>1, OutrosResultados
<1>7. \A k \in DOMAIN itens : r[k] => itens[k].rev /\ k # i
  BY <1>2
<1>. QED
  BY <1>1, <1>4, <1>6, <1>7 DEF Manteve, NosItens

(* A context is made.                                                      *)
LEMMA EfeitoContext ==
    ASSUME TypeOK, Context
    PROVE  /\ TypeOK'
           /\ UNCHANGED <<dono, sock, fila, itens, proc, caixa, inbox, saidas, chamadas,
                          queda, abuso, expirou>>
           /\ ctx = "nada" /\ ctx' = "vivo"
           /\ fio'.pc = "ciclo" /\ fio'.pronta = fio.pronta /\ fio'.ped = fio.ped
<1>1. /\ UNCHANGED <<dono, sock, fila, itens, proc, caixa, inbox, cheio, chegadas, obtidas,
                     saidas, chamadas, queda, abuso, expirou>>
      /\ ctx = "nada" /\ ctx' = "vivo" /\ fio' = [fio EXCEPT !.pc = "ciclo"]
  BY DEF Context, zmqVars, logVars
<1>2. /\ fio' \in TipoFio /\ fio'.pc = "ciclo" /\ fio'.pronta = fio.pronta
      /\ fio'.ped = fio.ped
  BY <1>1, FioPc
<1>. QED
  BY <1>1, <1>2 DEF TypeOK

(* A socket is made.                                                       *)
LEMMA EfeitoSocket ==
    ASSUME TypeOK, NEW p \in Procs, NEW s \in Socks, NEW a \in {"OFF", "PENDING"},
           Socket(p, s, a)
    PROVE  /\ TypeOK'
           /\ UNCHANGED <<ctx, dono, fila, fio, itens, proc, caixa, inbox, saidas, chamadas,
                          expirou>>
           /\ ctx # "nada" /\ sock[s].estado = "nada"
           /\ \/ /\ sock'[s].estado = "aberto" /\ sock'[s].active = a /\ sock'[s].refc = 1
                 /\ \A t \in Socks : t # s => sock'[t] = sock[t]
                 /\ UNCHANGED <<queda, abuso>>
              \/ sock' = sock /\ queda' = "ub" /\ abuso'
<1>1. /\ UNCHANGED <<ctx, dono, fila, fio, itens, proc, caixa, inbox, cheio, chegadas,
                     obtidas, saidas, chamadas, expirou>>
      /\ ctx # "nada" /\ sock[s].estado = "nada"
  BY DEF Socket, ctxVars, zmqVars, logVars
<1>2. sock \in [Socks -> TipoSock] /\ {abuso, expirou} \subseteq BOOLEAN
  BY DEF TypeOK
<1>3. CASE /\ sock' = [sock EXCEPT ![s] = [estado |-> "aberto", active |-> a,
                                           timeo |-> FALSE, refc |-> 1]]
           /\ UNCHANGED <<queda, abuso>>
  <2>1. PICK w : w = [estado |-> "aberto", active |-> a, timeo |-> FALSE, refc |-> 1]
    OBVIOUS
  <2>2. w \in TipoSock /\ w.estado = "aberto" /\ w.active = a /\ w.refc = 1
    BY <2>1 DEF TipoSock
  <2>3. sock' = [sock EXCEPT ![s] = w]
    BY <1>3, <2>1
  <2>4. /\ sock' \in [Socks -> TipoSock] /\ sock'[s] = w
        /\ \A t \in Socks : t # s => sock'[t] = sock[t]
    BY <1>2, <2>2, <2>3
  <2>. QED
    BY <1>1, <1>3, <2>2, <2>4 DEF TypeOK
<1>4. CASE sock' = sock /\ queda' = "ub" /\ abuso' = TRUE
  <2>1. {abuso, expirou}' \subseteq BOOLEAN
    <3>1. abuso' \in BOOLEAN
      BY <1>4
    <3>. QED
      BY <1>1, <1>2, <3>1
  <2>. QED
    BY <1>1, <1>4, <2>1 DEF TypeOK
<1>. QED
  BY <1>3, <1>4 DEF Socket

(* A message arrives.                                                      *)
LEMMA EfeitoChega ==
    ASSUME TypeOK, NEW s \in Socks, Chega(s)
    PROVE  /\ TypeOK'
           /\ UNCHANGED <<ctx, dono, sock, fila, fio, itens, proc, caixa, saidas, chamadas,
                          queda, abuso, expirou>>
           /\ \A t \in Socks : inbox[t] # << >> => inbox'[t] # << >>
<1>1. /\ UNCHANGED <<ctx, dono, sock, fila, fio, itens, proc, caixa, cheio, obtidas, saidas,
                     chamadas, queda, abuso, expirou>>
      /\ chegadas[s] < MaxMsgs
      /\ chegadas' = [chegadas EXCEPT ![s] = @ + 1]
      /\ inbox' = [inbox EXCEPT ![s] = Append(@, chegadas'[s])]
  BY DEF Chega, ctxVars, logVars
<1>2. chegadas \in [Socks -> 0 .. MaxMsgs] /\ inbox \in [Socks -> Seq(1 .. MaxMsgs)]
  BY DEF TypeOK
<1>3. PICK m : m = chegadas[s] + 1
  OBVIOUS
<1>4. m \in 1 .. MaxMsgs /\ m \in 0 .. MaxMsgs
  BY <1>1, <1>2, <1>3, ErlZmqAssumption
<1>5. chegadas' \in [Socks -> 0 .. MaxMsgs] /\ chegadas'[s] = m
  BY <1>1, <1>2, <1>3, <1>4
<1>6. inbox' = [inbox EXCEPT ![s] = Append(@, m)]
  BY <1>1, <1>5
<1>7. inbox' \in [Socks -> Seq(1 .. MaxMsgs)] /\ Append(inbox[s], m) # << >>
  BY <1>4, <1>6, Mensagens
<1>8. \A t \in Socks : inbox'[t] = IF t = s THEN Append(inbox[s], m) ELSE inbox[t]
  BY <1>2, <1>6
<1>. QED
  BY <1>1, <1>5, <1>7, <1>8 DEF TypeOK

(* A socket's room comes or goes.                                          *)
LEMMA EfeitoEnche ==
    ASSUME TypeOK, NEW s \in Socks, Enche(s)
    PROVE  /\ TypeOK'
           /\ UNCHANGED <<ctx, dono, sock, fila, fio, itens, proc, caixa, inbox, saidas,
                          chamadas, queda, abuso, expirou>>
<1>1. /\ UNCHANGED <<ctx, dono, sock, fila, fio, itens, proc, caixa, inbox, obtidas, saidas,
                     chegadas, chamadas, queda, abuso, expirou>>
      /\ cheio' = [cheio EXCEPT ![s] = ~ @]
  BY DEF Enche, ctxVars, logVars
<1>2. cheio \in [Socks -> BOOLEAN]
  BY DEF TypeOK
<1>3. PICK b : b = ~ cheio[s] /\ b \in BOOLEAN
  OBVIOUS
<1>4. cheio' = [cheio EXCEPT ![s] = b]
  BY <1>1, <1>3
<1>5. cheio' \in [Socks -> BOOLEAN]
  BY <1>2, <1>3, <1>4
<1>. QED
  BY <1>1, <1>5 DEF TypeOK

\* the thread polled, and found the socket of an item closed or every one open
Viu == /\ itens' \in Seq(TipoItem) /\ Len(itens') < MaxPedidos
       /\ Distinta(itens)' /\ NosItens' = NosItens /\ DOMAIN itens' = DOMAIN itens
       /\ \A k \in DOMAIN itens :
            /\ itens'[k].tipo = itens[k].tipo /\ itens'[k].s = itens[k].s
            /\ itens'[k].rev /\ itens[k].zmq => Pode(itens[k])

(* The poll.                                                               *)
LEMMA EfeitoPoll ==
    ASSUME TypeOK, Distinta(itens), Poll
    PROVE  /\ TypeOK'
           /\ UNCHANGED <<ctx, dono, sock, fila, proc, caixa, inbox, saidas, chamadas, abuso,
                          expirou>>
           /\ fio.pc = "ciclo" /\ fio'.pc = "ciclo" /\ fio'.ped = fio.ped
           /\ fio'.pronta => fila # << >>
           /\ \/ /\ queda' = "assert" /\ itens' = itens
                 /\ \E i \in DOMAIN itens : itens[i].zmq /\ ~ Aberto(itens[i].s)
              \/ queda' = queda /\ Viu
<1>1. /\ UNCHANGED <<ctx, dono, sock, fila, proc, caixa, inbox, cheio, chegadas, obtidas,
                     saidas, chamadas, abuso, expirou>>
      /\ fio.pc = "ciclo" /\ ~ fio.pronta
  BY DEF Poll, ctxVars, zmqVars, logVars
<1>2. itens \in Seq(TipoItem) /\ Len(itens) < MaxPedidos
  BY DEF TypeOK
<1>3. CASE /\ \E i \in DOMAIN itens : itens[i].zmq /\ ~ Aberto(itens[i].s)
           /\ queda' = "assert" /\ UNCHANGED <<itens, fio>>
  BY <1>1, <1>3 DEF TypeOK
<1>4. CASE /\ \E fd0 \in BOOLEAN :
                itens' = [i \in DOMAIN itens |-> [itens[i] EXCEPT !.rev =
                             IF itens[i].zmq THEN Pode(itens[i]) ELSE fd0]]
           /\ fio' = [fio EXCEPT !.pronta = fila # << >>]
           /\ queda' = queda
  <2>1. PICK b : b = (fila # << >>) /\ b \in BOOLEAN
    OBVIOUS
  <2>2. fio' = [fio EXCEPT !.pronta = b]
    BY <1>4, <2>1
  <2>3. /\ fio' \in TipoFio /\ fio'.pc = fio.pc /\ fio'.pronta = b /\ fio'.ped = fio.ped
    BY <2>1, <2>2, FioPronta
  <2>4. fio'.pronta => fila # << >>
    BY <2>1, <2>3
  <2>5. PICK f \in BOOLEAN :
           itens' = [i \in DOMAIN itens |-> [itens[i] EXCEPT !.rev =
                        IF itens[i].zmq THEN Pode(itens[i]) ELSE f]]
    BY <1>4
  <2>6. PICK r : r = [i \in DOMAIN itens |-> IF itens[i].zmq THEN Pode(itens[i]) ELSE f]
    OBVIOUS
  <2>7. r \in [DOMAIN itens -> BOOLEAN]
    <3>1. \A i \in DOMAIN itens : Pode(itens[i]) \in BOOLEAN
      BY DEF Pode
    <3>. QED
      BY <2>6, <3>1
  <2>8. PICK w : w = itens'
    OBVIOUS
  <2>9. w = [k \in DOMAIN itens |-> [itens[k] EXCEPT !.rev = r[k]]]
    BY <2>5, <2>6, <2>8
  <2>10. ComResultados(w, itens, r)
    BY <2>7, <2>9 DEF ComResultados
  <2>11. /\ w \in Seq(TipoItem) /\ Len(w) = Len(itens) /\ DOMAIN w = DOMAIN itens
         /\ Distinta(w) /\ Vistos(w) = Vistos(itens)
         /\ \A k \in DOMAIN w : /\ w[k].tipo = itens[k].tipo /\ w[k].s = itens[k].s
                                /\ w[k].rev = r[k]
    BY <1>2, <2>10, OutrosResultados
  <2>12. \A k \in DOMAIN itens : r[k] /\ itens[k].zmq => Pode(itens[k])
    BY <2>6
  <2>13. Viu
    BY <1>2, <2>8, <2>11, <2>12 DEF Viu, NosItens
  <2>14. TypeOK'
    BY <1>1, <1>4, <2>3, <2>13 DEF TypeOK, Viu
  <2>. QED
    BY <1>1, <1>4, <2>3, <2>4, <2>13, <2>14
<1>. QED
  BY <1>3, <1>4 DEF Poll

(* The assertion on the socket of an item.                                 *)
LEMMA EfeitoAborta ==
    ASSUME TypeOK, ItemAborta
    PROVE  /\ TypeOK'
           /\ UNCHANGED <<ctx, dono, sock, fila, fio, itens, proc, caixa, inbox, saidas,
                          chamadas, abuso, expirou>>
           /\ Vez # 0 /\ ~ Aberto(itens[Vez].s) /\ queda' = "assert"
<1>1. /\ UNCHANGED <<ctx, dono, sock, fila, fio, itens, proc, caixa, inbox, cheio, chegadas,
                     obtidas, saidas, chamadas, abuso, expirou>>
      /\ Vez # 0 /\ ~ Aberto(itens[Vez].s) /\ queda' = "assert"
  BY DEF ItemAborta, ctxVars, zmqVars, logVars
<1>. QED
  BY <1>1 DEF TypeOK

(* The thread blocks on an item.                                           *)
LEMMA EfeitoBloqueia ==
    ASSUME TypeOK, ItemBloqueia
    PROVE  /\ TypeOK'
           /\ UNCHANGED <<ctx, dono, sock, fila, itens, proc, caixa, inbox, saidas,
                          chamadas, queda, abuso, expirou>>
           /\ Vez # 0 /\ ~ Pode(itens[Vez])
           /\ fio.pc = "ciclo"
           /\ fio'.pc = "bloqueado" /\ fio'.pronta = fio.pronta /\ fio'.ped = fio.ped
<1>1. /\ UNCHANGED <<ctx, dono, sock, fila, itens, proc, caixa, inbox, cheio, chegadas,
                     obtidas, saidas, chamadas, queda, abuso, expirou>>
      /\ Vez # 0 /\ ~ Pode(itens[Vez]) /\ fio.pc = "ciclo"
      /\ fio' = [fio EXCEPT !.pc = "bloqueado"]
  BY DEF ItemBloqueia, ctxVars, zmqVars, logVars
<1>2. /\ fio' \in TipoFio /\ fio'.pc = "bloqueado" /\ fio'.pronta = fio.pronta
      /\ fio'.ped = fio.ped
  BY <1>1, FioPc
<1>. QED
  BY <1>1, <1>2 DEF TypeOK

\* what the three steps on an item have in common
Tratou == /\ UNCHANGED <<ctx, dono, fila, proc, chamadas, queda, abuso, expirou>>
          /\ fio.pc \in {"ciclo", "bloqueado"}
          /\ fio'.pc = "ciclo" /\ fio'.pronta = fio.pronta /\ fio'.ped = fio.ped

\* item i was answered with result v; or it stays
Atendeu(i, v) ==
    /\ Tratou /\ Largou(i)
    /\ i \in DOMAIN itens /\ itens[i] \in TipoItem /\ itens[i].p \in Procs
    /\ itens[i].s \in Socks /\ itens[i].ref \in 1 .. MaxChamadas
    /\ Campos(itens[i]) \in NosItens
    /\ \A q \in Procs : caixa'[q] = IF q = itens[i].p
                                    THEN caixa[q] \cup {[ref |-> itens[i].ref, res |-> v]}
                                    ELSE caixa[q]
    /\ \/ saidas' = saidas
       \/ saidas' = Append(saidas, itens[i].ref)
    /\ \/ inbox' = inbox
       \/ itens[i].tipo = "recv" /\ \A t \in Socks : t # itens[i].s => inbox'[t] = inbox[t]
Continuou(i) ==
    /\ Tratou /\ Manteve(i)
    /\ i \in DOMAIN itens /\ itens[i].s \in Socks
    /\ caixa' = caixa /\ saidas' = saidas
    /\ itens[i].tipo = "recv" /\ sock[itens[i].s].active = "ON"
    /\ \A t \in Socks : t # itens[i].s => inbox'[t] = inbox[t]

(* A message is read for an item.                                          *)
LEMMA EfeitoItemRecv ==
    ASSUME TypeOK, InvLimites, Distinta(itens), ItemRecv
    PROVE  TypeOK' /\ \E i \in DOMAIN itens : Continuou(i) \/ \E v : Atendeu(i, v)
<1>1. /\ UNCHANGED <<ctx, dono, fila, proc, chamadas, queda, abuso, expirou, cheio,
                     chegadas, saidas>>
      /\ Vez # 0 /\ fio.pc \in {"ciclo", "bloqueado"} /\ fio' = [fio EXCEPT !.pc = "ciclo"]
  BY DEF ItemRecv, ctxVars
<1>2. /\ fio' \in TipoFio /\ fio'.pc = "ciclo" /\ fio'.pronta = fio.pronta
      /\ fio'.ped = fio.ped
  BY <1>1, FioPc
<1>3. Tratou
  BY <1>1, <1>2 DEF Tratou
<1>4. PICK i \in DOMAIN itens : i = Vez
  BY <1>1, ItemDaVez
<1>5. /\ itens[i] \in TipoItem /\ itens[i].s \in Socks /\ itens[i].p \in Procs
      /\ itens[i].ref \in 1 .. MaxChamadas /\ Campos(itens[i]) \in NosItens
  BY <1>1, <1>4, ItemDaVez
<1>6. PICK s \in Socks : s = itens[i].s
  BY <1>5
<1>7. PICK m : m = Head(inbox[s])
  OBVIOUS
<1>8. /\ itens[i].tipo = "recv" /\ inbox[s] # << >>
      /\ inbox' = [inbox EXCEPT ![s] = Tail(@)]
      /\ IF sock[s].active = "ON"
         THEN /\ obtidas' = [obtidas EXCEPT ![s] = Append(@, m)]
              /\ Mantem(i) /\ caixa' = caixa
         ELSE Responde(itens[i].p, itens[i].ref, m) /\ Larga(i) /\ obtidas' = obtidas
  BY <1>4, <1>6, <1>7 DEF ItemRecv, Pode
<1>9. inbox' \in [Socks -> Seq(1 .. MaxMsgs)] /\ m \in 1 .. MaxMsgs /\ m \in 0 .. MaxMsgs
  <2>1. inbox' \in [Socks -> Seq(1 .. MaxMsgs)] /\ m \in 1 .. MaxMsgs
    BY <1>7, <1>8, Mensagens
  <2>. QED
    BY <2>1, ErlZmqAssumption
<1>10. \A t \in Socks : t # s => inbox'[t] = inbox[t]
  BY <1>8 DEF TypeOK
<1>11. CASE sock[s].active = "ON"
  <2>1. Manteve(i)
    BY <1>8, <1>11, EfeitoMantem
  <2>2. obtidas' \in [Socks -> Seq(1 .. MaxMsgs)]
    <3>1. obtidas' = [obtidas EXCEPT ![s] = Append(@, m)]
      BY <1>8, <1>11
    <3>. QED
      BY <1>9, <3>1, Mensagens
  <2>3. Continuou(i)
    BY <1>1, <1>3, <1>5, <1>6, <1>8, <1>10, <1>11, <2>1 DEF Continuou
  <2>4. TypeOK'
    BY <1>1, <1>2, <1>8, <1>9, <1>11, <2>1, <2>2 DEF TypeOK, Manteve
  <2>. QED
    BY <2>3, <2>4
<1>12. CASE sock[s].active # "ON"
  <2>1. Largou(i)
    BY <1>8, <1>12, EfeitoLarga
  <2>2. /\ caixa' \in [Procs -> SUBSET TipoResposta]
        /\ \A q \in Procs : caixa'[q] = IF q = itens[i].p
                                        THEN caixa[q] \cup {[ref |-> itens[i].ref, res |-> m]}
                                        ELSE caixa[q]
    BY <1>5, <1>8, <1>9, <1>12, Respondido
  <2>3. Atendeu(i, m)
    BY <1>1, <1>3, <1>5, <1>6, <1>8, <1>10, <1>12, <2>1, <2>2 DEF Atendeu
  <2>4. TypeOK'
    BY <1>1, <1>2, <1>8, <1>9, <1>12, <2>1, <2>2 DEF TypeOK, Largou, SockTipo
  <2>. QED
    BY <2>3, <2>4
<1>. QED
  BY <1>11, <1>12

(* The message of an item is written.                                      *)
LEMMA EfeitoItemSend ==
    ASSUME TypeOK, InvLimites, Distinta(itens), ItemSend
    PROVE  TypeOK' /\ \E i \in DOMAIN itens : \E v : Atendeu(i, v)
<1>1. /\ UNCHANGED <<ctx, dono, fila, proc, chamadas, queda, abuso, expirou, cheio,
                     chegadas, obtidas, inbox>>
      /\ Vez # 0 /\ fio.pc \in {"ciclo", "bloqueado"} /\ fio' = [fio EXCEPT !.pc = "ciclo"]
  BY DEF ItemSend, ctxVars, zmqVars
<1>2. /\ fio' \in TipoFio /\ fio'.pc = "ciclo" /\ fio'.pronta = fio.pronta
      /\ fio'.ped = fio.ped
  BY <1>1, FioPc
<1>3. Tratou
  BY <1>1, <1>2 DEF Tratou
<1>4. PICK i \in DOMAIN itens : i = Vez
  BY <1>1, ItemDaVez
<1>5. /\ itens[i] \in TipoItem /\ itens[i].s \in Socks /\ itens[i].p \in Procs
      /\ itens[i].ref \in 1 .. MaxChamadas /\ Campos(itens[i]) \in NosItens
  BY <1>1, <1>4, ItemDaVez
<1>6. /\ saidas' = Append(saidas, itens[i].ref)
      /\ Responde(itens[i].p, itens[i].ref, 0) /\ Larga(i)
  BY <1>4 DEF ItemSend
<1>7. PICK v \in 0 .. MaxMsgs : v = 0
  BY ErlZmqAssumption
<1>8. saidas' \in Seq(1 .. MaxChamadas)
  BY <1>5, <1>6, Mensagens
<1>9. Largou(i)
  BY <1>6, EfeitoLarga
<1>10. /\ caixa' \in [Procs -> SUBSET TipoResposta]
       /\ \A q \in Procs : caixa'[q] = IF q = itens[i].p
                                       THEN caixa[q] \cup {[ref |-> itens[i].ref, res |-> v]}
                                       ELSE caixa[q]
  <2>1. Responde(itens[i].p, itens[i].ref, v)
    BY <1>6, <1>7
  <2>. QED
    BY <1>5, <2>1, Respondido
<1>11. Atendeu(i, v)
  BY <1>1, <1>3, <1>5, <1>6, <1>9, <1>10 DEF Atendeu
<1>12. TypeOK'
  BY <1>1, <1>2, <1>8, <1>9, <1>10 DEF TypeOK, Largou, SockTipo
<1>. QED
  BY <1>11, <1>12

(* The blocked operation on an item timed out.                             *)
LEMMA EfeitoItemExpira ==
    ASSUME TypeOK, InvLimites, InvEstado, Distinta(itens), ItemExpira
    PROVE  TypeOK' /\ \E i \in DOMAIN itens : Continuou(i) \/ \E v : Atendeu(i, v)
<1>1. /\ UNCHANGED <<ctx, dono, fila, proc, chamadas, queda, abuso, expirou, cheio,
                     chegadas, saidas, obtidas, inbox>>
      /\ fio.pc = "bloqueado" /\ fio' = [fio EXCEPT !.pc = "ciclo"]
  BY DEF ItemExpira, ctxVars, zmqVars, logVars
<1>2. /\ fio' \in TipoFio /\ fio'.pc = "ciclo" /\ fio'.pronta = fio.pronta
      /\ fio'.ped = fio.ped
  BY <1>1, FioPc
<1>3. Tratou
  BY <1>1, <1>2 DEF Tratou
<1>4. Vez # 0
  BY <1>1 DEF InvEstado
<1>5. PICK i \in DOMAIN itens : i = Vez
  BY <1>4, ItemDaVez
<1>6. /\ itens[i] \in TipoItem /\ itens[i].s \in Socks /\ itens[i].p \in Procs
      /\ itens[i].ref \in 1 .. MaxChamadas /\ Campos(itens[i]) \in NosItens
  BY <1>4, <1>5, ItemDaVez
<1>7. IF itens[i].tipo = "recv" /\ sock[itens[i].s].active = "ON"
      THEN Mantem(i) /\ caixa' = caixa
      ELSE Larga(i) /\ Responde(itens[i].p, itens[i].ref, 0)
  BY <1>5 DEF ItemExpira
<1>8. CASE itens[i].tipo = "recv" /\ sock[itens[i].s].active = "ON"
  <2>1. Manteve(i)
    BY <1>7, <1>8, EfeitoMantem
  <2>2. Continuou(i)
    BY <1>1, <1>3, <1>6, <1>7, <1>8, <2>1 DEF Continuou
  <2>3. TypeOK'
    BY <1>1, <1>2, <1>7, <1>8, <2>1 DEF TypeOK, Manteve
  <2>. QED
    BY <2>2, <2>3
<1>9. CASE ~ (itens[i].tipo = "recv" /\ sock[itens[i].s].active = "ON")
  <2>1. PICK v \in 0 .. MaxMsgs : v = 0
    BY ErlZmqAssumption
  <2>2. Largou(i)
    BY <1>7, <1>9, EfeitoLarga
  <2>3. Responde(itens[i].p, itens[i].ref, v)
    BY <1>7, <1>9, <2>1
  <2>4. /\ caixa' \in [Procs -> SUBSET TipoResposta]
        /\ \A q \in Procs : caixa'[q] = IF q = itens[i].p
                                        THEN caixa[q] \cup {[ref |-> itens[i].ref, res |-> v]}
                                        ELSE caixa[q]
    BY <1>6, <2>3, Respondido
  <2>5. Atendeu(i, v)
    BY <1>1, <1>3, <1>6, <2>2, <2>4 DEF Atendeu
  <2>6. TypeOK'
    BY <1>1, <1>2, <2>2, <2>4 DEF TypeOK, Largou, SockTipo
  <2>. QED
    BY <2>5, <2>6
<1>. QED
  BY <1>8, <1>9

\* request r was taken from the pipe
Tirou(r) ==
    /\ UNCHANGED <<ctx, dono, proc, saidas, chamadas, abuso, expirou>>
    /\ fio.pc = "ciclo" /\ Vez = 0 /\ dono = Nenhum
    /\ r \in Pedidos /\ r.p \in Procs /\ r.ref \in 1 .. MaxChamadas
    /\ fila' \in Seq(Pedidos) /\ Len(fila') <= FilaMax
    /\ Distinta(fila)' /\ NaFila = {r} \cup NaFila'
    /\ \A d \in NaFila' : d.ref # r.ref
    /\ Len(fila) \in Nat /\ DOMAIN fila = 1 .. Len(fila) /\ 1 \in DOMAIN fila
    /\ DOMAIN fila' = 1 .. Len(fila) - 1 /\ fila[1] = r
    /\ \A k \in 1 .. Len(fila) - 1 : fila'[k] = fila[k + 1]

(* A request is taken from the pipe.                                       *)
LEMMA EfeitoDaFila ==
    ASSUME TypeOK, InvEstado, InvLimites, Distinta(fila), DaFila
    PROVE  Tirou(Head(fila)) /\ UNCHANGED <<cheio, chegadas, obtidas>>
<1>1. /\ UNCHANGED <<ctx, dono, proc, saidas, chamadas, abuso, expirou, cheio, chegadas,
                     obtidas>>
      /\ fio.pc = "ciclo" /\ Vez = 0 /\ dono = Nenhum
      /\ fio.pronta /\ fila' = Tail(fila)
  BY DEF DaFila, logVars
<1>2. fila \in Seq(Pedidos) /\ Len(fila) <= FilaMax /\ chamadas \in 0 .. MaxChamadas
  BY DEF TypeOK
<1>3. fila # << >>
  BY <1>1 DEF InvEstado
<1>4. PICK r : r = Head(fila)
  OBVIOUS
<1>5. PICK w : w = fila'
  OBVIOUS
<1>6. w = Tail(fila)
  BY <1>1, <1>5
<1>7. /\ r \in Pedidos /\ w \in Seq(Pedidos) /\ Len(w) = Len(fila) - 1
      /\ r = fila[1] /\ 1 \in DOMAIN fila /\ Len(fila) \in Nat
      /\ DOMAIN fila = 1 .. Len(fila) /\ DOMAIN w = 1 .. Len(fila) - 1
      /\ \A i \in 1 .. Len(fila) - 1 : w[i] = fila[i + 1]
      /\ Range(fila) = {r} \cup Range(w)
  BY <1>2, <1>3, <1>4, <1>6, Retirado
<1>8. /\ Distinta(w) /\ r \in Range(fila)
      /\ \A d \in Range(w) : d.ref # r.ref
  BY <1>2, <1>3, <1>4, <1>6, RetiradoDistinta
<1>9. r.p \in Procs /\ r.ref \in 1 .. MaxChamadas
  <2>1. r.p \in Procs /\ r.ref \in 1 .. chamadas
    BY <1>8 DEF InvLimites, NaFila
  <2>. QED
    BY <1>2, <2>1, ErlZmqAssumption
<1>10. Len(w) <= FilaMax
  BY <1>2, <1>7, ErlZmqAssumption
<1>11. NaFila = {r} \cup Range(w) /\ NaFila' = Range(w)
  BY <1>5, <1>7 DEF NaFila
<1>12. Tirou(r)
  BY <1>1, <1>5, <1>7, <1>8, <1>9, <1>10, <1>11 DEF Tirou
<1>. QED
  BY <1>1, <1>4, <1>12

\* an item for request r came last
Registou(r) ==
    \E e \in TipoItem :
       /\ e.tipo = r.tipo /\ e.s = r.s /\ e.p = r.p /\ e.ref = r.ref
       /\ e.zmq <=> Aberto(r.s)
       /\ itens' \in Seq(TipoItem) /\ Len(itens') < MaxPedidos /\ Distinta(itens)'
       /\ NosItens' = NosItens \cup {Campos(e)}
       /\ \A k \in DOMAIN itens' : ~ itens'[k].rev

(* A send or recv request becomes an item.                                 *)
LEMMA EfeitoRegista ==
    ASSUME TypeOK, InvEstado, InvLimites, InvRefs, Regista
    PROVE  /\ TypeOK'
           /\ \E r : /\ Tirou(r) /\ r.tipo \in {"send", "recv"}
                     /\ UNCHANGED <<sock, caixa, inbox>>
                     /\ fio'.pc = "ciclo" /\ ~ fio'.pronta /\ fio'.ped = fio.ped
                     /\ \/ queda' = queda /\ Registou(r)
                        \/ /\ queda' = "assert" /\ itens' = itens
                           /\ Len(itens) + 1 = MaxPedidos
<1>1. /\ DaFila /\ UNCHANGED <<sock, caixa, inbox>> /\ fio' = [fio EXCEPT !.pronta = FALSE]
  BY DEF Regista
<1>2. PICK r : r = Head(fila)
  OBVIOUS
<1>3. Tirou(r) /\ UNCHANGED <<cheio, chegadas, obtidas>>
  BY <1>1, <1>2, EfeitoDaFila DEF InvRefs
<1>4. /\ fio' \in TipoFio /\ fio'.pc = "ciclo" /\ ~ fio'.pronta /\ fio'.ped = fio.ped
  BY <1>1, <1>3, FioTirou DEF Tirou
<1>5. r.tipo \in {"send", "recv"}
  BY <1>2 DEF Regista
<1>6. itens \in Seq(TipoItem) /\ Len(itens) < MaxPedidos
  BY DEF TypeOK
<1>7. Len(itens) \in Nat /\ MaxPedidos \in Nat
  BY <1>6, ErlZmqAssumption
<1>8. CASE Len(itens) + 2 <= MaxPedidos
  <2>1. PICK b : b = Aberto(r.s) /\ b \in BOOLEAN
    BY DEF Aberto
  <2>2. PICK e : e = [tipo |-> r.tipo, s |-> r.s, p |-> r.p, ref |-> r.ref, zmq |-> b,
                      rev |-> FALSE]
    OBVIOUS
  <2>3. queda' = queda /\ itens' = Append(itens, e)
    BY <1>2, <1>8, <2>1, <2>2 DEF Regista
  <2>4. r.s \in Socks /\ r.p \in Procs /\ r.ref \in Nat
    BY <1>3 DEF Tirou, Pedidos
  <2>5. /\ e \in TipoItem /\ e.tipo = r.tipo /\ e.s = r.s /\ e.p = r.p /\ e.ref = r.ref
        /\ e.zmq = b /\ ~ e.rev
    BY <1>5, <2>1, <2>2, <2>4 DEF TipoItem
  <2>6. r \in NaFila
    BY <1>3 DEF Tirou
  <2>7. \A d \in Vistos(itens) : d.ref # e.ref
    BY <2>5, <2>6 DEF InvRefs, PedidosFila, NosItens
  <2>8. PICK w : w = itens'
    OBVIOUS
  <2>9. /\ w \in Seq(TipoItem) /\ Len(w) = Len(itens) + 1 /\ Distinta(w)
        /\ Vistos(w) = Vistos(itens) \cup {Campos(e)}
        /\ \A k \in DOMAIN w : w[k] = e \/ \E j \in DOMAIN itens : w[k] = itens[j]
    <3>1. w = Append(itens, e)
      BY <2>3, <2>8
    <3>2. Distinta(itens)
      BY DEF InvRefs
    <3>. QED
      BY <1>6, <2>5, <2>7, <3>1, <3>2, Registado
  <2>10. Len(w) < MaxPedidos
    BY <1>7, <1>8, <2>9
  <2>11. \A j \in DOMAIN itens : ~ itens[j].rev
    BY <1>3, <1>6, VezProperties DEF Tirou
  <2>12. \A k \in DOMAIN w : ~ w[k].rev
    BY <2>5, <2>9, <2>11
  <2>13. e.zmq <=> Aberto(r.s)
    BY <2>1, <2>5
  <2>14. Registou(r)
    <3>1. NosItens' = NosItens \cup {Campos(e)}
      BY <2>8, <2>9 DEF NosItens
    <3>. QED
      BY <2>5, <2>8, <2>9, <2>10, <2>12, <2>13, <3>1 DEF Registou
  <2>15. TypeOK'
    BY <1>1, <1>3, <1>4, <2>3, <2>14 DEF TypeOK, Tirou, Registou
  <2>. QED
    BY <1>1, <1>3, <1>4, <1>5, <2>3, <2>14, <2>15
<1>9. CASE ~ (Len(itens) + 2 <= MaxPedidos)
  <2>1. queda' = "assert" /\ itens' = itens
    BY <1>9 DEF Regista
  <2>2. Len(itens) + 1 = MaxPedidos
    BY <1>6, <1>7, <1>9
  <2>3. TypeOK'
    BY <1>1, <1>3, <1>4, <2>1 DEF TypeOK, Tirou
  <2>. QED
    BY <1>1, <1>3, <1>4, <1>5, <2>1, <2>2, <2>3
<1>. QED
  BY <1>8, <1>9

\* the answer to request r is in the mailbox of its caller
Respondeu(r) == \A q \in Procs : caixa'[q] = IF q = r.p
                                             THEN caixa[q] \cup {[ref |-> r.ref, res |-> 0]}
                                             ELSE caixa[q]

\* socket s was closed, with its items
DoSocket(s) == {i \in DOMAIN itens : itens[i].zmq /\ itens[i].s = s}
Fechou(s) ==
    /\ SockTipo /\ ActivesIguais
    /\ \A t \in Socks : /\ sock'[t].estado = IF t = s THEN "fechado" ELSE sock[t].estado
                        /\ sock'[t].refc = IF t = s
                                           THEN sock[t].refc - 1 - Cardinality(DoSocket(s))
                                           ELSE sock[t].refc
    /\ Cardinality(DoSocket(s)) \in Nat
    /\ itens' \in Seq(TipoItem) /\ Len(itens') < MaxPedidos /\ Distinta(itens)'
    /\ NosItens' = {e \in NosItens : ~ (e.zmq /\ e.s = s)}
    /\ \A k \in DOMAIN itens' : \E j \in DOMAIN itens : itens'[k] = itens[j]
    /\ \A t \in Socks : t # s => inbox'[t] = inbox[t]

(* A socket is closed.                                                     *)
LEMMA EfeitoClose ==
    ASSUME TypeOK, InvEstado, InvLimites, InvRefs, Close
    PROVE  /\ TypeOK'
           /\ \E r : /\ Tirou(r) /\ r.tipo = "close" /\ queda' = queda
                     /\ fio'.pc = "ciclo" /\ ~ fio'.pronta /\ fio'.ped = fio.ped
                     /\ Respondeu(r)
                     /\ \/ ~ Aberto(r.s) /\ UNCHANGED <<itens, sock, inbox>>
                        \/ Aberto(r.s) /\ Fechou(r.s)
<1>1. DaFila /\ queda' = queda /\ fio' = [fio EXCEPT !.pronta = FALSE]
  BY DEF Close
<1>2. PICK r : r = Head(fila)
  OBVIOUS
<1>3. Tirou(r) /\ UNCHANGED <<cheio, chegadas, obtidas>>
  BY <1>1, <1>2, EfeitoDaFila DEF InvRefs
<1>4. /\ fio' \in TipoFio /\ fio'.pc = "ciclo" /\ ~ fio'.pronta /\ fio'.ped = fio.ped
  BY <1>1, <1>3, FioTirou DEF Tirou
<1>5. r.tipo = "close" /\ Responde(r.p, r.ref, 0)
  BY <1>2 DEF Close
<1>6. PICK v \in 0 .. MaxMsgs : v = 0
  BY ErlZmqAssumption
<1>7. r.p \in Procs /\ r.ref \in 1 .. MaxChamadas /\ Responde(r.p, r.ref, v)
  BY <1>3, <1>5, <1>6 DEF Tirou
<1>8. /\ caixa' \in [Procs -> SUBSET TipoResposta]
      /\ \A q \in Procs : caixa'[q] = IF q = r.p
                                      THEN caixa[q] \cup {[ref |-> r.ref, res |-> v]}
                                      ELSE caixa[q]
  BY <1>7, Respondido
<1>9. Respondeu(r)
  BY <1>6, <1>8 DEF Respondeu
<1>10. PICK s \in Socks : s = r.s
  BY <1>3 DEF Tirou, Pedidos
<1>11. CASE ~ Aberto(s)
  <2>1. UNCHANGED <<itens, sock, inbox>>
    BY <1>2, <1>10, <1>11 DEF Close
  <2>2. TypeOK'
    BY <1>1, <1>3, <1>4, <1>8, <2>1 DEF TypeOK, Tirou
  <2>. QED
    BY <1>1, <1>3, <1>4, <1>5, <1>9, <1>10, <1>11, <2>1, <2>2
<1>12. CASE Aberto(s)
  <2>1. PICK T \in SUBSET DOMAIN itens : T = DoSocket(s)
    BY DEF DoSocket
  <2>2. PICK U \in SUBSET DOMAIN itens : U = DOMAIN itens \ T
    OBVIOUS
  <2>3. /\ Ficam(U) /\ inbox' = [inbox EXCEPT ![s] = << >>]
        /\ sock' = [sock EXCEPT ![s].estado = "fechado", ![s].refc = @ - 1 - Cardinality(T)]
    BY <1>2, <1>10, <1>12, <2>1, <2>2 DEF Close, DoSocket
  <2>4. itens \in Seq(TipoItem) /\ Distinta(itens) /\ Len(itens) < MaxPedidos
    BY DEF TypeOK, InvRefs
  <2>5. sock \in [Socks -> TipoSock] /\ inbox \in [Socks -> Seq(1 .. MaxMsgs)]
    BY DEF TypeOK
  <2>6. Cardinality(T) \in Nat
    <3>1. Len(itens) \in Nat /\ DOMAIN itens = 1 .. Len(itens)
      BY <2>4
    <3>2. PICK m \in Nat : m = Len(itens)
      BY <3>1
    <3>3. 1 \in Int /\ m \in Int
      OBVIOUS
    <3>4. IsFiniteSet(1 .. m)
      BY <3>3, FS_Interval
    <3>5. IsFiniteSet(T)
      BY <3>1, <3>2, <3>4, FS_Subset
    <3>. QED
      BY <3>5, FS_CardinalityType
  <2>7. PICK n \in Int : n = sock[s].refc - 1 - Cardinality(T)
    BY <2>5, <2>6 DEF TipoSock
  <2>8. sock' = [sock EXCEPT ![s].estado = "fechado", ![s].refc = n]
    BY <2>3, <2>5, <2>7
  <2>9. /\ SockTipo /\ ActivesIguais
        /\ \A t \in Socks : /\ sock'[t].estado = IF t = s THEN "fechado" ELSE sock[t].estado
                            /\ sock'[t].refc = IF t = s THEN n ELSE sock[t].refc
    BY <2>8, SockFecha
  <2>10. PICK w : w = itens'
    OBVIOUS
  <2>11. /\ w \in Seq(TipoItem) /\ Len(w) <= Len(itens) /\ Distinta(w)
         /\ Vistos(w) = {Campos(itens[i]) : i \in U}
         /\ \A k \in DOMAIN w : \E j \in U : w[k] = itens[j]
    BY <2>3, <2>4, <2>10, Ficaram
  <2>12. Len(w) < MaxPedidos
    <3>1. Len(w) \in Nat /\ Len(itens) \in Nat /\ MaxPedidos \in Nat
      BY <2>4, <2>11, ErlZmqAssumption
    <3>. QED
      BY <2>4, <2>11, <3>1
  <2>13. Vistos(w) = {e \in Vistos(itens) : ~ (e.zmq /\ e.s = s)}
    <3>1. \A i \in DOMAIN itens : i \in U <=> ~ (itens[i].zmq /\ itens[i].s = s)
      BY <2>1, <2>2 DEF DoSocket
    <3>2. \A i \in DOMAIN itens : /\ Campos(itens[i]).zmq = itens[i].zmq
                                  /\ Campos(itens[i]).s = itens[i].s
      BY DEF Campos
    <3>. QED
      BY <2>2, <2>11, <3>1, <3>2 DEF Vistos
  <2>14. inbox' \in [Socks -> Seq(1 .. MaxMsgs)] /\ \A t \in Socks : t # s => inbox'[t] = inbox[t]
    <3>1. inbox' \in [Socks -> Seq(1 .. MaxMsgs)]
      BY <2>3, Mensagens
    <3>. QED
      BY <2>3, <2>5, <3>1
  <2>15. Fechou(s)
    <3>1. NosItens' = Vistos(w) /\ NosItens = Vistos(itens)
      BY <2>10 DEF NosItens
    <3>2. \A k \in DOMAIN w : \E j \in DOMAIN itens : w[k] = itens[j]
      BY <2>2, <2>11
    <3>. QED
      BY <2>1, <2>6, <2>7, <2>9, <2>10, <2>11, <2>12, <2>13, <2>14, <3>1, <3>2 DEF Fechou
  <2>16. TypeOK'
    BY <1>1, <1>3, <1>4, <1>8, <2>14, <2>15 DEF TypeOK, Tirou, Fechou, SockTipo
  <2>. QED
    BY <1>1, <1>3, <1>4, <1>5, <1>9, <1>10, <1>12, <2>15, <2>16
<1>. QED
  BY <1>11, <1>12

(* The request to terminate.                                               *)
LEMMA EfeitoPedidoTerm ==
    ASSUME TypeOK, InvEstado, InvLimites, InvRefs, PedidoTerm
    PROVE  /\ TypeOK'
           /\ \E r : /\ Tirou(r) /\ r.tipo = "term"
                     /\ UNCHANGED <<sock, itens, caixa, inbox, queda>>
                     /\ fio'.pc = "term" /\ ~ fio'.pronta /\ fio'.ped = r
<1>1. DaFila /\ UNCHANGED <<sock, itens, caixa, inbox, queda>>
  BY DEF PedidoTerm
<1>2. PICK r : r = Head(fila)
  OBVIOUS
<1>3. Tirou(r) /\ UNCHANGED <<cheio, chegadas, obtidas>>
  BY <1>1, <1>2, EfeitoDaFila DEF InvRefs
<1>4. r.tipo = "term" /\ fio' = [fio EXCEPT !.pc = "term", !.pronta = FALSE, !.ped = r]
  BY <1>2 DEF PedidoTerm
<1>5. r \in Pedidos
  BY <1>3 DEF Tirou
<1>6. fio' \in TipoFio /\ fio'.pc = "term" /\ ~ fio'.pronta /\ fio'.ped = r
  BY <1>4, <1>5, FioTerm
<1>7. TypeOK'
  BY <1>1, <1>3, <1>6 DEF TypeOK, Tirou
<1>. QED
  BY <1>1, <1>3, <1>4, <1>6, <1>7

(* The context is terminated.                                              *)
LEMMA EfeitoTerm ==
    ASSUME TypeOK, InvEstado, InvLimites, Term
    PROVE  /\ TypeOK'
           /\ UNCHANGED <<dono, proc, inbox, saidas, chamadas, queda, abuso, expirou>>
           /\ fio.pc = "term" /\ dono = Nenhum
           /\ fio'.pc = "zmq_term" /\ fio'.pronta = fio.pronta /\ fio'.ped = fio.ped
           /\ ctx' = "terminado" /\ itens' = << >> /\ fila' = << >>
           /\ ActivesIguais
           /\ \A t \in Socks : (sock[t].estado = "nada") <=> (sock'[t].estado = "nada")
           /\ fio.ped.p \in Procs /\ fio.ped.ref \in 1 .. MaxChamadas
           /\ Respondeu(fio.ped)
           /\ \A t \in Socks : sock'[t].estado = "aberto" => sock[t].estado = "aberto"
           /\ \A t \in Socks : sock'[t].refc =
                 sock[t].refc - Cardinality({i \in DOMAIN itens : itens[i].s = t})
<1>1. /\ UNCHANGED <<dono, proc, inbox, cheio, chegadas, obtidas, saidas, chamadas, queda,
                     abuso, expirou>>
      /\ fio.pc = "term" /\ dono = Nenhum /\ fio' = [fio EXCEPT !.pc = "zmq_term"]
      /\ ctx' = "terminado" /\ itens' = << >> /\ fila' = << >>
      /\ Responde(fio.ped.p, fio.ped.ref, 0)
  BY DEF Term, zmqVars, logVars
<1>2. /\ fio' \in TipoFio /\ fio'.pc = "zmq_term" /\ fio'.pronta = fio.pronta
      /\ fio'.ped = fio.ped
  BY <1>1, FioPc
<1>3. fio.ped.p \in Procs /\ fio.ped.ref \in 1 .. MaxChamadas
  <2>1. fio.ped.p \in Procs /\ fio.ped.ref \in 1 .. chamadas
    BY <1>1 DEF InvLimites
  <2>2. chamadas \in 0 .. MaxChamadas
    BY DEF TypeOK
  <2>. QED
    BY <2>1, <2>2, ErlZmqAssumption
<1>4. PICK v \in 0 .. MaxMsgs : v = 0
  BY ErlZmqAssumption
<1>5. PICK r : r = fio.ped
  OBVIOUS
<1>6. Responde(r.p, r.ref, v) /\ r.p \in Procs /\ r.ref \in 1 .. MaxChamadas
  BY <1>1, <1>3, <1>4, <1>5
<1>7. /\ caixa' \in [Procs -> SUBSET TipoResposta]
      /\ \A q \in Procs : caixa'[q] = IF q = r.p
                                      THEN caixa[q] \cup {[ref |-> r.ref, res |-> v]}
                                      ELSE caixa[q]
  BY <1>6, Respondido
<1>8. Respondeu(r)
  BY <1>4, <1>7 DEF Respondeu
<1>. DEFINE n(t) == Cardinality({i \in DOMAIN itens : itens[i].s = t})
            e(t) == IF n(t) > 0 /\ Aberto(t) THEN "fechado" ELSE sock[t].estado
<1>9. sock' = [t \in Socks |-> [sock[t] EXCEPT !.estado = e(t), !.refc = sock[t].refc - n(t)]]
  BY DEF Term
<1>10. sock \in [Socks -> TipoSock]
  BY DEF TypeOK
<1>11. \A t \in Socks : n(t) \in Nat
  <2>1. itens \in Seq(TipoItem)
    BY DEF TypeOK
  <2>2. Len(itens) \in Nat /\ DOMAIN itens = 1 .. Len(itens)
    BY <2>1
  <2>3. PICK m \in Nat : m = Len(itens)
    BY <2>2
  <2>4. 1 \in Int /\ m \in Int
    OBVIOUS
  <2>5. IsFiniteSet(1 .. m)
    BY <2>4, FS_Interval
  <2>. SUFFICES ASSUME NEW t \in Socks PROVE n(t) \in Nat
    OBVIOUS
  <2>6. PICK T : T = {i \in DOMAIN itens : itens[i].s = t}
    OBVIOUS
  <2>7. T \subseteq 1 .. m
    BY <2>2, <2>3, <2>6
  <2>8. IsFiniteSet(T)
    BY <2>5, <2>7, FS_Subset
  <2>9. Cardinality(T) \in Nat
    BY <2>8, FS_CardinalityType
  <2>. QED
    BY <2>6, <2>9
<1>12. ASSUME NEW t \in Socks
       PROVE  /\ sock'[t] \in TipoSock /\ sock'[t].active = sock[t].active
              /\ sock'[t].estado = e(t) /\ sock'[t].refc = sock[t].refc - n(t)
  <2>1. PICK x \in TipoSock : x = sock[t]
    BY <1>10
  <2>2. PICK k \in Int : k = x.refc - n(t)
    <3>1. PICK j \in Nat : j = n(t)
      BY <1>11
    <3>2. x.refc - j \in Int
      BY DEF TipoSock
    <3>. QED
      BY <3>1, <3>2
  <2>3. PICK z : z = e(t)
    OBVIOUS
  <2>4. z \in {"nada", "aberto", "fechado"}
    <3>1. x.estado \in {"nada", "aberto", "fechado"}
      BY DEF TipoSock
    <3>. QED
      BY <2>1, <2>3, <3>1
  <2>5. PICK y : y = [x EXCEPT !.estado = z, !.refc = k]
    OBVIOUS
  <2>6. sock'[t] = y
    BY <1>9, <2>1, <2>2, <2>3, <2>5
  <2>7. y \in TipoSock /\ y.active = x.active /\ y.estado = z /\ y.refc = k
    BY <2>4, <2>5 DEF TipoSock
  <2>. QED
    BY <2>1, <2>2, <2>3, <2>6, <2>7
<1>13. sock' \in [Socks -> TipoSock]
  <2>1. \E F : sock' = [t \in Socks |-> F[t]]
    <3>1. PICK F : F = sock'
      OBVIOUS
    <3>2. sock' = [t \in Socks |-> F[t]]
      BY <1>9, <3>1
    <3>. QED
      BY <3>2
  <2>. QED
    BY <1>12, <2>1
<1>14. \A t \in Socks : /\ sock'[t].estado = "aberto" => sock[t].estado = "aberto"
                        /\ (sock[t].estado = "nada") <=> (sock'[t].estado = "nada")
  BY <1>12 DEF Aberto
<1>15. ActivesIguais
  BY <1>12 DEF ActivesIguais
<1>16. itens' \in Seq(TipoItem) /\ fila' \in Seq(Pedidos) /\ Len(itens') < MaxPedidos
       /\ Len(fila') <= FilaMax
  <2>1. << >> \in Seq(TipoItem) /\ << >> \in Seq(Pedidos) /\ Len(<< >>) = 0
    BY EmptySeq
  <2>. QED
    BY <1>1, <2>1, ErlZmqAssumption
<1>17. TypeOK'
  BY <1>1, <1>2, <1>7, <1>13, <1>16 DEF TypeOK
<1>. QED
  BY <1>1, <1>2, <1>3, <1>5, <1>8, <1>12, <1>14, <1>15, <1>17

(* zmq_term returns.                                                       *)
LEMMA EfeitoZmqTerm ==
    ASSUME TypeOK, ZmqTerm
    PROVE  /\ TypeOK'
           /\ UNCHANGED <<ctx, dono, sock, fila, itens, proc, caixa, inbox, saidas, chamadas,
                          queda, abuso, expirou>>
           /\ fio.pc = "zmq_term"
           /\ fio'.pc = "fim" /\ fio'.pronta = fio.pronta /\ fio'.ped = fio.ped
<1>1. /\ UNCHANGED <<ctx, dono, sock, fila, itens, proc, caixa, inbox, cheio, chegadas,
                     obtidas, saidas, chamadas, queda, abuso, expirou>>
      /\ fio.pc = "zmq_term" /\ fio' = [fio EXCEPT !.pc = "fim"]
  BY DEF ZmqTerm, ctxVars, zmqVars, logVars
<1>2. fio' \in TipoFio /\ fio'.pc = "fim" /\ fio'.pronta = fio.pronta /\ fio'.ped = fio.ped
  BY <1>1, FioPc
<1>. QED
  BY <1>1, <1>2 DEF TypeOK
-----------------------------------------------------------------------------
(* Refs: one call, one request, one answer.  The steps fall into seven     *)
(* classes by what they do to the pipe, the items and the mailboxes.       *)

\* the thread is or is not terminating the same request
MesmoTerm == /\ (fio'.pc = "term") <=> (fio.pc = "term")
             /\ fio'.ped = fio.ped
Listas == Distinta(fila)' /\ Distinta(itens)'
\* each process stays where its ref is as good as it was, or is idle
ProcIgual(q) == \/ proc'[q].pc = "livre" /\ proc'[q].ref = 0
                \/ /\ proc[q].pc # "livre" /\ proc'[q].pc # "livre"
                   /\ proc'[q].ref = proc[q].ref /\ proc'[q].s = proc[q].s
                   /\ proc'[q].pc \in Antes => proc[q].pc \in Antes
ProcsIguais == \A q \in Procs : ProcIgual(q)
\* nothing is asked and nothing is answered
Local == /\ NaFila' = NaFila /\ NosItens' = NosItens /\ Listas /\ MesmoTerm
         /\ ProcsIguais /\ saidas' = saidas /\ chamadas' = chamadas
         /\ \A q \in Procs : caixa'[q] \subseteq caixa[q]

(* Local steps.                                                            *)
LEMMA RefsLocal ==
    ASSUME TypeOK, InvLimites, InvRefs, Local
    PROVE  InvLimites' /\ InvRefs'
<1>1. /\ NaFila' = NaFila /\ NosItens' = NosItens /\ Saidas' = Saidas
      /\ saidas' = saidas /\ chamadas' = chamadas
      /\ \A q \in Procs : caixa'[q] \subseteq caixa[q]
  BY DEF Local, Saidas
<1>2. /\ (fio'.pc = "term") <=> (fio.pc = "term")
      /\ fio'.ped = fio.ped
  BY DEF Local, MesmoTerm
<1>3. \A q \in Procs : ProcIgual(q)
  BY DEF Local, ProcsIguais
<1>4. chamadas \in Nat
  BY DEF TypeOK
<1>5. \A q \in Procs : /\ proc'[q].pc = "livre" => proc'[q].ref = 0
                       /\ proc'[q].pc # "livre" => /\ proc'[q].ref = proc[q].ref
                                                   /\ proc'[q].s = proc[q].s
                                                   /\ proc[q].ref \in 1 .. chamadas
                                                   /\ proc[q].pc # "livre"
                       /\ proc'[q].pc \in Antes => proc[q].pc \in Antes
  <2>1. \A q \in Procs : proc[q].pc # "livre" => proc[q].ref \in 1 .. chamadas
    BY DEF InvLimites
  <2>. QED
    BY <1>3, <2>1 DEF ProcIgual, Antes
<1>6. InvLimites'
  BY <1>1, <1>2, <1>5 DEF InvLimites
<1>7. \A q \in Procs : \A n \in 1 .. chamadas :
         proc'[q].ref = n => proc[q].ref = n /\ proc'[q].s = proc[q].s
  BY <1>4, <1>5
<1>8. RefDeUm'
  BY <1>5, <1>7 DEF InvRefs, RefDeUm
<1>9. RefNova'
  <2>. SUFFICES ASSUME NEW p \in Procs, proc'[p].pc \in Antes
                PROVE  /\ SemPedido(proc[p].ref)' /\ SemResposta(proc[p].ref)'
                       /\ proc'[p].ref \notin Saidas'
    BY DEF RefNova
  <2>1. proc[p].pc \in Antes /\ proc'[p].ref = proc[p].ref
    BY <1>5 DEF Antes
  <2>2. SemPedido(proc[p].ref) /\ SemResposta(proc[p].ref) /\ proc[p].ref \notin Saidas
    BY <2>1 DEF InvRefs, RefNova
  <2>. QED
    BY <1>1, <1>2, <2>1, <2>2 DEF SemPedido, SemResposta
<1>10. ASSUME NEW e, e.ref \in 1 .. chamadas, Guardado(e) PROVE Guardado(e)'
  BY <1>1, <1>2, <1>7, <1>10 DEF Guardado, SemResposta
<1>11. PedidosFila' /\ PedidosItens'
  <2>1. \A e \in NaFila : e.ref \in 1 .. chamadas /\ Guardado(e)
    BY DEF InvLimites, InvRefs, PedidosFila
  <2>2. \A e \in NosItens : e.ref \in 1 .. chamadas /\ Guardado(e)
    BY DEF InvLimites, InvRefs, PedidosItens
  <2>3. \A e \in NaFila' : Guardado(e)'
    BY <1>1, <1>10, <2>1
  <2>4. \A e \in NosItens' : Guardado(e)'
    BY <1>1, <1>10, <2>2
  <2>5. \A e \in NaFila' : \A d \in NosItens' : e.ref # d.ref
    BY <1>1 DEF InvRefs, PedidosFila
  <2>. QED
    BY <2>3, <2>4, <2>5 DEF PedidosFila, PedidosItens
<1>12. PedidoDoTerm'
  <2>1. fio.pc = "term" => fio.ped.ref \in 1 .. chamadas
    BY DEF InvLimites
  <2>. QED
    BY <1>1, <1>2, <1>7, <2>1 DEF InvRefs, PedidoDoTerm, SemResposta
<1>13. SaidaUnica'
  BY <1>1 DEF InvRefs, SaidaUnica
<1>14. RespostaDoDono' /\ RespostaUnica'
  <2>1. \A q \in Procs : \A m \in caixa[q] : m.ref \in 1 .. chamadas
    BY DEF InvLimites
  <2>. QED
    BY <1>1, <1>7, <2>1 DEF InvRefs, RespostaDoDono, RespostaUnica
<1>. QED
  BY <1>6, <1>8, <1>9, <1>11, <1>12, <1>13, <1>14 DEF InvRefs, Local, Listas

(* A message is given to libzmq.                                           *)
LEMMA SaidaNova ==
    ASSUME TypeOK, SaidaUnica, NEW r \in 1 .. MaxChamadas, r \notin Saidas,
           saidas' = Append(saidas, r)
    PROVE  SaidaUnica' /\ Saidas' = Saidas \cup {r}
<1>1. saidas \in Seq(1 .. MaxChamadas)
  BY DEF TypeOK
<1>. DEFINE S == 1 .. MaxChamadas
<1>. HIDE DEF S
<1>2. saidas \in Seq(S) /\ r \in S
  BY <1>1 DEF S
<1>3. PICK a : a = Append(saidas, r)
  OBVIOUS
<1>4. /\ DOMAIN a = 1 .. Len(saidas) + 1 /\ DOMAIN saidas = 1 .. Len(saidas)
      /\ Len(saidas) \in Nat
      /\ \A i \in 1 .. Len(saidas) : a[i] = saidas[i]
      /\ a[Len(saidas) + 1] = r
      /\ Range(a) = Range(saidas) \cup {r}
  BY <1>2, <1>3, Acrescentado
<1>5. \A i \in 1 .. Len(saidas) : saidas[i] # r
  BY <1>4 DEF Saidas, Range
<1>6. \A i, j \in DOMAIN a : a[i] = a[j] => i = j
  <2>. SUFFICES ASSUME NEW i \in DOMAIN a, NEW j \in DOMAIN a, a[i] = a[j] PROVE i = j
    OBVIOUS
  <2>1. CASE i \in 1 .. Len(saidas) /\ j \in 1 .. Len(saidas)
    BY <2>1, <1>4 DEF SaidaUnica
  <2>2. CASE i = Len(saidas) + 1 \/ j = Len(saidas) + 1
    BY <2>2, <1>4, <1>5
  <2>. QED
    BY <2>1, <2>2, <1>4
<1>7. saidas' = a
  BY <1>3
<1>8. Saidas' = Range(a) /\ Saidas = Range(saidas)
  BY <1>7 DEF Saidas
<1>. QED
  BY <1>4, <1>6, <1>7, <1>8 DEF SaidaUnica

\* request x has been answered with v and is gone
Respondida(x, v) ==
    /\ NaFila' \subseteq NaFila /\ NosItens' \subseteq NosItens /\ Listas
    /\ proc' = proc /\ chamadas' = chamadas
    /\ x.p \in Procs /\ x.ref \in 1 .. chamadas /\ SemResposta(x.ref)
    /\ \A q \in Procs : proc[q].ref = x.ref => q = x.p /\ proc[q].pc \notin Antes
    /\ \A e \in NaFila' : e.ref # x.ref
    /\ \A e \in NosItens' : e.ref # x.ref
    /\ fio'.pc = "term" => fio.pc = "term" /\ fio'.ped = fio.ped /\ fio.ped.ref # x.ref
    /\ \A q \in Procs : caixa'[q] = IF q = x.p
                                    THEN caixa[q] \cup {[ref |-> x.ref, res |-> v]}
                                    ELSE caixa[q]
    /\ \/ saidas' = saidas
       \/ x.ref \notin Saidas /\ saidas' = Append(saidas, x.ref)

(* Steps that answer.                                                      *)
LEMMA RefsResposta ==
    ASSUME TypeOK, InvLimites, InvRefs, NEW x, NEW v, Respondida(x, v)
    PROVE  InvLimites' /\ InvRefs'
<1>1. PICK r \in 1 .. chamadas : r = x.ref
  BY DEF Respondida
<1>2. /\ NaFila' \subseteq NaFila /\ NosItens' \subseteq NosItens
      /\ proc' = proc /\ chamadas' = chamadas /\ x.p \in Procs /\ SemResposta(r)
      /\ \A q \in Procs : proc[q].ref = r => q = x.p /\ proc[q].pc \notin Antes
      /\ \A e \in NaFila' : e.ref # r
      /\ \A e \in NosItens' : e.ref # r
      /\ fio'.pc = "term" => fio.pc = "term" /\ fio'.ped = fio.ped /\ fio.ped.ref # r
  BY <1>1 DEF Respondida
<1>3. PICK m : m = [ref |-> r, res |-> v]
  OBVIOUS
<1>4. /\ m.ref = r
      /\ \A q \in Procs : caixa'[q] = IF q = x.p THEN caixa[q] \cup {m} ELSE caixa[q]
  BY <1>1, <1>3 DEF Respondida
<1>5. r \in 1 .. MaxChamadas
  <2>1. chamadas \in 0 .. MaxChamadas
    BY DEF TypeOK
  <2>. QED
    BY <1>1, <2>1, ErlZmqAssumption
<1>6. SaidaUnica' /\ Saidas' \subseteq Saidas \cup {r}
  <2>1. CASE saidas' = saidas
    BY <2>1 DEF InvRefs, SaidaUnica, Saidas
  <2>2. CASE r \notin Saidas /\ saidas' = Append(saidas, r)
    <3>1. SaidaUnica' /\ Saidas' = Saidas \cup {r}
      BY <1>5, <2>2, SaidaNova DEF InvRefs
    <3>. QED
      BY <3>1
  <2>. QED
    BY <1>1, <2>1, <2>2 DEF Respondida
<1>7. InvLimites'
  <2>1. \A q \in Procs : \A n \in caixa'[q] : n \in caixa[q] \/ n.ref = r
    BY <1>4
  <2>2. \A q \in Procs : \A n \in caixa'[q] : n.ref \in 1 .. chamadas
    BY <1>1, <2>1 DEF InvLimites
  <2>3. Saidas' \subseteq 1 .. chamadas
    BY <1>1, <1>6 DEF InvLimites
  <2>. QED
    BY <1>2, <2>2, <2>3 DEF InvLimites
<1>8. RefDeUm'
  BY <1>2 DEF InvRefs, RefDeUm
<1>9. \A q \in Procs : \A n \in caixa'[q] :
         n \in caixa[q] \/ (q = x.p /\ n = m /\ n.ref = r)
  BY <1>4
<1>10. RefNova'
  <2>. SUFFICES ASSUME NEW p \in Procs, proc[p].pc \in Antes
                PROVE  /\ SemPedido(proc[p].ref)' /\ SemResposta(proc[p].ref)'
                       /\ proc[p].ref \notin Saidas'
    BY <1>2 DEF RefNova
  <2>1. SemPedido(proc[p].ref) /\ SemResposta(proc[p].ref) /\ proc[p].ref \notin Saidas
    BY DEF InvRefs, RefNova
  <2>2. proc[p].ref # r /\ proc'[p] = proc[p]
    BY <1>2
  <2>3. SemResposta(proc[p].ref)'
    BY <1>4, <2>1, <2>2 DEF SemResposta
  <2>4. SemPedido(proc[p].ref)'
    BY <1>2, <2>1, <2>2 DEF SemPedido
  <2>. QED
    BY <1>6, <2>1, <2>2, <2>3, <2>4
<1>11. ASSUME NEW e, e.ref # r, Guardado(e) PROVE Guardado(e)'
  <2>1. SemResposta(e.ref)'
    BY <1>4, <1>11, ZenonT(40) DEF Guardado, SemResposta
  <2>. QED
    BY <1>2, <1>6, <1>11, <2>1 DEF Guardado
<1>12. PedidosFila' /\ PedidosItens'
  <2>1. \A e \in NaFila' : Guardado(e)'
    BY <1>2, <1>11 DEF InvRefs, PedidosFila
  <2>2. \A e \in NosItens' : Guardado(e)'
    BY <1>2, <1>11 DEF InvRefs, PedidosItens
  <2>3. \A e \in NaFila' : \A d \in NosItens' : e.ref # d.ref
    BY <1>2 DEF InvRefs, PedidosFila
  <2>. QED
    BY <2>1, <2>2, <2>3 DEF PedidosFila, PedidosItens
<1>13. PedidoDoTerm'
  <2>. SUFFICES ASSUME fio'.pc = "term"
                PROVE  /\ SemResposta(fio.ped.ref)'
                       /\ \A q \in Procs : proc[q].ref = fio.ped.ref => fio.ped.p = q
    BY <1>2 DEF PedidoDoTerm
  <2>1. fio.pc = "term" /\ fio'.ped = fio.ped /\ fio.ped.ref # r
    BY <1>2
  <2>2. SemResposta(fio.ped.ref)
    BY <2>1 DEF InvRefs, PedidoDoTerm
  <2>. QED
    BY <1>4, <2>1, <2>2 DEF InvRefs, PedidoDoTerm, SemResposta
<1>14. RespostaDoDono'
  BY <1>2, <1>9 DEF InvRefs, RespostaDoDono
<1>15. RespostaUnica'
  <2>. SUFFICES ASSUME NEW q \in Procs, NEW n \in caixa'[q], NEW o \in caixa'[q],
                       n.ref = o.ref
                PROVE  n = o
    BY DEF RespostaUnica
  <2>1. \A k \in caixa[q] : k.ref # r
    BY <1>2 DEF SemResposta
  <2>. QED
    BY <1>9, <2>1 DEF InvRefs, RespostaUnica
<1>16. Listas
  BY DEF Respondida
<1>. QED
  BY <1>6, <1>7, <1>8, <1>10, <1>12, <1>13, <1>14, <1>15, <1>16 DEF InvRefs, Listas

\* all that a process's step leaves alone
Resto == /\ fila' = fila /\ itens' = itens /\ fio' = fio /\ caixa' = caixa

(* A new call.                                                             *)
LEMMA RefsChama ==
    ASSUME TypeOK, InvLimites, InvRefs, NEW p \in Procs, Move(p), Resto,
           saidas' = saidas, chamadas' = chamadas + 1,
           proc'[p].pc # "livre", proc'[p].ref = chamadas + 1
    PROVE  InvLimites' /\ InvRefs'
<1>1. /\ NaFila' = NaFila /\ NosItens' = NosItens /\ Saidas' = Saidas
      /\ caixa' = caixa /\ fio' = fio /\ fila' = fila /\ itens' = itens
  BY DEF Resto, NaFila, NosItens, Saidas
<1>2. chamadas \in Nat /\ \A q \in Procs : q # p => proc'[q] = proc[q]
  BY DEF TypeOK, Move
<1>3. chamadas + 1 \notin 1 .. chamadas /\ chamadas + 1 \in 1 .. chamadas + 1
      /\ 1 .. chamadas \subseteq 1 .. chamadas + 1 /\ chamadas + 1 # 0
      /\ 0 \notin 1 .. chamadas
  BY <1>2
<1>4. InvLimites'
  BY <1>1, <1>2, <1>3 DEF InvLimites
<1>5. \A q \in Procs : proc[q].ref # chamadas + 1
  BY <1>3 DEF InvLimites
<1>6. \A n \in 1 .. chamadas : \A q \in Procs : proc'[q].ref = n => proc'[q] = proc[q]
  BY <1>2, <1>3
<1>7. RefDeUm'
  BY <1>2, <1>5 DEF InvRefs, RefDeUm
<1>8. RefNova'
  <2>1. \A e \in NaFila : e.ref \in 1 .. chamadas
    BY DEF InvLimites
  <2>2. \A e \in NosItens : e.ref \in 1 .. chamadas
    BY DEF InvLimites
  <2>3. /\ \A q \in Procs : \A m \in caixa[q] : m.ref \in 1 .. chamadas
        /\ Saidas \subseteq 1 .. chamadas
        /\ fio.pc = "term" => fio.ped.ref \in 1 .. chamadas
    BY DEF InvLimites
  <2>. SUFFICES ASSUME NEW q \in Procs, proc'[q].pc \in Antes
                PROVE  /\ SemPedido(proc[q].ref)' /\ SemResposta(proc[q].ref)'
                       /\ proc'[q].ref \notin Saidas'
    BY DEF RefNova
  <2>4. CASE q = p
    BY <2>1, <2>2, <2>3, <2>4, <1>1, <1>3 DEF SemPedido, SemResposta
  <2>5. CASE q # p
    <3>1. proc'[q] = proc[q]
      BY <1>2, <2>5
    <3>2. SemPedido(proc[q].ref) /\ SemResposta(proc[q].ref) /\ proc[q].ref \notin Saidas
      BY <3>1 DEF InvRefs, RefNova
    <3>. QED
      BY <1>1, <3>1, <3>2 DEF SemPedido, SemResposta
  <2>. QED
    BY <2>4, <2>5
<1>9. ASSUME NEW e, e.ref \in 1 .. chamadas, Guardado(e) PROVE Guardado(e)'
  BY <1>1, <1>6, <1>9 DEF Guardado, SemResposta
<1>10. PedidosFila' /\ PedidosItens'
  <2>1. \A e \in NaFila : e.ref \in 1 .. chamadas /\ Guardado(e)
    BY DEF InvLimites, InvRefs, PedidosFila
  <2>2. \A e \in NosItens : e.ref \in 1 .. chamadas /\ Guardado(e)
    BY DEF InvLimites, InvRefs, PedidosItens
  <2>3. \A e \in NaFila' : Guardado(e)'
    BY <1>1, <1>9, <2>1
  <2>4. \A e \in NosItens' : Guardado(e)'
    BY <1>1, <1>9, <2>2
  <2>5. \A e \in NaFila' : \A d \in NosItens' : e.ref # d.ref
    BY <1>1 DEF InvRefs, PedidosFila
  <2>. QED
    BY <2>3, <2>4, <2>5 DEF PedidosFila, PedidosItens
<1>11. PedidoDoTerm'
  <2>1. fio.pc = "term" => fio.ped.ref \in 1 .. chamadas
    BY DEF InvLimites
  <2>. QED
    BY <1>1, <1>6, <2>1 DEF InvRefs, PedidoDoTerm, SemResposta
<1>12. SaidaUnica' /\ Distinta(fila)' /\ Distinta(itens)'
  BY <1>1 DEF InvRefs, SaidaUnica, Distinta
<1>13. RespostaDoDono' /\ RespostaUnica'
  <2>1. \A q \in Procs : \A m \in caixa[q] : m.ref \in 1 .. chamadas
    BY DEF InvLimites
  <2>. QED
    BY <1>1, <1>6, <2>1 DEF InvRefs, RespostaDoDono, RespostaUnica
<1>. QED
  BY <1>4, <1>7, <1>8, <1>10, <1>11, <1>12, <1>13 DEF InvRefs

(* A send that libzmq takes at once.                                       *)
LEMMA RefsTenta ==
    ASSUME TypeOK, InvLimites, InvRefs, NEW p \in Procs, Solto(p), Resto,
           chamadas' = chamadas, saidas' = Append(saidas, proc[p].ref),
           proc[p].pc \in Antes
    PROVE  InvLimites' /\ InvRefs'
<1>1. /\ NaFila' = NaFila /\ NosItens' = NosItens
      /\ caixa' = caixa /\ fio' = fio /\ fila' = fila /\ itens' = itens
  BY DEF Resto, NaFila, NosItens
<1>2. chamadas \in Nat /\ chamadas \in 0 .. MaxChamadas
  BY DEF TypeOK
<1>3. PICK r \in 1 .. chamadas : r = proc[p].ref
  BY DEF InvLimites, Antes
<1>4. SemPedido(r) /\ SemResposta(r) /\ r \notin Saidas
  BY <1>3 DEF InvRefs, RefNova
<1>5. r \in 1 .. MaxChamadas
  BY <1>2, <1>3, ErlZmqAssumption
<1>6. SaidaUnica' /\ Saidas' = Saidas \cup {r}
  BY <1>3, <1>4, <1>5, SaidaNova DEF InvRefs
<1>7. /\ proc'[p].pc = "livre" /\ proc'[p].ref = 0
      /\ \A q \in Procs : q # p => proc'[q] = proc[q]
  BY DEF Solto, Move
<1>8. \A n \in 1 .. chamadas : \A q \in Procs : proc'[q].ref = n => q # p /\ proc'[q] = proc[q]
  BY <1>2, <1>7
<1>9. \A q \in Procs : q # p => proc[q].ref # r
  BY <1>3 DEF InvRefs, RefDeUm, Antes
<1>10. InvLimites'
  <2>1. Saidas' \subseteq 1 .. chamadas
    BY <1>6 DEF InvLimites
  <2>. QED
    BY <1>1, <1>7, <2>1 DEF InvLimites
<1>11. RefDeUm'
  <2>1. \A q \in Procs : proc'[q].pc # "livre" => proc'[q].ref \in 1 .. chamadas
    BY <1>10 DEF InvLimites
  <2>. QED
    BY <1>8, <2>1 DEF InvRefs, RefDeUm
<1>12. RefNova'
  <2>. SUFFICES ASSUME NEW q \in Procs, proc'[q].pc \in Antes
                PROVE  /\ SemPedido(proc[q].ref)' /\ SemResposta(proc[q].ref)'
                       /\ proc'[q].ref \notin Saidas'
    BY DEF RefNova
  <2>1. q # p /\ proc'[q] = proc[q]
    BY <1>7 DEF Antes
  <2>2. SemPedido(proc[q].ref) /\ SemResposta(proc[q].ref) /\ proc[q].ref \notin Saidas
    BY <2>1 DEF InvRefs, RefNova
  <2>. QED
    BY <1>1, <1>6, <1>9, <2>1, <2>2 DEF SemPedido, SemResposta
<1>13. ASSUME NEW e, e.ref \in 1 .. chamadas, e.ref # r, Guardado(e) PROVE Guardado(e)'
  BY <1>1, <1>6, <1>8, <1>13 DEF Guardado, SemResposta
<1>14. PedidosFila' /\ PedidosItens'
  <2>1. \A e \in NaFila : e.ref \in 1 .. chamadas /\ Guardado(e) /\ e.ref # r
    BY <1>4 DEF InvLimites, InvRefs, PedidosFila, SemPedido
  <2>2. \A e \in NosItens : e.ref \in 1 .. chamadas /\ Guardado(e) /\ e.ref # r
    BY <1>4 DEF InvLimites, InvRefs, PedidosItens, SemPedido
  <2>3. \A e \in NaFila' : Guardado(e)'
    BY <1>1, <1>13, <2>1
  <2>4. \A e \in NosItens' : Guardado(e)'
    BY <1>1, <1>13, <2>2
  <2>5. \A e \in NaFila' : \A d \in NosItens' : e.ref # d.ref
    BY <1>1 DEF InvRefs, PedidosFila
  <2>. QED
    BY <2>3, <2>4, <2>5 DEF PedidosFila, PedidosItens
<1>15. PedidoDoTerm'
  <2>1. fio.pc = "term" => fio.ped.ref \in 1 .. chamadas
    BY DEF InvLimites
  <2>. QED
    BY <1>1, <1>8, <2>1 DEF InvRefs, PedidoDoTerm, SemResposta
<1>16. Distinta(fila)' /\ Distinta(itens)'
  BY <1>1 DEF InvRefs, Distinta
<1>17. RespostaDoDono' /\ RespostaUnica'
  <2>1. \A q \in Procs : \A m \in caixa[q] : m.ref \in 1 .. chamadas
    BY DEF InvLimites
  <2>. QED
    BY <1>1, <1>8, <2>1 DEF InvRefs, RespostaDoDono, RespostaUnica
<1>. QED
  BY <1>6, <1>10, <1>11, <1>12, <1>14, <1>15, <1>16, <1>17 DEF InvRefs

(* A request goes on the pipe.                                             *)
LEMMA RefsEnvia ==
    ASSUME TypeOK, InvLimites, InvRefs, NEW p \in Procs, Passou(p, "keep"), NEW x,
           NaFila' = NaFila \cup {x}, Distinta(fila)',
           x.p = p, x.s = proc[p].s, x.ref = proc[p].ref, proc[p].pc \in Antes,
           UNCHANGED <<itens, fio, caixa, saidas, chamadas>>
    PROVE  InvLimites' /\ InvRefs'
<1>1. NosItens' = NosItens /\ Saidas' = Saidas
  BY DEF NosItens, Saidas
<1>2. /\ proc'[p].pc = "keep" /\ proc'[p].ref = proc[p].ref /\ proc'[p].s = proc[p].s
      /\ \A q \in Procs : q # p => proc'[q] = proc[q]
  BY DEF Passou, Move
<1>3. \A q \in Procs : /\ proc'[q].ref = proc[q].ref /\ proc'[q].s = proc[q].s
                       /\ proc'[q].pc \in Antes => q # p /\ proc[q].pc \in Antes
                       /\ proc'[q].pc = "livre" <=> proc[q].pc = "livre"
  BY <1>2 DEF Antes
<1>4. PICK r \in 1 .. chamadas : r = proc[p].ref
  BY DEF InvLimites, Antes
<1>5. SemPedido(r) /\ SemResposta(r) /\ r \notin Saidas
  BY <1>4 DEF InvRefs, RefNova
<1>6. \A q \in Procs : q # p => proc[q].ref # r
  BY <1>4 DEF InvRefs, RefDeUm, Antes
<1>7. InvLimites'
  BY <1>1, <1>3, <1>4 DEF InvLimites
<1>8. RefDeUm'
  BY <1>3 DEF InvRefs, RefDeUm
<1>9. RefNova'
  <2>. SUFFICES ASSUME NEW q \in Procs, proc'[q].pc \in Antes
                PROVE  /\ SemPedido(proc[q].ref)' /\ SemResposta(proc[q].ref)'
                       /\ proc'[q].ref \notin Saidas'
    BY DEF RefNova
  <2>1. q # p /\ proc[q].pc \in Antes /\ proc'[q].ref = proc[q].ref /\ proc[q].ref # r
    BY <1>3, <1>6
  <2>2. SemPedido(proc[q].ref) /\ SemResposta(proc[q].ref) /\ proc[q].ref \notin Saidas
    BY <2>1 DEF InvRefs, RefNova
  <2>. QED
    BY <1>1, <1>4, <2>1, <2>2 DEF SemPedido, SemResposta
<1>10. ASSUME NEW e, Guardado(e) PROVE Guardado(e)'
  BY <1>1, <1>3, <1>10 DEF Guardado, SemResposta
<1>11. Guardado(x)'
  <2>1. SemResposta(x.ref)' /\ x.ref \notin Saidas'
    BY <1>1, <1>4, <1>5 DEF SemResposta
  <2>2. \A q \in Procs : proc'[q].ref = x.ref => x.p = q /\ x.s = proc'[q].s
    BY <1>3, <1>4, <1>6
  <2>3. fio'.pc = "term" => x.ref # fio'.ped.ref
    BY <1>4, <1>5 DEF SemPedido
  <2>. QED
    BY <2>1, <2>2, <2>3 DEF Guardado
<1>12. PedidosFila' /\ PedidosItens'
  <2>1. \A e \in NaFila' : Guardado(e)'
    BY <1>10, <1>11 DEF InvRefs, PedidosFila
  <2>2. \A e \in NosItens' : Guardado(e)'
    BY <1>1, <1>10 DEF InvRefs, PedidosItens
  <2>3. \A e \in NaFila' : \A d \in NosItens' : e.ref # d.ref
    BY <1>1, <1>4, <1>5 DEF InvRefs, PedidosFila, SemPedido
  <2>. QED
    BY <2>1, <2>2, <2>3 DEF PedidosFila, PedidosItens
<1>13. PedidoDoTerm'
  BY <1>3 DEF InvRefs, PedidoDoTerm, SemResposta
<1>14. SaidaUnica' /\ Distinta(itens)'
  BY <1>1 DEF InvRefs, SaidaUnica, Distinta
<1>15. RespostaDoDono' /\ RespostaUnica'
  BY <1>3 DEF InvRefs, RespostaDoDono, RespostaUnica
<1>. QED
  BY <1>7, <1>8, <1>9, <1>12, <1>13, <1>14, <1>15 DEF InvRefs

(* A request becomes an item.                                              *)
LEMMA RefsRegista ==
    ASSUME TypeOK, InvLimites, InvRefs, NEW r, Tirou(r), NEW c,
           NosItens' \subseteq NosItens \cup {c}, Listas, MesmoTerm, caixa' = caixa,
           c.p = r.p, c.s = r.s, c.ref = r.ref
    PROVE  InvLimites' /\ InvRefs'
<1>1. /\ Saidas' = Saidas /\ proc' = proc /\ chamadas' = chamadas /\ saidas' = saidas
      /\ NaFila = {r} \cup NaFila' /\ \A d \in NaFila' : d.ref # r.ref
      /\ (fio'.pc = "term") <=> (fio.pc = "term") /\ fio'.ped = fio.ped
  BY DEF Tirou, Saidas, MesmoTerm
<1>2. r.p \in Procs /\ r.ref \in 1 .. chamadas /\ Guardado(r)
      /\ \A d \in NosItens : d.ref # r.ref
  BY <1>1 DEF InvLimites, InvRefs, PedidosFila
<1>3. InvLimites'
  BY <1>1, <1>2 DEF InvLimites
<1>4. RefDeUm'
  BY <1>1 DEF InvRefs, RefDeUm
<1>5. RefNova'
  <2>. SUFFICES ASSUME NEW q \in Procs, proc[q].pc \in Antes
                PROVE  /\ SemPedido(proc[q].ref)' /\ SemResposta(proc[q].ref)'
                       /\ proc[q].ref \notin Saidas'
    BY <1>1 DEF RefNova
  <2>1. SemPedido(proc[q].ref) /\ SemResposta(proc[q].ref) /\ proc[q].ref \notin Saidas
    BY DEF InvRefs, RefNova
  <2>2. proc[q].ref # r.ref /\ proc'[q] = proc[q]
    BY <1>1, <2>1 DEF SemPedido
  <2>. QED
    BY <1>1, <2>1, <2>2 DEF SemPedido, SemResposta
<1>6. ASSUME NEW e, Guardado(e) PROVE Guardado(e)'
  BY <1>1, <1>6 DEF Guardado, SemResposta
<1>7. Guardado(c)'
  BY <1>1, <1>2 DEF Guardado, SemResposta
<1>8. PedidosFila' /\ PedidosItens'
  <2>1. \A e \in NaFila' : Guardado(e)'
    BY <1>1, <1>6 DEF InvRefs, PedidosFila
  <2>2. \A e \in NosItens' : Guardado(e)'
    BY <1>6, <1>7 DEF InvRefs, PedidosItens
  <2>3. \A e \in NaFila' : \A d \in NosItens' : e.ref # d.ref
    BY <1>1, <1>2 DEF InvRefs, PedidosFila
  <2>. QED
    BY <2>1, <2>2, <2>3 DEF PedidosFila, PedidosItens
<1>9. PedidoDoTerm'
  BY <1>1 DEF InvRefs, PedidoDoTerm, SemResposta
<1>10. SaidaUnica' /\ RespostaDoDono' /\ RespostaUnica'
  BY <1>1 DEF InvRefs, SaidaUnica, RespostaDoDono, RespostaUnica
<1>. QED
  BY <1>3, <1>4, <1>5, <1>8, <1>9, <1>10 DEF InvRefs, Listas

(* The request to terminate is taken.                                      *)
LEMMA RefsPedidoTerm ==
    ASSUME TypeOK, InvLimites, InvRefs, NEW r, Tirou(r), itens' = itens, caixa' = caixa,
           fio'.pc = "term", fio'.ped = r
    PROVE  InvLimites' /\ InvRefs'
<1>1. /\ Saidas' = Saidas /\ proc' = proc /\ chamadas' = chamadas /\ saidas' = saidas
      /\ NaFila = {r} \cup NaFila' /\ \A d \in NaFila' : d.ref # r.ref
      /\ NosItens' = NosItens /\ fio.pc # "term" /\ Distinta(fila)'
  BY DEF Tirou, Saidas, NosItens
<1>2. r.p \in Procs /\ r.ref \in 1 .. chamadas /\ Guardado(r)
      /\ \A d \in NosItens : d.ref # r.ref
  BY <1>1 DEF InvLimites, InvRefs, PedidosFila
<1>3. InvLimites'
  BY <1>1, <1>2 DEF InvLimites
<1>4. RefDeUm'
  BY <1>1 DEF InvRefs, RefDeUm
<1>5. RefNova'
  <2>. SUFFICES ASSUME NEW q \in Procs, proc[q].pc \in Antes
                PROVE  /\ SemPedido(proc[q].ref)' /\ SemResposta(proc[q].ref)'
                       /\ proc[q].ref \notin Saidas'
    BY <1>1 DEF RefNova
  <2>1. SemPedido(proc[q].ref) /\ SemResposta(proc[q].ref) /\ proc[q].ref \notin Saidas
    BY DEF InvRefs, RefNova
  <2>2. proc[q].ref # r.ref /\ proc'[q] = proc[q]
    BY <1>1, <2>1 DEF SemPedido
  <2>. QED
    BY <1>1, <2>1, <2>2 DEF SemPedido, SemResposta
<1>6. ASSUME NEW e, Guardado(e), e.ref # r.ref PROVE Guardado(e)'
  BY <1>1, <1>6 DEF Guardado, SemResposta
<1>7. PedidosFila' /\ PedidosItens'
  <2>1. \A e \in NaFila' : Guardado(e)'
    BY <1>1, <1>6 DEF InvRefs, PedidosFila
  <2>2. \A e \in NosItens' : Guardado(e)'
    BY <1>1, <1>2, <1>6 DEF InvRefs, PedidosItens
  <2>3. \A e \in NaFila' : \A d \in NosItens' : e.ref # d.ref
    BY <1>1, <1>2 DEF InvRefs, PedidosFila
  <2>. QED
    BY <2>1, <2>2, <2>3 DEF PedidosFila, PedidosItens
<1>8. PedidoDoTerm'
  BY <1>1, <1>2 DEF Guardado, PedidoDoTerm, SemResposta
<1>9. SaidaUnica' /\ RespostaDoDono' /\ RespostaUnica' /\ Distinta(itens)'
  BY <1>1 DEF InvRefs, SaidaUnica, RespostaDoDono, RespostaUnica, Distinta
<1>. QED
  BY <1>1, <1>3, <1>4, <1>5, <1>7, <1>8, <1>9 DEF InvRefs
-----------------------------------------------------------------------------
(* The state of the context and of the items, step by step.                *)

\* items are polled only on open sockets
InvAbertos == \A e \in NosItens : e.zmq => Aberto(e.s)

Nucleo == TypeOK /\ InvEstado /\ InvLimites /\ InvRefs /\ InvAbertos

(* What the pipe and the vectors hold.                                     *)
LEMMA TiposDosPedidos ==
    ASSUME TypeOK
    PROVE  /\ \A e \in NosItens : /\ e.s \in Socks /\ e.p \in Procs /\ e.ref \in Nat
                                  /\ e.tipo \in {"send", "recv"}
           /\ \A e \in NaFila : e \in Pedidos /\ e.s \in Socks /\ e.tipo \in Tipos
<1>1. itens \in Seq(TipoItem) /\ fila \in Seq(Pedidos)
  BY DEF TypeOK
<1>2. ASSUME NEW v \in TipoItem
      PROVE  /\ Campos(v).s \in Socks /\ Campos(v).p \in Procs /\ Campos(v).ref \in Nat
             /\ Campos(v).tipo \in {"send", "recv"}
  BY DEF Campos, TipoItem
<1>3. \A i \in DOMAIN itens : itens[i] \in TipoItem
  BY <1>1
<1>4. \A i \in DOMAIN fila : fila[i] \in Pedidos
  BY <1>1
<1>5. \A e \in Pedidos : e.s \in Socks /\ e.tipo \in Tipos
  BY DEF Pedidos
<1>. QED
  BY <1>2, <1>3, <1>4, <1>5 DEF NosItens, Vistos, NaFila, Range

\* no socket is closed, none is made but in a context
NenhumFecha == \A t \in Socks : Aberto(t) => sock'[t].estado = "aberto"
NenhumNasce == \A t \in Socks : sock'[t].estado # "nada" => sock[t].estado # "nada"

(* Items stay open when none is added and no socket closes.                *)
LEMMA AbertosMantidos ==
    ASSUME TypeOK, InvAbertos, NosItens' \subseteq NosItens, NenhumFecha
    PROVE  InvAbertos'
<1>1. \A e \in NosItens : e.s \in Socks
  BY TiposDosPedidos
<1>. QED
  BY <1>1 DEF InvAbertos, Aberto, NenhumFecha

\* the call a process makes fits where it is
OpCerta(v) == /\ v.pc = "tranca" => v.op \in {"bind", "setsockopt", "send", "recv"}
              /\ v.op \in {"bind", "setsockopt"} => v.pc \in {"livre", "tranca"}

(* A step of one process, as far as the context's state goes.              *)
LEMMA EstadoDoProc ==
    ASSUME TypeOK, InvEstado, NEW p \in Procs, Move(p),
           UNCHANGED <<ctx, fila, fio, itens>>, dono' # Nenhum => ctx = "vivo",
           NenhumNasce, OpCerta(proc'[p]), proc'[p].pc # "livre" => ctx # "nada"
    PROVE  InvEstado'
<1>1. Vez' = Vez /\ (Terminada' <=> Terminada)
  BY DEF Vez, Terminada
<1>2. \A q \in Procs : q # p => proc'[q] = proc[q]
  BY DEF Move
<1>. QED
  BY <1>1, <1>2 DEF InvEstado, NenhumNasce, OpCerta

(* A step of one process that neither asks nor answers.                    *)
LEMMA LocalDoProc ==
    ASSUME InvLimites, InvRefs, NEW p \in Procs, Move(p), ProcIgual(p),
           UNCHANGED <<fila, fio, itens, chamadas, saidas>>,
           \A q \in Procs : caixa'[q] \subseteq caixa[q]
    PROVE  Local
<1>1. NaFila' = NaFila /\ NosItens' = NosItens
  BY DEF NaFila, NosItens
<1>2. Listas /\ MesmoTerm
  BY DEF InvRefs, Listas, MesmoTerm, Distinta
<1>3. ProcsIguais
  <2>1. \A q \in Procs : q # p => proc'[q] = proc[q]
    BY DEF Move
  <2>2. \A q \in Procs : proc[q].pc = "livre" => proc[q].ref = 0
    BY DEF InvLimites
  <2>. QED
    BY <2>1, <2>2 DEF ProcsIguais, ProcIgual
<1>. QED
  BY <1>1, <1>2, <1>3 DEF Local

(* The steps of a process that neither ask nor answer keep the core.       *)
LEMMA NucleoDoProc ==
    ASSUME Nucleo, TypeOK', NEW p \in Procs, Move(p), ProcIgual(p),
           UNCHANGED <<ctx, fila, fio, itens, chamadas, saidas>>,
           dono' # Nenhum => ctx = "vivo", NenhumNasce, OpCerta(proc'[p]),
           NenhumFecha \/ itens = << >>,
           \A q \in Procs : caixa'[q] \subseteq caixa[q]
    PROVE  Nucleo'
<1>1. TypeOK /\ InvEstado /\ InvLimites /\ InvRefs /\ InvAbertos
  BY DEF Nucleo
<1>2. InvLimites' /\ InvRefs'
  <2>1. Local
    BY <1>1, LocalDoProc
  <2>. QED
    BY <1>1, <2>1, RefsLocal
<1>3. InvEstado'
  <2>1. proc'[p].pc # "livre" => ctx # "nada"
    BY <1>1 DEF InvEstado, ProcIgual
  <2>. QED
    BY <1>1, <2>1, EstadoDoProc
<1>4. InvAbertos'
  <2>1. NosItens' = NosItens
    BY DEF NosItens
  <2>2. CASE NenhumFecha
    BY <1>1, <2>1, <2>2, AbertosMantidos
  <2>3. CASE itens = << >>
    <3>1. NosItens = {}
      BY <2>3 DEF NosItens, Vistos
    <3>. QED
      BY <2>1, <3>1 DEF InvAbertos
  <2>. QED
    BY <2>2, <2>3
<1>. QED
  BY <1>2, <1>3, <1>4 DEF Nucleo

(* A call that returned.                                                   *)
LEMMA SoltoBom ==
    ASSUME NEW p \in Procs, Solto(p)
    PROVE  Move(p) /\ ProcIgual(p) /\ OpCerta(proc'[p])
BY DEF Solto, ProcIgual, OpCerta

(* A call that goes on.                                                    *)
LEMMA PassouBom ==
    ASSUME NEW p \in Procs, NEW c \in EstadosProc \ {"livre", "tranca"}, Passou(p, c),
           proc[p].pc # "livre", proc[p].op \notin {"bind", "setsockopt"},
           c \in Antes => proc[p].pc \in Antes
    PROVE  Move(p) /\ ProcIgual(p) /\ OpCerta(proc'[p])
BY DEF Passou, ProcIgual, OpCerta

(* The steps inside a call.                                                *)
LEMMA NucleoBind ==
    ASSUME Nucleo, NEW p \in Procs, Bind(p)
    PROVE  Nucleo'
<1>1. TypeOK /\ InvEstado
  BY DEF Nucleo
<1>2. /\ TypeOK' /\ Quieto /\ UNCHANGED <<dono, inbox, saidas, queda, expirou>>
      /\ proc[p].pc = "tranca" /\ proc[p].op = "bind"
      /\ \/ Solto(p) /\ sock' = sock
         \/ /\ Move(p) /\ proc'[p].pc = "ctx" /\ proc'[p].op = "ativa"
            /\ proc'[p].s = proc[p].s /\ proc'[p].ref = proc[p].ref
            /\ EstadosIguais
  BY <1>1, EfeitoBind
<1>3. UNCHANGED <<ctx, fila, fio, itens, chamadas, saidas, caixa>>
      /\ (dono' # Nenhum => ctx = "vivo")
  BY <1>1, <1>2 DEF Quieto, InvEstado
<1>4. NenhumFecha /\ NenhumNasce
  BY <1>2 DEF NenhumFecha, NenhumNasce, EstadosIguais, Aberto
<1>5. Move(p) /\ ProcIgual(p) /\ OpCerta(proc'[p])
  <2>1. CASE Solto(p)
    BY <2>1, SoltoBom
  <2>2. CASE /\ Move(p) /\ proc'[p].pc = "ctx" /\ proc'[p].op = "ativa"
             /\ proc'[p].s = proc[p].s /\ proc'[p].ref = proc[p].ref
    BY <1>2, <2>2 DEF ProcIgual, OpCerta, Antes
  <2>. QED
    BY <1>2, <2>1, <2>2
<1>. QED
  BY <1>2, <1>3, <1>4, <1>5, NucleoDoProc

(* Setsockopt.                                                             *)
LEMMA NucleoSetsockopt ==
    ASSUME Nucleo, NEW p \in Procs, Setsockopt(p)
    PROVE  Nucleo'
<1>1. TypeOK /\ InvEstado
  BY DEF Nucleo
<1>2. /\ TypeOK' /\ Quieto /\ UNCHANGED <<dono, inbox, saidas, queda, expirou>>
      /\ Solto(p) /\ EstadosIguais
  BY <1>1, EfeitoSetsockopt
<1>3. UNCHANGED <<ctx, fila, fio, itens, chamadas, saidas, caixa>>
      /\ (dono' # Nenhum => ctx = "vivo")
  BY <1>1, <1>2 DEF Quieto, InvEstado
<1>4. NenhumFecha /\ NenhumNasce
  BY <1>2 DEF NenhumFecha, NenhumNasce, EstadosIguais, Aberto
<1>5. Move(p) /\ ProcIgual(p) /\ OpCerta(proc'[p])
  BY <1>2, SoltoBom
<1>. QED
  BY <1>2, <1>3, <1>4, <1>5, NucleoDoProc

(* Send and recv without waiting.                                          *)
LEMMA NucleoTenta ==
    ASSUME Nucleo, NEW p \in Procs, Tenta(p)
    PROVE  Nucleo'
<1>1. TypeOK /\ InvEstado /\ InvLimites /\ InvRefs /\ InvAbertos
  BY DEF Nucleo
<1>2. /\ TypeOK' /\ Quieto /\ UNCHANGED <<dono, sock, queda, expirou>>
      /\ proc[p].pc = "tranca" /\ proc[p].op \in {"send", "recv"}
      /\ \/ (Solto(p) \/ Passou(p, "ctx")) /\ saidas' = saidas
         \/ Solto(p) /\ saidas' = Append(saidas, proc[p].ref)
         \/ Solto(p) /\ saidas' = saidas
  BY <1>1, EfeitoTenta
<1>3. UNCHANGED <<ctx, fila, fio, itens, chamadas, caixa>>
      /\ (dono' # Nenhum => ctx = "vivo")
  BY <1>1, <1>2 DEF Quieto, InvEstado
<1>4. NenhumFecha /\ NenhumNasce
  BY <1>2 DEF NenhumFecha, NenhumNasce, Aberto
<1>5. CASE Solto(p) /\ saidas' = saidas
  <2>1. Move(p) /\ ProcIgual(p) /\ OpCerta(proc'[p])
    BY <1>5, SoltoBom
  <2>. QED
    BY <1>2, <1>3, <1>4, <1>5, <2>1, NucleoDoProc
<1>6. CASE Passou(p, "ctx") /\ saidas' = saidas
  <2>1. Move(p) /\ ProcIgual(p) /\ OpCerta(proc'[p])
    BY <1>2, <1>6, PassouBom DEF EstadosProc, Antes
  <2>. QED
    BY <1>2, <1>3, <1>4, <1>6, <2>1, NucleoDoProc
<1>7. CASE Solto(p) /\ saidas' = Append(saidas, proc[p].ref)
  <2>1. Resto /\ proc[p].pc \in Antes
    BY <1>2, <1>3 DEF Resto, Antes
  <2>2. InvLimites' /\ InvRefs'
    BY <1>1, <1>3, <1>7, <2>1, RefsTenta
  <2>3. Move(p) /\ OpCerta(proc'[p]) /\ proc'[p].pc = "livre"
    BY <1>7, SoltoBom DEF Solto
  <2>4. InvEstado'
    BY <1>1, <1>3, <1>4, <2>3, EstadoDoProc
  <2>5. InvAbertos'
    <3>1. NosItens' = NosItens
      BY <1>3 DEF NosItens
    <3>. QED
      BY <1>1, <1>4, <3>1, AbertosMantidos
  <2>. QED
    BY <1>2, <2>2, <2>4, <2>5 DEF Nucleo
<1>. QED
  BY <1>2, <1>5, <1>6, <1>7

(* The lock on a socket whose mutex is gone.                               *)
LEMMA NucleoTrancaNula ==
    ASSUME Nucleo, NEW p \in Procs, TrancaNula(p)
    PROVE  Nucleo'
<1>1. TypeOK /\ InvEstado
  BY DEF Nucleo
<1>2. /\ TypeOK' /\ Quieto /\ UNCHANGED <<dono, sock, saidas>>
      /\ proc[p].pc = "tranca" /\ (proc' = proc \/ Solto(p))
  BY <1>1, EfeitoTrancaNula
<1>3. UNCHANGED <<ctx, fila, fio, itens, chamadas, saidas, caixa>>
      /\ (dono' # Nenhum => ctx = "vivo")
  BY <1>1, <1>2 DEF Quieto, InvEstado
<1>4. NenhumFecha /\ NenhumNasce
  BY <1>2 DEF NenhumFecha, NenhumNasce, Aberto
<1>5. Move(p) /\ ProcIgual(p) /\ OpCerta(proc'[p])
  <2>1. CASE Solto(p)
    BY <2>1, SoltoBom
  <2>2. CASE proc' = proc
    BY <1>1, <1>2, <2>2 DEF TypeOK, Move, ProcIgual, OpCerta, InvEstado
  <2>. QED
    BY <1>2, <2>1, <2>2
<1>. QED
  BY <1>2, <1>3, <1>4, <1>5, NucleoDoProc

(* The test of the context's mutex.                                        *)
LEMMA NucleoTestaCtx ==
    ASSUME Nucleo, NEW p \in Procs, TestaCtx(p)
    PROVE  Nucleo'
<1>1. TypeOK /\ InvEstado
  BY DEF Nucleo
<1>2. /\ TypeOK' /\ Quieto /\ UNCHANGED <<dono, sock, saidas>>
      /\ proc[p].pc = "ctx" /\ (Solto(p) \/ Passou(p, "envia"))
  BY <1>1, EfeitoTestaCtx
<1>3. UNCHANGED <<ctx, fila, fio, itens, chamadas, saidas, caixa>>
      /\ (dono' # Nenhum => ctx = "vivo")
  BY <1>1, <1>2 DEF Quieto, InvEstado
<1>4. NenhumFecha /\ NenhumNasce
  BY <1>2 DEF NenhumFecha, NenhumNasce, Aberto
<1>5. Move(p) /\ ProcIgual(p) /\ OpCerta(proc'[p])
  <2>1. CASE Solto(p)
    BY <2>1, SoltoBom
  <2>2. CASE Passou(p, "envia")
    <3>1. proc[p].op \notin {"bind", "setsockopt"}
      BY <1>1, <1>2 DEF InvEstado
    <3>. QED
      BY <1>2, <2>2, <3>1, PassouBom DEF EstadosProc, Antes
  <2>. QED
    BY <1>2, <2>1, <2>2
<1>. QED
  BY <1>2, <1>3, <1>4, <1>5, NucleoDoProc

(* The lock on a context that was terminated.                              *)
LEMMA NucleoEnviaNula ==
    ASSUME Nucleo, NEW p \in Procs, EnviaNula(p)
    PROVE  Nucleo'
<1>1. TypeOK /\ InvEstado
  BY DEF Nucleo
<1>2. /\ TypeOK' /\ Quieto /\ UNCHANGED <<dono, saidas>>
      /\ proc[p].pc = "envia" /\ ctx = "terminado" /\ proc[p].s \in Socks
      /\ (proc' = proc \/ Solto(p))
      /\ \/ sock' = sock
         \/ \A t \in Socks :
              sock'[t].estado = IF t = proc[p].s THEN "fechado" ELSE sock[t].estado
  BY <1>1, EfeitoEnviaNula
<1>3. UNCHANGED <<ctx, fila, fio, itens, chamadas, saidas, caixa>>
      /\ (dono' # Nenhum => ctx = "vivo") /\ itens = << >>
  BY <1>1, <1>2 DEF Quieto, InvEstado
<1>5. Move(p) /\ ProcIgual(p) /\ OpCerta(proc'[p])
  <2>1. CASE Solto(p)
    BY <2>1, SoltoBom
  <2>2. CASE proc' = proc
    BY <1>1, <1>2, <2>2 DEF TypeOK, Move, ProcIgual, OpCerta, InvEstado
  <2>. QED
    BY <1>2, <2>1, <2>2
<1>6. InvLimites' /\ InvRefs'
  <2>1. Local
    BY <1>3, <1>5, LocalDoProc DEF Nucleo
  <2>. QED
    BY <2>1, RefsLocal DEF Nucleo
<1>7. InvEstado'
  <2>1. Vez' = Vez /\ (Terminada' <=> Terminada) /\ ctx' # "nada"
    BY <1>2, <1>3 DEF Vez, Terminada
  <2>2. \A q \in Procs : q # p => proc'[q] = proc[q]
    BY <1>5 DEF Move
  <2>. QED
    BY <1>1, <1>2, <1>3, <1>5, <2>1, <2>2 DEF InvEstado, OpCerta
<1>8. InvAbertos'
  <2>1. NosItens' = {}
    BY <1>3 DEF NosItens, Vistos
  <2>. QED
    BY <2>1 DEF InvAbertos
<1>. QED
  BY <1>2, <1>6, <1>7, <1>8 DEF Nucleo

(* The reference is counted.                                               *)
LEMMA NucleoKeep ==
    ASSUME Nucleo, NEW p \in Procs, Keep(p)
    PROVE  Nucleo'
<1>1. TypeOK /\ InvEstado
  BY DEF Nucleo
<1>2. /\ TypeOK' /\ Quieto /\ UNCHANGED <<dono, saidas>>
      /\ proc[p].pc = "keep" /\ EstadosIguais
      /\ (Solto(p) \/ Passou(p, "timeo") \/ Passou(p, "espera"))
  BY <1>1, EfeitoKeep
<1>3. UNCHANGED <<ctx, fila, fio, itens, chamadas, saidas, caixa>>
      /\ (dono' # Nenhum => ctx = "vivo")
  BY <1>1, <1>2 DEF Quieto, InvEstado
<1>4. NenhumFecha /\ NenhumNasce
  BY <1>2 DEF NenhumFecha, NenhumNasce, EstadosIguais, Aberto
<1>5. Move(p) /\ ProcIgual(p) /\ OpCerta(proc'[p])
  <2>1. CASE Solto(p)
    BY <2>1, SoltoBom
  <2>2. proc[p].op \notin {"bind", "setsockopt"}
    BY <1>1, <1>2 DEF InvEstado
  <2>3. CASE Passou(p, "timeo")
    BY <1>2, <2>2, <2>3, PassouBom DEF EstadosProc, Antes
  <2>4. CASE Passou(p, "espera")
    BY <1>2, <2>2, <2>4, PassouBom DEF EstadosProc, Antes
  <2>. QED
    BY <1>2, <2>1, <2>3, <2>4
<1>. QED
  BY <1>2, <1>3, <1>4, <1>5, NucleoDoProc

(* The timeout is read.                                                    *)
LEMMA NucleoGetsockopt ==
    ASSUME Nucleo, NEW p \in Procs, Getsockopt(p)
    PROVE  Nucleo'
<1>1. TypeOK /\ InvEstado
  BY DEF Nucleo
<1>2. /\ TypeOK' /\ Quieto /\ UNCHANGED <<dono, sock, saidas>>
      /\ proc[p].pc = "timeo"
      /\ \/ /\ Move(p) /\ proc'[p].pc = "espera" /\ proc'[p].op = proc[p].op
            /\ proc'[p].s = proc[p].s /\ proc'[p].ref = proc[p].ref
         \/ Passou(p, "morto")
  BY <1>1, EfeitoGetsockopt
<1>3. UNCHANGED <<ctx, fila, fio, itens, chamadas, saidas, caixa>>
      /\ (dono' # Nenhum => ctx = "vivo")
  BY <1>1, <1>2 DEF Quieto, InvEstado
<1>4. NenhumFecha /\ NenhumNasce
  BY <1>2 DEF NenhumFecha, NenhumNasce, Aberto
<1>5. proc[p].op \notin {"bind", "setsockopt"}
  BY <1>1, <1>2 DEF InvEstado
<1>6. Move(p) /\ ProcIgual(p) /\ OpCerta(proc'[p])
  BY <1>2, <1>5 DEF Passou, ProcIgual, OpCerta, Antes
<1>. QED
  BY <1>2, <1>3, <1>4, <1>6, NucleoDoProc

(* The answer arrives.                                                     *)
LEMMA NucleoRecebe ==
    ASSUME Nucleo, NEW p \in Procs, Recebe(p)
    PROVE  Nucleo'
<1>1. TypeOK /\ InvEstado
  BY DEF Nucleo
<1>2. /\ TypeOK'
      /\ UNCHANGED <<ctx, fila, fio, itens, chamadas, saidas, dono, sock>>
      /\ Solto(p) /\ \A q \in Procs : caixa'[q] \subseteq caixa[q]
  BY <1>1, EfeitoRecebe
<1>3. (dono' # Nenhum => ctx = "vivo") /\ NenhumFecha /\ NenhumNasce
  BY <1>1, <1>2 DEF InvEstado, NenhumFecha, NenhumNasce, Aberto
<1>4. Move(p) /\ ProcIgual(p) /\ OpCerta(proc'[p])
  BY <1>2, SoltoBom
<1>. QED
  BY <1>2, <1>3, <1>4, NucleoDoProc

(* The call gives up.                                                      *)
LEMMA NucleoExpira ==
    ASSUME Nucleo, NEW p \in Procs, Expira(p)
    PROVE  Nucleo'
<1>1. TypeOK /\ InvEstado
  BY DEF Nucleo
<1>2. TypeOK' /\ Quieto /\ UNCHANGED <<dono, sock, saidas>> /\ Solto(p)
  BY <1>1, EfeitoExpira
<1>3. UNCHANGED <<ctx, fila, fio, itens, chamadas, saidas, caixa>>
      /\ (dono' # Nenhum => ctx = "vivo")
  BY <1>1, <1>2 DEF Quieto, InvEstado
<1>4. NenhumFecha /\ NenhumNasce
  BY <1>2 DEF NenhumFecha, NenhumNasce, Aberto
<1>5. Move(p) /\ ProcIgual(p) /\ OpCerta(proc'[p])
  BY <1>2, SoltoBom
<1>. QED
  BY <1>2, <1>3, <1>4, <1>5, NucleoDoProc

(* The request goes on the pipe, or waits for room.                        *)
LEMMA NucleoEnvia ==
    ASSUME Nucleo, NEW p \in Procs, Envia(p)
    PROVE  Nucleo'
<1>1. TypeOK /\ InvEstado /\ InvLimites /\ InvRefs /\ InvAbertos
  BY DEF Nucleo
<1>2. /\ TypeOK'
      /\ UNCHANGED <<ctx, fio, itens, caixa, chamadas, abuso, sock, inbox, saidas, queda,
                     expirou>>
      /\ proc[p].pc \in {"envia", "cheia"} /\ ctx = "vivo"
      /\ proc[p].op \notin {"bind", "setsockopt"}
      /\ \/ fila' = Append(fila, Pedido(p)) /\ dono' = Nenhum /\ Passou(p, "keep")
         \/ fila' = fila /\ dono' = p /\ Passou(p, "cheia")
  BY <1>1, EfeitoEnvia
<1>3. NenhumFecha /\ NenhumNasce
  BY <1>2 DEF NenhumFecha, NenhumNasce, Aberto
<1>4. CASE fila' = fila /\ dono' = p /\ Passou(p, "cheia")
  <2>1. Move(p) /\ ProcIgual(p) /\ OpCerta(proc'[p])
    BY <1>2, <1>4, PassouBom DEF EstadosProc, Antes
  <2>2. UNCHANGED <<ctx, fila, fio, itens, chamadas, saidas, caixa>>
        /\ (dono' # Nenhum => ctx = "vivo")
    BY <1>2, <1>4
  <2>. QED
    BY <1>2, <1>3, <2>1, <2>2, NucleoDoProc
<1>5. CASE fila' = Append(fila, Pedido(p)) /\ dono' = Nenhum /\ Passou(p, "keep")
  <2>1. PICK x : x = Pedido(p)
    OBVIOUS
  <2>2. x \in Pedidos /\ x.p = p /\ x.s = proc[p].s /\ x.ref = proc[p].ref
    BY <1>1, <1>2, <2>1, PedidoProperties
  <2>3. proc[p].pc \in Antes /\ fila \in Seq(Pedidos) /\ Distinta(fila)
    BY <1>1, <1>2 DEF Antes, TypeOK, InvRefs
  <2>4. PICK w : w = fila'
    OBVIOUS
  <2>5. w = Append(fila, x)
    BY <1>5, <2>1, <2>4
  <2>6. Range(w) = Range(fila) \cup {x} /\ Len(w) = Len(fila) + 1 /\ Len(fila) \in Nat
    BY <2>2, <2>3, <2>5, Acrescentado
  <2>7. \A d \in Range(fila) : d.ref # x.ref
    BY <1>1, <2>2, <2>3 DEF InvRefs, RefNova, SemPedido, NaFila
  <2>8. Distinta(w)
    BY <2>2, <2>3, <2>5, <2>7, AcrescentadoDistinta
  <2>9. NaFila' = NaFila \cup {x} /\ Distinta(fila)'
    BY <2>4, <2>6, <2>8 DEF NaFila
  <2>10. InvLimites' /\ InvRefs'
    BY <1>1, <1>2, <1>5, <2>2, <2>3, <2>9, RefsEnvia
  <2>11. Move(p) /\ OpCerta(proc'[p])
    BY <1>2, <1>5 DEF Passou, OpCerta
  <2>12. InvEstado'
    <3>1. Vez' = Vez /\ (Terminada' <=> Terminada) /\ ctx' = "vivo"
      BY <1>2 DEF Vez, Terminada
    <3>2. \A q \in Procs : q # p => proc'[q] = proc[q]
      BY <2>11 DEF Move
    <3>3. fila' # << >>
      BY <2>4, <2>6
    <3>. QED
      BY <1>1, <1>2, <1>5, <2>11, <3>1, <3>2, <3>3 DEF InvEstado, OpCerta
  <2>13. InvAbertos'
    <3>1. NosItens' = NosItens
      BY <1>2 DEF NosItens
    <3>. QED
      BY <1>1, <1>3, <3>1, AbertosMantidos
  <2>. QED
    BY <1>2, <2>10, <2>12, <2>13 DEF Nucleo
<1>. QED
  BY <1>2, <1>4, <1>5

(* The entry of a call.                                                    *)
LEMMA NucleoChama ==
    ASSUME Nucleo, NEW p \in Procs, NEW s \in Socks,
           NEW op \in {"bind", "setsockopt", "send", "recv", "close", "term"}, Chama(p, op, s)
    PROVE  Nucleo'
<1>1. TypeOK /\ InvEstado /\ InvLimites /\ InvRefs /\ InvAbertos
  BY DEF Nucleo
<1>2. /\ TypeOK'
      /\ UNCHANGED <<ctx, fila, fio, itens, caixa, dono, sock, saidas>>
      /\ chamadas' = chamadas + 1 /\ Move(p)
      /\ proc'[p].op = op /\ proc'[p].ref = chamadas + 1
      /\ \/ proc'[p].pc = "tranca" /\ op \notin {"close", "term"}
         \/ proc'[p].pc = "ctx" /\ op \in {"close", "term", "send"}
      /\ IF op = "term" THEN ctx # "nada" ELSE sock[s].estado # "nada"
  BY <1>1, EfeitoChama
<1>3. NenhumFecha /\ NenhumNasce /\ (dono' # Nenhum => ctx = "vivo")
  BY <1>1, <1>2 DEF NenhumFecha, NenhumNasce, Aberto, InvEstado
<1>4. Resto /\ proc'[p].pc # "livre" /\ OpCerta(proc'[p]) /\ ctx # "nada"
  BY <1>1, <1>2 DEF Resto, OpCerta, InvEstado
<1>5. InvLimites' /\ InvRefs'
  BY <1>1, <1>2, <1>4, RefsChama
<1>6. InvEstado'
  BY <1>1, <1>2, <1>3, <1>4, EstadoDoProc
<1>7. InvAbertos'
  <2>1. NosItens' = NosItens
    BY <1>2 DEF NosItens
  <2>. QED
    BY <1>1, <1>3, <2>1, AbertosMantidos
<1>. QED
  BY <1>2, <1>5, <1>6, <1>7 DEF Nucleo

\* steps that take, add and answer nothing
SemPedidos == /\ NaFila' = NaFila /\ NosItens' = NosItens /\ Listas /\ MesmoTerm
              /\ UNCHANGED <<proc, saidas, chamadas, caixa>>

(* Steps of the thread and of libzmq that take, add and answer nothing.    *)
LEMMA RefsIguais ==
    ASSUME TypeOK, InvLimites, InvRefs, SemPedidos
    PROVE  InvLimites' /\ InvRefs'
<1>1. Local
  BY DEF SemPedidos, Local, ProcsIguais, ProcIgual, InvLimites
<1>. QED
  BY <1>1, RefsLocal

(* A context is made.                                                      *)
LEMMA NucleoContext ==
    ASSUME Nucleo, Context
    PROVE  Nucleo'
<1>1. TypeOK /\ InvEstado /\ InvLimites /\ InvRefs /\ InvAbertos
  BY DEF Nucleo
<1>2. /\ TypeOK'
      /\ UNCHANGED <<dono, sock, fila, itens, proc, caixa, saidas, chamadas>>
      /\ ctx = "nada" /\ ctx' = "vivo"
      /\ fio'.pc = "ciclo" /\ fio'.pronta = fio.pronta /\ fio'.ped = fio.ped
  BY <1>1, EfeitoContext
<1>3. fio.pc = "nada" /\ ~ fio.pronta
  BY <1>1, <1>2 DEF InvEstado
<1>4. NaFila' = NaFila /\ NosItens' = NosItens
  BY <1>2 DEF NaFila, NosItens
<1>5. SemPedidos
  BY <1>1, <1>2, <1>3, <1>4 DEF SemPedidos, Listas, MesmoTerm, InvRefs, Distinta
<1>6. InvLimites' /\ InvRefs'
  BY <1>1, <1>5, RefsIguais
<1>7. InvEstado'
  BY <1>1, <1>2, <1>3 DEF InvEstado, Terminada
<1>8. InvAbertos'
  BY <1>1, <1>2, <1>4 DEF InvAbertos, Aberto
<1>. QED
  BY <1>2, <1>6, <1>7, <1>8 DEF Nucleo

(* A socket is made.                                                       *)
LEMMA NucleoSocket ==
    ASSUME Nucleo, NEW p \in Procs, NEW s \in Socks, NEW a \in {"OFF", "PENDING"},
           Socket(p, s, a)
    PROVE  Nucleo'
<1>1. TypeOK /\ InvEstado /\ InvLimites /\ InvRefs /\ InvAbertos
  BY DEF Nucleo
<1>2. /\ TypeOK'
      /\ UNCHANGED <<ctx, dono, fila, fio, itens, proc, caixa, saidas, chamadas>>
      /\ ctx # "nada" /\ sock[s].estado = "nada"
      /\ \/ \A t \in Socks : t # s => sock'[t] = sock[t]
         \/ sock' = sock
  BY <1>1, EfeitoSocket
<1>3. NaFila' = NaFila /\ NosItens' = NosItens
  BY <1>2 DEF NaFila, NosItens
<1>4. SemPedidos
  BY <1>1, <1>2, <1>3 DEF SemPedidos, Listas, MesmoTerm, InvRefs, Distinta
<1>5. InvLimites' /\ InvRefs'
  BY <1>1, <1>4, RefsIguais
<1>6. InvEstado'
  <2>1. Vez' = Vez /\ (Terminada' <=> Terminada)
    BY <1>2 DEF Vez, Terminada
  <2>. QED
    BY <1>1, <1>2, <2>1 DEF InvEstado
<1>7. InvAbertos'
  <2>1. NenhumFecha
    BY <1>2 DEF NenhumFecha, Aberto
  <2>. QED
    BY <1>1, <1>3, <2>1, AbertosMantidos
<1>. QED
  BY <1>2, <1>5, <1>6, <1>7 DEF Nucleo

(* Steps that change nothing of the core's state.                          *)
LEMMA NucleoIgual ==
    ASSUME Nucleo, TypeOK',
           UNCHANGED <<ctx, dono, sock, fila, fio, itens, proc, caixa, saidas, chamadas>>
    PROVE  Nucleo'
<1>1. TypeOK /\ InvEstado /\ InvLimites /\ InvRefs /\ InvAbertos
  BY DEF Nucleo
<1>2. NaFila' = NaFila /\ NosItens' = NosItens
  BY DEF NaFila, NosItens
<1>3. SemPedidos
  BY <1>1, <1>2 DEF SemPedidos, Listas, MesmoTerm, InvRefs, Distinta
<1>4. InvLimites' /\ InvRefs'
  BY <1>1, <1>3, RefsIguais
<1>5. InvEstado'
  <2>1. Vez' = Vez /\ (Terminada' <=> Terminada)
    BY DEF Vez, Terminada
  <2>. QED
    BY <1>1, <2>1 DEF InvEstado
<1>6. InvAbertos'
  BY <1>1, <1>2 DEF InvAbertos, Aberto
<1>. QED
  BY <1>4, <1>5, <1>6 DEF Nucleo

(* What changes only what libzmq has, or fells the machine.                *)
LEMMA NucleoLibzmq ==
    ASSUME Nucleo, (\E s \in Socks : Chega(s) \/ Enche(s)) \/ ItemAborta
    PROVE  Nucleo'
<1>1. TypeOK
  BY DEF Nucleo
<1>2. ASSUME NEW s \in Socks, Chega(s) PROVE Nucleo'
  BY <1>1, <1>2, EfeitoChega, NucleoIgual
<1>3. ASSUME NEW s \in Socks, Enche(s) PROVE Nucleo'
  BY <1>1, <1>3, EfeitoEnche, NucleoIgual
<1>4. CASE ItemAborta
  BY <1>1, <1>4, EfeitoAborta, NucleoIgual
<1>. QED
  BY <1>2, <1>3, <1>4

(* While the thread loops, the context is alive.                           *)
LEMMA ContextoVivo ==
    ASSUME TypeOK, InvEstado, fio.pc \in {"ciclo", "bloqueado", "term"}
    PROVE  ctx = "vivo"
BY DEF TypeOK, InvEstado, Terminada

(* A step of the thread that goes on looping.                              *)
LEMMA EstadoDoFio ==
    ASSUME TypeOK, InvEstado, ctx = "vivo", ctx' = "vivo", UNCHANGED <<dono, proc>>,
           fio'.pc \in {"ciclo", "bloqueado", "term"},
           fio'.pronta => fila' # << >> /\ fio'.pc # "term",
           fio'.pc = "bloqueado" => Vez' # 0
    PROVE  InvEstado'
BY DEF InvEstado, Terminada

(* The poll.                                                               *)
LEMMA NucleoPoll ==
    ASSUME Nucleo, Poll
    PROVE  Nucleo'
<1>1. TypeOK /\ InvEstado /\ InvLimites /\ InvRefs /\ InvAbertos
  BY DEF Nucleo
<1>2. /\ TypeOK'
      /\ UNCHANGED <<ctx, dono, sock, fila, proc, caixa, saidas, chamadas>>
      /\ fio.pc = "ciclo" /\ fio'.pc = "ciclo" /\ fio'.ped = fio.ped
      /\ fio'.pronta => fila # << >>
      /\ itens' = itens \/ Viu
  BY <1>1, EfeitoPoll DEF InvRefs
<1>3. NaFila' = NaFila /\ NosItens' = NosItens
  BY <1>2 DEF NaFila, NosItens, Viu
<1>4. SemPedidos
  <2>1. Distinta(fila)' /\ Distinta(itens)'
    BY <1>1, <1>2 DEF InvRefs, Distinta, Viu
  <2>. QED
    BY <1>2, <1>3, <2>1 DEF SemPedidos, Listas, MesmoTerm
<1>5. InvLimites' /\ InvRefs'
  BY <1>1, <1>4, RefsIguais
<1>6. InvEstado'
  <2>1. ctx = "vivo"
    BY <1>1, <1>2, ContextoVivo
  <2>. QED
    BY <1>1, <1>2, <2>1, EstadoDoFio
<1>7. InvAbertos'
  BY <1>1, <1>2, <1>3 DEF InvAbertos, Aberto
<1>. QED
  BY <1>2, <1>5, <1>6, <1>7 DEF Nucleo

(* The thread blocks.                                                      *)
LEMMA NucleoBloqueia ==
    ASSUME Nucleo, ItemBloqueia
    PROVE  Nucleo'
<1>1. TypeOK /\ InvEstado /\ InvLimites /\ InvRefs /\ InvAbertos
  BY DEF Nucleo
<1>2. /\ TypeOK'
      /\ UNCHANGED <<ctx, dono, sock, fila, itens, proc, caixa, saidas, chamadas>>
      /\ Vez # 0 /\ fio.pc = "ciclo"
      /\ fio'.pc = "bloqueado" /\ fio'.pronta = fio.pronta /\ fio'.ped = fio.ped
  BY <1>1, EfeitoBloqueia
<1>3. NaFila' = NaFila /\ NosItens' = NosItens /\ Vez' = Vez
  BY <1>2 DEF NaFila, NosItens, Vez
<1>4. SemPedidos
  <2>1. Distinta(fila)' /\ Distinta(itens)'
    BY <1>1, <1>2 DEF InvRefs, Distinta
  <2>. QED
    BY <1>2, <1>3, <2>1 DEF SemPedidos, Listas, MesmoTerm
<1>5. InvLimites' /\ InvRefs'
  BY <1>1, <1>4, RefsIguais
<1>6. InvEstado'
  <2>1. ctx = "vivo"
    BY <1>1, <1>2, ContextoVivo
  <2>2. fio'.pronta => fila' # << >>
    BY <1>1, <1>2 DEF InvEstado
  <2>. QED
    BY <1>1, <1>2, <1>3, <2>1, <2>2, EstadoDoFio
<1>7. InvAbertos'
  BY <1>1, <1>2, <1>3 DEF InvAbertos, Aberto
<1>. QED
  BY <1>2, <1>5, <1>6, <1>7 DEF Nucleo

(* An item is dealt with and stays.                                        *)
LEMMA NucleoContinuou ==
    ASSUME Nucleo, TypeOK', NEW i, Continuou(i)
    PROVE  Nucleo'
<1>1. TypeOK /\ InvEstado /\ InvLimites /\ InvRefs /\ InvAbertos
  BY DEF Nucleo
<1>2. /\ UNCHANGED <<ctx, dono, sock, fila, proc, caixa, saidas, chamadas>>
      /\ fio.pc \in {"ciclo", "bloqueado"}
      /\ fio'.pc = "ciclo" /\ fio'.pronta = fio.pronta /\ fio'.ped = fio.ped
      /\ Distinta(itens)' /\ NosItens' = NosItens
  BY DEF Continuou, Tratou, Manteve
<1>3. NaFila' = NaFila
  BY <1>2 DEF NaFila
<1>4. SemPedidos
  <2>1. Distinta(fila)'
    BY <1>1, <1>2 DEF InvRefs, Distinta
  <2>. QED
    BY <1>2, <1>3, <2>1 DEF SemPedidos, Listas, MesmoTerm
<1>5. InvLimites' /\ InvRefs'
  BY <1>1, <1>4, RefsIguais
<1>6. InvEstado'
  <2>1. ctx = "vivo"
    BY <1>1, <1>2, ContextoVivo
  <2>2. fio'.pronta => fila' # << >>
    BY <1>1, <1>2 DEF InvEstado
  <2>. QED
    BY <1>1, <1>2, <2>1, <2>2, EstadoDoFio
<1>7. InvAbertos'
  BY <1>1, <1>2 DEF InvAbertos, Aberto
<1>. QED
  BY <1>5, <1>6, <1>7 DEF Nucleo

(* An item is answered and goes.                                           *)
LEMMA NucleoAtendeu ==
    ASSUME Nucleo, TypeOK', NEW i, NEW v, Atendeu(i, v)
    PROVE  Nucleo'
<1>1. TypeOK /\ InvEstado /\ InvLimites /\ InvRefs /\ InvAbertos
  BY DEF Nucleo
<1>2. /\ UNCHANGED <<ctx, dono, fila, proc, chamadas>>
      /\ fio.pc \in {"ciclo", "bloqueado"}
      /\ fio'.pc = "ciclo" /\ fio'.pronta = fio.pronta /\ fio'.ped = fio.ped
      /\ Largou(i)
  BY DEF Atendeu, Tratou
<1>3. PICK c \in NosItens : c = Campos(itens[i])
  BY DEF Atendeu
<1>4. c.p = itens[i].p /\ c.ref = itens[i].ref /\ c.s = itens[i].s
  BY <1>3 DEF Campos
<1>5. /\ NosItens' = NosItens \ {c} /\ \A e \in NosItens' : e.ref # c.ref
      /\ Distinta(itens)' /\ EstadosIguais
  BY <1>2, <1>3, <1>4 DEF Largou
<1>6. NaFila' = NaFila /\ Distinta(fila)'
  BY <1>1, <1>2 DEF NaFila, InvRefs, Distinta
<1>7. Respondida(c, v)
  <2>1. c.p \in Procs /\ c.ref \in 1 .. chamadas /\ Guardado(c)
    BY <1>1, TiposDosPedidos DEF InvLimites, InvRefs, PedidosItens
  <2>2. SemResposta(c.ref) /\ c.ref \notin Saidas
        /\ \A q \in Procs : proc[q].ref = c.ref => q = c.p
    BY <2>1 DEF Guardado
  <2>3. \A q \in Procs : proc[q].ref = c.ref => proc[q].pc \notin Antes
    BY <1>1, <1>3 DEF InvRefs, RefNova, SemPedido
  <2>4. \A e \in NaFila' : e.ref # c.ref
    BY <1>1, <1>3, <1>6 DEF InvRefs, PedidosFila
  <2>5. /\ \A q \in Procs : caixa'[q] = IF q = c.p
                                    THEN caixa[q] \cup {[ref |-> c.ref, res |-> v]}
                                    ELSE caixa[q]
        /\ saidas' = saidas \/ saidas' = Append(saidas, c.ref)
    BY <1>4 DEF Atendeu
  <2>. QED
    BY <1>2, <1>5, <1>6, <2>1, <2>2, <2>3, <2>4, <2>5 DEF Respondida, Listas
<1>8. InvLimites' /\ InvRefs'
  BY <1>1, <1>7, RefsResposta
<1>9. InvEstado'
  <2>1. ctx = "vivo"
    BY <1>1, <1>2, ContextoVivo
  <2>2. fio'.pronta => fila' # << >>
    BY <1>1, <1>2 DEF InvEstado
  <2>. QED
    BY <1>1, <1>2, <2>1, <2>2, EstadoDoFio
<1>10. InvAbertos'
  <2>1. NenhumFecha
    BY <1>5 DEF NenhumFecha, EstadosIguais, Aberto
  <2>. QED
    BY <1>1, <1>5, <2>1, AbertosMantidos
<1>. QED
  BY <1>8, <1>9, <1>10 DEF Nucleo

(* The steps on an item.                                                   *)
LEMMA NucleoItem ==
    ASSUME Nucleo, ItemRecv \/ ItemSend \/ ItemExpira
    PROVE  Nucleo'
<1>1. TypeOK /\ InvEstado /\ InvLimites /\ Distinta(itens)
  BY DEF Nucleo, InvRefs
<1>2. TypeOK' /\ \E i \in DOMAIN itens : Continuou(i) \/ \E v : Atendeu(i, v)
  BY <1>1, EfeitoItemRecv, EfeitoItemSend, EfeitoItemExpira
<1>. QED
  BY <1>2, NucleoContinuou, NucleoAtendeu

(* A request becomes an item.                                              *)
LEMMA NucleoRegista ==
    ASSUME Nucleo, Regista
    PROVE  Nucleo'
<1>1. TypeOK /\ InvEstado /\ InvLimites /\ InvRefs /\ InvAbertos
  BY DEF Nucleo
<1>2. /\ TypeOK'
      /\ \E r : /\ Tirou(r) /\ r.tipo \in {"send", "recv"}
                /\ UNCHANGED <<sock, caixa, inbox>>
                /\ fio'.pc = "ciclo" /\ ~ fio'.pronta /\ fio'.ped = fio.ped
                /\ Registou(r) \/ itens' = itens
  BY <1>1, EfeitoRegista
<1>3. PICK r : /\ Tirou(r) /\ r.tipo \in {"send", "recv"}
               /\ UNCHANGED <<sock, caixa, inbox>>
               /\ fio'.pc = "ciclo" /\ ~ fio'.pronta /\ fio'.ped = fio.ped
               /\ Registou(r) \/ itens' = itens
  BY <1>2
<1>4. /\ UNCHANGED <<ctx, dono, proc>> /\ fio.pc = "ciclo" /\ Distinta(fila)'
  BY <1>3 DEF Tirou
<1>5. \E c : /\ NosItens' \subseteq NosItens \cup {c} /\ Distinta(itens)'
             /\ c.p = r.p /\ c.s = r.s /\ c.ref = r.ref
             /\ c.zmq => Aberto(r.s)
  <2>1. CASE Registou(r)
    <3>1. PICK e \in TipoItem : /\ e.s = r.s /\ e.p = r.p /\ e.ref = r.ref
                                /\ e.zmq <=> Aberto(r.s)
                                /\ Distinta(itens)' /\ NosItens' = NosItens \cup {Campos(e)}
      BY <2>1 DEF Registou
    <3>2. Campos(e).s = e.s /\ Campos(e).p = e.p /\ Campos(e).ref = e.ref
          /\ Campos(e).zmq = e.zmq
      BY DEF Campos
    <3>. QED
      BY <3>1, <3>2
  <2>2. CASE itens' = itens
    <3>1. NosItens' = NosItens /\ Distinta(itens)'
      BY <1>1, <2>2 DEF NosItens, InvRefs, Distinta
    <3>2. PICK c : c = [p |-> r.p, s |-> r.s, ref |-> r.ref, zmq |-> FALSE]
      OBVIOUS
    <3>3. c.p = r.p /\ c.s = r.s /\ c.ref = r.ref /\ ~ c.zmq
      BY <3>2
    <3>. QED
      BY <3>1, <3>3
  <2>. QED
    BY <1>3, <2>1, <2>2
<1>6. PICK c : /\ NosItens' \subseteq NosItens \cup {c} /\ Distinta(itens)'
               /\ c.p = r.p /\ c.s = r.s /\ c.ref = r.ref
               /\ c.zmq => Aberto(r.s)
  BY <1>5
<1>7. InvLimites' /\ InvRefs'
  <2>1. Listas /\ MesmoTerm
    BY <1>3, <1>4, <1>6 DEF Listas, MesmoTerm
  <2>. QED
    BY <1>1, <1>3, <1>6, <2>1, RefsRegista
<1>8. InvEstado'
  <2>1. ctx = "vivo"
    BY <1>1, <1>4, ContextoVivo
  <2>. QED
    BY <1>1, <1>3, <1>4, <2>1, EstadoDoFio
<1>9. InvAbertos'
  <2>1. \A e \in NosItens' : e.zmq => Aberto(e.s)
    BY <1>1, <1>6 DEF InvAbertos
  <2>. QED
    BY <1>3, <2>1 DEF InvAbertos, Aberto
<1>. QED
  BY <1>2, <1>7, <1>8, <1>9 DEF Nucleo

(* A socket is closed.                                                     *)
LEMMA NucleoClose ==
    ASSUME Nucleo, Close
    PROVE  Nucleo'
<1>1. TypeOK /\ InvEstado /\ InvLimites /\ InvRefs /\ InvAbertos
  BY DEF Nucleo
<1>2. /\ TypeOK'
      /\ \E r : /\ Tirou(r) /\ Respondeu(r)
                /\ fio'.pc = "ciclo" /\ ~ fio'.pronta /\ fio'.ped = fio.ped
                /\ UNCHANGED <<itens, sock, inbox>> \/ Fechou(r.s)
  BY <1>1, EfeitoClose
<1>3. PICK r : /\ Tirou(r) /\ Respondeu(r)
               /\ fio'.pc = "ciclo" /\ ~ fio'.pronta /\ fio'.ped = fio.ped
               /\ UNCHANGED <<itens, sock, inbox>> \/ Fechou(r.s)
  BY <1>2
<1>4. /\ UNCHANGED <<ctx, dono, proc, saidas, chamadas>> /\ fio.pc = "ciclo"
      /\ Distinta(fila)' /\ NaFila = {r} \cup NaFila' /\ \A d \in NaFila' : d.ref # r.ref
      /\ r.p \in Procs
  BY <1>3 DEF Tirou
<1>5. Distinta(itens)' /\ NosItens' \subseteq NosItens
  <2>1. CASE itens' = itens
    BY <1>1, <2>1 DEF InvRefs, Distinta, NosItens
  <2>2. CASE Fechou(r.s)
    BY <2>2 DEF Fechou
  <2>. QED
    BY <1>3, <2>1, <2>2
<1>6. Respondida(r, 0)
  <2>1. r \in NaFila
    BY <1>4
  <2>2. r.ref \in 1 .. chamadas /\ Guardado(r) /\ \A d \in NosItens : r.ref # d.ref
    BY <1>1, <2>1 DEF InvLimites, InvRefs, PedidosFila
  <2>3. SemResposta(r.ref) /\ \A q \in Procs : proc[q].ref = r.ref => q = r.p
    BY <2>2 DEF Guardado
  <2>4. \A q \in Procs : proc[q].ref = r.ref => proc[q].pc \notin Antes
    BY <1>1, <2>1 DEF InvRefs, RefNova, SemPedido
  <2>5. \A e \in NosItens' : e.ref # r.ref
    BY <1>5, <2>2
  <2>6. fio'.pc # "term" /\ Listas
    BY <1>3, <1>4, <1>5 DEF Listas
  <2>. QED
    BY <1>3, <1>4, <1>5, <2>2, <2>3, <2>4, <2>5, <2>6 DEF Respondida, Respondeu
<1>7. InvLimites' /\ InvRefs'
  BY <1>1, <1>6, RefsResposta
<1>8. InvEstado'
  <2>1. ctx = "vivo"
    BY <1>1, <1>4, ContextoVivo
  <2>. QED
    BY <1>1, <1>3, <1>4, <2>1, EstadoDoFio
<1>9. InvAbertos'
  <2>1. CASE UNCHANGED <<itens, sock>>
    BY <1>1, <2>1 DEF InvAbertos, Aberto, NosItens
  <2>2. CASE Fechou(r.s)
    <3>1. \A e \in NosItens : e.s \in Socks
      BY <1>1, TiposDosPedidos
    <3>2. /\ NosItens' = {e \in NosItens : ~ (e.zmq /\ e.s = r.s)}
          /\ \A t \in Socks : t # r.s => sock'[t].estado = sock[t].estado
      BY <2>2 DEF Fechou
    <3>. QED
      BY <1>1, <3>1, <3>2 DEF InvAbertos, Aberto
  <2>. QED
    BY <1>3, <2>1, <2>2
<1>. QED
  BY <1>2, <1>7, <1>8, <1>9 DEF Nucleo

(* The request to terminate is taken.                                      *)
LEMMA NucleoPedidoTerm ==
    ASSUME Nucleo, PedidoTerm
    PROVE  Nucleo'
<1>1. TypeOK /\ InvEstado /\ InvLimites /\ InvRefs /\ InvAbertos
  BY DEF Nucleo
<1>2. /\ TypeOK'
      /\ \E r : /\ Tirou(r) /\ UNCHANGED <<sock, itens, caixa>>
                /\ fio'.pc = "term" /\ ~ fio'.pronta /\ fio'.ped = r
  BY <1>1, EfeitoPedidoTerm
<1>3. PICK r : /\ Tirou(r) /\ UNCHANGED <<sock, itens, caixa>>
               /\ fio'.pc = "term" /\ ~ fio'.pronta /\ fio'.ped = r
  BY <1>2
<1>4. UNCHANGED <<ctx, dono, proc>> /\ fio.pc = "ciclo"
  BY <1>3 DEF Tirou
<1>5. InvLimites' /\ InvRefs'
  BY <1>1, <1>3, RefsPedidoTerm
<1>6. InvEstado'
  <2>1. ctx = "vivo"
    BY <1>1, <1>4, ContextoVivo
  <2>. QED
    BY <1>1, <1>3, <1>4, <2>1, EstadoDoFio
<1>7. InvAbertos'
  BY <1>1, <1>3 DEF InvAbertos, Aberto, NosItens
<1>. QED
  BY <1>2, <1>5, <1>6, <1>7 DEF Nucleo

(* The context is terminated.                                              *)
LEMMA NucleoTerm ==
    ASSUME Nucleo, Term
    PROVE  Nucleo'
<1>1. TypeOK /\ InvEstado /\ InvLimites /\ InvRefs /\ InvAbertos
  BY DEF Nucleo
<1>2. /\ TypeOK'
      /\ UNCHANGED <<dono, proc, saidas, chamadas>>
      /\ fio.pc = "term" /\ dono = Nenhum
      /\ fio'.pc = "zmq_term" /\ fio'.pronta = fio.pronta
      /\ ctx' = "terminado" /\ itens' = << >> /\ fila' = << >>
      /\ \A t \in Socks : (sock[t].estado = "nada") <=> (sock'[t].estado = "nada")
      /\ fio.ped.p \in Procs /\ Respondeu(fio.ped)
  BY <1>1, EfeitoTerm
<1>3. NosItens' = {} /\ NaFila' = {} /\ Listas
  BY <1>2 DEF NosItens, Vistos, NaFila, Range, Listas, Distinta
<1>4. PICK x : x = fio.ped
  OBVIOUS
<1>5. Respondida(x, 0)
  <2>1. x.p \in Procs /\ x.ref \in 1 .. chamadas
    BY <1>1, <1>2, <1>4 DEF InvLimites
  <2>2. SemResposta(x.ref) /\ \A q \in Procs : proc[q].ref = x.ref => q = x.p
    BY <1>1, <1>2, <1>4 DEF InvRefs, PedidoDoTerm
  <2>3. \A q \in Procs : proc[q].ref = x.ref => proc[q].pc \notin Antes
    BY <1>1, <1>2, <1>4 DEF InvRefs, RefNova, SemPedido
  <2>. QED
    BY <1>2, <1>3, <1>4, <2>1, <2>2, <2>3 DEF Respondida, Respondeu
<1>6. InvLimites' /\ InvRefs'
  BY <1>1, <1>5, RefsResposta
<1>7. InvEstado'
  <2>1. ~ fio.pronta /\ ctx = "vivo"
    BY <1>1, <1>2, ContextoVivo DEF InvEstado
  <2>. QED
    BY <1>1, <1>2, <2>1 DEF InvEstado, Terminada
<1>8. InvAbertos'
  BY <1>3 DEF InvAbertos
<1>. QED
  BY <1>2, <1>6, <1>7, <1>8 DEF Nucleo

(* zmq_term returns.                                                       *)
LEMMA NucleoZmqTerm ==
    ASSUME Nucleo, ZmqTerm
    PROVE  Nucleo'
<1>1. TypeOK /\ InvEstado /\ InvLimites /\ InvRefs /\ InvAbertos
  BY DEF Nucleo
<1>2. /\ TypeOK'
      /\ UNCHANGED <<ctx, dono, sock, fila, itens, proc, caixa, saidas, chamadas>>
      /\ fio.pc = "zmq_term"
      /\ fio'.pc = "fim" /\ fio'.pronta = fio.pronta /\ fio'.ped = fio.ped
  BY <1>1, EfeitoZmqTerm
<1>3. NaFila' = NaFila /\ NosItens' = NosItens
  BY <1>2 DEF NaFila, NosItens
<1>4. SemPedidos
  <2>1. Distinta(fila)' /\ Distinta(itens)'
    BY <1>1, <1>2 DEF InvRefs, Distinta
  <2>. QED
    BY <1>2, <1>3, <2>1 DEF SemPedidos, Listas, MesmoTerm
<1>5. InvLimites' /\ InvRefs'
  BY <1>1, <1>4, RefsIguais
<1>6. InvEstado'
  <2>1. ~ fio.pronta
    BY <1>1, <1>2 DEF InvEstado
  <2>. QED
    BY <1>1, <1>2, <2>1 DEF InvEstado, Terminada
<1>7. InvAbertos'
  BY <1>1, <1>2, <1>3 DEF InvAbertos, Aberto
<1>. QED
  BY <1>2, <1>5, <1>6, <1>7 DEF Nucleo
-----------------------------------------------------------------------------
(* The theorems.                                                           *)

(* Before the context is made nothing is pending.                          *)
LEMMA TiposIniciais ==
    ASSUME Init
    PROVE  TypeOK
<1>1. ctx \in {"nada", "vivo", "terminado"} /\ dono \in Procs \cup {Nenhum}
  BY DEF Init
<1>2. sock \in [Socks -> TipoSock]
  BY DEF Init, TipoSock
<1>3. /\ fila \in Seq(Pedidos) /\ Len(fila) <= FilaMax
      /\ itens \in Seq(TipoItem) /\ Len(itens) < MaxPedidos
      /\ saidas \in Seq(1 .. MaxChamadas)
  BY ErlZmqAssumption DEF Init
<1>4. fio \in TipoFio
  <2>1. SemTerm \in Pedidos
    BY LivreProperties DEF SemTerm, Pedidos, Tipos
  <2>. QED
    BY <2>1 DEF Init, TipoFio
<1>5. proc \in [Procs -> TipoProc] /\ caixa \in [Procs -> SUBSET TipoResposta]
  BY LivreProperties DEF Init
<1>6. /\ inbox \in [Socks -> Seq(1 .. MaxMsgs)]
      /\ cheio \in [Socks -> BOOLEAN]
      /\ obtidas \in [Socks -> Seq(1 .. MaxMsgs)]
  BY DEF Init
<1>7. chegadas \in [Socks -> 0 .. MaxMsgs] /\ chamadas \in 0 .. MaxChamadas
  BY ErlZmqAssumption DEF Init
<1>8. queda \in {"nenhuma", "assert", "ub"} /\ {abuso, expirou} \subseteq BOOLEAN
  BY DEF Init
<1>. QED
  BY <1>1, <1>2, <1>3, <1>4, <1>5, <1>6, <1>7, <1>8 DEF TypeOK

(* The invariant holds at the start.                                       *)
LEMMA NucleoInicial ==
    ASSUME Init
    PROVE  Nucleo
<1>1. TypeOK
  BY TiposIniciais
<1>2. /\ ctx = "nada" /\ dono = Nenhum /\ fila = << >> /\ itens = << >> /\ saidas = << >>
      /\ fio.pc = "nada" /\ ~ fio.pronta
      /\ \A s \in Socks : sock[s].estado = "nada"
      /\ \A p \in Procs : caixa[p] = {}
      /\ chamadas = 0
  BY DEF Init
<1>3. \A p \in Procs : proc[p].pc = "livre" /\ proc[p].ref = 0 /\ proc[p].op = "bind"
  BY LivreProperties DEF Init
<1>4. NaFila = {} /\ NosItens = {} /\ Saidas = {}
  BY <1>2 DEF NaFila, NosItens, Vistos, Saidas, Range
<1>5. Distinta(fila) /\ Distinta(itens) /\ SaidaUnica
  BY <1>2 DEF Distinta, SaidaUnica
<1>6. InvEstado
  BY <1>2, <1>3 DEF InvEstado, Terminada
<1>7. InvLimites
  BY <1>2, <1>3, <1>4 DEF InvLimites
<1>8. InvRefs
  BY <1>2, <1>3, <1>4, <1>5 DEF InvRefs, RefDeUm, RefNova, Antes, PedidosFila, PedidosItens,
                             PedidoDoTerm, RespostaDoDono, RespostaUnica
<1>9. InvAbertos
  BY <1>4 DEF InvAbertos
<1>. QED
  BY <1>1, <1>6, <1>7, <1>8, <1>9 DEF Nucleo

(* Every step keeps it.                                                    *)
LEMMA NucleoPasso ==
    ASSUME Nucleo, [Next]_vars
    PROVE  Nucleo'
<1>1. CASE Context
  BY <1>1, NucleoContext
<1>2. ASSUME NEW p \in Procs, NEW s \in Socks, NEW a \in {"OFF", "PENDING"}, Socket(p, s, a)
      PROVE  Nucleo'
  BY <1>2, NucleoSocket
<1>3. ASSUME NEW p \in Procs, NEW s \in Socks,
             NEW op \in {"bind", "setsockopt", "send", "recv", "close"}, Chama(p, op, s)
      PROVE  Nucleo'
  BY <1>3, NucleoChama
<1>4. ASSUME NEW p \in Procs, Chama(p, "term", Livre.s)
      PROVE  Nucleo'
  BY <1>4, NucleoChama, LivreProperties
<1>5. ASSUME NEW p \in Procs, DentroDaChamada(p)
      PROVE  Nucleo'
  BY <1>5, NucleoBind, NucleoSetsockopt, NucleoTenta, NucleoTrancaNula, NucleoTestaCtx,
     NucleoEnvia, NucleoEnviaNula, NucleoKeep, NucleoGetsockopt, NucleoRecebe
     DEF DentroDaChamada
<1>6. ASSUME NEW p \in Procs, Expira(p)
      PROVE  Nucleo'
  BY <1>6, NucleoExpira
<1>7. CASE Fio
  BY <1>7, NucleoPoll, NucleoLibzmq, NucleoBloqueia, NucleoItem, NucleoRegista, NucleoClose,
     NucleoPedidoTerm, NucleoTerm, NucleoZmqTerm DEF Fio
<1>8. ASSUME NEW s \in Socks, Chega(s) \/ Enche(s)
      PROVE  Nucleo'
  BY <1>8, NucleoLibzmq
<1>9. CASE UNCHANGED vars
  <2>1. TypeOK'
    BY <1>9 DEF vars, TypeOK, Nucleo
  <2>. QED
    BY <2>1, <1>9, NucleoIgual DEF vars
<1>. QED
  BY <1>1, <1>2, <1>3, <1>4, <1>5, <1>6, <1>7, <1>8, <1>9 DEF Next

(* The core invariant: the context's life, the refs and the items.         *)
LEMMA NucleoSempre == Spec => []Nucleo
<1>1. Init => Nucleo
  BY NucleoInicial
<1>2. Nucleo /\ [Next]_vars => Nucleo'
  BY NucleoPasso
<1>. QED
  BY <1>1, <1>2, PTL DEF Spec

(* Type correctness of the binding's state, for any number of processes,   *)
(* sockets, calls and messages: the vector of requests never grows past    *)
(* ERLZMQ_MAX_CONCURRENT_REQUESTS and no reply carries a ref no call had.  *)
THEOREM TiposCorretos == Spec => []TypeOK
<1>1. Nucleo => TypeOK
  BY DEF Nucleo
<1>. QED
  BY <1>1, NucleoSempre, PTL

(* zmq_poll is never given a closed socket: whatever calls overlap, CLOSE, *)
(* TERM and a close made directly after the context ended leave no item    *)
(* polling a socket that is gone.                                          *)
THEOREM SoSocketsAbertos == Spec => []ItensAbertos
<1>1. Nucleo => ItensAbertos
  <2>. SUFFICES ASSUME Nucleo, NEW i \in DOMAIN itens, itens[i].zmq
                PROVE  Aberto(itens[i].s)
    BY DEF ItensAbertos
  <2>1. Campos(itens[i]) \in NosItens
    BY DEF NosItens, Vistos
  <2>2. Campos(itens[i]).zmq = itens[i].zmq /\ Campos(itens[i]).s = itens[i].s
    BY DEF Campos
  <2>3. InvAbertos
    BY DEF Nucleo
  <2>. QED
    BY <2>1, <2>2, <2>3 DEF InvAbertos
<1>. QED
  BY <1>1, NucleoSempre, PTL

(* A message is given to libzmq once, by the call's own attempt or by the  *)
(* polling thread, and never while its request is still pending.           *)
THEOREM EnviosUnicos == Spec => []EnvioUnico
<1>1. Nucleo => EnvioUnico
  <2>. SUFFICES ASSUME Nucleo PROVE EnvioUnico
    OBVIOUS
  <2>1. SaidaUnica /\ PedidosItens
    BY DEF Nucleo, InvRefs
  <2>2. ASSUME NEW i \in DOMAIN itens
        PROVE  itens[i].ref \notin {saidas[k] : k \in DOMAIN saidas}
    <3>1. Campos(itens[i]) \in NosItens /\ Campos(itens[i]).ref = itens[i].ref
      BY DEF NosItens, Vistos, Campos
    <3>. QED
      BY <2>1, <3>1 DEF PedidosItens, Guardado, Saidas, Range
  <2>. QED
    BY <2>1, <2>2 DEF EnvioUnico, SaidaUnica
<1>. QED
  BY <1>1, NucleoSempre, PTL
=============================================================================
