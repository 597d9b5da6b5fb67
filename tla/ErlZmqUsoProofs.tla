-------------------------- MODULE ErlZmqUsoProofs --------------------------
(***************************************************************************)
(* More about the Erlang binding, on top of the core invariant: the reader *)
(* of an active socket, what holds as long as calls do not cross, and the  *)
(* order in which messages reach Erlang.                                   *)
(***************************************************************************)
EXTENDS ErlZmqProofs

\* close and term wait without a timeout until they are answered
Espera(e) == /\ proc[e.p].ref = e.ref /\ proc[e.p].op = e.tipo /\ proc[e.p].s = e.s
             /\ proc[e.p].pc \in {"keep", "espera"}
Regras(v) == /\ v.op \in {"close", "term"} => ~ v.prazo
             /\ v.pc = "timeo" => v.op \in {"send", "recv"}
InvDono ==
    /\ \A p \in Procs : Regras(proc[p])
    /\ \A e \in NaFila : e.tipo \in {"close", "term"} => Espera(e)
    /\ fio.pc = "term" => fio.ped.tipo = "term" /\ Espera(fio.ped)

\* an active socket is read by one request
Ativando(p) == proc[p].op = "ativa" /\ proc[p].pc \in Antes
Pedidas == NaFila \cup NosItens
LeituraPedida == \A e \in Pedidas : /\ e.tipo # "term" => sock[e.s].estado # "nada"
                                    /\ e.tipo = "recv" => sock[e.s].active # "PENDING"
ModoDe(p) == /\ sock[proc[p].s].estado # "nada"
             /\ proc[p].op = "recv" => sock[proc[p].s].active = "OFF"
             /\ proc[p].op = "ativa" => sock[proc[p].s].active = "ON"
ModoDasChamadas == \A p \in Procs : EmCurso(p) /\ proc[p].op # "term" => ModoDe(p)
UmaLeitura == \A e, d \in Pedidas :
    (e.tipo = "recv" /\ d.tipo = "recv" /\ e.s = d.s /\ sock[e.s].active = "ON")
       => e.ref = d.ref
LeituraPorPedir == \A e \in Pedidas, p \in Procs :
    e.tipo = "recv" /\ Ativando(p) => e.s # proc[p].s
UmaAtivacao == \A p, q \in Procs :
    Ativando(p) /\ Ativando(q) /\ proc[p].s = proc[q].s => p = q
InvAtivo == /\ LeituraPedida /\ ModoDasChamadas /\ UmaLeitura /\ LeituraPorPedir
            /\ UmaAtivacao

\* what holds as long as no calls cross
Separadas == \A p, q \in Procs : p # q /\ EmCurso(p) /\ EmCurso(q) =>
                proc[p].s # proc[q].s /\ proc[p].op # "term"
Servida(p) == EmCurso(p) =>
    /\ proc[p].op \notin {"close", "term"} => Aberto(proc[p].s)
    /\ proc[p].pc \in {"envia", "cheia"} => ctx = "vivo"
    /\ proc[p].pc \in Depois /\ proc[p].op # "term" => ctx = "vivo"
Servidas == \A p \in Procs : Servida(p)
ItensVivos == \A e \in NosItens : e.zmq /\ Aberto(e.s)
FilaViva == \A e \in NaFila : e.tipo \in {"send", "recv"} => Aberto(e.s)
FechoDepois == \A i, j \in DOMAIN fila :
    i < j /\ fila[i].tipo = "close" /\ fila[j].s = fila[i].s =>
       fila[j].tipo \notin {"send", "recv"}
Uso == Separadas /\ Servidas /\ ItensVivos /\ FilaViva /\ FechoDepois
InvUso == ~ abuso => Uso

\* and as long as no call gave up waiting either
LeitorDe(e) == \/ sock[e.s].active = "ON"
               \/ /\ proc[e.p].ref = e.ref /\ proc[e.p].s = e.s
                  /\ proc[e.p].pc \in Depois
Leitores == \A e \in Pedidas : e.tipo = "recv" => LeitorDe(e)
Prontas == \A i \in DOMAIN itens : itens[i].tipo = "recv" /\ itens[i].rev =>
              inbox[itens[i].s] # << >>
SemBloqueio == fio.pc = "bloqueado" => itens[Vez].tipo # "recv"
Leitura == Leitores /\ Prontas /\ SemBloqueio
InvLeitor == (~ abuso /\ ~ expirou) => Leitura

\* a waiting call has something that will answer it
SeraRespondida(p) == \/ \E e \in Pedidas : e.ref = proc[p].ref
                     \/ \E m \in caixa[p] : m.ref = proc[p].ref
                     \/ fio.pc = "term" /\ fio.ped.ref = proc[p].ref
Pendente(p) == proc[p].pc \in Depois /\ proc[p].op # "ativa" => SeraRespondida(p)
NadaPerdido == \A p \in Procs : Pendente(p)
InvPendente == (~ abuso /\ queda = "nenhuma") => NadaPerdido

\* references: one for the open socket, one for each request but those whose
\* caller has not counted it yet
PorContar(s) == {p \in Procs : proc[p].pc = "keep" /\ proc[p].s = s /\ proc[p].op # "term"}
ItensDe(s) == {e \in NosItens : e.s = s}
FilaDe(s) == {e \in NaFila : e.s = s /\ e.tipo # "term"}
Contado(s) == sock[s].refc + Cardinality(PorContar(s))
                >= (IF Aberto(s) THEN 1 ELSE 0)
                   + Cardinality(ItensDe(s)) + Cardinality(FilaDe(s))
InvReferencias == \A s \in Socks : /\ Contado(s)
                                   /\ sock[s].estado = "nada" => sock[s].refc = 0
-----------------------------------------------------------------------------
(* Close and term.                                                         *)

\* process q goes on waiting, or nothing asked for it is left
Fiel(q) == /\ Regras(proc'[q])
           /\ \/ proc[q].pc \notin {"keep", "espera"}
              \/ proc[q].op \notin {"close", "term"}
              \/ SemPedido(proc[q].ref)
              \/ /\ proc'[q].op = proc[q].op /\ proc'[q].s = proc[q].s
                 /\ proc'[q].ref = proc[q].ref /\ proc'[q].pc \in {"keep", "espera"}
Fieis == \A q \in Procs : Fiel(q)
\* no request comes
NadaEntra == /\ NaFila' \subseteq NaFila
             /\ fio'.pc = "term" => fio.pc = "term" /\ fio'.ped = fio.ped

(* While no request comes and no one leaves its request behind.            *)
LEMMA DonoMantido ==
    ASSUME Nucleo, InvDono, Fieis, NadaEntra
    PROVE  InvDono'
<1>1. InvLimites
  BY DEF Nucleo
<1>2. ASSUME NEW e, e.p \in Procs, e.tipo \in {"close", "term"}, Espera(e),
             ~ SemPedido(e.ref)
      PROVE  Espera(e)'
  <2>1. Fiel(e.p)
    BY <1>2 DEF Fieis
  <2>. QED
    BY <1>2, <2>1 DEF Fiel, Espera
<1>3. ASSUME NEW e \in NaFila', e.tipo \in {"close", "term"}
      PROVE  Espera(e)'
  <2>1. e \in NaFila /\ e.p \in Procs /\ ~ SemPedido(e.ref)
    BY <1>1 DEF NadaEntra, InvLimites, SemPedido
  <2>2. Espera(e)
    BY <1>3, <2>1 DEF InvDono
  <2>. QED
    BY <1>2, <1>3, <2>1, <2>2
<1>4. ASSUME fio'.pc = "term"
      PROVE  fio'.ped.tipo = "term" /\ Espera(fio.ped)'
  <2>1. fio.pc = "term" /\ fio'.ped = fio.ped
    BY <1>4 DEF NadaEntra
  <2>2. fio.ped.tipo = "term" /\ Espera(fio.ped)
    BY <2>1 DEF InvDono
  <2>3. fio.ped.p \in Procs /\ ~ SemPedido(fio.ped.ref)
    BY <1>1, <2>1 DEF InvLimites, SemPedido
  <2>4. PICK r : r = fio.ped
    OBVIOUS
  <2>5. Espera(r) /\ r.p \in Procs /\ ~ SemPedido(r.ref) /\ r.tipo = "term"
    BY <2>2, <2>3, <2>4
  <2>6. Espera(r)'
    BY <1>2, <2>5
  <2>. QED
    BY <2>1, <2>2, <2>4, <2>6 DEF Espera
<1>5. \A p \in Procs : Regras(proc'[p])
  BY DEF Fieis, Fiel
<1>. QED
  BY <1>3, <1>4, <1>5 DEF InvDono

(* A step of the thread that takes no request.                             *)
LEMMA DonoDoFio ==
    ASSUME Nucleo, InvDono, proc' = proc, NadaEntra
    PROVE  InvDono'
<1>1. Fieis
  BY DEF Fieis, Fiel, InvDono
<1>. QED
  BY <1>1, DonoMantido

(* A step of one process.                                                  *)
LEMMA DonoDoProc ==
    ASSUME Nucleo, InvDono, NEW p \in Procs, Move(p), Fiel(p), fila' = fila, fio' = fio
    PROVE  InvDono'
<1>1. ASSUME NEW q \in Procs PROVE Fiel(q)
  <2>1. CASE q = p
    BY <2>1
  <2>2. CASE q # p
    <3>1. proc'[q] = proc[q] /\ Regras(proc[q])
      BY <2>2 DEF Move, InvDono
    <3>. QED
      BY <3>1 DEF Fiel
  <2>. QED
    BY <2>1, <2>2
<1>2. NadaEntra
  BY DEF NadaEntra, NaFila
<1>. QED
  BY <1>1, <1>2, DonoMantido DEF Fieis

(* A call whose answer came has no request left.                           *)
LEMMA RespondidoSemPedido ==
    ASSUME Nucleo, NEW p \in Procs, \E m \in caixa[p] : m.ref = proc[p].ref
    PROVE  SemPedido(proc[p].ref)
<1>1. InvRefs
  BY DEF Nucleo
<1>2. ~ SemResposta(proc[p].ref)
  BY DEF SemResposta
<1>3. \A e \in NaFila : SemResposta(e.ref)
  BY <1>1 DEF InvRefs, PedidosFila, Guardado
<1>4. \A e \in NosItens : SemResposta(e.ref)
  BY <1>1 DEF InvRefs, PedidosItens, Guardado
<1>5. fio.pc = "term" => SemResposta(fio.ped.ref)
  BY <1>1 DEF InvRefs, PedidoDoTerm
<1>. QED
  BY <1>2, <1>3, <1>4, <1>5 DEF SemPedido

(* The steps of a call that write nothing to the pipe.                     *)
LEMMA DonoDaChamada ==
    ASSUME Nucleo, InvDono, NEW p \in Procs,
           \/ Bind(p) \/ Setsockopt(p) \/ Tenta(p) \/ TrancaNula(p) \/ TestaCtx(p)
           \/ EnviaNula(p) \/ Keep(p) \/ Getsockopt(p) \/ Recebe(p) \/ Expira(p)
    PROVE  InvDono'
<1>1. TypeOK /\ InvLimites
  BY DEF Nucleo
<1>2. Regras(proc[p])
  BY DEF InvDono
<1>3. CASE Bind(p)
  <2>1. fila' = fila /\ fio' = fio /\ Move(p) /\ Fiel(p)
    BY <1>1, <1>3, EfeitoBind DEF Quieto, Solto, Fiel, Regras
  <2>. QED
    BY <2>1, DonoDoProc
<1>4. CASE Setsockopt(p)
  <2>1. fila' = fila /\ fio' = fio /\ Move(p) /\ Fiel(p)
    BY <1>1, <1>4, EfeitoSetsockopt DEF Quieto, Solto, Fiel, Regras
  <2>. QED
    BY <2>1, DonoDoProc
<1>5. CASE Tenta(p)
  <2>1. fila' = fila /\ fio' = fio /\ Move(p) /\ Fiel(p)
    BY <1>1, <1>2, <1>5, EfeitoTenta DEF Quieto, Solto, Passou, Fiel, Regras
  <2>. QED
    BY <2>1, DonoDoProc
<1>6. CASE TrancaNula(p)
  <2>1. CASE proc' = proc
    BY <1>1, <1>6, <2>1, EfeitoTrancaNula, DonoDoFio DEF Quieto, NadaEntra, NaFila
  <2>2. CASE Solto(p)
    <3>1. fila' = fila /\ fio' = fio /\ Move(p) /\ Fiel(p)
      BY <1>1, <1>6, <2>2, EfeitoTrancaNula DEF Quieto, Solto, Fiel, Regras
    <3>. QED
      BY <3>1, DonoDoProc
  <2>. QED
    BY <1>1, <1>6, <2>1, <2>2, EfeitoTrancaNula
<1>7. CASE TestaCtx(p)
  <2>1. fila' = fila /\ fio' = fio /\ Move(p) /\ Fiel(p)
    BY <1>1, <1>2, <1>7, EfeitoTestaCtx DEF Quieto, Solto, Passou, Fiel, Regras
  <2>. QED
    BY <2>1, DonoDoProc
<1>8. CASE EnviaNula(p)
  <2>1. CASE proc' = proc
    BY <1>1, <1>8, <2>1, EfeitoEnviaNula, DonoDoFio DEF Quieto, NadaEntra, NaFila
  <2>2. CASE Solto(p)
    <3>1. fila' = fila /\ fio' = fio /\ Move(p) /\ Fiel(p)
      BY <1>1, <1>8, <2>2, EfeitoEnviaNula DEF Quieto, Solto, Fiel, Regras
    <3>. QED
      BY <3>1, DonoDoProc
  <2>. QED
    BY <1>1, <1>8, <2>1, <2>2, EfeitoEnviaNula
<1>9. CASE Keep(p)
  <2>1. fila' = fila /\ fio' = fio /\ Move(p) /\ Fiel(p)
    BY <1>1, <1>2, <1>9, EfeitoKeep DEF Quieto, Solto, Passou, Fiel, Regras
  <2>. QED
    BY <2>1, DonoDoProc
<1>10. CASE Getsockopt(p)
  <2>1. fila' = fila /\ fio' = fio /\ Move(p) /\ Fiel(p)
    BY <1>1, <1>2, <1>10, EfeitoGetsockopt DEF Quieto, Passou, Fiel, Regras
  <2>. QED
    BY <2>1, DonoDoProc
<1>11. CASE Recebe(p)
  <2>1. fila' = fila /\ fio' = fio /\ Solto(p) /\ SemPedido(proc[p].ref)
    BY <1>1, <1>11, EfeitoRecebe, RespondidoSemPedido
  <2>2. Move(p) /\ Fiel(p)
    BY <2>1 DEF Solto, Fiel, Regras
  <2>. QED
    BY <2>1, <2>2, DonoDoProc
<1>12. CASE Expira(p)
  <2>1. fila' = fila /\ fio' = fio /\ Move(p) /\ Fiel(p)
    BY <1>1, <1>2, <1>12, EfeitoExpira DEF Quieto, Solto, Fiel, Regras
  <2>. QED
    BY <2>1, DonoDoProc
<1>. QED
  BY <1>3, <1>4, <1>5, <1>6, <1>7, <1>8, <1>9, <1>10, <1>11, <1>12

(* A call begins.                                                          *)
LEMMA DonoChama ==
    ASSUME Nucleo, InvDono, NEW p \in Procs, NEW s \in Socks,
           NEW op \in {"bind", "setsockopt", "send", "recv", "close", "term"}, Chama(p, op, s)
    PROVE  InvDono'
<1>1. TypeOK
  BY DEF Nucleo
<1>2. fila' = fila /\ fio' = fio /\ Move(p) /\ Fiel(p)
  BY <1>1, EfeitoChama DEF Fiel, Regras
<1>. QED
  BY <1>2, DonoDoProc

(* The request goes on the pipe, its caller waiting.                       *)
LEMMA DonoEnvia ==
    ASSUME Nucleo, InvDono, NEW p \in Procs, Envia(p)
    PROVE  InvDono'
<1>1. TypeOK /\ InvEstado /\ InvLimites /\ InvRefs
  BY DEF Nucleo
<1>2. /\ fio' = fio /\ proc[p].pc \in {"envia", "cheia"}
      /\ \/ fila' = Append(fila, Pedido(p)) /\ Passou(p, "keep")
         \/ fila' = fila /\ Passou(p, "cheia")
  BY <1>1, EfeitoEnvia
<1>3. Move(p) /\ Fiel(p)
  <2>1. Regras(proc[p])
    BY DEF InvDono
  <2>. QED
    BY <1>2, <2>1 DEF Passou, Fiel, Regras
<1>4. CASE fila' = fila
  BY <1>2, <1>3, <1>4, DonoDoProc
<1>5. CASE fila' = Append(fila, Pedido(p)) /\ Passou(p, "keep")
  <2>1. PICK e : e = Pedido(p)
    OBVIOUS
  <2>2. /\ e.p = p /\ e.s = proc[p].s /\ e.ref = proc[p].ref
        /\ e.tipo \in {"close", "term"} => e.tipo = proc[p].op
    BY <2>1 DEF Pedido
  <2>3. NaFila' = NaFila \cup {e}
    BY <1>1, <1>2, <1>5, <2>1, EfeitoEnvia, PedidoProperties, Acrescentado DEF NaFila, TypeOK
  <2>4. e.tipo \in {"close", "term"} => Espera(e)'
    BY <1>5, <2>2 DEF Passou, Espera
  <2>5. ASSUME NEW d, d.p \in Procs, Espera(d)
        PROVE  Espera(d)'
    <3>1. d.p # p
      BY <1>2, <2>5 DEF Espera
    <3>2. proc'[d.p] = proc[d.p]
      BY <1>3, <2>5, <3>1 DEF Move
    <3>. QED
      BY <2>5, <3>2 DEF Espera
  <2>6. ASSUME NEW d \in NaFila', d.tipo \in {"close", "term"}
        PROVE  Espera(d)'
    <3>1. CASE d = e
      BY <2>4, <2>6, <3>1
    <3>2. CASE d \in NaFila
      <4>1. d.p \in Procs /\ Espera(d)
        BY <1>1, <2>6, <3>2 DEF InvLimites, InvDono
      <4>. QED
        BY <2>5, <4>1
    <3>. QED
      BY <2>3, <3>1, <3>2
  <2>7. ASSUME fio.pc = "term" PROVE Espera(fio.ped)'
    <3>1. PICK r : r = fio.ped
      OBVIOUS
    <3>2. r.p \in Procs /\ Espera(r)
      BY <1>1, <2>7, <3>1 DEF InvLimites, InvDono
    <3>3. Espera(r)'
      BY <2>5, <3>2
    <3>. QED
      BY <1>2, <3>1, <3>3 DEF Espera
  <2>8. \A q \in Procs : Regras(proc'[q])
    BY <1>3 DEF Move, Fiel, InvDono
  <2>. QED
    BY <1>2, <2>6, <2>7, <2>8 DEF InvDono, Espera
<1>. QED
  BY <1>2, <1>4, <1>5

(* The thread.                                                             *)
LEMMA DonoFio ==
    ASSUME Nucleo, InvDono, Fio
    PROVE  InvDono'
<1>1. TypeOK /\ InvEstado /\ InvLimites /\ InvRefs /\ Distinta(itens)
  BY DEF Nucleo, InvRefs
<1>2. CASE Poll
  BY <1>1, <1>2, EfeitoPoll, DonoDoFio DEF NadaEntra, NaFila
<1>3. CASE ItemAborta
  BY <1>1, <1>3, EfeitoAborta, DonoDoFio DEF NadaEntra, NaFila
<1>4. CASE ItemBloqueia
  BY <1>1, <1>4, EfeitoBloqueia, DonoDoFio DEF NadaEntra, NaFila
<1>5. CASE ItemRecv \/ ItemSend \/ ItemExpira
  <2>1. Tratou
    BY <1>1, <1>5, EfeitoItemRecv, EfeitoItemSend, EfeitoItemExpira DEF Continuou, Atendeu
  <2>. QED
    BY <2>1, DonoDoFio DEF Tratou, NadaEntra, NaFila
<1>6. CASE Regista
  <2>1. PICK r : Tirou(r) /\ fio'.pc = "ciclo"
    BY <1>1, <1>6, EfeitoRegista
  <2>. QED
    BY <2>1, DonoDoFio DEF Tirou, NadaEntra
<1>7. CASE Close
  <2>1. PICK r : Tirou(r) /\ fio'.pc = "ciclo"
    BY <1>1, <1>7, EfeitoClose
  <2>. QED
    BY <2>1, DonoDoFio DEF Tirou, NadaEntra
<1>8. CASE PedidoTerm
  <2>1. PICK r : Tirou(r) /\ r.tipo = "term" /\ fio'.ped = r
    BY <1>1, <1>8, EfeitoPedidoTerm
  <2>2. proc' = proc /\ NaFila' \subseteq NaFila /\ r \in NaFila
    BY <2>1 DEF Tirou
  <2>3. Espera(r) /\ \A e \in NaFila' : e.tipo \in {"close", "term"} => Espera(e)
    BY <2>1, <2>2 DEF InvDono
  <2>. QED
    BY <2>1, <2>2, <2>3 DEF InvDono, Espera
<1>9. CASE Term
  BY <1>1, <1>9, EfeitoTerm, DonoDoFio DEF NadaEntra, NaFila, Range
<1>10. CASE ZmqTerm
  BY <1>1, <1>10, EfeitoZmqTerm, DonoDoFio DEF NadaEntra, NaFila
<1>. QED
  BY <1>2, <1>3, <1>4, <1>5, <1>6, <1>7, <1>8, <1>9, <1>10 DEF Fio

(* Every step.                                                             *)
LEMMA DonoPasso ==
    ASSUME Nucleo, InvDono, [Next]_vars
    PROVE  InvDono'
<1>1. TypeOK
  BY DEF Nucleo
<1>2. CASE Context
  BY <1>1, <1>2, EfeitoContext, DonoDoFio DEF NadaEntra, NaFila
<1>3. ASSUME NEW p \in Procs, NEW s \in Socks, NEW a \in {"OFF", "PENDING"}, Socket(p, s, a)
      PROVE  InvDono'
  BY <1>1, <1>3, EfeitoSocket, DonoDoFio DEF NadaEntra, NaFila
<1>4. ASSUME NEW p \in Procs, NEW s \in Socks,
             NEW op \in {"bind", "setsockopt", "send", "recv", "close"}, Chama(p, op, s)
      PROVE  InvDono'
  BY <1>4, DonoChama
<1>5. ASSUME NEW p \in Procs, Chama(p, "term", Livre.s)
      PROVE  InvDono'
  BY <1>5, DonoChama, LivreProperties
<1>6. ASSUME NEW p \in Procs, DentroDaChamada(p) \/ Expira(p)
      PROVE  InvDono'
  BY <1>6, DonoDaChamada, DonoEnvia DEF DentroDaChamada
<1>7. CASE Fio
  BY <1>7, DonoFio
<1>8. ASSUME NEW s \in Socks, Chega(s) \/ Enche(s)
      PROVE  InvDono'
  BY <1>1, <1>8, EfeitoChega, EfeitoEnche, DonoDoFio DEF NadaEntra, NaFila
<1>9. CASE UNCHANGED vars
  BY <1>9, DonoDoFio DEF vars, NadaEntra, NaFila
<1>. QED
  BY <1>2, <1>3, <1>4, <1>5, <1>6, <1>7, <1>8, <1>9 DEF Next
-----------------------------------------------------------------------------
(* Active sockets.                                                         *)

\* sockets in use keep their mode; requests only move or go; calls keep theirs
ModosIguais == \A t \in Socks : sock[t].estado # "nada" =>
                  sock'[t].estado # "nada" /\ sock'[t].active = sock[t].active
Vindas == \A e \in Pedidas' : \E d \in Pedidas :
             e.tipo = d.tipo /\ e.s = d.s /\ e.ref = d.ref /\ e.p = d.p
Segue(q) == EmCurso(q)' =>
               /\ EmCurso(q) /\ proc'[q].op = proc[q].op /\ proc'[q].s = proc[q].s
               /\ proc'[q].pc \in Antes => proc[q].pc \in Antes
Seguem == \A q \in Procs : Segue(q)

(* A call about to activate its socket is under way.                       *)
LEMMA AtivandoEmCurso ==
    ASSUME NEW p \in Procs, Ativando(p)
    PROVE  EmCurso(p) /\ proc[p].op # "term"
BY DEF Ativando, EmCurso, Antes

(* While no request and no call comes.                                     *)
LEMMA AtivoMantido ==
    ASSUME TypeOK, InvAtivo, ModosIguais, Vindas, Seguem
    PROVE  InvAtivo'
<1>1. /\ \A e \in Pedidas : e.s \in Socks
      /\ \A q \in Procs : proc[q].s \in Socks
  <2>1. \A q \in Procs : proc[q].s \in Socks
    BY DEF TypeOK, TipoProc
  <2>. QED
    BY <2>1, TiposDosPedidos DEF Pedidas
<1>2. /\ LeituraPedida /\ ModoDasChamadas /\ UmaLeitura /\ LeituraPorPedir /\ UmaAtivacao
  BY DEF InvAtivo
<1>3. LeituraPedida'
  <2>. SUFFICES ASSUME NEW e \in Pedidas', e.tipo # "term"
                PROVE  /\ sock'[e.s].estado # "nada"
                       /\ e.tipo = "recv" => sock'[e.s].active # "PENDING"
    BY DEF LeituraPedida
  <2>1. PICK d \in Pedidas : e.tipo = d.tipo /\ e.s = d.s
    BY DEF Vindas
  <2>. QED
    BY <1>1, <1>2, <2>1 DEF LeituraPedida, ModosIguais
<1>4. ASSUME NEW q \in Procs, EmCurso(q)', proc'[q].op # "term"
      PROVE  ModoDe(q)'
  <2>1. EmCurso(q) /\ proc'[q].op = proc[q].op /\ proc'[q].s = proc[q].s
    BY <1>4 DEF Seguem, Segue
  <2>2. ModoDe(q)
    BY <1>2, <1>4, <2>1 DEF ModoDasChamadas
  <2>3. PICK t \in Socks : t = proc[q].s
    BY <1>1
  <2>4. sock[t].estado # "nada"
    BY <2>2, <2>3 DEF ModoDe
  <2>5. sock'[t].estado # "nada" /\ sock'[t].active = sock[t].active
    BY <2>4 DEF ModosIguais
  <2>. QED
    BY <2>1, <2>2, <2>3, <2>5 DEF ModoDe
<1>5. ModoDasChamadas'
  BY <1>4 DEF ModoDasChamadas
<1>6. UmaLeitura'
  <2>. SUFFICES ASSUME NEW e \in Pedidas', NEW d \in Pedidas', e.tipo = "recv",
                       d.tipo = "recv", e.s = d.s, sock'[e.s].active = "ON"
                PROVE  e.ref = d.ref
    BY DEF UmaLeitura
  <2>1. PICK f \in Pedidas : e.tipo = f.tipo /\ e.s = f.s /\ e.ref = f.ref
    BY DEF Vindas
  <2>2. PICK g \in Pedidas : d.tipo = g.tipo /\ d.s = g.s /\ d.ref = g.ref
    BY DEF Vindas
  <2>3. sock[f.s].active = "ON"
    BY <1>1, <1>2, <2>1 DEF LeituraPedida, ModosIguais
  <2>4. f.ref = g.ref
    BY <1>2, <2>1, <2>2, <2>3 DEF UmaLeitura
  <2>. QED
    BY <2>1, <2>2, <2>4
<1>7. ASSUME NEW q \in Procs, Ativando(q)'
      PROVE  Ativando(q) /\ proc'[q].s = proc[q].s
  <2>1. EmCurso(q)'
    BY <1>7 DEF Ativando, EmCurso, Antes
  <2>. QED
    BY <1>7, <2>1 DEF Seguem, Segue, Ativando
<1>8. LeituraPorPedir'
  <2>. SUFFICES ASSUME NEW e \in Pedidas', NEW q \in Procs, e.tipo = "recv", Ativando(q)'
                PROVE  e.s # proc'[q].s
    BY DEF LeituraPorPedir
  <2>1. PICK d \in Pedidas : e.tipo = d.tipo /\ e.s = d.s
    BY DEF Vindas
  <2>. QED
    BY <1>2, <1>7, <2>1 DEF LeituraPorPedir
<1>9. UmaAtivacao'
  BY <1>2, <1>7 DEF UmaAtivacao
<1>. QED
  BY <1>3, <1>5, <1>6, <1>8, <1>9 DEF InvAtivo

(* Calls that stay as they are.                                            *)
LEMMA SeguemTodos ==
    ASSUME proc' = proc
    PROVE  Seguem
BY DEF Seguem, Segue, EmCurso

(* One call returns, or goes on without being activated.                   *)
LEMMA SegueUm ==
    ASSUME NEW p \in Procs,
           \/ Solto(p)
           \/ \E pc : /\ Passou(p, pc) /\ EmCurso(p)
                      /\ pc \in Antes => proc[p].pc \in Antes
    PROVE  Seguem
<1>1. ASSUME NEW q \in Procs, q # p PROVE Segue(q)
  BY <1>1 DEF Solto, Passou, Move, Segue, EmCurso
<1>2. Segue(p)
  BY DEF Solto, Passou, Segue, EmCurso
<1>. QED
  BY <1>1, <1>2 DEF Seguem

(* Requests that stay where they are.                                      *)
LEMMA VindasIguais ==
    ASSUME NaFila' \subseteq NaFila, NosItens' \subseteq NosItens
    PROVE  Vindas
BY DEF Vindas, Pedidas

(* The steps of a call that neither activate its socket nor write to the   *)
(* pipe.                                                                   *)
LEMMA AtivoDaChamada ==
    ASSUME Nucleo, InvAtivo, NEW p \in Procs,
           \/ Setsockopt(p) \/ Tenta(p) \/ TrancaNula(p) \/ TestaCtx(p)
           \/ EnviaNula(p) \/ Keep(p) \/ Getsockopt(p) \/ Recebe(p) \/ Expira(p)
    PROVE  InvAtivo'
<1>1. TypeOK /\ InvLimites
  BY DEF Nucleo
<1>2. SUFFICES ModosIguais /\ fila' = fila /\ itens' = itens /\ Seguem
  BY <1>1, <1>2, VindasIguais, AtivoMantido DEF NaFila, NosItens
<1>3. CASE Setsockopt(p)
  BY <1>1, <1>3, EfeitoSetsockopt, SegueUm
     DEF Quieto, ModosIguais, EstadosIguais, ActivesIguais
<1>4. CASE Tenta(p)
  <2>1. Solto(p) \/ Passou(p, "ctx")
    BY <1>1, <1>4, EfeitoTenta
  <2>2. proc[p].pc = "tranca" /\ sock' = sock /\ fila' = fila /\ itens' = itens
    BY <1>1, <1>4, EfeitoTenta DEF Quieto
  <2>3. Seguem
    BY <2>1, <2>2, SegueUm DEF EmCurso, Antes
  <2>. QED
    BY <2>2, <2>3 DEF ModosIguais
<1>5. CASE TrancaNula(p)
  <2>1. sock' = sock /\ fila' = fila /\ itens' = itens /\ (proc' = proc \/ Solto(p))
    BY <1>1, <1>5, EfeitoTrancaNula DEF Quieto
  <2>. QED
    BY <2>1, SegueUm, SeguemTodos DEF ModosIguais
<1>6. CASE TestaCtx(p)
  <2>1. /\ sock' = sock /\ fila' = fila /\ itens' = itens /\ proc[p].pc = "ctx"
        /\ Solto(p) \/ Passou(p, "envia")
    BY <1>1, <1>6, EfeitoTestaCtx DEF Quieto
  <2>2. Seguem
    BY <2>1, SegueUm DEF EmCurso, Antes
  <2>. QED
    BY <2>1, <2>2 DEF ModosIguais
<1>7. CASE EnviaNula(p)
  <2>1. fila' = fila /\ itens' = itens /\ (proc' = proc \/ Solto(p))
    BY <1>1, <1>7, EfeitoEnviaNula DEF Quieto
  <2>2. \/ sock' = sock
        \/ \A t \in Socks : /\ sock'[t].estado \in {sock[t].estado, "fechado"}
                            /\ sock'[t].active = sock[t].active
    BY <1>1, <1>7, EfeitoEnviaNula DEF ActivesIguais
  <2>. QED
    BY <2>1, <2>2, SegueUm, SeguemTodos DEF ModosIguais
<1>8. CASE Keep(p)
  <2>1. /\ ModosIguais /\ fila' = fila /\ itens' = itens /\ proc[p].pc = "keep"
        /\ Solto(p) \/ Passou(p, "timeo") \/ Passou(p, "espera")
    BY <1>1, <1>8, EfeitoKeep DEF Quieto, ModosIguais, EstadosIguais, ActivesIguais
  <2>2. Seguem
    BY <2>1, SegueUm DEF EmCurso, Antes
  <2>. QED
    BY <2>1, <2>2
<1>9. CASE Getsockopt(p)
  <2>1. /\ sock' = sock /\ fila' = fila /\ itens' = itens /\ proc[p].pc = "timeo"
        /\ Move(p) /\ proc'[p].pc \in {"espera", "morto"} /\ proc'[p].op = proc[p].op
        /\ proc'[p].s = proc[p].s
    BY <1>1, <1>9, EfeitoGetsockopt DEF Quieto, Passou
  <2>2. \A q \in Procs : Segue(q)
    BY <2>1 DEF Move, Segue, EmCurso, Antes
  <2>. QED
    BY <2>1, <2>2 DEF ModosIguais, Seguem
<1>10. CASE Recebe(p)
  BY <1>1, <1>10, EfeitoRecebe, SegueUm DEF ModosIguais
<1>11. CASE Expira(p)
  BY <1>1, <1>11, EfeitoExpira, SegueUm DEF ModosIguais, Quieto
<1>. QED
  BY <1>3, <1>4, <1>5, <1>6, <1>7, <1>8, <1>9, <1>10, <1>11

(* Bind and connect activate a socket only once.                           *)
LEMMA AtivoBind ==
    ASSUME Nucleo, InvAtivo, NEW p \in Procs, Bind(p)
    PROVE  InvAtivo'
<1>1. TypeOK
  BY DEF Nucleo
<1>2. /\ fila' = fila /\ itens' = itens /\ proc[p].pc = "tranca" /\ proc[p].op = "bind"
      /\ Aberto(proc[p].s)
  BY <1>1, EfeitoBind DEF Quieto
<1>3. CASE Solto(p) /\ sock' = sock
  BY <1>1, <1>2, <1>3, SegueUm, VindasIguais, AtivoMantido DEF ModosIguais, NaFila, NosItens
<1>4. CASE ~ (Solto(p) /\ sock' = sock)
  <2>1. /\ Move(p) /\ proc'[p].pc = "ctx" /\ proc'[p].op = "ativa"
        /\ proc'[p].s = proc[p].s
        /\ sock[proc[p].s].active = "PENDING" /\ EstadosIguais
        /\ \A t \in Socks : sock'[t].active = IF t = proc[p].s THEN "ON" ELSE sock[t].active
    BY <1>1, <1>4, EfeitoBind
  <2>2. PICK s \in Socks : s = proc[p].s
    BY <1>1 DEF TypeOK, TipoProc
  <2>3. Pedidas' = Pedidas /\ \A e \in Pedidas : e.s \in Socks
    BY <1>1, <1>2, TiposDosPedidos DEF Pedidas, NaFila, NosItens
  <2>4. \A q \in Procs : proc[q].s \in Socks
    BY <1>1 DEF TypeOK, TipoProc
  <2>5. \A e \in Pedidas : e.tipo = "recv" => e.s # s
    BY <2>1, <2>2 DEF InvAtivo, LeituraPedida
  <2>6. \A q \in Procs : EmCurso(q) /\ proc[q].op \in {"recv", "ativa"} => proc[q].s # s
    BY <2>1, <2>2 DEF InvAtivo, ModoDasChamadas, ModoDe
  <2>7. \A q \in Procs : q # p => proc'[q] = proc[q]
    BY <2>1 DEF Move
  <2>8. LeituraPedida'
    BY <2>1, <2>2, <2>3, <2>5 DEF InvAtivo, LeituraPedida, EstadosIguais
  <2>9. ModoDasChamadas'
    <3>1. ASSUME NEW q \in Procs, EmCurso(q)', proc'[q].op # "term", q # p
          PROVE  ModoDe(q)'
      <4>1. proc'[q] = proc[q] /\ EmCurso(q) /\ proc[q].op # "term"
        BY <2>7, <3>1 DEF EmCurso
      <4>2. ModoDe(q)
        BY <4>1 DEF InvAtivo, ModoDasChamadas
      <4>3. proc[q].op \in {"recv", "ativa"} => proc[q].s # s
        BY <2>6, <4>1
      <4>. QED
        BY <2>1, <2>2, <2>4, <4>1, <4>2, <4>3 DEF ModoDe, EstadosIguais
    <3>2. ModoDe(p)'
      BY <1>2, <2>1, <2>2 DEF ModoDe, EstadosIguais, Aberto
    <3>. QED
      BY <3>1, <3>2 DEF ModoDasChamadas
  <2>10. UmaLeitura'
    BY <2>1, <2>2, <2>3, <2>5 DEF InvAtivo, UmaLeitura
  <2>11. ASSUME NEW q \in Procs, q # p, Ativando(q)'
         PROVE  Ativando(q) /\ proc'[q].s = proc[q].s /\ proc[q].s # s
    <3>1. Ativando(q) /\ proc'[q].s = proc[q].s
      BY <2>7, <2>11 DEF Ativando
    <3>. QED
      BY <2>6, <3>1, AtivandoEmCurso DEF Ativando
  <2>12. LeituraPorPedir'
    BY <2>1, <2>2, <2>3, <2>5, <2>11 DEF InvAtivo, LeituraPorPedir
  <2>13. UmaAtivacao'
    BY <2>1, <2>2, <2>11 DEF InvAtivo, UmaAtivacao
  <2>. QED
    BY <2>8, <2>9, <2>10, <2>12, <2>13 DEF InvAtivo
<1>. QED
  BY <1>3, <1>4

(* A call begins.                                                          *)
LEMMA AtivoChama ==
    ASSUME Nucleo, InvAtivo, NEW p \in Procs, NEW s \in Socks,
           NEW op \in {"bind", "setsockopt", "send", "recv", "close", "term"}, Chama(p, op, s)
    PROVE  InvAtivo'
<1>1. TypeOK
  BY DEF Nucleo
<1>2. /\ UNCHANGED <<fila, itens, sock>>
      /\ Move(p) /\ proc'[p].op = op /\ proc'[p].s = s
      /\ IF op = "term" THEN ctx # "nada" ELSE sock[s].estado # "nada"
      /\ op = "recv" => sock[s].active = "OFF"
  BY <1>1, EfeitoChama
<1>3. Pedidas' = Pedidas
  BY <1>2 DEF Pedidas, NaFila, NosItens
<1>4. \A q \in Procs : q # p => proc'[q] = proc[q]
  BY <1>2 DEF Move
<1>5. \A q \in Procs : Ativando(q)' => q # p /\ Ativando(q)
  BY <1>2, <1>4 DEF Ativando
<1>6. ModoDasChamadas'
  <2>1. ASSUME NEW q \in Procs, q # p, EmCurso(q)', proc'[q].op # "term"
        PROVE  ModoDe(q)'
    <3>1. proc'[q] = proc[q] /\ ModoDe(q)
      BY <1>4, <2>1 DEF InvAtivo, ModoDasChamadas, EmCurso
    <3>. QED
      BY <1>2, <3>1 DEF ModoDe
  <2>2. op # "term" => ModoDe(p)'
    BY <1>2 DEF ModoDe
  <2>. QED
    BY <1>2, <2>1, <2>2 DEF ModoDasChamadas
<1>7. LeituraPedida' /\ UmaLeitura'
  BY <1>2, <1>3 DEF InvAtivo, LeituraPedida, UmaLeitura
<1>8. LeituraPorPedir' /\ UmaAtivacao'
  BY <1>3, <1>4, <1>5 DEF InvAtivo, LeituraPorPedir, UmaAtivacao
<1>. QED
  BY <1>6, <1>7, <1>8 DEF InvAtivo

(* The request of an active socket goes on the pipe when there is none.    *)
LEMMA AtivoEnvia ==
    ASSUME Nucleo, InvAtivo, NEW p \in Procs, Envia(p)
    PROVE  InvAtivo'
<1>1. TypeOK /\ InvEstado
  BY DEF Nucleo
<1>2. /\ itens' = itens /\ sock' = sock /\ proc[p].pc \in {"envia", "cheia"}
      /\ proc[p].op \notin {"bind", "setsockopt"}
      /\ \/ fila' = Append(fila, Pedido(p)) /\ Passou(p, "keep")
         \/ fila' = fila /\ Passou(p, "cheia")
  BY <1>1, EfeitoEnvia
<1>3. EmCurso(p) /\ proc[p].pc \in Antes
  BY <1>2 DEF EmCurso, Antes
<1>4. Seguem
  BY <1>2, <1>3, SegueUm DEF Antes
<1>5. CASE fila' = fila
  BY <1>1, <1>2, <1>4, <1>5, VindasIguais, AtivoMantido DEF ModosIguais, NaFila, NosItens
<1>6. CASE fila' = Append(fila, Pedido(p)) /\ Passou(p, "keep")
  <2>1. PICK e : e = Pedido(p)
    OBVIOUS
  <2>2. /\ e \in Pedidos /\ e.s = proc[p].s
        /\ e.tipo = IF proc[p].op = "ativa" THEN "recv" ELSE proc[p].op
    BY <1>1, <1>2, <2>1, PedidoProperties
  <2>3. NaFila' = NaFila \cup {e}
    BY <1>1, <1>6, <2>1, <2>2, Acrescentado DEF NaFila, TypeOK
  <2>4. Pedidas' = Pedidas \cup {e}
    BY <1>2, <2>3 DEF Pedidas, NosItens
  <2>5. e.tipo = "recv" => proc[p].op \in {"recv", "ativa"}
    BY <2>2
  <2>6. e.tipo # "term" => ModoDe(p)
    BY <1>3, <2>2 DEF InvAtivo, ModoDasChamadas
  <2>7. \A q \in Procs : /\ proc'[q].op = proc[q].op /\ proc'[q].s = proc[q].s
                         /\ EmCurso(q)' => EmCurso(q)
                         /\ Ativando(q)' => Ativando(q) /\ q # p
    <3>1. ~ Ativando(p)'
      BY <1>6 DEF Passou, Ativando, Antes
    <3>. QED
      BY <1>3, <1>6, <3>1 DEF Passou, Move, Ativando, EmCurso
  <2>8. LeituraPedida'
    BY <1>2, <2>2, <2>4, <2>5, <2>6 DEF InvAtivo, LeituraPedida, ModoDe
  <2>9. ModoDasChamadas'
    BY <1>2, <2>7 DEF InvAtivo, ModoDasChamadas, ModoDe
  <2>10. ASSUME e.tipo = "recv", sock[e.s].active = "ON"
         PROVE  Ativando(p)
    BY <1>3, <2>2, <2>5, <2>6, <2>10 DEF ModoDe, Ativando
  <2>11. UmaLeitura'
    <3>1. ASSUME NEW d \in Pedidas, d.tipo = "recv", e.tipo = "recv", d.s = e.s
          PROVE  sock[e.s].active # "ON"
      BY <2>2, <2>10, <3>1 DEF InvAtivo, LeituraPorPedir
    <3>2. UmaLeitura
      BY DEF InvAtivo
    <3>. QED
      BY <1>2, <2>4, <3>1, <3>2 DEF UmaLeitura
  <2>12. LeituraPorPedir'
    <3>1. ASSUME NEW q \in Procs, Ativando(q)', e.tipo = "recv", e.s = proc[q].s
          PROVE  FALSE
      <4>1. Ativando(q) /\ q # p /\ EmCurso(q) /\ proc[q].op # "term"
        BY <2>7, <3>1, AtivandoEmCurso
      <4>2. sock[e.s].active = "ON"
        BY <3>1, <4>1 DEF InvAtivo, ModoDasChamadas, ModoDe, Ativando
      <4>3. Ativando(p)
        BY <2>10, <3>1, <4>2
      <4>. QED
        BY <2>2, <3>1, <4>1, <4>3 DEF InvAtivo, UmaAtivacao
    <3>2. LeituraPorPedir
      BY DEF InvAtivo
    <3>. QED
      BY <2>4, <2>7, <3>1, <3>2 DEF LeituraPorPedir
  <2>13. UmaAtivacao'
    BY <2>7 DEF InvAtivo, UmaAtivacao
  <2>. QED
    BY <2>8, <2>9, <2>11, <2>12, <2>13 DEF InvAtivo
<1>. QED
  BY <1>2, <1>5, <1>6

(* A request that becomes an item is the same request.                     *)
LEMMA VindasDaFila ==
    ASSUME NEW r, Tirou(r), Registou(r)
    PROVE  Vindas
<1>1. PICK e \in TipoItem : /\ e.tipo = r.tipo /\ e.s = r.s /\ e.p = r.p /\ e.ref = r.ref
                            /\ NosItens' = NosItens \cup {Campos(e)}
  BY DEF Registou
<1>2. /\ Campos(e).tipo = r.tipo /\ Campos(e).s = r.s /\ Campos(e).ref = r.ref
      /\ Campos(e).p = r.p
  BY <1>1 DEF Campos
<1>3. NaFila = {r} \cup NaFila'
  BY DEF Tirou
<1>4. \A d \in Pedidas' : d \in Pedidas \/ d = Campos(e)
  BY <1>1, <1>3 DEF Pedidas
<1>5. r \in Pedidas
  BY <1>3 DEF Pedidas
<1>. QED
  BY <1>2, <1>4, <1>5 DEF Vindas

(* The thread only moves or answers requests.                              *)
LEMMA AtivoFio ==
    ASSUME Nucleo, InvAtivo, Fio
    PROVE  InvAtivo'
<1>1. TypeOK /\ InvEstado /\ InvLimites /\ InvRefs /\ Distinta(itens)
  BY DEF Nucleo, InvRefs
<1>2. SUFFICES ModosIguais /\ Vindas /\ proc' = proc
  BY <1>1, <1>2, SeguemTodos, AtivoMantido
<1>3. CASE Poll
  BY <1>1, <1>3, EfeitoPoll, VindasIguais DEF ModosIguais, NaFila, NosItens, Viu
<1>4. CASE ItemAborta \/ ItemBloqueia \/ ZmqTerm
  BY <1>1, <1>4, EfeitoAborta, EfeitoBloqueia, EfeitoZmqTerm, VindasIguais
     DEF ModosIguais, NaFila, NosItens
<1>5. CASE ItemRecv \/ ItemSend \/ ItemExpira
  <2>1. \E i \in DOMAIN itens : Continuou(i) \/ \E v : Atendeu(i, v)
    BY <1>1, <1>5, EfeitoItemRecv, EfeitoItemSend, EfeitoItemExpira
  <2>2. PICK i \in DOMAIN itens : Tratou /\ (Manteve(i) \/ Largou(i))
    BY <2>1 DEF Continuou, Atendeu
  <2>3. fila' = fila /\ proc' = proc
    BY <2>2 DEF Tratou
  <2>4. NosItens' \subseteq NosItens
    BY <2>2 DEF Manteve, Largou
  <2>5. ModosIguais
    BY <2>2 DEF Manteve, Largou, ModosIguais, EstadosIguais, ActivesIguais
  <2>. QED
    BY <2>3, <2>4, <2>5, VindasIguais DEF NaFila
<1>6. CASE Regista
  <2>1. PICK r : /\ Tirou(r) /\ sock' = sock
                 /\ Registou(r) \/ itens' = itens
    BY <1>1, <1>6, EfeitoRegista
  <2>2. proc' = proc /\ ModosIguais /\ NaFila' \subseteq NaFila
    BY <2>1 DEF Tirou, ModosIguais
  <2>. QED
    BY <2>1, <2>2, VindasDaFila, VindasIguais DEF NosItens
<1>7. CASE Close
  <2>1. PICK r : Tirou(r) /\ (UNCHANGED <<itens, sock>> \/ Fechou(r.s))
    BY <1>1, <1>7, EfeitoClose
  <2>2. proc' = proc /\ NaFila' \subseteq NaFila
    BY <2>1 DEF Tirou
  <2>3. NosItens' \subseteq NosItens /\ ModosIguais
    BY <2>1 DEF NosItens, Fechou, ModosIguais, ActivesIguais
  <2>. QED
    BY <2>2, <2>3, VindasIguais
<1>8. CASE PedidoTerm
  <2>1. PICK r : Tirou(r) /\ UNCHANGED <<sock, itens>>
    BY <1>1, <1>8, EfeitoPedidoTerm
  <2>. QED
    BY <2>1, VindasIguais DEF Tirou, ModosIguais, NosItens
<1>9. CASE Term
  <2>1. NaFila' = {} /\ NosItens' = {}
    BY <1>1, <1>9, EfeitoTerm DEF NaFila, NosItens, Vistos, Range
  <2>. QED
    BY <1>1, <1>9, <2>1, EfeitoTerm, VindasIguais DEF ModosIguais, ActivesIguais
<1>. QED
  BY <1>3, <1>4, <1>5, <1>6, <1>7, <1>8, <1>9 DEF Fio

(* Every step.                                                             *)
LEMMA AtivoPasso ==
    ASSUME Nucleo, InvAtivo, [Next]_vars
    PROVE  InvAtivo'
<1>1. TypeOK
  BY DEF Nucleo
<1>2. ASSUME ModosIguais, UNCHANGED <<fila, itens, proc>>
      PROVE  InvAtivo'
  BY <1>1, <1>2, VindasIguais, SeguemTodos, AtivoMantido DEF NaFila, NosItens
<1>3. CASE Context
  BY <1>1, <1>2, <1>3, EfeitoContext DEF ModosIguais
<1>4. ASSUME NEW p \in Procs, NEW s \in Socks, NEW a \in {"OFF", "PENDING"}, Socket(p, s, a)
      PROVE  InvAtivo'
  BY <1>1, <1>2, <1>4, EfeitoSocket DEF ModosIguais
<1>5. ASSUME NEW p \in Procs, NEW s \in Socks,
             NEW op \in {"bind", "setsockopt", "send", "recv", "close"}, Chama(p, op, s)
      PROVE  InvAtivo'
  BY <1>5, AtivoChama
<1>6. ASSUME NEW p \in Procs, Chama(p, "term", Livre.s)
      PROVE  InvAtivo'
  BY <1>6, AtivoChama, LivreProperties
<1>7. ASSUME NEW p \in Procs, DentroDaChamada(p) \/ Expira(p)
      PROVE  InvAtivo'
  BY <1>7, AtivoBind, AtivoDaChamada, AtivoEnvia DEF DentroDaChamada
<1>8. CASE Fio
  BY <1>8, AtivoFio
<1>9. ASSUME NEW s \in Socks, Chega(s) \/ Enche(s)
      PROVE  InvAtivo'
  BY <1>1, <1>2, <1>9, EfeitoChega, EfeitoEnche DEF ModosIguais
<1>10. CASE UNCHANGED vars
  BY <1>2, <1>10 DEF vars, ModosIguais
<1>. QED
  BY <1>3, <1>4, <1>5, <1>6, <1>7, <1>8, <1>9, <1>10 DEF Next
-----------------------------------------------------------------------------
(* Calls that do not cross.                                                *)

\* call q, if it goes on, is still served
Serve(q) == EmCurso(q)' =>
               /\ EmCurso(q) /\ proc'[q].s = proc[q].s
               /\ proc'[q].op = proc[q].op \/ (proc[q].op = "bind" /\ proc'[q].op = "ativa")
               /\ proc'[q].pc \in {"envia", "cheia"} => ctx' = "vivo"
               /\ proc'[q].pc \in Depois /\ proc'[q].op # "term" => ctx' = "vivo"
Servem == \A q \in Procs : Serve(q)

(* While no socket is closed and no request comes.                         *)
LEMMA UsoMantido ==
    ASSUME TypeOK, Uso, Servem, NenhumFecha, NaFila' \subseteq NaFila,
           NosItens' \subseteq NosItens, FechoDepois'
    PROVE  Uso'
<1>1. /\ \A e \in NaFila : e.s \in Socks
      /\ \A e \in NosItens : e.s \in Socks
      /\ \A q \in Procs : proc[q].s \in Socks
  <2>1. \A q \in Procs : proc[q].s \in Socks
    BY DEF TypeOK, TipoProc
  <2>. QED
    BY <2>1, TiposDosPedidos
<1>2. \A t \in Socks : Aberto(t) => Aberto(t)'
  BY DEF NenhumFecha, Aberto
<1>3. Separadas'
  <2>1. Separadas
    BY DEF Uso
  <2>2. \A q \in Procs : EmCurso(q)' => /\ EmCurso(q) /\ proc'[q].s = proc[q].s
                                        /\ proc'[q].op = "term" => proc[q].op = "term"
    BY DEF Servem, Serve
  <2>. QED
    BY <2>1, <2>2 DEF Separadas
<1>4. ASSUME NEW q \in Procs PROVE Servida(q)'
  <2>1. Servida(q) /\ Serve(q)
    BY DEF Uso, Servidas, Servem
  <2>2. EmCurso(q)' /\ proc'[q].op \notin {"close", "term"} => sock'[proc[q].s].estado = "aberto"
    BY <1>1, <1>2, <2>1 DEF Servida, Serve, Aberto
  <2>. QED
    BY <2>1, <2>2 DEF Servida, Serve, Aberto
<1>5. ItensVivos' /\ FilaViva'
  <2>1. ItensVivos /\ FilaViva
    BY DEF Uso
  <2>2. ItensVivos'
    BY <1>1, <1>2, <2>1 DEF ItensVivos, Aberto
  <2>3. FilaViva'
    BY <1>1, <1>2, <2>1 DEF FilaViva, Aberto
  <2>. QED
    BY <2>2, <2>3
<1>. QED
  BY <1>3, <1>4, <1>5 DEF Uso, Servidas

(* Calls that stay as they are, in a context that stays as it is.          *)
LEMMA ServemTodos ==
    ASSUME Uso, proc' = proc, ctx' = ctx
    PROVE  Servem
<1>1. ASSUME NEW q \in Procs PROVE Serve(q)
  <2>1. Servida(q)
    BY DEF Uso, Servidas
  <2>2. EmCurso(q)' => EmCurso(q)
    BY DEF EmCurso
  <2>. QED
    BY <2>1, <2>2 DEF Serve, Servida
<1>. QED
  BY <1>1 DEF Servem

(* One call goes on.                                                       *)
LEMMA ServeUm ==
    ASSUME Uso, NEW p \in Procs, Move(p), ctx' = ctx, Serve(p)
    PROVE  Servem
<1>1. ASSUME NEW q \in Procs, q # p PROVE Serve(q)
  <2>1. Servida(q) /\ proc'[q] = proc[q]
    BY <1>1 DEF Uso, Servidas, Move
  <2>2. EmCurso(q)' => EmCurso(q)
    BY <2>1 DEF EmCurso
  <2>. QED
    BY <2>1, <2>2 DEF Serve, Servida
<1>. QED
  BY <1>1 DEF Servem

(* The steps of a call that write nothing to the pipe.                     *)
LEMMA UsoDaChamada ==
    ASSUME Nucleo, Uso, NEW p \in Procs,
           \/ Bind(p) \/ Setsockopt(p) \/ Tenta(p) \/ TrancaNula(p) \/ TestaCtx(p)
           \/ EnviaNula(p) \/ Keep(p) \/ Getsockopt(p) \/ Recebe(p) \/ Expira(p)
    PROVE  Uso' /\ abuso' = abuso /\ queda' = queda
<1>1. TypeOK /\ InvLimites /\ InvEstado
  BY DEF Nucleo
<1>2. Servida(p) /\ FechoDepois
  BY DEF Uso, Servidas
<1>3. ASSUME EstadosIguais, UNCHANGED <<ctx, fila, itens>>, Move(p), Serve(p)
      PROVE  Uso'
  <2>1. NenhumFecha
    BY <1>3 DEF EstadosIguais, NenhumFecha, Aberto
  <2>2. NaFila' = NaFila /\ NosItens' = NosItens /\ FechoDepois'
    BY <1>2, <1>3 DEF NaFila, NosItens, FechoDepois
  <2>3. Servem
    BY <1>3, ServeUm
  <2>. QED
    BY <1>1, <2>1, <2>2, <2>3, UsoMantido
<1>4. ASSUME Solto(p) PROVE Move(p) /\ Serve(p)
  BY <1>4 DEF Solto, Serve, EmCurso
<1>5. CASE Bind(p)
  <2>1. /\ UNCHANGED <<ctx, fila, itens, queda, abuso>> /\ EstadosIguais
        /\ proc[p].pc = "tranca" /\ proc[p].op = "bind"
        /\ \/ Solto(p)
           \/ /\ Move(p) /\ proc'[p].pc = "ctx" /\ proc'[p].op = "ativa"
              /\ proc'[p].s = proc[p].s
    BY <1>1, <1>5, EfeitoBind DEF Quieto, EstadosIguais
  <2>2. Move(p) /\ Serve(p)
    BY <1>4, <2>1 DEF Serve, EmCurso, Depois
  <2>. QED
    BY <1>3, <2>1, <2>2
<1>6. CASE Setsockopt(p)
  BY <1>1, <1>3, <1>4, <1>6, EfeitoSetsockopt DEF Quieto
<1>7. CASE Tenta(p)
  <2>1. /\ UNCHANGED <<ctx, fila, itens, queda, abuso, sock>>
        /\ proc[p].pc = "tranca" /\ (Solto(p) \/ Passou(p, "ctx"))
    BY <1>1, <1>7, EfeitoTenta DEF Quieto
  <2>2. Move(p) /\ Serve(p)
    BY <1>4, <2>1 DEF Passou, Serve, EmCurso, Depois
  <2>. QED
    BY <1>3, <2>1, <2>2 DEF EstadosIguais
<1>8. CASE TrancaNula(p)
  <2>1. proc[p].pc = "tranca" /\ ~ Aberto(proc[p].s)
    BY <1>1, <1>8, EfeitoTrancaNula
  <2>2. proc[p].op \in {"bind", "setsockopt", "send", "recv"}
    BY <1>1, <2>1 DEF InvEstado
  <2>. QED
    BY <1>2, <2>1, <2>2 DEF Servida, EmCurso
<1>9. CASE TestaCtx(p)
  <2>1. /\ UNCHANGED <<ctx, fila, itens, queda, abuso, sock>>
        /\ proc[p].pc = "ctx"
        /\ Solto(p) \/ (Passou(p, "envia") /\ ctx # "terminado")
    BY <1>1, <1>9, EfeitoTestaCtx DEF Quieto
  <2>2. ctx # "terminado" => ctx = "vivo"
    <3>1. ctx # "nada"
      BY <1>1, <2>1 DEF InvEstado
    <3>. QED
      BY <1>1, <3>1 DEF TypeOK
  <2>3. Move(p) /\ Serve(p)
    BY <1>4, <2>1, <2>2 DEF Passou, Serve, EmCurso, Depois
  <2>. QED
    BY <1>3, <2>1, <2>3 DEF EstadosIguais
<1>10. CASE EnviaNula(p)
  <2>1. proc[p].pc = "envia" /\ ctx = "terminado"
    BY <1>1, <1>10, EfeitoEnviaNula
  <2>. QED
    BY <1>2, <2>1 DEF Servida, EmCurso
<1>11. CASE Keep(p)
  <2>1. /\ UNCHANGED <<ctx, fila, itens, queda, abuso>> /\ EstadosIguais
        /\ proc[p].pc = "keep"
        /\ Solto(p) \/ Passou(p, "timeo") \/ Passou(p, "espera")
    BY <1>1, <1>11, EfeitoKeep DEF Quieto
  <2>2. Move(p) /\ Serve(p)
    BY <1>2, <1>4, <2>1 DEF Passou, Serve, Servida, EmCurso, Depois
  <2>. QED
    BY <1>3, <2>1, <2>2
<1>12. CASE Getsockopt(p)
  <2>1. /\ UNCHANGED <<ctx, fila, itens, queda, abuso, sock>>
        /\ proc[p].pc = "timeo"
        /\ Move(p) /\ proc'[p].pc \in {"espera", "morto"} /\ proc'[p].op = proc[p].op
        /\ proc'[p].s = proc[p].s
    BY <1>1, <1>12, EfeitoGetsockopt DEF Quieto, Passou
  <2>2. Serve(p)
    BY <1>2, <2>1 DEF Serve, Servida, EmCurso, Depois
  <2>. QED
    BY <1>3, <2>1, <2>2 DEF EstadosIguais
<1>13. CASE Recebe(p)
  BY <1>1, <1>3, <1>4, <1>13, EfeitoRecebe DEF EstadosIguais
<1>14. CASE Expira(p)
  BY <1>1, <1>3, <1>4, <1>14, EfeitoExpira DEF EstadosIguais, Quieto
<1>. QED
  BY <1>5, <1>6, <1>7, <1>8, <1>9, <1>10, <1>11, <1>12, <1>13, <1>14

(* A call that crosses no other begins.                                    *)
LEMMA UsoChama ==
    ASSUME Nucleo, Uso, NEW p \in Procs, NEW s \in Socks,
           NEW op \in {"bind", "setsockopt", "send", "recv", "close", "term"}, Chama(p, op, s),
           ~ abuso'
    PROVE  Uso'
<1>1. TypeOK
  BY DEF Nucleo
<1>2. /\ UNCHANGED <<ctx, fila, itens, sock>>
      /\ abuso' = (abuso \/ Cruza(p, op, s))
      /\ Move(p) /\ proc'[p].op = op /\ proc'[p].s = s
      /\ \/ proc'[p].pc = "tranca" /\ op \notin {"close", "term"} /\ Aberto(s)
         \/ proc'[p].pc = "ctx" /\ (op \in {"close", "term"} \/
                                     (op = "send" /\ sock[s].active # "OFF"))
  BY <1>1, EfeitoChama
<1>3. ~ Cruza(p, op, s)
  BY <1>2
<1>4. /\ \A q \in Procs : q # p /\ EmCurso(q) =>
            op # "term" /\ proc[q].op # "term" /\ proc[q].s # s
      /\ op = "send" /\ sock[s].active # "OFF" => Aberto(s)
  BY <1>3 DEF Cruza
<1>5. \A q \in Procs : q # p => proc'[q] = proc[q] /\ (EmCurso(q)' => EmCurso(q))
  BY <1>2 DEF Move, EmCurso
<1>6. Separadas'
  <2>1. Separadas
    BY DEF Uso
  <2>2. ASSUME NEW a \in Procs, NEW b \in Procs, a # b, EmCurso(a)', EmCurso(b)'
        PROVE  proc'[a].s # proc'[b].s /\ proc'[a].op # "term"
    <3>1. CASE a = p
      BY <1>2, <1>4, <1>5, <2>2, <3>1
    <3>2. CASE b = p
      BY <1>2, <1>4, <1>5, <2>2, <3>2
    <3>3. CASE a # p /\ b # p
      BY <1>5, <2>1, <2>2, <3>3 DEF Separadas
    <3>. QED
      BY <3>1, <3>2, <3>3
  <2>. QED
    BY <2>2 DEF Separadas
<1>7. ASSUME NEW q \in Procs PROVE Servida(q)'
  <2>1. CASE q = p
    BY <1>2, <1>4, <2>1 DEF Servida, Aberto, Depois
  <2>2. CASE q # p
    <3>1. Servida(q)
      BY DEF Uso, Servidas
    <3>. QED
      BY <1>2, <1>5, <2>2, <3>1 DEF Servida, Aberto
  <2>. QED
    BY <2>1, <2>2
<1>8. ItensVivos' /\ FilaViva' /\ FechoDepois'
  BY <1>2 DEF Uso, ItensVivos, FilaViva, FechoDepois, NosItens, NaFila, Aberto
<1>. QED
  BY <1>6, <1>7, <1>8 DEF Uso, Servidas

(* A request goes on the pipe: no close of its socket is before it.        *)
LEMMA UsoEnvia ==
    ASSUME Nucleo, InvDono, Uso, NEW p \in Procs, Envia(p)
    PROVE  Uso' /\ abuso' = abuso /\ queda' = queda
<1>1. TypeOK /\ InvEstado /\ InvLimites
  BY DEF Nucleo
<1>2. /\ UNCHANGED <<ctx, itens, sock, abuso, queda>> /\ ctx = "vivo"
      /\ proc[p].pc \in {"envia", "cheia"}
      /\ proc[p].op \notin {"bind", "setsockopt"}
      /\ \/ fila' = Append(fila, Pedido(p)) /\ Passou(p, "keep")
         \/ fila' = fila /\ Passou(p, "cheia")
  BY <1>1, EfeitoEnvia
<1>3. Move(p) /\ Serve(p) /\ EmCurso(p)
  BY <1>2 DEF Passou, Serve, EmCurso
<1>4. Servem
  BY <1>2, <1>3, ServeUm
<1>5. NenhumFecha /\ NosItens' = NosItens
  BY <1>2 DEF NenhumFecha, NosItens, Aberto
<1>6. Servida(p) /\ FechoDepois /\ FilaViva /\ Separadas
  BY DEF Uso, Servidas
<1>7. CASE fila' = fila
  <2>1. NaFila' = NaFila /\ FechoDepois'
    BY <1>6, <1>7 DEF NaFila, FechoDepois
  <2>. QED
    BY <1>1, <1>2, <1>4, <1>5, <2>1, UsoMantido
<1>8. CASE fila' = Append(fila, Pedido(p))
  <2>1. PICK e : e = Pedido(p)
    OBVIOUS
  <2>2. /\ e \in Pedidos /\ e.s = proc[p].s
        /\ e.tipo = IF proc[p].op = "ativa" THEN "recv" ELSE proc[p].op
    BY <1>1, <1>2, <2>1, PedidoProperties
  <2>3. fila \in Seq(Pedidos) /\ fila' = Append(fila, e)
    BY <1>1, <1>8, <2>1 DEF TypeOK
  <2>4. PICK w : w = fila'
    OBVIOUS
  <2>5. /\ DOMAIN w = 1 .. Len(fila) + 1 /\ DOMAIN fila = 1 .. Len(fila)
        /\ Len(fila) \in Nat
        /\ \A i \in 1 .. Len(fila) : w[i] = fila[i]
        /\ w[Len(fila) + 1] = e
        /\ Range(w) = Range(fila) \cup {e}
    BY <2>2, <2>3, <2>4, Acrescentado
  <2>6. e.tipo \in {"send", "recv"} => Aberto(e.s)
    BY <1>3, <1>6, <2>2 DEF Servida
  <2>7. \A d \in NaFila : d.tipo = "close" => d.s # e.s
    <3>. SUFFICES ASSUME NEW d \in NaFila, d.tipo = "close", d.s = e.s PROVE FALSE
      OBVIOUS
    <3>1. Espera(d) /\ d.p \in Procs
      BY <1>1 DEF InvDono, InvLimites
    <3>2. d.p # p /\ EmCurso(d.p) /\ proc[d.p].s = proc[p].s
      BY <1>2, <2>2, <3>1 DEF Espera, EmCurso
    <3>. QED
      BY <1>3, <1>6, <3>1, <3>2 DEF Separadas
  <2>8. \A i \in DOMAIN fila : fila[i] \in NaFila
    BY DEF NaFila, Range
  <2>9. \A i, j \in DOMAIN w :
           i < j /\ w[i].tipo = "close" /\ w[j].s = w[i].s => w[j].tipo \notin {"send", "recv"}
    <3>. SUFFICES ASSUME NEW i \in DOMAIN w, NEW j \in DOMAIN w, i < j, w[i].tipo = "close",
                         w[j].s = w[i].s
                  PROVE  w[j].tipo \notin {"send", "recv"}
      OBVIOUS
    <3>1. i \in DOMAIN fila /\ w[i] = fila[i]
      BY <2>5
    <3>2. CASE j \in DOMAIN fila
      BY <1>6, <2>5, <3>1, <3>2 DEF FechoDepois
    <3>3. CASE j \notin DOMAIN fila
      <4>1. w[j] = e
        BY <2>5, <3>3
      <4>. QED
        BY <2>7, <2>8, <3>1, <4>1
    <3>. QED
      BY <3>2, <3>3
  <2>10. FechoDepois'
    BY <2>4, <2>9 DEF FechoDepois
  <2>11. FilaViva'
    <3>1. NaFila' = NaFila \cup {e}
      BY <2>4, <2>5 DEF NaFila
    <3>. QED
      BY <1>2, <1>6, <2>6, <3>1 DEF FilaViva, Aberto
  <2>12. Separadas' /\ Servidas'
    <3>1. ASSUME NEW q \in Procs PROVE Servida(q)'
      <4>1. Servida(q) /\ Serve(q)
        BY <1>4 DEF Uso, Servidas, Servem
      <4>. QED
        BY <1>2, <4>1 DEF Servida, Serve, Aberto
    <3>2. Separadas'
      BY <1>4, <1>6 DEF Separadas, Servem, Serve
    <3>. QED
      BY <3>1, <3>2 DEF Servidas
  <2>13. ItensVivos'
    BY <1>2, <1>5 DEF Uso, ItensVivos, Aberto
  <2>. QED
    BY <1>2, <2>10, <2>11, <2>12, <2>13 DEF Uso
<1>. QED
  BY <1>2, <1>7, <1>8

(* The order on the pipe when the first request leaves it.                 *)
LEMMA FechoTirou ==
    ASSUME FechoDepois, NEW r, Tirou(r)
    PROVE  /\ FechoDepois'
           /\ r.tipo = "close" => \A e \in NaFila' : e.s = r.s => e.tipo \notin {"send", "recv"}
<1>1. PICK w : w = fila'
  OBVIOUS
<1>2. /\ Len(fila) \in Nat /\ DOMAIN fila = 1 .. Len(fila) /\ 1 \in DOMAIN fila
      /\ DOMAIN w = 1 .. Len(fila) - 1 /\ fila[1] = r
      /\ \A k \in 1 .. Len(fila) - 1 : w[k] = fila[k + 1]
  BY <1>1 DEF Tirou
<1>3. \A k \in DOMAIN w : k + 1 \in DOMAIN fila /\ 1 < k + 1 /\ w[k] = fila[k + 1]
  BY <1>2
<1>4. \A i, j \in DOMAIN w : i < j => i + 1 < j + 1
  BY <1>2
<1>5. FechoDepois'
  BY <1>1, <1>3, <1>4 DEF FechoDepois
<1>6. ASSUME r.tipo = "close", NEW k \in DOMAIN w, w[k].s = r.s
      PROVE  w[k].tipo \notin {"send", "recv"}
  BY <1>2, <1>3, <1>6 DEF FechoDepois
<1>. QED
  BY <1>1, <1>5, <1>6 DEF NaFila, Range

(* The thread.                                                             *)
LEMMA UsoFio ==
    ASSUME Nucleo, InvDono, Uso, Fio
    PROVE  Uso' /\ abuso' = abuso
<1>1. TypeOK /\ InvEstado /\ InvLimites /\ InvRefs /\ Distinta(itens)
  BY DEF Nucleo, InvRefs
<1>2. Separadas /\ Servidas /\ ItensVivos /\ FilaViva /\ FechoDepois
  BY DEF Uso
<1>3. ASSUME EstadosIguais, UNCHANGED <<ctx, proc, fila>>, NosItens' \subseteq NosItens
      PROVE  Uso'
  <2>1. NenhumFecha /\ NaFila' = NaFila /\ FechoDepois'
    BY <1>2, <1>3 DEF EstadosIguais, NenhumFecha, NaFila, FechoDepois, Aberto
  <2>2. Servem
    BY <1>3, ServemTodos
  <2>. QED
    BY <1>1, <1>3, <2>1, <2>2, UsoMantido
<1>4. ASSUME NEW r, Tirou(r), sock' = sock, NosItens' \subseteq NosItens
      PROVE  Uso'
  <2>1. NaFila' \subseteq NaFila /\ proc' = proc /\ ctx' = ctx /\ FechoDepois'
    BY <1>2, <1>4, FechoTirou DEF Tirou
  <2>2. NenhumFecha /\ Servem
    BY <1>4, <2>1, ServemTodos DEF NenhumFecha, Aberto
  <2>. QED
    BY <1>1, <1>4, <2>1, <2>2, UsoMantido
<1>5. CASE Poll
  BY <1>1, <1>3, <1>5, EfeitoPoll DEF EstadosIguais, NosItens, Viu
<1>6. CASE ItemAborta \/ ItemBloqueia \/ ZmqTerm
  BY <1>1, <1>3, <1>6, EfeitoAborta, EfeitoBloqueia, EfeitoZmqTerm DEF EstadosIguais, NosItens
<1>7. CASE ItemRecv \/ ItemSend \/ ItemExpira
  <2>1. \E i \in DOMAIN itens : Continuou(i) \/ \E v : Atendeu(i, v)
    BY <1>1, <1>7, EfeitoItemRecv, EfeitoItemSend, EfeitoItemExpira
  <2>2. PICK i \in DOMAIN itens : Tratou /\ (Manteve(i) \/ Largou(i))
    BY <2>1 DEF Continuou, Atendeu
  <2>3. NosItens' \subseteq NosItens /\ EstadosIguais
    BY <2>2 DEF Manteve, Largou, EstadosIguais
  <2>. QED
    BY <1>3, <2>2, <2>3 DEF Tratou
<1>8. CASE Regista
  <2>1. PICK r : /\ Tirou(r) /\ r.tipo \in {"send", "recv"} /\ sock' = sock
                 /\ Registou(r) \/ itens' = itens
    BY <1>1, <1>8, EfeitoRegista
  <2>2. CASE itens' = itens
    BY <1>4, <2>1, <2>2 DEF NosItens, Tirou
  <2>3. CASE Registou(r)
    <3>1. PICK e \in TipoItem : /\ e.s = r.s /\ (e.zmq <=> Aberto(r.s))
                                /\ NosItens' = NosItens \cup {Campos(e)}
      BY <2>3 DEF Registou
    <3>2. /\ NaFila' \subseteq NaFila /\ proc' = proc /\ ctx' = ctx /\ FechoDepois'
          /\ r \in NaFila
      BY <1>2, <2>1, FechoTirou DEF Tirou
    <3>3. Campos(e).s = r.s /\ Campos(e).zmq = e.zmq
      BY <3>1 DEF Campos
    <3>4. Aberto(r.s)
      BY <1>2, <2>1, <3>2 DEF FilaViva
    <3>5. ItensVivos'
      BY <1>2, <2>1, <3>1, <3>3, <3>4 DEF ItensVivos, Aberto
    <3>6. Separadas' /\ Servidas' /\ FilaViva'
      BY <1>2, <2>1, <3>2 DEF Separadas, Servidas, Servida, EmCurso, FilaViva, Aberto
    <3>. QED
      BY <2>1, <3>2, <3>5, <3>6 DEF Uso, Tirou
  <2>. QED
    BY <2>1, <2>2, <2>3
<1>9. CASE Close
  <2>1. PICK r : Tirou(r) /\ r.tipo = "close" /\ (UNCHANGED <<itens, sock>> \/ Fechou(r.s))
    BY <1>1, <1>9, EfeitoClose
  <2>2. CASE UNCHANGED <<itens, sock>>
    BY <1>4, <2>1, <2>2 DEF NosItens, Tirou
  <2>3. CASE Fechou(r.s)
    <3>1. /\ NaFila' \subseteq NaFila /\ proc' = proc /\ ctx' = ctx /\ FechoDepois'
          /\ r \in NaFila /\ r.p \in Procs
          /\ \A e \in NaFila' : e.s = r.s => e.tipo \notin {"send", "recv"}
      BY <1>2, <2>1, FechoTirou DEF Tirou
    <3>2. Espera(r)
      BY <2>1, <3>1 DEF InvDono
    <3>3. EmCurso(r.p) /\ proc[r.p].op = "close" /\ proc[r.p].s = r.s
      BY <2>1, <3>2 DEF Espera, EmCurso
    <3>4. \A q \in Procs : EmCurso(q) /\ q # r.p => proc[q].s # r.s
      BY <1>2, <3>1, <3>3 DEF Separadas
    <3>5. /\ \A t \in Socks : t # r.s => sock'[t].estado = sock[t].estado
          /\ NosItens' = {e \in NosItens : ~ (e.zmq /\ e.s = r.s)}
      BY <2>3 DEF Fechou
    <3>6. /\ \A e \in NaFila : e.s \in Socks
          /\ \A e \in NosItens : e.s \in Socks
          /\ \A q \in Procs : proc[q].s \in Socks
      <4>1. \A q \in Procs : proc[q].s \in Socks
        BY <1>1 DEF TypeOK, TipoProc
      <4>. QED
        BY <1>1, <4>1, TiposDosPedidos
    <3>7. ItensVivos'
      BY <1>2, <3>5, <3>6 DEF ItensVivos, Aberto
    <3>8. FilaViva'
      BY <1>2, <3>1, <3>5, <3>6 DEF FilaViva, Aberto
    <3>9. ASSUME NEW q \in Procs PROVE Servida(q)'
      <4>1. Servida(q)
        BY <1>2 DEF Servidas
      <4>2. CASE q = r.p
        BY <3>1, <3>3, <4>1, <4>2 DEF Servida, EmCurso
      <4>3. CASE q # r.p
        <5>1. EmCurso(q)' => EmCurso(q) /\ sock'[proc[q].s].estado = sock[proc[q].s].estado
          BY <3>1, <3>4, <3>5, <3>6, <4>3 DEF EmCurso
        <5>. QED
          BY <3>1, <4>1, <5>1 DEF Servida, Aberto
      <4>. QED
        BY <4>2, <4>3
    <3>10. Separadas'
      BY <1>2, <3>1 DEF Separadas, EmCurso
    <3>. QED
      BY <2>1, <3>1, <3>7, <3>8, <3>9, <3>10 DEF Uso, Servidas, Tirou
  <2>. QED
    BY <2>1, <2>2, <2>3
<1>10. CASE PedidoTerm
  <2>1. PICK r : Tirou(r) /\ UNCHANGED <<sock, itens>>
    BY <1>1, <1>10, EfeitoPedidoTerm
  <2>. QED
    BY <1>4, <2>1 DEF NosItens, Tirou
<1>11. CASE Term
  <2>1. /\ NaFila' = {} /\ NosItens' = {} /\ fila' = << >> /\ proc' = proc /\ abuso' = abuso
        /\ fio.pc = "term"
    <3>1. /\ fila' = << >> /\ itens' = << >> /\ proc' = proc /\ abuso' = abuso
          /\ fio.pc = "term"
      BY <1>1, <1>11, EfeitoTerm
    <3>2. NaFila' = {} /\ NosItens' = {}
      BY <3>1 DEF NaFila, NosItens, Vistos, Range
    <3>. QED
      BY <3>1, <3>2
  <2>2. PICK r : r = fio.ped
    OBVIOUS
  <2>3. r.tipo = "term" /\ Espera(r) /\ r.p \in Procs
    BY <1>1, <2>1, <2>2 DEF InvDono, InvLimites
  <2>4. EmCurso(r.p) /\ proc[r.p].op = "term" /\ proc[r.p].pc \in {"keep", "espera"}
    BY <2>3 DEF Espera, EmCurso
  <2>5. \A q \in Procs : EmCurso(q) => q = r.p
    BY <1>2, <2>3, <2>4 DEF Separadas
  <2>6. \A q \in Procs : EmCurso(q)' => q = r.p
    BY <2>1, <2>5 DEF EmCurso
  <2>7. Separadas'
    BY <2>6 DEF Separadas
  <2>8. ASSUME NEW q \in Procs PROVE Servida(q)'
    BY <2>1, <2>4, <2>6 DEF Servida
  <2>9. ItensVivos' /\ FilaViva' /\ FechoDepois'
    BY <2>1 DEF ItensVivos, FilaViva, FechoDepois
  <2>. QED
    BY <2>1, <2>7, <2>8, <2>9 DEF Uso, Servidas
<1>. QED
  BY <1>5, <1>6, <1>7, <1>8, <1>9, <1>10, <1>11 DEF Fio

(* Neither crossing calls nor calls that gave up are forgotten.            *)
LEMMA HistoriaFica ==
    ASSUME Nucleo, [Next]_vars
    PROVE  (abuso => abuso') /\ (expirou => expirou')
<1>1. TypeOK /\ InvEstado /\ InvLimites /\ InvRefs /\ Distinta(itens)
  BY DEF Nucleo, InvRefs
<1>2. CASE Context
  BY <1>1, <1>2, EfeitoContext
<1>3. ASSUME NEW p \in Procs, NEW s \in Socks, NEW a \in {"OFF", "PENDING"}, Socket(p, s, a)
      PROVE  (abuso => abuso') /\ (expirou => expirou')
  BY <1>1, <1>3, EfeitoSocket
<1>4. ASSUME NEW p \in Procs, NEW s \in Socks,
             NEW op \in {"bind", "setsockopt", "send", "recv", "close", "term"}, Chama(p, op, s)
      PROVE  (abuso => abuso') /\ (expirou => expirou')
  BY <1>1, <1>4, EfeitoChama
<1>5. ASSUME NEW p \in Procs, DentroDaChamada(p)
      PROVE  (abuso => abuso') /\ (expirou => expirou')
  BY <1>1, <1>5, EfeitoBind, EfeitoSetsockopt, EfeitoTenta, EfeitoTrancaNula, EfeitoTestaCtx,
     EfeitoEnvia, EfeitoEnviaNula, EfeitoKeep, EfeitoGetsockopt, EfeitoRecebe
     DEF DentroDaChamada, Quieto
<1>6. ASSUME NEW p \in Procs, Expira(p)
      PROVE  (abuso => abuso') /\ (expirou => expirou')
  BY <1>1, <1>6, EfeitoExpira DEF Quieto
<1>7. CASE Fio
  <2>1. CASE ItemRecv \/ ItemSend \/ ItemExpira
    <3>1. Tratou
      BY <1>1, <2>1, EfeitoItemRecv, EfeitoItemSend, EfeitoItemExpira DEF Continuou, Atendeu
    <3>. QED
      BY <3>1 DEF Tratou
  <2>2. CASE Regista \/ Close \/ PedidoTerm
    <3>1. \E r : Tirou(r)
      BY <1>1, <2>2, EfeitoRegista, EfeitoClose, EfeitoPedidoTerm
    <3>. QED
      BY <3>1 DEF Tirou
  <2>. QED
    BY <1>1, <1>7, <2>1, <2>2, EfeitoPoll, EfeitoAborta, EfeitoBloqueia, EfeitoTerm,
       EfeitoZmqTerm DEF Fio
<1>8. ASSUME NEW s \in Socks, Chega(s) \/ Enche(s)
      PROVE  (abuso => abuso') /\ (expirou => expirou')
  BY <1>1, <1>8, EfeitoChega, EfeitoEnche
<1>9. CASE UNCHANGED vars
  BY <1>9 DEF vars
<1>. QED
  BY <1>2, <1>3, <1>4, <1>5, <1>6, <1>7, <1>8, <1>9, LivreProperties DEF Next

(* Every step.                                                             *)
LEMMA UsoPasso ==
    ASSUME Nucleo, InvDono, InvUso, [Next]_vars
    PROVE  InvUso'
<1>1. TypeOK
  BY DEF Nucleo
<1>2. SUFFICES ASSUME ~ abuso' PROVE Uso'
  BY DEF InvUso
<1>3. Uso
  BY <1>2, HistoriaFica DEF InvUso
<1>4. FechoDepois
  BY <1>3 DEF Uso
<1>5. ASSUME NenhumFecha, UNCHANGED <<fila, itens, proc>>, ctx' = ctx \/ ctx' = "vivo"
      PROVE  Uso'
  <2>1. NaFila' = NaFila /\ NosItens' = NosItens /\ FechoDepois'
    BY <1>4, <1>5 DEF NaFila, NosItens, FechoDepois
  <2>2. ASSUME NEW q \in Procs PROVE Serve(q)
    <3>1. Servida(q) /\ (EmCurso(q)' => EmCurso(q))
      BY <1>3, <1>5 DEF Uso, Servidas, EmCurso
    <3>. QED
      BY <1>5, <3>1 DEF Serve, Servida
  <2>. QED
    BY <1>1, <1>3, <1>5, <2>1, <2>2, UsoMantido DEF Servem
<1>6. CASE Context
  BY <1>1, <1>5, <1>6, EfeitoContext DEF NenhumFecha, Aberto
<1>7. ASSUME NEW p \in Procs, NEW s \in Socks, NEW a \in {"OFF", "PENDING"}, Socket(p, s, a)
      PROVE  Uso'
  <2>1. NenhumFecha
    BY <1>1, <1>7, EfeitoSocket DEF NenhumFecha, Aberto
  <2>. QED
    BY <1>1, <1>5, <1>7, <2>1, EfeitoSocket
<1>8. ASSUME NEW p \in Procs, NEW s \in Socks,
             NEW op \in {"bind", "setsockopt", "send", "recv", "close", "term"}, Chama(p, op, s)
      PROVE  Uso'
  BY <1>2, <1>3, <1>8, UsoChama
<1>9. ASSUME NEW p \in Procs, DentroDaChamada(p) \/ Expira(p)
      PROVE  Uso'
  BY <1>3, <1>9, UsoDaChamada, UsoEnvia DEF DentroDaChamada
<1>10. CASE Fio
  BY <1>3, <1>10, UsoFio
<1>11. ASSUME NEW s \in Socks, Chega(s) \/ Enche(s)
       PROVE  Uso'
  BY <1>1, <1>5, <1>11, EfeitoChega, EfeitoEnche DEF NenhumFecha, Aberto
<1>12. CASE UNCHANGED vars
  BY <1>5, <1>12 DEF vars, NenhumFecha, Aberto
<1>. QED
  BY <1>6, <1>7, <1>8, <1>9, <1>10, <1>11, <1>12, LivreProperties DEF Next

(* When the virtual machine fell nothing happens any more.                 *)
LEMMA SemVida ==
    ASSUME queda # "nenhuma", [Next]_vars
    PROVE  UNCHANGED vars
<1>1. ~ Vivo
  BY DEF Vivo
<1>2. ~ Context
  BY <1>1 DEF Context
<1>3. \A p, s, a : ~ Socket(p, s, a) /\ ~ Chama(p, a, s)
  BY <1>1 DEF Socket, Chama
<1>4. \A p, op : ~ NaSecao(p, op)
  BY <1>1 DEF NaSecao
<1>5. \A p : /\ ~ Bind(p) /\ ~ Setsockopt(p) /\ ~ Tenta(p)
  BY <1>4 DEF Bind, Setsockopt, Tenta
<1>6. \A p : /\ ~ TrancaNula(p) /\ ~ TestaCtx(p) /\ ~ Envia(p) /\ ~ EnviaNula(p)
             /\ ~ Keep(p) /\ ~ Getsockopt(p) /\ ~ Recebe(p) /\ ~ Expira(p)
  BY <1>1 DEF TrancaNula, TestaCtx, Envia, EnviaNula, Keep, Getsockopt, Recebe, Expira
<1>7. /\ ~ Poll /\ ~ ItemAborta /\ ~ ItemBloqueia /\ ~ ItemRecv /\ ~ ItemSend /\ ~ ItemExpira
      /\ ~ Term /\ ~ ZmqTerm
  BY <1>1 DEF Poll, ItemAborta, ItemBloqueia, ItemRecv, ItemSend, ItemExpira, Term, ZmqTerm
<1>8. ~ Regista /\ ~ Close /\ ~ PedidoTerm
  BY <1>1 DEF DaFila, Regista, Close, PedidoTerm
<1>9. \A s : ~ Chega(s) /\ ~ Enche(s)
  BY <1>1 DEF Chega, Enche
<1>10. ~ Fio /\ \A p : ~ DentroDaChamada(p)
  BY <1>5, <1>6, <1>7, <1>8 DEF Fio, DentroDaChamada
<1>. QED
  BY <1>2, <1>3, <1>6, <1>9, <1>10 DEF Next

(* What makes it fall.                                                     *)
LEMMA QuedaPasso ==
    ASSUME Nucleo, InvDono, InvUso, QuedaExplicada, [Next]_vars
    PROVE  QuedaExplicada'
<1>1. TypeOK /\ InvEstado /\ InvLimites /\ InvRefs /\ Distinta(itens) /\ InvAbertos
  BY DEF Nucleo, InvRefs
<1>2. CASE queda # "nenhuma"
  BY <1>2, SemVida DEF vars, QuedaExplicada
<1>3. CASE queda = "nenhuma"
  <2>1. SUFFICES ASSUME ~ abuso' PROVE queda' = queda \/ Len(itens') + 1 = MaxPedidos
    BY <1>3 DEF QuedaExplicada
  <2>2. Uso
    BY <2>1, HistoriaFica DEF InvUso
  <2>3. \A i \in DOMAIN itens : Campos(itens[i]) \in NosItens
    BY DEF NosItens, Vistos
  <2>4. \A i \in DOMAIN itens : Aberto(itens[i].s)
    BY <2>2, <2>3 DEF Uso, ItensVivos, Campos
  <2>5. CASE Context
    BY <1>1, <2>5, EfeitoContext
  <2>6. ASSUME NEW p \in Procs, NEW s \in Socks, NEW a \in {"OFF", "PENDING"}, Socket(p, s, a)
        PROVE  queda' = queda
    BY <1>1, <2>1, <2>6, EfeitoSocket
  <2>7. ASSUME NEW p \in Procs, NEW s \in Socks,
               NEW op \in {"bind", "setsockopt", "send", "recv", "close", "term"},
               Chama(p, op, s)
        PROVE  queda' = queda
    BY <1>1, <2>7, EfeitoChama
  <2>8. ASSUME NEW p \in Procs, DentroDaChamada(p) \/ Expira(p)
        PROVE  queda' = queda
    BY <2>2, <2>8, UsoDaChamada, UsoEnvia DEF DentroDaChamada
  <2>9. CASE Poll
    BY <1>1, <2>4, <2>9, EfeitoPoll
  <2>10. CASE ItemAborta
    BY <1>1, <2>4, <2>10, EfeitoAborta, ItemDaVez
  <2>11. CASE ItemRecv \/ ItemSend \/ ItemExpira
    <3>1. Tratou
      BY <1>1, <2>11, EfeitoItemRecv, EfeitoItemSend, EfeitoItemExpira DEF Continuou, Atendeu
    <3>. QED
      BY <3>1 DEF Tratou
  <2>12. CASE Regista
    BY <1>1, <2>12, EfeitoRegista
  <2>13. CASE ItemBloqueia \/ Close \/ PedidoTerm \/ Term \/ ZmqTerm
    BY <1>1, <2>13, EfeitoBloqueia, EfeitoClose, EfeitoPedidoTerm, EfeitoTerm, EfeitoZmqTerm
  <2>14. ASSUME NEW s \in Socks, Chega(s) \/ Enche(s)
         PROVE  queda' = queda
    BY <1>1, <2>14, EfeitoChega, EfeitoEnche
  <2>15. CASE UNCHANGED vars
    BY <2>15 DEF vars
  <2>. QED
    BY <2>5, <2>6, <2>7, <2>8, <2>9, <2>10, <2>11, <2>12, <2>13, <2>14, <2>15,
       LivreProperties DEF Next, Fio
<1>. QED
  BY <1>2, <1>3
-----------------------------------------------------------------------------
(* Readers that do not give up.                                            *)

\* call q goes on waiting, its request is gone, or its socket is active
Aguarda(q) == proc[q].pc \in Depois =>
                 \/ /\ proc'[q].pc \in Depois /\ proc'[q].ref = proc[q].ref
                    /\ proc'[q].s = proc[q].s
                 \/ SemPedido(proc[q].ref)
                 \/ sock[proc[q].s].active = "ON"
Aguardam == \A q \in Procs : Aguarda(q)
AtivosFicam == \A t \in Socks : sock[t].estado # "nada" /\ sock[t].active = "ON" =>
                  sock'[t].active = "ON"

(* The reader of each request while no request comes.                      *)
LEMMA LeitoresMantidos ==
    ASSUME TypeOK, InvLimites, InvAtivo, Leitores, AtivosFicam, Vindas, Aguardam
    PROVE  Leitores'
<1>. SUFFICES ASSUME NEW e \in Pedidas', e.tipo = "recv" PROVE LeitorDe(e)'
  BY DEF Leitores
<1>1. PICK d \in Pedidas : e.tipo = d.tipo /\ e.s = d.s /\ e.ref = d.ref /\ e.p = d.p
  BY DEF Vindas
<1>2. d.s \in Socks /\ d.p \in Procs
  BY TiposDosPedidos DEF Pedidas, InvLimites
<1>3. LeitorDe(d) /\ sock[d.s].estado # "nada"
  BY <1>1 DEF Leitores, InvAtivo, LeituraPedida
<1>4. sock[d.s].active = "ON" => sock'[d.s].active = "ON"
  BY <1>2, <1>3 DEF AtivosFicam
<1>5. ~ SemPedido(d.ref)
  BY DEF Pedidas, SemPedido
<1>6. Aguarda(d.p)
  BY <1>2 DEF Aguardam
<1>. QED
  BY <1>1, <1>3, <1>4, <1>5, <1>6 DEF LeitorDe, Aguarda

\* no message that was there is gone
MensagensFicam == \A t \in Socks : inbox[t] # << >> => inbox'[t] # << >>

(* What was polled is still so.                                            *)
LEMMA ProntasMantidas ==
    ASSUME TypeOK, Prontas, MensagensFicam,
           \A k \in DOMAIN itens' : \E j \in DOMAIN itens :
              itens'[k].tipo = itens[j].tipo /\ itens'[k].s = itens[j].s
              /\ (itens'[k].rev => itens[j].rev)
    PROVE  Prontas'
<1>1. \A j \in DOMAIN itens : itens[j].s \in Socks
  <2>1. itens \in Seq(TipoItem)
    BY DEF TypeOK
  <2>2. \A j \in DOMAIN itens : itens[j] \in TipoItem
    BY <2>1
  <2>. QED
    BY <2>2 DEF TipoItem
<1>. QED
  BY <1>1 DEF Prontas, MensagensFicam

(* The thread stays where it is.                                           *)
LEMMA BloqueioMantido ==
    ASSUME SemBloqueio, fio' = fio, itens' = itens
    PROVE  SemBloqueio'
<1>1. Vez' = Vez
  BY DEF Vez
<1>. QED
  BY <1>1 DEF SemBloqueio

(* Two reads of one socket are the same read.                              *)
LEMMA UmLeitor ==
    ASSUME Nucleo, InvAtivo, Uso, Leitores, NEW e \in Pedidas, NEW d \in Pedidas,
           e.tipo = "recv", d.tipo = "recv", e.s = d.s
    PROVE  e.ref = d.ref
<1>1. LeitorDe(e) /\ LeitorDe(d)
  BY DEF Leitores
<1>2. CASE sock[e.s].active = "ON"
  BY <1>2 DEF InvAtivo, UmaLeitura
<1>3. CASE sock[e.s].active # "ON"
  <2>1. /\ proc[e.p].ref = e.ref /\ proc[e.p].s = e.s /\ EmCurso(e.p)
        /\ proc[d.p].ref = d.ref /\ proc[d.p].s = d.s /\ EmCurso(d.p)
    BY <1>1, <1>3 DEF LeitorDe, EmCurso, Depois
  <2>2. e.p \in Procs /\ d.p \in Procs
    BY TiposDosPedidos DEF Nucleo, Pedidas, InvLimites
  <2>3. e.p = d.p
    BY <2>1, <2>2 DEF Uso, Separadas
  <2>. QED
    BY <2>1, <2>3
<1>. QED
  BY <1>2, <1>3

(* A call that reads its socket itself has no other reader beside it.      *)
LEMMA LeitorSozinho ==
    ASSUME Nucleo, InvAtivo, Uso, Leitores, NEW p \in Procs, proc[p].pc = "tranca",
           proc[p].op = "recv", NEW e \in Pedidas, e.tipo = "recv"
    PROVE  e.s # proc[p].s
<1>. SUFFICES ASSUME e.s = proc[p].s PROVE FALSE
  OBVIOUS
<1>1. EmCurso(p)
  BY DEF EmCurso
<1>2. sock[e.s].active = "OFF"
  BY <1>1 DEF InvAtivo, ModoDasChamadas, ModoDe
<1>3. proc[e.p].s = e.s /\ EmCurso(e.p) /\ e.p # p
  BY <1>2 DEF Leitores, LeitorDe, EmCurso, Depois
<1>4. e.p \in Procs
  BY TiposDosPedidos DEF Nucleo, Pedidas, InvLimites
<1>. QED
  BY <1>1, <1>3, <1>4 DEF Uso, Separadas

(* One call goes on.                                                       *)
LEMMA AguardaUm ==
    ASSUME NEW p \in Procs, Move(p), Aguarda(p)
    PROVE  Aguardam
<1>1. ASSUME NEW q \in Procs, q # p PROVE Aguarda(q)
  BY <1>1 DEF Move, Aguarda
<1>. QED
  BY <1>1 DEF Aguardam

(* The steps of a call that neither activate its socket nor write to the   *)
(* pipe.                                                                   *)
LEMMA LeituraDaChamada ==
    ASSUME Nucleo, InvDono, InvAtivo, Uso, Leitura, NEW p \in Procs,
           \/ Setsockopt(p) \/ Tenta(p) \/ TrancaNula(p) \/ TestaCtx(p)
           \/ EnviaNula(p) \/ Keep(p) \/ Getsockopt(p) \/ Recebe(p)
    PROVE  Leitura'
<1>1. TypeOK /\ InvLimites /\ InvEstado
  BY DEF Nucleo
<1>2. Leitores /\ Prontas /\ SemBloqueio /\ Servida(p)
  BY DEF Leitura, Uso, Servidas
<1>3. ASSUME ModosIguais, UNCHANGED <<fila, itens, fio>>, Aguardam
      PROVE  Leitores' /\ SemBloqueio'
  <2>1. Vindas /\ AtivosFicam
    BY <1>3, VindasIguais DEF NaFila, NosItens, ModosIguais, AtivosFicam
  <2>. QED
    BY <1>1, <1>2, <1>3, <2>1, LeitoresMantidos, BloqueioMantido
<1>4. ASSUME UNCHANGED <<itens, inbox>>
      PROVE  Prontas'
  BY <1>2, <1>4 DEF Prontas
<1>5. ASSUME Solto(p), proc[p].pc \notin Depois PROVE Aguardam
  BY <1>5, AguardaUm DEF Solto, Aguarda
<1>6. CASE Setsockopt(p)
  <2>1. /\ UNCHANGED <<fila, itens, fio, inbox>> /\ ModosIguais /\ Solto(p)
        /\ proc[p].pc \notin Depois
    BY <1>1, <1>6, EfeitoSetsockopt
       DEF Quieto, ModosIguais, EstadosIguais, ActivesIguais, Depois
  <2>. QED
    BY <1>3, <1>4, <1>5, <2>1 DEF Leitura
<1>7. CASE Tenta(p)
  <2>1. /\ UNCHANGED <<fila, itens, fio>> /\ sock' = sock /\ proc[p].pc = "tranca"
        /\ Solto(p) \/ Passou(p, "ctx")
    BY <1>1, <1>7, EfeitoTenta DEF Quieto
  <2>2. ModosIguais
    BY <2>1 DEF ModosIguais
  <2>3. Aguardam
    BY <2>1, AguardaUm DEF Solto, Passou, Aguarda, Depois
  <2>4. Leitores' /\ SemBloqueio'
    BY <1>3, <2>1, <2>2, <2>3
  <2>5. CASE inbox' = inbox
    BY <1>4, <2>1, <2>4, <2>5 DEF Leitura
  <2>6. CASE inbox' # inbox
    <3>1. proc[p].op = "recv" /\ inbox' = [inbox EXCEPT ![proc[p].s] = Tail(@)]
      BY <1>1, <1>7, <2>6, EfeitoTenta
    <3>2. \A t \in Socks : t # proc[p].s => inbox'[t] = inbox[t]
      BY <1>1, <3>1 DEF TypeOK
    <3>3. ASSUME NEW i \in DOMAIN itens, itens[i].tipo = "recv", itens[i].rev
          PROVE  inbox'[itens[i].s] # << >>
      <4>1. PICK e \in Pedidas : e = Campos(itens[i])
        BY DEF Pedidas, NosItens, Vistos
      <4>2. e.tipo = "recv" /\ e.s = itens[i].s /\ e.s \in Socks
        BY <1>1, <3>3, <4>1, TiposDosPedidos DEF Campos, Pedidas
      <4>3. e.s # proc[p].s
        BY <1>2, <2>1, <3>1, <4>2, LeitorSozinho
      <4>. QED
        BY <1>2, <3>2, <3>3, <4>2, <4>3 DEF Prontas
    <3>4. Prontas'
      BY <2>1, <3>3 DEF Prontas
    <3>. QED
      BY <2>4, <3>4 DEF Leitura
  <2>. QED
    BY <2>5, <2>6
<1>8. CASE TrancaNula(p)
  <2>1. /\ UNCHANGED <<fila, itens, fio, inbox>> /\ sock' = sock /\ proc[p].pc = "tranca"
        /\ Solto(p) \/ proc' = proc
    BY <1>1, <1>8, EfeitoTrancaNula DEF Quieto
  <2>2. ModosIguais
    BY <2>1 DEF ModosIguais
  <2>3. Aguardam
    BY <1>5, <2>1 DEF Aguardam, Aguarda, Depois
  <2>. QED
    BY <1>3, <1>4, <2>1, <2>2, <2>3 DEF Leitura
<1>9. CASE TestaCtx(p)
  <2>1. /\ UNCHANGED <<fila, itens, fio, inbox>> /\ sock' = sock /\ proc[p].pc = "ctx"
        /\ Solto(p) \/ Passou(p, "envia")
    BY <1>1, <1>9, EfeitoTestaCtx DEF Quieto
  <2>2. ModosIguais /\ Aguardam
    BY <2>1, AguardaUm DEF Solto, Passou, Aguarda, Depois, ModosIguais
  <2>. QED
    BY <1>3, <1>4, <2>1, <2>2 DEF Leitura
<1>10. CASE EnviaNula(p)
  <2>1. proc[p].pc = "envia" /\ ctx = "terminado"
    BY <1>1, <1>10, EfeitoEnviaNula
  <2>. QED
    BY <1>2, <2>1 DEF Servida, EmCurso
<1>11. CASE Keep(p)
  <2>1. /\ UNCHANGED <<fila, itens, fio, inbox>> /\ ModosIguais /\ proc[p].pc = "keep"
        /\ \/ Solto(p) /\ proc[p].op = "ativa"
           \/ Passou(p, "timeo") \/ Passou(p, "espera")
    BY <1>1, <1>11, EfeitoKeep DEF Quieto, ModosIguais, EstadosIguais, ActivesIguais
  <2>2. proc[p].op = "ativa" => sock[proc[p].s].active = "ON"
    <3>1. EmCurso(p)
      BY <2>1 DEF EmCurso
    <3>. QED
      BY <3>1 DEF InvAtivo, ModoDasChamadas, ModoDe
  <2>3. Aguardam
    BY <2>1, <2>2, AguardaUm DEF Solto, Passou, Aguarda, Depois
  <2>. QED
    BY <1>3, <1>4, <2>1, <2>3 DEF Leitura
<1>12. CASE Getsockopt(p)
  <2>1. /\ UNCHANGED <<fila, itens, fio, inbox>> /\ sock' = sock /\ proc[p].pc = "timeo"
        /\ \/ /\ Move(p) /\ proc'[p].pc = "espera"
              /\ proc'[p].s = proc[p].s /\ proc'[p].ref = proc[p].ref
           \/ Passou(p, "morto") /\ ~ (Aberto(proc[p].s) /\ ~ Terminada)
    BY <1>1, <1>12, EfeitoGetsockopt DEF Quieto
  <2>2. Aberto(proc[p].s) /\ ~ Terminada
    <3>1. proc[p].op \in {"send", "recv"}
      BY <2>1 DEF InvDono, Regras
    <3>. QED
      BY <1>1, <1>2, <2>1, <3>1 DEF Servida, EmCurso, Depois, InvEstado
  <2>3. ModosIguais
    BY <2>1 DEF ModosIguais
  <2>4. Aguardam
    BY <2>1, <2>2, AguardaUm DEF Passou, Aguarda, Depois
  <2>. QED
    BY <1>3, <1>4, <2>1, <2>3, <2>4 DEF Leitura
<1>13. CASE Recebe(p)
  <2>1. UNCHANGED <<fila, itens, fio, inbox>> /\ ModosIguais /\ Solto(p)
    BY <1>1, <1>13, EfeitoRecebe DEF ModosIguais
  <2>2. SemPedido(proc[p].ref)
    BY <1>1, <1>13, EfeitoRecebe, RespondidoSemPedido
  <2>3. Aguardam
    BY <2>1, <2>2, AguardaUm DEF Solto, Aguarda
  <2>. QED
    BY <1>3, <1>4, <2>1, <2>3 DEF Leitura
<1>. QED
  BY <1>6, <1>7, <1>8, <1>9, <1>10, <1>11, <1>12, <1>13

(* A call begins, or a socket is activated.                                *)
LEMMA LeituraChama ==
    ASSUME Nucleo, InvAtivo, Leitura, NEW p \in Procs,
           \/ Bind(p)
           \/ \E s \in Socks, op \in {"bind", "setsockopt", "send", "recv", "close", "term"} :
                 Chama(p, op, s)
    PROVE  Leitura'
<1>1. TypeOK /\ InvLimites
  BY DEF Nucleo
<1>2. /\ UNCHANGED <<fila, itens, fio, inbox>> /\ Move(p) /\ AtivosFicam
      /\ proc[p].pc \notin Depois
  <2>1. CASE Bind(p)
    <3>1. /\ UNCHANGED <<fila, itens, fio, inbox>> /\ Move(p)
          /\ proc[p].pc \notin Depois
      BY <1>1, <2>1, EfeitoBind DEF Quieto, Solto, Depois
    <3>2. \/ sock' = sock
          \/ \A t \in Socks : sock'[t].active \in {"ON", sock[t].active}
      BY <1>1, <2>1, EfeitoBind
    <3>. QED
      BY <3>1, <3>2 DEF AtivosFicam
  <2>2. ASSUME NEW s \in Socks,
               NEW op \in {"bind", "setsockopt", "send", "recv", "close", "term"},
               Chama(p, op, s)
        PROVE  /\ UNCHANGED <<fila, itens, fio, inbox>> /\ Move(p) /\ AtivosFicam
               /\ proc[p].pc \notin Depois
    BY <1>1, <2>2, EfeitoChama DEF AtivosFicam, Depois
  <2>. QED
    BY <2>1, <2>2
<1>3. Aguardam
  BY <1>2, AguardaUm DEF Aguarda
<1>4. Vindas
  BY <1>2, VindasIguais DEF NaFila, NosItens
<1>5. Leitores'
  BY <1>1, <1>2, <1>3, <1>4, LeitoresMantidos DEF Leitura
<1>6. Prontas' /\ SemBloqueio'
  <2>1. Prontas'
    BY <1>2 DEF Leitura, Prontas
  <2>. QED
    BY <1>2, <2>1, BloqueioMantido DEF Leitura
<1>. QED
  BY <1>5, <1>6 DEF Leitura

(* A request goes on the pipe: its caller waits, or its socket is active.  *)
LEMMA LeituraEnvia ==
    ASSUME Nucleo, InvAtivo, Leitura, NEW p \in Procs, Envia(p)
    PROVE  Leitura'
<1>1. TypeOK /\ InvEstado /\ InvLimites
  BY DEF Nucleo
<1>2. /\ UNCHANGED <<itens, sock, inbox, fio>> /\ proc[p].pc \in {"envia", "cheia"}
      /\ proc[p].op \notin {"bind", "setsockopt"}
      /\ \/ fila' = Append(fila, Pedido(p)) /\ Passou(p, "keep")
         \/ fila' = fila /\ Passou(p, "cheia")
  BY <1>1, EfeitoEnvia
<1>3. Move(p)
  BY <1>2 DEF Passou
<1>4. Prontas' /\ SemBloqueio'
  <2>1. Prontas'
    BY <1>2 DEF Leitura, Prontas
  <2>. QED
    BY <1>2, <2>1, BloqueioMantido DEF Leitura
<1>5. CASE fila' = fila
  <2>1. Aguardam
    BY <1>2, <1>3, AguardaUm DEF Aguarda, Depois
  <2>2. Vindas
    BY <1>2, <1>5, VindasIguais DEF NaFila, NosItens
  <2>3. Leitores'
    BY <1>1, <1>2, <2>1, <2>2, LeitoresMantidos DEF Leitura, AtivosFicam
  <2>. QED
    BY <1>4, <2>3 DEF Leitura
<1>6. CASE fila' = Append(fila, Pedido(p)) /\ Passou(p, "keep")
  <2>1. PICK e : e = Pedido(p)
    OBVIOUS
  <2>2. /\ e \in Pedidos /\ e.s = proc[p].s /\ e.p = p /\ e.ref = proc[p].ref
    BY <1>1, <1>2, <2>1, PedidoProperties
  <2>3. NaFila' = NaFila \cup {e}
    BY <1>1, <1>6, <2>1, <2>2, Acrescentado DEF NaFila, TypeOK
  <2>4. Pedidas' = Pedidas \cup {e}
    BY <1>2, <2>3 DEF Pedidas, NosItens
  <2>5. LeitorDe(e)'
    BY <1>6, <2>2 DEF LeitorDe, Passou, Depois
  <2>6. ASSUME NEW d \in Pedidas, d.tipo = "recv" PROVE LeitorDe(d)'
    <3>1. LeitorDe(d)
      BY <2>6 DEF Leitura, Leitores
    <3>2. d.p \in Procs
      BY <1>1, TiposDosPedidos DEF Pedidas, InvLimites
    <3>3. proc[d.p].pc \in Depois => proc'[d.p] = proc[d.p]
      BY <1>2, <1>3, <3>2 DEF Move, Depois
    <3>. QED
      BY <1>2, <3>1, <3>3 DEF LeitorDe
  <2>7. Leitores'
    BY <2>4, <2>5, <2>6 DEF Leitores
  <2>. QED
    BY <1>4, <2>7 DEF Leitura
<1>. QED
  BY <1>2, <1>5, <1>6

(* The thread.                                                             *)
LEMMA LeituraFio ==
    ASSUME Nucleo, InvAtivo, Uso, Leitura, Fio
    PROVE  Leitura'
<1>1. TypeOK /\ InvEstado /\ InvLimites /\ InvRefs /\ Distinta(itens)
  BY DEF Nucleo, InvRefs
<1>2. Leitores /\ Prontas /\ SemBloqueio
  BY DEF Leitura
<1>3. ASSUME ModosIguais, Vindas, proc' = proc
      PROVE  Leitores'
  <2>1. AtivosFicam
    BY <1>3 DEF ModosIguais, AtivosFicam
  <2>2. Aguardam
    BY <1>3 DEF Aguardam, Aguarda
  <2>. QED
    BY <1>1, <1>2, <1>3, <2>1, <2>2, LeitoresMantidos
<1>4. \A i \in DOMAIN itens : /\ Campos(itens[i]) \in NosItens /\ itens[i].s \in Socks
                              /\ itens[i].zmq
  <2>1. \A i \in DOMAIN itens : Campos(itens[i]) \in NosItens
    BY DEF NosItens, Vistos
  <2>. QED
    BY <1>1, <2>1, TiposDosPedidos DEF Uso, ItensVivos, Campos
<1>5. CASE Poll
  <2>1. /\ UNCHANGED <<sock, fila, proc, inbox>> /\ fio'.pc = "ciclo"
        /\ itens' = itens \/ Viu
    BY <1>1, <1>5, EfeitoPoll
  <2>2. ModosIguais /\ Vindas
    BY <2>1, VindasIguais DEF ModosIguais, NaFila, NosItens, Viu
  <2>3. Leitores'
    BY <1>3, <2>1, <2>2
  <2>4. Prontas'
    <3>1. CASE itens' = itens
      BY <1>2, <2>1, <3>1 DEF Prontas
    <3>2. CASE Viu
      BY <1>4, <2>1, <3>2 DEF Prontas, Viu, Pode
    <3>. QED
      BY <2>1, <3>1, <3>2
  <2>. QED
    BY <2>1, <2>3, <2>4 DEF Leitura, SemBloqueio
<1>6. CASE ItemAborta \/ ZmqTerm
  <2>1. /\ UNCHANGED <<sock, fila, proc, inbox, itens>>
        /\ fio' = fio \/ fio'.pc = "fim"
    BY <1>1, <1>6, EfeitoAborta, EfeitoZmqTerm
  <2>2. ModosIguais /\ Vindas
    BY <2>1, VindasIguais DEF ModosIguais, NaFila, NosItens
  <2>3. Leitores' /\ Prontas'
    BY <1>2, <1>3, <2>1, <2>2 DEF Prontas
  <2>4. SemBloqueio'
    BY <1>2, <2>1, BloqueioMantido DEF SemBloqueio
  <2>. QED
    BY <2>3, <2>4 DEF Leitura
<1>7. CASE ItemBloqueia
  <2>1. UNCHANGED <<sock, fila, proc, inbox, itens>> /\ Vez # 0 /\ ~ Pode(itens[Vez])
    BY <1>1, <1>7, EfeitoBloqueia
  <2>2. ModosIguais /\ Vindas
    BY <2>1, VindasIguais DEF ModosIguais, NaFila, NosItens
  <2>3. Leitores' /\ Prontas'
    BY <1>2, <1>3, <2>1, <2>2 DEF Prontas
  <2>4. Vez \in DOMAIN itens /\ itens[Vez].rev
    BY <1>1, <2>1, ItemDaVez
  <2>5. itens[Vez].tipo # "recv"
    BY <1>2, <2>1, <2>4 DEF Prontas, Pode
  <2>6. Vez' = Vez
    BY <2>1 DEF Vez
  <2>. QED
    BY <2>1, <2>3, <2>5, <2>6 DEF Leitura, SemBloqueio
<1>8. CASE ItemRecv \/ ItemSend \/ ItemExpira
  <2>1. \E i \in DOMAIN itens : Continuou(i) \/ \E v : Atendeu(i, v)
    BY <1>1, <1>8, EfeitoItemRecv, EfeitoItemSend, EfeitoItemExpira
  <2>2. PICK i \in DOMAIN itens : Continuou(i) \/ \E v : Atendeu(i, v)
    BY <2>1
  <2>3. Tratou /\ (Manteve(i) \/ Largou(i))
    BY <2>2 DEF Continuou, Atendeu
  <2>4. \/ inbox' = inbox
        \/ itens[i].tipo = "recv" /\ \A t \in Socks : t # itens[i].s => inbox'[t] = inbox[t]
    BY <2>2 DEF Continuou, Atendeu
  <2>5. ModosIguais /\ Vindas
    <3>1. fila' = fila /\ NosItens' \subseteq NosItens
      BY <2>3 DEF Manteve, Largou, Tratou
    <3>2. ModosIguais
      BY <2>3 DEF Manteve, Largou, ModosIguais, EstadosIguais, ActivesIguais
    <3>. QED
      BY <3>1, <3>2, VindasIguais DEF NaFila
  <2>6. Leitores' /\ SemBloqueio'
    BY <1>3, <2>3, <2>5 DEF Tratou, SemBloqueio
  <2>7. ASSUME NEW j \in DOMAIN itens, j # i, itens[j].tipo = "recv", itens[j].rev
        PROVE  inbox'[itens[j].s] # << >>
    <3>1. CASE inbox' = inbox
      BY <1>2, <2>7, <3>1 DEF Prontas
    <3>2. CASE /\ itens[i].tipo = "recv"
               /\ \A t \in Socks : t # itens[i].s => inbox'[t] = inbox[t]
      <4>1. itens[j].s # itens[i].s
        <5>. SUFFICES ASSUME itens[j].s = itens[i].s PROVE FALSE
          OBVIOUS
        <5>1. PICK e \in Pedidas : e = Campos(itens[i])
          BY <1>4 DEF Pedidas
        <5>2. PICK d \in Pedidas : d = Campos(itens[j])
          BY <1>4 DEF Pedidas
        <5>3. /\ e.tipo = "recv" /\ d.tipo = "recv" /\ e.s = d.s
              /\ e.ref = itens[i].ref /\ d.ref = itens[j].ref
          BY <2>7, <3>2, <5>1, <5>2 DEF Campos
        <5>4. e.ref = d.ref
          BY <1>2, <5>3, UmLeitor
        <5>. QED
          BY <1>1, <2>7, <5>3, <5>4 DEF Distinta
      <4>. QED
        BY <1>2, <1>4, <2>7, <3>2, <4>1 DEF Prontas
    <3>. QED
      BY <2>4, <3>1, <3>2
  <2>8. Prontas'
    <3>1. CASE Manteve(i)
      BY <2>7, <3>1 DEF Prontas, Manteve
    <3>2. CASE Largou(i)
      BY <2>7, <3>2 DEF Prontas, Largou
    <3>. QED
      BY <2>3, <3>1, <3>2
  <2>. QED
    BY <2>6, <2>8 DEF Leitura
<1>9. CASE Regista
  <2>1. PICK r : /\ Tirou(r) /\ sock' = sock /\ inbox' = inbox /\ fio'.pc = "ciclo"
                 /\ Registou(r) \/ itens' = itens
    BY <1>1, <1>9, EfeitoRegista
  <2>2. proc' = proc /\ ModosIguais /\ NaFila' \subseteq NaFila
    BY <2>1 DEF Tirou, ModosIguais
  <2>3. Vindas
    BY <2>1, <2>2, VindasDaFila, VindasIguais DEF NosItens
  <2>4. Prontas'
    BY <1>2, <2>1 DEF Prontas, Registou
  <2>. QED
    BY <1>3, <2>1, <2>2, <2>3, <2>4 DEF Leitura, SemBloqueio
<1>10. CASE Close
  <2>1. PICK r : /\ Tirou(r) /\ fio'.pc = "ciclo"
                 /\ UNCHANGED <<itens, sock, inbox>> \/ Fechou(r.s)
    BY <1>1, <1>10, EfeitoClose
  <2>2. proc' = proc /\ NaFila' \subseteq NaFila
    BY <2>1 DEF Tirou
  <2>3. NosItens' \subseteq NosItens /\ ModosIguais
    BY <2>1 DEF NosItens, Fechou, ModosIguais, ActivesIguais
  <2>4. Leitores'
    BY <1>3, <2>2, <2>3, VindasIguais
  <2>5. Prontas'
    <3>1. CASE UNCHANGED <<itens, sock, inbox>>
      BY <1>2, <3>1 DEF Prontas
    <3>2. CASE Fechou(r.s)
      <4>. SUFFICES ASSUME NEW k \in DOMAIN itens', itens'[k].tipo = "recv", itens'[k].rev
                    PROVE  inbox'[itens'[k].s] # << >>
        BY DEF Prontas
      <4>1. PICK j \in DOMAIN itens : itens'[k] = itens[j]
        BY <3>2 DEF Fechou
      <4>2. PICK e : e = Campos(itens[j])
        OBVIOUS
      <4>3. e \in NosItens'
        <5>1. e = Campos(itens'[k])
          BY <4>1, <4>2
        <5>. QED
          BY <5>1 DEF NosItens, Vistos
      <4>4. e \in NosItens /\ e.zmq /\ ~ (e.zmq /\ e.s = r.s) /\ e.s = itens[j].s
        BY <1>4, <3>2, <4>2, <4>3 DEF Fechou, Campos
      <4>. QED
        BY <1>2, <1>4, <3>2, <4>1, <4>4 DEF Fechou, Prontas
    <3>. QED
      BY <2>1, <3>1, <3>2
  <2>. QED
    BY <2>1, <2>4, <2>5 DEF Leitura, SemBloqueio
<1>11. CASE PedidoTerm
  <2>1. PICK r : Tirou(r) /\ UNCHANGED <<sock, itens, inbox>> /\ fio'.pc = "term"
    BY <1>1, <1>11, EfeitoPedidoTerm
  <2>2. ModosIguais /\ Vindas /\ proc' = proc
    BY <2>1, VindasIguais DEF Tirou, ModosIguais, NosItens
  <2>. QED
    BY <1>2, <1>3, <2>1, <2>2 DEF Leitura, SemBloqueio, Prontas
<1>12. CASE Term
  <2>1. itens' = << >> /\ fila' = << >> /\ fio'.pc = "zmq_term"
    BY <1>1, <1>12, EfeitoTerm
  <2>2. Pedidas' = {}
    BY <2>1 DEF Pedidas, NaFila, NosItens, Vistos, Range
  <2>. QED
    BY <2>1, <2>2 DEF Leitura, Leitores, Prontas, SemBloqueio
<1>. QED
  BY <1>5, <1>6, <1>7, <1>8, <1>9, <1>10, <1>11, <1>12 DEF Fio

(* Every step.                                                             *)
LEMMA LeituraPasso ==
    ASSUME Nucleo, InvDono, InvAtivo, InvUso, InvLeitor, [Next]_vars
    PROVE  InvLeitor'
<1>1. TypeOK /\ InvLimites
  BY DEF Nucleo
<1>2. SUFFICES ASSUME ~ abuso', ~ expirou' PROVE Leitura'
  BY DEF InvLeitor
<1>3. Uso /\ Leitura
  BY <1>2, HistoriaFica DEF InvUso, InvLeitor
<1>4. ASSUME ModosIguais, UNCHANGED <<fila, itens, proc>>, MensagensFicam,
             fio' = fio \/ fio'.pc = "ciclo"
      PROVE  Leitura'
  <2>1. Vindas /\ AtivosFicam /\ Aguardam
    BY <1>4, VindasIguais DEF NaFila, NosItens, ModosIguais, AtivosFicam, Aguardam, Aguarda
  <2>2. Leitores'
    BY <1>1, <1>3, <2>1, LeitoresMantidos DEF Leitura
  <2>3. Prontas'
    BY <1>1, <1>3, <1>4, ProntasMantidas DEF Leitura
  <2>4. SemBloqueio'
    BY <1>3, <1>4, BloqueioMantido DEF Leitura, SemBloqueio
  <2>. QED
    BY <2>2, <2>3, <2>4 DEF Leitura
<1>5. CASE Context
  BY <1>1, <1>4, <1>5, EfeitoContext DEF ModosIguais, MensagensFicam
<1>6. ASSUME NEW p \in Procs, NEW s \in Socks, NEW a \in {"OFF", "PENDING"}, Socket(p, s, a)
      PROVE  Leitura'
  BY <1>1, <1>4, <1>6, EfeitoSocket DEF ModosIguais, MensagensFicam
<1>7. ASSUME NEW p \in Procs, NEW s \in Socks,
             NEW op \in {"bind", "setsockopt", "send", "recv", "close", "term"}, Chama(p, op, s)
      PROVE  Leitura'
  BY <1>3, <1>7, LeituraChama
<1>8. ASSUME NEW p \in Procs, DentroDaChamada(p)
      PROVE  Leitura'
  BY <1>3, <1>8, LeituraChama, LeituraDaChamada, LeituraEnvia DEF DentroDaChamada
<1>9. ASSUME NEW p \in Procs, Expira(p)
      PROVE  Leitura'
  BY <1>1, <1>2, <1>9, EfeitoExpira
<1>10. CASE Fio
  BY <1>3, <1>10, LeituraFio
<1>11. ASSUME NEW s \in Socks, Chega(s)
       PROVE  Leitura'
  BY <1>1, <1>4, <1>11, EfeitoChega DEF ModosIguais, MensagensFicam
<1>12. ASSUME NEW s \in Socks, Enche(s)
       PROVE  Leitura'
  BY <1>1, <1>4, <1>12, EfeitoEnche DEF ModosIguais, MensagensFicam
<1>13. CASE UNCHANGED vars
  BY <1>4, <1>13 DEF vars, ModosIguais, MensagensFicam
<1>. QED
  BY <1>5, <1>6, <1>7, <1>8, <1>9, <1>10, <1>11, <1>12, <1>13, LivreProperties DEF Next
-----------------------------------------------------------------------------
(* Calls that wait.                                                        *)

\* call q waits as it did, or does not wait
Espere(q) == proc'[q].pc \in Depois =>
                /\ proc[q].pc \in Depois /\ proc'[q].op = proc[q].op
                /\ proc'[q].ref = proc[q].ref
\* nothing that would answer a call is gone
Mantida(q) == SeraRespondida(q) =>
                 \/ \E e \in Pedidas' : e.ref = proc[q].ref
                 \/ \E m \in caixa'[q] : m.ref = proc[q].ref
                 \/ fio'.pc = "term" /\ fio'.ped.ref = proc[q].ref

(* A call that waits as it did and is not forgotten.                       *)
LEMMA PendenteMantida ==
    ASSUME NEW q \in Procs, Pendente(q), Espere(q), proc'[q].pc \in Depois => Mantida(q)
    PROVE  Pendente(q)'
<1>. SUFFICES ASSUME proc'[q].pc \in Depois, proc'[q].op # "ativa"
              PROVE  SeraRespondida(q)'
  BY DEF Pendente
<1>1. SeraRespondida(q) /\ proc'[q].ref = proc[q].ref
  BY DEF Pendente, Espere
<1>2. Mantida(q)
  OBVIOUS
<1>. QED
  BY <1>1, <1>2 DEF Mantida, SeraRespondida

(* One call goes on, and no request or answer of another is touched.       *)
LEMMA PendenteDoProc ==
    ASSUME NadaPerdido, NEW p \in Procs, Move(p), Espere(p), UNCHANGED <<fila, itens, fio>>,
           \A q \in Procs : q # p \/ proc'[q].pc \in Depois => caixa'[q] = caixa[q]
    PROVE  NadaPerdido'
<1>1. Pedidas' = Pedidas
  BY DEF Pedidas, NaFila, NosItens
<1>2. ASSUME NEW q \in Procs PROVE Pendente(q)'
  <2>1. Pendente(q) /\ Espere(q)
    BY DEF NadaPerdido, Move, Espere
  <2>2. proc'[q].pc \in Depois => Mantida(q)
    BY <1>1 DEF Mantida, SeraRespondida
  <2>. QED
    BY <2>1, <2>2, PendenteMantida
<1>. QED
  BY <1>2 DEF NadaPerdido

(* The steps of a call that write nothing to the pipe, and its start.      *)
LEMMA PendenteDaChamada ==
    ASSUME Nucleo, NadaPerdido, NEW p \in Procs,
           \/ Bind(p) \/ Setsockopt(p) \/ Tenta(p) \/ TrancaNula(p) \/ TestaCtx(p)
           \/ EnviaNula(p) \/ Keep(p) \/ Getsockopt(p) \/ Recebe(p) \/ Expira(p)
           \/ \E s \in Socks, op \in {"bind", "setsockopt", "send", "recv", "close", "term"} :
                 Chama(p, op, s)
    PROVE  NadaPerdido'
<1>1. TypeOK /\ InvLimites
  BY DEF Nucleo
<1>2. ASSUME UNCHANGED <<fila, itens, fio, caixa>>, Move(p), Espere(p)
      PROVE  NadaPerdido'
  BY <1>2, PendenteDoProc
<1>3. ASSUME UNCHANGED <<fila, itens, fio, caixa, proc>>
      PROVE  NadaPerdido'
  <2>1. Pedidas' = Pedidas
    BY <1>3 DEF Pedidas, NaFila, NosItens
  <2>. QED
    BY <1>3, <2>1 DEF NadaPerdido, Pendente, SeraRespondida
<1>4. ASSUME Solto(p) PROVE Move(p) /\ Espere(p)
  BY <1>4 DEF Solto, Espere, Depois
<1>5. ASSUME NEW pc, Passou(p, pc), pc \in Depois => proc[p].pc \in Depois
      PROVE  Move(p) /\ Espere(p)
  BY <1>5 DEF Passou, Espere
<1>6. CASE Bind(p)
  <2>1. /\ UNCHANGED <<fila, itens, fio, caixa>>
        /\ Solto(p) \/ (Move(p) /\ proc'[p].pc = "ctx")
    BY <1>1, <1>6, EfeitoBind DEF Quieto
  <2>2. Move(p) /\ Espere(p)
    BY <1>4, <2>1 DEF Espere, Depois
  <2>. QED
    BY <1>2, <2>1, <2>2
<1>7. CASE Setsockopt(p)
  BY <1>1, <1>2, <1>4, <1>7, EfeitoSetsockopt DEF Quieto
<1>8. CASE Tenta(p)
  <2>1. UNCHANGED <<fila, itens, fio, caixa>> /\ (Solto(p) \/ Passou(p, "ctx"))
    BY <1>1, <1>8, EfeitoTenta DEF Quieto
  <2>2. Move(p) /\ Espere(p)
    BY <1>4, <1>5, <2>1 DEF Depois
  <2>. QED
    BY <1>2, <2>1, <2>2
<1>9. CASE TrancaNula(p)
  BY <1>1, <1>2, <1>3, <1>4, <1>9, EfeitoTrancaNula DEF Quieto
<1>10. CASE TestaCtx(p)
  <2>1. UNCHANGED <<fila, itens, fio, caixa>> /\ (Solto(p) \/ Passou(p, "envia"))
    BY <1>1, <1>10, EfeitoTestaCtx DEF Quieto
  <2>2. Move(p) /\ Espere(p)
    BY <1>4, <1>5, <2>1 DEF Depois
  <2>. QED
    BY <1>2, <2>1, <2>2
<1>11. CASE EnviaNula(p)
  BY <1>1, <1>2, <1>3, <1>4, <1>11, EfeitoEnviaNula DEF Quieto
<1>12. CASE Keep(p)
  <2>1. /\ UNCHANGED <<fila, itens, fio, caixa>> /\ proc[p].pc \in Depois
        /\ Solto(p) \/ Passou(p, "timeo") \/ Passou(p, "espera")
    BY <1>1, <1>12, EfeitoKeep DEF Quieto, Depois
  <2>2. Move(p) /\ Espere(p)
    BY <1>4, <1>5, <2>1
  <2>. QED
    BY <1>2, <2>1, <2>2
<1>13. CASE Getsockopt(p)
  <2>1. /\ UNCHANGED <<fila, itens, fio, caixa>> /\ proc[p].pc \in Depois
        /\ Move(p) /\ proc'[p].op = proc[p].op /\ proc'[p].ref = proc[p].ref
    BY <1>1, <1>13, EfeitoGetsockopt DEF Quieto, Depois, Passou
  <2>. QED
    BY <1>2, <2>1 DEF Espere
<1>14. CASE Recebe(p)
  <2>1. /\ UNCHANGED <<fila, itens, fio>> /\ Solto(p)
        /\ \A q \in Procs : q # p => caixa'[q] = caixa[q]
    BY <1>1, <1>14, EfeitoRecebe
  <2>2. Move(p) /\ Espere(p) /\ proc'[p].pc \notin Depois
    BY <1>4, <2>1 DEF Solto, Depois
  <2>3. \A q \in Procs : q # p \/ proc'[q].pc \in Depois => caixa'[q] = caixa[q]
    BY <2>1, <2>2
  <2>. QED
    BY <2>1, <2>2, <2>3, PendenteDoProc
<1>15. CASE Expira(p)
  BY <1>1, <1>2, <1>4, <1>15, EfeitoExpira DEF Quieto
<1>16. ASSUME NEW s \in Socks,
              NEW op \in {"bind", "setsockopt", "send", "recv", "close", "term"},
              Chama(p, op, s)
       PROVE  NadaPerdido'
  <2>1. /\ UNCHANGED <<fila, itens, fio, caixa>> /\ Move(p)
        /\ proc'[p].pc \in {"tranca", "ctx"}
    BY <1>1, <1>16, EfeitoChama
  <2>. QED
    BY <1>2, <2>1 DEF Espere, Depois
<1>. QED
  BY <1>6, <1>7, <1>8, <1>9, <1>10, <1>11, <1>12, <1>13, <1>14, <1>15, <1>16

(* A call waits for the request it wrote.                                  *)
LEMMA PendenteEnvia ==
    ASSUME Nucleo, NadaPerdido, NEW p \in Procs, Envia(p)
    PROVE  NadaPerdido'
<1>1. TypeOK /\ InvEstado /\ InvLimites
  BY DEF Nucleo
<1>2. /\ UNCHANGED <<itens, fio, caixa>>
      /\ proc[p].op \notin {"bind", "setsockopt"}
      /\ \/ fila' = Append(fila, Pedido(p)) /\ Passou(p, "keep")
         \/ fila' = fila /\ Passou(p, "cheia")
  BY <1>1, EfeitoEnvia
<1>3. CASE fila' = fila /\ Passou(p, "cheia")
  <2>1. Move(p) /\ Espere(p)
    BY <1>3 DEF Passou, Espere, Depois
  <2>. QED
    BY <1>2, <1>3, <2>1, PendenteDoProc
<1>4. CASE fila' = Append(fila, Pedido(p)) /\ Passou(p, "keep")
  <2>1. PICK e : e = Pedido(p)
    OBVIOUS
  <2>2. e \in Pedidos /\ e.ref = proc[p].ref
    BY <1>1, <1>2, <2>1, PedidoProperties
  <2>3. NaFila' = NaFila \cup {e}
    BY <1>1, <1>4, <2>1, <2>2, Acrescentado DEF NaFila, TypeOK
  <2>4. Pedidas' = Pedidas \cup {e}
    BY <1>2, <2>3 DEF Pedidas, NosItens
  <2>5. Pendente(p)'
    BY <1>4, <2>2, <2>4 DEF Passou, Pendente, SeraRespondida
  <2>6. ASSUME NEW q \in Procs, q # p PROVE Pendente(q)'
    <3>1. Pendente(q) /\ Espere(q) /\ Mantida(q)
      BY <1>2, <1>4, <2>4, <2>6 DEF NadaPerdido, Passou, Move, Espere, Mantida, SeraRespondida
    <3>. QED
      BY <3>1, PendenteMantida
  <2>. QED
    BY <2>5, <2>6 DEF NadaPerdido
<1>. QED
  BY <1>2, <1>3, <1>4

(* The thread answers, or keeps, what it takes; a close drops the items of *)
(* its socket, but no one waits for them then.                             *)
LEMMA PendenteFio ==
    ASSUME Nucleo, InvDono, Uso, NadaPerdido, Fio, queda' = queda, queda = "nenhuma"
    PROVE  NadaPerdido'
<1>1. TypeOK /\ InvEstado /\ InvLimites /\ InvRefs /\ Distinta(itens)
  BY DEF Nucleo, InvRefs
<1>2. ASSUME proc' = proc, \A q \in Procs : EmCurso(q) => Mantida(q)
      PROVE  NadaPerdido'
  <2>1. ASSUME NEW q \in Procs PROVE Pendente(q)'
    <3>1. Pendente(q) /\ Espere(q) /\ (proc'[q].pc \in Depois => EmCurso(q))
      BY <1>2 DEF NadaPerdido, Espere, Depois, EmCurso
    <3>. QED
      BY <1>2, <3>1, PendenteMantida
  <2>. QED
    BY <2>1 DEF NadaPerdido
<1>3. ASSUME UNCHANGED <<proc, caixa>>, fio.pc = "term" => fio'.pc = "term" /\ fio'.ped = fio.ped,
             \A e \in Pedidas : \E d \in Pedidas' : e.ref = d.ref
      PROVE  NadaPerdido'
  BY <1>2, <1>3 DEF Mantida, SeraRespondida
<1>4. CASE Poll
  <2>1. /\ UNCHANGED <<proc, caixa, fila>> /\ NosItens' = NosItens
        /\ fio.pc = "ciclo"
    BY <1>1, <1>4, EfeitoPoll DEF Viu, NosItens
  <2>. QED
    BY <1>3, <2>1 DEF Pedidas, NaFila
<1>5. CASE ItemAborta \/ ItemBloqueia \/ ZmqTerm
  <2>1. UNCHANGED <<proc, caixa, fila, itens>> /\ (fio' = fio \/ fio.pc # "term")
    BY <1>1, <1>5, EfeitoAborta, EfeitoBloqueia, EfeitoZmqTerm
  <2>. QED
    BY <1>3, <2>1 DEF Pedidas, NaFila, NosItens
<1>6. CASE ItemRecv \/ ItemSend \/ ItemExpira
  <2>1. \E i \in DOMAIN itens : Continuou(i) \/ \E v : Atendeu(i, v)
    BY <1>1, <1>6, EfeitoItemRecv, EfeitoItemSend, EfeitoItemExpira
  <2>2. PICK i \in DOMAIN itens : Continuou(i) \/ \E v : Atendeu(i, v)
    BY <2>1
  <2>3. CASE Continuou(i)
    BY <1>3, <2>3 DEF Continuou, Manteve, Tratou, Pedidas, NaFila
  <2>4. ASSUME NEW v, Atendeu(i, v)
        PROVE  NadaPerdido'
    <3>1. /\ proc' = proc /\ NaFila' = NaFila /\ fio.pc # "term"
          /\ NosItens' = NosItens \ {Campos(itens[i])}
          /\ Campos(itens[i]) \in NosItens
          /\ \A q \in Procs : caixa'[q] = IF q = itens[i].p
                                    THEN caixa[q] \cup {[ref |-> itens[i].ref, res |-> v]}
                                    ELSE caixa[q]
      BY <2>4 DEF Atendeu, Tratou, Largou, NaFila
    <3>2. PICK c : c = Campos(itens[i])
      OBVIOUS
    <3>3. c \in NosItens /\ c.p = itens[i].p /\ c.ref = itens[i].ref
      BY <3>1, <3>2 DEF Campos
    <3>4. Guardado(c)
      BY <1>1, <3>3 DEF InvRefs, PedidosItens
    <3>5. ASSUME NEW q \in Procs PROVE Mantida(q)
      <4>1. CASE proc[q].ref = c.ref
        <5>1. q = itens[i].p
          BY <3>3, <3>4, <4>1 DEF Guardado
        <5>2. PICK m : m = [ref |-> itens[i].ref, res |-> v]
          OBVIOUS
        <5>3. m \in caixa'[q] /\ m.ref = proc[q].ref
          BY <3>1, <3>3, <4>1, <5>1, <5>2
        <5>. QED
          BY <5>3 DEF Mantida
      <4>2. CASE proc[q].ref # c.ref
        <5>1. caixa[q] \subseteq caixa'[q]
          BY <3>1
        <5>2. \A e \in Pedidas : e.ref = proc[q].ref => e \in Pedidas'
          BY <3>1, <3>2, <4>2 DEF Pedidas
        <5>. QED
          BY <3>1, <5>1, <5>2 DEF Mantida, SeraRespondida
      <4>. QED
        BY <4>1, <4>2
    <3>. QED
      BY <1>2, <3>1, <3>5
  <2>. QED
    BY <2>2, <2>3, <2>4
<1>7. CASE Regista
  <2>1. PICK r : Tirou(r) /\ caixa' = caixa /\ Registou(r)
    BY <1>1, <1>7, EfeitoRegista
  <2>2. PICK e \in TipoItem : e.ref = r.ref /\ NosItens' = NosItens \cup {Campos(e)}
    BY <2>1 DEF Registou
  <2>3. Campos(e).ref = r.ref
    BY <2>2 DEF Campos
  <2>4. NaFila = {r} \cup NaFila' /\ proc' = proc /\ fio.pc # "term"
    BY <2>1 DEF Tirou
  <2>5. \A d \in Pedidas : \E f \in Pedidas' : d.ref = f.ref
    BY <2>2, <2>3, <2>4 DEF Pedidas
  <2>. QED
    BY <1>3, <2>1, <2>4, <2>5
<1>8. CASE Close
  <2>1. PICK r : /\ Tirou(r) /\ r.tipo = "close" /\ Respondeu(r)
                 /\ UNCHANGED itens \/ Fechou(r.s)
    BY <1>1, <1>8, EfeitoClose
  <2>2. /\ NaFila = {r} \cup NaFila' /\ proc' = proc /\ fio.pc # "term" /\ r.p \in Procs
        /\ r \in NaFila
    BY <2>1 DEF Tirou
  <2>3. Guardado(r) /\ Espera(r) /\ \A d \in NosItens : d.ref # r.ref
    BY <1>1, <2>1, <2>2 DEF InvRefs, PedidosFila, InvDono
  <2>4. EmCurso(r.p) /\ proc[r.p].s = r.s /\ proc[r.p].ref = r.ref
    BY <2>3 DEF Espera, EmCurso
  <2>5. ASSUME NEW q \in Procs, EmCurso(q) PROVE Mantida(q)
    <3>1. CASE proc[q].ref = r.ref
      <4>1. q = r.p
        BY <2>3, <3>1 DEF Guardado
      <4>2. PICK m : m = [ref |-> r.ref, res |-> 0]
        OBVIOUS
      <4>3. m \in caixa'[q] /\ m.ref = proc[q].ref
        BY <2>1, <3>1, <4>1, <4>2 DEF Respondeu
      <4>. QED
        BY <4>3 DEF Mantida
    <3>2. CASE proc[q].ref # r.ref
      <4>1. caixa[q] \subseteq caixa'[q]
        BY <2>1 DEF Respondeu
      <4>2. ASSUME NEW e \in Pedidas, e.ref = proc[q].ref PROVE e \in Pedidas'
        <5>1. CASE e \in NaFila
          BY <2>2, <3>2, <4>2, <5>1 DEF Pedidas
        <5>2. CASE e \in NosItens
          <6>1. e.s = proc[q].s
            BY <1>1, <4>2, <5>2 DEF InvRefs, PedidosItens, Guardado
          <6>2. q # r.p
            BY <2>4, <3>2
          <6>3. e.s # r.s
            BY <2>2, <2>4, <2>5, <6>1, <6>2 DEF Uso, Separadas
          <6>4. e \in NosItens'
            BY <2>1, <5>2, <6>3 DEF NosItens, Fechou
          <6>. QED
            BY <6>4 DEF Pedidas
        <5>. QED
          BY <5>1, <5>2 DEF Pedidas
      <4>. QED
        BY <2>2, <4>1, <4>2 DEF Mantida, SeraRespondida
    <3>. QED
      BY <3>1, <3>2
  <2>. QED
    BY <1>2, <2>2, <2>5
<1>9. CASE PedidoTerm
  <2>1. PICK r : /\ Tirou(r) /\ UNCHANGED <<itens, caixa>> /\ fio'.pc = "term"
                 /\ fio'.ped = r
    BY <1>1, <1>9, EfeitoPedidoTerm
  <2>2. NaFila = {r} \cup NaFila' /\ proc' = proc /\ fio.pc # "term"
    BY <2>1 DEF Tirou
  <2>3. \A q \in Procs : Mantida(q)
    BY <2>1, <2>2 DEF Mantida, SeraRespondida, Pedidas, NosItens
  <2>. QED
    BY <1>2, <2>2, <2>3
<1>10. CASE Term
  <2>1. proc' = proc /\ fio.pc = "term" /\ Respondeu(fio.ped) /\ fio.ped.p \in Procs
    BY <1>1, <1>10, EfeitoTerm
  <2>2. PICK r : r = fio.ped
    OBVIOUS
  <2>3. r.tipo = "term" /\ Espera(r)
    BY <2>1, <2>2 DEF InvDono
  <2>4. EmCurso(r.p) /\ proc[r.p].op = "term" /\ proc[r.p].ref = r.ref
    BY <2>3 DEF Espera, EmCurso
  <2>5. ASSUME NEW q \in Procs, EmCurso(q) PROVE Mantida(q)
    <3>1. q = r.p
      BY <2>1, <2>2, <2>4, <2>5 DEF Uso, Separadas
    <3>2. PICK m : m = [ref |-> r.ref, res |-> 0]
      OBVIOUS
    <3>3. m \in caixa'[q] /\ m.ref = proc[q].ref
      BY <2>1, <2>2, <2>4, <3>1, <3>2 DEF Respondeu
    <3>. QED
      BY <3>3 DEF Mantida
  <2>. QED
    BY <1>2, <2>1, <2>5
<1>. QED
  BY <1>4, <1>5, <1>6, <1>7, <1>8, <1>9, <1>10 DEF Fio

(* Every step.                                                             *)
LEMMA PendentePasso ==
    ASSUME Nucleo, InvDono, InvUso, InvPendente, [Next]_vars
    PROVE  InvPendente'
<1>1. TypeOK
  BY DEF Nucleo
<1>2. SUFFICES ASSUME ~ abuso', queda' = "nenhuma" PROVE NadaPerdido'
  BY DEF InvPendente
<1>3. queda = "nenhuma"
  BY <1>2, SemVida DEF vars
<1>4. Uso /\ NadaPerdido
  BY <1>2, <1>3, HistoriaFica DEF InvUso, InvPendente
<1>5. ASSUME UNCHANGED <<fila, itens, caixa, proc>>, fio' = fio \/ fio.pc # "term"
      PROVE  NadaPerdido'
  <2>1. Pedidas' = Pedidas
    BY <1>5 DEF Pedidas, NaFila, NosItens
  <2>. QED
    BY <1>4, <1>5, <2>1 DEF NadaPerdido, Pendente, SeraRespondida
<1>6. CASE Context
  <2>1. fio.pc # "term"
    BY <1>1, <1>6, EfeitoContext DEF Nucleo, InvEstado
  <2>. QED
    BY <1>1, <1>5, <1>6, <2>1, EfeitoContext
<1>7. ASSUME NEW p \in Procs, NEW s \in Socks, NEW a \in {"OFF", "PENDING"}, Socket(p, s, a)
      PROVE  NadaPerdido'
  BY <1>1, <1>5, <1>7, EfeitoSocket
<1>8. ASSUME NEW p \in Procs, NEW s \in Socks,
             NEW op \in {"bind", "setsockopt", "send", "recv", "close", "term"}, Chama(p, op, s)
      PROVE  NadaPerdido'
  BY <1>4, <1>8, PendenteDaChamada
<1>9. ASSUME NEW p \in Procs, DentroDaChamada(p) \/ Expira(p)
      PROVE  NadaPerdido'
  BY <1>4, <1>9, PendenteDaChamada, PendenteEnvia DEF DentroDaChamada
<1>10. CASE Fio
  BY <1>2, <1>3, <1>4, <1>10, PendenteFio
<1>11. ASSUME NEW s \in Socks, Chega(s) \/ Enche(s)
       PROVE  NadaPerdido'
  BY <1>1, <1>5, <1>11, EfeitoChega, EfeitoEnche
<1>12. CASE UNCHANGED vars
  BY <1>5, <1>12 DEF vars
<1>. QED
  BY <1>6, <1>7, <1>8, <1>9, <1>10, <1>11, <1>12, LivreProperties DEF Next
-----------------------------------------------------------------------------
(* References.                                                             *)

(* The items of some indices are as many as the indices.                   *)
LEMMA TantosItens ==
    ASSUME itens \in Seq(TipoItem), Distinta(itens), NEW T \in SUBSET DOMAIN itens
    PROVE  /\ IsFiniteSet({Campos(itens[i]) : i \in T})
           /\ Cardinality({Campos(itens[i]) : i \in T}) = Cardinality(T)
<1>. DEFINE C == {Campos(itens[i]) : i \in T}
            f == [i \in T |-> Campos(itens[i])]
<1>1. IsFiniteSet(T)
  <2>1. DOMAIN itens = 1 .. Len(itens) /\ Len(itens) \in Nat
    OBVIOUS
  <2>2. IsFiniteSet(1 .. Len(itens))
    BY <2>1, FS_Interval
  <2>. QED
    BY <2>1, <2>2, FS_Subset
<1>2. \A i, j \in T : f[i] = f[j] => i = j
  <2>. SUFFICES ASSUME NEW i \in T, NEW j \in T, Campos(itens[i]) = Campos(itens[j])
                PROVE  i = j
    OBVIOUS
  <2>1. itens[i].ref = itens[j].ref
    BY DEF Campos
  <2>. QED
    BY <2>1 DEF Distinta
<1>3. f \in Bijection(T, C)
  BY <1>2 DEF Bijection, Injection, Surjection, IsInjective
<1>4. ExistsBijection(T, C)
  BY <1>3 DEF ExistsBijection
<1>. HIDE DEF C, f
<1>5. IsFiniteSet(C) /\ Cardinality(C) = Cardinality(T)
  BY <1>1, <1>4, FS_Bijection
<1>. QED
  BY <1>5 DEF C

(* The sets that are counted are finite.                                   *)
LEMMA Finitas ==
    ASSUME TypeOK, Distinta(itens), NEW s
    PROVE  /\ IsFiniteSet(PorContar(s)) /\ IsFiniteSet(ItensDe(s)) /\ IsFiniteSet(FilaDe(s))
           /\ Cardinality(PorContar(s)) \in Nat /\ Cardinality(ItensDe(s)) \in Nat
           /\ Cardinality(FilaDe(s)) \in Nat
<1>1. itens \in Seq(TipoItem) /\ fila \in Seq(Pedidos)
  BY DEF TypeOK
<1>2. IsFiniteSet(NosItens)
  <2>1. IsFiniteSet({Campos(itens[i]) : i \in DOMAIN itens})
    BY <1>1, TantosItens
  <2>. QED
    BY <2>1 DEF NosItens, Vistos
<1>3. IsFiniteSet(NaFila)
  <2>. DEFINE D == DOMAIN fila
              R == Range(fila)
              f == [i \in D |-> fila[i]]
  <2>1. D = 1 .. Len(fila) /\ Len(fila) \in Nat
    BY <1>1
  <2>2. IsFiniteSet(D)
    BY <2>1, FS_Interval
  <2>3. f \in Surjection(D, R)
    BY DEF Surjection, Range
  <2>. HIDE DEF D, R, f
  <2>4. IsFiniteSet(R)
    BY <2>2, <2>3, FS_Surjection
  <2>. QED
    BY <2>4 DEF R, NaFila
<1>4. IsFiniteSet(PorContar(s))
  BY ErlZmqAssumption, FS_Subset DEF PorContar
<1>5. IsFiniteSet(ItensDe(s))
  BY <1>2, FS_Subset DEF ItensDe
<1>6. IsFiniteSet(FilaDe(s))
  BY <1>3, FS_Subset DEF FilaDe
<1>. QED
  BY <1>4, <1>5, <1>6, FS_CardinalityType

(* Fewer requests, as many references.                                     *)
LEMMA ContadoMantido ==
    ASSUME Nucleo, Nucleo', NEW s \in Socks, Contado(s), sock'[s].refc = sock[s].refc,
           PorContar(s) \subseteq PorContar(s)', ItensDe(s)' \subseteq ItensDe(s),
           FilaDe(s)' \subseteq FilaDe(s), Aberto(s)' => Aberto(s)
    PROVE  Contado(s)'
<1>1. PICK k, i, f : k = PorContar(s)' /\ i = ItensDe(s)' /\ f = FilaDe(s)'
  OBVIOUS
<1>2. /\ IsFiniteSet(PorContar(s)) /\ IsFiniteSet(ItensDe(s)) /\ IsFiniteSet(FilaDe(s))
      /\ Cardinality(PorContar(s)) \in Nat /\ Cardinality(ItensDe(s)) \in Nat
      /\ Cardinality(FilaDe(s)) \in Nat
  BY Finitas DEF Nucleo, InvRefs
<1>3. IsFiniteSet(k)
  BY <1>1, ErlZmqAssumption, FS_Subset DEF PorContar
<1>4. Cardinality(PorContar(s)) <= Cardinality(k) /\ Cardinality(k) \in Nat
  BY <1>1, <1>3, FS_Subset, FS_CardinalityType
<1>5. Cardinality(i) <= Cardinality(ItensDe(s)) /\ Cardinality(i) \in Nat
  BY <1>1, <1>2, FS_Subset, FS_CardinalityType
<1>6. Cardinality(f) <= Cardinality(FilaDe(s)) /\ Cardinality(f) \in Nat
  BY <1>1, <1>2, FS_Subset, FS_CardinalityType
<1>7. sock[s].refc \in Int
  BY DEF Nucleo, TypeOK, TipoSock
<1>8. sock'[s].refc + Cardinality(k) >= (IF Aberto(s)' THEN 1 ELSE 0)
                                        + Cardinality(i) + Cardinality(f)
  BY <1>2, <1>4, <1>5, <1>6, <1>7 DEF Contado
<1>. QED
  BY <1>1, <1>8 DEF Contado

(* A set with one element less.                                            *)
LEMMA MenosUm ==
    ASSUME NEW S, NEW x \in S, IsFiniteSet(S), NEW T, T \subseteq S \ {x}
    PROVE  /\ IsFiniteSet(T) /\ Cardinality(T) \in Nat /\ Cardinality(S) \in Nat
           /\ Cardinality(T) + 1 <= Cardinality(S)
<1>1. IsFiniteSet(S \ {x}) /\ Cardinality(S \ {x}) = Cardinality(S) - 1
  BY FS_RemoveElement
<1>2. T \in SUBSET (S \ {x})
  OBVIOUS
<1>3. IsFiniteSet(T) /\ Cardinality(T) <= Cardinality(S \ {x})
  BY <1>1, <1>2, FS_Subset
<1>4. Cardinality(T) \in Nat /\ Cardinality(S) \in Nat
  BY <1>3, FS_CardinalityType
<1>. QED
  BY <1>1, <1>3, <1>4

(* A set with at most one element more.                                    *)
LEMMA MaisUm ==
    ASSUME NEW S, NEW x, IsFiniteSet(S), NEW T, T \subseteq S \cup {x}
    PROVE  /\ IsFiniteSet(T) /\ Cardinality(T) \in Nat /\ Cardinality(S) \in Nat
           /\ Cardinality(T) <= Cardinality(S) + 1
<1>0. Cardinality(S) \in Nat
  BY FS_CardinalityType
<1>1. IsFiniteSet(S \cup {x}) /\ Cardinality(S \cup {x}) <= Cardinality(S) + 1
  BY <1>0, FS_AddElement
<1>2. T \in SUBSET (S \cup {x})
  OBVIOUS
<1>3. IsFiniteSet(T) /\ Cardinality(T) <= Cardinality(S \cup {x})
  BY <1>1, <1>2, FS_Subset
<1>4. Cardinality(T) \in Nat /\ Cardinality(S \cup {x}) \in Nat
  BY <1>1, <1>3, FS_CardinalityType
<1>. QED
  BY <1>0, <1>1, <1>3, <1>4

(* A set that did not grow.                                                *)
LEMMA NaoCresce ==
    ASSUME NEW S, IsFiniteSet(S), NEW T, T \subseteq S
    PROVE  /\ IsFiniteSet(T) /\ Cardinality(T) \in Nat /\ Cardinality(S) \in Nat
           /\ Cardinality(T) <= Cardinality(S)
<1>1. T \in SUBSET S
  OBVIOUS
<1>. QED
  BY <1>1, FS_Subset, FS_CardinalityType

(* The request goes on the pipe before its reference is counted.           *)
LEMMA ContadoEnvia ==
    ASSUME Nucleo, Nucleo', NEW s \in Socks, Contado(s), NEW p \in Procs, Envia(p)
    PROVE  Contado(s)'
<1>1. TypeOK /\ InvEstado /\ InvRefs /\ Distinta(itens)
  BY DEF Nucleo, InvRefs
<1>2. /\ sock' = sock /\ itens' = itens /\ proc[p].pc \in {"envia", "cheia"}
      /\ proc[p].op \notin {"bind", "setsockopt"}
      /\ \/ fila' = Append(fila, Pedido(p)) /\ Passou(p, "keep")
         \/ fila' = fila /\ Passou(p, "cheia")
  BY <1>1, EfeitoEnvia
<1>3. /\ sock'[s].refc = sock[s].refc /\ ItensDe(s)' = ItensDe(s)
      /\ Aberto(s)' <=> Aberto(s)
  BY <1>2 DEF ItensDe, NosItens, Aberto
<1>4. p \notin PorContar(s) /\ PorContar(s) \subseteq PorContar(s)'
  BY <1>2 DEF PorContar, Passou, Move
<1>5. PICK e : e = Pedido(p)
  OBVIOUS
<1>6. /\ e.s = proc[p].s /\ e.ref = proc[p].ref
      /\ e.tipo = "term" <=> proc[p].op = "term"
  BY <1>1, <1>2, <1>5, PedidoProperties
<1>7. fila' = fila \/ NaFila' = NaFila \cup {e}
  <2>1. Pedido(p) \in Pedidos /\ fila \in Seq(Pedidos)
    BY <1>1, <1>2, PedidoProperties DEF TypeOK
  <2>2. Range(Append(fila, Pedido(p))) = Range(fila) \cup {Pedido(p)}
    BY <2>1, Acrescentado
  <2>. QED
    BY <1>2, <1>5, <2>2 DEF NaFila
<1>8. CASE FilaDe(s)' \subseteq FilaDe(s)
  BY <1>3, <1>4, <1>8, ContadoMantido
<1>9. CASE ~ (FilaDe(s)' \subseteq FilaDe(s))
  <2>1. /\ e.s = s /\ e.tipo # "term" /\ NaFila' = NaFila \cup {e}
        /\ FilaDe(s)' \subseteq FilaDe(s) \cup {e}
    BY <1>7, <1>9 DEF FilaDe, NaFila
  <2>2. Passou(p, "keep")
    <3>1. fila' # fila
      BY <1>9 DEF FilaDe, NaFila
    <3>. QED
      BY <1>2, <3>1
  <2>3. PICK k, i, f : k = PorContar(s)' /\ i = ItensDe(s)' /\ f = FilaDe(s)'
    OBVIOUS
  <2>4. p \in k /\ PorContar(s) \subseteq k \ {p}
    BY <1>4, <1>6, <2>1, <2>2, <2>3 DEF PorContar, Passou
  <2>5. IsFiniteSet(k)
    BY <2>3, ErlZmqAssumption, FS_Subset DEF PorContar
  <2>6. Cardinality(k) >= Cardinality(PorContar(s)) + 1 /\ Cardinality(k) \in Nat
        /\ Cardinality(PorContar(s)) \in Nat
    BY <2>4, <2>5, MenosUm
  <2>7. IsFiniteSet(FilaDe(s)) /\ Cardinality(ItensDe(s)) \in Nat
    BY <1>1, Finitas
  <2>8. Cardinality(f) <= Cardinality(FilaDe(s)) + 1 /\ Cardinality(f) \in Nat
        /\ Cardinality(FilaDe(s)) \in Nat
    BY <2>1, <2>3, <2>7, MaisUm
  <2>9. sock[s].refc \in Int
    BY <1>1 DEF TypeOK, TipoSock
  <2>10. sock'[s].refc + Cardinality(k) >= (IF Aberto(s)' THEN 1 ELSE 0)
                                          + Cardinality(i) + Cardinality(f)
    BY <1>3, <2>3, <2>6, <2>7, <2>8, <2>9 DEF Contado
  <2>. QED
    BY <2>3, <2>10 DEF Contado
<1>. QED
  BY <1>8, <1>9

(* The reference is counted.                                               *)
LEMMA ContadoKeep ==
    ASSUME Nucleo, Nucleo', NEW s \in Socks, Contado(s), NEW p \in Procs, Keep(p)
    PROVE  Contado(s)'
<1>1. TypeOK /\ Distinta(itens)
  BY DEF Nucleo, InvRefs
<1>2. /\ fila' = fila /\ itens' = itens /\ proc[p].pc = "keep" /\ EstadosIguais
      /\ sock'[s].refc = IF proc[p].op # "term" /\ s = proc[p].s THEN sock[s].refc + 1
                         ELSE sock[s].refc
      /\ Move(p)
  BY <1>1, EfeitoKeep DEF Quieto, Solto, Passou
<1>3. /\ ItensDe(s)' = ItensDe(s) /\ FilaDe(s)' = FilaDe(s)
      /\ Aberto(s)' <=> Aberto(s)
  BY <1>2 DEF ItensDe, NosItens, FilaDe, NaFila, Aberto, EstadosIguais
<1>4. CASE ~ (proc[p].op # "term" /\ s = proc[p].s)
  <2>1. PorContar(s) \subseteq PorContar(s)'
    BY <1>2, <1>4 DEF PorContar, Move
  <2>. QED
    BY <1>2, <1>3, <1>4, <2>1, ContadoMantido
<1>5. CASE proc[p].op # "term" /\ s = proc[p].s
  <2>1. PICK k : k = PorContar(s)'
    OBVIOUS
  <2>2. PorContar(s) \subseteq k \cup {p}
    BY <1>2, <2>1 DEF PorContar, Move
  <2>3. IsFiniteSet(k)
    BY <2>1, ErlZmqAssumption, FS_Subset DEF PorContar
  <2>4. Cardinality(PorContar(s)) <= Cardinality(k) + 1 /\ Cardinality(k) \in Nat
        /\ Cardinality(PorContar(s)) \in Nat
    BY <2>2, <2>3, MaisUm
  <2>5. sock[s].refc \in Int /\ sock'[s].refc = sock[s].refc + 1
    BY <1>1, <1>2, <1>5 DEF TypeOK, TipoSock
  <2>6. Cardinality(FilaDe(s)) \in Nat /\ Cardinality(ItensDe(s)) \in Nat
    BY <1>1, Finitas
  <2>7. sock'[s].refc + Cardinality(k) >= (IF Aberto(s)' THEN 1 ELSE 0)
                                          + Cardinality(ItensDe(s)) + Cardinality(FilaDe(s))
    BY <1>3, <2>4, <2>5, <2>6 DEF Contado
  <2>8. sock'[s].refc + Cardinality(PorContar(s)') >= (IF Aberto(s)' THEN 1 ELSE 0)
                                          + Cardinality(ItensDe(s)') + Cardinality(FilaDe(s)')
    BY <1>3, <2>1, <2>7
  <2>. QED
    BY <2>8 DEF Contado
<1>. QED
  BY <1>4, <1>5

(* An item is answered and dropped with its reference.                     *)
LEMMA ContadoAtendeu ==
    ASSUME Nucleo, Nucleo', NEW s \in Socks, Contado(s), NEW j \in DOMAIN itens, NEW v,
           Atendeu(j, v)
    PROVE  Contado(s)'
<1>1. TypeOK /\ Distinta(itens)
  BY DEF Nucleo, InvRefs
<1>2. /\ fila' = fila /\ proc' = proc /\ EstadosIguais
      /\ sock'[s].refc = IF s = itens[j].s THEN sock[s].refc - 1 ELSE sock[s].refc
      /\ NosItens' = NosItens \ {Campos(itens[j])} /\ Campos(itens[j]) \in NosItens
  BY DEF Atendeu, Tratou, Largou
<1>3. /\ PorContar(s)' = PorContar(s) /\ FilaDe(s)' = FilaDe(s)
      /\ Aberto(s)' <=> Aberto(s)
  BY <1>2 DEF PorContar, FilaDe, NaFila, Aberto, EstadosIguais
<1>4. CASE s # itens[j].s
  <2>1. ItensDe(s)' \subseteq ItensDe(s)
    BY <1>2 DEF ItensDe
  <2>. QED
    BY <1>2, <1>3, <1>4, <2>1, ContadoMantido
<1>5. CASE s = itens[j].s
  <2>1. PICK i : i = ItensDe(s)'
    OBVIOUS
  <2>2. Campos(itens[j]).s = itens[j].s
    BY DEF Campos
  <2>3. Campos(itens[j]) \in ItensDe(s) /\ i \subseteq ItensDe(s) \ {Campos(itens[j])}
    BY <1>2, <1>5, <2>1, <2>2 DEF ItensDe
  <2>4. /\ IsFiniteSet(ItensDe(s)) /\ Cardinality(PorContar(s)) \in Nat
        /\ Cardinality(FilaDe(s)) \in Nat
    BY <1>1, Finitas
  <2>5. Cardinality(i) + 1 <= Cardinality(ItensDe(s)) /\ Cardinality(i) \in Nat
        /\ Cardinality(ItensDe(s)) \in Nat
    BY <2>3, <2>4, MenosUm
  <2>6. sock[s].refc \in Int /\ sock'[s].refc = sock[s].refc - 1
    BY <1>1, <1>2, <1>5 DEF TypeOK, TipoSock
  <2>7. sock'[s].refc + Cardinality(PorContar(s)) >= (IF Aberto(s)' THEN 1 ELSE 0)
                                          + Cardinality(i) + Cardinality(FilaDe(s))
    BY <1>3, <2>4, <2>5, <2>6 DEF Contado
  <2>8. sock'[s].refc + Cardinality(PorContar(s)') >= (IF Aberto(s)' THEN 1 ELSE 0)
                                          + Cardinality(ItensDe(s)') + Cardinality(FilaDe(s)')
    BY <1>3, <2>1, <2>7
  <2>. QED
    BY <2>8 DEF Contado
<1>. QED
  BY <1>4, <1>5

(* A request becomes an item, or the full vector aborts.                   *)
LEMMA ContadoRegista ==
    ASSUME Nucleo, Nucleo', NEW s \in Socks, Contado(s), Regista
    PROVE  Contado(s)'
<1>1. TypeOK /\ InvEstado /\ InvLimites /\ InvRefs /\ Distinta(itens)
  BY DEF Nucleo, InvRefs
<1>2. PICK r : /\ Tirou(r) /\ r.tipo \in {"send", "recv"} /\ sock' = sock
               /\ Registou(r) \/ itens' = itens
  BY <1>1, EfeitoRegista
<1>3. proc' = proc /\ NaFila = {r} \cup NaFila' /\ \A d \in NaFila' : d.ref # r.ref
  BY <1>2 DEF Tirou
<1>4. /\ PorContar(s)' = PorContar(s) /\ sock'[s].refc = sock[s].refc
      /\ FilaDe(s)' \subseteq FilaDe(s) /\ (Aberto(s)' <=> Aberto(s))
  BY <1>2, <1>3 DEF PorContar, FilaDe, Aberto
<1>5. CASE ItensDe(s)' \subseteq ItensDe(s)
  BY <1>4, <1>5, ContadoMantido
<1>6. CASE ~ (ItensDe(s)' \subseteq ItensDe(s))
  <2>1. Registou(r)
    BY <1>2, <1>6 DEF ItensDe, NosItens
  <2>2. PICK e : e.s = r.s /\ NosItens' = NosItens \cup {Campos(e)}
    BY <2>1 DEF Registou
  <2>3. PICK c : c = Campos(e) /\ c.s = r.s
    <3>1. Campos(e).s = r.s
      BY <2>2 DEF Campos
    <3>. QED
      BY <3>1
  <2>4. r.s = s /\ ItensDe(s)' \subseteq ItensDe(s) \cup {c}
    BY <1>6, <2>2, <2>3 DEF ItensDe
  <2>5. PICK i, f : i = ItensDe(s)' /\ f = FilaDe(s)'
    OBVIOUS
  <2>6. r \in FilaDe(s) /\ f \subseteq FilaDe(s) \ {r}
    BY <1>2, <1>3, <2>4, <2>5 DEF FilaDe
  <2>7. /\ IsFiniteSet(ItensDe(s)) /\ Cardinality(PorContar(s)) \in Nat
        /\ IsFiniteSet(FilaDe(s))
    BY <1>1, Finitas
  <2>8. Cardinality(f) + 1 <= Cardinality(FilaDe(s)) /\ Cardinality(f) \in Nat
        /\ Cardinality(FilaDe(s)) \in Nat
    BY <2>6, <2>7, MenosUm
  <2>9. Cardinality(i) <= Cardinality(ItensDe(s)) + 1 /\ Cardinality(i) \in Nat
        /\ Cardinality(ItensDe(s)) \in Nat
    BY <2>4, <2>5, <2>7, MaisUm
  <2>10. sock[s].refc \in Int
    BY <1>1 DEF TypeOK, TipoSock
  <2>11. sock'[s].refc + Cardinality(PorContar(s)) >= (IF Aberto(s)' THEN 1 ELSE 0)
                                          + Cardinality(i) + Cardinality(f)
    BY <1>4, <2>7, <2>8, <2>9, <2>10 DEF Contado
  <2>12. sock'[s].refc + Cardinality(PorContar(s)') >= (IF Aberto(s)' THEN 1 ELSE 0)
                                          + Cardinality(ItensDe(s)') + Cardinality(FilaDe(s)')
    BY <1>4, <2>5, <2>11
  <2>. QED
    BY <2>12 DEF Contado
<1>. QED
  BY <1>5, <1>6

(* CLOSE gives back the socket's own reference and those of its items.     *)
LEMMA ContadoClose ==
    ASSUME Nucleo, Nucleo', NEW s \in Socks, Contado(s), Close
    PROVE  Contado(s)'
<1>1. TypeOK /\ InvEstado /\ InvLimites /\ InvRefs /\ Distinta(itens)
  BY DEF Nucleo, InvRefs
<1>2. PICK r : /\ Tirou(r)
               /\ \/ UNCHANGED <<itens, sock>>
                  \/ Aberto(r.s) /\ Fechou(r.s)
  BY <1>1, EfeitoClose
<1>3. proc' = proc /\ NaFila = {r} \cup NaFila'
  BY <1>2 DEF Tirou
<1>4. PorContar(s)' = PorContar(s) /\ FilaDe(s)' \subseteq FilaDe(s)
  BY <1>3 DEF PorContar, FilaDe
<1>5. CASE UNCHANGED <<itens, sock>>
  <2>1. ItensDe(s)' = ItensDe(s) /\ sock'[s].refc = sock[s].refc /\ (Aberto(s)' <=> Aberto(s))
    BY <1>5 DEF ItensDe, NosItens, Aberto
  <2>. QED
    BY <1>4, <2>1, ContadoMantido
<1>6. CASE Fechou(r.s) /\ r.s # s
  <2>1. /\ ItensDe(s)' \subseteq ItensDe(s) /\ sock'[s].refc = sock[s].refc
        /\ Aberto(s)' <=> Aberto(s)
    BY <1>6 DEF ItensDe, Fechou, Aberto
  <2>. QED
    BY <1>4, <2>1, ContadoMantido
<1>7. CASE Aberto(s) /\ Fechou(s)
  <2>1. /\ ~ Aberto(s)' /\ NosItens' = {e \in NosItens : ~ (e.zmq /\ e.s = s)}
        /\ sock'[s].refc = sock[s].refc - 1 - Cardinality(DoSocket(s))
    BY <1>7 DEF Fechou, Aberto
  <2>2. PICK c : c = {Campos(itens[k]) : k \in DoSocket(s)}
    OBVIOUS
  <2>3. DoSocket(s) \in SUBSET DOMAIN itens /\ itens \in Seq(TipoItem)
    BY <1>1 DEF DoSocket, TypeOK
  <2>4. IsFiniteSet(c) /\ Cardinality(c) = Cardinality(DoSocket(s))
    BY <1>1, <2>2, <2>3, TantosItens
  <2>5. PICK i, f : i = ItensDe(s)' /\ f = FilaDe(s)'
    OBVIOUS
  <2>6. c \subseteq ItensDe(s) /\ i \subseteq ItensDe(s) \ c
    <3>1. ASSUME NEW k \in DoSocket(s)
          PROVE  /\ Campos(itens[k]) \in ItensDe(s)
                 /\ Campos(itens[k]).zmq /\ Campos(itens[k]).s = s
      BY DEF DoSocket, Campos, ItensDe, NosItens, Vistos
    <3>2. \A x \in c : x \in ItensDe(s) /\ x.zmq /\ x.s = s
      BY <2>2, <3>1
    <3>3. i = {e \in NosItens : ~ (e.zmq /\ e.s = s) /\ e.s = s}
      BY <2>1, <2>5 DEF ItensDe
    <3>. QED
      BY <3>2, <3>3 DEF ItensDe
  <2>7. /\ IsFiniteSet(ItensDe(s)) /\ Cardinality(PorContar(s)) \in Nat
        /\ IsFiniteSet(FilaDe(s)) /\ Cardinality(ItensDe(s)) \in Nat
    BY <1>1, Finitas
  <2>8. Cardinality(f) <= Cardinality(FilaDe(s)) /\ Cardinality(f) \in Nat
        /\ Cardinality(FilaDe(s)) \in Nat
    BY <1>4, <2>5, <2>7, NaoCresce
  <2>9. IsFiniteSet(ItensDe(s) \ c)
        /\ Cardinality(ItensDe(s) \ c) = Cardinality(ItensDe(s)) - Cardinality(c)
    <3>1. ItensDe(s) \cap c = c
      BY <2>6
    <3>. QED
      BY <2>7, <3>1, FS_Difference
  <2>10. Cardinality(i) <= Cardinality(ItensDe(s) \ c) /\ Cardinality(i) \in Nat
    BY <2>6, <2>9, NaoCresce
  <2>11. sock[s].refc \in Int /\ Cardinality(DoSocket(s)) \in Nat
    BY <1>1, <1>7 DEF TypeOK, TipoSock, Fechou
  <2>12. sock'[s].refc + Cardinality(PorContar(s)) >= (IF Aberto(s)' THEN 1 ELSE 0)
                                          + Cardinality(i) + Cardinality(f)
    BY <1>7, <2>1, <2>4, <2>7, <2>8, <2>9, <2>10, <2>11 DEF Contado
  <2>13. sock'[s].refc + Cardinality(PorContar(s)') >= (IF Aberto(s)' THEN 1 ELSE 0)
                                          + Cardinality(ItensDe(s)') + Cardinality(FilaDe(s)')
    BY <1>4, <2>5, <2>12
  <2>. QED
    BY <2>13 DEF Contado
<1>. QED
  BY <1>2, <1>5, <1>6, <1>7

(* TERM gives back the references of all items; those of requests still on *)
(* the pipe stay.                                                          *)
LEMMA ContadoTerm ==
    ASSUME Nucleo, Nucleo', NEW s \in Socks, Contado(s), Term
    PROVE  Contado(s)'
<1>1. TypeOK /\ InvEstado /\ InvLimites /\ Distinta(itens)
  BY DEF Nucleo, InvRefs
<1>2. PICK d : d = {i \in DOMAIN itens : itens[i].s = s}
  OBVIOUS
<1>3. /\ proc' = proc /\ itens' = << >> /\ fila' = << >>
      /\ sock'[s].refc = sock[s].refc - Cardinality(d)
      /\ Aberto(s)' => Aberto(s)
  BY <1>1, <1>2, EfeitoTerm DEF Aberto
<1>4. PorContar(s)' = PorContar(s) /\ ItensDe(s)' = {} /\ FilaDe(s)' = {}
  BY <1>3 DEF PorContar, ItensDe, NosItens, Vistos, FilaDe, NaFila, Range
<1>5. /\ Cardinality(ItensDe(s)) = Cardinality(d) /\ Cardinality(FilaDe(s)) \in Nat
      /\ Cardinality(PorContar(s)) \in Nat /\ Cardinality(ItensDe(s)) \in Nat
  <2>1. d \in SUBSET DOMAIN itens /\ itens \in Seq(TipoItem)
    BY <1>1, <1>2 DEF TypeOK
  <2>2. ItensDe(s) = {Campos(itens[k]) : k \in d}
    BY <1>2 DEF ItensDe, NosItens, Vistos, Campos
  <2>. QED
    BY <1>1, <2>1, <2>2, TantosItens, Finitas
<1>6. sock[s].refc \in Int
  BY <1>1 DEF TypeOK, TipoSock
<1>7. sock'[s].refc + Cardinality(PorContar(s)) >= (IF Aberto(s)' THEN 1 ELSE 0)
  <2>1. sock[s].refc + Cardinality(PorContar(s)) >= (IF Aberto(s) THEN 1 ELSE 0)
                                          + Cardinality(d) + Cardinality(FilaDe(s))
    BY <1>5 DEF Contado
  <2>2. Cardinality(d) \in Nat
    BY <1>5
  <2>. QED
    BY <1>3, <1>5, <1>6, <2>1, <2>2
<1>8. Cardinality(ItensDe(s)') = 0 /\ Cardinality(FilaDe(s)') = 0
  BY <1>4, FS_EmptySet
<1>9. sock'[s].refc + Cardinality(PorContar(s)') >= (IF Aberto(s)' THEN 1 ELSE 0) + 0 + 0
  <2>1. sock'[s].refc + Cardinality(PorContar(s)) \in Int
    BY <1>3, <1>5, <1>6
  <2>. QED
    BY <1>4, <1>7, <2>1
<1>. QED
  BY <1>8, <1>9 DEF Contado

(* The steps of a call that keep its requests as they are.                 *)
LEMMA ContadoDaChamada ==
    ASSUME Nucleo, Nucleo', NEW s \in Socks, Contado(s), NEW p \in Procs,
           \/ Bind(p) \/ Setsockopt(p) \/ Tenta(p) \/ TrancaNula(p) \/ TestaCtx(p)
           \/ EnviaNula(p) \/ Getsockopt(p) \/ Recebe(p) \/ Expira(p)
    PROVE  Contado(s)'
<1>1. TypeOK /\ InvLimites /\ Distinta(itens)
  BY DEF Nucleo, InvRefs
<1>2. fila' = fila /\ itens' = itens
  BY <1>1, EfeitoBind, EfeitoSetsockopt, EfeitoTenta, EfeitoTrancaNula, EfeitoTestaCtx,
     EfeitoEnviaNula, EfeitoGetsockopt, EfeitoRecebe, EfeitoExpira DEF Quieto
<1>3. proc' = proc \/ (Move(p) /\ proc[p].pc # "keep")
  BY ZenonT(40), <1>1, EfeitoBind, EfeitoSetsockopt, EfeitoTenta, EfeitoTrancaNula, EfeitoTestaCtx,
     EfeitoEnviaNula, EfeitoGetsockopt, EfeitoRecebe, EfeitoExpira DEF Solto, Passou
<1>4. PorContar(s) \subseteq PorContar(s)' /\ ItensDe(s)' = ItensDe(s) /\ FilaDe(s)' = FilaDe(s)
  BY <1>2, <1>3 DEF PorContar, Move, ItensDe, NosItens, FilaDe, NaFila
<1>5. CASE sock'[s].refc = sock[s].refc /\ sock'[s].estado = sock[s].estado
  BY <1>4, <1>5, ContadoMantido DEF Aberto
<1>6. CASE ~ (sock'[s].refc = sock[s].refc /\ sock'[s].estado = sock[s].estado)
  <2>1. EnviaNula(p)
    BY <1>1, <1>6, EfeitoBind, EfeitoSetsockopt, EfeitoTenta, EfeitoTrancaNula,
       EfeitoTestaCtx, EfeitoGetsockopt, EfeitoRecebe, EfeitoExpira DEF EstadosIguais
  <2>2. /\ Aberto(s) /\ sock'[s].estado = "fechado" /\ sock'[s].refc = sock[s].refc - 1
        /\ proc[p].pc = "envia" /\ Move(p)
    BY <1>1, <1>6, <2>1, EfeitoEnviaNula DEF Solto
  <2>3. PorContar(s)' = PorContar(s)
    <3>1. p \notin PorContar(s) /\ p \notin PorContar(s)'
      BY <1>1, <1>6, <2>1, <2>2, EfeitoEnviaNula DEF PorContar, Solto
    <3>. QED
      BY <2>2, <3>1 DEF PorContar, Move
  <2>4. ~ Aberto(s)'
    BY <2>2 DEF Aberto
  <2>5. /\ sock[s].refc \in Int /\ Cardinality(PorContar(s)) \in Nat
        /\ Cardinality(FilaDe(s)) \in Nat /\ Cardinality(ItensDe(s)) \in Nat
    BY <1>1, Finitas DEF TypeOK, TipoSock
  <2>6. sock'[s].refc + Cardinality(PorContar(s)) >= (IF Aberto(s)' THEN 1 ELSE 0)
                                          + Cardinality(ItensDe(s)) + Cardinality(FilaDe(s))
    BY <2>2, <2>4, <2>5 DEF Contado
  <2>7. sock'[s].refc + Cardinality(PorContar(s)') >= (IF Aberto(s)' THEN 1 ELSE 0)
                                          + Cardinality(ItensDe(s)') + Cardinality(FilaDe(s)')
    BY <1>4, <2>3, <2>6
  <2>. QED
    BY <2>7 DEF Contado
<1>. QED
  BY <1>5, <1>6

(* A new socket has its own reference.                                     *)
LEMMA ContadoSocket ==
    ASSUME Nucleo, Nucleo', NEW s \in Socks, Contado(s),
           sock[s].estado = "nada" => sock[s].refc = 0,
           NEW p \in Procs, NEW t \in Socks, NEW a \in {"OFF", "PENDING"}, Socket(p, t, a)
    PROVE  Contado(s)'
<1>1. TypeOK /\ Distinta(itens)
  BY DEF Nucleo, InvRefs
<1>2. fila' = fila /\ itens' = itens /\ proc' = proc
  BY <1>1, EfeitoSocket
<1>3. PorContar(s) = PorContar(s)' /\ ItensDe(s)' = ItensDe(s) /\ FilaDe(s)' = FilaDe(s)
  BY <1>2 DEF PorContar, ItensDe, NosItens, FilaDe, NaFila
<1>4. CASE sock'[s] = sock[s]
  BY <1>3, <1>4, ContadoMantido DEF Aberto
<1>5. CASE sock'[s] # sock[s]
  <2>1. sock[s].estado = "nada" /\ sock'[s].refc = 1
    BY <1>1, <1>5, EfeitoSocket
  <2>2. /\ sock[s].refc \in Int /\ Cardinality(PorContar(s)) \in Nat
        /\ Cardinality(FilaDe(s)) \in Nat /\ Cardinality(ItensDe(s)) \in Nat
    BY <1>1, Finitas DEF TypeOK, TipoSock
  <2>3. sock'[s].refc + Cardinality(PorContar(s)) >= (IF Aberto(s)' THEN 1 ELSE 0)
                                          + Cardinality(ItensDe(s)) + Cardinality(FilaDe(s))
    BY <2>1, <2>2 DEF Contado
  <2>4. sock'[s].refc + Cardinality(PorContar(s)') >= (IF Aberto(s)' THEN 1 ELSE 0)
                                          + Cardinality(ItensDe(s)') + Cardinality(FilaDe(s)')
    BY <1>3, <2>3
  <2>. QED
    BY <2>4 DEF Contado
<1>. QED
  BY <1>4, <1>5

(* Every step keeps a socket's references counted.                         *)
LEMMA ContadoPasso ==
    ASSUME Nucleo, Nucleo', InvReferencias, [Next]_vars, NEW s \in Socks
    PROVE  Contado(s)'
<1>1. TypeOK /\ InvEstado /\ InvLimites /\ InvRefs /\ Distinta(itens)
  BY DEF Nucleo, InvRefs
<1>2. Contado(s) /\ (sock[s].estado = "nada" => sock[s].refc = 0)
  BY DEF InvReferencias
<1>3. ASSUME UNCHANGED <<sock, fila, proc>>, NosItens' = NosItens
      PROVE  Contado(s)'
  <2>1. /\ PorContar(s)' = PorContar(s) /\ ItensDe(s)' = ItensDe(s) /\ FilaDe(s)' = FilaDe(s)
        /\ Aberto(s)' <=> Aberto(s)
    BY <1>3 DEF PorContar, ItensDe, FilaDe, NaFila, Aberto
  <2>. QED
    BY <1>2, <1>3, <2>1, ContadoMantido
<1>4. CASE Context
  BY <1>1, <1>3, <1>4, EfeitoContext DEF NosItens
<1>5. ASSUME NEW p \in Procs, NEW t \in Socks, NEW a \in {"OFF", "PENDING"}, Socket(p, t, a)
      PROVE  Contado(s)'
  BY <1>2, <1>5, ContadoSocket
<1>6. ASSUME NEW p \in Procs, NEW t \in Socks,
             NEW op \in {"bind", "setsockopt", "send", "recv", "close", "term"}, Chama(p, op, t)
      PROVE  Contado(s)'
  <2>1. UNCHANGED <<sock, fila, itens>> /\ proc[p].pc = "livre" /\ Move(p)
    BY <1>1, <1>6, EfeitoChama
  <2>2. PorContar(s) \subseteq PorContar(s)'
    BY <2>1 DEF PorContar, Move
  <2>3. ItensDe(s)' = ItensDe(s) /\ FilaDe(s)' = FilaDe(s) /\ (Aberto(s)' <=> Aberto(s))
    BY <2>1 DEF ItensDe, NosItens, FilaDe, NaFila, Aberto
  <2>. QED
    BY <1>2, <2>1, <2>2, <2>3, ContadoMantido
<1>7. ASSUME NEW p \in Procs, DentroDaChamada(p) \/ Expira(p)
      PROVE  Contado(s)'
  BY <1>2, <1>7, ContadoDaChamada, ContadoEnvia, ContadoKeep DEF DentroDaChamada
<1>8. CASE Fio
  <2>1. CASE Poll
    BY <1>1, <1>3, <2>1, EfeitoPoll DEF Viu, NosItens
  <2>2. CASE ItemAborta \/ ItemBloqueia \/ ZmqTerm
    BY <1>1, <1>3, <2>2, EfeitoAborta, EfeitoBloqueia, EfeitoZmqTerm DEF NosItens
  <2>3. CASE ItemRecv \/ ItemSend \/ ItemExpira
    <3>1. PICK i \in DOMAIN itens : Continuou(i) \/ \E v : Atendeu(i, v)
      BY <1>1, <2>3, EfeitoItemRecv, EfeitoItemSend, EfeitoItemExpira
    <3>2. CASE Continuou(i)
      BY <1>3, <3>2 DEF Continuou, Tratou, Manteve
    <3>3. CASE \E v : Atendeu(i, v)
      BY <1>2, <3>3, ContadoAtendeu
    <3>. QED
      BY <3>1, <3>2, <3>3
  <2>4. CASE PedidoTerm
    <3>1. PICK r : Tirou(r) /\ UNCHANGED <<sock, itens>>
      BY <1>1, <2>4, EfeitoPedidoTerm
    <3>2. /\ PorContar(s)' = PorContar(s) /\ ItensDe(s)' = ItensDe(s)
          /\ FilaDe(s)' \subseteq FilaDe(s) /\ (Aberto(s)' <=> Aberto(s))
      BY <3>1 DEF Tirou, PorContar, ItensDe, NosItens, FilaDe, Aberto
    <3>. QED
      BY <1>2, <3>1, <3>2, ContadoMantido
  <2>. QED
    BY <1>2, <1>8, <2>1, <2>2, <2>3, <2>4, ContadoRegista, ContadoClose, ContadoTerm DEF Fio
<1>9. ASSUME NEW t \in Socks, Chega(t) \/ Enche(t)
      PROVE  Contado(s)'
  BY <1>1, <1>3, <1>9, EfeitoChega, EfeitoEnche DEF NosItens
<1>10. CASE UNCHANGED vars
  BY <1>3, <1>10 DEF vars, NosItens
<1>. QED
  BY <1>4, <1>5, <1>6, <1>7, <1>8, <1>9, <1>10, LivreProperties DEF Next

(* A handle not opened yet has no reference: no request names it.          *)
LEMMA SemReferencias ==
    ASSUME Nucleo, InvAtivo, InvReferencias, [Next]_vars, NEW s \in Socks,
           sock'[s].estado = "nada"
    PROVE  sock'[s].refc = 0
<1>1. TypeOK /\ InvEstado /\ InvLimites /\ InvRefs /\ Distinta(itens)
  BY DEF Nucleo, InvRefs
<1>2. sock[s].estado = "nada" => sock[s].refc = 0
  BY DEF InvReferencias
<1>3. CASE sock'[s].estado = sock[s].estado /\ sock'[s].refc = sock[s].refc
  BY <1>2, <1>3
<1>4. CASE Context \/ UNCHANGED vars
  BY <1>1, <1>3, <1>4, EfeitoContext DEF vars
<1>5. ASSUME NEW p \in Procs, NEW t \in Socks, NEW a \in {"OFF", "PENDING"}, Socket(p, t, a)
      PROVE  sock'[s].refc = 0
  BY <1>1, <1>3, <1>5, EfeitoSocket
<1>6. ASSUME NEW p \in Procs, NEW t \in Socks,
             NEW op \in {"bind", "setsockopt", "send", "recv", "close", "term"}, Chama(p, op, t)
      PROVE  sock'[s].refc = 0
  BY <1>1, <1>3, <1>6, EfeitoChama
<1>7. ASSUME NEW p \in Procs, DentroDaChamada(p) \/ Expira(p)
      PROVE  sock'[s].refc = 0
  <2>1. CASE Keep(p)
    <3>1. proc[p].op # "term" => ModoDe(p)
      BY <1>1, <2>1, EfeitoKeep DEF InvAtivo, ModoDasChamadas, EmCurso
    <3>2. sock[s].estado = "nada"
      BY <1>1, <2>1, EfeitoKeep DEF EstadosIguais
    <3>3. sock'[s].refc = sock[s].refc
      BY <1>1, <2>1, <3>1, <3>2, EfeitoKeep DEF ModoDe
    <3>. QED
      BY <1>2, <3>2, <3>3
  <2>2. CASE EnviaNula(p)
    BY <1>1, <1>3, <2>2, EfeitoEnviaNula
  <2>3. CASE Bind(p) \/ Setsockopt(p)
    BY <1>1, <1>3, <2>3, EfeitoBind, EfeitoSetsockopt DEF EstadosIguais
  <2>4. CASE ~ (Keep(p) \/ EnviaNula(p) \/ Bind(p) \/ Setsockopt(p))
    <3>1. sock' = sock
      BY <1>1, <1>7, <2>4, EfeitoTenta, EfeitoTrancaNula, EfeitoTestaCtx, EfeitoEnvia,
         EfeitoGetsockopt, EfeitoRecebe, EfeitoExpira DEF DentroDaChamada
    <3>. QED
      BY <1>3, <3>1
  <2>. QED
    BY <2>1, <2>2, <2>3, <2>4
<1>8. CASE Fio
  <2>1. CASE ItemRecv \/ ItemSend \/ ItemExpira
    <3>1. PICK i \in DOMAIN itens : Continuou(i) \/ \E v : Atendeu(i, v)
      BY <1>1, <2>1, EfeitoItemRecv, EfeitoItemSend, EfeitoItemExpira
    <3>2. CASE Continuou(i)
      BY <1>3, <3>2 DEF Continuou, Manteve
    <3>3. CASE \E v : Atendeu(i, v)
      <4>1. Campos(itens[i]) \in Pedidas /\ Largou(i)
        BY <3>3 DEF Atendeu, Pedidas
      <4>2. Campos(itens[i]).s = itens[i].s /\ Campos(itens[i]).tipo = itens[i].tipo
        BY DEF Campos
      <4>3. itens[i].tipo # "term"
        BY <3>3 DEF Atendeu, TipoItem
      <4>4. sock[itens[i].s].estado # "nada"
        BY <4>1, <4>2, <4>3 DEF InvAtivo, LeituraPedida
      <4>. QED
        BY <1>3, <4>1, <4>4 DEF Largou, EstadosIguais
    <3>. QED
      BY <3>1, <3>2, <3>3
  <2>2. CASE Close
    BY <1>1, <1>3, <2>2, EfeitoClose DEF Fechou
  <2>3. CASE Term
    <3>1. PICK d : d = {i \in DOMAIN itens : itens[i].s = s}
      OBVIOUS
    <3>2. sock[s].estado = "nada" /\ sock'[s].refc = sock[s].refc - Cardinality(d)
      BY <1>1, <2>3, <3>1, EfeitoTerm
    <3>3. ASSUME NEW i \in d PROVE FALSE
      <4>1. i \in DOMAIN itens /\ itens[i].s = s /\ itens[i] \in TipoItem
        BY <1>1, <3>1 DEF TypeOK
      <4>2. Campos(itens[i]) \in Pedidas
        BY <4>1 DEF Pedidas, NosItens, Vistos
      <4>3. Campos(itens[i]).s = itens[i].s /\ Campos(itens[i]).tipo = itens[i].tipo
        BY DEF Campos
      <4>4. itens[i].tipo # "term"
        BY <4>1 DEF TipoItem
      <4>. QED
        BY <3>2, <4>1, <4>2, <4>3, <4>4 DEF InvAtivo, LeituraPedida
    <3>4. Cardinality(d) = 0
      <4>1. d = {}
        BY <3>3
      <4>. QED
        BY <4>1, FS_EmptySet
    <3>. QED
      BY <1>2, <3>2, <3>4
  <2>4. CASE ~ (ItemRecv \/ ItemSend \/ ItemExpira \/ Close \/ Term)
    <3>1. sock' = sock
      BY <1>1, <1>8, <2>4, EfeitoPoll, EfeitoAborta, EfeitoBloqueia, EfeitoRegista,
         EfeitoPedidoTerm, EfeitoZmqTerm DEF Fio
    <3>. QED
      BY <1>3, <3>1
  <2>. QED
    BY <2>1, <2>2, <2>3, <2>4
<1>9. ASSUME NEW t \in Socks, Chega(t) \/ Enche(t)
      PROVE  sock'[s].refc = 0
  BY <1>1, <1>3, <1>9, EfeitoChega, EfeitoEnche
<1>. QED
  BY <1>4, <1>5, <1>6, <1>7, <1>8, <1>9, LivreProperties DEF Next

(* Every step.                                                             *)
LEMMA ReferenciasPasso ==
    ASSUME Nucleo, InvAtivo, InvReferencias, [Next]_vars
    PROVE  InvReferencias'
<1>1. Nucleo'
  BY NucleoPasso
<1>. QED
  BY <1>1, ContadoPasso, SemReferencias DEF InvReferencias
-----------------------------------------------------------------------------
(* Messages reach Erlang in order.                                         *)

\* message v is on its way to process q, whose call reads socket t
Leva(q, t, v) == /\ EmCurso(q) /\ proc[q].s = t
                 /\ \E m \in caixa[q] : m.ref = proc[q].ref /\ m.res = v
SemLevas(t) == \A q \in Procs, v \in 1 .. MaxMsgs : ~ Leva(q, t, v)
\* o was handed over, a messages are on their way, b is still to come: c in all
Contiguas(o, a, b, c) == /\ Len(o) + a + Len(b) = c
                         /\ \A k \in 1 .. Len(o) : o[k] = k
                         /\ \A k \in 1 .. Len(b) : b[k] = Len(o) + a + k
EmOrdem(t) ==
    \/ SemLevas(t) /\ Contiguas(obtidas[t], 0, inbox[t], chegadas[t])
    \/ /\ \E q \in Procs : Leva(q, t, Len(obtidas[t]) + 1)
       /\ Contiguas(obtidas[t], 1, inbox[t], chegadas[t])
Virgens == \A t \in Socks : sock[t].estado = "nada" =>
              obtidas[t] = << >> /\ inbox[t] = << >> /\ chegadas[t] = 0
LevasCertas == \A q \in Procs, t \in Socks, v \in 1 .. MaxMsgs :
                  Leva(q, t, v) => sock[t].estado # "nada" /\ sock[t].active # "ON"
Entrega == Virgens /\ LevasCertas /\ \A t \in Socks : Aberto(t) => EmOrdem(t)
\* as long as no calls cross and none gives up waiting
InvEntrega == (~ abuso /\ ~ expirou) => Entrega

(* A message arrives ...                                                   *)
LEMMA ContiguasChega ==
    ASSUME NEW M, NEW o \in Seq(M), NEW b \in Seq(M), NEW a \in Nat, NEW c \in Nat, c + 1 \in M,
           Contiguas(o, a, b, c)
    PROVE  Contiguas(o, a, Append(b, c + 1), c + 1)
<1>1. PICK d, n : d = Append(b, c + 1) /\ n = Len(b)
  OBVIOUS
<1>2. /\ Len(d) = n + 1 /\ n \in Nat /\ d[n + 1] = c + 1
      /\ \A i \in 1 .. n : d[i] = b[i]
  BY <1>1, Acrescentado
<1>3. PICK l \in Nat : l = Len(o)
  OBVIOUS
<1>4. l + a + n = c /\ \A k \in 1 .. n : b[k] = l + a + k
  BY <1>1, <1>3 DEF Contiguas
<1>5. \A k \in 1 .. n + 1 : d[k] = l + a + k
  <2>. SUFFICES ASSUME NEW k \in 1 .. n + 1 PROVE d[k] = l + a + k
    OBVIOUS
  <2>1. CASE k = n + 1
    BY <1>2, <1>3, <1>4, <2>1
  <2>2. CASE k # n + 1
    <3>1. k \in 1 .. n
      BY <1>2, <2>2
    <3>. QED
      BY <1>2, <1>4, <3>1
  <2>. QED
    BY <2>1, <2>2
<1>6. l + a + (n + 1) = c + 1
  BY <1>2, <1>4
<1>. QED
  BY <1>1, <1>2, <1>3, <1>5, <1>6 DEF Contiguas

(* ... is taken from libzmq ...                                            *)
LEMMA ContiguasTira ==
    ASSUME NEW M, NEW o \in Seq(M), NEW b \in Seq(M), NEW c, b # << >>,
           Contiguas(o, 0, b, c)
    PROVE  Head(b) = Len(o) + 1 /\ Contiguas(o, 1, Tail(b), c)
<1>1. PICK d, h, n : d = Tail(b) /\ h = Head(b) /\ n = Len(b)
  OBVIOUS
<1>2. /\ Len(d) = n - 1 /\ n \in Nat /\ h = b[1] /\ 1 \in 1 .. n
      /\ \A i \in 1 .. n - 1 : d[i] = b[i + 1] /\ i + 1 \in 1 .. n
  BY <1>1, Retirado
<1>3. PICK l \in Nat : l = Len(o)
  OBVIOUS
<1>4. l + 0 + n = c /\ \A k \in 1 .. n : b[k] = l + 0 + k
  BY <1>1, <1>3 DEF Contiguas
<1>5. h = l + 1 /\ \A k \in 1 .. n - 1 : d[k] = l + 1 + k
  BY <1>2, <1>4
<1>6. l + 1 + (n - 1) = c
  BY <1>2, <1>4
<1>. QED
  BY <1>1, <1>2, <1>3, <1>5, <1>6 DEF Contiguas

(* ... and is handed over.                                                 *)
LEMMA ContiguasPoe ==
    ASSUME NEW M, NEW o \in Seq(M), NEW b \in Seq(M), NEW c, Len(o) + 1 \in M,
           Contiguas(o, 1, b, c)
    PROVE  Contiguas(Append(o, Len(o) + 1), 0, b, c)
<1>1. PICK d, l : d = Append(o, Len(o) + 1) /\ l = Len(o)
  OBVIOUS
<1>2. /\ Len(d) = l + 1 /\ l \in Nat /\ d[l + 1] = l + 1
      /\ \A i \in 1 .. l : d[i] = o[i]
  BY <1>1, Acrescentado
<1>3. PICK n \in Nat : n = Len(b)
  OBVIOUS
<1>4. l + 1 + n = c /\ (\A k \in 1 .. n : b[k] = l + 1 + k) /\ \A k \in 1 .. l : o[k] = k
  BY <1>1, <1>3 DEF Contiguas
<1>5. \A k \in 1 .. l + 1 : d[k] = k
  <2>. SUFFICES ASSUME NEW k \in 1 .. l + 1 PROVE d[k] = k
    OBVIOUS
  <2>1. CASE k = l + 1
    BY <1>2, <2>1
  <2>2. CASE k # l + 1
    <3>1. k \in 1 .. l
      BY <1>2, <2>2
    <3>. QED
      BY <1>2, <1>4, <3>1
  <2>. QED
    BY <2>1, <2>2
<1>6. \A k \in 1 .. n : b[k] = (l + 1) + 0 + k
  BY <1>2, <1>4
<1>7. (l + 1) + 0 + n = c
  BY <1>2, <1>4
<1>. QED
  BY <1>1, <1>2, <1>3, <1>5, <1>6, <1>7 DEF Contiguas

\* no message moves on t; or some do, and are in order afterwards
Ficou(t) == UNCHANGED <<obtidas[t], inbox[t], chegadas[t]>>
MesmasLevas(t) == \A q \in Procs, v \in 1 .. MaxMsgs : Leva(q, t, v)' <=> Leva(q, t, v)
Quieta(t) == /\ Aberto(t)' => Aberto(t)
             /\ (sock'[t].estado = "nada") <=> (sock[t].estado = "nada")
             /\ sock'[t].active = "ON" => sock[t].active = "ON" \/ SemLevas(t)
             /\ Aberto(t)' \/ sock[t].estado = "nada" => Ficou(t)
             /\ MesmasLevas(t)
Mexida(t) == /\ sock'[t].estado # "nada"
             /\ Aberto(t)' => EmOrdem(t)'
             /\ sock'[t].active = "ON" => SemLevas(t)'

(* A socket on which nothing moves stays in order.                         *)
LEMMA OrdemFica ==
    ASSUME NEW t, EmOrdem(t), Ficou(t), MesmasLevas(t), obtidas[t] \in Seq(1 .. MaxMsgs),
           inbox[t] \in Seq(1 .. MaxMsgs), chegadas[t] \in 0 .. MaxMsgs
    PROVE  EmOrdem(t)'
<1>1. PICK o, b, c : o = obtidas[t] /\ b = inbox[t] /\ c = chegadas[t]
  OBVIOUS
<1>2. o = obtidas'[t] /\ b = inbox'[t] /\ c = chegadas'[t]
  BY <1>1 DEF Ficou
<1>3. CASE SemLevas(t) /\ Contiguas(o, 0, b, c)
  <2>1. SemLevas(t)'
    BY <1>3 DEF SemLevas, MesmasLevas
  <2>. QED
    BY <1>2, <1>3, <2>1 DEF EmOrdem
<1>4. CASE (\E q \in Procs : Leva(q, t, Len(o) + 1)) /\ Contiguas(o, 1, b, c)
  <2>1. PICK q \in Procs : Leva(q, t, Len(o) + 1)
    BY <1>4
  <2>2. Len(o) + 1 \in 1 .. MaxMsgs
    <3>1. PICK l \in Nat, n \in Nat : l = Len(o) /\ n = Len(b)
      BY <1>1
    <3>2. l + 1 + n = c /\ c \in 0 .. MaxMsgs
      BY <1>1, <1>4, <3>1 DEF Contiguas
    <3>. QED
      BY <3>1, <3>2, ErlZmqAssumption
  <2>3. Leva(q, t, Len(o) + 1)'
    BY <2>1, <2>2 DEF MesmasLevas
  <2>4. Leva(q, t, Len(obtidas[t]) + 1)'
    BY <1>2, <2>3 DEF Leva
  <2>. QED
    BY <1>2, <1>4, <2>4 DEF EmOrdem
<1>. QED
  BY <1>1, <1>3, <1>4 DEF EmOrdem

(* Every socket is quiet or moved in order.                                *)
LEMMA EntregaMantida ==
    ASSUME TypeOK, Entrega, \A t \in Socks : Quieta(t) \/ Mexida(t)
    PROVE  Entrega'
<1>1. ASSUME NEW t \in Socks, sock'[t].estado = "nada"
      PROVE  obtidas'[t] = << >> /\ inbox'[t] = << >> /\ chegadas'[t] = 0
  BY <1>1 DEF Entrega, Virgens, Quieta, Mexida, Ficou
<1>2. ASSUME NEW q \in Procs, NEW t \in Socks, NEW v \in 1 .. MaxMsgs, Leva(q, t, v)'
      PROVE  sock'[t].estado # "nada" /\ sock'[t].active # "ON"
  <2>1. CASE Quieta(t)
    BY <1>2, <2>1 DEF Entrega, LevasCertas, Quieta, MesmasLevas, SemLevas
  <2>2. CASE Mexida(t)
    BY <1>2, <2>2 DEF Mexida, SemLevas
  <2>. QED
    BY <2>1, <2>2
<1>3. ASSUME NEW t \in Socks, Aberto(t)' PROVE EmOrdem(t)'
  <2>1. CASE Quieta(t)
    <3>1. obtidas[t] \in Seq(1 .. MaxMsgs) /\ inbox[t] \in Seq(1 .. MaxMsgs)
          /\ chegadas[t] \in 0 .. MaxMsgs
      BY DEF TypeOK
    <3>. QED
      BY <1>3, <2>1, <3>1, OrdemFica DEF Entrega, Quieta
  <2>2. CASE Mexida(t)
    BY <1>3, <2>2 DEF Mexida
  <2>. QED
    BY <2>1, <2>2
<1>. QED
  BY <1>1, <1>2, <1>3 DEF Entrega, Virgens, LevasCertas

\* no message is on its way to q; q is brought what it was
SoltaDe(q) == \A t \in Socks, v \in 1 .. MaxMsgs : ~ Leva(q, t, v)
MesmasDe(q) == \A t \in Socks, v \in 1 .. MaxMsgs : Leva(q, t, v)' <=> Leva(q, t, v)

(* A call not answered yet, or not under way, is brought nothing.          *)
LEMMA SoltaSemResposta ==
    ASSUME NEW q \in Procs, ~ EmCurso(q) \/ SemResposta(proc[q].ref)
    PROVE  SoltaDe(q)
BY DEF SoltaDe, Leva, SemResposta

(* Nor is one before its request is on the pipe.                           *)
LEMMA SoltaAntes ==
    ASSUME Nucleo, NEW q \in Procs, proc[q].pc \in Antes
    PROVE  SoltaDe(q)
<1>1. SemResposta(proc[q].ref)
  BY DEF Nucleo, InvRefs, RefNova
<1>. QED
  BY <1>1, SoltaSemResposta

(* A call that goes on, with the answers it had.                           *)
LEMMA MesmasSegue ==
    ASSUME NEW q \in Procs, EmCurso(q)' <=> EmCurso(q), proc'[q].s = proc[q].s,
           proc'[q].ref = proc[q].ref, caixa'[q] = caixa[q]
    PROVE  MesmasDe(q)
BY DEF MesmasDe, Leva

(* A call that was brought nothing and is brought nothing.                 *)
LEMMA MesmasSoltas ==
    ASSUME NEW q \in Procs, SoltaDe(q), SoltaDe(q)'
    PROVE  MesmasDe(q)
BY DEF MesmasDe, SoltaDe

(* Nothing moves but calls that are brought nothing.                       *)
LEMMA EntregaIgual ==
    ASSUME TypeOK, Entrega, UNCHANGED <<obtidas, inbox, chegadas>>,
           \A q \in Procs : MesmasDe(q),
           \A t \in Socks : /\ Aberto(t)' => Aberto(t)
                            /\ (sock'[t].estado = "nada") <=> (sock[t].estado = "nada")
                            /\ sock'[t].active = "ON" => sock[t].active = "ON" \/ SemLevas(t)
    PROVE  Entrega'
<1>1. \A t \in Socks : MesmasLevas(t)
  BY DEF MesmasLevas, MesmasDe
<1>2. \A t \in Socks : Ficou(t)
  BY DEF Ficou
<1>3. \A t \in Socks : Quieta(t)
  BY <1>1, <1>2 DEF Quieta
<1>. QED
  BY <1>3, EntregaMantida

(* While one process moves and no mailbox changes.                         *)
LEMMA MesmasDoProc ==
    ASSUME NEW p \in Procs, Move(p), caixa' = caixa, MesmasDe(p)
    PROVE  \A q \in Procs : MesmasDe(q)
<1>1. ASSUME NEW q \in Procs, q # p PROVE MesmasDe(q)
  <2>1. proc'[q] = proc[q] /\ caixa'[q] = caixa[q]
    BY <1>1 DEF Move
  <2>. QED
    BY <2>1, MesmasSegue DEF EmCurso
<1>. QED
  BY <1>1

(* A process that returns is brought nothing; one that goes on, the same.  *)
LEMMA MesmasSolto ==
    ASSUME NEW p \in Procs, Solto(p), SoltaDe(p)
    PROVE  MesmasDe(p)
<1>1. ~ EmCurso(p)'
  BY DEF Solto, EmCurso
<1>2. SoltaDe(p)'
  BY <1>1 DEF SoltaDe, Leva
<1>. QED
  BY <1>2, MesmasSoltas

(* The only call on a socket is brought nothing, and so is the socket.     *)
LEMMA SocketSolto ==
    ASSUME Separadas, NEW p \in Procs, EmCurso(p), SoltaDe(p), NEW t \in Socks, t = proc[p].s
    PROVE  SemLevas(t)
<1>. SUFFICES ASSUME NEW q \in Procs, NEW v \in 1 .. MaxMsgs, Leva(q, t, v) PROVE FALSE
  BY DEF SemLevas
<1>1. EmCurso(q) /\ proc[q].s = t
  BY DEF Leva
<1>2. q = p
  BY <1>1 DEF Separadas
<1>. QED
  BY <1>2 DEF SoltaDe

(* The steps of a call that move no message.                               *)
LEMMA EntregaDaChamada ==
    ASSUME Nucleo, InvDono, InvAtivo, Uso, Entrega, NEW p \in Procs,
           \/ Bind(p) \/ Setsockopt(p) \/ TrancaNula(p) \/ TestaCtx(p) \/ Envia(p)
           \/ EnviaNula(p) \/ Keep(p) \/ Getsockopt(p)
    PROVE  Entrega'
<1>1. TypeOK /\ InvLimites /\ InvEstado
  BY DEF Nucleo
<1>2. Servida(p) /\ Separadas
  BY DEF Uso, Servidas
<1>3. UNCHANGED <<obtidas, inbox, chegadas>>
  BY DEF Bind, Setsockopt, NaSecao, TrancaNula, TestaCtx, Envia, EnviaNula, Keep, Getsockopt,
         zmqVars, logVars
<1>4. ASSUME Move(p), caixa' = caixa, MesmasDe(p), EstadosIguais,
             \A t \in Socks : sock'[t].active = "ON" => sock[t].active = "ON" \/ SemLevas(t)
      PROVE  Entrega'
  <2>1. \A q \in Procs : MesmasDe(q)
    BY <1>4, MesmasDoProc
  <2>. QED
    BY <1>1, <1>3, <1>4, <2>1, EntregaIgual DEF EstadosIguais, Aberto
<1>5. ASSUME Solto(p), caixa' = caixa, SoltaDe(p), EstadosIguais, ActivesIguais
      PROVE  Entrega'
  BY <1>4, <1>5, MesmasSolto DEF Solto, ActivesIguais
<1>6. ASSUME Move(p), proc'[p].s = proc[p].s, proc'[p].ref = proc[p].ref,
             EmCurso(p)' <=> EmCurso(p), caixa' = caixa, EstadosIguais, ActivesIguais
      PROVE  Entrega'
  <2>1. MesmasDe(p)
    BY <1>6, MesmasSegue
  <2>. QED
    BY <1>4, <1>6, <2>1 DEF ActivesIguais
<1>7. sock' = sock => EstadosIguais /\ ActivesIguais
  BY DEF EstadosIguais, ActivesIguais
<1>8. CASE Bind(p)
  <2>1. proc[p].pc = "tranca" /\ caixa' = caixa /\ EmCurso(p)
    BY <1>1, <1>8, EfeitoBind DEF Quieto, EmCurso
  <2>2. SoltaDe(p)
    BY <2>1, SoltaAntes DEF Antes
  <2>3. CASE Solto(p) /\ sock' = sock
    BY <1>5, <1>7, <2>1, <2>2, <2>3
  <2>4. CASE /\ Move(p) /\ proc'[p].pc = "ctx" /\ proc'[p].s = proc[p].s
             /\ proc'[p].ref = proc[p].ref /\ EstadosIguais
             /\ \A t \in Socks : sock'[t].active = IF t = proc[p].s THEN "ON" ELSE sock[t].active
    <3>1. EmCurso(p)'
      BY <2>4 DEF EmCurso
    <3>2. MesmasDe(p)
      BY <2>1, <2>4, <3>1, MesmasSegue
    <3>3. \A t \in Socks : t = proc[p].s => SemLevas(t)
      BY <1>2, <2>1, <2>2, SocketSolto
    <3>. QED
      BY <1>4, <2>1, <2>4, <3>2, <3>3
  <2>. QED
    BY <1>1, <1>8, <2>3, <2>4, EfeitoBind
<1>9. CASE Setsockopt(p)
  <2>1. /\ proc[p].pc = "tranca" /\ caixa' = caixa /\ Solto(p) /\ EstadosIguais
        /\ ActivesIguais
    BY <1>1, <1>9, EfeitoSetsockopt DEF Quieto
  <2>2. SoltaDe(p)
    BY <2>1, SoltaAntes DEF Antes
  <2>. QED
    BY <1>5, <2>1, <2>2
<1>10. CASE TrancaNula(p)
  <2>1. /\ proc[p].pc = "tranca" /\ caixa' = caixa /\ sock' = sock
        /\ Solto(p) \/ proc' = proc
    BY <1>1, <1>10, EfeitoTrancaNula DEF Quieto
  <2>2. SoltaDe(p)
    BY <2>1, SoltaAntes DEF Antes
  <2>3. CASE proc' = proc
    BY <1>1, <1>6, <1>7, <2>1, <2>3 DEF Move, EmCurso, TypeOK
  <2>. QED
    BY <1>5, <1>7, <2>1, <2>2, <2>3
<1>11. CASE TestaCtx(p)
  <2>1. /\ proc[p].pc = "ctx" /\ caixa' = caixa /\ sock' = sock
        /\ Solto(p) \/ Passou(p, "envia")
    BY <1>1, <1>11, EfeitoTestaCtx DEF Quieto
  <2>2. SoltaDe(p)
    BY <2>1, SoltaAntes DEF Antes
  <2>3. CASE Passou(p, "envia")
    BY <1>6, <1>7, <2>1, <2>3 DEF Passou, EmCurso
  <2>. QED
    BY <1>5, <1>7, <2>1, <2>2, <2>3
<1>12. CASE Envia(p)
  <2>1. /\ proc[p].pc \in {"envia", "cheia"} /\ caixa' = caixa /\ sock' = sock
        /\ Passou(p, "keep") \/ Passou(p, "cheia")
    BY <1>1, <1>12, EfeitoEnvia
  <2>. QED
    BY <1>6, <1>7, <2>1 DEF Passou, EmCurso
<1>13. CASE EnviaNula(p)
  <2>1. proc[p].pc = "envia" /\ ctx = "terminado"
    BY <1>1, <1>13, EfeitoEnviaNula
  <2>. QED
    BY <1>2, <2>1 DEF Servida, EmCurso
<1>14. CASE Keep(p)
  <2>1. /\ proc[p].pc = "keep" /\ caixa' = caixa /\ EstadosIguais /\ ActivesIguais
        /\ \/ Solto(p) /\ proc[p].op = "ativa"
           \/ Passou(p, "timeo") \/ Passou(p, "espera")
    BY <1>1, <1>14, EfeitoKeep DEF Quieto
  <2>2. CASE Solto(p) /\ proc[p].op = "ativa"
    <3>1. EmCurso(p)
      BY <2>1 DEF EmCurso
    <3>2. sock[proc[p].s].active = "ON"
      BY <2>2, <3>1 DEF InvAtivo, ModoDasChamadas, ModoDe
    <3>3. SoltaDe(p)
      BY <3>2 DEF SoltaDe, Leva, Entrega, LevasCertas
    <3>. QED
      BY <1>5, <2>1, <2>2, <3>3
  <2>3. CASE Passou(p, "timeo") \/ Passou(p, "espera")
    BY <1>6, <2>1, <2>3 DEF Passou, EmCurso
  <2>. QED
    BY <2>1, <2>2, <2>3
<1>15. CASE Getsockopt(p)
  <2>1. /\ proc[p].pc = "timeo" /\ caixa' = caixa /\ sock' = sock
        /\ \/ /\ Move(p) /\ proc'[p].pc = "espera"
              /\ proc'[p].s = proc[p].s /\ proc'[p].ref = proc[p].ref
           \/ Passou(p, "morto") /\ ~ (Aberto(proc[p].s) /\ ~ Terminada)
    BY <1>1, <1>15, EfeitoGetsockopt DEF Quieto
  <2>2. Aberto(proc[p].s) /\ ~ Terminada
    <3>1. proc[p].op \in {"send", "recv"}
      BY <2>1 DEF InvDono, Regras
    <3>. QED
      BY <1>1, <1>2, <2>1, <3>1 DEF Servida, EmCurso, Depois, InvEstado
  <2>. QED
    BY <1>6, <1>7, <2>1, <2>2 DEF EmCurso
<1>. QED
  BY <1>8, <1>9, <1>10, <1>11, <1>12, <1>13, <1>14, <1>15

(* A call begins: its ref is in no mailbox.                                *)
LEMMA EntregaChama ==
    ASSUME Nucleo, Entrega, NEW p \in Procs, NEW s \in Socks,
           NEW op \in {"bind", "setsockopt", "send", "recv", "close", "term"}, Chama(p, op, s)
    PROVE  Entrega'
<1>1. TypeOK /\ InvLimites
  BY DEF Nucleo
<1>2. UNCHANGED <<obtidas, inbox, chegadas>>
  BY DEF Chama, zmqVars, logVars
<1>3. /\ caixa' = caixa /\ sock' = sock /\ proc[p].pc = "livre" /\ Move(p)
      /\ proc'[p].ref = chamadas + 1 /\ chamadas \in Nat
  BY <1>1, EfeitoChama
<1>4. SoltaDe(p)
  BY <1>3, SoltaSemResposta DEF EmCurso
<1>5. SoltaDe(p)'
  <2>1. \A m \in caixa'[p] : m.ref # proc'[p].ref
    BY <1>1, <1>3 DEF InvLimites
  <2>. QED
    BY <2>1 DEF SoltaDe, Leva
<1>6. \A q \in Procs : MesmasDe(q)
  BY <1>3, <1>4, <1>5, MesmasSoltas, MesmasDoProc
<1>. QED
  BY <1>1, <1>2, <1>3, <1>6, EntregaIgual DEF Aberto

(* Messages move on one socket only.                                       *)
LEMMA EntregaNum ==
    ASSUME TypeOK, Entrega, NEW s \in Socks, Mexida(s),
           \A t \in Socks : t # s => /\ Ficou(t) /\ MesmasLevas(t)
                                     /\ sock'[t].estado = sock[t].estado
                                     /\ sock'[t].active = sock[t].active
    PROVE  Entrega'
<1>1. ASSUME NEW t \in Socks, t # s PROVE Quieta(t)
  BY <1>1 DEF Quieta, Aberto
<1>. QED
  BY <1>1, EntregaMantida

(* What a socket that nothing is on its way from holds.                    *)
LEMMA OrdemSolta ==
    ASSUME TypeOK, NEW t \in Socks, EmOrdem(t), SemLevas(t)
    PROVE  Contiguas(obtidas[t], 0, inbox[t], chegadas[t])
<1>. SUFFICES ASSUME NEW q \in Procs, Leva(q, t, Len(obtidas[t]) + 1),
                     Contiguas(obtidas[t], 1, inbox[t], chegadas[t])
              PROVE  FALSE
  BY DEF EmOrdem
<1>1. PICK l \in Nat, n \in Nat : l = Len(obtidas[t]) /\ n = Len(inbox[t])
  <2>1. obtidas[t] \in Seq(1 .. MaxMsgs) /\ inbox[t] \in Seq(1 .. MaxMsgs)
    BY DEF TypeOK
  <2>. QED
    BY <2>1
<1>2. l + 1 + n = chegadas[t] /\ chegadas[t] \in 0 .. MaxMsgs
  BY <1>1 DEF Contiguas, TypeOK
<1>3. l + 1 \in 1 .. MaxMsgs
  <2>1. PICK c : c = chegadas[t]
    OBVIOUS
  <2>2. MaxMsgs \in Nat
    BY ErlZmqAssumption
  <2>. QED
    BY <1>2, <2>1, <2>2
<1>4. Leva(q, t, l + 1)
  BY <1>1
<1>5. PICK v \in 1 .. MaxMsgs : v = l + 1
  BY <1>3
<1>6. Leva(q, t, v)
  BY <1>4, <1>5
<1>. QED
  BY <1>6 DEF SemLevas

(* A message is read by the call that waits for the socket.                *)
LEMMA OrdemLida ==
    ASSUME TypeOK, NEW t \in Socks, EmOrdem(t), SemLevas(t), SemLevas(t)', inbox[t] # << >>,
           obtidas'[t] = Append(obtidas[t], Head(inbox[t])), inbox'[t] = Tail(inbox[t]),
           chegadas'[t] = chegadas[t]
    PROVE  EmOrdem(t)'
<1>1. PICK o, b, c, m : o = obtidas[t] /\ b = inbox[t] /\ c = chegadas[t] /\ m = Head(b)
  OBVIOUS
<1>. DEFINE M == 1 .. MaxMsgs
<1>2. o \in Seq(M) /\ b \in Seq(M) /\ m \in M /\ b # << >>
  BY <1>1, Mensagens DEF TypeOK
<1>3. Contiguas(o, 0, b, c)
  BY <1>1, OrdemSolta
<1>. HIDE DEF M
<1>4. m = Len(o) + 1 /\ Contiguas(o, 1, Tail(b), c)
  BY <1>1, <1>2, <1>3, ContiguasTira
<1>5. Tail(b) \in Seq(M)
  BY <1>2, HeadTailProperties
<1>6. Contiguas(Append(o, Len(o) + 1), 0, Tail(b), c)
  BY <1>2, <1>4, <1>5, ContiguasPoe
<1>7. Contiguas(obtidas'[t], 0, inbox'[t], chegadas'[t])
  BY <1>1, <1>4, <1>6
<1>. QED
  BY <1>7 DEF EmOrdem

(* The first attempt of a call.                                            *)
LEMMA EntregaTenta ==
    ASSUME Nucleo, Uso, Entrega, NEW p \in Procs, Tenta(p)
    PROVE  Entrega'
<1>1. TypeOK /\ InvLimites /\ Separadas
  BY DEF Nucleo, Uso
<1>2. /\ sock' = sock /\ proc[p].pc = "tranca" /\ caixa' = caixa /\ proc[p].s \in Socks
      /\ Solto(p) \/ Passou(p, "ctx")
  BY <1>1, EfeitoTenta DEF Quieto
<1>3. chegadas' = chegadas /\ Aberto(proc[p].s)
  BY DEF Tenta, NaSecao
<1>4. SoltaDe(p) /\ EmCurso(p)
  BY <1>2, SoltaAntes DEF Antes, EmCurso
<1>5. MesmasDe(p)
  <2>1. CASE Passou(p, "ctx")
    BY <1>2, <1>4, <2>1, MesmasSegue DEF Passou, EmCurso
  <2>. QED
    BY <1>2, <1>4, <2>1, MesmasSolto
<1>6. \A q \in Procs : MesmasDe(q)
  BY <1>2, <1>5, MesmasDoProc DEF Solto, Passou
<1>7. PICK s \in Socks : s = proc[p].s
  BY <1>2
<1>8. CASE UNCHANGED <<obtidas, inbox>>
  BY <1>1, <1>2, <1>3, <1>6, <1>8, EntregaIgual DEF Aberto
<1>9. CASE /\ inbox[s] # << >>
           /\ obtidas' = [obtidas EXCEPT ![s] = Append(@, Head(inbox[s]))]
           /\ inbox' = [inbox EXCEPT ![s] = Tail(@)]
  <2>1. obtidas \in [Socks -> Seq(1 .. MaxMsgs)] /\ inbox \in [Socks -> Seq(1 .. MaxMsgs)]
    BY <1>1 DEF TypeOK
  <2>2. /\ obtidas'[s] = Append(obtidas[s], Head(inbox[s])) /\ inbox'[s] = Tail(inbox[s])
        /\ \A t \in Socks : t # s => Ficou(t)
    BY <1>3, <1>9, <2>1 DEF Ficou
  <2>3. \A t \in Socks : MesmasLevas(t)
    BY <1>6 DEF MesmasLevas, MesmasDe
  <2>4. SemLevas(s)
    BY <1>1, <1>4, <1>7, SocketSolto
  <2>5. SemLevas(s)'
    BY <2>3, <2>4 DEF SemLevas, MesmasLevas
  <2>6. EmOrdem(s)
    BY <1>3, <1>7 DEF Entrega
  <2>7. EmOrdem(s)'
    BY <1>1, <1>3, <1>9, <2>2, <2>4, <2>5, <2>6, OrdemLida
  <2>8. Mexida(s)
    BY <1>2, <1>3, <1>7, <2>5, <2>7 DEF Mexida, Aberto
  <2>. QED
    BY <1>1, <1>2, <2>2, <2>3, <2>8, EntregaNum
<1>. QED
  BY <1>7, <1>8, <1>9 DEF Tenta

(* The call is handed what was brought to it.                              *)
LEMMA EntregaRecebe ==
    ASSUME Nucleo, Uso, Entrega, NEW p \in Procs, Recebe(p)
    PROVE  Entrega'
<1>1. TypeOK /\ InvLimites /\ Separadas /\ RespostaUnica
  BY DEF Nucleo, Uso, InvRefs
<1>2. /\ sock' = sock /\ inbox' = inbox /\ proc[p].pc = "espera" /\ Solto(p)
      /\ \A q \in Procs : q # p => caixa'[q] = caixa[q]
  BY <1>1, EfeitoRecebe
<1>3. PICK m \in caixa[p] :
        /\ m.ref = proc[p].ref
        /\ obtidas' = IF m.res = 0 THEN obtidas
                      ELSE [obtidas EXCEPT ![proc[p].s] = Append(@, m.res)]
  BY DEF Recebe
<1>4. chegadas' = chegadas
  BY DEF Recebe, zmqVars
<1>5. PICK s \in Socks : s = proc[p].s
  <2>1. proc[p] \in TipoProc
    BY <1>1 DEF TypeOK
  <2>. QED
    BY <2>1 DEF TipoProc
<1>6. EmCurso(p) /\ ~ EmCurso(p)'
  BY <1>2 DEF EmCurso, Solto
<1>7. SoltaDe(p)'
  BY <1>6 DEF SoltaDe, Leva
<1>8. \A q \in Procs : q # p => MesmasDe(q)
  <2>1. ASSUME NEW q \in Procs, q # p PROVE MesmasDe(q)
    <3>1. proc'[q] = proc[q] /\ caixa'[q] = caixa[q]
      BY <1>2, <2>1 DEF Solto, Move
    <3>. QED
      BY <3>1, MesmasSegue DEF EmCurso
  <2>. QED
    BY <2>1
<1>9. \A n \in caixa[p] : n.ref = proc[p].ref => n = m
  BY <1>1, <1>3 DEF RespostaUnica
<1>10. CASE m.res = 0
  <2>1. SoltaDe(p)
    BY <1>9, <1>10 DEF SoltaDe, Leva
  <2>2. \A q \in Procs : MesmasDe(q)
    BY <1>7, <1>8, <2>1, MesmasSoltas
  <2>. QED
    BY <1>1, <1>2, <1>3, <1>4, <1>10, <2>2, EntregaIgual DEF Aberto
<1>11. CASE m.res # 0
  <2>1. m.res \in 1 .. MaxMsgs
    <3>1. m \in TipoResposta
      BY <1>1 DEF TypeOK
    <3>2. m.res \in 0 .. MaxMsgs
      BY <3>1 DEF TipoResposta
    <3>. QED
      BY <1>11, <3>2, ErlZmqAssumption
  <2>2. Leva(p, s, m.res)
    BY <1>3, <1>5, <1>6 DEF Leva
  <2>3. sock[s].estado # "nada" /\ sock[s].active # "ON"
    BY <2>1, <2>2 DEF Entrega, LevasCertas
  <2>4. ASSUME NEW q \in Procs, EmCurso(q), proc[q].s = s PROVE q = p
    BY <1>1, <1>5, <1>6, <2>4 DEF Separadas
  <2>5. SemLevas(s)'
    <3>. SUFFICES ASSUME NEW q \in Procs, NEW v \in 1 .. MaxMsgs, Leva(q, s, v)' PROVE FALSE
      BY DEF SemLevas
    <3>1. q # p
      BY <1>6 DEF Leva
    <3>2. Leva(q, s, v)
      BY <1>8, <3>1 DEF MesmasDe
    <3>. QED
      BY <2>4, <3>1, <3>2 DEF Leva
  <2>6. \A t \in Socks : t # s => MesmasLevas(t)
    <3>. SUFFICES ASSUME NEW t \in Socks, t # s, NEW q \in Procs, NEW v \in 1 .. MaxMsgs
                  PROVE  Leva(q, t, v)' <=> Leva(q, t, v)
      BY DEF MesmasLevas
    <3>1. CASE q = p
      BY <1>5, <1>6, <3>1 DEF Leva
    <3>2. CASE q # p
      BY <1>8, <3>2 DEF MesmasDe
    <3>. QED
      BY <3>1, <3>2
  <2>7. obtidas \in [Socks -> Seq(1 .. MaxMsgs)] /\ inbox \in [Socks -> Seq(1 .. MaxMsgs)]
    BY <1>1 DEF TypeOK
  <2>8. /\ obtidas'[s] = Append(obtidas[s], m.res)
        /\ \A t \in Socks : t # s => Ficou(t)
    BY <1>2, <1>3, <1>4, <1>5, <1>11, <2>7 DEF Ficou
  <2>9. ASSUME EmOrdem(s) PROVE EmOrdem(s)'
    <3>1. ~ SemLevas(s)
      BY <2>1, <2>2 DEF SemLevas
    <3>2. PICK q \in Procs : Leva(q, s, Len(obtidas[s]) + 1)
      BY <2>9, <3>1 DEF EmOrdem
    <3>3. q = p
      BY <2>4, <3>2 DEF Leva
    <3>4. m.res = Len(obtidas[s]) + 1
      BY <1>9, <3>2, <3>3 DEF Leva
    <3>5. Contiguas(obtidas[s], 1, inbox[s], chegadas[s])
      BY <2>9, <3>1 DEF EmOrdem
    <3>6. Contiguas(Append(obtidas[s], Len(obtidas[s]) + 1), 0, inbox[s], chegadas[s])
      BY <2>1, <2>7, <3>4, <3>5, ContiguasPoe
    <3>7. Contiguas(obtidas'[s], 0, inbox'[s], chegadas'[s])
      BY <1>2, <1>4, <2>8, <3>4, <3>6
    <3>. QED
      BY <2>5, <3>7 DEF EmOrdem
  <2>10. Mexida(s)
    BY <1>2, <2>3, <2>5, <2>9 DEF Mexida, Entrega, Aberto
  <2>. QED
    BY <1>1, <1>2, <2>6, <2>8, <2>10, EntregaNum
<1>. QED
  BY <1>10, <1>11

(* A message arrives on a socket.                                          *)
LEMMA EntregaChega ==
    ASSUME Nucleo, Entrega, NEW s \in Socks, Chega(s)
    PROVE  Entrega'
<1>1. TypeOK /\ sock' = sock /\ proc' = proc /\ caixa' = caixa
  BY EfeitoChega DEF Nucleo
<1>2. /\ Aberto(s) /\ obtidas' = obtidas /\ chegadas[s] < MaxMsgs
      /\ chegadas' = [chegadas EXCEPT ![s] = @ + 1]
      /\ inbox' = [inbox EXCEPT ![s] = Append(@, chegadas'[s])]
  BY DEF Chega, logVars
<1>3. PICK o, b, c : o = obtidas[s] /\ b = inbox[s] /\ c = chegadas[s]
  OBVIOUS
<1>4. /\ inbox \in [Socks -> Seq(1 .. MaxMsgs)] /\ chegadas \in [Socks -> 0 .. MaxMsgs]
      /\ obtidas \in [Socks -> Seq(1 .. MaxMsgs)]
  BY <1>1 DEF TypeOK
<1>5. /\ obtidas'[s] = o /\ chegadas'[s] = c + 1 /\ inbox'[s] = Append(b, c + 1)
      /\ \A t \in Socks : t # s => Ficou(t)
  BY <1>2, <1>3, <1>4 DEF Ficou
<1>6. c \in Nat /\ c + 1 \in 1 .. MaxMsgs
  BY <1>2, <1>3, <1>4, ErlZmqAssumption
<1>. DEFINE M == 1 .. MaxMsgs
<1>7. o \in Seq(M) /\ b \in Seq(M) /\ c + 1 \in M
  BY <1>3, <1>4, <1>6
<1>8. \A q, t, v : Leva(q, t, v)' <=> Leva(q, t, v)
  BY <1>1 DEF Leva, EmCurso
<1>9. \A t \in Socks : MesmasLevas(t) /\ (SemLevas(t)' <=> SemLevas(t))
  BY <1>8 DEF MesmasLevas, SemLevas
<1>10. EmOrdem(s)
  BY <1>2 DEF Entrega
<1>. HIDE DEF M
<1>11. \A a \in {0, 1} : Contiguas(o, a, b, c) => Contiguas(o, a, Append(b, c + 1), c + 1)
  BY <1>6, <1>7, ContiguasChega
<1>12. EmOrdem(s)'
  <2>1. CASE SemLevas(s) /\ Contiguas(o, 0, b, c)
    BY <1>5, <1>9, <1>11, <2>1 DEF EmOrdem
  <2>2. CASE (\E q \in Procs : Leva(q, s, Len(o) + 1)) /\ Contiguas(o, 1, b, c)
    <3>1. PICK q \in Procs : Leva(q, s, Len(o) + 1)'
      BY <1>8, <2>2
    <3>2. Leva(q, s, Len(obtidas[s]) + 1)'
      BY <1>5, <3>1 DEF Leva
    <3>3. Contiguas(obtidas[s], 1, inbox[s], chegadas[s])'
      BY <1>5, <1>11, <2>2
    <3>. QED
      BY <3>2, <3>3 DEF EmOrdem
  <2>. QED
    BY <1>3, <1>10, <2>1, <2>2 DEF EmOrdem
<1>13. sock[s].active = "ON" => SemLevas(s)
  BY DEF Entrega, LevasCertas, SemLevas
<1>14. Mexida(s)
  BY <1>1, <1>2, <1>9, <1>12, <1>13 DEF Mexida, Aberto
<1>. QED
  BY <1>1, <1>5, <1>9, <1>14, EntregaNum

(* A new socket has no messages, and none is on its way from it.           *)
LEMMA EntregaSocket ==
    ASSUME Nucleo, Entrega, ~ abuso', NEW p \in Procs, NEW s \in Socks,
           NEW a \in {"OFF", "PENDING"}, Socket(p, s, a)
    PROVE  Entrega'
<1>1. /\ TypeOK /\ proc' = proc /\ caixa' = caixa /\ sock[s].estado = "nada"
      /\ sock'[s].estado = "aberto" /\ sock'[s].active = a
      /\ \A t \in Socks : t # s => sock'[t] = sock[t]
  BY EfeitoSocket DEF Nucleo
<1>2. UNCHANGED <<obtidas, inbox, chegadas>>
  BY DEF Socket, zmqVars, logVars
<1>3. \A t \in Socks : Ficou(t) /\ MesmasLevas(t) /\ (SemLevas(t)' <=> SemLevas(t))
  BY <1>1, <1>2 DEF Ficou, MesmasLevas, SemLevas, Leva, EmCurso
<1>4. SemLevas(s)
  BY <1>1 DEF SemLevas, Entrega, LevasCertas
<1>5. obtidas[s] = << >> /\ inbox[s] = << >> /\ chegadas[s] = 0
  BY <1>1 DEF Entrega, Virgens
<1>6. Contiguas(<< >>, 0, << >>, 0)
  BY DEF Contiguas
<1>7. EmOrdem(s)'
  BY <1>2, <1>3, <1>4, <1>5, <1>6 DEF EmOrdem
<1>8. Mexida(s)
  BY <1>1, <1>3, <1>4, <1>7 DEF Mexida
<1>. QED
  BY <1>1, <1>3, <1>8, EntregaNum

(* An answer without a message brings none.                                *)
LEMMA MesmasResposta ==
    ASSUME proc' = proc, NEW q \in Procs, NEW r,
           \/ caixa'[q] = caixa[q]
           \/ caixa'[q] = caixa[q] \cup {[ref |-> r, res |-> 0]}
    PROVE  MesmasDe(q)
<1>1. PICK n : n = [ref |-> r, res |-> 0]
  OBVIOUS
<1>2. \A v \in 1 .. MaxMsgs : n.res # v
  BY <1>1
<1>3. CASE caixa'[q] = caixa[q] \cup {n}
  BY <1>2, <1>3 DEF MesmasDe, Leva, EmCurso
<1>4. CASE caixa'[q] = caixa[q]
  BY <1>4 DEF MesmasDe, Leva, EmCurso
<1>. QED
  BY <1>1, <1>3, <1>4

(* The thread reads a message: for the active socket, or for the call that *)
(* asked for it and waits.                                                 *)
LEMMA EntregaItemRecv ==
    ASSUME Nucleo, Uso, Leitura, Entrega, ItemRecv
    PROVE  Entrega'
<1>1. TypeOK /\ InvLimites /\ Distinta(itens) /\ Separadas /\ PedidosItens
  BY DEF Nucleo, InvRefs, Uso
<1>2. PICK i : i = Vez
  OBVIOUS
<1>3. /\ Vez # 0 /\ proc' = proc /\ chegadas' = chegadas
      /\ itens[i].tipo = "recv" /\ Aberto(itens[i].s) /\ Pode(itens[i])
      /\ inbox' = [inbox EXCEPT ![itens[i].s] = Tail(@)]
      /\ IF sock[itens[i].s].active = "ON"
         THEN /\ obtidas' = [obtidas EXCEPT ![itens[i].s] = Append(@, Head(inbox[itens[i].s]))]
              /\ UNCHANGED caixa
         ELSE /\ Responde(itens[i].p, itens[i].ref, Head(inbox[itens[i].s]))
              /\ UNCHANGED obtidas
  BY <1>2 DEF ItemRecv
<1>4. /\ itens[i].s \in Socks /\ itens[i].p \in Procs /\ itens[i].ref \in 1 .. MaxChamadas
      /\ Campos(itens[i]) \in NosItens
  BY <1>1, <1>2, <1>3, ItemDaVez
<1>5. EstadosIguais /\ ActivesIguais
  <2>1. \E j \in DOMAIN itens : Continuou(j) \/ \E v : Atendeu(j, v)
    BY <1>1, EfeitoItemRecv
  <2>. QED
    BY <2>1 DEF Continuou, Atendeu, Manteve, Largou, EstadosIguais, ActivesIguais
<1>6. PICK s \in Socks : s = itens[i].s
  BY <1>4
<1>7. PICK m : m = Head(inbox[s])
  OBVIOUS
<1>8. inbox[s] # << >> /\ EmOrdem(s) /\ Aberto(s)
  BY <1>3, <1>6 DEF Pode, Entrega
<1>9. m \in 1 .. MaxMsgs
  BY <1>1, <1>7, <1>8, Mensagens
<1>10. obtidas \in [Socks -> Seq(1 .. MaxMsgs)] /\ inbox \in [Socks -> Seq(1 .. MaxMsgs)]
  BY <1>1 DEF TypeOK
<1>11. inbox'[s] = Tail(inbox[s]) /\ \A t \in Socks : t # s => Ficou(t)
  <2>1. \A t \in Socks : t # s => obtidas'[t] = obtidas[t]
    BY <1>3, <1>6, <1>10
  <2>. QED
    BY <1>3, <1>6, <1>10, <2>1 DEF Ficou
<1>12. CASE sock[s].active = "ON"
  <2>1. caixa' = caixa /\ obtidas'[s] = Append(obtidas[s], Head(inbox[s]))
    BY <1>3, <1>6, <1>10, <1>12
  <2>2. \A t \in Socks : MesmasLevas(t) /\ (SemLevas(t)' <=> SemLevas(t))
    BY <1>3, <2>1 DEF MesmasLevas, SemLevas, Leva, EmCurso
  <2>3. SemLevas(s)
    BY <1>12 DEF Entrega, LevasCertas, SemLevas
  <2>4. EmOrdem(s)'
    BY <1>1, <1>3, <1>8, <1>11, <2>1, <2>2, <2>3, OrdemLida
  <2>5. Mexida(s)
    BY <1>5, <1>8, <2>2, <2>3, <2>4 DEF Mexida, EstadosIguais, Aberto
  <2>. QED
    BY <1>1, <1>5, <1>11, <2>2, <2>5, EntregaNum DEF EstadosIguais, ActivesIguais
<1>13. CASE sock[s].active # "ON"
  <2>1. PICK q \in Procs, r \in 1 .. MaxChamadas : q = itens[i].p /\ r = itens[i].ref
    BY <1>4
  <2>2. Responde(q, r, m) /\ obtidas' = obtidas
    BY <1>3, <1>6, <1>7, <1>13, <2>1
  <2>3. m \in 0 .. MaxMsgs
    BY <1>9
  <2>4. \A k \in Procs : caixa'[k] = IF k = q THEN caixa[k] \cup {[ref |-> r, res |-> m]}
                                     ELSE caixa[k]
    BY <1>1, <2>2, <2>3, Respondido
  <2>5. PICK e \in NosItens : e = Campos(itens[i])
    BY <1>4
  <2>6. e.tipo = "recv" /\ e.s = s /\ e.p = q /\ e.ref = r
    BY <1>3, <1>6, <2>1, <2>5 DEF Campos
  <2>7. proc[q].ref = r /\ proc[q].s = s /\ EmCurso(q)
    BY <1>13, <2>6 DEF Leitura, Leitores, Pedidas, LeitorDe, EmCurso, Depois
  <2>8. SoltaDe(q)
    <3>1. SemResposta(r)
      BY <1>1, <2>6 DEF PedidosItens, Guardado
    <3>. QED
      BY <2>7, <3>1, SoltaSemResposta
  <2>9. SemLevas(s)
    BY <1>1, <2>7, <2>8, SocketSolto
  <2>10. \A t \in Socks : t # s => MesmasLevas(t)
    <3>. SUFFICES ASSUME NEW t \in Socks, t # s, NEW k \in Procs, NEW v \in 1 .. MaxMsgs
                  PROVE  Leva(k, t, v)' <=> Leva(k, t, v)
      BY DEF MesmasLevas
    <3>1. CASE k = q
      BY <1>3, <2>7, <3>1 DEF Leva
    <3>2. CASE k # q
      BY <1>3, <2>4, <3>2 DEF Leva, EmCurso
    <3>. QED
      BY <3>1, <3>2
  <2>11. Leva(q, s, m)'
    <3>1. PICK n : n = [ref |-> r, res |-> m]
      OBVIOUS
    <3>2. n.ref = r /\ n.res = m /\ n \in caixa'[q]
      BY <2>4, <3>1
    <3>. QED
      BY <1>3, <2>7, <3>2 DEF Leva, EmCurso
  <2>12. EmOrdem(s)'
    <3>1. PICK o, b, c : o = obtidas[s] /\ b = inbox[s] /\ c = chegadas[s]
      OBVIOUS
    <3>2. Contiguas(o, 0, b, c)
      BY <1>1, <1>8, <2>9, <3>1, OrdemSolta
    <3>3. o \in Seq(1 .. MaxMsgs) /\ b \in Seq(1 .. MaxMsgs)
      BY <1>10, <3>1
    <3>4. m = Len(o) + 1 /\ Contiguas(o, 1, Tail(b), c)
      BY <1>7, <1>8, <3>1, <3>2, <3>3, ContiguasTira
    <3>5. obtidas'[s] = o /\ inbox'[s] = Tail(b) /\ chegadas'[s] = c
      BY <1>3, <1>11, <2>2, <3>1
    <3>6. Leva(q, s, Len(obtidas[s]) + 1)'
      <4>1. m = (Len(obtidas[s]) + 1)'
        BY <3>4, <3>5
      <4>. QED
        BY <2>11, <4>1 DEF Leva
    <3>. QED
      BY <3>4, <3>5, <3>6 DEF EmOrdem
  <2>13. Mexida(s)
    BY <1>5, <1>8, <1>13, <2>12 DEF Mexida, EstadosIguais, ActivesIguais, Aberto
  <2>. QED
    BY <1>1, <1>5, <1>11, <2>10, <2>13, EntregaNum DEF EstadosIguais, ActivesIguais
<1>. QED
  BY <1>12, <1>13

(* The thread's other steps bring no message.                              *)
LEMMA EntregaFio ==
    ASSUME Nucleo, Uso, Leitura, Entrega, Fio
    PROVE  Entrega'
<1>1. TypeOK /\ InvEstado /\ InvLimites /\ InvRefs /\ Distinta(itens)
  BY DEF Nucleo, InvRefs
<1>2. ASSUME UNCHANGED <<obtidas, inbox, chegadas, proc, caixa>>, EstadosIguais, ActivesIguais
      PROVE  Entrega'
  <2>1. \A q \in Procs : MesmasDe(q)
    BY <1>2 DEF MesmasDe, Leva, EmCurso
  <2>. QED
    BY <1>1, <1>2, <2>1, EntregaIgual DEF EstadosIguais, ActivesIguais, Aberto
<1>3. sock' = sock => EstadosIguais /\ ActivesIguais
  BY DEF EstadosIguais, ActivesIguais
<1>4. CASE Poll \/ ItemAborta \/ ItemBloqueia \/ ZmqTerm
  <2>1. UNCHANGED <<obtidas, inbox, chegadas, proc, caixa, sock>>
    BY <1>4 DEF Poll, ItemAborta, ItemBloqueia, ZmqTerm, zmqVars, logVars
  <2>. QED
    BY <1>2, <1>3, <2>1
<1>5. CASE Regista \/ PedidoTerm
  <2>1. UNCHANGED <<obtidas, inbox, chegadas, proc, caixa, sock>>
    BY <1>5 DEF Regista, PedidoTerm, DaFila, logVars
  <2>. QED
    BY <1>2, <1>3, <2>1
<1>6. CASE ItemRecv
  BY <1>6, EntregaItemRecv
<1>7. ASSUME ItemSend \/ ItemExpira PROVE Entrega'
  <2>1. UNCHANGED <<obtidas, inbox, chegadas, proc>>
    BY <1>7 DEF ItemSend, ItemExpira, zmqVars, logVars
  <2>2. EstadosIguais /\ ActivesIguais
    <3>1. \E j \in DOMAIN itens : Continuou(j) \/ \E v : Atendeu(j, v)
      BY <1>1, <1>7, EfeitoItemSend, EfeitoItemExpira
    <3>. QED
      BY <3>1 DEF Continuou, Atendeu, Manteve, Largou, EstadosIguais, ActivesIguais
  <2>3. \A q \in Procs : MesmasDe(q)
    <3>1. CASE caixa' = caixa
      BY <2>1, <3>1 DEF MesmasDe, Leva, EmCurso
    <3>2. CASE Responde(itens[Vez].p, itens[Vez].ref, 0)
      <4>1. Vez # 0
        BY <1>1, <1>7 DEF ItemSend, ItemExpira, InvEstado
      <4>2. PICK p \in Procs, r \in 1 .. MaxChamadas : p = itens[Vez].p /\ r = itens[Vez].ref
        BY <1>1, <4>1, ItemDaVez
      <4>3. PICK z \in 0 .. MaxMsgs : z = 0
        BY ErlZmqAssumption
      <4>4. \A q \in Procs : caixa'[q] = IF q = p THEN caixa[q] \cup {[ref |-> r, res |-> z]}
                                         ELSE caixa[q]
        <5>1. Responde(p, r, z)
          BY <3>2, <4>2, <4>3
        <5>. QED
          BY <1>1, <5>1, Respondido
      <4>. QED
        BY <2>1, <4>3, <4>4, MesmasResposta
    <3>. QED
      BY <1>7, <3>1, <3>2 DEF ItemSend, ItemExpira
  <2>. QED
    BY <1>1, <2>1, <2>2, <2>3, EntregaIgual DEF EstadosIguais, ActivesIguais, Aberto
<1>8. ASSUME NEW r, Respondeu(r), proc' = proc PROVE \A q \in Procs : MesmasDe(q)
  BY <1>8, MesmasResposta DEF Respondeu
<1>9. CASE Close
  <2>1. PICK r : /\ Tirou(r) /\ Respondeu(r)
                 /\ \/ UNCHANGED <<itens, sock, inbox>>
                    \/ Aberto(r.s) /\ Fechou(r.s)
    BY <1>1, <1>9, EfeitoClose
  <2>2. proc' = proc /\ obtidas' = obtidas /\ chegadas' = chegadas
    BY <1>9, <2>1 DEF Close, DaFila, Tirou, logVars
  <2>3. \A q \in Procs : MesmasDe(q)
    BY <1>8, <2>1, <2>2
  <2>4. CASE UNCHANGED <<itens, sock, inbox>>
    BY <1>1, <2>2, <2>3, <2>4, EntregaIgual DEF Aberto
  <2>5. CASE Aberto(r.s) /\ Fechou(r.s)
    <3>1. ASSUME NEW t \in Socks PROVE Quieta(t)
      <4>1. MesmasLevas(t)
        BY <2>3 DEF MesmasLevas, MesmasDe
      <4>2. sock'[t].active = sock[t].active
        BY <2>5 DEF Fechou, ActivesIguais
      <4>3. CASE t = r.s
        BY <2>5, <4>1, <4>2, <4>3 DEF Quieta, Fechou, Aberto
      <4>4. CASE t # r.s
        <5>1. sock'[t].estado = sock[t].estado /\ inbox'[t] = inbox[t]
          BY <2>5, <4>4 DEF Fechou
        <5>. QED
          BY <2>2, <4>1, <4>2, <5>1 DEF Quieta, Aberto, Ficou
      <4>. QED
        BY <4>3, <4>4
    <3>. QED
      BY <1>1, <3>1, EntregaMantida
  <2>. QED
    BY <2>1, <2>4, <2>5
<1>10. CASE Term
  <2>1. UNCHANGED <<obtidas, inbox, chegadas, proc>>
    BY <1>10 DEF Term, zmqVars, logVars
  <2>2. /\ ActivesIguais /\ Respondeu(fio.ped)
        /\ \A t \in Socks : (sock[t].estado = "nada") <=> (sock'[t].estado = "nada")
        /\ \A t \in Socks : sock'[t].estado = "aberto" => sock[t].estado = "aberto"
    BY <1>1, <1>10, EfeitoTerm
  <2>3. \A q \in Procs : MesmasDe(q)
    BY <1>8, <2>1, <2>2
  <2>. QED
    BY <1>1, <2>1, <2>2, <2>3, EntregaIgual DEF ActivesIguais, Aberto
<1>. QED
  BY <1>4, <1>5, <1>6, <1>7, <1>9, <1>10 DEF Fio

(* Every step.                                                             *)
LEMMA EntregaPasso ==
    ASSUME Nucleo, InvDono, InvAtivo, InvUso, InvLeitor, InvEntrega, [Next]_vars
    PROVE  InvEntrega'
<1>1. TypeOK
  BY DEF Nucleo
<1>2. SUFFICES ASSUME ~ abuso', ~ expirou' PROVE Entrega'
  BY DEF InvEntrega
<1>3. Uso /\ Leitura /\ Entrega
  BY <1>2, HistoriaFica DEF InvUso, InvLeitor, InvEntrega
<1>4. ASSUME UNCHANGED <<obtidas, inbox, chegadas, proc, caixa, sock>> PROVE Entrega'
  <2>1. \A q \in Procs : MesmasDe(q)
    BY <1>4 DEF MesmasDe, Leva, EmCurso
  <2>. QED
    BY <1>1, <1>3, <1>4, <2>1, EntregaIgual DEF Aberto
<1>5. CASE Context
  BY <1>4, <1>5 DEF Context, zmqVars, logVars
<1>6. ASSUME NEW p \in Procs, NEW s \in Socks, NEW a \in {"OFF", "PENDING"}, Socket(p, s, a)
      PROVE  Entrega'
  BY <1>2, <1>3, <1>6, EntregaSocket
<1>7. ASSUME NEW p \in Procs, NEW s \in Socks,
             NEW op \in {"bind", "setsockopt", "send", "recv", "close", "term"}, Chama(p, op, s)
      PROVE  Entrega'
  BY <1>3, <1>7, EntregaChama
<1>8. ASSUME NEW p \in Procs, DentroDaChamada(p)
      PROVE  Entrega'
  BY <1>3, <1>8, EntregaDaChamada, EntregaTenta, EntregaRecebe DEF DentroDaChamada
<1>9. ASSUME NEW p \in Procs, Expira(p)
      PROVE  Entrega'
  BY <1>1, <1>2, <1>9, EfeitoExpira
<1>10. CASE Fio
  BY <1>3, <1>10, EntregaFio
<1>11. ASSUME NEW s \in Socks, Chega(s)
       PROVE  Entrega'
  BY <1>3, <1>11, EntregaChega
<1>12. ASSUME NEW s \in Socks, Enche(s)
       PROVE  Entrega'
  BY <1>4, <1>12 DEF Enche, logVars
<1>13. CASE UNCHANGED vars
  BY <1>4, <1>13 DEF vars
<1>. QED
  BY <1>5, <1>6, <1>7, <1>8, <1>9, <1>10, <1>11, <1>12, <1>13, LivreProperties DEF Next

(* It holds before the context exists.                                     *)
LEMMA EntregaInicial ==
    ASSUME Init
    PROVE  InvEntrega
<1>1. \A p \in Procs : ~ EmCurso(p)
  BY LivreProperties DEF Init, EmCurso
<1>2. \A s \in Socks : /\ ~ Aberto(s) /\ obtidas[s] = << >> /\ inbox[s] = << >>
                       /\ chegadas[s] = 0
  BY DEF Init, Aberto
<1>. QED
  BY <1>1, <1>2 DEF InvEntrega, Entrega, Virgens, LevasCertas, Leva

(* A set without two different elements.                                   *)
LEMMA Unitario ==
    ASSUME NEW S, \A x, y \in S : x = y
    PROVE  Cardinality(S) = IF S = {} THEN 0 ELSE 1
<1>1. CASE S = {}
  BY <1>1, FS_EmptySet
<1>2. CASE S # {}
  <2>1. PICK x \in S : TRUE
    BY <1>2
  <2>2. S = {x}
    BY <2>1
  <2>. QED
    BY <1>2, <2>2, FS_Singleton
<1>. QED
  BY <1>1, <1>2

(* A set of at most one element as a sequence.                             *)
LEMMA SequenciaDeUm ==
    ASSUME NEW M, NEW S, S \subseteq M, \A x, y \in S : x = y
    PROVE  /\ SetToSeq(S) \in Seq(M) /\ Len(SetToSeq(S)) = IF S = {} THEN 0 ELSE 1
           /\ \A k \in 1 .. Len(SetToSeq(S)) : SetToSeq(S)[k] \in S
<1>1. PICK n : n = Cardinality(S)
  OBVIOUS
<1>2. n = IF S = {} THEN 0 ELSE 1
  BY <1>1, Unitario
<1>3. \E f \in [1 .. n -> S] : IsInjective(f)
  <2>1. CASE S = {}
    <3>1. PICK f : f = [i \in 1 .. n |-> 0]
      OBVIOUS
    <3>2. 1 .. n = {}
      BY <1>2, <2>1
    <3>3. f \in [1 .. n -> S] /\ IsInjective(f)
      BY <3>1, <3>2 DEF IsInjective
    <3>. QED
      BY <3>3
  <2>2. CASE S # {}
    <3>1. PICK x \in S : TRUE
      BY <2>2
    <3>2. PICK f : f = [i \in 1 .. n |-> x]
      OBVIOUS
    <3>3. \A i, j \in 1 .. n : i = j
      BY <1>2, <2>2
    <3>4. f \in [1 .. n -> S] /\ IsInjective(f)
      BY <3>1, <3>2, <3>3 DEF IsInjective
    <3>. QED
      BY <3>4
  <2>. QED
    BY <2>1, <2>2
<1>4. PICK f : f = SetToSeq(S)
  OBVIOUS
<1>5. f = CHOOSE g \in [1 .. n -> S] : IsInjective(g)
  BY <1>1, <1>4 DEF SetToSeq
<1>6. f \in [1 .. n -> S]
  BY <1>3, <1>5
<1>7. n \in Nat
  BY <1>2
<1>8. f \in [1 .. n -> M]
  BY <1>6
<1>9. f \in Seq(M) /\ Len(f) = n
  BY <1>7, <1>8
<1>. QED
  BY <1>2, <1>4, <1>6, <1>9

(* What is contiguous is what arrived.                                     *)
LEMMA ContiguasTodas ==
    ASSUME NEW M, NEW o \in Seq(M), NEW x \in Seq(M), NEW b \in Seq(M), NEW c \in Nat,
           1 .. c \subseteq M, Contiguas(o, Len(x), b, c),
           Len(x) \in {0, 1}, Len(x) = 1 => x[1] = Len(o) + 1
    PROVE  o \o x \o b = [k \in 1 .. c |-> k]
<1>1. PICK l \in Nat, a \in Nat, n \in Nat : l = Len(o) /\ a = Len(x) /\ n = Len(b)
  BY LenProperties
<1>2. /\ l + a + n = c
      /\ \A k \in 1 .. l : o[k] = k
      /\ \A k \in 1 .. n : b[k] = l + a + k
  BY <1>1 DEF Contiguas
<1>3. PICK e : e = o \o x
  OBVIOUS
<1>4. /\ e \in Seq(M) /\ Len(e) = l + a
      /\ \A i \in 1 .. l + a : e[i] = IF i <= l THEN o[i] ELSE x[i - l]
  BY <1>1, <1>3, ConcatProperties
<1>5. \A i \in 1 .. l + a : e[i] = i
  <2>. SUFFICES ASSUME NEW i \in 1 .. l + a PROVE e[i] = i
    OBVIOUS
  <2>1. CASE i <= l
    <3>1. i \in 1 .. l
      BY <2>1
    <3>. QED
      BY <1>2, <1>4, <2>1, <3>1
  <2>2. CASE ~ (i <= l)
    <3>1. a = 1 /\ i = l + 1 /\ i - l = 1
      <4>1. a = 0 \/ a = 1
        BY <1>1
      <4>. QED
        BY <2>2, <4>1
    <3>2. e[i] = x[1]
      BY <1>4, <2>2, <3>1
    <3>. QED
      BY <1>1, <3>1, <3>2
  <2>. QED
    BY <2>1, <2>2
<1>6. PICK d : d = e \o b
  OBVIOUS
<1>7. /\ d \in Seq(M) /\ Len(d) = c
      /\ \A i \in 1 .. c : d[i] = IF i <= l + a THEN e[i] ELSE b[i - (l + a)]
  <2>1. /\ d \in Seq(M) /\ Len(d) = Len(e) + Len(b)
        /\ \A i \in 1 .. Len(e) + Len(b) : d[i] = IF i <= Len(e) THEN e[i] ELSE b[i - Len(e)]
    BY <1>4, <1>6, ConcatProperties
  <2>. QED
    <3>1. Len(e) + Len(b) = c
      BY <1>1, <1>2, <1>4
    <3>2. /\ Len(d) = c
          /\ \A i \in 1 .. c : d[i] = IF i <= Len(e) THEN e[i] ELSE b[i - Len(e)]
      BY <2>1, <3>1
    <3>. QED
      BY <1>4, <2>1, <3>2
<1>8. \A i \in 1 .. c : d[i] = i
  <2>. SUFFICES ASSUME NEW i \in 1 .. c PROVE d[i] = i
    OBVIOUS
  <2>1. CASE i <= l + a
    <3>1. i \in 1 .. l + a
      BY <2>1
    <3>. QED
      BY <1>5, <1>7, <2>1, <3>1
  <2>2. CASE ~ (i <= l + a)
    <3>1. PICK k \in 1 .. n : k = i - (l + a)
      BY <1>2, <2>2
    <3>2. d[i] = b[k]
      BY <1>7, <2>2, <3>1
    <3>3. l + a + k = i
      BY <3>1
    <3>. QED
      BY <1>2, <3>2, <3>3
  <2>. QED
    BY <2>1, <2>2
<1>9. PICK t : t = [k \in 1 .. c |-> k]
  OBVIOUS
<1>10. t \in Seq(M) /\ Len(t) = c /\ \A i \in 1 .. c : t[i] = i
  <2>1. t \in [1 .. c -> M]
    BY <1>9
  <2>2. t \in Seq(M) /\ Len(t) = c
    BY <2>1
  <2>. QED
    BY <1>9, <2>2
<1>11. d = t
  BY <1>7, <1>8, <1>10, SeqEqual
<1>. QED
  BY <1>3, <1>6, <1>9, <1>11

(* An open socket, its messages, and those on their way from it.           *)
LEMMA EntregaOrdenada ==
    ASSUME Nucleo, Uso, Entrega, NEW s \in Socks, Aberto(s)
    PROVE  EntregaEmOrdem(s)
<1>1. TypeOK /\ RespostaUnica /\ Separadas
  BY DEF Nucleo, InvRefs, Uso
<1>2. PICK o, b, c : o = obtidas[s] /\ b = inbox[s] /\ c = chegadas[s]
  OBVIOUS
<1>3. o \in Seq(1 .. MaxMsgs) /\ b \in Seq(1 .. MaxMsgs) /\ c \in 0 .. MaxMsgs
  BY <1>1, <1>2 DEF TypeOK
<1>4. c \in Nat /\ 1 .. MaxMsgs \subseteq Nat
  BY <1>3, ErlZmqAssumption
<1>5. o \in Seq(Nat) /\ b \in Seq(Nat)
  BY <1>3, <1>4, SeqMonotonic
<1>. DEFINE Y == UNION {{x \in caixa[p] : x.ref = proc[p].ref /\ x.res > 0}
                         : p \in {q \in Procs : EmCurso(q) /\ proc[q].s = s}}
<1>. DEFINE T == {m.res : m \in Y}
<1>6. \A m : m \in Y <=> \E p \in Procs : /\ EmCurso(p) /\ proc[p].s = s /\ m \in caixa[p]
                                          /\ m.ref = proc[p].ref /\ m.res > 0
  OBVIOUS
<1>7. \A p \in Procs : \A m \in caixa[p] : m.res \in 0 .. MaxMsgs
  BY <1>1 DEF TypeOK, TipoResposta
<1>8. \A v : v \in T <=> v \in 1 .. MaxMsgs /\ \E q \in Procs : Leva(q, s, v)
  <2>1. ASSUME NEW v \in T PROVE v \in 1 .. MaxMsgs /\ \E q \in Procs : Leva(q, s, v)
    <3>1. PICK m \in Y : v = m.res
      OBVIOUS
    <3>2. PICK p \in Procs : /\ EmCurso(p) /\ proc[p].s = s /\ m \in caixa[p]
                             /\ m.ref = proc[p].ref /\ m.res > 0
      BY <1>6, <3>1
    <3>3. m.res \in 0 .. MaxMsgs /\ MaxMsgs \in Nat
      BY <1>7, <3>2, ErlZmqAssumption
    <3>4. v \in 1 .. MaxMsgs
      BY <3>1, <3>2, <3>3
    <3>5. Leva(p, s, v)
      BY <3>1, <3>2 DEF Leva
    <3>. QED
      BY <3>4, <3>5
  <2>2. ASSUME NEW v \in 1 .. MaxMsgs, NEW q \in Procs, Leva(q, s, v) PROVE v \in T
    <3>1. PICK m \in caixa[q] : m.ref = proc[q].ref /\ m.res = v
      BY <2>2 DEF Leva
    <3>2. EmCurso(q) /\ proc[q].s = s /\ m.res > 0
      BY <2>2, <3>1 DEF Leva
    <3>3. m \in Y
      BY <1>6, <3>1, <3>2
    <3>. QED
      BY <3>1, <3>3
  <2>. QED
    BY <2>1, <2>2
<1>9. ACaminho(s) = SetToSeq(T)
  BY DEF ACaminho
<1>. HIDE DEF T, Y
<1>10. \A q, k \in Procs : \A v, w : Leva(q, s, v) /\ Leva(k, s, w) => v = w
  <2>. SUFFICES ASSUME NEW q \in Procs, NEW k \in Procs, NEW v, NEW w,
                       Leva(q, s, v), Leva(k, s, w)
                PROVE  v = w
    OBVIOUS
  <2>1. q = k
    BY <1>1 DEF Separadas, Leva
  <2>. QED
    BY <1>1, <2>1 DEF RespostaUnica, Leva
<1>11. T \subseteq Nat /\ \A v, w \in T : v = w
  BY <1>4, <1>8, <1>10
<1>12. PICK x : x = SetToSeq(T)
  OBVIOUS
<1>13. /\ x \in Seq(Nat) /\ Len(x) = IF T = {} THEN 0 ELSE 1
       /\ \A k \in 1 .. Len(x) : x[k] \in T
  BY <1>11, <1>12, SequenciaDeUm
<1>14. EmOrdem(s)
  BY DEF Entrega
<1>15. Contiguas(o, Len(x), b, c) /\ (Len(x) = 1 => x[1] = Len(o) + 1)
  <2>1. CASE SemLevas(s)
    <3>1. T = {}
      BY <1>8, <2>1 DEF SemLevas
    <3>2. Contiguas(o, 0, b, c)
      BY <1>1, <1>2, <1>14, <2>1, OrdemSolta
    <3>. QED
      BY <1>13, <3>1, <3>2
  <2>2. CASE ~ SemLevas(s)
    <3>1. /\ \E q \in Procs : Leva(q, s, Len(o) + 1)
          /\ Contiguas(o, 1, b, c)
      BY <1>2, <1>14, <2>2 DEF EmOrdem
    <3>2. PICK q \in Procs, v \in 1 .. MaxMsgs : Leva(q, s, v)
      BY <2>2 DEF SemLevas
    <3>3. v \in T /\ v = Len(o) + 1
      BY <1>8, <1>10, <3>1, <3>2
    <3>4. Len(x) = 1
      BY <1>13, <3>3
    <3>5. 1 \in 1 .. Len(x)
      BY <3>4
    <3>6. x[1] = v
      BY <1>11, <1>13, <3>3, <3>5
    <3>. QED
      BY <3>1, <3>3, <3>4, <3>6
  <2>. QED
    BY <2>1, <2>2
<1>16. o \o x \o b = [k \in 1 .. c |-> k]
  <2>1. Len(x) \in {0, 1} /\ 1 .. c \subseteq Nat
    BY <1>4, <1>13
  <2>. DEFINE M == Nat
  <2>2. /\ o \in Seq(M) /\ x \in Seq(M) /\ b \in Seq(M) /\ 1 .. c \subseteq M
    BY <1>5, <1>13, <2>1
  <2>. HIDE DEF M
  <2>. QED
    BY <1>4, <1>15, <2>1, <2>2, ContiguasTodas
<1>. QED
  BY <1>2, <1>9, <1>12, <1>16 DEF EntregaEmOrdem
-----------------------------------------------------------------------------
(* The theorems.                                                           *)

Completo == /\ Nucleo /\ InvDono /\ InvAtivo /\ InvUso /\ QuedaExplicada
            /\ InvLeitor /\ InvPendente /\ InvReferencias

(* It holds before the context exists.                                     *)
LEMMA CompletoInicial ==
    ASSUME Init
    PROVE  Completo
<1>1. Nucleo
  BY NucleoInicial
<1>2. /\ fila = << >> /\ itens = << >> /\ fio.pc = "nada" /\ queda = "nenhuma"
      /\ \A s \in Socks : sock[s].estado = "nada" /\ sock[s].refc = 0
  BY DEF Init
<1>3. \A p \in Procs : proc[p].pc = "livre" /\ proc[p].op = "bind" /\ ~ EmCurso(p)
  BY LivreProperties DEF Init, EmCurso
<1>4. NaFila = {} /\ NosItens = {} /\ Pedidas = {} /\ DOMAIN fila = {} /\ DOMAIN itens = {}
  BY <1>2 DEF NaFila, NosItens, Vistos, Pedidas, Range
<1>5. InvDono
  BY <1>2, <1>3, <1>4 DEF InvDono, Regras
<1>6. InvAtivo
  BY <1>3, <1>4 DEF InvAtivo, LeituraPedida, ModoDasChamadas, UmaLeitura, LeituraPorPedir,
                    UmaAtivacao, Ativando, Antes
<1>7. InvUso
  BY <1>3, <1>4 DEF InvUso, Uso, Separadas, Servidas, Servida, ItensVivos, FilaViva,
                    FechoDepois
<1>8. QuedaExplicada
  BY <1>2 DEF QuedaExplicada
<1>9. InvLeitor
  BY <1>2, <1>4 DEF InvLeitor, Leitura, Leitores, Prontas, SemBloqueio
<1>10. InvPendente
  BY <1>3 DEF InvPendente, NadaPerdido, Pendente, Depois
<1>11. InvReferencias
  <2>. SUFFICES ASSUME NEW s \in Socks PROVE Contado(s)
    BY <1>2 DEF InvReferencias
  <2>1. PorContar(s) = {} /\ ItensDe(s) = {} /\ FilaDe(s) = {} /\ ~ Aberto(s)
    BY <1>2, <1>3, <1>4 DEF PorContar, ItensDe, FilaDe, Aberto
  <2>2. /\ Cardinality(PorContar(s)) = 0 /\ Cardinality(ItensDe(s)) = 0
        /\ Cardinality(FilaDe(s)) = 0
    BY <2>1, FS_EmptySet
  <2>. QED
    BY <1>2, <2>1, <2>2 DEF Contado
<1>. QED
  BY <1>1, <1>5, <1>6, <1>7, <1>8, <1>9, <1>10, <1>11 DEF Completo

(* Every step keeps it.                                                    *)
LEMMA CompletoPasso ==
    ASSUME Completo, [Next]_vars
    PROVE  Completo'
<1>1. /\ Nucleo /\ InvDono /\ InvAtivo /\ InvUso /\ QuedaExplicada
      /\ InvLeitor /\ InvPendente /\ InvReferencias
  BY DEF Completo
<1>2. Nucleo' /\ InvDono' /\ InvAtivo' /\ InvUso'
  BY <1>1, NucleoPasso, DonoPasso, AtivoPasso, UsoPasso
<1>3. QuedaExplicada' /\ InvLeitor' /\ InvPendente' /\ InvReferencias'
  BY <1>1, QuedaPasso, LeituraPasso, PendentePasso, ReferenciasPasso
<1>. QED
  BY <1>2, <1>3 DEF Completo

(* The whole invariant of the binding.                                     *)
LEMMA CompletoSempre == Spec => []Completo
<1>1. Init => Completo
  BY CompletoInicial
<1>2. Completo /\ [Next]_vars => Completo'
  BY CompletoPasso
<1>. QED
  BY <1>1, <1>2, PTL DEF Spec

(* While calls do not cross and no closed active socket is sent on, the    *)
(* virtual machine falls only on a full request vector: no assertion about *)
(* closed sockets fails and no freed mutex is locked, in any interleaving  *)
(* of any number of processes with the polling thread.                     *)
THEOREM QuedasExplicadas == Spec => []QuedaExplicada
<1>1. Completo => QuedaExplicada
  BY DEF Completo
<1>. QED
  BY <1>1, CompletoSempre, PTL

(* The polling thread blocks in zmq_recvmsg only after calls crossed or a  *)
(* call gave up: otherwise the message it polled is still there, because   *)
(* its request is the socket's only reader.                                *)
THEOREM LeiturasNaoBloqueiam == Spec => []LeituraNaoBloqueia
<1>1. Completo => LeituraNaoBloqueia
  BY DEF Completo, InvLeitor, Leitura, SemBloqueio, LeituraNaoBloqueia
<1>. QED
  BY <1>1, CompletoSempre, PTL

(* What could answer a call: one thing at most.                            *)
LEMMA UmaResposta ==
    ASSUME Nucleo, NEW p \in Procs, SeraRespondida(p)
    PROVE  Pendentes(p) = 1
<1>1. InvRefs
  BY DEF Nucleo
<1>. DEFINE r == proc[p].ref
            F == {i \in DOMAIN fila : fila[i].ref = r}
            I == {i \in DOMAIN itens : itens[i].ref = r}
            C == {m \in caixa[p] : m.ref = r}
            T == fio.pc = "term" /\ fio.ped.ref = r
<1>2. \A i \in DOMAIN fila : fila[i] \in NaFila
  BY DEF NaFila, Range
<1>3. \A i \in DOMAIN itens : Campos(itens[i]) \in NosItens /\ Campos(itens[i]).ref = itens[i].ref
  BY DEF NosItens, Vistos, Campos
<1>4. Cardinality(F) = IF F = {} THEN 0 ELSE 1
  <2>1. \A i, j \in F : i = j
    BY <1>1 DEF InvRefs, Distinta
  <2>. HIDE DEF F
  <2>. QED
    BY <2>1, Unitario
<1>5. Cardinality(I) = IF I = {} THEN 0 ELSE 1
  <2>1. \A i, j \in I : i = j
    BY <1>1 DEF InvRefs, Distinta
  <2>. HIDE DEF I
  <2>. QED
    BY <2>1, Unitario
<1>6. Cardinality(C) = IF C = {} THEN 0 ELSE 1
  <2>1. \A m, n \in C : m = n
    BY <1>1 DEF InvRefs, RespostaUnica
  <2>. HIDE DEF C
  <2>. QED
    BY <2>1, Unitario
<1>7. ASSUME F # {} PROVE I = {} /\ C = {} /\ ~ T
  <2>1. PICK i \in DOMAIN fila : fila[i].ref = r
    BY <1>7
  <2>2. Guardado(fila[i]) /\ \A d \in NosItens : d.ref # r
    BY <1>1, <1>2, <2>1 DEF InvRefs, PedidosFila
  <2>3. I = {}
    BY <1>3, <2>2
  <2>. QED
    BY <2>1, <2>2, <2>3 DEF Guardado, SemResposta
<1>8. ASSUME I # {} PROVE C = {} /\ ~ T
  <2>1. PICK i \in DOMAIN itens : itens[i].ref = r
    BY <1>8
  <2>2. PICK e \in NosItens : e.ref = r
    BY <1>3, <2>1
  <2>3. Guardado(e)
    BY <1>1 DEF InvRefs, PedidosItens
  <2>. QED
    BY <2>2, <2>3 DEF Guardado, SemResposta
<1>9. ASSUME T PROVE C = {}
  BY <1>1, <1>9 DEF InvRefs, PedidoDoTerm, SemResposta
<1>10. F # {} \/ I # {} \/ C # {} \/ T
  <2>1. CASE \E e \in NaFila : e.ref = r
    BY <2>1 DEF NaFila, Range
  <2>2. CASE \E e \in NosItens : e.ref = r
    <3>1. PICK i \in DOMAIN itens : Campos(itens[i]).ref = r
      BY <2>2 DEF NosItens, Vistos
    <3>2. i \in I
      BY <1>3, <3>1
    <3>. QED
      BY <3>2
  <2>. QED
    BY <2>1, <2>2 DEF SeraRespondida, Pedidas
<1>11. Pendentes(p) = Cardinality(F) + Cardinality(I) + Cardinality(C) + (IF T THEN 1 ELSE 0)
  BY DEF Pendentes
<1>. HIDE DEF F, I, C, T
<1>. QED
  BY <1>4, <1>5, <1>6, <1>7, <1>8, <1>9, <1>10, <1>11

(* While calls do not cross and the virtual machine runs, a call that      *)
(* waits for its Ref has exactly one thing that will answer it, wherever   *)
(* its request is: none is lost in CLOSE, TERM or a vector, and none is    *)
(* answered twice.                                                         *)
THEOREM NenhumPedidoSePerde == Spec => []PedidoNaoSePerde
<1>1. Completo => PedidoNaoSePerde
  <2>. SUFFICES ASSUME Completo, ~ abuso, queda = "nenhuma", NEW p \in Procs,
                       proc[p].pc \in {"keep", "timeo", "espera"}, proc[p].op # "ativa"
                PROVE  Pendentes(p) = 1
    BY DEF PedidoNaoSePerde
  <2>1. Nucleo /\ InvPendente
    BY DEF Completo
  <2>2. SeraRespondida(p)
    BY <2>1 DEF InvPendente, NadaPerdido, Pendente, Depois
  <2>. QED
    BY <2>1, <2>2, UmaResposta
<1>. QED
  BY <1>1, CompletoSempre, PTL

(* An active socket has one reader, however often it is bound, connected   *)
(* or used by calls that overlap: bind and connect ask for it only when    *)
(* active is still PENDING, under the socket's mutex.                      *)
THEOREM UmLeitorPorSocketAtivo == Spec => []AtivoUmLeitor
<1>1. Completo => AtivoUmLeitor
  <2>. SUFFICES ASSUME Completo, NEW s \in Socks, sock[s].active = "ON"
                PROVE  Cardinality({i \in DOMAIN itens : itens[i].s = s /\ itens[i].tipo = "recv"})
                     + Cardinality({i \in DOMAIN fila : fila[i].s = s /\ fila[i].tipo = "recv"})
                     + Cardinality({p \in Procs : /\ proc[p].pc \in {"ctx", "envia", "cheia"}
                                                  /\ proc[p].op = "ativa" /\ proc[p].s = s}) <= 1
    BY DEF AtivoUmLeitor
  <2>. DEFINE I == {i \in DOMAIN itens : itens[i].s = s /\ itens[i].tipo = "recv"}
              F == {i \in DOMAIN fila : fila[i].s = s /\ fila[i].tipo = "recv"}
              P == {p \in Procs : /\ proc[p].pc \in {"ctx", "envia", "cheia"}
                                  /\ proc[p].op = "ativa" /\ proc[p].s = s}
  <2>1. InvAtivo /\ InvRefs
    BY DEF Completo, Nucleo
  <2>2. UmaLeitura /\ LeituraPorPedir /\ UmaAtivacao /\ Distinta(itens) /\ Distinta(fila)
        /\ PedidosFila
    BY <2>1 DEF InvAtivo, InvRefs
  <2>3. ASSUME NEW i \in I
        PROVE  \E e \in NosItens : e.tipo = "recv" /\ e.s = s /\ e.ref = itens[i].ref
    <3>1. Campos(itens[i]) \in NosItens
      BY DEF NosItens, Vistos
    <3>2. /\ Campos(itens[i]).tipo = "recv" /\ Campos(itens[i]).s = s
          /\ Campos(itens[i]).ref = itens[i].ref
      BY DEF Campos
    <3>. QED
      BY <3>1, <3>2
  <2>4. ASSUME NEW i \in F
        PROVE  fila[i] \in NaFila /\ fila[i].tipo = "recv" /\ fila[i].s = s
    BY DEF NaFila, Range
  <2>5. \A p \in P : Ativando(p) /\ proc[p].s = s
    BY DEF Ativando, Antes
  <2>6. Cardinality(I) = IF I = {} THEN 0 ELSE 1
    <3>1. ASSUME NEW i \in I, NEW j \in I PROVE i = j
      <4>1. itens[i].ref = itens[j].ref
        BY <2>2, <2>3 DEF UmaLeitura, Pedidas
      <4>. QED
        BY <2>2, <4>1 DEF Distinta
    <3>. HIDE DEF I
    <3>. QED
      BY <3>1, Unitario
  <2>7. Cardinality(F) = IF F = {} THEN 0 ELSE 1
    <3>1. ASSUME NEW i \in F, NEW j \in F PROVE i = j
      <4>1. fila[i].ref = fila[j].ref
        BY <2>2, <2>4 DEF UmaLeitura, Pedidas
      <4>. QED
        BY <2>2, <4>1 DEF Distinta
    <3>. HIDE DEF F
    <3>. QED
      BY <3>1, Unitario
  <2>8. Cardinality(P) = IF P = {} THEN 0 ELSE 1
    <3>1. \A p, q \in P : p = q
      BY <2>2, <2>5 DEF UmaAtivacao
    <3>. HIDE DEF P
    <3>. QED
      BY <3>1, Unitario
  <2>9. ASSUME NEW i \in I, NEW j \in F PROVE FALSE
    <3>1. PICK e \in NosItens : e.tipo = "recv" /\ e.s = s
      BY <2>3
    <3>2. fila[j].ref = e.ref
      BY <2>2, <2>4, <3>1 DEF UmaLeitura, Pedidas
    <3>. QED
      BY <2>2, <2>4, <3>2 DEF PedidosFila
  <2>10. ASSUME NEW p \in P PROVE I = {} /\ F = {}
    BY <2>2, <2>3, <2>4, <2>5 DEF LeituraPorPedir, Pedidas
  <2>. HIDE DEF I, F, P
  <2>11. Cardinality(I) + Cardinality(F) + Cardinality(P) <= 1
    BY <2>6, <2>7, <2>8, <2>9, <2>10
  <2>. QED
    BY <2>11 DEF I, F, P
<1>. QED
  BY <1>1, CompletoSempre, PTL

(* A socket structure outlives the requests that point to it, although the *)
(* reference is counted after the request can already be served: a missing *)
(* reference is always that of a process still inside its call.            *)
THEOREM RecursosVivos == Spec => []RecursoVivo
<1>1. Completo => RecursoVivo
  <2>. SUFFICES ASSUME Completo, NEW s \in Socks,
                       \/ \E i \in DOMAIN itens : itens[i].s = s
                       \/ \E i \in DOMAIN fila : fila[i].s = s /\ fila[i].tipo # "term"
                PROVE  sock[s].refc + Cardinality({p \in Procs : EmCurso(p) /\ proc[p].s = s}) > 0
    BY DEF RecursoVivo
  <2>. DEFINE P == {p \in Procs : EmCurso(p) /\ proc[p].s = s}
  <2>1. TypeOK /\ Distinta(itens) /\ Contado(s)
    BY DEF Completo, Nucleo, InvRefs, InvReferencias
  <2>2. PorContar(s) \subseteq P /\ IsFiniteSet(P)
    BY ErlZmqAssumption, FS_Subset DEF PorContar, EmCurso
  <2>3. /\ IsFiniteSet(ItensDe(s)) /\ IsFiniteSet(FilaDe(s))
        /\ Cardinality(ItensDe(s)) \in Nat /\ Cardinality(FilaDe(s)) \in Nat
    BY <2>1, Finitas
  <2>4. ItensDe(s) # {} \/ FilaDe(s) # {}
    <3>1. ASSUME NEW i \in DOMAIN itens, itens[i].s = s PROVE Campos(itens[i]) \in ItensDe(s)
      BY <3>1 DEF ItensDe, NosItens, Vistos, Campos
    <3>2. ASSUME NEW i \in DOMAIN fila, fila[i].s = s, fila[i].tipo # "term"
          PROVE  fila[i] \in FilaDe(s)
      BY <3>2 DEF FilaDe, NaFila, Range
    <3>. QED
      BY <3>1, <3>2
  <2>5. Cardinality(ItensDe(s)) # 0 \/ Cardinality(FilaDe(s)) # 0
    BY <2>3, <2>4, FS_EmptySet
  <2>. HIDE DEF P
  <2>6. Cardinality(PorContar(s)) <= Cardinality(P) /\ Cardinality(P) \in Nat
        /\ Cardinality(PorContar(s)) \in Nat
    BY <2>2, NaoCresce
  <2>7. sock[s].refc \in Int
    BY <2>1 DEF TypeOK, TipoSock
  <2>8. sock[s].refc + Cardinality(P) > 0
    BY <2>1, <2>3, <2>5, <2>6, <2>7 DEF Contado
  <2>. QED
    BY <2>8 DEF P
<1>. QED
  BY <1>1, CompletoSempre, PTL

(* While calls do not cross and none gives up waiting, the messages of an  *)
(* open socket reach Erlang in the order they arrived, each once: handed   *)
(* over, on their way to the caller, or still in libzmq, whether the call  *)
(* itself, the polling thread or the active mode reads them, for any       *)
(* number of processes, sockets and messages.                              *)
THEOREM EntregasEmOrdem == Spec => []OrdemDeEntrega
<1>1. Init => InvEntrega
  BY EntregaInicial
<1>2. Completo /\ InvEntrega /\ [Next]_vars => InvEntrega'
  BY EntregaPasso DEF Completo
<1>3. Completo /\ InvEntrega => OrdemDeEntrega
  BY EntregaOrdenada DEF Completo, InvUso, InvEntrega, OrdemDeEntrega
<1>. QED
  BY <1>1, <1>2, <1>3, CompletoSempre, PTL DEF Spec
=============================================================================
