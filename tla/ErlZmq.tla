------------------------------- MODULE ErlZmq -------------------------------
(***************************************************************************)
(* One context of the Erlang binding to ZeroMQ through which the front-end *)
(* talks to the exchanges (erlzmq2/c_src/erlzmq_nif.c, and the receive     *)
(* clauses of erlzmq.erl around it).  Erlang processes call the NIFs; a    *)
(* call that cannot finish at once sends a request down an in-process pipe *)
(* to the context's polling thread and waits for {Ref, Result}.            *)
(*                                                                         *)
(* A section under a mutex is one step.  The test of a mutex for NULL and  *)
(* the lock that follows are two steps, as in the code, and so are the     *)
(* message on the pipe and the enif_keep_resource after it.  A call that   *)
(* returns an error at once (wrong argument, {error, active}, NULL mutex,  *)
(* an operation the socket's type lacks, failed allocation) changes        *)
(* nothing and is not a step.                                              *)
(*                                                                         *)
(* Message contents, socket_index, active_pid, environments and the text   *)
(* of errors are left out; the messages arriving on a socket are numbered. *)
(***************************************************************************)
EXTENDS Integers, Sequences, FiniteSets, SequencesExt

CONSTANTS Procs,         \* Erlang processes
          Socks,         \* socket handles
          Leem,          \* sockets of a type that receives (PULL, REP, PAIR...)
          Escrevem,      \* sockets of a type that sends (PUSH, REQ, PAIR...)
          Nenhum,        \* no process
          FilaMax,       \* messages the in-process pipe holds
          MaxPedidos,    \* ERLZMQ_MAX_CONCURRENT_REQUESTS
          MaxChamadas,   \* bound on the calls made
          MaxMsgs        \* bound on the messages arriving per socket

ASSUME ErlZmqAssumption ==
    /\ {FilaMax, MaxPedidos, MaxChamadas, MaxMsgs} \subseteq Nat
    /\ FilaMax > 0 /\ MaxPedidos > 0
    /\ Nenhum \notin Procs
    /\ Leem \subseteq Socks /\ Escrevem \subseteq Socks
    /\ Socks # {} /\ IsFiniteSet(Procs)

VARIABLES
    ctx,       \* the context: "nada", "vivo", "terminado" (mutex and name NULL)
    dono,      \* the process holding context->mutex in a send that blocks
    sock,      \* sock[s]: the erlzmq_socket_t of handle s
    fila,      \* requests in the pipe
    fio,       \* the polling thread: pc, whether the pipe polled readable, TERM
    itens,     \* items_zmq and requests, from index 1 on
    proc,      \* proc[p]: the call process p is making
    caixa,     \* caixa[p]: {Ref, Result} messages in the mailbox of p
    inbox,     \* inbox[s]: messages libzmq has for s
    cheio,     \* cheio[s]: libzmq cannot take a message for s now
    obtidas,   \* obtidas[s]: messages handed to Erlang, in order
    saidas,    \* refs of the messages handed to libzmq, in order
    chegadas,  \* chegadas[s]: how many messages arrived on s
    chamadas,  \* calls made, the last one's ref
    queda,     \* "nenhuma", "assert" or "ub": how the virtual machine fell
    abuso,     \* TRUE once calls overlapped or used a closed active socket
    expirou    \* TRUE once a call gave up waiting

ctxVars == <<ctx, dono, fila>>
zmqVars == <<inbox, cheio, chegadas>>
logVars == <<obtidas, saidas>>
vars == <<ctx, dono, sock, fila, fio, itens, proc, caixa, inbox, cheio, obtidas,
          saidas, chegadas, chamadas, queda, abuso, expirou>>

Tipos == {"send", "recv", "close", "term"}
Pedidos == [tipo : Tipos, s : Socks, p : Procs \cup {Nenhum}, ref : Nat]
Livre == [pc |-> "livre", op |-> "bind", s |-> CHOOSE s \in Socks : TRUE,
          ref |-> 0, prazo |-> FALSE]
SemTerm == [tipo |-> "term", s |-> Livre.s, p |-> Nenhum, ref |-> 0]

Init ==
    /\ ctx = "nada"
    /\ dono = Nenhum
    /\ sock = [s \in Socks |-> [estado |-> "nada", active |-> "OFF", timeo |-> FALSE,
                                refc |-> 0]]
    /\ fila = << >>
    /\ fio = [pc |-> "nada", pronta |-> FALSE, ped |-> SemTerm]
    /\ itens = << >>
    /\ proc = [p \in Procs |-> Livre]
    /\ caixa = [p \in Procs |-> {}]
    /\ inbox = [s \in Socks |-> << >>]
    /\ cheio = [s \in Socks |-> FALSE]
    /\ obtidas = [s \in Socks |-> << >>]
    /\ saidas = << >>
    /\ chegadas = [s \in Socks |-> 0]
    /\ chamadas = 0
    /\ queda = "nenhuma"
    /\ abuso = FALSE
    /\ expirou = FALSE

Aberto(s) == sock[s].estado = "aberto"       \* mutex and socket_zmq not NULL
Terminada == fio.pc \in {"zmq_term", "fim"}  \* zmq_term called: libzmq says ETERM
Vivo == queda = "nenhuma"                    \* the virtual machine runs
EmCurso(p) == proc[p].pc \notin {"livre", "morto"}
-----------------------------------------------------------------------------
(***************************************************************************)
(* Contexts and sockets.                                                   *)
(***************************************************************************)
(* erlzmq_nif_context: every failure on the way undoes what was done, so   *)
(* only success changes anything.  The thread starts with an empty poll.   *)
Context ==
    /\ Vivo
    /\ ctx = "nada"
    /\ ctx' = "vivo"
    /\ fio' = [fio EXCEPT !.pc = "ciclo"]
    /\ UNCHANGED <<dono, sock, fila, itens, proc, caixa, zmqVars, logVars,
                   chamadas, queda, abuso, expirou>>

(* erlzmq_nif_socket does not look at the context's state: after the last  *)
(* zmq_term returned it uses a context that libzmq freed                   *)
Socket(p, s, active) ==
    /\ Vivo
    /\ proc[p].pc = "livre"
    /\ ctx # "nada"
    /\ sock[s].estado = "nada"
    /\ active # "OFF" => s \in Leem
    /\ \/ /\ ~ Terminada
          /\ sock' = [sock EXCEPT ![s] = [estado |-> "aberto", active |-> active,
                                          timeo |-> FALSE, refc |-> 1]]
          /\ UNCHANGED <<queda, abuso>>
       \/ /\ fio.pc = "fim"
          /\ queda' = "ub"
          /\ abuso' = TRUE
          /\ UNCHANGED sock
    /\ UNCHANGED <<ctxVars, fio, itens, proc, caixa, zmqVars, logVars, chamadas, expirou>>
-----------------------------------------------------------------------------
(***************************************************************************)
(* Calls.  proc[p].pc says what p does next: "tranca" lock the socket,     *)
(* "ctx" test the context's mutex, "envia" lock it and write to the pipe,  *)
(* "cheia" blocked on a full pipe, "keep" count the reference, "timeo"     *)
(* read the timeout option, "espera" wait for the answer.                  *)
(***************************************************************************)
(* the call overlaps another on the same socket, or one of them is a term; *)
(* or it sends on an active socket already closed, which nothing checks    *)
Cruza(p, op, s) ==
    \/ \E q \in Procs \ {p} : /\ EmCurso(q)
                              /\ op = "term" \/ proc[q].op = "term" \/ proc[q].s = s
    \/ op = "send" /\ sock[s].active # "OFF" /\ ~ Aberto(s)

Passa(p, pc) == proc' = [proc EXCEPT ![p].pc = pc]
Volta(p) == proc' = [proc EXCEPT ![p] = Livre]

(* Mutant of Chama: the mutex is not tested for NULL.                      *)
ChamaSemTeste(p, op, s) ==
    /\ Vivo
    /\ proc[p].pc = "livre"
    /\ chamadas < MaxChamadas
    /\ IF op = "term" THEN ctx # "nada" ELSE sock[s].estado # "nada"
    /\ op = "recv" => s \in Leem /\ sock[s].active = "OFF"
    /\ op = "send" => s \in Escrevem
    /\ LET direta == op \in {"close", "term"} \/ (op = "send" /\ sock[s].active # "OFF")
       IN proc' = [proc EXCEPT ![p] = [pc |-> IF direta THEN "ctx" ELSE "tranca",
                                       op |-> op, s |-> s, ref |-> chamadas + 1,
                                       prazo |-> FALSE]]
    /\ chamadas' = chamadas + 1
    /\ abuso' = (abuso \/ Cruza(p, op, s))
    /\ UNCHANGED <<ctxVars, sock, fio, itens, caixa, zmqVars, logVars, queda, expirou>>

(* the entry of a NIF: arguments, and the test that socket->mutex is there *)
Chama(p, op, s) ==
    /\ Vivo
    /\ proc[p].pc = "livre"
    /\ chamadas < MaxChamadas
    /\ IF op = "term" THEN ctx # "nada" ELSE sock[s].estado # "nada"
    /\ op = "recv" => s \in Leem /\ sock[s].active = "OFF"
    /\ op = "send" => s \in Escrevem
    /\ LET direta == op \in {"close", "term"} \/ (op = "send" /\ sock[s].active # "OFF")
       IN /\ ~ direta => Aberto(s)
          /\ proc' = [proc EXCEPT ![p] = [pc |-> IF direta THEN "ctx" ELSE "tranca",
                                          op |-> op, s |-> s, ref |-> chamadas + 1,
                                          prazo |-> FALSE]]
    /\ chamadas' = chamadas + 1
    /\ abuso' = (abuso \/ Cruza(p, op, s))
    /\ UNCHANGED <<ctxVars, sock, fio, itens, caixa, zmqVars, logVars, queda, expirou>>

(* the socket's mutex is only held between steps by the polling thread     *)
(* blocked in zmq_recvmsg or zmq_sendmsg                                   *)
Vez == IF \E i \in DOMAIN itens : itens[i].rev
       THEN CHOOSE i \in DOMAIN itens : /\ itens[i].rev
                                        /\ \A j \in 1 .. i - 1 : ~ itens[j].rev
       ELSE 0
MutexLivre(s) == ~ (fio.pc = "bloqueado" /\ itens[Vez].s = s)

NaSecao(p, op) == /\ Vivo
                  /\ proc[p].pc = "tranca"
                  /\ proc[p].op = op
                  /\ Aberto(proc[p].s)
                  /\ MutexLivre(proc[p].s)
                  /\ UNCHANGED <<ctxVars, fio, itens, caixa, cheio, chegadas,
                                 chamadas, queda, abuso, expirou>>

(* Mutant of Bind: every success on an active socket queues a request.     *)
BindSempre(p) ==
    LET s == proc[p].s
    IN /\ NaSecao(p, "bind")
       /\ \/ Volta(p) /\ UNCHANGED sock
          \/ /\ sock[s].active # "OFF" /\ ~ Terminada
             /\ sock' = [sock EXCEPT ![s].active = "ON"]
             /\ proc' = [proc EXCEPT ![p].pc = "ctx", ![p].op = "ativa"]
       /\ UNCHANGED <<inbox, logVars>>

(* erlzmq_nif_bind, erlzmq_nif_connect: the first success on an active     *)
(* socket queues the request that keeps it read (add_active_req)           *)
Bind(p) ==
    LET s == proc[p].s
    IN /\ NaSecao(p, "bind")
       /\ \/ Volta(p) /\ UNCHANGED sock
          \/ /\ sock[s].active = "PENDING" /\ ~ Terminada
             /\ sock' = [sock EXCEPT ![s].active = "ON"]
             /\ proc' = [proc EXCEPT ![p].pc = "ctx", ![p].op = "ativa"]
       /\ UNCHANGED <<inbox, logVars>>

(* erlzmq_nif_setsockopt: of the options only the two timeouts matter here *)
Setsockopt(p) ==
    /\ NaSecao(p, "setsockopt")
    /\ Volta(p)
    /\ \E b \in BOOLEAN : sock' = [sock EXCEPT ![proc[p].s].timeo =
                                    IF Terminada THEN @ ELSE b]
    /\ UNCHANGED <<inbox, logVars>>

(* erlzmq_nif_send, erlzmq_nif_recv: try without waiting; EAGAIN without   *)
(* the dontwait flag goes to the polling thread, any other error returns   *)
Tenta(p) ==
    LET s == proc[p].s
    IN /\ \/ /\ NaSecao(p, "send")
             /\ \/ ~ Terminada /\ ~ cheio[s] /\ Volta(p)
                   /\ saidas' = Append(saidas, proc[p].ref)
                \/ (Terminada \/ cheio[s]) /\ Volta(p) /\ UNCHANGED saidas
                \/ ~ Terminada /\ cheio[s] /\ Passa(p, "ctx") /\ UNCHANGED saidas
             /\ UNCHANGED <<inbox, obtidas>>
          \/ /\ NaSecao(p, "recv")
             /\ \/ /\ ~ Terminada /\ inbox[s] # << >> /\ Volta(p)
                   /\ obtidas' = [obtidas EXCEPT ![s] = Append(@, Head(inbox[s]))]
                   /\ inbox' = [inbox EXCEPT ![s] = Tail(@)]
                \/ /\ Terminada \/ inbox[s] = << >>
                   /\ Volta(p) /\ UNCHANGED <<inbox, obtidas>>
                \/ /\ ~ Terminada /\ inbox[s] = << >>
                   /\ Passa(p, "ctx") /\ UNCHANGED <<inbox, obtidas>>
             /\ UNCHANGED saidas
       /\ UNCHANGED sock

(* the mutex tested a step ago is gone: locking NULL or a destroyed mutex  *)
(* is undefined; a waiter that got it just before sees socket_zmq NULL     *)
TrancaNula(p) ==
    /\ Vivo
    /\ proc[p].pc = "tranca"
    /\ ~ Aberto(proc[p].s)
    /\ \/ queda' = "ub" /\ UNCHANGED proc
       \/ Volta(p) /\ UNCHANGED queda
    /\ UNCHANGED <<ctxVars, sock, fio, itens, caixa, zmqVars, logVars, chamadas,
                   abuso, expirou>>
-----------------------------------------------------------------------------
(***************************************************************************)
(* The request to the polling thread, the same in send, recv, close, term  *)
(* and add_active_req.                                                     *)
(***************************************************************************)
Pedido(p) == [tipo |-> IF proc[p].op = "ativa" THEN "recv" ELSE proc[p].op,
              s |-> proc[p].s, p |-> p, ref |-> proc[p].ref]

(* if (! context->mutex) return ETERM: also for close, so that a socket    *)
(* left open by term stays open                                            *)
TestaCtx(p) ==
    /\ Vivo
    /\ proc[p].pc = "ctx"
    /\ IF ctx = "terminado" THEN Volta(p) ELSE Passa(p, "envia")
    /\ UNCHANGED <<ctxVars, sock, fio, itens, caixa, zmqVars, logVars, chamadas,
                   queda, abuso, expirou>>

(* zmq_sendmsg on the pipe, flags 0: blocks when it is full, and holds     *)
(* context->mutex meanwhile                                                *)
Envia(p) ==
    /\ Vivo
    /\ \/ proc[p].pc = "envia" /\ ctx = "vivo" /\ dono = Nenhum
       \/ proc[p].pc = "cheia" /\ dono = p
    /\ IF Len(fila) < FilaMax
       THEN /\ fila' = Append(fila, Pedido(p))
            /\ dono' = Nenhum
            /\ Passa(p, "keep")
       ELSE /\ proc[p].pc = "envia"
            /\ dono' = p
            /\ Passa(p, "cheia")
            /\ UNCHANGED fila
    /\ UNCHANGED <<ctx, sock, fio, itens, caixa, zmqVars, logVars, chamadas,
                   queda, abuso, expirou>>

(* the context's mutex tested a step ago is gone: undefined, or a waiter   *)
(* that got it just before finds thread_socket_name NULL; then close       *)
(* closes the socket itself                                                *)
EnviaNula(p) ==
    LET s == proc[p].s
    IN /\ Vivo
       /\ proc[p].pc = "envia"
       /\ ctx = "terminado"
       /\ \/ queda' = "ub" /\ UNCHANGED <<sock, proc>>
          \/ /\ Volta(p)
             /\ IF proc[p].op = "close" /\ Aberto(s)
                THEN sock' = [sock EXCEPT ![s].estado = "fechado", ![s].refc = @ - 1]
                ELSE UNCHANGED sock
             /\ UNCHANGED queda
       /\ UNCHANGED <<ctxVars, fio, itens, caixa, zmqVars, logVars, chamadas,
                      abuso, expirou>>

(* enif_keep_resource, after the request is already visible to the thread  *)
Keep(p) ==
    /\ Vivo
    /\ proc[p].pc = "keep"
    /\ sock' = IF proc[p].op = "term" THEN sock
               ELSE [sock EXCEPT ![proc[p].s].refc = @ + 1]
    /\ CASE proc[p].op = "ativa"              -> Volta(p)
         [] proc[p].op \in {"send", "recv"}   -> Passa(p, "timeo")
         [] OTHER                             -> Passa(p, "espera")
    /\ UNCHANGED <<ctxVars, fio, itens, caixa, zmqVars, logVars, chamadas, queda,
                   abuso, expirou>>

(* erlzmq.erl reads the timeout with erlzmq_nif_getsockopt to start its    *)
(* receive; {error, eterm} matches no clause and kills the process         *)
Getsockopt(p) ==
    LET s == proc[p].s
    IN /\ Vivo
       /\ proc[p].pc = "timeo"
       /\ IF Aberto(s) /\ ~ Terminada
          THEN /\ MutexLivre(s)
               /\ proc' = [proc EXCEPT ![p].pc = "espera", ![p].prazo = sock[s].timeo]
          ELSE Passa(p, "morto")
       /\ UNCHANGED <<ctxVars, sock, fio, itens, caixa, zmqVars, logVars, chamadas,
                      queda, abuso, expirou>>

(* {Ref, Result} with this call's Ref; a result above 0 is a message       *)
Recebe(p) ==
    /\ Vivo
    /\ proc[p].pc = "espera"
    /\ \E m \in caixa[p] :
         /\ m.ref = proc[p].ref
         /\ caixa' = [caixa EXCEPT ![p] = @ \ {m}]
         /\ obtidas' = IF m.res = 0 THEN obtidas
                       ELSE [obtidas EXCEPT ![proc[p].s] = Append(@, m.res)]
    /\ Volta(p)
    /\ UNCHANGED <<ctxVars, sock, fio, itens, zmqVars, saidas, chamadas, queda,
                   abuso, expirou>>

(* the after clause: {error, eagain}; the request stays with the thread    *)
Expira(p) ==
    /\ Vivo
    /\ proc[p].pc = "espera"
    /\ proc[p].prazo
    /\ \A m \in caixa[p] : m.ref # proc[p].ref
    /\ Volta(p)
    /\ expirou' = TRUE
    /\ UNCHANGED <<ctxVars, sock, fio, itens, caixa, zmqVars, logVars, chamadas,
                   queda, abuso>>
-----------------------------------------------------------------------------
(***************************************************************************)
(* The polling thread.  "ciclo": walking the items that polled ready, then *)
(* the pipe, then polling again.                                           *)
(***************************************************************************)
Responde(p, ref, res) == caixa' = [caixa EXCEPT ![p] = @ \cup {[ref |-> ref, res |-> res]}]

Pode(it) == IF it.tipo = "recv" THEN inbox[it.s] # << >> ELSE ~ cheio[it.s]

(* zmq_poll.  An item made after its socket was closed holds a NULL socket *)
(* and polls file descriptor 0; one whose socket was closed later would    *)
(* make zmq_poll fail, and the assertion on its result abort               *)
Poll ==
    /\ Vivo
    /\ fio.pc = "ciclo" /\ Vez = 0 /\ ~ fio.pronta
    /\ IF \E i \in DOMAIN itens : itens[i].zmq /\ ~ Aberto(itens[i].s)
       THEN queda' = "assert" /\ UNCHANGED <<itens, fio>>
       ELSE /\ \E fd0 \in BOOLEAN :
                 itens' = [i \in DOMAIN itens |-> [itens[i] EXCEPT !.rev =
                              IF itens[i].zmq THEN Pode(itens[i]) ELSE fd0]]
            /\ fio' = [fio EXCEPT !.pronta = fila # << >>]
            /\ fio'.pronta \/ \E i \in DOMAIN itens : itens'[i].rev
            /\ UNCHANGED queda
    /\ UNCHANGED <<ctxVars, sock, proc, caixa, zmqVars, logVars, chamadas, abuso, expirou>>

(* assert(r->data.recv.socket->mutex), assert(r->data.send.socket->mutex)  *)
ItemAborta ==
    /\ Vivo
    /\ fio.pc = "ciclo" /\ Vez # 0
    /\ ~ Aberto(itens[Vez].s)
    /\ queda' = "assert"
    /\ UNCHANGED <<ctxVars, sock, fio, itens, proc, caixa, zmqVars, logVars,
                   chamadas, abuso, expirou>>

(* what the poll saw is no longer so: zmq_recvmsg or zmq_sendmsg blocks,   *)
(* holding the socket's mutex, and with it the whole context               *)
ItemBloqueia ==
    /\ Vivo
    /\ fio.pc = "ciclo" /\ Vez # 0
    /\ Aberto(itens[Vez].s) /\ ~ Pode(itens[Vez])
    /\ fio' = [fio EXCEPT !.pc = "bloqueado"]
    /\ UNCHANGED <<ctxVars, sock, itens, proc, caixa, zmqVars, logVars, chamadas,
                   queda, abuso, expirou>>

(* answer, release and remove the item; or keep it, for an active socket   *)
Larga(i) == /\ itens' = RemoveAt(itens, i)
            /\ sock' = [sock EXCEPT ![itens[i].s].refc = @ - 1]

(* Mutant of Mantem: the reference is released although the item stays.    *)
MantemESolta(i) == /\ itens' = [itens EXCEPT ![i].rev = FALSE]
                   /\ sock' = [sock EXCEPT ![itens[i].s].refc = @ - 1]

Mantem(i) == /\ itens' = [itens EXCEPT ![i].rev = FALSE]
             /\ UNCHANGED sock

(* Mutant of ItemRecv: the message is copied out but not taken.            *)
ItemRecvCopia ==
    LET it == itens[Vez]
        m  == Head(inbox[it.s])
    IN /\ Vivo
       /\ fio.pc \in {"ciclo", "bloqueado"} /\ Vez # 0
       /\ it.tipo = "recv" /\ Aberto(it.s) /\ Pode(it)
       /\ IF sock[it.s].active = "ON"
          THEN /\ obtidas' = [obtidas EXCEPT ![it.s] = Append(@, m)]
               /\ Mantem(Vez)
               /\ UNCHANGED caixa
          ELSE /\ Responde(it.p, it.ref, m)
               /\ Larga(Vez)
               /\ UNCHANGED obtidas
       /\ fio' = [fio EXCEPT !.pc = "ciclo"]
       /\ UNCHANGED <<ctxVars, proc, zmqVars, saidas, chamadas, queda, abuso, expirou>>

ItemRecv ==
    LET it == itens[Vez]
        m  == Head(inbox[it.s])
    IN /\ Vivo
       /\ fio.pc \in {"ciclo", "bloqueado"} /\ Vez # 0
       /\ it.tipo = "recv" /\ Aberto(it.s) /\ Pode(it)
       /\ inbox' = [inbox EXCEPT ![it.s] = Tail(@)]
       /\ IF sock[it.s].active = "ON"
          THEN /\ obtidas' = [obtidas EXCEPT ![it.s] = Append(@, m)]
               /\ Mantem(Vez)
               /\ UNCHANGED caixa
          ELSE /\ Responde(it.p, it.ref, m)
               /\ Larga(Vez)
               /\ UNCHANGED obtidas
       /\ fio' = [fio EXCEPT !.pc = "ciclo"]
       /\ UNCHANGED <<ctxVars, proc, cheio, chegadas, saidas, chamadas, queda,
                      abuso, expirou>>

(* Mutant of ItemSend: the item stays after its message went.              *)
ItemSendMantem ==
    LET it == itens[Vez]
    IN /\ Vivo
       /\ fio.pc \in {"ciclo", "bloqueado"} /\ Vez # 0
       /\ it.tipo = "send" /\ Aberto(it.s) /\ Pode(it)
       /\ saidas' = Append(saidas, it.ref)
       /\ Responde(it.p, it.ref, 0)
       /\ Mantem(Vez)
       /\ fio' = [fio EXCEPT !.pc = "ciclo"]
       /\ UNCHANGED <<ctxVars, proc, zmqVars, obtidas, chamadas, queda, abuso, expirou>>

ItemSend ==
    LET it == itens[Vez]
    IN /\ Vivo
       /\ fio.pc \in {"ciclo", "bloqueado"} /\ Vez # 0
       /\ it.tipo = "send" /\ Aberto(it.s) /\ Pode(it)
       /\ saidas' = Append(saidas, it.ref)
       /\ Responde(it.p, it.ref, 0)
       /\ Larga(Vez)
       /\ fio' = [fio EXCEPT !.pc = "ciclo"]
       /\ UNCHANGED <<ctxVars, proc, zmqVars, obtidas, chamadas, queda, abuso, expirou>>

(* EAGAIN: the timeout set on the socket ended the blocked operation       *)
ItemExpira ==
    LET it == itens[Vez]
    IN /\ Vivo
       /\ fio.pc = "bloqueado" /\ sock[it.s].timeo
       /\ IF it.tipo = "recv" /\ sock[it.s].active = "ON"
          THEN Mantem(Vez) /\ UNCHANGED caixa
          ELSE Larga(Vez) /\ Responde(it.p, it.ref, 0)
       /\ fio' = [fio EXCEPT !.pc = "ciclo"]
       /\ UNCHANGED <<ctxVars, proc, zmqVars, logVars, chamadas, queda, abuso, expirou>>

(* incoming requests: one per turn, popped under context->mutex            *)
DaFila == /\ Vivo
          /\ fio.pc = "ciclo" /\ Vez = 0 /\ fio.pronta
          /\ dono = Nenhum
          /\ fila' = Tail(fila)
          /\ UNCHANGED <<ctx, dono, proc, cheio, chegadas, logVars, chamadas, abuso,
                         expirou>>

(* Mutant of Regista: no limit on the vectors.                             *)
RegistaSemLimite ==
    LET r == Head(fila)
    IN /\ DaFila
       /\ r.tipo \in {"send", "recv"}
       /\ itens' = Append(itens, [tipo |-> r.tipo, s |-> r.s, p |-> r.p, ref |-> r.ref,
                                  zmq |-> Aberto(r.s), rev |-> FALSE])
       /\ fio' = [fio EXCEPT !.pronta = FALSE]
       /\ UNCHANGED <<sock, caixa, inbox, queda>>

(* the vector holds one entry more, for the pipe; a full vector aborts     *)
Regista ==
    LET r == Head(fila)
    IN /\ DaFila
       /\ r.tipo \in {"send", "recv"}
       /\ IF Len(itens) + 2 <= MaxPedidos
          THEN /\ itens' = Append(itens, [tipo |-> r.tipo, s |-> r.s, p |-> r.p,
                                          ref |-> r.ref, zmq |-> Aberto(r.s),
                                          rev |-> FALSE])
               /\ UNCHANGED queda
          ELSE queda' = "assert" /\ UNCHANGED itens
       /\ fio' = [fio EXCEPT !.pronta = FALSE]
       /\ UNCHANGED <<sock, caixa, inbox>>

(* vector_remove of the items at every other index                         *)
Ficam(indices) ==
    \E f \in Bijection(1 .. Cardinality(indices), indices) :
        /\ \A j, k \in DOMAIN f : j < k => f[j] < f[k]
        /\ itens' = [k \in DOMAIN f |-> itens[f[k]]]

(* Mutant of Close: the items of the socket stay.                          *)
CloseSemLimpar ==
    LET r == Head(fila)
    IN /\ DaFila
       /\ r.tipo = "close"
       /\ IF Aberto(r.s)
          THEN /\ sock' = [sock EXCEPT ![r.s].estado = "fechado", ![r.s].refc = @ - 1]
               /\ inbox' = [inbox EXCEPT ![r.s] = << >>]
               /\ UNCHANGED itens
          ELSE UNCHANGED <<itens, sock, inbox>>
       /\ Responde(r.p, r.ref, 0)
       /\ fio' = [fio EXCEPT !.pronta = FALSE]
       /\ UNCHANGED queda

(* Mutant of Close: a socket already closed is skipped without an answer.  *)
CloseMudo ==
    LET r == Head(fila)
    IN /\ DaFila
       /\ r.tipo = "close"
       /\ IF Aberto(r.s)
          THEN /\ sock' = [sock EXCEPT ![r.s].estado = "fechado", ![r.s].refc = @ - 1]
               /\ inbox' = [inbox EXCEPT ![r.s] = << >>]
               /\ Ficam({i \in DOMAIN itens : ~ (itens[i].zmq /\ itens[i].s = r.s)})
               /\ Responde(r.p, r.ref, 0)
          ELSE UNCHANGED <<itens, sock, inbox, caixa>>
       /\ fio' = [fio EXCEPT !.pronta = FALSE]
       /\ UNCHANGED queda

(* every item of the socket goes, unanswered, and the others keep their    *)
(* order; a socket already closed only gets ETERM, and the reference its   *)
(* request counted stays                                                   *)
Close ==
    LET r    == Head(fila)
        saem == {i \in DOMAIN itens : itens[i].zmq /\ itens[i].s = r.s}
    IN /\ DaFila
       /\ r.tipo = "close"
       /\ IF Aberto(r.s)
          THEN /\ Ficam(DOMAIN itens \ saem)
               /\ sock' = [sock EXCEPT ![r.s].estado = "fechado",
                                       ![r.s].refc = @ - 1 - Cardinality(saem)]
               /\ inbox' = [inbox EXCEPT ![r.s] = << >>]
          ELSE UNCHANGED <<itens, sock, inbox>>
       /\ Responde(r.p, r.ref, 0)
       /\ fio' = [fio EXCEPT !.pronta = FALSE]
       /\ UNCHANGED queda

PedidoTerm ==
    /\ DaFila
    /\ Head(fila).tipo = "term"
    /\ fio' = [fio EXCEPT !.pc = "term", !.pronta = FALSE, !.ped = Head(fila)]
    /\ UNCHANGED <<sock, itens, caixa, inbox, queda>>

(* the sockets of the pending requests are closed, and only those; the     *)
(* requests still in the pipe go with it; the caller is told ok at once    *)
Term ==
    /\ Vivo
    /\ fio.pc = "term"
    /\ dono = Nenhum
    /\ sock' = [s \in Socks |->
          LET n == Cardinality({i \in DOMAIN itens : itens[i].s = s})
          IN [sock[s] EXCEPT !.estado = IF n > 0 /\ Aberto(s) THEN "fechado" ELSE @,
                             !.refc = @ - n]]
    /\ itens' = << >>
    /\ fila' = << >>
    /\ ctx' = "terminado"
    /\ Responde(fio.ped.p, fio.ped.ref, 0)
    /\ fio' = [fio EXCEPT !.pc = "zmq_term"]
    /\ UNCHANGED <<dono, proc, zmqVars, logVars, chamadas, queda, abuso, expirou>>

(* zmq_term returns when no socket of the context is open                  *)
ZmqTerm ==
    /\ Vivo
    /\ fio.pc = "zmq_term"
    /\ \A s \in Socks : ~ Aberto(s)
    /\ fio' = [fio EXCEPT !.pc = "fim"]
    /\ UNCHANGED <<ctxVars, sock, itens, proc, caixa, zmqVars, logVars, chamadas,
                   queda, abuso, expirou>>
-----------------------------------------------------------------------------
(***************************************************************************)
(* libzmq and the peers: messages arrive; a socket without room or without *)
(* peers takes none.  Only a read or a write under way can tell, so that   *)
(* what happens before one starts is taken to happen once it has.          *)
(***************************************************************************)
EmUso(s, tipo) == \/ \E p \in Procs : EmCurso(p) /\ proc[p].s = s /\ proc[p].op = tipo
                  \/ \E i \in DOMAIN itens : itens[i].s = s /\ itens[i].tipo = tipo

Chega(s) == /\ Vivo
            /\ s \in Leem /\ Aberto(s) /\ EmUso(s, "recv")
            /\ chegadas[s] < MaxMsgs
            /\ chegadas' = [chegadas EXCEPT ![s] = @ + 1]
            /\ inbox' = [inbox EXCEPT ![s] = Append(@, chegadas'[s])]
            /\ UNCHANGED <<ctxVars, sock, fio, itens, proc, caixa, cheio, logVars,
                           chamadas, queda, abuso, expirou>>

Enche(s) == /\ Vivo
            /\ s \in Escrevem /\ Aberto(s) /\ EmUso(s, "send")
            /\ cheio' = [cheio EXCEPT ![s] = ~ @]
            /\ UNCHANGED <<ctxVars, sock, fio, itens, proc, caixa, inbox, chegadas,
                           logVars, chamadas, queda, abuso, expirou>>

Fio == \/ Poll \/ ItemAborta \/ ItemBloqueia \/ ItemRecv \/ ItemSend \/ ItemExpira
       \/ Regista \/ Close \/ PedidoTerm \/ Term \/ ZmqTerm

DentroDaChamada(p) == \/ Bind(p) \/ Setsockopt(p) \/ Tenta(p) \/ TrancaNula(p)
                      \/ TestaCtx(p) \/ Envia(p) \/ EnviaNula(p) \/ Keep(p)
                      \/ Getsockopt(p) \/ Recebe(p)

Next ==
    \/ Context
    \/ \E p \in Procs, s \in Socks, a \in {"OFF", "PENDING"} : Socket(p, s, a)
    \/ \E p \in Procs, s \in Socks,
          op \in {"bind", "setsockopt", "send", "recv", "close"} : Chama(p, op, s)
    \/ \E p \in Procs : Chama(p, "term", Livre.s)
    \/ \E p \in Procs : DentroDaChamada(p)
    \/ \E p \in Procs : Expira(p)
    \/ Fio
    \/ \E s \in Socks : Chega(s) \/ Enche(s)

Spec == Init /\ [][Next]_vars
(* The thread runs whenever it can and so does a process inside a call; no *)
(* one has to make a call, and neither peers nor timeouts have to help.    *)
FairSpec == /\ Spec
            /\ WF_vars(Fio)
            /\ \A p \in Procs : WF_vars(DentroDaChamada(p))
-----------------------------------------------------------------------------
(***************************************************************************)
(* Properties.                                                             *)
(***************************************************************************)
(* Type invariant.                                                         *)
TipoSock == [estado : {"nada", "aberto", "fechado"}, active : {"OFF", "PENDING", "ON"},
             timeo : BOOLEAN, refc : Int]
TipoFio == [pc : {"nada", "ciclo", "bloqueado", "term", "zmq_term", "fim"},
            pronta : BOOLEAN, ped : Pedidos]
TipoItem == [tipo : {"send", "recv"}, s : Socks, p : Procs, ref : Nat,
             zmq : BOOLEAN, rev : BOOLEAN]
TipoProc == [pc : {"livre", "tranca", "ctx", "envia", "cheia", "keep", "timeo",
                   "espera", "morto"},
             op : Tipos \cup {"bind", "setsockopt", "ativa"},
             s : Socks, ref : Nat, prazo : BOOLEAN]
TipoResposta == [ref : 1 .. MaxChamadas, res : 0 .. MaxMsgs]
TypeOK ==
    /\ ctx \in {"nada", "vivo", "terminado"}
    /\ dono \in Procs \cup {Nenhum}
    /\ sock \in [Socks -> TipoSock]
    /\ fila \in Seq(Pedidos) /\ Len(fila) <= FilaMax
    /\ fio \in TipoFio
    /\ itens \in Seq(TipoItem) /\ Len(itens) < MaxPedidos
    /\ proc \in [Procs -> TipoProc]
    /\ caixa \in [Procs -> SUBSET TipoResposta]
    /\ inbox \in [Socks -> Seq(1 .. MaxMsgs)]
    /\ cheio \in [Socks -> BOOLEAN]
    /\ obtidas \in [Socks -> Seq(1 .. MaxMsgs)]
    /\ saidas \in Seq(1 .. MaxChamadas)
    /\ chegadas \in [Socks -> 0 .. MaxMsgs]
    /\ chamadas \in 0 .. MaxChamadas
    /\ queda \in {"nenhuma", "assert", "ub"}
    /\ {abuso, expirou} \subseteq BOOLEAN

(* As long as calls on one socket do not overlap, no call runs beside a    *)
(* term and a closed active socket is not sent on, no assertion of the NIF *)
(* fails and no freed mutex is used, with one exception: a full request    *)
(* vector (calls that gave up waiting leave their requests in it).         *)
QuedaExplicada == queda # "nenhuma" => abuso \/ Len(itens) + 1 = MaxPedidos

(* zmq_poll is never given a socket that was closed: CLOSE and TERM take   *)
(* out every item of the sockets they close.                               *)
ItensAbertos == \A i \in DOMAIN itens : itens[i].zmq => Aberto(itens[i].s)

(* The thread, and with it every socket of the context, blocks reading a   *)
(* message only if two readers were after it: overlapping calls, or a call *)
(* made after another gave up.  (It may still block in zmq_sendmsg, when   *)
(* the room it polled went away with the peer.)                            *)
LeituraNaoBloqueia ==
    fio.pc = "bloqueado" /\ itens[Vez].tipo = "recv" => abuso \/ expirou

(* A call that waits for its Ref has exactly one thing that will give it   *)
(* an answer: its request in the pipe, its item, or the answer itself.     *)
(* None is lost and none is answered twice.                                *)
Pendentes(p) ==
    LET r == proc[p].ref
    IN Cardinality({i \in DOMAIN fila : fila[i].ref = r})
       + Cardinality({i \in DOMAIN itens : itens[i].ref = r})
       + Cardinality({m \in caixa[p] : m.ref = r})
       + (IF fio.pc = "term" /\ fio.ped.ref = r THEN 1 ELSE 0)
PedidoNaoSePerde ==
    (~ abuso /\ queda = "nenhuma") =>
        \A p \in Procs : /\ proc[p].pc \in {"keep", "timeo", "espera"}
                         /\ proc[p].op # "ativa"
                         => Pendentes(p) = 1

(* Messages reach Erlang in order, without gaps or copies, whether the     *)
(* call's own attempt, the polling thread or active mode delivered them:   *)
(* what was handed over, what is on its way to the caller and what libzmq  *)
(* still has make up what arrived.                                         *)
ACaminho(s) ==
    SetToSeq({m.res : m \in UNION {{x \in caixa[p] : x.ref = proc[p].ref /\ x.res > 0}
                                    : p \in {q \in Procs : EmCurso(q) /\ proc[q].s = s}}})
EntregaEmOrdem(s) == obtidas[s] \o ACaminho(s) \o inbox[s] = [k \in 1 .. chegadas[s] |-> k]
OrdemDeEntrega ==
    (~ abuso /\ ~ expirou) => \A s \in Socks : Aberto(s) => EntregaEmOrdem(s)

(* A message is given to libzmq once: never while its request is pending,  *)
(* never twice, and always before the caller is told ok.                   *)
EnvioUnico ==
    /\ \A i, j \in DOMAIN saidas : saidas[i] = saidas[j] => i = j
    /\ \A i \in DOMAIN itens : itens[i].tipo = "send" =>
            itens[i].ref \notin {saidas[k] : k \in DOMAIN saidas}

(* An active socket is read by one request for as long as it is open:      *)
(* binding and connecting it repeatedly never adds a second reader.        *)
AtivoUmLeitor ==
    \A s \in Socks :
       sock[s].active = "ON" =>
          Cardinality({i \in DOMAIN itens : itens[i].s = s /\ itens[i].tipo = "recv"})
        + Cardinality({i \in DOMAIN fila : fila[i].s = s /\ fila[i].tipo = "recv"})
        + Cardinality({p \in Procs : /\ proc[p].pc \in {"ctx", "envia", "cheia"}
                                     /\ proc[p].op = "ativa" /\ proc[p].s = s}) <= 1

(* A socket structure outlives every request that points to it, although   *)
(* the reference is counted only after the request is already on the pipe  *)
(* (a process inside a call still holds the handle).                       *)
RecursoVivo ==
    \A s \in Socks :
       (\/ \E i \in DOMAIN itens : itens[i].s = s
        \/ \E i \in DOMAIN fila : fila[i].s = s /\ fila[i].tipo # "term") =>
          sock[s].refc + Cardinality({p \in Procs : EmCurso(p) /\ proc[p].s = s}) > 0

(* Calls return: close and term always, recv once there is a message; the  *)
(* exceptions are overlapping calls, a reader that gave up earlier, a pipe *)
(* so full that its writer keeps the mutex the thread needs, and a thread  *)
(* blocked in a send.                                                      *)
Excecao == \/ abuso \/ expirou \/ queda # "nenhuma"
           \/ dono # Nenhum \/ fio.pc = "bloqueado"
ChamadaVolta ==
    \A p \in Procs :
        (/\ EmCurso(p)
         /\ \/ proc[p].op \in {"close", "term", "bind", "setsockopt", "ativa"}
            \/ proc[p].op = "recv" /\ inbox[proc[p].s] # << >>)
          ~> (proc[p].pc = "livre" \/ Excecao)

(* The test suite's "Check that timeouts don't break normal message        *)
(* transfer": after a recv timed out, what arrives is still received.      *)
PrazoNaoPerde == ~ abuso => \A s \in Socks : Aberto(s) => EntregaEmOrdem(s)
=============================================================================
