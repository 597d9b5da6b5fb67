------------------------------ MODULE Frontend ------------------------------
(***************************************************************************)
(* The Erlang front-end between the clients and the exchanges: the account *)
(* manager, one session process per TCP connection, and one producer       *)
(* process per request, which asks the exchange that the routing table     *)
(* names (accountManager.erl, usersession.erl, producer.erl, frontend.erl; *)
(* the other end of the connection is java_src/Client/Client.java).        *)
(*                                                                         *)
(* Mailboxes are sequences.  What a client writes is in the mailbox of its *)
(* session as {tcp, ...} at once: a client writes again only after it was  *)
(* answered, so that no two writes share a packet.  An exchange is what    *)
(* Exchange.tla shows it to be: it answers every request, except that an   *)
(* auction for a company it does not serve ends its thread.  Passwords are *)
(* right or wrong; amounts and rates are left out.                         *)
(***************************************************************************)
EXTENDS Naturals, Sequences, FiniteSets, SequencesExt

CONSTANTS Clientes,       \* clients, each with its connection and session
          Investidores,   \* accounts of type 1
          Empresas,       \* accounts of type 2, which are companies
          Desconhecida,   \* a company name that is not in the routing table
          Servidores,     \* exchanges
          Rota,           \* Rota[e]: where the front-end sends requests about e
          Serve,          \* Serve[x]: the companies exchange x has
          MaxContextos,   \* ZeroMQ contexts the virtual machine can have
          MaxPedidos,     \* bound on the requests made
          MaxLogins       \* bound on the login attempts

ASSUME FrontendAssumption ==
    /\ Desconhecida \notin Empresas
    /\ Investidores \cap Empresas = {}
    /\ Rota \in [Empresas -> Servidores]
    /\ Serve \in [Servidores -> SUBSET Empresas]
    /\ {MaxContextos, MaxPedidos, MaxLogins} \subseteq Nat

VARIABLES
    contas,      \* contas[u]: the third field of the account, logged in or not
    pedidosAM,   \* the mailbox of the account manager
    sess,        \* sess[c]: where the session of c is, and its Username
    caixa,       \* caixa[c]: its mailbox
    cli,         \* cli[c]: where the client is, its username, its last request
    rede,        \* rede[c]: what the session wrote and the client has not read
    produtores,  \* the producer processes
    servidores,  \* the exchanges whose thread runs
    contextos,   \* contexts made; none is ever terminated
    pedidos,     \* requests made
    logins       \* login attempts made

vars == <<contas, pedidosAM, sess, caixa, cli, rede, produtores, servidores,
          contextos, pedidos, logins>>

amVars == <<contas, pedidosAM>>
trocaVars == <<produtores, servidores, contextos>>

Contas == Investidores \cup Empresas
Nomes == Empresas \cup {Desconhecida}
Tipo(u) == IF u \in Investidores THEN 1 ELSE 2

\* what may be in the mailbox of a session or of the account manager
Auth(u, certa) == [tag |-> "auth", u |-> u, certa |-> certa]
Mensagem(tipo, e, ref) == [tag |-> "msg", tipo |-> tipo, empresa |-> e, ref |-> ref]
TcpClosed == [tag |-> "tcp_closed"]
Conta(res) == [tag |-> "conta", res |-> res]
Resposta(ref) == [tag |-> "producer", ref |-> ref]

Init ==
    /\ contas = [u \in Contas |-> FALSE]
    /\ pedidosAM = << >>
    /\ sess = [c \in Clientes |-> [pc |-> "nada", u |-> Desconhecida]]
    /\ caixa = [c \in Clientes |-> << >>]
    /\ cli = [c \in Clientes |-> [pc |-> "nada", u |-> Desconhecida, e |-> Desconhecida,
                                  ref |-> 0]]
    /\ rede = [c \in Clientes |-> << >>]
    /\ produtores = {}
    /\ servidores = Servidores
    /\ contextos = 0
    /\ pedidos = 0
    /\ logins = 0

SessaoViva(c) == sess[c].pc \notin {"nada", "fim"}
Morto(c) == cli[c].pc \in {"morto", "pendurado"}

\* a message sent to a process that has ended is lost
Entrega(c, m) == IF SessaoViva(c) THEN [caixa EXCEPT ![c] = Append(@, m)] ELSE caixa
-----------------------------------------------------------------------------
(***************************************************************************)
(* The client.                                                             *)
(***************************************************************************)
(* new Socket; acceptorService: the connection gets a session of its own   *)
Liga(c) ==
    /\ cli[c].pc = "nada"
    /\ cli' = [cli EXCEPT ![c].pc = "entrada"]
    /\ sess' = [sess EXCEPT ![c].pc = "porAutenticar"]
    /\ UNCHANGED <<amVars, caixa, rede, trocaVars, pedidos, logins>>

(* autenticacao(): ask until it succeeds                                   *)
Autentica(c, u, certa) ==
    /\ cli[c].pc = "entrada"
    /\ logins < MaxLogins
    /\ logins' = logins + 1
    /\ cli' = [cli EXCEPT ![c].pc = "autentica", ![c].u = u]
    /\ caixa' = Entrega(c, Auth(u, certa))
    /\ UNCHANGED <<amVars, sess, rede, trocaVars, pedidos>>

LeAuthRep(c) ==
    /\ cli[c].pc = "autentica"
    /\ rede[c] # << >>
    /\ cli' = [cli EXCEPT ![c].pc = IF Head(rede[c]).tipo = 0 THEN "entrada" ELSE "menu"]
    /\ rede' = [rede EXCEPT ![c] = Tail(@)]
    /\ UNCHANGED <<amVars, sess, caixa, trocaVars, pedidos, logins>>

(* leilao(), emissao(): the session puts the company in.  licitar(),       *)
(* emprestimo(): the user types it                                         *)
Pede(c, tipo, e) ==
    /\ cli[c].pc = "menu"
    /\ pedidos < MaxPedidos
    /\ IF cli[c].u \in Empresas THEN tipo \in {"leilao", "emissao"} /\ e = cli[c].u
       ELSE tipo \in {"licitar", "emprestimo"}
    /\ pedidos' = pedidos + 1
    /\ cli' = [cli EXCEPT ![c].pc = "espera", ![c].e = e, ![c].ref = pedidos + 1]
    /\ caixa' = Entrega(c, Mensagem(tipo, e, pedidos + 1))
    /\ UNCHANGED <<amVars, sess, rede, trocaVars, logins>>

LeReply(c) ==
    /\ cli[c].pc = "espera"
    /\ rede[c] # << >>
    /\ cli' = [cli EXCEPT ![c].pc = "menu"]
    /\ rede' = [rede EXCEPT ![c] = Tail(@)]
    /\ UNCHANGED <<amVars, sess, caixa, trocaVars, pedidos, logins>>

(* logout() does not wait for an answer; run() then closes the socket      *)
Logout(c) ==
    /\ cli[c].pc = "menu"
    /\ cli' = [cli EXCEPT ![c].pc = "sai"]
    /\ caixa' = Entrega(c, Mensagem("logout", Desconhecida, 0))
    /\ UNCHANGED <<amVars, sess, rede, trocaVars, pedidos, logins>>

Fecha(c) ==
    /\ cli[c].pc = "sai"
    /\ cli' = [cli EXCEPT ![c].pc = "fim"]
    /\ caixa' = Entrega(c, TcpClosed)
    /\ UNCHANGED <<amVars, sess, rede, trocaVars, pedidos, logins>>

(* The program ends without a logout: it is killed, which closes the       *)
(* connection, or an exception nobody catches ends the main thread (an     *)
(* amount that is no number, a notification added while mailbox() walks    *)
(* the list) and the notifier's thread keeps the connection open.          *)
Morre(c) ==
    /\ \/ /\ cli[c].pc \in {"entrada", "autentica", "menu", "espera"}
          /\ cli' = [cli EXCEPT ![c].pc = "morto"]
          /\ caixa' = Entrega(c, TcpClosed)
       \/ /\ cli[c].pc = "menu"
          /\ cli' = [cli EXCEPT ![c].pc = "pendurado"]
          /\ UNCHANGED caixa
    /\ UNCHANGED <<amVars, sess, rede, trocaVars, pedidos, logins>>
-----------------------------------------------------------------------------
(***************************************************************************)
(* accountManager.erl                                                      *)
(***************************************************************************)
(* Mutant of loop: the flag is not looked at.                              *)
loopSemEstado ==
    /\ pedidosAM # << >>
    /\ LET m  == Head(pedidosAM)
           ok == m.op = "logout" \/ m.certa
       IN /\ contas' = IF ok THEN [contas EXCEPT ![m.u] = m.op = "login"] ELSE contas
          /\ caixa' = Entrega(m.de, Conta(IF ok THEN Tipo(m.u) ELSE 0))
    /\ pedidosAM' = Tail(pedidosAM)
    /\ UNCHANGED <<sess, cli, rede, trocaVars, pedidos, logins>>

(* loop(): a login succeeds on a known user, the right password and the    *)
(* flag false; a logout on the flag true.  0 stands for invalid            *)
loop ==
    /\ pedidosAM # << >>
    /\ LET m  == Head(pedidosAM)
           ok == IF m.op = "login" THEN m.certa /\ ~ contas[m.u] ELSE contas[m.u]
       IN /\ contas' = IF ok THEN [contas EXCEPT ![m.u] = m.op = "login"] ELSE contas
          /\ caixa' = Entrega(m.de, Conta(IF ok THEN Tipo(m.u) ELSE 0))
    /\ pedidosAM' = Tail(pedidosAM)
    /\ UNCHANGED <<sess, cli, rede, trocaVars, pedidos, logins>>

Pergunta(m) == /\ pedidosAM' = Append(pedidosAM, m)
               /\ UNCHANGED contas
-----------------------------------------------------------------------------
(***************************************************************************)
(* usersession.erl                                                         *)
(***************************************************************************)
(* usersession/2: AuthReq; login() sends the question and waits            *)
RecebeAuthReq(c) ==
    /\ sess[c].pc = "porAutenticar"
    /\ caixa[c] # << >> /\ Head(caixa[c]).tag = "auth"
    /\ LET m == Head(caixa[c])
       IN /\ Pergunta([op |-> "login", u |-> m.u, certa |-> m.certa, de |-> c])
          /\ sess' = [sess EXCEPT ![c].pc = "login", ![c].u = m.u]
    /\ caixa' = [caixa EXCEPT ![c] = Tail(@)]
    /\ UNCHANGED <<cli, rede, trocaVars, pedidos, logins>>

(* usersession/2: any other message ends the session                       *)
SessaoErro(c) ==
    /\ sess[c].pc = "porAutenticar"
    /\ caixa[c] # << >> /\ Head(caixa[c]).tag # "auth"
    /\ sess' = [sess EXCEPT ![c].pc = "fim"]
    /\ caixa' = [caixa EXCEPT ![c] = << >>]
    /\ UNCHANGED <<amVars, cli, rede, trocaVars, pedidos, logins>>

(* login() takes whatever message comes first.  If that is tcp_closed it   *)
(* is not 'invalid', so the session goes on to encode it as the type of    *)
(* the account, which fails and ends the process                           *)
LoginResponde(c) ==
    /\ sess[c].pc = "login"
    /\ caixa[c] # << >>
    /\ LET m == Head(caixa[c])
       IN IF m.tag # "conta"
          THEN /\ sess' = [sess EXCEPT ![c].pc = "fim"]
               /\ caixa' = [caixa EXCEPT ![c] = << >>]
               /\ UNCHANGED rede
          ELSE /\ rede' = [rede EXCEPT ![c] = Append(@, [tipo |-> m.res, ref |-> 0])]
               /\ sess' = [sess EXCEPT ![c].pc = IF m.res = 0 THEN "porAutenticar"
                                                 ELSE "ativa"]
               /\ caixa' = [caixa EXCEPT ![c] = Tail(@)]
    /\ UNCHANGED <<amVars, cli, trocaVars, pedidos, logins>>

(* usersession/3 takes the first tcp or producer message and leaves any    *)
(* other, tcp_closed among them, where it is                               *)
Primeira(c) ==
    LET I == {i \in DOMAIN caixa[c] : caixa[c][i].tag \in {"msg", "producer"}}
    IN IF sess[c].pc = "ativa" /\ I # {} THEN CHOOSE i \in I : \A j \in I : i <= j ELSE 0

Recebe(c, tag) ==
    /\ Primeira(c) # 0
    /\ caixa[c][Primeira(c)].tag = tag
    /\ caixa' = [caixa EXCEPT ![c] = RemoveAt(@, Primeira(c))]

(* licitar, emprestimo, leilao, emissao: a producer is spawned             *)
RecebeMensagem(c) ==
    LET m == caixa[c][Primeira(c)]
    IN /\ Recebe(c, "msg")
       /\ m.tipo # "logout"
       /\ produtores' = produtores \cup
             {[c |-> c, tipo |-> m.tipo, empresa |-> m.empresa, ref |-> m.ref,
               pc |-> "arranca"]}
       /\ UNCHANGED <<amVars, sess, cli, rede, servidores, contextos, pedidos, logins>>

(* Mutant of RecebeLogout: the account manager is not told.                *)
RecebeLogoutSemAviso(c) ==
    LET m == caixa[c][Primeira(c)]
    IN /\ Recebe(c, "msg")
       /\ m.tipo = "logout"
       /\ sess' = [sess EXCEPT ![c].pc = "logout"]
       /\ UNCHANGED <<amVars, cli, rede, trocaVars, pedidos, logins>>

RecebeLogout(c) ==
    LET m == caixa[c][Primeira(c)]
    IN /\ Recebe(c, "msg")
       /\ m.tipo = "logout"
       /\ Pergunta([op |-> "logout", u |-> sess[c].u, certa |-> TRUE, de |-> c])
       /\ sess' = [sess EXCEPT ![c].pc = "logout"]
       /\ UNCHANGED <<cli, rede, trocaVars, pedidos, logins>>

(* logout() waits for whatever message comes, then exit(ok)                *)
LogoutResponde(c) ==
    /\ sess[c].pc = "logout"
    /\ caixa[c] # << >>
    /\ sess' = [sess EXCEPT ![c].pc = "fim"]
    /\ caixa' = [caixa EXCEPT ![c] = << >>]
    /\ UNCHANGED <<amVars, cli, rede, trocaVars, pedidos, logins>>

(* {producer, Msg}: on to the client; on a closed connection it is lost    *)
RecebeResposta(c) ==
    LET m == caixa[c][Primeira(c)]
    IN /\ Recebe(c, "producer")
       /\ rede' = IF cli[c].pc \in {"fim", "morto"} THEN rede
                  ELSE [rede EXCEPT ![c] = Append(@, [tipo |-> 3, ref |-> m.ref])]
       /\ UNCHANGED <<amVars, sess, cli, trocaVars, pedidos, logins>>
-----------------------------------------------------------------------------
(***************************************************************************)
(* producer.erl and the exchanges                                          *)
(***************************************************************************)
Muda(r, pc) == produtores' = (produtores \ {r}) \cup {[r EXCEPT !.pc = pc]}
Termina(r) == produtores' = produtores \ {r}

(* Mutant of ProdutorArranca: it goes on without a context.                *)
ProdutorArrancaSemLimite(r) ==
    /\ r.pc = "arranca"
    /\ r.empresa \in Empresas
    /\ Muda(r, "enviado")
    /\ contextos' = contextos + 1
    /\ UNCHANGED <<amVars, sess, caixa, cli, rede, servidores, pedidos, logins>>

(* run(): an unknown company is refused at once; otherwise a new context,  *)
(* socket and connection carry the request.  Without a context the match   *)
(* {ok, Context} fails: the producer ends and nobody is told               *)
ProdutorArranca(r) ==
    /\ r.pc = "arranca"
    /\ \/ /\ r.empresa \notin Empresas
          /\ Termina(r)
          /\ caixa' = Entrega(r.c, Resposta(r.ref))
          /\ UNCHANGED contextos
       \/ /\ r.empresa \in Empresas
          /\ IF contextos < MaxContextos
             THEN Muda(r, "enviado") /\ contextos' = contextos + 1
             ELSE Termina(r) /\ UNCHANGED contextos
          /\ UNCHANGED caixa
    /\ UNCHANGED <<amVars, sess, cli, rede, servidores, pedidos, logins>>

(* Mutant of ServidorAtende: any auction ends the thread.                  *)
ServidorAtendeEMorre(r) ==
    LET x == Rota[r.empresa]
    IN /\ r.pc = "enviado" /\ x \in servidores
       /\ IF r.tipo = "leilao" THEN servidores' = servidores \ {x} /\ UNCHANGED produtores
          ELSE Muda(r, "respondido") /\ UNCHANGED servidores
       /\ UNCHANGED <<amVars, sess, caixa, cli, rede, contextos, pedidos, logins>>

(* Exchange.run(): answers; an auction of a company it does not have is    *)
(* refused for its amount or ends the thread                               *)
ServidorAtende(r) ==
    LET x == Rota[r.empresa]
    IN /\ r.pc = "enviado" /\ x \in servidores
       /\ \/ Muda(r, "respondido") /\ UNCHANGED servidores
          \/ /\ r.tipo = "leilao" /\ r.empresa \notin Serve[x]
             /\ servidores' = servidores \ {x}
             /\ UNCHANGED produtores
       /\ UNCHANGED <<amVars, sess, caixa, cli, rede, contextos, pedidos, logins>>

(* Mutant of ProdutorResponde: the producer stays and answers again.       *)
ProdutorRespondeSempre(r) ==
    /\ r.pc = "respondido"
    /\ Len(caixa[r.c]) < 2
    /\ caixa' = Entrega(r.c, Resposta(r.ref))
    /\ UNCHANGED <<amVars, sess, cli, rede, trocaVars, pedidos, logins>>

ProdutorResponde(r) ==
    /\ r.pc = "respondido"
    /\ Termina(r)
    /\ caixa' = Entrega(r.c, Resposta(r.ref))
    /\ UNCHANGED <<amVars, sess, cli, rede, servidores, contextos, pedidos, logins>>
-----------------------------------------------------------------------------
Cliente(c) ==
    \/ Liga(c)
    \/ \E u \in Contas, certa \in BOOLEAN : Autentica(c, u, certa)
    \/ \E tipo \in {"leilao", "emissao", "licitar", "emprestimo"}, e \in Nomes :
           Pede(c, tipo, e)
    \/ Logout(c) \/ Morre(c)

ClienteLe(c) == LeAuthRep(c) \/ LeReply(c) \/ Fecha(c)

Sessao(c) == \/ RecebeAuthReq(c) \/ SessaoErro(c) \/ LoginResponde(c)
             \/ RecebeMensagem(c) \/ RecebeLogout(c) \/ LogoutResponde(c)
             \/ RecebeResposta(c)

Produtor(r) == ProdutorArranca(r) \/ ServidorAtende(r) \/ ProdutorResponde(r)

Next ==
    \/ \E c \in Clientes : Cliente(c) \/ ClienteLe(c) \/ Sessao(c)
    \/ loop
    \/ \E r \in produtores : Produtor(r)

Spec == Init /\ [][Next]_vars

(* Erlang processes and exchange threads that can run do; a client reads   *)
(* what it waits for, but nobody has to log in, ask or log out.            *)
FairSpec ==
    /\ Spec
    /\ WF_vars(loop)
    /\ \A c \in Clientes : WF_vars(Sessao(c)) /\ WF_vars(ClienteLe(c))
    /\ \A c \in Clientes, n \in 1 .. MaxPedidos :
          WF_vars(\E r \in produtores : r.ref = n /\ r.c = c /\ Produtor(r))
-----------------------------------------------------------------------------
(***************************************************************************)
(* Properties.                                                             *)
(***************************************************************************)
Mensagens ==
    [tag : {"auth"}, u : Contas, certa : BOOLEAN]
      \cup [tag : {"msg"}, tipo : {"leilao", "emissao", "licitar", "emprestimo"},
            empresa : Nomes, ref : 1 .. MaxPedidos]
      \cup {Mensagem("logout", Desconhecida, 0)}
      \cup {TcpClosed}
      \cup [tag : {"conta"}, res : 0 .. 2]
      \cup [tag : {"producer"}, ref : 1 .. MaxPedidos]

TipoPedido == [op : {"login", "logout"}, u : Contas, certa : BOOLEAN, de : Clientes]
TipoSessao == [pc : {"nada", "porAutenticar", "login", "ativa", "logout", "fim"},
               u : Contas \cup {Desconhecida}]
TipoCliente == [pc : {"nada", "entrada", "autentica", "menu", "espera", "sai", "fim",
                      "morto", "pendurado"},
                u : Contas \cup {Desconhecida}, e : Nomes, ref : 0 .. MaxPedidos]
TipoRede == [tipo : 0 .. 3, ref : 0 .. MaxPedidos]
TipoProdutor == [c : Clientes, tipo : {"leilao", "emissao", "licitar", "emprestimo"},
                 empresa : Nomes, ref : 1 .. MaxPedidos,
                 pc : {"arranca", "enviado", "respondido"}]

(* Type invariant.                                                         *)
TypeOK ==
    /\ contas \in [Contas -> BOOLEAN]
    /\ pedidosAM \in Seq(TipoPedido)
    /\ sess \in [Clientes -> TipoSessao]
    /\ cli \in [Clientes -> TipoCliente]
    /\ caixa \in [Clientes -> Seq(Mensagens)]
    /\ rede \in [Clientes -> Seq(TipoRede)]
    /\ produtores \subseteq TipoProdutor
    /\ servidores \subseteq Servidores
    /\ contextos \in 0 .. MaxContextos
    /\ pedidos \in 0 .. MaxPedidos /\ logins \in 0 .. MaxLogins

(* An account is held by one session at a time, and is marked as logged in *)
(* for as long as a session holds it, however logins, logouts and lost     *)
(* connections of several clients cross in the account manager's mailbox.  *)
ContaDeUmaSessao ==
    \A u \in Contas :
        LET donas == {c \in Clientes : sess[c].pc = "ativa" /\ sess[c].u = u}
        IN Cardinality(donas) <= 1 /\ (donas # {} => contas[u])

(* An account that is marked as logged in has a client that can still log  *)
(* out or a logout on its way, unless a client that was using it ended     *)
(* without a logout: nothing else locks an account.                        *)
ContaPresaExplicada ==
    \A u \in Contas : contas[u] =>
        \/ \E c \in Clientes : cli[c].u = u /\ Morto(c)
        \/ \E c \in Clientes : cli[c].u = u /\ cli[c].pc \in {"autentica", "menu", "espera"}
                               /\ sess[c].pc \in {"login", "ativa"}
        \/ \E c \in Clientes : cli[c].u = u /\ cli[c].pc \in {"sai", "fim"}
                               /\ (sess[c].pc = "ativa" \/
                                   \E i \in DOMAIN pedidosAM :
                                       pedidosAM[i].op = "logout" /\ pedidosAM[i].u = u)

(* The answer a client reads is the answer to the last thing it asked:     *)
(* whatever is on its way to it (in the socket, in the session's mailbox,  *)
(* at a producer) is for that, and there is at most one of it.  Nothing in *)
(* a Reply says which request it answers.                                  *)
ACaminho(c) ==
    Len(rede[c])
    + Cardinality({i \in DOMAIN caixa[c] : caixa[c][i].tag = "producer"})
    + Cardinality({r \in produtores : r.c = c})
Refs(c) == {rede[c][i].ref : i \in DOMAIN rede[c]}
           \cup {caixa[c][i].ref : i \in {j \in DOMAIN caixa[c] :
                                            caixa[c][j].tag = "producer"}}
           \cup {r.ref : r \in {q \in produtores : q.c = c}}
RespostaCerta ==
    \A c \in Clientes :
        /\ cli[c].pc \in {"entrada", "menu", "sai"} => ACaminho(c) = 0
        /\ cli[c].pc = "autentica" => ACaminho(c) <= 1 /\ Refs(c) \subseteq {0}
        /\ cli[c].pc = "espera" => ACaminho(c) <= 1 /\ Refs(c) \subseteq {cli[c].ref}

(* A client that asks is answered, refusals included.  The exceptions: the *)
(* producer found no context left and ended, or the exchange asked also    *)
(* gets the requests of a company it does not serve, whose auction can end *)
(* its thread.                                                             *)
RotaSa(e) == \A f \in Empresas : Rota[f] = Rota[e] => f \in Serve[Rota[e]]
SemContexto(c) == /\ contextos = MaxContextos
                  /\ ACaminho(c) = 0
                  /\ \A i \in DOMAIN caixa[c] : caixa[c][i].tag # "msg"
ClienteAtendido ==
    \A c \in Clientes :
        /\ (cli[c].pc = "autentica") ~> (cli[c].pc # "autentica")
        /\ (cli[c].pc = "espera" /\ (cli[c].e \in Empresas => RotaSa(cli[c].e)))
             ~> (cli[c].pc # "espera" \/ SemContexto(c))
=============================================================================
