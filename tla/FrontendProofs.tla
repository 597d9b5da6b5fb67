--------------------------- MODULE FrontendProofs ---------------------------
(***************************************************************************)
(* Proofs about the front-end, for any clients, accounts, exchanges and    *)
(* bounds: one session per account, no account locked without a reason,    *)
(* and no answer to the wrong request.                                     *)
(***************************************************************************)
EXTENDS Frontend, Lemas

-----------------------------------------------------------------------------
(* The inductive invariant.                                                *)

\* A session that asked for an account knows which.
InvSessao == \A c \in Clientes :
                sess[c].pc \in {"login", "ativa", "logout"} => sess[c].u \in Contas

\* The account manager has at most one question of each session, and the
\* session that asked is waiting for the answer or has ended.
PedidoCerto(m) ==
    /\ m.u = sess[m.de].u
    /\ m.op = "login" => /\ sess[m.de].pc \in {"login", "fim"}
                         /\ m.u = cli[m.de].u
                         /\ sess[m.de].pc = "fim" => Morto(m.de)
    /\ m.op = "logout" => sess[m.de].pc \in {"logout", "fim"}
InvPedidos ==
    /\ \A i, j \in DOMAIN pedidosAM : pedidosAM[i].de = pedidosAM[j].de => i = j
    /\ \A i \in DOMAIN pedidosAM : PedidoCerto(pedidosAM[i])

\* A session's mailbox has an answer of the account manager only while the
\* session waits for one, and then the question is gone and the answer is the
\* only one.
EConta(c, i) == caixa[c][i].tag = "conta"
InvRespostas ==
    \A c \in Clientes : \A i \in DOMAIN caixa[c] : EConta(c, i) =>
        /\ sess[c].pc \in {"login", "logout"}
        /\ \A k \in DOMAIN pedidosAM : pedidosAM[k].de # c
        /\ \A j \in DOMAIN caixa[c] : EConta(c, j) => j = i

\* The session of c has its account: it is active, was accepted and does not
\* know yet, or its logout is on the way.
LogoutDe(c) == \E i \in DOMAIN pedidosAM : /\ pedidosAM[i].op = "logout"
                                           /\ pedidosAM[i].de = c
Aceite(c) == \E i \in DOMAIN caixa[c] : EConta(c, i) /\ caixa[c][i].res # 0
Tem(c) == \/ sess[c].pc = "ativa"
          \/ sess[c].pc = "login" /\ Aceite(c)
          \/ LogoutDe(c)
InvPosse ==
    /\ \A c \in Clientes : Tem(c) => contas[sess[c].u]
    /\ \A c, d \in Clientes : Tem(c) /\ Tem(d) /\ sess[c].u = sess[d].u => c = d

\* What a session still has to read about a login is of its client's account.
InvAuth == \A c \in Clientes : \A i \in DOMAIN caixa[c] :
              caixa[c][i].tag = "auth" => caixa[c][i].u = cli[c].u

\* Where a client that runs stands, its session stands too.
Prods(c) == {r \in produtores : r.c = c}
Calma(c) == rede[c] = << >> /\ Prods(c) = {}
Autenticada(c) == sess[c].pc = "ativa" /\ sess[c].u = cli[c].u
SincAutentica(c) ==
    /\ Prods(c) = {}
    /\ \/ /\ sess[c].pc = "porAutenticar" /\ rede[c] = << >>
          /\ \E certa \in BOOLEAN : caixa[c] = <<Auth(cli[c].u, certa)>>
       \/ /\ sess[c].pc = "login" /\ sess[c].u = cli[c].u /\ rede[c] = << >>
          /\ caixa[c] = << >> \/ \E n \in 0 .. 2 : caixa[c] = <<Conta(n)>>
       \/ /\ sess[c].pc = "porAutenticar" /\ caixa[c] = << >>
          /\ rede[c] = <<[tipo |-> 0, ref |-> 0]>>
       \/ /\ Autenticada(c) /\ caixa[c] = << >>
          /\ \E n \in 1 .. 2 : rede[c] = <<[tipo |-> n, ref |-> 0]>>
SincEspera(c) ==
    /\ Autenticada(c)
    /\ cli[c].ref \in 1 .. MaxPedidos
    /\ \/ /\ Calma(c)
          /\ \/ caixa[c] = << >>
             \/ caixa[c] = <<Resposta(cli[c].ref)>>
             \/ \E t \in {"leilao", "emissao", "licitar", "emprestimo"}, e \in Nomes :
                   caixa[c] = <<Mensagem(t, e, cli[c].ref)>>
       \/ /\ caixa[c] = << >> /\ Prods(c) = {}
          /\ rede[c] = <<[tipo |-> 3, ref |-> cli[c].ref]>>
       \/ /\ caixa[c] = << >> /\ rede[c] = << >>
          /\ \E r \in produtores : Prods(c) = {r} /\ r.ref = cli[c].ref
SincSaida(c, caixaAtiva) ==
    /\ Calma(c)
    /\ sess[c].u = cli[c].u
    /\ \/ sess[c].pc = "ativa" /\ caixa[c] = caixaAtiva
       \/ sess[c].pc \in {"logout", "fim"}
Saida == Mensagem("logout", Desconhecida, 0)
Sincronia(c) ==
    /\ cli[c].pc = "nada" => sess[c].pc = "nada" /\ caixa[c] = << >> /\ Calma(c)
    /\ cli[c].pc = "entrada" =>
          sess[c].pc = "porAutenticar" /\ caixa[c] = << >> /\ Calma(c)
    /\ cli[c].pc = "autentica" => SincAutentica(c)
    /\ cli[c].pc = "menu" => Autenticada(c) /\ caixa[c] = << >> /\ Calma(c)
    /\ cli[c].pc = "espera" => SincEspera(c)
    /\ cli[c].pc = "sai" => SincSaida(c, <<Saida>>)
    /\ cli[c].pc = "fim" => SincSaida(c, <<Saida, TcpClosed>>)
    /\ cli[c].pc # "nada" => sess[c].pc # "nada"
InvSincronia == \A c \in Clientes : Sincronia(c)

\* An account marked as logged in was taken by a client that has it still, or
\* that ended without a logout.
Explica(c, u) == cli[c].u = u /\ (Morto(c) \/ Tem(c))
InvPresa == \A u \in Contas : contas[u] => \E c \in Clientes : Explica(c, u)

Indutivo == /\ TypeOK /\ InvSessao /\ InvPedidos /\ InvRespostas /\ InvPosse /\ InvAuth
            /\ InvSincronia /\ InvPresa

-----------------------------------------------------------------------------
(* The mailboxes.                                                          *)

(* A live or an ended session: a message appended to its mailbox keeps the *)
(* mailboxes well-typed, and touches no other.                             *)
LEMMA EntregaProperties ==
    ASSUME TypeOK, NEW c \in Clientes, NEW m \in Mensagens
    PROVE  /\ Entrega(c, m) \in [Clientes -> Seq(Mensagens)]
           /\ \A d \in Clientes \ {c} : Entrega(c, m)[d] = caixa[d]
           /\ ~ SessaoViva(c) => Entrega(c, m)[c] = caixa[c]
           /\ SessaoViva(c) => Entrega(c, m)[c] = Append(caixa[c], m)
<1>1. caixa \in [Clientes -> Seq(Mensagens)]
  BY DEF TypeOK
<1>2. Append(caixa[c], m) \in Seq(Mensagens)
  BY <1>1, AppendProperties
<1>. QED
  BY <1>1, <1>2 DEF Entrega

(* usersession/3 takes the first tcp or producer message there is.         *)
LEMMA PrimeiraProperties ==
    ASSUME TypeOK, NEW c \in Clientes, Primeira(c) # 0
    PROVE  /\ sess[c].pc = "ativa"
           /\ Primeira(c) \in 1 .. Len(caixa[c])
           /\ caixa[c][Primeira(c)] \in Mensagens
           /\ caixa[c][Primeira(c)].tag \in {"msg", "producer"}
           /\ \A j \in 1 .. Len(caixa[c]) :
                 caixa[c][j].tag \in {"msg", "producer"} => Primeira(c) <= j
<1>. DEFINE I == {i \in DOMAIN caixa[c] : caixa[c][i].tag \in {"msg", "producer"}}
<1>1. caixa[c] \in Seq(Mensagens)
  BY DEF TypeOK
<1>2. DOMAIN caixa[c] = 1 .. Len(caixa[c]) /\ Len(caixa[c]) \in Nat
  BY <1>1, LenProperties
<1>3. /\ sess[c].pc = "ativa" /\ I # {}
      /\ Primeira(c) = CHOOSE i \in I : \A j \in I : i <= j
  BY DEF Primeira
<1>4. I \subseteq Nat
  BY <1>2
<1>5. \E i \in I : \A j \in I : i <= j
  <2>. HIDE DEF I
  <2>. QED
    BY <1>3, <1>4, MenorElemento
<1>6. Primeira(c) \in I /\ \A j \in I : Primeira(c) <= j
  BY <1>3, <1>5
<1>. QED
  BY <1>1, <1>2, <1>3, <1>6, ElementOfSeq
-----------------------------------------------------------------------------
(* Types.                                                                  *)

(* The initial state is well-typed.                                        *)
LEMMA TiposInit == Init => TypeOK
<1>. SUFFICES ASSUME Init PROVE TypeOK
  OBVIOUS
<1>. USE FrontendAssumption
<1>1. sess \in [Clientes -> TipoSessao] /\ cli \in [Clientes -> TipoCliente]
  BY DEF Init, TipoSessao, TipoCliente, Nomes
<1>. QED
  BY <1>1 DEF Init, TypeOK

(* Changing one field of a client or of a session keeps the types.         *)
LEMMA TiposCampo ==
    ASSUME TypeOK, NEW c \in Clientes
    PROVE  /\ \A pc \in {"nada", "entrada", "autentica", "menu", "espera", "sai", "fim",
                         "morto", "pendurado"} :
                [cli EXCEPT ![c].pc = pc] \in [Clientes -> TipoCliente]
           /\ \A pc \in {"nada", "porAutenticar", "login", "ativa", "logout", "fim"} :
                [sess EXCEPT ![c].pc = pc] \in [Clientes -> TipoSessao]
<1>1. cli \in [Clientes -> TipoCliente] /\ cli[c] \in TipoCliente
  BY DEF TypeOK
<1>2. sess \in [Clientes -> TipoSessao] /\ sess[c] \in TipoSessao
  BY DEF TypeOK
<1>3. ASSUME NEW pc \in {"nada", "entrada", "autentica", "menu", "espera", "sai", "fim",
                         "morto", "pendurado"}
      PROVE  [cli EXCEPT ![c].pc = pc] \in [Clientes -> TipoCliente]
  <2>1. [cli[c] EXCEPT !.pc = pc] \in TipoCliente
    BY <1>1 DEF TipoCliente
  <2>. QED
    BY <1>1, <2>1
<1>4. ASSUME NEW pc \in {"nada", "porAutenticar", "login", "ativa", "logout", "fim"}
      PROVE  [sess EXCEPT ![c].pc = pc] \in [Clientes -> TipoSessao]
  <2>1. [sess[c] EXCEPT !.pc = pc] \in TipoSessao
    BY <1>2 DEF TipoSessao
  <2>. QED
    BY <1>2, <2>1
<1>. QED
  BY <1>3, <1>4

(* The steps of a client keep the types.                                   *)
LEMMA TiposCliente ==
    ASSUME TypeOK, NEW c \in Clientes, Cliente(c) \/ ClienteLe(c)
    PROVE  TypeOK'
<1>. USE FrontendAssumption
<1>1. /\ caixa \in [Clientes -> Seq(Mensagens)] /\ rede \in [Clientes -> Seq(TipoRede)]
      /\ cli \in [Clientes -> TipoCliente] /\ cli[c] \in TipoCliente
  BY DEF TypeOK
<1>2. ASSUME rede[c] # << >>
      PROVE  /\ Head(rede[c]) \in TipoRede
             /\ [rede EXCEPT ![c] = Tail(@)] \in [Clientes -> Seq(TipoRede)]
  BY <1>1, <1>2, HeadTailProperties
<1>3. CASE Liga(c)
  BY <1>3, TiposCampo DEF TypeOK, Liga, amVars, trocaVars
<1>4. ASSUME NEW u \in Contas, NEW certa \in BOOLEAN, Autentica(c, u, certa)
      PROVE  TypeOK'
  <2>1. Auth(u, certa) \in Mensagens
    BY DEF Auth, Mensagens
  <2>2. caixa' \in [Clientes -> Seq(Mensagens)]
    BY <1>4, <2>1, EntregaProperties DEF Autentica
  <2>3. [[cli[c] EXCEPT !.pc = "autentica"] EXCEPT !.u = u] \in TipoCliente
    BY <1>1 DEF TipoCliente
  <2>4. cli' \in [Clientes -> TipoCliente]
    BY <1>1, <1>4, <2>3 DEF Autentica
  <2>. QED
    BY <1>4, <2>2, <2>4 DEF TypeOK, Autentica, amVars, trocaVars
<1>5. ASSUME NEW tipo \in {"leilao", "emissao", "licitar", "emprestimo"},
             NEW e \in Nomes, Pede(c, tipo, e)
      PROVE  TypeOK'
  <2>1. pedidos + 1 \in 1 .. MaxPedidos
    BY <1>5 DEF Pede, TypeOK
  <2>2. Mensagem(tipo, e, pedidos + 1) \in Mensagens
    BY <2>1 DEF Mensagem, Mensagens
  <2>3. caixa' \in [Clientes -> Seq(Mensagens)]
    BY <1>5, <2>2, EntregaProperties DEF Pede
  <2>4. [[[cli[c] EXCEPT !.pc = "espera"] EXCEPT !.e = e] EXCEPT !.ref = pedidos + 1]
           \in TipoCliente
    <3>1. pedidos + 1 \in 0 .. MaxPedidos
      BY <2>1
    <3>. HIDE FrontendAssumption
    <3>. QED
      BY <1>1, <3>1 DEF TipoCliente
  <2>5. cli' \in [Clientes -> TipoCliente]
    BY <1>1, <1>5, <2>4 DEF Pede
  <2>. QED
    BY <1>5, <2>1, <2>3, <2>5 DEF TypeOK, Pede, amVars, trocaVars
<1>6. CASE Logout(c)
  <2>1. Mensagem("logout", Desconhecida, 0) \in Mensagens
    BY DEF Mensagens
  <2>2. caixa' \in [Clientes -> Seq(Mensagens)]
    BY <1>6, <2>1, EntregaProperties DEF Logout
  <2>. QED
    BY <1>6, <2>2, TiposCampo DEF TypeOK, Logout, amVars, trocaVars
<1>7. TcpClosed \in Mensagens
  BY DEF Mensagens
<1>8. CASE Morre(c)
  <2>1. caixa' \in [Clientes -> Seq(Mensagens)]
    BY <1>1, <1>7, <1>8, EntregaProperties DEF Morre
  <2>2. cli' \in [Clientes -> TipoCliente]
    <3>1. \E pc \in {"morto", "pendurado"} : cli' = [cli EXCEPT ![c].pc = pc]
      BY <1>8 DEF Morre
    <3>2. /\ [cli EXCEPT ![c].pc = "morto"] \in [Clientes -> TipoCliente]
          /\ [cli EXCEPT ![c].pc = "pendurado"] \in [Clientes -> TipoCliente]
      BY TiposCampo
    <3>. QED
      BY <3>1, <3>2
  <2>. QED
    BY <1>8, <2>1, <2>2 DEF TypeOK, Morre, amVars, trocaVars
<1>9. CASE LeAuthRep(c)
  <2>1. cli' \in [Clientes -> TipoCliente]
    BY <1>9, TiposCampo DEF LeAuthRep
  <2>. QED
    BY <1>2, <1>9, <2>1 DEF TypeOK, LeAuthRep, amVars, trocaVars
<1>10. CASE LeReply(c)
  BY <1>2, <1>10, TiposCampo DEF TypeOK, LeReply, amVars, trocaVars
<1>11. CASE Fecha(c)
  <2>1. caixa' \in [Clientes -> Seq(Mensagens)]
    BY <1>7, <1>11, EntregaProperties DEF Fecha
  <2>. QED
    BY <1>11, <2>1, TiposCampo DEF TypeOK, Fecha, amVars, trocaVars
<1>. QED
  BY <1>3, <1>4, <1>5, <1>6, <1>8, <1>9, <1>10, <1>11 DEF Cliente, ClienteLe

(* The account manager's step keeps the types.                             *)
LEMMA TiposLoop == ASSUME TypeOK, loop PROVE TypeOK'
<1>. DEFINE m  == Head(pedidosAM)
            ok == IF m.op = "login" THEN m.certa /\ ~ contas[m.u] ELSE contas[m.u]
<1>1. m \in TipoPedido /\ Tail(pedidosAM) \in Seq(TipoPedido)
  BY HeadTailProperties DEF loop, TypeOK, TipoPedido
<1>2. Conta(IF ok THEN Tipo(m.u) ELSE 0) \in Mensagens
  <2>1. (IF ok THEN Tipo(m.u) ELSE 0) \in 0 .. 2
    BY DEF Tipo
  <2>. QED
    BY <2>1 DEF Conta, Mensagens
<1>3. /\ contas' = IF ok THEN [contas EXCEPT ![m.u] = m.op = "login"] ELSE contas
      /\ caixa' = Entrega(m.de, Conta(IF ok THEN Tipo(m.u) ELSE 0))
  BY DEF loop
<1>4. m.de \in Clientes
  BY <1>1 DEF TipoPedido
<1>5. caixa' \in [Clientes -> Seq(Mensagens)]
  <2>. HIDE DEF m, ok
  <2>. QED
    BY <1>2, <1>3, <1>4, EntregaProperties
<1>6. contas' \in [Contas -> BOOLEAN]
  <2>. HIDE DEF m, ok
  <2>. QED
    BY <1>1, <1>3 DEF TypeOK, TipoPedido
<1>. QED
  BY <1>1, <1>5, <1>6 DEF TypeOK, loop, trocaVars, TipoPedido

(* The steps of a session keep the types.                                  *)
LEMMA TiposSessao ==
    ASSUME TypeOK, InvSessao, NEW c \in Clientes, Sessao(c)
    PROVE  TypeOK'
<1>. USE FrontendAssumption
<1>1. /\ caixa \in [Clientes -> Seq(Mensagens)] /\ caixa[c] \in Seq(Mensagens)
      /\ rede \in [Clientes -> Seq(TipoRede)] /\ rede[c] \in Seq(TipoRede)
      /\ sess \in [Clientes -> TipoSessao] /\ sess[c] \in TipoSessao
      /\ pedidosAM \in Seq(TipoPedido)
  BY DEF TypeOK
<1>2. ASSUME caixa[c] # << >>
      PROVE  /\ Head(caixa[c]) \in Mensagens
             /\ [caixa EXCEPT ![c] = Tail(@)] \in [Clientes -> Seq(Mensagens)]
  BY <1>1, <1>2, HeadTailProperties
<1>3. [caixa EXCEPT ![c] = << >>] \in [Clientes -> Seq(Mensagens)]
  BY <1>1, EmptySeq
<1>4. ASSUME Primeira(c) # 0
      PROVE  [caixa EXCEPT ![c] = RemoveAt(@, Primeira(c))] \in [Clientes -> Seq(Mensagens)]
  <2>1. RemoveAt(caixa[c], Primeira(c)) \in Seq(Mensagens)
    BY <1>1, <1>4, PrimeiraProperties, RemoveAtProperties
  <2>. QED
    BY <1>1, <2>1
<1>5. CASE RecebeAuthReq(c)
  <2>. DEFINE m == Head(caixa[c])
              q == [op |-> "login", u |-> m.u, certa |-> m.certa, de |-> c]
  <2>1. m \in [tag : {"auth"}, u : Contas, certa : BOOLEAN]
    BY <1>2, <1>5 DEF RecebeAuthReq, Mensagens, TcpClosed, Mensagem
  <2>2. q \in TipoPedido
    BY <2>1 DEF TipoPedido
  <2>3. pedidosAM' = Append(pedidosAM, q)
    BY <1>5 DEF RecebeAuthReq, Pergunta
  <2>4. pedidosAM' \in Seq(TipoPedido)
    <3>. HIDE DEF q
    <3>. QED
      BY <1>1, <2>2, <2>3, AppendProperties
  <2>5. [[sess[c] EXCEPT !.pc = "login"] EXCEPT !.u = m.u] \in TipoSessao
    BY <1>1, <2>1 DEF TipoSessao
  <2>6. sess' \in [Clientes -> TipoSessao]
    BY <1>1, <1>5, <2>5 DEF RecebeAuthReq
  <2>. QED
    BY <1>2, <1>5, <2>4, <2>6 DEF TypeOK, RecebeAuthReq, Pergunta, trocaVars
<1>6. CASE SessaoErro(c)
  BY <1>3, <1>6, TiposCampo DEF TypeOK, SessaoErro, amVars, trocaVars
<1>7. CASE LoginResponde(c)
  <2>. DEFINE m == Head(caixa[c])
  <2>1. CASE m.tag # "conta"
    <3>1. sess' = [sess EXCEPT ![c].pc = "fim"] /\ caixa' = [caixa EXCEPT ![c] = << >>]
      BY <1>7, <2>1 DEF LoginResponde
    <3>2. UNCHANGED <<amVars, rede, cli, trocaVars, pedidos, logins>>
      BY <1>7, <2>1 DEF LoginResponde
    <3>3. sess' \in [Clientes -> TipoSessao]
      BY <3>1, TiposCampo
    <3>. QED
      BY <1>3, <3>1, <3>2, <3>3 DEF TypeOK, amVars, trocaVars
  <2>2. CASE m.tag = "conta"
    <3>1. m \in [tag : {"conta"}, res : 0 .. 2]
      BY <1>2, <1>7, <2>2 DEF LoginResponde, Mensagens, TcpClosed, Mensagem
    <3>2. [tipo |-> m.res, ref |-> 0] \in TipoRede
      BY <3>1 DEF TipoRede
    <3>3. [rede EXCEPT ![c] = Append(@, [tipo |-> m.res, ref |-> 0])]
             \in [Clientes -> Seq(TipoRede)]
      BY <1>1, <3>2, AppendProperties
    <3>4. sess' \in [Clientes -> TipoSessao]
      <4>1. \E pc \in {"porAutenticar", "ativa"} : sess' = [sess EXCEPT ![c].pc = pc]
        BY <1>7, <2>2 DEF LoginResponde
      <4>2. /\ [sess EXCEPT ![c].pc = "porAutenticar"] \in [Clientes -> TipoSessao]
            /\ [sess EXCEPT ![c].pc = "ativa"] \in [Clientes -> TipoSessao]
        BY TiposCampo
      <4>. QED
        BY <4>1, <4>2
    <3>. QED
      BY <1>2, <1>7, <2>2, <3>3, <3>4 DEF TypeOK, LoginResponde, amVars, trocaVars
  <2>. QED
    BY <2>1, <2>2
<1>8. CASE RecebeMensagem(c)
  <2>. DEFINE m == caixa[c][Primeira(c)]
              r == [c |-> c, tipo |-> m.tipo, empresa |-> m.empresa, ref |-> m.ref,
                    pc |-> "arranca"]
  <2>1. Primeira(c) # 0 /\ m.tag = "msg" /\ m.tipo # "logout" /\ m \in Mensagens
    BY <1>8, PrimeiraProperties DEF RecebeMensagem, Recebe
  <2>2. m \in [tag : {"msg"}, tipo : {"leilao", "emissao", "licitar", "emprestimo"},
               empresa : Nomes, ref : 1 .. MaxPedidos]
    BY <2>1 DEF Mensagens, TcpClosed, Mensagem
  <2>3. r \in TipoProdutor
    BY <2>2 DEF TipoProdutor
  <2>4. produtores' = produtores \cup {r}
    BY <1>8 DEF RecebeMensagem
  <2>5. produtores' \subseteq TipoProdutor
    <3>. HIDE DEF r
    <3>. QED
      BY <2>3, <2>4 DEF TypeOK
  <2>6. caixa' \in [Clientes -> Seq(Mensagens)]
    BY <1>4, <1>8, <2>1 DEF RecebeMensagem, Recebe
  <2>. QED
    BY <1>8, <2>5, <2>6 DEF TypeOK, RecebeMensagem, amVars
<1>9. CASE RecebeLogout(c)
  <2>. DEFINE q == [op |-> "logout", u |-> sess[c].u, certa |-> TRUE, de |-> c]
  <2>0. Primeira(c) # 0
    BY <1>9 DEF RecebeLogout, Recebe
  <2>1. caixa' \in [Clientes -> Seq(Mensagens)]
    BY <1>4, <1>9, <2>0 DEF RecebeLogout, Recebe
  <2>2. sess[c].u \in Contas
    BY <2>0, PrimeiraProperties DEF InvSessao
  <2>3. q \in TipoPedido
    BY <2>2 DEF TipoPedido
  <2>4. pedidosAM' = Append(pedidosAM, q)
    BY <1>9 DEF RecebeLogout, Pergunta
  <2>5. pedidosAM' \in Seq(TipoPedido)
    <3>. HIDE DEF q
    <3>. QED
      BY <1>1, <2>3, <2>4, AppendProperties
  <2>. QED
    BY <1>9, <2>1, <2>5, TiposCampo DEF TypeOK, RecebeLogout, Pergunta, trocaVars
<1>10. CASE LogoutResponde(c)
  BY <1>3, <1>10, TiposCampo DEF TypeOK, LogoutResponde, amVars, trocaVars
<1>11. CASE RecebeResposta(c)
  <2>. DEFINE m == caixa[c][Primeira(c)]
  <2>1. Primeira(c) # 0 /\ m.tag = "producer" /\ m \in Mensagens
    BY <1>11, PrimeiraProperties DEF RecebeResposta, Recebe
  <2>2. m \in [tag : {"producer"}, ref : 1 .. MaxPedidos]
    BY <2>1 DEF Mensagens, TcpClosed, Mensagem
  <2>3. [tipo |-> 3, ref |-> m.ref] \in TipoRede
    BY <2>2 DEF TipoRede
  <2>4. rede' \in [Clientes -> Seq(TipoRede)]
    <3>1. [rede EXCEPT ![c] = Append(@, [tipo |-> 3, ref |-> m.ref])]
             \in [Clientes -> Seq(TipoRede)]
      BY <1>1, <2>3, AppendProperties
    <3>. QED
      BY <1>1, <1>11, <3>1 DEF RecebeResposta
  <2>5. caixa' \in [Clientes -> Seq(Mensagens)]
    BY <1>4, <1>11, <2>1 DEF RecebeResposta, Recebe
  <2>. QED
    BY <1>11, <2>4, <2>5 DEF TypeOK, RecebeResposta, amVars, trocaVars
<1>. QED
  BY <1>5, <1>6, <1>7, <1>8, <1>9, <1>10, <1>11 DEF Sessao

(* The steps of a producer and of the exchange it asks keep the types.     *)
LEMMA TiposProdutor ==
    ASSUME TypeOK, NEW r \in produtores, Produtor(r)
    PROVE  TypeOK'
<1>. USE FrontendAssumption
<1>1. r \in TipoProdutor /\ produtores \subseteq TipoProdutor
  BY DEF TypeOK
<1>2. r.c \in Clientes /\ Resposta(r.ref) \in Mensagens
  BY <1>1 DEF TipoProdutor, Resposta, Mensagens
<1>3. Entrega(r.c, Resposta(r.ref)) \in [Clientes -> Seq(Mensagens)]
  BY <1>2, EntregaProperties
<1>4. ASSUME NEW pc \in {"arranca", "enviado", "respondido"}, Muda(r, pc)
      PROVE  produtores' \subseteq TipoProdutor
  <2>1. [r EXCEPT !.pc = pc] \in TipoProdutor
    BY <1>1 DEF TipoProdutor
  <2>. QED
    BY <1>1, <1>4, <2>1 DEF Muda
<1>5. Termina(r) => produtores' \subseteq TipoProdutor
  BY <1>1 DEF Termina
<1>6. CASE ProdutorArranca(r)
  <2>1. produtores' \subseteq TipoProdutor
    BY <1>4, <1>5, <1>6 DEF ProdutorArranca
  <2>2. caixa' \in [Clientes -> Seq(Mensagens)]
    BY <1>3, <1>6 DEF ProdutorArranca, TypeOK
  <2>3. contextos' \in 0 .. MaxContextos
    BY <1>6 DEF ProdutorArranca, TypeOK
  <2>. QED
    BY <1>6, <2>1, <2>2, <2>3 DEF ProdutorArranca, TypeOK, amVars
<1>7. CASE ServidorAtende(r)
  <2>1. produtores' \subseteq TipoProdutor
    BY <1>1, <1>4, <1>7 DEF ServidorAtende
  <2>2. servidores' \subseteq Servidores
    BY <1>7 DEF ServidorAtende, TypeOK
  <2>. QED
    BY <1>7, <2>1, <2>2 DEF ServidorAtende, TypeOK, amVars
<1>8. CASE ProdutorResponde(r)
  BY <1>3, <1>5, <1>8 DEF ProdutorResponde, TypeOK, amVars
<1>. QED
  BY <1>6, <1>7, <1>8 DEF Produtor
-----------------------------------------------------------------------------
(* Steps that concern one client and leave the accounts alone.             *)

\* The state of every client but c is as it was.
Outros(c) == \A d \in Clientes \ {c} :
                /\ cli'[d] = cli[d] /\ sess'[d] = sess[d] /\ caixa'[d] = caixa[d]
                /\ rede'[d] = rede[d] /\ Prods(d)' = Prods(d)

\* The mailbox of c has the answers of the account manager that it had.
MesmasContas(c) ==
    /\ Aceite(c)' <=> Aceite(c)
    /\ \A i \in DOMAIN caixa'[c] : caixa'[c][i].tag = "conta" =>
          /\ \E k \in DOMAIN caixa[c] : EConta(c, k)
          /\ \A j \in DOMAIN caixa'[c] : caixa'[c][j].tag = "conta" => j = i
    /\ \A i \in DOMAIN caixa'[c] :
          caixa'[c][i].tag = "auth" => caixa'[c][i].u = cli'[c].u

(* A message that is no answer of the account manager arrives.             *)
LEMMA MensagemChega ==
    ASSUME TypeOK, InvRespostas, InvAuth, NEW c \in Clientes, NEW m \in Mensagens,
           caixa' = Entrega(c, m), m.tag # "conta",
           m.tag = "auth" => m.u = cli'[c].u,
           \/ cli'[c].u = cli[c].u
           \/ \A i \in DOMAIN caixa[c] : caixa[c][i].tag # "auth"
    PROVE  MesmasContas(c)
<1>1. caixa[c] \in Seq(Mensagens)
  BY DEF TypeOK
<1>2. DOMAIN caixa[c] = 1 .. Len(caixa[c]) /\ Len(caixa[c]) \in Nat
  BY <1>1, LenProperties
<1>3. CASE caixa'[c] = caixa[c]
  BY <1>3 DEF MesmasContas, Aceite, EConta, InvRespostas, InvAuth
<1>4. CASE caixa'[c] = Append(caixa[c], m)
  <2>1. /\ Append(caixa[c], m) \in Seq(Mensagens)
        /\ Len(Append(caixa[c], m)) = Len(caixa[c]) + 1
        /\ \A i \in 1 .. Len(caixa[c]) : Append(caixa[c], m)[i] = caixa[c][i]
        /\ Append(caixa[c], m)[Len(caixa[c]) + 1] = m
    BY <1>1, AppendProperties
  <2>2. DOMAIN caixa'[c] = 1 .. Len(caixa[c]) + 1
    BY <1>4, <2>1, LenProperties
  <2>3. \A i \in DOMAIN caixa'[c] :
           \/ i \in DOMAIN caixa[c] /\ caixa'[c][i] = caixa[c][i]
           \/ caixa'[c][i] = m
    BY <1>2, <1>4, <2>1, <2>2
  <2>4. \A i \in DOMAIN caixa[c] : i \in DOMAIN caixa'[c] /\ caixa'[c][i] = caixa[c][i]
    BY <1>2, <1>4, <2>1, <2>2
  <2>. QED
    BY <2>3, <2>4 DEF MesmasContas, Aceite, EConta, InvRespostas, InvAuth
<1>. QED
  BY <1>3, <1>4, EntregaProperties

(* A message that is no answer of the account manager is taken.            *)
LEMMA MensagemSai ==
    ASSUME TypeOK, InvRespostas, InvAuth, NEW c \in Clientes,
           NEW n \in 1 .. Len(caixa[c]), caixa[c][n].tag # "conta",
           caixa' = [caixa EXCEPT ![c] = RemoveAt(@, n)],
           cli'[c].u = cli[c].u
    PROVE  MesmasContas(c)
<1>1. caixa[c] \in Seq(Mensagens)
  BY DEF TypeOK
<1>2. DOMAIN caixa[c] = 1 .. Len(caixa[c]) /\ Len(caixa[c]) \in Nat
  BY <1>1, LenProperties
<1>3. caixa'[c] = RemoveAt(caixa[c], n)
  BY DEF TypeOK
<1>4. /\ RemoveAt(caixa[c], n) \in Seq(Mensagens)
      /\ Len(RemoveAt(caixa[c], n)) = Len(caixa[c]) - 1
      /\ \A k \in 1 .. Len(caixa[c]) - 1 :
            RemoveAt(caixa[c], n)[k] = IF k < n THEN caixa[c][k] ELSE caixa[c][k + 1]
  BY <1>1, RemoveAtProperties
<1>5. DOMAIN caixa'[c] = 1 .. Len(caixa[c]) - 1
  BY <1>3, <1>4, LenProperties
<1>6. \A k \in DOMAIN caixa'[c] :
         \/ k < n /\ k \in DOMAIN caixa[c] /\ caixa'[c][k] = caixa[c][k]
         \/ k >= n /\ k + 1 \in DOMAIN caixa[c] /\ caixa'[c][k] = caixa[c][k + 1]
  BY <1>2, <1>3, <1>4, <1>5
<1>7. \A k \in DOMAIN caixa[c] : k # n =>
         \/ k \in DOMAIN caixa'[c] /\ caixa'[c][k] = caixa[c][k]
         \/ k - 1 \in DOMAIN caixa'[c] /\ caixa'[c][k - 1] = caixa[c][k]
  <2>. SUFFICES ASSUME NEW k \in 1 .. Len(caixa[c]), k # n
                PROVE  \/ k \in DOMAIN caixa'[c] /\ caixa'[c][k] = caixa[c][k]
                       \/ k - 1 \in DOMAIN caixa'[c] /\ caixa'[c][k - 1] = caixa[c][k]
    BY <1>2
  <2>1. CASE k < n
    <3>1. k \in 1 .. Len(caixa[c]) - 1
      BY <1>2, <2>1
    <3>. QED
      BY <1>3, <1>4, <1>5, <2>1, <3>1
  <2>2. CASE k > n
    <3>1. k - 1 \in 1 .. Len(caixa[c]) - 1 /\ ~ (k - 1 < n) /\ (k - 1) + 1 = k
      BY <1>2, <2>2
    <3>. QED
      BY <1>3, <1>4, <1>5, <3>1
  <2>. QED
    BY <1>2, <2>1, <2>2
<1>8. Aceite(c)' <=> Aceite(c)
  BY <1>6, <1>7 DEF Aceite, EConta
<1>9. ASSUME NEW i \in DOMAIN caixa'[c], caixa'[c][i].tag = "conta"
      PROVE  /\ \E k \in DOMAIN caixa[c] : EConta(c, k)
             /\ \A j \in DOMAIN caixa'[c] : caixa'[c][j].tag = "conta" => j = i
  <2>1. \E k \in DOMAIN caixa[c] : EConta(c, k)
    BY <1>6, <1>9 DEF EConta
  <2>2. ASSUME NEW j \in DOMAIN caixa'[c], caixa'[c][j].tag = "conta" PROVE j = i
    <3>1. i \in Nat /\ j \in Nat
      BY <1>5
    <3>2. PICK a \in DOMAIN caixa[c] :
             EConta(c, a) /\ ((i < n /\ a = i) \/ (i >= n /\ a = i + 1))
      BY <1>6, <1>9 DEF EConta
    <3>3. PICK b \in DOMAIN caixa[c] :
             EConta(c, b) /\ ((j < n /\ b = j) \/ (j >= n /\ b = j + 1))
      BY <1>6, <2>2 DEF EConta
    <3>4. a = b
      BY <3>2, <3>3 DEF InvRespostas
    <3>. QED
      BY <3>1, <3>2, <3>3, <3>4
  <2>. QED
    BY <2>1, <2>2
<1>10. \A i \in DOMAIN caixa'[c] :
          caixa'[c][i].tag = "auth" => caixa'[c][i].u = cli'[c].u
  BY <1>6 DEF InvAuth
<1>. QED
  BY <1>8, <1>9, <1>10 DEF MesmasContas

(* A client a step does not touch stays where it was.                      *)
LEMMA SincroniaIntacta ==
    ASSUME InvSincronia, NEW c \in Clientes, Outros(c), Sincronia(c)'
    PROVE  InvSincronia'
<1>. SUFFICES ASSUME NEW d \in Clientes \ {c} PROVE Sincronia(d)'
  BY DEF InvSincronia
<1>1. /\ cli'[d] = cli[d] /\ sess'[d] = sess[d] /\ caixa'[d] = caixa[d]
      /\ rede'[d] = rede[d] /\ Prods(d)' = Prods(d)
  BY DEF Outros
<1>2. Sincronia(d)
  BY DEF InvSincronia
<1>3. Calma(d)' = Calma(d)
  BY <1>1 DEF Calma
<1>4. Autenticada(d)' = Autenticada(d)
  BY <1>1 DEF Autenticada
<1>5. SincAutentica(d) => SincAutentica(d)'
  BY <1>1, <1>4 DEF SincAutentica
<1>6. SincEspera(d) => SincEspera(d)'
  <2>1. ASSUME NEW r \in produtores, Prods(d) = {r} PROVE r \in produtores'
    <3>1. r \in Prods(d)'
      BY <1>1, <2>1
    <3>. QED
      BY <3>1 DEF Prods
  <2>. QED
    BY <1>1, <1>3, <1>4, <2>1 DEF SincEspera
<1>7. \A x : SincSaida(d, x) => SincSaida(d, x)'
  BY <1>1, <1>3 DEF SincSaida
<1>. QED
  BY <1>1, <1>2, <1>3, <1>4, <1>5, <1>6, <1>7 DEF Sincronia

(* A step of one client, of its session or of its producers that does not  *)
(* change where the session stands preserves the invariant, if the client  *)
(* and its session still agree after it.                                   *)
LEMMA PassoLocal ==
    ASSUME Indutivo, TypeOK', NEW c \in Clientes,
           contas' = contas, pedidosAM' = pedidosAM,
           Outros(c), MesmasContas(c), Sincronia(c)',
           \/ sess'[c] = sess[c]
           \/ sess[c].pc = "nada" /\ sess'[c].pc = "porAutenticar",
           cli'[c].u = cli[c].u \/ cli[c].pc = "entrada",
           Morto(c) => Morto(c)'
    PROVE  Indutivo'
<1>. USE DEF Indutivo
<1>1. InvSincronia'
  BY SincroniaIntacta
<1>2. \A d \in Clientes : sess'[d] = sess[d] \/ (d = c /\ sess[c].pc = "nada" /\ sess'[c].pc = "porAutenticar")
  BY DEF Outros
<1>3. InvSessao'
  BY <1>2 DEF InvSessao
<1>4. DOMAIN pedidosAM = 1 .. Len(pedidosAM)
      /\ \A i \in DOMAIN pedidosAM : pedidosAM[i] \in TipoPedido
  BY LenProperties, ElementOfSeq DEF TypeOK
<1>5. \A i \in DOMAIN pedidosAM : pedidosAM[i].op \in {"login", "logout"}
                                   /\ pedidosAM[i].de \in Clientes
  BY <1>4 DEF TipoPedido
<1>6. sess[c].pc \in {"nada", "porAutenticar"} =>
          \A i \in DOMAIN pedidosAM : pedidosAM[i].de # c
  BY <1>5 DEF InvPedidos, PedidoCerto
<1>7. cli[c].pc = "entrada" => sess[c].pc = "porAutenticar"
  BY DEF InvSincronia, Sincronia
<1>8. InvPedidos'
  <2>1. \A i \in DOMAIN pedidosAM : /\ sess'[pedidosAM[i].de] = sess[pedidosAM[i].de]
                                    /\ cli'[pedidosAM[i].de].u = cli[pedidosAM[i].de].u
    BY <1>2, <1>5, <1>6, <1>7 DEF Outros
  <2>2. \A d \in Clientes : Morto(d) => Morto(d)'
    BY DEF Outros, Morto
  <2>. QED
    BY <1>5, <2>1, <2>2 DEF InvPedidos, PedidoCerto
<1>9. InvRespostas'
  <2>. SUFFICES ASSUME NEW d \in Clientes, NEW i \in DOMAIN caixa'[d],
                       caixa'[d][i].tag = "conta"
                PROVE  /\ sess'[d].pc \in {"login", "logout"}
                       /\ \A k \in DOMAIN pedidosAM : pedidosAM[k].de # d
                       /\ \A j \in DOMAIN caixa'[d] : caixa'[d][j].tag = "conta" => j = i
    BY DEF InvRespostas, EConta
  <2>1. CASE d # c
    <3>1. caixa'[d] = caixa[d] /\ sess'[d] = sess[d]
      BY <2>1 DEF Outros
    <3>. QED
      BY <3>1 DEF InvRespostas, EConta
  <2>2. CASE d = c
    <3>1. PICK k \in DOMAIN caixa[c] : EConta(c, k)
      BY <2>2 DEF MesmasContas
    <3>2. sess'[c] = sess[c]
      BY <1>2, <3>1 DEF InvRespostas
    <3>. QED
      BY <2>2, <3>1, <3>2 DEF InvRespostas, MesmasContas
  <2>. QED
    BY <2>1, <2>2
<1>10. ASSUME NEW d \in Clientes
       PROVE  /\ Tem(d)' <=> Tem(d)
              /\ Tem(d) => sess'[d] = sess[d]
  <2>1. LogoutDe(d)' <=> LogoutDe(d)
    BY DEF LogoutDe
  <2>2. CASE d # c
    <3>1. caixa'[d] = caixa[d] /\ sess'[d] = sess[d]
      BY <2>2 DEF Outros
    <3>. QED
      BY <2>1, <3>1 DEF Tem, Aceite, EConta
  <2>3. CASE d = c /\ sess'[c] = sess[c]
    BY <2>1, <2>3 DEF Tem, MesmasContas
  <2>4. CASE d = c /\ sess[c].pc = "nada" /\ sess'[c].pc = "porAutenticar"
    <3>1. ~ LogoutDe(c)
      BY <1>6, <2>4 DEF LogoutDe
    <3>. QED
      BY <2>1, <2>4, <3>1 DEF Tem
  <2>. QED
    BY <1>2, <2>2, <2>3, <2>4
<1>11. InvPosse'
  BY <1>10 DEF InvPosse
<1>12. InvAuth'
  <2>. SUFFICES ASSUME NEW d \in Clientes, NEW i \in DOMAIN caixa'[d],
                       caixa'[d][i].tag = "auth"
                PROVE  caixa'[d][i].u = cli'[d].u
    BY DEF InvAuth
  <2>1. CASE d # c
    BY <2>1 DEF Outros, InvAuth
  <2>2. CASE d = c
    BY <2>2 DEF MesmasContas
  <2>. QED
    BY <2>1, <2>2
<1>13. InvPresa'
  <2>. SUFFICES ASSUME NEW u \in Contas, contas[u]
                PROVE  \E d \in Clientes : Explica(d, u)'
    BY DEF InvPresa
  <2>1. PICK d \in Clientes : Explica(d, u)
    BY DEF InvPresa
  <2>2. cli'[d].u = cli[d].u
    <3>1. CASE d # c
      BY <3>1 DEF Outros
    <3>2. CASE d = c
      <4>1. SUFFICES ASSUME cli[c].pc = "entrada" PROVE FALSE
        BY <3>2
      <4>2. ~ LogoutDe(c) /\ sess[c].pc = "porAutenticar"
        BY <1>6, <1>7, <4>1 DEF LogoutDe
      <4>. QED
        BY <2>1, <3>2, <4>1, <4>2 DEF Explica, Morto, Tem
    <3>. QED
      BY <3>1, <3>2
  <2>3. Morto(d) => Morto(d)'
    BY DEF Outros, Morto
  <2>. QED
    BY <1>10, <2>1, <2>2, <2>3 DEF Explica
<1>. QED
  BY <1>1, <1>3, <1>8, <1>9, <1>11, <1>12, <1>13

(* A step that leaves the mailbox of c as it was.                          *)
LEMMA CaixaIgual ==
    ASSUME InvRespostas, InvAuth, NEW c \in Clientes, caixa'[c] = caixa[c],
           cli'[c].u = cli[c].u
    PROVE  MesmasContas(c)
BY DEF MesmasContas, Aceite, EConta, InvRespostas, InvAuth

(* The steps of a client preserve the invariant.                           *)
LEMMA InvCliente ==
    ASSUME Indutivo, NEW c \in Clientes, Cliente(c) \/ ClienteLe(c)
    PROVE  Indutivo'
<1>0. TypeOK /\ InvRespostas /\ InvAuth /\ Sincronia(c)
  BY DEF Indutivo, InvSincronia
<1>1. TypeOK'
  BY <1>0, TiposCliente
<1>2. /\ cli \in [Clientes -> TipoCliente] /\ cli[c] \in TipoCliente
      /\ sess \in [Clientes -> TipoSessao] /\ sess[c] \in TipoSessao
      /\ caixa \in [Clientes -> Seq(Mensagens)]
      /\ rede \in [Clientes -> Seq(TipoRede)]
  BY <1>0 DEF TypeOK
<1>3. cli[c].pc \in {"nada", "entrada", "autentica", "menu", "espera", "sai", "fim",
                     "morto", "pendurado"}
  BY <1>2 DEF TipoCliente
<1>4. ASSUME NEW m \in Mensagens, caixa' = Entrega(c, m)
      PROVE  \A d \in Clientes \ {c} : caixa'[d] = caixa[d]
  BY <1>0, <1>4, EntregaProperties
<1>5. TcpClosed \in Mensagens /\ TcpClosed.tag = "tcp_closed"
  BY DEF Mensagens, TcpClosed
<1>6. Saida \in Mensagens /\ Saida.tag = "msg"
  BY DEF Mensagens, Saida, Mensagem
<1>7. UNCHANGED produtores => \A d \in Clientes : Prods(d)' = Prods(d)
  BY DEF Prods
<1>8. CASE Liga(c)
  <2>1. /\ cli'[c].pc = "entrada" /\ cli'[c].u = cli[c].u
        /\ sess'[c].pc = "porAutenticar"
        /\ caixa' = caixa /\ rede' = rede /\ produtores' = produtores
        /\ contas' = contas /\ pedidosAM' = pedidosAM
        /\ cli[c].pc = "nada"
    BY <1>2, <1>8 DEF Liga, amVars, trocaVars
  <2>2. Outros(c)
    BY <1>2, <1>7, <1>8, <2>1 DEF Liga, Outros
  <2>3. MesmasContas(c)
    BY <1>0, <2>1, CaixaIgual
  <2>4. sess[c].pc = "nada" /\ caixa[c] = << >> /\ Calma(c)
    BY <1>0, <2>1 DEF Sincronia
  <2>5. Sincronia(c)'
    BY <1>7, <2>1, <2>4 DEF Sincronia, Calma
  <2>. QED
    BY <1>1, <2>1, <2>2, <2>3, <2>4, <2>5, PassoLocal DEF Morto
<1>9. ASSUME NEW u \in Contas, NEW certa \in BOOLEAN, Autentica(c, u, certa)
      PROVE  Indutivo'
  <2>1. /\ cli'[c].pc = "autentica" /\ cli'[c].u = u
        /\ sess' = sess /\ rede' = rede /\ produtores' = produtores
        /\ contas' = contas /\ pedidosAM' = pedidosAM
        /\ cli[c].pc = "entrada"
        /\ caixa' = Entrega(c, Auth(u, certa))
    BY <1>2, <1>9 DEF Autentica, amVars, trocaVars
  <2>2. Auth(u, certa) \in Mensagens /\ Auth(u, certa).tag = "auth" /\ Auth(u, certa).u = u
    BY DEF Auth, Mensagens
  <2>3. Outros(c)
    BY <1>2, <1>4, <1>7, <1>9, <2>1, <2>2 DEF Autentica, Outros
  <2>4. sess[c].pc = "porAutenticar" /\ caixa[c] = << >> /\ Calma(c)
    BY <1>0, <2>1 DEF Sincronia
  <2>5. MesmasContas(c)
    <3>1. \A i \in DOMAIN caixa[c] : caixa[c][i].tag # "auth"
      BY <2>4
    <3>. QED
      BY <1>0, <2>1, <2>2, <3>1, MensagemChega
  <2>6. caixa'[c] = <<Auth(u, certa)>>
    <3>1. caixa'[c] = Append(caixa[c], Auth(u, certa))
      BY <1>0, <2>1, <2>2, <2>4, EntregaProperties DEF SessaoViva
    <3>. QED
      BY <2>4, <3>1, SequenciasCurtas
  <2>7. SincAutentica(c)'
    BY <1>7, <2>1, <2>4, <2>6 DEF SincAutentica, Calma, Auth
  <2>8. Sincronia(c)'
    BY <2>1, <2>4, <2>7 DEF Sincronia
  <2>. QED
    BY <1>1, <2>1, <2>3, <2>4, <2>5, <2>8, PassoLocal DEF Morto
<1>10. ASSUME NEW tipo \in {"leilao", "emissao", "licitar", "emprestimo"},
              NEW e \in Nomes, Pede(c, tipo, e)
       PROVE  Indutivo'
  <2>. DEFINE m == Mensagem(tipo, e, pedidos + 1)
  <2>1. /\ cli'[c].pc = "espera" /\ cli'[c].u = cli[c].u /\ cli'[c].ref = pedidos + 1
        /\ sess' = sess /\ rede' = rede /\ produtores' = produtores
        /\ contas' = contas /\ pedidosAM' = pedidosAM
        /\ cli[c].pc = "menu"
        /\ caixa' = Entrega(c, m)
    BY <1>2, <1>10 DEF Pede, amVars, trocaVars, TipoCliente
  <2>2. pedidos + 1 \in 1 .. MaxPedidos
    BY <1>0, <1>10, FrontendAssumption DEF Pede, TypeOK
  <2>3. m \in Mensagens /\ m.tag = "msg"
    BY <2>2 DEF Mensagem, Mensagens
  <2>4. Outros(c)
    <3>1. \A d \in Clientes \ {c} : cli'[d] = cli[d]
      BY <1>2, <1>10 DEF Pede
    <3>. QED
      BY <1>4, <1>7, <2>1, <2>3, <3>1 DEF Outros
  <2>5. Autenticada(c) /\ caixa[c] = << >> /\ Calma(c)
    BY <1>0, <2>1 DEF Sincronia
  <2>6. MesmasContas(c)
    BY <1>0, <2>1, <2>3, MensagemChega
  <2>7. caixa'[c] = <<m>>
    <3>1. caixa'[c] = Append(caixa[c], m)
      BY <1>0, <2>1, <2>3, <2>5, EntregaProperties DEF SessaoViva, Autenticada
    <3>. QED
      BY <2>5, <3>1, SequenciasCurtas
  <2>8. SincEspera(c)'
    <3>1. Autenticada(c)' /\ Calma(c)'
      BY <1>7, <2>1, <2>5 DEF Autenticada, Calma
    <3>2. cli'[c].ref \in 1 .. MaxPedidos /\ caixa'[c] = <<Mensagem(tipo, e, cli'[c].ref)>>
      BY <2>1, <2>2, <2>7
    <3>. QED
      BY <3>1, <3>2 DEF SincEspera, Mensagem
  <2>9. Sincronia(c)'
    BY <2>1, <2>5, <2>8 DEF Sincronia, Autenticada
  <2>. QED
    BY <1>1, <2>1, <2>4, <2>6, <2>9, PassoLocal DEF Morto
<1>11. CASE Logout(c)
  <2>1. /\ cli'[c].pc = "sai" /\ cli'[c].u = cli[c].u
        /\ sess' = sess /\ rede' = rede /\ produtores' = produtores
        /\ contas' = contas /\ pedidosAM' = pedidosAM
        /\ cli[c].pc = "menu"
        /\ caixa' = Entrega(c, Saida)
    BY <1>2, <1>11 DEF Logout, amVars, trocaVars, Saida
  <2>2. Outros(c)
    BY <1>2, <1>4, <1>6, <1>7, <1>11, <2>1 DEF Logout, Outros
  <2>3. Autenticada(c) /\ caixa[c] = << >> /\ Calma(c)
    BY <1>0, <2>1 DEF Sincronia
  <2>4. MesmasContas(c)
    BY <1>0, <1>6, <2>1, MensagemChega
  <2>5. caixa'[c] = <<Saida>>
    <3>1. caixa'[c] = Append(caixa[c], Saida)
      BY <1>0, <1>6, <2>1, <2>3, EntregaProperties DEF SessaoViva, Autenticada
    <3>. QED
      BY <2>3, <3>1, SequenciasCurtas
  <2>6. SincSaida(c, <<Saida>>)'
    BY <1>7, <2>1, <2>3, <2>5 DEF SincSaida, Calma, Autenticada, Saida, Mensagem
  <2>7. Sincronia(c)'
    BY <2>1, <2>3, <2>6 DEF Sincronia, Autenticada
  <2>. QED
    BY <1>1, <2>1, <2>2, <2>4, <2>7, PassoLocal DEF Morto
<1>12. CASE Morre(c)
  <2>1. /\ cli'[c].pc \in {"morto", "pendurado"} /\ cli'[c].u = cli[c].u
        /\ cli[c].pc \in {"entrada", "autentica", "menu", "espera"}
        /\ caixa' = Entrega(c, TcpClosed) \/ caixa' = caixa
    <3>1. \E pc \in {"morto", "pendurado"} : cli' = [cli EXCEPT ![c].pc = pc]
      BY <1>12 DEF Morre
    <3>2. cli'[c].pc \in {"morto", "pendurado"} /\ cli'[c].u = cli[c].u
      BY <1>2, <3>1 DEF TipoCliente
    <3>3. /\ cli[c].pc \in {"entrada", "autentica", "menu", "espera"}
          /\ caixa' = Entrega(c, TcpClosed) \/ caixa' = caixa
      BY <1>12 DEF Morre
    <3>. QED
      BY <3>2, <3>3
  <2>2. /\ sess' = sess /\ rede' = rede /\ produtores' = produtores
        /\ contas' = contas /\ pedidosAM' = pedidosAM
    BY <1>12 DEF Morre, amVars, trocaVars
  <2>3. Outros(c)
    <3>1. \A d \in Clientes \ {c} : cli'[d] = cli[d]
      BY <1>2, <1>12 DEF Morre
    <3>. QED
      BY <1>4, <1>5, <1>7, <2>1, <2>2, <3>1 DEF Outros
  <2>4. MesmasContas(c)
    BY <1>0, <1>5, <2>1, MensagemChega, CaixaIgual
  <2>5. Sincronia(c)'
    BY <1>0, <2>1, <2>2 DEF Sincronia
  <2>. QED
    BY <1>1, <2>1, <2>2, <2>3, <2>4, <2>5, PassoLocal DEF Morto
<1>13. CASE LeAuthRep(c)
  <2>1. /\ cli'[c].pc = (IF Head(rede[c]).tipo = 0 THEN "entrada" ELSE "menu")
        /\ cli'[c].u = cli[c].u /\ rede'[c] = Tail(rede[c])
        /\ sess' = sess /\ caixa' = caixa /\ produtores' = produtores
        /\ contas' = contas /\ pedidosAM' = pedidosAM
        /\ cli[c].pc = "autentica" /\ rede[c] # << >>
    BY <1>2, <1>13 DEF LeAuthRep, amVars, trocaVars
  <2>2. Outros(c)
    BY <1>2, <1>7, <1>13, <2>1 DEF LeAuthRep, Outros
  <2>3. MesmasContas(c)
    BY <1>0, <2>1, CaixaIgual
  <2>4. SincAutentica(c)
    BY <1>0, <2>1 DEF Sincronia
  <2>5. /\ Prods(c)' = {} /\ rede'[c] = << >> /\ caixa'[c] = << >>
        /\ \/ cli'[c].pc = "entrada" /\ sess'[c].pc = "porAutenticar"
           \/ cli'[c].pc = "menu" /\ Autenticada(c)'
    <3>1. PICK n \in 0 .. 2 :
             /\ rede[c] = <<[tipo |-> n, ref |-> 0]>>
             /\ \/ n = 0 /\ sess[c].pc = "porAutenticar"
                \/ n # 0 /\ Autenticada(c)
             /\ caixa[c] = << >> /\ Prods(c) = {}
      BY <2>1, <2>4 DEF SincAutentica
    <3>2. Head(rede[c]).tipo = n /\ Tail(rede[c]) = << >>
      BY <3>1, SequenciasCurtas
    <3>. QED
      BY <1>7, <2>1, <3>1, <3>2 DEF Autenticada
  <2>6. Sincronia(c)'
    BY <2>5 DEF Sincronia, Calma, Autenticada
  <2>. QED
    BY <1>1, <2>1, <2>2, <2>3, <2>6, PassoLocal DEF Morto
<1>14. CASE LeReply(c)
  <2>1. /\ cli'[c].pc = "menu" /\ cli'[c].u = cli[c].u /\ rede'[c] = Tail(rede[c])
        /\ sess' = sess /\ caixa' = caixa /\ produtores' = produtores
        /\ contas' = contas /\ pedidosAM' = pedidosAM
        /\ cli[c].pc = "espera" /\ rede[c] # << >>
    BY <1>2, <1>14 DEF LeReply, amVars, trocaVars
  <2>2. Outros(c)
    BY <1>2, <1>7, <1>14, <2>1 DEF LeReply, Outros
  <2>3. MesmasContas(c)
    BY <1>0, <2>1, CaixaIgual
  <2>4. SincEspera(c)
    BY <1>0, <2>1 DEF Sincronia
  <2>5. /\ Autenticada(c) /\ caixa[c] = << >> /\ Prods(c) = {}
        /\ rede[c] = <<[tipo |-> 3, ref |-> cli[c].ref]>>
    BY <2>1, <2>4 DEF SincEspera, Calma
  <2>6. rede'[c] = << >>
    BY <2>1, <2>5, SequenciasCurtas
  <2>7. Sincronia(c)'
    BY <1>7, <2>1, <2>5, <2>6 DEF Sincronia, Calma, Autenticada
  <2>. QED
    BY <1>1, <2>1, <2>2, <2>3, <2>7, PassoLocal DEF Morto
<1>15. CASE Fecha(c)
  <2>1. /\ cli'[c].pc = "fim" /\ cli'[c].u = cli[c].u
        /\ sess' = sess /\ rede' = rede /\ produtores' = produtores
        /\ contas' = contas /\ pedidosAM' = pedidosAM
        /\ cli[c].pc = "sai"
        /\ caixa' = Entrega(c, TcpClosed)
    BY <1>2, <1>15 DEF Fecha, amVars, trocaVars
  <2>2. Outros(c)
    BY <1>2, <1>4, <1>5, <1>7, <1>15, <2>1 DEF Fecha, Outros
  <2>3. SincSaida(c, <<Saida>>)
    BY <1>0, <2>1 DEF Sincronia
  <2>4. MesmasContas(c)
    BY <1>0, <1>5, <2>1, MensagemChega
  <2>5. sess[c].pc = "ativa" => caixa'[c] = <<Saida, TcpClosed>>
    <3>. SUFFICES ASSUME sess[c].pc = "ativa" PROVE caixa'[c] = <<Saida, TcpClosed>>
      OBVIOUS
    <3>1. caixa'[c] = Append(caixa[c], TcpClosed)
      BY <1>0, <1>5, <2>1, EntregaProperties DEF SessaoViva
    <3>2. caixa[c] = <<Saida>>
      BY <2>3 DEF SincSaida
    <3>. QED
      BY <3>1, <3>2, SequenciasCurtas
  <2>6. SincSaida(c, <<Saida, TcpClosed>>)'
    <3>1. Calma(c)'
      BY <1>7, <2>1, <2>3 DEF SincSaida, Calma
    <3>. QED
      BY <2>1, <2>3, <2>5, <3>1 DEF SincSaida, Saida, Mensagem, TcpClosed
  <2>7. Sincronia(c)'
    BY <2>1, <2>3, <2>6 DEF Sincronia, SincSaida
  <2>. QED
    BY <1>1, <2>1, <2>2, <2>4, <2>7, PassoLocal DEF Morto
<1>. QED
  BY <1>8, <1>9, <1>10, <1>11, <1>12, <1>13, <1>14, <1>15 DEF Cliente, ClienteLe

(* The requests and the answers that a session passes on preserve the      *)
(* invariant.                                                              *)
LEMMA InvPassagem ==
    ASSUME Indutivo, NEW c \in Clientes, RecebeMensagem(c) \/ RecebeResposta(c)
    PROVE  Indutivo'
<1>. DEFINE n == Primeira(c)
            m == caixa[c][n]
<1>0. TypeOK /\ InvSessao /\ InvRespostas /\ InvAuth /\ Sincronia(c)
  BY DEF Indutivo, InvSincronia
<1>1. TypeOK'
  BY <1>0, TiposSessao DEF Sessao
<1>2. /\ caixa \in [Clientes -> Seq(Mensagens)]
      /\ rede \in [Clientes -> Seq(TipoRede)]
      /\ cli[c] \in TipoCliente
  BY <1>0 DEF TypeOK
<1>3. /\ n # 0 /\ caixa' = [caixa EXCEPT ![c] = RemoveAt(@, n)]
      /\ contas' = contas /\ pedidosAM' = pedidosAM /\ cli' = cli /\ sess' = sess
  BY DEF RecebeMensagem, RecebeResposta, Recebe, amVars
<1>4. /\ sess[c].pc = "ativa" /\ n \in 1 .. Len(caixa[c])
      /\ m \in Mensagens /\ m.tag \in {"msg", "producer"}
  BY <1>0, <1>3, PrimeiraProperties
<1>5. MesmasContas(c)
  BY <1>0, <1>3, <1>4, MensagemSai
<1>6. \A d \in Clientes \ {c} : caixa'[d] = caixa[d]
  BY <1>2, <1>3
<1>7. caixa'[c] = RemoveAt(caixa[c], n)
  BY <1>2, <1>3
<1>8. cli[c].pc \notin {"nada", "entrada"}
  BY <1>0, <1>4 DEF Sincronia
<1>9. cli[c].pc \notin {"autentica", "menu"}
  BY <1>0, <1>4 DEF Sincronia, SincAutentica
<1>10. cli[c].pc = "espera" => /\ caixa[c] = <<m>> /\ n = 1 /\ caixa'[c] = << >>
                               /\ SincEspera(c) /\ Calma(c)
  <2>. SUFFICES ASSUME cli[c].pc = "espera"
                PROVE  /\ caixa[c] = <<m>> /\ n = 1 /\ caixa'[c] = << >>
                       /\ SincEspera(c) /\ Calma(c)
    OBVIOUS
  <2>1. SincEspera(c)
    BY <1>0 DEF Sincronia
  <2>2. caixa[c] # << >>
    BY <1>4
  <2>3. PICK x : caixa[c] = <<x>> /\ Calma(c)
    BY <2>1, <2>2 DEF SincEspera
  <2>4. n = 1 /\ m = x
    BY <1>4, <2>3, SequenciasCurtas
  <2>. QED
    BY <1>7, <2>1, <2>3, <2>4, SequenciasCurtas
<1>11. CASE RecebeMensagem(c)
  <2>. DEFINE r == [c |-> c, tipo |-> m.tipo, empresa |-> m.empresa, ref |-> m.ref,
                    pc |-> "arranca"]
  <2>1. /\ m.tag = "msg" /\ m.tipo # "logout" /\ rede' = rede
        /\ produtores' = produtores \cup {r}
    BY <1>11 DEF RecebeMensagem, Recebe
  <2>2. r.c = c /\ r.ref = m.ref
    OBVIOUS
  <2>. HIDE DEF r
  <2>3. Outros(c)
    <3>1. \A d \in Clientes \ {c} : Prods(d)' = Prods(d)
      BY <2>1, <2>2 DEF Prods
    <3>. QED
      BY <1>3, <1>6, <2>1, <3>1 DEF Outros
  <2>4. cli[c].pc \notin {"sai", "fim"}
    <3>. SUFFICES ASSUME cli[c].pc \in {"sai", "fim"} PROVE FALSE
      OBVIOUS
    <3>1. caixa[c] \in {<<Saida>>, <<Saida, TcpClosed>>}
      BY <1>0, <1>4 DEF Sincronia, SincSaida
    <3>2. m \in {Saida, TcpClosed}
      BY <1>4, <3>1, SequenciasCurtas
    <3>. QED
      BY <2>1, <3>2 DEF Saida, TcpClosed, Mensagem
  <2>5. Sincronia(c)'
    <3>1. CASE cli[c].pc = "espera"
      <4>1. SincEspera(c) /\ Calma(c) /\ caixa[c] = <<m>> /\ caixa'[c] = << >>
        BY <1>10, <3>1
      <4>2. m.ref = cli[c].ref
        <5>1. \/ <<m>> = << >> \/ <<m>> = <<Resposta(cli[c].ref)>>
              \/ \E t, e : <<m>> = <<Mensagem(t, e, cli[c].ref)>>
              \/ Calma(c) /\ rede[c] # << >>
              \/ Calma(c) /\ Prods(c) # {}
          BY <4>1 DEF SincEspera
        <5>2. \/ m = Resposta(cli[c].ref) \/ \E t, e : m = Mensagem(t, e, cli[c].ref)
          BY <5>1, SequenciasCurtas DEF Calma
        <5>3. Resposta(cli[c].ref).ref = cli[c].ref
          BY DEF Resposta
        <5>4. \A t, e : Mensagem(t, e, cli[c].ref).ref = cli[c].ref
          BY DEF Mensagem
        <5>. HIDE DEF m
        <5>. QED
          BY <5>2, <5>3, <5>4
      <4>3. Prods(c)' = {r}
        BY <2>1, <2>2, <4>1 DEF Prods, Calma
      <4>4. r \in produtores' /\ r.ref = cli'[c].ref
        BY <1>3, <2>1, <2>2, <4>2
      <4>5. SincEspera(c)'
        BY <1>3, <2>1, <4>1, <4>3, <4>4 DEF SincEspera, Calma, Autenticada
      <4>. QED
        BY <1>3, <1>4, <3>1, <4>5 DEF Sincronia
    <3>2. CASE cli[c].pc \in {"morto", "pendurado"}
      BY <1>3, <1>4, <3>2 DEF Sincronia
    <3>. QED
      BY <1>2, <1>8, <1>9, <2>4, <3>1, <3>2 DEF TipoCliente
  <2>. QED
    BY <1>1, <1>3, <1>5, <2>3, <2>5, PassoLocal DEF Morto
<1>12. CASE RecebeResposta(c)
  <2>1. /\ m.tag = "producer" /\ produtores' = produtores
        /\ rede' = IF cli[c].pc \in {"fim", "morto"} THEN rede
                   ELSE [rede EXCEPT ![c] = Append(@, [tipo |-> 3, ref |-> m.ref])]
    BY <1>12 DEF RecebeResposta, Recebe, trocaVars
  <2>2. \A d \in Clientes : Prods(d)' = Prods(d)
    BY <2>1 DEF Prods
  <2>3. Outros(c)
    BY <1>2, <1>3, <1>6, <2>1, <2>2 DEF Outros
  <2>4. cli[c].pc \notin {"sai", "fim"}
    <3>. SUFFICES ASSUME cli[c].pc \in {"sai", "fim"} PROVE FALSE
      OBVIOUS
    <3>1. caixa[c] \in {<<Saida>>, <<Saida, TcpClosed>>}
      BY <1>0, <1>4 DEF Sincronia, SincSaida
    <3>2. m \in {Saida, TcpClosed}
      BY <1>4, <3>1, SequenciasCurtas
    <3>. QED
      BY <2>1, <3>2 DEF Saida, TcpClosed, Mensagem
  <2>5. Sincronia(c)'
    <3>1. CASE cli[c].pc = "espera"
      <4>1. SincEspera(c) /\ Calma(c) /\ caixa[c] = <<m>> /\ caixa'[c] = << >>
        BY <1>10, <3>1
      <4>2. m.ref = cli[c].ref
        <5>1. \/ <<m>> = << >> \/ <<m>> = <<Resposta(cli[c].ref)>>
              \/ \E t, e : <<m>> = <<Mensagem(t, e, cli[c].ref)>>
              \/ Calma(c) /\ rede[c] # << >>
              \/ Calma(c) /\ Prods(c) # {}
          BY <4>1 DEF SincEspera
        <5>2. \/ m = Resposta(cli[c].ref) \/ \E t, e : m = Mensagem(t, e, cli[c].ref)
          BY <5>1, SequenciasCurtas DEF Calma
        <5>3. Resposta(cli[c].ref).ref = cli[c].ref
          BY DEF Resposta
        <5>4. \A t, e : Mensagem(t, e, cli[c].ref).ref = cli[c].ref
          BY DEF Mensagem
        <5>. HIDE DEF m
        <5>. QED
          BY <5>2, <5>3, <5>4
      <4>3. rede'[c] = <<[tipo |-> 3, ref |-> cli'[c].ref]>>
        <5>1. rede'[c] = Append(rede[c], [tipo |-> 3, ref |-> m.ref])
          BY <1>2, <2>1, <3>1
        <5>2. rede[c] = << >>
          BY <4>1 DEF Calma
        <5>. QED
          BY <1>3, <4>2, <5>1, <5>2, SequenciasCurtas
      <4>4. SincEspera(c)'
        BY <1>3, <2>2, <4>1, <4>3 DEF SincEspera, Calma, Autenticada
      <4>. QED
        BY <1>3, <1>4, <3>1, <4>4 DEF Sincronia
    <3>2. CASE cli[c].pc \in {"morto", "pendurado"}
      BY <1>3, <1>4, <3>2 DEF Sincronia
    <3>. QED
      BY <1>2, <1>8, <1>9, <2>4, <3>1, <3>2 DEF TipoCliente
  <2>. QED
    BY <1>1, <1>3, <1>5, <2>3, <2>5, PassoLocal DEF Morto
<1>. QED
  BY <1>11, <1>12

(* The steps of a producer and of the exchange it asks preserve the        *)
(* invariant.                                                              *)
LEMMA InvProdutor ==
    ASSUME Indutivo, NEW r \in produtores, Produtor(r)
    PROVE  Indutivo'
<1>. DEFINE c == r.c
            m == Resposta(r.ref)
<1>0. TypeOK /\ InvSessao /\ InvRespostas /\ InvAuth
  BY DEF Indutivo
<1>1. TypeOK'
  BY <1>0, TiposProdutor
<1>2. r \in TipoProdutor
  BY <1>0 DEF TypeOK
<1>3. c \in Clientes /\ m \in Mensagens /\ m.tag = "producer" /\ r.ref \in 1 .. MaxPedidos
  BY <1>2 DEF TipoProdutor, Resposta, Mensagens
<1>4. Sincronia(c) /\ r \in Prods(c)
  BY <1>3 DEF Indutivo, InvSincronia, Prods
<1>5. /\ contas' = contas /\ pedidosAM' = pedidosAM /\ cli' = cli /\ sess' = sess
      /\ rede' = rede
  BY DEF Produtor, ProdutorArranca, ServidorAtende, ProdutorResponde, amVars
<1>6. cli[c].pc \in {"espera", "morto", "pendurado"}
  <2>1. cli[c].pc \in {"nada", "entrada", "autentica", "menu", "espera", "sai", "fim",
                       "morto", "pendurado"}
    BY <1>0, <1>3 DEF TypeOK, TipoCliente
  <2>. QED
    BY <1>4, <2>1 DEF Sincronia, Calma, SincAutentica, SincSaida
<1>7. cli[c].pc = "espera" =>
         /\ Prods(c) = {r} /\ r.ref = cli[c].ref /\ Autenticada(c)
         /\ caixa[c] = << >> /\ rede[c] = << >>
  BY <1>4 DEF Sincronia, SincEspera, Calma
<1>8. \/ caixa' = Entrega(c, m) /\ Termina(r)
      \/ caixa' = caixa /\ (Termina(r) \/ UNCHANGED produtores
                              \/ \E pc \in {"enviado", "respondido"} : Muda(r, pc))
  BY DEF Produtor, ProdutorArranca, ServidorAtende, ProdutorResponde
<1>9. \A pc \in {"enviado", "respondido"} :
         [r EXCEPT !.pc = pc].c = c /\ [r EXCEPT !.pc = pc].ref = r.ref
  BY <1>2 DEF TipoProdutor
<1>. HIDE DEF c, m
<1>10. \A d \in Clientes \ {c} : Prods(d)' = Prods(d)
  <2>1. r.c = c
    BY DEF c
  <2>. QED
    BY <1>8, <1>9, <2>1 DEF Muda, Termina, Prods
<1>11. MesmasContas(c)
  BY <1>0, <1>3, <1>5, <1>8, MensagemChega, CaixaIgual
<1>12. Outros(c)
  <2>1. \A d \in Clientes \ {c} : caixa'[d] = caixa[d]
    BY <1>0, <1>3, <1>8, EntregaProperties
  <2>. QED
    BY <1>5, <1>10, <2>1 DEF Outros
<1>13. Sincronia(c)'
  <2>1. CASE cli[c].pc = "espera"
    <3>0. Autenticada(c)' /\ cli'[c].ref \in 1 .. MaxPedidos /\ cli'[c].ref = r.ref
      BY <1>3, <1>5, <1>7, <2>1 DEF Autenticada
    <3>1. CASE caixa' = Entrega(c, m) /\ Termina(r)
      <4>1. caixa'[c] = Append(caixa[c], m)
        BY <1>0, <1>3, <1>7, <2>1, <3>1, EntregaProperties DEF SessaoViva, Autenticada
      <4>2. caixa'[c] = <<Resposta(cli'[c].ref)>>
        BY <1>7, <2>1, <3>0, <4>1, SequenciasCurtas DEF m
      <4>3. Calma(c)'
        BY <1>5, <1>7, <2>1, <3>1 DEF Calma, Prods, Termina
      <4>. QED
        BY <1>5, <2>1, <3>0, <4>2, <4>3 DEF Sincronia, SincEspera, Resposta, Autenticada
    <3>2. CASE caixa' = caixa /\ Termina(r)
      <4>1. Calma(c)'
        BY <1>5, <1>7, <2>1, <3>2 DEF Calma, Prods, Termina
      <4>. QED
        BY <1>5, <1>7, <2>1, <3>0, <3>2, <4>1 DEF Sincronia, SincEspera, Autenticada
    <3>3. CASE caixa' = caixa /\ UNCHANGED produtores
      <4>1. Prods(c)' = {r} /\ r \in produtores'
        BY <1>7, <2>1, <3>3 DEF Prods
      <4>. QED
        BY <1>5, <1>7, <2>1, <3>0, <3>3, <4>1 DEF Sincronia, SincEspera, Autenticada
    <3>4. ASSUME NEW pc \in {"enviado", "respondido"}, caixa' = caixa, Muda(r, pc)
          PROVE  Sincronia(c)'
      <4>. DEFINE q == [r EXCEPT !.pc = pc]
      <4>1. q.c = c /\ q.ref = r.ref /\ produtores' = (produtores \ {r}) \cup {q}
        BY <1>9, <3>4 DEF Muda
      <4>. HIDE DEF q
      <4>2. Prods(c)' = {q} /\ q \in produtores'
        BY <1>7, <2>1, <4>1 DEF Prods
      <4>. QED
        BY <1>5, <1>7, <2>1, <3>0, <3>4, <4>1, <4>2 DEF Sincronia, SincEspera, Autenticada
    <3>. QED
      BY <1>8, <3>1, <3>2, <3>3, <3>4
  <2>2. CASE cli[c].pc \in {"morto", "pendurado"}
    BY <1>4, <1>5, <2>2 DEF Sincronia
  <2>. QED
    BY <1>6, <2>1, <2>2
<1>. QED
  BY <1>1, <1>3, <1>5, <1>11, <1>12, <1>13, PassoLocal DEF Morto
-----------------------------------------------------------------------------
(* Steps in which a session moves on.                                      *)

(* A session that ends preserves the invariant: only a client that is gone *)
(* makes it end before it has asked for a logout.                          *)
LEMMA InvFimDaSessao ==
    ASSUME Indutivo, TypeOK', NEW c \in Clientes,
           sess[c].pc \in {"porAutenticar", "login", "logout"},
           sess' = [sess EXCEPT ![c].pc = "fim"],
           caixa' = [caixa EXCEPT ![c] = << >>],
           UNCHANGED <<contas, pedidosAM, cli, rede, produtores>>,
           \/ Morto(c)
           \/ cli[c].pc \in {"sai", "fim"}
    PROVE  Indutivo'
<1>. USE DEF Indutivo
<1>1. /\ sess'[c].pc = "fim" /\ sess'[c].u = sess[c].u
      /\ \A d \in Clientes \ {c} : sess'[d] = sess[d]
  BY DEF TypeOK, TipoSessao
<1>2. /\ caixa'[c] = << >> /\ \A d \in Clientes \ {c} : caixa'[d] = caixa[d]
  BY DEF TypeOK
<1>3. \A d \in Clientes : Prods(d)' = Prods(d)
  BY DEF Prods
<1>4. Outros(c)
  BY <1>1, <1>2, <1>3 DEF Outros
<1>5. Sincronia(c)'
  <2>1. CASE cli[c].pc \in {"sai", "fim"}
    <3>1. Calma(c)' /\ sess[c].u = cli[c].u
      BY <1>3, <2>1 DEF InvSincronia, Sincronia, SincSaida, Calma
    <3>. QED
      BY <1>1, <2>1, <3>1 DEF Sincronia, SincSaida
  <2>2. CASE Morto(c)
    BY <1>1, <2>2 DEF Sincronia, Morto
  <2>. QED
    BY <2>1, <2>2
<1>6. InvSincronia'
  BY <1>4, <1>5, SincroniaIntacta
<1>7. InvSessao'
  BY <1>1 DEF InvSessao
<1>8. InvPedidos'
  <2>1. \A i \in DOMAIN pedidosAM : pedidosAM[i].de \in Clientes
    <3>1. \A i \in DOMAIN pedidosAM : pedidosAM[i] \in TipoPedido
      BY LenProperties, ElementOfSeq DEF TypeOK
    <3>. QED
      BY <3>1 DEF TipoPedido
  <2>2. \A i \in DOMAIN pedidosAM :
           LET d == pedidosAM[i].de
           IN sess'[d].u = sess[d].u /\ (sess'[d].pc = sess[d].pc \/ sess'[d].pc = "fim")
    BY <1>1, <2>1
  <2>3. \A i \in DOMAIN pedidosAM :
           pedidosAM[i].op = "login" /\ sess'[pedidosAM[i].de].pc = "fim" =>
              Morto(pedidosAM[i].de)
    <3>. SUFFICES ASSUME NEW i \in DOMAIN pedidosAM, pedidosAM[i].op = "login",
                         pedidosAM[i].de = c, ~ Morto(c)
                  PROVE  FALSE
      BY <1>1, <2>1 DEF InvPedidos, PedidoCerto
    <3>1. sess[c].pc = "login"
      BY DEF InvPedidos, PedidoCerto
    <3>. QED
      BY <3>1 DEF InvSincronia, Sincronia, SincSaida
  <2>4. \A i \in DOMAIN pedidosAM : Morto(pedidosAM[i].de)' <=> Morto(pedidosAM[i].de)
    BY DEF Morto
  <2>. QED
    BY <2>2, <2>3, <2>4 DEF InvPedidos, PedidoCerto
<1>9. InvRespostas'
  <2>. SUFFICES ASSUME NEW d \in Clientes, NEW i \in DOMAIN caixa'[d],
                       caixa'[d][i].tag = "conta"
                PROVE  /\ sess'[d].pc \in {"login", "logout"}
                       /\ \A k \in DOMAIN pedidosAM : pedidosAM[k].de # d
                       /\ \A j \in DOMAIN caixa'[d] : caixa'[d][j].tag = "conta" => j = i
    BY DEF InvRespostas, EConta
  <2>1. d # c
    BY <1>2
  <2>. QED
    BY <1>1, <1>2, <2>1 DEF InvRespostas, EConta
<1>10. \A d \in Clientes : /\ Tem(d)' => Tem(d)
                           /\ sess'[d].u = sess[d].u
                           /\ d # c => (Tem(d)' <=> Tem(d))
                           /\ LogoutDe(d)' <=> LogoutDe(d)
  BY <1>1, <1>2 DEF Tem, LogoutDe, Aceite, EConta
<1>11. InvPosse'
  BY <1>10 DEF InvPosse
<1>12. InvAuth'
  <2>. SUFFICES ASSUME NEW d \in Clientes, NEW i \in DOMAIN caixa'[d],
                       caixa'[d][i].tag = "auth"
                PROVE  caixa'[d][i].u = cli[d].u
    BY DEF InvAuth
  <2>1. d # c
    BY <1>2
  <2>. QED
    BY <1>2, <2>1 DEF InvAuth
<1>13. InvPresa'
  <2>. SUFFICES ASSUME NEW u \in Contas, contas[u]
                PROVE  \E d \in Clientes : Explica(d, u)'
    BY DEF InvPresa
  <2>1. PICK d \in Clientes : Explica(d, u)
    BY DEF InvPresa
  <2>2. Morto(d) \/ Tem(d)'
    <3>1. CASE d = c /\ cli[c].pc \in {"sai", "fim"}
      <4>1. sess[c].pc = "logout"
        BY <3>1 DEF InvSincronia, Sincronia, SincSaida
      <4>. QED
        BY <1>10, <2>1, <3>1, <4>1 DEF Tem, Explica
    <3>2. CASE d = c /\ Morto(c)
      BY <3>2
    <3>3. CASE d # c
      BY <1>10, <2>1, <3>3 DEF Explica
    <3>. QED
      BY <3>1, <3>2, <3>3
  <2>. QED
    BY <2>1, <2>2 DEF Explica, Morto
<1>. QED
  BY <1>6, <1>7, <1>8, <1>9, <1>11, <1>12, <1>13

(* A question put at the end of the account manager's mailbox by a session *)
(* that had none there.                                                    *)
LEMMA PerguntaProperties ==
    ASSUME TypeOK, NEW q \in TipoPedido, pedidosAM' = Append(pedidosAM, q)
    PROVE  /\ \A i \in DOMAIN pedidosAM : i \in DOMAIN pedidosAM'
                                          /\ pedidosAM'[i] = pedidosAM[i]
           /\ \E n \in DOMAIN pedidosAM' :
                 /\ pedidosAM'[n] = q
                 /\ \A i \in DOMAIN pedidosAM' : i # n => i \in DOMAIN pedidosAM
           /\ \A i \in DOMAIN pedidosAM : pedidosAM[i] \in TipoPedido
                                          /\ pedidosAM[i].de \in Clientes
                                          /\ pedidosAM[i].op \in {"login", "logout"}
<1>1. pedidosAM \in Seq(TipoPedido)
  BY DEF TypeOK
<1>2. DOMAIN pedidosAM = 1 .. Len(pedidosAM) /\ Len(pedidosAM) \in Nat
  BY <1>1, LenProperties
<1>3. /\ Append(pedidosAM, q) \in Seq(TipoPedido)
      /\ Len(Append(pedidosAM, q)) = Len(pedidosAM) + 1
      /\ \A i \in 1 .. Len(pedidosAM) : Append(pedidosAM, q)[i] = pedidosAM[i]
      /\ Append(pedidosAM, q)[Len(pedidosAM) + 1] = q
  BY <1>1, AppendProperties
<1>4. DOMAIN pedidosAM' = 1 .. Len(pedidosAM) + 1
  BY <1>3, LenProperties
<1>5. \A i \in DOMAIN pedidosAM : i \in DOMAIN pedidosAM' /\ pedidosAM'[i] = pedidosAM[i]
  BY <1>2, <1>3, <1>4
<1>6. \E n \in DOMAIN pedidosAM' :
         /\ pedidosAM'[n] = q
         /\ \A i \in DOMAIN pedidosAM' : i # n => i \in DOMAIN pedidosAM
  <2>. WITNESS Len(pedidosAM) + 1 \in DOMAIN pedidosAM'
  <2>. QED
    BY <1>2, <1>3, <1>4
<1>7. \A i \in DOMAIN pedidosAM : pedidosAM[i] \in TipoPedido
  BY <1>1, <1>2, ElementOfSeq
<1>. QED
  BY <1>5, <1>6, <1>7 DEF TipoPedido

(* The first message of a mailbox is taken.                                *)
LEMMA CabecaSai ==
    ASSUME NEW S, NEW s \in Seq(S), s # << >>
    PROVE  /\ 1 \in DOMAIN s /\ Head(s) = s[1] /\ Head(s) \in S
           /\ \A i \in DOMAIN Tail(s) : /\ i \in Nat
                                        /\ i + 1 \in DOMAIN s /\ i + 1 # 1
                                        /\ Tail(s)[i] = s[i + 1]
           /\ \A k \in DOMAIN s : k # 1 => k - 1 \in DOMAIN Tail(s)
                                          /\ Tail(s)[k - 1] = s[k]
<1>1. DOMAIN s = 1 .. Len(s) /\ Len(s) \in Nat \ {0}
  BY LenProperties, EmptySeq
<1>2. /\ Head(s) \in S /\ Tail(s) \in Seq(S)
      /\ Len(Tail(s)) = Len(s) - 1
      /\ \A i \in 1 .. Len(Tail(s)) : Tail(s)[i] = s[i + 1]
  BY HeadTailProperties
<1>3. DOMAIN Tail(s) = 1 .. Len(s) - 1
  BY <1>2, LenProperties
<1>4. ASSUME NEW k \in DOMAIN s, k # 1
      PROVE  k - 1 \in DOMAIN Tail(s) /\ Tail(s)[k - 1] = s[k]
  <2>1. k - 1 \in 1 .. Len(s) - 1 /\ (k - 1) + 1 = k
    BY <1>1, <1>4
  <2>. QED
    BY <1>2, <1>3, <2>1
<1>. QED
  BY <1>1, <1>2, <1>3, <1>4

(* A login request: the session asks the account manager.                  *)
LEMMA InvAuthReq ==
    ASSUME Indutivo, NEW c \in Clientes, RecebeAuthReq(c)
    PROVE  Indutivo'
<1>. USE DEF Indutivo
<1>. DEFINE m == Head(caixa[c])
            q == [op |-> "login", u |-> m.u, certa |-> m.certa, de |-> c]
<1>1. TypeOK'
  BY TiposSessao DEF Sessao
<1>2. /\ sess[c].pc = "porAutenticar" /\ caixa[c] # << >> /\ m.tag = "auth"
      /\ pedidosAM' = Append(pedidosAM, q) /\ contas' = contas
      /\ sess' = [sess EXCEPT ![c].pc = "login", ![c].u = m.u]
      /\ caixa' = [caixa EXCEPT ![c] = Tail(@)]
      /\ UNCHANGED <<cli, rede, produtores>>
  BY DEF RecebeAuthReq, Pergunta, trocaVars
<1>3. /\ sess'[c].pc = "login" /\ sess'[c].u = m.u
      /\ \A d \in Clientes \ {c} : sess'[d] = sess[d]
  BY <1>2 DEF TypeOK, TipoSessao
<1>4. /\ caixa[c] \in Seq(Mensagens) /\ caixa'[c] = Tail(caixa[c])
      /\ \A d \in Clientes \ {c} : caixa'[d] = caixa[d]
  BY <1>2 DEF TypeOK
<1>5. /\ 1 \in DOMAIN caixa[c] /\ m = caixa[c][1] /\ m \in Mensagens
      /\ \A i \in DOMAIN caixa'[c] : i + 1 \in DOMAIN caixa[c]
                                      /\ caixa'[c][i] = caixa[c][i + 1]
  <2>1. /\ 1 \in DOMAIN caixa[c] /\ Head(caixa[c]) = caixa[c][1]
        /\ Head(caixa[c]) \in Mensagens
        /\ \A i \in DOMAIN Tail(caixa[c]) : /\ i \in Nat
                                            /\ i + 1 \in DOMAIN caixa[c] /\ i + 1 # 1
                                            /\ Tail(caixa[c])[i] = caixa[c][i + 1]
    BY <1>2, <1>4, CabecaSai
  <2>. QED
    BY <1>4, <2>1
<1>6. m.u = cli[c].u
  BY <1>2, <1>5 DEF InvAuth
<1>7. m \in [tag : {"auth"}, u : Contas, certa : BOOLEAN]
  BY <1>2, <1>5 DEF Mensagens, TcpClosed, Mensagem
<1>8. q \in TipoPedido /\ q.op = "login" /\ q.u = m.u /\ q.de = c /\ m.u \in Contas
  BY <1>7 DEF TipoPedido
<1>. HIDE DEF q, m
<1>9. /\ \A i \in DOMAIN pedidosAM : i \in DOMAIN pedidosAM' /\ pedidosAM'[i] = pedidosAM[i]
      /\ \A i \in DOMAIN pedidosAM : pedidosAM[i].de \in Clientes
                                    /\ pedidosAM[i].op \in {"login", "logout"}
  BY <1>2, <1>8, PerguntaProperties
<1>10. PICK n \in DOMAIN pedidosAM' :
         /\ pedidosAM'[n] = q
         /\ \A i \in DOMAIN pedidosAM' : i # n => i \in DOMAIN pedidosAM
  BY <1>2, <1>8, PerguntaProperties
<1>11. \A i \in DOMAIN pedidosAM : pedidosAM[i].de # c
  BY <1>2, <1>9 DEF InvPedidos, PedidoCerto
<1>12. \A i \in DOMAIN caixa[c] : caixa[c][i].tag # "conta"
  BY <1>2 DEF InvRespostas, EConta
<1>13. \A i \in DOMAIN caixa'[c] : caixa'[c][i].tag # "conta"
  BY <1>5, <1>12
<1>14. \A d \in Clientes : Prods(d)' = Prods(d)
  BY <1>2 DEF Prods
<1>15. Outros(c)
  BY <1>2, <1>3, <1>4, <1>14 DEF Outros
<1>16. Sincronia(c)'
  <2>1. Sincronia(c)
    BY DEF InvSincronia
  <2>2. CASE cli[c].pc = "autentica"
    <3>1. SincAutentica(c)
      BY <2>1, <2>2 DEF Sincronia
    <3>2. PICK certa \in BOOLEAN : caixa[c] = <<Auth(cli[c].u, certa)>>
      BY <1>2, <3>1 DEF SincAutentica
    <3>3. caixa'[c] = << >>
      BY <1>4, <3>2, SequenciasCurtas
    <3>4. Prods(c)' = {} /\ rede'[c] = << >>
      BY <1>2, <1>14, <3>1 DEF SincAutentica
    <3>5. SincAutentica(c)'
      BY <1>2, <1>3, <1>6, <3>3, <3>4 DEF SincAutentica
    <3>. QED
      BY <1>2, <1>3, <2>2, <3>5 DEF Sincronia
  <2>3. CASE cli[c].pc # "autentica"
    <3>1. cli[c].pc \notin {"nada", "entrada", "menu", "espera", "sai", "fim"}
      BY <1>2, <2>1, <2>3 DEF Sincronia, SincEspera, SincSaida, Autenticada
    <3>. QED
      BY <1>2, <1>3, <2>3, <3>1 DEF Sincronia
  <2>. QED
    BY <2>2, <2>3
<1>17. InvSincronia'
  BY <1>15, <1>16, SincroniaIntacta
<1>18. InvSessao'
  BY <1>3, <1>8 DEF InvSessao
<1>19. InvPedidos'
  <2>1. \A i, j \in DOMAIN pedidosAM' : pedidosAM'[i].de = pedidosAM'[j].de => i = j
    BY <1>8, <1>9, <1>10, <1>11 DEF InvPedidos, PedidoCerto
  <2>2. ASSUME NEW i \in DOMAIN pedidosAM'
        PROVE  PedidoCerto(pedidosAM[i])'
    <3>1. CASE i = n
      BY <1>2, <1>3, <1>6, <1>8, <1>10, <3>1 DEF PedidoCerto
    <3>2. CASE i # n
      <4>1. i \in DOMAIN pedidosAM /\ pedidosAM'[i] = pedidosAM[i]
            /\ pedidosAM[i].de \in Clientes \ {c}
        BY <1>9, <1>10, <1>11, <3>2
      <4>. QED
        BY <1>2, <1>3, <4>1 DEF InvPedidos, PedidoCerto, Morto
    <3>. QED
      BY <3>1, <3>2
  <2>. QED
    BY <2>1, <2>2 DEF InvPedidos
<1>20. InvRespostas'
  <2>. SUFFICES ASSUME NEW d \in Clientes, NEW i \in DOMAIN caixa'[d],
                       caixa'[d][i].tag = "conta"
                PROVE  /\ sess'[d].pc \in {"login", "logout"}
                       /\ \A k \in DOMAIN pedidosAM' : pedidosAM'[k].de # d
                       /\ \A j \in DOMAIN caixa'[d] : caixa'[d][j].tag = "conta" => j = i
    BY DEF InvRespostas, EConta
  <2>1. d # c
    BY <1>13
  <2>2. \A k \in DOMAIN pedidosAM : pedidosAM[k].de # d
    BY <1>4, <2>1 DEF InvRespostas, EConta
  <2>. QED
    BY <1>3, <1>4, <1>8, <1>9, <1>10, <2>1, <2>2 DEF InvRespostas, EConta
<1>21. \A d \in Clientes : LogoutDe(d)' <=> LogoutDe(d)
  BY <1>8, <1>9, <1>10 DEF LogoutDe
<1>22. ~ Tem(c) /\ ~ Tem(c)'
  BY <1>2, <1>3, <1>11, <1>13, <1>21 DEF Tem, LogoutDe, Aceite, EConta
<1>23. \A d \in Clientes \ {c} : Tem(d)' <=> Tem(d)
  BY <1>3, <1>4, <1>21 DEF Tem, Aceite, EConta
<1>24. InvPosse'
  BY <1>2, <1>3, <1>22, <1>23 DEF InvPosse
<1>25. InvAuth'
  <2>1. \A i \in DOMAIN caixa'[c] : caixa'[c][i].tag = "auth" => caixa'[c][i].u = cli[c].u
    BY <1>5 DEF InvAuth
  <2>2. \A d \in Clientes \ {c} : \A i \in DOMAIN caixa'[d] :
           caixa'[d][i].tag = "auth" => caixa'[d][i].u = cli[d].u
    BY <1>4 DEF InvAuth
  <2>. QED
    BY <1>2, <2>1, <2>2 DEF InvAuth
<1>26. InvPresa'
  BY <1>2, <1>22, <1>23 DEF InvPresa, Explica, Morto
<1>. QED
  BY <1>1, <1>17, <1>18, <1>19, <1>20, <1>24, <1>25, <1>26

(* A logout request: the session asks the account manager, and has its     *)
(* account until that is answered.                                         *)
LEMMA InvLogout ==
    ASSUME Indutivo, NEW c \in Clientes, RecebeLogout(c)
    PROVE  Indutivo'
<1>. USE DEF Indutivo
<1>. DEFINE m == caixa[c][Primeira(c)]
            q == [op |-> "logout", u |-> sess[c].u, certa |-> TRUE, de |-> c]
<1>1. TypeOK'
  BY TiposSessao DEF Sessao
<1>2. /\ Primeira(c) # 0 /\ m.tag = "msg" /\ m.tipo = "logout"
      /\ caixa' = [caixa EXCEPT ![c] = RemoveAt(@, Primeira(c))]
      /\ pedidosAM' = Append(pedidosAM, q) /\ contas' = contas
      /\ sess' = [sess EXCEPT ![c].pc = "logout"]
      /\ UNCHANGED <<cli, rede, produtores>>
  BY DEF RecebeLogout, Recebe, Pergunta, trocaVars
<1>3. sess[c].pc = "ativa" /\ Primeira(c) \in 1 .. Len(caixa[c]) /\ m \in Mensagens
  BY <1>2, PrimeiraProperties
<1>4. /\ sess'[c].pc = "logout" /\ sess'[c].u = sess[c].u
      /\ \A d \in Clientes \ {c} : sess'[d] = sess[d]
  BY <1>2 DEF TypeOK, TipoSessao
<1>5. \A d \in Clientes \ {c} : caixa'[d] = caixa[d]
  BY <1>2 DEF TypeOK
<1>6. MesmasContas(c)
  BY <1>2, <1>3, MensagemSai
<1>7. \A i \in DOMAIN caixa'[c] : caixa'[c][i].tag # "conta"
  BY <1>3, <1>6 DEF MesmasContas, InvRespostas
<1>8. q \in TipoPedido /\ q.op = "logout" /\ q.u = sess[c].u /\ q.de = c
  BY <1>3 DEF TipoPedido, InvSessao
<1>. HIDE DEF q
<1>9. /\ \A i \in DOMAIN pedidosAM : i \in DOMAIN pedidosAM' /\ pedidosAM'[i] = pedidosAM[i]
      /\ \A i \in DOMAIN pedidosAM : pedidosAM[i].de \in Clientes
                                    /\ pedidosAM[i].op \in {"login", "logout"}
  BY <1>2, <1>8, PerguntaProperties
<1>10. PICK n \in DOMAIN pedidosAM' :
         /\ pedidosAM'[n] = q
         /\ \A i \in DOMAIN pedidosAM' : i # n => i \in DOMAIN pedidosAM
  BY <1>2, <1>8, PerguntaProperties
<1>11. \A i \in DOMAIN pedidosAM : pedidosAM[i].de # c
  BY <1>3, <1>9 DEF InvPedidos, PedidoCerto
<1>12. \A d \in Clientes : Prods(d)' = Prods(d)
  BY <1>2 DEF Prods
<1>13. Outros(c)
  BY <1>2, <1>4, <1>5, <1>12 DEF Outros
<1>14. Sincronia(c)'
  <2>1. Sincronia(c)
    BY DEF InvSincronia
  <2>2. cli[c].pc # "espera"
    <3>. SUFFICES ASSUME cli[c].pc = "espera" PROVE FALSE
      OBVIOUS
    <3>1. SincEspera(c) /\ caixa[c] # << >>
      BY <1>3, <2>1 DEF Sincronia
    <3>2. \/ caixa[c] = <<Resposta(cli[c].ref)>>
          \/ \E t \in {"leilao", "emissao", "licitar", "emprestimo"}, e \in Nomes :
                caixa[c] = <<Mensagem(t, e, cli[c].ref)>>
      BY <3>1 DEF SincEspera
    <3>3. \/ m = Resposta(cli[c].ref)
          \/ \E t \in {"leilao", "emissao", "licitar", "emprestimo"}, e \in Nomes :
                m = Mensagem(t, e, cli[c].ref)
      BY <1>3, <3>2, SequenciasCurtas
    <3>4. Resposta(cli[c].ref).tag = "producer"
      BY DEF Resposta
    <3>5. \A t, e : Mensagem(t, e, cli[c].ref).tipo = t
      BY DEF Mensagem
    <3>. HIDE DEF m
    <3>. QED
      BY <1>2, <3>3, <3>4, <3>5
  <2>3. cli[c].pc \notin {"nada", "entrada", "autentica", "menu"}
    BY <1>3, <2>1 DEF Sincronia, SincAutentica
  <2>4. cli[c].pc \in {"sai", "fim"} => Calma(c)' /\ sess[c].u = cli[c].u
    BY <1>2, <1>12, <2>1 DEF Sincronia, SincSaida, Calma
  <2>. QED
    BY <1>2, <1>4, <2>2, <2>3, <2>4 DEF Sincronia, SincSaida
<1>15. InvSincronia'
  BY <1>13, <1>14, SincroniaIntacta
<1>16. InvSessao'
  BY <1>3, <1>4 DEF InvSessao
<1>17. InvPedidos'
  <2>1. \A i, j \in DOMAIN pedidosAM' : pedidosAM'[i].de = pedidosAM'[j].de => i = j
    BY <1>8, <1>9, <1>10, <1>11 DEF InvPedidos
  <2>2. ASSUME NEW i \in DOMAIN pedidosAM'
        PROVE  PedidoCerto(pedidosAM[i])'
    <3>1. CASE i = n
      BY <1>2, <1>4, <1>8, <1>10, <3>1 DEF PedidoCerto
    <3>2. CASE i # n
      <4>1. i \in DOMAIN pedidosAM /\ pedidosAM'[i] = pedidosAM[i]
            /\ pedidosAM[i].de \in Clientes \ {c}
        BY <1>9, <1>10, <1>11, <3>2
      <4>. QED
        BY <1>2, <1>4, <4>1 DEF InvPedidos, PedidoCerto, Morto
    <3>. QED
      BY <3>1, <3>2
  <2>. QED
    BY <2>1, <2>2 DEF InvPedidos
<1>18. InvRespostas'
  <2>. SUFFICES ASSUME NEW d \in Clientes, NEW i \in DOMAIN caixa'[d],
                       caixa'[d][i].tag = "conta"
                PROVE  /\ sess'[d].pc \in {"login", "logout"}
                       /\ \A k \in DOMAIN pedidosAM' : pedidosAM'[k].de # d
                       /\ \A j \in DOMAIN caixa'[d] : caixa'[d][j].tag = "conta" => j = i
    BY DEF InvRespostas, EConta
  <2>1. d # c
    BY <1>7
  <2>2. \A k \in DOMAIN pedidosAM : pedidosAM[k].de # d
    BY <1>5, <2>1 DEF InvRespostas, EConta
  <2>. QED
    BY <1>4, <1>5, <1>8, <1>9, <1>10, <2>1, <2>2 DEF InvRespostas, EConta
<1>19. Tem(c) /\ Tem(c)'
  BY <1>3, <1>8, <1>10 DEF Tem, LogoutDe
<1>20. \A d \in Clientes \ {c} : Tem(d)' <=> Tem(d)
  <2>1. \A d \in Clientes \ {c} : LogoutDe(d)' <=> LogoutDe(d)
    BY <1>8, <1>9, <1>10 DEF LogoutDe
  <2>. QED
    BY <1>4, <1>5, <2>1 DEF Tem, Aceite, EConta
<1>21. InvPosse'
  BY <1>2, <1>4, <1>19, <1>20 DEF InvPosse
<1>22. InvAuth'
  <2>1. \A d \in Clientes \ {c} : \A i \in DOMAIN caixa'[d] :
           caixa'[d][i].tag = "auth" => caixa'[d][i].u = cli'[d].u
    BY <1>2, <1>5 DEF InvAuth
  <2>. QED
    BY <1>6, <2>1 DEF InvAuth, MesmasContas
<1>23. InvPresa'
  BY <1>2, <1>19, <1>20 DEF InvPresa, Explica, Morto
<1>. QED
  BY <1>1, <1>15, <1>16, <1>17, <1>18, <1>21, <1>22, <1>23

(* The account manager's answer to a login: the session is active, or asks *)
(* for another login.                                                      *)
LEMMA InvLogin ==
    ASSUME Indutivo, NEW c \in Clientes, LoginResponde(c), Head(caixa[c]).tag = "conta"
    PROVE  Indutivo'
<1>. USE DEF Indutivo
<1>. DEFINE m == Head(caixa[c])
<1>1. TypeOK'
  BY TiposSessao DEF Sessao
<1>2. /\ sess[c].pc = "login" /\ caixa[c] # << >> /\ m.tag = "conta"
      /\ rede' = [rede EXCEPT ![c] = Append(@, [tipo |-> m.res, ref |-> 0])]
      /\ sess' = [sess EXCEPT ![c].pc = IF m.res = 0 THEN "porAutenticar" ELSE "ativa"]
      /\ caixa' = [caixa EXCEPT ![c] = Tail(@)]
      /\ UNCHANGED <<contas, pedidosAM, cli, produtores>>
  BY DEF LoginResponde, amVars, trocaVars
<1>3. /\ sess'[c].pc = (IF m.res = 0 THEN "porAutenticar" ELSE "ativa")
      /\ sess'[c].u = sess[c].u
      /\ \A d \in Clientes \ {c} : sess'[d] = sess[d]
  BY <1>2 DEF TypeOK, TipoSessao
<1>4. /\ caixa[c] \in Seq(Mensagens) /\ caixa'[c] = Tail(caixa[c])
      /\ \A d \in Clientes \ {c} : caixa'[d] = caixa[d]
  BY <1>2 DEF TypeOK
<1>5. /\ 1 \in DOMAIN caixa[c] /\ m = caixa[c][1] /\ m \in Mensagens
      /\ \A i \in DOMAIN caixa'[c] : i + 1 \in DOMAIN caixa[c] /\ i + 1 # 1
                                      /\ caixa'[c][i] = caixa[c][i + 1]
  <2>1. /\ 1 \in DOMAIN caixa[c] /\ Head(caixa[c]) = caixa[c][1]
        /\ Head(caixa[c]) \in Mensagens
        /\ \A i \in DOMAIN Tail(caixa[c]) : /\ i \in Nat
                                            /\ i + 1 \in DOMAIN caixa[c] /\ i + 1 # 1
                                            /\ Tail(caixa[c])[i] = caixa[c][i + 1]
    BY <1>2, <1>4, CabecaSai
  <2>. QED
    BY <1>4, <2>1
<1>6. m \in [tag : {"conta"}, res : 0 .. 2]
  BY <1>2, <1>5 DEF Mensagens, TcpClosed, Mensagem
<1>7. \A d \in Clientes \ {c} : rede'[d] = rede[d]
  BY <1>2 DEF TypeOK
<1>8. rede'[c] = Append(rede[c], [tipo |-> m.res, ref |-> 0])
  BY <1>2 DEF TypeOK
<1>. HIDE DEF m
<1>9. /\ \A i \in DOMAIN caixa[c] : caixa[c][i].tag = "conta" => i = 1
      /\ \A k \in DOMAIN pedidosAM : pedidosAM[k].de # c
  BY <1>2, <1>5 DEF InvRespostas, EConta
<1>10. \A i \in DOMAIN caixa'[c] : caixa'[c][i].tag # "conta"
  BY <1>5, <1>9
<1>11. \A d \in Clientes : Prods(d)' = Prods(d)
  BY <1>2 DEF Prods
<1>12. Outros(c)
  BY <1>2, <1>3, <1>4, <1>7, <1>11 DEF Outros
<1>13. Sincronia(c)'
  <2>1. Sincronia(c)
    BY DEF InvSincronia
  <2>2. CASE cli[c].pc = "autentica"
    <3>1. SincAutentica(c)
      BY <2>1, <2>2 DEF Sincronia
    <3>2. /\ Prods(c) = {} /\ sess[c].u = cli[c].u /\ rede[c] = << >>
          /\ \E x : caixa[c] = <<x>>
      BY <1>2, <3>1 DEF SincAutentica, Autenticada
    <3>3. caixa'[c] = << >>
      BY <1>4, <3>2, SequenciasCurtas
    <3>4. rede'[c] = <<[tipo |-> m.res, ref |-> 0]>>
      BY <1>8, <3>2, SequenciasCurtas
    <3>5. SincAutentica(c)'
      <4>1. CASE m.res = 0
        BY <1>3, <1>11, <3>2, <3>3, <3>4, <4>1 DEF SincAutentica
      <4>2. CASE m.res # 0
        <5>1. m.res \in 1 .. 2
          BY <1>6, <4>2
        <5>2. Autenticada(c)'
          BY <1>2, <1>3, <3>2, <4>2 DEF Autenticada
        <5>. QED
          BY <1>11, <3>2, <3>3, <3>4, <5>1, <5>2 DEF SincAutentica
      <4>. QED
        BY <4>1, <4>2
    <3>. QED
      BY <1>2, <1>3, <2>2, <3>5 DEF Sincronia
  <2>3. CASE cli[c].pc # "autentica"
    <3>1. cli[c].pc \notin {"nada", "entrada", "menu", "espera", "sai", "fim"}
      BY <1>2, <2>1, <2>3 DEF Sincronia, SincEspera, SincSaida, Autenticada
    <3>. QED
      BY <1>2, <1>3, <2>3, <3>1 DEF Sincronia
  <2>. QED
    BY <2>2, <2>3
<1>14. InvSincronia'
  BY <1>12, <1>13, SincroniaIntacta
<1>15. InvSessao'
  BY <1>2, <1>3 DEF InvSessao
<1>16. \A i \in DOMAIN pedidosAM : pedidosAM[i].de \in Clientes \ {c}
  <2>1. \A i \in DOMAIN pedidosAM : pedidosAM[i] \in TipoPedido
    BY LenProperties, ElementOfSeq DEF TypeOK
  <2>. QED
    BY <1>9, <2>1 DEF TipoPedido
<1>17. InvPedidos'
  BY <1>2, <1>3, <1>16 DEF InvPedidos, PedidoCerto, Morto
<1>18. InvRespostas'
  <2>. SUFFICES ASSUME NEW d \in Clientes, NEW i \in DOMAIN caixa'[d],
                       caixa'[d][i].tag = "conta"
                PROVE  /\ sess'[d].pc \in {"login", "logout"}
                       /\ \A k \in DOMAIN pedidosAM' : pedidosAM'[k].de # d
                       /\ \A j \in DOMAIN caixa'[d] : caixa'[d][j].tag = "conta" => j = i
    BY DEF InvRespostas, EConta
  <2>1. d # c
    BY <1>10
  <2>. QED
    BY <1>2, <1>3, <1>4, <2>1 DEF InvRespostas, EConta
<1>19. \A d \in Clientes : LogoutDe(d)' <=> LogoutDe(d)
  BY <1>2 DEF LogoutDe
<1>20. \A d \in Clientes \ {c} : Tem(d)' <=> Tem(d)
  BY <1>3, <1>4, <1>19 DEF Tem, Aceite, EConta
<1>21. Tem(c)' <=> Tem(c)
  <2>1. ~ LogoutDe(c)
    BY <1>9 DEF LogoutDe
  <2>2. Aceite(c) <=> m.res # 0
    BY <1>2, <1>5, <1>9 DEF Aceite, EConta
  <2>. QED
    BY <1>2, <1>3, <1>19, <2>1, <2>2 DEF Tem
<1>22. InvPosse'
  BY <1>2, <1>3, <1>20, <1>21 DEF InvPosse
<1>23. InvAuth'
  <2>1. \A i \in DOMAIN caixa'[c] : caixa'[c][i].tag = "auth" => caixa'[c][i].u = cli[c].u
    BY <1>5 DEF InvAuth
  <2>2. \A d \in Clientes \ {c} : \A i \in DOMAIN caixa'[d] :
           caixa'[d][i].tag = "auth" => caixa'[d][i].u = cli[d].u
    BY <1>4 DEF InvAuth
  <2>. QED
    BY <1>2, <2>1, <2>2 DEF InvAuth
<1>24. InvPresa'
  BY <1>2, <1>20, <1>21 DEF InvPresa, Explica, Morto
<1>. QED
  BY <1>1, <1>14, <1>15, <1>17, <1>18, <1>22, <1>23, <1>24

(* Every step of a session preserves the invariant.                        *)
LEMMA InvPassoSessao ==
    ASSUME Indutivo, NEW c \in Clientes, Sessao(c)
    PROVE  Indutivo'
<1>. USE DEF Indutivo
<1>1. TypeOK' /\ Sincronia(c)
  BY TiposSessao DEF InvSincronia
<1>2. cli[c].pc \in {"nada", "entrada", "autentica", "menu", "espera", "sai", "fim",
                     "morto", "pendurado"}
  BY DEF TypeOK, TipoCliente
<1>3. CASE SessaoErro(c)
  <2>1. /\ sess[c].pc = "porAutenticar" /\ caixa[c] # << >> /\ Head(caixa[c]).tag # "auth"
        /\ sess' = [sess EXCEPT ![c].pc = "fim"]
        /\ caixa' = [caixa EXCEPT ![c] = << >>]
        /\ UNCHANGED <<contas, pedidosAM, cli, rede, produtores>>
    BY <1>3 DEF SessaoErro, amVars, trocaVars
  <2>2. cli[c].pc # "autentica"
    <3>. SUFFICES ASSUME cli[c].pc = "autentica" PROVE FALSE
      OBVIOUS
    <3>1. PICK certa \in BOOLEAN : caixa[c] = <<Auth(cli[c].u, certa)>>
      BY <1>1, <2>1 DEF Sincronia, SincAutentica
    <3>2. Head(caixa[c]).tag = "auth"
      BY <3>1, SequenciasCurtas DEF Auth
    <3>. QED
      BY <2>1, <3>2
  <2>3. Morto(c)
    BY <1>1, <1>2, <2>1, <2>2 DEF Sincronia, SincEspera, SincSaida, Autenticada, Morto
  <2>. QED
    BY <1>1, <2>1, <2>3, InvFimDaSessao
<1>4. CASE LoginResponde(c) /\ Head(caixa[c]).tag # "conta"
  <2>1. /\ sess[c].pc = "login" /\ caixa[c] # << >> /\ Head(caixa[c]).tag # "conta"
        /\ sess' = [sess EXCEPT ![c].pc = "fim"]
        /\ caixa' = [caixa EXCEPT ![c] = << >>]
        /\ UNCHANGED <<contas, pedidosAM, cli, rede, produtores>>
    BY <1>4 DEF LoginResponde, amVars, trocaVars
  <2>2. cli[c].pc # "autentica"
    <3>. SUFFICES ASSUME cli[c].pc = "autentica" PROVE FALSE
      OBVIOUS
    <3>1. PICK n \in 0 .. 2 : caixa[c] = <<Conta(n)>>
      BY <1>1, <2>1 DEF Sincronia, SincAutentica, Autenticada
    <3>2. Head(caixa[c]).tag = "conta"
      BY <3>1, SequenciasCurtas DEF Conta
    <3>. QED
      BY <2>1, <3>2
  <2>3. Morto(c)
    BY <1>1, <1>2, <2>1, <2>2 DEF Sincronia, SincEspera, SincSaida, Autenticada, Morto
  <2>. QED
    BY <1>1, <2>1, <2>3, InvFimDaSessao
<1>5. CASE LogoutResponde(c)
  <2>1. /\ sess[c].pc = "logout"
        /\ sess' = [sess EXCEPT ![c].pc = "fim"]
        /\ caixa' = [caixa EXCEPT ![c] = << >>]
        /\ UNCHANGED <<contas, pedidosAM, cli, rede, produtores>>
    BY <1>5 DEF LogoutResponde, amVars, trocaVars
  <2>2. Morto(c) \/ cli[c].pc \in {"sai", "fim"}
    BY <1>1, <1>2, <2>1 DEF Sincronia, SincAutentica, SincEspera, Autenticada, Morto
  <2>. QED
    BY <1>1, <2>1, <2>2, InvFimDaSessao
<1>. QED
  BY <1>3, <1>4, <1>5, InvAuthReq, InvLogout, InvLogin, InvPassagem DEF Sessao

(* The account manager answers the first question: the account changes     *)
(* hands only when nobody has it, and only the one who has it gives it up. *)
LEMMA InvLoop ==
    ASSUME Indutivo, loop
    PROVE  Indutivo'
<1>. USE DEF Indutivo
<1>. DEFINE m  == Head(pedidosAM)
            ok == IF m.op = "login" THEN m.certa /\ ~ contas[m.u] ELSE contas[m.u]
            n  == IF ok THEN Tipo(m.u) ELSE 0
<1>1. TypeOK'
  BY TiposLoop
<1>2. /\ pedidosAM # << >> /\ pedidosAM' = Tail(pedidosAM)
      /\ contas' = IF ok THEN [contas EXCEPT ![m.u] = m.op = "login"] ELSE contas
      /\ caixa' = Entrega(m.de, Conta(n))
      /\ UNCHANGED <<sess, cli, rede, produtores>>
  BY DEF loop, trocaVars
<1>3. pedidosAM \in Seq(TipoPedido)
  BY DEF TypeOK
<1>4. /\ 1 \in DOMAIN pedidosAM /\ m = pedidosAM[1] /\ m \in TipoPedido
      /\ \A i \in DOMAIN pedidosAM' : i + 1 \in DOMAIN pedidosAM /\ i + 1 # 1
                                      /\ i \in Nat
                                      /\ pedidosAM'[i] = pedidosAM[i + 1]
      /\ \A k \in DOMAIN pedidosAM : k # 1 => k - 1 \in DOMAIN pedidosAM'
                                              /\ pedidosAM'[k - 1] = pedidosAM[k]
  BY <1>2, <1>3, CabecaSai
<1>5. m.de \in Clientes /\ m.op \in {"login", "logout"} /\ m.u \in Contas
  BY <1>4 DEF TipoPedido
<1>5a. PICK c \in Clientes : m.de = c
  BY <1>5
<1>6. n \in 0 .. 2 /\ (n # 0 <=> ok)
  BY DEF Tipo
<1>7. Conta(n) \in Mensagens /\ Conta(n).tag = "conta" /\ Conta(n).res = n
  BY <1>6 DEF Conta, Mensagens
<1>8. /\ m.u = sess[c].u
      /\ m.op = "login" => /\ sess[c].pc \in {"login", "fim"} /\ m.u = cli[c].u
                           /\ sess[c].pc = "fim" => Morto(c)
      /\ m.op = "logout" => sess[c].pc \in {"logout", "fim"}
  BY <1>4, <1>5a DEF InvPedidos, PedidoCerto
<1>9. contas' = IF ok THEN [contas EXCEPT ![m.u] = m.op = "login"] ELSE contas
  BY <1>2
<1>10. ok <=> IF m.op = "login" THEN m.certa /\ ~ contas[m.u] ELSE contas[m.u]
  OBVIOUS
<1>. HIDE DEF n, ok, m
<1>12. /\ \A d \in Clientes \ {c} : caixa'[d] = caixa[d]
       /\ ~ SessaoViva(c) => caixa'[c] = caixa[c]
       /\ SessaoViva(c) => caixa'[c] = Append(caixa[c], Conta(n))
  BY <1>2, <1>7, <1>5a, EntregaProperties
<1>13. \A i \in DOMAIN caixa[c] : caixa[c][i].tag # "conta"
  BY <1>4, <1>5, <1>5a DEF InvRespostas, EConta
\* the mailbox of c after the answer
<1>14. /\ SessaoViva(c) =>
             \E k \in DOMAIN caixa'[c] :
                /\ caixa'[c][k] = Conta(n)
                /\ \A i \in DOMAIN caixa'[c] : i # k => i \in DOMAIN caixa[c]
                                                        /\ caixa'[c][i] = caixa[c][i]
       /\ ~ SessaoViva(c) => caixa'[c] = caixa[c]
  <2>. SUFFICES ASSUME SessaoViva(c)
                PROVE  \E k \in DOMAIN caixa'[c] :
                          /\ caixa'[c][k] = Conta(n)
                          /\ \A i \in DOMAIN caixa'[c] :
                                i # k => i \in DOMAIN caixa[c] /\ caixa'[c][i] = caixa[c][i]
    BY <1>12
  <2>1. caixa[c] \in Seq(Mensagens)
    BY <1>5 DEF TypeOK
  <2>2. DOMAIN caixa[c] = 1 .. Len(caixa[c]) /\ Len(caixa[c]) \in Nat
    BY <2>1, LenProperties
  <2>3. /\ Append(caixa[c], Conta(n)) \in Seq(Mensagens)
        /\ Len(Append(caixa[c], Conta(n))) = Len(caixa[c]) + 1
        /\ \A i \in 1 .. Len(caixa[c]) : Append(caixa[c], Conta(n))[i] = caixa[c][i]
        /\ Append(caixa[c], Conta(n))[Len(caixa[c]) + 1] = Conta(n)
    BY <1>7, <2>1, AppendProperties
  <2>4. DOMAIN caixa'[c] = 1 .. Len(caixa[c]) + 1
    BY <1>12, <2>3, LenProperties
  <2>5. Len(caixa[c]) + 1 \in DOMAIN caixa'[c]
    BY <2>2, <2>4
  <2>. WITNESS Len(caixa[c]) + 1 \in DOMAIN caixa'[c]
  <2>. QED
    BY <1>12, <2>2, <2>3, <2>4
<1>15. \A i \in DOMAIN pedidosAM' : pedidosAM'[i].de \in Clientes \ {c}
  <2>. SUFFICES ASSUME NEW i \in DOMAIN pedidosAM'
                PROVE  pedidosAM'[i].de \in Clientes \ {c}
    OBVIOUS
  <2>1. i + 1 \in DOMAIN pedidosAM /\ i + 1 # 1 /\ pedidosAM'[i] = pedidosAM[i + 1]
    BY <1>4
  <2>2. pedidosAM[i + 1] \in TipoPedido
    BY <1>3, <2>1, LenProperties, ElementOfSeq
  <2>3. pedidosAM[i + 1].de # c
    BY <1>4, <1>5a, <2>1 DEF InvPedidos
  <2>. QED
    BY <2>1, <2>2, <2>3 DEF TipoPedido
<1>16. \A d \in Clientes : Prods(d)' = Prods(d)
  BY <1>2 DEF Prods
<1>17. Outros(c)
  BY <1>2, <1>12, <1>16 DEF Outros
<1>18. sess[c].pc \in {"login", "logout", "fim"}
  BY <1>5, <1>8
<1>19. Sincronia(c)'
  <2>1. Sincronia(c)
    BY <1>5 DEF InvSincronia
  <2>2. CASE cli[c].pc = "autentica"
    <3>1. SincAutentica(c)
      BY <2>1, <2>2 DEF Sincronia
    <3>2. /\ sess[c].pc = "login" /\ sess[c].u = cli[c].u /\ rede[c] = << >>
          /\ caixa[c] = << >> \/ \E k \in 0 .. 2 : caixa[c] = <<Conta(k)>>
      BY <1>18, <3>1 DEF SincAutentica, Autenticada
    <3>3. caixa[c] = << >>
      <4>. SUFFICES ASSUME NEW k \in 0 .. 2, caixa[c] = <<Conta(k)>> PROVE FALSE
        BY <3>2
      <4>1. 1 \in DOMAIN caixa[c] /\ caixa[c][1] = Conta(k)
        BY SequenciasCurtas
      <4>. QED
        BY <1>13, <4>1 DEF Conta
    <3>4. caixa'[c] = <<Conta(n)>>
      <4>1. SessaoViva(c)
        BY <3>2 DEF SessaoViva
      <4>. QED
        BY <1>12, <3>3, <4>1, SequenciasCurtas
    <3>5. SincAutentica(c)'
      BY <1>2, <1>6, <1>16, <3>1, <3>2, <3>4 DEF SincAutentica
    <3>. QED
      BY <1>2, <1>18, <2>2, <3>5 DEF Sincronia
  <2>3. CASE cli[c].pc # "autentica"
    <3>1. cli[c].pc \notin {"nada", "entrada", "menu", "espera"}
      BY <1>18, <2>1 DEF Sincronia, SincEspera, Autenticada
    <3>2. cli[c].pc \in {"sai", "fim"} =>
             /\ Calma(c)' /\ sess'[c].u = cli'[c].u
             /\ sess'[c].pc \in {"logout", "fim"}
      BY <1>2, <1>16, <1>18, <2>1 DEF Sincronia, SincSaida, Calma
    <3>. QED
      BY <1>2, <1>18, <2>3, <3>1, <3>2 DEF Sincronia, SincSaida
  <2>. QED
    BY <2>2, <2>3
<1>20. InvSincronia'
  BY <1>5, <1>17, <1>19, SincroniaIntacta
<1>21. InvSessao'
  BY <1>2 DEF InvSessao
<1>22. InvPedidos'
  <2>1. \A i, j \in DOMAIN pedidosAM' : pedidosAM'[i].de = pedidosAM'[j].de => i = j
    <3>. SUFFICES ASSUME NEW i \in DOMAIN pedidosAM', NEW j \in DOMAIN pedidosAM',
                         pedidosAM'[i].de = pedidosAM'[j].de
                  PROVE  i = j
      OBVIOUS
    <3>1. i + 1 = j + 1
      BY <1>4 DEF InvPedidos
    <3>2. i \in Nat /\ j \in Nat
      BY <1>4
    <3>. QED
      BY <3>1, <3>2
  <2>2. \A i \in DOMAIN pedidosAM' : PedidoCerto(pedidosAM[i])'
    BY <1>2, <1>4 DEF InvPedidos, PedidoCerto, Morto
  <2>. QED
    BY <2>1, <2>2 DEF InvPedidos
<1>23. InvRespostas'
  <2>. SUFFICES ASSUME NEW d \in Clientes, NEW i \in DOMAIN caixa'[d],
                       caixa'[d][i].tag = "conta"
                PROVE  /\ sess'[d].pc \in {"login", "logout"}
                       /\ \A k \in DOMAIN pedidosAM' : pedidosAM'[k].de # d
                       /\ \A j \in DOMAIN caixa'[d] : caixa'[d][j].tag = "conta" => j = i
    BY DEF InvRespostas, EConta
  <2>1. CASE d # c
    <3>1. caixa'[d] = caixa[d]
      BY <1>12, <2>1
    <3>. QED
      BY <1>2, <1>4, <3>1 DEF InvRespostas, EConta
  <2>2. CASE d = c
    <3>1. SessaoViva(c)
      BY <1>13, <1>14, <2>2
    <3>2. PICK k \in DOMAIN caixa'[c] :
             \A j \in DOMAIN caixa'[c] : j # k => j \in DOMAIN caixa[c]
                                                  /\ caixa'[c][j] = caixa[c][j]
      BY <1>14, <3>1
    <3>. QED
      BY <1>2, <1>13, <1>15, <1>18, <2>2, <3>1, <3>2 DEF SessaoViva
  <2>. QED
    BY <2>1, <2>2
<1>24. \A d \in Clientes \ {c} : Tem(d)' <=> Tem(d)
  <2>1. \A d \in Clientes \ {c} : LogoutDe(d)' <=> LogoutDe(d)
    <3>. SUFFICES ASSUME NEW d \in Clientes \ {c} PROVE LogoutDe(d)' <=> LogoutDe(d)
      OBVIOUS
    <3>1. LogoutDe(d)' => LogoutDe(d)
      BY <1>4 DEF LogoutDe
    <3>2. LogoutDe(d) => LogoutDe(d)'
      BY <1>4, <1>5a DEF LogoutDe
    <3>. QED
      BY <3>1, <3>2
  <2>. QED
    BY <1>2, <1>12, <2>1 DEF Tem, Aceite, EConta
<1>25. Tem(c) <=> m.op = "logout"
  <2>1. ~ Aceite(c)
    BY <1>13 DEF Aceite, EConta
  <2>2. LogoutDe(c) <=> m.op = "logout"
    <3>1. \A i \in DOMAIN pedidosAM : pedidosAM[i].de = c => i = 1
      BY <1>4, <1>5a DEF InvPedidos
    <3>. QED
      BY <1>4, <1>5a, <3>1 DEF LogoutDe
  <2>. QED
    BY <1>18, <2>1, <2>2 DEF Tem
<1>26. Tem(c)' <=> sess[c].pc = "login" /\ ok
  <2>1. ~ LogoutDe(c)'
    BY <1>15 DEF LogoutDe
  <2>2. SessaoViva(c) => (Aceite(c)' <=> ok)
    BY <1>6, <1>7, <1>13, <1>14 DEF Aceite, EConta
  <2>. QED
    BY <1>2, <1>18, <2>1, <2>2 DEF Tem, SessaoViva
<1>27. m.op = "logout" => ok
  BY <1>5, <1>8, <1>10, <1>25 DEF InvPosse
<1>28. /\ contas'[m.u] = (IF ok THEN m.op = "login" ELSE contas[m.u])
       /\ \A v \in Contas \ {m.u} : contas'[v] = contas[v]
  BY <1>5, <1>9 DEF TypeOK
<1>29. \A d \in Clientes : Tem(d) => sess[d].u \in Contas
  <2>1. \A d \in Clientes : LogoutDe(d) => sess[d].u \in Contas
    <3>. SUFFICES ASSUME NEW d \in Clientes, NEW i \in DOMAIN pedidosAM,
                         pedidosAM[i].de = d
                  PROVE  sess[d].u \in Contas
      BY DEF LogoutDe
    <3>1. pedidosAM[i] \in TipoPedido
      BY <1>3, LenProperties, ElementOfSeq
    <3>. QED
      BY <3>1 DEF InvPedidos, PedidoCerto, TipoPedido
  <2>. QED
    BY <2>1 DEF Tem, InvSessao
\* who has the account that the question is about
<1>30. ok => \A d \in Clientes \ {c} : Tem(d) => sess[d].u # m.u
  <2>1. CASE m.op = "login" /\ ok
    BY <1>10, <2>1 DEF InvPosse
  <2>2. CASE m.op = "logout"
    BY <1>5, <1>8, <1>25, <2>2 DEF InvPosse
  <2>. QED
    BY <1>5, <2>1, <2>2
<1>31. InvPosse'
  <2>1. ASSUME NEW d \in Clientes, Tem(d)' PROVE contas'[sess'[d].u]
    <3>1. CASE d = c
      BY <1>2, <1>8, <1>5, <1>26, <1>28, <2>1, <3>1
    <3>2. CASE d # c
      <4>1. Tem(d) /\ sess[d].u \in Contas /\ contas[sess[d].u]
        BY <1>24, <1>29, <2>1, <3>2 DEF InvPosse
      <4>. QED
        BY <1>2, <1>28, <1>30, <3>2, <4>1
    <3>. QED
      BY <3>1, <3>2
  <2>2. ASSUME NEW d \in Clientes, NEW e \in Clientes, Tem(d)', Tem(e)',
               sess'[d].u = sess'[e].u
        PROVE  d = e
    <3>1. \A x \in Clientes \ {c} : Tem(x)' /\ Tem(c)' => sess[x].u # sess[c].u
      BY <1>8, <1>24, <1>26, <1>30
    <3>2. CASE d # c /\ e # c
      BY <1>2, <1>24, <2>2, <3>2 DEF InvPosse
    <3>3. CASE d = c \/ e = c
      BY <1>2, <2>2, <3>1, <3>3
    <3>. QED
      BY <3>2, <3>3
  <2>. QED
    BY <2>1, <2>2 DEF InvPosse
<1>32. InvAuth'
  <2>. SUFFICES ASSUME NEW d \in Clientes, NEW i \in DOMAIN caixa'[d],
                       caixa'[d][i].tag = "auth"
                PROVE  caixa'[d][i].u = cli'[d].u
    BY DEF InvAuth
  <2>1. i \in DOMAIN caixa[d] /\ caixa'[d][i] = caixa[d][i]
    <3>1. CASE d # c
      BY <1>12, <3>1
    <3>2. CASE d = c /\ ~ SessaoViva(c)
      BY <1>14, <3>2
    <3>3. CASE d = c /\ SessaoViva(c)
      BY <1>7, <1>14, <3>3
    <3>. QED
      BY <3>1, <3>2, <3>3
  <2>. QED
    BY <1>2, <2>1 DEF InvAuth
<1>33. InvPresa'
  <2>. SUFFICES ASSUME NEW u \in Contas, contas'[u]
                PROVE  \E d \in Clientes : Explica(d, u)'
    BY DEF InvPresa
  <2>1. \A d \in Clientes : Morto(d)' <=> Morto(d)
    BY <1>2 DEF Morto
  <2>2. CASE ok /\ m.op = "login" /\ u = m.u
    <3>1. cli'[c].u = u
      BY <1>2, <1>8, <2>2
    <3>2. Morto(c)' \/ Tem(c)'
      BY <1>5, <1>8, <1>26, <2>1, <2>2
    <3>. QED
      BY <1>5, <3>1, <3>2 DEF Explica
  <2>3. CASE ok /\ m.op = "logout" /\ u = m.u
    BY <1>28, <2>3
  <2>4. CASE ~ ok \/ u # m.u
    <3>1. contas[u]
      BY <1>28, <2>4
    <3>2. PICK d \in Clientes : Explica(d, u)
      BY <3>1 DEF InvPresa
    <3>3. Morto(d) \/ Tem(d)'
      <4>1. CASE d # c
        BY <1>24, <3>2, <4>1 DEF Explica
      <4>2. CASE d = c /\ ~ Morto(c)
        <5>1. Tem(c) /\ m.op = "logout" /\ ok
          BY <1>25, <1>27, <3>2, <4>2 DEF Explica
        <5>2. cli[c].pc \in {"sai", "fim"}
          <6>1. cli[c].pc \in {"nada", "entrada", "autentica", "menu", "espera", "sai",
                               "fim", "morto", "pendurado"}
            BY <1>5 DEF TypeOK, TipoCliente
          <6>2. sess[c].pc \in {"logout", "fim"} /\ Sincronia(c)
            BY <1>5, <1>8, <5>1 DEF InvSincronia
          <6>. QED
            BY <4>2, <6>1, <6>2
               DEF Sincronia, SincAutentica, SincEspera, Autenticada, Morto
        <5>3. sess[c].u = cli[c].u
          BY <1>5, <5>2 DEF InvSincronia, Sincronia, SincSaida
        <5>. QED
          BY <1>8, <2>4, <3>2, <4>2, <5>1, <5>3 DEF Explica
      <4>. QED
        BY <4>1, <4>2
    <3>. QED
      BY <1>2, <2>1, <3>2, <3>3 DEF Explica
  <2>. QED
    BY <1>5, <2>2, <2>3, <2>4
<1>. QED
  BY <1>1, <1>20, <1>21, <1>22, <1>23, <1>31, <1>32, <1>33

(* The initial state satisfies the invariant.                              *)
LEMMA InvInit == Init => Indutivo
<1>. SUFFICES ASSUME Init PROVE Indutivo
  OBVIOUS
<1>1. TypeOK
  BY TiposInit
<1>2. DOMAIN pedidosAM = {} /\ \A c \in Clientes : DOMAIN caixa[c] = {}
  BY DEF Init
<1>3. \A c \in Clientes : /\ sess[c].pc = "nada" /\ cli[c].pc = "nada"
                          /\ caixa[c] = << >> /\ rede[c] = << >> /\ Prods(c) = {}
  BY DEF Init, Prods
<1>4. InvSessao /\ InvPedidos /\ InvRespostas /\ InvAuth
  BY <1>2, <1>3 DEF InvSessao, InvPedidos, InvRespostas, InvAuth
<1>5. InvPosse
  BY <1>2, <1>3 DEF InvPosse, Tem, Aceite, LogoutDe
<1>6. InvSincronia
  BY <1>3 DEF InvSincronia, Sincronia, Calma
<1>7. InvPresa
  BY DEF InvPresa, Init
<1>. QED
  BY <1>1, <1>4, <1>5, <1>6, <1>7 DEF Indutivo

(* Every step preserves the invariant.                                     *)
LEMMA InvPasso == ASSUME Indutivo, [Next]_vars PROVE Indutivo'
<1>1. CASE UNCHANGED vars
  <2>1. UNCHANGED <<contas, pedidosAM, sess, caixa, cli, rede, produtores>>
    BY <1>1 DEF vars
  <2>2. TypeOK'
    BY <1>1 DEF vars, Indutivo, TypeOK
  <2>3. \A c \in Clientes : /\ Prods(c)' = Prods(c) /\ (Tem(c)' <=> Tem(c))
                            /\ (Morto(c)' <=> Morto(c))
    BY <2>1 DEF Prods, Tem, LogoutDe, Aceite, EConta, Morto
  <2>4. InvSessao' /\ InvRespostas' /\ InvPosse' /\ InvAuth' /\ InvPresa'
    BY <2>1, <2>3 DEF Indutivo, InvSessao, InvRespostas, EConta, InvPosse, InvAuth,
                      InvPresa, Explica
  <2>5. InvPedidos'
    BY <2>1 DEF Indutivo, InvPedidos, PedidoCerto, Morto
  <2>6. InvSincronia'
    <3>. SUFFICES ASSUME NEW c \in Clientes PROVE Sincronia(c)'
      BY DEF InvSincronia
    <3>1. Sincronia(c)
      BY DEF Indutivo, InvSincronia
    <3>. QED
      BY <2>1, <2>3, <3>1 DEF Sincronia, SincAutentica, SincEspera, SincSaida, Calma,
                              Autenticada
  <2>. QED
    BY <2>2, <2>4, <2>5, <2>6 DEF Indutivo
<1>. QED
  BY <1>1, InvCliente, InvPassoSessao, InvLoop, InvProdutor DEF Next

-----------------------------------------------------------------------------
(* A client that said goodbye has no answer of a producer in its session's *)
(* mailbox: it asks for a logout only when it waits for nothing.           *)
ComResposta(c) == \E i \in DOMAIN caixa[c] : caixa[c][i].tag = "producer"
InvSaida == \A c \in Clientes : cli[c].pc \in {"sai", "fim"} => ~ ComResposta(c)

(* A message that is no answer of a producer is delivered.                 *)
LEMMA EntregaSemResposta ==
    ASSUME TypeOK, NEW c \in Clientes, NEW m \in Mensagens, m.tag # "producer",
           caixa' = Entrega(c, m)
    PROVE  \A d \in Clientes : ComResposta(d)' => ComResposta(d)
<1>. SUFFICES ASSUME NEW d \in Clientes, ComResposta(d)' PROVE ComResposta(d)
  OBVIOUS
<1>1. caixa[c] \in Seq(Mensagens)
  BY DEF TypeOK
<1>2. CASE d # c \/ ~ SessaoViva(c)
  <2>1. caixa'[d] = caixa[d]
    BY <1>2, EntregaProperties
  <2>. QED
    BY <2>1 DEF ComResposta
<1>3. CASE d = c /\ SessaoViva(c)
  <2>1. caixa'[c] = Append(caixa[c], m)
    BY <1>3, EntregaProperties
  <2>2. /\ Append(caixa[c], m) \in Seq(Mensagens)
        /\ Len(Append(caixa[c], m)) = Len(caixa[c]) + 1
        /\ \A i \in 1 .. Len(caixa[c]) : Append(caixa[c], m)[i] = caixa[c][i]
        /\ Append(caixa[c], m)[Len(caixa[c]) + 1] = m
    BY <1>1, AppendProperties
  <2>3. /\ DOMAIN caixa'[c] = 1 .. Len(caixa[c]) + 1
        /\ DOMAIN caixa[c] = 1 .. Len(caixa[c]) /\ Len(caixa[c]) \in Nat
    BY <1>1, <2>1, <2>2, LenProperties
  <2>4. \A i \in DOMAIN caixa'[c] : \/ caixa'[c][i] = m
                                    \/ i \in DOMAIN caixa[c] /\ caixa'[c][i] = caixa[c][i]
    BY <2>1, <2>2, <2>3
  <2>. QED
    BY <1>3, <2>4 DEF ComResposta
<1>. QED
  BY <1>2, <1>3

(* A step that takes messages out of a mailbox puts no answer in.          *)
LEMMA SaiSemResposta ==
    ASSUME TypeOK, NEW c \in Clientes,
           \/ caixa[c] # << >> /\ caixa' = [caixa EXCEPT ![c] = Tail(@)]
           \/ caixa' = [caixa EXCEPT ![c] = << >>]
           \/ \E n \in 1 .. Len(caixa[c]) : caixa' = [caixa EXCEPT ![c] = RemoveAt(@, n)]
    PROVE  \A d \in Clientes : ComResposta(d)' => ComResposta(d)
<1>1. /\ caixa[c] \in Seq(Mensagens)
      /\ \A d \in Clientes \ {c} : caixa'[d] = caixa[d]
  BY DEF TypeOK
<1>. SUFFICES ASSUME ComResposta(c)' PROVE ComResposta(c)
  BY <1>1 DEF ComResposta
<1>2. DOMAIN caixa[c] = 1 .. Len(caixa[c]) /\ Len(caixa[c]) \in Nat
  BY <1>1, LenProperties
<1>3. CASE caixa[c] # << >> /\ caixa'[c] = Tail(caixa[c])
  <2>1. \A i \in DOMAIN Tail(caixa[c]) : i + 1 \in DOMAIN caixa[c]
                                         /\ Tail(caixa[c])[i] = caixa[c][i + 1]
    BY <1>1, <1>3, CabecaSai
  <2>. QED
    BY <1>3, <2>1 DEF ComResposta
<1>4. CASE caixa'[c] = << >>
  BY <1>4 DEF ComResposta
<1>5. ASSUME NEW n \in 1 .. Len(caixa[c]), caixa'[c] = RemoveAt(caixa[c], n)
      PROVE  ComResposta(c)
  <2>1. /\ RemoveAt(caixa[c], n) \in Seq(Mensagens)
        /\ Len(RemoveAt(caixa[c], n)) = Len(caixa[c]) - 1
        /\ \A k \in 1 .. Len(caixa[c]) - 1 :
              RemoveAt(caixa[c], n)[k] = IF k < n THEN caixa[c][k] ELSE caixa[c][k + 1]
    BY <1>1, RemoveAtProperties
  <2>2. DOMAIN caixa'[c] = 1 .. Len(caixa[c]) - 1
    BY <1>5, <2>1, LenProperties
  <2>3. \A k \in DOMAIN caixa'[c] :
           \E j \in DOMAIN caixa[c] : caixa'[c][k] = caixa[c][j]
    <3>. SUFFICES ASSUME NEW k \in DOMAIN caixa'[c]
                  PROVE  \E j \in DOMAIN caixa[c] : caixa'[c][k] = caixa[c][j]
      OBVIOUS
    <3>1. k \in DOMAIN caixa[c] /\ k + 1 \in DOMAIN caixa[c]
      BY <1>2, <2>2
    <3>. QED
      BY <1>5, <2>1, <2>2, <3>1
  <2>. QED
    BY <2>3 DEF ComResposta
<1>6. \/ caixa[c] # << >> /\ caixa'[c] = Tail(caixa[c])
      \/ caixa'[c] = << >>
      \/ \E n \in 1 .. Len(caixa[c]) : caixa'[c] = RemoveAt(caixa[c], n)
  BY DEF TypeOK
<1>. QED
  BY <1>3, <1>4, <1>5, <1>6

(* Every step preserves it.                                                *)
LEMMA InvSaidaPasso == ASSUME Indutivo, InvSaida, [Next]_vars PROVE InvSaida'
<1>. USE DEF Indutivo
<1>0. \A c \in Clientes : cli[c] \in TipoCliente
  BY DEF TypeOK
<1>1. ASSUME \A d \in Clientes : ComResposta(d)' => ComResposta(d),
             \A d \in Clientes : cli'[d].pc \in {"sai", "fim"} =>
                                    cli[d].pc \in {"sai", "fim", "menu"}
      PROVE  InvSaida'
  <2>. SUFFICES ASSUME NEW d \in Clientes, cli'[d].pc \in {"sai", "fim"}, ComResposta(d)
                PROVE  FALSE
    BY <1>1 DEF InvSaida
  <2>1. CASE cli[d].pc \in {"sai", "fim"}
    BY <2>1 DEF InvSaida
  <2>2. CASE cli[d].pc = "menu"
    BY <2>2 DEF InvSincronia, Sincronia, ComResposta
  <2>. QED
    BY <1>1, <2>1, <2>2
<1>2. ASSUME caixa' = caixa
      PROVE  \A d \in Clientes : ComResposta(d)' => ComResposta(d)
  BY <1>2 DEF ComResposta
<1>3. ASSUME cli' = cli
      PROVE  \A d \in Clientes : cli'[d].pc \in {"sai", "fim"} =>
                                    cli[d].pc \in {"sai", "fim", "menu"}
  BY <1>3
<1>4. CASE UNCHANGED vars
  BY <1>1, <1>2, <1>3, <1>4 DEF vars
<1>5. ASSUME NEW c \in Clientes, Cliente(c) \/ ClienteLe(c) PROVE InvSaida'
  <2>1. \A d \in Clientes : cli'[d].pc \in {"sai", "fim"} =>
                               cli[d].pc \in {"sai", "fim", "menu"}
    <3>1. \A d \in Clientes \ {c} : cli'[d] = cli[d]
      BY <1>5 DEF TypeOK, Cliente, ClienteLe, Liga, Autentica, Pede, Logout, Morre,
                  LeAuthRep, LeReply, Fecha
    <3>2. cli'[c].pc \in {"sai", "fim"} => cli[c].pc \in {"menu", "sai"}
      <4>1. CASE Liga(c)
        BY <4>1, <1>0 DEF TypeOK, Liga, TipoCliente
      <4>2. CASE \E u \in Contas, certa \in BOOLEAN : Autentica(c, u, certa)
        BY <4>2, <1>0 DEF TypeOK, Autentica, TipoCliente
      <4>3. CASE \E tipo \in {"leilao", "emissao", "licitar", "emprestimo"},
                    e \in Nomes : Pede(c, tipo, e)
        BY <4>3 DEF Pede
      <4>4. CASE Morre(c)
        BY <4>4, <1>0 DEF TypeOK, Morre, TipoCliente
      <4>5. CASE LeAuthRep(c)
        BY <4>5, <1>0 DEF TypeOK, LeAuthRep, TipoCliente
      <4>6. CASE LeReply(c) \/ Logout(c) \/ Fecha(c)
        BY <4>6, <1>0 DEF TypeOK, LeReply, Logout, Fecha, TipoCliente
      <4>. QED
        BY <1>5, <4>1, <4>2, <4>3, <4>4, <4>5, <4>6 DEF Cliente, ClienteLe
    <3>. QED
      BY <3>1, <3>2
  <2>2. \/ caixa' = caixa
        \/ \E m \in Mensagens : m.tag # "producer" /\ caixa' = Entrega(c, m)
    <3>1. \A u \in Contas, certa \in BOOLEAN :
             Auth(u, certa) \in Mensagens /\ Auth(u, certa).tag # "producer"
      BY DEF Auth, Mensagens
    <3>2. TcpClosed \in Mensagens /\ TcpClosed.tag # "producer"
      BY DEF TcpClosed, Mensagens
    <3>3. Saida \in Mensagens /\ Saida.tag # "producer"
      BY DEF Saida, Mensagem, Mensagens
    <3>4. ASSUME NEW tipo \in {"leilao", "emissao", "licitar", "emprestimo"},
                 NEW e \in Nomes, Pede(c, tipo, e)
          PROVE  /\ Mensagem(tipo, e, pedidos + 1) \in Mensagens
                 /\ Mensagem(tipo, e, pedidos + 1).tag # "producer"
                 /\ caixa' = Entrega(c, Mensagem(tipo, e, pedidos + 1))
      <4>1. pedidos + 1 \in 1 .. MaxPedidos
        BY <3>4, FrontendAssumption DEF Pede, TypeOK
      <4>. QED
        BY <3>4, <4>1 DEF Pede, Mensagem, Mensagens
    <3>5. CASE Liga(c) \/ LeAuthRep(c) \/ LeReply(c)
      BY <3>5 DEF Liga, LeAuthRep, LeReply
    <3>6. CASE Logout(c)
      BY <3>3, <3>6 DEF Logout, Saida
    <3>7. CASE Fecha(c) \/ Morre(c)
      BY <3>2, <3>7 DEF Fecha, Morre
    <3>8. CASE \E u \in Contas, certa \in BOOLEAN : Autentica(c, u, certa)
      BY <3>1, <3>8 DEF Autentica
    <3>. QED
      BY <1>5, <3>4, <3>5, <3>6, <3>7, <3>8 DEF Cliente, ClienteLe
  <2>. QED
    BY <1>1, <1>2, <2>1, <2>2, EntregaSemResposta
<1>6. ASSUME NEW c \in Clientes, Sessao(c) PROVE InvSaida'
  <2>1. cli' = cli
    BY <1>6 DEF Sessao, RecebeAuthReq, SessaoErro, LoginResponde, RecebeMensagem,
                RecebeLogout, LogoutResponde, RecebeResposta
  <2>2. \/ caixa[c] # << >> /\ caixa' = [caixa EXCEPT ![c] = Tail(@)]
        \/ caixa' = [caixa EXCEPT ![c] = << >>]
        \/ \E n \in 1 .. Len(caixa[c]) : caixa' = [caixa EXCEPT ![c] = RemoveAt(@, n)]
    <3>1. CASE RecebeMensagem(c) \/ RecebeLogout(c) \/ RecebeResposta(c)
      <4>1. /\ Primeira(c) # 0
            /\ caixa' = [caixa EXCEPT ![c] = RemoveAt(@, Primeira(c))]
        BY <3>1 DEF RecebeMensagem, RecebeLogout, RecebeResposta, Recebe
      <4>2. Primeira(c) \in 1 .. Len(caixa[c])
        BY <4>1, PrimeiraProperties
      <4>. QED
        BY <4>1, <4>2
    <3>2. CASE RecebeAuthReq(c) \/ SessaoErro(c) \/ LoginResponde(c) \/ LogoutResponde(c)
      BY <3>2 DEF RecebeAuthReq, SessaoErro, LoginResponde, LogoutResponde
    <3>. QED
      BY <1>6, <3>1, <3>2 DEF Sessao
  <2>. QED
    BY <1>1, <1>3, <2>1, <2>2, SaiSemResposta
<1>7. CASE loop
  <2>. DEFINE m  == Head(pedidosAM)
              ok == IF m.op = "login" THEN m.certa /\ ~ contas[m.u] ELSE contas[m.u]
              n  == IF ok THEN Tipo(m.u) ELSE 0
  <2>1. caixa' = Entrega(m.de, Conta(n)) /\ cli' = cli
    BY <1>7 DEF loop
  <2>2. m \in TipoPedido
    BY <1>7, HeadTailProperties DEF loop, TypeOK
  <2>3. n \in 0 .. 2
    BY DEF Tipo
  <2>. HIDE DEF n, m
  <2>4. Conta(n) \in Mensagens /\ Conta(n).tag # "producer" /\ m.de \in Clientes
    BY <2>2, <2>3 DEF Conta, Mensagens, TipoPedido
  <2>5. \A d \in Clientes : ComResposta(d)' => ComResposta(d)
    BY <2>1, <2>4, EntregaSemResposta
  <2>. QED
    BY <1>1, <1>3, <2>1, <2>5
<1>8. ASSUME NEW r \in produtores, Produtor(r) PROVE InvSaida'
  <2>1. /\ cli' = cli
        /\ caixa' = caixa \/ caixa' = Entrega(r.c, Resposta(r.ref))
    BY <1>8 DEF Produtor, ProdutorArranca, ServidorAtende, ProdutorResponde
  <2>2. r \in TipoProdutor
    BY DEF TypeOK
  <2>3. r.c \in Clientes /\ r \in Prods(r.c) /\ Resposta(r.ref) \in Mensagens
    BY <2>2 DEF TipoProdutor, Prods, Resposta, Mensagens
  <2>4. cli[r.c].pc \notin {"sai", "fim"}
    BY <2>3 DEF InvSincronia, Sincronia, SincSaida, Calma
  <2>5. \A d \in Clientes \ {r.c} : caixa'[d] = caixa[d]
    BY <2>1, <2>3, EntregaProperties
  <2>. QED
    BY <2>1, <2>4, <2>5 DEF InvSaida, ComResposta
<1>. QED
  BY <1>4, <1>5, <1>6, <1>7, <1>8 DEF Next

-----------------------------------------------------------------------------
(* What the invariant says of the properties.                              *)

(* The sessions that are active on an account have it: there is one.       *)
LEMMA PosseImplicaUmaSessao == Indutivo => ContaDeUmaSessao
<1>. SUFFICES ASSUME Indutivo, NEW u \in Contas,
                     NEW donas, donas = {c \in Clientes : sess[c].pc = "ativa" /\ sess[c].u = u}
              PROVE  Cardinality(donas) <= 1 /\ (donas # {} => contas[u])
  BY DEF ContaDeUmaSessao
<1>1. \A c \in donas : c \in Clientes /\ Tem(c) /\ sess[c].u = u
  BY DEF Tem
<1>2. \A c, d \in donas : c = d
  BY <1>1 DEF Indutivo, InvPosse
<1>3. donas # {} => contas[u]
  BY <1>1 DEF Indutivo, InvPosse
<1>4. CASE donas = {}
  BY <1>4, FS_EmptySet
<1>5. CASE donas # {}
  <2>1. PICK c : donas = {c}
    BY <1>2, <1>5
  <2>2. Cardinality(donas) = 1
    BY <2>1, FS_Singleton
  <2>. QED
    BY <1>3, <2>2
<1>. QED
  BY <1>3, <1>4, <1>5

(* Whoever explains a locked account is dead, can log out, or has a logout *)
(* on its way.                                                             *)
LEMMA PosseImplicaPresa == Indutivo => ContaPresaExplicada
<1>. SUFFICES ASSUME Indutivo, NEW u \in Contas, contas[u]
              PROVE
        \/ \E c \in Clientes : cli[c].u = u /\ Morto(c)
        \/ \E c \in Clientes : cli[c].u = u /\ cli[c].pc \in {"autentica", "menu", "espera"}
                               /\ sess[c].pc \in {"login", "ativa"}
        \/ \E c \in Clientes : cli[c].u = u /\ cli[c].pc \in {"sai", "fim"}
                               /\ (sess[c].pc = "ativa" \/
                                   \E i \in DOMAIN pedidosAM :
                                       pedidosAM[i].op = "logout" /\ pedidosAM[i].u = u)
  BY DEF ContaPresaExplicada
<1>. USE DEF Indutivo
<1>1. PICK c \in Clientes : Explica(c, u)
  BY DEF InvPresa
<1>2. cli[c].u = u /\ (Morto(c) \/ Tem(c)) /\ Sincronia(c)
  BY <1>1 DEF Explica, InvSincronia
<1>3. LogoutDe(c) => /\ sess[c].pc \in {"logout", "fim"}
                     /\ \E i \in DOMAIN pedidosAM :
                           pedidosAM[i].op = "logout" /\ pedidosAM[i].u = sess[c].u
  BY DEF LogoutDe, InvPedidos, PedidoCerto
<1>4. CASE Morto(c)
  BY <1>2, <1>4
<1>5. CASE cli[c].pc \in {"nada", "entrada"}
  BY <1>2, <1>3, <1>5 DEF Sincronia, Tem, Morto
<1>6. CASE cli[c].pc \in {"autentica", "menu", "espera"}
  <2>1. sess[c].pc \notin {"logout", "fim"}
    BY <1>2, <1>6 DEF Sincronia, SincAutentica, SincEspera, Autenticada
  <2>. QED
    BY <1>2, <1>3, <1>6, <2>1 DEF Tem, Morto
<1>7. CASE cli[c].pc \in {"sai", "fim"}
  <2>1. sess[c].u = u /\ sess[c].pc \in {"ativa", "logout", "fim"}
    BY <1>2, <1>7 DEF Sincronia, SincSaida
  <2>2. sess[c].pc = "ativa" \/ LogoutDe(c)
    BY <1>2, <1>7, <2>1 DEF Tem, Morto
  <2>. QED
    BY <1>2, <1>3, <1>7, <2>1, <2>2
<1>8. cli[c].pc \in {"nada", "entrada", "autentica", "menu", "espera", "sai", "fim",
                     "morto", "pendurado"}
  BY DEF TypeOK, TipoCliente
<1>. QED
  BY <1>4, <1>5, <1>6, <1>7, <1>8 DEF Morto

(* One answer at most is on its way, wherever it is.                       *)
LEMMA UmaResposta ==
    ASSUME NEW c \in Clientes, NEW x,
           \/ Calma(c) /\ ~ ComResposta(c)
           \/ Calma(c) /\ caixa[c] = <<Resposta(x)>>
           \/ Prods(c) = {} /\ ~ ComResposta(c) /\ \E n : rede[c] = <<[tipo |-> n, ref |-> x]>>
           \/ /\ rede[c] = << >> /\ ~ ComResposta(c)
              /\ \E r \in produtores : Prods(c) = {r} /\ r.ref = x
    PROVE  /\ ACaminho(c) <= 1 /\ Refs(c) \subseteq {x}
           /\ Calma(c) /\ ~ ComResposta(c) => ACaminho(c) = 0
<1>. DEFINE R == {i \in DOMAIN caixa[c] : caixa[c][i].tag = "producer"}
<1>1. /\ ACaminho(c) = Len(rede[c]) + Cardinality(R) + Cardinality(Prods(c))
      /\ Refs(c) = {rede[c][i].ref : i \in DOMAIN rede[c]}
                   \cup {caixa[c][i].ref : i \in R} \cup {r.ref : r \in Prods(c)}
  BY DEF ACaminho, Refs, Prods
<1>2. ~ ComResposta(c) => R = {}
  BY DEF ComResposta
<1>3. Cardinality({}) = 0 /\ \A y : Cardinality({y}) = 1
  BY FS_EmptySet, FS_Singleton
<1>4. Len(<< >>) = 0 /\ DOMAIN << >> = {}
  OBVIOUS
<1>5. CASE Calma(c) /\ ~ ComResposta(c)
  <2>1. rede[c] = << >> /\ Prods(c) = {} /\ R = {}
    BY <1>2, <1>5 DEF Calma
  <2>. HIDE DEF R
  <2>2. ACaminho(c) = 0
    BY <1>1, <1>3, <1>4, <2>1
  <2>3. Refs(c) = {}
    BY <1>1, <1>4, <2>1
  <2>. QED
    BY <2>2, <2>3
<1>6. CASE Calma(c) /\ caixa[c] = <<Resposta(x)>>
  <2>1. /\ rede[c] = << >> /\ Prods(c) = {}
        /\ DOMAIN caixa[c] = {1} /\ caixa[c][1] = Resposta(x)
    BY <1>6, SequenciasCurtas DEF Calma
  <2>2. Resposta(x).tag = "producer" /\ Resposta(x).ref = x
    BY DEF Resposta
  <2>3. R = {1}
    BY <2>1, <2>2
  <2>4. ComResposta(c)
    BY <2>1, <2>2 DEF ComResposta
  <2>. HIDE DEF R
  <2>5. ACaminho(c) = 1
    <3>1. Cardinality(R) = 1 /\ Cardinality(Prods(c)) = 0 /\ Len(rede[c]) = 0
      BY <1>3, <1>4, <2>1, <2>3
    <3>. QED
      BY <1>1, <3>1
  <2>6. Refs(c) \subseteq {x}
    BY <1>1, <1>4, <2>1, <2>2, <2>3
  <2>. QED
    BY <2>4, <2>5, <2>6
<1>7. ASSUME Prods(c) = {}, ~ ComResposta(c), NEW n, rede[c] = <<[tipo |-> n, ref |-> x]>>
      PROVE  ACaminho(c) = 1 /\ Refs(c) \subseteq {x} /\ ~ Calma(c)
  <2>1. R = {} /\ Len(rede[c]) = 1 /\ DOMAIN rede[c] = {1} /\ rede[c][1].ref = x
    BY <1>2, <1>7, SequenciasCurtas
  <2>2. rede[c] # << >>
    BY <1>7, SequenciasCurtas
  <2>. HIDE DEF R
  <2>3. ACaminho(c) = 1
    BY <1>1, <1>3, <1>7, <2>1
  <2>. QED
    BY <1>1, <1>7, <2>1, <2>2, <2>3 DEF Calma
<1>8. ASSUME rede[c] = << >>, ~ ComResposta(c), NEW r \in produtores, Prods(c) = {r},
             r.ref = x
      PROVE  ACaminho(c) = 1 /\ Refs(c) \subseteq {x} /\ ~ Calma(c)
  <2>1. R = {} /\ Prods(c) # {}
    BY <1>2, <1>8
  <2>. HIDE DEF R
  <2>2. ACaminho(c) = 1
    <3>1. Cardinality(R) = 0 /\ Cardinality(Prods(c)) = 1 /\ Len(rede[c]) = 0
      BY <1>3, <1>4, <1>8, <2>1
    <3>. QED
      BY <1>1, <3>1
  <2>. QED
    BY <1>1, <1>4, <1>8, <2>1, <2>2 DEF Calma
<1>9. CASE Prods(c) = {} /\ ~ ComResposta(c) /\ \E n : rede[c] = <<[tipo |-> n, ref |-> x]>>
  <2>1. ACaminho(c) = 1 /\ Refs(c) \subseteq {x} /\ ~ Calma(c)
    BY <1>7, <1>9
  <2>. QED
    BY <2>1
<1>10. CASE /\ rede[c] = << >> /\ ~ ComResposta(c)
            /\ \E r \in produtores : Prods(c) = {r} /\ r.ref = x
  <2>1. ACaminho(c) = 1 /\ Refs(c) \subseteq {x} /\ ~ Calma(c)
    BY <1>8, <1>10
  <2>. QED
    BY <2>1
<1>. QED
  BY <1>5, <1>6, <1>9, <1>10

(* Where a client waits, what is on its way is what it waits for.          *)
LEMMA SincroniaImplicaResposta == Indutivo /\ InvSaida => RespostaCerta
<1>. SUFFICES ASSUME Indutivo, InvSaida, NEW c \in Clientes
              PROVE  /\ cli[c].pc \in {"entrada", "menu", "sai"} => ACaminho(c) = 0
                     /\ cli[c].pc = "autentica" => ACaminho(c) <= 1 /\ Refs(c) \subseteq {0}
                     /\ cli[c].pc = "espera" =>
                           ACaminho(c) <= 1 /\ Refs(c) \subseteq {cli[c].ref}
  BY DEF RespostaCerta
<1>1. Sincronia(c)
  BY DEF Indutivo, InvSincronia
<1>2. caixa[c] = << >> => ~ ComResposta(c)
  BY DEF ComResposta
<1>3. \A m : caixa[c] = <<m>> /\ m.tag # "producer" => ~ ComResposta(c)
  BY SequenciasCurtas DEF ComResposta
<1>4. ASSUME cli[c].pc \in {"entrada", "menu", "sai"} PROVE ACaminho(c) = 0
  <2>1. Calma(c)
    BY <1>1, <1>4 DEF Sincronia, SincSaida
  <2>2. ~ ComResposta(c)
    BY <1>1, <1>2, <1>4 DEF Sincronia, InvSaida
  <2>. QED
    BY <2>1, <2>2, UmaResposta
<1>5. ASSUME cli[c].pc = "autentica" PROVE ACaminho(c) <= 1 /\ Refs(c) \subseteq {0}
  <2>1. SincAutentica(c)
    BY <1>1, <1>5 DEF Sincronia
  <2>2. ~ ComResposta(c)
    <3>1. \A u, certa : Auth(u, certa).tag # "producer"
      BY DEF Auth
    <3>2. \A n : Conta(n).tag # "producer"
      BY DEF Conta
    <3>. QED
      BY <1>2, <1>3, <2>1, <3>1, <3>2 DEF SincAutentica
  <2>3. Calma(c) \/ (Prods(c) = {} /\ \E n : rede[c] = <<[tipo |-> n, ref |-> 0]>>)
    <3>1. /\ Prods(c) = {}
          /\ rede[c] = << >> \/ \E n \in 0 .. 2 : rede[c] = <<[tipo |-> n, ref |-> 0]>>
      BY <2>1 DEF SincAutentica
    <3>2. CASE rede[c] = << >>
      BY <3>1, <3>2 DEF Calma
    <3>3. CASE rede[c] # << >>
      <4>1. PICK n \in 0 .. 2 : rede[c] = <<[tipo |-> n, ref |-> 0]>>
        BY <3>1, <3>3
      <4>. QED
        BY <3>1, <4>1
    <3>. QED
      BY <3>2, <3>3
  <2>. QED
    BY <2>2, <2>3, UmaResposta
<1>6. ASSUME cli[c].pc = "espera"
      PROVE  ACaminho(c) <= 1 /\ Refs(c) \subseteq {cli[c].ref}
  <2>1. SincEspera(c)
    BY <1>1, <1>6 DEF Sincronia
  <2>2. \A t, e : Mensagem(t, e, cli[c].ref).tag # "producer"
    BY DEF Mensagem
  <2>3. \/ Calma(c) /\ ~ ComResposta(c)
        \/ Calma(c) /\ caixa[c] = <<Resposta(cli[c].ref)>>
        \/ /\ Prods(c) = {} /\ ~ ComResposta(c)
           /\ \E n : rede[c] = <<[tipo |-> n, ref |-> cli[c].ref]>>
        \/ /\ rede[c] = << >> /\ ~ ComResposta(c)
           /\ \E r \in produtores : Prods(c) = {r} /\ r.ref = cli[c].ref
    BY <1>2, <1>3, <2>1, <2>2 DEF SincEspera
  <2>. QED
    BY <2>3, UmaResposta
<1>. QED
  BY <1>4, <1>5, <1>6

-----------------------------------------------------------------------------
(* The results.                                                            *)

(* The invariant holds in every reachable state.                           *)
LEMMA SempreIndutivo == Spec => [](Indutivo /\ InvSaida)
<1>1. Init => Indutivo /\ InvSaida
  <2>1. Init => InvSaida
    BY DEF Init, InvSaida, ComResposta
  <2>. QED
    BY <2>1, InvInit
<1>2. Indutivo /\ InvSaida /\ [Next]_vars => (Indutivo /\ InvSaida)'
  BY InvPasso, InvSaidaPasso
<1>. QED
  BY <1>1, <1>2, PTL DEF Spec

(* The front-end's state is always well-typed: every mailbox holds only    *)
(* messages its process knows.                                             *)
THEOREM TiposCorretos == Spec => []TypeOK
<1>1. Indutivo => TypeOK
  BY DEF Indutivo
<1>. QED
  BY <1>1, SempreIndutivo, PTL

(* accountManager's flag gives an account to one session at a time, for    *)
(* any number of clients whose logins, logouts and lost connections cross. *)
THEOREM UmaSessaoPorConta == Spec => []ContaDeUmaSessao
BY PosseImplicaUmaSessao, SempreIndutivo, PTL

(* An account stays locked only because a client died without logging out, *)
(* can still log out, or has its logout on the way.                        *)
THEOREM ContasPresasExplicadas == Spec => []ContaPresaExplicada
BY PosseImplicaPresa, SempreIndutivo, PTL

(* No Reply, which carries no identifier, reaches a client that waits for  *)
(* another: one at most is on its way, and it is for the last request.     *)
THEOREM RespostasCertas == Spec => []RespostaCerta
BY SincroniaImplicaResposta, SempreIndutivo, PTL
=============================================================================
