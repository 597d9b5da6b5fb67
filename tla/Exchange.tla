------------------------------ MODULE Exchange ------------------------------
(***************************************************************************)
(* One exchange server (java_src/Exchange): the thread that answers the    *)
(* requests arriving on the REP socket, and the threads TerminaLeilao and  *)
(* TerminaEmissao it starts, one per auction and per fixed-rate issue,     *)
(* which sleep 60 s and then close it.  They share, without any lock, the  *)
(* maps of open auctions and issues, the histories of each company and the *)
(* unsynchronised lists of bids; a step below is one access to that shared *)
(* state, or several that no other thread can come between to any effect,  *)
(* with the thread-local work around it.                                   *)
(*                                                                         *)
(* Java objects live in heaps.  obj[i] is the i-th auction or issue built; *)
(* its index is its creation time (field  data ).  fio[i] is the closing   *)
(* thread started for obj[i].  licitacao[b] is the b-th bid built.         *)
(* Sleeping is untimed: a thread may wake at any moment.                   *)
(***************************************************************************)
EXTENDS Licitacoes, Somas

CONSTANTS
    Empresas,    \* companies in the map  empresas  of this server
    Nomes,       \* company names that requests reaching this server may carry
    Mensagens,   \* requests the front-end may deliver
    SemPedido,   \* no request being handled
    MaxObj,      \* bound: auctions and issues ever created
    MaxLic       \* bound: bids ever created

TiposMensagem == {"licitar", "emprestimo", "leilao", "emissao", "outro"}

ASSUME ExchangeAssumption ==
    /\ Empresas \subseteq Nomes
    /\ Nomes # {}
    /\ Mensagens \subseteq [tipo : TiposMensagem, empresa : Nomes,
                            quantia : Int, juro : Int]
    /\ SemPedido \notin Mensagens
    /\ MaxObj \in Nat
    /\ MaxLic \in Nat

Nulo == 0
Objs == 1 .. MaxObj
Lics == 1 .. MaxLic
Refs == {Nulo} \cup Objs

VARIABLES
    obj, nObj,            \* heap of Leilao and Emissao objects, and its size
    licitacao, nLic,      \* heap of Licitacao objects, and its size
    leiloes, emissoes,    \* ConcurrentHashMaps: the open auction, issue of a name
    historicoLeiloes,     \* Empresa.historicoLeiloes: the closed auctions
    historicoEmissoes,    \* Empresa.historicoEmissoes: the closed issues
    srv,                  \* the server thread: program counter and locals
    fio                   \* the closing threads: program counters and locals

mapas == <<leiloes, emissoes>>
historicos == <<historicoLeiloes, historicoEmissoes>>
heaps == <<obj, nObj, licitacao, nLic>>
vars == <<heaps, mapas, historicos, srv, fio>>

Objeto(tipo, empresa, taxa, montante) ==
    [tipo |-> tipo, empresa |-> empresa, taxa |-> taxa, montante |-> montante,
     sucesso |-> FALSE, licitacoes |-> <<>>]

Leilao(empresa, taxaMaxima, montante) ==
    Objeto("leilao", empresa, taxaMaxima, montante)

Emissao(empresa, taxa, montante) == Objeto("emissao", empresa, taxa, montante)

\* aTempo is auxiliary: the bid was appended while its target was still open.
Licitacao(alvo, taxa, quantia, aTempo) ==
    [alvo |-> alvo, taxa |-> taxa, quantia |-> quantia, aTempo |-> aTempo]

PorCriar == Objeto("nenhum", CHOOSE n \in Nomes : TRUE, 0, 0)

Ocioso == [pc |-> "recv", pedido |-> SemPedido, alvo |-> Nulo, ultimo |-> Nulo,
           lido |-> Nulo, taxa |-> 0, idL |-> 0, id |-> 0]

PorIniciar == [pc |-> "nenhum", idL |-> 0, alvo |-> Nulo, n |-> 0,
               lista |-> FALSE]

Init ==
    /\ obj = [i \in Objs |-> PorCriar] /\ nObj = 0
    /\ licitacao = [b \in Lics |-> Licitacao(Nulo, 0, 0, FALSE)] /\ nLic = 0
    /\ leiloes = [e \in Nomes |-> Nulo]
    /\ emissoes = [e \in Nomes |-> Nulo]
    /\ historicoLeiloes = [e \in Empresas |-> <<>>]
    /\ historicoEmissoes = [e \in Empresas |-> <<>>]
    /\ srv = Ocioso
    /\ fio = [i \in Objs |-> PorIniciar]

Ultimo(s) == s[Len(s)]

-----------------------------------------------------------------------------
(* The server thread.                                                      *)

\* A request arrives.  The two bounds of the model are enforced here, since
\* only this thread creates objects.
Recebe(m) ==
    /\ srv.pc = "recv"
    /\ m.tipo \in {"leilao", "emissao"} => nObj < MaxObj
    /\ m.tipo \in {"licitar", "emprestimo"} => nLic < MaxLic
    /\ srv' = [srv EXCEPT !.pc = "despacha", !.pedido = m]
    /\ UNCHANGED <<heaps, mapas, historicos, fio>>

AceitaLicitar(m) ==
    /\ m.tipo = "licitar"
    /\ leiloes[m.empresa] # Nulo
    /\ m.juro < obj[leiloes[m.empresa]].taxa
    /\ m.quantia % 100 = 0

AceitaEmprestimo(m) ==
    /\ m.tipo = "emprestimo"
    /\ emissoes[m.empresa] # Nulo
    /\ m.quantia % 100 = 0

\* Mutant of AceitaLeilao: an open auction is not looked for.
AceitaLeilaoSempre(m) == m.tipo = "leilao" /\ m.quantia % 1000 = 0

AceitaLeilao(m) ==
    /\ m.tipo = "leilao"
    /\ leiloes[m.empresa] = Nulo
    /\ m.quantia % 1000 = 0

AceitaEmissao(m) ==
    /\ m.tipo = "emissao"
    /\ m.empresa \in Empresas
    /\ historicoLeiloes[m.empresa] # <<>>
    /\ obj[Ultimo(historicoLeiloes[m.empresa])].sucesso
    /\ m.quantia % 1000 = 0

\* Mutant of Recusa: a request of an unknown type is not answered.
RecusaConhecidos ==
    /\ srv.pc = "despacha"
    /\ srv.pedido.tipo # "outro"
    /\ ~ AceitaLicitar(srv.pedido)
    /\ ~ AceitaEmprestimo(srv.pedido)
    /\ ~ AceitaLeilao(srv.pedido)
    /\ ~ AceitaEmissao(srv.pedido)
    /\ srv' = Ocioso
    /\ UNCHANGED <<heaps, mapas, historicos, fio>>

\* Every request no handler accepts is answered with sucesso = false, as is a
\* request of an unknown type.
Recusa ==
    /\ srv.pc = "despacha"
    /\ ~ AceitaLicitar(srv.pedido)
    /\ ~ AceitaEmprestimo(srv.pedido)
    /\ ~ AceitaLeilao(srv.pedido)
    /\ ~ AceitaEmissao(srv.pedido)
    /\ srv' = Ocioso
    /\ UNCHANGED <<heaps, mapas, historicos, fio>>

\* licitar(): the open auction is looked up and the request validated.
licitar ==
    /\ srv.pc = "despacha" /\ AceitaLicitar(srv.pedido)
    /\ srv' = [srv EXCEPT !.pc = "add", !.alvo = leiloes[srv.pedido.empresa]]
    /\ UNCHANGED <<heaps, mapas, historicos, fio>>

\* emprestimo(): the open issue is looked up and the request validated.
emprestimo ==
    /\ srv.pc = "despacha" /\ AceitaEmprestimo(srv.pedido)
    /\ srv' = [srv EXCEPT !.pc = "add", !.alvo = emissoes[srv.pedido.empresa]]
    /\ UNCHANGED <<heaps, mapas, historicos, fio>>

\* The bid is built and appended to the list of the object found before, which
\* a closing thread may have taken out of its map in the meantime.
AdicionaLicitacao ==
    /\ srv.pc = "add"
    /\ LET a == srv.alvo
           aberto == a \in {leiloes[srv.pedido.empresa],
                            emissoes[srv.pedido.empresa]}
           taxa == IF obj[a].tipo = "leilao" THEN srv.pedido.juro ELSE 0
       IN  /\ nLic' = nLic + 1
           /\ licitacao' = [licitacao EXCEPT ![nLic + 1] =
                               Licitacao(a, taxa, srv.pedido.quantia, aberto)]
           /\ obj' = [obj EXCEPT ![a].licitacoes = Append(@, nLic + 1)]
    /\ srv' = [srv EXCEPT !.pc = "publica"]
    /\ UNCHANGED <<nObj, mapas, historicos, fio>>

\* Mutant of LeIndices: the index of the last closed auction (issue) is taken.
LeIndicesDoAnterior ==
    /\ srv.pc = "ids"
    /\ srv' = [srv EXCEPT !.pc = "post",
                  !.idL = IF obj[srv.alvo].tipo = "leilao"
                          THEN Len(historicoLeiloes[srv.pedido.empresa]) - 1
                          ELSE Len(historicoEmissoes[srv.pedido.empresa]) - 1,
                  !.id = Len(obj[srv.alvo].licitacoes) - 1]
    /\ UNCHANGED <<heaps, mapas, historicos, fio>>

\* The arguments of postDiretorioInvestidor: how many auctions (issues) the
\* company has closed, and the position of the bid in the list.
LeIndices ==
    /\ srv.pc = "ids"
    /\ srv' = [srv EXCEPT !.pc = "post",
                  !.idL = IF obj[srv.alvo].tipo = "leilao"
                          THEN Len(historicoLeiloes[srv.pedido.empresa])
                          ELSE Len(historicoEmissoes[srv.pedido.empresa]),
                  !.id = Len(obj[srv.alvo].licitacoes) - 1]
    /\ UNCHANGED <<heaps, mapas, historicos, fio>>

\* Mutant of leilao: the map is written last, after the company was looked up.
leilaoPorUltimo ==
    /\ srv.pc = "despacha" /\ AceitaLeilao(srv.pedido)
    /\ nObj' = nObj + 1
    /\ obj' = [obj EXCEPT ![nObj + 1] =
                 Leilao(srv.pedido.empresa, srv.pedido.juro, srv.pedido.quantia)]
    /\ leiloes' = IF srv.pedido.empresa \in Empresas
                  THEN [leiloes EXCEPT ![srv.pedido.empresa] = nObj + 1]
                  ELSE leiloes
    /\ srv' = [srv EXCEPT !.pc = "inicia", !.alvo = nObj + 1]
    /\ UNCHANGED <<licitacao, nLic, emissoes, historicos, fio>>

\* leilao(): no open auction is found, one is built and put in the map.
leilao ==
    /\ srv.pc = "despacha" /\ AceitaLeilao(srv.pedido)
    /\ nObj' = nObj + 1
    /\ obj' = [obj EXCEPT ![nObj + 1] =
                 Leilao(srv.pedido.empresa, srv.pedido.juro, srv.pedido.quantia)]
    /\ leiloes' = [leiloes EXCEPT ![srv.pedido.empresa] = nObj + 1]
    /\ srv' = [srv EXCEPT !.pc = "inicia", !.alvo = nObj + 1]
    /\ UNCHANGED <<licitacao, nLic, emissoes, historicos, fio>>

\* The auction's index is read off the history and its closing thread started.
IniciaTerminaLeilao ==
    /\ srv.pc = "inicia" /\ srv.pedido.empresa \in Empresas
    /\ LET idL == Len(historicoLeiloes[srv.pedido.empresa])
       IN  /\ fio' = [fio EXCEPT ![srv.alvo] =
                         [PorIniciar EXCEPT !.pc = "dorme", !.idL = idL]]
           /\ srv' = [srv EXCEPT !.pc = "publica", !.idL = idL]
    /\ UNCHANGED <<heaps, mapas, historicos>>

\* empresas.get(empresa) is null for a company of another server: the
\* NullPointerException is not caught and ends the server thread.
EmpresaDesconhecida ==
    /\ srv.pc = "inicia" /\ srv.pedido.empresa \notin Empresas
    /\ srv' = [Ocioso EXCEPT !.pc = "morto"]
    /\ UNCHANGED <<heaps, mapas, historicos, fio>>

\* emissao(): the last closed auction exists and succeeded.
emissao ==
    /\ srv.pc = "despacha" /\ AceitaEmissao(srv.pedido)
    /\ srv' = [srv EXCEPT !.pc = "taxaLeilao",
                  !.ultimo = Ultimo(historicoLeiloes[srv.pedido.empresa])]
    /\ UNCHANGED <<heaps, mapas, historicos, fio>>

\* taxaEmissao() reads the last closed auction again ...
LeUltimoLeilao ==
    /\ srv.pc = "taxaLeilao"
    /\ srv' = [srv EXCEPT !.pc = "taxaEmissao",
                  !.lido = Ultimo(historicoLeiloes[srv.pedido.empresa])]
    /\ UNCHANGED <<heaps, mapas, historicos, fio>>

\* Mutant of TaxaEmissao: a company without closed issues is not thought of.
TaxaEmissaoIncompleta(l, emissoesFechadas) ==
    LET e == Ultimo(emissoesFechadas)
    IN  IF emissoesFechadas = <<>> THEN {0}
        ELSE IF l > e /\ obj[l].sucesso
        THEN TaxaLicitacaoMaxima(obj[l].licitacoes, licitacao)
        ELSE IF obj[e].sucesso THEN {obj[e].taxa}
        ELSE {(obj[e].taxa * 11) \div 10}

\* ... and computes the rate from it and from the last closed issue.
TaxaEmissao(l, emissoesFechadas) ==
    LET e == Ultimo(emissoesFechadas)
        taxaLeilao == IF obj[l].sucesso
                      THEN TaxaLicitacaoMaxima(obj[l].licitacoes, licitacao)
                      ELSE {0}
    IN  IF emissoesFechadas = <<>> \/ l > e THEN taxaLeilao
        ELSE IF obj[e].sucesso THEN {obj[e].taxa}
        ELSE {(obj[e].taxa * 11) \div 10}

LeTaxaEmissao ==
    /\ srv.pc = "taxaEmissao"
    /\ \E t \in TaxaEmissao(srv.lido, historicoEmissoes[srv.pedido.empresa]) :
          srv' = [srv EXCEPT !.pc = "cria", !.taxa = t]
    /\ UNCHANGED <<heaps, mapas, historicos, fio>>

\* The issue is built, replaces whatever the map holds for the company, and its
\* closing thread is started.
CriaEmissao ==
    /\ srv.pc = "cria"
    /\ LET idL == Len(historicoEmissoes[srv.pedido.empresa])
           i == nObj + 1
       IN  /\ nObj' = i
           /\ obj' = [obj EXCEPT ![i] = Emissao(srv.pedido.empresa, srv.taxa,
                                                srv.pedido.quantia)]
           /\ emissoes' = [emissoes EXCEPT ![srv.pedido.empresa] = i]
           /\ fio' = [fio EXCEPT ![i] =
                         [PorIniciar EXCEPT !.pc = "dorme", !.idL = idL]]
           /\ srv' = [srv EXCEPT !.pc = "publica", !.alvo = i, !.idL = idL]
    /\ UNCHANGED <<licitacao, nLic, leiloes, historicos>>

\* The notification is sent on the PUB socket, under its monitor.
ServidorPublica ==
    /\ srv.pc = "publica"
    /\ srv' = [srv EXCEPT !.pc =
                  IF srv.pedido.tipo \in {"licitar", "emprestimo"}
                  THEN "ids" ELSE "post"]
    /\ UNCHANGED <<heaps, mapas, historicos, fio>>

\* The directory is told (sendPost swallows every failure) and the request is
\* answered with sucesso = true.
ServidorPost ==
    /\ srv.pc = "post"
    /\ srv' = Ocioso
    /\ UNCHANGED <<heaps, mapas, historicos, fio>>

\* The steps that do not reach the directory.
PassoLocalServidor ==
    \/ Recusa \/ licitar \/ emprestimo \/ AdicionaLicitacao \/ LeIndices
    \/ leilao \/ IniciaTerminaLeilao \/ EmpresaDesconhecida
    \/ emissao \/ LeUltimoLeilao \/ LeTaxaEmissao \/ CriaEmissao
    \/ ServidorPublica

PassoServidor == PassoLocalServidor \/ ServidorPost

-----------------------------------------------------------------------------
(* The closing threads.  fio[i].alvo is the object thread i took out of    *)
(* its map; fio[i].n is the length of its list when the traversal under    *)
(* way began.                                                              *)

LicitacoesDe(i) == obj[fio[i].alvo].licitacoes

\* TerminaLeilao.run() wakes and removes the company's open auction.  Finding
\* none, it would dereference null and die.
RemoveLeilao(i) ==
    /\ fio[i].pc = "dorme" /\ obj[i].tipo = "leilao"
    /\ LET a == leiloes[obj[i].empresa]
       IN  /\ leiloes' = [leiloes EXCEPT ![obj[i].empresa] = Nulo]
           /\ fio' = [fio EXCEPT ![i].pc = IF a = Nulo THEN "morto" ELSE "soma",
                                 ![i].alvo = a]
    /\ UNCHANGED <<heaps, emissoes, historicos, srv>>

\* Mutant of RemoveEmissao: get instead of remove.
RemoveEmissaoGet(i) ==
    /\ fio[i].pc = "dorme" /\ obj[i].tipo = "emissao"
    /\ LET a == emissoes[obj[i].empresa]
       IN  /\ fio' = [fio EXCEPT
                         ![i].pc = IF a = Nulo THEN "morto" ELSE "arquiva",
                         ![i].alvo = a]
           /\ obj' = IF a = Nulo THEN obj
                     ELSE [obj EXCEPT ![a].sucesso = TRUE]
    /\ UNCHANGED <<nObj, licitacao, nLic, mapas, historicos, srv>>

\* TerminaEmissao.run() wakes, removes the company's open issue and marks it as
\* successful before anything was added up.  Finding none, it dies.
RemoveEmissao(i) ==
    /\ fio[i].pc = "dorme" /\ obj[i].tipo = "emissao"
    /\ LET a == emissoes[obj[i].empresa]
       IN  /\ emissoes' = [emissoes EXCEPT ![obj[i].empresa] = Nulo]
           /\ fio' = [fio EXCEPT
                         ![i].pc = IF a = Nulo THEN "morto" ELSE "arquiva",
                         ![i].alvo = a]
           /\ obj' = IF a = Nulo THEN obj
                     ELSE [obj EXCEPT ![a].sucesso = TRUE]
    /\ UNCHANGED <<nObj, licitacao, nLic, leiloes, historicos, srv>>

\* The three traversals of the unsynchronised list of bids: the stream that adds
\* it up, the stream that sorts it, and Gson's iterator writing it as JSON.
Travessia == [soma |-> "somando", ordena |-> "ordenando", json |-> "escrevendo"]

\* One of them begins ...
IniciaTravessia(i) ==
    /\ fio[i].pc \in DOMAIN Travessia
    /\ fio' = [fio EXCEPT ![i].pc = Travessia[@], ![i].n = Len(LicitacoesDe(i))]
    /\ UNCHANGED <<heaps, mapas, historicos, srv>>

\* ... and, if the server thread appended to the list meanwhile, may throw
\* ConcurrentModificationException, which nothing catches; it may also not see
\* the new bid (the two threads share the list without synchronisation).
TravessiaInterrompida(i) ==
    /\ fio[i].pc \in {"somando", "ordenando", "escrevendo"}
    /\ Len(LicitacoesDe(i)) # fio[i].n
    /\ fio' = [fio EXCEPT ![i].pc = "morto"]
    /\ UNCHANGED <<heaps, mapas, historicos, srv>>

Vistas(i) == SubSeq(LicitacoesDe(i), 1, fio[i].n)

\* Mutant of Coberto: < for <=.
CobertoComSobra(i) ==
    obj[fio[i].alvo].montante < InvestimentoTotal(Vistas(i), licitacao)

Coberto(i) ==
    obj[fio[i].alvo].montante <= InvestimentoTotal(Vistas(i), licitacao)

\* The auction's bids have been added up: success is decided.
DecideLeilao(i) ==
    /\ fio[i].pc = "somando" /\ obj[i].tipo = "leilao"
    /\ obj' = [obj EXCEPT ![fio[i].alvo].sucesso = @ \/ Coberto(i)]
    /\ fio' = [fio EXCEPT ![i].pc = IF Coberto(i) THEN "ordena" ELSE "arquiva"]
    /\ UNCHANGED <<nObj, licitacao, nLic, mapas, historicos, srv>>

\* alocaInvestidores(): the list becomes the cheapest bids that cover the
\* amount, unless that is all of them; the directory is sent the new list.
alocaInvestidores(i) ==
    /\ fio[i].pc = "ordenando"
    /\ \E alocados \in Alocacoes(Vistas(i), licitacao,
                                 obj[fio[i].alvo].montante) :
          LET substitui == Len(alocados) # Len(LicitacoesDe(i))
          IN  /\ obj' = IF substitui
                        THEN [obj EXCEPT ![fio[i].alvo].licitacoes = alocados]
                        ELSE obj
              /\ fio' = [fio EXCEPT ![i].pc = "arquiva", ![i].lista = substitui]
    /\ UNCHANGED <<nObj, licitacao, nLic, mapas, historicos, srv>>

\* Mutant of ArquivaLeilao: the latest auction is put first.
ArquivaLeilaoNoInicio(i) ==
    /\ fio[i].pc = "arquiva" /\ obj[i].tipo = "leilao"
    /\ historicoLeiloes' = [historicoLeiloes EXCEPT ![obj[i].empresa] =
                               <<fio[i].alvo>> \o @]
    /\ fio' = [fio EXCEPT ![i].pc = "publica"]
    /\ UNCHANGED <<heaps, mapas, historicoEmissoes, srv>>

\* Mutant of ArquivaLeilao: only a successful auction is archived.
ArquivaLeilaoComSucesso(i) ==
    /\ fio[i].pc = "arquiva" /\ obj[i].tipo = "leilao"
    /\ historicoLeiloes' = IF obj[fio[i].alvo].sucesso
                           THEN [historicoLeiloes EXCEPT ![obj[i].empresa] =
                                    Append(@, fio[i].alvo)]
                           ELSE historicoLeiloes
    /\ fio' = [fio EXCEPT ![i].pc = "publica"]
    /\ UNCHANGED <<heaps, mapas, historicoEmissoes, srv>>

\* The closed auction is appended to the history of its company.
ArquivaLeilao(i) ==
    /\ fio[i].pc = "arquiva" /\ obj[i].tipo = "leilao"
    /\ historicoLeiloes' = [historicoLeiloes EXCEPT ![obj[i].empresa] =
                               Append(@, fio[i].alvo)]
    /\ fio' = [fio EXCEPT ![i].pc = "publica"]
    /\ UNCHANGED <<heaps, mapas, historicoEmissoes, srv>>

\* The closed issue is appended to the history, its success not yet decided.
ArquivaEmissao(i) ==
    /\ fio[i].pc = "arquiva" /\ obj[i].tipo = "emissao"
    /\ historicoEmissoes' = [historicoEmissoes EXCEPT ![obj[i].empresa] =
                                Append(@, fio[i].alvo)]
    /\ fio' = [fio EXCEPT ![i].pc = "publica"]
    /\ UNCHANGED <<heaps, mapas, historicoLeiloes, srv>>

\* "Terminado" is sent on the PUB socket.  An auction's list is then written as
\* JSON, if the directory is to have it; an issue has still to be decided.
FioPublica(i) ==
    /\ fio[i].pc = "publica"
    /\ fio' = [fio EXCEPT ![i].pc =
                  IF obj[i].tipo = "emissao" THEN "soma"
                  ELSE IF fio[i].lista THEN "json" ELSE "put"]
    /\ UNCHANGED <<heaps, mapas, historicos, srv>>

\* The issue's loans have been added up: success is decided.
DecideEmissao(i) ==
    /\ fio[i].pc = "somando" /\ obj[i].tipo = "emissao"
    /\ obj' = [obj EXCEPT ![fio[i].alvo].sucesso = Coberto(i)]
    /\ fio' = [fio EXCEPT ![i].pc = "put"]
    /\ UNCHANGED <<nObj, licitacao, nLic, mapas, historicos, srv>>

\* The directory is told (sendPut swallows every failure) and the thread ends.
FioPut(i) ==
    /\ fio[i].pc \in {"put", "escrevendo"}
    /\ fio' = [fio EXCEPT ![i].pc = "fim"]
    /\ UNCHANGED <<heaps, mapas, historicos, srv>>

\* The steps that do not reach the directory.
PassoLocalFio(i) ==
    \/ RemoveLeilao(i) \/ RemoveEmissao(i)
    \/ IniciaTravessia(i) \/ TravessiaInterrompida(i)
    \/ DecideLeilao(i) \/ alocaInvestidores(i) \/ DecideEmissao(i)
    \/ ArquivaLeilao(i) \/ ArquivaEmissao(i)
    \/ FioPublica(i)

PassoFio(i) == PassoLocalFio(i) \/ FioPut(i)

Next ==
    \/ \E m \in Mensagens : Recebe(m)
    \/ PassoServidor
    \/ \E i \in Objs : PassoFio(i)

\* A request being handled and a started thread get processor time for ever;
\* nobody is obliged to send requests.
Fairness == WF_vars(PassoServidor) /\ \A i \in Objs : WF_vars(PassoFio(i))

Spec == Init /\ [][Next]_vars

FairSpec == Spec /\ Fairness

-----------------------------------------------------------------------------
(* Properties.                                                             *)

PCsServidor == {"recv", "despacha", "add", "publica", "ids", "post", "inicia",
                "taxaLeilao", "taxaEmissao", "cria", "morto"}

PCsFio == {"nenhum", "dorme", "soma", "somando", "ordena", "ordenando",
           "arquiva", "publica", "json", "escrevendo", "put", "fim", "morto"}

TipoObjeto == [tipo : {"nenhum", "leilao", "emissao"}, empresa : Nomes, taxa : Int,
               montante : Int, sucesso : BOOLEAN, licitacoes : Seq(Lics)]

TipoLicitacao == [alvo : Refs, taxa : Int, quantia : Int, aTempo : BOOLEAN]

TipoServidor == [pc : PCsServidor, pedido : Mensagens \cup {SemPedido},
                 alvo : Refs, ultimo : Refs, lido : Refs, taxa : Int,
                 idL : Nat, id : Int]

TipoFio == [pc : PCsFio, idL : Nat, alvo : Refs, n : Nat, lista : BOOLEAN]

\* The heaps, maps, histories and thread locals hold values of their Java types.
TypeOK ==
    /\ obj \in [Objs -> TipoObjeto] /\ nObj \in 0 .. MaxObj
    /\ licitacao \in [Lics -> TipoLicitacao] /\ nLic \in 0 .. MaxLic
    /\ leiloes \in [Nomes -> Refs] /\ emissoes \in [Nomes -> Refs]
    /\ historicoLeiloes \in [Empresas -> Seq(Objs)]
    /\ historicoEmissoes \in [Empresas -> Seq(Objs)]
    /\ srv \in TipoServidor
    /\ fio \in [Objs -> TipoFio]

\* leiloes.remove(empresa) names no auction, only a company, and yet a
\* TerminaLeilao thread always closes the auction it was started for: until it
\* wakes, that auction is the one in the map, and what it took out is that one
\* (never null, so line 47 never dereferences null).
FechaOProprio ==
    \A i \in Objs : obj[i].tipo = "leilao" =>
        /\ fio[i].pc = "dorme" => leiloes[obj[i].empresa] = i
        /\ fio[i].pc \notin {"nenhum", "dorme"} => fio[i].alvo = i

\* Although emissao() may replace an open issue, the issue in the map always has
\* a TerminaEmissao thread of its company still to wake: none stays open for want
\* of a thread to close it.
EmissaoAbertaTemFio ==
    \A e \in Nomes : emissoes[e] # Nulo =>
        \E i \in Objs : /\ fio[i].pc = "dorme" /\ obj[i].tipo = "emissao"
                        /\ obj[i].empresa = e

\* The histories record each auction and each issue at most once, under its own
\* company and kind, however many threads of the company wake in whatever order.
HistoricoFiel ==
    \A e \in Empresas :
        /\ \A k, l \in DOMAIN historicoLeiloes[e] :
              historicoLeiloes[e][k] = historicoLeiloes[e][l] => k = l
        /\ \A k, l \in DOMAIN historicoEmissoes[e] :
              historicoEmissoes[e][k] = historicoEmissoes[e][l] => k = l
        /\ \A k \in DOMAIN historicoLeiloes[e] :
              LET o == obj[historicoLeiloes[e][k]]
              IN  o.tipo = "leilao" /\ o.empresa = e
        /\ \A k \in DOMAIN historicoEmissoes[e] :
              LET o == obj[historicoEmissoes[e][k]]
              IN  o.tipo = "emissao" /\ o.empresa = e

\* What each bid ever made offers object a: nothing, unless it was made to a and
\* while a was open.
Propostas(a) ==
    [b \in 1 .. nLic |-> IF licitacao[b].alvo = a /\ licitacao[b].aTempo
                         THEN licitacao[b].quantia ELSE 0]

\* No bid came to a after it was closed.
SemTardias(a) == \A b \in 1 .. nLic : licitacao[b].alvo = a => licitacao[b].aTempo

Arquivado(i) == \E e \in Empresas : \E k \in DOMAIN historicoLeiloes[e] :
                    historicoLeiloes[e][k] = i

\* The objects whose success has been decided for good: archived auctions, and
\* issues whose closing thread is past the decision.
Decididos ==
    {a \in Objs : \/ Arquivado(a)
                  \/ \E i \in Objs : /\ obj[i].tipo = "emissao"
                                     /\ fio[i].alvo = a
                                     /\ fio[i].pc \in {"put", "fim"}}

\* The amounts of the bids of list s.
Valores(s) == [k \in DOMAIN s |-> licitacao[s[k]].quantia]

\* The same, bid b counting for nothing.
ValoresSem(s, b) == [k \in DOMAIN s |-> IF s[k] = b THEN 0 ELSE licitacao[s[k]].quantia]

\* No sum of bids to a can leave the range of an int.
SemTransbordo(a) == Soma(Absolutos(Propostas(a))) < IntSpan \div 2

\* When no bid came late and no sum overflows, an auction or issue is recorded as
\* successful exactly if the bids made while it was open add up to the amount.
DecisaoCorreta ==
    \A a \in Decididos : SemTardias(a) /\ SemTransbordo(a) =>
        (obj[a].sucesso <=> obj[a].montante <= Soma(Propostas(a)))

Lista(a) == {obj[a].licitacoes[k] : k \in DOMAIN obj[a].licitacoes}

\* A bid made on time is left out of a closed auction only in favour of bids at a
\* lower rate, or at the same rate and earlier; a loan to an issue is never left
\* out.
MelhoresPropostas ==
    \A b \in 1 .. nLic :
        LET a == licitacao[b].alvo
        IN  licitacao[b].aTempo /\ b \notin Lista(a) =>
              /\ obj[a].tipo = "leilao" /\ obj[a].sucesso
              /\ \A c \in Lista(a) : licitacao[c].aTempo =>
                    \/ licitacao[c].taxa < licitacao[b].taxa
                    \/ licitacao[c].taxa = licitacao[b].taxa /\ c < b

\* a bid of the list no other of the list comes after, in the order of allocation
MaisCara(a, b) ==
    /\ b \in Lista(a)
    /\ \A c \in Lista(a) : \/ licitacao[c].taxa < licitacao[b].taxa
                           \/ licitacao[c].taxa = licitacao[b].taxa /\ c <= b

\* The bids an archived successful auction ends with cover the amount and none is
\* superfluous: without the dearest of them they would not (an auction of no
\* positive amount keeps one bid all the same).
AlocacaoMinima ==
    \A a \in Decididos :
        obj[a].tipo = "leilao" /\ obj[a].sucesso /\ SemTardias(a) /\ SemTransbordo(a) =>
            LET s == obj[a].licitacoes
            IN  /\ Soma(Valores(s)) >= obj[a].montante
                /\ \A b \in Lista(a) : MaisCara(a, b) /\ obj[a].montante > 0 =>
                      Soma(ValoresSem(s, b)) < obj[a].montante

\* A TerminaLeilao thread dies only of a bid appended after it had closed the
\* auction, a TerminaEmissao thread only of that or of finding that another
\* thread of its company has already taken the issue.
MorteExplicada ==
    \A i \in Objs : fio[i].pc = "morto" =>
        \/ fio[i].alvo # Nulo /\ ~ SemTardias(fio[i].alvo)
        \/ /\ fio[i].alvo = Nulo /\ obj[i].tipo = "emissao"
           /\ \E j \in Objs \ {i} :
                 /\ obj[j].tipo = "emissao" /\ obj[j].empresa = obj[i].empresa
                 /\ fio[j].alvo # Nulo

\* A company none of whose auctions failed never issues at rate 0, although
\* taxaEmissao() reads the last auction a second time and falls through to 0.
TaxaPositiva ==
    \A i \in Objs : obj[i].tipo = "emissao" /\ obj[i].taxa = 0 =>
        \E k \in DOMAIN historicoLeiloes[obj[i].empresa] :
            ~ obj[historicoLeiloes[obj[i].empresa][k]].sucesso

Estende(s, t) == Len(s) <= Len(t) /\ s = SubSeq(t, 1, Len(s))

PassoDefinitivo ==
    \A e \in Empresas :
        /\ Estende(historicoLeiloes[e], historicoLeiloes'[e])
        /\ Estende(historicoEmissoes[e], historicoEmissoes'[e])
        /\ \A k \in DOMAIN historicoLeiloes[e] :
              LET a == historicoLeiloes[e][k]
              IN  /\ obj'[a].sucesso = obj[a].sucesso
                  /\ Estende(obj[a].licitacoes, obj'[a].licitacoes)

\* The outcome of an archived auction is final: histories only grow, its success
\* is not revised, and no bid is dropped from its list.
ResultadoDefinitivo == [][PassoDefinitivo]_vars

\* Every auction opened is archived in the end, unless a bid arrives late.
LeilaoFecha ==
    \A i \in Objs : (fio[i].pc = "dorme" /\ obj[i].tipo = "leilao") ~>
                        (Arquivado(i) \/ ~ SemTardias(i))

\* Every request the server takes is answered.
PedidoRespondido == (srv.pc # "recv") ~> (srv.pc = "recv")

\* The server thread ends only of an auction requested for a company that it does
\* not serve, which then stays open for ever, with no thread to close it.
MorteDoServidor ==
    srv.pc = "morto" =>
        \E e \in Nomes \ Empresas : /\ leiloes[e] # Nulo
                                   /\ fio[leiloes[e]].pc = "nenhum"

\* "A emissao termina em 60s" (printed when an issue's thread is built): the
\* thread that waits for an issue is the one that closes it.
EmissaoTerminaNoSeuPrazo ==
    \A i \in Objs : obj[i].tipo = "emissao"
                      /\ fio[i].pc \notin {"nenhum", "dorme"} => fio[i].alvo = i

\* Object i as an auction of LeilaoAbstrato.
LeilaoVisto(i) ==
    IF obj[i].tipo # "leilao"
    THEN [existe |-> FALSE, empresa |-> CHOOSE n \in Nomes : TRUE, montante |-> 0,
          total |-> 0, volume |-> 0, tardia |-> FALSE]
    ELSE [existe |-> TRUE, empresa |-> obj[i].empresa, montante |-> obj[i].montante,
          total |-> Soma(Propostas(i)), volume |-> Soma(Absolutos(Propostas(i))),
          tardia |-> ~ SemTardias(i)]

\* The history of company e, with the verdicts as they stand in the objects.
HistoricoVisto(e) ==
    [k \in 1 .. Len(historicoLeiloes[e]) |->
        [id |-> historicoLeiloes[e][k], sucesso |-> obj[historicoLeiloes[e][k]].sucesso]]

A == INSTANCE LeilaoAbstrato WITH
        Ids <- Objs, Quantias <- {m.quantia : m \in Mensagens}, Limite <- IntSpan \div 2,
        aberto <- leiloes,
        leilao <- [i \in Objs |-> LeilaoVisto(i)],
        historico <- [e \in Empresas |-> HistoricoVisto(e)]

\* The threads, whatever their interleaving, implement the abstract auctions:
\* what TerminaLeilao does in many steps (remove, add up, decide, allocate,
\* archive) amounts to closing one auction and later archiving it once, with the
\* verdict of exactly the bids made while it was open.
ImplementaLeilao == A!Spec

=============================================================================
