-------------------------- MODULE ExchangeFimProofs --------------------------
(***************************************************************************)
(* Proofs about how auctions, issues and threads of the exchange server    *)
(* end: what a closing thread or the server thread may die of, at which    *)
(* rate a company issues, which bids an auction ends with, when it is      *)
(* successful, who gets how much of an issue, and that the threads         *)
(* implement the abstract auctions of LeilaoAbstrato.                      *)
(***************************************************************************)
EXTENDS ExchangeProofs, Lemas, FunctionTheorems

-----------------------------------------------------------------------------
(* The inductive invariant.                                                *)

\* Some closed auction of the company failed.
Falhou(e) ==
    \E k \in DOMAIN historicoLeiloes[e] : ~ obj[historicoLeiloes[e][k]].sucesso

\* What taxaEmissao() has read: an auction of the history, and then a rate that
\* is 0 only after a failed auction.  Only companies of the server issue.
InvTaxa ==
    /\ srv.pc = "taxaEmissao" =>
          \E k \in DOMAIN historicoLeiloes[srv.pedido.empresa] :
              historicoLeiloes[srv.pedido.empresa][k] = srv.lido
    /\ srv.pc = "cria" /\ srv.taxa = 0 => Falhou(srv.pedido.empresa)
    /\ \A i \in Objs : obj[i].tipo = "emissao" => obj[i].empresa \in Empresas

\* The thread of an open auction has not woken.
AbertoDorme ==
    \A e \in Nomes : leiloes[e] # Nulo => fio[leiloes[e]].pc \in {"nenhum", "dorme"}

\* The list under a traversal only grows by late bids.
Travessias ==
    \A i \in Objs :
        fio[i].pc \in {"somando", "ordenando", "escrevendo"} /\ SemTardias(fio[i].alvo) =>
            Len(obj[fio[i].alvo].licitacoes) = fio[i].n

\* An issue whose thread still sleeps is missing from the map only if another
\* thread of the company took one.
OutroLevou(i) ==
    \E j \in Objs \ {i} : /\ obj[j].tipo = "emissao" /\ obj[j].empresa = obj[i].empresa
                          /\ fio[j].alvo # Nulo

Levadas ==
    \A i \in Objs :
        fio[i].pc = "dorme" /\ obj[i].tipo = "emissao" /\ emissoes[obj[i].empresa] = Nulo =>
            OutroLevou(i)

\* Bids are listed with the object they were made to, in the order they were made
\* until the investors are selected.
InvLista(a) ==
    LET s == obj[a].licitacoes
    IN  /\ \A k \in DOMAIN s : s[k] <= nLic
        /\ ~ fio[a].lista => \A k, l \in DOMAIN s : k < l => s[k] < s[l]

InvListas == \A a \in Objs : InvLista(a)

\* Bids made on time are in the list until the investors are selected, and the
\* stream that sorts the list sees them all.
InvATempo ==
    \A b \in 1 .. nLic : licitacao[b].aTempo =>
        /\ licitacao[b].alvo \in 1 .. nObj
        /\ b \notin Lista(licitacao[b].alvo) =>
              obj[licitacao[b].alvo].tipo = "leilao" /\ fio[licitacao[b].alvo].lista
        /\ \A i \in Objs : fio[i].pc = "ordenando" /\ fio[i].alvo = licitacao[b].alvo =>
              \E k \in 1 .. fio[i].n : obj[fio[i].alvo].licitacoes[k] = b

\* Investors are selected for successful auctions only, and once.
InvSelecao ==
    \A i \in Objs :
        /\ fio[i].pc \in {"ordena", "ordenando"} => obj[fio[i].alvo].sucesso
        /\ fio[i].lista =>
              /\ fio[i].pc \in {"arquiva", "publica", "json", "escrevendo", "put", "fim",
                               "morto"}
              /\ fio[i].alvo = i /\ obj[i].tipo = "leilao" /\ obj[i].sucesso

USE DEF Nulo

-----------------------------------------------------------------------------
(* What a step of each thread leaves alone.                                *)

\* The thread that begins a traversal notes the length of its list.
LEMMA EfeitoTravessia ==
    ASSUME TypeOK, NEW i \in Objs, IniciaTravessia(i)
    PROVE  /\ \/ fio[i].pc = "soma" /\ fio'[i].pc = "somando"
              \/ fio[i].pc = "ordena" /\ fio'[i].pc = "ordenando"
              \/ fio[i].pc = "json" /\ fio'[i].pc = "escrevendo"
           /\ fio'[i].n = Len(obj[fio[i].alvo].licitacoes)
           /\ fio'[i].alvo = fio[i].alvo /\ fio'[i].lista = fio[i].lista
           /\ \A j \in Objs \ {i} : fio'[j] = fio[j]
           /\ UNCHANGED <<obj, nObj, licitacao, nLic, leiloes, emissoes,
                          historicoLeiloes, historicoEmissoes, srv>>
<1> DEFINE p == Travessia[fio[i].pc]
<1>1. fio[i].pc \in {"soma", "ordena", "json"}
  BY DEF IniciaTravessia, Travessia
<1>2. /\ fio[i].pc = "soma" => p = "somando"
      /\ fio[i].pc = "ordena" => p = "ordenando"
      /\ fio[i].pc = "json" => p = "escrevendo"
  BY DEF Travessia
<1>3. fio' = [fio EXCEPT ![i].pc = p, ![i].n = Len(obj[fio[i].alvo].licitacoes)]
  BY DEF IniciaTravessia, LicitacoesDe, TypeOK
<1> HIDE DEF p
<1>4. /\ fio'[i].pc = p /\ fio'[i].n = Len(obj[fio[i].alvo].licitacoes)
      /\ fio'[i].alvo = fio[i].alvo /\ fio'[i].lista = fio[i].lista
      /\ \A j \in Objs \ {i} : fio'[j] = fio[j]
  BY <1>3 DEF TypeOK, TipoFio
<1> QED
  BY <1>1, <1>2, <1>4 DEF IniciaTravessia, heaps, mapas, historicos

\* A closing thread touches no other thread, keeps what it took, and changes the
\* maps for its own company only, when it wakes.
LEMMA PassoDeFio ==
    ASSUME Indutivo, NEW i \in Objs, PassoFio(i)
    PROVE  /\ fio[i].pc \notin {"nenhum", "fim", "morto"}
           /\ fio'[i].pc \notin {"nenhum", "dorme"}
           /\ \A j \in Objs \ {i} : fio'[j] = fio[j]
           /\ fio[i].pc # "dorme" => /\ UNCHANGED <<leiloes, emissoes>>
                                     /\ fio'[i].alvo = fio[i].alvo
           /\ obj[i].empresa \in Empresas
           /\ \A e \in Nomes \ {obj[i].empresa} :
                 leiloes'[e] = leiloes[e] /\ emissoes'[e] = emissoes[e]
           /\ UNCHANGED <<nObj, licitacao, nLic, srv>>
<1> USE DEF mapas, heaps, historicos
<1>1. TypeOK /\ InvFios
  BY DEF Indutivo
<1>2. fio \in [Objs -> TipoFio] /\ leiloes \in [Nomes -> Refs] /\ emissoes \in [Nomes -> Refs]
  BY <1>1 DEF TypeOK
<1>3. CASE RemoveLeilao(i) \/ RemoveEmissao(i)
  <2>1. PICK x, a : /\ fio' = [fio EXCEPT ![i].pc = x, ![i].alvo = a]
                    /\ x \in {"morto", "soma", "arquiva"}
    BY <1>3 DEF RemoveLeilao, RemoveEmissao
  <2>2. fio'[i].pc = x /\ \A j \in Objs \ {i} : fio'[j] = fio[j]
    BY <1>2, <2>1 DEF TipoFio
  <2>3. fio[i].pc = "dorme" /\ UNCHANGED <<nObj, licitacao, nLic, srv>>
    BY <1>3 DEF RemoveLeilao, RemoveEmissao
  <2>4. \A e \in Nomes \ {obj[i].empresa} :
           leiloes'[e] = leiloes[e] /\ emissoes'[e] = emissoes[e]
    BY <1>2, <1>3 DEF RemoveLeilao, RemoveEmissao
  <2>5. obj[i].empresa \in Empresas
    BY <1>1, <2>3 DEF InvFios, InvFio
  <2> QED
    BY <2>1, <2>2, <2>3, <2>4, <2>5
<1>4. CASE ~ (RemoveLeilao(i) \/ RemoveEmissao(i))
  <2>1. /\ fio[i].pc \in {"soma", "ordena", "json", "somando", "ordenando", "escrevendo",
                          "arquiva", "publica", "put"}
        /\ UNCHANGED <<nObj, licitacao, nLic, srv, leiloes, emissoes>>
    BY <1>4 DEF PassoFio, PassoLocalFio, IniciaTravessia, Travessia, TravessiaInterrompida,
                DecideLeilao, alocaInvestidores, DecideEmissao, ArquivaLeilao,
                ArquivaEmissao, FioPublica, FioPut
  <2>2. /\ fio'[i].pc \notin {"nenhum", "dorme"} /\ fio'[i].alvo = fio[i].alvo
        /\ \A j \in Objs \ {i} : fio'[j] = fio[j]
    <3>1. CASE IniciaTravessia(i)
      BY <1>1, <3>1, EfeitoTravessia
    <3>2. CASE alocaInvestidores(i)
      <4>1. PICK v : fio' = [fio EXCEPT ![i].pc = "arquiva", ![i].lista = v]
        BY <3>2 DEF alocaInvestidores
      <4> QED
        BY <1>2, <4>1 DEF TipoFio
    <3>3. CASE ~ (IniciaTravessia(i) \/ alocaInvestidores(i))
      <4>1. PICK x \in {"morto", "ordena", "arquiva", "put", "publica", "soma", "json", "fim"} :
               fio' = [fio EXCEPT ![i].pc = x]
        BY <1>4, <3>3 DEF PassoFio, PassoLocalFio, TravessiaInterrompida,
                DecideLeilao, DecideEmissao, ArquivaLeilao, ArquivaEmissao, FioPublica, FioPut
      <4> QED
        BY <1>2, <4>1 DEF TipoFio
    <3> QED
      BY <3>1, <3>2, <3>3
  <2>4. obj[i].empresa \in Empresas
    BY <1>1, <2>1 DEF InvFios, InvFio
  <2> QED
    BY <2>1, <2>2, <2>4
<1> QED
  BY <1>3, <1>4

-----------------------------------------------------------------------------
(* The death of the server thread.                                         *)

\* The auction that killed the server thread stays open: its own closing thread
\* was never started, and the threads of other companies do not touch it.
LEMMA PassoMorteDoServidor ==
    ASSUME Indutivo, MorteDoServidor, [Next]_vars
    PROVE  MorteDoServidor'
<1>1. TypeOK /\ InvServidor /\ InvMapas
  BY DEF Indutivo
<1>2. CASE UNCHANGED vars
  BY <1>2 DEF vars, heaps, mapas, MorteDoServidor
<1>3. CASE EmpresaDesconhecida
  <2> DEFINE e == srv.pedido.empresa
  <2>1. /\ e \notin Empresas /\ srv.pedido \in Mensagens /\ srv.alvo \in Objs
        /\ leiloes[e] = srv.alvo /\ fio[srv.alvo].pc = "nenhum"
    BY <1>1, <1>3 DEF EmpresaDesconhecida, InvServidor
  <2>2. e \in Nomes \ Empresas /\ srv.alvo # Nulo
    BY <2>1, ExchangeAssumption DEF Objs
  <2>3. UNCHANGED <<leiloes, fio>>
    BY <1>3 DEF EmpresaDesconhecida, mapas
  <2> QED
    BY <2>1, <2>2, <2>3 DEF MorteDoServidor
<1>4. CASE (\E m \in Mensagens : Recebe(m)) \/ (PassoServidor /\ ~ EmpresaDesconhecida)
  <2>1. srv'.pc # "morto"
    <3>1. srv \in TipoServidor
      BY <1>1 DEF TypeOK
    <3>2. CASE \E m \in Mensagens : Recebe(m)
      <4>1. PICK m : srv' = [srv EXCEPT !.pc = "despacha", !.pedido = m]
        BY <3>2 DEF Recebe
      <4> QED
        BY <3>1, <4>1 DEF TipoServidor
    <3>3. CASE ServidorPublica
      <4>1. PICK x \in {"ids", "post"} : srv' = [srv EXCEPT !.pc = x]
        BY <3>3 DEF ServidorPublica
      <4> QED
        BY <3>1, <4>1 DEF TipoServidor
    <3>4. CASE Recusa \/ ServidorPost
      BY <3>4 DEF Recusa, ServidorPost, Ocioso
    <3>5. CASE licitar \/ emprestimo \/ AdicionaLicitacao \/ LeIndices \/ leilao
      BY <3>1, <3>5 DEF licitar, emprestimo, AdicionaLicitacao, LeIndices, leilao, TipoServidor
    <3>6. CASE IniciaTerminaLeilao \/ emissao \/ LeUltimoLeilao \/ CriaEmissao
      BY <3>1, <3>6 DEF IniciaTerminaLeilao, emissao, LeUltimoLeilao, CriaEmissao, TipoServidor
    <3>7. CASE LeTaxaEmissao
      <4>1. PICK t : srv' = [srv EXCEPT !.pc = "cria", !.taxa = t]
        BY <3>7 DEF LeTaxaEmissao
      <4> QED
        BY <3>1, <4>1 DEF TipoServidor
    <3> QED
      BY <1>4, <3>2, <3>3, <3>4, <3>5, <3>6, <3>7 DEF PassoServidor, PassoLocalServidor
  <2> QED
    BY <2>1 DEF MorteDoServidor
<1>5. ASSUME NEW i \in Objs, PassoFio(i) PROVE MorteDoServidor'
  <2>1. /\ fio[i].pc # "nenhum" /\ srv' = srv /\ obj[i].empresa \in Empresas
        /\ \A j \in Objs \ {i} : fio'[j] = fio[j]
        /\ \A e \in Nomes \ {obj[i].empresa} : leiloes'[e] = leiloes[e]
    BY <1>5, PassoDeFio
  <2>2. SUFFICES ASSUME srv.pc = "morto" PROVE MorteDoServidor'
    BY <2>1 DEF MorteDoServidor
  <2>3. PICK e \in Nomes \ Empresas : leiloes[e] # Nulo /\ fio[leiloes[e]].pc = "nenhum"
    BY <2>2 DEF MorteDoServidor
  <2>4. leiloes[e] \in Objs \ {i} /\ e # obj[i].empresa
    BY <1>1, <2>1, <2>3 DEF TypeOK, Refs
  <2>5. leiloes'[e] = leiloes[e] /\ fio'[leiloes[e]] = fio[leiloes[e]]
    BY <2>1, <2>4
  <2> QED
    BY <2>3, <2>5 DEF MorteDoServidor
<1> QED
  BY <1>2, <1>3, <1>4, <1>5 DEF Next

\* The server thread ends only of an auction requested for a company that it does
\* not serve, and that auction is never closed, whatever the other threads do.
THEOREM MorteDoServidorExplicada == Spec => []MorteDoServidor
<1>1. Init => MorteDoServidor
  BY DEF Init, Ocioso, MorteDoServidor
<1>2. Indutivo /\ MorteDoServidor /\ [Next]_vars => MorteDoServidor'
  BY PassoMorteDoServidor
<1> QED
  BY <1>1, <1>2, IndutivoSempre, PTL DEF Spec

-----------------------------------------------------------------------------
(* The rate of an issue.                                                   *)

\* A company that had a failed auction has it for ever.
LEMMA FalhouFica ==
    ASSUME Indutivo, [Next]_vars, NEW e \in Empresas, Falhou(e)
    PROVE  Falhou(e)'
<1>1. PICK k \in DOMAIN historicoLeiloes[e] : ~ obj[historicoLeiloes[e][k]].sucesso
  BY DEF Falhou
<1> DEFINE a == historicoLeiloes[e][k]
<1>2. obj'[a].sucesso = obj[a].sucesso
  BY ArquivadoDefinitivo
<1>3. Estende(historicoLeiloes[e], historicoLeiloes'[e])
  BY HistoricosCrescem
<1>4. historicoLeiloes[e] \in Seq(Objs) /\ historicoLeiloes'[e] \in Seq(Objs)
  <2>1. Indutivo'
    BY PassoIndutivo
  <2> QED
    BY <2>1 DEF Indutivo, TypeOK
<1>5. k \in DOMAIN historicoLeiloes'[e] /\ historicoLeiloes'[e][k] = a
  BY <1>3, <1>4 DEF Estende
<1> QED
  BY <1>1, <1>2, <1>5 DEF Falhou

\* An object never changes kind, company or rate.
LEMMA ObjetoFica ==
    ASSUME Indutivo, [Next]_vars, NEW i \in Objs
    PROVE  \/ /\ obj'[i].tipo = obj[i].tipo
              /\ obj'[i].empresa = obj[i].empresa
              /\ obj'[i].taxa = obj[i].taxa
              /\ obj'[i].montante = obj[i].montante
           \/ i = nObj + 1 /\ (leilao \/ CriaEmissao)
<1>1. obj \in [Objs -> TipoObjeto] /\ nObj \in Nat
  BY ExchangeAssumption DEF Indutivo, TypeOK
<1>2. CASE leilao \/ CriaEmissao
  <2>1. PICK o : obj' = [obj EXCEPT ![nObj + 1] = o]
    BY <1>2 DEF leilao, CriaEmissao
  <2> QED
    BY <1>1, <1>2, <2>1
<1>3. CASE ~ (leilao \/ CriaEmissao)
  <2>1. \/ obj' = obj
        \/ \E a, v : obj' = [obj EXCEPT ![a].sucesso = v]
        \/ \E a, v : obj' = [obj EXCEPT ![a].licitacoes = v]
    <3>1. CASE AdicionaLicitacao
      BY <1>1, <3>1 DEF AdicionaLicitacao
    <3>2. CASE \E j \in Objs : RemoveEmissao(j)
      BY <3>2 DEF RemoveEmissao
    <3>3. CASE \E j \in Objs : DecideLeilao(j) \/ DecideEmissao(j)
      BY <1>1, <3>3 DEF DecideLeilao, DecideEmissao
    <3>4. CASE \E j \in Objs : alocaInvestidores(j)
      BY <3>4 DEF alocaInvestidores
    <3>5. \/ obj' = obj \/ AdicionaLicitacao
          \/ \E j \in Objs : \/ RemoveEmissao(j) \/ DecideLeilao(j) \/ DecideEmissao(j)
                             \/ alocaInvestidores(j)
      BY <1>3 DEF Next, vars, heaps, Recebe, PassoServidor, PassoLocalServidor, Recusa, licitar,
         emprestimo, LeIndices, IniciaTerminaLeilao,
         EmpresaDesconhecida, emissao, LeUltimoLeilao, LeTaxaEmissao,
         ServidorPublica, ServidorPost, PassoFio, PassoLocalFio, RemoveLeilao,
         IniciaTravessia, TravessiaInterrompida, ArquivaLeilao, ArquivaEmissao,
         FioPublica, FioPut
    <3> QED
      BY <3>1, <3>2, <3>3, <3>4, <3>5
  <2>2. ASSUME NEW a, NEW v, obj' = [obj EXCEPT ![a].sucesso = v]
        PROVE  /\ obj'[i].tipo = obj[i].tipo /\ obj'[i].empresa = obj[i].empresa
               /\ obj'[i].taxa = obj[i].taxa /\ obj'[i].montante = obj[i].montante
    BY <1>1, <2>2 DEF TipoObjeto
  <2>3. ASSUME NEW a, NEW v, obj' = [obj EXCEPT ![a].licitacoes = v]
        PROVE  /\ obj'[i].tipo = obj[i].tipo /\ obj'[i].empresa = obj[i].empresa
               /\ obj'[i].taxa = obj[i].taxa /\ obj'[i].montante = obj[i].montante
    BY <1>1, <2>3 DEF TipoObjeto
  <2> QED
    BY <2>1, <2>2, <2>3
<1> QED
  BY <1>2, <1>3

\* The highest rate bid is not 0.
LEMMA TaxaMaximaPositiva ==
    ASSUME TypeOK, NEW a \in Objs, NEW t \in TaxaLicitacaoMaxima(obj[a].licitacoes, licitacao)
    PROVE  t # 0
<1>1. \A k \in DOMAIN obj[a].licitacoes : licitacao[obj[a].licitacoes[k]].taxa \in Int
  <2>1. obj[a].licitacoes \in Seq(Lics)
    BY DEF TypeOK, TipoObjeto
  <2> QED
    BY <2>1 DEF TypeOK, TipoLicitacao
<1>2. t \in Int /\ 1 <= t
  BY <1>1 DEF TaxaLicitacaoMaxima, FloatMinValue
<1> QED
  BY <1>2

\* taxaEmissao() arrives at 0 only after a failed auction: the last one it read, or
\* one before the issue at rate 0 that the new rate is derived from.
LEMMA TaxaZeroExplicada ==
    ASSUME Indutivo, TaxaPositiva, NEW e \in Empresas, NEW k \in DOMAIN historicoLeiloes[e],
           0 \in TaxaEmissao(historicoLeiloes[e][k], historicoEmissoes[e])
    PROVE  Falhou(e)
<1> DEFINE l == historicoLeiloes[e][k]
           h == historicoEmissoes[e]
           u == Ultimo(h)
<1>1. TypeOK /\ HistoricoFiel
  BY DEF Indutivo
<1>2. l \in Objs /\ h \in Seq(Objs)
  BY <1>1 DEF TypeOK
<1>3. CASE h = <<>> \/ l > u
  <2>1. obj[l].sucesso => 0 \in TaxaLicitacaoMaxima(obj[l].licitacoes, licitacao)
    BY <1>3 DEF TaxaEmissao
  <2>2. ~ obj[l].sucesso
    BY <1>1, <1>2, <2>1, TaxaMaximaPositiva
  <2> QED
    BY <2>2 DEF Falhou
<1>4. CASE ~ (h = <<>> \/ l > u)
  <2>1. u \in Objs /\ Len(h) \in DOMAIN h
    BY <1>2, <1>4, UltimoTipo
  <2>2. obj[u].taxa \in Int /\ obj[u].tipo = "emissao" /\ obj[u].empresa = e
    BY <1>1, <2>1 DEF TypeOK, TipoObjeto, HistoricoFiel, Ultimo
  <2>3. 0 \in {obj[u].taxa, (obj[u].taxa * 11) \div 10}
    BY <1>4 DEF TaxaEmissao
  <2>4. obj[u].taxa = 0
    BY <2>2, <2>3
  <2> QED
    BY <2>1, <2>2, <2>4 DEF TaxaPositiva, Falhou
<1> QED
  BY <1>3, <1>4

\* The server thread between its two readings of the history, and what it creates.
LEMMA PassoInvTaxa ==
    ASSUME Indutivo, InvTaxa, TaxaPositiva, [Next]_vars
    PROVE  InvTaxa' /\ TaxaPositiva'
<1>1. TypeOK /\ InvServidor
  BY DEF Indutivo
<1>2. srv \in TipoServidor
  BY <1>1 DEF TypeOK
<1>3. CriaEmissao => /\ srv.pc = "cria" /\ srv.pedido.empresa \in Empresas
                     /\ nObj + 1 \in Objs
                     /\ obj'[nObj + 1] = Emissao(srv.pedido.empresa, srv.taxa, srv.pedido.quantia)
  BY <1>1, ExchangeAssumption DEF CriaEmissao, InvServidor, TypeOK, Objs
<1>4. leilao => obj'[nObj + 1].tipo = "leilao"
  <2>1. leilao => nObj < MaxObj
    BY <1>1 DEF leilao, AceitaLeilao, InvServidor
  <2>2. leilao => nObj + 1 \in Objs
    BY <1>1, <2>1, ExchangeAssumption DEF TypeOK, Objs
  <2> QED
    BY <1>1, <2>2 DEF leilao, Leilao, Objeto, TypeOK
<1>5. \A i \in Objs : obj'[i].tipo = "emissao" => obj'[i].empresa \in Empresas
  BY <1>3, <1>4, ObjetoFica DEF InvTaxa, Emissao, Objeto
<1>6. TaxaPositiva'
  <2> SUFFICES ASSUME NEW i \in Objs, obj'[i].tipo = "emissao", obj'[i].taxa = 0,
                      NEW e, e = obj'[i].empresa
               PROVE  Falhou(e)'
    BY DEF TaxaPositiva, Falhou
  <2>1. CASE i = nObj + 1 /\ CriaEmissao
    <3>1. e = srv.pedido.empresa /\ srv.taxa = 0 /\ srv.pc = "cria" /\ e \in Empresas
      BY <1>3, <2>1 DEF Emissao, Objeto
    <3> QED
      BY <3>1, FalhouFica DEF InvTaxa
  <2>2. CASE ~ (i = nObj + 1 /\ CriaEmissao)
    <3>1. obj[i].tipo = "emissao" /\ obj[i].taxa = 0 /\ obj[i].empresa = e
      BY <1>4, <2>2, ObjetoFica
    <3>2. e \in Empresas /\ Falhou(e)
      BY <3>1 DEF InvTaxa, TaxaPositiva, Falhou
    <3> QED
      BY <3>2, FalhouFica
  <2> QED
    BY <2>1, <2>2
<1>7. ASSUME NEW e \in Empresas, NEW k \in DOMAIN historicoLeiloes[e]
      PROVE  \E l \in DOMAIN historicoLeiloes'[e] :
                historicoLeiloes'[e][l] = historicoLeiloes[e][k]
  <2>1. Estende(historicoLeiloes[e], historicoLeiloes'[e])
    BY HistoricosCrescem
  <2>2. historicoLeiloes[e] \in Seq(Objs) /\ historicoLeiloes'[e] \in Seq(Objs)
    <3>1. Indutivo'
      BY PassoIndutivo
    <3> QED
      BY <3>1 DEF Indutivo, TypeOK
  <2> QED
    BY <2>1, <2>2 DEF Estende
<1>8. CASE srv' = srv
  <2>1. srv.pc \in {"taxaEmissao", "cria"} => srv.pedido.empresa \in Empresas
    BY <1>1 DEF InvServidor
  <2>2. srv.pc = "taxaEmissao" =>
          \E k \in DOMAIN historicoLeiloes'[srv.pedido.empresa] :
              historicoLeiloes'[srv.pedido.empresa][k] = srv.lido
    BY <1>7, <2>1 DEF InvTaxa
  <2>3. srv.pc = "cria" /\ srv.taxa = 0 => Falhou(srv.pedido.empresa)'
    <3> SUFFICES ASSUME srv.pc = "cria", srv.taxa = 0, NEW e \in Empresas,
                        e = srv.pedido.empresa
                 PROVE  Falhou(e)'
      BY <1>8, <2>1 DEF Falhou
    <3> QED
      BY FalhouFica DEF InvTaxa
  <2> QED
    BY <1>5, <1>6, <1>8, <2>2, <2>3 DEF InvTaxa, Falhou
<1>9. CASE LeUltimoLeilao
  <2> DEFINE e == srv.pedido.empresa
  <2>1. /\ srv'.pc = "taxaEmissao" /\ srv'.pedido = srv.pedido
        /\ srv'.lido = Ultimo(historicoLeiloes[e])
        /\ e \in Empresas /\ historicoLeiloes[e] # <<>>
    BY <1>1, <1>2, <1>9 DEF LeUltimoLeilao, InvServidor, TipoServidor
  <2>2. Len(historicoLeiloes[e]) \in DOMAIN historicoLeiloes[e]
    BY <1>1, <2>1 DEF TypeOK
  <2>3. \E l \in DOMAIN historicoLeiloes'[e] : historicoLeiloes'[e][l] = srv'.lido
    BY <1>7, <2>1, <2>2 DEF Ultimo
  <2> QED
    BY <1>5, <1>6, <2>1, <2>3 DEF InvTaxa
<1>10. CASE LeTaxaEmissao
  <2> DEFINE e == srv.pedido.empresa
  <2>1. PICK t \in TaxaEmissao(srv.lido, historicoEmissoes[e]) :
           srv' = [srv EXCEPT !.pc = "cria", !.taxa = t]
    BY <1>10 DEF LeTaxaEmissao
  <2>2. srv'.pc = "cria" /\ srv'.taxa = t /\ srv'.pedido = srv.pedido
    BY <1>2, <2>1 DEF TipoServidor
  <2>3. e \in Empresas /\ srv.pc = "taxaEmissao"
    BY <1>1, <1>10 DEF LeTaxaEmissao, InvServidor
  <2>4. PICK k \in DOMAIN historicoLeiloes[e] : historicoLeiloes[e][k] = srv.lido
    BY <2>3 DEF InvTaxa
  <2>5. t = 0 => Falhou(e)
    BY <2>1, <2>3, <2>4, TaxaZeroExplicada
  <2>6. t = 0 => Falhou(e)'
    <3>1. ASSUME NEW f \in Empresas, Falhou(f) PROVE Falhou(f)'
      BY <3>1, FalhouFica
    <3>2. UNCHANGED <<obj, historicoLeiloes>>
      BY <1>10 DEF LeTaxaEmissao, heaps, historicos
    <3> QED
      BY <2>2, <2>5, <3>2 DEF Falhou
  <2> QED
    BY <1>5, <1>6, <2>2, <2>6 DEF InvTaxa, Falhou
<1>11. \/ srv' = srv \/ LeUltimoLeilao \/ LeTaxaEmissao
       \/ srv'.pc \notin {"taxaEmissao", "cria"}
  <2>1. CASE UNCHANGED vars \/ \E i \in Objs : PassoFio(i)
    BY <2>1, PassoDeFio DEF vars
  <2>2. CASE \E m \in Mensagens : Recebe(m)
    <3>1. PICK m : srv' = [srv EXCEPT !.pc = "despacha", !.pedido = m]
      BY <2>2 DEF Recebe
    <3> QED
      BY <1>2, <3>1 DEF TipoServidor
  <2>3. CASE Recusa \/ ServidorPost \/ EmpresaDesconhecida
    BY <2>3 DEF Recusa, ServidorPost, EmpresaDesconhecida, Ocioso
  <2>4. CASE licitar \/ emprestimo \/ AdicionaLicitacao \/ LeIndices \/ leilao
    BY <1>2, <2>4 DEF licitar, emprestimo, AdicionaLicitacao, LeIndices, leilao, TipoServidor
  <2>5. CASE IniciaTerminaLeilao \/ emissao \/ CriaEmissao
    BY <1>2, <2>5 DEF IniciaTerminaLeilao, emissao, CriaEmissao, TipoServidor
  <2>6. CASE ServidorPublica
    <3>1. PICK x \in {"ids", "post"} : srv' = [srv EXCEPT !.pc = x]
      BY <2>6 DEF ServidorPublica
    <3> QED
      BY <1>2, <3>1 DEF TipoServidor
  <2> QED
    BY <2>1, <2>2, <2>3, <2>4, <2>5, <2>6 DEF Next, PassoServidor, PassoLocalServidor
<1>12. CASE srv'.pc \notin {"taxaEmissao", "cria"}
  BY <1>5, <1>6, <1>12 DEF InvTaxa
<1> QED
  BY <1>6, <1>8, <1>9, <1>10, <1>11, <1>12

\* A company none of whose auctions failed never issues at rate 0, whatever closes
\* between the checks of emissao() and the readings of taxaEmissao().
THEOREM TaxasPositivas == Spec => []TaxaPositiva
<1>1. Init => InvTaxa /\ TaxaPositiva
  BY DEF Init, InvTaxa, TaxaPositiva, Ocioso, PorCriar, Objeto
<1>2. Indutivo /\ InvTaxa /\ TaxaPositiva /\ [Next]_vars => InvTaxa' /\ TaxaPositiva'
  BY PassoInvTaxa
<1> QED
  BY <1>1, <1>2, IndutivoSempre, PTL DEF Spec

-----------------------------------------------------------------------------
(* The deaths of the closing threads.                                      *)

\* The server thread starts threads and touches no other.
LEMMA PassoDeServidor ==
    ASSUME Indutivo, (\E m \in Mensagens : Recebe(m)) \/ PassoServidor, NEW j \in Objs
    PROVE  \/ fio'[j] = fio[j]
           \/ /\ (IniciaTerminaLeilao /\ j = srv.alvo) \/ (CriaEmissao /\ j = nObj + 1)
              /\ fio[j].pc = "nenhum"
              /\ fio'[j].pc = "dorme" /\ fio'[j].alvo = Nulo /\ fio'[j].lista = FALSE
<1>1. TypeOK /\ InvServidor /\ InvFios
  BY DEF Indutivo
<1>2. fio \in [Objs -> TipoFio]
  BY <1>1 DEF TypeOK
<1>3. CASE IniciaTerminaLeilao
  <2>1. srv.pc = "inicia" /\ fio[srv.alvo].pc = "nenhum"
    BY <1>1, <1>3 DEF IniciaTerminaLeilao, InvServidor
  <2>2. PICK x : fio' = [fio EXCEPT ![srv.alvo] = [PorIniciar EXCEPT !.pc = "dorme", !.idL = x]]
    BY <1>3 DEF IniciaTerminaLeilao
  <2> QED
    BY <1>2, <1>3, <2>1, <2>2 DEF PorIniciar
<1>4. CASE CriaEmissao
  <2>1. fio[nObj + 1].pc = "nenhum"
    <3>1. nObj < MaxObj /\ nObj \in Nat
      BY <1>1, <1>4, ExchangeAssumption DEF CriaEmissao, InvServidor, TypeOK
    <3>2. nObj + 1 \in Objs
      BY <3>1, ExchangeAssumption DEF Objs
    <3> QED
      BY <1>1, <3>1, <3>2 DEF InvFios, InvFio
  <2>2. PICK x : fio' = [fio EXCEPT ![nObj + 1] = [PorIniciar EXCEPT !.pc = "dorme", !.idL = x]]
    BY <1>4 DEF CriaEmissao
  <2> QED
    BY <1>2, <1>4, <2>1, <2>2 DEF PorIniciar
<1>5. CASE ~ (IniciaTerminaLeilao \/ CriaEmissao)
  BY <1>5 DEF Recebe, PassoServidor, PassoLocalServidor, Recusa, licitar,
         emprestimo, AdicionaLicitacao, LeIndices, leilao, EmpresaDesconhecida,
         emissao, LeUltimoLeilao, LeTaxaEmissao, ServidorPublica, ServidorPost
<1> QED
  BY <1>3, <1>4, <1>5

\* Only the server thread builds bids.
LEMMA SoServidorLicita ==
    ASSUME Indutivo, [Next]_vars
    PROVE  UNCHANGED <<licitacao, nLic>> \/ AdicionaLicitacao
<1>1. CASE UNCHANGED vars \/ \E i \in Objs : PassoFio(i)
  BY <1>1, PassoDeFio DEF vars, heaps
<1>2. CASE (\E m \in Mensagens : Recebe(m)) \/ (PassoServidor /\ ~ AdicionaLicitacao)
  BY <1>2 DEF Recebe, PassoServidor, PassoLocalServidor, Recusa, licitar,
         emprestimo, LeIndices, leilao, IniciaTerminaLeilao, EmpresaDesconhecida, CriaEmissao,
         emissao, LeUltimoLeilao, LeTaxaEmissao, ServidorPublica, ServidorPost, heaps
<1> QED
  BY <1>1, <1>2 DEF Next

\* Bids are never changed: a late one stays late.
LEMMA TardiaFica ==
    ASSUME Indutivo, [Next]_vars
    PROVE  /\ nLic' \in Nat /\ nLic <= nLic'
           /\ \A b \in 1 .. nLic : licitacao'[b] = licitacao[b]
           /\ \A a : SemTardias(a)' => SemTardias(a)
<1>1. TypeOK /\ nLic \in Nat /\ licitacao \in [Lics -> TipoLicitacao]
  BY ExchangeAssumption DEF Indutivo, TypeOK
<1>2. \/ UNCHANGED <<licitacao, nLic>>
      \/ nLic' = nLic + 1 /\ \E x : licitacao' = [licitacao EXCEPT ![nLic + 1] = x]
  BY SoServidorLicita DEF AdicionaLicitacao
<1>3. /\ nLic' \in Nat /\ nLic <= nLic'
      /\ \A b \in 1 .. nLic : licitacao'[b] = licitacao[b]
  <2>1. 1 .. nLic \subseteq Lics
    BY <1>1, ExchangeAssumption DEF TypeOK, Lics
  <2> QED
    BY <1>1, <1>2, <2>1
<1>4. \A b \in 1 .. nLic : b \in 1 .. nLic'
  BY <1>1, <1>3
<1>5. \A a : SemTardias(a)' => SemTardias(a)
  BY <1>3, <1>4 DEF SemTardias
<1> QED
  BY <1>3, <1>5

\* A closing thread changes no list but the one it selects investors from.
LEMMA ListaFica ==
    ASSUME Indutivo, NEW j \in Objs, PassoFio(j), NEW a \in Objs,
           ~ (alocaInvestidores(j) /\ fio[j].alvo = a)
    PROVE  obj'[a].licitacoes = obj[a].licitacoes
<1>1. obj \in [Objs -> TipoObjeto]
  BY DEF Indutivo, TypeOK
<1>2. CASE alocaInvestidores(j)
  <2>1. PICK t : obj' \in {obj, [obj EXCEPT ![fio[j].alvo].licitacoes = t]}
    BY <1>2 DEF alocaInvestidores
  <2> QED
    BY <1>1, <1>2, <2>1
<1>3. CASE RemoveEmissao(j)
  BY <1>1, <1>3 DEF RemoveEmissao, TipoObjeto
<1>4. CASE DecideLeilao(j) \/ DecideEmissao(j)
  <2>1. PICK b, v : obj' = [obj EXCEPT ![b].sucesso = v]
    BY <1>1, <1>4 DEF DecideLeilao, DecideEmissao
  <2> QED
    BY <1>1, <2>1 DEF TipoObjeto
<1>5. CASE obj' = obj
  BY <1>5
<1> QED
  BY <1>2, <1>3, <1>4, <1>5
  DEF PassoFio, PassoLocalFio, RemoveLeilao, IniciaTravessia, TravessiaInterrompida,
      ArquivaLeilao, ArquivaEmissao, FioPublica, FioPut, heaps

\* The objects that have a thread keep kind and company.
LEMMA ComFioFica ==
    ASSUME Indutivo, [Next]_vars, NEW i \in Objs, fio[i].pc # "nenhum"
    PROVE  obj'[i].tipo = obj[i].tipo /\ obj'[i].empresa = obj[i].empresa
<1>1. i <= nObj /\ nObj \in Nat
  BY ExchangeAssumption DEF Indutivo, InvFios, InvFio, TypeOK
<1> QED
  BY <1>1, ObjetoFica DEF Objs

\* An issue that another thread of the company took stays taken.
LEMMA OutroLevouFica ==
    ASSUME Indutivo, [Next]_vars, NEW i \in Objs, fio[i].pc # "nenhum", OutroLevou(i)
    PROVE  OutroLevou(i)'
<1>1. PICK j \in Objs \ {i} : /\ obj[j].tipo = "emissao" /\ obj[j].empresa = obj[i].empresa
                              /\ fio[j].alvo # Nulo
  BY DEF OutroLevou
<1>2. fio[j].pc \notin {"nenhum", "dorme"}
  BY <1>1 DEF Indutivo, InvFios, InvFio
<1>3. fio'[j].alvo = fio[j].alvo
  <2>1. CASE UNCHANGED vars
    BY <2>1 DEF vars
  <2>2. CASE (\E m \in Mensagens : Recebe(m)) \/ PassoServidor
    BY <1>2, <2>2, PassoDeServidor
  <2>3. ASSUME NEW k \in Objs, PassoFio(k) PROVE fio'[j].alvo = fio[j].alvo
    BY <1>2, <2>3, PassoDeFio
  <2> QED
    BY <2>1, <2>2, <2>3 DEF Next
<1> QED
  BY <1>1, <1>2, <1>3, ComFioFica DEF OutroLevou

\* An auction leaves the map in the step that wakes its thread.
LEMMA PassoAbertoDorme ==
    ASSUME Indutivo, AbertoDorme, [Next]_vars
    PROVE  AbertoDorme'
<1>1. TypeOK /\ InvServidor /\ InvFios /\ InvMapas
  BY DEF Indutivo
<1> SUFFICES ASSUME NEW e \in Nomes, leiloes'[e] # Nulo
             PROVE  fio'[leiloes'[e]].pc \in {"nenhum", "dorme"}
  BY DEF AbertoDorme
<1>2. CASE UNCHANGED vars
  BY <1>2 DEF vars, mapas, AbertoDorme
<1>3. CASE leilao
  <2>1. nObj < MaxObj /\ nObj \in Nat
    BY <1>1, <1>3, ExchangeAssumption DEF leilao, AceitaLeilao, InvServidor, TypeOK
  <2>2. nObj + 1 \in Objs
    BY <2>1, ExchangeAssumption DEF Objs
  <2>3. fio[nObj + 1].pc = "nenhum"
    BY <1>1, <2>1, <2>2 DEF InvFios, InvFio
  <2>4. fio' = fio /\ leiloes'[e] \in {leiloes[e], nObj + 1}
    BY <1>1, <1>3 DEF leilao, TypeOK
  <2> QED
    BY <2>3, <2>4 DEF AbertoDorme
<1>4. CASE (\E m \in Mensagens : Recebe(m)) \/ (PassoServidor /\ ~ leilao)
  <2>1. leiloes' = leiloes
    BY <1>4 DEF Recebe, PassoServidor, PassoLocalServidor, Recusa, licitar,
         emprestimo, AdicionaLicitacao, LeIndices, IniciaTerminaLeilao, EmpresaDesconhecida,
         CriaEmissao, emissao, LeUltimoLeilao, LeTaxaEmissao, ServidorPublica, ServidorPost, mapas
  <2>2. leiloes[e] \in Objs
    BY <1>1, <2>1 DEF TypeOK, Refs
  <2> QED
    BY <1>4, <2>1, <2>2, PassoDeServidor DEF AbertoDorme
<1>5. ASSUME NEW i \in Objs, PassoFio(i) PROVE fio'[leiloes'[e]].pc \in {"nenhum", "dorme"}
  <2>1. /\ fio[i].pc # "nenhum"
        /\ \A j \in Objs \ {i} : fio'[j] = fio[j]
        /\ fio[i].pc # "dorme" => leiloes' = leiloes
        /\ \A f \in Nomes \ {obj[i].empresa} : leiloes'[f] = leiloes[f]
    BY <1>5, PassoDeFio
  <2>2. leiloes'[e] = leiloes[e] /\ ~ (RemoveLeilao(i) /\ e = obj[i].empresa)
    <3>1. CASE RemoveLeilao(i)
      BY <1>1, <3>1 DEF RemoveLeilao, TypeOK
    <3>2. CASE RemoveEmissao(i)
      BY <3>2 DEF RemoveEmissao, RemoveLeilao
    <3>3. CASE ~ (RemoveLeilao(i) \/ RemoveEmissao(i))
      BY <1>5, <3>3 DEF PassoFio, PassoLocalFio, IniciaTravessia, TravessiaInterrompida,
                DecideLeilao, alocaInvestidores, DecideEmissao, ArquivaLeilao,
                ArquivaEmissao, FioPublica, FioPut, mapas
    <3> QED
      BY <3>1, <3>2, <3>3
  <2>3. leiloes[e] \in Objs /\ obj[leiloes[e]].tipo = "leilao" /\ obj[leiloes[e]].empresa = e
    BY <1>1, <2>2 DEF TypeOK, Refs, InvMapas, InvMapa
  <2>4. leiloes[e] # i
    <3> SUFFICES ASSUME leiloes[e] = i PROVE FALSE
      OBVIOUS
    <3>1. fio[i].pc = "dorme"
      BY <2>1, <2>2 DEF AbertoDorme
    <3>2. RemoveLeilao(i)
      BY <1>5, <2>3, <3>1 DEF PassoFio, PassoLocalFio, RemoveEmissao, IniciaTravessia, Travessia,
                TravessiaInterrompida, DecideLeilao, alocaInvestidores, DecideEmissao,
                ArquivaLeilao, ArquivaEmissao, FioPublica, FioPut
    <3> QED
      BY <2>2, <2>3, <3>2
  <2> QED
    BY <2>1, <2>2, <2>3, <2>4 DEF AbertoDorme
<1> QED
  BY <1>2, <1>3, <1>4, <1>5 DEF Next

\* A bid appended to an object that some thread has taken is late.
LEMMA TomadoFechado ==
    ASSUME Indutivo, AbertoDorme, NEW i \in Objs, fio[i].alvo # Nulo, NEW e \in Nomes
    PROVE  fio[i].alvo \notin {leiloes[e], emissoes[e]}
<1>1. TypeOK /\ InvFios /\ InvMapas /\ FechaOProprio
  BY DEF Indutivo
<1>2. fio[i].alvo \in Objs /\ fio[i].pc \notin {"nenhum", "dorme"}
  BY <1>1 DEF TypeOK, TipoFio, Refs, InvFios, InvFio
<1>3. CASE fio[i].alvo = leiloes[e]
  <2>1. obj[leiloes[e]].tipo = "leilao" /\ fio[leiloes[e]].pc \in {"nenhum", "dorme"}
    BY <1>1, <1>3 DEF InvMapas, InvMapa, AbertoDorme
  <2>2. obj[i].tipo = "leilao"
    BY <1>1, <1>3, <2>1 DEF InvFios, InvFio
  <2>3. fio[i].alvo = i
    BY <1>1, <1>2, <2>2 DEF FechaOProprio
  <2> QED
    BY <1>2, <1>3, <2>1, <2>3
<1>4. CASE fio[i].alvo = emissoes[e]
  BY <1>1, <1>4 DEF InvMapas, InvMapa
<1> QED
  BY <1>3, <1>4

\* What appending a bid does.
LEMMA EfeitoAdiciona ==
    ASSUME Indutivo, AdicionaLicitacao
    PROVE  /\ srv.alvo \in Objs /\ srv.pedido.empresa \in Nomes
           /\ nLic \in Nat /\ nLic + 1 \in Lics /\ nLic' = nLic + 1
           /\ licitacao'[nLic + 1].alvo = srv.alvo
           /\ licitacao'[nLic + 1].aTempo <=>
                 srv.alvo \in {leiloes[srv.pedido.empresa], emissoes[srv.pedido.empresa]}
           /\ obj'[srv.alvo].licitacoes = Append(obj[srv.alvo].licitacoes, nLic + 1)
           /\ obj'[srv.alvo].sucesso = obj[srv.alvo].sucesso
           /\ \A a \in Objs \ {srv.alvo} : obj'[a] = obj[a]
           /\ UNCHANGED <<leiloes, emissoes, fio>>
<1>1. TypeOK /\ InvServidor
  BY DEF Indutivo
<1>2. /\ srv.pc = "add" /\ srv.alvo \in Objs /\ srv.pedido.empresa \in Empresas /\ nLic < MaxLic
  BY <1>1 DEF AdicionaLicitacao, InvServidor
<1>3. nLic \in Nat /\ nLic + 1 \in Lics /\ srv.pedido.empresa \in Nomes
  BY <1>1, <1>2, ExchangeAssumption DEF TypeOK, Lics
<1> DEFINE aberto == srv.alvo \in {leiloes[srv.pedido.empresa], emissoes[srv.pedido.empresa]}
<1>4. PICK t : licitacao' = [licitacao EXCEPT ![nLic + 1] =
                  Licitacao(srv.alvo, t, srv.pedido.quantia, aberto)]
  BY DEF AdicionaLicitacao
<1> HIDE DEF aberto
<1>5. licitacao'[nLic + 1].alvo = srv.alvo /\ licitacao'[nLic + 1].aTempo = aberto
  BY <1>1, <1>3, <1>4 DEF TypeOK, Licitacao
<1>6. obj' = [obj EXCEPT ![srv.alvo].licitacoes = Append(obj[srv.alvo].licitacoes, nLic + 1)]
  BY <1>1, <1>2 DEF AdicionaLicitacao, TypeOK
<1>7. /\ obj'[srv.alvo].licitacoes = Append(obj[srv.alvo].licitacoes, nLic + 1)
      /\ obj'[srv.alvo].sucesso = obj[srv.alvo].sucesso
      /\ \A a \in Objs \ {srv.alvo} : obj'[a] = obj[a]
  BY <1>1, <1>2, <1>6 DEF TypeOK, TipoObjeto
<1>8. nLic' = nLic + 1 /\ UNCHANGED <<leiloes, emissoes, fio>>
  BY DEF AdicionaLicitacao, mapas
<1>9. licitacao'[nLic + 1].aTempo <=>
         srv.alvo \in {leiloes[srv.pedido.empresa], emissoes[srv.pedido.empresa]}
  BY <1>5, Zenon DEF aberto
<1> QED
  BY <1>2, <1>3, <1>5, <1>7, <1>8, <1>9

\* The server thread changes the list of an existing object only by appending.
LEMMA ListaFicaServidor ==
    ASSUME Indutivo, (\E m \in Mensagens : Recebe(m)) \/ PassoServidor,
           ~ AdicionaLicitacao, NEW a \in 1 .. nObj
    PROVE  obj'[a] = obj[a]
<1>1. nObj \in Nat /\ obj \in [Objs -> TipoObjeto] /\ 1 .. nObj \subseteq Objs
  BY ExchangeAssumption DEF Indutivo, TypeOK, Objs
<1>2. CASE leilao \/ CriaEmissao
  <2>1. PICK o : obj' = [obj EXCEPT ![nObj + 1] = o]
    BY <1>2 DEF leilao, CriaEmissao
  <2> QED
    BY <1>1, <2>1
<1>3. CASE ~ (leilao \/ CriaEmissao)
  BY <1>3 DEF Recebe, PassoServidor, PassoLocalServidor, Recusa, licitar,
         emprestimo, LeIndices, IniciaTerminaLeilao, EmpresaDesconhecida,
         emissao, LeUltimoLeilao, LeTaxaEmissao, ServidorPublica, ServidorPost, heaps
<1> QED
  BY <1>2, <1>3

\* The only bids that reach a list under a traversal are late ones.
LEMMA PassoTravessias ==
    ASSUME Indutivo, AbertoDorme, Travessias, [Next]_vars
    PROVE  Travessias'
<1>1. TypeOK /\ InvFios /\ AlvoUnico
  BY DEF Indutivo
<1> SUFFICES ASSUME NEW i \in Objs,
                    fio'[i].pc \in {"somando", "ordenando", "escrevendo"},
                    NEW a, a = fio'[i].alvo, SemTardias(a)'
             PROVE  Len(obj'[a].licitacoes) = fio'[i].n
  BY DEF Travessias, SemTardias
<1>2. SemTardias(a)
  BY TardiaFica
<1>3. fio[i].pc \in {"somando", "ordenando", "escrevendo"} /\ fio[i].alvo = a =>
         a \in Objs /\ a # Nulo /\ a \in 1 .. nObj /\ Len(obj[a].licitacoes) = fio[i].n
  <2>1. nObj \in Nat /\ fio[i].alvo \in Refs
    BY <1>1, ExchangeAssumption DEF TypeOK, TipoFio
  <2> QED
    BY <1>1, <1>2, <2>1, ExchangeAssumption DEF InvFios, InvFio, Refs, Objs, Travessias
<1>4. CASE UNCHANGED vars
  BY <1>3, <1>4 DEF vars, heaps
<1>5. CASE (\E m \in Mensagens : Recebe(m)) \/ PassoServidor
  <2>1. fio'[i] = fio[i]
    BY <1>5, PassoDeServidor
  <2>2. CASE ~ AdicionaLicitacao
    BY <1>3, <1>5, <2>1, <2>2, ListaFicaServidor
  <2>3. CASE AdicionaLicitacao
    <3>1. srv.alvo # a
      <4> SUFFICES ASSUME srv.alvo = a PROVE FALSE
        OBVIOUS
      <4>1. ~ licitacao'[nLic + 1].aTempo /\ licitacao'[nLic + 1].alvo = a
        <5>1. a = fio[i].alvo /\ a # Nulo
          BY <1>3, <2>1, Zenon
        <5> QED
          BY <2>3, <5>1, EfeitoAdiciona, TomadoFechado
      <4>2. nLic + 1 \in 1 .. nLic'
        BY <2>3, EfeitoAdiciona, SMTT(30)
      <4> QED
        BY <4>1, <4>2 DEF SemTardias
    <3> QED
      BY <1>3, <2>1, <2>3, <3>1, EfeitoAdiciona
  <2> QED
    BY <2>2, <2>3
<1>6. ASSUME NEW j \in Objs, PassoFio(j) PROVE Len(obj'[a].licitacoes) = fio'[i].n
  <2>1. CASE i # j
    <3>1. fio'[i] = fio[i]
      BY <1>6, <2>1, PassoDeFio
    <3>2. fio[j].alvo # a
      BY <1>1, <1>3, <2>1, <3>1 DEF AlvoUnico
    <3> QED
      BY <1>3, <1>6, <3>1, <3>2, ListaFica
  <2>2. CASE i = j
    <3>1. IniciaTravessia(i)
      <4>1. fio \in [Objs -> TipoFio]
        BY <1>1 DEF TypeOK
      <4>2. CASE RemoveLeilao(i) \/ RemoveEmissao(i)
        <5>1. PICK x \in {"morto", "soma", "arquiva"}, b \in Refs :
                 fio' = [fio EXCEPT ![i].pc = x, ![i].alvo = b]
          <6>1. obj[i].empresa \in Nomes
            BY <1>1 DEF TypeOK, TipoObjeto
          <6> QED
            BY <1>1, <4>2, <6>1 DEF RemoveLeilao, RemoveEmissao, TypeOK
        <5> QED
          BY <4>1, <5>1 DEF TipoFio
      <4>3. CASE alocaInvestidores(i)
        <5>1. PICK v : fio' = [fio EXCEPT ![i].pc = "arquiva", ![i].lista = v]
          BY <4>3 DEF alocaInvestidores
        <5> QED
          BY <4>1, <5>1 DEF TipoFio
      <4>4. CASE ~ (RemoveLeilao(i) \/ RemoveEmissao(i) \/ alocaInvestidores(i)
                      \/ IniciaTravessia(i))
        <5>1. PICK x \in {"morto", "ordena", "arquiva", "put", "publica", "soma", "json", "fim"} :
                 fio' = [fio EXCEPT ![i].pc = x]
          BY <1>6, <2>2, <4>4 DEF PassoFio, PassoLocalFio, TravessiaInterrompida,
                DecideLeilao, DecideEmissao, ArquivaLeilao, ArquivaEmissao, FioPublica, FioPut
        <5> QED
          BY <4>1, <5>1 DEF TipoFio
      <4> QED
        BY <4>2, <4>3, <4>4
    <3> QED
      BY <1>1, <3>1, EfeitoTravessia
  <2> QED
    BY <2>1, <2>2
<1> QED
  BY <1>4, <1>5, <1>6 DEF Next

\* Of the threads of a company that find the map empty, some other took the issue.
LEMMA PassoLevadas ==
    ASSUME Indutivo, Levadas, [Next]_vars
    PROVE  Levadas'
<1>1. TypeOK /\ InvServidor /\ InvFios /\ InvMapas
  BY DEF Indutivo
<1> SUFFICES ASSUME NEW i \in Objs, fio'[i].pc = "dorme", obj'[i].tipo = "emissao",
                    emissoes'[obj'[i].empresa] = Nulo
             PROVE  OutroLevou(i)'
  BY DEF Levadas
<1>2. ASSUME fio[i].pc = "dorme", emissoes[obj[i].empresa] = Nulo PROVE OutroLevou(i)'
  <2>1. obj[i].tipo = "emissao"
    BY <1>2, ComFioFica
  <2>2. OutroLevou(i)
    BY <1>2, <2>1 DEF Levadas
  <2> QED
    BY <1>2, <2>2, OutroLevouFica
<1>3. CASE UNCHANGED vars
  BY <1>2, <1>3 DEF vars, heaps, mapas
<1>4. CASE CriaEmissao
  <2> DEFINE e == srv.pedido.empresa
             n == nObj + 1
  <2>1. nObj < MaxObj /\ nObj \in Nat /\ e \in Empresas
    BY <1>1, <1>4, ExchangeAssumption DEF CriaEmissao, InvServidor, TypeOK
  <2>2. n \in Objs /\ n # Nulo /\ e \in Nomes
    BY <2>1, ExchangeAssumption DEF Objs
  <2>3. emissoes'[e] = n /\ \A f \in Nomes \ {e} : emissoes'[f] = emissoes[f]
    BY <1>1, <1>4, <2>2 DEF CriaEmissao, TypeOK
  <2>4. obj'[n].empresa = e
    BY <1>1, <1>4, <2>2 DEF CriaEmissao, TypeOK, Emissao, Objeto
  <2>5. i # n /\ obj'[i].empresa # e
    BY <2>2, <2>3, <2>4
  <2>6. fio[i].pc = "dorme"
    BY <1>4, <2>5, PassoDeServidor DEF PassoServidor, PassoLocalServidor,
                                       IniciaTerminaLeilao, CriaEmissao
  <2>7. obj'[i].empresa = obj[i].empresa /\ obj[i].empresa \in Nomes
    BY <1>1, <2>6, ComFioFica DEF TypeOK, TipoObjeto
  <2> QED
    BY <1>2, <2>3, <2>5, <2>6, <2>7
<1>5. CASE ((\E m \in Mensagens : Recebe(m)) \/ PassoServidor) /\ ~ CriaEmissao
  <2>1. emissoes' = emissoes
    BY <1>5 DEF Recebe, PassoServidor, PassoLocalServidor, Recusa, licitar, leilao,
         emprestimo, AdicionaLicitacao, LeIndices, IniciaTerminaLeilao, EmpresaDesconhecida,
         emissao, LeUltimoLeilao, LeTaxaEmissao, ServidorPublica, ServidorPost, mapas
  <2>2. fio[i].pc = "dorme"
    <3> SUFFICES ASSUME IniciaTerminaLeilao, i = srv.alvo PROVE FALSE
      BY <1>5, PassoDeServidor
    <3>1. /\ srv.pedido \in Mensagens /\ leiloes[srv.pedido.empresa] = i /\ obj' = obj
      BY <1>1 DEF IniciaTerminaLeilao, InvServidor, heaps
    <3>2. srv.pedido.empresa \in Nomes /\ i # Nulo
      BY <3>1, ExchangeAssumption DEF Objs
    <3> QED
      BY <1>1, <3>1, <3>2 DEF InvMapas, InvMapa
  <2>3. obj'[i].empresa = obj[i].empresa
    BY <2>2, ComFioFica
  <2> QED
    BY <1>2, <2>1, <2>2, <2>3
<1>6. ASSUME NEW k \in Objs, PassoFio(k) PROVE OutroLevou(i)'
  <2>1. k # i /\ fio'[i] = fio[i] /\ fio[k].pc # "nenhum"
    BY <1>6, PassoDeFio
  <2>2. /\ obj'[i].empresa = obj[i].empresa /\ obj'[i].tipo = obj[i].tipo
        /\ obj'[k].empresa = obj[k].empresa /\ obj'[k].tipo = obj[k].tipo
        /\ obj[i].empresa \in Nomes
    BY <1>1, <2>1, ComFioFica DEF TypeOK, TipoObjeto
  <2>3. CASE emissoes[obj[i].empresa] = Nulo
    BY <1>2, <2>1, <2>2, <2>3
  <2>4. CASE emissoes[obj[i].empresa] # Nulo
    <3>1. RemoveEmissao(k) /\ obj[k].empresa = obj[i].empresa
      <4>1. CASE RemoveEmissao(k)
        BY <1>6, <2>2, <2>4, <4>1, PassoDeFio
      <4>2. CASE ~ RemoveEmissao(k)
        <5>1. emissoes' = emissoes
          BY <1>6, <4>2 DEF PassoFio, PassoLocalFio, RemoveLeilao, IniciaTravessia,
                TravessiaInterrompida, DecideLeilao, alocaInvestidores, DecideEmissao,
                ArquivaLeilao, ArquivaEmissao, FioPublica, FioPut, mapas
        <5> QED
          BY <2>2, <2>4, <5>1
      <4> QED
        BY <4>1, <4>2
    <3>2. fio'[k].alvo = emissoes[obj[k].empresa] /\ obj[k].tipo = "emissao"
      <4>1. PICK x : fio' = [fio EXCEPT ![k].pc = x, ![k].alvo = emissoes[obj[k].empresa]]
        BY <3>1 DEF RemoveEmissao
      <4> QED
        BY <1>1, <3>1, <4>1 DEF RemoveEmissao, TypeOK, TipoFio
    <3> QED
      BY <2>1, <2>2, <2>4, <3>1, <3>2 DEF OutroLevou
  <2> QED
    BY <2>3, <2>4
<1> QED
  BY <1>3, <1>4, <1>5, <1>6 DEF Next

\* What a thread dies of does not go away.
LEMMA PassoMorteExplicada ==
    ASSUME Indutivo, AbertoDorme, Travessias, Levadas, MorteExplicada, [Next]_vars
    PROVE  MorteExplicada'
<1>1. TypeOK /\ InvFios /\ FechaOProprio
  BY DEF Indutivo
<1> SUFFICES ASSUME NEW i \in Objs, fio'[i].pc = "morto", NEW a, a = fio'[i].alvo
             PROVE  \/ a # Nulo /\ ~ SemTardias(a)'
                    \/ a = Nulo /\ obj'[i].tipo = "emissao" /\ OutroLevou(i)'
  BY DEF MorteExplicada, OutroLevou, SemTardias
<1>2. CASE fio[i].pc = "morto"
  <2>1. fio'[i] = fio[i]
    <3>1. CASE UNCHANGED vars
      BY <3>1 DEF vars
    <3>2. CASE (\E m \in Mensagens : Recebe(m)) \/ PassoServidor
      BY <1>2, <3>2, PassoDeServidor
    <3>3. ASSUME NEW k \in Objs, PassoFio(k) PROVE fio'[i] = fio[i]
      BY <1>2, <3>3, PassoDeFio
    <3> QED
      BY <3>1, <3>2, <3>3 DEF Next
  <2>2. \/ a # Nulo /\ ~ SemTardias(a)
        \/ a = Nulo /\ obj[i].tipo = "emissao" /\ OutroLevou(i)
    BY <1>2, <2>1 DEF MorteExplicada, OutroLevou
  <2> QED
    BY <1>2, <2>2, TardiaFica, ComFioFica, OutroLevouFica
<1>3. CASE fio[i].pc # "morto"
  <2>1. PassoFio(i)
    <3>1. CASE UNCHANGED vars
      BY <1>3, <3>1 DEF vars
    <3>2. CASE (\E m \in Mensagens : Recebe(m)) \/ PassoServidor
      BY <1>3, <3>2, PassoDeServidor
    <3>3. ASSUME NEW k \in Objs, PassoFio(k) PROVE PassoFio(i)
      BY <1>3, <3>3, PassoDeFio
    <3> QED
      BY <3>1, <3>2, <3>3 DEF Next
  <2>2. CASE TravessiaInterrompida(i)
    <3>1. fio[i].pc \in {"somando", "ordenando", "escrevendo"}
          /\ Len(obj[fio[i].alvo].licitacoes) # fio[i].n
      BY <2>2 DEF TravessiaInterrompida, LicitacoesDe
    <3>2. fio'[i].alvo = fio[i].alvo /\ fio[i].alvo # Nulo
      BY <1>1, <2>1, <3>1, PassoDeFio DEF InvFios, InvFio
    <3>3. ~ SemTardias(a)
      BY <3>1, <3>2 DEF Travessias
    <3> QED
      BY <3>2, <3>3, TardiaFica
  <2>3. CASE RemoveLeilao(i)
    <3>1. fio[i].pc = "dorme" /\ leiloes[obj[i].empresa] = i
      BY <1>1, <2>3 DEF RemoveLeilao, FechaOProprio
    <3>2. i # Nulo
      BY ExchangeAssumption DEF Objs
    <3>3. fio'[i].pc = "soma"
      BY <1>1, <2>3, <3>1, <3>2 DEF RemoveLeilao, TypeOK, TipoFio
    <3> QED
      BY <3>3
  <2>4. CASE RemoveEmissao(i)
    <3> DEFINE b == emissoes[obj[i].empresa]
    <3>1. fio[i].pc = "dorme" /\ obj[i].tipo = "emissao"
      BY <2>4 DEF RemoveEmissao
    <3>2. fio' = [fio EXCEPT ![i].pc = IF b = Nulo THEN "morto" ELSE "arquiva", ![i].alvo = b]
      BY <2>4 DEF RemoveEmissao
    <3> HIDE DEF b
    <3>3. b = Nulo /\ a = Nulo
      BY <1>1, <3>2 DEF TypeOK, TipoFio
    <3>4. OutroLevou(i)
      BY <3>1, <3>3 DEF Levadas, b
    <3> QED
      BY <3>1, <3>3, <3>4, ComFioFica, OutroLevouFica
  <2>5. CASE IniciaTravessia(i)
    BY <1>1, <2>5, EfeitoTravessia
  <2>6. CASE alocaInvestidores(i)
    <3>1. PICK v : fio' = [fio EXCEPT ![i].pc = "arquiva", ![i].lista = v]
      BY <2>6 DEF alocaInvestidores
    <3> QED
      BY <1>1, <3>1 DEF TypeOK, TipoFio
  <2>7. CASE ~ (RemoveLeilao(i) \/ RemoveEmissao(i) \/ alocaInvestidores(i)
                  \/ IniciaTravessia(i) \/ TravessiaInterrompida(i))
    <3>1. PICK x \in {"ordena", "arquiva", "put", "publica", "soma", "json", "fim"} :
             fio' = [fio EXCEPT ![i].pc = x]
      BY <2>1, <2>7 DEF PassoFio, PassoLocalFio, DecideLeilao, DecideEmissao,
                        ArquivaLeilao, ArquivaEmissao, FioPublica, FioPut
    <3> QED
      BY <1>1, <3>1 DEF TypeOK, TipoFio
  <2> QED
    BY <2>2, <2>3, <2>4, <2>5, <2>6, <2>7
<1> QED
  BY <1>2, <1>3

\* A TerminaLeilao thread dies only of a late bid, a TerminaEmissao thread only of
\* one or of another thread of its company having taken the issue.
THEOREM MortesExplicadas == Spec => []MorteExplicada
<1> DEFINE I == AbertoDorme /\ Travessias /\ Levadas /\ MorteExplicada
<1>1. Init => I
  BY DEF Init, AbertoDorme, Travessias, Levadas, MorteExplicada, PorIniciar
<1>2. Indutivo /\ I /\ [Next]_vars => I'
  BY PassoAbertoDorme, PassoTravessias, PassoLevadas, PassoMorteExplicada
<1>3. I => MorteExplicada
  OBVIOUS
<1> QED
  BY <1>1, <1>2, <1>3, IndutivoSempre, PTL DEF Spec

-----------------------------------------------------------------------------
(* Which bids an auction ends with.                                        *)

\* Taking bids in the order of  sorted  takes every one of them.
LEMMA OrdemCompleta ==
    ASSUME NEW n \in Nat, NEW p \in [1 .. n -> 1 .. n],
           \A x, y \in 1 .. n : p[x] = p[y] => x = y
    PROVE  \A k \in 1 .. n : \E q \in 1 .. n : p[q] = k
<1> DEFINE S == 1 .. n
<1>1. IsFiniteSet(S)
  BY FS_Interval
<1>2. p \in Injection(S, S)
  BY Fun_IsInj
<1> HIDE DEF S
<1>3. p \in Surjection(S, S)
  BY <1>1, <1>2, FS_Injection
<1>4. \A k \in S : \E q \in S : p[q] = k
  BY <1>3, Fun_SurjectionProperties
<1> QED
  BY <1>4 DEF S

\* The bids alocaInvestidores() selects come before those it leaves out, by rate and
\* then by position in the list.
LEMMA SelecaoOrdenada ==
    ASSUME NEW S, NEW s \in Seq(S), NEW lic, NEW montante,
           \A k \in DOMAIN s : lic[s[k]].taxa \in Int,
           NEW t \in Alocacoes(s, lic, montante),
           NEW j \in DOMAIN t
    PROVE  \E l \in DOMAIN s :
              /\ t[j] = s[l]
              /\ \A k \in DOMAIN s : (\A i \in DOMAIN t : t[i] # s[k]) =>
                    \/ lic[s[l]].taxa < lic[s[k]].taxa
                    \/ lic[s[l]].taxa = lic[s[k]].taxa /\ l < k
<1> DEFINE n == Len(s)
           antes(x, y) == \/ lic[s[x]].taxa < lic[s[y]].taxa
                          \/ lic[s[x]].taxa = lic[s[y]].taxa /\ x < y
<1>1. n \in Nat /\ DOMAIN s = 1 .. n
  OBVIOUS
<1>2. PICK u \in Ordenadas(s, lic) :
         t \in {SubSeq(u, 1, k) : k \in Cortes(u, lic, montante)}
  BY DEF Alocacoes
<1>3. PICK p \in [DOMAIN s -> DOMAIN s] :
         /\ \A x, y \in DOMAIN s : x < y => antes(p[x], p[y])
         /\ u = [k \in DOMAIN s |-> s[p[k]]]
  BY <1>2 DEF Ordenadas
<1>4. \A x, y \in 1 .. n : p[x] \in 1 .. n /\ lic[s[p[x]]].taxa \in Int
  BY <1>1, <1>3
<1>5. \A x, y \in 1 .. n : p[x] = p[y] => x = y
  <2> SUFFICES ASSUME NEW x \in 1 .. n, NEW y \in 1 .. n, p[x] = p[y], x < y PROVE FALSE
    BY <1>1
  <2>1. antes(p[x], p[y])
    BY <1>1, <1>3
  <2> QED
    BY <1>1, <1>4, <2>1
<1>6. \A k \in 1 .. n : \E q \in 1 .. n : p[q] = k
  <2>1. p \in [1 .. n -> 1 .. n]
    BY <1>1
  <2> HIDE DEF n
  <2> QED
    BY <1>1, <1>5, <2>1, OrdemCompleta
<1>7. u \in Seq(S) /\ Len(u) = n /\ \A x \in 1 .. n : u[x] = s[p[x]]
  <2>1. \A x \in 1 .. n : s[p[x]] \in S
    BY <1>1, <1>4
  <2>2. u \in [1 .. n -> S] /\ \A x \in 1 .. n : u[x] = s[p[x]]
    BY <1>1, <1>3, <2>1
  <2> HIDE DEF n
  <2>3. \A g \in [1 .. n -> S] : g \in Seq(S) /\ Len(g) = n
    BY <1>1, SMT
  <2> QED
    BY <2>2, <2>3
<1>8. PICK c \in Nat : c <= n /\ t = SubSeq(u, 1, c)
  <2>1. \A k \in Cortes(u, lic, montante) : k \in 0 .. Len(u)
    BY DEF Cortes
  <2> QED
    BY <1>1, <1>2, <1>7, <2>1
<1>9. DOMAIN t = 1 .. c /\ \A x \in 1 .. c : t[x] = s[p[x]] /\ x \in 1 .. n
  <2>1. \A x \in 1 .. c : x \in 1 .. n /\ u[x] \in S
    BY <1>1, <1>7, <1>8
  <2>2. Len(t) = c /\ t \in Seq(S) /\ \A x \in 1 .. c : t[x] = u[x]
    BY <1>7, <1>8, <2>1
  <2> QED
    BY <1>7, <2>1, <2>2
<1>10. ASSUME NEW k \in DOMAIN s, \A i \in DOMAIN t : t[i] # s[k] PROVE antes(p[j], k)
  <2>1. PICK q \in 1 .. n : p[q] = k
    BY <1>1, <1>6
  <2>2. q \notin 1 .. c
    BY <1>9, <1>10, <2>1
  <2>3. j < q /\ j \in 1 .. n
    BY <1>1, <1>8, <1>9, <2>2
  <2> QED
    BY <1>1, <1>3, <2>1, <2>3
<1>11. p[j] \in DOMAIN s /\ t[j] = s[p[j]]
  BY <1>1, <1>4, <1>9
<1> QED
  BY <1>10, <1>11

\* What selecting the investors does: nothing, or a new list.
LEMMA EfeitoAloca ==
    ASSUME Indutivo, NEW i \in Objs, alocaInvestidores(i)
    PROVE  /\ fio[i].pc = "ordenando" /\ fio[i].alvo = i /\ obj[i].tipo = "leilao"
           /\ fio'[i].pc = "arquiva" /\ fio'[i].alvo = i
           /\ UNCHANGED <<licitacao, nLic>>
           /\ \/ obj' = obj /\ fio'[i].lista = FALSE
              \/ /\ fio'[i].lista = TRUE /\ obj'[i].sucesso = obj[i].sucesso
                 /\ obj'[i].licitacoes \in Alocacoes(Vistas(i), licitacao, obj[i].montante)
<1>1. TypeOK /\ InvFio(i) /\ fio[i].pc = "ordenando" /\ FechaOProprio
  BY DEF Indutivo, InvFios, alocaInvestidores
<1>2. obj[i].tipo = "leilao" /\ fio[i].alvo = i
  BY <1>1 DEF InvFio, FechaOProprio
<1>3. PICK t \in Alocacoes(Vistas(i), licitacao, obj[i].montante) :
         \/ obj' = obj /\ fio' = [fio EXCEPT ![i].pc = "arquiva", ![i].lista = FALSE]
         \/ /\ obj' = [obj EXCEPT ![i].licitacoes = t]
            /\ fio' = [fio EXCEPT ![i].pc = "arquiva", ![i].lista = TRUE]
  <2>1. PICK t \in Alocacoes(Vistas(i), licitacao, obj[i].montante) :
           LET x == Len(t) # Len(LicitacoesDe(i))
           IN  /\ obj' = IF x THEN [obj EXCEPT ![i].licitacoes = t] ELSE obj
               /\ fio' = [fio EXCEPT ![i].pc = "arquiva", ![i].lista = x]
    BY <1>2 DEF alocaInvestidores
  <2> DEFINE x == Len(t) # Len(LicitacoesDe(i))
  <2>2. /\ obj' = IF x THEN [obj EXCEPT ![i].licitacoes = t] ELSE obj
        /\ fio' = [fio EXCEPT ![i].pc = "arquiva", ![i].lista = x]
    BY <2>1
  <2>3. x \in BOOLEAN
    OBVIOUS
  <2> HIDE DEF x
  <2> QED
    BY <2>2, <2>3
<1>4. /\ fio'[i].pc = "arquiva" /\ fio'[i].alvo = fio[i].alvo
      /\ \/ obj' = obj /\ fio'[i].lista = FALSE
         \/ obj' = [obj EXCEPT ![i].licitacoes = t] /\ fio'[i].lista = TRUE
  BY <1>1, <1>3 DEF TypeOK, TipoFio
<1>5. obj' = [obj EXCEPT ![i].licitacoes = t] =>
         obj'[i].licitacoes = t /\ obj'[i].sucesso = obj[i].sucesso
  BY <1>1 DEF TypeOK, TipoObjeto
<1>6. UNCHANGED <<licitacao, nLic>>
  BY DEF alocaInvestidores
<1> QED
  BY <1>1, <1>2, <1>4, <1>5, <1>6

\* The road of a closing thread through the selection of investors.
LEMMA CaminhoDoFio ==
    ASSUME Indutivo, NEW i \in Objs, PassoFio(i), ~ alocaInvestidores(i)
    PROVE  /\ fio'[i].lista = fio[i].lista
           /\ fio'[i].pc = "ordenando" => IniciaTravessia(i) /\ fio[i].pc = "ordena"
           /\ fio'[i].pc = "ordena" => DecideLeilao(i) /\ Coberto(i)
           /\ fio[i].pc \in {"arquiva", "publica", "json", "escrevendo", "put"}
                /\ obj[i].tipo = "leilao" =>
                   fio'[i].pc \in {"publica", "json", "escrevendo", "put", "fim", "morto"}
<1>1. TypeOK /\ fio \in [Objs -> TipoFio]
  BY DEF Indutivo, TypeOK
<1>2. CASE RemoveLeilao(i) \/ RemoveEmissao(i)
  <2>1. PICK x, b : /\ fio' = [fio EXCEPT ![i].pc = x, ![i].alvo = b]
                    /\ x \in {"morto", "soma", "arquiva"} /\ fio[i].pc = "dorme"
    BY <1>2 DEF RemoveLeilao, RemoveEmissao
  <2> QED
    BY <1>1, <2>1 DEF TipoFio
<1>3. CASE IniciaTravessia(i)
  BY <1>1, <1>3, EfeitoTravessia
<1>4. CASE DecideLeilao(i)
  <2>1. fio[i].pc = "somando"
    BY <1>4 DEF DecideLeilao
  <2>2. CASE Coberto(i)
    <3>1. fio' = [fio EXCEPT ![i].pc = "ordena"]
      BY <1>4, <2>2 DEF DecideLeilao
    <3> QED
      BY <1>1, <1>4, <2>1, <2>2, <3>1 DEF TipoFio
  <2>3. CASE ~ Coberto(i)
    <3>1. fio' = [fio EXCEPT ![i].pc = "arquiva"]
      BY <1>4, <2>3 DEF DecideLeilao
    <3> QED
      BY <1>1, <2>1, <3>1 DEF TipoFio
  <2> QED
    BY <2>2, <2>3
<1>5. CASE DecideEmissao(i)
  BY <1>1, <1>5 DEF DecideEmissao, TipoFio
<1>6. CASE TravessiaInterrompida(i) \/ ArquivaLeilao(i) \/ ArquivaEmissao(i) \/ FioPut(i)
  <2>1. PICK x \in {"morto", "publica", "fim"} : fio' = [fio EXCEPT ![i].pc = x]
    BY <1>6 DEF TravessiaInterrompida, ArquivaLeilao, ArquivaEmissao, FioPut
  <2> QED
    BY <1>1, <2>1 DEF TipoFio
<1>7. CASE FioPublica(i)
  <2>1. PICK x \in {"soma", "json", "put"} :
           /\ fio' = [fio EXCEPT ![i].pc = x]
           /\ x = "soma" => obj[i].tipo = "emissao"
    BY <1>7 DEF FioPublica
  <2>2. fio'[i].pc = x /\ fio'[i].lista = fio[i].lista
    BY <1>1, <2>1 DEF TipoFio
  <2> QED
    BY <2>1, <2>2
<1> QED
  BY <1>2, <1>3, <1>4, <1>5, <1>6, <1>7 DEF PassoFio, PassoLocalFio

\* The success of an auction, once set, is not taken back.
LEMMA SucessoFica ==
    ASSUME Indutivo, [Next]_vars, NEW a \in Objs, fio[a].pc # "nenhum",
           obj[a].tipo = "leilao", obj[a].sucesso
    PROVE  obj'[a].sucesso
<1>1. TypeOK /\ InvFios /\ obj \in [Objs -> TipoObjeto]
  BY DEF Indutivo, TypeOK
<1>2. a <= nObj /\ nObj \in Nat /\ a \in 1 .. nObj
  BY <1>1, ExchangeAssumption DEF InvFios, InvFio, TypeOK, Objs
<1>3. CASE UNCHANGED vars
  BY <1>3 DEF vars, heaps
<1>4. CASE (\E m \in Mensagens : Recebe(m)) \/ PassoServidor
  <2>1. CASE AdicionaLicitacao
    BY <2>1, EfeitoAdiciona
  <2>2. CASE ~ AdicionaLicitacao
    BY <1>2, <1>4, <2>2, ListaFicaServidor
  <2> QED
    BY <2>1, <2>2
<1>5. ASSUME NEW j \in Objs, PassoFio(j) PROVE obj'[a].sucesso
  <2>1. CASE alocaInvestidores(j)
    <3>1. PICK b, t : obj' \in {obj, [obj EXCEPT ![b].licitacoes = t]}
      BY <2>1 DEF alocaInvestidores
    <3> QED
      BY <1>1, <3>1 DEF TipoObjeto
  <2>2. CASE RemoveEmissao(j)
    <3>1. PICK b : obj' \in {obj, [obj EXCEPT ![b].sucesso = TRUE]}
      BY <2>2 DEF RemoveEmissao
    <3> QED
      BY <1>1, <3>1 DEF TipoObjeto
  <2>3. CASE DecideLeilao(j)
    <3> DEFINE v == obj[fio[j].alvo].sucesso \/ Coberto(j)
    <3>1. obj' = [obj EXCEPT ![fio[j].alvo].sucesso = v]
      BY <1>1, <2>3 DEF DecideLeilao
    <3>2. fio[j].alvo = a => v = TRUE
      OBVIOUS
    <3> HIDE DEF v
    <3>3. CASE fio[j].alvo = a
      <4>1. obj'[a].sucesso = v
        BY <1>1, <3>1, <3>3 DEF TipoObjeto
      <4> QED
        BY <3>2, <3>3, <4>1
    <3>4. CASE fio[j].alvo # a
      BY <1>1, <3>1, <3>4
    <3> QED
      BY <3>3, <3>4
  <2>4. CASE DecideEmissao(j)
    <3>1. fio[j].pc = "somando" /\ obj[j].tipo = "emissao"
      BY <2>4 DEF DecideEmissao
    <3>2. fio[j].alvo # a
      BY <1>1, <3>1 DEF InvFios, InvFio
    <3>3. PICK v : obj' = [obj EXCEPT ![fio[j].alvo].sucesso = v]
      BY <2>4 DEF DecideEmissao
    <3> QED
      BY <1>1, <3>2, <3>3
  <2>5. CASE obj' = obj
    BY <2>5
  <2> QED
    BY <1>5, <2>1, <2>2, <2>3, <2>4, <2>5
    DEF PassoFio, PassoLocalFio, RemoveLeilao, IniciaTravessia, TravessiaInterrompida,
        ArquivaLeilao, ArquivaEmissao, FioPublica, FioPut, heaps
<1> QED
  BY <1>3, <1>4, <1>5 DEF Next

\* Investors are selected once, and only after the success was decided.
LEMMA PassoInvSelecao ==
    ASSUME Indutivo, InvSelecao, [Next]_vars
    PROVE  InvSelecao'
<1>1. TypeOK /\ InvFios /\ FechaOProprio
  BY DEF Indutivo
<1> SUFFICES ASSUME NEW i \in Objs
             PROVE  /\ fio'[i].pc \in {"ordena", "ordenando"} => obj'[fio'[i].alvo].sucesso
                    /\ fio'[i].lista =>
                          /\ fio'[i].pc \in {"arquiva", "publica", "json", "escrevendo", "put",
                                             "fim", "morto"}
                          /\ fio'[i].alvo = i /\ obj'[i].tipo = "leilao" /\ obj'[i].sucesso
  BY DEF InvSelecao
<1>2. fio[i].pc \in {"ordena", "ordenando"} =>
         obj[i].tipo = "leilao" /\ fio[i].alvo = i /\ obj[i].sucesso
  <2>1. fio[i].pc = "ordena" => obj[i].tipo = "leilao"
    BY <1>1 DEF InvFios, InvFio
  <2> QED
    BY <1>1, <2>1 DEF InvFios, InvFio, FechaOProprio, InvSelecao
<1>3. fio[i].lista \/ fio[i].pc \in {"ordena", "ordenando"} =>
         /\ fio[i].pc # "nenhum" /\ fio[i].alvo = i
         /\ obj'[i].tipo = "leilao" /\ obj'[i].sucesso
  BY <1>2, ComFioFica, SucessoFica DEF InvSelecao
<1>4. CASE fio'[i] = fio[i]
  BY <1>3, <1>4 DEF InvSelecao
<1>5. CASE UNCHANGED vars
  BY <1>4, <1>5 DEF vars
<1>6. CASE (\E m \in Mensagens : Recebe(m)) \/ PassoServidor
  BY <1>4, <1>6, PassoDeServidor
<1>7. ASSUME NEW j \in Objs, PassoFio(j), j # i PROVE fio'[i] = fio[i]
  BY <1>7, PassoDeFio
<1>8. CASE alocaInvestidores(i)
  BY <1>3, <1>8, EfeitoAloca
<1>9. CASE PassoFio(i) /\ ~ alocaInvestidores(i)
  <2>1. /\ fio[i].pc # "dorme" => fio'[i].alvo = fio[i].alvo
        /\ fio[i].pc \notin {"nenhum", "fim", "morto"}
    BY <1>9, PassoDeFio
  <2>2. /\ fio'[i].lista = fio[i].lista
        /\ fio'[i].pc = "ordenando" => IniciaTravessia(i) /\ fio[i].pc = "ordena"
        /\ fio'[i].pc = "ordena" => DecideLeilao(i) /\ Coberto(i)
        /\ fio[i].pc \in {"arquiva", "publica", "json", "escrevendo", "put"}
             /\ obj[i].tipo = "leilao" =>
                fio'[i].pc \in {"publica", "json", "escrevendo", "put", "fim", "morto"}
    BY <1>9, CaminhoDoFio
  <2>3. fio'[i].pc = "ordenando" => obj'[fio'[i].alvo].sucesso
    BY <1>3, <2>1, <2>2
  <2>4. ASSUME fio'[i].pc = "ordena" PROVE obj'[fio'[i].alvo].sucesso
    <3> DEFINE a == fio[i].alvo
               v == obj[a].sucesso \/ Coberto(i)
    <3>1. DecideLeilao(i) /\ Coberto(i)
      BY <2>2, <2>4
    <3>2. fio[i].pc = "somando" /\ obj' = [obj EXCEPT ![a].sucesso = v]
      BY <1>1, <3>1 DEF DecideLeilao, TypeOK
    <3>3. v = TRUE
      BY <3>1
    <3>4. a \in Objs /\ fio'[i].alvo = a
      BY <1>1, <2>1, <3>2 DEF InvFios, InvFio, TypeOK, TipoFio, Refs
    <3> HIDE DEF v
    <3>5. obj'[a].sucesso = TRUE
      BY <1>1, <3>2, <3>3, <3>4 DEF TypeOK, TipoObjeto
    <3> QED
      BY <3>4, <3>5
  <2>5. ASSUME fio'[i].lista
        PROVE  fio'[i].pc \in {"arquiva", "publica", "json", "escrevendo", "put", "fim", "morto"}
               /\ fio'[i].alvo = i
    BY <1>3, <2>1, <2>2, <2>5 DEF InvSelecao
  <2> QED
    BY <1>3, <2>2, <2>3, <2>4, <2>5
<1> QED
  BY <1>4, <1>5, <1>6, <1>7, <1>8, <1>9 DEF Next, PassoFio, PassoLocalFio

\* A list with one more bid.
LEMMA AcrescentaUm ==
    ASSUME NEW S, NEW s \in Seq(S), NEW x \in S
    PROVE  /\ DOMAIN Append(s, x) = (DOMAIN s) \cup {Len(s) + 1}
           /\ Append(s, x)[Len(s) + 1] = x
           /\ \A k \in DOMAIN s : Append(s, x)[k] = s[k] /\ k < Len(s) + 1
  OBVIOUS

\* Appending keeps the list in the order of the bids; only a selection may not.
LEMMA PassoInvListas ==
    ASSUME Indutivo, InvSelecao, InvListas, [Next]_vars
    PROVE  InvListas'
<1>1. TypeOK /\ InvFios
  BY DEF Indutivo
<1> SUFFICES ASSUME NEW a \in Objs PROVE InvLista(a)'
  BY DEF InvListas
<1> DEFINE s == obj[a].licitacoes
<1>2. /\ s \in Seq(Lics) /\ \A k \in DOMAIN s : s[k] \in Nat /\ s[k] <= nLic
      /\ ~ fio[a].lista => \A k, l \in DOMAIN s : k < l => s[k] < s[l]
      /\ nLic \in Nat
  <2>1. s \in Seq(Lics) /\ nLic \in Nat
    BY <1>1, ExchangeAssumption DEF TypeOK, TipoObjeto
  <2>2. \A k \in DOMAIN s : s[k] \in Nat
    BY <2>1, ExchangeAssumption DEF Lics
  <2> QED
    BY <2>1, <2>2 DEF InvListas, InvLista
<1>3. nLic' \in Nat /\ nLic <= nLic'
  BY TardiaFica
<1>4. ASSUME obj'[a].licitacoes \in {s, <<>>}, fio[a].lista => fio'[a].lista
      PROVE  InvLista(a)'
  <2>1. CASE obj'[a].licitacoes = s
    <3>1. \A k \in DOMAIN s : s[k] <= nLic'
      BY <1>2, <1>3
    <3> QED
      BY <1>2, <1>4, <2>1, <3>1 DEF InvLista
  <2>2. CASE obj'[a].licitacoes = <<>>
    BY <2>2 DEF InvLista
  <2> QED
    BY <1>4, <2>1, <2>2
<1>5. CASE UNCHANGED vars
  BY <1>4, <1>5 DEF vars, heaps
<1>6. CASE AdicionaLicitacao
  <2>1. CASE a # srv.alvo
    BY <1>4, <1>6, <2>1, EfeitoAdiciona
  <2>2. CASE a = srv.alvo
    <3> DEFINE n == nLic + 1
               t == Append(s, n)
    <3>1. obj'[a].licitacoes = t /\ n \in Lics /\ nLic' = n /\ fio' = fio
      BY <1>6, <2>2, EfeitoAdiciona
    <3>2. /\ DOMAIN t = (DOMAIN s) \cup {Len(s) + 1} /\ t[Len(s) + 1] = n
          /\ \A k \in DOMAIN s : t[k] = s[k] /\ k < Len(s) + 1
      BY <1>2, <3>1, AcrescentaUm
    <3>3. \A k \in DOMAIN t : t[k] <= n
      BY <1>2, <3>2
    <3> HIDE DEF s, t
    <3>4. ASSUME ~ fio[a].lista, NEW k \in DOMAIN t, NEW l \in DOMAIN t, k < l
          PROVE  t[k] < t[l]
      <4>1. k \in DOMAIN s
        <5>1. DOMAIN s = 1 .. Len(s) /\ Len(s) \in Nat
          BY <1>2
        <5> QED
          BY <3>2, <3>4, <5>1
      <4> QED
        BY <1>2, <3>2, <3>4, <4>1
    <3> QED
      BY <3>1, <3>3, <3>4 DEF InvLista
  <2> QED
    BY <2>1, <2>2
<1>7. CASE ((\E m \in Mensagens : Recebe(m)) \/ PassoServidor) /\ ~ AdicionaLicitacao
  <2>1. obj'[a].licitacoes \in {s, <<>>}
    <3>1. CASE leilao \/ CriaEmissao
      <4>1. PICK o : obj' = [obj EXCEPT ![nObj + 1] = o] /\ o.licitacoes = <<>>
        BY <3>1 DEF leilao, CriaEmissao, Leilao, Emissao, Objeto
      <4> QED
        BY <1>1, <4>1 DEF TypeOK
    <3>2. CASE ~ (leilao \/ CriaEmissao)
      BY <1>7, <3>2 DEF Recebe, PassoServidor, PassoLocalServidor, Recusa, licitar,
         emprestimo, LeIndices, IniciaTerminaLeilao, EmpresaDesconhecida,
         emissao, LeUltimoLeilao, LeTaxaEmissao, ServidorPublica, ServidorPost, heaps
    <3> QED
      BY <3>1, <3>2
  <2>2. fio[a].lista => fio'[a].lista
    BY <1>7, PassoDeServidor DEF InvSelecao
  <2> QED
    BY <1>4, <2>1, <2>2
<1>8. CASE alocaInvestidores(a)
  <2>1. CASE obj' = obj /\ fio'[a].lista = FALSE
    <3>1. ~ fio[a].lista
      BY <1>8, EfeitoAloca DEF InvSelecao
    <3> QED
      BY <1>4, <2>1, <3>1
  <2>2. CASE /\ fio'[a].lista = TRUE
             /\ obj'[a].licitacoes \in Alocacoes(Vistas(a), licitacao, obj[a].montante)
    <3>1. Vistas(a) \in Seq(Lics) /\ fio[a].pc = "ordenando" /\ fio[a].alvo = a
      BY <1>8, EfeitoAloca, VistasTipo
    <3>2. \A k \in DOMAIN Vistas(a) : Vistas(a)[k] \in {s[l] : l \in DOMAIN s}
      <4>1. fio[a].n \in Nat /\ fio[a].n <= Len(s)
        BY <1>1, <3>1 DEF TypeOK, TipoFio, InvFios, InvFio
      <4>2. Vistas(a) = SubSeq(s, 1, fio[a].n)
        BY <3>1 DEF Vistas, LicitacoesDe
      <4>3. /\ DOMAIN SubSeq(s, 1, fio[a].n) = 1 .. fio[a].n
            /\ \A k \in 1 .. fio[a].n : SubSeq(s, 1, fio[a].n)[k] = s[k] /\ k \in DOMAIN s
        BY <1>2, <4>1
      <4> QED
        BY <4>2, <4>3
    <3>3. \A k \in DOMAIN Vistas(a) : licitacao[Vistas(a)[k]].taxa \in Int
      <4>1. \A k \in DOMAIN Vistas(a) : Vistas(a)[k] \in Lics
        BY <3>1
      <4> QED
        BY <1>1, <4>1 DEF TypeOK, TipoLicitacao
    <3> DEFINE t == obj'[a].licitacoes
    <3>4. \A j \in DOMAIN t : \E l \in DOMAIN Vistas(a) : t[j] = Vistas(a)[l]
      BY <2>2, <3>1, <3>3, SelecaoOrdenada
    <3>5. \A j \in DOMAIN t : t[j] <= nLic'
      BY <1>2, <1>3, <3>2, <3>4
    <3> QED
      BY <2>2, <3>5 DEF InvLista
  <2> QED
    BY <1>8, <2>1, <2>2, EfeitoAloca
<1>9. ASSUME NEW j \in Objs, PassoFio(j), ~ alocaInvestidores(a) PROVE InvLista(a)'
  <2>1. ~ (alocaInvestidores(j) /\ fio[j].alvo = a)
    <3>1. alocaInvestidores(j) => fio[j].alvo = j
      BY EfeitoAloca
    <3> QED
      BY <1>9, <3>1
  <2>2. obj'[a].licitacoes = s
    BY <1>9, <2>1, ListaFica
  <2>3. fio'[a].lista = fio[a].lista
    BY <1>9, PassoDeFio, CaminhoDoFio
  <2> QED
    BY <1>4, <2>2, <2>3
<1> QED
  BY <1>5, <1>6, <1>7, <1>8, <1>9 DEF Next

\* Objects are never destroyed.
LEMMA ObjetosCrescem ==
    ASSUME Indutivo, [Next]_vars
    PROVE  /\ nObj \in Nat /\ nObj' \in Nat /\ nObj <= nObj' /\ nObj' <= nObj + 1
           /\ 1 .. nObj \subseteq Objs
<1>1. nObj \in Nat /\ 1 .. nObj \subseteq Objs
  BY ExchangeAssumption DEF Indutivo, TypeOK, Objs
<1>2. nObj' \in {nObj, nObj + 1}
  <2>1. CASE UNCHANGED vars \/ \E i \in Objs : PassoFio(i)
    BY <2>1, PassoDeFio DEF vars, heaps
  <2>2. CASE (\E m \in Mensagens : Recebe(m)) \/ PassoServidor
    BY <2>2 DEF Recebe, PassoServidor, PassoLocalServidor, Recusa, licitar, AdicionaLicitacao,
         emprestimo, LeIndices, leilao, IniciaTerminaLeilao, EmpresaDesconhecida, CriaEmissao,
         emissao, LeUltimoLeilao, LeTaxaEmissao, ServidorPublica, ServidorPost, heaps
  <2> QED
    BY <2>1, <2>2 DEF Next
<1> QED
  BY <1>1, <1>2

\* The list of an existing object changes by a bid being appended or by the
\* selection of its own thread.
LEMMA ListaMuda ==
    ASSUME Indutivo, [Next]_vars, NEW a \in 1 .. nObj
    PROVE  \/ obj'[a].licitacoes = obj[a].licitacoes
           \/ /\ AdicionaLicitacao /\ srv.alvo = a
              /\ obj'[a].licitacoes = Append(obj[a].licitacoes, nLic + 1)
           \/ /\ alocaInvestidores(a) /\ fio'[a].lista = TRUE
              /\ obj'[a].licitacoes \in Alocacoes(Vistas(a), licitacao, obj[a].montante)
<1>1. a \in Objs
  BY ObjetosCrescem
<1>2. CASE UNCHANGED vars
  BY <1>2 DEF vars, heaps
<1>3. CASE AdicionaLicitacao
  BY <1>1, <1>3, EfeitoAdiciona
<1>4. CASE ((\E m \in Mensagens : Recebe(m)) \/ PassoServidor) /\ ~ AdicionaLicitacao
  BY <1>4, ListaFicaServidor
<1>5. CASE alocaInvestidores(a)
  BY <1>1, <1>5, EfeitoAloca
<1>6. ASSUME NEW j \in Objs, PassoFio(j), ~ alocaInvestidores(a)
      PROVE  obj'[a].licitacoes = obj[a].licitacoes
  <2>1. alocaInvestidores(j) => fio[j].alvo = j
    BY EfeitoAloca
  <2> QED
    BY <1>1, <1>6, <2>1, ListaFica
<1> QED
  BY <1>2, <1>3, <1>4, <1>5, <1>6 DEF Next

\* A mark of selection stays.
LEMMA MarcaFica ==
    ASSUME Indutivo, InvSelecao, [Next]_vars, NEW a \in Objs, fio[a].lista
    PROVE  fio'[a].lista /\ ~ alocaInvestidores(a)
<1>1. fio[a].pc \notin {"nenhum", "ordenando"}
  BY DEF InvSelecao
<1>2. ~ alocaInvestidores(a)
  BY <1>1 DEF alocaInvestidores
<1>3. CASE UNCHANGED vars
  BY <1>2, <1>3 DEF vars
<1>4. CASE (\E m \in Mensagens : Recebe(m)) \/ PassoServidor
  BY <1>1, <1>2, <1>4, PassoDeServidor
<1>5. ASSUME NEW j \in Objs, PassoFio(j) PROVE fio'[a].lista
  BY <1>2, <1>5, PassoDeFio, CaminhoDoFio
<1> QED
  BY <1>2, <1>3, <1>4, <1>5 DEF Next

\* No step but a selection takes a bid made on time out of its list.
LEMMA PassoInvATempo ==
    ASSUME Indutivo, AbertoDorme, InvSelecao, InvATempo, [Next]_vars
    PROVE  InvATempo'
<1>1. TypeOK /\ InvFios /\ InvMapas /\ AlvoUnico /\ FechaOProprio
  BY DEF Indutivo
<1>2. nObj \in Nat /\ nObj' \in Nat /\ nObj <= nObj' /\ 1 .. nObj \subseteq Objs
  BY ObjetosCrescem
<1> SUFFICES ASSUME NEW b \in 1 .. nLic', licitacao'[b].aTempo, NEW a, a = licitacao'[b].alvo
             PROVE  /\ a \in 1 .. nObj'
                    /\ b \notin Lista(a)' => obj'[a].tipo = "leilao" /\ fio'[a].lista
                    /\ \A i \in Objs : fio'[i].pc = "ordenando" /\ fio'[i].alvo = a =>
                          \E k \in 1 .. fio'[i].n : obj'[a].licitacoes[k] = b
  BY DEF InvATempo, Lista
<1>3. CASE b \notin 1 .. nLic
  <2>1. AdicionaLicitacao
    BY <1>3, SoServidorLicita
  <2>2. b = nLic + 1 /\ a = srv.alvo /\ a \in Objs /\ fio' = fio
    BY <1>3, <2>1, EfeitoAdiciona
  <2>3. a \in {leiloes[srv.pedido.empresa], emissoes[srv.pedido.empresa]} /\ a # Nulo
        /\ srv.pedido.empresa \in Nomes
    BY <2>1, <2>2, EfeitoAdiciona, ExchangeAssumption DEF Objs
  <2>4. a <= nObj
    BY <1>1, <2>3 DEF InvMapas, InvMapa
  <2>5. b \in Lista(a)'
    <3>1. obj'[a].licitacoes = Append(obj[a].licitacoes, b) /\ b \in Lics
      BY <2>1, <2>2, EfeitoAdiciona
    <3>2. obj[a].licitacoes \in Seq(Lics)
      BY <1>1, <2>2 DEF TypeOK, TipoObjeto
    <3>3. Len(obj[a].licitacoes) + 1 \in DOMAIN obj'[a].licitacoes
          /\ obj'[a].licitacoes[Len(obj[a].licitacoes) + 1] = b
      BY <3>1, <3>2, AcrescentaUm, SMTT(30)
    <3> QED
      BY <3>3 DEF Lista
  <2>6. \A i \in Objs : fio[i].alvo # a
    BY <2>3, TomadoFechado
  <2> QED
    BY <1>2, <2>2, <2>4, <2>5, <2>6, ExchangeAssumption DEF Objs
<1>4. CASE b \in 1 .. nLic
  <2>1. /\ licitacao[b].aTempo /\ a = licitacao[b].alvo /\ a \in 1 .. nObj /\ a \in Objs
        /\ b \notin Lista(a) => obj[a].tipo = "leilao" /\ fio[a].lista
        /\ \A i \in Objs : fio[i].pc = "ordenando" /\ fio[i].alvo = a =>
              \E k \in 1 .. fio[i].n : obj[a].licitacoes[k] = b
    BY <1>2, <1>4, TardiaFica DEF InvATempo
  <2>2. a \in 1 .. nObj'
    BY <1>2, <2>1
  <2>3. obj[a].licitacoes \in Seq(Lics)
    BY <1>1, <2>1 DEF TypeOK, TipoObjeto
  <2>4. ASSUME b \notin Lista(a)' PROVE obj'[a].tipo = "leilao" /\ fio'[a].lista
    <3>1. CASE b \notin Lista(a)
      <4>1. fio[a].lista /\ fio[a].pc # "nenhum" /\ obj[a].tipo = "leilao"
        BY <2>1, <3>1 DEF InvSelecao
      <4> QED
        BY <2>1, <4>1, MarcaFica, ComFioFica
    <3>2. CASE b \in Lista(a)
      <4>1. PICK k \in DOMAIN obj[a].licitacoes : obj[a].licitacoes[k] = b
        BY <3>2 DEF Lista
      <4>2. alocaInvestidores(a) /\ fio'[a].lista = TRUE
        <5>1. obj'[a].licitacoes # obj[a].licitacoes
          BY <2>4, <4>1 DEF Lista
        <5>2. ASSUME AdicionaLicitacao,
                     obj'[a].licitacoes = Append(obj[a].licitacoes, nLic + 1)
              PROVE  FALSE
          <6>1. nLic + 1 \in Lics
            BY <5>2, EfeitoAdiciona
          <6>2. k \in DOMAIN obj'[a].licitacoes /\ obj'[a].licitacoes[k] = b
            BY <2>3, <4>1, <5>2, <6>1, AcrescentaUm, SMTT(30)
          <6> QED
            BY <2>4, <6>2 DEF Lista
        <5> QED
          BY <2>1, <5>1, <5>2, ListaMuda
      <4>3. fio[a].pc # "nenhum" /\ obj[a].tipo = "leilao"
        BY <2>1, <4>2, EfeitoAloca
      <4> QED
        BY <2>1, <4>2, <4>3, ComFioFica
    <3> QED
      BY <3>1, <3>2
  <2>5. ASSUME NEW i \in Objs, fio'[i].pc = "ordenando", fio'[i].alvo = a
        PROVE  \E k \in 1 .. fio'[i].n : obj'[a].licitacoes[k] = b
    <3>1. ASSUME fio'[i] = fio[i] PROVE \E k \in 1 .. fio'[i].n : obj'[a].licitacoes[k] = b
      <4>1. PICK k \in 1 .. fio[i].n : obj[a].licitacoes[k] = b
        BY <2>1, <2>5, <3>1
      <4>2. fio[i].n \in Nat /\ fio[i].n <= Len(obj[a].licitacoes) /\ k \in DOMAIN obj[a].licitacoes
        BY <1>1, <2>3, <2>5, <3>1, <4>1 DEF TypeOK, TipoFio, InvFios, InvFio
      <4>3. ~ alocaInvestidores(a)
        <5> SUFFICES ASSUME alocaInvestidores(a) PROVE FALSE
          OBVIOUS
        <5>1. fio[a].alvo = a /\ fio'[a].pc = "arquiva"
          BY <2>1, EfeitoAloca
        <5>2. a # Nulo
          BY <2>1, ExchangeAssumption DEF Objs
        <5>3. i = a
          BY <1>1, <2>1, <2>5, <3>1, <5>1, <5>2 DEF AlvoUnico
        <5> QED
          BY <2>5, <5>1, <5>3
      <4>4. ASSUME AdicionaLicitacao,
                   obj'[a].licitacoes = Append(obj[a].licitacoes, nLic + 1)
            PROVE  obj'[a].licitacoes[k] = b
        <5>1. nLic + 1 \in Lics
          BY <4>4, EfeitoAdiciona
        <5> QED
          BY <2>3, <4>1, <4>2, <4>4, <5>1, AcrescentaUm, SMTT(30)
      <4>5. obj'[a].licitacoes[k] = b
        BY <2>1, <4>1, <4>3, <4>4, ListaMuda
      <4> QED
        BY <3>1, <4>1, <4>5
    <3>2. CASE UNCHANGED vars
      BY <3>1, <3>2 DEF vars
    <3>3. CASE (\E m \in Mensagens : Recebe(m)) \/ PassoServidor
      BY <2>5, <3>1, <3>3, PassoDeServidor
    <3>4. ASSUME NEW j \in Objs, PassoFio(j), j # i PROVE fio'[i] = fio[i]
      BY <3>4, PassoDeFio
    <3>5. CASE PassoFio(i)
      <4>1. ~ alocaInvestidores(i)
        BY <2>5, EfeitoAloca
      <4>2. IniciaTravessia(i) /\ fio[i].pc = "ordena"
        BY <2>5, <3>5, <4>1, CaminhoDoFio
      <4>3. /\ fio'[i].n = Len(obj[fio[i].alvo].licitacoes) /\ fio[i].alvo = a
            /\ obj' = obj /\ fio'[i].lista = fio[i].lista
        BY <1>1, <2>5, <4>2, EfeitoTravessia
      <4>4. a = i
        <5>1. obj[i].tipo = "leilao"
          BY <1>1, <4>2 DEF InvFios, InvFio
        <5> QED
          BY <1>1, <4>2, <4>3, <5>1 DEF FechaOProprio
      <4>5. ~ fio[a].lista
        BY <2>1, <4>2, <4>4 DEF InvSelecao
      <4>6. PICK k \in DOMAIN obj[a].licitacoes : obj[a].licitacoes[k] = b
        BY <2>1, <4>5 DEF Lista
      <4> QED
        BY <2>3, <4>3, <4>6
    <3> QED
      BY <3>1, <3>2, <3>3, <3>4, <3>5 DEF Next
  <2> QED
    BY <2>2, <2>4, <2>5
<1> QED
  BY <1>3, <1>4

\* A bid made on time that a step leaves out of a list, or that was left out of it
\* before, comes after every bid made on time that the step leaves in it.
LEMMA PassoMelhores ==
    ASSUME Indutivo, AbertoDorme, InvSelecao, InvListas, InvATempo, InvATempo',
           MelhoresPropostas, [Next]_vars
    PROVE  MelhoresPropostas'
<1>1. TypeOK /\ InvFios /\ licitacao \in [Lics -> TipoLicitacao]
  BY DEF Indutivo, TypeOK
<1>2. nLic \in Nat /\ nLic' \in Nat /\ nLic <= nLic' /\ 1 .. nLic \subseteq Lics
      /\ 1 .. nObj \subseteq Objs
  BY <1>1, TardiaFica, ObjetosCrescem, ExchangeAssumption DEF TypeOK, Lics
<1> SUFFICES ASSUME NEW b \in 1 .. nLic', licitacao'[b].aTempo, NEW a, a = licitacao'[b].alvo,
                    b \notin Lista(a)'
             PROVE  /\ obj'[a].tipo = "leilao" /\ obj'[a].sucesso
                    /\ \A c \in Lista(a)' : licitacao'[c].aTempo =>
                          \/ licitacao'[c].taxa < licitacao'[b].taxa
                          \/ licitacao'[c].taxa = licitacao'[b].taxa /\ c < b
  BY DEF MelhoresPropostas, Lista
<1>3. b \in 1 .. nLic
  <2> SUFFICES ASSUME b \notin 1 .. nLic PROVE FALSE
    OBVIOUS
  <2>1. AdicionaLicitacao
    BY SoServidorLicita
  <2>2. b = nLic + 1 /\ a = srv.alvo /\ a \in Objs
    BY <1>2, <2>1, EfeitoAdiciona
  <2>3. obj'[a].licitacoes = Append(obj[a].licitacoes, b) /\ b \in Lics
    BY <2>1, <2>2, EfeitoAdiciona
  <2>4. obj[a].licitacoes \in Seq(Lics)
    BY <1>1, <2>2 DEF TypeOK, TipoObjeto
  <2>5. Len(obj[a].licitacoes) + 1 \in DOMAIN obj'[a].licitacoes
        /\ obj'[a].licitacoes[Len(obj[a].licitacoes) + 1] = b
    BY <2>3, <2>4, AcrescentaUm, SMTT(30)
  <2> QED
    BY <2>5 DEF Lista
<1>4. /\ licitacao'[b] = licitacao[b] /\ licitacao[b].aTempo /\ a = licitacao[b].alvo
      /\ \A c \in 1 .. nLic : licitacao'[c] = licitacao[c]
  BY <1>3, TardiaFica
<1>5. a \in 1 .. nObj /\ a \in Objs
  BY <1>2, <1>3, <1>4 DEF InvATempo
<1>6. obj[a].licitacoes \in Seq(Lics) /\ \A k \in DOMAIN obj[a].licitacoes :
         obj[a].licitacoes[k] \in 1 .. nLic
  <2>1. obj[a].licitacoes \in Seq(Lics)
    BY <1>1, <1>5 DEF TypeOK, TipoObjeto
  <2>2. \A k \in DOMAIN obj[a].licitacoes :
           obj[a].licitacoes[k] \in Lics /\ obj[a].licitacoes[k] <= nLic
    BY <1>5, <2>1 DEF InvListas, InvLista
  <2> QED
    BY <1>2, <2>1, <2>2, ExchangeAssumption DEF Lics
<1>7. CASE b \notin Lista(a)
  <2>1. /\ obj[a].tipo = "leilao" /\ obj[a].sucesso /\ fio[a].lista
        /\ fio[a].alvo = a /\ fio[a].pc # "nenhum"
    BY <1>3, <1>4, <1>5, <1>7 DEF InvATempo, InvSelecao
  <2>2. obj'[a].tipo = "leilao" /\ obj'[a].sucesso
    BY <1>5, <2>1, ComFioFica, SucessoFica
  <2>3. \A c \in Lista(a) : licitacao[c].aTempo =>
           \/ licitacao[c].taxa < licitacao[b].taxa
           \/ licitacao[c].taxa = licitacao[b].taxa /\ c < b
    BY <1>3, <1>4, <1>7 DEF MelhoresPropostas
  <2>4. ASSUME NEW c \in Lista(a)', licitacao'[c].aTempo PROVE c \in Lista(a)
    <3>1. CASE obj'[a].licitacoes = obj[a].licitacoes
      BY <3>1 DEF Lista
    <3>2. CASE /\ AdicionaLicitacao /\ srv.alvo = a
               /\ obj'[a].licitacoes = Append(obj[a].licitacoes, nLic + 1)
      <4>1. nLic + 1 \in Lics /\ srv.pedido.empresa \in Nomes
        BY <3>2, EfeitoAdiciona
      <4>2. PICK k \in DOMAIN obj'[a].licitacoes : obj'[a].licitacoes[k] = c
        BY DEF Lista
      <4>3. PICK s, q : s = obj[a].licitacoes /\ q = obj'[a].licitacoes
        OBVIOUS
      <4>4. s \in Seq(Lics) /\ q = Append(s, nLic + 1) /\ k \in DOMAIN q /\ q[k] = c
        BY <1>6, <3>2, <4>2, <4>3, Zenon
      <4>5. CASE k \in DOMAIN s
        <5>1. s[k] = c
          BY <4>1, <4>4, <4>5, AcrescentaUm
        <5> QED
          BY <4>3, <4>5, <5>1 DEF Lista
      <4>6. CASE k \notin DOMAIN s
        <5>1. c = nLic + 1
          BY <4>1, <4>4, <4>6, AcrescentaUm
        <5>2. a \in {leiloes[srv.pedido.empresa], emissoes[srv.pedido.empresa]}
          BY <2>4, <3>2, <5>1, EfeitoAdiciona
        <5>3. fio[a].alvo # Nulo
          BY <1>5, <2>1, ExchangeAssumption DEF Objs
        <5>4. fio[a].alvo \notin {leiloes[srv.pedido.empresa], emissoes[srv.pedido.empresa]}
          BY <1>5, <4>1, <5>3, TomadoFechado
        <5> QED
          BY <2>1, <5>2, <5>4
      <4> QED
        BY <4>5, <4>6
    <3>3. ~ alocaInvestidores(a)
      BY <1>5, <2>1, MarcaFica
    <3> QED
      BY <1>5, <3>1, <3>2, <3>3, ListaMuda
  <2>5. \A c \in Lista(a) : licitacao'[c] = licitacao[c]
    BY <1>4, <1>6 DEF Lista
  <2> QED
    BY <1>4, <2>2, <2>3, <2>4, <2>5
<1>8. CASE b \in Lista(a)
  <2>1. PICK m \in DOMAIN obj[a].licitacoes : obj[a].licitacoes[m] = b
    BY <1>8 DEF Lista
  <2>2. /\ alocaInvestidores(a)
        /\ obj'[a].licitacoes \in Alocacoes(Vistas(a), licitacao, obj[a].montante)
    <3>1. obj'[a].licitacoes # obj[a].licitacoes
      BY <2>1 DEF Lista
    <3>2. ASSUME AdicionaLicitacao,
                 obj'[a].licitacoes = Append(obj[a].licitacoes, nLic + 1)
          PROVE  FALSE
      <4>1. nLic + 1 \in Lics
        BY <3>2, EfeitoAdiciona
      <4>2. m \in DOMAIN obj'[a].licitacoes /\ obj'[a].licitacoes[m] = b
        BY <1>6, <2>1, <3>2, <4>1, AcrescentaUm, SMTT(30)
      <4> QED
        BY <4>2 DEF Lista
    <3> QED
      BY <1>5, <3>1, <3>2, ListaMuda
  <2>3. fio[a].pc = "ordenando" /\ fio[a].alvo = a /\ obj[a].tipo = "leilao"
    BY <1>5, <2>2, EfeitoAloca
  <2>4. obj[a].sucesso /\ ~ fio[a].lista
    BY <1>5, <2>3 DEF InvSelecao
  <2>5. obj'[a].tipo = "leilao" /\ obj'[a].sucesso
    BY <1>5, <2>3, <2>4, ComFioFica, SucessoFica
  <2> DEFINE s == Vistas(a)
             t == obj'[a].licitacoes
  <2>6. fio[a].n \in Nat /\ fio[a].n <= Len(obj[a].licitacoes)
    BY <1>1, <1>5, <2>3 DEF TypeOK, TipoFio, InvFios, InvFio
  <2>7. /\ DOMAIN s = 1 .. fio[a].n
        /\ \A k \in DOMAIN s : k \in DOMAIN obj[a].licitacoes /\ s[k] = obj[a].licitacoes[k]
    <3> DEFINE u == obj[a].licitacoes
    <3>1. s = SubSeq(u, 1, fio[a].n)
      BY <2>3 DEF Vistas, LicitacoesDe
    <3>2. u \in Seq(Lics) /\ fio[a].n \in Nat /\ fio[a].n <= Len(u)
      BY <1>6, <2>6
    <3>3. /\ DOMAIN SubSeq(u, 1, fio[a].n) = 1 .. fio[a].n
          /\ \A k \in 1 .. fio[a].n : SubSeq(u, 1, fio[a].n)[k] = u[k] /\ k \in DOMAIN u
      BY <3>2
    <3> QED
      BY <3>1, <3>3
  <2>8. PICK q \in DOMAIN s : s[q] = b
    BY <1>3, <1>4, <1>5, <2>3, <2>7 DEF InvATempo
  <2>9. \A k, l \in DOMAIN s : k < l => s[k] < s[l]
    BY <1>5, <2>4, <2>7 DEF InvListas, InvLista
  <2>10. t \in Alocacoes(s, licitacao, obj[a].montante)
    BY <2>2
  <2>11. \A j \in DOMAIN t : t[j] # s[q]
    BY <2>8 DEF Lista
  <2>12. \A k \in DOMAIN s : licitacao[s[k]].taxa \in Int
    <3>1. \A k \in DOMAIN s : s[k] \in Lics
      BY <1>2, <1>6, <2>7
    <3> QED
      BY <1>1, <3>1 DEF TipoLicitacao
  <2>13. s \in Seq(Lics)
    BY <1>5, <2>3, VistasTipo
  <2> HIDE DEF s
  <2>14. ASSUME NEW c \in Lista(a)'
         PROVE  \/ licitacao'[c].taxa < licitacao'[b].taxa
                \/ licitacao'[c].taxa = licitacao'[b].taxa /\ c < b
    <3>1. PICK j \in DOMAIN t : t[j] = c
      BY DEF Lista
    <3> HIDE DEF t
    <3>2. PICK l \in DOMAIN s :
             /\ t[j] = s[l]
             /\ \A k \in DOMAIN s : (\A i \in DOMAIN t : t[i] # s[k]) =>
                   \/ licitacao[s[l]].taxa < licitacao[s[k]].taxa
                   \/ licitacao[s[l]].taxa = licitacao[s[k]].taxa /\ l < k
      BY <2>10, <2>12, <2>13, <3>1, SelecaoOrdenada
    <3>3. \/ licitacao[c].taxa < licitacao[b].taxa
          \/ licitacao[c].taxa = licitacao[b].taxa /\ c < b
      BY <2>8, <2>9, <2>11, <3>1, <3>2
    <3>4. licitacao'[c] = licitacao[c]
      <4>1. s[l] \in 1 .. nLic
        BY <1>6, <2>7
      <4> QED
        BY <1>4, <3>1, <3>2, <4>1, Zenon
    <3> QED
      BY <1>4, <3>3, <3>4
  <2> QED
    BY <2>5, <2>14
<1> QED
  BY <1>7, <1>8

\* A bid made while an auction was open is left out of its result only in favour of
\* bids at a lower rate, or at the same rate and earlier, and a loan to an issue never
\* is (alocaInvestidores), although the server thread may append to the list while the
\* closing thread sums and sorts it.
THEOREM MelhoresPropostasEscolhidas == Spec => []MelhoresPropostas
<1> DEFINE I == AbertoDorme /\ InvSelecao /\ InvListas /\ InvATempo /\ MelhoresPropostas
<1>1. Init => I
  <2> SUFFICES ASSUME Init PROVE I
    OBVIOUS
  <2>1. nLic = 0 /\ 1 .. nLic = {}
    BY DEF Init
  <2>2. \A i \in Objs : fio[i].pc = "nenhum" /\ fio[i].lista = FALSE
    BY DEF Init, PorIniciar
  <2>3. \A e \in Nomes : leiloes[e] = Nulo
    BY DEF Init
  <2>4. \A i \in Objs : obj[i].licitacoes = <<>>
    BY DEF Init, PorCriar, Objeto
  <2>5. AbertoDorme /\ InvSelecao
    BY <2>2, <2>3 DEF AbertoDorme, InvSelecao
  <2>6. InvListas
    BY <2>4 DEF InvListas, InvLista
  <2> QED
    BY <2>1, <2>5, <2>6 DEF InvATempo, MelhoresPropostas
<1>2. Indutivo /\ I /\ [Next]_vars => I'
  BY PassoAbertoDorme, PassoInvSelecao, PassoInvListas, PassoInvATempo, PassoMelhores
<1>3. I => MelhoresPropostas
  OBVIOUS
<1> QED
  BY <1>1, <1>2, <1>3, IndutivoSempre, PTL DEF Spec

-----------------------------------------------------------------------------
(* When an auction is successful.                                          *)

\* Every bid of a list was made to the object the list belongs to.
InvAlvos ==
    \A a \in Objs : \A k \in DOMAIN obj[a].licitacoes :
        licitacao[obj[a].licitacoes[k]].alvo = a

\* No auction is successful before its bids have been added up.
PorDecidir ==
    \A i \in Objs : obj[i].tipo = "leilao"
                      /\ fio[i].pc \in {"nenhum", "dorme", "soma", "somando"} => ~ obj[i].sucesso

\* Thread i is past the decision, and did not die.
Decidiu(i) ==
    \/ /\ obj[i].tipo = "leilao"
       /\ fio[i].pc \in {"ordena", "ordenando", "arquiva", "publica", "json", "escrevendo",
                         "put", "fim"}
    \/ obj[i].tipo = "emissao" /\ fio[i].pc \in {"put", "fim"}

\* The auction ended as the bids of its list demand.
Veredito(a) ==
    SemTardias(a) /\ SemTransbordo(a) =>
        (obj[a].sucesso <=> obj[a].montante <= Soma(Propostas(a)))

\* From the decision on the verdict is the one the bids justify.
InvDecisao == \A i \in Objs : Decidiu(i) => Veredito(fio[i].alvo)

-----------------------------------------------------------------------------
(* Sums of bids.                                                           *)

\* A result in the range of an int is left as it is, and any result becomes one.
LEMMA WrapPequeno ==
    ASSUME NEW x \in Int
    PROVE  /\ Wrap(x) \in Int
           /\ - (IntSpan \div 2) <= x /\ x < IntSpan \div 2 => Wrap(x) = x
<1>1. PICK n \in Nat : n = IntSpan /\ n > 0
  BY IntSpanAssumption
<1>2. PICK h \in Nat : h = n \div 2 /\ 2 * h <= n
  <2>1. n \div 2 \in Nat /\ 2 * (n \div 2) <= n
    BY <1>1
  <2>. QED
    BY <2>1
<1>3. PICK y \in Int : y = x + h
  BY <1>2
<1>4. y % n \in Int
  BY <1>1
<1>5. Wrap(x) = (y % n) - h
  BY <1>1, <1>2, <1>3 DEF Wrap
<1>6. 0 <= y /\ y < n => y % n = y
  BY <1>1
<1>7. - h <= x /\ x < h => 0 <= y /\ y < n
  BY <1>1, <1>2, <1>3
<1>. QED
  BY <1>1, <1>2, <1>3, <1>4, <1>5, <1>6, <1>7

\* The int totals of a list are what their definition says.
LEMMA AcumuladoRecursao ==
    ASSUME NEW s, NEW lic, NEW n \in Nat, n = Len(s), \A k \in 1 .. n : lic[s[k]].quantia \in Int
    PROVE  /\ Acumulado(s, lic) \in [0 .. n -> Int] /\ Acumulado(s, lic)[0] = 0
           /\ \A k \in 1 .. n : Acumulado(s, lic)[k] =
                                   Wrap(Acumulado(s, lic)[k - 1] + lic[s[k]].quantia)
<1>1. PICK q : q = [k \in 1 .. n |-> lic[s[k]].quantia]
  OBVIOUS
<1>2. \A k \in 1 .. n : q[k] \in Int /\ q[k] = lic[s[k]].quantia
  BY <1>1
<1>3. \E f : f = [k \in 0 .. n |-> IF k = 0 THEN 0 ELSE Wrap(f[k - 1] + lic[s[k]].quantia)]
  <2>1. PICK g : g = [y \in Int \X (1 .. n) |-> Wrap(y[1] + q[y[2]])]
    OBVIOUS
  <2>2. \A x \in Int, k \in 1 .. n : g[<<x, k>>] = Wrap(x + q[k])
    BY <2>1
  <2>3. g \in [Int \X (1 .. n) -> Int]
    <3>1. \A y \in Int \X (1 .. n) : y[1] + q[y[2]] \in Int
      BY <1>2
    <3>2. \A y \in Int \X (1 .. n) : Wrap(y[1] + q[y[2]]) \in Int
      BY <3>1, WrapPequeno
    <3>. QED
      BY <2>1, <3>2
  <2>4. PICK f \in [0 .. n -> Int] : f[0] = 0 /\ \A k \in 1 .. n : f[k] = g[<<f[k - 1], k>>]
    BY <2>3, RecursaoExiste
  <2>5. ASSUME NEW k \in 0 .. n
        PROVE  f[k] = IF k = 0 THEN 0 ELSE Wrap(f[k - 1] + lic[s[k]].quantia)
    <3>1. CASE k = 0
      BY <2>4, <3>1
    <3>2. CASE k # 0
      <4>1. k \in 1 .. n /\ k - 1 \in 0 .. n
        BY <3>2
      <4>2. f[k - 1] \in Int
        BY <4>1
      <4>. QED
        BY <1>2, <2>2, <2>4, <3>2, <4>1, <4>2
    <3>. QED
      BY <3>1, <3>2
  <2>6. f = [k \in 0 .. n |-> IF k = 0 THEN 0 ELSE Wrap(f[k - 1] + lic[s[k]].quantia)]
    BY <2>5
  <2>. QED
    BY <2>6
<1>4. PICK a : a = Acumulado(s, lic)
  OBVIOUS
<1>5. a = [k \in 0 .. n |-> IF k = 0 THEN 0 ELSE Wrap(a[k - 1] + lic[s[k]].quantia)]
  BY <1>3, <1>4 DEF Acumulado
<1>6. a[0] = 0 /\ \A k \in 1 .. n : a[k] = Wrap(a[k - 1] + lic[s[k]].quantia)
  <2>1. PICK h : h = a
    OBVIOUS
  <2>2. h = [k \in 0 .. n |-> IF k = 0 THEN 0 ELSE Wrap(a[k - 1] + lic[s[k]].quantia)]
    BY <1>5, <2>1
  <2>3. h[0] = 0 /\ \A k \in 1 .. n : h[k] = Wrap(a[k - 1] + lic[s[k]].quantia)
    BY <2>2
  <2>. QED
    BY <2>1, <2>3
<1>7. \A k \in 0 .. n : a[k] \in Int
  <2>. DEFINE S == {k \in 0 .. n : a[k] \in Int}
  <2>1. ASSUME NEW k \in 1 .. n, k - 1 \in S PROVE k \in S
    <3>1. PICK x : x = a[k - 1] + lic[s[k]].quantia
      OBVIOUS
    <3>2. x \in Int
      BY <2>1, <3>1
    <3>3. a[k] = Wrap(x)
      BY <1>6, <3>1
    <3>4. a[k] \in Int
      BY <3>2, <3>3, WrapPequeno
    <3>. QED
      BY <3>4
  <2>2. 0 \in S
    BY <1>6
  <2>3. \A k \in 0 .. n : k \in S
    <3>. HIDE DEF S
    <3>. QED
      BY <2>1, <2>2, Inducao
  <2>. QED
    BY <2>3
<1>8. a \in [0 .. n -> Int]
  BY <1>5, <1>7
<1>. QED
  BY <1>4, <1>6, <1>8

\* When the amounts of a list cannot add up to more than an int holds, its int totals
\* are its sums.
LEMMA AcumuladoExato ==
    ASSUME NEW s, NEW lic, NEW q \in Seq(Int), Len(s) = Len(q),
           \A k \in 1 .. Len(q) : lic[s[k]].quantia = q[k],
           Soma(Absolutos(q)) < IntSpan \div 2
    PROVE  \A k \in 0 .. Len(q) : Acumulado(s, lic)[k] = Somas(q)[k]
<1>1. PICK n \in Nat : n = Len(q) /\ n = Len(s)
  OBVIOUS
<1>2. \A k \in 1 .. n : q[k] \in Int /\ lic[s[k]].quantia = q[k]
  BY <1>1
<1>3. PICK a, b : a = Acumulado(s, lic) /\ b = Somas(q)
  OBVIOUS
<1>4. /\ a[0] = 0 /\ \A k \in 1 .. n : a[k] = Wrap(a[k - 1] + lic[s[k]].quantia)
  BY <1>1, <1>2, <1>3, AcumuladoRecursao
<1>5. /\ b \in [0 .. n -> Int] /\ b[0] = 0 /\ \A k \in 1 .. n : b[k] = b[k - 1] + q[k]
  BY <1>1, <1>3, SomasRecursao
<1>6. \A k \in 0 .. n : - (IntSpan \div 2) <= b[k] /\ b[k] < IntSpan \div 2
  <2>1. PICK m \in Int : m = Soma(Absolutos(q))
    BY SomasLimitadas
  <2>2. \A k \in 0 .. n : - m <= b[k] /\ b[k] <= m
    BY <1>1, <1>3, <2>1, SomasLimitadas
  <2>3. IntSpan \div 2 \in Int /\ m < IntSpan \div 2
    BY <2>1, IntSpanAssumption
  <2>. QED
    BY <1>5, <2>2, <2>3
<1>. DEFINE S == {k \in 0 .. n : a[k] = b[k]}
<1>7. 0 \in S
  BY <1>4, <1>5
<1>8. ASSUME NEW k \in 1 .. n, k - 1 \in S PROVE k \in S
  <2>1. a[k - 1] = b[k - 1]
    BY <1>8
  <2>2. a[k] = Wrap(b[k - 1] + q[k]) /\ b[k] = b[k - 1] + q[k] /\ k \in 0 .. n
    BY <1>2, <1>4, <1>5, <2>1
  <2>3. a[k] = Wrap(b[k]) /\ b[k] \in Int
    BY <1>5, <2>2
  <2>4. a[k] = b[k]
    BY <1>6, <2>2, <2>3, WrapPequeno
  <2>. QED
    BY <2>4
<1>9. \A k \in 0 .. n : k \in S
  <2>. HIDE DEF S
  <2>. QED
    BY <1>7, <1>8, Inducao
<1>. QED
  BY <1>1, <1>3, <1>9

\* What the sums of the properties range over are sequences of integers.
LEMMA PropostasTipo ==
    ASSUME Indutivo
    PROVE  /\ nLic \in Nat /\ 1 .. nLic \subseteq Lics
           /\ \A b \in Lics : licitacao[b].quantia \in Int /\ licitacao[b].taxa \in Int
                              /\ licitacao[b].aTempo \in BOOLEAN
           /\ \A a : Propostas(a) \in Seq(Int) /\ Len(Propostas(a)) = nLic
           /\ \A S \in SUBSET Lics : \A s \in Seq(S) :
                 Valores(s) \in Seq(Int) /\ Len(Valores(s)) = Len(s)
<1>1. nLic \in Nat /\ 1 .. nLic \subseteq Lics /\ licitacao \in [Lics -> TipoLicitacao]
  BY ExchangeAssumption DEF Indutivo, TypeOK, Lics
<1>2. \A b \in Lics : licitacao[b].quantia \in Int /\ licitacao[b].taxa \in Int
                      /\ licitacao[b].aTempo \in BOOLEAN
  BY <1>1 DEF TipoLicitacao
<1>3. ASSUME NEW a PROVE Propostas(a) \in Seq(Int) /\ Len(Propostas(a)) = nLic
  <2>1. \A b \in 1 .. nLic : licitacao[b].quantia \in Int
    BY <1>1, <1>2
  <2>. QED
    BY <1>1, <2>1 DEF Propostas
<1>4. ASSUME NEW S \in SUBSET Lics, NEW s \in Seq(S)
      PROVE  Valores(s) \in Seq(Int) /\ Len(Valores(s)) = Len(s)
  <2>1. PICK n \in Nat : n = Len(s) /\ DOMAIN s = 1 .. n
    OBVIOUS
  <2>2. \A k \in 1 .. n : licitacao[s[k]].quantia \in Int
    BY <1>2, <2>1
  <2>3. Valores(s) = [k \in 1 .. n |-> licitacao[s[k]].quantia]
    BY <2>1 DEF Valores
  <2>. QED
    BY <2>1, <2>2, <2>3
<1>. QED
  BY <1>1, <1>2, <1>3, <1>4

\* A list of the bids made to a, each once and in whatever order, is worth what they
\* offer it.
LEMMA SomaDeTodas ==
    ASSUME Indutivo, NEW a, NEW s \in Seq(1 .. nLic),
           \A k, l \in DOMAIN s : s[k] = s[l] => k = l,
           \A b \in 1 .. nLic : licitacao[b].alvo = a /\ licitacao[b].aTempo <=>
                                   \E k \in DOMAIN s : s[k] = b
    PROVE  /\ Valores(s) \in Seq(Int) /\ Len(Valores(s)) = Len(s)
           /\ Soma(Valores(s)) = Soma(Propostas(a))
           /\ Soma(Absolutos(Valores(s))) = Soma(Absolutos(Propostas(a)))
<1>1. PICK n \in Nat : n = Len(s) /\ DOMAIN s = 1 .. n
  OBVIOUS
<1>2. PICK m \in Nat : m = nLic
  BY PropostasTipo
<1>3. PICK q : q = [b \in 1 .. m |-> licitacao[b].quantia]
  OBVIOUS
<1>4. q \in Seq(Int) /\ Len(q) = m /\ \A b \in 1 .. m : q[b] = licitacao[b].quantia
  <2>1. \A b \in 1 .. m : licitacao[b].quantia \in Int
    BY <1>2, PropostasTipo
  <2>. QED
    BY <1>3, <2>1
<1>5. PICK r : r = Valores(s)
  OBVIOUS
<1>6. r \in Seq(Int) /\ Len(r) = n /\ \A k \in 1 .. n : r[k] = q[s[k]] /\ s[k] \in 1 .. m
  <2>1. Valores(s) \in Seq(Int) /\ Len(Valores(s)) = n
    BY <1>1, PropostasTipo
  <2>2. \A k \in 1 .. n : s[k] \in 1 .. m /\ r[k] = licitacao[s[k]].quantia
    BY <1>1, <1>2, <1>5 DEF Valores
  <2>. QED
    BY <1>4, <1>5, <2>1, <2>2
<1>7. s \in [1 .. n -> 1 .. m]
  BY <1>1, <1>2
<1>8. \A k, l \in 1 .. n : s[k] = s[l] => k = l
  BY <1>1
<1>9. \A b \in 1 .. m : (licitacao[b].alvo = a /\ licitacao[b].aTempo) <=>
                           \E k \in 1 .. n : s[k] = b
  BY <1>1, <1>2
<1>10. Soma(r) = Soma(Propostas(a))
  <2>1. Escolhe(r, q, s)
    BY <1>4, <1>6, <1>7, <1>8 DEF Escolhe
  <2>2. Mascara(q, s, n) = Propostas(a)
    <3>1. Mascara(q, s, n) = [b \in 1 .. m |-> IF \E k \in 1 .. n : s[k] = b THEN q[b] ELSE 0]
      BY <1>4 DEF Mascara
    <3>. QED
      BY <1>2, <1>4, <1>9, <3>1 DEF Propostas
  <2>3. Somas(r)[n] = Soma(Mascara(q, s, n))
    BY <1>4, <1>6, <2>1, SomaEscolhida
  <2>4. Soma(r) = Somas(r)[n]
    BY <1>6 DEF Soma
  <2>. QED
    BY <2>2, <2>3, <2>4
<1>11. Soma(Absolutos(r)) = Soma(Absolutos(Propostas(a)))
  <2>1. PICK x, y, z : x = Absolutos(r) /\ y = Absolutos(q) /\ z = Absolutos(Propostas(a))
    OBVIOUS
  <2>2. x \in Seq(Int) /\ Len(x) = n /\ y \in Seq(Int) /\ Len(y) = m
    BY <1>4, <1>6, <2>1, SomasLimitadas
  <2>3. \A b \in 1 .. m : y[b] = IF q[b] < 0 THEN - q[b] ELSE q[b]
    BY <1>4, <2>1 DEF Absolutos
  <2>4. \A k \in 1 .. n : x[k] = y[s[k]]
    <3>1. \A k \in 1 .. n : x[k] = IF r[k] < 0 THEN - r[k] ELSE r[k]
      BY <1>6, <2>1 DEF Absolutos
    <3>. QED
      BY <1>6, <2>3, <3>1
  <2>5. Escolhe(x, y, s)
    BY <1>7, <1>8, <2>2, <2>4 DEF Escolhe
  <2>6. Mascara(y, s, n) = z
    <3>1. Mascara(y, s, n) = [b \in 1 .. m |-> IF \E k \in 1 .. n : s[k] = b THEN y[b] ELSE 0]
      BY <2>2 DEF Mascara
    <3>2. PICK w : w = Propostas(a)
      OBVIOUS
    <3>3. w = [b \in 1 .. m |-> IF licitacao[b].alvo = a /\ licitacao[b].aTempo
                                THEN licitacao[b].quantia ELSE 0]
      BY <1>2, <3>2 DEF Propostas
    <3>4. w = [b \in 1 .. m |-> IF \E k \in 1 .. n : s[k] = b THEN q[b] ELSE 0]
      BY <1>4, <1>9, <3>3
    <3>5. z = [b \in 1 .. m |-> IF w[b] < 0 THEN - w[b] ELSE w[b]]
      BY <2>1, <3>2, <3>3 DEF Absolutos
    <3>6. ASSUME NEW b \in 1 .. m
          PROVE  (IF w[b] < 0 THEN - w[b] ELSE w[b]) =
                    IF \E k \in 1 .. n : s[k] = b THEN y[b] ELSE 0
      <4>1. w[b] = IF \E k \in 1 .. n : s[k] = b THEN q[b] ELSE 0
        BY <3>4
      <4>. QED
        BY <2>3, <4>1
    <3>. QED
      BY <3>1, <3>5, <3>6
  <2>7. Somas(x)[n] = Soma(Mascara(y, s, n))
    BY <2>2, <2>5, SomaEscolhida
  <2>8. Soma(x) = Somas(x)[n]
    BY <2>2 DEF Soma
  <2>. QED
    BY <2>1, <2>6, <2>7, <2>8
<1>. QED
  BY <1>1, <1>5, <1>6, <1>10, <1>11

\* Objects are counted from 1.
LEMMA ObjsTipo == \A a \in Objs : a # Nulo /\ a \in Nat /\ 0 < a
  BY ExchangeAssumption DEF Objs

\* Lists only ever get bids made to their own object.
LEMMA PassoInvAlvos ==
    ASSUME Indutivo, InvListas, InvAlvos, [Next]_vars
    PROVE  InvAlvos'
<1>1. TypeOK /\ nLic \in Nat /\ 1 .. nLic \subseteq Lics
  BY PropostasTipo DEF Indutivo
<1> SUFFICES ASSUME NEW a \in Objs, NEW k \in DOMAIN obj'[a].licitacoes
             PROVE  licitacao'[obj'[a].licitacoes[k]].alvo = a
  BY DEF InvAlvos
<1>2. PICK s : s = obj[a].licitacoes
  OBVIOUS
<1>3. s \in Seq(Lics) /\ \A l \in DOMAIN s : s[l] \in 1 .. nLic /\ licitacao[s[l]].alvo = a
  <2>1. s \in Seq(Lics)
    BY <1>1, <1>2 DEF TypeOK, TipoObjeto
  <2>2. \A l \in DOMAIN s : s[l] \in Lics /\ s[l] <= nLic
    BY <1>2, <2>1 DEF InvListas, InvLista
  <2>3. \A l \in DOMAIN s : s[l] \in 1 .. nLic
    BY <1>1, <2>2, ExchangeAssumption DEF Lics
  <2> QED
    BY <1>2, <2>1, <2>3 DEF InvAlvos
<1>4. \A l \in DOMAIN s : licitacao'[s[l]].alvo = a
  BY <1>3, TardiaFica
<1>5. CASE obj'[a].licitacoes = s
  BY <1>4, <1>5
<1>6. CASE /\ AdicionaLicitacao /\ srv.alvo = a /\ obj'[a].licitacoes = Append(s, nLic + 1)
  <2>1. nLic + 1 \in Lics /\ licitacao'[nLic + 1].alvo = a
    BY <1>6, EfeitoAdiciona
  <2>2. PICK t : t = obj'[a].licitacoes
    OBVIOUS
  <2>3. t = Append(s, nLic + 1) /\ k \in DOMAIN t
    BY <1>6, <2>2
  <2>4. CASE k \in DOMAIN s
    <3>1. t[k] = s[k]
      BY <1>3, <2>1, <2>3, <2>4, AcrescentaUm
    <3> QED
      BY <1>4, <2>2, <2>4, <3>1
  <2>5. CASE k \notin DOMAIN s
    <3>1. t[k] = nLic + 1
      BY <1>3, <2>1, <2>3, <2>5, AcrescentaUm
    <3> QED
      BY <2>1, <2>2, <3>1
  <2> QED
    BY <2>4, <2>5
<1>7. CASE alocaInvestidores(a) /\ fio'[a].lista = TRUE
           /\ obj'[a].licitacoes \in Alocacoes(Vistas(a), licitacao, obj[a].montante)
  <2>1. fio[a].pc = "ordenando" /\ fio[a].alvo = a
    BY <1>7, EfeitoAloca
  <2>2. fio[a].n \in Nat /\ fio[a].n <= Len(s) /\ Vistas(a) = SubSeq(s, 1, fio[a].n)
    BY <1>2, <2>1 DEF Indutivo, TypeOK, TipoFio, InvFios, InvFio, Vistas, LicitacoesDe
  <2>3. /\ DOMAIN SubSeq(s, 1, fio[a].n) = 1 .. fio[a].n
        /\ \A l \in 1 .. fio[a].n : SubSeq(s, 1, fio[a].n)[l] = s[l] /\ l \in DOMAIN s
    BY <1>3, <2>2
  <2>4. Vistas(a) \in Seq(Lics) /\ \A l \in DOMAIN Vistas(a) : licitacao[Vistas(a)[l]].taxa \in Int
    <3>1. Vistas(a) \in Seq(Lics)
      BY <2>1, VistasTipo
    <3> QED
      BY <3>1, PropostasTipo
  <2>5. PICK l \in DOMAIN Vistas(a) : obj'[a].licitacoes[k] = Vistas(a)[l]
    BY <1>7, <2>4, SelecaoOrdenada
  <2> QED
    BY <1>4, <2>2, <2>3, <2>5
<1>8. CASE a \in 1 .. nObj
  BY <1>2, <1>5, <1>6, <1>7, <1>8, ListaMuda
<1>9. CASE a \notin 1 .. nObj
  <2>1. obj'[a].licitacoes \in {s, <<>>} \/ (AdicionaLicitacao /\ a = srv.alvo)
    <3>1. CASE leilao \/ CriaEmissao
      <4>1. PICK o : obj' = [obj EXCEPT ![nObj + 1] = o] /\ o.licitacoes = <<>>
        BY <3>1 DEF leilao, CriaEmissao, Leilao, Emissao, Objeto
      <4> QED
        BY <1>1, <1>2, <4>1 DEF TypeOK
    <3>2. CASE AdicionaLicitacao /\ a # srv.alvo
      BY <1>2, <3>2, EfeitoAdiciona
    <3>3. CASE ((\E m \in Mensagens : Recebe(m)) \/ PassoServidor)
                 /\ ~ (leilao \/ CriaEmissao \/ AdicionaLicitacao)
      BY <1>2, <3>3 DEF Recebe, PassoServidor, PassoLocalServidor, Recusa, licitar,
         emprestimo, LeIndices, IniciaTerminaLeilao, EmpresaDesconhecida,
         emissao, LeUltimoLeilao, LeTaxaEmissao, ServidorPublica, ServidorPost, heaps
    <3>4. ASSUME NEW j \in Objs, PassoFio(j) PROVE obj'[a].licitacoes = s
      <4>1. ~ (alocaInvestidores(j) /\ fio[j].alvo = a)
        <5> SUFFICES ASSUME alocaInvestidores(j), fio[j].alvo = a PROVE FALSE
          OBVIOUS
        <5>1. nObj \in Nat /\ a \in Nat /\ 0 < a /\ a # Nulo
          <6>1. nObj \in Nat
            BY ObjetosCrescem
          <6> QED
            BY <6>1, ObjsTipo
        <5>2. a <= nObj
          BY <5>1 DEF Indutivo, InvFios, InvFio
        <5> QED
          BY <1>9, <5>1, <5>2
      <4> QED
        BY <1>2, <3>4, <4>1, ListaFica
    <3>5. CASE UNCHANGED vars
      BY <1>2, <3>5 DEF vars, heaps
    <3> QED
      BY <3>1, <3>2, <3>3, <3>4, <3>5 DEF Next, PassoServidor, PassoLocalServidor
  <2>2. AdicionaLicitacao /\ a = srv.alvo => obj'[a].licitacoes = Append(s, nLic + 1)
    BY <1>2, EfeitoAdiciona
  <2> QED
    BY <1>5, <1>6, <2>1, <2>2
<1> QED
  BY <1>8, <1>9

\* The steps that set the success of an object: its closing thread takes the issue, or
\* decides.
LEMMA SucessoMuda ==
    ASSUME Indutivo, [Next]_vars, NEW a \in Objs
    PROVE  \/ obj'[a].sucesso = obj[a].sucesso
           \/ a = nObj + 1 /\ (leilao \/ CriaEmissao) /\ obj'[a].sucesso = FALSE
           \/ \E j \in Objs : /\ RemoveEmissao(j) /\ emissoes[obj[j].empresa] = a
                              /\ obj[j].empresa \in Nomes
           \/ \E j \in Objs : (DecideLeilao(j) \/ DecideEmissao(j)) /\ fio[j].alvo = a
<1>1. obj \in [Objs -> TipoObjeto] /\ nObj \in Nat
  BY ExchangeAssumption DEF Indutivo, TypeOK
<1>2. CASE leilao \/ CriaEmissao
  <2>1. PICK o : obj' = [obj EXCEPT ![nObj + 1] = o] /\ o.sucesso = FALSE
    BY <1>2 DEF leilao, CriaEmissao, Leilao, Emissao, Objeto
  <2> QED
    BY <1>1, <1>2, <2>1
<1>3. CASE AdicionaLicitacao
  BY <1>3, EfeitoAdiciona
<1>4. ASSUME NEW j \in Objs, RemoveEmissao(j), emissoes[obj[j].empresa] # a
      PROVE  obj'[a].sucesso = obj[a].sucesso
  <2>1. PICK b : b = emissoes[obj[j].empresa]
    OBVIOUS
  <2>2. obj' \in {obj, [obj EXCEPT ![b].sucesso = TRUE]} /\ b # a
    BY <1>4, <2>1 DEF RemoveEmissao
  <2> QED
    BY <1>1, <2>2
<1>5. ASSUME NEW j \in Objs, DecideLeilao(j) \/ DecideEmissao(j), fio[j].alvo # a
      PROVE  obj'[a].sucesso = obj[a].sucesso
  <2>1. PICK v : obj' = [obj EXCEPT ![fio[j].alvo].sucesso = v]
    BY <1>1, <1>5 DEF DecideLeilao, DecideEmissao
  <2> QED
    BY <1>1, <1>5, <2>1
<1>6. ASSUME NEW j \in Objs, alocaInvestidores(j) PROVE obj'[a].sucesso = obj[a].sucesso
  <2>1. CASE obj' = obj
    BY <2>1
  <2>2. CASE obj' # obj
    <3>1. PICK b, t : obj' = [obj EXCEPT ![b].licitacoes = t]
      BY <1>6, <2>2 DEF alocaInvestidores
    <3> QED
      BY <1>1, <3>1 DEF TipoObjeto
  <2> QED
    BY <2>1, <2>2
<1>7. \/ obj' = obj \/ AdicionaLicitacao \/ leilao \/ CriaEmissao
      \/ \E i \in Objs : DecideLeilao(i) \/ alocaInvestidores(i) \/ DecideEmissao(i)
                           \/ RemoveEmissao(i)
  BY DEF Next, vars, heaps, Recebe, PassoServidor, PassoLocalServidor, Recusa, licitar,
         emprestimo, LeIndices, IniciaTerminaLeilao,
         EmpresaDesconhecida, emissao, LeUltimoLeilao, LeTaxaEmissao,
         ServidorPublica, ServidorPost, PassoFio, PassoLocalFio, RemoveLeilao,
         IniciaTravessia, TravessiaInterrompida, ArquivaLeilao, ArquivaEmissao,
         FioPublica, FioPut
<1>8. \A j \in Objs : obj[j].empresa \in Nomes
  BY <1>1 DEF TipoObjeto
<1> QED
  BY <1>2, <1>3, <1>4, <1>5, <1>6, <1>7, <1>8

\* How a thread gets past the decision.
LEMMA ChegaADecidir ==
    ASSUME Indutivo, [Next]_vars, NEW i \in Objs, Decidiu(i)', ~ Decidiu(i)
    PROVE  DecideLeilao(i) \/ DecideEmissao(i)
<1>1. TypeOK /\ InvFios /\ fio \in [Objs -> TipoFio]
  BY DEF Indutivo, TypeOK
<1>2. fio'[i].pc \notin {"nenhum", "dorme"}
  BY DEF Decidiu
<1>3. PassoFio(i)
  <2>1. fio[i].pc # "nenhum" => obj'[i].tipo = obj[i].tipo
    BY ComFioFica
  <2>2. CASE fio'[i] = fio[i]
    BY <1>2, <2>1, <2>2 DEF Decidiu
  <2>3. CASE UNCHANGED vars
    BY <2>2, <2>3 DEF vars
  <2>4. CASE (\E m \in Mensagens : Recebe(m)) \/ PassoServidor
    BY <1>2, <2>2, <2>4, PassoDeServidor
  <2>5. ASSUME NEW j \in Objs, PassoFio(j), j # i PROVE fio'[i] = fio[i]
    BY <2>5, PassoDeFio
  <2> QED
    BY <2>2, <2>3, <2>4, <2>5 DEF Next
<1>4. fio[i].pc # "nenhum" /\ obj'[i].tipo = obj[i].tipo
  <2>1. fio[i].pc # "nenhum"
    BY <1>3, PassoDeFio
  <2> QED
    BY <2>1, ComFioFica
<1>5. ~ (RemoveLeilao(i) \/ RemoveEmissao(i))
  <2> SUFFICES ASSUME RemoveLeilao(i) \/ RemoveEmissao(i) PROVE FALSE
    OBVIOUS
  <2>1. PICK x, b : /\ fio' = [fio EXCEPT ![i].pc = x, ![i].alvo = b]
                    /\ x \in {"morto", "soma"} \/ (x = "arquiva" /\ obj[i].tipo = "emissao")
    BY DEF RemoveLeilao, RemoveEmissao
  <2>2. fio'[i].pc = x
    BY <1>1, <2>1 DEF TipoFio
  <2> QED
    BY <1>4, <2>1, <2>2 DEF Decidiu
<1>6. ~ IniciaTravessia(i)
  <2> SUFFICES ASSUME IniciaTravessia(i) PROVE FALSE
    OBVIOUS
  <2>1. \/ fio[i].pc = "soma" /\ fio'[i].pc = "somando"
        \/ fio[i].pc = "ordena" /\ fio'[i].pc = "ordenando"
        \/ fio[i].pc = "json" /\ fio'[i].pc = "escrevendo"
    BY <1>1, EfeitoTravessia
  <2> QED
    BY <1>4, <2>1 DEF Decidiu
<1>7. ~ alocaInvestidores(i)
  BY <1>4, EfeitoAloca DEF Decidiu
<1>8. ~ (TravessiaInterrompida(i) \/ ArquivaLeilao(i) \/ ArquivaEmissao(i) \/ FioPut(i)
           \/ FioPublica(i))
  <2> SUFFICES ASSUME TravessiaInterrompida(i) \/ ArquivaLeilao(i) \/ ArquivaEmissao(i)
                        \/ FioPut(i) \/ FioPublica(i)
               PROVE  FALSE
    OBVIOUS
  <2>1. PICK x : /\ fio' = [fio EXCEPT ![i].pc = x]
                 /\ \/ x = "morto"
                    \/ x = "publica" /\ fio[i].pc = "arquiva"
                    \/ x = "fim" /\ fio[i].pc \in {"put", "escrevendo"}
                    \/ x = "soma"
                    \/ x \in {"json", "put"} /\ fio[i].pc = "publica" /\ obj[i].tipo # "emissao"
    BY DEF TravessiaInterrompida, ArquivaLeilao, ArquivaEmissao, FioPut, FioPublica
  <2>2. fio'[i].pc = x
    BY <1>1, <2>1 DEF TipoFio
  <2>3. fio[i].pc = "escrevendo" => obj[i].tipo = "leilao"
    BY <1>1 DEF InvFios, InvFio
  <2> QED
    BY <1>4, <2>1, <2>2, <2>3 DEF Decidiu
<1> QED
  BY <1>3, <1>5, <1>6, <1>7, <1>8 DEF PassoFio, PassoLocalFio

\* Nobody marks an auction before its thread decides.
LEMMA PassoPorDecidir ==
    ASSUME Indutivo, PorDecidir, [Next]_vars
    PROVE  PorDecidir'
<1>1. TypeOK /\ InvFios /\ InvMapas /\ FechaOProprio /\ fio \in [Objs -> TipoFio]
  BY DEF Indutivo, TypeOK
<1> SUFFICES ASSUME NEW i \in Objs, obj'[i].tipo = "leilao",
                    fio'[i].pc \in {"nenhum", "dorme", "soma", "somando"}
             PROVE  ~ obj'[i].sucesso
  BY DEF PorDecidir
<1>2. CASE i = nObj + 1 /\ (leilao \/ CriaEmissao)
  <2>1. PICK o : obj' = [obj EXCEPT ![nObj + 1] = o] /\ o.sucesso = FALSE
    BY <1>2 DEF leilao, CriaEmissao, Leilao, Emissao, Objeto
  <2> QED
    BY <1>1, <1>2, <2>1 DEF TypeOK
<1>3. CASE ~ (i = nObj + 1 /\ (leilao \/ CriaEmissao))
  <2>1. obj[i].tipo = "leilao"
    BY <1>3, ObjetoFica
  <2>2. fio[i].pc \in {"nenhum", "dorme", "soma", "somando"} /\ ~ DecideLeilao(i)
    <3>1. CASE fio'[i] = fio[i]
      <4>1. ~ DecideLeilao(i)
        <5> SUFFICES ASSUME DecideLeilao(i) PROVE FALSE
          OBVIOUS
        <5>1. PICK x \in {"ordena", "arquiva"} : fio' = [fio EXCEPT ![i].pc = x]
          BY DEF DecideLeilao
        <5>2. fio'[i].pc = x
          BY <1>1, <5>1 DEF TipoFio
        <5> QED
          BY <5>2
      <4> QED
        BY <3>1, <4>1
    <3>2. CASE UNCHANGED vars
      BY <3>1, <3>2 DEF vars
    <3>3. CASE (\E m \in Mensagens : Recebe(m)) \/ PassoServidor
      <4>1. CASE fio'[i] # fio[i]
        <5>1. fio[i].pc = "nenhum"
          BY <3>3, <4>1, PassoDeServidor
        <5> QED
          BY <5>1 DEF DecideLeilao
      <4> QED
        BY <3>1, <4>1
    <3>4. ASSUME NEW j \in Objs, PassoFio(j), j # i PROVE fio'[i] = fio[i]
      BY <3>4, PassoDeFio
    <3>5. CASE PassoFio(i)
      <4>1. fio'[i].pc \in {"soma", "somando"}
        BY <3>5, PassoDeFio
      <4>2. ~ DecideLeilao(i) /\ ~ alocaInvestidores(i)
        <5>1. ~ DecideLeilao(i)
          <6> SUFFICES ASSUME DecideLeilao(i) PROVE FALSE
            OBVIOUS
          <6>1. PICK x \in {"ordena", "arquiva"} : fio' = [fio EXCEPT ![i].pc = x]
            BY DEF DecideLeilao
          <6>2. fio'[i].pc = x
            BY <1>1, <6>1 DEF TipoFio
          <6> QED
            BY <4>1, <6>2
        <5> QED
          BY <4>1, <5>1, EfeitoAloca
      <4>3. fio[i].pc \notin {"arquiva", "publica", "json", "escrevendo", "put"}
        BY <2>1, <3>5, <4>1, <4>2, CaminhoDoFio
      <4>4. fio[i].pc \notin {"ordena", "ordenando"}
        <5>1. fio[i].pc \in {"ordena", "ordenando"} =>
                 IniciaTravessia(i) \/ TravessiaInterrompida(i)
          BY <3>5, <4>2 DEF PassoFio, PassoLocalFio, RemoveLeilao, RemoveEmissao, DecideEmissao,
                ArquivaLeilao, ArquivaEmissao, FioPublica, FioPut
        <5>2. TravessiaInterrompida(i) => fio'[i].pc = "morto"
          BY <1>1 DEF TravessiaInterrompida, TipoFio
        <5>3. IniciaTravessia(i) /\ fio[i].pc \in {"ordena", "ordenando"} =>
                 fio'[i].pc = "ordenando"
          BY <1>1, EfeitoTravessia
        <5> QED
          BY <4>1, <5>1, <5>2, <5>3
      <4>5. fio[i].pc \in PCsFio /\ fio[i].pc \notin {"fim", "morto"}
        BY <1>1, <3>5, PassoDeFio DEF TipoFio
      <4> QED
        BY <4>2, <4>3, <4>4, <4>5 DEF PCsFio
    <3> QED
      BY <3>1, <3>2, <3>3, <3>4, <3>5 DEF Next
  <2>3. ~ obj[i].sucesso
    BY <2>1, <2>2 DEF PorDecidir
  <2>4. ASSUME NEW j \in Objs, RemoveEmissao(j), emissoes[obj[j].empresa] = i,
               obj[j].empresa \in Nomes
        PROVE  FALSE
    <3>1. i # Nulo
      BY ObjsTipo
    <3> QED
      BY <1>1, <2>1, <2>4, <3>1 DEF InvMapas, InvMapa
  <2>5. ASSUME NEW j \in Objs, DecideLeilao(j) \/ DecideEmissao(j), fio[j].alvo = i PROVE FALSE
    <3>1. i # Nulo
      BY ObjsTipo
    <3>2. obj[j].tipo = "leilao" /\ fio[j].pc = "somando"
      BY <1>1, <2>1, <2>5, <3>1 DEF InvFios, InvFio, DecideLeilao, DecideEmissao
    <3>3. j = i
      BY <1>1, <2>5, <3>2 DEF FechaOProprio
    <3> QED
      BY <2>2, <2>5, <3>2, <3>3 DEF DecideEmissao
  <2> QED
    BY <1>3, <2>3, <2>4, <2>5, SucessoMuda
<1> QED
  BY <1>2, <1>3

\* What appending a bid adds to what the bids offer an object.
LEMMA PropostasCrescem ==
    ASSUME Indutivo, AdicionaLicitacao, NEW a
    PROVE  LET x == IF srv.alvo = a /\ licitacao'[nLic + 1].aTempo
                    THEN srv.pedido.quantia ELSE 0
               y == IF x < 0 THEN - x ELSE x
           IN  /\ srv.pedido.quantia \in Int
               /\ Propostas(a)' = Append(Propostas(a), x)
               /\ Soma(Propostas(a))' = Soma(Propostas(a)) + x
               /\ Soma(Absolutos(Propostas(a)))' = Soma(Absolutos(Propostas(a))) + y
<1> DEFINE x == IF srv.alvo = a /\ licitacao'[nLic + 1].aTempo THEN srv.pedido.quantia ELSE 0
           y == IF x < 0 THEN - x ELSE x
<1>1. TypeOK /\ InvServidor /\ licitacao \in [Lics -> TipoLicitacao]
  BY DEF Indutivo, TypeOK
<1>2. srv.pedido.quantia \in Int
  BY <1>1, ExchangeAssumption DEF AdicionaLicitacao, InvServidor
<1>3. PICK n \in Nat : n = nLic /\ n + 1 \in Lics /\ nLic' = n + 1
  BY EfeitoAdiciona
<1>4. /\ licitacao'[n + 1].alvo = srv.alvo /\ licitacao'[n + 1].quantia = srv.pedido.quantia
      /\ \A b \in 1 .. n : licitacao'[b] = licitacao[b]
  <2>1. licitacao'[n + 1].alvo = srv.alvo
    BY <1>3, EfeitoAdiciona
  <2>2. PICK t, v : licitacao' = [licitacao EXCEPT ![n + 1] =
                       Licitacao(srv.alvo, t, srv.pedido.quantia, v)]
    BY <1>3 DEF AdicionaLicitacao
  <2>3. licitacao'[n + 1].quantia = srv.pedido.quantia
    BY <1>1, <1>3, <2>2 DEF Licitacao
  <2>4. \A b \in 1 .. n : licitacao'[b] = licitacao[b]
    <3>1. [Next]_vars
      BY DEF Next, PassoServidor, PassoLocalServidor
    <3> QED
      BY <1>3, <3>1, TardiaFica
  <2> QED
    BY <2>1, <2>3, <2>4
<1>5. PICK q, r : q = Propostas(a) /\ r = Propostas(a)'
  OBVIOUS
<1>6. q \in Seq(Int) /\ Len(q) = n
  BY <1>3, <1>5, PropostasTipo
<1>7. r = [b \in 1 .. n + 1 |-> IF licitacao'[b].alvo = a /\ licitacao'[b].aTempo
                                THEN licitacao'[b].quantia ELSE 0]
  BY <1>3, <1>5 DEF Propostas
<1>8. r[n + 1] = x
  BY <1>4, <1>7, <1>3
<1>9. \A b \in 1 .. n : r[b] = q[b]
  BY <1>3, <1>4, <1>5, <1>7 DEF Propostas
<1>10. x \in Int
  BY <1>2
<1> HIDE DEF x
<1>11. r = Append(q, x)
  <2>1. \A b \in 1 .. n + 1 : r[b] \in Int
    <3>1. \A b \in 1 .. n : q[b] \in Int
      BY <1>6
    <3> QED
      BY <1>8, <1>9, <1>10, <3>1
  <2>2. r \in Seq(Int) /\ Len(r) = n + 1
    BY <1>7, <2>1
  <2>3. PICK s : s = Append(q, x)
    OBVIOUS
  <2>4. s \in Seq(Int) /\ Len(s) = n + 1 /\ s[n + 1] = x /\ \A b \in 1 .. n : s[b] = q[b]
    BY <1>6, <1>10, <2>3
  <2>5. \A b \in 1 .. n + 1 : r[b] = s[b]
    BY <1>8, <1>9, <2>4
  <2> QED
    BY <2>2, <2>3, <2>4, <2>5, SeqEqual
<1>12. Soma(r) = Soma(q) + x
  BY <1>6, <1>10, <1>11, SomaAcrescenta
<1>13. Soma(Absolutos(r)) = Soma(Absolutos(q)) + y
  BY <1>6, <1>10, <1>11, AbsolutosAcrescenta
<1>14. Soma(r) = Soma(Propostas(a))' /\ Soma(Absolutos(r)) = Soma(Absolutos(Propostas(a)))'
  BY <1>5
<1> QED
  BY <1>2, <1>5, <1>11, <1>12, <1>13, <1>14 DEF x

\* What the bids offer an object that a thread has taken does not change, unless one
\* comes late.
LEMMA PropostasFicam ==
    ASSUME Indutivo, AbertoDorme, [Next]_vars, NEW i \in Objs, fio[i].alvo # Nulo,
           NEW a, a = fio[i].alvo, SemTardias(a)'
    PROVE  /\ Soma(Propostas(a))' = Soma(Propostas(a))
           /\ Soma(Absolutos(Propostas(a)))' = Soma(Absolutos(Propostas(a)))
           /\ ~ (AdicionaLicitacao /\ srv.alvo = a)
<1>1. AdicionaLicitacao => srv.alvo # a
  <2> SUFFICES ASSUME AdicionaLicitacao, srv.alvo = a PROVE FALSE
    OBVIOUS
  <2>1. ~ licitacao'[nLic + 1].aTempo /\ licitacao'[nLic + 1].alvo = a
    BY EfeitoAdiciona, TomadoFechado
  <2>2. nLic + 1 \in 1 .. nLic'
    BY EfeitoAdiciona, SMTT(30)
  <2> QED
    BY <2>1, <2>2 DEF SemTardias
<1>2. CASE AdicionaLicitacao
  <2>1. Soma(Propostas(a)) \in Int /\ Soma(Absolutos(Propostas(a))) \in Int
    BY PropostasTipo, SomasRecursao, SomasLimitadas
  <2>2. /\ Soma(Propostas(a))' = Soma(Propostas(a)) + 0
        /\ Soma(Absolutos(Propostas(a)))' = Soma(Absolutos(Propostas(a))) + 0
    BY <1>1, <1>2, PropostasCrescem
  <2> QED
    BY <1>1, <2>1, <2>2
<1>3. CASE UNCHANGED <<licitacao, nLic>>
  <2>1. Propostas(a)' = Propostas(a)
    BY <1>3 DEF Propostas
  <2> QED
    BY <1>1, <2>1
<1> QED
  BY <1>2, <1>3, SoServidorLicita

\* A sequence is one over any set that holds its elements.
LEMMA SequenciaEm ==
    ASSUME NEW S, NEW T, NEW s \in Seq(S), \A k \in DOMAIN s : s[k] \in T
    PROVE  s \in Seq(T)
<1>1. PICK n \in Nat : n = Len(s) /\ DOMAIN s = 1 .. n
  OBVIOUS
<1>2. s = [k \in 1 .. n |-> s[k]]
  BY <1>1
<1>3. s \in [1 .. n -> T]
  BY <1>1, <1>2
<1> QED
  BY <1>3

\* A thread that has seen no bid come late decides by what was offered on time.
LEMMA CobertoSomado ==
    ASSUME Indutivo, AbertoDorme, Travessias, InvSelecao, InvListas, InvATempo, InvAlvos,
           NEW i \in Objs, fio[i].pc \in {"somando", "ordenando"},
           NEW a, a = fio[i].alvo, SemTardias(a), SemTransbordo(a)
    PROVE  /\ a \in Objs /\ a \in 1 .. nObj /\ obj[a].licitacoes \in Seq(1 .. nLic)
           /\ \A k, l \in DOMAIN obj[a].licitacoes :
                 k < l => obj[a].licitacoes[k] < obj[a].licitacoes[l]
           /\ \A b \in 1 .. nLic : licitacao[b].alvo = a /\ licitacao[b].aTempo <=>
                 \E k \in DOMAIN obj[a].licitacoes : obj[a].licitacoes[k] = b
           /\ Vistas(i) = obj[a].licitacoes
           /\ Coberto(i) <=> obj[a].montante <= Soma(Propostas(a))
<1>1. TypeOK /\ InvFios /\ FechaOProprio /\ nObj \in Nat
  BY ExchangeAssumption DEF Indutivo, TypeOK
<1>2. a \in Objs /\ a <= nObj /\ a # Nulo
  BY <1>1 DEF InvFios, InvFio, TypeOK, TipoFio, Refs
<1>3. ~ fio[a].lista
  <2>1. fio[a].lista => fio[a].alvo = a /\ fio[a].pc \notin {"somando", "ordenando"}
    BY <1>2 DEF InvSelecao
  <2>2. fio[a].alvo = a => i = a
    BY <1>2 DEF Indutivo, AlvoUnico
  <2> QED
    BY <2>1, <2>2
<1>4. PICK s : s = obj[a].licitacoes
  OBVIOUS
<1>5. s \in Seq(Lics) /\ \A k \in DOMAIN s : s[k] \in 1 .. nLic
  <2>1. s \in Seq(Lics)
    BY <1>1, <1>2, <1>4 DEF TypeOK, TipoObjeto
  <2>2. \A k \in DOMAIN s : s[k] \in Lics /\ s[k] <= nLic
    BY <1>2, <1>4, <2>1 DEF InvListas, InvLista
  <2>3. nLic \in Nat /\ \A b \in Lics : b \in Nat /\ 0 < b
    BY PropostasTipo, ExchangeAssumption DEF Lics
  <2>4. \A k \in DOMAIN s : s[k] \in 1 .. nLic
    BY <2>2, <2>3
  <2> QED
    BY <2>1, <2>4
<1>6. s \in Seq(1 .. nLic) /\ \A k, l \in DOMAIN s : k < l => s[k] < s[l]
  <2>1. s \in Seq(1 .. nLic)
    BY <1>5, SequenciaEm
  <2> QED
    BY <1>2, <1>3, <1>4, <2>1 DEF InvListas, InvLista
<1>7. ASSUME NEW b \in 1 .. nLic
      PROVE  licitacao[b].alvo = a /\ licitacao[b].aTempo <=> \E k \in DOMAIN s : s[k] = b
  <2>1. ASSUME licitacao[b].alvo = a, licitacao[b].aTempo PROVE \E k \in DOMAIN s : s[k] = b
    <3>1. b \in Lista(a)
      BY <1>3, <2>1 DEF InvATempo
    <3> QED
      BY <1>4, <3>1 DEF Lista
  <2>2. ASSUME NEW k \in DOMAIN s, s[k] = b PROVE licitacao[b].alvo = a /\ licitacao[b].aTempo
    <3>1. licitacao[b].alvo = a
      BY <1>2, <1>4, <2>2 DEF InvAlvos
    <3> QED
      BY <3>1 DEF SemTardias
  <2> QED
    BY <2>1, <2>2
<1>8. Vistas(i) = s
  <2>1. Len(s) = fio[i].n
    BY <1>4 DEF Travessias
  <2>2. Vistas(i) = SubSeq(s, 1, Len(s))
    BY <1>4, <2>1 DEF Vistas, LicitacoesDe
  <2>3. SubSeq(s, 1, Len(s)) = s
    BY <1>5
  <2> QED
    BY <2>2, <2>3
<1>9. Coberto(i) <=> obj[a].montante <= Soma(Propostas(a))
  <2>1. \A k, l \in DOMAIN s : s[k] = s[l] => k = l
    <3> SUFFICES ASSUME NEW k \in DOMAIN s, NEW l \in DOMAIN s, s[k] = s[l], k < l PROVE FALSE
      BY <1>5
    <3> QED
      BY <1>5, <1>6
  <2>2. PICK q : q = Valores(s)
    OBVIOUS
  <2>3. /\ q \in Seq(Int) /\ Len(q) = Len(s) /\ Soma(q) = Soma(Propostas(a))
        /\ Soma(Absolutos(q)) = Soma(Absolutos(Propostas(a)))
    BY <1>6, <1>7, <2>1, <2>2, SomaDeTodas
  <2>4. \A k \in 1 .. Len(q) : licitacao[s[k]].quantia = q[k]
    BY <1>5, <2>2, <2>3 DEF Valores
  <2>5. \A k \in 0 .. Len(q) : Acumulado(s, licitacao)[k] = Somas(q)[k]
    BY <2>3, <2>4, AcumuladoExato DEF SemTransbordo
  <2>6. Len(q) \in 0 .. Len(q)
    BY <2>3
  <2>7. InvestimentoTotal(Vistas(i), licitacao) = Soma(q)
    BY <1>8, <2>3, <2>5, <2>6 DEF InvestimentoTotal, Soma
  <2> QED
    BY <2>3, <2>7 DEF Coberto
<1>10. a \in 1 .. nObj
  BY <1>1, <1>2, ObjsTipo
<1> QED
  BY <1>2, <1>4, <1>6, <1>7, <1>8, <1>9, <1>10

\* What a thread took is its own once it is awake.
LEMMA AlvoFica ==
    ASSUME Indutivo, [Next]_vars, NEW i \in Objs, fio[i].pc \notin {"nenhum", "dorme"}
    PROVE  fio'[i].alvo = fio[i].alvo
<1>1. CASE UNCHANGED vars
  BY <1>1 DEF vars
<1>2. CASE (\E m \in Mensagens : Recebe(m)) \/ PassoServidor
  BY <1>2, PassoDeServidor
<1>3. ASSUME NEW k \in Objs, PassoFio(k) PROVE fio'[i].alvo = fio[i].alvo
  BY <1>3, PassoDeFio
<1> QED
  BY <1>1, <1>2, <1>3 DEF Next

\* A thread past the decision has an object, its own if it is an auction.
LEMMA DecididoTem ==
    ASSUME Indutivo, NEW i \in Objs, Decidiu(i)
    PROVE  /\ fio[i].pc \notin {"nenhum", "dorme", "morto", "somando"}
           /\ fio[i].alvo # Nulo /\ fio[i].alvo \in Objs /\ fio[i].alvo <= nObj
           /\ obj[i].tipo = "leilao" => fio[i].alvo = i
<1>1. InvFios /\ FechaOProprio /\ fio[i].alvo \in Refs
  BY DEF Indutivo, TypeOK, TipoFio
<1>2. fio[i].pc \notin {"nenhum", "dorme", "morto", "somando"}
  BY DEF Decidiu
<1> QED
  BY <1>1, <1>2 DEF InvFios, InvFio, FechaOProprio, Refs

\* Once its thread is past the decision, nobody touches the success of an object.
LEMMA DecididoFica ==
    ASSUME Indutivo, [Next]_vars, NEW i \in Objs, Decidiu(i), NEW a, a = fio[i].alvo
    PROVE  a \in Objs /\ obj'[a].sucesso = obj[a].sucesso /\ obj'[a].montante = obj[a].montante
<1>1. /\ a \in Objs /\ a # Nulo /\ a <= nObj /\ nObj \in Nat /\ a \in Nat
      /\ fio[i].pc # "somando"
  BY DecididoTem, ObjetosCrescem, ObjsTipo
<1>2. obj'[a].montante = obj[a].montante
  BY <1>1, ObjetoFica
<1>3. ASSUME NEW j \in Objs, RemoveEmissao(j), emissoes[obj[j].empresa] = a,
             obj[j].empresa \in Nomes
      PROVE  FALSE
  BY <1>1, <1>3 DEF Indutivo, InvMapas, InvMapa
<1>4. ASSUME NEW j \in Objs, DecideLeilao(j) \/ DecideEmissao(j), fio[j].alvo = a PROVE FALSE
  <2>1. j = i
    BY <1>1, <1>4 DEF Indutivo, AlvoUnico
  <2> QED
    BY <1>1, <1>4, <2>1 DEF DecideLeilao, DecideEmissao
<1>5. a # nObj + 1
  BY <1>1
<1>6. obj'[a].sucesso = obj[a].sucesso
  BY <1>1, <1>3, <1>4, <1>5, SucessoMuda, Zenon
<1> QED
  BY <1>1, <1>2, <1>6

\* The step that decides records what the bids justify.
LEMMA DecideBem ==
    ASSUME Indutivo, AbertoDorme, Travessias, InvSelecao, InvListas, InvATempo, InvAlvos,
           PorDecidir, NEW i \in Objs, DecideLeilao(i) \/ DecideEmissao(i),
           NEW a, a = fio[i].alvo, SemTardias(a), SemTransbordo(a)
    PROVE  obj'[a].sucesso <=> obj[a].montante <= Soma(Propostas(a))
<1>1. fio[i].pc = "somando" /\ obj \in [Objs -> TipoObjeto]
  BY DEF DecideLeilao, DecideEmissao, Indutivo, TypeOK
<1>2. a \in Objs /\ (Coberto(i) <=> obj[a].montante <= Soma(Propostas(a)))
  BY <1>1, CobertoSomado
<1>3. CASE DecideLeilao(i)
  <2>1. a = i /\ ~ obj[a].sucesso
    BY <1>1, <1>3 DEF DecideLeilao, PorDecidir, Indutivo, FechaOProprio
  <2>2. PICK c \in BOOLEAN : c <=> Coberto(i)
    BY DEF Coberto
  <2>3. PICK v : v = (obj[a].sucesso \/ Coberto(i))
    OBVIOUS
  <2>4. obj' = [obj EXCEPT ![a].sucesso = v]
    BY <1>1, <1>2, <1>3, <2>3 DEF DecideLeilao
  <2>5. obj'[a].sucesso = v
    BY <1>1, <1>2, <2>4 DEF TipoObjeto
  <2>6. v <=> Coberto(i)
    BY <2>1, <2>3
  <2> QED
    BY <1>2, <2>5, <2>6
<1>4. CASE DecideEmissao(i)
  <2>1. PICK v : v = Coberto(i)
    OBVIOUS
  <2>2. obj' = [obj EXCEPT ![a].sucesso = v]
    BY <1>4, <2>1 DEF DecideEmissao
  <2>3. obj'[a].sucesso = v
    BY <1>1, <1>2, <2>2 DEF TipoObjeto
  <2> QED
    BY <1>2, <2>1, <2>3
<1> QED
  BY <1>3, <1>4

\* The verdict of a thread past the decision is the right one, and stays so.
LEMMA PassoInvDecisao ==
    ASSUME Indutivo, AbertoDorme, Travessias, InvSelecao, InvListas, InvATempo, InvAlvos,
           PorDecidir, InvDecisao, [Next]_vars
    PROVE  InvDecisao'
<1> SUFFICES ASSUME NEW i \in Objs, Decidiu(i)', NEW a, a = fio'[i].alvo,
                    SemTardias(a)', SemTransbordo(a)'
             PROVE  obj'[a].sucesso <=> obj'[a].montante <= Soma(Propostas(a))'
  BY DEF InvDecisao, Veredito
<1>1. CASE Decidiu(i)
  <2>1. fio[i].alvo # Nulo /\ a = fio[i].alvo
    BY <1>1, DecididoTem, AlvoFica
  <2>2. /\ Soma(Propostas(a))' = Soma(Propostas(a))
        /\ Soma(Absolutos(Propostas(a)))' = Soma(Absolutos(Propostas(a)))
    BY <2>1, PropostasFicam
  <2>3. SemTardias(a) /\ SemTransbordo(a)
    BY <2>2, TardiaFica DEF SemTransbordo
  <2>4. obj[a].sucesso <=> obj[a].montante <= Soma(Propostas(a))
    BY <1>1, <2>1, <2>3 DEF InvDecisao, Veredito
  <2> QED
    BY <1>1, <2>1, <2>2, <2>4, DecididoFica
<1>2. CASE ~ Decidiu(i)
  <2>1. DecideLeilao(i) \/ DecideEmissao(i)
    BY <1>2, ChegaADecidir
  <2>2. fio[i].pc = "somando" /\ licitacao' = licitacao /\ nLic' = nLic
    BY <2>1 DEF DecideLeilao, DecideEmissao
  <2>3. a = fio[i].alvo /\ a # Nulo /\ a \in Objs /\ a <= nObj /\ nObj \in Nat /\ a \in Nat
    <3>1. a = fio[i].alvo /\ a # Nulo
      BY <2>2, AlvoFica DEF Indutivo, InvFios, InvFio
    <3>2. a \in Objs /\ a <= nObj
      BY <2>2, <3>1 DEF Indutivo, InvFios, InvFio, TypeOK, TipoFio, Refs
    <3> QED
      BY <3>1, <3>2, ObjetosCrescem, ObjsTipo
  <2>4. Propostas(a)' = Propostas(a)
    BY <2>2 DEF Propostas
  <2>5. SemTardias(a) /\ SemTransbordo(a)
    BY <2>4, TardiaFica DEF SemTransbordo
  <2>6. obj'[a].sucesso <=> obj[a].montante <= Soma(Propostas(a))
    BY <2>1, <2>3, <2>5, DecideBem
  <2>7. obj'[a].montante = obj[a].montante
    BY <2>3, ObjetoFica
  <2> QED
    BY <2>4, <2>6, <2>7
<1> QED
  BY <1>1, <1>2

\* An archived auction was taken by its own thread, which did not die unless a bid came
\* late.
LEMMA ArquivadoDecidido ==
    ASSUME Indutivo, MorteExplicada, NEW a \in Objs, Arquivado(a)
    PROVE  /\ obj[a].tipo = "leilao" /\ fio[a].alvo = a /\ Arquivou(a)
           /\ SemTardias(a) => Decidiu(a)
<1>1. PICK e \in Empresas : \E k \in DOMAIN historicoLeiloes[e] : historicoLeiloes[e][k] = a
  BY DEF Arquivado
<1>2. obj[a].tipo = "leilao"
  BY <1>1 DEF Indutivo, HistoricoFiel
<1>3. PICK j \in Objs : Arquivou(j) /\ fio[j].alvo = a
  BY <1>1 DEF Indutivo, InvHistorico
<1>4. obj[j].tipo = "leilao"
  BY <1>2, <1>3, ObjsTipo DEF Indutivo, InvFios, InvFio
<1>5. fio[j].pc \in {"publica", "json", "escrevendo", "put", "fim", "morto"}
  BY <1>3, <1>4 DEF Arquivou
<1>6. j = a
  BY <1>3, <1>4, <1>5 DEF Indutivo, FechaOProprio
<1>7. SemTardias(a) => fio[j].pc # "morto"
  BY <1>3, ObjsTipo DEF MorteExplicada
<1> QED
  BY <1>2, <1>3, <1>5, <1>6, <1>7 DEF Decidiu

\* All that the decision rests on.
InvDecidida ==
    /\ AbertoDorme /\ Travessias /\ Levadas /\ MorteExplicada /\ InvSelecao
    /\ InvListas /\ InvATempo /\ InvAlvos /\ PorDecidir /\ InvDecisao

\* It holds at first ...
LEMMA InicioDecidida == Init => InvDecidida
<1> SUFFICES ASSUME Init PROVE InvDecidida
  OBVIOUS
<1>1. nLic = 0 /\ 1 .. nLic = {}
  BY DEF Init
<1>2. \A i \in Objs : fio[i].pc = "nenhum" /\ fio[i].lista = FALSE
  BY DEF Init, PorIniciar
<1>3. \A e \in Nomes : leiloes[e] = Nulo
  BY DEF Init
<1>4. \A i \in Objs : obj[i].licitacoes = <<>> /\ ~ obj[i].sucesso
  BY DEF Init, PorCriar, Objeto
<1>5. AbertoDorme /\ InvSelecao /\ Travessias /\ Levadas /\ MorteExplicada
  BY <1>2, <1>3 DEF AbertoDorme, InvSelecao, Travessias, Levadas, MorteExplicada
<1>6. InvListas /\ InvAlvos /\ PorDecidir
  BY <1>4 DEF InvListas, InvLista, InvAlvos, PorDecidir
<1>7. InvDecisao
  BY <1>2 DEF InvDecisao, Decidiu
<1> QED
  BY <1>1, <1>5, <1>6, <1>7 DEF InvATempo, InvDecidida

\* ... and every step preserves it.
LEMMA PassoDecidida == Indutivo /\ InvDecidida /\ [Next]_vars => InvDecidida'
  BY PassoAbertoDorme, PassoTravessias, PassoLevadas, PassoMorteExplicada, PassoInvSelecao,
     PassoInvListas, PassoInvATempo, PassoInvAlvos, PassoPorDecidir, PassoInvDecisao
     DEF InvDecidida

\* An auction or an issue is recorded as successful exactly if the bids made while it was
\* open add up to the amount (TerminaLeilao.run, TerminaEmissao.run), however many
\* requests and other threads come between the adding up and the archiving, unless a bid
\* came late or the sum leaves the range of an int.
THEOREM DecisoesCorretas == Spec => []DecisaoCorreta
<1>1. Indutivo /\ InvDecidida => DecisaoCorreta
  <2> SUFFICES ASSUME Indutivo, InvDecidida, NEW a \in Decididos, SemTardias(a),
                      SemTransbordo(a)
               PROVE  obj[a].sucesso <=> obj[a].montante <= Soma(Propostas(a))
    BY DEF DecisaoCorreta
  <2>1. a \in Objs
    BY DEF Decididos
  <2>2. CASE Arquivado(a)
    BY <2>1, <2>2, ArquivadoDecidido DEF InvDecidida, InvDecisao, Veredito
  <2>3. CASE \E i \in Objs : /\ obj[i].tipo = "emissao" /\ fio[i].alvo = a
                             /\ fio[i].pc \in {"put", "fim"}
    BY <2>3 DEF InvDecidida, InvDecisao, Veredito, Decidiu
  <2> QED
    BY <2>2, <2>3 DEF Decididos
<1> QED
  BY <1>1, InicioDecidida, PassoDecidida, IndutivoSempre, PTL DEF Spec

-----------------------------------------------------------------------------
(* The threads implement the abstract auctions.                            *)

\* What is not built yet is nothing, and no bid was made to it; the server thread holds
\* an object of the company it was asked about.
InvNovos ==
    /\ \A i \in Objs : i > nObj => obj[i].tipo = "nenhum"
    /\ \A b \in 1 .. nLic : licitacao[b].alvo <= nObj
    /\ srv.pc = "add" => srv.alvo <= nObj /\ obj[srv.alvo].empresa = srv.pedido.empresa

\* The steps of the server thread that end before the bid is built.
LEMMA SoLicitarEscolhe ==
    ASSUME Indutivo, [Next]_vars, srv'.pc = "add"
    PROVE  licitar \/ emprestimo \/ srv' = srv
<1>1. srv \in TipoServidor
  BY DEF Indutivo, TypeOK
<1>2. CASE UNCHANGED vars \/ \E i \in Objs : PassoFio(i)
  BY <1>2, PassoDeFio DEF vars
<1>3. CASE \E m \in Mensagens : Recebe(m)
  BY <1>1, <1>3 DEF Recebe, TipoServidor
<1>4. CASE Recusa \/ ServidorPost \/ EmpresaDesconhecida
  <2>1. srv' \in {Ocioso, [Ocioso EXCEPT !.pc = "morto"]}
    BY <1>4 DEF Recusa, ServidorPost, EmpresaDesconhecida
  <2> QED
    BY <2>1 DEF Ocioso
<1>5. CASE AdicionaLicitacao \/ ServidorPublica
  <2>1. PICK x \in {"publica", "ids", "post"} : srv' = [srv EXCEPT !.pc = x]
    BY <1>5 DEF AdicionaLicitacao, ServidorPublica
  <2> QED
    BY <1>1, <2>1 DEF TipoServidor
<1>6. CASE LeIndices
  BY <1>1, <1>6 DEF LeIndices, TipoServidor
<1>7. CASE leilao
  BY <1>1, <1>7 DEF leilao, TipoServidor
<1>8. CASE IniciaTerminaLeilao
  BY <1>1, <1>8 DEF IniciaTerminaLeilao, TipoServidor
<1>9. CASE emissao
  BY <1>1, <1>9 DEF emissao, TipoServidor
<1>10. CASE LeUltimoLeilao
  BY <1>1, <1>10 DEF LeUltimoLeilao, TipoServidor
<1>11. CASE LeTaxaEmissao
  BY <1>1, <1>11 DEF LeTaxaEmissao, TipoServidor
<1>12. CASE CriaEmissao
  BY <1>1, <1>12 DEF CriaEmissao, TipoServidor
<1> QED
  BY <1>2, <1>3, <1>4, <1>5, <1>6, <1>7, <1>8, <1>9, <1>10, <1>11, <1>12
  DEF Next, PassoServidor, PassoLocalServidor

\* It is an invariant.
LEMMA PassoInvNovos ==
    ASSUME Indutivo, InvNovos, [Next]_vars
    PROVE  InvNovos'
<1>1. TypeOK /\ InvServidor /\ InvMapas
  BY DEF Indutivo
<1>2. nObj \in Nat /\ nObj' \in Nat /\ nObj <= nObj' /\ nLic \in Nat
  BY ObjetosCrescem, PropostasTipo
<1>3. ASSUME NEW i \in Objs, i > nObj' PROVE obj'[i].tipo = "nenhum"
  <2>1. i \in Nat /\ i > nObj
    BY <1>2, <1>3, ObjsTipo
  <2>2. leilao \/ CriaEmissao => nObj' = nObj + 1
    BY DEF leilao, CriaEmissao
  <2>3. obj'[i].tipo = obj[i].tipo
    BY <1>2, <1>3, <2>1, <2>2, ObjetoFica
  <2> QED
    BY <2>1, <2>3 DEF InvNovos
<1>4. ASSUME NEW b \in 1 .. nLic' PROVE licitacao'[b].alvo <= nObj'
  <2>1. CASE b \in 1 .. nLic
    <3>1. licitacao'[b] = licitacao[b] /\ licitacao[b].alvo <= nObj
      BY <2>1, TardiaFica DEF InvNovos
    <3>2. b \in Lics
      BY <2>1, PropostasTipo
    <3>3. licitacao[b].alvo \in Nat
      BY <1>1, <3>2, ObjsTipo DEF TypeOK, TipoLicitacao, Refs
    <3> QED
      BY <1>2, <3>1, <3>3
  <2>2. CASE b \notin 1 .. nLic
    <3>1. AdicionaLicitacao
      BY <2>2, SoServidorLicita
    <3>2. b = nLic + 1 /\ licitacao'[nLic + 1].alvo = srv.alvo /\ srv.alvo \in Objs
      BY <1>2, <2>2, <3>1, EfeitoAdiciona
    <3>3. srv.alvo <= nObj
      BY <3>1 DEF AdicionaLicitacao, InvNovos
    <3> QED
      BY <1>2, <3>2, <3>3, ObjsTipo
  <2> QED
    BY <2>1, <2>2
<1>5. ASSUME srv'.pc = "add"
      PROVE  srv'.alvo <= nObj' /\ obj'[srv'.alvo].empresa = srv'.pedido.empresa
  <2>1. /\ srv'.alvo \in Objs /\ srv'.alvo <= nObj
        /\ obj[srv'.alvo].empresa = srv'.pedido.empresa
    <3>1. CASE srv' = srv
      BY <1>1, <1>5, <3>1 DEF InvNovos, InvServidor
    <3>2. CASE licitar \/ emprestimo
      <4>0. PICK e : e = srv.pedido.empresa
        OBVIOUS
      <4>1. /\ srv'.alvo \in {leiloes[e], emissoes[e]} /\ srv'.alvo # Nulo
            /\ srv'.pedido = srv.pedido /\ srv.pc = "despacha"
        <5>1. CASE licitar
          <6>1. /\ srv' = [srv EXCEPT !.pc = "add", !.alvo = leiloes[e]]
                /\ leiloes[e] # Nulo /\ srv.pc = "despacha"
            BY <4>0, <5>1 DEF licitar, AceitaLicitar
          <6> QED
            BY <1>1, <6>1 DEF TypeOK, TipoServidor
        <5>2. CASE emprestimo
          <6>1. /\ srv' = [srv EXCEPT !.pc = "add", !.alvo = emissoes[e]]
                /\ emissoes[e] # Nulo /\ srv.pc = "despacha"
            BY <4>0, <5>2 DEF emprestimo, AceitaEmprestimo
          <6> QED
            BY <1>1, <6>1 DEF TypeOK, TipoServidor
        <5> QED
          BY <3>2, <5>1, <5>2
      <4>2. e \in Nomes
        BY <1>1, <4>0, <4>1, ExchangeAssumption DEF InvServidor
      <4>3. PICK a : a = srv'.alvo
        OBVIOUS
      <4>4. a \in Objs /\ a <= nObj /\ obj[a].empresa = e
        BY <1>1, <4>1, <4>2, <4>3 DEF TypeOK, Refs, InvMapas, InvMapa
      <4> QED
        BY <4>0, <4>1, <4>3, <4>4
    <3> QED
      BY <1>5, <3>1, <3>2, SoLicitarEscolhe
  <2>2. PICK a \in Objs : a = srv'.alvo /\ a <= nObj /\ a \in Nat
    BY <2>1, ObjsTipo
  <2>3. a # nObj + 1 /\ a <= nObj'
    BY <1>2, <2>2
  <2> QED
    BY <2>1, <2>2, <2>3, ObjetoFica
<1> QED
  BY <1>3, <1>4, <1>5 DEF InvNovos

\* The steps that build neither an auction nor a bid do not change what is seen of any
\* auction.
LEMMA VistoFica ==
    ASSUME Indutivo, InvNovos, [Next]_vars, ~ leilao, ~ AdicionaLicitacao, NEW i \in Objs
    PROVE  LeilaoVisto(i)' = LeilaoVisto(i)
<1>1. UNCHANGED <<licitacao, nLic>>
  BY SoServidorLicita
<1>2. Propostas(i)' = Propostas(i) /\ (SemTardias(i)' <=> SemTardias(i))
  BY <1>1 DEF Propostas, SemTardias
<1>3. CASE i = nObj + 1 /\ CriaEmissao
  <2>1. obj[i].tipo # "leilao"
    BY <1>3, ObjsTipo, ObjetosCrescem DEF InvNovos
  <2>2. obj'[i].tipo = "emissao"
    BY <1>3 DEF CriaEmissao, Emissao, Objeto, Indutivo, TypeOK
  <2> QED
    BY <2>1, <2>2 DEF LeilaoVisto
<1>4. CASE ~ (i = nObj + 1 /\ CriaEmissao)
  <2>1. /\ obj'[i].tipo = obj[i].tipo /\ obj'[i].empresa = obj[i].empresa
        /\ obj'[i].montante = obj[i].montante
    BY <1>4, ObjetoFica
  <2> QED
    BY <1>2, <2>1 DEF LeilaoVisto
<1> QED
  BY <1>3, <1>4

\* What appending a bid changes of what is seen of the auctions.
LEMMA VistoAdiciona ==
    ASSUME Indutivo, InvNovos, AdicionaLicitacao, NEW i \in Objs, NEW x, x = srv.pedido.quantia
    PROVE  /\ srv.alvo # i \/ obj[i].tipo # "leilao" => LeilaoVisto(i)' = LeilaoVisto(i)
           /\ srv.alvo = i /\ obj[i].tipo = "leilao" /\ licitacao'[nLic + 1].aTempo =>
                 LeilaoVisto(i)' = [LeilaoVisto(i) EXCEPT !.total = @ + x,
                                                         !.volume = @ + A!Absoluto(x)]
           /\ srv.alvo = i /\ obj[i].tipo = "leilao" /\ ~ licitacao'[nLic + 1].aTempo =>
                 LeilaoVisto(i)' = [LeilaoVisto(i) EXCEPT !.tardia = TRUE]
<1>1. [Next]_vars /\ ~ leilao /\ ~ CriaEmissao
  <2>1. srv.pc = "add" /\ [Next]_vars
    BY DEF Next, PassoServidor, PassoLocalServidor, AdicionaLicitacao
  <2> QED
    BY <2>1 DEF leilao, CriaEmissao
<1>2. /\ obj'[i].tipo = obj[i].tipo /\ obj'[i].empresa = obj[i].empresa
      /\ obj'[i].montante = obj[i].montante
  BY <1>1, ObjetoFica
<1>3. PICK c : c = licitacao'[nLic + 1].aTempo
  OBVIOUS
<1>4. PICK s, v, s1, v1 : /\ s = Soma(Propostas(i)) /\ s1 = Soma(Propostas(i))'
                          /\ v = Soma(Absolutos(Propostas(i)))
                          /\ v1 = Soma(Absolutos(Propostas(i)))'
  OBVIOUS
<1>5. s \in Int /\ v \in Int /\ x \in Int
  BY <1>4, PropostasTipo, SomasRecursao, SomasLimitadas, PropostasCrescem
<1>6. /\ srv.alvo = i /\ c => s1 = s + x /\ v1 = v + A!Absoluto(x)
      /\ srv.alvo # i \/ ~ c => s1 = s /\ v1 = v
  <2>1. PICK y : y = IF srv.alvo = i /\ c THEN x ELSE 0
    OBVIOUS
  <2>2. s1 = s + y /\ v1 = v + (IF y < 0 THEN - y ELSE y)
    BY <1>3, <1>4, <2>1, PropostasCrescem
  <2>3. srv.alvo = i /\ c => y = x
    BY <2>1
  <2>4. srv.alvo # i \/ ~ c => y = 0
    BY <2>1
  <2> QED
    BY <1>5, <2>2, <2>3, <2>4 DEF A!Absoluto
<1>7. SemTardias(i)' <=> SemTardias(i) /\ (srv.alvo = i => c)
  <2>1. PICK n \in Nat : n = nLic /\ nLic' = n + 1
    BY EfeitoAdiciona
  <2>2. licitacao'[n + 1].alvo = srv.alvo /\ licitacao'[n + 1].aTempo = c
    BY <1>3, <2>1, EfeitoAdiciona
  <2>3. \A b \in 1 .. n : licitacao'[b] = licitacao[b]
    BY <1>1, <2>1, TardiaFica
  <2>4. SemTardias(i)' <=> \A b \in 1 .. n + 1 : licitacao'[b].alvo = i => licitacao'[b].aTempo
    BY <2>1 DEF SemTardias
  <2>5. (\A b \in 1 .. n + 1 : licitacao'[b].alvo = i => licitacao'[b].aTempo) <=>
           /\ \A b \in 1 .. n : licitacao'[b].alvo = i => licitacao'[b].aTempo
           /\ licitacao'[n + 1].alvo = i => licitacao'[n + 1].aTempo
    <3>1. n + 1 \in 1 .. n + 1 /\ \A b \in 1 .. n + 1 : b \in 1 .. n \/ b = n + 1
      BY <2>1
    <3>2. \A b \in 1 .. n : b \in 1 .. n + 1
      BY <2>1
    <3> QED
      BY <3>1, <3>2
  <2>6. SemTardias(i) <=> \A b \in 1 .. n : licitacao[b].alvo = i => licitacao[b].aTempo
    BY <2>1 DEF SemTardias
  <2>7. (\A b \in 1 .. n : licitacao'[b].alvo = i => licitacao'[b].aTempo) <=> SemTardias(i)
    BY <2>3, <2>6
  <2> QED
    BY <2>2, <2>4, <2>5, <2>7
<1>8. PICK t, t1 : t = ~ SemTardias(i) /\ t1 = ~ SemTardias(i)'
  OBVIOUS
<1>9. PICK e, m : e = obj[i].empresa /\ m = obj[i].montante
  OBVIOUS
<1>10. CASE obj[i].tipo = "leilao"
  <2>0. PICK g : g = TRUE
    OBVIOUS
  <2>1. LeilaoVisto(i) = [existe |-> g, empresa |-> e, montante |-> m,
                          total |-> s, volume |-> v, tardia |-> t]
    BY <1>4, <1>8, <1>9, <1>10, <2>0 DEF LeilaoVisto
  <2>2. LeilaoVisto(i)' = [existe |-> g, empresa |-> e, montante |-> m,
                           total |-> s1, volume |-> v1, tardia |-> t1]
    BY <1>2, <1>4, <1>8, <1>9, <1>10, <2>0 DEF LeilaoVisto
  <2>3. srv.alvo # i \/ c => t1 = t
    BY <1>7, <1>8
  <2>4. srv.alvo = i /\ ~ c => t1 = g
    BY <1>7, <1>8, <2>0
  <2>5. srv.alvo # i => LeilaoVisto(i)' = LeilaoVisto(i)
    BY <1>6, <2>1, <2>2, <2>3
  <2>6. PICK z, y : z = LeilaoVisto(i) /\ y = A!Absoluto(x)
    OBVIOUS
  <2>7. z = [existe |-> g, empresa |-> e, montante |-> m, total |-> s, volume |-> v,
             tardia |-> t]
    BY <2>1, <2>6
  <2>8. ASSUME srv.alvo = i, c
        PROVE  LeilaoVisto(i)' = [z EXCEPT !.total = @ + x, !.volume = @ + y]
    <3>1. PICK w : w = [z EXCEPT !.total = @ + x]
      OBVIOUS
    <3>2. w = [existe |-> g, empresa |-> e, montante |-> m, total |-> s + x, volume |-> v,
               tardia |-> t]
      BY <2>7, <3>1
    <3>3. [w EXCEPT !.volume = @ + y] =
             [existe |-> g, empresa |-> e, montante |-> m, total |-> s + x, volume |-> v + y,
              tardia |-> t]
      BY <3>2
    <3>4. [z EXCEPT !.total = @ + x, !.volume = @ + y] = [w EXCEPT !.volume = @ + y]
      BY <3>1, Zenon
    <3>5. LeilaoVisto(i)' = [existe |-> g, empresa |-> e, montante |-> m, total |-> s + x,
                             volume |-> v + y, tardia |-> t]
      BY <1>6, <2>2, <2>3, <2>6, <2>8
    <3> QED
      BY <3>3, <3>4, <3>5, Zenon
  <2>9. ASSUME srv.alvo = i, ~ c PROVE LeilaoVisto(i)' = [z EXCEPT !.tardia = TRUE]
    <3>1. LeilaoVisto(i)' = [existe |-> g, empresa |-> e, montante |-> m, total |-> s,
                             volume |-> v, tardia |-> g]
      BY <1>6, <2>2, <2>4, <2>9
    <3>2. [z EXCEPT !.tardia = g] = [existe |-> g, empresa |-> e, montante |-> m, total |-> s,
                                     volume |-> v, tardia |-> g]
      BY <2>7
    <3> QED
      BY <2>0, <3>1, <3>2, Zenon
  <2> QED
    BY <1>3, <1>10, <2>5, <2>6, <2>8, <2>9
<1>11. CASE obj[i].tipo # "leilao"
  BY <1>2, <1>11 DEF LeilaoVisto
<1> QED
  BY <1>10, <1>11

\* Opening an auction makes it seen, with no bids.
LEMMA VistoNovo ==
    ASSUME Indutivo, InvNovos, leilao, NEW n, n = nObj + 1
    PROVE  /\ n \in Objs /\ LeilaoVisto(n).existe = FALSE
           /\ LeilaoVisto(n)' = [A!PorAbrir EXCEPT !.existe = TRUE,
                                                  !.empresa = srv.pedido.empresa,
                                                  !.montante = srv.pedido.quantia]
           /\ \A i \in Objs : i # n => LeilaoVisto(i)' = LeilaoVisto(i)
<1>1. [Next]_vars /\ UNCHANGED <<licitacao, nLic>>
  BY DEF Next, PassoServidor, PassoLocalServidor, leilao
<1>2. n \in Objs /\ n > nObj /\ nObj \in Nat
  <2>1. nObj < MaxObj /\ nObj \in Nat
    BY ExchangeAssumption DEF leilao, AceitaLeilao, Indutivo, InvServidor, TypeOK
  <2> QED
    BY <2>1, ExchangeAssumption DEF Objs
<1>3. obj[n].tipo # "leilao"
  BY <1>2 DEF InvNovos
<1>4. LeilaoVisto(n).existe = FALSE
  BY <1>3 DEF LeilaoVisto
<1>5. \A i \in Objs : i # n => LeilaoVisto(i)' = LeilaoVisto(i)
  <2> SUFFICES ASSUME NEW i \in Objs, i # n PROVE LeilaoVisto(i)' = LeilaoVisto(i)
    OBVIOUS
  <2>1. Propostas(i)' = Propostas(i) /\ (SemTardias(i)' <=> SemTardias(i))
    BY <1>1 DEF Propostas, SemTardias
  <2>2. /\ obj'[i].tipo = obj[i].tipo /\ obj'[i].empresa = obj[i].empresa
        /\ obj'[i].montante = obj[i].montante
    BY <1>1, ObjetoFica
  <2> QED
    BY <2>1, <2>2 DEF LeilaoVisto
<1>6. PICK e, m, g, f : /\ e = srv.pedido.empresa /\ m = srv.pedido.quantia
                        /\ g = TRUE /\ f = FALSE
  OBVIOUS
<1>7. obj'[n].tipo = "leilao" /\ obj'[n].empresa = e /\ obj'[n].montante = m
  <2>1. PICK j : j = srv.pedido.juro
    OBVIOUS
  <2>2. obj' = [obj EXCEPT ![n] = Leilao(e, j, m)]
    BY <1>6, <2>1 DEF leilao
  <2>3. obj'[n] = Leilao(e, j, m)
    BY <1>2, <2>2 DEF Indutivo, TypeOK
  <2> QED
    BY <2>3 DEF Leilao, Objeto
<1>8. \A b \in 1 .. nLic : licitacao[b].alvo # n
  <2> SUFFICES ASSUME NEW b \in 1 .. nLic, licitacao[b].alvo = n PROVE FALSE
    OBVIOUS
  <2>1. n <= nObj
    BY DEF InvNovos
  <2> QED
    BY <1>2, <2>1
<1>9. Soma(Propostas(n))' = 0 /\ Soma(Absolutos(Propostas(n)))' = 0
  <2>1. Propostas(n)' = Propostas(n)
    BY <1>1 DEF Propostas
  <2>2. PICK q : q = Propostas(n)
    OBVIOUS
  <2>3. q \in Seq(Int) /\ Len(q) = nLic
    BY <2>2, PropostasTipo
  <2>4. \A k \in 1 .. Len(q) : q[k] = 0
    BY <1>8, <2>2, <2>3 DEF Propostas
  <2>5. Soma(q) = 0 /\ Soma(Absolutos(q)) = 0
    BY <2>3, <2>4, SomaNula
  <2> QED
    BY <2>1, <2>2, <2>5
<1>10. SemTardias(n)'
  BY <1>1, <1>8 DEF SemTardias
<1>11. LeilaoVisto(n)' = [existe |-> g, empresa |-> e, montante |-> m,
                          total |-> 0, volume |-> 0, tardia |-> f]
  BY <1>6, <1>7, <1>9, <1>10 DEF LeilaoVisto
<1>12. PICK x, p : x = (CHOOSE y \in Nomes : TRUE) /\ p = A!PorAbrir
  OBVIOUS
<1>13. p = [existe |-> f, empresa |-> x, montante |-> 0, total |-> 0, volume |-> 0,
            tardia |-> f]
  BY <1>6, <1>12 DEF A!PorAbrir
<1>14. PICK u : u = [p EXCEPT !.existe = g]
  OBVIOUS
<1>15. u = [existe |-> g, empresa |-> x, montante |-> 0, total |-> 0, volume |-> 0,
            tardia |-> f]
  BY <1>13, <1>14
<1>16. PICK v : v = [u EXCEPT !.empresa = e]
  OBVIOUS
<1>17. v = [existe |-> g, empresa |-> e, montante |-> 0, total |-> 0, volume |-> 0,
            tardia |-> f]
  BY <1>15, <1>16
<1>18. [v EXCEPT !.montante = m] =
          [existe |-> g, empresa |-> e, montante |-> m, total |-> 0, volume |-> 0,
           tardia |-> f]
  BY <1>17
<1>19. [v EXCEPT !.montante = m] = [p EXCEPT !.existe = g, !.empresa = e, !.montante = m]
  BY <1>14, <1>16, Zenon
<1>20. LeilaoVisto(n)' = [p EXCEPT !.existe = g, !.empresa = e, !.montante = m]
  BY <1>11, <1>18, <1>19, Zenon
<1>21. LeilaoVisto(n)' = [A!PorAbrir EXCEPT !.existe = TRUE, !.empresa = srv.pedido.empresa,
                                           !.montante = srv.pedido.quantia]
  BY <1>6, <1>12, <1>20, Zenon
<1> QED
  BY <1>2, <1>4, <1>5, <1>21

\* The verdicts seen in the histories are final, and only archiving an auction adds one.
LEMMA HistoricoVistoFica ==
    ASSUME Indutivo, [Next]_vars, NEW e \in Empresas, historicoLeiloes'[e] = historicoLeiloes[e]
    PROVE  HistoricoVisto(e)' = HistoricoVisto(e)
<1>1. PICK s : s = historicoLeiloes[e]
  OBVIOUS
<1>2. s \in Seq(Objs)
  BY <1>1 DEF Indutivo, TypeOK
<1>3. PICK n \in Nat : n = Len(s) /\ DOMAIN s = 1 .. n
  BY <1>2
<1>4. \A k \in 1 .. n : obj'[s[k]].sucesso = obj[s[k]].sucesso
  BY <1>1, <1>3, ArquivadoDefinitivo
<1>5. HistoricoVisto(e)' = [k \in 1 .. n |-> [id |-> s[k], sucesso |-> obj'[s[k]].sucesso]]
  BY <1>1, <1>3 DEF HistoricoVisto
<1>6. HistoricoVisto(e) = [k \in 1 .. n |-> [id |-> s[k], sucesso |-> obj[s[k]].sucesso]]
  BY <1>1, <1>3 DEF HistoricoVisto
<1> QED
  BY <1>4, <1>5, <1>6

\* Archiving auction a adds its verdict.
LEMMA HistoricoVistoCresce ==
    ASSUME Indutivo, NEW e \in Empresas, NEW a, obj' = obj,
           historicoLeiloes'[e] = Append(historicoLeiloes[e], a)
    PROVE  HistoricoVisto(e)' = Append(HistoricoVisto(e), [id |-> a, sucesso |-> obj[a].sucesso])
<1>1. PICK s, t : s = historicoLeiloes[e] /\ t = historicoLeiloes'[e]
  OBVIOUS
<1>2. PICK n \in Nat : n = Len(s)
  BY <1>1 DEF Indutivo, TypeOK
<1>3. t = Append(s, a) /\ s \in Seq(Objs)
  BY <1>1 DEF Indutivo, TypeOK
<1>4. Len(t) = n + 1 /\ t[n + 1] = a /\ \A k \in 1 .. n : t[k] = s[k]
  BY <1>2, <1>3
<1>5. PICK h, x : h = HistoricoVisto(e) /\ x = [id |-> a, sucesso |-> obj[a].sucesso]
  OBVIOUS
<1>6. h = [k \in 1 .. n |-> [id |-> s[k], sucesso |-> obj[s[k]].sucesso]]
  BY <1>1, <1>2, <1>5 DEF HistoricoVisto
<1>7. PICK g : g = HistoricoVisto(e)'
  OBVIOUS
<1>8. g = [k \in 1 .. n + 1 |-> [id |-> t[k], sucesso |-> obj[t[k]].sucesso]]
  BY <1>1, <1>4, <1>7 DEF HistoricoVisto
<1>9. g[n + 1] = x /\ \A k \in 1 .. n : g[k] = h[k]
  BY <1>4, <1>5, <1>6, <1>8
<1>10. PICK S : S = {h[k] : k \in 1 .. n} \cup {x}
  OBVIOUS
<1>11. h \in Seq(S) /\ Len(h) = n /\ x \in S
  <2>1. \A k \in 1 .. n : h[k] \in S
    BY <1>10
  <2>2. h \in [1 .. n -> S]
    BY <1>6, <2>1
  <2> QED
    BY <1>2, <1>6, <1>10, <2>2
<1>12. g \in Seq(S) /\ Len(g) = n + 1
  <2>1. \A k \in 1 .. n + 1 : g[k] \in S
    <3>1. \A k \in 1 .. n : g[k] \in S
      BY <1>9, <1>10
    <3> QED
      BY <1>2, <1>9, <1>10, <3>1
  <2>2. g \in [1 .. n + 1 -> S]
    BY <1>8, <2>1
  <2> QED
    <3>1. DOMAIN g = 1 .. n + 1 /\ n + 1 \in Nat
      BY <1>2, <1>8
    <3>2. g \in Seq(S)
      BY <2>2, <3>1
    <3> QED
      BY <3>1, <3>2
<1>13. PICK u : u = Append(h, x)
  OBVIOUS
<1>14. u \in Seq(S) /\ Len(u) = n + 1 /\ u[n + 1] = x /\ \A k \in 1 .. n : u[k] = h[k]
  BY <1>11, <1>13
<1>15. \A k \in 1 .. n + 1 : g[k] = u[k]
  BY <1>9, <1>14
<1>16. g = u
  BY <1>12, <1>14, <1>15, SeqEqual
<1> QED
  BY <1>5, <1>7, <1>13, <1>16

\* Without archiving, the histories seen stay as they are.
LEMMA HistoricosVistosFicam ==
    ASSUME Indutivo, [Next]_vars, historicoLeiloes' = historicoLeiloes
    PROVE  [e \in Empresas |-> HistoricoVisto(e)]' = [e \in Empresas |-> HistoricoVisto(e)]
<1>1. \A e \in Empresas : HistoricoVisto(e)' = HistoricoVisto(e)
  BY HistoricoVistoFica
<1> QED
  BY <1>1

\* leilao() opens an abstract auction.
LEMMA ImplementaAbre ==
    ASSUME Indutivo, InvNovos, leilao
    PROVE  A!Abre(srv.pedido.empresa, nObj + 1, srv.pedido.quantia)
<1>1. [Next]_vars /\ historicoLeiloes' = historicoLeiloes
  BY DEF Next, PassoServidor, PassoLocalServidor, leilao, historicos
<1>2. PICK e, n : e = srv.pedido.empresa /\ n = nObj + 1
  OBVIOUS
<1>3. leiloes[e] = Nulo /\ leiloes' = [leiloes EXCEPT ![e] = n]
  BY <1>2 DEF leilao, AceitaLeilao
<1>4. PICK r : r = [A!PorAbrir EXCEPT !.existe = TRUE, !.empresa = e,
                                     !.montante = srv.pedido.quantia]
  OBVIOUS
<1>5. /\ n \in Objs /\ LeilaoVisto(n).existe = FALSE /\ LeilaoVisto(n)' = r
      /\ \A i \in Objs : i # n => LeilaoVisto(i)' = LeilaoVisto(i)
  BY <1>2, <1>4, VistoNovo
<1>6. PICK v, v1 : v = [i \in Objs |-> LeilaoVisto(i)] /\ v1 = [i \in Objs |-> LeilaoVisto(i)]'
  OBVIOUS
<1>7. v1 = [i \in Objs |-> LeilaoVisto(i)']
  BY <1>6
<1>8. v1 = [v EXCEPT ![n] = r] /\ ~ v[n].existe
  BY <1>5, <1>6, <1>7
<1>9. [f \in Empresas |-> HistoricoVisto(f)]' = [f \in Empresas |-> HistoricoVisto(f)]
  BY <1>1, HistoricosVistosFicam
<1> QED
  BY <1>2, <1>3, <1>4, <1>6, <1>8, <1>9, Zenon DEF A!Abre

\* A bid appended while the auction is open counts, a later one is remembered, and one to
\* an issue is nothing to the auctions.
LEMMA ImplementaLicita ==
    ASSUME Indutivo, InvNovos, AdicionaLicitacao
    PROVE  \/ A!Licita(srv.pedido.empresa, srv.pedido.quantia)
           \/ A!LicitaTarde(srv.alvo)
           \/ UNCHANGED A!avars
<1>1. [Next]_vars /\ historicoLeiloes' = historicoLeiloes /\ leiloes' = leiloes
  BY DEF Next, PassoServidor, PassoLocalServidor, AdicionaLicitacao, historicos, mapas
<1>2. [f \in Empresas |-> HistoricoVisto(f)]' = [f \in Empresas |-> HistoricoVisto(f)]
  BY <1>1, HistoricosVistosFicam
<1>3. PICK e, a, x : e = srv.pedido.empresa /\ a = srv.alvo /\ x = srv.pedido.quantia
  OBVIOUS
<1>4. a \in Objs /\ e \in Nomes /\ obj[a].empresa = e
  BY <1>3, EfeitoAdiciona DEF AdicionaLicitacao, InvNovos
<1>5. PICK v, v1 : v = [i \in Objs |-> LeilaoVisto(i)] /\ v1 = [i \in Objs |-> LeilaoVisto(i)]'
  OBVIOUS
<1>6. v1 = [i \in Objs |-> LeilaoVisto(i)']
  BY <1>5
<1>7. \A i \in Objs : i # a \/ obj[i].tipo # "leilao" => v1[i] = v[i]
  <2>1. \A i \in Objs : srv.alvo # i \/ obj[i].tipo # "leilao" => LeilaoVisto(i)' = LeilaoVisto(i)
    BY VistoAdiciona, Zenon
  <2> QED
    BY <1>3, <1>5, <1>6, <2>1
<1>8. CASE obj[a].tipo # "leilao"
  <2>1. v1 = v
    BY <1>5, <1>6, <1>7, <1>8
  <2> QED
    BY <1>1, <1>2, <1>5, <2>1 DEF A!avars
<1>9. CASE obj[a].tipo = "leilao" /\ licitacao'[nLic + 1].aTempo
  <2>1. leiloes[e] = a /\ a # Nulo
    <3>1. a \in {leiloes[e], emissoes[e]}
      BY <1>3, <1>9, EfeitoAdiciona
    <3>2. a # Nulo
      BY <1>4, ObjsTipo
    <3>3. emissoes[e] # a
      BY <1>4, <1>9, <3>2 DEF Indutivo, InvMapas, InvMapa
    <3> QED
      BY <3>1, <3>2, <3>3
  <2>2. PICK y, z : y = A!Absoluto(x) /\ z = v[a]
    OBVIOUS
  <2>3. z = LeilaoVisto(a) /\ v1[a] = LeilaoVisto(a)'
    BY <1>4, <1>5, <1>6, <2>2
  <2>4. v1[a] = [z EXCEPT !.total = @ + x, !.volume = @ + y]
    <3>1. LeilaoVisto(a)' = [LeilaoVisto(a) EXCEPT !.total = @ + x, !.volume = @ + A!Absoluto(x)]
      BY <1>3, <1>4, <1>9, VistoAdiciona, Zenon
    <3> QED
      BY <2>2, <2>3, <3>1, Zenon
  <2>5. PICK w : w = [v EXCEPT ![a].total = @ + x]
    OBVIOUS
  <2>6. w[a] = [z EXCEPT !.total = @ + x] /\ \A i \in Objs : i # a => w[i] = v[i]
    BY <1>4, <1>5, <2>2, <2>5
  <2>7. PICK u : u = [w EXCEPT ![a].volume = @ + y]
    OBVIOUS
  <2>8. w \in [Objs -> {w[i] : i \in Objs}]
    BY <1>5, <2>5
  <2>9. /\ u[a] = [w[a] EXCEPT !.volume = @ + y] /\ \A i \in Objs : i # a => u[i] = w[i]
        /\ u = [i \in Objs |-> u[i]]
    BY <1>4, <2>7, <2>8
  <2>10. u[a] = v1[a]
    BY <2>4, <2>6, <2>9, Zenon
  <2>11. u = v1
    BY <1>6, <1>7, <2>6, <2>9, <2>10
  <2>12. u = [v EXCEPT ![a].total = @ + x, ![a].volume = @ + y]
    BY <2>5, <2>7, Zenon
  <2>13. A!Licita(e, x)
    BY <1>1, <1>2, <1>5, <2>1, <2>2, <2>11, <2>12, Zenon DEF A!Licita
  <2> QED
    BY <1>3, <2>13
<1>10. CASE obj[a].tipo = "leilao" /\ ~ licitacao'[nLic + 1].aTempo
  <2>1. leiloes[e] # a
    BY <1>3, <1>10, EfeitoAdiciona
  <2>2. v[a] = LeilaoVisto(a) /\ v1[a] = LeilaoVisto(a)'
    BY <1>4, <1>5, <1>6
  <2>3. v[a].existe = TRUE /\ v[a].empresa = e
    BY <1>4, <1>10, <2>2 DEF LeilaoVisto
  <2>4. v1[a] = [v[a] EXCEPT !.tardia = TRUE]
    <3>1. LeilaoVisto(a)' = [LeilaoVisto(a) EXCEPT !.tardia = TRUE]
      BY <1>3, <1>4, <1>10, VistoAdiciona, Zenon
    <3> QED
      BY <2>2, <3>1, Zenon
  <2>5. v1 = [v EXCEPT ![a].tardia = TRUE]
    <3>1. PICK u : u = [v EXCEPT ![a].tardia = TRUE]
      OBVIOUS
    <3>2. /\ u[a] = [v[a] EXCEPT !.tardia = TRUE] /\ \A i \in Objs : i # a => u[i] = v[i]
          /\ u = [i \in Objs |-> u[i]]
      BY <1>4, <1>5, <3>1
    <3>3. u[a] = v1[a]
      BY <2>4, <3>2, Zenon
    <3> QED
      BY <1>6, <1>7, <3>1, <3>2, <3>3
  <2>6. A!LicitaTarde(a)
    BY <1>1, <1>2, <1>5, <2>1, <2>3, <2>5, Zenon DEF A!LicitaTarde, A!Fechado
  <2> QED
    BY <1>3, <2>6
<1> QED
  BY <1>8, <1>9, <1>10

\* A waking TerminaLeilao thread closes its auction.
LEMMA ImplementaFecha ==
    ASSUME Indutivo, InvNovos, NEW i \in Objs, RemoveLeilao(i)
    PROVE  \E e \in Empresas : A!Fecha(e)
<1>1. [Next]_vars /\ historicoLeiloes' = historicoLeiloes
  BY DEF Next, PassoFio, PassoLocalFio, RemoveLeilao, historicos
<1>2. [f \in Empresas |-> HistoricoVisto(f)]' = [f \in Empresas |-> HistoricoVisto(f)]
  BY <1>1, HistoricosVistosFicam
<1>3. ~ leilao /\ ~ AdicionaLicitacao
  <2>1. UNCHANGED <<nObj, nLic>> /\ nObj \in Nat /\ nLic \in Nat
    BY ExchangeAssumption DEF RemoveLeilao, heaps, Indutivo, TypeOK
  <2> QED
    BY <2>1 DEF leilao, AdicionaLicitacao
<1>4. \A j \in Objs : LeilaoVisto(j)' = LeilaoVisto(j)
  BY <1>1, <1>3, VistoFica
<1>5. [j \in Objs |-> LeilaoVisto(j)]' = [j \in Objs |-> LeilaoVisto(j)]
  BY <1>4
<1>6. PICK e : e = obj[i].empresa
  OBVIOUS
<1>7. e \in Empresas /\ leiloes[e] = i /\ i # Nulo
  <2>1. fio[i].pc = "dorme" /\ obj[i].tipo = "leilao"
    BY DEF RemoveLeilao
  <2> QED
    BY <1>6, <2>1, ObjsTipo DEF Indutivo, InvFios, InvFio, FechaOProprio
<1>8. leiloes' = [leiloes EXCEPT ![e] = Nulo]
  BY <1>6 DEF RemoveLeilao
<1>9. A!Fecha(e)
  BY <1>2, <1>5, <1>7, <1>8, Zenon DEF A!Fecha
<1> QED
  BY <1>7, <1>9

\* The thread past the decision archives its auction once, with the right verdict.
LEMMA ImplementaArquiva ==
    ASSUME Indutivo, AbertoDorme, InvNovos, InvDecisao, NEW i \in Objs, ArquivaLeilao(i)
    PROVE  \E s \in BOOLEAN : A!Arquiva(i, s)
<1>1. [Next]_vars /\ obj' = obj /\ leiloes' = leiloes /\ UNCHANGED <<nObj, nLic>>
  BY DEF Next, PassoFio, PassoLocalFio, ArquivaLeilao, heaps, mapas
<1>2. ~ leilao /\ ~ AdicionaLicitacao
  <2>1. nObj \in Nat /\ nLic \in Nat
    BY ExchangeAssumption DEF Indutivo, TypeOK
  <2> QED
    BY <1>1, <2>1 DEF leilao, AdicionaLicitacao
<1>3. \A j \in Objs : LeilaoVisto(j)' = LeilaoVisto(j)
  BY <1>1, <1>2, VistoFica
<1>4. PICK v : v = [j \in Objs |-> LeilaoVisto(j)]
  OBVIOUS
<1>5. [j \in Objs |-> LeilaoVisto(j)]' = v
  BY <1>3, <1>4
<1>6. PICK e, s : e = obj[i].empresa /\ s = obj[i].sucesso
  OBVIOUS
<1>7. /\ fio[i].pc = "arquiva" /\ obj[i].tipo = "leilao" /\ fio[i].alvo = i /\ e \in Empresas
      /\ s \in BOOLEAN /\ i # Nulo
  <2>1. fio[i].pc = "arquiva" /\ obj[i].tipo = "leilao"
    BY DEF ArquivaLeilao
  <2> QED
    BY <1>6, <2>1, ObjsTipo DEF Indutivo, InvFios, InvFio, FechaOProprio, TypeOK, TipoObjeto
<1>8. /\ v[i] = LeilaoVisto(i) /\ v[i].existe = TRUE /\ v[i].empresa = e
      /\ v[i].montante = obj[i].montante /\ v[i].total = Soma(Propostas(i))
      /\ v[i].volume = Soma(Absolutos(Propostas(i))) /\ v[i].tardia = ~ SemTardias(i)
  BY <1>4, <1>6, <1>7 DEF LeilaoVisto
<1>9. leiloes[e] # i
  <2>1. e \in Nomes
    BY <1>7, ExchangeAssumption
  <2> QED
    BY <1>7, <2>1 DEF AbertoDorme
<1>10. PICK h, h1 : /\ h = [f \in Empresas |-> HistoricoVisto(f)]
                    /\ h1 = [f \in Empresas |-> HistoricoVisto(f)]'
  OBVIOUS
<1>11. \A k \in DOMAIN h[e] : h[e][k].id # i
  <2> SUFFICES ASSUME NEW k \in DOMAIN h[e], h[e][k].id = i PROVE FALSE
    OBVIOUS
  <2>1. PICK t : t = historicoLeiloes[e]
    OBVIOUS
  <2>2. t \in Seq(Objs)
    BY <1>7, <2>1 DEF Indutivo, TypeOK
  <2>3. h[e] = [l \in 1 .. Len(t) |-> [id |-> t[l], sucesso |-> obj[t[l]].sucesso]]
    BY <1>7, <1>10, <2>1 DEF HistoricoVisto
  <2>4. k \in DOMAIN t /\ t[k] = i
    BY <2>2, <2>3
  <2>5. PICK j \in Objs : Arquivou(j) /\ fio[j].alvo = i
    BY <1>7, <2>1, <2>4 DEF Indutivo, InvHistorico
  <2>6. j = i
    BY <1>7, <2>5 DEF Indutivo, AlvoUnico
  <2> QED
    BY <1>7, <2>5, <2>6 DEF Arquivou
<1>12. ~ v[i].tardia /\ v[i].volume < IntSpan \div 2 => (s <=> v[i].montante <= v[i].total)
  <2>1. Veredito(i)
    BY <1>7 DEF InvDecisao, Decidiu
  <2> QED
    BY <1>6, <1>8, <2>1 DEF Veredito, SemTransbordo
<1>13. h1 = [h EXCEPT ![e] = Append(@, [id |-> i, sucesso |-> s])]
  <2>1. /\ historicoLeiloes'[e] = Append(historicoLeiloes[e], i)
        /\ \A f \in Empresas : f # e => historicoLeiloes'[f] = historicoLeiloes[f]
    <3>1. historicoLeiloes' = [historicoLeiloes EXCEPT ![e] = Append(@, i)]
      BY <1>6, <1>7 DEF ArquivaLeilao
    <3> QED
      BY <1>7, <3>1 DEF Indutivo, TypeOK
  <2>2. HistoricoVisto(e)' = Append(HistoricoVisto(e), [id |-> i, sucesso |-> s])
    BY <1>1, <1>6, <1>7, <2>1, HistoricoVistoCresce
  <2>3. \A f \in Empresas : f # e => HistoricoVisto(f)' = HistoricoVisto(f)
    BY <1>1, <2>1, HistoricoVistoFica
  <2>4. h1 = [f \in Empresas |-> HistoricoVisto(f)']
    BY <1>10
  <2>5. PICK x : x = Append(h[e], [id |-> i, sucesso |-> s])
    OBVIOUS
  <2>6. h1[e] = x
    BY <1>7, <1>10, <2>2, <2>4, <2>5
  <2>7. h1 = [h EXCEPT ![e] = x]
    BY <1>7, <1>10, <2>3, <2>4, <2>6
  <2> QED
    BY <2>5, <2>7
<1>14. A!Arquiva(i, s)
  BY <1>1, <1>4, <1>5, <1>8, <1>9, <1>10, <1>11, <1>12, <1>13, Zenon DEF A!Arquiva, A!Fechado
<1> QED
  BY <1>7, <1>14

\* Every other step is unseen.
LEMMA ImplementaNada ==
    ASSUME Indutivo, InvNovos, [Next]_vars, ~ leilao, ~ AdicionaLicitacao,
           \A i \in Objs : ~ RemoveLeilao(i) /\ ~ ArquivaLeilao(i)
    PROVE  UNCHANGED A!avars
<1>1. leiloes' = leiloes /\ historicoLeiloes' = historicoLeiloes
  <2>1. CASE UNCHANGED vars
    BY <2>1 DEF vars, mapas, historicos
  <2>2. CASE (\E m \in Mensagens : Recebe(m)) \/ PassoServidor
    <3>1. CASE \E m \in Mensagens : Recebe(m)
      BY <3>1 DEF Recebe, mapas, historicos
    <3>2. CASE Recusa \/ licitar \/ emprestimo \/ LeIndices \/ IniciaTerminaLeilao
      BY <3>2 DEF Recusa, licitar, emprestimo, LeIndices, IniciaTerminaLeilao, mapas, historicos
    <3>3. CASE EmpresaDesconhecida \/ emissao \/ LeUltimoLeilao
      BY <3>3 DEF EmpresaDesconhecida, emissao, LeUltimoLeilao, mapas, historicos
    <3>5. CASE LeTaxaEmissao
      BY <3>5 DEF LeTaxaEmissao, mapas, historicos
    <3>4. CASE CriaEmissao \/ ServidorPublica \/ ServidorPost
      BY <3>4 DEF CriaEmissao, ServidorPublica, ServidorPost, mapas, historicos
    <3> QED
      BY <2>2, <3>1, <3>2, <3>3, <3>4, <3>5 DEF PassoServidor, PassoLocalServidor
  <2>3. ASSUME NEW i \in Objs, PassoFio(i)
        PROVE  leiloes' = leiloes /\ historicoLeiloes' = historicoLeiloes
    <3>1. CASE RemoveEmissao(i)
      BY <3>1 DEF RemoveEmissao, historicos
    <3>2. CASE DecideLeilao(i) \/ DecideEmissao(i) \/ alocaInvestidores(i)
      BY <3>2 DEF DecideLeilao, DecideEmissao, alocaInvestidores, mapas, historicos
    <3>3. CASE IniciaTravessia(i) \/ TravessiaInterrompida(i) \/ FioPublica(i) \/ FioPut(i)
      BY <3>3 DEF IniciaTravessia, TravessiaInterrompida, FioPublica, FioPut, mapas, historicos
    <3>4. CASE ArquivaEmissao(i)
      BY <3>4 DEF ArquivaEmissao, mapas
    <3> QED
      BY <2>3, <3>1, <3>2, <3>3, <3>4 DEF PassoFio, PassoLocalFio
  <2> QED
    BY <2>1, <2>2, <2>3 DEF Next
<1>2. [f \in Empresas |-> HistoricoVisto(f)]' = [f \in Empresas |-> HistoricoVisto(f)]
  BY <1>1, HistoricosVistosFicam
<1>3. \A j \in Objs : LeilaoVisto(j)' = LeilaoVisto(j)
  BY VistoFica
<1>4. [j \in Objs |-> LeilaoVisto(j)]' = [j \in Objs |-> LeilaoVisto(j)]
  BY <1>3
<1> QED
  BY <1>1, <1>2, <1>4 DEF A!avars

\* Every step of the threads is one of the abstract auctions, or unseen.
LEMMA PassoImplementa ==
    ASSUME Indutivo, AbertoDorme, InvNovos, InvDecisao, [Next]_vars
    PROVE  [A!Next]_(A!avars)
<1>1. CASE leilao
  <2>1. /\ srv.pedido \in Mensagens /\ srv.pedido.empresa \in Nomes
        /\ nObj + 1 \in Objs
    <3>1. srv.pedido \in Mensagens
      BY <1>1 DEF leilao, Indutivo, InvServidor
    <3> QED
      BY <1>1, <3>1, VistoNovo, ExchangeAssumption
  <2>2. srv.pedido.quantia \in {m.quantia : m \in Mensagens}
    BY <2>1
  <2> QED
    BY <1>1, <2>1, <2>2, ImplementaAbre DEF A!Next
<1>2. CASE AdicionaLicitacao
  <2>1. /\ srv.pedido \in Mensagens /\ srv.pedido.empresa \in Nomes /\ srv.alvo \in Objs
    <3>1. srv.pedido \in Mensagens
      BY <1>2 DEF AdicionaLicitacao, Indutivo, InvServidor
    <3> QED
      BY <1>2, <3>1, EfeitoAdiciona
  <2>2. srv.pedido.quantia \in {m.quantia : m \in Mensagens}
    BY <2>1
  <2> QED
    BY <1>2, <2>1, <2>2, ImplementaLicita DEF A!Next
<1>3. ASSUME NEW i \in Objs, RemoveLeilao(i) PROVE A!Next
  <2>1. \E e \in Empresas : A!Fecha(e)
    BY <1>3, ImplementaFecha
  <2> QED
    BY <2>1, ExchangeAssumption DEF A!Next
<1>4. ASSUME NEW i \in Objs, ArquivaLeilao(i) PROVE A!Next
  <2>1. \E s \in BOOLEAN : A!Arquiva(i, s)
    BY <1>4, ImplementaArquiva
  <2> QED
    BY <2>1 DEF A!Next
<1> QED
  BY <1>1, <1>2, <1>3, <1>4, ImplementaNada

\* The server thread and the closing threads, for any companies, requests and bounds and
\* in any interleaving, implement the abstract auctions: the many steps of
\* TerminaLeilao.run() amount to closing one auction and archiving it once, with the
\* verdict of exactly the bids made while it was open.
THEOREM ImplementamLeiloes == Spec => ImplementaLeilao
<1> DEFINE I == InvDecidida /\ InvNovos
<1>1. Init => I /\ A!Init
  <2> SUFFICES ASSUME Init PROVE I /\ A!Init
    OBVIOUS
  <2>1. InvDecidida
    BY InicioDecidida
  <2>2. InvNovos
    <3>1. nLic = 0 /\ 1 .. nLic = {} /\ srv.pc = "recv"
      BY DEF Init, Ocioso
    <3>2. \A i \in Objs : obj[i].tipo = "nenhum"
      BY DEF Init, PorCriar, Objeto
    <3> QED
      BY <3>1, <3>2 DEF InvNovos
  <2>3. A!Init
    <3>1. \A i \in Objs : LeilaoVisto(i) = A!PorAbrir
      BY DEF Init, PorCriar, Objeto, LeilaoVisto, A!PorAbrir
    <3>2. \A e \in Empresas : HistoricoVisto(e) = << >>
      <4> SUFFICES ASSUME NEW e \in Empresas PROVE HistoricoVisto(e) = << >>
        OBVIOUS
      <4>1. historicoLeiloes[e] = << >>
        BY DEF Init
      <4> QED
        BY <4>1 DEF HistoricoVisto
    <3>3. leiloes = [e \in Nomes |-> Nulo]
      BY DEF Init
    <3> QED
      BY <3>1, <3>2, <3>3 DEF A!Init
  <2> QED
    BY <2>1, <2>2, <2>3
<1>2. Indutivo /\ I /\ [Next]_vars => I' /\ [A!Next]_(A!avars)
  <2> SUFFICES ASSUME Indutivo, I, [Next]_vars PROVE I' /\ [A!Next]_(A!avars)
    OBVIOUS
  <2>1. InvDecidida'
    BY PassoDecidida
  <2>2. InvNovos'
    BY PassoInvNovos
  <2>3. [A!Next]_(A!avars)
    BY PassoImplementa DEF InvDecidida
  <2> QED
    BY <2>1, <2>2, <2>3
<1> QED
  BY <1>1, <1>2, IndutivoSempre, PTL DEF Spec, ImplementaLeilao, A!Spec

-----------------------------------------------------------------------------
(* No superfluous investor.                                                *)

\* Bid b comes before bid c in the order of allocation.
VemAntes(b, c) == \/ licitacao[b].taxa < licitacao[c].taxa
                  \/ licitacao[b].taxa = licitacao[c].taxa /\ b < c

\* List w covers m, and without its dearest bid does not.
Justa(w, m) ==
    /\ Soma(Valores(w)) >= m
    /\ \A k \in DOMAIN w :
          (\A l \in DOMAIN w : w[l] = w[k] \/ VemAntes(w[l], w[k])) /\ m > 0 =>
              Soma(ValoresSem(w, w[k])) < m

\* s lists the bids made to a on time, in the order they were made.
TodasDe(s, a) ==
    /\ s \in Seq(1 .. nLic)
    /\ \A k, l \in DOMAIN s : k < l => s[k] < s[l]
    /\ \A b \in 1 .. nLic : licitacao[b].alvo = a /\ licitacao[b].aTempo <=>
                               \E k \in DOMAIN s : s[k] = b

\* The thread of auction i is past the selection of investors, if there was one, and did
\* not die.
Alocou(i) == /\ obj[i].tipo = "leilao"
             /\ fio[i].pc \in {"arquiva", "publica", "json", "escrevendo", "put", "fim"}

\* From then on the list of a successful auction covers the amount with no superfluous bid.
InvAlocacao ==
    \A i \in Objs : Alocou(i) /\ SemTardias(i) /\ SemTransbordo(i) /\ obj[i].sucesso =>
        Justa(obj[i].licitacoes, obj[i].montante)

\* Sequences and functions on an interval.
LEMMA SequenciaFuncao ==
    ASSUME NEW T, NEW n \in Nat
    PROVE  /\ \A s \in Seq(T) : n = Len(s) => DOMAIN s = 1 .. n /\ \A x \in 1 .. n : s[x] \in T
           /\ \A u \in [1 .. n -> T] : u \in Seq(T) /\ Len(u) = n
  OBVIOUS

\* A prefix of a sequence.
LEMMA Prefixo ==
    ASSUME NEW T, NEW s \in Seq(T), NEW c \in Nat, c <= Len(s), NEW t, t = SubSeq(s, 1, c)
    PROVE  /\ t \in Seq(T) /\ Len(t) = c /\ DOMAIN t = 1 .. c
           /\ \A k \in 1 .. c : t[k] = s[k] /\ k \in 1 .. Len(s)
<1>1. PICK n \in Nat : n = Len(s) /\ c <= n
  OBVIOUS
<1>2. \A k \in 1 .. c : k \in 1 .. n /\ s[k] \in T
  BY <1>1
<1> QED
  BY <1>1, <1>2

\* Sorting a list in the order the bids were made puts every bid in the order of
\* allocation.
LEMMA OrdenaTodas ==
    ASSUME Indutivo, NEW a, NEW s, TodasDe(s, a), NEW u \in Ordenadas(s, licitacao)
    PROVE  /\ u \in Seq(1 .. nLic) /\ Len(u) = Len(s)
           /\ \A x, y \in 1 .. Len(u) : x < y => VemAntes(u[x], u[y])
           /\ \A x \in 1 .. Len(u) : \E k \in DOMAIN s : u[x] = s[k]
           /\ \A k \in DOMAIN s : \E x \in 1 .. Len(u) : u[x] = s[k]
<1>1. PICK n \in Nat : n = Len(s) /\ DOMAIN s = 1 .. n
  BY DEF TodasDe
<1>2. PICK p \in [1 .. n -> 1 .. n] :
         /\ \A x, y \in 1 .. n : x < y =>
               \/ licitacao[s[p[x]]].taxa < licitacao[s[p[y]]].taxa
               \/ licitacao[s[p[x]]].taxa = licitacao[s[p[y]]].taxa /\ p[x] < p[y]
         /\ u = [k \in 1 .. n |-> s[p[k]]]
  BY <1>1 DEF Ordenadas
<1>3. \A x \in 1 .. n : p[x] \in 1 .. n /\ u[x] = s[p[x]]
  BY <1>2
<1>4. \A x \in 1 .. n : s[x] \in 1 .. nLic
  <2>1. s \in Seq(1 .. nLic)
    BY DEF TodasDe
  <2> QED
    BY <1>1, <2>1, SequenciaFuncao
<1>5. \A x \in 1 .. n : u[x] \in 1 .. nLic
  BY <1>3, <1>4
<1>6. \A x \in 1 .. n : s[x] \in Nat /\ licitacao[s[x]].taxa \in Int
  <2>1. \A b \in 1 .. nLic : b \in Nat /\ licitacao[b].taxa \in Int
    BY PropostasTipo
  <2> QED
    BY <1>4, <2>1
<1>7. \A x, y \in 1 .. n : x < y => s[x] < s[y]
  BY <1>1 DEF TodasDe
<1>8. u \in Seq(1 .. nLic) /\ Len(u) = n
  <2>1. u \in [1 .. n -> 1 .. nLic]
    BY <1>2, <1>5
  <2> QED
    BY <1>1, <2>1, SequenciaFuncao
<1>9. ASSUME NEW x \in 1 .. n, NEW y \in 1 .. n, x < y PROVE VemAntes(u[x], u[y])
  <2>1. \/ licitacao[u[x]].taxa < licitacao[u[y]].taxa
        \/ licitacao[u[x]].taxa = licitacao[u[y]].taxa /\ p[x] < p[y]
    BY <1>2, <1>3, <1>9
  <2>2. p[x] < p[y] => u[x] < u[y]
    BY <1>3, <1>7
  <2> QED
    BY <2>1, <2>2 DEF VemAntes
<1>10. \A x, y \in 1 .. n : p[x] = p[y] => x = y
  <2>1. ASSUME NEW x \in 1 .. n, NEW y \in 1 .. n, p[x] = p[y], x < y PROVE FALSE
    <3>1. PICK k \in 1 .. n : k = p[x] /\ k = p[y]
      BY <1>3, <2>1
    <3>2. \/ licitacao[s[k]].taxa < licitacao[s[k]].taxa \/ k < k
      BY <1>2, <2>1, <3>1
    <3>3. licitacao[s[k]].taxa \in Int
      BY <1>6
    <3> QED
      BY <3>2, <3>3
  <2> QED
    BY <2>1
<1>11. \A k \in 1 .. n : \E x \in 1 .. n : p[x] = k
  BY <1>10, OrdemCompleta
<1>12. \A k \in 1 .. n : \E x \in 1 .. n : u[x] = s[k]
  <2> SUFFICES ASSUME NEW k \in 1 .. n PROVE \E x \in 1 .. n : u[x] = s[k]
    OBVIOUS
  <2>1. PICK x \in 1 .. n : p[x] = k
    BY <1>11
  <2> QED
    BY <1>3, <2>1
<1>13. \A x \in 1 .. n : \E k \in 1 .. n : u[x] = s[k]
  BY <1>3
<1> QED
  BY <1>1, <1>8, <1>9, <1>12, <1>13

\* The bids up to the cut cover the amount, and without the last of them do not.
LEMMA CorteJusto ==
    ASSUME NEW q \in Seq(Int), NEW m \in Int, NEW c \in 0 .. Len(q), m <= Soma(q),
           \A j \in 1 .. c - 1 : Somas(q)[j] < m,
           c = Len(q) \/ (c > 0 /\ Somas(q)[c] >= m)
    PROVE  /\ Somas(q)[c] \in Int /\ Somas(q)[c] >= m
           /\ c > 0 /\ m > 0 => Somas(q)[c] - q[c] < m
<1>1. PICK n, f : n \in Nat /\ n = Len(q) /\ f = Somas(q)
  OBVIOUS
<1>2. /\ f \in [0 .. n -> Int] /\ f[0] = 0 /\ \A k \in 1 .. n : f[k] = f[k - 1] + q[k]
      /\ f[n] = Soma(q)
  BY <1>1, SomasRecursao
<1>3. f[c] \in Int /\ f[c] >= m
  BY <1>1, <1>2
<1>4. ASSUME c > 0, m > 0 PROVE f[c] - q[c] < m
  <2>1. c \in 1 .. n /\ c - 1 \in 0 .. n /\ q[c] \in Int
    BY <1>1, <1>4
  <2>2. f[c] = f[c - 1] + q[c] /\ f[c - 1] \in Int
    BY <1>2, <2>1
  <2>3. f[c - 1] < m
    <3>1. CASE c = 1
      BY <1>2, <1>4, <3>1
    <3>2. CASE c # 1
      BY <1>1, <2>1, <3>2
    <3> QED
      BY <3>1, <3>2
  <2> QED
    BY <2>1, <2>2, <2>3
<1> QED
  BY <1>1, <1>3, <1>4

\* A list that holds each bid once, without its bid b.
LEMMA SomaSem ==
    ASSUME Indutivo, NEW w \in Seq(1 .. nLic), NEW j \in DOMAIN w,
           \A k, l \in DOMAIN w : w[k] = w[l] => k = l
    PROVE  /\ licitacao[w[j]].quantia \in Int /\ Soma(Valores(w)) \in Int
           /\ Soma(ValoresSem(w, w[j])) = Soma(Valores(w)) - licitacao[w[j]].quantia
<1>1. PICK n \in Nat : n = Len(w) /\ DOMAIN w = 1 .. n
  OBVIOUS
<1>2. PICK q, r, b : q = Valores(w) /\ r = ValoresSem(w, w[j]) /\ b = w[j]
  OBVIOUS
<1>3. \A k \in 1 .. n : licitacao[w[k]].quantia \in Int
  <2>1. \A k \in 1 .. n : w[k] \in 1 .. nLic
    BY <1>1, SequenciaFuncao
  <2> QED
    BY <2>1, PropostasTipo
<1>4. /\ q = [k \in 1 .. n |-> licitacao[w[k]].quantia]
      /\ r = [k \in 1 .. n |-> IF w[k] = b THEN 0 ELSE licitacao[w[k]].quantia]
  BY <1>1, <1>2 DEF Valores, ValoresSem
<1>5. q \in Seq(Int) /\ Len(q) = n
  <2>1. q \in [1 .. n -> Int]
    BY <1>3, <1>4
  <2> QED
    BY <2>1, SequenciaFuncao
<1>6. r \in Seq(Int) /\ Len(r) = n
  <2>1. \A k \in 1 .. n : r[k] \in Int
    <3> SUFFICES ASSUME NEW k \in 1 .. n PROVE r[k] \in Int
      OBVIOUS
    <3>1. w[k] = b => r[k] = 0
      BY <1>4
    <3>2. w[k] # b => r[k] = licitacao[w[k]].quantia
      BY <1>4
    <3> QED
      BY <1>3, <3>1, <3>2
  <2>2. r \in [1 .. n -> Int]
    BY <1>4, <2>1
  <2> QED
    BY <2>2, SequenciaFuncao
<1>7. r[j] = 0 /\ \A k \in 1 .. n : k # j => r[k] = q[k]
  BY <1>1, <1>2, <1>4
<1>8. Soma(r) = Soma(q) - q[j] + r[j]
  BY <1>1, <1>5, <1>6, <1>7, SomaUmaMuda
<1>9. q[j] = licitacao[b].quantia /\ q[j] \in Int /\ Soma(q) \in Int
  BY <1>1, <1>2, <1>3, <1>4, <1>5, SomasRecursao
<1> QED
  BY <1>2, <1>7, <1>8, <1>9

\* The investors alocaInvestidores() selects from the bids of a covered auction, whether
\* it builds a new list or finds that it keeps them all.
LEMMA SelecaoJusta ==
    ASSUME Indutivo, NEW a, NEW s, TodasDe(s, a), SemTransbordo(a),
           NEW m \in Int, m <= Soma(Propostas(a)),
           NEW t \in Alocacoes(s, licitacao, m),
           NEW w, w = t \/ (w = s /\ Len(t) = Len(s))
    PROVE  Justa(w, m)
<1>1. PICK u \in Ordenadas(s, licitacao) :
         t \in {SubSeq(u, 1, k) : k \in Cortes(u, licitacao, m)}
  BY DEF Alocacoes
<1>2. PICK c \in Cortes(u, licitacao, m) : t = SubSeq(u, 1, c)
  BY <1>1
<1>0. /\ s \in Seq(1 .. nLic) /\ \A k, l \in DOMAIN s : k < l => s[k] < s[l]
      /\ \A b \in 1 .. nLic : licitacao[b].alvo = a /\ licitacao[b].aTempo <=>
                                 \E k \in DOMAIN s : s[k] = b
  BY DEF TodasDe
<1>3. PICK n \in Nat : n = Len(s) /\ n = Len(u)
  <2>1. Len(u) = Len(s)
    BY OrdenaTodas
  <2> QED
    BY <1>0, <2>1
<1>4. /\ u \in Seq(1 .. nLic) /\ DOMAIN u = 1 .. n /\ DOMAIN s = 1 .. n
      /\ \A x \in 1 .. n : u[x] \in 1 .. nLic /\ s[x] \in 1 .. nLic
      /\ \A x, y \in 1 .. n : x < y => VemAntes(u[x], u[y])
      /\ \A x \in 1 .. n : \E k \in 1 .. n : u[x] = s[k]
      /\ \A k \in 1 .. n : \E x \in 1 .. n : u[x] = s[k]
  <2>1. u \in Seq(1 .. nLic)
    BY OrdenaTodas
  <2>2. DOMAIN u = 1 .. n /\ \A x \in 1 .. n : u[x] \in 1 .. nLic
    BY <1>3, <2>1, SequenciaFuncao
  <2>3. DOMAIN s = 1 .. n /\ \A x \in 1 .. n : s[x] \in 1 .. nLic
    BY <1>0, <1>3, SequenciaFuncao
  <2>4. /\ \A x, y \in 1 .. n : x < y => VemAntes(u[x], u[y])
        /\ \A x \in 1 .. n : \E k \in DOMAIN s : u[x] = s[k]
        /\ \A k \in DOMAIN s : \E x \in 1 .. n : u[x] = s[k]
    <3>1. \A x, y \in 1 .. Len(u) : x < y => VemAntes(u[x], u[y])
      BY OrdenaTodas
    <3>2. \A x \in 1 .. Len(u) : \E k \in DOMAIN s : u[x] = s[k]
      BY OrdenaTodas
    <3>3. \A k \in DOMAIN s : \E x \in 1 .. Len(u) : u[x] = s[k]
      BY OrdenaTodas
    <3> QED
      BY <1>3, <3>1, <3>2, <3>3, Zenon
  <2> QED
    BY <2>1, <2>2, <2>3, <2>4
<1>5. ASSUME NEW x \in 1 .. n, NEW y \in 1 .. n, x < y PROVE u[x] # u[y] /\ ~ VemAntes(u[y], u[x])
  <2>1. PICK b, d : b = u[x] /\ d = u[y] /\ b \in 1 .. nLic /\ d \in 1 .. nLic
    BY <1>4
  <2>2. VemAntes(b, d)
    BY <1>4, <1>5, <2>1
  <2>3. \A e \in 1 .. nLic : e \in Int /\ licitacao[e].taxa \in Int
    BY PropostasTipo
  <2>4. PICK v, z : v = licitacao[b].taxa /\ z = licitacao[d].taxa /\ v \in Int /\ z \in Int
    BY <2>1, <2>3
  <2>5. b \in Int /\ d \in Int /\ (v < z \/ (v = z /\ b < d))
    BY <2>1, <2>2, <2>3, <2>4 DEF VemAntes
  <2>6. b # d /\ ~ (z < v \/ (z = v /\ d < b))
    BY <2>4, <2>5
  <2> QED
    BY <2>1, <2>4, <2>6 DEF VemAntes
<1>6. /\ \A x, y \in 1 .. n : u[x] = u[y] => x = y
      /\ \A k, l \in 1 .. n : s[k] = s[l] => k = l
  <2>1. ASSUME NEW k \in 1 .. n, NEW l \in 1 .. n, k < l PROVE s[k] # s[l]
    <3>1. s[k] < s[l] /\ s[k] \in 1 .. nLic /\ s[l] \in 1 .. nLic
      BY <1>0, <1>4, <2>1
    <3> QED
      BY <3>1
  <2>2. \A x, y \in 1 .. n : x = y \/ x < y \/ y < x
    OBVIOUS
  <2> QED
    BY <1>5, <2>1, <2>2
<1>7. PICK q : q = Valores(u)
  OBVIOUS
<1>8. /\ q \in Seq(Int) /\ Len(q) = n /\ Soma(q) = Soma(Propostas(a))
      /\ Soma(Absolutos(q)) = Soma(Absolutos(Propostas(a)))
  <2>1. \A b \in 1 .. nLic : (\E k \in DOMAIN s : s[k] = b) <=> \E x \in DOMAIN u : u[x] = b
    BY <1>4
  <2>2. \A b \in 1 .. nLic : licitacao[b].alvo = a /\ licitacao[b].aTempo <=>
                                \E x \in DOMAIN u : u[x] = b
    BY <1>0, <2>1
  <2>3. \A x, y \in DOMAIN u : u[x] = u[y] => x = y
    BY <1>4, <1>6
  <2>4. /\ Valores(u) \in Seq(Int) /\ Len(Valores(u)) = Len(u)
        /\ Soma(Valores(u)) = Soma(Propostas(a))
        /\ Soma(Absolutos(Valores(u))) = Soma(Absolutos(Propostas(a)))
    BY <1>4, <2>2, <2>3, SomaDeTodas
  <2> QED
    BY <1>3, <1>7, <2>4
<1>9. \A k \in 1 .. n : q[k] = licitacao[u[k]].quantia
  BY <1>4, <1>7 DEF Valores
<1>10. \A k \in 0 .. n : Acumulado(u, licitacao)[k] = Somas(q)[k]
  BY <1>3, <1>8, <1>9, AcumuladoExato DEF SemTransbordo
<1>11. /\ c \in 0 .. n /\ \A j \in 1 .. c - 1 : Somas(q)[j] < m
       /\ c = n \/ (c > 0 /\ Somas(q)[c] >= m)
  <2>1. /\ c \in 0 .. n /\ \A j \in 1 .. c - 1 : Acumulado(u, licitacao)[j] < m
        /\ c = n \/ (c > 0 /\ Acumulado(u, licitacao)[c] >= m)
    BY <1>3 DEF Cortes
  <2>2. \A j \in 1 .. c - 1 : j \in 0 .. n
    BY <1>3, <2>1
  <2> QED
    BY <1>10, <2>1, <2>2
<1>12. /\ Somas(q)[c] \in Int /\ Somas(q)[c] >= m
       /\ c > 0 /\ m > 0 => Somas(q)[c] - q[c] < m
  BY <1>8, <1>11, CorteJusto
<1>13. /\ t \in Seq(1 .. nLic) /\ Len(t) = c /\ DOMAIN t = 1 .. c
       /\ \A k \in 1 .. c : t[k] = u[k] /\ k \in 1 .. n
  <2>1. c \in Nat /\ c <= n
    BY <1>11
  <2>2. PICK T : T = 1 .. nLic
    OBVIOUS
  <2>3. u \in Seq(T) /\ c <= Len(u) /\ t = SubSeq(u, 1, c)
    BY <1>2, <1>3, <1>4, <2>1, <2>2
  <2>4. /\ t \in Seq(T) /\ Len(t) = c /\ DOMAIN t = 1 .. c
        /\ \A k \in 1 .. c : t[k] = u[k] /\ k \in 1 .. Len(u)
    BY <2>1, <2>3, Prefixo
  <2> QED
    BY <1>3, <2>2, <2>4, Zenon
<1>14. /\ w \in Seq(1 .. nLic) /\ Soma(Valores(w)) = Somas(q)[c]
       /\ \A k, l \in DOMAIN w : w[k] = w[l] => k = l
       /\ \A k \in DOMAIN w : \E x \in 1 .. c : u[x] = w[k]
       /\ \A x \in 1 .. c : \E k \in DOMAIN w : u[x] = w[k]
  <2>1. CASE w = t
    <3>1. PICK r : r = Valores(t)
      OBVIOUS
    <3>2. r \in Seq(Int) /\ Len(r) = c
      <4>1. 1 .. nLic \in SUBSET Lics
        BY PropostasTipo
      <4> QED
        BY <1>13, <3>1, <4>1, PropostasTipo
    <3>3. \A k \in 1 .. c : q[k] = r[k]
      BY <1>9, <1>13, <3>1 DEF Valores
    <3>4. Somas(q)[c] = Somas(r)[c]
      BY <1>3, <1>8, <1>11, <3>2, <3>3, SomasIguais
    <3>5. Soma(r) = Somas(q)[c]
      BY <3>2, <3>4 DEF Soma
    <3> QED
      BY <1>6, <1>13, <2>1, <3>1, <3>5
  <2>2. CASE w = s /\ Len(t) = Len(s)
    <3>1. c = n
      BY <1>3, <1>13, <2>2
    <3>2. Soma(Valores(s)) = Soma(Propostas(a))
      <4>1. \A k, l \in DOMAIN s : s[k] = s[l] => k = l
        BY <1>4, <1>6
      <4> QED
        BY <1>0, <4>1, SomaDeTodas
    <3>3. Soma(q) = Somas(q)[c]
      BY <1>8, <3>1 DEF Soma
    <3> QED
      BY <1>0, <1>3, <1>4, <1>6, <1>8, <2>2, <3>1, <3>2, <3>3
  <2> QED
    BY <2>1, <2>2
<1>15. ASSUME NEW k \in DOMAIN w, m > 0,
              \A l \in DOMAIN w : w[l] = w[k] \/ VemAntes(w[l], w[k])
       PROVE  Soma(ValoresSem(w, w[k])) < m
  <2>1. PICK x \in 1 .. c : u[x] = w[k]
    BY <1>14
  <2>2. c \in 1 .. c /\ c \in 1 .. n /\ x \in 1 .. n /\ c > 0
    BY <1>3, <1>11, <2>1
  <2>3. x = c
    <3> SUFFICES ASSUME x # c PROVE FALSE
      OBVIOUS
    <3>1. x < c
      BY <2>1, <2>2
    <3>2. u[x] # u[c] /\ ~ VemAntes(u[c], u[x])
      BY <1>5, <2>2, <3>1
    <3>3. PICK l \in DOMAIN w : u[c] = w[l]
      BY <1>14, <2>2
    <3> QED
      BY <1>15, <2>1, <3>2, <3>3
  <2>4. w[k] = u[c] /\ q[c] = licitacao[w[k]].quantia
    BY <1>9, <2>1, <2>2, <2>3
  <2>5. Soma(ValoresSem(w, w[k])) = Soma(Valores(w)) - licitacao[w[k]].quantia
    BY <1>14, SomaSem
  <2> QED
    BY <1>12, <1>14, <1>15, <2>2, <2>4, <2>5
<1> QED
  BY <1>12, <1>14, <1>15 DEF Justa

\* alocaInvestidores() replaces the list, or leaves it when it selected as many bids.
LEMMA AlocaTudo ==
    ASSUME Indutivo, NEW i \in Objs, alocaInvestidores(i)
    PROVE  \E t \in Alocacoes(Vistas(i), licitacao, obj[i].montante) :
              obj'[i].licitacoes = t \/ (obj' = obj /\ Len(t) = Len(obj[i].licitacoes))
<1>1. obj \in [Objs -> TipoObjeto] /\ fio[i].alvo = i
  BY EfeitoAloca DEF Indutivo, TypeOK
<1>2. PICK t \in Alocacoes(Vistas(i), licitacao, obj[i].montante) :
         LET x == Len(t) # Len(LicitacoesDe(i))
         IN  obj' = IF x THEN [obj EXCEPT ![i].licitacoes = t] ELSE obj
  BY <1>1 DEF alocaInvestidores
<1>3. CASE Len(t) # Len(LicitacoesDe(i))
  <2>1. obj' = [obj EXCEPT ![i].licitacoes = t]
    BY <1>2, <1>3
  <2>2. obj'[i].licitacoes = t
    BY <1>1, <2>1 DEF TipoObjeto
  <2> QED
    BY <2>2
<1>4. CASE Len(t) = Len(LicitacoesDe(i))
  <2>1. obj' = obj
    BY <1>2, <1>4
  <2>2. Len(t) = Len(obj[i].licitacoes)
    BY <1>1, <1>4 DEF LicitacoesDe
  <2> QED
    BY <2>1, <2>2
<1> QED
  BY <1>3, <1>4

\* An auction's thread gets past the selection by deciding that the auction was not
\* covered, or by selecting.
LEMMA ChegaAAlocar ==
    ASSUME Indutivo, [Next]_vars, NEW i \in Objs, Alocou(i)', ~ Alocou(i)
    PROVE  (DecideLeilao(i) /\ ~ Coberto(i)) \/ alocaInvestidores(i)
<1>1. TypeOK /\ InvFios /\ fio \in [Objs -> TipoFio]
  BY DEF Indutivo, TypeOK
<1>2. fio'[i].pc \notin {"nenhum", "dorme"}
  BY DEF Alocou
<1>3. PassoFio(i)
  <2>1. fio[i].pc # "nenhum" => obj'[i].tipo = obj[i].tipo
    BY ComFioFica
  <2>2. CASE fio'[i] = fio[i]
    BY <1>2, <2>1, <2>2 DEF Alocou
  <2>3. CASE UNCHANGED vars
    BY <2>2, <2>3 DEF vars
  <2>4. CASE (\E m \in Mensagens : Recebe(m)) \/ PassoServidor
    BY <1>2, <2>2, <2>4, PassoDeServidor
  <2>5. ASSUME NEW j \in Objs, PassoFio(j), j # i PROVE fio'[i] = fio[i]
    BY <2>5, PassoDeFio
  <2> QED
    BY <2>2, <2>3, <2>4, <2>5 DEF Next
<1>4. fio[i].pc # "nenhum" /\ obj'[i].tipo = obj[i].tipo /\ obj[i].tipo = "leilao"
  <2>1. fio[i].pc # "nenhum"
    BY <1>3, PassoDeFio
  <2> QED
    BY <2>1, ComFioFica DEF Alocou
<1>5. ~ (RemoveLeilao(i) \/ RemoveEmissao(i))
  <2> SUFFICES ASSUME RemoveLeilao(i) \/ RemoveEmissao(i) PROVE FALSE
    OBVIOUS
  <2>1. PICK x, b : /\ fio' = [fio EXCEPT ![i].pc = x, ![i].alvo = b]
                    /\ x \in {"morto", "soma"} \/ (x = "arquiva" /\ obj[i].tipo = "emissao")
    BY DEF RemoveLeilao, RemoveEmissao
  <2>2. fio'[i].pc = x
    BY <1>1, <2>1 DEF TipoFio
  <2> QED
    BY <1>4, <2>1, <2>2 DEF Alocou
<1>6. ~ IniciaTravessia(i)
  <2> SUFFICES ASSUME IniciaTravessia(i) PROVE FALSE
    OBVIOUS
  <2>1. \/ fio[i].pc = "soma" /\ fio'[i].pc = "somando"
        \/ fio[i].pc = "ordena" /\ fio'[i].pc = "ordenando"
        \/ fio[i].pc = "json" /\ fio'[i].pc = "escrevendo"
    BY <1>1, EfeitoTravessia
  <2> QED
    BY <1>4, <2>1 DEF Alocou
<1>7. ~ (DecideLeilao(i) /\ Coberto(i))
  <2> SUFFICES ASSUME DecideLeilao(i), Coberto(i) PROVE FALSE
    OBVIOUS
  <2>1. fio' = [fio EXCEPT ![i].pc = "ordena"]
    BY DEF DecideLeilao
  <2>2. fio'[i].pc = "ordena"
    BY <1>1, <2>1 DEF TipoFio
  <2> QED
    BY <2>2 DEF Alocou
<1>8. ~ (TravessiaInterrompida(i) \/ ArquivaLeilao(i) \/ FioPut(i) \/ FioPublica(i))
  <2> SUFFICES ASSUME TravessiaInterrompida(i) \/ ArquivaLeilao(i) \/ FioPut(i)
                        \/ FioPublica(i)
               PROVE  FALSE
    OBVIOUS
  <2>1. PICK x : /\ fio' = [fio EXCEPT ![i].pc = x]
                 /\ \/ x = "morto"
                    \/ fio[i].pc \in {"arquiva", "put", "escrevendo", "publica"}
    BY DEF TravessiaInterrompida, ArquivaLeilao, FioPut, FioPublica
  <2>2. fio'[i].pc = x
    BY <1>1, <2>1 DEF TipoFio
  <2> QED
    BY <1>4, <2>1, <2>2 DEF Alocou
<1>9. ~ (ArquivaEmissao(i) \/ DecideEmissao(i))
  BY <1>4 DEF ArquivaEmissao, DecideEmissao
<1> QED
  BY <1>3, <1>5, <1>6, <1>7, <1>8, <1>9 DEF PassoFio, PassoLocalFio

\* The list of an auction past the selection changes no more, unless a bid comes late.
LEMMA AlocadoFica ==
    ASSUME Indutivo, AbertoDorme, [Next]_vars, NEW i \in Objs, Alocou(i), SemTardias(i)'
    PROVE  /\ fio[i].alvo = i /\ i \in 1 .. nObj
           /\ obj'[i].licitacoes = obj[i].licitacoes
           /\ obj'[i].sucesso = obj[i].sucesso /\ obj'[i].montante = obj[i].montante
           /\ SemTransbordo(i)' => SemTransbordo(i)
<1>1. Decidiu(i) /\ obj[i].tipo = "leilao" /\ fio[i].pc # "ordenando"
  BY DEF Alocou, Decidiu
<1>2. fio[i].alvo = i /\ i # Nulo /\ i <= nObj
  BY <1>1, DecididoTem
<1>3. i \in 1 .. nObj
  BY <1>2, ObjsTipo, ObjetosCrescem
<1>4. obj'[i].sucesso = obj[i].sucesso /\ obj'[i].montante = obj[i].montante
  BY <1>1, <1>2, DecididoFica
<1>5. /\ ~ (AdicionaLicitacao /\ srv.alvo = i)
      /\ Soma(Absolutos(Propostas(i)))' = Soma(Absolutos(Propostas(i)))
  BY <1>2, PropostasFicam
<1>6. ~ alocaInvestidores(i)
  BY <1>1 DEF alocaInvestidores
<1>7. obj'[i].licitacoes = obj[i].licitacoes
  BY <1>3, <1>5, <1>6, ListaMuda
<1> QED
  BY <1>2, <1>3, <1>4, <1>5, <1>7 DEF SemTransbordo

\* Lists of bids already made are as good after a step as before it.
LEMMA JustaFica ==
    ASSUME Indutivo, [Next]_vars, NEW w \in Seq(Lics), \A k \in DOMAIN w : w[k] \in 1 .. nLic,
           NEW m, Justa(w, m)
    PROVE  Justa(w, m)'
<1>1. \A k \in DOMAIN w : licitacao'[w[k]] = licitacao[w[k]]
  BY TardiaFica
<1>2. Valores(w)' = Valores(w)
  BY <1>1 DEF Valores
<1>3. \A b : ValoresSem(w, b)' = ValoresSem(w, b)
  BY <1>1 DEF ValoresSem
<1>4. \A k, l \in DOMAIN w : VemAntes(w[l], w[k])' <=> VemAntes(w[l], w[k])
  BY <1>1 DEF VemAntes
<1> QED
  BY <1>2, <1>3, <1>4 DEF Justa

\* Every step keeps it.
LEMMA PassoInvAlocacao ==
    ASSUME Indutivo, InvDecidida, InvDecidida', InvAlocacao, [Next]_vars
    PROVE  InvAlocacao'
<1> SUFFICES ASSUME NEW i \in Objs, Alocou(i)', SemTardias(i)', SemTransbordo(i)',
                    obj'[i].sucesso
             PROVE  Justa(obj[i].licitacoes, obj[i].montante)'
  BY DEF InvAlocacao
<1>1. /\ obj \in [Objs -> TipoObjeto] /\ AbertoDorme /\ Travessias /\ InvSelecao /\ InvListas
      /\ InvATempo /\ InvAlvos /\ PorDecidir /\ InvDecisao /\ FechaOProprio
      /\ SemTardias(i)
  BY TardiaFica DEF Indutivo, TypeOK, InvDecidida
<1>2. CASE Alocou(i)
  <2>1. PICK w, m : w = obj[i].licitacoes /\ m = obj[i].montante
    OBVIOUS
  <2>2. /\ i \in 1 .. nObj /\ obj'[i].licitacoes = w /\ obj'[i].montante = m
        /\ obj[i].sucesso /\ SemTransbordo(i)
    BY <1>1, <1>2, <2>1, AlocadoFica
  <2>3. w \in Seq(Lics) /\ \A k \in DOMAIN w : w[k] \in Lics /\ w[k] <= nLic
    <3>1. w \in Seq(Lics)
      BY <1>1, <2>1 DEF TipoObjeto
    <3> QED
      BY <1>1, <2>1, <2>2, <3>1 DEF InvListas, InvLista
  <2>4. \A k \in DOMAIN w : w[k] \in 1 .. nLic
    <3>1. nLic \in Nat /\ \A b \in Lics : b \in Nat /\ 0 < b
      BY PropostasTipo, ExchangeAssumption DEF Lics
    <3> QED
      BY <2>3, <3>1
  <2>5. Justa(w, m)
    BY <1>1, <1>2, <2>1, <2>2 DEF InvAlocacao
  <2>6. Justa(w, m)'
    BY <2>3, <2>4, <2>5, JustaFica
  <2> QED
    BY <2>2, <2>6 DEF Justa
<1>3. CASE ~ Alocou(i)
  <2>1. (DecideLeilao(i) /\ ~ Coberto(i)) \/ alocaInvestidores(i)
    BY <1>3, ChegaAAlocar
  <2>2. /\ UNCHANGED <<licitacao, nLic>> /\ fio[i].pc \in {"somando", "ordenando"}
        /\ obj[i].tipo = "leilao" /\ fio[i].alvo = i
    BY <1>1, <2>1 DEF DecideLeilao, alocaInvestidores, FechaOProprio, Indutivo, InvFios, InvFio
  <2>3. SemTransbordo(i)
    <3>1. Propostas(i)' = Propostas(i)
      BY <2>2 DEF Propostas
    <3> QED
      BY <3>1 DEF SemTransbordo
  <2>4. /\ i \in 1 .. nObj /\ Vistas(i) = obj[i].licitacoes /\ TodasDe(Vistas(i), i)
        /\ Coberto(i) <=> obj[i].montante <= Soma(Propostas(i))
    <3>1. /\ i \in 1 .. nObj /\ obj[i].licitacoes \in Seq(1 .. nLic)
          /\ \A k, l \in DOMAIN obj[i].licitacoes :
                k < l => obj[i].licitacoes[k] < obj[i].licitacoes[l]
          /\ \A b \in 1 .. nLic : licitacao[b].alvo = i /\ licitacao[b].aTempo <=>
                \E k \in DOMAIN obj[i].licitacoes : obj[i].licitacoes[k] = b
          /\ Vistas(i) = obj[i].licitacoes
          /\ Coberto(i) <=> obj[i].montante <= Soma(Propostas(i))
      BY <1>1, <2>2, <2>3, CobertoSomado
    <3> QED
      BY <3>1 DEF TodasDe
  <2>5. DecideLeilao(i) => Coberto(i)
    <3> SUFFICES ASSUME DecideLeilao(i) PROVE Coberto(i)
      OBVIOUS
    <3>1. obj'[i].sucesso <=> obj[i].montante <= Soma(Propostas(i))
      BY <1>1, <2>2, <2>3, DecideBem
    <3> QED
      BY <2>4, <3>1
  <2>6. alocaInvestidores(i)
    BY <2>1, <2>5
  <2>7. PICK m \in Int : m = obj[i].montante /\ m = obj'[i].montante
    <3>1. obj'[i].montante = obj[i].montante
      BY <2>4, ObjetoFica, ObjetosCrescem
    <3> QED
      BY <1>1, <3>1 DEF TipoObjeto
  <2>8. m <= Soma(Propostas(i))
    <3>1. Decidiu(i) /\ obj'[i].sucesso = obj[i].sucesso
      <4>1. Decidiu(i)
        BY <2>2, <2>6 DEF alocaInvestidores, Decidiu
      <4> QED
        BY <2>2, <4>1, DecididoFica
    <3>2. Veredito(i)
      BY <1>1, <2>2, <3>1 DEF InvDecisao
    <3> QED
      BY <1>1, <2>3, <2>7, <3>1, <3>2 DEF Veredito
  <2>9. PICK s : s = obj[i].licitacoes
    OBVIOUS
  <2>10. PICK t \in Alocacoes(s, licitacao, m) :
            obj'[i].licitacoes = t \/ (obj' = obj /\ Len(t) = Len(s))
    BY <2>4, <2>6, <2>7, <2>9, AlocaTudo
  <2>11. PICK w : w = obj'[i].licitacoes
    OBVIOUS
  <2>12. w = t \/ (w = s /\ Len(t) = Len(s))
    BY <2>9, <2>10, <2>11
  <2>13. TodasDe(s, i)
    BY <2>4, <2>9
  <2>14. Justa(w, m)
    BY <2>3, <2>8, <2>12, <2>13, SelecaoJusta
  <2>15. Justa(w, m)'
    <3>1. licitacao' = licitacao
      BY <2>2
    <3> QED
      BY <2>14, <3>1 DEF Justa, Valores, ValoresSem, VemAntes
  <2> QED
    BY <2>7, <2>11, <2>15 DEF Justa
<1> QED
  BY <1>2, <1>3

\* When no bid came late and no sum leaves the range of an int, the bids a successful
\* auction is archived with cover its amount, and without the dearest of them they would
\* not (Leilao.alocaInvestidores stops at the first running total that covers the amount),
\* however long its thread takes to archive and publish it.
THEOREM AlocacoesMinimas == Spec => []AlocacaoMinima
<1>1. Indutivo /\ InvDecidida /\ InvAlocacao => AlocacaoMinima
  <2> SUFFICES ASSUME Indutivo, InvDecidida, InvAlocacao,
                      NEW a \in Decididos, obj[a].tipo = "leilao", obj[a].sucesso,
                      SemTardias(a), SemTransbordo(a)
               PROVE  /\ Soma(Valores(obj[a].licitacoes)) >= obj[a].montante
                      /\ \A b \in Lista(a) : MaisCara(a, b) /\ obj[a].montante > 0 =>
                            Soma(ValoresSem(obj[a].licitacoes, b)) < obj[a].montante
    BY DEF AlocacaoMinima
  <2>1. a \in Objs /\ InvFios
    BY DEF Decididos, Indutivo
  <2>2. Arquivado(a)
    <3>1. ASSUME NEW i \in Objs, obj[i].tipo = "emissao", fio[i].alvo = a,
                 fio[i].pc \in {"put", "fim"}
          PROVE  obj[a].tipo = "emissao"
      BY <2>1, <3>1, ObjsTipo DEF InvFios, InvFio
    <3> QED
      BY <3>1 DEF Decididos
  <2>3. Alocou(a)
    <3>1. Arquivou(a) /\ Decidiu(a)
      BY <2>1, <2>2, ArquivadoDecidido DEF InvDecidida
    <3> QED
      BY <3>1 DEF Arquivou, Decidiu, Alocou
  <2>4. Justa(obj[a].licitacoes, obj[a].montante)
    BY <2>1, <2>3 DEF InvAlocacao
  <2>5. ASSUME NEW b \in Lista(a), MaisCara(a, b), obj[a].montante > 0
        PROVE  Soma(ValoresSem(obj[a].licitacoes, b)) < obj[a].montante
    <3>1. PICK s : s = obj[a].licitacoes
      OBVIOUS
    <3>2. PICK k \in DOMAIN s : b = s[k]
      BY <3>1 DEF Lista
    <3>3. s \in Seq(Lics) /\ \A l \in DOMAIN s : s[l] \in Int
      <4>1. s \in Seq(Lics)
        BY <2>1, <3>1 DEF Indutivo, TypeOK, TipoObjeto
      <4> QED
        BY <4>1, ExchangeAssumption DEF Lics
    <3>4. ASSUME NEW l \in DOMAIN s PROVE s[l] = s[k] \/ VemAntes(s[l], s[k])
      <4>1. s[l] \in Lista(a)
        BY <3>1 DEF Lista
      <4>2. \/ licitacao[s[l]].taxa < licitacao[b].taxa
            \/ licitacao[s[l]].taxa = licitacao[b].taxa /\ s[l] <= b
        BY <2>5, <4>1 DEF MaisCara
      <4>3. s[l] \in Int /\ b \in Int /\ b = s[k]
        BY <3>2, <3>3
      <4> QED
        BY <4>2, <4>3 DEF VemAntes
    <3> QED
      BY <2>4, <2>5, <3>1, <3>2, <3>4 DEF Justa
  <2> QED
    BY <2>4, <2>5 DEF Justa
<1>2. Init => InvAlocacao
  BY DEF Init, PorIniciar, InvAlocacao, Alocou
<1>3. Indutivo /\ InvDecidida /\ InvAlocacao /\ [Next]_vars => InvAlocacao'
  BY PassoDecidida, PassoInvAlocacao
<1> QED
  BY <1>1, <1>2, <1>3, InicioDecidida, PassoDecidida, IndutivoSempre, PTL DEF Spec
=============================================================================
