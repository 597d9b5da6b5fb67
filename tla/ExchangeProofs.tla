--------------------------- MODULE ExchangeProofs ---------------------------
(***************************************************************************)
(* Proofs about the exchange server, for any companies, any requests and   *)
(* any bounds.                                                             *)
(***************************************************************************)
EXTENDS Exchange, TLAPS

-----------------------------------------------------------------------------
(* The inductive invariant.                                                *)

\* What the server thread knows at each point of a handler.
InvServidor ==
    /\ srv.pc \notin {"recv", "morto"} => srv.pedido \in Mensagens
    /\ srv.pc = "despacha" /\ srv.pedido.tipo \in {"leilao", "emissao"} =>
          nObj < MaxObj
    /\ srv.pc = "despacha" /\ srv.pedido.tipo \in {"licitar", "emprestimo"} =>
          nLic < MaxLic
    /\ srv.pc = "add" => nLic < MaxLic
    /\ srv.pc \in {"add", "ids"} => srv.pedido.tipo \in {"licitar", "emprestimo"}
    /\ srv.pc \in {"add", "publica", "ids"}
         /\ srv.pedido.tipo \in {"licitar", "emprestimo"} =>
          srv.alvo \in Objs /\ srv.pedido.empresa \in Empresas
    /\ srv.pc = "inicia" =>
          /\ srv.alvo \in Objs
          /\ leiloes[srv.pedido.empresa] = srv.alvo
          /\ fio[srv.alvo].pc = "nenhum"
    /\ srv.pc \in {"taxaLeilao", "taxaEmissao", "cria"} =>
          /\ nObj < MaxObj
          /\ srv.pedido.empresa \in Empresas
          /\ historicoLeiloes[srv.pedido.empresa] # <<>>
    /\ srv.pc = "taxaEmissao" => srv.lido \in Objs

\* What the closing thread i holds.
InvFio(i) ==
    /\ fio[i].pc # "nenhum" =>
          /\ i <= nObj
          /\ obj[i].empresa \in Empresas
          /\ obj[i].tipo \in {"leilao", "emissao"}
    /\ fio[i].pc \in {"nenhum", "dorme"} => fio[i].alvo = Nulo
    /\ fio[i].pc \notin {"nenhum", "dorme", "morto"} => fio[i].alvo # Nulo
    /\ fio[i].alvo # Nulo =>
          /\ obj[fio[i].alvo].tipo = obj[i].tipo
          /\ obj[fio[i].alvo].empresa = obj[i].empresa
          /\ fio[i].alvo <= nObj
    /\ fio[i].pc \in {"ordena", "ordenando", "json", "escrevendo"} =>
          obj[i].tipo = "leilao"
    /\ fio[i].pc \in {"somando", "ordenando", "escrevendo"} =>
          fio[i].n <= Len(obj[fio[i].alvo].licitacoes)

\* What the maps hold for a company: its open auction and its open issue.  No
\* thread has taken the issue yet, and its own thread has not woken.
InvMapa(e) ==
    /\ leiloes[e] # Nulo =>
          /\ leiloes[e] <= nObj
          /\ obj[leiloes[e]].tipo = "leilao"
          /\ obj[leiloes[e]].empresa = e
          /\ e \notin Empresas =>
                srv.pc = "morto" \/ (srv.pc = "inicia" /\ srv.pedido.empresa = e)
    /\ emissoes[e] # Nulo =>
          /\ emissoes[e] <= nObj
          /\ e \in Empresas
          /\ obj[emissoes[e]].tipo = "emissao"
          /\ obj[emissoes[e]].empresa = e
          /\ fio[emissoes[e]].pc = "dorme"
          /\ \A j \in Objs : fio[j].alvo # emissoes[e]

InvFios == \A i \in Objs : InvFio(i)
InvMapas == \A e \in Nomes : InvMapa(e)

\* No two threads take the same object.
AlvoUnico ==
    \A i, j \in Objs : fio[i].alvo # Nulo /\ fio[i].alvo = fio[j].alvo => i = j

\* Thread j is past the step that archives its object, or died somewhere.
Arquivou(j) ==
    \/ fio[j].pc \in {"publica", "json", "escrevendo", "put", "fim", "morto"}
    \/ obj[j].tipo = "emissao" /\ fio[j].pc \in {"soma", "somando"}

\* Every archived object was archived by the thread that took it.
InvHistorico ==
    \A e \in Empresas :
        /\ \A k \in DOMAIN historicoLeiloes[e] :
              \E j \in Objs : Arquivou(j) /\ fio[j].alvo = historicoLeiloes[e][k]
        /\ \A k \in DOMAIN historicoEmissoes[e] :
              \E j \in Objs : Arquivou(j) /\ fio[j].alvo = historicoEmissoes[e][k]

Indutivo == /\ TypeOK /\ InvServidor /\ InvFios /\ InvMapas /\ FechaOProprio
            /\ AlvoUnico /\ InvHistorico /\ HistoricoFiel

USE DEF Nulo

-----------------------------------------------------------------------------
(* What a step that leaves part of the state alone preserves.              *)

\* Objects keep their kind and company.
Estavel == /\ nObj' >= nObj
           /\ \A i \in 1 .. nObj : /\ obj'[i].tipo = obj[i].tipo
                                   /\ obj'[i].empresa = obj[i].empresa

\* A thread a step does not touch.
LEMMA FioIntacto ==
    ASSUME Indutivo, Estavel, nObj' \in Nat,
           NEW i \in Objs, fio'[i] = fio[i],
           fio[i].pc \in {"somando", "ordenando", "escrevendo"} =>
               fio[i].n <= Len(obj'[fio[i].alvo].licitacoes)
    PROVE  InvFio(i)'
<1>1. TypeOK /\ InvFio(i)
  BY DEF Indutivo, InvFios
<1>2. fio[i].n \in Nat /\ fio[i].alvo \in Refs /\ nObj \in Nat
  BY <1>1, ExchangeAssumption DEF TypeOK, TipoFio
<1>3. fio[i].pc # "nenhum" => obj'[i].tipo = obj[i].tipo /\ obj'[i].empresa = obj[i].empresa
  BY <1>1, <1>2 DEF InvFio, Estavel, Objs
<1>4. fio[i].alvo # Nulo =>
        /\ obj'[fio[i].alvo].tipo = obj[fio[i].alvo].tipo
        /\ obj'[fio[i].alvo].empresa = obj[fio[i].alvo].empresa
  BY <1>1, <1>2, ExchangeAssumption DEF InvFio, Estavel, Objs, Refs
<1>5. fio[i].alvo # Nulo => fio[i].pc # "nenhum"
  BY <1>1 DEF InvFio
<1>6. /\ fio[i].pc # "nenhum" => i <= nObj'
      /\ fio[i].alvo # Nulo => fio[i].alvo <= nObj'
  BY <1>1, <1>2, ExchangeAssumption DEF InvFio, Estavel, Refs, Objs
<1> QED
  BY <1>1, <1>3, <1>4, <1>5, <1>6 DEF InvFio

\* A company whose maps a step does not add to.
LEMMA MapaIntacto ==
    ASSUME Indutivo, Estavel, nObj' \in Nat, NEW e \in Nomes,
           leiloes'[e] \in {Nulo, leiloes[e]},
           emissoes'[e] \in {Nulo, emissoes[e]},
           e \notin Empresas /\ leiloes'[e] # Nulo =>
               srv'.pc = "morto" \/ (srv'.pc = "inicia" /\ srv'.pedido.empresa = e),
           emissoes'[e] # Nulo =>
               /\ fio'[emissoes[e]].pc = "dorme"
               /\ \A j \in Objs : fio'[j].alvo # emissoes[e]
    PROVE  InvMapa(e)'
<1>1. TypeOK /\ InvMapa(e)
  BY DEF Indutivo, InvMapas
<1>2. leiloes[e] \in Refs /\ emissoes[e] \in Refs /\ nObj \in Nat
  BY <1>1, ExchangeAssumption DEF TypeOK
<1> QED
  BY <1>1, <1>2 DEF InvMapa, Estavel, Refs, Objs

\* The histories, in a step that does not append to them.
LEMMA HistoricoIntacto ==
    ASSUME Indutivo, Estavel,
           UNCHANGED <<historicoLeiloes, historicoEmissoes>>,
           \A j \in Objs : Arquivou(j) /\ fio[j].alvo # Nulo =>
               Arquivou(j)' /\ fio'[j].alvo = fio[j].alvo
    PROVE  InvHistorico' /\ HistoricoFiel'
<1>1. TypeOK /\ InvHistorico /\ HistoricoFiel
  BY DEF Indutivo
<1>2. \A e \in Empresas :
         /\ \A k \in DOMAIN historicoLeiloes[e] :
               historicoLeiloes[e][k] \in 1 .. nObj
         /\ \A k \in DOMAIN historicoEmissoes[e] :
               historicoEmissoes[e][k] \in 1 .. nObj
  <2>1. \A j \in Objs : fio[j].alvo # Nulo => fio[j].alvo <= nObj
    BY DEF Indutivo, InvFios, InvFio
  <2>2. \A e \in Empresas :
           /\ \A k \in DOMAIN historicoLeiloes[e] : historicoLeiloes[e][k] \in Objs
           /\ \A k \in DOMAIN historicoEmissoes[e] : historicoEmissoes[e][k] \in Objs
    BY <1>1 DEF TypeOK
  <2>3. \A e \in Empresas :
           /\ \A k \in DOMAIN historicoLeiloes[e] :
                 \E j \in Objs : fio[j].alvo = historicoLeiloes[e][k]
           /\ \A k \in DOMAIN historicoEmissoes[e] :
                 \E j \in Objs : fio[j].alvo = historicoEmissoes[e][k]
    BY <1>1 DEF InvHistorico
  <2>4. nObj \in Nat
    BY <1>1, ExchangeAssumption DEF TypeOK
  <2>5. ASSUME NEW a \in Objs, NEW j \in Objs, fio[j].alvo = a
        PROVE  a \in 1 .. nObj
    BY <2>1, <2>4, <2>5, ExchangeAssumption DEF Objs
  <2> QED
    BY <2>2, <2>3, <2>5
<1>3. ASSUME NEW a \in 1 .. nObj, NEW j \in Objs, Arquivou(j), fio[j].alvo = a
      PROVE  Arquivou(j)' /\ fio'[j].alvo = a
  BY <1>1, <1>3, ExchangeAssumption DEF TypeOK
<1>4. InvHistorico'
  <2> SUFFICES ASSUME NEW e \in Empresas
               PROVE  /\ \A k \in DOMAIN historicoLeiloes[e] : \E j \in Objs :
                            Arquivou(j)' /\ fio'[j].alvo = historicoLeiloes[e][k]
                      /\ \A k \in DOMAIN historicoEmissoes[e] : \E j \in Objs :
                            Arquivou(j)' /\ fio'[j].alvo = historicoEmissoes[e][k]
    BY DEF InvHistorico
  <2> QED
    BY <1>1, <1>2, <1>3 DEF InvHistorico
<1>5. HistoricoFiel'
  <2> SUFFICES ASSUME NEW e \in Empresas
               PROVE  /\ \A k \in DOMAIN historicoLeiloes[e] :
                            /\ obj'[historicoLeiloes[e][k]].tipo = "leilao"
                            /\ obj'[historicoLeiloes[e][k]].empresa = e
                      /\ \A k \in DOMAIN historicoEmissoes[e] :
                            /\ obj'[historicoEmissoes[e][k]].tipo = "emissao"
                            /\ obj'[historicoEmissoes[e][k]].empresa = e
    BY <1>1 DEF HistoricoFiel
  <2> QED
    BY <1>1, <1>2 DEF HistoricoFiel, Estavel
<1> QED
  BY <1>4, <1>5

\* A step of the server thread that changes nothing but its own locals.
LEMMA SoServidor ==
    ASSUME Indutivo,
           UNCHANGED <<obj, nObj, leiloes, emissoes, historicoLeiloes,
                       historicoEmissoes, fio>>,
           srv.pc \in {"inicia", "morto"} => srv'.pc = "morto"
    PROVE  InvFios' /\ InvMapas' /\ FechaOProprio' /\ AlvoUnico'
             /\ InvHistorico' /\ HistoricoFiel'
<1>1. InvFios' /\ FechaOProprio' /\ AlvoUnico'
  BY DEF Indutivo, InvFios, InvFio, FechaOProprio, AlvoUnico
<1>2. InvMapas'
  <2> SUFFICES ASSUME NEW e \in Nomes PROVE InvMapa(e)'
    BY DEF InvMapas
  <2>1. InvMapa(e)
    BY DEF Indutivo, InvMapas
  <2>2. e \notin Empresas /\ leiloes'[e] # Nulo =>
           srv'.pc = "morto" \/ (srv'.pc = "inicia" /\ srv'.pedido.empresa = e)
    <3>1. leiloes[e] # Nulo /\ e \notin Empresas => srv'.pc = "morto"
      BY <2>1 DEF InvMapa
    <3> QED
      BY <3>1
  <2>3. Estavel /\ nObj' \in Nat
    BY ExchangeAssumption DEF Indutivo, TypeOK, Estavel
  <2>4. emissoes'[e] # Nulo => /\ fio'[emissoes[e]].pc = "dorme"
                               /\ \A j \in Objs : fio'[j].alvo # emissoes[e]
    BY <2>1 DEF InvMapa
  <2>5. leiloes'[e] \in {Nulo, leiloes[e]} /\ emissoes'[e] \in {Nulo, emissoes[e]}
    OBVIOUS
  <2> QED
    BY <2>2, <2>3, <2>4, <2>5, MapaIntacto
<1>3. InvHistorico' /\ HistoricoFiel'
  BY DEF Indutivo, InvHistorico, Arquivou, HistoricoFiel
<1> QED
  BY <1>1, <1>2, <1>3

\* A step of a closing thread that has woken.
LEMMA FioAcordado ==
    ASSUME Indutivo, NEW i \in Objs,
           fio[i].pc \notin {"nenhum", "dorme"},
           fio'[i].pc \notin {"nenhum", "dorme"},
           fio'[i].alvo = fio[i].alvo,
           \A j \in Objs \ {i} : fio'[j] = fio[j],
           \A k \in Objs : obj'[k].tipo = obj[k].tipo /\ obj'[k].empresa = obj[k].empresa,
           UNCHANGED <<nObj, nLic, leiloes, emissoes, srv>>,
           \A e \in Empresas : historicoLeiloes[e] # <<>> => historicoLeiloes'[e] # <<>>
    PROVE  InvServidor' /\ InvMapas' /\ FechaOProprio' /\ AlvoUnico'
<1>1. TypeOK /\ InvServidor /\ InvMapas /\ FechaOProprio /\ AlvoUnico
  BY DEF Indutivo
<1>2. \A j \in Objs : fio'[j].alvo = fio[j].alvo
  OBVIOUS
<1>3. AlvoUnico' /\ FechaOProprio'
  BY <1>1, <1>2 DEF AlvoUnico, FechaOProprio
<1>4. InvServidor'
  BY <1>1 DEF InvServidor
<1>5. InvMapas'
  <2> SUFFICES ASSUME NEW e \in Nomes PROVE InvMapa(e)'
    BY DEF InvMapas
  <2>1. Estavel /\ nObj' \in Nat
    BY <1>1, ExchangeAssumption DEF Estavel, TypeOK, Objs
  <2>2. InvMapa(e) /\ emissoes[e] \in Refs
    BY <1>1 DEF InvMapas, TypeOK
  <2>3. emissoes[e] # Nulo => fio'[emissoes[e]].pc = "dorme"
    BY <2>2 DEF InvMapa, Refs
  <2>4. emissoes[e] # Nulo => \A j \in Objs : fio'[j].alvo # emissoes[e]
    BY <2>2, <1>2 DEF InvMapa
  <2>5. e \notin Empresas /\ leiloes[e] # Nulo =>
           srv.pc = "morto" \/ (srv.pc = "inicia" /\ srv.pedido.empresa = e)
    BY <2>2 DEF InvMapa
  <2> QED
    BY <2>1, <2>3, <2>4, <2>5, MapaIntacto
<1> QED
  BY <1>3, <1>4, <1>5

-----------------------------------------------------------------------------
(* The initial states.                                                     *)

\* The initial states satisfy the inductive invariant.
LEMMA InicioIndutivo == Init => Indutivo
<1> SUFFICES ASSUME Init PROVE Indutivo
  OBVIOUS
<1> USE ExchangeAssumption DEF Init
<1>1. TypeOK
  <2>1. PorCriar \in TipoObjeto
    <3>1. (CHOOSE n \in Nomes : TRUE) \in Nomes
      OBVIOUS
    <3> QED
      BY <3>1 DEF PorCriar, Objeto, TipoObjeto
  <2>2. Licitacao(Nulo, 0, 0, FALSE) \in TipoLicitacao
    BY DEF Licitacao, TipoLicitacao, Refs
  <2>3. Ocioso \in TipoServidor /\ PorIniciar \in TipoFio
    BY DEF Ocioso, TipoServidor, PCsServidor, PorIniciar, TipoFio, PCsFio, Refs
  <2>4. /\ obj \in [Objs -> TipoObjeto] /\ licitacao \in [Lics -> TipoLicitacao]
        /\ srv \in TipoServidor /\ fio \in [Objs -> TipoFio]
    BY <2>1, <2>2, <2>3
  <2>5. leiloes \in [Nomes -> Refs] /\ emissoes \in [Nomes -> Refs]
    BY DEF Refs
  <2>6. /\ historicoLeiloes \in [Empresas -> Seq(Objs)]
        /\ historicoEmissoes \in [Empresas -> Seq(Objs)]
    OBVIOUS
  <2>7. nObj \in 0 .. MaxObj /\ nLic \in 0 .. MaxLic
    OBVIOUS
  <2> QED
    BY <2>4, <2>5, <2>6, <2>7 DEF TypeOK
<1>2. InvServidor
  BY DEF InvServidor, Ocioso
<1>3. InvFios
  BY DEF InvFios, InvFio, PorIniciar
<1>4. InvMapas
  BY DEF InvMapas, InvMapa
<1>5. FechaOProprio /\ AlvoUnico
  BY DEF FechaOProprio, AlvoUnico, PorIniciar
<1>6. InvHistorico /\ HistoricoFiel
  BY DEF InvHistorico, HistoricoFiel
<1> QED
  BY <1>1, <1>2, <1>3, <1>4, <1>5, <1>6 DEF Indutivo

-----------------------------------------------------------------------------
(* Steps that change nothing but the locals of the server thread.          *)

\* The last element of a sequence is one of its elements.
LEMMA UltimoTipo == ASSUME NEW S, NEW s \in Seq(S), s # <<>> PROVE Ultimo(s) \in S
  BY DEF Ultimo

\* The next rate is a number.
LEMMA TaxaEmissaoTipo ==
    ASSUME TypeOK, NEW l \in Objs, NEW s \in Seq(Objs),
           NEW t \in TaxaEmissao(l, s)
    PROVE  t \in Int
<1>1. TaxaLicitacaoMaxima(obj[l].licitacoes, licitacao) \subseteq Int
  <2>1. obj[l].licitacoes \in Seq(Lics)
    BY DEF TypeOK, TipoObjeto
  <2>2. \A k \in DOMAIN obj[l].licitacoes : licitacao[obj[l].licitacoes[k]].taxa \in Int
    BY <2>1 DEF TypeOK, TipoLicitacao
  <2> QED
    BY <2>2 DEF TaxaLicitacaoMaxima, FloatMinValue
<1>2. s # <<>> => obj[Ultimo(s)].taxa \in Int
  BY UltimoTipo DEF TypeOK, TipoObjeto
<1>3. \A x \in Int : (x * 11) \div 10 \in Int
  OBVIOUS
<1> QED
  BY <1>1, <1>2, <1>3 DEF TaxaEmissao

\* In each of these steps the locals keep their types and what is known of them.
LEMMA PassoSoServidor ==
    ASSUME Indutivo,
           \/ \E m \in Mensagens : Recebe(m)
           \/ Recusa \/ licitar \/ emprestimo \/ LeIndices \/ EmpresaDesconhecida
           \/ emissao \/ LeUltimoLeilao \/ LeTaxaEmissao
           \/ ServidorPublica \/ ServidorPost
    PROVE  Indutivo'
<1>1. TypeOK /\ InvServidor /\ InvMapas
  BY DEF Indutivo
<1>2. UNCHANGED <<obj, nObj, licitacao, nLic, leiloes, emissoes,
                  historicoLeiloes, historicoEmissoes, fio>>
  BY DEF Recebe, Recusa, licitar, emprestimo, LeIndices, EmpresaDesconhecida, emissao,
         LeUltimoLeilao, LeTaxaEmissao, ServidorPublica, ServidorPost,
         heaps, mapas, historicos
<1>3. ASSUME srv' \in TipoServidor, InvServidor',
             srv.pc \in {"inicia", "morto"} => srv'.pc = "morto"
      PROVE  Indutivo'
  <2>1. TypeOK'
    BY <1>1, <1>2, <1>3 DEF TypeOK
  <2> QED
    BY <1>2, <1>3, <2>1, SoServidor DEF Indutivo
<1>4. srv.pc \notin {"recv", "morto"} => /\ srv.pedido.empresa \in Nomes
                                       /\ srv.pedido.tipo \in TiposMensagem
  BY <1>1, ExchangeAssumption DEF InvServidor
<1>5. Ocioso \in TipoServidor /\ [Ocioso EXCEPT !.pc = "morto"] \in TipoServidor
  BY DEF Ocioso, TipoServidor, PCsServidor, Refs
<1> USE DEF PCsServidor
<1>6. CASE \E m \in Mensagens : Recebe(m)
  <2> PICK m \in Mensagens : Recebe(m)
    BY <1>6
  <2>1. srv' \in TipoServidor
    BY <1>1 DEF Recebe, TypeOK, TipoServidor
  <2>2. InvServidor'
    BY <1>1, <1>2 DEF Recebe, InvServidor, TypeOK, TipoServidor
  <2>3. srv.pc = "recv"
    BY DEF Recebe
  <2> QED
    BY <1>3, <2>1, <2>2, <2>3
<1>7. CASE Recusa \/ ServidorPost \/ EmpresaDesconhecida
  <2>1. /\ srv' \in {Ocioso, [Ocioso EXCEPT !.pc = "morto"]}
        /\ srv.pc \in {"despacha", "post", "inicia"}
    BY <1>7 DEF Recusa, ServidorPost, EmpresaDesconhecida
  <2>2. srv'.pc \in {"recv", "morto"}
    BY <2>1 DEF Ocioso
  <2>3. InvServidor'
    BY <2>2 DEF InvServidor
  <2>4. srv.pc = "inicia" => srv'.pc = "morto"
    BY <1>7 DEF Recusa, ServidorPost, EmpresaDesconhecida, Ocioso
  <2> QED
    BY <1>3, <1>5, <2>1, <2>3, <2>4
<1>8. CASE licitar \/ emprestimo
  <2> DEFINE e == srv.pedido.empresa
  <2>1. PICK a \in Refs : /\ a # Nulo /\ a \in {leiloes[e], emissoes[e]}
                         /\ srv.pc = "despacha"
                         /\ srv.pedido.tipo \in {"licitar", "emprestimo"}
                         /\ srv' = [srv EXCEPT !.pc = "add", !.alvo = a]
    BY <1>1, <1>4, <1>8 DEF licitar, emprestimo, AceitaLicitar, AceitaEmprestimo, TypeOK
  <2>2. e \in Empresas /\ a \in Objs
    BY <1>1, <1>4, <2>1 DEF InvMapas, InvMapa, Refs
  <2>3. srv' \in TipoServidor
    BY <1>1, <2>1 DEF TypeOK, TipoServidor
  <2>4. InvServidor'
    BY <1>1, <1>2, <2>1, <2>2 DEF InvServidor, TypeOK, TipoServidor
  <2> QED
    BY <1>3, <2>1, <2>3, <2>4
<1>9. CASE LeIndices
  <2> DEFINE e == srv.pedido.empresa
  <2>1. /\ srv.pc = "ids" /\ srv.alvo \in Objs /\ e \in Empresas
        /\ srv.pedido \in Mensagens
    BY <1>1, <1>9 DEF LeIndices, InvServidor
  <2>2. /\ Len(historicoLeiloes[e]) \in Nat /\ Len(historicoEmissoes[e]) \in Nat
        /\ Len(obj[srv.alvo].licitacoes) - 1 \in Int
    BY <1>1, <2>1 DEF TypeOK, TipoObjeto
  <2>3. PICK x \in Nat, y \in Int : srv' = [srv EXCEPT !.pc = "post", !.idL = x, !.id = y]
    BY <1>9, <2>2 DEF LeIndices
  <2>4. srv' \in TipoServidor
    BY <1>1, <2>3 DEF TypeOK, TipoServidor
  <2>5. InvServidor'
    BY <1>1, <2>1, <2>3 DEF InvServidor, TypeOK, TipoServidor
  <2> QED
    BY <1>3, <2>1, <2>4, <2>5
<1>10. CASE emissao \/ LeUltimoLeilao
  <2> DEFINE e == srv.pedido.empresa
             u == Ultimo(historicoLeiloes[e])
  <2>1. /\ srv.pc \in {"despacha", "taxaLeilao"} /\ e \in Empresas /\ nObj < MaxObj
        /\ historicoLeiloes[e] # <<>> /\ srv.pedido \in Mensagens
    BY <1>1, <1>10 DEF emissao, LeUltimoLeilao, AceitaEmissao, InvServidor
  <2>2. u \in Objs
    BY <1>1, <2>1, UltimoTipo DEF TypeOK
  <2>3. \/ srv' = [srv EXCEPT !.pc = "taxaLeilao", !.ultimo = u]
        \/ srv' = [srv EXCEPT !.pc = "taxaEmissao", !.lido = u]
    BY <1>10 DEF emissao, LeUltimoLeilao
  <2>4. srv' \in TipoServidor
    BY <1>1, <2>2, <2>3, ZenonT(40) DEF TypeOK, TipoServidor, Refs
  <2>5. InvServidor'
    BY <1>1, <1>2, <2>1, <2>2, <2>3 DEF InvServidor, TypeOK, TipoServidor
  <2> QED
    BY <1>3, <2>1, <2>4, <2>5
<1>11. CASE LeTaxaEmissao
  <2> DEFINE e == srv.pedido.empresa
  <2>1. /\ srv.pc = "taxaEmissao" /\ e \in Empresas /\ nObj < MaxObj
        /\ historicoLeiloes[e] # <<>> /\ srv.pedido \in Mensagens /\ srv.lido \in Objs
    BY <1>1, <1>11 DEF LeTaxaEmissao, InvServidor
  <2>2. PICK t \in Int : srv' = [srv EXCEPT !.pc = "cria", !.taxa = t]
    <3>1. historicoEmissoes[e] \in Seq(Objs)
      BY <1>1, <2>1 DEF TypeOK
    <3> QED
      BY <1>1, <1>11, <2>1, <3>1, TaxaEmissaoTipo DEF LeTaxaEmissao
  <2>3. srv' \in TipoServidor
    BY <1>1, <2>2 DEF TypeOK, TipoServidor
  <2>4. InvServidor'
    BY <1>1, <1>2, <2>1, <2>2 DEF InvServidor, TypeOK, TipoServidor
  <2> QED
    BY <1>3, <2>1, <2>3, <2>4
<1>12. CASE ServidorPublica
  <2>1. /\ srv.pc = "publica" /\ srv.pedido \in Mensagens
        /\ \/ srv' = [srv EXCEPT !.pc = "post"]
           \/ srv' = [srv EXCEPT !.pc = "ids"] /\ srv.pedido.tipo \in {"licitar", "emprestimo"}
    BY <1>1, <1>12 DEF ServidorPublica, InvServidor
  <2>2. srv' \in TipoServidor
    BY <1>1, <2>1 DEF TypeOK, TipoServidor
  <2>3. InvServidor'
    BY <1>1, <1>2, <2>1 DEF InvServidor, TypeOK, TipoServidor
  <2> QED
    BY <1>3, <2>1, <2>2, <2>3
<1> QED
  BY <1>6, <1>7, <1>8, <1>9, <1>10, <1>11, <1>12

-----------------------------------------------------------------------------
(* Steps of the server thread that change the shared state.                *)

\* A bid is added to the list it was made to.
LEMMA PassoAdicionaLicitacao ==
    ASSUME Indutivo, AdicionaLicitacao PROVE Indutivo'
<1> DEFINE a == srv.alvo
           b == nLic + 1
<1>1. TypeOK /\ InvServidor /\ InvFios /\ InvMapas /\ FechaOProprio /\ AlvoUnico
  BY DEF Indutivo
<1>2. /\ srv.pc = "add" /\ a \in Objs /\ nLic < MaxLic /\ srv.pedido \in Mensagens
      /\ srv.pedido.tipo \in {"licitar", "emprestimo"}
      /\ srv.pedido.empresa \in Empresas
  BY <1>1 DEF AdicionaLicitacao, InvServidor
<1>3. b \in Lics /\ b \in 0 .. MaxLic
  BY <1>1, <1>2, ExchangeAssumption DEF TypeOK, Lics
<1>4. PICK t \in Int, q \in Int, x \in BOOLEAN :
         licitacao' = [licitacao EXCEPT ![b] = Licitacao(a, t, q, x)]
  <2>1. srv.pedido.juro \in Int /\ srv.pedido.quantia \in Int
    BY <1>2, ExchangeAssumption
  <2> DEFINE t == IF obj[a].tipo = "leilao" THEN srv.pedido.juro ELSE 0
             x == a \in {leiloes[srv.pedido.empresa], emissoes[srv.pedido.empresa]}
  <2>2. t \in Int /\ x \in BOOLEAN
    BY <2>1
  <2>3. licitacao' = [licitacao EXCEPT ![b] = Licitacao(a, t, srv.pedido.quantia, x)]
    BY DEF AdicionaLicitacao
  <2> HIDE DEF t, x
  <2> QED
    BY <2>1, <2>2, <2>3
<1>5. /\ nLic' = b
      /\ obj' = [obj EXCEPT ![a].licitacoes = Append(@, b)]
      /\ srv' = [srv EXCEPT !.pc = "publica"]
      /\ UNCHANGED <<nObj, leiloes, emissoes, historicoLeiloes, historicoEmissoes, fio>>
  BY DEF AdicionaLicitacao, mapas, historicos
<1>6. \A i \in Objs : /\ obj'[i].tipo = obj[i].tipo /\ obj'[i].empresa = obj[i].empresa
                      /\ Len(obj'[i].licitacoes) >= Len(obj[i].licitacoes)
                      /\ Len(obj'[i].licitacoes) \in Nat /\ Len(obj[i].licitacoes) \in Nat
  <2>1. \A i \in Objs : obj[i].licitacoes \in Seq(Lics)
    BY <1>1 DEF TypeOK, TipoObjeto
  <2>2. \A i \in Objs \ {a} : obj'[i] = obj[i]
    BY <1>1, <1>2, <1>5 DEF TypeOK
  <2>3. /\ obj'[a].licitacoes = Append(obj[a].licitacoes, b)
        /\ obj'[a].tipo = obj[a].tipo /\ obj'[a].empresa = obj[a].empresa
    BY <1>1, <1>2, <1>5 DEF TypeOK, TipoObjeto
  <2>4. Len(Append(obj[a].licitacoes, b)) = Len(obj[a].licitacoes) + 1
    BY <1>2, <2>1
  <2>5. \A i \in Objs : Len(obj[i].licitacoes) \in Nat
    BY <2>1
  <2> QED
    BY <1>2, <2>2, <2>3, <2>4, <2>5
<1>7. Estavel /\ nObj' \in Nat
  BY <1>1, <1>5, <1>6, ExchangeAssumption DEF Estavel, TypeOK, Objs
<1>8. TypeOK'
  <2>1. obj' \in [Objs -> TipoObjeto]
    <3>1. obj[a] \in TipoObjeto /\ obj[a].licitacoes \in Seq(Lics)
      BY <1>1, <1>2 DEF TypeOK, TipoObjeto
    <3>2. Append(obj[a].licitacoes, b) \in Seq(Lics)
      BY <1>3, <3>1
    <3>3. [obj[a] EXCEPT !.licitacoes = Append(obj[a].licitacoes, b)] \in TipoObjeto
      BY <3>1, <3>2 DEF TipoObjeto
    <3>4. obj' = [obj EXCEPT ![a] = [obj[a] EXCEPT !.licitacoes = Append(obj[a].licitacoes, b)]]
      BY <1>1, <1>5 DEF TypeOK
    <3> QED
      BY <1>1, <3>3, <3>4 DEF TypeOK
  <2>2. Licitacao(a, t, q, x) \in TipoLicitacao
    BY <1>2 DEF Licitacao, TipoLicitacao, Refs
  <2>3. licitacao' \in [Lics -> TipoLicitacao]
    BY <1>1, <1>3, <1>4, <2>2 DEF TypeOK
  <2>4. srv' \in TipoServidor
    BY <1>1, <1>5 DEF TypeOK, TipoServidor, PCsServidor
  <2> QED
    BY <1>1, <1>3, <1>5, <2>1, <2>3, <2>4 DEF TypeOK
<1>9. InvServidor'
  BY <1>1, <1>2, <1>5 DEF InvServidor, TypeOK, TipoServidor
<1>10. InvFios'
  <2> SUFFICES ASSUME NEW i \in Objs PROVE InvFio(i)'
    BY DEF InvFios
  <2>1. fio[i].n \in Nat /\ fio[i].alvo \in Refs
    BY <1>1 DEF TypeOK, TipoFio
  <2>2. fio[i].pc \in {"somando", "ordenando", "escrevendo"} =>
           fio[i].alvo \in Objs /\ fio[i].n <= Len(obj[fio[i].alvo].licitacoes)
    BY <1>1, <2>1 DEF InvFios, InvFio, Refs
  <2>3. fio[i].pc \in {"somando", "ordenando", "escrevendo"} =>
           fio[i].n <= Len(obj'[fio[i].alvo].licitacoes)
    BY <1>6, <2>1, <2>2
  <2> QED
    BY <1>5, <1>7, <2>3, FioIntacto
<1>11. InvMapas'
  <2> SUFFICES ASSUME NEW e \in Nomes PROVE InvMapa(e)'
    BY DEF InvMapas
  <2>1. emissoes[e] # Nulo => /\ fio[emissoes[e]].pc = "dorme"
                              /\ \A j \in Objs : fio[j].alvo # emissoes[e]
    BY <1>1 DEF InvMapas, InvMapa
  <2>2. e \notin Empresas => leiloes[e] = Nulo
    BY <1>1, <1>2 DEF InvMapas, InvMapa
  <2> QED
    BY <1>2, <1>5, <1>7, <2>1, <2>2, MapaIntacto
<1>12. FechaOProprio' /\ AlvoUnico'
  BY <1>1, <1>5, <1>6 DEF FechaOProprio, AlvoUnico
<1>13. InvHistorico' /\ HistoricoFiel'
  <2>1. \A j \in Objs : Arquivou(j) => Arquivou(j)'
    BY <1>5, <1>6 DEF Arquivou
  <2> QED
    BY <1>5, <1>7, <2>1, HistoricoIntacto
<1> QED
  BY <1>8, <1>9, <1>10, <1>11, <1>12, <1>13 DEF Indutivo

\* The object built by leilao() or emissao() is new: no thread and no map knew it.
LEMMA ObjetoNovo ==
    ASSUME Indutivo, nObj < MaxObj, NEW o \in TipoObjeto,
           obj' = [obj EXCEPT ![nObj + 1] = o], nObj' = nObj + 1
    PROVE  /\ nObj + 1 \in Objs /\ nObj' \in Nat /\ nObj' \in 0 .. MaxObj
           /\ obj' \in [Objs -> TipoObjeto]
           /\ obj'[nObj + 1] = o
           /\ \A i \in Objs \ {nObj + 1} : obj'[i] = obj[i]
           /\ Estavel
           /\ fio[nObj + 1].pc = "nenhum" /\ fio[nObj + 1].alvo = Nulo
           /\ \A j \in Objs : fio[j].alvo # nObj + 1
           /\ \A j \in Objs : Arquivou(j) => j # nObj + 1
           /\ \A e \in Nomes : leiloes[e] # nObj + 1 /\ emissoes[e] # nObj + 1
<1>1. TypeOK /\ InvFios /\ InvMapas
  BY DEF Indutivo
<1>2. nObj \in Nat /\ nObj + 1 \in Objs /\ nObj' \in 0 .. MaxObj
  BY <1>1, ExchangeAssumption DEF TypeOK, Objs
<1>3. /\ obj' \in [Objs -> TipoObjeto] /\ obj'[nObj + 1] = o
      /\ \A i \in Objs \ {nObj + 1} : obj'[i] = obj[i]
  BY <1>1, <1>2 DEF TypeOK
<1>4. Estavel
  BY <1>2, <1>3, ExchangeAssumption DEF Estavel, Objs
<1>5. fio[nObj + 1].pc = "nenhum" /\ fio[nObj + 1].alvo = Nulo
  BY <1>1, <1>2 DEF InvFios, InvFio
<1>6. \A j \in Objs : fio[j].alvo # nObj + 1
  BY <1>1, <1>2 DEF InvFios, InvFio
<1>7. \A e \in Nomes : leiloes[e] # nObj + 1 /\ emissoes[e] # nObj + 1
  BY <1>1, <1>2 DEF InvMapas, InvMapa
<1>8. \A j \in Objs : Arquivou(j) => j # nObj + 1
  BY <1>5 DEF Arquivou
<1> QED
  BY <1>2, <1>3, <1>4, <1>5, <1>6, <1>7, <1>8

\* An auction is opened.
LEMMA Passoleilao == ASSUME Indutivo, leilao PROVE Indutivo'
<1> DEFINE e == srv.pedido.empresa
           n == nObj + 1
           o == Leilao(e, srv.pedido.juro, srv.pedido.quantia)
<1>1. TypeOK /\ InvServidor /\ InvFios /\ InvMapas /\ FechaOProprio /\ AlvoUnico
  BY DEF Indutivo
<1>2. /\ srv.pc = "despacha" /\ srv.pedido.tipo = "leilao" /\ leiloes[e] = Nulo
      /\ srv.pedido \in Mensagens /\ nObj < MaxObj
  BY <1>1 DEF leilao, AceitaLeilao, InvServidor
<1>3. e \in Nomes /\ srv.pedido.juro \in Int /\ srv.pedido.quantia \in Int
  BY <1>2, ExchangeAssumption
<1>4. o \in TipoObjeto /\ o.tipo = "leilao" /\ o.empresa = e
  BY <1>3 DEF Leilao, Objeto, TipoObjeto
<1>5. /\ obj' = [obj EXCEPT ![n] = o]
      /\ leiloes' = [leiloes EXCEPT ![e] = n]
      /\ nObj' = n
      /\ srv' = [srv EXCEPT !.pc = "inicia", !.alvo = n]
      /\ UNCHANGED <<licitacao, nLic, emissoes, historicoLeiloes, historicoEmissoes, fio>>
  BY DEF leilao, historicos
<1> HIDE DEF o
<1>6. /\ n \in Objs /\ nObj' \in Nat /\ nObj' \in 0 .. MaxObj
      /\ obj' \in [Objs -> TipoObjeto] /\ obj'[n] = o
      /\ \A i \in Objs \ {n} : obj'[i] = obj[i]
      /\ Estavel
      /\ fio[n].pc = "nenhum"
      /\ \A j \in Objs : fio[j].alvo # n
      /\ \A j \in Objs : Arquivou(j) => j # n
  BY <1>2, <1>4, <1>5, ObjetoNovo
<1>7. srv'.pc = "inicia" /\ srv'.alvo = n /\ srv'.pedido = srv.pedido
  BY <1>1, <1>5 DEF TypeOK, TipoServidor
<1>8. leiloes'[e] = n /\ \A f \in Nomes \ {e} : leiloes'[f] = leiloes[f]
  BY <1>1, <1>3, <1>5 DEF TypeOK
<1>9. TypeOK'
  <2>1. srv' \in TipoServidor
    BY <1>1, <1>5, <1>6 DEF TypeOK, TipoServidor, PCsServidor, Refs
  <2>2. leiloes' \in [Nomes -> Refs]
    BY <1>1, <1>5, <1>6 DEF TypeOK, Refs
  <2> QED
    BY <1>1, <1>5, <1>6, <2>1, <2>2 DEF TypeOK
<1>10. InvServidor'
  BY <1>2, <1>5, <1>6, <1>7, <1>8 DEF InvServidor
<1>11. InvFios'
  <2> SUFFICES ASSUME NEW i \in Objs PROVE InvFio(i)'
    BY DEF InvFios
  <2>1. InvFio(i) /\ fio[i].alvo \in Refs
    BY <1>1 DEF InvFios, TypeOK, TipoFio
  <2>2. fio[i].pc \in {"somando", "ordenando", "escrevendo"} =>
          /\ fio[i].alvo \in Objs \ {n}
          /\ fio[i].n <= Len(obj[fio[i].alvo].licitacoes)
    BY <1>6, <2>1 DEF InvFio, Refs
  <2>3. fio[i].pc \in {"somando", "ordenando", "escrevendo"} =>
          fio[i].n <= Len(obj'[fio[i].alvo].licitacoes)
    BY <1>6, <2>2
  <2> QED
    BY <1>5, <1>6, <2>3, FioIntacto
<1>12. InvMapas'
  <2> SUFFICES ASSUME NEW f \in Nomes PROVE InvMapa(f)'
    BY DEF InvMapas
  <2>1. emissoes[f] # Nulo => /\ fio[emissoes[f]].pc = "dorme"
                              /\ \A j \in Objs : fio[j].alvo # emissoes[f]
    BY <1>1 DEF InvMapas, InvMapa
  <2>2. CASE f # e
    <3>1. f \notin Empresas => leiloes[f] = Nulo
      BY <1>1, <1>2 DEF InvMapas, InvMapa
    <3> QED
      BY <1>5, <1>6, <1>8, <2>1, <2>2, <3>1, MapaIntacto
  <2>3. CASE f = e
    <3>1. InvMapa(f) /\ emissoes[f] \in Refs /\ nObj \in Nat
      BY <1>1, ExchangeAssumption DEF InvMapas, TypeOK
    <3>2. emissoes[f] # Nulo => emissoes[f] \in Objs \ {n} /\ emissoes[f] <= nObj'
      BY <1>5, <3>1, ExchangeAssumption DEF InvMapa, Refs, Objs
    <3> QED
      BY <1>4, <1>5, <1>6, <1>7, <1>8, <2>3, <3>1, <3>2 DEF InvMapa
  <2> QED
    BY <2>2, <2>3
<1>13. FechaOProprio'
  <2> SUFFICES ASSUME NEW i \in Objs, obj'[i].tipo = "leilao"
               PROVE  /\ fio[i].pc = "dorme" => leiloes'[obj'[i].empresa] = i
                      /\ fio[i].pc \notin {"nenhum", "dorme"} => fio[i].alvo = i
    BY <1>5 DEF FechaOProprio
  <2>1. CASE i = n
    BY <1>6, <2>1
  <2>2. CASE i # n
    <3>1. obj'[i] = obj[i] /\ obj[i].empresa \in Nomes
      BY <1>1, <1>6, <2>2 DEF TypeOK, TipoObjeto
    <3>2. /\ fio[i].pc = "dorme" => leiloes[obj[i].empresa] = i
          /\ fio[i].pc \notin {"nenhum", "dorme"} => fio[i].alvo = i
      BY <1>1, <3>1 DEF FechaOProprio
    <3>3. fio[i].pc = "dorme" => obj[i].empresa # e
      BY <1>2, <3>2, ExchangeAssumption DEF Objs
    <3> QED
      BY <1>8, <3>1, <3>2, <3>3
  <2> QED
    BY <2>1, <2>2
<1>14. AlvoUnico'
  BY <1>1, <1>5 DEF AlvoUnico
<1>15. InvHistorico' /\ HistoricoFiel'
  <2>1. \A j \in Objs : Arquivou(j) => Arquivou(j)'
    BY <1>5, <1>6 DEF Arquivou
  <2> QED
    BY <1>5, <1>6, <2>1, HistoricoIntacto
<1> QED
  BY <1>9, <1>10, <1>11, <1>12, <1>13, <1>14, <1>15 DEF Indutivo

\* The closing thread of an auction is started.
LEMMA PassoIniciaTerminaLeilao ==
    ASSUME Indutivo, IniciaTerminaLeilao PROVE Indutivo'
<1> DEFINE e == srv.pedido.empresa
           a == srv.alvo
           idL == Len(historicoLeiloes[e])
<1>1. TypeOK /\ InvServidor /\ InvFios /\ InvMapas /\ FechaOProprio /\ AlvoUnico
  BY DEF Indutivo
<1>2. /\ srv.pc = "inicia" /\ e \in Empresas /\ e \in Nomes
      /\ srv.pedido \in Mensagens
      /\ a \in Objs /\ leiloes[e] = a /\ fio[a].pc = "nenhum"
  BY <1>1, ExchangeAssumption DEF IniciaTerminaLeilao, InvServidor
<1>3. a # Nulo /\ a <= nObj /\ obj[a].tipo = "leilao" /\ obj[a].empresa = e
  BY <1>1, <1>2, ExchangeAssumption DEF InvMapas, InvMapa, Objs
<1>4. idL \in Nat
  BY <1>1, <1>2 DEF TypeOK
<1>5. /\ fio' = [fio EXCEPT ![a] = [PorIniciar EXCEPT !.pc = "dorme", !.idL = idL]]
      /\ srv' = [srv EXCEPT !.pc = "publica", !.idL = idL]
      /\ UNCHANGED <<obj, nObj, licitacao, nLic, leiloes, emissoes,
                     historicoLeiloes, historicoEmissoes>>
  BY DEF IniciaTerminaLeilao, heaps, mapas, historicos
<1> HIDE DEF idL
<1>6. /\ [PorIniciar EXCEPT !.pc = "dorme", !.idL = idL] \in TipoFio
      /\ [PorIniciar EXCEPT !.pc = "dorme", !.idL = idL].pc = "dorme"
      /\ [PorIniciar EXCEPT !.pc = "dorme", !.idL = idL].alvo = Nulo
  BY <1>4 DEF PorIniciar, TipoFio, PCsFio, Refs
<1>7. /\ fio' \in [Objs -> TipoFio]
      /\ fio'[a].pc = "dorme" /\ fio'[a].alvo = Nulo
      /\ \A j \in Objs \ {a} : fio'[j] = fio[j]
  BY <1>1, <1>2, <1>5, <1>6 DEF TypeOK
<1>8. fio[a].alvo = Nulo /\ \A j \in Objs : fio'[j].alvo = fio[j].alvo
  BY <1>1, <1>2, <1>7 DEF InvFios, InvFio
<1>9. srv' \in TipoServidor /\ srv'.pc = "publica" /\ srv'.pedido = srv.pedido
  BY <1>1, <1>4, <1>5 DEF TypeOK, TipoServidor, PCsServidor
<1>10. Estavel /\ nObj' \in Nat
  BY <1>1, <1>5, ExchangeAssumption DEF Estavel, TypeOK
<1>11. TypeOK'
  BY <1>1, <1>5, <1>7, <1>9 DEF TypeOK
<1>12. InvServidor'
  <2>1. srv.pedido.tipo \notin {"licitar", "emprestimo"} \/ srv.alvo \in Objs
    BY <1>2
  <2>2. srv'.alvo = srv.alvo
    BY <1>1, <1>5 DEF TypeOK, TipoServidor
  <2> QED
    BY <1>2, <1>9, <2>2 DEF InvServidor
<1>13. InvFios'
  <2> SUFFICES ASSUME NEW i \in Objs PROVE InvFio(i)'
    BY DEF InvFios
  <2>1. CASE i = a
    BY <1>2, <1>3, <1>5, <1>7, <2>1 DEF InvFio
  <2>2. CASE i # a
    BY <1>1, <1>5, <1>7, <1>10, <2>2 DEF InvFios, InvFio
  <2> QED
    BY <2>1, <2>2
<1>14. InvMapas'
  <2> SUFFICES ASSUME NEW f \in Nomes PROVE InvMapa(f)'
    BY DEF InvMapas
  <2>1. InvMapa(f) /\ emissoes[f] \in Refs /\ leiloes[f] \in Refs
    BY <1>1 DEF InvMapas, TypeOK
  <2>2. f \notin Empresas => leiloes[f] = Nulo
    BY <1>2, <2>1 DEF InvMapa
  <2> QED
    BY <1>5, <1>7, <1>8, <1>9, <1>10, <2>1, <2>2, MapaIntacto DEF InvMapa
<1>15. FechaOProprio'
  BY <1>1, <1>2, <1>3, <1>5, <1>7 DEF FechaOProprio
<1>16. AlvoUnico'
  BY <1>1, <1>8 DEF AlvoUnico
<1>17. InvHistorico' /\ HistoricoFiel'
  <2>1. \A j \in Objs : Arquivou(j) => Arquivou(j)' /\ fio'[j].alvo = fio[j].alvo
    BY <1>2, <1>5, <1>7 DEF Arquivou
  <2> QED
    BY <1>5, <1>10, <2>1, HistoricoIntacto
<1> QED
  BY <1>11, <1>12, <1>13, <1>14, <1>15, <1>16, <1>17 DEF Indutivo

\* An issue is created.
LEMMA PassoCriaEmissao == ASSUME Indutivo, CriaEmissao PROVE Indutivo'
<1> DEFINE e == srv.pedido.empresa
           n == nObj + 1
           o == Emissao(e, srv.taxa, srv.pedido.quantia)
           idL == Len(historicoEmissoes[e])
           f0 == [PorIniciar EXCEPT !.pc = "dorme", !.idL = idL]
<1>1. TypeOK /\ InvServidor /\ InvFios /\ InvMapas /\ FechaOProprio /\ AlvoUnico
  BY DEF Indutivo
<1>2. /\ srv.pc = "cria" /\ e \in Empresas /\ e \in Nomes
      /\ srv.pedido \in Mensagens /\ nObj < MaxObj
  BY <1>1, ExchangeAssumption DEF CriaEmissao, InvServidor
<1>3. srv.taxa \in Int /\ srv.pedido.quantia \in Int /\ idL \in Nat
  BY <1>1, <1>2, ExchangeAssumption DEF TypeOK, TipoServidor
<1>4. o \in TipoObjeto /\ o.tipo = "emissao" /\ o.empresa = e
  BY <1>2, <1>3 DEF Emissao, Objeto, TipoObjeto
<1>5. /\ obj' = [obj EXCEPT ![n] = o]
      /\ emissoes' = [emissoes EXCEPT ![e] = n]
      /\ nObj' = n
      /\ fio' = [fio EXCEPT ![n] = f0]
      /\ srv' = [srv EXCEPT !.pc = "publica", !.alvo = n, !.idL = idL]
      /\ UNCHANGED <<licitacao, nLic, leiloes, historicoLeiloes, historicoEmissoes>>
  BY DEF CriaEmissao, historicos
<1>6. f0 \in TipoFio /\ f0.pc = "dorme" /\ f0.alvo = Nulo
  BY <1>3 DEF PorIniciar, TipoFio, PCsFio, Refs
<1> HIDE DEF o, idL, f0
<1>7. /\ n \in Objs /\ nObj' \in Nat /\ nObj' \in 0 .. MaxObj
      /\ obj' \in [Objs -> TipoObjeto] /\ obj'[n] = o
      /\ \A i \in Objs \ {n} : obj'[i] = obj[i]
      /\ Estavel
      /\ fio[n].pc = "nenhum" /\ fio[n].alvo = Nulo
      /\ \A j \in Objs : fio[j].alvo # n
      /\ \A j \in Objs : Arquivou(j) => j # n
      /\ \A g \in Nomes : leiloes[g] # n /\ emissoes[g] # n
  BY <1>2, <1>4, <1>5, ObjetoNovo
<1>8. /\ fio' \in [Objs -> TipoFio]
      /\ fio'[n].pc = "dorme" /\ fio'[n].alvo = Nulo
      /\ \A j \in Objs \ {n} : fio'[j] = fio[j]
      /\ \A j \in Objs : fio'[j].alvo = fio[j].alvo
  BY <1>1, <1>5, <1>6, <1>7 DEF TypeOK
<1>9. emissoes'[e] = n /\ \A g \in Nomes \ {e} : emissoes'[g] = emissoes[g]
  BY <1>1, <1>2, <1>5 DEF TypeOK
<1>10. srv' \in TipoServidor /\ srv'.pc = "publica" /\ srv'.alvo = n
          /\ srv'.pedido = srv.pedido
  BY <1>1, <1>3, <1>5, <1>7 DEF TypeOK, TipoServidor, PCsServidor, Refs
<1>11. TypeOK'
  <2>1. emissoes' \in [Nomes -> Refs]
    BY <1>1, <1>5, <1>7 DEF TypeOK, Refs
  <2> QED
    BY <1>1, <1>5, <1>7, <1>8, <1>10, <2>1 DEF TypeOK
<1>12. InvServidor'
  BY <1>2, <1>7, <1>10 DEF InvServidor
<1>13. InvFios'
  <2> SUFFICES ASSUME NEW i \in Objs PROVE InvFio(i)'
    BY DEF InvFios
  <2>1. CASE i = n
    BY <1>2, <1>4, <1>5, <1>7, <1>8, <2>1 DEF InvFio
  <2>2. CASE i # n
    <3>1. InvFio(i) /\ fio[i].alvo \in Refs
      BY <1>1 DEF InvFios, TypeOK, TipoFio
    <3>2. fio[i].pc \in {"somando", "ordenando", "escrevendo"} =>
            /\ fio[i].alvo \in Objs \ {n}
            /\ fio[i].n <= Len(obj[fio[i].alvo].licitacoes)
      BY <1>7, <3>1 DEF InvFio, Refs
    <3>3. fio[i].pc \in {"somando", "ordenando", "escrevendo"} =>
            fio[i].n <= Len(obj'[fio[i].alvo].licitacoes)
      BY <1>7, <3>2
    <3> QED
      BY <1>7, <1>8, <2>2, <3>3, FioIntacto
  <2> QED
    BY <2>1, <2>2
<1>14. InvMapas'
  <2> SUFFICES ASSUME NEW g \in Nomes PROVE InvMapa(g)'
    BY DEF InvMapas
  <2>1. InvMapa(g) /\ emissoes[g] \in Refs /\ leiloes[g] \in Refs /\ nObj \in Nat
    BY <1>1, ExchangeAssumption DEF InvMapas, TypeOK
  <2>2. g \notin Empresas => leiloes[g] = Nulo
    BY <1>2, <2>1 DEF InvMapa
  <2>3. CASE g # e
    <3>1. emissoes[g] # Nulo => /\ fio'[emissoes[g]].pc = "dorme"
                                /\ \A j \in Objs : fio'[j].alvo # emissoes[g]
      BY <1>7, <1>8, <2>1 DEF InvMapa, Refs
    <3> QED
      BY <1>5, <1>7, <1>9, <2>2, <2>3, <3>1, MapaIntacto
  <2>4. CASE g = e
    <3>1. leiloes[g] # Nulo => leiloes[g] \in Objs \ {n} /\ leiloes[g] <= nObj'
      BY <1>5, <1>7, <2>1, ExchangeAssumption DEF InvMapa, Refs, Objs
    <3> QED
      BY <1>2, <1>4, <1>5, <1>7, <1>8, <1>9, <2>1, <2>4, <3>1 DEF InvMapa
  <2> QED
    BY <2>3, <2>4
<1>15. FechaOProprio'
  BY <1>1, <1>4, <1>5, <1>7, <1>8 DEF FechaOProprio
<1>16. AlvoUnico'
  BY <1>1, <1>8 DEF AlvoUnico
<1>17. InvHistorico' /\ HistoricoFiel'
  <2>1. \A j \in Objs : Arquivou(j) => Arquivou(j)' /\ fio'[j].alvo = fio[j].alvo
    BY <1>7, <1>8 DEF Arquivou
  <2> QED
    BY <1>5, <1>7, <2>1, HistoricoIntacto
<1> QED
  BY <1>11, <1>12, <1>13, <1>14, <1>15, <1>16, <1>17 DEF Indutivo

-----------------------------------------------------------------------------
(* Steps of the closing threads.                                           *)

\* The thread of an auction wakes: what it finds in the map is its own auction.
LEMMA PassoRemoveLeilao ==
    ASSUME Indutivo, NEW i \in Objs, RemoveLeilao(i) PROVE Indutivo'
<1> DEFINE e == obj[i].empresa
<1>1. TypeOK /\ InvServidor /\ InvFios /\ InvMapas /\ FechaOProprio /\ AlvoUnico
  BY DEF Indutivo
<1>2. /\ fio[i].pc = "dorme" /\ obj[i].tipo = "leilao" /\ leiloes[e] = i
      /\ e \in Nomes /\ e \in Empresas /\ i # Nulo /\ i <= nObj /\ fio[i].alvo = Nulo
  BY <1>1, ExchangeAssumption
  DEF RemoveLeilao, FechaOProprio, TypeOK, TipoObjeto, Objs, InvFios, InvFio
<1>3. /\ leiloes' = [leiloes EXCEPT ![e] = Nulo]
      /\ fio' = [fio EXCEPT ![i].pc = "soma", ![i].alvo = i]
      /\ UNCHANGED <<obj, nObj, licitacao, nLic, emissoes, historicoLeiloes,
                     historicoEmissoes, srv>>
  BY <1>2 DEF RemoveLeilao, heaps, historicos
<1>4. /\ fio' \in [Objs -> TipoFio]
      /\ fio'[i].pc = "soma" /\ fio'[i].alvo = i
      /\ \A j \in Objs \ {i} : fio'[j] = fio[j]
  <2>1. i \in Refs
    BY DEF Refs
  <2> QED
    BY <1>1, <1>3, <2>1 DEF TypeOK, TipoFio, PCsFio
<1>5. leiloes'[e] = Nulo /\ \A g \in Nomes \ {e} : leiloes'[g] = leiloes[g]
  BY <1>1, <1>2, <1>3 DEF TypeOK
<1>6. Estavel /\ nObj' \in Nat
  BY <1>1, <1>3, ExchangeAssumption DEF Estavel, TypeOK
<1>7. \A j \in Objs : fio[j].alvo # i
  <2> SUFFICES ASSUME NEW j \in Objs, fio[j].alvo = i PROVE FALSE
    OBVIOUS
  <2>1. obj[j].tipo = "leilao" /\ fio[j].pc \notin {"nenhum", "dorme"}
    BY <1>1, <1>2 DEF InvFios, InvFio
  <2>2. fio[j].alvo = j
    BY <1>1, <2>1 DEF FechaOProprio
  <2> QED
    BY <1>2, <2>1, <2>2
<1>8. TypeOK'
  <2>1. leiloes' \in [Nomes -> Refs]
    BY <1>1, <1>3 DEF TypeOK, Refs
  <2> QED
    BY <1>1, <1>3, <1>4, <2>1 DEF TypeOK
<1>9. InvServidor'
  <2>1. srv.pc = "inicia" => srv.pedido.empresa # e /\ srv.alvo # i
    BY <1>1, <1>2 DEF InvServidor
  <2>2. srv.pc = "inicia" => srv.pedido.empresa \in Nomes
    BY <1>1, ExchangeAssumption DEF InvServidor
  <2> QED
    BY <1>1, <1>3, <1>4, <1>5, <2>1, <2>2 DEF InvServidor
<1>10. InvFios'
  <2> SUFFICES ASSUME NEW j \in Objs PROVE InvFio(j)'
    BY DEF InvFios
  <2>1. CASE j = i
    BY <1>2, <1>3, <1>4, <2>1 DEF InvFio
  <2>2. CASE j # i
    BY <1>1, <1>3, <1>4, <2>2 DEF InvFios, InvFio
  <2> QED
    BY <2>1, <2>2
<1>11. InvMapas'
  <2> SUFFICES ASSUME NEW g \in Nomes PROVE InvMapa(g)'
    BY DEF InvMapas
  <2>1. InvMapa(g) /\ emissoes[g] \in Refs
    BY <1>1 DEF InvMapas, TypeOK
  <2>2. emissoes[g] # Nulo => emissoes[g] \in Objs \ {i}
    BY <1>2, <2>1 DEF InvMapa, Refs
  <2>3. emissoes[g] # Nulo => /\ fio'[emissoes[g]].pc = "dorme"
                              /\ \A j \in Objs : fio'[j].alvo # emissoes[g]
    BY <1>4, <2>1, <2>2 DEF InvMapa
  <2>4. e = g \/ leiloes'[g] = leiloes[g]
    BY <1>5
  <2>5. g \notin Empresas /\ leiloes'[g] # Nulo =>
           srv'.pc = "morto" \/ (srv'.pc = "inicia" /\ srv'.pedido.empresa = g)
    BY <1>3, <1>5, <2>1, <2>4 DEF InvMapa
  <2> QED
    BY <1>3, <1>5, <1>6, <2>3, <2>4, <2>5, MapaIntacto
<1>12. FechaOProprio'
  <2> SUFFICES ASSUME NEW j \in Objs, obj[j].tipo = "leilao"
               PROVE  /\ fio'[j].pc = "dorme" => leiloes'[obj[j].empresa] = j
                      /\ fio'[j].pc \notin {"nenhum", "dorme"} => fio'[j].alvo = j
    BY <1>3 DEF FechaOProprio
  <2>1. CASE j = i
    BY <1>4, <2>1
  <2>2. CASE j # i
    <3>1. obj[j].empresa \in Nomes
      BY <1>1 DEF TypeOK, TipoObjeto
    <3> QED
      BY <1>1, <1>2, <1>4, <1>5, <2>2, <3>1 DEF FechaOProprio
  <2> QED
    BY <2>1, <2>2
<1>13. AlvoUnico'
  BY <1>1, <1>4, <1>7 DEF AlvoUnico
<1>14. InvHistorico' /\ HistoricoFiel'
  <2>1. \A j \in Objs : Arquivou(j) => Arquivou(j)' /\ fio'[j].alvo = fio[j].alvo
    BY <1>2, <1>3, <1>4 DEF Arquivou
  <2> QED
    BY <1>3, <1>6, <2>1, HistoricoIntacto
<1> QED
  BY <1>8, <1>9, <1>10, <1>11, <1>12, <1>13, <1>14 DEF Indutivo

\* The thread of an issue wakes: what it finds in the map is an issue of its
\* company that no thread has taken, or nothing.
LEMMA PassoRemoveEmissao ==
    ASSUME Indutivo, NEW i \in Objs, RemoveEmissao(i) PROVE Indutivo'
<1> DEFINE e == obj[i].empresa
           a == emissoes[e]
<1>1. TypeOK /\ InvServidor /\ InvFios /\ InvMapas /\ FechaOProprio /\ AlvoUnico
  BY DEF Indutivo
<1>2. /\ fio[i].pc = "dorme" /\ obj[i].tipo = "emissao" /\ a \in Refs
      /\ e \in Nomes /\ e \in Empresas /\ i <= nObj /\ fio[i].alvo = Nulo
  BY <1>1 DEF RemoveEmissao, TypeOK, TipoObjeto, InvFios, InvFio
<1>3. a # Nulo => /\ a \in Objs /\ a <= nObj /\ obj[a].tipo = "emissao"
                  /\ obj[a].empresa = e /\ \A j \in Objs : fio[j].alvo # a
  BY <1>1, <1>2 DEF InvMapas, InvMapa, Refs
<1>4. PICK p \in {"morto", "arquiva"} :
         /\ emissoes' = [emissoes EXCEPT ![e] = Nulo]
         /\ fio' = [fio EXCEPT ![i].pc = p, ![i].alvo = a]
         /\ a # Nulo <=> p = "arquiva"
  BY DEF RemoveEmissao
<1>5. /\ obj' = IF a = Nulo THEN obj ELSE [obj EXCEPT ![a].sucesso = TRUE]
      /\ UNCHANGED <<nObj, licitacao, nLic, leiloes, historicoLeiloes,
                     historicoEmissoes, srv>>
  BY DEF RemoveEmissao, historicos
<1> HIDE DEF a
<1>6. /\ fio' \in [Objs -> TipoFio]
      /\ fio'[i].pc = p /\ fio'[i].alvo = a
      /\ \A j \in Objs \ {i} : fio'[j] = fio[j]
  BY <1>1, <1>2, <1>4, ZenonT(40) DEF TypeOK, TipoFio, PCsFio
<1>7. emissoes'[e] = Nulo /\ \A g \in Nomes \ {e} : emissoes'[g] = emissoes[g]
  BY <1>1, <1>2, <1>4 DEF TypeOK
<1>8. /\ obj' \in [Objs -> TipoObjeto]
      /\ \A k \in Objs : /\ obj'[k].tipo = obj[k].tipo
                         /\ obj'[k].empresa = obj[k].empresa
                         /\ obj'[k].licitacoes = obj[k].licitacoes
  <2>1. CASE a = Nulo
    BY <1>1, <1>5, <2>1 DEF TypeOK
  <2>2. CASE a # Nulo
    <3>1. a \in Objs /\ obj' = [obj EXCEPT ![a].sucesso = TRUE]
      BY <1>3, <1>5, <2>2
    <3> QED
      BY <1>1, <3>1 DEF TypeOK, TipoObjeto
  <2> QED
    BY <2>1, <2>2
<1>9. Estavel /\ nObj' \in Nat
  BY <1>1, <1>5, <1>8, ExchangeAssumption DEF Estavel, TypeOK, Objs
<1>10. TypeOK'
  <2>1. emissoes' \in [Nomes -> Refs]
    BY <1>1, <1>4 DEF TypeOK, Refs
  <2> QED
    BY <1>1, <1>5, <1>6, <1>8, <2>1 DEF TypeOK
<1>11. InvServidor'
  <2>1. srv.pc = "inicia" => srv.alvo # i
    BY <1>1, <1>2 DEF InvServidor
  <2> QED
    BY <1>1, <1>5, <1>6, <2>1 DEF InvServidor
<1>12. InvFios'
  <2> SUFFICES ASSUME NEW j \in Objs PROVE InvFio(j)'
    BY DEF InvFios
  <2>1. CASE j = i
    BY <1>2, <1>3, <1>4, <1>5, <1>6, <1>8, <2>1 DEF InvFio
  <2>2. CASE j # i
    <3>1. InvFio(j) /\ fio[j].alvo \in Refs
      BY <1>1 DEF InvFios, TypeOK, TipoFio
    <3>2. fio[j].pc \in {"somando", "ordenando", "escrevendo"} =>
            fio[j].alvo \in Objs /\ fio[j].n <= Len(obj[fio[j].alvo].licitacoes)
      BY <3>1 DEF InvFio, Refs
    <3>3. fio[j].pc \in {"somando", "ordenando", "escrevendo"} =>
            fio[j].n <= Len(obj'[fio[j].alvo].licitacoes)
      BY <1>8, <3>2
    <3> QED
      BY <1>6, <1>9, <2>2, <3>3, FioIntacto
  <2> QED
    BY <2>1, <2>2
<1>13. InvMapas'
  <2> SUFFICES ASSUME NEW g \in Nomes PROVE InvMapa(g)'
    BY DEF InvMapas
  <2>1. InvMapa(g) /\ emissoes[g] \in Refs
    BY <1>1 DEF InvMapas, TypeOK
  <2>2. g \notin Empresas /\ leiloes[g] # Nulo =>
           srv.pc = "morto" \/ (srv.pc = "inicia" /\ srv.pedido.empresa = g)
    BY <2>1 DEF InvMapa
  <2>3. CASE g = e
    BY <1>5, <1>7, <1>9, <2>2, <2>3, MapaIntacto
  <2>4. CASE g # e
    <3>1. emissoes[g] # Nulo => /\ emissoes[g] \in Objs
                                /\ obj[emissoes[g]].empresa = g
                                /\ fio[emissoes[g]].pc = "dorme"
                                /\ \A j \in Objs : fio[j].alvo # emissoes[g]
      BY <2>1 DEF InvMapa, Refs
    <3>2. emissoes[g] # Nulo => emissoes[g] # i /\ emissoes[g] # a
      BY <1>3, <2>4, <3>1
    <3>3. emissoes[g] # Nulo => /\ fio'[emissoes[g]].pc = "dorme"
                                /\ \A j \in Objs : fio'[j].alvo # emissoes[g]
      BY <1>6, <3>1, <3>2
    <3> QED
      BY <1>5, <1>7, <1>9, <2>2, <2>4, <3>3, MapaIntacto
  <2> QED
    BY <2>3, <2>4
<1>14. FechaOProprio'
  BY <1>1, <1>2, <1>5, <1>6, <1>8 DEF FechaOProprio
<1>15. AlvoUnico'
  BY <1>1, <1>3, <1>6 DEF AlvoUnico
<1>16. InvHistorico' /\ HistoricoFiel'
  <2>1. \A j \in Objs : Arquivou(j) => Arquivou(j)' /\ fio'[j].alvo = fio[j].alvo
    BY <1>2, <1>6, <1>8 DEF Arquivou
  <2> QED
    BY <1>5, <1>9, <2>1, HistoricoIntacto
<1> QED
  BY <1>10, <1>11, <1>12, <1>13, <1>14, <1>15, <1>16 DEF Indutivo

\* A step of a woken thread that changes only its own locals.
LEMMA FioSo ==
    ASSUME Indutivo, NEW i \in Objs,
           fio[i].pc \notin {"nenhum", "dorme", "morto"},
           NEW f \in TipoFio, fio' = [fio EXCEPT ![i] = f],
           f.pc \notin {"nenhum", "dorme"}, f.alvo = fio[i].alvo,
           f.pc \in {"ordena", "ordenando", "json", "escrevendo"} =>
               obj[i].tipo = "leilao",
           f.pc \in {"somando", "ordenando", "escrevendo"} =>
               f.n <= Len(obj[fio[i].alvo].licitacoes),
           UNCHANGED <<obj, nObj, licitacao, nLic, leiloes, emissoes,
                       historicoLeiloes, historicoEmissoes, srv>>,
           Arquivou(i) => Arquivou(i)'
    PROVE  Indutivo'
<1>1. TypeOK /\ InvFios
  BY DEF Indutivo
<1>2. fio' \in [Objs -> TipoFio] /\ fio'[i] = f /\ \A j \in Objs \ {i} : fio'[j] = fio[j]
  BY <1>1 DEF TypeOK
<1>3. TypeOK'
  BY <1>1, <1>2 DEF TypeOK
<1>4. InvServidor' /\ InvMapas' /\ FechaOProprio' /\ AlvoUnico'
  BY <1>2, FioAcordado
<1>5. InvFios'
  <2> SUFFICES ASSUME NEW j \in Objs PROVE InvFio(j)'
    BY DEF InvFios
  <2>1. InvFio(j)
    BY <1>1 DEF InvFios
  <2>2. CASE j = i
    BY <1>2, <2>1, <2>2 DEF InvFio
  <2>3. CASE j # i
    BY <1>2, <2>1, <2>3 DEF InvFio
  <2> QED
    BY <2>2, <2>3
<1>6. Estavel
  BY <1>1, ExchangeAssumption DEF TypeOK, Estavel
<1>7. \A j \in Objs : Arquivou(j) => Arquivou(j)' /\ fio'[j].alvo = fio[j].alvo
  <2> SUFFICES ASSUME NEW j \in Objs, Arquivou(j)
               PROVE  Arquivou(j)' /\ fio'[j].alvo = fio[j].alvo
    OBVIOUS
  <2>1. CASE j = i
    BY <1>2, <2>1
  <2>2. CASE j # i
    BY <1>2, <2>2 DEF Arquivou
  <2> QED
    BY <2>1, <2>2
<1>8. InvHistorico' /\ HistoricoFiel'
  BY <1>6, <1>7, HistoricoIntacto
<1> QED
  BY <1>3, <1>4, <1>5, <1>8 DEF Indutivo

\* Steps that change nothing but the locals of a closing thread.
LEMMA PassoSoFio ==
    ASSUME Indutivo, NEW i \in Objs,
           IniciaTravessia(i) \/ TravessiaInterrompida(i) \/ FioPublica(i) \/ FioPut(i)
    PROVE  Indutivo'
<1>1. TypeOK /\ InvFios
  BY DEF Indutivo
<1>2. UNCHANGED <<obj, nObj, licitacao, nLic, leiloes, emissoes,
                  historicoLeiloes, historicoEmissoes, srv>>
  BY DEF IniciaTravessia, TravessiaInterrompida, FioPublica, FioPut, heaps, mapas, historicos
<1>3. fio[i] \in TipoFio /\ InvFio(i) /\ fio \in [Objs -> TipoFio]
  BY <1>1 DEF TypeOK, InvFios
<1>4. CASE IniciaTravessia(i)
  <2> DEFINE a == fio[i].alvo
             p == Travessia[fio[i].pc]
             f == [fio[i] EXCEPT !.pc = p, !.n = Len(obj[a].licitacoes)]
  <2>1. fio[i].pc \in {"soma", "ordena", "json"}
    BY <1>4 DEF IniciaTravessia, Travessia
  <2>2. a \in Objs
    BY <1>3, <2>1 DEF InvFio, TipoFio, Refs
  <2>3. Len(obj[a].licitacoes) \in Nat
    BY <1>1, <2>2 DEF TypeOK, TipoObjeto
  <2>4. /\ fio[i].pc = "soma" => p = "somando"
        /\ fio[i].pc = "ordena" => p = "ordenando"
        /\ fio[i].pc = "json" => p = "escrevendo"
    BY DEF Travessia
  <2>5. fio' = [fio EXCEPT ![i] = f]
    BY <1>3, <1>4 DEF IniciaTravessia, LicitacoesDe
  <2> HIDE DEF p
  <2>6. p \in {"somando", "ordenando", "escrevendo"}
    BY <2>1, <2>4
  <2>7. f \in TipoFio /\ f.pc = p /\ f.alvo = a /\ f.n = Len(obj[a].licitacoes)
    BY <1>3, <2>3, <2>6 DEF TipoFio, PCsFio
  <2>8. p \in {"ordena", "ordenando", "json", "escrevendo"} => obj[i].tipo = "leilao"
    BY <1>3, <2>1, <2>4 DEF InvFio
  <2> HIDE DEF f
  <2>9. Arquivou(i) => Arquivou(i)'
    <3>1. fio'[i] = f
      BY <1>3, <2>5
    <3> QED
      BY <1>2, <2>1, <2>4, <2>7, <3>1 DEF Arquivou
  <2>10. f.n <= Len(obj[a].licitacoes)
    BY <2>3, <2>7
  <2> QED
    BY <1>2, <2>1, <2>5, <2>6, <2>7, <2>8, <2>9, <2>10, FioSo
<1>5. CASE TravessiaInterrompida(i) \/ FioPublica(i) \/ FioPut(i)
  <2>1. PICK p \in {"morto", "soma", "json", "put", "fim"} :
           /\ fio' = [fio EXCEPT ![i].pc = p]
           /\ p = "json" => obj[i].tipo = "leilao"
           /\ p = "soma" => obj[i].tipo = "emissao"
    <3>1. FioPublica(i) => obj[i].tipo \in {"leilao", "emissao"}
      BY <1>3 DEF FioPublica, InvFio
    <3>2. CASE TravessiaInterrompida(i)
      BY <3>2 DEF TravessiaInterrompida
    <3>3. CASE FioPut(i)
      BY <3>3 DEF FioPut
    <3>4. CASE FioPublica(i)
      <4> DEFINE q == IF obj[i].tipo = "emissao" THEN "soma"
                      ELSE IF fio[i].lista THEN "json" ELSE "put"
      <4>1. fio' = [fio EXCEPT ![i].pc = q]
        BY <3>4 DEF FioPublica
      <4>2. fio[i].lista \in BOOLEAN
        BY <1>3 DEF TipoFio
      <4>3. /\ obj[i].tipo = "emissao" => q = "soma"
            /\ obj[i].tipo = "leilao" => q \in {"json", "put"}
        BY <4>2
      <4> HIDE DEF q
      <4> QED
        BY <3>1, <3>4, <4>1, <4>3
    <3> QED
      BY <1>5, <3>2, <3>3, <3>4
  <2>2. fio[i].pc \in {"somando", "ordenando", "escrevendo", "publica", "put"}
    BY <1>5 DEF TravessiaInterrompida, FioPublica, FioPut
  <2> DEFINE f == [fio[i] EXCEPT !.pc = p]
  <2>3. f \in TipoFio /\ f.pc = p /\ f.alvo = fio[i].alvo /\ fio' = [fio EXCEPT ![i] = f]
    BY <1>3, <2>1 DEF TipoFio, PCsFio
  <2> HIDE DEF f
  <2>4. Arquivou(i)'
    <3>1. fio'[i] = f
      BY <1>3, <2>3
    <3> QED
      BY <1>2, <2>1, <2>3, <3>1 DEF Arquivou
  <2> QED
    BY <1>2, <2>1, <2>2, <2>3, <2>4, FioSo
<1> QED
  BY <1>4, <1>5

\* The decision of a closing thread, or its selection of investors, changes only
\* the object it took.
LEMMA FioDecide ==
    ASSUME Indutivo, NEW i \in Objs, fio[i].pc \in {"somando", "ordenando"},
           NEW o \in TipoObjeto,
           o.tipo = obj[fio[i].alvo].tipo, o.empresa = obj[fio[i].alvo].empresa,
           obj' = [obj EXCEPT ![fio[i].alvo] = o],
           NEW f \in TipoFio, fio' = [fio EXCEPT ![i] = f],
           f.alvo = fio[i].alvo,
           \/ obj[i].tipo = "leilao" /\ f.pc \in {"ordena", "arquiva"}
           \/ obj[i].tipo = "emissao" /\ f.pc = "put",
           UNCHANGED <<nObj, licitacao, nLic, leiloes, emissoes,
                       historicoLeiloes, historicoEmissoes, srv>>
    PROVE  Indutivo'
<1> DEFINE a == fio[i].alvo
<1>1. TypeOK /\ InvFios /\ AlvoUnico
  BY DEF Indutivo
<1>2. InvFio(i) /\ a \in Objs
  BY <1>1 DEF InvFios, InvFio, TypeOK, TipoFio, Refs
<1>3. fio' \in [Objs -> TipoFio] /\ fio'[i] = f /\ \A j \in Objs \ {i} : fio'[j] = fio[j]
  BY <1>1 DEF TypeOK
<1>4. obj' \in [Objs -> TipoObjeto] /\ obj'[a] = o /\ \A k \in Objs \ {a} : obj'[k] = obj[k]
  BY <1>1, <1>2 DEF TypeOK
<1>5. \A k \in Objs : obj'[k].tipo = obj[k].tipo /\ obj'[k].empresa = obj[k].empresa
  BY <1>4
<1>6. Estavel /\ nObj' \in Nat
  BY <1>1, <1>5, ExchangeAssumption DEF TypeOK, Estavel, Objs
<1>7. TypeOK'
  BY <1>1, <1>3, <1>4 DEF TypeOK
<1>8. InvServidor' /\ InvMapas' /\ FechaOProprio' /\ AlvoUnico'
  BY <1>3, <1>5, FioAcordado
<1>9. InvFios'
  <2> SUFFICES ASSUME NEW j \in Objs PROVE InvFio(j)'
    BY DEF InvFios
  <2>1. InvFio(j) /\ fio[j].alvo \in Refs
    BY <1>1 DEF InvFios, TypeOK, TipoFio
  <2>2. CASE j = i
    BY <1>2, <1>3, <1>5, <2>1, <2>2 DEF InvFio
  <2>3. CASE j # i
    <3>1. fio[j].pc \in {"somando", "ordenando", "escrevendo"} =>
            /\ fio[j].alvo \in Objs \ {a}
            /\ fio[j].n <= Len(obj[fio[j].alvo].licitacoes)
      BY <1>1, <1>2, <2>1, <2>3, ExchangeAssumption DEF InvFio, Refs, AlvoUnico, Objs
    <3>2. fio[j].pc \in {"somando", "ordenando", "escrevendo"} =>
            fio[j].n <= Len(obj'[fio[j].alvo].licitacoes)
      BY <1>4, <3>1
    <3> QED
      BY <1>3, <1>6, <2>3, <3>2, FioIntacto
  <2> QED
    BY <2>2, <2>3
<1>10. \A j \in Objs : Arquivou(j) => Arquivou(j)' /\ fio'[j].alvo = fio[j].alvo
  <2> SUFFICES ASSUME NEW j \in Objs, Arquivou(j)
               PROVE  Arquivou(j)' /\ fio'[j].alvo = fio[j].alvo
    OBVIOUS
  <2>1. CASE j = i
    BY <1>2, <1>3, <1>5, <2>1 DEF Arquivou
  <2>2. CASE j # i
    BY <1>3, <1>5, <2>2 DEF Arquivou
  <2> QED
    BY <2>1, <2>2
<1>11. InvHistorico' /\ HistoricoFiel'
  BY <1>6, <1>10, HistoricoIntacto
<1> QED
  BY <1>7, <1>8, <1>9, <1>11 DEF Indutivo

\* What a traversal saw of a list of bids is a list of bids.
LEMMA VistasTipo ==
    ASSUME Indutivo, NEW i \in Objs,
           fio[i].pc \in {"somando", "ordenando", "escrevendo"}
    PROVE  Vistas(i) \in Seq(Lics)
<1>1. TypeOK /\ InvFio(i)
  BY DEF Indutivo, InvFios
<1>2. fio[i].alvo \in Objs /\ fio[i].n \in Nat
  BY <1>1 DEF InvFio, TypeOK, TipoFio, Refs
<1>3. LicitacoesDe(i) \in Seq(Lics) /\ fio[i].n <= Len(LicitacoesDe(i))
  BY <1>1, <1>2 DEF InvFio, TypeOK, TipoObjeto, LicitacoesDe
<1>4. \A k \in 1 .. fio[i].n : LicitacoesDe(i)[k] \in Lics
  BY <1>2, <1>3
<1> QED
  BY <1>2, <1>3, <1>4 DEF Vistas

\* The investors selected are bids of the list they are selected from.
LEMMA AlocacoesTipo ==
    ASSUME NEW S, NEW s \in Seq(S), NEW lic, NEW montante,
           NEW t \in Alocacoes(s, lic, montante)
    PROVE  t \in Seq(S)
<1>1. Ordenadas(s, lic) \subseteq Seq(S)
  <2> SUFFICES ASSUME NEW p \in [DOMAIN s -> DOMAIN s]
               PROVE  [k \in DOMAIN s |-> s[p[k]]] \in Seq(S)
    BY DEF Ordenadas
  <2>1. DOMAIN s = 1 .. Len(s) /\ Len(s) \in Nat /\ \A k \in DOMAIN s : s[k] \in S
    OBVIOUS
  <2>2. \A k \in DOMAIN s : s[p[k]] \in S
    BY <2>1
  <2>3. \A g \in [1 .. Len(s) -> S] : g \in Seq(S)
    BY <2>1, SMT
  <2> QED
    BY <2>1, <2>2, <2>3
<1>2. PICK u \in Ordenadas(s, lic) :
         \E k \in Nat : k <= Len(u) /\ t = SubSeq(u, 1, k)
  <2>1. PICK u \in Ordenadas(s, lic) :
           t \in {SubSeq(u, 1, k) : k \in Cortes(u, lic, montante)}
    BY DEF Alocacoes
  <2>2. Len(u) \in Nat /\ \A k \in Cortes(u, lic, montante) : k \in 0 .. Len(u)
    BY <1>1 DEF Cortes
  <2> QED
    BY <2>1, <2>2
<1>3. PICK k \in Nat : k <= Len(u) /\ t = SubSeq(u, 1, k)
  BY <1>2
<1>4. u \in Seq(S) /\ \A j \in 1 .. k : u[j] \in S
  BY <1>1, <1>3
<1> QED
  BY <1>3, <1>4

\* A closing thread decides whether its auction or issue succeeds.
LEMMA PassoDecide ==
    ASSUME Indutivo, NEW i \in Objs, DecideLeilao(i) \/ DecideEmissao(i)
    PROVE  Indutivo'
<1> DEFINE a == fio[i].alvo
<1>1. TypeOK /\ InvFio(i) /\ fio[i].pc = "somando"
  BY DEF Indutivo, InvFios, DecideLeilao, DecideEmissao
<1>2. a \in Objs /\ fio[i] \in TipoFio /\ obj[a] \in TipoObjeto /\ Coberto(i) \in BOOLEAN
  BY <1>1 DEF InvFio, TypeOK, TipoFio, Refs, Coberto
<1>3. UNCHANGED <<nObj, licitacao, nLic, leiloes, emissoes,
                  historicoLeiloes, historicoEmissoes, srv>>
  BY DEF DecideLeilao, DecideEmissao, mapas, historicos
<1>4. PICK x \in BOOLEAN, p \in {"ordena", "arquiva", "put"} :
         /\ obj' = [obj EXCEPT ![a].sucesso = x]
         /\ fio' = [fio EXCEPT ![i].pc = p]
         /\ \/ obj[i].tipo = "leilao" /\ p \in {"ordena", "arquiva"}
            \/ obj[i].tipo = "emissao" /\ p = "put"
  <2>1. CASE DecideLeilao(i)
    <3> DEFINE x == obj[a].sucesso \/ Coberto(i)
               p == IF Coberto(i) THEN "ordena" ELSE "arquiva"
    <3>1. /\ obj' = [obj EXCEPT ![a].sucesso = x] /\ fio' = [fio EXCEPT ![i].pc = p]
          /\ obj[i].tipo = "leilao"
      BY <1>1, <1>2, <2>1 DEF DecideLeilao, TypeOK
    <3>2. x \in BOOLEAN /\ p \in {"ordena", "arquiva"}
      BY <1>2
    <3> HIDE DEF x, p
    <3> QED
      BY <3>1, <3>2
  <2>2. CASE DecideEmissao(i)
    BY <1>2, <2>2 DEF DecideEmissao
  <2> QED
    BY <2>1, <2>2
<1> DEFINE o == [obj[a] EXCEPT !.sucesso = x]
           f == [fio[i] EXCEPT !.pc = p]
<1>5. /\ o \in TipoObjeto /\ o.tipo = obj[a].tipo /\ o.empresa = obj[a].empresa
      /\ obj' = [obj EXCEPT ![a] = o]
  BY <1>1, <1>2, <1>4 DEF TipoObjeto, TypeOK
<1>6. f \in TipoFio /\ f.pc = p /\ f.alvo = a /\ fio' = [fio EXCEPT ![i] = f]
  BY <1>1, <1>2, <1>4 DEF TipoFio, PCsFio, TypeOK
<1> HIDE DEF o, f
<1> QED
  BY <1>1, <1>3, <1>4, <1>5, <1>6, FioDecide

\* One bid is allocated, in whole or in part.
LEMMA PassoAloca ==
    ASSUME Indutivo, NEW i \in Objs, alocaInvestidores(i)
    PROVE  Indutivo'
<1> DEFINE a == fio[i].alvo
<1>1. TypeOK /\ InvFio(i) /\ fio[i].pc = "ordenando"
  BY DEF Indutivo, InvFios, alocaInvestidores
<1>2. a \in Objs /\ fio[i] \in TipoFio /\ obj[a] \in TipoObjeto /\ obj[i].tipo = "leilao"
  BY <1>1 DEF InvFio, TypeOK, TipoFio, Refs
<1>3. UNCHANGED <<nObj, licitacao, nLic, leiloes, emissoes,
                  historicoLeiloes, historicoEmissoes, srv>>
  BY DEF alocaInvestidores, mapas, historicos
<1>4. PICK t \in Seq(Lics), x \in BOOLEAN :
         /\ obj' = IF x THEN [obj EXCEPT ![a].licitacoes = t] ELSE obj
         /\ fio' = [fio EXCEPT ![i].pc = "arquiva", ![i].lista = x]
  <2>1. PICK t \in Alocacoes(Vistas(i), licitacao, obj[a].montante) :
           LET x == Len(t) # Len(LicitacoesDe(i))
           IN  /\ obj' = IF x THEN [obj EXCEPT ![a].licitacoes = t] ELSE obj
               /\ fio' = [fio EXCEPT ![i].pc = "arquiva", ![i].lista = x]
    BY DEF alocaInvestidores
  <2>2. t \in Seq(Lics)
    BY <1>1, VistasTipo, AlocacoesTipo
  <2> DEFINE x == Len(t) # Len(LicitacoesDe(i))
  <2>3. /\ obj' = IF x THEN [obj EXCEPT ![a].licitacoes = t] ELSE obj
        /\ fio' = [fio EXCEPT ![i].pc = "arquiva", ![i].lista = x]
    BY <2>1
  <2>4. x \in BOOLEAN
    OBVIOUS
  <2> HIDE DEF x
  <2> QED
    BY <2>2, <2>3, <2>4
<1> DEFINE o == IF x THEN [obj[a] EXCEPT !.licitacoes = t] ELSE obj[a]
           f == [fio[i] EXCEPT !.pc = "arquiva", !.lista = x]
<1>5. /\ o \in TipoObjeto /\ o.tipo = obj[a].tipo /\ o.empresa = obj[a].empresa
      /\ obj' = [obj EXCEPT ![a] = o]
  <2>1. CASE x
    BY <1>1, <1>2, <1>4, <2>1 DEF TipoObjeto, TypeOK
  <2>2. CASE ~ x
    BY <1>1, <1>2, <1>4, <2>2 DEF TypeOK
  <2> QED
    BY <2>1, <2>2
<1>6. f \in TipoFio /\ f.pc = "arquiva" /\ f.alvo = a /\ fio' = [fio EXCEPT ![i] = f]
  BY <1>1, <1>2, <1>4 DEF TipoFio, PCsFio, TypeOK
<1> HIDE DEF o, f
<1> QED
  BY <1>1, <1>2, <1>3, <1>5, <1>6, FioDecide

\* The object is appended to its company's history by the one thread that took
\* it, once: it is not there yet.
LEMMA PassoArquivaLeilao ==
    ASSUME Indutivo, NEW i \in Objs, ArquivaLeilao(i)
    PROVE  Indutivo'
<1> DEFINE a == fio[i].alvo
           e == obj[i].empresa
           h == historicoLeiloes[e]
<1>1. TypeOK /\ InvFios /\ AlvoUnico /\ InvHistorico /\ HistoricoFiel
  BY DEF Indutivo
<1>2. /\ fio[i].pc = "arquiva" /\ obj[i].tipo = "leilao" /\ e \in Empresas
      /\ a \in Objs /\ a # Nulo /\ obj[a].tipo = "leilao" /\ obj[a].empresa = e
  BY <1>1, ExchangeAssumption
  DEF ArquivaLeilao, InvFios, InvFio, TypeOK, TipoFio, Refs, Objs
<1>3. /\ historicoLeiloes' = [historicoLeiloes EXCEPT ![e] = Append(h, a)]
      /\ fio' = [fio EXCEPT ![i].pc = "publica"]
      /\ UNCHANGED <<obj, nObj, licitacao, nLic, leiloes, emissoes,
                     historicoEmissoes, srv>>
  BY DEF ArquivaLeilao, heaps, mapas
<1>4. /\ fio' \in [Objs -> TipoFio] /\ fio'[i].pc = "publica" /\ fio'[i].alvo = a
      /\ fio'[i].n = fio[i].n
      /\ \A j \in Objs \ {i} : fio'[j] = fio[j]
  BY <1>1, <1>3 DEF TypeOK, TipoFio, PCsFio
<1>5. /\ h \in Seq(Objs) /\ historicoLeiloes'[e] = Append(h, a)
      /\ \A g \in Empresas \ {e} : historicoLeiloes'[g] = historicoLeiloes[g]
      /\ historicoLeiloes' \in [Empresas -> Seq(Objs)]
  BY <1>1, <1>2, <1>3 DEF TypeOK
<1>6. /\ DOMAIN Append(h, a) = (DOMAIN h) \cup {Len(h) + 1}
      /\ Append(h, a)[Len(h) + 1] = a /\ Append(h, a) # <<>>
      /\ \A k \in DOMAIN h : Append(h, a)[k] = h[k] /\ k # Len(h) + 1
  BY <1>2, <1>5
<1>7. \A j \in Objs : Arquivou(j) => /\ Arquivou(j)' /\ j # i
                                     /\ fio'[j].alvo = fio[j].alvo
  BY <1>2, <1>3, <1>4 DEF Arquivou
<1>8. \A k \in DOMAIN h : h[k] # a
  <2> SUFFICES ASSUME NEW k \in DOMAIN h, h[k] = a PROVE FALSE
    OBVIOUS
  <2>1. PICK j \in Objs : Arquivou(j) /\ fio[j].alvo = a
    BY <1>1, <1>2 DEF InvHistorico
  <2> QED
    BY <1>1, <1>2, <1>7, <2>1 DEF AlvoUnico
<1>9. TypeOK'
  BY <1>1, <1>3, <1>4, <1>5 DEF TypeOK
<1>10. InvServidor' /\ InvMapas' /\ FechaOProprio' /\ AlvoUnico'
  <2>1. \A g \in Empresas : historicoLeiloes[g] # <<>> => historicoLeiloes'[g] # <<>>
    BY <1>5, <1>6
  <2> QED
    BY <1>2, <1>3, <1>4, <2>1, FioAcordado
<1>11. InvFios'
  BY <1>1, <1>2, <1>3, <1>4 DEF InvFios, InvFio
<1> HIDE DEF h
<1>12. InvHistorico'
  <2> SUFFICES ASSUME NEW g \in Empresas
               PROVE  /\ \A k \in DOMAIN historicoLeiloes'[g] : \E j \in Objs :
                            Arquivou(j)' /\ fio'[j].alvo = historicoLeiloes'[g][k]
                      /\ \A k \in DOMAIN historicoEmissoes'[g] : \E j \in Objs :
                            Arquivou(j)' /\ fio'[j].alvo = historicoEmissoes'[g][k]
    BY DEF InvHistorico
  <2>1. /\ \A k \in DOMAIN historicoLeiloes[g] : \E j \in Objs :
              Arquivou(j)' /\ fio'[j].alvo = historicoLeiloes[g][k]
        /\ \A k \in DOMAIN historicoEmissoes[g] : \E j \in Objs :
              Arquivou(j)' /\ fio'[j].alvo = historicoEmissoes[g][k]
    BY <1>1, <1>7 DEF InvHistorico
  <2>2. Arquivou(i)' /\ fio'[i].alvo = a
    BY <1>4 DEF Arquivou
  <2>3. CASE g # e
    BY <1>3, <1>5, <2>1, <2>3
  <2>4. CASE g = e
    BY <1>3, <1>5, <1>6, <2>1, <2>2, <2>4, SMTT(30) DEF h
  <2> QED
    BY <2>3, <2>4
<1>13. HistoricoFiel'
  <2> SUFFICES ASSUME NEW g \in Empresas
               PROVE  /\ \A k, l \in DOMAIN historicoLeiloes'[g] :
                            historicoLeiloes'[g][k] = historicoLeiloes'[g][l] => k = l
                      /\ \A k \in DOMAIN historicoLeiloes'[g] :
                            /\ obj[historicoLeiloes'[g][k]].tipo = "leilao"
                            /\ obj[historicoLeiloes'[g][k]].empresa = g
    BY <1>1, <1>3 DEF HistoricoFiel
  <2>1. /\ \A k, l \in DOMAIN historicoLeiloes[g] :
              historicoLeiloes[g][k] = historicoLeiloes[g][l] => k = l
        /\ \A k \in DOMAIN historicoLeiloes[g] :
              /\ obj[historicoLeiloes[g][k]].tipo = "leilao"
              /\ obj[historicoLeiloes[g][k]].empresa = g
    BY <1>1 DEF HistoricoFiel
  <2>2. CASE g # e
    BY <1>5, <2>1, <2>2
  <2>3. CASE g = e
    <3> DEFINE n == Append(h, a)
    <3>1. historicoLeiloes'[g] = n /\ historicoLeiloes[g] = h
      BY <1>5, <2>3 DEF h
    <3>2. \A k \in DOMAIN n : obj[n[k]].tipo = "leilao" /\ obj[n[k]].empresa = g
      BY <1>2, <1>6, <2>1, <2>3, <3>1
    <3>3. ASSUME NEW k \in DOMAIN n, NEW l \in DOMAIN n, n[k] = n[l] PROVE k = l
      <4>1. CASE k \in DOMAIN h /\ l \in DOMAIN h
        BY <1>6, <2>1, <3>1, <3>3, <4>1
      <4>2. CASE k \notin DOMAIN h \/ l \notin DOMAIN h
        BY <1>6, <1>8, <3>3, <4>2 DEF h
      <4> QED
        BY <4>1, <4>2
    <3> HIDE DEF n
    <3> QED
      BY <3>1, <3>2, <3>3
  <2> QED
    BY <2>2, <2>3
<1> QED
  BY <1>9, <1>10, <1>11, <1>12, <1>13 DEF Indutivo

\* An issue is archived and its company is free again.
LEMMA PassoArquivaEmissao ==
    ASSUME Indutivo, NEW i \in Objs, ArquivaEmissao(i)
    PROVE  Indutivo'
<1> DEFINE a == fio[i].alvo
           e == obj[i].empresa
           h == historicoEmissoes[e]
<1>1. TypeOK /\ InvFios /\ AlvoUnico /\ InvHistorico /\ HistoricoFiel
  BY DEF Indutivo
<1>2. /\ fio[i].pc = "arquiva" /\ obj[i].tipo = "emissao" /\ e \in Empresas
      /\ a \in Objs /\ a # Nulo /\ obj[a].tipo = "emissao" /\ obj[a].empresa = e
  BY <1>1, ExchangeAssumption
  DEF ArquivaEmissao, InvFios, InvFio, TypeOK, TipoFio, Refs, Objs
<1>3. /\ historicoEmissoes' = [historicoEmissoes EXCEPT ![e] = Append(h, a)]
      /\ fio' = [fio EXCEPT ![i].pc = "publica"]
      /\ UNCHANGED <<obj, nObj, licitacao, nLic, leiloes, emissoes,
                     historicoLeiloes, srv>>
  BY DEF ArquivaEmissao, heaps, mapas
<1>4. /\ fio' \in [Objs -> TipoFio] /\ fio'[i].pc = "publica" /\ fio'[i].alvo = a
      /\ fio'[i].n = fio[i].n
      /\ \A j \in Objs \ {i} : fio'[j] = fio[j]
  BY <1>1, <1>3 DEF TypeOK, TipoFio, PCsFio
<1>5. /\ h \in Seq(Objs) /\ historicoEmissoes'[e] = Append(h, a)
      /\ \A g \in Empresas \ {e} : historicoEmissoes'[g] = historicoEmissoes[g]
      /\ historicoEmissoes' \in [Empresas -> Seq(Objs)]
  BY <1>1, <1>2, <1>3 DEF TypeOK
<1>6. /\ DOMAIN Append(h, a) = (DOMAIN h) \cup {Len(h) + 1}
      /\ Append(h, a)[Len(h) + 1] = a /\ Append(h, a) # <<>>
      /\ \A k \in DOMAIN h : Append(h, a)[k] = h[k] /\ k # Len(h) + 1
  BY <1>2, <1>5
<1>7. \A j \in Objs : Arquivou(j) => /\ Arquivou(j)' /\ j # i
                                     /\ fio'[j].alvo = fio[j].alvo
  BY <1>2, <1>3, <1>4 DEF Arquivou
<1>8. \A k \in DOMAIN h : h[k] # a
  <2> SUFFICES ASSUME NEW k \in DOMAIN h, h[k] = a PROVE FALSE
    OBVIOUS
  <2>1. PICK j \in Objs : Arquivou(j) /\ fio[j].alvo = a
    BY <1>1, <1>2 DEF InvHistorico
  <2> QED
    BY <1>1, <1>2, <1>7, <2>1 DEF AlvoUnico
<1>9. TypeOK'
  BY <1>1, <1>3, <1>4, <1>5 DEF TypeOK
<1>10. InvServidor' /\ InvMapas' /\ FechaOProprio' /\ AlvoUnico'
  BY <1>2, <1>3, <1>4, FioAcordado
<1>11. InvFios'
  BY <1>1, <1>2, <1>3, <1>4 DEF InvFios, InvFio
<1> HIDE DEF h
<1>12. InvHistorico'
  <2> SUFFICES ASSUME NEW g \in Empresas
               PROVE  /\ \A k \in DOMAIN historicoEmissoes'[g] : \E j \in Objs :
                            Arquivou(j)' /\ fio'[j].alvo = historicoEmissoes'[g][k]
                      /\ \A k \in DOMAIN historicoLeiloes'[g] : \E j \in Objs :
                            Arquivou(j)' /\ fio'[j].alvo = historicoLeiloes'[g][k]
    BY DEF InvHistorico
  <2>1. /\ \A k \in DOMAIN historicoEmissoes[g] : \E j \in Objs :
              Arquivou(j)' /\ fio'[j].alvo = historicoEmissoes[g][k]
        /\ \A k \in DOMAIN historicoLeiloes[g] : \E j \in Objs :
              Arquivou(j)' /\ fio'[j].alvo = historicoLeiloes[g][k]
    BY <1>1, <1>7 DEF InvHistorico
  <2>2. Arquivou(i)' /\ fio'[i].alvo = a
    BY <1>4 DEF Arquivou
  <2>3. CASE g # e
    BY <1>3, <1>5, <2>1, <2>3
  <2>4. CASE g = e
    BY <1>3, <1>5, <1>6, <2>1, <2>2, <2>4, SMTT(30) DEF h
  <2> QED
    BY <2>3, <2>4
<1>13. HistoricoFiel'
  <2> SUFFICES ASSUME NEW g \in Empresas
               PROVE  /\ \A k, l \in DOMAIN historicoEmissoes'[g] :
                            historicoEmissoes'[g][k] = historicoEmissoes'[g][l] => k = l
                      /\ \A k \in DOMAIN historicoEmissoes'[g] :
                            /\ obj[historicoEmissoes'[g][k]].tipo = "emissao"
                            /\ obj[historicoEmissoes'[g][k]].empresa = g
    BY <1>1, <1>3 DEF HistoricoFiel
  <2>1. /\ \A k, l \in DOMAIN historicoEmissoes[g] :
              historicoEmissoes[g][k] = historicoEmissoes[g][l] => k = l
        /\ \A k \in DOMAIN historicoEmissoes[g] :
              /\ obj[historicoEmissoes[g][k]].tipo = "emissao"
              /\ obj[historicoEmissoes[g][k]].empresa = g
    BY <1>1 DEF HistoricoFiel
  <2>2. CASE g # e
    BY <1>5, <2>1, <2>2
  <2>3. CASE g = e
    <3> DEFINE n == Append(h, a)
    <3>1. historicoEmissoes'[g] = n /\ historicoEmissoes[g] = h
      BY <1>5, <2>3 DEF h
    <3>2. \A k \in DOMAIN n : obj[n[k]].tipo = "emissao" /\ obj[n[k]].empresa = g
      BY <1>2, <1>6, <2>1, <2>3, <3>1
    <3>3. ASSUME NEW k \in DOMAIN n, NEW l \in DOMAIN n, n[k] = n[l] PROVE k = l
      <4>1. CASE k \in DOMAIN h /\ l \in DOMAIN h
        BY <1>6, <2>1, <3>1, <3>3, <4>1
      <4>2. CASE k \notin DOMAIN h \/ l \notin DOMAIN h
        BY <1>6, <1>8, <3>3, <4>2 DEF h
      <4> QED
        BY <4>1, <4>2
    <3> HIDE DEF n
    <3> QED
      BY <3>1, <3>2, <3>3
  <2> QED
    BY <2>2, <2>3
<1> QED
  BY <1>9, <1>10, <1>11, <1>12, <1>13 DEF Indutivo

-----------------------------------------------------------------------------
(* The theorems.                                                           *)

\* Every step keeps the inductive invariant.
LEMMA PassoIndutivo == Indutivo /\ [Next]_vars => Indutivo'
<1> SUFFICES ASSUME Indutivo, [Next]_vars PROVE Indutivo'
  OBVIOUS
<1>1. CASE \E m \in Mensagens : Recebe(m)
  BY <1>1, PassoSoServidor
<1>2. CASE PassoServidor
  <2>1. CASE Recusa \/ licitar \/ emprestimo \/ LeIndices \/ EmpresaDesconhecida
               \/ emissao \/ LeUltimoLeilao \/ LeTaxaEmissao \/ ServidorPublica
               \/ ServidorPost
    BY <2>1, PassoSoServidor
  <2>2. CASE AdicionaLicitacao
    BY <2>2, PassoAdicionaLicitacao
  <2>3. CASE leilao
    BY <2>3, Passoleilao
  <2>4. CASE IniciaTerminaLeilao
    BY <2>4, PassoIniciaTerminaLeilao
  <2>5. CASE CriaEmissao
    BY <2>5, PassoCriaEmissao
  <2> QED
    BY <1>2, <2>1, <2>2, <2>3, <2>4, <2>5 DEF PassoServidor, PassoLocalServidor
<1>3. ASSUME NEW i \in Objs, PassoFio(i) PROVE Indutivo'
  <2>1. CASE RemoveLeilao(i)
    BY <2>1, PassoRemoveLeilao
  <2>2. CASE RemoveEmissao(i)
    BY <2>2, PassoRemoveEmissao
  <2>3. CASE IniciaTravessia(i) \/ TravessiaInterrompida(i) \/ FioPublica(i) \/ FioPut(i)
    BY <2>3, PassoSoFio
  <2>4. CASE DecideLeilao(i) \/ DecideEmissao(i)
    BY <2>4, PassoDecide
  <2>5. CASE alocaInvestidores(i)
    BY <2>5, PassoAloca
  <2>6. CASE ArquivaLeilao(i)
    BY <2>6, PassoArquivaLeilao
  <2>7. CASE ArquivaEmissao(i)
    BY <2>7, PassoArquivaEmissao
  <2> QED
    BY <1>3, <2>1, <2>2, <2>3, <2>4, <2>5, <2>6, <2>7 DEF PassoFio, PassoLocalFio
<1>4. CASE UNCHANGED vars
  BY <1>4 DEF vars, heaps, mapas, historicos, Indutivo, TypeOK, InvServidor, InvFios, InvFio,
              InvMapas, InvMapa, FechaOProprio, AlvoUnico, InvHistorico, Arquivou, HistoricoFiel
<1> QED
  BY <1>1, <1>2, <1>3, <1>4 DEF Next

\* The inductive invariant holds in every reachable state.
LEMMA IndutivoSempre == Spec => []Indutivo
  BY InicioIndutivo, PassoIndutivo, PTL DEF Spec

\* Whatever the requests and however the threads interleave, the heaps, maps,
\* histories and thread locals keep their types: in particular no map and no
\* history ever refers to an object that was not built.
THEOREM TiposCorretos == Spec => []TypeOK
<1>1. Indutivo => TypeOK
  BY DEF Indutivo
<1> QED
  BY <1>1, IndutivoSempre, PTL

\* TerminaLeilao.run() removes by company name, yet each thread closes exactly the
\* auction it was started for, for any number of companies, auctions and requests.
THEOREM CadaFioFechaOSeu == Spec => []FechaOProprio
<1>1. Indutivo => FechaOProprio
  BY DEF Indutivo
<1> QED
  BY <1>1, IndutivoSempre, PTL

\* Every open issue has a TerminaEmissao thread of its company still to wake, in
\* spite of emissao() overwriting open issues.
THEOREM NenhumaEmissaoEsquecida == Spec => []EmissaoAbertaTemFio
<1>1. Indutivo => EmissaoAbertaTemFio
  BY DEF Indutivo, TypeOK, InvMapas, InvMapa, EmissaoAbertaTemFio, Refs
<1> QED
  BY <1>1, IndutivoSempre, PTL

\* No history ever holds an auction or issue twice, nor one of another company or
\* kind.
THEOREM HistoricosFieis == Spec => []HistoricoFiel
<1>1. Indutivo => HistoricoFiel
  BY DEF Indutivo
<1> QED
  BY <1>1, IndutivoSempre, PTL

-----------------------------------------------------------------------------
(* The outcome of an archived auction is final.                            *)

\* A sequence extends itself ...
LEMMA EstendeIgual == ASSUME NEW S, NEW s \in Seq(S) PROVE Estende(s, s)
  BY DEF Estende

\* ... and what is appended extends it.
LEMMA EstendeAppend ==
    ASSUME NEW S, NEW s \in Seq(S), NEW x \in S PROVE Estende(s, Append(s, x))
<1>1. Append(s, x) \in Seq(S) /\ Len(Append(s, x)) = Len(s) + 1 /\ Len(s) \in Nat
  OBVIOUS
<1>2. \A k \in 1 .. Len(s) : Append(s, x)[k] = s[k]
  OBVIOUS
<1>3. s = SubSeq(Append(s, x), 1, Len(s))
  BY <1>1, <1>2
<1> QED
  BY <1>1, <1>3 DEF Estende

\* No thread is still to decide, or to select the investors of, an archived
\* auction.
LEMMA ArquivadoIntocado ==
    ASSUME Indutivo, NEW e \in Empresas, NEW k \in DOMAIN historicoLeiloes[e],
           NEW a, a = historicoLeiloes[e][k]
    PROVE  /\ a \in Objs /\ a <= nObj /\ obj[a].tipo = "leilao"
           /\ \A i \in Objs : fio[i].alvo = a => fio[i].pc \notin {"somando", "ordenando"}
<1>1. TypeOK /\ InvFios /\ AlvoUnico /\ InvHistorico /\ HistoricoFiel
  BY DEF Indutivo
<1>2. a \in Objs /\ obj[a].tipo = "leilao"
  BY <1>1 DEF TypeOK, HistoricoFiel
<1>3. PICK j \in Objs : Arquivou(j) /\ fio[j].alvo = a
  BY <1>1 DEF InvHistorico
<1>4. a # Nulo
  BY <1>2, ExchangeAssumption DEF Objs
<1>5. a <= nObj /\ obj[j].tipo = "leilao"
  BY <1>1, <1>2, <1>3, <1>4 DEF InvFios, InvFio
<1>6. \A i \in Objs : fio[i].alvo = a => i = j
  BY <1>1, <1>3, <1>4 DEF AlvoUnico
<1> QED
  BY <1>2, <1>3, <1>5, <1>6 DEF Arquivou

\* Every step only extends the histories.
LEMMA HistoricosCrescem ==
    ASSUME Indutivo, [Next]_vars, NEW e \in Empresas
    PROVE  /\ Estende(historicoLeiloes[e], historicoLeiloes'[e])
           /\ Estende(historicoEmissoes[e], historicoEmissoes'[e])
<1>1. TypeOK /\ InvFios
  BY DEF Indutivo
<1>2. historicoLeiloes[e] \in Seq(Objs) /\ historicoEmissoes[e] \in Seq(Objs)
  BY <1>1 DEF TypeOK
<1>3. CASE UNCHANGED <<historicoLeiloes, historicoEmissoes>>
  BY <1>2, <1>3, EstendeIgual
<1>4. ASSUME NEW i \in Objs, fio[i].pc = "arquiva" PROVE fio[i].alvo \in Objs
  BY <1>1, <1>4 DEF InvFios, InvFio, TypeOK, TipoFio, Refs
<1>5. ASSUME NEW i \in Objs, ArquivaLeilao(i)
      PROVE  /\ Estende(historicoLeiloes[e], historicoLeiloes'[e])
             /\ Estende(historicoEmissoes[e], historicoEmissoes'[e])
  <2>1. fio[i].alvo \in Objs /\ historicoEmissoes'[e] = historicoEmissoes[e]
    BY <1>4, <1>5 DEF ArquivaLeilao
  <2>2. historicoLeiloes'[e] \in {historicoLeiloes[e],
                                  Append(historicoLeiloes[e], fio[i].alvo)}
    BY <1>1, <1>5 DEF ArquivaLeilao, TypeOK
  <2> QED
    BY <1>2, <2>1, <2>2, EstendeIgual, EstendeAppend
<1>6. ASSUME NEW i \in Objs, ArquivaEmissao(i)
      PROVE  /\ Estende(historicoLeiloes[e], historicoLeiloes'[e])
             /\ Estende(historicoEmissoes[e], historicoEmissoes'[e])
  <2>1. fio[i].alvo \in Objs /\ historicoLeiloes'[e] = historicoLeiloes[e]
    BY <1>4, <1>6 DEF ArquivaEmissao
  <2>2. historicoEmissoes'[e] \in {historicoEmissoes[e],
                                   Append(historicoEmissoes[e], fio[i].alvo)}
    BY <1>1, <1>6 DEF ArquivaEmissao, TypeOK
  <2> QED
    BY <1>2, <2>1, <2>2, EstendeIgual, EstendeAppend
<1>7. \/ UNCHANGED <<historicoLeiloes, historicoEmissoes>>
      \/ \E i \in Objs : ArquivaLeilao(i) \/ ArquivaEmissao(i)
  BY DEF Next, vars, historicos, Recebe, PassoServidor, PassoLocalServidor, Recusa, licitar,
         emprestimo, AdicionaLicitacao, LeIndices, leilao, IniciaTerminaLeilao,
         EmpresaDesconhecida, emissao, LeUltimoLeilao, LeTaxaEmissao, CriaEmissao,
         ServidorPublica, ServidorPost, PassoFio, PassoLocalFio, RemoveLeilao,
         RemoveEmissao, IniciaTravessia, TravessiaInterrompida, DecideLeilao,
         alocaInvestidores, DecideEmissao, FioPublica, FioPut
<1> QED
  BY <1>3, <1>5, <1>6, <1>7

\* What a step does to an archived auction: at most append a late bid.
LEMMA ArquivadoDefinitivo ==
    ASSUME Indutivo, [Next]_vars, NEW e \in Empresas,
           NEW k \in DOMAIN historicoLeiloes[e],
           NEW a, a = historicoLeiloes[e][k]
    PROVE  /\ obj'[a].sucesso = obj[a].sucesso
           /\ Estende(obj[a].licitacoes, obj'[a].licitacoes)
<1>1. TypeOK /\ InvServidor /\ InvFios /\ InvMapas
  BY DEF Indutivo
<1>2. /\ a \in Objs /\ a <= nObj /\ obj[a].tipo = "leilao"
      /\ \A i \in Objs : fio[i].alvo = a => fio[i].pc \notin {"somando", "ordenando"}
  BY ArquivadoIntocado
<1>3. obj[a] \in TipoObjeto /\ obj[a].licitacoes \in Seq(Lics) /\ nObj \in Nat
  BY <1>1, <1>2, ExchangeAssumption DEF TypeOK, TipoObjeto
<1>4. CASE obj'[a] = obj[a]
  BY <1>3, <1>4, EstendeIgual
<1>5. CASE AdicionaLicitacao
  <2>1. nLic + 1 \in Lics
    BY <1>1, <1>5, ExchangeAssumption DEF AdicionaLicitacao, InvServidor, TypeOK, Lics
  <2>2. obj' = [obj EXCEPT ![srv.alvo].licitacoes = Append(@, nLic + 1)]
    BY <1>5 DEF AdicionaLicitacao
  <2>3. /\ obj'[a].sucesso = obj[a].sucesso
        /\ obj'[a].licitacoes \in {obj[a].licitacoes, Append(obj[a].licitacoes, nLic + 1)}
    BY <1>1, <1>2, <1>3, <2>2 DEF TypeOK, TipoObjeto
  <2> QED
    BY <1>3, <2>1, <2>3, EstendeIgual, EstendeAppend
<1>6. CASE leilao \/ CriaEmissao
  <2>1. PICK o : obj' = [obj EXCEPT ![nObj + 1] = o]
    BY <1>6 DEF leilao, CriaEmissao
  <2> QED
    BY <1>1, <1>2, <1>3, <1>4, <2>1 DEF TypeOK
<1>7. ASSUME NEW i \in Objs, DecideLeilao(i) \/ alocaInvestidores(i) \/ DecideEmissao(i)
      PROVE  obj'[a] = obj[a]
  <2>1. fio[i].alvo # a
    BY <1>2, <1>7 DEF DecideLeilao, alocaInvestidores, DecideEmissao
  <2>2. CASE DecideLeilao(i) \/ DecideEmissao(i)
    BY <1>1, <1>2, <2>1, <2>2 DEF DecideLeilao, DecideEmissao, TypeOK
  <2>3. CASE alocaInvestidores(i)
    <3>1. PICK t : obj' \in {obj, [obj EXCEPT ![fio[i].alvo].licitacoes = t]}
      BY <2>3 DEF alocaInvestidores
    <3> QED
      BY <1>1, <1>2, <2>1, <3>1 DEF TypeOK
  <2> QED
    BY <1>7, <2>2, <2>3
<1>8. ASSUME NEW i \in Objs, RemoveEmissao(i) PROVE obj'[a] = obj[a]
  <2> DEFINE b == emissoes[obj[i].empresa]
  <2>1. obj' \in {obj, [obj EXCEPT ![b].sucesso = TRUE]} /\ (b = Nulo => obj' = obj)
    BY <1>8 DEF RemoveEmissao
  <2>2. obj[i].empresa \in Nomes
    BY <1>1 DEF TypeOK, TipoObjeto
  <2>3. b # Nulo => obj[b].tipo = "emissao"
    BY <1>1, <2>2 DEF InvMapas, InvMapa
  <2> HIDE DEF b
  <2>4. b # Nulo => b # a
    BY <1>2, <2>3
  <2> QED
    BY <1>1, <1>2, <2>1, <2>4 DEF TypeOK
<1>9. \/ obj' = obj \/ AdicionaLicitacao \/ leilao \/ CriaEmissao
      \/ \E i \in Objs : DecideLeilao(i) \/ alocaInvestidores(i) \/ DecideEmissao(i)
                           \/ RemoveEmissao(i)
  BY DEF Next, vars, heaps, Recebe, PassoServidor, PassoLocalServidor, Recusa, licitar,
         emprestimo, LeIndices, IniciaTerminaLeilao,
         EmpresaDesconhecida, emissao, LeUltimoLeilao, LeTaxaEmissao,
         ServidorPublica, ServidorPost, PassoFio, PassoLocalFio, RemoveLeilao,
         IniciaTravessia, TravessiaInterrompida, ArquivaLeilao, ArquivaEmissao,
         FioPublica, FioPut
<1> QED
  BY <1>4, <1>5, <1>6, <1>7, <1>8, <1>9

\* Once archived, an auction keeps its verdict and its investors, and histories
\* never lose or reorder an entry, whatever late bids or later closings do.
THEOREM ResultadosDefinitivos == Spec => ResultadoDefinitivo
<1>1. Indutivo /\ [Next]_vars => [PassoDefinitivo]_vars
  BY HistoricosCrescem, ArquivadoDefinitivo DEF PassoDefinitivo
<1> QED
  BY <1>1, IndutivoSempre, PTL DEF Spec, ResultadoDefinitivo
=============================================================================
