---------------------------- MODULE SistemaProofs ----------------------------
(***************************************************************************)
(* Proofs about an exchange and its directory: what the directory shows of *)
(* the auctions, issues and bids of the exchange, whatever is lost and     *)
(* however POSTs and PUTs interleave.                                      *)
(***************************************************************************)
EXTENDS Sistema, ExchangeFimProofs

-----------------------------------------------------------------------------
(* Auctions and issues in one notation: t is the kind, e the company.      *)

\* The kinds, and the directory's list, the exchange's history and its map of each.
Tipos == {"leilao", "emissao"}
Dir(t, e) == IF t = "leilao" THEN dirLeiloes[e] ELSE dirEmissoes[e]
Hist(t, e) == IF t = "leilao" THEN historicoLeiloes[e] ELSE historicoEmissoes[e]
Mapa(t, e) == IF t = "leilao" THEN leiloes[e] ELSE emissoes[e]

\* The request being handled is a bid; the kind of object it is about.
Licita == srv.pedido.tipo \in {"licitar", "emprestimo"}
TipoDoPedido == IF srv.pedido.tipo \in {"leilao", "licitar"} THEN "leilao" ELSE "emissao"

\* Object j has been put in its map and not yet posted.
Pendente(j) == srv.pc \in {"inicia", "publica", "post"} /\ ~ Licita /\ srv.alvo = j

\* Bid b has been added to its list and not yet posted.
PorEnviar(b) == srv.pc \in {"publica", "ids", "post"} /\ Licita /\ b = nLic

\* Object i has kind t and company e, and its closing thread was started.
Iniciado(i, t, e) == fio[i].pc # "nenhum" /\ obj[i].tipo = t /\ obj[i].empresa = e

\* Objects of the same kind and company.
Iguais(i, j) == obj[i].tipo = obj[j].tipo /\ obj[i].empresa = obj[j].empresa

-----------------------------------------------------------------------------
(* The inductive invariant.                                                *)

\* What the directory stores.
TipoLicitacaoDir == [id : Int, taxa : Int, quantia : Int, origem : Nat]

TipoEntrada == [id : Nat, taxa : Int, montante : Int, sucesso : BOOLEAN,
                ativo : BOOLEAN, licitacoes : Seq(TipoLicitacaoDir), origem : Nat]

TiposDir == /\ dirLeiloes \in [Empresas -> Seq(TipoEntrada)]
            /\ dirEmissoes \in [Empresas -> Seq(TipoEntrada)]
            /\ falhou \in BOOLEAN

\* What the server thread knows of the object and the bid it will post.
InvPedido ==
    /\ srv.pc = "inicia" => srv.pedido.tipo = "leilao"
    /\ srv.pc \in {"taxaLeilao", "taxaEmissao", "cria"} => srv.pedido.tipo = "emissao"
    /\ srv.pc \in {"inicia", "add", "publica", "ids", "post"} =>
          /\ srv.pedido.tipo \in {"leilao", "emissao", "licitar", "emprestimo"}
          /\ srv.alvo \in 1 .. nObj
          /\ obj[srv.alvo].tipo = TipoDoPedido
          /\ obj[srv.alvo].empresa = srv.pedido.empresa
          /\ ~ Licita => srv.alvo = nObj
    /\ srv.pc \in {"add", "publica", "ids", "post"} =>
          srv.pedido.empresa \in Empresas /\ fio[srv.alvo].pc # "nenhum"
    /\ srv.pc \in {"publica", "ids", "post"} =>
          IF Licita THEN nLic \in Lics /\ licitacao[nLic].alvo = srv.alvo
                    ELSE srv.idL = fio[srv.alvo].idL

\* The maps hold the latest object of a kind and company, and bids are made to it.
InvUltimos ==
    /\ \A t \in Tipos, e \in Nomes : Mapa(t, e) # Nulo =>
          /\ \A j \in 1 .. nObj : Iguais(j, Mapa(t, e)) => j <= Mapa(t, e)
          /\ fio[Mapa(t, e)].pc = "nenhum" =>
                srv.pc = "morto" \/ (srv.pc = "inicia" /\ srv.alvo = Mapa(t, e))
    /\ srv.pc \in {"add", "publica", "ids", "post"} =>
          \A j \in 1 .. nObj : Iguais(j, srv.alvo) => j <= srv.alvo

\* The index a thread was given: how much of the history there was.
InvIndices ==
    \A t \in Tipos, e \in Empresas, i \in Objs : Iniciado(i, t, e) =>
        /\ fio[i].idL <= Len(Hist(t, e))
        /\ \A j \in Objs : Iniciado(j, t, e) /\ j < i => fio[j].idL <= fio[i].idL

\* A PUT without a list is made from another place than one with a list.
InvPut == \A i \in Objs : fio[i].pc = "put" => ~ fio[i].lista

\* An entry of the directory and the object it is about.
InvEntrada(t, e, x) ==
    /\ x.origem \in 1 .. nObj
    /\ obj[x.origem].tipo = t /\ obj[x.origem].empresa = e
    /\ fio[x.origem].pc # "nenhum" /\ ~ Pendente(x.origem)
    /\ x.id = fio[x.origem].idL /\ x.montante = obj[x.origem].montante

\* Every entry is that of a started object, and entries follow the order of creation.
InvEntradas ==
    \A t \in Tipos, e \in Empresas :
        /\ \A k \in DOMAIN Dir(t, e) : InvEntrada(t, e, Dir(t, e)[k])
        /\ \A k, l \in DOMAIN Dir(t, e) : k < l => Dir(t, e)[k].origem < Dir(t, e)[l].origem

\* As long as no request failed, the entry of each object posted is at its place.
Publicados(t, e) ==
    {j \in 1 .. nObj : obj[j].tipo = t /\ obj[j].empresa = e /\ ~ Pendente(j)}

InvPosicoes ==
    ~ falhou => \A t \in Tipos, e \in Empresas :
        /\ Len(Dir(t, e)) = Cardinality(Publicados(t, e))
        /\ \A j \in Publicados(t, e) :
              /\ Ordem(j) + 1 \in DOMAIN Dir(t, e)
              /\ Dir(t, e)[Ordem(j) + 1].origem = j

\* Without a collision of indices threads close their own objects, one at a time.
InvProprio ==
    \A i \in Objs : fio[i].pc # "nenhum" /\ SemColisao(i) =>
        /\ fio[i].alvo \in {Nulo, i}
        /\ \A j \in Objs : Iguais(i, j) /\ j < i => fio[j].pc # "dorme"

\* The entry of object i when nothing failed.
Entrada(i) == Dir(obj[i].tipo, obj[i].empresa)[Ordem(i) + 1]

\* A finished thread left its verdict in the entry of its object.
InvFechadas ==
    \A i \in Objs : fio[i].pc = "fim" /\ ~ falhou /\ SemColisao(i) =>
        /\ Ordem(i) + 1 \in DOMAIN Dir(obj[i].tipo, obj[i].empresa)
        /\ ~ Entrada(i).ativo /\ Entrada(i).sucesso = obj[i].sucesso

\* The index of a bid about to be posted was read after its object was opened.
InvIndice ==
    srv.pc = "post" /\ Licita => srv.idL >= fio[srv.alvo].idL

\* Bids are listed with the object they were made to.
InvListados ==
    \A a \in 1 .. nObj : \A k \in DOMAIN obj[a].licitacoes :
        obj[a].licitacoes[k] \in 1 .. nLic /\ licitacao[obj[a].licitacoes[k]].alvo = a

\* Bids are made to objects that were posted.
InvVazios ==
    \A j \in 1 .. nObj : Pendente(j) => DOMAIN obj[j].licitacoes = {}

\* What the entry of an object shows: bids made to it, and all those of the list that
\* were posted.
SoSuas(i, s) ==
    \A n \in DOMAIN s : s[n].origem \in 1 .. nLic /\ licitacao[s[n].origem].alvo = i

TodasAsSuas(i, s) ==
    SemTardias(i) => \A b \in Lista(i) : PorEnviar(b) \/ \E n \in DOMAIN s : s[n].origem = b

\* As long as no request failed, an entry shows its own bids and misses none.
InvMostradas ==
    \A i \in 1 .. nObj : fio[i].pc # "nenhum" /\ ~ Pendente(i) /\ ~ falhou /\ SemColisao(i) =>
        SoSuas(i, Entrada(i).licitacoes) /\ TodasAsSuas(i, Entrada(i).licitacoes)

USE DEF Nulo

-----------------------------------------------------------------------------
(* What a step of the exchange keeps.                                      *)

\* A step of the system is one of the exchange, or none of it.
LEMMA PassoDoExchange == [SistemaNext]_sistemaVars => [Next]_vars
  BY DEF SistemaNext, sistemaVars, PassoLocal, PostServidor, PutFio, ReiniciaDiretorio,
         Next, PassoServidor, PassoFio

\* Objects keep kind, company and amount.
LEMMA ObjetosFicam ==
    ASSUME Indutivo, [Next]_vars
    PROVE  /\ nObj \in Nat /\ nObj' \in Nat /\ nObj <= nObj' /\ nObj' <= nObj + 1
           /\ 1 .. nObj \subseteq Objs
           /\ \A i \in 1 .. nObj : /\ obj'[i].tipo = obj[i].tipo
                                   /\ obj'[i].empresa = obj[i].empresa
                                   /\ obj'[i].montante = obj[i].montante
<1>1. /\ nObj \in Nat /\ nObj' \in Nat /\ nObj <= nObj' /\ nObj' <= nObj + 1
      /\ 1 .. nObj \subseteq Objs
  BY ObjetosCrescem
<1>2. ASSUME NEW i \in 1 .. nObj
      PROVE  /\ obj'[i].tipo = obj[i].tipo /\ obj'[i].empresa = obj[i].empresa
             /\ obj'[i].montante = obj[i].montante
  <2>1. i \in Objs /\ i # nObj + 1
    BY <1>1
  <2> QED
    BY <2>1, ObjetoFica
<1> QED
  BY <1>1, <1>2

\* A thread that started goes on, with the index it was given.
LEMMA FioContinua ==
    ASSUME Indutivo, [Next]_vars, NEW i \in Objs, fio[i].pc # "nenhum"
    PROVE  /\ fio'[i].pc # "nenhum" /\ fio'[i].idL = fio[i].idL
           /\ fio[i].pc # "dorme" => fio'[i].pc # "dorme"
<1>1. fio \in [Objs -> TipoFio]
  BY DEF Indutivo, TypeOK
<1>2. CASE UNCHANGED vars
  BY <1>2 DEF vars
<1>3. CASE (\E m \in Mensagens : Recebe(m)) \/ PassoServidor
  BY <1>3, PassoDeServidor
<1>4. ASSUME NEW j \in Objs, PassoFio(j), j # i PROVE fio'[i] = fio[i]
  BY <1>4, PassoDeFio
<1>5. CASE PassoFio(i)
  <2>1. fio'[i].pc \notin {"nenhum", "dorme"}
    BY <1>5, PassoDeFio
  <2>2. fio'[i].idL = fio[i].idL
    <3>1. CASE RemoveLeilao(i) \/ RemoveEmissao(i)
      <4>1. PICK x, b : /\ fio' = [fio EXCEPT ![i].pc = x, ![i].alvo = b]
                        /\ x \in {"morto", "soma", "arquiva"} /\ fio[i].pc = "dorme"
        BY <3>1 DEF RemoveLeilao, RemoveEmissao
      <4> QED
        BY <1>1, <4>1 DEF TipoFio
    <3>2. CASE IniciaTravessia(i)
      <4>1. PICK x, n : fio' = [fio EXCEPT ![i].pc = x, ![i].n = n]
        BY <3>2 DEF IniciaTravessia
      <4> QED
        BY <1>1, <4>1 DEF TipoFio
    <3>3. CASE alocaInvestidores(i)
      <4>1. PICK x : fio' = [fio EXCEPT ![i].pc = "arquiva", ![i].lista = x]
        BY <3>3 DEF alocaInvestidores
      <4> QED
        BY <1>1, <4>1 DEF TipoFio
    <3>4. CASE \/ TravessiaInterrompida(i) \/ DecideLeilao(i) \/ DecideEmissao(i)
               \/ ArquivaLeilao(i) \/ ArquivaEmissao(i) \/ FioPublica(i) \/ FioPut(i)
      <4>1. PICK x : fio' = [fio EXCEPT ![i].pc = x]
        BY <3>4 DEF TravessiaInterrompida, DecideLeilao, DecideEmissao, ArquivaLeilao,
               ArquivaEmissao, FioPublica, FioPut
      <4> QED
        BY <1>1, <4>1 DEF TipoFio
    <3> QED
      BY <1>5, <3>1, <3>2, <3>3, <3>4 DEF PassoFio, PassoLocalFio
  <2> QED
    BY <2>1, <2>2
<1> QED
  BY <1>2, <1>3, <1>4, <1>5 DEF Next

-----------------------------------------------------------------------------
(* What the exchange knows when it calls the directory.                    *)

\* What is known of the object and the bid to be posted is not disturbed by the
\* closing threads.
LEMMA PassoInvPedido ==
    ASSUME Indutivo, InvPedido, InvUltimos, [Next]_vars
    PROVE  InvPedido'
<1>1. TypeOK /\ InvServidor /\ InvMapas /\ srv \in TipoServidor
  BY DEF Indutivo, TypeOK
<1>2. /\ nObj \in Nat /\ nObj' \in Nat /\ nObj <= nObj'
      /\ 1 .. nObj \subseteq Objs /\ 1 .. nObj \subseteq 1 .. nObj'
      /\ \A i \in 1 .. nObj : obj'[i].tipo = obj[i].tipo /\ obj'[i].empresa = obj[i].empresa
  BY ObjetosFicam
<1>3. \A i \in Objs : fio[i].pc # "nenhum" => fio'[i].pc # "nenhum" /\ fio'[i].idL = fio[i].idL
  BY FioContinua
<1>4. ASSUME srv' = srv, nObj' = nObj, UNCHANGED <<licitacao, nLic>> PROVE InvPedido'
  BY <1>2, <1>3, <1>4 DEF InvPedido, TipoDoPedido, Licita
<1>5. CASE UNCHANGED vars
  BY <1>4, <1>5 DEF vars, heaps
<1>6. ASSUME NEW i \in Objs, PassoFio(i) PROVE InvPedido'
  BY <1>4, <1>6, PassoDeFio
<1>7. ASSUME srv'.pc \in {"recv", "despacha", "morto"} PROVE InvPedido'
  BY <1>7 DEF InvPedido
<1>8. CASE \/ \E m \in Mensagens : Recebe(m)
           \/ Recusa \/ EmpresaDesconhecida \/ ServidorPost
  <2>1. CASE \E m \in Mensagens : Recebe(m)
    <3>1. PICK m : srv' = [srv EXCEPT !.pc = "despacha", !.pedido = m]
      BY <2>1 DEF Recebe
    <3> QED
      BY <1>1, <1>7, <3>1 DEF TipoServidor
  <2>2. CASE Recusa \/ EmpresaDesconhecida \/ ServidorPost
    BY <1>7, <2>2 DEF Recusa, EmpresaDesconhecida, ServidorPost, Ocioso
  <2> QED
    BY <1>8, <2>1, <2>2
<1>9. CASE licitar \/ emprestimo
  <2> DEFINE e == srv.pedido.empresa
             t == TipoDoPedido
  <2>1. /\ srv.pc = "despacha" /\ srv.pedido \in Mensagens /\ e \in Nomes
        /\ Mapa(t, e) # Nulo /\ Licita /\ srv.pedido.tipo \in {"licitar", "emprestimo"}
        /\ srv' = [srv EXCEPT !.pc = "add", !.alvo = Mapa(t, e)]
    BY <1>1, <1>9, ExchangeAssumption DEF licitar, emprestimo, AceitaLicitar, AceitaEmprestimo,
       InvServidor, Mapa, TipoDoPedido, Licita
  <2>2. srv'.pc = "add" /\ srv'.alvo = Mapa(t, e) /\ srv'.pedido = srv.pedido /\ t \in Tipos
    BY <1>1, <2>1 DEF TipoServidor, TipoDoPedido, Tipos
  <2>3. /\ Mapa(t, e) \in 1 .. nObj /\ obj[Mapa(t, e)].tipo = t /\ obj[Mapa(t, e)].empresa = e
        /\ e \in Empresas
    BY <1>1, <2>1, <2>2, ExchangeAssumption
    DEF Mapa, InvMapas, InvMapa, TypeOK, Refs, Objs, TipoDoPedido
  <2>4. fio[Mapa(t, e)].pc # "nenhum"
    BY <2>1, <2>2 DEF InvUltimos
  <2>5. UNCHANGED <<obj, nObj, fio>>
    BY <1>9 DEF licitar, emprestimo, heaps
  <2>6. Licita' = Licita /\ TipoDoPedido' = t
    BY <2>2 DEF Licita, TipoDoPedido
  <2> HIDE DEF t
  <2> QED
    BY <2>1, <2>2, <2>3, <2>4, <2>5, <2>6 DEF InvPedido
<1>10. CASE AdicionaLicitacao
  <2>1. /\ srv'.pc = "publica" /\ srv'.alvo = srv.alvo /\ srv'.pedido = srv.pedido
        /\ srv.pc = "add" /\ nObj' = nObj
    BY <1>1, <1>10 DEF AdicionaLicitacao, TipoServidor
  <2>2. /\ nLic' \in Lics /\ licitacao'[nLic'].alvo = srv.alvo
    BY <1>10, EfeitoAdiciona
  <2>3. Licita
    BY <1>1, <2>1 DEF InvServidor, Licita
  <2> QED
    BY <1>2, <1>3, <2>1, <2>2, <2>3 DEF InvPedido, Licita, TipoDoPedido
<1>11. CASE LeIndices
  <2>1. /\ srv'.pc = "post" /\ srv'.alvo = srv.alvo /\ srv'.pedido = srv.pedido
        /\ srv.pc = "ids" /\ UNCHANGED <<obj, nObj, licitacao, nLic, fio>>
    BY <1>1, <1>11 DEF LeIndices, TipoServidor, heaps
  <2>2. Licita
    BY <1>1, <2>1 DEF InvServidor, Licita
  <2> QED
    BY <2>1, <2>2 DEF InvPedido, Licita, TipoDoPedido
<1>12. CASE ServidorPublica
  <2>1. /\ srv'.pc \in {"ids", "post"} /\ srv'.alvo = srv.alvo /\ srv'.pedido = srv.pedido
        /\ srv'.idL = srv.idL
        /\ srv.pc = "publica" /\ UNCHANGED <<obj, nObj, licitacao, nLic, fio>>
    <3>1. PICK x \in {"ids", "post"} : srv' = [srv EXCEPT !.pc = x]
      BY <1>12 DEF ServidorPublica
    <3> QED
      BY <1>1, <1>12, <3>1 DEF ServidorPublica, TipoServidor, heaps
  <2> QED
    BY <2>1 DEF InvPedido, Licita, TipoDoPedido
<1>13. CASE leilao
  <2>1. /\ srv'.pc = "inicia" /\ srv'.alvo = nObj + 1 /\ srv'.pedido = srv.pedido
        /\ srv.pedido.tipo = "leilao" /\ nObj' = nObj + 1
    BY <1>1, <1>13 DEF leilao, AceitaLeilao, TipoServidor
  <2>2. nObj + 1 \in Objs
    BY <1>1, <1>2, <1>13, ExchangeAssumption DEF leilao, AceitaLeilao, InvServidor, Objs
  <2>3. obj'[nObj + 1].tipo = "leilao" /\ obj'[nObj + 1].empresa = srv.pedido.empresa
    BY <1>1, <1>13, <2>2 DEF leilao, TypeOK, Leilao, Objeto
  <2> QED
    BY <1>2, <2>1, <2>2, <2>3 DEF InvPedido, Licita, TipoDoPedido
<1>14. CASE IniciaTerminaLeilao
  <2>1. /\ srv'.pc = "publica" /\ srv'.alvo = srv.alvo /\ srv'.pedido = srv.pedido
        /\ srv.pc = "inicia" /\ UNCHANGED <<obj, nObj>> /\ srv.pedido.empresa \in Empresas
    BY <1>1, <1>14 DEF IniciaTerminaLeilao, TipoServidor, heaps
  <2>2. fio'[srv.alvo].pc = "dorme" /\ fio'[srv.alvo].idL = srv'.idL
    <3>1. srv.alvo \in Objs
      BY <1>1, <2>1 DEF InvServidor
    <3> QED
      BY <1>1, <1>14, <3>1 DEF IniciaTerminaLeilao, TipoServidor, TypeOK, PorIniciar
  <2>3. srv.pedido.tipo = "leilao"
    BY <2>1 DEF InvPedido
  <2> QED
    BY <2>1, <2>2, <2>3 DEF InvPedido, Licita, TipoDoPedido
<1>15. CASE emissao
  <2>1. srv'.pc = "taxaLeilao" /\ srv'.pedido = srv.pedido /\ srv.pedido.tipo = "emissao"
    BY <1>1, <1>15 DEF emissao, AceitaEmissao, TipoServidor
  <2> QED
    BY <2>1 DEF InvPedido
<1>16. CASE LeUltimoLeilao \/ LeTaxaEmissao
  <2>1. /\ srv'.pc \in {"taxaEmissao", "cria"} /\ srv'.pedido = srv.pedido
        /\ srv.pc \in {"taxaLeilao", "taxaEmissao"}
    BY <1>1, <1>16 DEF LeUltimoLeilao, LeTaxaEmissao, TipoServidor
  <2> QED
    BY <2>1 DEF InvPedido
<1>17. CASE CriaEmissao
  <2>1. /\ srv'.pc = "publica" /\ srv'.alvo = nObj + 1 /\ srv'.pedido = srv.pedido
        /\ srv.pc = "cria" /\ nObj' = nObj + 1 /\ srv.pedido.empresa \in Empresas
    BY <1>1, <1>17 DEF CriaEmissao, TipoServidor, InvServidor
  <2>2. nObj + 1 \in Objs
    BY <1>1, <1>2, <2>1, ExchangeAssumption DEF InvServidor, Objs
  <2>3. obj'[nObj + 1].tipo = "emissao" /\ obj'[nObj + 1].empresa = srv.pedido.empresa
    BY <1>1, <1>17, <2>2 DEF CriaEmissao, TypeOK, Emissao, Objeto
  <2>4. fio'[nObj + 1].pc = "dorme" /\ fio'[nObj + 1].idL = srv'.idL
    BY <1>1, <1>17, <2>2 DEF CriaEmissao, TipoServidor, TypeOK, PorIniciar
  <2>5. srv.pedido.tipo = "emissao"
    BY <2>1 DEF InvPedido
  <2> QED
    BY <1>2, <2>1, <2>2, <2>3, <2>4, <2>5 DEF InvPedido, Licita, TipoDoPedido
<1> QED
  BY <1>5, <1>6, <1>8, <1>9, <1>10, <1>11, <1>12, <1>13, <1>14, <1>15, <1>16, <1>17
  DEF Next, PassoServidor, PassoLocalServidor

\* The objects of the maps, and the one a bid is made to, stay the latest of their
\* kind and company.
LEMMA PassoInvUltimos ==
    ASSUME Indutivo, InvPedido, InvUltimos, [Next]_vars
    PROVE  InvUltimos'
<1>1. TypeOK /\ InvServidor /\ InvMapas /\ srv \in TipoServidor
  BY DEF Indutivo, TypeOK
<1>2. /\ nObj \in Nat /\ nObj' \in Nat /\ nObj <= nObj'
      /\ 1 .. nObj \subseteq Objs
      /\ \A i \in 1 .. nObj : obj'[i].tipo = obj[i].tipo /\ obj'[i].empresa = obj[i].empresa
  BY ObjetosFicam
<1>3. \A i \in Objs : fio[i].pc # "nenhum" => fio'[i].pc # "nenhum"
  BY FioContinua
<1>4. ASSUME NEW t \in Tipos, NEW e \in Nomes, Mapa(t, e) # Nulo
      PROVE  Mapa(t, e) \in 1 .. nObj /\ obj[Mapa(t, e)].tipo = t /\ obj[Mapa(t, e)].empresa = e
  BY <1>1, <1>4, ExchangeAssumption DEF Tipos, Mapa, InvMapas, InvMapa, TypeOK, Refs, Objs
<1> DEFINE Bom(t, e) == Mapa(t, e) # Nulo =>
              /\ \A j \in 1 .. nObj : Iguais(j, Mapa(t, e)) => j <= Mapa(t, e)
              /\ fio[Mapa(t, e)].pc = "nenhum" =>
                    srv.pc = "morto" \/ (srv.pc = "inicia" /\ srv.alvo = Mapa(t, e))
           BomAlvo == srv.pc \in {"add", "publica", "ids", "post"} =>
                         \A j \in 1 .. nObj : Iguais(j, srv.alvo) => j <= srv.alvo
\* What a step that builds no object keeps.
<1>5. ASSUME nObj' = nObj, NEW t \in Tipos, NEW e \in Nomes, Mapa(t, e)' \in {Mapa(t, e), Nulo},
             \/ srv' = srv \/ srv'.pc = "morto"
             \/ srv.pc \notin {"inicia", "morto"}
             \/ srv.pc = "inicia" /\ fio'[srv.alvo].pc # "nenhum"
      PROVE  Bom(t, e)'
  <2> SUFFICES ASSUME Mapa(t, e)' # Nulo PROVE Bom(t, e)'
    OBVIOUS
  <2>1. PICK a \in 1 .. nObj : a = Mapa(t, e) /\ Mapa(t, e)' = a /\ a # Nulo /\ a \in Objs
    BY <1>2, <1>4, <1>5
  <2>2. /\ \A j \in 1 .. nObj : Iguais(j, a) => j <= a
        /\ fio[a].pc = "nenhum" => srv.pc = "morto" \/ (srv.pc = "inicia" /\ srv.alvo = a)
    BY <1>5, <2>1 DEF InvUltimos
  <2>3. \A j \in 1 .. nObj : Iguais(j, a)' => j <= a
    BY <1>2, <2>2 DEF Iguais
  <2>4. fio'[a].pc = "nenhum" => srv'.pc = "morto" \/ (srv'.pc = "inicia" /\ srv'.alvo = a)
    BY <1>3, <1>5, <2>1, <2>2
  <2> QED
    BY <1>5, <2>1, <2>3, <2>4
<1>6. ASSUME nObj' = nObj, srv'.alvo = srv.alvo, srv.pc \in {"add", "publica", "ids", "inicia"}
      PROVE  BomAlvo'
  <2>1. srv.alvo \in 1 .. nObj
    BY <1>6 DEF InvPedido
  <2>2. \A j \in 1 .. nObj : Iguais(j, srv.alvo) => j <= srv.alvo
    <3>1. CASE srv.pc = "inicia"
      <4>1. srv.alvo = nObj
        BY <3>1 DEF InvPedido, Licita
      <4> QED
        BY <1>2, <4>1
    <3>2. CASE srv.pc # "inicia"
      BY <1>6, <3>2 DEF InvUltimos
    <3> QED
      BY <3>1, <3>2
  <2> QED
    BY <1>2, <1>6, <2>1, <2>2 DEF Iguais
<1>7. CASE UNCHANGED vars
  BY <1>7 DEF InvUltimos, vars, heaps, mapas, Mapa, Iguais
<1>8. ASSUME NEW i \in Objs, PassoFio(i) PROVE InvUltimos'
  <2>1. srv' = srv /\ nObj' = nObj
    BY <1>8, PassoDeFio
  <2>2. ASSUME NEW t \in Tipos, NEW e \in Nomes PROVE Mapa(t, e)' \in {Mapa(t, e), Nulo}
    <3>1. leiloes' = leiloes \/ leiloes' = [leiloes EXCEPT ![obj[i].empresa] = Nulo]
      BY <1>8 DEF PassoFio, PassoLocalFio, RemoveLeilao, RemoveEmissao, IniciaTravessia,
         TravessiaInterrompida, DecideLeilao, alocaInvestidores, DecideEmissao, ArquivaLeilao,
         ArquivaEmissao, FioPublica, FioPut, mapas
    <3>2. emissoes' = emissoes \/ emissoes' = [emissoes EXCEPT ![obj[i].empresa] = Nulo]
      BY <1>8 DEF PassoFio, PassoLocalFio, RemoveLeilao, RemoveEmissao, IniciaTravessia,
         TravessiaInterrompida, DecideLeilao, alocaInvestidores, DecideEmissao, ArquivaLeilao,
         ArquivaEmissao, FioPublica, FioPut, mapas
    <3> QED
      BY <1>1, <3>1, <3>2 DEF Mapa, TypeOK
  <2>3. \A t \in Tipos, e \in Nomes : Bom(t, e)'
    BY <1>5, <2>1, <2>2
  <2>4. BomAlvo'
    <3> SUFFICES ASSUME srv.pc \in {"add", "publica", "ids", "post"} PROVE BomAlvo'
      BY <2>1
    <3>1. srv.alvo \in 1 .. nObj /\ \A j \in 1 .. nObj : Iguais(j, srv.alvo) => j <= srv.alvo
      BY DEF InvPedido, InvUltimos
    <3> QED
      BY <1>2, <2>1, <3>1 DEF Iguais
  <2> QED
    BY <2>3, <2>4 DEF InvUltimos
<1>9. CASE leilao \/ CriaEmissao
  <2> DEFINE n == nObj + 1
             u == srv.pedido.empresa
  <2>1. /\ nObj' = n /\ srv'.alvo = n /\ u \in Nomes /\ n \in Objs
        /\ leilao => srv'.pc = "inicia" /\ srv.pc = "despacha"
        /\ CriaEmissao => srv.pc = "cria" /\ fio'[n].pc # "nenhum"
    <3>1. srv.pedido \in Mensagens /\ nObj < MaxObj
      BY <1>1, <1>9 DEF leilao, AceitaLeilao, CriaEmissao, InvServidor
    <3>2. u \in Nomes /\ n \in Objs
      BY <1>2, <3>1, ExchangeAssumption DEF Objs
    <3>3. CASE leilao
      BY <1>1, <3>2, <3>3 DEF leilao, TipoServidor, CriaEmissao
    <3>4. CASE CriaEmissao
      <4>1. srv'.alvo = n /\ nObj' = n /\ srv.pc = "cria"
        BY <1>1, <3>4 DEF CriaEmissao, TipoServidor
      <4>2. fio'[n].pc = "dorme"
        BY <1>1, <3>2, <3>4 DEF CriaEmissao, TypeOK, PorIniciar
      <4> QED
        BY <3>2, <4>1, <4>2 DEF leilao
    <3> QED
      BY <1>9, <3>3, <3>4
  <2>2. /\ obj'[n].tipo = IF leilao THEN "leilao" ELSE "emissao"
        /\ obj'[n].empresa = u
    <3>1. CASE leilao
      BY <1>1, <2>1, <3>1 DEF leilao, TypeOK, Leilao, Objeto
    <3>2. CASE ~ leilao
      BY <1>1, <1>9, <2>1, <3>2 DEF CriaEmissao, TypeOK, Emissao, Objeto
    <3> QED
      BY <3>1, <3>2
  <2> DEFINE k == IF leilao THEN "leilao" ELSE "emissao"
  <2>3. ASSUME NEW t \in Tipos, NEW e \in Nomes
        PROVE  IF t = k /\ e = u THEN Mapa(t, e)' = n ELSE Mapa(t, e)' = Mapa(t, e)
    <3>1. CASE leilao
      BY <1>1, <2>1, <3>1 DEF Mapa, leilao, TypeOK, Tipos
    <3>2. CASE ~ leilao
      BY <1>1, <1>9, <2>1, <3>2 DEF Mapa, CriaEmissao, TypeOK, Tipos
    <3> QED
      BY <3>1, <3>2
  <2> HIDE DEF k
  <2>4. ASSUME NEW t \in Tipos, NEW e \in Nomes PROVE Bom(t, e)'
    <3>1. CASE t = k /\ e = u
      <4>1. Mapa(t, e)' = n
        BY <2>3, <3>1
      <4>2. \A j \in 1 .. nObj' : j <= n
        BY <1>2, <2>1
      <4>3. fio'[n].pc = "nenhum" => srv'.pc = "inicia" /\ srv'.alvo = n
        BY <1>9, <2>1
      <4> QED
        BY <4>1, <4>2, <4>3
    <3>2. CASE ~ (t = k /\ e = u)
      <4> SUFFICES ASSUME Mapa(t, e)' # Nulo PROVE Bom(t, e)'
        OBVIOUS
      <4>1. PICK a \in 1 .. nObj : /\ a = Mapa(t, e) /\ Mapa(t, e)' = a /\ a # Nulo
                                   /\ obj[a].tipo = t /\ obj[a].empresa = e
        BY <1>4, <2>3, <3>2
      <4>2. \A j \in 1 .. nObj : Iguais(j, a) => j <= a
        BY <4>1 DEF InvUltimos
      <4>3. fio[a].pc # "nenhum"
        BY <1>9, <2>1, <4>1 DEF InvUltimos
      <4>4. \A j \in 1 .. nObj : Iguais(j, a)' => j <= a
        BY <1>2, <4>2 DEF Iguais
      <4>5. ~ (obj'[n].tipo = obj'[a].tipo /\ obj'[n].empresa = obj'[a].empresa)
        BY <1>2, <2>2, <3>2, <4>1 DEF k
      <4>6. \A j \in 1 .. nObj' : Iguais(j, a)' => j <= a
        <5>1. \A j \in 1 .. nObj' : j \in 1 .. nObj \/ j = n
          BY <1>2, <2>1
        <5> QED
          BY <4>4, <4>5, <5>1 DEF Iguais
      <4>7. fio'[a].pc # "nenhum"
        BY <1>2, <1>3, <4>3
      <4> QED
        BY <4>1, <4>6, <4>7
    <3> QED
      BY <3>1, <3>2
  <2>5. BomAlvo'
    <3>1. \A j \in 1 .. nObj' : j <= n
      BY <1>2, <2>1
    <3> QED
      BY <2>1, <3>1
  <2> QED
    BY <2>4, <2>5 DEF InvUltimos
<1>10. CASE /\ (\E m \in Mensagens : Recebe(m)) \/ PassoServidor
            /\ ~ (leilao \/ CriaEmissao)
  <2>1. nObj' = nObj /\ \A t \in Tipos, e \in Nomes : Mapa(t, e)' = Mapa(t, e)
    BY <1>10 DEF Recebe, PassoServidor, PassoLocalServidor, Recusa, licitar, AdicionaLicitacao,
       emprestimo, LeIndices, IniciaTerminaLeilao, EmpresaDesconhecida, emissao, LeUltimoLeilao,
       LeTaxaEmissao, ServidorPublica, ServidorPost, heaps, mapas, Mapa
  <2>2. \/ srv'.pc = "morto"
        \/ srv.pc \notin {"inicia", "morto"}
        \/ srv.pc = "inicia" /\ fio'[srv.alvo].pc # "nenhum"
    <3>1. CASE EmpresaDesconhecida
      BY <3>1 DEF EmpresaDesconhecida, Ocioso
    <3>2. CASE IniciaTerminaLeilao
      <4>1. srv.alvo \in Objs
        BY <1>1, <3>2 DEF IniciaTerminaLeilao, InvServidor
      <4>2. fio'[srv.alvo].pc = "dorme"
        BY <1>1, <3>2, <4>1 DEF IniciaTerminaLeilao, TypeOK, PorIniciar
      <4> QED
        BY <3>2, <4>2 DEF IniciaTerminaLeilao
    <3>3. CASE ~ EmpresaDesconhecida /\ ~ IniciaTerminaLeilao
      BY <1>10, <3>3 DEF Recebe, PassoServidor, PassoLocalServidor, Recusa, licitar,
         AdicionaLicitacao, emprestimo, LeIndices, emissao, LeUltimoLeilao,
         LeTaxaEmissao, ServidorPublica, ServidorPost
    <3> QED
      BY <3>1, <3>2, <3>3
  <2>3. \A t \in Tipos, e \in Nomes : Bom(t, e)'
    BY <1>5, <2>1, <2>2
  <2>4. BomAlvo'
    <3>1. CASE licitar \/ emprestimo
      <4> DEFINE e == srv.pedido.empresa
                 t == TipoDoPedido
      <4>1. /\ srv.pc = "despacha" /\ srv.pedido \in Mensagens /\ e \in Nomes
            /\ Mapa(t, e) # Nulo
            /\ srv' = [srv EXCEPT !.pc = "add", !.alvo = Mapa(t, e)]
        BY <1>1, <3>1, ExchangeAssumption DEF licitar, emprestimo, AceitaLicitar, AceitaEmprestimo,
           InvServidor, Mapa, TipoDoPedido
      <4>2. srv'.alvo = Mapa(t, e) /\ t \in Tipos /\ obj' = obj
        BY <1>1, <3>1, <4>1 DEF TipoServidor, TipoDoPedido, Tipos, licitar, emprestimo, heaps
      <4> HIDE DEF t
      <4>3. \A j \in 1 .. nObj : Iguais(j, Mapa(t, e)) => j <= Mapa(t, e)
        BY <4>1, <4>2 DEF InvUltimos
      <4> QED
        BY <2>1, <4>2, <4>3 DEF Iguais
    <3>2. CASE AdicionaLicitacao \/ LeIndices \/ IniciaTerminaLeilao
      <4>1. srv'.alvo = srv.alvo /\ srv.pc \in {"add", "publica", "ids", "inicia"}
        BY <1>1, <3>2 DEF AdicionaLicitacao, LeIndices, IniciaTerminaLeilao, TipoServidor
      <4> QED
        BY <1>6, <2>1, <4>1
    <3>3. CASE ServidorPublica
      <4>1. PICK x : srv' = [srv EXCEPT !.pc = x] /\ srv.pc = "publica"
        BY <3>3 DEF ServidorPublica
      <4>2. srv'.alvo = srv.alvo
        BY <1>1, <4>1 DEF TipoServidor
      <4> QED
        BY <1>6, <2>1, <4>1, <4>2
    <3>4. CASE \E m \in Mensagens : Recebe(m)
      <4>1. PICK m : srv' = [srv EXCEPT !.pc = "despacha", !.pedido = m]
        BY <3>4 DEF Recebe
      <4> QED
        BY <1>1, <4>1 DEF TipoServidor
    <3>5. CASE Recusa \/ EmpresaDesconhecida \/ ServidorPost
      BY <3>5 DEF Recusa, EmpresaDesconhecida, ServidorPost, Ocioso
    <3>6. CASE emissao \/ LeUltimoLeilao \/ LeTaxaEmissao
      <4>1. srv'.pc \in {"taxaLeilao", "taxaEmissao", "cria"}
        BY <1>1, <3>6 DEF emissao, LeUltimoLeilao, LeTaxaEmissao, TipoServidor
      <4> QED
        BY <4>1
    <3> QED
      BY <1>10, <3>1, <3>2, <3>3, <3>4, <3>5, <3>6 DEF PassoServidor, PassoLocalServidor
  <2> QED
    BY <2>3, <2>4 DEF InvUltimos
<1> QED
  BY <1>7, <1>8, <1>9, <1>10 DEF Next

\* Histories only grow.
LEMMA HistCresce ==
    ASSUME Indutivo, [Next]_vars, NEW t \in Tipos, NEW e \in Empresas
    PROVE  /\ Len(Hist(t, e)) \in Nat /\ Len(Hist(t, e)') \in Nat
           /\ Len(Hist(t, e)) <= Len(Hist(t, e)')
<1>1. Indutivo'
  BY PassoIndutivo
<1>2. Hist(t, e) \in Seq(Objs) /\ Hist(t, e)' \in Seq(Objs)
  BY <1>1 DEF Indutivo, TypeOK, Hist
<1>3. Len(Hist(t, e)) <= Len(Hist(t, e)')
  BY HistoricosCrescem DEF Estende, Hist
<1> QED
  BY <1>2, <1>3

\* What is started stays so; a new thread is that of the latest object and is given
\* the length of the history as its index.
LEMMA IniciadoMuda ==
    ASSUME Indutivo, InvPedido, [Next]_vars, NEW t \in Tipos, NEW e \in Empresas, NEW i \in Objs
    PROVE  /\ Iniciado(i, t, e) => /\ i \in 1 .. nObj /\ Iniciado(i, t, e)'
                                   /\ fio'[i].idL = fio[i].idL /\ fio[i].idL \in Nat
           /\ Iniciado(i, t, e)' =>
                 \/ Iniciado(i, t, e)
                 \/ /\ fio[i].pc = "nenhum" /\ i = nObj' /\ fio'[i].idL = Len(Hist(t, e))
                    /\ fio'[i].pc = "dorme" /\ fio'[i].alvo = Nulo
                    /\ (IniciaTerminaLeilao /\ t = "leilao") \/ (CriaEmissao /\ t = "emissao")
                    /\ srv.pedido.empresa = e
<1>1. TypeOK /\ InvFios /\ InvServidor /\ srv \in TipoServidor /\ fio \in [Objs -> TipoFio]
  BY DEF Indutivo, TypeOK
<1>2. /\ nObj \in Nat /\ nObj' \in Nat /\ nObj <= nObj' /\ 1 .. nObj \subseteq Objs
      /\ \A j \in 1 .. nObj : obj'[j].tipo = obj[j].tipo /\ obj'[j].empresa = obj[j].empresa
  BY ObjetosFicam
<1>3. fio[i].pc # "nenhum" =>
         i \in 1 .. nObj /\ fio'[i].idL = fio[i].idL /\ fio[i].idL \in Nat /\ fio'[i].pc # "nenhum"
  BY <1>1, <1>2, FioContinua, ExchangeAssumption DEF InvFios, InvFio, Objs, TipoFio
<1>4. Iniciado(i, t, e) => /\ i \in 1 .. nObj /\ Iniciado(i, t, e)'
                           /\ fio'[i].idL = fio[i].idL /\ fio[i].idL \in Nat
  BY <1>2, <1>3 DEF Iniciado
<1>5. ASSUME Iniciado(i, t, e)', ~ Iniciado(i, t, e)
      PROVE  /\ fio[i].pc = "nenhum" /\ i = nObj' /\ fio'[i].idL = Len(Hist(t, e))
             /\ fio'[i].pc = "dorme" /\ fio'[i].alvo = Nulo
             /\ (IniciaTerminaLeilao /\ t = "leilao") \/ (CriaEmissao /\ t = "emissao")
             /\ srv.pedido.empresa = e
  <2>1. fio[i].pc = "nenhum" /\ fio'[i].pc # "nenhum"
    BY <1>2, <1>3, <1>5 DEF Iniciado
  <2>2. (\E m \in Mensagens : Recebe(m)) \/ PassoServidor
    <3>1. CASE UNCHANGED vars
      BY <2>1, <3>1 DEF vars
    <3>2. ASSUME NEW j \in Objs, PassoFio(j) PROVE FALSE
      BY <2>1, <3>2, PassoDeFio
    <3> QED
      BY <3>1, <3>2 DEF Next
  <2>3. /\ (IniciaTerminaLeilao /\ i = srv.alvo) \/ (CriaEmissao /\ i = nObj + 1)
        /\ fio'[i].pc = "dorme" /\ fio'[i].alvo = Nulo
    BY <2>1, <2>2, PassoDeServidor
  <2>4. CASE IniciaTerminaLeilao /\ i = srv.alvo
    <3>1. srv.pc = "inicia" /\ UNCHANGED <<obj, nObj>>
      BY <2>4 DEF IniciaTerminaLeilao, heaps
    <3>2. i = nObj /\ obj[i].tipo = "leilao" /\ obj[i].empresa = srv.pedido.empresa
      BY <2>4, <3>1 DEF InvPedido, Licita, TipoDoPedido
    <3>3. t = "leilao" /\ e = srv.pedido.empresa
      BY <1>5, <3>1, <3>2 DEF Iniciado
    <3>4. fio'[i].idL = Len(historicoLeiloes[e])
      BY <1>1, <2>4, <3>3 DEF IniciaTerminaLeilao, PorIniciar
    <3> QED
      BY <2>1, <2>3, <2>4, <3>1, <3>2, <3>3, <3>4 DEF Hist
  <2>5. CASE CriaEmissao /\ i = nObj + 1
    <3>1. nObj' = i
      BY <2>5 DEF CriaEmissao
    <3>2. obj'[i].tipo = "emissao" /\ obj'[i].empresa = srv.pedido.empresa
      BY <1>1, <2>5 DEF CriaEmissao, TypeOK, Emissao, Objeto
    <3>3. t = "emissao" /\ e = srv.pedido.empresa
      BY <1>5, <3>2 DEF Iniciado
    <3>4. fio'[i].idL = Len(historicoEmissoes[e])
      BY <1>1, <2>5, <3>3 DEF CriaEmissao, PorIniciar
    <3> QED
      BY <2>1, <2>3, <2>5, <3>1, <3>3, <3>4 DEF Hist
  <2> QED
    BY <2>3, <2>4, <2>5
<1> QED
  BY <1>4, <1>5

\* No index given before exceeds the length of the history.
LEMMA PassoInvIndices ==
    ASSUME Indutivo, InvPedido, InvIndices, [Next]_vars
    PROVE  InvIndices'
<1> SUFFICES ASSUME NEW t \in Tipos, NEW e \in Empresas, NEW i \in Objs, Iniciado(i, t, e)'
             PROVE  /\ fio'[i].idL <= Len(Hist(t, e)')
                    /\ \A j \in Objs : Iniciado(j, t, e)' /\ j < i => fio'[j].idL <= fio'[i].idL
  BY DEF InvIndices
<1>1. Len(Hist(t, e)) \in Nat /\ Len(Hist(t, e)') \in Nat /\ Len(Hist(t, e)) <= Len(Hist(t, e)')
  BY HistCresce
<1>2. nObj \in Nat /\ nObj' \in Nat /\ nObj <= nObj'
  BY ObjetosFicam
<1>3. CASE Iniciado(i, t, e)
  <2>1. i \in 1 .. nObj /\ fio'[i].idL = fio[i].idL /\ fio[i].idL \in Nat
    BY <1>3, IniciadoMuda
  <2>2. fio[i].idL <= Len(Hist(t, e))
    BY <1>3 DEF InvIndices
  <2>3. ASSUME NEW j \in Objs, Iniciado(j, t, e)', j < i PROVE fio'[j].idL <= fio'[i].idL
    <3>1. j # nObj'
      BY <1>2, <2>1, <2>3
    <3>2. Iniciado(j, t, e) /\ fio'[j].idL = fio[j].idL
      BY <2>3, <3>1, IniciadoMuda
    <3> QED
      BY <1>3, <2>1, <2>3, <3>2 DEF InvIndices
  <2> QED
    BY <1>1, <2>1, <2>2, <2>3
<1>4. CASE ~ Iniciado(i, t, e)
  <2>1. i = nObj' /\ fio'[i].idL = Len(Hist(t, e))
    BY <1>4, IniciadoMuda
  <2>2. ASSUME NEW j \in Objs, Iniciado(j, t, e)', j < i PROVE fio'[j].idL <= fio'[i].idL
    <3>1. j # nObj'
      BY <1>2, <2>1, <2>2
    <3>2. Iniciado(j, t, e) /\ fio'[j].idL = fio[j].idL
      BY <2>2, <3>1, IniciadoMuda
    <3> QED
      BY <2>1, <3>2 DEF InvIndices
  <2> QED
    BY <1>1, <2>1, <2>2
<1> QED
  BY <1>3, <1>4

\* Selection marks a thread before it archives, and only an unmarked auction's thread,
\* or an issue's, goes straight to its PUT.
LEMMA PassoInvPut ==
    ASSUME Indutivo, InvSelecao, InvPut, [Next]_vars
    PROVE  InvPut'
<1>1. TypeOK /\ fio \in [Objs -> TipoFio]
  BY DEF Indutivo, TypeOK
<1> SUFFICES ASSUME NEW i \in Objs, fio'[i].pc = "put" PROVE ~ fio'[i].lista
  BY DEF InvPut
<1>2. ASSUME fio'[i] = fio[i] PROVE ~ fio'[i].lista
  BY <1>2 DEF InvPut
<1>3. CASE UNCHANGED vars
  BY <1>2, <1>3 DEF vars
<1>4. CASE (\E m \in Mensagens : Recebe(m)) \/ PassoServidor
  BY <1>2, <1>4, PassoDeServidor
<1>5. ASSUME NEW j \in Objs, PassoFio(j), j # i PROVE ~ fio'[i].lista
  BY <1>2, <1>5, PassoDeFio
<1>6. CASE PassoFio(i)
  <2>1. ~ alocaInvestidores(i)
    BY EfeitoAloca
  <2>2. fio'[i].lista = fio[i].lista
    BY <1>6, <2>1, CaminhoDoFio
  <2>3. CASE FioPublica(i)
    <3>1. fio'[i].pc = IF obj[i].tipo = "emissao" THEN "soma"
                       ELSE IF fio[i].lista THEN "json" ELSE "put"
      BY <1>1, <2>3 DEF FioPublica
    <3> QED
      BY <2>2, <3>1
  <2>4. CASE DecideEmissao(i)
    <3>1. fio[i].pc = "somando"
      BY <2>4 DEF DecideEmissao
    <3> QED
      BY <2>2, <3>1 DEF InvSelecao
  <2>5. ~ (RemoveLeilao(i) \/ RemoveEmissao(i))
    <3> SUFFICES ASSUME RemoveLeilao(i) \/ RemoveEmissao(i) PROVE FALSE
      OBVIOUS
    <3>1. PICK x, b : /\ fio' = [fio EXCEPT ![i].pc = x, ![i].alvo = b]
                      /\ x \in {"morto", "soma", "arquiva"} /\ fio[i].pc = "dorme"
      BY DEF RemoveLeilao, RemoveEmissao
    <3> QED
      BY <1>1, <3>1 DEF TipoFio
  <2>6. ~ IniciaTravessia(i)
    BY <1>1, EfeitoTravessia
  <2>7. ~ DecideLeilao(i)
    <3> SUFFICES ASSUME DecideLeilao(i) PROVE FALSE
      OBVIOUS
    <3>1. PICK x \in {"ordena", "arquiva"} : fio' = [fio EXCEPT ![i].pc = x]
      BY DEF DecideLeilao
    <3> QED
      BY <1>1, <3>1 DEF TipoFio
  <2>8. ~ (TravessiaInterrompida(i) \/ ArquivaLeilao(i) \/ ArquivaEmissao(i) \/ FioPut(i))
    BY <1>1 DEF TravessiaInterrompida, ArquivaLeilao, ArquivaEmissao, FioPut, TipoFio
  <2> QED
    BY <1>6, <2>1, <2>3, <2>4, <2>5, <2>6, <2>7, <2>8 DEF PassoFio, PassoLocalFio
<1> QED
  BY <1>3, <1>4, <1>5, <1>6 DEF Next

\* LeIndices() reads the length of the history after the object was opened.
LEMMA PassoInvIndice ==
    ASSUME Indutivo, InvPedido, InvIndices, InvIndice, [Next]_vars
    PROVE  InvIndice'
<1>1. TypeOK /\ InvServidor /\ srv \in TipoServidor
  BY DEF Indutivo, TypeOK
<1> SUFFICES ASSUME srv'.pc = "post", Licita' PROVE srv'.idL >= fio'[srv'.alvo].idL
  BY DEF InvIndice
<1>2. CASE srv' = srv
  <2>1. srv.pc = "post" /\ Licita
    BY <1>2 DEF Licita
  <2>2. srv.alvo \in Objs /\ fio[srv.alvo].pc # "nenhum"
    BY <2>1, ObjetosFicam DEF InvPedido
  <2> QED
    BY <1>2, <2>1, <2>2, FioContinua DEF InvIndice
<1>3. CASE LeIndices
  <2>1. srv.pc = "ids" /\ srv'.alvo = srv.alvo /\ fio' = fio
    BY <1>1, <1>3 DEF LeIndices, TipoServidor
  <2>2. /\ srv.alvo \in Objs /\ obj[srv.alvo].tipo \in Tipos /\ srv.pedido.empresa \in Empresas
        /\ Iniciado(srv.alvo, obj[srv.alvo].tipo, srv.pedido.empresa)
    BY <2>1, ObjetosFicam DEF InvPedido, Iniciado, TipoDoPedido, Tipos
  <2>3. srv'.idL = Len(Hist(obj[srv.alvo].tipo, srv.pedido.empresa))
    BY <1>1, <1>3 DEF LeIndices, TipoServidor, Hist
  <2>4. fio[srv.alvo].idL <= Len(Hist(obj[srv.alvo].tipo, srv.pedido.empresa))
    BY <2>2 DEF InvIndices
  <2>5. fio[srv.alvo].idL \in Nat /\ srv'.idL \in Nat
    <3>1. Indutivo'
      BY PassoIndutivo
    <3> QED
      BY <1>1, <2>2, <3>1 DEF Indutivo, TypeOK, TipoFio, TipoServidor
  <2> QED
    BY <2>1, <2>3, <2>4, <2>5
<1>4. CASE ServidorPublica
  <2>1. srv'.pedido = srv.pedido
    <3>1. PICK x : srv' = [srv EXCEPT !.pc = x]
      BY <1>4 DEF ServidorPublica
    <3> QED
      BY <1>1, <3>1 DEF TipoServidor
  <2>2. Licita
    BY <2>1 DEF Licita
  <2>3. srv'.pc = "ids"
    BY <1>1, <1>4, <2>2 DEF ServidorPublica, Licita, TipoServidor
  <2> QED
    BY <2>3
<1>5. CASE \E m \in Mensagens : Recebe(m)
  <2>1. PICK m : srv' = [srv EXCEPT !.pc = "despacha", !.pedido = m]
    BY <1>5 DEF Recebe
  <2> QED
    BY <1>1, <2>1 DEF TipoServidor
<1>6. CASE Recusa \/ EmpresaDesconhecida \/ ServidorPost
  BY <1>6 DEF Recusa, EmpresaDesconhecida, ServidorPost, Ocioso
<1>7. CASE licitar \/ emprestimo \/ AdicionaLicitacao \/ leilao \/ IniciaTerminaLeilao
  BY <1>1, <1>7 DEF licitar, emprestimo, AdicionaLicitacao, leilao, IniciaTerminaLeilao, TipoServidor
<1>8. CASE emissao \/ LeUltimoLeilao \/ CriaEmissao
  BY <1>1, <1>8 DEF emissao, LeUltimoLeilao, CriaEmissao, TipoServidor
<1>9. CASE LeTaxaEmissao
  <2>1. PICK x : srv' = [srv EXCEPT !.pc = "cria", !.taxa = x]
    BY <1>9 DEF LeTaxaEmissao
  <2> QED
    BY <1>1, <2>1 DEF TipoServidor
<1>10. CASE UNCHANGED vars \/ \E i \in Objs : PassoFio(i)
  BY <1>2, <1>10, PassoDeFio DEF vars
<1> QED
  BY <1>3, <1>4, <1>5, <1>6, <1>7, <1>8, <1>9, <1>10
  DEF Next, PassoServidor, PassoLocalServidor

\* The bids a thread sees are in the list of its object.
LEMMA VistasDaLista ==
    ASSUME Indutivo, NEW i \in Objs, fio[i].pc \in {"somando", "ordenando", "escrevendo"}
    PROVE  /\ fio[i].alvo \in Objs /\ fio[i].n \in Nat /\ fio[i].n <= Len(obj[fio[i].alvo].licitacoes)
           /\ DOMAIN Vistas(i) = 1 .. fio[i].n
           /\ \A k \in 1 .. fio[i].n : /\ k \in DOMAIN obj[fio[i].alvo].licitacoes
                                       /\ Vistas(i)[k] = obj[fio[i].alvo].licitacoes[k]
<1>1. TypeOK /\ InvFios
  BY DEF Indutivo
<1>2. fio[i].alvo \in Objs
  BY <1>1 DEF InvFios, InvFio, TypeOK, TipoFio, Refs
<1> DEFINE s == obj[fio[i].alvo].licitacoes
<1>3. s \in Seq(Lics) /\ fio[i].n \in Nat /\ fio[i].n <= Len(s)
  BY <1>1, <1>2 DEF TypeOK, TipoObjeto, TipoFio, InvFios, InvFio
<1>4. Vistas(i) = SubSeq(s, 1, fio[i].n)
  BY DEF Vistas, LicitacoesDe
<1>5. /\ DOMAIN SubSeq(s, 1, fio[i].n) = 1 .. fio[i].n
      /\ \A k \in 1 .. fio[i].n : SubSeq(s, 1, fio[i].n)[k] = s[k] /\ k \in DOMAIN s
  BY <1>3
<1> QED
  BY <1>2, <1>3, <1>4, <1>5

\* A bid in a list was there before or is the one being added: no selection adds any.
LEMMA ListaDepois ==
    ASSUME Indutivo, [Next]_vars, NEW a \in 1 .. nObj, NEW k \in DOMAIN obj'[a].licitacoes
    PROVE  \/ \E l \in DOMAIN obj[a].licitacoes : obj'[a].licitacoes[k] = obj[a].licitacoes[l]
           \/ AdicionaLicitacao /\ srv.alvo = a /\ obj'[a].licitacoes[k] = nLic + 1
<1>1. TypeOK
  BY DEF Indutivo
<1>2. a \in Objs
  BY ObjetosFicam
<1> DEFINE s == obj[a].licitacoes
<1>3. s \in Seq(Lics)
  BY <1>1, <1>2 DEF TypeOK, TipoObjeto
<1>4. CASE obj'[a].licitacoes = s
  BY <1>4
<1>5. CASE AdicionaLicitacao /\ srv.alvo = a /\ obj'[a].licitacoes = Append(s, nLic + 1)
  <2>1. nLic + 1 \in Lics
    BY <1>5, EfeitoAdiciona
  <2>2. CASE k \in DOMAIN s
    <3>1. obj'[a].licitacoes[k] = s[k]
      BY <1>3, <1>5, <2>1, <2>2, AcrescentaUm
    <3> QED
      BY <2>2, <3>1
  <2>3. CASE k \notin DOMAIN s
    BY <1>3, <1>5, <2>1, <2>3, AcrescentaUm
  <2> QED
    BY <2>2, <2>3
<1>6. CASE /\ alocaInvestidores(a)
           /\ obj'[a].licitacoes \in Alocacoes(Vistas(a), licitacao, obj[a].montante)
  <2>1. fio[a].pc = "ordenando" /\ fio[a].alvo = a
    BY <1>2, <1>6, EfeitoAloca
  <2>2. Vistas(a) \in Seq(Lics)
    BY <1>2, <2>1, VistasTipo
  <2>3. \A l \in DOMAIN Vistas(a) : l \in DOMAIN s /\ Vistas(a)[l] = s[l]
    BY <1>2, <2>1, VistasDaLista
  <2>4. \A l \in DOMAIN Vistas(a) : licitacao[Vistas(a)[l]].taxa \in Int
    <3>1. \A l \in DOMAIN Vistas(a) : Vistas(a)[l] \in Lics
      BY <2>2
    <3> QED
      BY <1>1, <3>1 DEF TypeOK, TipoLicitacao
  <2>5. \E l \in DOMAIN Vistas(a) : obj'[a].licitacoes[k] = Vistas(a)[l]
    BY <1>6, <2>2, <2>4, SelecaoOrdenada
  <2> QED
    BY <2>3, <2>5
<1> QED
  BY <1>4, <1>5, <1>6, ListaMuda

\* Objects are built with an empty list.
LEMMA ListaNova ==
    ASSUME Indutivo, [Next]_vars, NEW a \in 1 .. nObj', a \notin 1 .. nObj
    PROVE  obj'[a].licitacoes = <<>>
<1>1. TypeOK
  BY DEF Indutivo
<1>2. nObj \in Nat /\ nObj' \in Nat /\ nObj <= nObj' /\ nObj' <= nObj + 1
  BY ObjetosFicam
<1>3. a = nObj + 1 /\ nObj' = nObj + 1
  BY <1>2
<1>4. leilao \/ CriaEmissao
  <2>1. CASE UNCHANGED vars \/ \E i \in Objs : PassoFio(i)
    BY <1>2, <1>3, <2>1, PassoDeFio DEF vars, heaps
  <2>2. CASE (\E m \in Mensagens : Recebe(m)) \/ (PassoServidor /\ ~ (leilao \/ CriaEmissao))
    <3>1. nObj' = nObj
      BY <2>2 DEF Recebe, PassoServidor, PassoLocalServidor, Recusa, licitar, AdicionaLicitacao,
         emprestimo, LeIndices, IniciaTerminaLeilao, EmpresaDesconhecida, emissao,
         LeUltimoLeilao, LeTaxaEmissao, ServidorPublica, ServidorPost, heaps
    <3> QED
      BY <1>2, <1>3, <3>1
  <2> QED
    BY <2>1, <2>2 DEF Next
<1>5. a \in Objs
  <2>1. Indutivo'
    BY PassoIndutivo
  <2> QED
    BY <1>2, <1>3, <2>1, ExchangeAssumption DEF Indutivo, TypeOK, Objs
<1> QED
  BY <1>1, <1>3, <1>4, <1>5 DEF leilao, CriaEmissao, Leilao, Emissao, Objeto, TypeOK

\* A list gets bids made to its object.
LEMMA PassoInvListados ==
    ASSUME Indutivo, InvListados, [Next]_vars
    PROVE  InvListados'
<1>1. /\ nLic' \in Nat /\ nLic <= nLic' /\ nLic \in Nat
      /\ \A b \in 1 .. nLic : b \in 1 .. nLic' /\ licitacao'[b] = licitacao[b]
  BY TardiaFica, ExchangeAssumption DEF Indutivo, TypeOK
<1> SUFFICES ASSUME NEW a \in 1 .. nObj', NEW k \in DOMAIN obj'[a].licitacoes
             PROVE  /\ obj'[a].licitacoes[k] \in 1 .. nLic'
                    /\ licitacao'[obj'[a].licitacoes[k]].alvo = a
  BY DEF InvListados
<1>2. a \in 1 .. nObj
  BY ListaNova
<1>3. CASE \E l \in DOMAIN obj[a].licitacoes : obj'[a].licitacoes[k] = obj[a].licitacoes[l]
  BY <1>1, <1>2, <1>3 DEF InvListados
<1>4. CASE AdicionaLicitacao /\ srv.alvo = a /\ obj'[a].licitacoes[k] = nLic + 1
  BY <1>1, <1>4, EfeitoAdiciona
<1> QED
  BY <1>2, <1>3, <1>4, ListaDepois

-----------------------------------------------------------------------------
(* What the calls do to the directory.                                     *)

\* The field of one entry of one company.
LEMMA AlteraUma ==
    ASSUME NEW d \in [Empresas -> Seq(TipoEntrada)], NEW e \in Empresas, NEW k \in DOMAIN d[e],
           NEW l \in Seq(TipoLicitacaoDir), NEW d2,
           d2 = [d EXCEPT ![e][k].licitacoes = l]
    PROVE  /\ d2[e] = [d[e] EXCEPT ![k] = [d[e][k] EXCEPT !.licitacoes = l]]
           /\ \A f \in Empresas \ {e} : d2[f] = d[f]
           /\ d2 \in [Empresas -> Seq(TipoEntrada)]
<1>1. d[e] \in Seq(TipoEntrada) /\ d[e][k] \in TipoEntrada
  OBVIOUS
<1>2. [d[e][k] EXCEPT !.licitacoes = l] \in TipoEntrada
  BY <1>1 DEF TipoEntrada
<1>3. d2[e] = [d[e] EXCEPT ![k] = [d[e][k] EXCEPT !.licitacoes = l]]
  OBVIOUS
<1>4. d2[e] \in Seq(TipoEntrada)
  BY <1>1, <1>2, <1>3
<1> QED
  BY <1>3, <1>4

\* The lists of a directory, and of an entry.
Dirs == [Empresas -> Seq(TipoEntrada)]
ListasDir == Seq(TipoLicitacaoDir)

\* An entry with one bid more.
ComLicitacao(x, y) == [x EXCEPT !.licitacoes = Append(x.licitacoes, y)]

\* An entry when closed, and the whole directory with it.
EntradaFechada(x, u, v, l) == [x EXCEPT !.sucesso = u, !.ativo = v, !.licitacoes = l]
Fecho(d, e, k, u, v, l) ==
    [d EXCEPT ![e][k].sucesso = u, ![e][k].ativo = v, ![e][k].licitacoes = l]
FechoSemLista(d, e, k, u, v) == [d EXCEPT ![e][k].sucesso = u, ![e][k].ativo = v]

\* The end of one entry of one company, with a list of bids.
LEMMA AlteraFecho ==
    ASSUME NEW d \in Dirs, NEW e \in Empresas, NEW k \in DOMAIN d[e],
           NEW u \in BOOLEAN, NEW v \in BOOLEAN, NEW l \in ListasDir
    PROVE  /\ Fecho(d, e, k, u, v, l)[e] = [d[e] EXCEPT ![k] = EntradaFechada(d[e][k], u, v, l)]
           /\ \A f \in Empresas \ {e} : Fecho(d, e, k, u, v, l)[f] = d[f]
           /\ Fecho(d, e, k, u, v, l) \in Dirs
<1> DEFINE d2 == Fecho(d, e, k, u, v, l)
<1>1. d[e] \in Seq(TipoEntrada) /\ d[e][k] \in TipoEntrada
  BY DEF Dirs
<1> DEFINE y == [d[e][k] EXCEPT !.sucesso = u, !.ativo = v, !.licitacoes = l]
<1>2. y \in TipoEntrada
  BY <1>1 DEF TipoEntrada, ListasDir
<1>3. d2[e] = [d[e] EXCEPT ![k] = y]
  BY DEF Fecho, Dirs
<1>4. \A f \in Empresas \ {e} : d2[f] = d[f]
  BY DEF Fecho, Dirs
<1>5. d2 = [f \in Empresas |-> IF f = e THEN [d[e] EXCEPT ![k] = y] ELSE d[f]]
  BY <1>3, <1>4 DEF Fecho, Dirs
<1> HIDE DEF y, d2
<1>6. [d[e] EXCEPT ![k] = y] \in Seq(TipoEntrada)
  BY <1>1, <1>2
<1>7. d2 \in [Empresas -> Seq(TipoEntrada)]
  BY <1>5, <1>6 DEF Dirs
<1> QED
  BY <1>3, <1>4, <1>7 DEF y, EntradaFechada, d2, Dirs

\* postLeilao and post(): the new entry is the last of its company.
LEMMA EfeitoPostNovo ==
    ASSUME Indutivo, InvPedido, TiposDir, PostServidor, ~ Licita
    PROVE  \E x \in TipoEntrada :
              /\ x.id = srv.idL /\ x.origem = srv.alvo /\ x.montante = obj[srv.alvo].montante
              /\ x.licitacoes = <<>>
              /\ \A t \in Tipos, e \in Empresas :
                    Dir(t, e)' = IF t = TipoDoPedido /\ e = srv.pedido.empresa
                                 THEN Append(Dir(t, e), x) ELSE Dir(t, e)
              /\ falhou' = falhou
              /\ TiposDir'
<1>1. TypeOK /\ srv \in TipoServidor
  BY DEF Indutivo, TypeOK
<1>2. /\ srv.pc = "post" /\ srv.pedido.tipo \in {"leilao", "emissao"}
      /\ srv.alvo \in Objs /\ srv.pedido.empresa \in Empresas /\ srv.alvo \in Nat
  <2>1. srv.pc = "post"
    BY DEF PostServidor, ServidorPost
  <2>2. srv.alvo \in 1 .. nObj /\ nObj \in 0 .. MaxObj /\ MaxObj \in Nat
    BY <1>1, <2>1, ExchangeAssumption DEF InvPedido, TypeOK
  <2> QED
    BY <2>1, <2>2 DEF InvPedido, Licita, Objs
<1> DEFINE r == PedidoDoServidor
           e == srv.pedido.empresa
<1>3. /\ r.nome = e /\ r.id = srv.idL /\ r.origem = srv.alvo /\ r.juro = 0
      /\ r.montanteTotal = obj[srv.alvo].montante /\ r.taxaMaxima = obj[srv.alvo].taxa
  BY <1>2 DEF PedidoDoServidor, D!PedidoEmpresa, D!PedidoVazio
<1>4. /\ srv.idL \in Nat /\ obj[srv.alvo].montante \in Int /\ obj[srv.alvo].taxa \in Int
  BY <1>1, <1>2 DEF TypeOK, TipoServidor, TipoObjeto
<1> HIDE DEF r
<1>5. \A z \in Int : /\ D!Entrada(r, z) \in TipoEntrada
                     /\ D!Entrada(r, z).id = srv.idL /\ D!Entrada(r, z).origem = srv.alvo
                     /\ D!Entrada(r, z).montante = obj[srv.alvo].montante
                     /\ D!Entrada(r, z).licitacoes = <<>>
  BY <1>2, <1>3, <1>4 DEF D!Entrada, TipoEntrada
<1>6. CASE srv.pedido.tipo = "leilao"
  <2>1. D!postLeilao(r) /\ falhou' = (falhou \/ ~ (r.nome \in Empresas))
    BY <1>6 DEF PostServidor, Chega, r
  <2>2. /\ dirLeiloes' = [dirLeiloes EXCEPT ![e] = Append(dirLeiloes[e], D!Entrada(r, 0))]
        /\ dirEmissoes' = dirEmissoes
    BY <1>2, <1>3, <2>1 DEF D!postLeilao
  <2>3. PICK x \in TipoEntrada : x = D!Entrada(r, 0)
    BY <1>5
  <2>4. falhou' = falhou
    BY <1>2, <1>3, <2>1 DEF TiposDir
  <2>5. Append(dirLeiloes[e], x) \in Seq(TipoEntrada)
    BY <1>2 DEF TiposDir
  <2>6. TiposDir'
    BY <1>2, <2>2, <2>3, <2>4, <2>5 DEF TiposDir
  <2>7. \A t \in Tipos, f \in Empresas :
           Dir(t, f)' = IF t = TipoDoPedido /\ f = e THEN Append(Dir(t, f), x) ELSE Dir(t, f)
    BY <1>2, <1>6, <2>2, <2>3 DEF TiposDir, Dir, Tipos, TipoDoPedido
  <2> QED
    BY <1>5, <2>3, <2>4, <2>6, <2>7
<1>7. CASE srv.pedido.tipo = "emissao"
  <2>1. D!postEmissao(r) /\ falhou' = (falhou \/ ~ (r.nome \in Empresas))
    BY <1>7 DEF PostServidor, Chega, r
  <2>2. /\ dirEmissoes' = [dirEmissoes EXCEPT ![e] =
                              Append(dirEmissoes[e], D!Entrada(r, r.taxaMaxima))]
        /\ dirLeiloes' = dirLeiloes
    BY <1>2, <1>3, <2>1 DEF D!postEmissao
  <2>3. PICK x \in TipoEntrada : x = D!Entrada(r, r.taxaMaxima)
    BY <1>3, <1>4, <1>5
  <2>4. falhou' = falhou
    BY <1>2, <1>3, <2>1 DEF TiposDir
  <2>5. Append(dirEmissoes[e], x) \in Seq(TipoEntrada)
    BY <1>2 DEF TiposDir
  <2>6. TiposDir'
    BY <1>2, <2>2, <2>3, <2>4, <2>5 DEF TiposDir
  <2>7. \A t \in Tipos, f \in Empresas :
           Dir(t, f)' = IF t = TipoDoPedido /\ f = e THEN Append(Dir(t, f), x) ELSE Dir(t, f)
    BY <1>2, <1>7, <2>2, <2>3 DEF TiposDir, Dir, Tipos, TipoDoPedido
  <2> QED
    BY <1>3, <1>4, <1>5, <2>3, <2>4, <2>6, <2>7
<1> QED
  BY <1>2, <1>6, <1>7

\* A bid is added at index k to the list s the request is about, or there is no k.
AcrescentaLicitacao(s, k) ==
    \/ /\ k \notin DOMAIN s /\ falhou' = TRUE
       /\ \A t \in Tipos, e \in Empresas : Dir(t, e)' = Dir(t, e)
    \/ /\ k \in DOMAIN s /\ falhou' = falhou
       /\ \E y \in TipoLicitacaoDir :
             /\ y.origem = nLic
             /\ \A t \in Tipos, e \in Empresas :
                   IF t = TipoDoPedido /\ e = srv.pedido.empresa
                   THEN Dir(t, e)' = [s EXCEPT ![k] = ComLicitacao(s[k], y)]
                   ELSE Dir(t, e)' = Dir(t, e)

\* postLeilaoLicitacao and postEmissaoLicitacao: the bid is added to the entry at its
\* index, if there is one.
LEMMA EfeitoPostLicitacao ==
    ASSUME Indutivo, InvPedido, TiposDir, PostServidor, Licita,
           NEW s, s = Dir(TipoDoPedido, srv.pedido.empresa), NEW k, k = srv.idL + 1
    PROVE  /\ TipoDoPedido \in Tipos /\ srv.pedido.empresa \in Empresas /\ TiposDir'
           /\ AcrescentaLicitacao(s, k)
<1>0. PICK u, w : u = TipoDoPedido /\ w = srv.pedido.empresa
  OBVIOUS
<1>1. TypeOK /\ srv \in TipoServidor
  BY DEF Indutivo, TypeOK
<1>2. /\ srv.pc = "post" /\ srv.pedido.tipo \in {"licitar", "emprestimo"}
      /\ srv.pedido.empresa \in Empresas /\ nLic \in Lics /\ nLic \in Nat
      /\ srv.pedido \in Mensagens
  <2>1. srv.pc = "post"
    BY DEF PostServidor, ServidorPost
  <2> QED
    BY <1>1, <2>1, ExchangeAssumption DEF InvPedido, Licita, Lics, Indutivo, InvServidor
<1> DEFINE r == PedidoDoServidor
           e == w
<1>3. /\ r.nome = e /\ r.id = srv.idL /\ r.origem = nLic /\ r.idL = srv.id
      /\ r.juro = licitacao[nLic].taxa /\ r.quantia = srv.pedido.quantia
  BY <1>0, <1>2 DEF PedidoDoServidor, D!PedidoInvestidor, D!PedidoVazio
<1>4. srv.idL \in Nat /\ srv.id \in Int /\ licitacao[nLic].taxa \in Int /\ srv.pedido.quantia \in Int
  BY <1>1, <1>2, ExchangeAssumption DEF TypeOK, TipoServidor, TipoLicitacao
<1> HIDE DEF r
<1>5. CASE srv.pedido.tipo = "licitar"
  <2> DEFINE y == [id |-> r.idL, taxa |-> r.juro, quantia |-> r.quantia, origem |-> r.origem]
  <2>1. u = "leilao" /\ s = dirLeiloes[e] /\ u \in Tipos /\ w \in Empresas
    BY <1>0, <1>2, <1>5 DEF TipoDoPedido, Dir, Tipos
  <2>2. D!postLeilaoLicitacao(r) /\ falhou' = (falhou \/ ~ D!Existe(dirLeiloes, r))
    BY <1>5 DEF PostServidor, Chega, r
  <2>3. D!Existe(dirLeiloes, r) <=> k \in DOMAIN dirLeiloes[e]
    BY <1>0, <1>2, <1>3, <1>4 DEF D!Existe, TiposDir
  <2>4. y \in TipoLicitacaoDir /\ y.origem = nLic
    BY <1>2, <1>3, <1>4 DEF TipoLicitacaoDir
  <2>5. CASE k \notin DOMAIN dirLeiloes[e]
    <3>1. UNCHANGED <<dirLeiloes, dirEmissoes>> /\ falhou' = TRUE
      BY <2>2, <2>3, <2>5 DEF D!postLeilaoLicitacao
    <3> QED
      BY <1>0, <2>1, <2>5, <3>1 DEF TiposDir, Dir, AcrescentaLicitacao
  <2>6. CASE k \in DOMAIN dirLeiloes[e]
    <3> DEFINE l == Append(dirLeiloes[e][k].licitacoes, y)
    <3>1. /\ dirLeiloes' = [dirLeiloes EXCEPT ![e][k].licitacoes = l]
          /\ UNCHANGED dirEmissoes /\ falhou' = falhou
      BY <1>3, <2>2, <2>3, <2>6 DEF D!postLeilaoLicitacao, TiposDir
    <3> HIDE DEF y
    <3>2. dirLeiloes[e][k] \in TipoEntrada /\ dirLeiloes \in [Empresas -> Seq(TipoEntrada)]
      BY <1>0, <1>2, <2>6 DEF TiposDir
    <3>3. l \in Seq(TipoLicitacaoDir)
      BY <2>4, <3>2 DEF TipoEntrada
    <3> HIDE DEF l
    <3>4. /\ dirLeiloes'[e] = [dirLeiloes[e] EXCEPT ![k] = [dirLeiloes[e][k] EXCEPT !.licitacoes = l]]
          /\ \A f \in Empresas \ {e} : dirLeiloes'[f] = dirLeiloes[f]
          /\ dirLeiloes' \in [Empresas -> Seq(TipoEntrada)]
      <4>1. e \in Empresas /\ k \in DOMAIN dirLeiloes[e]
        BY <1>0, <1>2, <2>6
      <4> HIDE DEF e
      <4>2. dirLeiloes' = [dirLeiloes EXCEPT ![e][k].licitacoes = l]
        BY <3>1
      <4> QED
        BY <3>2, <3>3, <4>1, <4>2, AlteraUma
    <3>5. TiposDir'
      BY <3>1, <3>4 DEF TiposDir
    <3>6. \A t \in Tipos, f \in Empresas : t # u \/ f # w => Dir(t, f)' = Dir(t, f)
      BY <2>1, <3>1, <3>4 DEF Dir, Tipos
    <3>7. Dir(u, w)' = [s EXCEPT ![k] = ComLicitacao(s[k], y)]
      <4>1. Dir(u, w)' = dirLeiloes'[e]
        BY <2>1 DEF Dir
      <4> QED
        BY <2>1, <3>4, <4>1 DEF l, ComLicitacao
    <3> QED
      BY <1>0, <2>1, <2>4, <2>6, <3>1, <3>5, <3>6, <3>7 DEF AcrescentaLicitacao
  <2> QED
    BY <2>5, <2>6
<1>6. CASE srv.pedido.tipo = "emprestimo"
  <2> DEFINE y == [id |-> r.idL, taxa |-> 0, quantia |-> r.quantia, origem |-> r.origem]
  <2>1. u = "emissao" /\ s = dirEmissoes[e] /\ u \in Tipos /\ w \in Empresas
    BY <1>0, <1>2, <1>6 DEF TipoDoPedido, Dir, Tipos
  <2>2. D!postEmissaoLicitacao(r) /\ falhou' = (falhou \/ ~ D!Existe(dirEmissoes, r))
    BY <1>6 DEF PostServidor, Chega, r
  <2>3. D!Existe(dirEmissoes, r) <=> k \in DOMAIN dirEmissoes[e]
    BY <1>0, <1>2, <1>3, <1>4 DEF D!Existe, TiposDir
  <2>4. y \in TipoLicitacaoDir /\ y.origem = nLic
    BY <1>2, <1>3, <1>4 DEF TipoLicitacaoDir
  <2>5. CASE k \notin DOMAIN dirEmissoes[e]
    <3>1. UNCHANGED <<dirLeiloes, dirEmissoes>> /\ falhou' = TRUE
      BY <2>2, <2>3, <2>5 DEF D!postEmissaoLicitacao
    <3> QED
      BY <1>0, <2>1, <2>5, <3>1 DEF TiposDir, Dir, AcrescentaLicitacao
  <2>6. CASE k \in DOMAIN dirEmissoes[e]
    <3> DEFINE l == Append(dirEmissoes[e][k].licitacoes, y)
    <3>1. /\ dirEmissoes' = [dirEmissoes EXCEPT ![e][k].licitacoes = l]
          /\ UNCHANGED dirLeiloes /\ falhou' = falhou
      BY <1>3, <2>2, <2>3, <2>6 DEF D!postEmissaoLicitacao, TiposDir
    <3> HIDE DEF y
    <3>2. dirEmissoes[e][k] \in TipoEntrada /\ dirEmissoes \in [Empresas -> Seq(TipoEntrada)]
      BY <1>0, <1>2, <2>6 DEF TiposDir
    <3>3. l \in Seq(TipoLicitacaoDir)
      BY <2>4, <3>2 DEF TipoEntrada
    <3> HIDE DEF l
    <3>4. /\ dirEmissoes'[e] = [dirEmissoes[e] EXCEPT ![k] = [dirEmissoes[e][k] EXCEPT !.licitacoes = l]]
          /\ \A f \in Empresas \ {e} : dirEmissoes'[f] = dirEmissoes[f]
          /\ dirEmissoes' \in [Empresas -> Seq(TipoEntrada)]
      <4>1. e \in Empresas /\ k \in DOMAIN dirEmissoes[e]
        BY <1>0, <1>2, <2>6
      <4> HIDE DEF e
      <4>2. dirEmissoes' = [dirEmissoes EXCEPT ![e][k].licitacoes = l]
        BY <3>1
      <4> QED
        BY <3>2, <3>3, <4>1, <4>2, AlteraUma
    <3>5. TiposDir'
      BY <3>1, <3>4 DEF TiposDir
    <3>6. \A t \in Tipos, f \in Empresas : t # u \/ f # w => Dir(t, f)' = Dir(t, f)
      BY <2>1, <3>1, <3>4 DEF Dir, Tipos
    <3>7. Dir(u, w)' = [s EXCEPT ![k] = ComLicitacao(s[k], y)]
      <4>1. Dir(u, w)' = dirEmissoes'[e]
        BY <2>1 DEF Dir
      <4> QED
        BY <2>1, <3>4, <4>1 DEF l, ComLicitacao
    <3> QED
      BY <1>0, <2>1, <2>4, <2>6, <3>1, <3>5, <3>6, <3>7 DEF AcrescentaLicitacao
  <2> QED
    BY <2>5, <2>6
<1> QED
  BY <1>2, <1>5, <1>6

\* Two fields of one entry: the bids are kept.
LEMMA AlteraEstado ==
    ASSUME NEW d \in [Empresas -> Seq(TipoEntrada)], NEW e \in Empresas, NEW k \in DOMAIN d[e],
           NEW u \in BOOLEAN, NEW v \in BOOLEAN, NEW d2,
           d2 = FechoSemLista(d, e, k, u, v)
    PROVE  /\ d2[e] = [d[e] EXCEPT ![k] = EntradaFechada(d[e][k], u, v, d[e][k].licitacoes)]
           /\ \A f \in Empresas \ {e} : d2[f] = d[f]
           /\ d2 \in [Empresas -> Seq(TipoEntrada)]
<1>1. d[e] \in Seq(TipoEntrada) /\ d[e][k] \in TipoEntrada
  OBVIOUS
<1> DEFINE y == [d[e][k] EXCEPT !.sucesso = u, !.ativo = v]
           z == [d[e][k] EXCEPT !.sucesso = u, !.ativo = v, !.licitacoes = d[e][k].licitacoes]
<1>2. y \in TipoEntrada /\ z = y
  BY <1>1 DEF TipoEntrada
<1>3. d2[e] = [d[e] EXCEPT ![k] = y]
  BY DEF FechoSemLista
<1>4. \A f \in Empresas \ {e} : d2[f] = d[f]
  BY DEF FechoSemLista
<1>5. d2 = [f \in Empresas |-> IF f = e THEN [d[e] EXCEPT ![k] = y] ELSE d[f]]
  BY <1>3, <1>4 DEF FechoSemLista
<1> HIDE DEF y, z
<1>6. [d[e] EXCEPT ![k] = y] \in Seq(TipoEntrada)
  BY <1>1, <1>2
<1>7. d2 \in [Empresas -> Seq(TipoEntrada)]
  BY <1>5, <1>6
<1>8. d2[e] = [d[e] EXCEPT ![k] = z]
  BY <1>2, <1>3
<1> QED
  BY <1>4, <1>7, <1>8 DEF z, EntradaFechada

\* The bids the entry x is left with by the PUT of thread i.
ListaDoPut(i, x, l) ==
    \/ l = x.licitacoes /\ (obj[i].tipo = "emissao" \/ fio[i].lista = FALSE)
    \/ /\ obj[i].tipo = "leilao" /\ fio[i].lista = TRUE
       /\ fio[i].pc = "escrevendo" /\ Len(l) = fio[i].n
       /\ \A m \in 1 .. fio[i].n : l[m].origem = Vistas(i)[m]

\* putLeilaoSucesso and putEmissaoSucesso: the entry at the index the thread was given,
\* if there is one, is closed; an auction's bids are replaced by the allocated ones if
\* some were left out.
LEMMA EfeitoPut ==
    ASSUME Indutivo, InvPut, TiposDir, NEW i \in Objs, PutFio(i),
           NEW s, s = Dir(obj[i].tipo, obj[i].empresa), NEW k, k = fio[i].idL + 1
    PROVE  /\ obj[i].tipo \in Tipos /\ obj[i].empresa \in Empresas /\ k \in Nat
           /\ s \in Seq(TipoEntrada)
           /\ TiposDir'
           /\ \/ /\ k \notin DOMAIN s /\ falhou' = TRUE
                 /\ \A t \in Tipos, e \in Empresas : Dir(t, e)' = Dir(t, e)
              \/ /\ k \in DOMAIN s /\ falhou' = falhou
                 /\ \E l \in Seq(TipoLicitacaoDir) :
                       /\ ListaDoPut(i, s[k], l)
                       /\ Dir(obj[i].tipo, obj[i].empresa)' =
                             [s EXCEPT ![k] = EntradaFechada(s[k], obj[fio[i].alvo].sucesso, FALSE, l)]
                       /\ \A t \in Tipos, e \in Empresas :
                             t # obj[i].tipo \/ e # obj[i].empresa => Dir(t, e)' = Dir(t, e)
<1>1. TypeOK /\ fio \in [Objs -> TipoFio] /\ obj \in [Objs -> TipoObjeto]
  BY DEF Indutivo, TypeOK
<1>2. fio[i].pc \in {"put", "escrevendo"}
  BY DEF PutFio, FioPut
<1>3. /\ obj[i].tipo \in Tipos /\ obj[i].empresa \in Empresas /\ fio[i].idL \in Nat
      /\ fio[i].alvo \in Objs /\ obj[fio[i].alvo].sucesso \in BOOLEAN /\ fio[i].lista \in BOOLEAN
  BY <1>1, <1>2 DEF Indutivo, InvFios, InvFio, Tipos, TipoFio, TipoObjeto, Refs
<1>4. PICK r : r = PedidoDoFio(i)
  OBVIOUS
<1>5. /\ r.nome = obj[i].empresa /\ r.id = fio[i].idL /\ r.sucesso = obj[fio[i].alvo].sucesso
      /\ r.temLista = fio[i].lista /\ r.ativo = FALSE
  BY <1>4 DEF PedidoDoFio, D!PedidoFecho, D!PedidoVazio
<1>6. fio[i].lista => /\ fio[i].pc = "escrevendo" /\ r.licitacaos \in Seq(TipoLicitacaoDir)
                      /\ Len(r.licitacaos) = fio[i].n
                      /\ \A m \in 1 .. fio[i].n : r.licitacaos[m].origem = Vistas(i)[m]
  <2> SUFFICES ASSUME fio[i].lista
               PROVE  /\ fio[i].pc = "escrevendo" /\ r.licitacaos \in Seq(TipoLicitacaoDir)
                      /\ Len(r.licitacaos) = fio[i].n
                      /\ \A m \in 1 .. fio[i].n : r.licitacaos[m].origem = Vistas(i)[m]
    OBVIOUS
  <2>1. fio[i].pc = "escrevendo"
    BY <1>2 DEF InvPut
  <2>2. /\ fio[i].n \in Nat
        /\ \A m \in 1 .. fio[i].n : /\ m \in DOMAIN obj[fio[i].alvo].licitacoes
                                    /\ Vistas(i)[m] = obj[fio[i].alvo].licitacoes[m]
    BY <2>1, VistasDaLista
  <2>3. \A m \in 1 .. fio[i].n : Vistas(i)[m] \in Lics
    BY <1>1, <1>3, <2>2 DEF TipoObjeto
  <2>4. \A b \in Lics : licitacao[b].taxa \in Int /\ licitacao[b].quantia \in Int /\ b \in Nat
    BY <1>1 DEF TypeOK, TipoLicitacao, Lics
  <2> DEFINE j(b) == D!LicitacaoJson(licitacao[b].taxa, licitacao[b].quantia, b)
  <2>5. \A b \in Lics : j(b) \in TipoLicitacaoDir /\ j(b).origem = b
    BY <2>4 DEF D!LicitacaoJson, TipoLicitacaoDir
  <2>6. r.licitacaos = [m \in 1 .. fio[i].n |-> j(Vistas(i)[m])]
    BY <1>4 DEF PedidoDoFio, D!PedidoFecho, D!PedidoVazio
  <2> HIDE DEF j
  <2> QED
    BY <2>1, <2>2, <2>3, <2>5, <2>6
<1>7. CASE obj[i].tipo = "leilao"
  <2>1. D!putLeilaoSucesso(r) /\ falhou' = (falhou \/ ~ D!Existe(dirLeiloes, r))
    BY <1>4, <1>7 DEF PutFio, Chega
  <2>2. PICK e : e = obj[i].empresa
    OBVIOUS
  <2>3. /\ s = dirLeiloes[e] /\ e \in Empresas /\ s \in Seq(TipoEntrada) /\ k \in Nat
        /\ dirLeiloes \in [Empresas -> Seq(TipoEntrada)] /\ r.nome = e /\ r.id + 1 = k
    BY <1>3, <1>5, <1>7, <2>2 DEF Dir, TiposDir
  <2>4. D!Existe(dirLeiloes, r) <=> k \in DOMAIN s
    BY <1>3, <1>5, <2>3 DEF D!Existe
  <2>5. CASE k \notin DOMAIN s
    <3>1. UNCHANGED <<dirLeiloes, dirEmissoes>> /\ falhou' = TRUE
      BY <2>1, <2>4, <2>5 DEF D!putLeilaoSucesso
    <3>2. TiposDir' /\ \A t \in Tipos, f \in Empresas : Dir(t, f)' = Dir(t, f)
      BY <3>1 DEF TiposDir, Dir
    <3> QED
      BY <1>3, <2>3, <2>5, <3>1, <3>2
  <2>6. CASE k \in DOMAIN s
    <3>1. PICK u, v : u = obj[fio[i].alvo].sucesso /\ v = FALSE
      OBVIOUS
    <3>2. u \in BOOLEAN /\ v \in BOOLEAN /\ r.sucesso = u /\ r.ativo = v
      BY <1>3, <1>5, <3>1
    <3>3. dirLeiloes[e][k].licitacoes \in Seq(TipoLicitacaoDir)
      <4>1. dirLeiloes[e] \in Seq(TipoEntrada) /\ k \in DOMAIN dirLeiloes[e]
        BY <2>3, <2>6
      <4>2. dirLeiloes[e][k] \in TipoEntrada
        BY <4>1
      <4> QED
        BY <4>2 DEF TipoEntrada
    <3>4. PICK l : l = IF r.temLista THEN r.licitacaos ELSE dirLeiloes[e][k].licitacoes
      OBVIOUS
    <3>5. /\ l \in Seq(TipoLicitacaoDir)
          /\ \/ l = s[k].licitacoes /\ fio[i].lista = FALSE
             \/ /\ fio[i].lista = TRUE /\ fio[i].pc = "escrevendo" /\ Len(l) = fio[i].n
                /\ \A m \in 1 .. fio[i].n : l[m].origem = Vistas(i)[m]
      <4>1. CASE fio[i].lista
        BY <1>3, <1>5, <1>6, <3>4, <4>1
      <4>2. CASE ~ fio[i].lista
        BY <1>3, <1>5, <2>3, <3>3, <3>4, <4>2
      <4> QED
        BY <4>1, <4>2
    <3>6. dirLeiloes' = Fecho(dirLeiloes, e, k, u, v, l)
      BY <2>1, <2>3, <2>4, <2>6, <3>2, <3>4 DEF D!putLeilaoSucesso, Fecho
    <3>7. UNCHANGED dirEmissoes /\ falhou' = falhou
      BY <2>1, <2>4, <2>6 DEF D!putLeilaoSucesso, TiposDir
    <3>8. /\ dirLeiloes'[e] = [dirLeiloes[e] EXCEPT ![k] =
                 EntradaFechada(dirLeiloes[e][k], u, v, l)]
          /\ \A f \in Empresas \ {e} : dirLeiloes'[f] = dirLeiloes[f]
          /\ dirLeiloes' \in [Empresas -> Seq(TipoEntrada)]
      <4>1. dirLeiloes \in [Empresas -> Seq(TipoEntrada)] /\ e \in Empresas /\ k \in DOMAIN dirLeiloes[e]
        BY <2>3, <2>6
      <4>2. u \in BOOLEAN /\ v \in BOOLEAN /\ l \in Seq(TipoLicitacaoDir)
        BY <3>2, <3>5
      <4>3. /\ Fecho(dirLeiloes, e, k, u, v, l)[e] =
                  [dirLeiloes[e] EXCEPT ![k] = EntradaFechada(dirLeiloes[e][k], u, v, l)]
            /\ \A f \in Empresas \ {e} : Fecho(dirLeiloes, e, k, u, v, l)[f] = dirLeiloes[f]
            /\ Fecho(dirLeiloes, e, k, u, v, l) \in Dirs
        <5>1. dirLeiloes \in Dirs /\ l \in ListasDir
          BY <4>1, <4>2 DEF Dirs, ListasDir
        <5> QED
          BY <4>1, <4>2, <5>1, AlteraFecho
      <4> QED
        BY <3>6, <4>3 DEF Dirs
    <3>9. Dir(obj[i].tipo, e)' =
             [s EXCEPT ![k] = EntradaFechada(s[k], u, v, l)]
      <4>1. Dir(obj[i].tipo, e)' = dirLeiloes'[e]
        <5>1. obj'[i].tipo = obj[i].tipo
          BY DEF PutFio, FioPut, heaps
        <5> QED
          BY <1>7, <5>1 DEF Dir
      <4> QED
        BY <2>3, <3>4, <3>8, <4>1
    <3>10. TiposDir'
      BY <3>7, <3>8 DEF TiposDir
    <3>11. \A t \in Tipos, f \in Empresas :
              t # obj[i].tipo \/ f # obj[i].empresa => Dir(t, f)' = Dir(t, f)
      BY <1>7, <2>2, <3>7, <3>8 DEF Dir, Tipos
    <3>12. Dir(obj[i].tipo, obj[i].empresa)' =
             [s EXCEPT ![k] = EntradaFechada(s[k], obj[fio[i].alvo].sucesso, FALSE, l)]
      <4>1. UNCHANGED obj
        BY DEF PutFio, FioPut, heaps
      <4> QED
        BY <2>2, <3>1, <3>9, <4>1
    <3>13. ListaDoPut(i, s[k], l)
      BY <1>7, <3>5 DEF ListaDoPut
    <3> QED
      BY <1>3, <2>3, <2>6, <3>5, <3>7, <3>10, <3>11, <3>12, <3>13
  <2> QED
    BY <2>5, <2>6
<1>8. CASE obj[i].tipo = "emissao"
  <2>1. D!putEmissaoSucesso(r) /\ falhou' = (falhou \/ ~ D!Existe(dirEmissoes, r))
    BY <1>4, <1>8 DEF PutFio, Chega
  <2>2. PICK e : e = obj[i].empresa
    OBVIOUS
  <2>3. /\ s = dirEmissoes[e] /\ e \in Empresas /\ s \in Seq(TipoEntrada) /\ k \in Nat
        /\ dirEmissoes \in [Empresas -> Seq(TipoEntrada)] /\ r.nome = e /\ r.id + 1 = k
    BY <1>3, <1>5, <1>8, <2>2 DEF Dir, TiposDir
  <2>4. D!Existe(dirEmissoes, r) <=> k \in DOMAIN s
    BY <1>3, <1>5, <2>3 DEF D!Existe
  <2>5. CASE k \notin DOMAIN s
    <3>1. UNCHANGED <<dirLeiloes, dirEmissoes>> /\ falhou' = TRUE
      BY <2>1, <2>4, <2>5 DEF D!putEmissaoSucesso
    <3>2. TiposDir' /\ \A t \in Tipos, f \in Empresas : Dir(t, f)' = Dir(t, f)
      BY <3>1 DEF TiposDir, Dir
    <3> QED
      BY <1>3, <2>3, <2>5, <3>1, <3>2
  <2>6. CASE k \in DOMAIN s
    <3>1. PICK u, v : u = obj[fio[i].alvo].sucesso /\ v = FALSE
      OBVIOUS
    <3>2. u \in BOOLEAN /\ v \in BOOLEAN /\ r.sucesso = u /\ r.ativo = v
      BY <1>3, <1>5, <3>1
    <3>3. dirEmissoes[e][k].licitacoes \in Seq(TipoLicitacaoDir)
      <4>1. dirEmissoes[e] \in Seq(TipoEntrada) /\ k \in DOMAIN dirEmissoes[e]
        BY <2>3, <2>6
      <4>2. dirEmissoes[e][k] \in TipoEntrada
        BY <4>1
      <4> QED
        BY <4>2 DEF TipoEntrada
    <3>4. PICK l : l = dirEmissoes[e][k].licitacoes
      OBVIOUS
    <3>5. l \in Seq(TipoLicitacaoDir) /\ l = s[k].licitacoes
      BY <2>3, <3>3, <3>4
    <3>6. dirEmissoes' = FechoSemLista(dirEmissoes, e, k, u, v)
      BY <2>1, <2>3, <2>4, <2>6, <3>2 DEF D!putEmissaoSucesso, FechoSemLista
    <3>7. UNCHANGED dirLeiloes /\ falhou' = falhou
      BY <2>1, <2>4, <2>6 DEF D!putEmissaoSucesso, TiposDir
    <3>8. /\ dirEmissoes'[e] = [dirEmissoes[e] EXCEPT ![k] =
                 EntradaFechada(dirEmissoes[e][k], u, v, dirEmissoes[e][k].licitacoes)]
          /\ \A f \in Empresas \ {e} : dirEmissoes'[f] = dirEmissoes[f]
          /\ dirEmissoes' \in [Empresas -> Seq(TipoEntrada)]
      <4>1. dirEmissoes \in [Empresas -> Seq(TipoEntrada)] /\ e \in Empresas /\ k \in DOMAIN dirEmissoes[e]
        BY <2>3, <2>6
      <4>2. u \in BOOLEAN /\ v \in BOOLEAN /\ l \in Seq(TipoLicitacaoDir)
        BY <3>2, <3>5
      <4> QED
        BY <3>6, <4>1, <4>2, AlteraEstado, SMTT(30)
    <3>9. Dir(obj[i].tipo, e)' =
             [s EXCEPT ![k] = EntradaFechada(s[k], u, v, l)]
      <4>1. Dir(obj[i].tipo, e)' = dirEmissoes'[e]
        <5>1. obj'[i].tipo = obj[i].tipo
          BY DEF PutFio, FioPut, heaps
        <5> QED
          BY <1>8, <5>1 DEF Dir
      <4> QED
        BY <2>3, <3>4, <3>8, <4>1
    <3>10. TiposDir'
      BY <3>7, <3>8 DEF TiposDir
    <3>11. \A t \in Tipos, f \in Empresas :
              t # obj[i].tipo \/ f # obj[i].empresa => Dir(t, f)' = Dir(t, f)
      BY <1>8, <2>2, <3>7, <3>8 DEF Dir, Tipos
    <3>12. Dir(obj[i].tipo, obj[i].empresa)' =
             [s EXCEPT ![k] = EntradaFechada(s[k], obj[fio[i].alvo].sucesso, FALSE, l)]
      <4>1. UNCHANGED obj
        BY DEF PutFio, FioPut, heaps
      <4> QED
        BY <2>2, <3>1, <3>9, <4>1
    <3>13. ListaDoPut(i, s[k], l)
      BY <1>8, <3>5 DEF ListaDoPut
    <3> QED
      BY <1>3, <2>3, <2>6, <3>5, <3>7, <3>10, <3>11, <3>12, <3>13
  <2> QED
    BY <2>5, <2>6
<1> QED
  BY <1>3, <1>7, <1>8 DEF Tipos

-----------------------------------------------------------------------------
(* The entries of the directory.                                           *)

\* An object is pending from when it is built until it is posted, or until the server
\* thread finds that it does not serve the company.
LEMMA PendenteMuda ==
    ASSUME Indutivo, InvPedido, [Next]_vars
    PROVE  /\ \A j \in 1 .. nObj : Pendente(j)' => Pendente(j)
           /\ \A j \in 1 .. nObj : Pendente(j) =>
                 Pendente(j)' \/ ServidorPost \/ srv.pedido.empresa \notin Empresas
           /\ \A j \in 1 .. nObj' : j \notin 1 .. nObj => Pendente(j)'
<1>1. TypeOK /\ InvServidor /\ srv \in TipoServidor
  BY DEF Indutivo, TypeOK
<1>2. /\ nObj \in Nat /\ nObj' \in Nat /\ nObj <= nObj' /\ nObj' <= nObj + 1
  BY ObjetosFicam
<1> USE DEF Pendente, Licita
<1>3. CASE UNCHANGED <<srv, nObj>>
  BY <1>3
<1>4. CASE leilao
  <2>1. /\ srv.pc = "despacha" /\ srv.pedido.tipo = "leilao" /\ nObj' = nObj + 1
        /\ srv' = [srv EXCEPT !.pc = "inicia", !.alvo = nObj + 1]
    BY <1>4 DEF leilao, AceitaLeilao
  <2>2. srv'.pc = "inicia" /\ srv'.alvo = nObj + 1 /\ srv'.pedido = srv.pedido
    BY <1>1, <2>1 DEF TipoServidor
  <2> QED
    BY <1>2, <2>1, <2>2
<1>5. CASE CriaEmissao
  <2>1. /\ srv.pc = "cria" /\ srv.pedido.tipo = "emissao" /\ nObj' = nObj + 1
    BY <1>5 DEF CriaEmissao, InvPedido
  <2>2. PICK x : srv' = [srv EXCEPT !.pc = "publica", !.alvo = nObj + 1, !.idL = x]
    BY <1>5 DEF CriaEmissao
  <2>3. srv'.pc = "publica" /\ srv'.alvo = nObj + 1 /\ srv'.pedido = srv.pedido
    BY <1>1, <2>2 DEF TipoServidor
  <2> QED
    BY <1>2, <2>1, <2>3
<1>6. CASE ServidorPost \/ Recusa \/ EmpresaDesconhecida
  <2>1. nObj' = nObj /\ srv'.pc \in {"recv", "morto"}
    BY <1>6 DEF ServidorPost, Recusa, EmpresaDesconhecida, Ocioso, heaps
  <2>2. \A j \in 1 .. nObj : Pendente(j) => ServidorPost \/ srv.pedido.empresa \notin Empresas
    BY <1>6 DEF Recusa, EmpresaDesconhecida
  <2> QED
    BY <1>2, <2>1, <2>2
<1>7. CASE (\E m \in Mensagens : Recebe(m)) \/ licitar \/ emprestimo \/ emissao
           \/ LeUltimoLeilao \/ LeTaxaEmissao
  <2>1. nObj' = nObj /\ srv.pc \in {"recv", "despacha", "taxaLeilao", "taxaEmissao"}
    BY <1>7 DEF Recebe, licitar, emprestimo, emissao, LeUltimoLeilao, LeTaxaEmissao, heaps
  <2>2. srv'.pc \in {"despacha", "add", "taxaLeilao", "taxaEmissao", "cria"}
    BY <1>1, <1>7 DEF Recebe, licitar, emprestimo, emissao, LeUltimoLeilao, LeTaxaEmissao, TipoServidor
  <2> QED
    BY <2>1, <2>2
<1>8. CASE AdicionaLicitacao \/ LeIndices
  <2>1. nObj' = nObj /\ srv.pc \in {"add", "ids"} /\ srv'.pedido = srv.pedido
    BY <1>1, <1>8 DEF AdicionaLicitacao, LeIndices, heaps, TipoServidor
  <2>2. srv.pedido.tipo \in {"licitar", "emprestimo"}
    BY <1>1, <2>1 DEF InvServidor
  <2> QED
    BY <2>1, <2>2
<1>9. CASE IniciaTerminaLeilao
  <2>1. nObj' = nObj /\ srv.pc = "inicia"
    BY <1>9 DEF IniciaTerminaLeilao, heaps
  <2>2. srv'.pedido = srv.pedido /\ srv'.alvo = srv.alvo /\ srv'.pc = "publica"
    BY <1>1, <1>9 DEF IniciaTerminaLeilao, TipoServidor
  <2> QED
    BY <2>1, <2>2
<1>10. CASE ServidorPublica
  <2>1. nObj' = nObj /\ srv.pc = "publica"
    BY <1>10 DEF ServidorPublica, heaps
  <2>2. /\ srv'.pedido = srv.pedido /\ srv'.alvo = srv.alvo /\ srv'.pc \in {"ids", "post"}
        /\ srv.pedido.tipo \notin {"licitar", "emprestimo"} => srv'.pc = "post"
    BY <1>1, <1>10 DEF ServidorPublica, TipoServidor
  <2>3. srv.pedido.tipo \in {"leilao", "emissao", "licitar", "emprestimo"}
    BY <2>1 DEF InvPedido
  <2> QED
    BY <2>1, <2>2, <2>3
<1>11. CASE UNCHANGED vars \/ \E i \in Objs : PassoFio(i)
  <2>1. UNCHANGED <<srv, nObj>>
    BY <1>11, PassoDeFio DEF vars, heaps
  <2> QED
    BY <1>3, <2>1
<1> QED
  BY <1>4, <1>5, <1>6, <1>7, <1>8, <1>9, <1>10, <1>11 DEF Next, PassoServidor, PassoLocalServidor

\* An object not yet posted has no bids.
LEMMA PassoInvVazios ==
    ASSUME Indutivo, InvPedido, InvVazios, [Next]_vars
    PROVE  InvVazios'
<1> SUFFICES ASSUME NEW a \in 1 .. nObj', Pendente(a)', NEW k \in DOMAIN obj'[a].licitacoes
             PROVE  FALSE
  BY DEF InvVazios
<1>1. a \in 1 .. nObj
  BY ListaNova
<1>2. Pendente(a)
  BY <1>1, PendenteMuda
<1>3. ~ AdicionaLicitacao
  BY <1>2 DEF AdicionaLicitacao, Pendente
<1> QED
  BY <1>1, <1>2, <1>3, ListaDepois DEF InvVazios

\* A step keeps the entries of a list, though it may close one or add a bid to one.
MesmasEntradas(t, e) ==
    /\ DOMAIN Dir(t, e)' = DOMAIN Dir(t, e)
    /\ \A k \in DOMAIN Dir(t, e) :
          /\ Dir(t, e)'[k].origem = Dir(t, e)[k].origem /\ Dir(t, e)'[k].id = Dir(t, e)[k].id
          /\ Dir(t, e)'[k].montante = Dir(t, e)[k].montante
          /\ Dir(t, e)'[k].ativo => Dir(t, e)[k].ativo
          /\ t = "emissao" =>
                Len(Dir(t, e)[k].licitacoes) <= Len(Dir(t, e)'[k].licitacoes)

\* A step posts a new object.
Acrescenta(t, e) ==
    /\ PostServidor /\ ~ Licita /\ t = TipoDoPedido /\ e = srv.pedido.empresa
    /\ \E x \in TipoEntrada :
          /\ x.id = srv.idL /\ x.origem = srv.alvo /\ x.montante = obj[srv.alvo].montante
          /\ x.licitacoes = <<>>
          /\ Dir(t, e)' = Append(Dir(t, e), x)

\* The entries of one list, one of which changes.
LEMMA UmaMuda ==
    ASSUME NEW t, NEW e, Dir(t, e) \in Seq(TipoEntrada),
           NEW k \in DOMAIN Dir(t, e), NEW x \in TipoEntrada,
           Dir(t, e)' = [Dir(t, e) EXCEPT ![k] = x],
           x.origem = Dir(t, e)[k].origem, x.id = Dir(t, e)[k].id,
           x.montante = Dir(t, e)[k].montante, x.ativo => Dir(t, e)[k].ativo,
           t = "emissao" => Len(Dir(t, e)[k].licitacoes) <= Len(x.licitacoes)
    PROVE  MesmasEntradas(t, e)
<1>1. PICK s : s = Dir(t, e)
  OBVIOUS
<1>2. PICK s2 : s2 = Dir(t, e)'
  OBVIOUS
<1>3. s \in Seq(TipoEntrada) /\ k \in DOMAIN s /\ s2 = [s EXCEPT ![k] = x]
  BY <1>1, <1>2
<1>4. DOMAIN s2 = DOMAIN s /\ s2[k] = x /\ \A m \in DOMAIN s \ {k} : s2[m] = s[m]
  BY <1>3
<1>5. \A m \in DOMAIN s : s[m] \in TipoEntrada /\ Len(s[m].licitacoes) \in Nat
  <2>1. \A m \in DOMAIN s : s[m] \in TipoEntrada
    BY <1>3
  <2> QED
    BY <2>1 DEF TipoEntrada
<1>6. \A m \in DOMAIN s :
         /\ s2[m].origem = s[m].origem /\ s2[m].id = s[m].id
         /\ s2[m].montante = s[m].montante
         /\ s2[m].ativo => s[m].ativo
         /\ t = "emissao" => Len(s[m].licitacoes) <= Len(s2[m].licitacoes)
  <2> SUFFICES ASSUME NEW m \in DOMAIN s
               PROVE  /\ s2[m].origem = s[m].origem /\ s2[m].id = s[m].id
                      /\ s2[m].montante = s[m].montante
                      /\ s2[m].ativo => s[m].ativo
                      /\ t = "emissao" => Len(s[m].licitacoes) <= Len(s2[m].licitacoes)
    OBVIOUS
  <2>1. CASE m = k
    BY <1>1, <1>4, <2>1
  <2>2. CASE m # k
    BY <1>4, <1>5, <2>2
  <2> QED
    BY <2>1, <2>2
<1> QED
  BY <1>1, <1>2, <1>4, <1>6 DEF MesmasEntradas

\* The entries of an unchanged list.
LEMMA NenhumaMuda ==
    ASSUME NEW t, NEW e, Dir(t, e) \in Seq(TipoEntrada), Dir(t, e)' = Dir(t, e)
    PROVE  MesmasEntradas(t, e)
<1>1. \A k \in DOMAIN Dir(t, e) : Dir(t, e)[k] \in TipoEntrada
  OBVIOUS
<1>2. \A x \in TipoEntrada : Len(x.licitacoes) \in Nat
  BY DEF TipoEntrada
<1>3. \A k \in DOMAIN Dir(t, e) : Len(Dir(t, e)[k].licitacoes) <= Len(Dir(t, e)[k].licitacoes)
  BY <1>1, <1>2
<1> QED
  BY <1>3 DEF MesmasEntradas

\* What a step of the system may do to the directory.
LEMMA PassoEntradas ==
    ASSUME Indutivo, InvPedido, InvPut, TiposDir, [SistemaNext]_sistemaVars
    PROVE  /\ TiposDir' /\ (falhou => falhou')
           /\ \/ D!Reinicia /\ falhou' = TRUE /\ UNCHANGED vars
              \/ \A t \in Tipos, e \in Empresas : MesmasEntradas(t, e) \/ Acrescenta(t, e)
<1>1. \A t \in Tipos, e \in Empresas : Dir(t, e) \in Seq(TipoEntrada)
  BY DEF Dir, TiposDir
<1>2. CASE UNCHANGED <<dirLeiloes, dirEmissoes>> /\ (falhou' = falhou \/ falhou' = TRUE)
  <2>1. TiposDir'
    BY <1>2 DEF TiposDir
  <2>2. \A t \in Tipos, e \in Empresas : Dir(t, e)' = Dir(t, e)
    BY <1>2 DEF Dir
  <2>3. \A t \in Tipos, e \in Empresas : MesmasEntradas(t, e)
    BY <1>1, <2>2, NenhumaMuda
  <2> QED
    BY <1>2, <2>1, <2>3
<1>3. CASE PostServidor /\ ~ Licita
  <2>1. PICK x \in TipoEntrada :
              /\ x.id = srv.idL /\ x.origem = srv.alvo /\ x.montante = obj[srv.alvo].montante
              /\ x.licitacoes = <<>>
              /\ \A t \in Tipos, e \in Empresas :
                    Dir(t, e)' = IF t = TipoDoPedido /\ e = srv.pedido.empresa
                                 THEN Append(Dir(t, e), x) ELSE Dir(t, e)
              /\ falhou' = falhou
              /\ TiposDir'
    BY <1>3, EfeitoPostNovo
  <2>2. ASSUME NEW t \in Tipos, NEW e \in Empresas PROVE MesmasEntradas(t, e) \/ Acrescenta(t, e)
    <3>1. CASE t = TipoDoPedido /\ e = srv.pedido.empresa
      BY <1>3, <2>1, <3>1 DEF Acrescenta
    <3>2. CASE ~ (t = TipoDoPedido /\ e = srv.pedido.empresa)
      <4>1. Dir(t, e)' = Dir(t, e)
        BY <2>1, <3>2
      <4> QED
        BY <1>1, <4>1, NenhumaMuda
    <3> QED
      BY <3>1, <3>2
  <2> QED
    BY <2>1, <2>2
<1>4. CASE PostServidor /\ Licita
  <2>1. PICK s, k : s = Dir(TipoDoPedido, srv.pedido.empresa) /\ k = srv.idL + 1
    OBVIOUS
  <2>2. /\ TipoDoPedido \in Tipos /\ srv.pedido.empresa \in Empresas /\ TiposDir'
        /\ \/ /\ k \notin DOMAIN s /\ falhou' = TRUE
              /\ \A t \in Tipos, e \in Empresas : Dir(t, e)' = Dir(t, e)
           \/ /\ k \in DOMAIN s /\ falhou' = falhou
              /\ \E y \in TipoLicitacaoDir :
                    /\ y.origem = nLic
                    /\ \A t \in Tipos, e \in Empresas :
                          IF t = TipoDoPedido /\ e = srv.pedido.empresa
                          THEN Dir(t, e)' = [s EXCEPT ![k] = ComLicitacao(s[k], y)]
                          ELSE Dir(t, e)' = Dir(t, e)
    <3>1. /\ TipoDoPedido \in Tipos /\ srv.pedido.empresa \in Empresas /\ TiposDir'
          /\ AcrescentaLicitacao(s, k)
      BY <1>4, <2>1, EfeitoPostLicitacao
    <3> QED
      BY <3>1 DEF AcrescentaLicitacao
  <2>3. CASE k \notin DOMAIN s
    BY <1>1, <2>2, <2>3, NenhumaMuda
  <2>4. CASE k \in DOMAIN s
    <3>1. PICK y \in TipoLicitacaoDir :
             \A t \in Tipos, e \in Empresas :
                IF t = TipoDoPedido /\ e = srv.pedido.empresa
                THEN Dir(t, e)' = [s EXCEPT ![k] = ComLicitacao(s[k], y)]
                ELSE Dir(t, e)' = Dir(t, e)
      BY <2>2, <2>4
    <3>2. PICK x : x = ComLicitacao(s[k], y)
      OBVIOUS
    <3>3. ASSUME NEW t \in Tipos, NEW e \in Empresas PROVE MesmasEntradas(t, e)
      <4>1. CASE t = TipoDoPedido /\ e = srv.pedido.empresa
        <5>1. s = Dir(t, e) /\ s \in Seq(TipoEntrada) /\ s[k] \in TipoEntrada
          BY <1>1, <2>1, <2>4, <4>1
        <5>2. s[k].licitacoes \in Seq(TipoLicitacaoDir)
          BY <5>1 DEF TipoEntrada
        <5>3. /\ x \in TipoEntrada /\ x.origem = s[k].origem /\ x.id = s[k].id
              /\ x.montante = s[k].montante /\ x.ativo = s[k].ativo
              /\ Len(s[k].licitacoes) <= Len(x.licitacoes)
          <6>1. Append(s[k].licitacoes, y) \in Seq(TipoLicitacaoDir)
            BY <5>2
          <6>2. Len(s[k].licitacoes) <= Len(Append(s[k].licitacoes, y))
            BY <5>2
          <6>3. x = [s[k] EXCEPT !.licitacoes = Append(s[k].licitacoes, y)]
            BY <3>2 DEF ComLicitacao
          <6> QED
            BY <5>1, <6>1, <6>2, <6>3 DEF TipoEntrada
        <5>4. Dir(t, e)' = [Dir(t, e) EXCEPT ![k] = x]
          BY <3>1, <3>2, <4>1, <5>1
        <5> QED
          BY <2>4, <5>1, <5>3, <5>4, UmaMuda
      <4>2. CASE ~ (t = TipoDoPedido /\ e = srv.pedido.empresa)
        <5>1. Dir(t, e)' = Dir(t, e)
          BY <3>1, <4>2
        <5> QED
          BY <1>1, <5>1, NenhumaMuda
      <4> QED
        BY <4>1, <4>2
    <3> QED
      BY <2>2, <2>4, <3>3
  <2> QED
    BY <2>3, <2>4
<1>5. ASSUME NEW i \in Objs, PutFio(i)
      PROVE  /\ TiposDir' /\ (falhou => falhou')
             /\ \A t \in Tipos, e \in Empresas : MesmasEntradas(t, e)
  <2>1. PICK s, k, u, w : /\ s = Dir(obj[i].tipo, obj[i].empresa) /\ k = fio[i].idL + 1
                          /\ u = obj[i].tipo /\ w = obj[i].empresa
    OBVIOUS
  <2>2. /\ u \in Tipos /\ w \in Empresas /\ k \in Nat /\ s \in Seq(TipoEntrada)
        /\ TiposDir'
        /\ \/ /\ k \notin DOMAIN s /\ falhou' = TRUE
              /\ \A t \in Tipos, e \in Empresas : Dir(t, e)' = Dir(t, e)
           \/ /\ k \in DOMAIN s /\ falhou' = falhou
              /\ \E l \in Seq(TipoLicitacaoDir) :
                    /\ ListaDoPut(i, s[k], l)
                    /\ Dir(obj[i].tipo, obj[i].empresa)' =
                          [s EXCEPT ![k] = EntradaFechada(s[k], obj[fio[i].alvo].sucesso, FALSE, l)]
                    /\ \A t \in Tipos, e \in Empresas :
                          t # obj[i].tipo \/ e # obj[i].empresa => Dir(t, e)' = Dir(t, e)
    BY <1>5, <2>1, EfeitoPut
  <2>3. CASE k \notin DOMAIN s
    BY <1>1, <2>2, <2>3, NenhumaMuda
  <2>4. CASE k \in DOMAIN s
    <3>1. PICK l \in Seq(TipoLicitacaoDir) :
             /\ ListaDoPut(i, s[k], l)
             /\ Dir(obj[i].tipo, obj[i].empresa)' =
                   [s EXCEPT ![k] = EntradaFechada(s[k], obj[fio[i].alvo].sucesso, FALSE, l)]
             /\ \A t \in Tipos, e \in Empresas :
                   t # obj[i].tipo \/ e # obj[i].empresa => Dir(t, e)' = Dir(t, e)
      BY <2>2, <2>4
    <3>2. PICK x : x = EntradaFechada(s[k], obj[fio[i].alvo].sucesso, FALSE, l)
      OBVIOUS
    <3>3. obj[fio[i].alvo].sucesso \in BOOLEAN /\ UNCHANGED obj
      <4>1. fio[i].pc \in {"put", "escrevendo"} /\ UNCHANGED obj
        BY <1>5 DEF PutFio, FioPut, heaps
      <4>2. fio[i].alvo \in Objs
        BY <4>1 DEF Indutivo, InvFios, InvFio, TypeOK, TipoFio, Refs
      <4> QED
        BY <4>1, <4>2 DEF Indutivo, TypeOK, TipoObjeto
    <3>4. s[k] \in TipoEntrada
      BY <2>2, <2>4
    <3>5. /\ x \in TipoEntrada /\ x.origem = s[k].origem /\ x.id = s[k].id
          /\ x.montante = s[k].montante /\ x.ativo = FALSE /\ x.licitacoes = l
      BY <3>2, <3>3, <3>4 DEF TipoEntrada, EntradaFechada
    <3>6. Len(s[k].licitacoes) \in Nat
      BY <3>4 DEF TipoEntrada
    <3>7. Dir(u, w)' = [s EXCEPT ![k] = x]
      BY <2>1, <3>1, <3>2, <3>3
    <3>8. ASSUME NEW t \in Tipos, NEW e \in Empresas PROVE MesmasEntradas(t, e)
      <4>1. CASE t = u /\ e = w
        <5>1. s = Dir(t, e) /\ Dir(t, e)' = [s EXCEPT ![k] = x]
          BY <2>1, <3>7, <4>1
        <5>2. t = "emissao" => Len(s[k].licitacoes) <= Len(x.licitacoes)
          BY <2>1, <3>1, <3>5, <3>6, <4>1 DEF ListaDoPut
        <5> QED
          BY <2>2, <2>4, <3>5, <5>1, <5>2, UmaMuda
      <4>2. CASE ~ (t = u /\ e = w)
        <5>1. Dir(t, e)' = Dir(t, e)
          BY <2>1, <3>1, <4>2
        <5> QED
          BY <1>1, <5>1, NenhumaMuda
      <4> QED
        BY <4>1, <4>2
    <3>9. falhou => falhou'
      BY <2>2, <2>4
    <3> QED
      BY <2>2, <3>8, <3>9
  <2> QED
    BY <2>3, <2>4
<1>6. CASE ReiniciaDiretorio
  BY <1>6 DEF ReiniciaDiretorio, D!Reinicia, TiposDir
<1> QED
  BY <1>2, <1>3, <1>4, <1>5, <1>6 DEF SistemaNext, sistemaVars, PassoLocal, Perde

\* What is known of an entry stays true.
LEMMA EntradaFica ==
    ASSUME Indutivo, InvPedido, [Next]_vars, NEW t, NEW e, NEW x, NEW y, InvEntrada(t, e, x),
           y.origem = x.origem, y.id = x.id, y.montante = x.montante
    PROVE  /\ y.origem \in 1 .. nObj'
           /\ obj'[y.origem].tipo = t /\ obj'[y.origem].empresa = e
           /\ fio'[y.origem].pc # "nenhum" /\ ~ Pendente(y.origem)'
           /\ y.id = fio'[y.origem].idL /\ y.montante = obj'[y.origem].montante
<1>1. PICK o : o = x.origem
  OBVIOUS
<1>2. /\ o \in 1 .. nObj /\ obj[o].tipo = t /\ obj[o].empresa = e
      /\ fio[o].pc # "nenhum" /\ ~ Pendente(o)
      /\ x.id = fio[o].idL /\ x.montante = obj[o].montante
  BY <1>1 DEF InvEntrada
<1>3. /\ nObj \in Nat /\ nObj' \in Nat /\ nObj <= nObj' /\ o \in Objs
      /\ obj'[o].tipo = obj[o].tipo /\ obj'[o].empresa = obj[o].empresa
      /\ obj'[o].montante = obj[o].montante
  BY <1>2, ObjetosFicam
<1>4. fio'[o].pc # "nenhum" /\ fio'[o].idL = fio[o].idL
  BY <1>2, <1>3, FioContinua
<1>5. ~ Pendente(o)'
  BY <1>2, PendenteMuda
<1>6. /\ o \in 1 .. nObj' /\ obj'[o].tipo = t /\ obj'[o].empresa = e /\ fio'[o].pc # "nenhum"
      /\ y.id = fio'[o].idL /\ y.montante = obj'[o].montante /\ y.origem = o
  BY <1>1, <1>2, <1>3, <1>4
<1>7. ~ Pendente(y.origem)'
  BY <1>5, <1>6 DEF Pendente
<1> QED
  BY <1>6, <1>7

\* The server thread posts the objects it builds in the order it builds them, and
\* nothing else adds entries.
LEMMA PassoInvEntradas ==
    ASSUME Indutivo, InvPedido, InvPut, TiposDir, InvEntradas, [SistemaNext]_sistemaVars
    PROVE  InvEntradas'
<1>1. [Next]_vars
  BY PassoDoExchange
<1> SUFFICES ASSUME NEW t \in Tipos, NEW e \in Empresas
             PROVE  /\ \A k \in DOMAIN Dir(t, e)' : InvEntrada(t, e, Dir(t, e)[k])'
                    /\ \A k, l \in DOMAIN Dir(t, e)' :
                          k < l => Dir(t, e)'[k].origem < Dir(t, e)'[l].origem
  BY DEF InvEntradas
<1>2. PICK s : s = Dir(t, e)
  OBVIOUS
<1>3. PICK s2 : s2 = Dir(t, e)'
  OBVIOUS
<1>4. /\ \A k \in DOMAIN s : InvEntrada(t, e, s[k])
      /\ \A k, l \in DOMAIN s : k < l => s[k].origem < s[l].origem
      /\ s \in Seq(TipoEntrada)
  BY <1>2 DEF InvEntradas, Dir, TiposDir
<1> SUFFICES /\ \A k \in DOMAIN s2 : InvEntrada(t, e, s2[k])'
             /\ \A k, l \in DOMAIN s2 : k < l => s2[k].origem < s2[l].origem
  BY <1>3 DEF InvEntrada, Pendente
<1>5. ASSUME NEW k \in DOMAIN s, NEW y, y.origem = s[k].origem, y.id = s[k].id,
             y.montante = s[k].montante
      PROVE  InvEntrada(t, e, y)'
  <2>1. InvEntrada(t, e, s[k])
    BY <1>4
  <2> QED
    BY <1>1, <1>5, <2>1, EntradaFica DEF InvEntrada
<1>6. CASE D!Reinicia
  <2>1. s2 = <<>>
    BY <1>3, <1>6 DEF D!Reinicia, Dir
  <2> QED
    BY <2>1
<1>7. CASE MesmasEntradas(t, e)
  <2>1. DOMAIN s2 = DOMAIN s /\ \A k \in DOMAIN s : /\ s2[k].origem = s[k].origem
                                                   /\ s2[k].id = s[k].id
                                                   /\ s2[k].montante = s[k].montante
    BY <1>2, <1>3, <1>7 DEF MesmasEntradas
  <2>2. \A k \in DOMAIN s2 : InvEntrada(t, e, s2[k])'
    BY <1>5, <2>1
  <2> QED
    BY <1>4, <2>1, <2>2
<1>8. CASE Acrescenta(t, e)
  <2>1. PICK x \in TipoEntrada :
          /\ x.id = srv.idL /\ x.origem = srv.alvo /\ x.montante = obj[srv.alvo].montante
          /\ s2 = Append(s, x)
    BY <1>2, <1>3, <1>8 DEF Acrescenta
  <2>2. /\ DOMAIN s2 = DOMAIN s \cup {Len(s) + 1} /\ s2[Len(s) + 1] = x
        /\ DOMAIN s = 1 .. Len(s) /\ Len(s) \in Nat
        /\ \A k \in DOMAIN s : s2[k] = s[k]
    BY <1>4, <2>1
  <2>3. /\ srv.pc = "post" /\ srv' = Ocioso /\ UNCHANGED <<obj, nObj, fio>> /\ ~ Licita
        /\ t = TipoDoPedido /\ e = srv.pedido.empresa
    BY <1>8 DEF Acrescenta, PostServidor, ServidorPost, heaps
  <2>4. /\ srv.alvo \in 1 .. nObj /\ obj[srv.alvo].tipo = t /\ obj[srv.alvo].empresa = e
        /\ srv.alvo = nObj /\ fio[srv.alvo].pc # "nenhum" /\ srv.idL = fio[srv.alvo].idL
    BY <2>3 DEF InvPedido
  <2>5. InvEntrada(t, e, x)'
    <3>1. srv'.pc = "recv"
      BY <2>3 DEF Ocioso
    <3> QED
      BY <2>1, <2>3, <2>4, <3>1 DEF InvEntrada, Pendente
  <2>6. ASSUME NEW k \in DOMAIN s PROVE InvEntrada(t, e, s2[k])' /\ s2[k].origem < x.origem
    <3>1. InvEntrada(t, e, s2[k])'
      BY <1>5, <2>2
    <3>2. s[k].origem \in 1 .. nObj /\ ~ Pendente(s[k].origem) /\ nObj \in Nat
      BY <1>4, ExchangeAssumption DEF InvEntrada, Indutivo, TypeOK
    <3>3. Pendente(srv.alvo)
      BY <2>3 DEF Pendente
    <3>4. s[k].origem # srv.alvo
      BY <3>2, <3>3
    <3> QED
      BY <2>1, <2>2, <2>4, <3>1, <3>2, <3>4
  <2>7. \A k \in DOMAIN s2 : InvEntrada(t, e, s2[k])'
    <3> TAKE k \in DOMAIN s2
    <3>1. CASE k \in DOMAIN s
      BY <2>6, <3>1
    <3>2. CASE k = Len(s) + 1
      <4>1. s2[k] = x
        BY <2>2, <3>2
      <4> QED
        BY <2>5, <4>1 DEF InvEntrada, Pendente
    <3> QED
      BY <2>2, <3>1, <3>2
  <2>8. \A k, l \in DOMAIN s2 : k < l => s2[k].origem < s2[l].origem
    <3> SUFFICES ASSUME NEW k \in DOMAIN s2, NEW l \in DOMAIN s2, k < l
                 PROVE  s2[k].origem < s2[l].origem
      OBVIOUS
    <3>1. k \in DOMAIN s
      BY <2>2
    <3>2. CASE l \in DOMAIN s
      BY <1>4, <2>2, <3>1, <3>2
    <3>3. CASE l = Len(s) + 1
      BY <2>2, <2>6, <3>1, <3>3
    <3> QED
      BY <2>2, <3>2, <3>3
  <2> QED
    BY <2>7, <2>8
<1> QED
  BY <1>6, <1>7, <1>8, PassoEntradas

\* What is known of the exchange.
IndExchange == /\ Indutivo /\ AbertoDorme /\ Travessias /\ InvSelecao /\ InvPedido /\ InvUltimos
               /\ InvIndices /\ InvPut /\ InvIndice /\ InvListados /\ InvVazios

\* It holds at the start ...
LEMMA IndExchangeInicio == Init => IndExchange
<1> SUFFICES ASSUME Init PROVE IndExchange
  OBVIOUS
<1>1. Indutivo
  BY InicioIndutivo
<1>2. \A i \in Objs : fio[i].pc = "nenhum" /\ fio[i].lista = FALSE
  BY DEF Init, PorIniciar
<1>3. /\ \A e \in Nomes : leiloes[e] = Nulo /\ emissoes[e] = Nulo
      /\ srv.pc = "recv" /\ 1 .. nObj = {}
  BY DEF Init, Ocioso
<1>4. AbertoDorme /\ Travessias /\ InvSelecao /\ InvIndices /\ InvPut
  BY <1>2, <1>3 DEF AbertoDorme, Travessias, InvSelecao, InvIndices, Iniciado, InvPut
<1>5. InvPedido /\ InvUltimos /\ InvIndice /\ InvListados /\ InvVazios
  BY <1>3 DEF InvPedido, InvUltimos, Mapa, InvIndice, InvListados, InvVazios
<1> QED
  BY <1>1, <1>4, <1>5 DEF IndExchange

\* ... is preserved by every step of the system ...
LEMMA IndExchangePasso == IndExchange /\ [SistemaNext]_sistemaVars => IndExchange'
  BY PassoDoExchange, PassoIndutivo, PassoAbertoDorme, PassoTravessias, PassoInvSelecao,
     PassoInvPedido, PassoInvUltimos, PassoInvIndices, PassoInvPut, PassoInvIndice, PassoInvListados,
     PassoInvVazios
  DEF IndExchange

\* ... and so holds always.
LEMMA IndExchangeSempre == SistemaSpec => []IndExchange
  BY IndExchangeInicio, IndExchangePasso, PTL DEF SistemaSpec, SistemaInit

\* The directory starts empty.
LEMMA DirInicio ==
    ASSUME D!DirInit, falhou = FALSE
    PROVE  TiposDir /\ \A t \in Tipos, e \in Empresas : Dir(t, e) = <<>>
<1>1. <<>> \in Seq(TipoEntrada)
  OBVIOUS
<1>2. TiposDir
  BY <1>1 DEF D!DirInit, TiposDir
<1> QED
  BY <1>2 DEF D!DirInit, Dir

\* The directory lists the auctions and the issues of a company in the order they were
\* built and each at most once, with indices that never decrease, whatever requests
\* are lost and whenever the directory is restarted.
THEOREM DiretorioSempreOrdenado == SistemaSpec => []DiretorioOrdenado
<1> DEFINE I == TiposDir /\ InvEntradas
<1>1. SistemaInit => I
  <2> SUFFICES ASSUME SistemaInit PROVE I
    OBVIOUS
  <2>1. TiposDir /\ \A t \in Tipos, e \in Empresas : Dir(t, e) = <<>>
    BY DirInicio DEF SistemaInit
  <2> QED
    BY <2>1 DEF InvEntradas
<1>2. IndExchange /\ I /\ [SistemaNext]_sistemaVars => I'
  BY PassoEntradas, PassoInvEntradas DEF IndExchange
<1>3. IndExchange /\ I => DiretorioOrdenado
  <2> SUFFICES ASSUME IndExchange, I, NEW t \in Tipos, NEW e \in Empresas,
                      NEW k \in DOMAIN Dir(t, e), NEW l \in DOMAIN Dir(t, e), k < l
               PROVE  /\ Dir(t, e)[k].origem < Dir(t, e)[l].origem
                      /\ Dir(t, e)[k].id <= Dir(t, e)[l].id
    BY DEF DiretorioOrdenado, Dir, Tipos
  <2>1. Dir(t, e)[k].origem < Dir(t, e)[l].origem
    BY DEF InvEntradas
  <2>2. InvEntrada(t, e, Dir(t, e)[k]) /\ InvEntrada(t, e, Dir(t, e)[l])
    BY DEF InvEntradas
  <2>3. PICK i, j : i = Dir(t, e)[k].origem /\ j = Dir(t, e)[l].origem
    OBVIOUS
  <2>4. 1 .. nObj \subseteq Objs
    BY ExchangeAssumption DEF IndExchange, Indutivo, TypeOK, Objs
  <2>5. i \in Objs /\ j \in Objs /\ Iniciado(i, t, e) /\ Iniciado(j, t, e) /\ i < j
    BY <2>1, <2>2, <2>3, <2>4 DEF InvEntrada, Iniciado
  <2>6. fio[i].idL <= fio[j].idL
    BY <2>5 DEF IndExchange, InvIndices
  <2> QED
    BY <2>1, <2>2, <2>3, <2>6 DEF InvEntrada
<1> QED
  BY <1>1, <1>2, <1>3, IndExchangeSempre, PTL DEF SistemaSpec

\* Queries stay answered: an entry once found at a position is found there for ever
\* while the directory runs, with its id and amount, is never reopened, and no loan to
\* an issue disappears, however POSTs and PUTs interleave.
THEOREM ConsultasSempreEstaveis == SistemaSpec => ConsultasEstaveis
<1>1. ASSUME IndExchange, TiposDir, [SistemaNext]_sistemaVars
      PROVE  [\/ D!Reinicia
              \/ \A e \in Empresas :
                    /\ \A id \in 0 .. Len(dirLeiloes[e]) - 1 : D!Mantem(dirLeiloes, e, id)
                    /\ \A id \in 0 .. Len(dirEmissoes[e]) - 1 :
                          /\ D!Mantem(dirEmissoes, e, id)
                          /\ \A b \in 0 .. Len(dirEmissoes[e][id + 1].licitacoes) - 1 :
                                D!getLicitacao(dirEmissoes', e, id, b) = 200]_(D!dirVars)
  <2>1. TiposDir' /\ (D!Reinicia \/ \A t \in Tipos, e \in Empresas :
                                        MesmasEntradas(t, e) \/ Acrescenta(t, e))
    BY <1>1, PassoEntradas DEF IndExchange
  <2> SUFFICES ASSUME ~ D!Reinicia, NEW e \in Empresas
               PROVE  /\ \A id \in 0 .. Len(dirLeiloes[e]) - 1 : D!Mantem(dirLeiloes, e, id)
                      /\ \A id \in 0 .. Len(dirEmissoes[e]) - 1 :
                          /\ D!Mantem(dirEmissoes, e, id)
                          /\ \A b \in 0 .. Len(dirEmissoes[e][id + 1].licitacoes) - 1 :
                                D!getLicitacao(dirEmissoes', e, id, b) = 200
    OBVIOUS
  <2>2. ASSUME NEW t \in Tipos, NEW k \in DOMAIN Dir(t, e)
        PROVE  /\ k \in Nat /\ 1 <= k /\ k <= Len(Dir(t, e)') /\ Len(Dir(t, e)') \in Nat
               /\ Dir(t, e)'[k].id = Dir(t, e)[k].id
               /\ Dir(t, e)'[k].montante = Dir(t, e)[k].montante
               /\ Dir(t, e)'[k].ativo => Dir(t, e)[k].ativo
               /\ Len(Dir(t, e)[k].licitacoes) \in Nat
               /\ Len(Dir(t, e)'[k].licitacoes) \in Nat
               /\ t = "emissao" => Len(Dir(t, e)[k].licitacoes) <= Len(Dir(t, e)'[k].licitacoes)
    <3>1. PICK s, s2 : s = Dir(t, e) /\ s2 = Dir(t, e)'
      OBVIOUS
    <3>2. s \in Seq(TipoEntrada) /\ s2 \in Seq(TipoEntrada) /\ k \in DOMAIN s
      BY <1>1, <2>1, <2>2, <3>1 DEF TiposDir, Dir
    <3>3. \A x \in TipoEntrada : Len(x.licitacoes) \in Nat
      BY DEF TipoEntrada
    <3>4. CASE MesmasEntradas(t, e)
      <4>1. k \in DOMAIN s2
        BY <3>1, <3>2, <3>4 DEF MesmasEntradas
      <4>2. s[k] \in TipoEntrada /\ s2[k] \in TipoEntrada /\ k \in Nat /\ 1 <= k /\ k <= Len(s2)
        BY <3>2, <4>1
      <4> QED
        BY <3>1, <3>2, <3>3, <3>4, <4>2 DEF MesmasEntradas
    <3>5. CASE Acrescenta(t, e)
      <4>1. PICK x \in TipoEntrada : s2 = Append(s, x)
        BY <3>1, <3>5 DEF Acrescenta
      <4>2. s2[k] = s[k] /\ s[k] \in TipoEntrada /\ k \in Nat /\ 1 <= k /\ k <= Len(s2)
        BY <3>2, <4>1
      <4>3. Len(s[k].licitacoes) \in Nat
        BY <3>3, <4>2
      <4> QED
        BY <3>1, <3>2, <4>2, <4>3
    <3> QED
      BY <2>1, <3>4, <3>5
  <2>3. "leilao" \in Tipos /\ "emissao" \in Tipos
    BY DEF Tipos
  <2>4. /\ dirLeiloes[e] = Dir("leilao", e) /\ dirLeiloes'[e] = Dir("leilao", e)'
        /\ dirEmissoes[e] = Dir("emissao", e) /\ dirEmissoes'[e] = Dir("emissao", e)'
        /\ dirLeiloes[e] \in Seq(TipoEntrada) /\ dirEmissoes[e] \in Seq(TipoEntrada)
    BY <1>1 DEF Dir, TiposDir
  <2>5. ASSUME NEW id \in 0 .. Len(dirLeiloes[e]) - 1 PROVE D!Mantem(dirLeiloes, e, id)
    <3>1. id + 1 \in DOMAIN Dir("leilao", e) /\ id \in Nat
      BY <2>4
    <3>2. /\ id + 1 <= Len(dirLeiloes'[e]) /\ Len(dirLeiloes'[e]) \in Nat
          /\ dirLeiloes'[e][id + 1].id = dirLeiloes[e][id + 1].id
          /\ dirLeiloes'[e][id + 1].montante = dirLeiloes[e][id + 1].montante
          /\ dirLeiloes'[e][id + 1].ativo => dirLeiloes[e][id + 1].ativo
      BY <2>2, <2>3, <2>4, <3>1
    <3>3. D!getEntrada(dirLeiloes', e, id) = 200
      BY <3>1, <3>2 DEF D!getEntrada, D!Posicao
    <3> QED
      BY <3>2, <3>3 DEF D!Mantem
  <2>6. ASSUME NEW id \in 0 .. Len(dirEmissoes[e]) - 1
        PROVE  /\ D!Mantem(dirEmissoes, e, id)
               /\ \A b \in 0 .. Len(dirEmissoes[e][id + 1].licitacoes) - 1 :
                     D!getLicitacao(dirEmissoes', e, id, b) = 200
    <3>1. id + 1 \in DOMAIN Dir("emissao", e) /\ id \in Nat
      BY <2>4
    <3>2. /\ id + 1 <= Len(dirEmissoes'[e]) /\ Len(dirEmissoes'[e]) \in Nat
          /\ dirEmissoes'[e][id + 1].id = dirEmissoes[e][id + 1].id
          /\ dirEmissoes'[e][id + 1].montante = dirEmissoes[e][id + 1].montante
          /\ dirEmissoes'[e][id + 1].ativo => dirEmissoes[e][id + 1].ativo
          /\ Len(dirEmissoes[e][id + 1].licitacoes) \in Nat
          /\ Len(dirEmissoes'[e][id + 1].licitacoes) \in Nat
          /\ Len(dirEmissoes[e][id + 1].licitacoes) <= Len(dirEmissoes'[e][id + 1].licitacoes)
      BY <2>2, <2>3, <2>4, <3>1
    <3>3. D!getEntrada(dirEmissoes', e, id) = 200
      BY <3>1, <3>2 DEF D!getEntrada, D!Posicao
    <3>4. ASSUME NEW b \in 0 .. Len(dirEmissoes[e][id + 1].licitacoes) - 1
          PROVE  D!getLicitacao(dirEmissoes', e, id, b) = 200
      <4>1. \A n, m \in Nat : n <= m /\ b \in 0 .. n - 1 => b \in Int /\ 0 <= b /\ b < m
        OBVIOUS
      <4>2. b \in Int /\ 0 <= b /\ b < Len(dirEmissoes'[e][id + 1].licitacoes)
        BY <3>2, <3>4, <4>1, Zenon
      <4>3. D!getLicitacao(dirEmissoes', e, id, b) =
               D!Posicao(b, Len(dirEmissoes'[e][id + 1].licitacoes))
        BY <3>3 DEF D!getLicitacao
      <4> QED
        BY <3>2, <4>2, <4>3 DEF D!Posicao
    <3> QED
      BY <3>2, <3>3, <3>4 DEF D!Mantem
  <2> QED
    BY <2>5, <2>6
<1>2. SistemaInit => TiposDir
  BY DirInicio DEF SistemaInit
<1>3. IndExchange /\ TiposDir /\ [SistemaNext]_sistemaVars => TiposDir'
  BY PassoEntradas DEF IndExchange
<1> QED
  BY <1>1, <1>2, <1>3, IndExchangeSempre, PTL DEF SistemaSpec, ConsultasEstaveis, D!ConsultaEstavel

-----------------------------------------------------------------------------
(* The position of an entry.                                               *)

\* The objects of the same kind and company built before object i.
Anteriores(i) == {j \in 1 .. i - 1 : obj[j].tipo = obj[i].tipo /\ obj[j].empresa = obj[i].empresa}

\* The order of an object counts them.
LEMMA OrdemConta ==
    ASSUME Indutivo, NEW i \in 1 .. nObj
    PROVE  /\ Ordem(i) = Cardinality(Anteriores(i)) /\ IsFiniteSet(Anteriores(i))
           /\ Ordem(i) \in Nat
<1>1. i \in Nat
  BY ExchangeAssumption DEF Indutivo, TypeOK
<1>2. Ordem(i) = Cardinality(Anteriores(i))
  BY DEF Ordem, Anteriores
<1>3. IsFiniteSet(1 .. i - 1)
  BY <1>1, FS_Interval
<1>4. Anteriores(i) \in SUBSET (1 .. i - 1)
  BY DEF Anteriores
<1>5. IsFiniteSet(Anteriores(i)) /\ Cardinality(Anteriores(i)) \in Nat
  BY <1>3, <1>4, FS_Subset, FS_CardinalityType
<1> QED
  BY <1>2, <1>5

\* Different objects of a kind and company differ in order.
LEMMA OrdemEstrita ==
    ASSUME Indutivo, NEW i \in 1 .. nObj, NEW j \in 1 .. nObj, Iguais(i, j), i < j
    PROVE  Ordem(i) < Ordem(j)
<1>1. i \in Nat /\ j \in Nat
  BY ExchangeAssumption DEF Indutivo, TypeOK
<1>2. PICK P, Q : P = Anteriores(i) /\ Q = Anteriores(j)
  OBVIOUS
<1>3. /\ Ordem(i) = Cardinality(P) /\ IsFiniteSet(P) /\ Ordem(i) \in Nat
      /\ Ordem(j) = Cardinality(Q) /\ IsFiniteSet(Q) /\ Ordem(j) \in Nat
  BY <1>2, OrdemConta
<1>4. i \notin P
  BY <1>1, <1>2 DEF Anteriores
<1>5. P \cup {i} \in SUBSET Q
  BY <1>1, <1>2 DEF Anteriores, Iguais
<1>6. Cardinality(P \cup {i}) = Cardinality(P) + 1
  BY <1>3, <1>4, FS_AddElement
<1>7. Cardinality(P \cup {i}) <= Cardinality(Q)
  BY <1>3, <1>5, FS_Subset
<1> QED
  BY <1>3, <1>6, <1>7

\* Objects keep their order.
LEMMA OrdemFica ==
    ASSUME Indutivo, [Next]_vars, NEW i \in 1 .. nObj
    PROVE  /\ Ordem(i)' = Ordem(i) /\ Ordem(i) \in Nat
           /\ Ordem(i) = Cardinality(Anteriores(i)) /\ IsFiniteSet(Anteriores(i))
<1>1. /\ nObj \in Nat
      /\ \A j \in 1 .. nObj : obj'[j].tipo = obj[j].tipo /\ obj'[j].empresa = obj[j].empresa
  BY ObjetosFicam
<1>2. i \in Nat /\ \A j \in 1 .. i - 1 : j \in 1 .. nObj
  BY <1>1
<1>3. Anteriores(i)' = Anteriores(i)
  BY <1>1, <1>2 DEF Anteriores
<1>4. Ordem(i) = Cardinality(Anteriores(i)) /\ Ordem(i)' = Cardinality(Anteriores(i)')
  BY DEF Ordem, Anteriores
<1> QED
  BY <1>3, <1>4, OrdemConta

\* A call of the directory from the server thread that does not fail reaches it.
LEMMA PostSemFalha ==
    ASSUME Indutivo, [SistemaNext]_sistemaVars, ~ falhou', ServidorPost
    PROVE  PostServidor
<1>1. srv.pc = "post" /\ srv' = Ocioso /\ srv'.pc = "recv"
  BY DEF ServidorPost, Ocioso
<1>2. CASE PassoLocal
  <2>1. CASE \E m \in Mensagens : Recebe(m)
    BY <1>1, <2>1 DEF Recebe
  <2>2. CASE \E j \in Objs : PassoLocalFio(j)
    <3>1. srv' = srv
      BY <2>2, PassoDeFio DEF PassoFio
    <3> QED
      BY <1>1, <3>1
  <2>3. CASE PassoLocalServidor
    BY <1>1, <2>3 DEF PassoLocalServidor, Recusa, licitar, emprestimo, AdicionaLicitacao,
       LeIndices, leilao, IniciaTerminaLeilao, EmpresaDesconhecida, emissao, LeUltimoLeilao,
       LeTaxaEmissao, CriaEmissao, ServidorPublica
  <2> QED
    BY <1>2, <2>1, <2>2, <2>3 DEF PassoLocal
<1>3. ASSUME NEW j \in Objs, FioPut(j) PROVE FALSE
  BY <1>1, <1>3, PassoDeFio DEF PassoFio
<1>4. CASE UNCHANGED vars
  BY <1>1, <1>4 DEF vars
<1> QED
  BY <1>2, <1>3, <1>4 DEF SistemaNext, sistemaVars, Perde, PutFio, ReiniciaDiretorio

\* A step that neither fails nor posts an object of a kind and company leaves those
\* posted as they are.
LEMMA PublicadosFicam ==
    ASSUME Indutivo, InvPedido, TiposDir, [SistemaNext]_sistemaVars, ~ falhou',
           NEW t \in Tipos, NEW e \in Empresas, ~ Acrescenta(t, e)
    PROVE  Publicados(t, e)' = Publicados(t, e)
<1>1. [Next]_vars
  BY PassoDoExchange
<1>2. /\ nObj \in Nat /\ nObj' \in Nat /\ nObj <= nObj'
      /\ \A j \in 1 .. nObj : obj'[j].tipo = obj[j].tipo /\ obj'[j].empresa = obj[j].empresa
  BY <1>1, ObjetosFicam
<1>3. /\ \A j \in 1 .. nObj : Pendente(j)' => Pendente(j)
      /\ \A j \in 1 .. nObj : Pendente(j) =>
            Pendente(j)' \/ ServidorPost \/ srv.pedido.empresa \notin Empresas
      /\ \A j \in 1 .. nObj' : j \notin 1 .. nObj => Pendente(j)'
  BY <1>1, PendenteMuda
<1>4. ASSUME NEW j \in 1 .. nObj, Pendente(j), ~ Pendente(j)', obj[j].tipo = t, obj[j].empresa = e
      PROVE  FALSE
  <2>1. /\ srv.pc \in {"inicia", "publica", "post"} /\ ~ Licita /\ srv.alvo = j
        /\ t = TipoDoPedido /\ e = srv.pedido.empresa
    BY <1>4 DEF Pendente, InvPedido
  <2>2. ServidorPost /\ srv.pc = "post" /\ srv'.pc = "recv"
    BY <1>3, <1>4, <2>1 DEF ServidorPost, Ocioso
  <2>3. PostServidor
    BY <2>2, PostSemFalha
  <2>4. \E x \in TipoEntrada :
              /\ x.id = srv.idL /\ x.origem = srv.alvo /\ x.montante = obj[srv.alvo].montante
              /\ x.licitacoes = <<>>
              /\ Dir(t, e)' = Append(Dir(t, e), x)
    BY <2>1, <2>3, EfeitoPostNovo
  <2> QED
    BY <2>1, <2>3, <2>4 DEF Acrescenta
<1>5. \A j \in 1 .. nObj : obj[j].tipo = t /\ obj[j].empresa = e => (Pendente(j) <=> Pendente(j)')
  BY <1>3, <1>4
<1>6. ASSUME NEW j \in Publicados(t, e)' PROVE j \in Publicados(t, e)
  <2>1. j \in 1 .. nObj' /\ ~ Pendente(j)' /\ obj'[j].tipo = t /\ obj'[j].empresa = e
    BY <1>6 DEF Publicados, Pendente
  <2>2. j \in 1 .. nObj
    BY <1>3, <2>1
  <2> QED
    BY <1>2, <1>5, <2>1, <2>2 DEF Publicados
<1>7. ASSUME NEW j \in Publicados(t, e) PROVE j \in Publicados(t, e)'
  <2>1. j \in 1 .. nObj /\ ~ Pendente(j) /\ obj[j].tipo = t /\ obj[j].empresa = e
    BY <1>7 DEF Publicados
  <2>2. ~ Pendente(j)' /\ j \in 1 .. nObj' /\ obj'[j].tipo = t /\ obj'[j].empresa = e
    BY <1>2, <1>3, <2>1
  <2> QED
    BY <2>2 DEF Publicados, Pendente
<1> QED
  BY <1>6, <1>7

\* When an object is posted, those posted before are exactly its predecessors.
LEMMA PublicadosCrescem ==
    ASSUME Indutivo, InvPedido, NEW t, NEW e, Acrescenta(t, e)
    PROVE  /\ nObj \in 1 .. nObj /\ srv.alvo = nObj /\ nObj \in Nat
           /\ Publicados(t, e) = Anteriores(nObj)
           /\ Publicados(t, e)' = Publicados(t, e) \cup {nObj} /\ nObj \notin Publicados(t, e)
<1>1. /\ srv.pc = "post" /\ srv' = Ocioso /\ UNCHANGED <<obj, nObj>> /\ ~ Licita
      /\ t = TipoDoPedido /\ e = srv.pedido.empresa
  BY DEF Acrescenta, PostServidor, ServidorPost, heaps
<1>2. /\ srv.alvo \in 1 .. nObj /\ srv.alvo = nObj /\ nObj \in Nat
      /\ obj[nObj].tipo = t /\ obj[nObj].empresa = e
  BY <1>1, ExchangeAssumption DEF InvPedido, Indutivo, TypeOK
<1>3. \A j : Pendente(j) <=> j = nObj
  BY <1>1, <1>2 DEF Pendente
<1>4. \A j : ~ Pendente(j)'
  BY <1>1 DEF Pendente, Ocioso
<1>5. Publicados(t, e) = Anteriores(nObj)
  BY <1>2, <1>3 DEF Publicados, Anteriores
<1>6. Publicados(t, e)' = Publicados(t, e) \cup {nObj}
  <2>1. Publicados(t, e)' = {j \in 1 .. nObj : obj[j].tipo = t /\ obj[j].empresa = e}
    BY <1>1, <1>4 DEF Publicados
  <2> QED
    BY <1>2, <1>3, <2>1 DEF Publicados
<1> QED
  BY <1>2, <1>3, <1>5, <1>6 DEF Publicados

\* As long as no request failed, the position of an entry is the order of its object.
LEMMA PassoInvPosicoes ==
    ASSUME Indutivo, InvPedido, InvPut, TiposDir, InvPosicoes, [SistemaNext]_sistemaVars
    PROVE  InvPosicoes'
<1>1. [Next]_vars
  BY PassoDoExchange
<1>2. Indutivo'
  BY <1>1, PassoIndutivo
<1>3. TiposDir' /\ (falhou => falhou')
  BY PassoEntradas
<1> SUFFICES ASSUME ~ falhou', NEW t \in Tipos, NEW e \in Empresas
             PROVE  /\ Len(Dir(t, e)') = Cardinality(Publicados(t, e)')
                    /\ \A j \in Publicados(t, e)' :
                          /\ Ordem(j)' + 1 \in DOMAIN Dir(t, e)'
                          /\ Dir(t, e)'[Ordem(j)' + 1].origem = j
  BY DEF InvPosicoes
<1>4. PICK s, s2, P, P2 : /\ s = Dir(t, e) /\ s2 = Dir(t, e)'
                          /\ P = Publicados(t, e) /\ P2 = Publicados(t, e)'
  OBVIOUS
<1>5. s \in Seq(TipoEntrada) /\ s2 \in Seq(TipoEntrada)
  BY <1>3, <1>4 DEF Dir, TiposDir
<1>6. /\ Len(s) = Cardinality(P)
      /\ \A j \in P : Ordem(j) + 1 \in DOMAIN s /\ s[Ordem(j) + 1].origem = j
  BY <1>3, <1>4 DEF InvPosicoes
<1>7. P \subseteq 1 .. nObj
  BY <1>4 DEF Publicados
<1>8. \A j \in P : Ordem(j)' = Ordem(j) /\ Ordem(j) \in Nat
  BY <1>1, <1>7, OrdemFica
<1>10. CASE Acrescenta(t, e)
  <2>1. PICK x \in TipoEntrada : x.origem = srv.alvo /\ s2 = Append(s, x)
    BY <1>4, <1>10 DEF Acrescenta
  <2>2. /\ nObj \in 1 .. nObj /\ srv.alvo = nObj /\ nObj \in Nat
        /\ P = Anteriores(nObj) /\ P2 = P \cup {nObj} /\ nObj \notin P
    BY <1>4, <1>10, PublicadosCrescem
  <2>3. /\ Ordem(nObj)' = Ordem(nObj) /\ Ordem(nObj) \in Nat
        /\ Ordem(nObj) = Cardinality(P) /\ IsFiniteSet(P)
    <3>1. PICK n : n = nObj
      OBVIOUS
    <3>2. /\ Ordem(n)' = Ordem(n) /\ Ordem(n) \in Nat
          /\ Ordem(n) = Cardinality(Anteriores(n)) /\ IsFiniteSet(Anteriores(n))
      BY <1>1, <2>2, <3>1, OrdemFica
    <3>3. UNCHANGED nObj
      BY <1>10 DEF Acrescenta, PostServidor, ServidorPost, heaps
    <3>4. Ordem(nObj)' = Ordem(n)'
      BY <3>1, <3>3 DEF Ordem
    <3> QED
      BY <2>2, <3>1, <3>2, <3>4
  <2>4. Cardinality(P2) = Cardinality(P) + 1
    BY <2>2, <2>3, FS_AddElement
  <2>5. Len(s2) = Len(s) + 1 /\ s2[Len(s) + 1] = x /\ \A k \in DOMAIN s : k \in DOMAIN s2 /\ s2[k] = s[k]
    BY <1>5, <2>1
  <2>6. Len(s2) = Cardinality(P2)
    BY <1>6, <2>4, <2>5
  <2>7. ASSUME NEW j \in P2 PROVE Ordem(j)' + 1 \in DOMAIN s2 /\ s2[Ordem(j)' + 1].origem = j
    <3>1. CASE j \in P
      BY <1>6, <1>8, <2>5, <3>1
    <3>2. CASE j = nObj
      <4>1. Ordem(j)' = Len(s)
        <5>1. UNCHANGED nObj
          BY <1>10 DEF Acrescenta, PostServidor, ServidorPost, heaps
        <5>2. Ordem(j)' = Ordem(nObj)'
          BY <3>2, <5>1 DEF Ordem
        <5> QED
          BY <1>6, <2>3, <5>2
      <4>2. Len(s) + 1 \in DOMAIN s2
        BY <1>5, <2>1
      <4> QED
        BY <2>1, <2>2, <2>5, <3>2, <4>1, <4>2
    <3> QED
      BY <2>2, <3>1, <3>2
  <2> QED
    BY <1>4, <2>6, <2>7
<1>11. CASE ~ Acrescenta(t, e)
  <2>1. MesmasEntradas(t, e)
    BY <1>11, PassoEntradas
  <2>2. P2 = P
    BY <1>4, <1>11, PublicadosFicam
  <2>3. DOMAIN s2 = DOMAIN s /\ \A k \in DOMAIN s : s2[k].origem = s[k].origem
    BY <1>4, <2>1 DEF MesmasEntradas
  <2>4. Len(s2) = Len(s)
    BY <1>5, <2>3
  <2> QED
    BY <1>4, <1>6, <1>8, <2>2, <2>3, <2>4
<1> QED
  BY <1>10, <1>11

-----------------------------------------------------------------------------
(* Without a collision of indices, each thread closes its own object.      *)

\* The condition is about all objects of a kind and company.
LEMMA SemColisaoIguais ==
    ASSUME NEW i, NEW j, Iguais(i, j)
    PROVE  SemColisao(i) <=> SemColisao(j)
  BY DEF Iguais, SemColisao

\* Indices are given once: a collision stays.
LEMMA SemColisaoFica ==
    ASSUME Indutivo, [Next]_vars, NEW i \in 1 .. nObj, SemColisao(i)'
    PROVE  SemColisao(i)
<1>1. /\ nObj \in Nat /\ 1 .. nObj \subseteq Objs
      /\ \A j \in 1 .. nObj : obj'[j].tipo = obj[j].tipo /\ obj'[j].empresa = obj[j].empresa
  BY ObjetosFicam
<1> SUFFICES ASSUME NEW j \in Objs, fio[j].pc # "nenhum",
                    obj[j].tipo = obj[i].tipo, obj[j].empresa = obj[i].empresa
             PROVE  fio[j].idL = Ordem(j)
  BY DEF SemColisao
<1>2. j \in 1 .. nObj
  BY <1>1 DEF Indutivo, InvFios, InvFio, Objs
<1>3. fio'[j].pc # "nenhum" /\ fio'[j].idL = fio[j].idL
  BY FioContinua
<1>4. Ordem(j)' = Ordem(j)
  BY <1>2, OrdemFica
<1>5. obj'[j].tipo = obj'[i].tipo /\ obj'[j].empresa = obj'[i].empresa
  BY <1>1, <1>2
<1>6. fio'[j].idL = Ordem(j)'
  BY <1>3, <1>5 DEF SemColisao
<1> QED
  BY <1>3, <1>4, <1>6

\* An issue that is given its order as index follows issues that were all archived:
\* their threads have woken.
LEMMA AnterioresAcordaram ==
    ASSUME Indutivo, InvProprio, NEW i \in Nat, i = nObj + 1, NEW e \in Empresas,
           Len(historicoEmissoes[e]) =
              Cardinality({j \in 1 .. nObj : obj[j].tipo = "emissao" /\ obj[j].empresa = e}),
           \A j \in Objs : Iniciado(j, "emissao", e) => fio[j].idL = Ordem(j),
           NEW j \in 1 .. nObj, obj[j].tipo = "emissao", obj[j].empresa = e
    PROVE  fio[j].pc # "dorme"
<1>1. TypeOK /\ InvFios /\ InvHistorico /\ HistoricoFiel /\ nObj \in Nat /\ 1 .. nObj \subseteq Objs
  BY ExchangeAssumption DEF Indutivo, TypeOK, Objs
<1>2. PICK h, T : /\ h = historicoEmissoes[e]
                  /\ T = {k \in 1 .. nObj : obj[k].tipo = "emissao" /\ obj[k].empresa = e}
  OBVIOUS
<1>3. /\ h \in Seq(Objs) /\ Len(h) \in Nat /\ Len(h) = Cardinality(T)
      /\ \A k, l \in DOMAIN h : h[k] = h[l] => k = l
      /\ \A k \in DOMAIN h : /\ obj[h[k]].tipo = "emissao" /\ obj[h[k]].empresa = e
                             /\ \E m \in Objs : Arquivou(m) /\ fio[m].alvo = h[k]
  <2>1. h \in Seq(Objs)
    BY <1>1, <1>2 DEF TypeOK
  <2>2. Len(h) \in Nat
    BY <2>1
  <2>3. Len(h) = Cardinality(T)
    BY <1>2
  <2>4. \A k, l \in DOMAIN h : h[k] = h[l] => k = l
    BY <1>1, <1>2 DEF HistoricoFiel
  <2>5. \A k \in DOMAIN h : obj[h[k]].tipo = "emissao" /\ obj[h[k]].empresa = e
    BY <1>1, <1>2 DEF HistoricoFiel
  <2>6. \A k \in DOMAIN h : \E m \in Objs : Arquivou(m) /\ fio[m].alvo = h[k]
    BY <1>1, <1>2 DEF InvHistorico
  <2> QED
    BY <2>1, <2>2, <2>3, <2>4, <2>5, <2>6
<1>4. \A k \in DOMAIN h : h[k] \in T
  <2> TAKE k \in DOMAIN h
  <2>1. PICK m \in Objs : fio[m].alvo = h[k]
    BY <1>3
  <2>2. h[k] \in Objs /\ h[k] # Nulo
    <3>1. h[k] \in Objs
      BY <1>3
    <3> QED
      BY <3>1 DEF Objs
  <2>3. h[k] <= nObj
    BY <1>1, <2>1, <2>2 DEF InvFios, InvFio
  <2> QED
    BY <1>1, <1>2, <1>3, <2>2, <2>3 DEF Objs
<1>5. IsFiniteSet(T)
  <2>1. IsFiniteSet(1 .. nObj)
    BY <1>1, FS_Interval
  <2>2. T \in SUBSET (1 .. nObj)
    BY <1>2
  <2> QED
    BY <2>1, <2>2, FS_Subset
<1>6. PICK f : f = [k \in 1 .. Len(h) |-> h[k]]
  OBVIOUS
<1>7. f \in Injection(1 .. Len(h), T)
  BY <1>3, <1>4, <1>6 DEF Injection, IsInjective
<1>8. Cardinality(1 .. Len(h)) = Len(h)
  BY <1>3, FS_Interval
<1>9. f \in Surjection(1 .. Len(h), T)
  BY <1>3, <1>5, <1>7, <1>8, FS_Injection
<1>10. PICK k \in 1 .. Len(h) : h[k] = j
  BY <1>2, <1>6, <1>9 DEF Surjection
<1>11. PICK m \in Objs : Arquivou(m) /\ fio[m].alvo = j
  BY <1>3, <1>10
<1>12. m = j
  <2>1. fio[m].alvo # Nulo /\ fio[m].pc # "nenhum"
    BY <1>1, <1>11 DEF InvFios, InvFio, Objs
  <2>2. obj[m].tipo = "emissao" /\ obj[m].empresa = e
    BY <1>1, <1>11, <2>1 DEF InvFios, InvFio
  <2>3. SemColisao(m)
    BY <2>2 DEF SemColisao, Iniciado
  <2>4. fio[m].alvo \in {Nulo, m}
    BY <2>1, <2>3 DEF InvProprio
  <2> QED
    BY <1>11, <2>1, <2>4
<1> QED
  BY <1>11, <1>12 DEF Arquivou

\* Without a collision, an object is opened after the threads of those before it of
\* its kind and company have woken.
LEMMA AcordaramAntes ==
    ASSUME Indutivo, InvPedido, InvProprio, [Next]_vars, NEW i \in Objs,
           fio'[i].pc # "nenhum", SemColisao(i)',
           NEW j \in Objs, Iguais(i, j)', j < i
    PROVE  fio'[j].pc # "dorme"
<1>1. Indutivo'
  BY PassoIndutivo
<1>2. /\ nObj \in Nat /\ nObj' \in Nat /\ nObj <= nObj' /\ nObj' <= nObj + 1 /\ 1 .. nObj \subseteq Objs
      /\ \A k \in 1 .. nObj : obj'[k].tipo = obj[k].tipo /\ obj'[k].empresa = obj[k].empresa
  BY ObjetosFicam
<1>3. i \in 1 .. nObj' /\ obj'[i].tipo \in Tipos /\ obj'[i].empresa \in Empresas
  BY <1>1, <1>2 DEF Indutivo, InvFios, InvFio, Objs, Tipos
<1>4. PICK t \in Tipos, e \in Empresas : t = obj'[i].tipo /\ e = obj'[i].empresa
  BY <1>3
<1>5. Iniciado(i, t, e)' /\ obj'[j].tipo = t /\ obj'[j].empresa = e
  BY <1>4 DEF Iniciado, Iguais
<1>6. CASE Iniciado(i, t, e)
  <2>1. i \in 1 .. nObj /\ j \in 1 .. nObj
    BY <1>2, <1>6, IniciadoMuda DEF Objs
  <2>2. SemColisao(i)
    BY <2>1, SemColisaoFica
  <2>3. Iguais(i, j)
    BY <1>2, <1>4, <1>5, <2>1 DEF Iguais
  <2>4. fio[j].pc # "dorme"
    BY <1>6, <2>2, <2>3 DEF InvProprio, Iniciado
  <2>5. CASE fio[j].pc # "nenhum"
    BY <2>4, <2>5, FioContinua
  <2>6. CASE fio[j].pc = "nenhum"
    <3> SUFFICES ASSUME fio'[j].pc = "dorme" PROVE FALSE
      OBVIOUS
    <3>1. Iniciado(j, t, e)' /\ ~ Iniciado(j, t, e)
      BY <1>5, <2>6 DEF Iniciado
    <3>2. j = nObj'
      BY <3>1, IniciadoMuda
    <3> QED
      BY <1>2, <2>1, <3>2
  <2> QED
    BY <2>5, <2>6
<1>7. CASE ~ Iniciado(i, t, e)
  <2>1. /\ fio[i].pc = "nenhum" /\ i = nObj' /\ fio'[i].idL = Len(Hist(t, e))
        /\ fio'[i].pc = "dorme"
        /\ (IniciaTerminaLeilao /\ t = "leilao") \/ (CriaEmissao /\ t = "emissao")
        /\ srv.pedido.empresa = e
    BY <1>5, <1>7, IniciadoMuda
  <2>2. CASE t = "leilao"
    <3> SUFFICES ASSUME fio'[j].pc = "dorme" PROVE FALSE
      OBVIOUS
    <3>1. leiloes'[e] = i /\ leiloes'[e] = j
      BY <1>1, <1>4, <1>5, <2>1, <2>2 DEF Indutivo, FechaOProprio
    <3> QED
      BY <3>1 DEF Objs
  <2>3. CASE CriaEmissao /\ t = "emissao"
    <3>1. i = nObj + 1 /\ nObj + 1 \in Objs
      BY <2>1, <2>3 DEF CriaEmissao
    <3>2. j \in 1 .. nObj
      BY <1>2, <3>1 DEF Objs
    <3>3. obj[j].tipo = "emissao" /\ obj[j].empresa = e
      BY <1>2, <1>5, <2>3, <3>2
    <3>4. ASSUME NEW k \in Objs, Iniciado(k, "emissao", e) PROVE fio[k].idL = Ordem(k)
      <4>1. k \in 1 .. nObj /\ Iniciado(k, "emissao", e)' /\ fio'[k].idL = fio[k].idL
        BY <2>3, <3>4, IniciadoMuda
      <4>2. fio'[k].idL = Ordem(k)'
        BY <1>4, <2>3, <4>1 DEF SemColisao, Iniciado
      <4>3. Ordem(k)' = Ordem(k)
        BY <4>1, OrdemFica
      <4> QED
        BY <4>1, <4>2, <4>3
    <3>5. Ordem(i)' = Cardinality({k \in 1 .. nObj : obj[k].tipo = "emissao" /\ obj[k].empresa = e})
      <4>1. Ordem(i)' = Cardinality({k \in 1 .. i - 1 : obj'[k].tipo = "emissao" /\ obj'[k].empresa = e})
        BY <1>4, <2>3 DEF Ordem
      <4>2. i - 1 = nObj
        BY <1>2, <3>1
      <4>3. {k \in 1 .. nObj : obj'[k].tipo = "emissao" /\ obj'[k].empresa = e} =
            {k \in 1 .. nObj : obj[k].tipo = "emissao" /\ obj[k].empresa = e}
        BY <1>2
      <4> QED
        BY <4>1, <4>2, <4>3
    <3>6. fio'[i].idL = Ordem(i)'
      BY <1>4 DEF SemColisao
    <3>7. Len(historicoEmissoes[e]) =
             Cardinality({k \in 1 .. nObj : obj[k].tipo = "emissao" /\ obj[k].empresa = e})
      BY <2>1, <2>3, <3>5, <3>6 DEF Hist
    <3>8. fio[j].pc # "dorme"
      BY <1>2, <3>1, <3>2, <3>3, <3>4, <3>7, AnterioresAcordaram
    <3>9. fio'[j] = fio[j]
      BY <2>3, <3>1, <1>2, <3>2 DEF CriaEmissao, Indutivo, TypeOK
    <3> QED
      BY <3>8, <3>9
  <2> QED
    BY <2>1, <2>2, <2>3
<1> QED
  BY <1>6, <1>7

\* Without a collision, threads take their own objects and nothing else.
LEMMA PassoInvProprio ==
    ASSUME Indutivo, InvPedido, InvProprio, [Next]_vars
    PROVE  InvProprio'
<1>1. TypeOK /\ Indutivo'
  BY PassoIndutivo DEF Indutivo
<1> SUFFICES ASSUME NEW i \in Objs, fio'[i].pc # "nenhum", SemColisao(i)'
             PROVE  /\ fio'[i].alvo \in {Nulo, i}
                    /\ \A j \in Objs : Iguais(i, j)' /\ j < i => fio'[j].pc # "dorme"
  BY DEF InvProprio
<1>2. \A j \in Objs : Iguais(i, j)' /\ j < i => fio'[j].pc # "dorme"
  BY AcordaramAntes
<1>3. fio'[i].alvo \in {Nulo, i}
  <2>1. CASE fio[i].pc = "nenhum"
    <3>1. obj'[i].tipo \in Tipos /\ obj'[i].empresa \in Empresas
      BY <1>1 DEF Indutivo, InvFios, InvFio, Tipos
    <3>3. PICK t \in Tipos, e \in Empresas : Iniciado(i, t, e)' /\ ~ Iniciado(i, t, e)
      <4>1. PICK t \in Tipos, e \in Empresas : t = obj'[i].tipo /\ e = obj'[i].empresa
        BY <3>1
      <4> QED
        BY <2>1, <4>1 DEF Iniciado
    <3> QED
      BY <3>3, IniciadoMuda
  <2>2. CASE fio[i].pc # "nenhum"
    <3>1. i \in 1 .. nObj
      BY <1>1, <2>2, ExchangeAssumption DEF Indutivo, InvFios, InvFio, Objs, TypeOK
    <3>2. SemColisao(i)
      BY <3>1, SemColisaoFica
    <3>3. fio[i].alvo \in {Nulo, i}
      BY <2>2, <3>2 DEF InvProprio
    <3>4. CASE fio'[i].alvo = fio[i].alvo
      BY <3>3, <3>4
    <3>5. CASE PassoFio(i) /\ fio[i].pc = "dorme"
      <4>1. CASE RemoveLeilao(i)
        <5>1. obj[i].tipo = "leilao" /\ fio'[i].pc \notin {"nenhum", "dorme"} /\ obj' = obj
          BY <3>5, <4>1, PassoDeFio DEF RemoveLeilao, heaps
        <5> QED
          BY <1>1, <5>1 DEF Indutivo, FechaOProprio
      <4>2. CASE RemoveEmissao(i)
        <5>1. PICK a : a = emissoes[obj[i].empresa] /\ fio'[i].alvo = a
          <6>1. PICK x, a : /\ fio' = [fio EXCEPT ![i].pc = x, ![i].alvo = a]
                            /\ a = emissoes[obj[i].empresa]
            BY <4>2 DEF RemoveEmissao
          <6> QED
            BY <1>1, <6>1 DEF TypeOK, TipoFio
        <5>2. CASE a = Nulo
          BY <5>1, <5>2
        <5>3. CASE a # Nulo
          <6>1. /\ a \in Objs /\ fio[a].pc = "dorme"
                /\ obj[a].tipo = "emissao" /\ obj[a].empresa = obj[i].empresa
            BY <1>1, <5>1, <5>3 DEF Indutivo, InvMapas, InvMapa, TypeOK, TipoObjeto, Refs
          <6>2. Iguais(i, a) /\ Iguais(a, i)
            BY <4>2, <6>1 DEF Iguais, RemoveEmissao
          <6>3. SemColisao(a)
            BY <3>2, <6>2, SemColisaoIguais
          <6>4. ~ (a < i)
            BY <2>2, <3>2, <6>1, <6>2 DEF InvProprio
          <6>5. ~ (i < a)
            BY <3>5, <6>1, <6>2, <6>3 DEF InvProprio
          <6> QED
            BY <5>1, <6>1, <6>4, <6>5 DEF Objs
        <5> QED
          BY <5>2, <5>3
      <4> QED
        BY <3>5, <4>1, <4>2 DEF PassoFio, PassoLocalFio, IniciaTravessia, Travessia,
           TravessiaInterrompida, DecideLeilao, alocaInvestidores, DecideEmissao,
           ArquivaLeilao, ArquivaEmissao, FioPublica, FioPut
    <3>6. fio'[i].alvo = fio[i].alvo \/ (PassoFio(i) /\ fio[i].pc = "dorme")
      <4>1. CASE UNCHANGED vars
        BY <4>1 DEF vars
      <4>2. CASE (\E m \in Mensagens : Recebe(m)) \/ PassoServidor
        BY <2>2, <4>2, PassoDeServidor
      <4>3. ASSUME NEW j \in Objs, PassoFio(j), j # i PROVE fio'[i] = fio[i]
        BY <4>3, PassoDeFio
      <4>4. CASE PassoFio(i)
        BY <4>4, PassoDeFio
      <4> QED
        BY <4>1, <4>2, <4>3, <4>4 DEF Next
    <3> QED
      BY <3>4, <3>5, <3>6
  <2> QED
    BY <2>1, <2>2
<1> QED
  BY <1>2, <1>3

-----------------------------------------------------------------------------
(* What a step may do to one entry.                                        *)

\* A bid is added to entry k.
MudaPorLicitacao(t, e, k) ==
    /\ PostServidor /\ Licita /\ t = TipoDoPedido /\ e = srv.pedido.empresa /\ k = srv.idL + 1
    /\ \E y \in TipoLicitacaoDir : /\ y.origem = nLic
                                   /\ Dir(t, e)'[k] = ComLicitacao(Dir(t, e)[k], y)

\* Entry k is closed by thread i.
MudaPorFecho(t, e, k, i) ==
    /\ PutFio(i) /\ obj[i].tipo = t /\ obj[i].empresa = e /\ k = fio[i].idL + 1
    /\ \E l \in Seq(TipoLicitacaoDir) :
          /\ ListaDoPut(i, Dir(t, e)[k], l)
          /\ Dir(t, e)'[k] =
                EntradaFechada(Dir(t, e)[k], obj[fio[i].alvo].sucesso, FALSE, l)

\* A PUT that does not fail closes the entry at the thread's index.
LEMMA PutFecha ==
    ASSUME Indutivo, InvPut, TiposDir, NEW i \in Objs, PutFio(i), ~ falhou',
           NEW t, NEW e, t = obj[i].tipo, e = obj[i].empresa, NEW k, k = fio[i].idL + 1
    PROVE  /\ t \in Tipos /\ e \in Empresas /\ k \in DOMAIN Dir(t, e)
           /\ DOMAIN Dir(t, e)' = DOMAIN Dir(t, e)
           /\ MudaPorFecho(t, e, k, i)
           /\ \A m \in DOMAIN Dir(t, e) \ {k} : Dir(t, e)'[m] = Dir(t, e)[m]
           /\ \A u \in Tipos, w \in Empresas : u # t \/ w # e => Dir(u, w)' = Dir(u, w)
<1>1. PICK s, s2 : s = Dir(t, e) /\ s2 = Dir(t, e)'
  OBVIOUS
<1>2. s = Dir(obj[i].tipo, obj[i].empresa)
  BY <1>1
<1>3. /\ t \in Tipos /\ e \in Empresas /\ k \in Nat /\ s \in Seq(TipoEntrada) /\ k \in DOMAIN s
      /\ \E l \in Seq(TipoLicitacaoDir) :
            /\ ListaDoPut(i, s[k], l)
            /\ Dir(obj[i].tipo, obj[i].empresa)' =
                  [s EXCEPT ![k] = EntradaFechada(s[k], obj[fio[i].alvo].sucesso, FALSE, l)]
            /\ \A u \in Tipos, w \in Empresas :
                  u # obj[i].tipo \/ w # obj[i].empresa => Dir(u, w)' = Dir(u, w)
  BY <1>2, EfeitoPut
<1>4. PICK l \in Seq(TipoLicitacaoDir) :
            /\ ListaDoPut(i, s[k], l)
            /\ Dir(obj[i].tipo, obj[i].empresa)' =
                  [s EXCEPT ![k] = EntradaFechada(s[k], obj[fio[i].alvo].sucesso, FALSE, l)]
            /\ \A u \in Tipos, w \in Empresas :
                  u # obj[i].tipo \/ w # obj[i].empresa => Dir(u, w)' = Dir(u, w)
  BY <1>3
<1>5. UNCHANGED obj
  BY DEF PutFio, FioPut, heaps
<1>6. PICK x : x = EntradaFechada(s[k], obj[fio[i].alvo].sucesso, FALSE, l)
  OBVIOUS
<1>7. s2 = [s EXCEPT ![k] = x]
  BY <1>1, <1>4, <1>5, <1>6
<1>8. DOMAIN s2 = DOMAIN s /\ s2[k] = x /\ \A m \in DOMAIN s \ {k} : s2[m] = s[m]
  BY <1>3, <1>7
<1>9. MudaPorFecho(t, e, k, i)
  <2>1. s2[k] = EntradaFechada(s[k], obj[fio[i].alvo].sucesso, FALSE, l) /\ ListaDoPut(i, s[k], l)
    BY <1>4, <1>6, <1>8, Zenon
  <2> QED
    BY <1>1, <2>1, Zenon DEF MudaPorFecho
<1>10. \A u \in Tipos, w \in Empresas : u # t \/ w # e => Dir(u, w)' = Dir(u, w)
  BY <1>4
<1> QED
  BY <1>1, <1>3, <1>8, <1>9, <1>10, Zenon

\* As long as no request fails, an entry stays as it is, gets a bid or is closed.
LEMMA EntradaMuda ==
    ASSUME Indutivo, InvPedido, InvPut, TiposDir, [SistemaNext]_sistemaVars, ~ falhou',
           NEW t \in Tipos, NEW e \in Empresas, NEW k \in DOMAIN Dir(t, e)
    PROVE  /\ k \in DOMAIN Dir(t, e)'
           /\ \/ Dir(t, e)'[k] = Dir(t, e)[k]
              \/ MudaPorLicitacao(t, e, k)
              \/ \E i \in Objs : MudaPorFecho(t, e, k, i)
<1>1. PICK s, s2 : s = Dir(t, e) /\ s2 = Dir(t, e)' /\ s \in Seq(TipoEntrada)
  BY DEF Dir, TiposDir
<1>2. CASE s2 = s
  BY <1>1, <1>2
<1>3. CASE PostServidor /\ ~ Licita
  <2>1. PICK x \in TipoEntrada :
              \A u \in Tipos, w \in Empresas :
                    Dir(u, w)' = IF u = TipoDoPedido /\ w = srv.pedido.empresa
                                 THEN Append(Dir(u, w), x) ELSE Dir(u, w)
    BY <1>3, EfeitoPostNovo
  <2>2. s2 = s \/ s2 = Append(s, x)
    BY <1>1, <2>1
  <2>3. CASE s2 = Append(s, x)
    <3>1. k \in DOMAIN s2 /\ s2[k] = s[k]
      BY <1>1, <2>3
    <3> QED
      BY <1>1, <3>1
  <2> QED
    BY <1>2, <2>2, <2>3
<1>4. CASE PostServidor /\ Licita
  <2>1. PICK q, m : q = Dir(TipoDoPedido, srv.pedido.empresa) /\ m = srv.idL + 1
    OBVIOUS
  <2>2. AcrescentaLicitacao(q, m)
    BY <1>4, <2>1, EfeitoPostLicitacao
  <2>3. PICK y \in TipoLicitacaoDir :
             /\ y.origem = nLic
             /\ \A u \in Tipos, w \in Empresas :
                   IF u = TipoDoPedido /\ w = srv.pedido.empresa
                   THEN Dir(u, w)' = [q EXCEPT ![m] = ComLicitacao(q[m], y)]
                   ELSE Dir(u, w)' = Dir(u, w)
    BY <2>2 DEF AcrescentaLicitacao
  <2>4. CASE ~ (t = TipoDoPedido /\ e = srv.pedido.empresa)
    <3>1. s2 = s
      BY <1>1, <2>3, <2>4
    <3> QED
      BY <1>2, <3>1
  <2>5. CASE t = TipoDoPedido /\ e = srv.pedido.empresa
    <3>1. PICK x : x = ComLicitacao(s[m], y)
      OBVIOUS
    <3>2. q = s /\ s2 = [s EXCEPT ![m] = x]
      BY <1>1, <2>1, <2>3, <2>5, <3>1
    <3>3. k \in DOMAIN s2 /\ (m # k => s2[k] = s[k]) /\ (m = k => s2[k] = x)
      BY <1>1, <3>2
    <3>4. CASE m = k
      <4>1. s2[k] = ComLicitacao(s[k], y)
        BY <3>1, <3>3, <3>4
      <4> QED
        BY <1>1, <1>4, <2>1, <2>3, <2>5, <3>3, <3>4, <4>1 DEF MudaPorLicitacao
    <3> QED
      BY <1>1, <3>3, <3>4
  <2> QED
    BY <2>4, <2>5
<1>5. ASSUME NEW i \in Objs, PutFio(i)
      PROVE  /\ k \in DOMAIN Dir(t, e)'
             /\ \/ Dir(t, e)'[k] = Dir(t, e)[k]
                \/ MudaPorFecho(t, e, k, i)
  <2>1. PICK u, w, m : u = obj[i].tipo /\ w = obj[i].empresa /\ m = fio[i].idL + 1
    OBVIOUS
  <2>2. /\ u \in Tipos /\ w \in Empresas /\ m \in DOMAIN Dir(u, w)
        /\ DOMAIN Dir(u, w)' = DOMAIN Dir(u, w)
        /\ MudaPorFecho(u, w, m, i)
        /\ \A n \in DOMAIN Dir(u, w) \ {m} : Dir(u, w)'[n] = Dir(u, w)[n]
        /\ \A t2 \in Tipos, e2 \in Empresas : t2 # u \/ e2 # w => Dir(t2, e2)' = Dir(t2, e2)
    BY <1>5, <2>1, PutFecha
  <2>3. CASE t = u /\ e = w
    BY <2>2, <2>3
  <2>4. CASE t # u \/ e # w
    BY <2>2, <2>4
  <2> QED
    BY <2>3, <2>4
<1>6. CASE UNCHANGED <<dirLeiloes, dirEmissoes>>
  BY <1>1, <1>2, <1>6 DEF Dir
<1> QED
  BY <1>3, <1>4, <1>5, <1>6 DEF SistemaNext, sistemaVars, PassoLocal, Perde, ReiniciaDiretorio

-----------------------------------------------------------------------------
(* The entry of an object whose thread has ended.                          *)

\* An entry at the place of an object is that of the object.
LEMMA NoSeuLugar ==
    ASSUME Indutivo, InvPedido, InvPosicoes, ~ falhou,
           NEW t \in Tipos, NEW e \in Empresas, NEW i \in 1 .. nObj,
           obj[i].tipo = t, obj[i].empresa = e, Ordem(i) + 1 \in DOMAIN Dir(t, e),
           Dir(t, e) \in Seq(TipoEntrada)
    PROVE  ~ Pendente(i) /\ Dir(t, e)[Ordem(i) + 1].origem = i
<1>1. ASSUME Pendente(i) PROVE FALSE
  <2>1. i = nObj /\ nObj \in Nat
    BY <1>1, ExchangeAssumption DEF Pendente, InvPedido, Indutivo, TypeOK, InvServidor
  <2>2. \A j \in 1 .. nObj : Pendente(j) <=> j = nObj
    BY <1>1, <2>1 DEF Pendente
  <2>3. Publicados(t, e) = Anteriores(i)
    BY <2>1, <2>2 DEF Publicados, Anteriores
  <2>4. Ordem(i) = Cardinality(Anteriores(i)) /\ Ordem(i) \in Nat
    BY OrdemConta
  <2>5. Len(Dir(t, e)) = Ordem(i)
    BY <2>3, <2>4 DEF InvPosicoes
  <2> QED
    BY <2>4, <2>5
<1>2. i \in Publicados(t, e)
  BY <1>1 DEF Publicados
<1> QED
  BY <1>1, <1>2 DEF InvPosicoes

\* A thread ends with its PUT.
LEMMA FimPorPut ==
    ASSUME Indutivo, [SistemaNext]_sistemaVars, ~ falhou',
           NEW i \in Objs, fio[i].pc # "fim", fio'[i].pc = "fim"
    PROVE  PutFio(i)
<1>1. fio \in [Objs -> TipoFio]
  BY DEF Indutivo, TypeOK
<1>2. CASE UNCHANGED vars
  BY <1>2 DEF vars
<1>3. CASE (\E m \in Mensagens : Recebe(m)) \/ PassoServidor
  BY <1>3, PassoDeServidor
<1>4. ASSUME NEW j \in Objs, PassoFio(j), j # i PROVE FALSE
  BY <1>4, PassoDeFio
<1>5. CASE PassoLocalFio(i)
  <2>1. PICK x : fio'[i].pc = x /\ x \in PCsFio \ {"fim"}
    <3>1. CASE RemoveLeilao(i) \/ RemoveEmissao(i)
      <4>1. PICK x, b : fio' = [fio EXCEPT ![i].pc = x, ![i].alvo = b]
                        /\ x \in {"morto", "soma", "arquiva"}
        BY <3>1 DEF RemoveLeilao, RemoveEmissao
      <4>2. fio'[i].pc = x
        BY <1>1, <4>1 DEF TipoFio
      <4> QED
        BY <4>1, <4>2 DEF PCsFio
    <3>2. CASE IniciaTravessia(i)
      BY <3>2, EfeitoTravessia DEF Indutivo, PCsFio
    <3>3. CASE alocaInvestidores(i)
      BY <3>3, EfeitoAloca DEF PCsFio
    <3>4. CASE \/ TravessiaInterrompida(i) \/ DecideLeilao(i) \/ DecideEmissao(i)
               \/ ArquivaLeilao(i) \/ ArquivaEmissao(i) \/ FioPublica(i)
      <4>1. PICK x \in PCsFio \ {"fim"} : fio' = [fio EXCEPT ![i].pc = x]
        BY <3>4 DEF TravessiaInterrompida, DecideLeilao, DecideEmissao, ArquivaLeilao,
               ArquivaEmissao, FioPublica, PCsFio
      <4> QED
        BY <1>1, <4>1 DEF TipoFio
    <3> QED
      BY <1>5, <3>1, <3>2, <3>3, <3>4 DEF PassoLocalFio
  <2> QED
    BY <2>1
<1> QED
  BY <1>2, <1>3, <1>4, <1>5
  DEF SistemaNext, sistemaVars, PassoLocal, PostServidor, PutFio, ReiniciaDiretorio, Perde,
      PassoFio, PassoServidor

\* A verdict is not changed once the thread that closed the object has ended.
LEMMA VereditoFica ==
    ASSUME Indutivo, [Next]_vars, NEW a \in Objs, fio[a].pc = "fim", fio[a].alvo = a
    PROVE  obj'[a].sucesso = obj[a].sucesso
<1>1. TypeOK /\ InvFios /\ obj \in [Objs -> TipoObjeto]
  BY DEF Indutivo, TypeOK
<1>2. a <= nObj /\ nObj \in Nat /\ a \in 1 .. nObj
  BY <1>1, ExchangeAssumption DEF InvFios, InvFio, TypeOK, Objs
<1>3. CASE UNCHANGED vars
  BY <1>3 DEF vars, heaps
<1>4. CASE (\E m \in Mensagens : Recebe(m)) \/ PassoServidor
  <2>1. CASE AdicionaLicitacao
    BY <1>1, <2>1 DEF AdicionaLicitacao, TipoObjeto
  <2>2. CASE ~ AdicionaLicitacao
    BY <1>2, <1>4, <2>2, ListaFicaServidor
  <2> QED
    BY <2>1, <2>2
<1>5. ASSUME NEW j \in Objs, PassoFio(j) PROVE obj'[a].sucesso = obj[a].sucesso
  <2>0. fio[j].alvo # a
    <3>1. j # a
      BY <1>5, PassoDeFio
    <3> QED
      BY <3>1 DEF Indutivo, AlvoUnico, Objs
  <2>1. CASE alocaInvestidores(j)
    <3>1. PICK b, t : obj' \in {obj, [obj EXCEPT ![b].licitacoes = t]}
      BY <2>1 DEF alocaInvestidores
    <3>2. obj'[a] = obj[a] \/ obj'[a] = [obj[a] EXCEPT !.licitacoes = t]
      BY <1>1, <3>1
    <3>3. \A x \in TipoObjeto : [x EXCEPT !.licitacoes = t].sucesso = x.sucesso
      BY DEF TipoObjeto
    <3> QED
      BY <1>1, <3>2, <3>3
  <2>2. CASE RemoveEmissao(j)
    <3>1. PICK b : /\ b = emissoes[obj[j].empresa]
                   /\ obj' = obj \/ (b # Nulo /\ obj' = [obj EXCEPT ![b].sucesso = TRUE])
      BY <2>2 DEF RemoveEmissao
    <3>2. b # Nulo => b # a
      BY <1>1, <3>1 DEF Indutivo, InvMapas, InvMapa, TipoObjeto
    <3> QED
      BY <1>1, <3>1, <3>2
  <2>3. CASE DecideLeilao(j) \/ DecideEmissao(j)
    <3>1. PICK v : obj' = [obj EXCEPT ![fio[j].alvo].sucesso = v]
      BY <2>3 DEF DecideLeilao, DecideEmissao
    <3> QED
      BY <1>1, <2>0, <3>1
  <2>5. CASE obj' = obj
    BY <2>5
  <2> QED
    BY <1>5, <2>1, <2>2, <2>3, <2>5
    DEF PassoFio, PassoLocalFio, RemoveLeilao, IniciaTravessia, TravessiaInterrompida,
        ArquivaLeilao, ArquivaEmissao, FioPublica, FioPut, heaps
<1> QED
  BY <1>3, <1>4, <1>5 DEF Next

\* A thread that does not collide closes the entry of its own object, with the verdict
\* on it, and nobody else touches the entry.
LEMMA PassoInvFechadas ==
    ASSUME Indutivo, InvPedido, InvPut, TiposDir, InvProprio, InvFechadas,
           [SistemaNext]_sistemaVars
    PROVE  InvFechadas'
<1>1. [Next]_vars
  BY PassoDoExchange
<1> SUFFICES ASSUME NEW i \in Objs, fio'[i].pc = "fim", ~ falhou', SemColisao(i)'
             PROVE  /\ Ordem(i)' + 1 \in DOMAIN Dir(obj[i].tipo, obj[i].empresa)'
                    /\ ~ Entrada(i)'.ativo /\ Entrada(i)'.sucesso = obj'[i].sucesso
  BY DEF InvFechadas
<1>2. TypeOK /\ InvFios /\ ~ falhou /\ TiposDir'
  BY PassoEntradas DEF Indutivo
<1>3. fio[i].pc # "nenhum"
  <2>1. ASSUME fio[i].pc = "nenhum" PROVE FALSE
    <3>1. PutFio(i)
      BY <2>1, FimPorPut
    <3> QED
      BY <2>1, <3>1 DEF PutFio, FioPut
  <2> QED
    BY <2>1
<1>4. /\ i \in 1 .. nObj /\ obj[i].tipo \in Tipos /\ obj[i].empresa \in Empresas
  BY <1>2, <1>3, ExchangeAssumption DEF InvFios, InvFio, Objs, Tipos, TypeOK
<1>5. PICK t \in Tipos, e \in Empresas : t = obj[i].tipo /\ e = obj[i].empresa
  BY <1>4
<1>6. t = obj'[i].tipo /\ e = obj'[i].empresa
  BY <1>1, <1>4, <1>5, ObjetosFicam
<1>7. SemColisao(i)
  BY <1>1, <1>4, SemColisaoFica
<1>8. Ordem(i)' = Ordem(i) /\ Ordem(i) \in Nat
  BY <1>1, <1>4, OrdemFica
<1>9. PICK k : k = Ordem(i) + 1
  OBVIOUS
<1>10. fio[i].alvo \in {Nulo, i} /\ fio[i].idL = Ordem(i)
  BY <1>3, <1>7 DEF InvProprio, SemColisao
<1>11. SUFFICES /\ k \in DOMAIN Dir(t, e)'
                /\ ~ Dir(t, e)'[k].ativo /\ Dir(t, e)'[k].sucesso = obj'[i].sucesso
  <2>1. Dir(obj[i].tipo, obj[i].empresa)' = Dir(t, e)'
    BY <1>6
  <2>2. Entrada(i)' = Dir(t, e)'[k]
    BY <1>6, <1>8, <1>9 DEF Entrada
  <2> QED
    BY <1>8, <1>9, <2>1, <2>2
<1>12. CASE fio[i].pc # "fim"
  <2>1. PutFio(i)
    BY <1>12, FimPorPut
  <2>2. fio[i].pc \in {"put", "escrevendo"} /\ UNCHANGED obj
    BY <2>1 DEF PutFio, FioPut, heaps
  <2>3. fio[i].alvo = i
    BY <1>2, <1>10, <2>2 DEF InvFios, InvFio
  <2>4. k = fio[i].idL + 1
    BY <1>9, <1>10
  <2>5. /\ k \in DOMAIN Dir(t, e) /\ DOMAIN Dir(t, e)' = DOMAIN Dir(t, e)
        /\ MudaPorFecho(t, e, k, i)
    BY <1>5, <2>1, <2>4, PutFecha
  <2>6. PICK l, x : x = Dir(t, e)[k] /\ Dir(t, e)'[k] = EntradaFechada(x, obj[i].sucesso, FALSE, l)
    BY <2>3, <2>5 DEF MudaPorFecho
  <2>7. x \in TipoEntrada
    <3>1. Dir(t, e) \in Seq(TipoEntrada)
      BY DEF Dir, TiposDir
    <3> QED
      BY <2>5, <2>6, <3>1
  <2>8. PICK u \in BOOLEAN : u = obj[i].sucesso
    BY <1>2 DEF TypeOK, TipoObjeto
  <2>9. EntradaFechada(x, u, FALSE, l).ativo = FALSE /\ EntradaFechada(x, u, FALSE, l).sucesso = u
    BY <2>7 DEF EntradaFechada, TipoEntrada
  <2> QED
    BY <2>2, <2>5, <2>6, <2>8, <2>9
<1>13. CASE fio[i].pc = "fim"
  <2>1. fio[i].alvo = i
    BY <1>2, <1>10, <1>13 DEF InvFios, InvFio
  <2>2. obj'[i].sucesso = obj[i].sucesso
    BY <1>1, <1>13, <2>1, VereditoFica
  <2>3. k \in DOMAIN Dir(t, e) /\ ~ Dir(t, e)[k].ativo /\ Dir(t, e)[k].sucesso = obj[i].sucesso
    BY <1>2, <1>5, <1>7, <1>9, <1>13 DEF InvFechadas, Entrada
  <2>4. k \in DOMAIN Dir(t, e)'
        /\ \/ Dir(t, e)'[k] = Dir(t, e)[k]
           \/ MudaPorLicitacao(t, e, k)
           \/ \E j \in Objs : MudaPorFecho(t, e, k, j)
    BY <2>3, EntradaMuda
  <2>5. CASE Dir(t, e)'[k] = Dir(t, e)[k]
    BY <2>2, <2>3, <2>4, <2>5
  <2>6. CASE MudaPorLicitacao(t, e, k)
    <3>1. PICK x, y : x = Dir(t, e)[k] /\ Dir(t, e)'[k] = ComLicitacao(x, y)
      BY <2>6 DEF MudaPorLicitacao
    <3>2. x \in TipoEntrada
      <4>1. Dir(t, e) \in Seq(TipoEntrada)
        BY DEF Dir, TiposDir
      <4> QED
        BY <2>3, <3>1, <4>1
    <3>3. ComLicitacao(x, y).ativo = x.ativo /\ ComLicitacao(x, y).sucesso = x.sucesso
      BY <3>2 DEF ComLicitacao, TipoEntrada
    <3> QED
      BY <2>2, <2>3, <2>4, <3>1, <3>3
  <2>7. ASSUME NEW j \in Objs, MudaPorFecho(t, e, k, j) PROVE FALSE
    <3>1. /\ fio[j].pc \in {"put", "escrevendo"} /\ obj[j].tipo = t /\ obj[j].empresa = e
          /\ k = fio[j].idL + 1
      BY <2>7 DEF MudaPorFecho, PutFio, FioPut
    <3>2. j \in 1 .. nObj /\ j # i
      BY <1>2, <1>13, <3>1, ExchangeAssumption DEF InvFios, InvFio, Objs, TypeOK
    <3>3. fio[j].idL = Ordem(j) /\ Ordem(j) \in Nat
      BY <1>5, <1>7, <3>1, <3>2, OrdemConta DEF SemColisao
    <3>4. Ordem(j) = Ordem(i)
      BY <1>8, <1>9, <3>1, <3>3
    <3>5. Iguais(i, j) /\ Iguais(j, i)
      BY <1>5, <3>1 DEF Iguais
    <3>6. CASE i < j
      BY <1>4, <1>8, <3>2, <3>3, <3>4, <3>5, <3>6, OrdemEstrita
    <3>7. CASE j < i
      BY <1>4, <1>8, <3>2, <3>3, <3>4, <3>5, <3>7, OrdemEstrita
    <3> QED
      BY <1>4, <3>2, <3>6, <3>7 DEF Objs
  <2> QED
    BY <2>4, <2>5, <2>6, <2>7
<1> QED
  BY <1>12, <1>13

\* What is known of the directory besides.
IndDiretorio == TiposDir /\ InvEntradas /\ InvPosicoes /\ InvProprio /\ InvFechadas

\* It holds at the start ...
LEMMA IndDiretorioInicio == SistemaInit => IndDiretorio
<1> SUFFICES ASSUME SistemaInit PROVE IndDiretorio
  OBVIOUS
<1>1. TiposDir /\ \A t \in Tipos, e \in Empresas : Dir(t, e) = <<>>
  BY DirInicio DEF SistemaInit
<1>2. \A i \in Objs : fio[i].pc = "nenhum"
  BY DEF SistemaInit, Init, PorIniciar
<1>3. \A t \in Tipos, e \in Empresas : Publicados(t, e) = {}
  BY DEF SistemaInit, Init, Publicados
<1>4. Cardinality({}) = 0
  BY FS_EmptySet
<1>5. InvPosicoes
  <2>1. \A t \in Tipos, e \in Empresas : Len(Dir(t, e)) = 0
    BY <1>1
  <2>2. \A t \in Tipos, e \in Empresas : Len(Dir(t, e)) = Cardinality(Publicados(t, e))
    BY <1>3, <1>4, <2>1
  <2> QED
    BY <1>3, <2>2 DEF InvPosicoes
<1> QED
  BY <1>1, <1>2, <1>5 DEF IndDiretorio, InvEntradas, InvProprio, InvFechadas

\* ... and is preserved.
LEMMA IndDiretorioSempre == SistemaSpec => []IndDiretorio
<1>1. IndExchange /\ IndDiretorio /\ [SistemaNext]_sistemaVars => IndDiretorio'
  BY PassoDoExchange, PassoEntradas, PassoInvEntradas, PassoInvPosicoes, PassoInvProprio,
     PassoInvFechadas
  DEF IndExchange, IndDiretorio
<1> QED
  BY <1>1, IndDiretorioInicio, IndExchangeSempre, PTL DEF SistemaSpec

\* As long as no request fails and no index is given twice, the directory shows every
\* auction and issue whose closing thread has ended as closed, with the verdict and
\* the amount of the exchange, although the PUT names only an index that was read off
\* the history when the thread was started.
THEOREM DiretorioSempreConcorda == SistemaSpec => []DiretorioConcorda
<1>1. IndExchange /\ IndDiretorio => DiretorioConcorda
  <2> SUFFICES ASSUME IndExchange, IndDiretorio,
                      NEW i \in Objs, fio[i].pc = "fim", ~ falhou, SemColisao(i)
               PROVE  Fechada(i)
    BY DEF DiretorioConcorda
  <2>1. Indutivo /\ InvPedido /\ TiposDir /\ InvPosicoes /\ InvEntradas
    BY DEF IndExchange, IndDiretorio
  <2>2. i \in 1 .. nObj /\ obj[i].tipo \in Tipos /\ obj[i].empresa \in Empresas
    BY <2>1, ExchangeAssumption DEF Indutivo, InvFios, InvFio, Objs, Tipos, TypeOK
  <2>3. PICK t \in Tipos, e \in Empresas : t = obj[i].tipo /\ e = obj[i].empresa
    BY <2>2
  <2> DEFINE k == Ordem(i) + 1
  <2>4. k \in DOMAIN Dir(t, e) /\ ~ Dir(t, e)[k].ativo /\ Dir(t, e)[k].sucesso = obj[i].sucesso
    BY <2>3 DEF IndDiretorio, InvFechadas, Entrada
  <2>5. Dir(t, e) \in Seq(TipoEntrada)
    BY <2>1 DEF TiposDir, Dir
  <2>6. Dir(t, e)[k].origem = i
    BY <2>1, <2>2, <2>3, <2>4, <2>5, NoSeuLugar
  <2>7. Dir(t, e)[k].montante = obj[i].montante
    BY <2>1, <2>4, <2>6 DEF InvEntradas, InvEntrada
  <2>8. Diretorio(i) = Dir(t, e)
    BY <2>3 DEF Diretorio, Dir
  <2> QED
    BY <2>4, <2>6, <2>7, <2>8 DEF Fechada, Posicoes
<1> QED
  BY <1>1, IndExchangeSempre, IndDiretorioSempre, PTL

-----------------------------------------------------------------------------
(* The bids an entry shows.                                                *)

\* A POST of a bid that does not fail changes the entry at the index it was given.
LEMMA PostMostra ==
    ASSUME Indutivo, InvPedido, TiposDir, PostServidor, Licita, ~ falhou',
           NEW t, NEW e, t = TipoDoPedido, e = srv.pedido.empresa, NEW k, k = srv.idL + 1
    PROVE  /\ t \in Tipos /\ e \in Empresas /\ k \in DOMAIN Dir(t, e)
           /\ MudaPorLicitacao(t, e, k)
<1>1. PICK s, s2 : s = Dir(t, e) /\ s2 = Dir(t, e)'
  OBVIOUS
<1>2. s = Dir(TipoDoPedido, srv.pedido.empresa)
  BY <1>1
<1>3. t \in Tipos /\ e \in Empresas /\ AcrescentaLicitacao(s, k)
  BY <1>2, EfeitoPostLicitacao
<1>4. PICK y \in TipoLicitacaoDir :
           /\ y.origem = nLic
           /\ \A u \in Tipos, w \in Empresas :
                 IF u = TipoDoPedido /\ w = srv.pedido.empresa
                 THEN Dir(u, w)' = [s EXCEPT ![k] = ComLicitacao(s[k], y)]
                 ELSE Dir(u, w)' = Dir(u, w)
  BY <1>3 DEF AcrescentaLicitacao
<1>5. k \in DOMAIN s
  BY <1>3 DEF AcrescentaLicitacao
<1>6. s \in Seq(TipoEntrada)
  BY <1>1, <1>3 DEF Dir, TiposDir
<1>7. PICK x : x = ComLicitacao(s[k], y)
  OBVIOUS
<1>8. s2 = [s EXCEPT ![k] = x]
  BY <1>1, <1>3, <1>4, <1>7
<1>9. s2[k] = x
  BY <1>5, <1>6, <1>8
<1> QED
  BY <1>1, <1>3, <1>4, <1>5, <1>7, <1>9 DEF MudaPorLicitacao

\* Without a collision, a POST of a bid that does not fail finds the entry of the
\* object the bid was made to: its index is not smaller, and there is no later entry.
LEMMA LicitacaoAcerta ==
    ASSUME IndExchange, TiposDir, InvPosicoes, PostServidor, Licita, ~ falhou, ~ falhou',
           SemColisao(srv.alvo)
    PROVE  srv.idL = Ordem(srv.alvo) /\ srv.alvo \in 1 .. nObj
<1>1. Indutivo /\ InvPedido /\ InvUltimos /\ InvIndice
  BY DEF IndExchange
<1>2. srv.pc = "post"
  BY DEF PostServidor, ServidorPost
<1>3. PICK t, e, k, a : t = TipoDoPedido /\ e = srv.pedido.empresa /\ k = srv.idL + 1 /\ a = srv.alvo
  OBVIOUS
<1>4. t \in Tipos /\ e \in Empresas /\ k \in DOMAIN Dir(t, e)
  BY <1>1, <1>3, PostMostra
<1>5. Dir(t, e) \in Seq(TipoEntrada)
  BY <1>4 DEF Dir, TiposDir
<1>6. /\ a \in 1 .. nObj /\ obj[a].tipo = t /\ obj[a].empresa = e /\ fio[a].pc # "nenhum"
      /\ \A j \in 1 .. nObj : Iguais(j, a) => j <= a
  BY <1>1, <1>2, <1>3 DEF InvPedido, InvUltimos
<1>7. nObj \in Nat /\ a \in Objs
  BY <1>1, <1>6, ExchangeAssumption DEF Indutivo, TypeOK, Objs
<1>8. fio[a].idL = Ordem(a)
  BY <1>3, <1>6, <1>7 DEF SemColisao
<1>9. srv.idL >= Ordem(a)
  BY <1>1, <1>2, <1>3, <1>8 DEF InvIndice
<1>10. PICK P, Q : P = Publicados(t, e) /\ Q = Anteriores(a)
  OBVIOUS
<1>11. Ordem(a) = Cardinality(Q) /\ IsFiniteSet(Q) /\ Ordem(a) \in Nat
  BY <1>1, <1>6, <1>10, OrdemConta
<1>12. P \in SUBSET (Q \cup {a})
  BY <1>6, <1>7, <1>10 DEF Publicados, Anteriores, Iguais
<1>13. a \notin Q
  BY <1>7, <1>10 DEF Anteriores, Objs
<1>14. IsFiniteSet(Q \cup {a}) /\ Cardinality(Q \cup {a}) = Cardinality(Q) + 1
  BY <1>11, <1>13, FS_AddElement
<1>15. Cardinality(P) <= Cardinality(Q) + 1 /\ Cardinality(P) \in Nat
  BY <1>12, <1>14, FS_Subset, FS_CardinalityType
<1>16. Len(Dir(t, e)) <= Ordem(a) + 1 /\ Len(Dir(t, e)) \in Nat
  BY <1>4, <1>10, <1>11, <1>15 DEF InvPosicoes
<1>17. srv.idL \in Nat
  BY <1>1 DEF Indutivo, TypeOK, TipoServidor
<1>18. k <= Len(Dir(t, e))
  BY <1>4, <1>5
<1> QED
  BY <1>3, <1>6, <1>9, <1>11, <1>16, <1>17, <1>18

\* A bid is to be posted until it is.
LEMMA PorEnviarMuda ==
    ASSUME Indutivo, [Next]_vars, NEW b, PorEnviar(b)
    PROVE  PorEnviar(b)' \/ ServidorPost
<1>1. srv \in TipoServidor /\ srv.pc \in {"publica", "ids", "post"} /\ Licita /\ b = nLic
  BY DEF PorEnviar, Indutivo, TypeOK
<1>2. CASE UNCHANGED <<srv, nLic>>
  BY <1>1, <1>2 DEF PorEnviar, Licita
<1>3. CASE UNCHANGED vars
  BY <1>2, <1>3 DEF vars, heaps
<1>4. ASSUME NEW i \in Objs, PassoFio(i) PROVE PorEnviar(b)' \/ ServidorPost
  <2>1. UNCHANGED <<srv, nLic>>
    BY <1>4, PassoDeFio
  <2> QED
    BY <1>2, <2>1
<1>5. CASE ServidorPublica \/ LeIndices
  <2>1. srv'.pc \in {"publica", "ids", "post"} /\ srv'.pedido = srv.pedido /\ nLic' = nLic
    <3>1. CASE ServidorPublica
      <4>1. PICK x \in {"ids", "post"} : srv' = [srv EXCEPT !.pc = x]
        BY <3>1 DEF ServidorPublica
      <4> QED
        BY <1>1, <3>1, <4>1 DEF ServidorPublica, TipoServidor, heaps
    <3>2. CASE LeIndices
      BY <1>1, <3>2 DEF LeIndices, TipoServidor, heaps
    <3> QED
      BY <1>5, <3>1, <3>2
  <2> QED
    BY <1>1, <2>1 DEF PorEnviar, Licita
<1> QED
  BY <1>1, <1>3, <1>4, <1>5
  DEF Next, PassoServidor, PassoLocalServidor, Recebe, Recusa, licitar, emprestimo,
      AdicionaLicitacao, leilao, IniciaTerminaLeilao, EmpresaDesconhecida, emissao,
      LeUltimoLeilao, LeTaxaEmissao, CriaEmissao

\* What a step may do to the entry of object i, if there is no collision: only a bid to
\* i and the thread of i change it.
LEMMA EntradaDoObjeto ==
    ASSUME IndExchange, IndDiretorio, [SistemaNext]_sistemaVars, ~ falhou',
           NEW i \in 1 .. nObj, fio[i].pc # "nenhum", ~ Pendente(i), SemColisao(i),
           NEW t \in Tipos, NEW e \in Empresas, t = obj[i].tipo, e = obj[i].empresa,
           NEW k, k = Ordem(i) + 1
    PROVE  /\ k \in DOMAIN Dir(t, e)
           /\ \/ /\ Dir(t, e)'[k] = Dir(t, e)[k]
                 /\ ~ (PostServidor /\ Licita /\ srv.alvo = i)
              \/ MudaPorLicitacao(t, e, k) /\ srv.alvo = i
              \/ MudaPorFecho(t, e, k, i) /\ fio[i].alvo = i
<1>1. /\ Indutivo /\ InvPedido /\ InvPut /\ TiposDir /\ InvPosicoes /\ InvProprio
      /\ [Next]_vars
  BY PassoDoExchange DEF IndExchange, IndDiretorio
<1>2. ~ falhou
  BY <1>1, PassoEntradas
<1>3. i \in Publicados(t, e)
  BY DEF Publicados
<1>4. k \in DOMAIN Dir(t, e)
  BY <1>1, <1>2, <1>3 DEF InvPosicoes
<1>5. Ordem(i) \in Nat
  BY <1>1, OrdemConta
<1>6. ASSUME NEW j \in 1 .. nObj, Iguais(i, j), Ordem(j) = Ordem(i) PROVE j = i
  <2>1. i \in Int /\ j \in Int
    BY <1>1, ExchangeAssumption DEF Indutivo, TypeOK
  <2>2. Iguais(j, i)
    BY <1>6 DEF Iguais
  <2>3. CASE i < j
    BY <1>1, <1>5, <1>6, <2>3, OrdemEstrita
  <2>4. CASE j < i
    BY <1>1, <1>5, <1>6, <2>2, <2>4, OrdemEstrita
  <2> QED
    BY <2>1, <2>3, <2>4
<1>7. CASE PostServidor /\ Licita /\ srv.alvo = i
  <2>1. srv.idL = Ordem(i)
    BY <1>1, <1>2, <1>7, LicitacaoAcerta
  <2>2. t = TipoDoPedido /\ e = srv.pedido.empresa
    BY <1>1, <1>7 DEF PostServidor, ServidorPost, InvPedido
  <2>3. MudaPorLicitacao(t, e, k)
    BY <1>1, <1>7, <2>1, <2>2, PostMostra
  <2> QED
    BY <1>4, <1>7, <2>3
<1>8. CASE MudaPorLicitacao(t, e, k)
  <2>1. /\ PostServidor /\ Licita /\ t = TipoDoPedido /\ e = srv.pedido.empresa
        /\ k = srv.idL + 1 /\ srv.pc = "post"
    BY <1>8 DEF MudaPorLicitacao, PostServidor, ServidorPost
  <2>2. srv.alvo \in 1 .. nObj /\ Iguais(i, srv.alvo)
    BY <1>1, <2>1 DEF InvPedido, Iguais
  <2>3. SemColisao(srv.alvo)
    BY <2>2, SemColisaoIguais
  <2>4. srv.idL = Ordem(srv.alvo)
    BY <1>1, <1>2, <2>1, <2>3, LicitacaoAcerta
  <2>5. Ordem(srv.alvo) = Ordem(i)
    <3>1. srv.idL \in Nat
      BY <1>1 DEF Indutivo, TypeOK, TipoServidor
    <3> QED
      BY <1>5, <2>1, <2>4, <3>1
  <2>6. srv.alvo = i
    BY <1>6, <2>2, <2>5
  <2> QED
    BY <1>4, <1>8, <2>6
<1>9. ASSUME NEW j \in Objs, MudaPorFecho(t, e, k, j)
      PROVE  MudaPorFecho(t, e, k, i) /\ fio[i].alvo = i
  <2>1. /\ fio[j].pc \in {"put", "escrevendo"} /\ obj[j].tipo = t /\ obj[j].empresa = e
        /\ k = fio[j].idL + 1
    BY <1>9 DEF MudaPorFecho, PutFio, FioPut
  <2>2. j \in 1 .. nObj
    BY <1>1, <2>1, ExchangeAssumption DEF Indutivo, InvFios, InvFio, Objs, TypeOK
  <2>3. fio[j].idL = Ordem(j) /\ Ordem(j) \in Nat
    BY <1>1, <2>1, <2>2, OrdemConta DEF SemColisao
  <2>4. Iguais(i, j) /\ Ordem(j) = Ordem(i)
    BY <1>5, <2>1, <2>3 DEF Iguais
  <2>5. j = i
    BY <1>6, <2>2, <2>4
  <2>6. fio[i].alvo \in {Nulo, i}
    BY <1>1, <1>9, <2>5 DEF InvProprio
  <2>7. fio[i].alvo # Nulo
    BY <1>1, <1>9, <2>1, <2>5 DEF Indutivo, InvFios, InvFio
  <2> QED
    BY <1>9, <2>5, <2>6, <2>7
<1> QED
  BY <1>1, <1>4, <1>7, <1>8, <1>9, EntradaMuda

\* When object i is posted, neither its entry nor its list has bids.
LEMMA EntradaNova ==
    ASSUME IndExchange, IndDiretorio, [SistemaNext]_sistemaVars, ~ falhou',
           NEW i \in 1 .. nObj, Pendente(i), ~ Pendente(i)', fio'[i].pc # "nenhum",
           NEW t \in Tipos, NEW e \in Empresas, t = obj[i].tipo, e = obj[i].empresa,
           NEW k, k = Ordem(i) + 1
    PROVE  /\ DOMAIN Dir(t, e)'[k].licitacoes = {}
           /\ DOMAIN obj'[i].licitacoes = {}
<1>1. /\ Indutivo /\ InvPedido /\ InvPut /\ InvVazios /\ TiposDir /\ InvPosicoes
      /\ [Next]_vars
  BY PassoDoExchange DEF IndExchange, IndDiretorio
<1>2. ~ falhou
  BY <1>1, PassoEntradas
<1>3. ~ Licita /\ srv.alvo = i /\ srv.pc \in {"inicia", "publica", "post"}
  BY DEF Pendente
<1>4. t = TipoDoPedido /\ e = srv.pedido.empresa
  BY <1>1, <1>3 DEF InvPedido
<1>5. ServidorPost
  BY <1>1, <1>4, PendenteMuda
<1>6. PostServidor /\ UNCHANGED <<obj, nObj>>
  BY <1>1, <1>5, PostSemFalha DEF ServidorPost, heaps
<1>7. Acrescenta(t, e)
  <2>1. PICK x \in TipoEntrada :
              /\ x.id = srv.idL /\ x.origem = srv.alvo /\ x.montante = obj[srv.alvo].montante
              /\ x.licitacoes = <<>>
              /\ \A u \in Tipos, w \in Empresas :
                    Dir(u, w)' = IF u = TipoDoPedido /\ w = srv.pedido.empresa
                                 THEN Append(Dir(u, w), x) ELSE Dir(u, w)
    BY <1>1, <1>3, <1>6, EfeitoPostNovo
  <2>2. Dir(t, e)' = Append(Dir(t, e), x)
    BY <1>4, <2>1
  <2> QED
    BY <1>3, <1>4, <1>6, <2>1, <2>2 DEF Acrescenta
<1>8. PICK s, s2 : s = Dir(t, e) /\ s2 = Dir(t, e)' /\ s \in Seq(TipoEntrada)
  BY <1>1 DEF Dir, TiposDir
<1>9. PICK x \in TipoEntrada : x.licitacoes = <<>> /\ s2 = Append(s, x)
  BY <1>7, <1>8 DEF Acrescenta
<1>10. i = nObj /\ Publicados(t, e) = Anteriores(i)
  BY <1>1, <1>3, <1>7, PublicadosCrescem
<1>11. Len(s) = Ordem(i)
  BY <1>1, <1>2, <1>8, <1>10, OrdemConta DEF InvPosicoes
<1>12. s2[k] = x
  BY <1>8, <1>9, <1>11
<1>13. DOMAIN x.licitacoes = {}
  BY <1>9
<1> QED
  BY <1>1, <1>6, <1>8, <1>12, <1>13 DEF InvVazios

\* What is shown of object i stays right when its entry changes.
LEMMA MostradasFicam ==
    ASSUME IndExchange, IndDiretorio, [SistemaNext]_sistemaVars, ~ falhou',
           NEW i \in 1 .. nObj, fio[i].pc # "nenhum", ~ Pendente(i), SemColisao(i),
           NEW t \in Tipos, NEW e \in Empresas, t = obj[i].tipo, e = obj[i].empresa,
           NEW k, k = Ordem(i) + 1,
           NEW s, s = Dir(t, e)[k].licitacoes, NEW s2, s2 = Dir(t, e)'[k].licitacoes,
           SoSuas(i, s), TodasAsSuas(i, s)
    PROVE  SoSuas(i, s2)' /\ TodasAsSuas(i, s2)'
<1>1. /\ Indutivo /\ InvPedido /\ InvPut /\ InvListados /\ Travessias /\ TiposDir
      /\ [Next]_vars
  BY PassoDoExchange DEF IndExchange, IndDiretorio
<1>2. i \in Objs /\ nLic \in Nat
  BY <1>1, ExchangeAssumption, ObjetosFicam DEF Indutivo, TypeOK
<1>3. /\ nLic' \in Nat /\ nLic <= nLic'
      /\ \A b \in 1 .. nLic : b \in 1 .. nLic' /\ licitacao'[b] = licitacao[b]
      /\ SemTardias(i)' => SemTardias(i)
  BY <1>1, <1>2, TardiaFica
<1>4. ASSUME NEW b \in Lista(i)' PROVE b \in Lista(i) \/ PorEnviar(b)'
  <2>1. PICK m \in DOMAIN obj'[i].licitacoes : b = obj'[i].licitacoes[m]
    BY <1>4 DEF Lista
  <2>2. CASE \E l \in DOMAIN obj[i].licitacoes : b = obj[i].licitacoes[l]
    BY <2>2 DEF Lista
  <2>3. CASE AdicionaLicitacao /\ srv.alvo = i /\ b = nLic + 1
    <3>1. srv.pc = "add" /\ srv'.pc = "publica" /\ srv'.pedido = srv.pedido /\ nLic' = nLic + 1
      BY <1>1, <2>3 DEF AdicionaLicitacao, Indutivo, TypeOK, TipoServidor
    <3>2. Licita
      BY <1>1, <3>1 DEF Indutivo, InvServidor, Licita
    <3> QED
      BY <2>3, <3>1, <3>2 DEF PorEnviar, Licita
  <2> QED
    BY <1>1, <2>1, <2>2, <2>3, ListaDepois
<1>5. ASSUME NEW b, b \in Lista(i), PorEnviar(b)
      PROVE  PorEnviar(b)' \/ (PostServidor /\ Licita /\ srv.alvo = i /\ b = nLic)
  <2>1. b = nLic /\ Licita /\ srv.pc \in {"publica", "ids", "post"}
    BY <1>5 DEF PorEnviar
  <2>2. licitacao[b].alvo = i
    BY <1>1, <1>5 DEF Lista, InvListados
  <2>3. srv.alvo = i
    BY <1>1, <2>1, <2>2 DEF InvPedido
  <2>4. CASE ServidorPost
    BY <1>1, <2>1, <2>3, <2>4, PostSemFalha
  <2> QED
    BY <1>1, <1>5, <2>4, PorEnviarMuda
\* A bid of the list is shown, or to be posted, or being posted.
<1>6. ASSUME SemTardias(i)', NEW b \in Lista(i)', ~ PorEnviar(b)'
      PROVE  \/ \E n \in DOMAIN s : s[n].origem = b
             \/ PostServidor /\ Licita /\ srv.alvo = i /\ b = nLic
  <2>1. b \in Lista(i) /\ SemTardias(i)
    BY <1>3, <1>4, <1>6
  <2>2. PorEnviar(b) \/ \E n \in DOMAIN s : s[n].origem = b
    BY <2>1 DEF TodasAsSuas
  <2> QED
    BY <1>5, <1>6, <2>1, <2>2
<1>7. ASSUME NEW n \in DOMAIN s PROVE s[n].origem \in 1 .. nLic' /\ licitacao'[s[n].origem].alvo = i
  <2>1. s[n].origem \in 1 .. nLic /\ licitacao[s[n].origem].alvo = i
    BY <1>7, Zenon DEF SoSuas
  <2>2. \A b \in 1 .. nLic : b \in 1 .. nLic' /\ licitacao'[b].alvo = licitacao[b].alvo
    BY <1>3, Zenon
  <2> QED
    BY <2>1, <2>2, Zenon
<1>8. CASE s2 = s /\ ~ (PostServidor /\ Licita /\ srv.alvo = i)
  <2>1. SoSuas(i, s2)'
    BY <1>7, <1>8 DEF SoSuas
  <2>2. ASSUME SemTardias(i)', NEW b \in Lista(i)', ~ PorEnviar(b)'
        PROVE  \E n \in DOMAIN s2 : s2[n].origem = b
    <3>1. \E n \in DOMAIN s : s[n].origem = b
      BY <1>6, <1>8, <2>2, Zenon
    <3> QED
      BY <1>8, <3>1, Zenon
  <2>3. TodasAsSuas(i, s2)'
    BY <2>2 DEF TodasAsSuas
  <2> QED
    BY <2>1, <2>3
<1>9. /\ k \in DOMAIN Dir(t, e) /\ Dir(t, e)[k] \in TipoEntrada
      /\ \/ /\ Dir(t, e)'[k] = Dir(t, e)[k]
            /\ ~ (PostServidor /\ Licita /\ srv.alvo = i)
         \/ MudaPorLicitacao(t, e, k) /\ srv.alvo = i
         \/ MudaPorFecho(t, e, k, i) /\ fio[i].alvo = i
  <2>1. Dir(t, e) \in Seq(TipoEntrada)
    BY <1>1 DEF Dir, TiposDir
  <2> QED
    BY <2>1, EntradaDoObjeto
<1>10. s \in Seq(TipoLicitacaoDir)
  BY <1>9 DEF TipoEntrada
<1>11. CASE MudaPorLicitacao(t, e, k) /\ srv.alvo = i
  <2>1. PICK y \in TipoLicitacaoDir : y.origem = nLic /\ s2 = Append(s, y)
    <3>1. PICK x, y : /\ y \in TipoLicitacaoDir /\ y.origem = nLic
                      /\ x = Dir(t, e)[k] /\ Dir(t, e)'[k] = ComLicitacao(x, y)
      BY <1>11 DEF MudaPorLicitacao
    <3>2. ComLicitacao(x, y).licitacoes = Append(x.licitacoes, y)
      BY <1>9, <3>1 DEF ComLicitacao, TipoEntrada
    <3> QED
      BY <3>1, <3>2
  <2>2. /\ DOMAIN s2 = (DOMAIN s) \cup {Len(s) + 1} /\ s2[Len(s) + 1] = y
        /\ \A n \in DOMAIN s : s2[n] = s[n]
    <3>1. PICK q : q = Append(s, y)
      OBVIOUS
    <3>2. ASSUME NEW q1 \in Seq(TipoLicitacaoDir)
          PROVE  /\ DOMAIN Append(q1, y) = (DOMAIN q1) \cup {Len(q1) + 1}
                 /\ Append(q1, y)[Len(q1) + 1] = y
                 /\ \A n \in DOMAIN q1 : Append(q1, y)[n] = q1[n]
      BY AcrescentaUm
    <3>3. /\ DOMAIN q = (DOMAIN s) \cup {Len(s) + 1} /\ q[Len(s) + 1] = y
          /\ \A n \in DOMAIN s : q[n] = s[n]
      BY <1>10, <3>1, <3>2
    <3> QED
      BY <2>1, <3>1, <3>3, ZenonT(30)
  <2>3. nLic \in 1 .. nLic /\ licitacao[nLic].alvo = i
    <3>1. srv.pc = "post" /\ Licita
      BY <1>11 DEF MudaPorLicitacao, PostServidor, ServidorPost
    <3> QED
      BY <1>1, <1>2, <1>11, <3>1 DEF InvPedido, Lics
  <2>4. ASSUME NEW n \in DOMAIN s2
        PROVE  s2[n].origem \in 1 .. nLic' /\ licitacao'[s2[n].origem].alvo = i
    <3>1. CASE n \in DOMAIN s
      <4>1. s2[n] = s[n]
        BY <2>2, <3>1, Zenon
      <4> QED
        BY <1>7, <3>1, <4>1, Zenon
    <3>2. CASE n = Len(s) + 1
      <4>1. s2[n].origem = nLic
        BY <2>1, <2>2, <3>2
      <4> QED
        BY <1>3, <2>3, <4>1
    <3> QED
      BY <2>2, <2>4, <3>1, <3>2
  <2>5. ASSUME SemTardias(i)', NEW b \in Lista(i)', ~ PorEnviar(b)'
        PROVE  \E n \in DOMAIN s2 : s2[n].origem = b
    <3>1. CASE \E n \in DOMAIN s : s[n].origem = b
      <4>1. PICK n \in DOMAIN s : s[n].origem = b
        BY <3>1, Zenon
      <4>2. n \in DOMAIN s2 /\ s2[n] = s[n]
        BY <2>2, Zenon
      <4> QED
        BY <4>1, <4>2, Zenon
    <3>2. CASE b = nLic
      <4>1. s2[Len(s) + 1].origem = b /\ Len(s) + 1 \in DOMAIN s2
        BY <2>1, <2>2, <3>2
      <4> QED
        BY <4>1
    <3> QED
      BY <1>6, <2>5, <3>1, <3>2
  <2>6. SoSuas(i, s2)'
    BY <2>4 DEF SoSuas
  <2>7. TodasAsSuas(i, s2)'
    BY <2>5 DEF TodasAsSuas
  <2> QED
    BY <2>6, <2>7
<1>12. CASE MudaPorFecho(t, e, k, i) /\ fio[i].alvo = i
  <2>1. ListaDoPut(i, Dir(t, e)[k], s2)
    <3>1. PICK x, l, u : /\ l \in Seq(TipoLicitacaoDir) /\ ListaDoPut(i, x, l)
                         /\ x = Dir(t, e)[k] /\ Dir(t, e)'[k] = EntradaFechada(x, u, FALSE, l)
      BY <1>12 DEF MudaPorFecho
    <3>2. EntradaFechada(x, u, FALSE, l).licitacoes = l
      BY <1>9, <3>1 DEF EntradaFechada, TipoEntrada
    <3> QED
      BY <3>1, <3>2
  <2>2. UNCHANGED <<obj, srv, nLic>>
    BY <1>12 DEF MudaPorFecho, PutFio, FioPut, heaps
  <2>3. ~ PostServidor
    <3>1. CASE PostServidor
      <4>1. srv.pc = "post" /\ srv'.pc = "recv"
        BY <3>1 DEF PostServidor, ServidorPost, Ocioso
      <4> QED
        BY <2>2, <4>1
    <3> QED
      BY <3>1
  <2>4. CASE s2 = s
    BY <1>8, <2>3, <2>4, Zenon
  <2>5. CASE /\ fio[i].pc = "escrevendo" /\ Len(s2) = fio[i].n
             /\ \A m \in 1 .. fio[i].n : s2[m].origem = Vistas(i)[m]
    <3>1. /\ fio[i].n \in Nat
          /\ \A m \in 1 .. fio[i].n : /\ m \in DOMAIN obj[i].licitacoes
                                      /\ Vistas(i)[m] = obj[i].licitacoes[m]
      <4>1. fio[i].pc \in {"somando", "ordenando", "escrevendo"} /\ fio[i].alvo = i
        BY <1>12, <2>5
      <4>2. /\ fio[i].n \in Nat
            /\ \A m \in 1 .. fio[i].n : /\ m \in DOMAIN obj[fio[i].alvo].licitacoes
                                        /\ Vistas(i)[m] = obj[fio[i].alvo].licitacoes[m]
        BY <1>1, <1>2, <4>1, VistasDaLista, Zenon
      <4> QED
        BY <4>1, <4>2, Zenon
    <3>2. DOMAIN s2 = 1 .. fio[i].n
      <4>1. s2 \in Seq(TipoLicitacaoDir)
        <5>1. PICK x, l, u : /\ l \in Seq(TipoLicitacaoDir)
                             /\ x = Dir(t, e)[k] /\ Dir(t, e)'[k] = EntradaFechada(x, u, FALSE, l)
          BY <1>12 DEF MudaPorFecho
        <5>2. EntradaFechada(x, u, FALSE, l).licitacoes = l
          BY <1>9, <5>1 DEF EntradaFechada, TipoEntrada
        <5> QED
          BY <5>1, <5>2
      <4> QED
        BY <2>5, <3>1, <4>1
    <3>3. ASSUME NEW n \in DOMAIN s2
          PROVE  s2[n].origem \in 1 .. nLic' /\ licitacao'[s2[n].origem].alvo = i
      <4>1. s2[n].origem = obj[i].licitacoes[n] /\ n \in DOMAIN obj[i].licitacoes
        BY <2>5, <3>1, <3>2
      <4>2. s2[n].origem \in 1 .. nLic /\ licitacao[s2[n].origem].alvo = i
        BY <1>1, <4>1 DEF InvListados
      <4> QED
        BY <1>3, <4>2
    <3>4. ASSUME SemTardias(i)', NEW b \in Lista(i)' PROVE \E n \in DOMAIN s2 : s2[n].origem = b
      <4>1. Len(obj[i].licitacoes) = fio[i].n
        BY <1>1, <1>2, <1>3, <1>12, <2>5, <3>4 DEF Travessias
      <4>2. obj[i].licitacoes \in Seq(Lics)
        BY <1>1, <1>2 DEF Indutivo, TypeOK, TipoObjeto
      <4>3. PICK m \in DOMAIN obj[i].licitacoes : b = obj[i].licitacoes[m]
        BY <2>2, <3>4 DEF Lista
      <4>4. m \in 1 .. fio[i].n
        BY <4>1, <4>2, <4>3
      <4> QED
        BY <2>5, <3>1, <3>2, <4>3, <4>4
    <3>5. SoSuas(i, s2)'
      BY <3>3 DEF SoSuas
    <3>6. TodasAsSuas(i, s2)'
      BY <3>4 DEF TodasAsSuas
    <3> QED
      BY <3>5, <3>6
  <2> QED
    BY <2>1, <2>4, <2>5 DEF ListaDoPut
<1>13. CASE Dir(t, e)'[k] = Dir(t, e)[k] /\ ~ (PostServidor /\ Licita /\ srv.alvo = i)
  BY <1>8, <1>13
<1> QED
  BY <1>9, <1>11, <1>12, <1>13

\* Entries show the bids made to their objects, and all of those that were posted.
LEMMA PassoInvMostradas ==
    ASSUME IndExchange, IndDiretorio, InvMostradas, [SistemaNext]_sistemaVars
    PROVE  InvMostradas'
<1>1. /\ Indutivo /\ InvPedido /\ InvPut /\ TiposDir /\ [Next]_vars
  BY PassoDoExchange DEF IndExchange, IndDiretorio
<1> SUFFICES ASSUME NEW i \in 1 .. nObj', fio'[i].pc # "nenhum", ~ Pendente(i)', ~ falhou',
                    SemColisao(i)'
             PROVE  SoSuas(i, Entrada(i).licitacoes)' /\ TodasAsSuas(i, Entrada(i).licitacoes)'
  BY DEF InvMostradas
<1>2. ~ falhou
  BY <1>1, PassoEntradas
<1>3. i \in 1 .. nObj
  BY <1>1, PendenteMuda
<1>4. /\ i \in Objs /\ obj'[i].tipo = obj[i].tipo /\ obj'[i].empresa = obj[i].empresa
  BY <1>1, <1>3, ObjetosFicam
<1>5. obj[i].tipo \in Tipos /\ obj[i].empresa \in Empresas
  <2>1. Indutivo'
    BY <1>1, PassoIndutivo
  <2>2. obj'[i].tipo \in Tipos /\ obj'[i].empresa \in Empresas
    BY <1>4, <2>1 DEF Indutivo, InvFios, InvFio, Tipos
  <2> QED
    BY <1>4, <2>2
<1>6. PICK t \in Tipos, e \in Empresas : t = obj[i].tipo /\ e = obj[i].empresa
  BY <1>5
<1>7. SemColisao(i) /\ Ordem(i)' = Ordem(i)
  BY <1>1, <1>3, SemColisaoFica, OrdemFica
<1>8. PICK k, s, s2 : /\ k = Ordem(i) + 1 /\ s = Dir(t, e)[k].licitacoes
                      /\ s2 = Dir(t, e)'[k].licitacoes
  OBVIOUS
<1>9. Entrada(i).licitacoes = s /\ Entrada(i)'.licitacoes = s2
  BY <1>4, <1>6, <1>7, <1>8 DEF Entrada
<1>10. SUFFICES SoSuas(i, s2)' /\ TodasAsSuas(i, s2)'
  <2>1. SoSuas(i, Entrada(i).licitacoes)' <=> SoSuas(i, s2)'
    BY <1>9 DEF SoSuas
  <2>2. TodasAsSuas(i, Entrada(i).licitacoes)' <=> TodasAsSuas(i, s2)'
    BY <1>9 DEF TodasAsSuas
  <2> QED
    BY <2>1, <2>2
<1>11. CASE Pendente(i)
  <2>1. DOMAIN s2 = {} /\ DOMAIN obj'[i].licitacoes = {}
    BY <1>2, <1>3, <1>6, <1>8, <1>11, EntradaNova
  <2>2. Lista(i)' = {}
    BY <2>1 DEF Lista
  <2> QED
    BY <2>1, <2>2 DEF SoSuas, TodasAsSuas
<1>12. CASE ~ Pendente(i)
  <2>1. fio[i].pc # "nenhum"
    <3>1. Iniciado(i, t, e)'
      BY <1>4, <1>6 DEF Iniciado
    <3>2. CASE Iniciado(i, t, e)
      BY <3>2 DEF Iniciado
    <3>3. CASE ~ Iniciado(i, t, e)
      <4>1. i = nObj' /\ (IniciaTerminaLeilao \/ CriaEmissao)
        BY <1>1, <1>4, <3>1, <3>3, IniciadoMuda
      <4>2. CASE CriaEmissao
        BY <1>3, <4>1, <4>2, ExchangeAssumption, <1>1 DEF CriaEmissao, Indutivo, TypeOK
      <4>3. CASE IniciaTerminaLeilao
        <5>1. srv.pc = "inicia" /\ nObj' = nObj
          BY <4>3 DEF IniciaTerminaLeilao, heaps
        <5>2. ~ Licita /\ srv.alvo = nObj
          BY <1>1, <5>1 DEF InvPedido, Licita
        <5> QED
          BY <1>12, <4>1, <5>1, <5>2 DEF Pendente
      <4> QED
        BY <4>1, <4>2, <4>3
    <3> QED
      BY <3>2, <3>3
  <2>2. SoSuas(i, s) /\ TodasAsSuas(i, s)
    BY <1>2, <1>3, <1>7, <1>9, <1>12, <2>1 DEF InvMostradas
  <2> QED
    BY <1>3, <1>6, <1>7, <1>8, <1>12, <2>1, <2>2, MostradasFicam
<1> QED
  BY <1>11, <1>12

\* It holds always.
LEMMA MostradasSempre == SistemaSpec => []InvMostradas
<1>1. SistemaInit => InvMostradas
  BY DEF SistemaInit, Init, InvMostradas
<1>2. IndExchange /\ IndDiretorio /\ InvMostradas /\ [SistemaNext]_sistemaVars => InvMostradas'
  BY PassoInvMostradas
<1> QED
  BY <1>1, <1>2, IndExchangeSempre, IndDiretorioSempre, PTL DEF SistemaSpec

\* As long as no request fails and no index is given twice, a bid is shown only under
\* the auction or issue it was made to, although the index it is posted with is read off
\* the history after the bid was accepted, while the closing thread may be archiving.
THEOREM LicitacoesNoSeuLugar == SistemaSpec => []LicitacaoNoSeuLugar
<1>1. IndExchange /\ IndDiretorio /\ InvMostradas => LicitacaoNoSeuLugar
  <2> SUFFICES ASSUME IndExchange, IndDiretorio, InvMostradas,
                      NEW i \in Objs, fio[i].pc # "nenhum", ~ falhou, SemColisao(i),
                      NEW m \in Posicoes(i), NEW n \in DOMAIN Diretorio(i)[m].licitacoes
               PROVE  licitacao[Diretorio(i)[m].licitacoes[n].origem].alvo = i
    BY DEF LicitacaoNoSeuLugar
  <2>1. Indutivo /\ InvPedido /\ TiposDir /\ InvPosicoes /\ InvEntradas
    BY DEF IndExchange, IndDiretorio
  <2>2. i \in 1 .. nObj /\ obj[i].tipo \in Tipos /\ obj[i].empresa \in Empresas
    BY <2>1, ExchangeAssumption DEF Indutivo, InvFios, InvFio, Objs, Tipos, TypeOK
  <2>3. PICK t \in Tipos, e \in Empresas : t = obj[i].tipo /\ e = obj[i].empresa
    BY <2>2
  <2>4. Diretorio(i) = Dir(t, e)
    BY <2>3 DEF Diretorio, Dir
  <2>5. m \in DOMAIN Dir(t, e) /\ Dir(t, e)[m].origem = i
    BY <2>4 DEF Posicoes
  <2>6. i \in Publicados(t, e) /\ ~ Pendente(i)
    BY <2>1, <2>2, <2>3, <2>5 DEF InvEntradas, InvEntrada, Publicados
  <2> DEFINE k == Ordem(i) + 1
  <2>7. k \in DOMAIN Dir(t, e) /\ Dir(t, e)[k].origem = i
    BY <2>1, <2>6 DEF InvPosicoes
  <2>8. m = k
    <3>1. Dir(t, e) \in Seq(TipoEntrada)
      BY <2>1 DEF TiposDir, Dir
    <3>2. m \in Int /\ k \in Int /\ i \in Int
      BY <2>2, <2>5, <2>7, <3>1
    <3> HIDE DEF k
    <3>3. ~ (m < k) /\ ~ (k < m)
      BY <2>1, <2>5, <2>7, <3>2 DEF InvEntradas
    <3> QED
      BY <3>2, <3>3
  <2>9. Entrada(i) = Dir(t, e)[m]
    BY <2>3, <2>8 DEF Entrada
  <2>10. SoSuas(i, Dir(t, e)[m].licitacoes)
    BY <2>2, <2>6, <2>9 DEF InvMostradas
  <2> QED
    BY <2>4, <2>10 DEF SoSuas
<1> QED
  BY <1>1, IndExchangeSempre, IndDiretorioSempre, MostradasSempre, PTL

\* Under the same conditions, once the server has answered, every bid the exchange holds
\* for a closed auction or issue that got no late bid is shown in its entry.
THEOREM LicitacoesSempreChegam == SistemaSpec => []LicitacoesChegam
<1>1. IndExchange /\ IndDiretorio /\ InvMostradas => LicitacoesChegam
  <2> SUFFICES ASSUME IndExchange, IndDiretorio, InvMostradas,
                      NEW i \in 1 .. nObj, fio[i].pc = "fim", srv.pc = "recv", ~ falhou,
                      SemColisao(i), SemTardias(i)
               PROVE  \E m \in Posicoes(i) : \A b \in Lista(i) :
                         \E n \in DOMAIN Diretorio(i)[m].licitacoes :
                            Diretorio(i)[m].licitacoes[n].origem = b
    BY DEF LicitacoesChegam
  <2>1. Indutivo /\ InvPedido /\ TiposDir /\ InvPosicoes /\ InvFechadas
    BY DEF IndExchange, IndDiretorio
  <2>2. i \in Objs /\ obj[i].tipo \in Tipos /\ obj[i].empresa \in Empresas
    BY <2>1, ExchangeAssumption DEF Indutivo, InvFios, InvFio, Objs, Tipos, TypeOK
  <2>3. PICK t \in Tipos, e \in Empresas : t = obj[i].tipo /\ e = obj[i].empresa
    BY <2>2
  <2>4. Diretorio(i) = Dir(t, e)
    BY <2>3 DEF Diretorio, Dir
  <2> DEFINE k == Ordem(i) + 1
  <2>5. k \in DOMAIN Dir(t, e)
    BY <2>1, <2>2, <2>3 DEF InvFechadas
  <2>6. Dir(t, e) \in Seq(TipoEntrada)
    BY <2>1 DEF TiposDir, Dir
  <2>7. ~ Pendente(i) /\ Dir(t, e)[k].origem = i
    BY <2>1, <2>3, <2>5, <2>6, NoSeuLugar
  <2>8. Entrada(i) = Dir(t, e)[k]
    BY <2>3 DEF Entrada
  <2>9. TodasAsSuas(i, Dir(t, e)[k].licitacoes)
    BY <2>7, <2>8 DEF InvMostradas
  <2>10. \A b \in Lista(i) : \E n \in DOMAIN Dir(t, e)[k].licitacoes :
                                Dir(t, e)[k].licitacoes[n].origem = b
    BY <2>9 DEF TodasAsSuas, PorEnviar
  <2>11. k \in Posicoes(i)
    BY <2>4, <2>5, <2>7 DEF Posicoes
  <2> HIDE DEF k
  <2> QED
    BY <2>4, <2>10, <2>11
<1> QED
  BY <1>1, IndExchangeSempre, IndDiretorioSempre, MostradasSempre, PTL

==============================================================================
