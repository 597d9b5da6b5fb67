------------------------------- MODULE Sistema -------------------------------
(***************************************************************************)
(* An exchange and the directory it keeps informed.  The exchange's two    *)
(* outgoing HTTP calls, ServidorPost and FioPut, are joint steps of both:  *)
(* the request built from the caller's locals is handled by the directory, *)
(* or is lost (connection refused, directory down).  The caller cannot     *)
(* tell: sendPost and sendPut discard every response and every exception.  *)
(***************************************************************************)
EXTENDS Exchange, FiniteSets

CONSTANTS
    SemNome,       \* see Directory
    PodeFalhar     \* whether requests may be lost and the directory restarted

ASSUME SistemaAssumption == PodeFalhar \in BOOLEAN /\ SemNome \notin Nomes

VARIABLES
    dirLeiloes, dirEmissoes,   \* see Directory
    falhou    \* auxiliary: a request was lost or answered 500, or a restart

D == INSTANCE Directory

sistemaVars == <<vars, dirLeiloes, dirEmissoes, falhou>>

SistemaInit == Init /\ D!DirInit /\ falhou = FALSE

-----------------------------------------------------------------------------

\* The request of postDiretorioEmpresa or postDiretorioInvestidor; the bid it is
\* about is the last one built.
PedidoDoServidor ==
    LET p == srv.pedido
        o == obj[srv.alvo]
    IN  IF p.tipo \in {"leilao", "emissao"}
        THEN D!PedidoEmpresa(p.empresa, srv.idL, o.taxa, o.montante, srv.alvo)
        ELSE D!PedidoInvestidor(p.empresa, srv.idL, srv.id,
                                licitacao[nLic].taxa, p.quantia, nLic)

\* The request thread i ends with; the list is the one it traversed when writing
\* the JSON text.
PedidoDoFio(i) ==
    LET json(b) == D!LicitacaoJson(licitacao[b].taxa, licitacao[b].quantia, b)
    IN  D!PedidoFecho(obj[i].empresa, fio[i].idL, obj[fio[i].alvo].sucesso,
                      fio[i].lista,
                      IF fio[i].lista
                      THEN [k \in 1 .. fio[i].n |-> json(Vistas(i)[k])]
                      ELSE <<>>,
                      i)

\* The directory handles the request; ok tells whether it finds what it names.
Chega(handler, ok) == handler /\ falhou' = (falhou \/ ~ ok)

\* The request does not reach the directory.
Perde == PodeFalhar /\ falhou' = TRUE /\ UNCHANGED <<dirLeiloes, dirEmissoes>>

PostServidor ==
    LET r == PedidoDoServidor
        novo == r.nome \in Empresas
    IN  /\ ServidorPost
        /\ CASE srv.pedido.tipo = "leilao" -> Chega(D!postLeilao(r), novo)
             [] srv.pedido.tipo = "emissao" -> Chega(D!postEmissao(r), novo)
             [] srv.pedido.tipo = "licitar" ->
                  Chega(D!postLeilaoLicitacao(r), D!Existe(dirLeiloes, r))
             [] srv.pedido.tipo = "emprestimo" ->
                  Chega(D!postEmissaoLicitacao(r), D!Existe(dirEmissoes, r))

PutFio(i) ==
    LET r == PedidoDoFio(i)
    IN  /\ FioPut(i)
        /\ IF obj[i].tipo = "leilao"
           THEN Chega(D!putLeilaoSucesso(r), D!Existe(dirLeiloes, r))
           ELSE Chega(D!putEmissaoSucesso(r), D!Existe(dirEmissoes, r))

\* Steps of the exchange alone.
PassoLocal ==
    /\ \/ \E m \in Mensagens : Recebe(m)
       \/ PassoLocalServidor
       \/ \E i \in Objs : PassoLocalFio(i)
    /\ UNCHANGED <<dirLeiloes, dirEmissoes, falhou>>

ReiniciaDiretorio ==
    /\ PodeFalhar
    /\ D!Reinicia
    /\ falhou' = TRUE
    /\ UNCHANGED vars

SistemaNext ==
    \/ PassoLocal
    \/ PostServidor
    \/ ServidorPost /\ Perde
    \/ \E i \in Objs : PutFio(i) \/ (FioPut(i) /\ Perde)
    \/ ReiniciaDiretorio

\* An HTTP call ends, one way or another; the exchange's threads keep running.
SistemaFairness ==
    /\ WF_sistemaVars(PassoLocalServidor /\ UNCHANGED <<dirLeiloes, dirEmissoes, falhou>>)
    /\ WF_sistemaVars(PostServidor \/ (ServidorPost /\ Perde))
    /\ \A i \in Objs :
         WF_sistemaVars(\/ PassoLocalFio(i)
                           /\ UNCHANGED <<dirLeiloes, dirEmissoes, falhou>>
                        \/ PutFio(i) \/ (FioPut(i) /\ Perde))

SistemaSpec == SistemaInit /\ [][SistemaNext]_sistemaVars

SistemaFairSpec == SistemaSpec /\ SistemaFairness

-----------------------------------------------------------------------------
(* Properties.                                                             *)

Diretorio(i) == IF obj[i].tipo = "leilao" THEN dirLeiloes[obj[i].empresa]
                                          ELSE dirEmissoes[obj[i].empresa]

\* How many auctions (issues) of the same company were built before object i:
\* the position its entry should have in the directory.
Ordem(i) == Cardinality({j \in 1 .. i - 1 : /\ obj[j].tipo = obj[i].tipo
                                            /\ obj[j].empresa = obj[i].empresa})

\* The index each thread was given is the order of its object: no auction (issue)
\* of the company was opened before the previous one was archived.
SemColisao(i) ==
    \A j \in Objs :
        fio[j].pc # "nenhum" /\ obj[j].tipo = obj[i].tipo /\ obj[j].empresa = obj[i].empresa
            => fio[j].idL = Ordem(j)

Posicoes(i) == {k \in DOMAIN Diretorio(i) : Diretorio(i)[k].origem = i}

\* The directory lists the auctions and the issues of a company in the order they
\* were built and each at most once, whatever was lost and however often the
\* directory was restarted: POSTs cannot overtake each other.
DiretorioOrdenado ==
    \A e \in Empresas : \A d \in {dirLeiloes[e], dirEmissoes[e]} :
        \A k, l \in DOMAIN d :
            k < l => d[k].origem < d[l].origem /\ d[k].id <= d[l].id

Fechada(i) ==
    \E k \in Posicoes(i) :
        LET d == Diretorio(i)[k]
        IN  ~ d.ativo /\ d.sucesso = obj[i].sucesso /\ d.montante = obj[i].montante

\* As long as no request failed and no index was used twice, the directory tells
\* the truth about every auction and issue whose thread has ended: closed, with
\* the exchange's verdict and amount.
DiretorioConcorda ==
    \A i \in Objs : fio[i].pc = "fim" /\ ~ falhou /\ SemColisao(i) => Fechada(i)

\* Under the same conditions a bid is only ever shown under the auction or issue
\* it was made to, although the index it is posted with is read off the history
\* after the bid was accepted, and the closing thread may be archiving meanwhile.
LicitacaoNoSeuLugar ==
    \A i \in Objs : fio[i].pc # "nenhum" /\ ~ falhou /\ SemColisao(i) =>
        \A k \in Posicoes(i) :
            LET d == Diretorio(i)[k]
            IN  \A n \in DOMAIN d.licitacoes : licitacao[d.licitacoes[n].origem].alvo = i

\* Under the same conditions, once the server has answered, every bid the
\* exchange holds for a closed auction or issue that got no late bid is shown.
LicitacoesChegam ==
    \A i \in 1 .. nObj :
        fio[i].pc = "fim" /\ srv.pc = "recv" /\ ~ falhou /\ SemColisao(i) /\ SemTardias(i) =>
            \E k \in Posicoes(i) : \A b \in Lista(i) :
                LET d == Diretorio(i)[k]
                IN  \E n \in DOMAIN d.licitacoes : d.licitacoes[n].origem = b

\* However the POSTs of the server thread and the PUTs of the closing threads
\* interleave, what a query once found stays found: positions, ids and amounts do
\* not change, nothing closed is reopened, no loan to an issue disappears.
ConsultasEstaveis == D!ConsultaEstavel

\* The entry of every auction and issue is closed in the end, unless a request
\* failed, an index was used twice, or a late bid killed the closing thread.
EntradaFecha ==
    \A i \in Objs : (fio[i].pc = "dorme") ~>
        (Fechada(i) \/ falhou \/ ~ SemColisao(i) \/ ~ SemTardias(i))

\* "Este pedido e feito no fim de um leilao pela Exchange para atualizar o estado
\* e sucesso do leilao" (report.pdf, page 5): if no request failed, an auction is
\* shown as closed once its thread, and those of the auctions before it, have ended.
PutAtualizaOLeilao ==
    \A i \in 1 .. nObj :
        obj[i].tipo = "leilao" /\ ~ falhou /\ (\A j \in 1 .. i : fio[j].pc = "fim") =>
            \A k \in Posicoes(i) : ~ Diretorio(i)[k].ativo
==============================================================================
