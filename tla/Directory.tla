------------------------------ MODULE Directory ------------------------------
(***************************************************************************)
(* The directory (java_src/Directory): a REST service that keeps in memory *)
(* one list of auctions and one of fixed-rate issues per company.  Clients *)
(* read it; the exchanges write it.  An entry is addressed by its position *)
(* in the list (0 for the first), never by the  id  it was posted with.    *)
(* A handler that throws is answered with status 500 and changes nothing.  *)
(*                                                                         *)
(* The fields  origem  are auxiliary: the auction, issue or bid of an      *)
(* exchange that a request is about.  No handler looks at them.            *)
(***************************************************************************)
EXTENDS Integers, Sequences

CONSTANTS
    Empresas,    \* companies the directory is built with
    Nomes,       \* company names that requests may carry
    SemNome      \* a query without the parameter nome

VARIABLES dirLeiloes, dirEmissoes   \* Empresa.historicoLeiloes, .historicoEmissoes

dirVars == <<dirLeiloes, dirEmissoes>>

DirInit ==
    /\ dirLeiloes = [e \in Empresas |-> <<>>]
    /\ dirEmissoes = [e \in Empresas |-> <<>>]

-----------------------------------------------------------------------------
(* Requests (class RestRequest, one constructor per kind of request).      *)

PedidoVazio(nome, id, origem) ==
    [nome |-> nome, id |-> id, taxaMaxima |-> 0, montanteTotal |-> 0,
     idL |-> -1, juro |-> 0, quantia |-> 0, ativo |-> FALSE, sucesso |-> FALSE,
     temLista |-> FALSE, licitacaos |-> <<>>, origem |-> origem]

\* A new auction or issue.
PedidoEmpresa(nome, id, taxaMaxima, montanteTotal, origem) ==
    [PedidoVazio(nome, id, origem) EXCEPT
        !.taxaMaxima = taxaMaxima, !.montanteTotal = montanteTotal]

\* A new bid: id names the auction or issue, idL the bid.
PedidoInvestidor(nome, id, idL, juro, quantia, origem) ==
    [PedidoVazio(nome, id, origem) EXCEPT
        !.idL = idL, !.juro = juro, !.quantia = quantia]

\* The end of an auction or issue, with the allocated bids if some were left out.
PedidoFecho(nome, id, sucesso, temLista, licitacaos, origem) ==
    [PedidoVazio(nome, id, origem) EXCEPT
        !.sucesso = sucesso, !.temLista = temLista, !.licitacaos = licitacaos]

\* An exchange's Licitacao has no id: in a list sent as JSON it is read as 0.
LicitacaoJson(taxa, quantia, origem) ==
    [id |-> 0, taxa |-> taxa, quantia |-> quantia, origem |-> origem]

-----------------------------------------------------------------------------
(* POST and PUT.                                                           *)

\* Representations.Leilao and Emissao, as addLeilao and addEmissao build them.
Entrada(r, taxa) ==
    [id |-> r.id, taxa |-> taxa, montante |-> r.montanteTotal, sucesso |-> FALSE,
     ativo |-> TRUE, licitacoes |-> <<>>, origem |-> r.origem]

\* historico.get(id) finds an entry: the company is known, the position in range.
Existe(d, r) == r.nome \in Empresas /\ r.id \in 0 .. Len(d[r.nome]) - 1

\* Mutant of postLeilao: the latest auction is put first.
postLeilaoNoInicio(r) ==
    /\ dirLeiloes' = IF r.nome \in Empresas
                     THEN [dirLeiloes EXCEPT ![r.nome] =
                              <<Entrada(r, r.juro)>> \o @]
                     ELSE dirLeiloes
    /\ UNCHANGED dirEmissoes

\* The rate stored is the field juro of the request.
postLeilao(r) ==
    /\ dirLeiloes' = IF r.nome \in Empresas
                     THEN [dirLeiloes EXCEPT ![r.nome] =
                              Append(@, Entrada(r, r.juro))]
                     ELSE dirLeiloes
    /\ UNCHANGED dirEmissoes

postLeilaoLicitacao(r) ==
    /\ dirLeiloes' = IF Existe(dirLeiloes, r)
                     THEN [dirLeiloes EXCEPT ![r.nome][r.id + 1].licitacoes =
                              Append(@, [id |-> r.idL, taxa |-> r.juro,
                                         quantia |-> r.quantia,
                                         origem |-> r.origem])]
                     ELSE dirLeiloes
    /\ UNCHANGED dirEmissoes

\* Mutant of putLeilaoSucesso: the auction stays active.
putLeilaoSucessoAtivo(r) ==
    /\ dirLeiloes' = IF Existe(dirLeiloes, r)
                     THEN [dirLeiloes EXCEPT
                              ![r.nome][r.id + 1].sucesso = r.sucesso,
                              ![r.nome][r.id + 1].licitacoes =
                                  IF r.temLista THEN r.licitacaos ELSE @]
                     ELSE dirLeiloes
    /\ UNCHANGED dirEmissoes

\* Mutant of putLeilaoSucesso: a request without a list replaces the list too.
putLeilaoSucessoSemTeste(r) ==
    /\ dirLeiloes' = IF Existe(dirLeiloes, r)
                     THEN [dirLeiloes EXCEPT
                              ![r.nome][r.id + 1].sucesso = r.sucesso,
                              ![r.nome][r.id + 1].ativo = r.ativo,
                              ![r.nome][r.id + 1].licitacoes = r.licitacaos]
                     ELSE dirLeiloes
    /\ UNCHANGED dirEmissoes

putLeilaoSucesso(r) ==
    /\ dirLeiloes' = IF Existe(dirLeiloes, r)
                     THEN [dirLeiloes EXCEPT
                              ![r.nome][r.id + 1].sucesso = r.sucesso,
                              ![r.nome][r.id + 1].ativo = r.ativo,
                              ![r.nome][r.id + 1].licitacoes =
                                  IF r.temLista THEN r.licitacaos ELSE @]
                     ELSE dirLeiloes
    /\ UNCHANGED dirEmissoes

\* post(): a new issue.
postEmissao(r) ==
    /\ dirEmissoes' = IF r.nome \in Empresas
                      THEN [dirEmissoes EXCEPT ![r.nome] =
                               Append(@, Entrada(r, r.taxaMaxima))]
                      ELSE dirEmissoes
    /\ UNCHANGED dirLeiloes

postEmissaoLicitacao(r) ==
    /\ dirEmissoes' = IF Existe(dirEmissoes, r)
                      THEN [dirEmissoes EXCEPT ![r.nome][r.id + 1].licitacoes =
                               Append(@, [id |-> r.idL, taxa |-> 0,
                                          quantia |-> r.quantia,
                                          origem |-> r.origem])]
                      ELSE dirEmissoes
    /\ UNCHANGED dirLeiloes

\* Mutant of putEmissaoSucesso: the list is replaced, as an auction's may be.
putEmissaoSucessoComLista(r) ==
    /\ dirEmissoes' = IF Existe(dirEmissoes, r)
                      THEN [dirEmissoes EXCEPT
                               ![r.nome][r.id + 1].sucesso = r.sucesso,
                               ![r.nome][r.id + 1].ativo = r.ativo,
                               ![r.nome][r.id + 1].licitacoes = r.licitacaos]
                      ELSE dirEmissoes
    /\ UNCHANGED dirLeiloes

putEmissaoSucesso(r) ==
    /\ dirEmissoes' = IF Existe(dirEmissoes, r)
                      THEN [dirEmissoes EXCEPT
                               ![r.nome][r.id + 1].sucesso = r.sucesso,
                               ![r.nome][r.id + 1].ativo = r.ativo]
                      ELSE dirEmissoes
    /\ UNCHANGED dirLeiloes

\* A restart of the service: nothing is stored outside memory.
Reinicia ==
    /\ dirLeiloes' = [e \in Empresas |-> <<>>]
    /\ dirEmissoes' = [e \in Empresas |-> <<>>]

-----------------------------------------------------------------------------
(* GET: the status each query is answered with.                            *)

\* /empresa/leiloes, /empresa/emissoes: an unknown company is a null pointer.
getLista(nome) ==
    CASE nome = SemNome -> 404
      [] nome \notin Empresas -> 500
      [] OTHER -> 200

\* A position in a list of n: only the upper bound is tested.
Posicao(id, n) ==
    CASE id >= n -> 404
      [] id < 0 -> 500
      [] OTHER -> 200

\* /empresa/leilao, /empresa/emissao, and /licitacoes under either.
getEntrada(d, nome, id) ==
    IF nome \in Empresas THEN Posicao(id, Len(d[nome])) ELSE getLista(nome)

\* /empresa/leilao/licitacao, /empresa/emissao/licitacao.
getLicitacao(d, nome, idL, id) ==
    IF getEntrada(d, nome, idL) = 200
    THEN Posicao(id, Len(d[nome][idL + 1].licitacoes))
    ELSE getEntrada(d, nome, idL)

-----------------------------------------------------------------------------
(* Properties.                                                             *)

\* What a client has read of an entry that later answers may not take back: its
\* position, its id and its amount, and that it is closed.
Mantem(d, e, id) ==
    LET antes == d[e][id + 1]
        depois == (d')[e][id + 1]
    IN  /\ getEntrada(d', e, id) = 200
        /\ depois.id = antes.id /\ depois.montante = antes.montante
        /\ depois.ativo => antes.ativo

\* While the service runs and whoever writes to it in whatever order, queries stay
\* answered: an auction or issue once found at a position is found there for ever,
\* is never reopened, and no loan to an issue disappears (the bids of an auction
\* may: the exchange closes it with the allocated ones).
ConsultaEstavel ==
    [][\/ Reinicia
       \/ \A e \in Empresas :
             /\ \A id \in 0 .. Len(dirLeiloes[e]) - 1 : Mantem(dirLeiloes, e, id)
             /\ \A id \in 0 .. Len(dirEmissoes[e]) - 1 :
                   /\ Mantem(dirEmissoes, e, id)
                   /\ \A b \in 0 .. Len(dirEmissoes[e][id + 1].licitacoes) - 1 :
                         getLicitacao(dirEmissoes', e, id, b) = 200]_dirVars
=============================================================================
