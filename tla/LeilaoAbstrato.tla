--------------------------- MODULE LeilaoAbstrato ---------------------------
(***************************************************************************)
(* What an exchange promises about auctions.  A company has at most one    *)
(* open auction; bids count while it is open; it closes once; and it is    *)
(* archived once, in one step, with the verdict that the bids made while   *)
(* it was open reach its amount.  Nothing is promised about the verdict of *)
(* an auction that got a bid after it closed, or whose bids add up to more *)
(* than an int holds.                                                      *)
(*                                                                         *)
(* Threads, lists, traversals, sorting and allocation, fixed-rate issues   *)
(* and requests do not appear here.                                        *)
(***************************************************************************)
EXTENDS Integers, Sequences

CONSTANTS Nomes,      \* company names
          Empresas,   \* the companies of this exchange, which have a history
          Ids,        \* identities of auctions
          Quantias,   \* amounts, of auctions and of bids
          Nulo,       \* no auction
          Limite      \* sums of this size and above do not fit in an int

VARIABLES aberto,     \* aberto[e]: the open auction of e, or Nulo
          leilao,     \* leilao[i]: auction i, or PorAbrir
          historico   \* historico[e]: the archived auctions of e and their verdicts

avars == <<aberto, leilao, historico>>

PorAbrir == [existe |-> FALSE, empresa |-> CHOOSE n \in Nomes : TRUE, montante |-> 0,
             total |-> 0, volume |-> 0, tardia |-> FALSE]

Absoluto(q) == IF q < 0 THEN - q ELSE q

Init == /\ aberto = [e \in Nomes |-> Nulo]
        /\ leilao = [i \in Ids |-> PorAbrir]
        /\ historico = [e \in Empresas |-> << >>]

Abre(e, i, q) ==
    /\ aberto[e] = Nulo
    /\ ~ leilao[i].existe
    /\ aberto' = [aberto EXCEPT ![e] = i]
    /\ leilao' = [leilao EXCEPT ![i] = [PorAbrir EXCEPT !.existe = TRUE, !.empresa = e,
                                                        !.montante = q]]
    /\ UNCHANGED historico

Licita(e, q) ==
    /\ aberto[e] # Nulo
    /\ leilao' = [leilao EXCEPT ![aberto[e]].total = @ + q,
                                ![aberto[e]].volume = @ + Absoluto(q)]
    /\ UNCHANGED <<aberto, historico>>

Fecha(e) ==
    /\ aberto[e] # Nulo
    /\ aberto' = [aberto EXCEPT ![e] = Nulo]
    /\ UNCHANGED <<leilao, historico>>

Fechado(i) == leilao[i].existe /\ aberto[leilao[i].empresa] # i

(* a bid the server accepted before the auction closed and added after     *)
LicitaTarde(i) ==
    /\ Fechado(i)
    /\ leilao' = [leilao EXCEPT ![i].tardia = TRUE]
    /\ UNCHANGED <<aberto, historico>>

Arquiva(i, sucesso) ==
    /\ Fechado(i)
    /\ \A k \in DOMAIN historico[leilao[i].empresa] :
           historico[leilao[i].empresa][k].id # i
    /\ ~ leilao[i].tardia /\ leilao[i].volume < Limite =>
           (sucesso <=> leilao[i].montante <= leilao[i].total)
    /\ historico' = [historico EXCEPT ![leilao[i].empresa] =
                        Append(@, [id |-> i, sucesso |-> sucesso])]
    /\ UNCHANGED <<aberto, leilao>>

Next == \/ \E e \in Nomes : \/ \E i \in Ids, q \in Quantias : Abre(e, i, q)
                            \/ \E q \in Quantias : Licita(e, q)
                            \/ e \in Empresas /\ Fecha(e)
        \/ \E i \in Ids : \/ LicitaTarde(i)
                          \/ \E sucesso \in BOOLEAN : Arquiva(i, sucesso)

Spec == Init /\ [][Next]_avars
=============================================================================
