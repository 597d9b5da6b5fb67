----------------------------- MODULE Licitacoes -----------------------------
(***************************************************************************)
(* The arithmetic of a list of bids: the sums that decide whether an       *)
(* auction or a fixed-rate issue was covered, the rate an auction closes   *)
(* at, and the selection of investors of Leilao.alocaInvestidores().       *)
(*                                                                         *)
(* A list is a sequence of references into a heap  lic , a function from   *)
(* references to records with the fields  taxa  and  quantia  (class       *)
(* Licitacao; the investor's name takes no part in any decision).  Rates   *)
(* are Java floats that the code only compares, takes the maximum of and   *)
(* raises by 10%: they are integers here, 1 being Float.MIN_VALUE.         *)
(* Amounts are Java ints and wrap around.                                  *)
(***************************************************************************)
EXTENDS Integers, Sequences

CONSTANT IntSpan      \* the number of values of a Java int: 2^32, scaled in runs

ASSUME IntSpanAssumption == IntSpan \in Nat \ {0}

\* Two's complement reading of an arithmetic result.
Wrap(x) == ((x + IntSpan \div 2) % IntSpan) - IntSpan \div 2

\* Running totals of a list: entry k is the int sum of its first k amounts.
Acumulado(s, lic) ==
    LET acc[k \in 0 .. Len(s)] ==
            IF k = 0 THEN 0 ELSE Wrap(acc[k - 1] + lic[s[k]].quantia)
    IN  acc

\* getInvestimentoTotal() of Leilao and Emissao.
InvestimentoTotal(s, lic) == Acumulado(s, lic)[Len(s)]

\* Float.MIN_VALUE, the seed of the reduction: the smallest positive rate.
FloatMinValue == 1

\* The result of getTaxaLicitacaoMaxima(), as a singleton: the highest rate bid,
\* never below the seed.
TaxaLicitacaoMaxima(s, lic) ==
    LET taxas == {FloatMinValue} \cup {lic[s[k]].taxa : k \in DOMAIN s}
    IN  {t \in taxas : \A u \in taxas : u <= t}

\* Mutant of Ordenadas: the bids are taken in the order they were made.
OrdenadasPorChegada(s, lic) == {s}

\* The result of licitacoes.stream().sorted(by taxa), as a singleton: the list
\* permuted by rate, bids of equal rate keeping their order (Stream.sorted is stable).
Ordenadas(s, lic) ==
    LET antes(i, j) == \/ lic[s[i]].taxa < lic[s[j]].taxa
                       \/ lic[s[i]].taxa = lic[s[j]].taxa /\ i < j
        ordens == {p \in [DOMAIN s -> DOMAIN s] :
                      \A i, j \in DOMAIN s : i < j => antes(p[i], p[j])}
    IN  {[k \in DOMAIN s |-> s[p[k]]] : p \in ordens}

\* Mutant of Cortes: the loop goes on until the amount is exceeded.
CortesEstritos(t, lic, montante) ==
    {k \in 0 .. Len(t) :
        /\ \A j \in 1 .. k - 1 : Acumulado(t, lic)[j] <= montante
        /\ k = Len(t) \/ (k > 0 /\ Acumulado(t, lic)[k] > montante)}

\* How many bids the loop takes from the sorted list t: it adds a bid before it
\* compares, and stops at the first running total that covers the amount.
Cortes(t, lic, montante) ==
    {k \in 0 .. Len(t) :
        /\ \A j \in 1 .. k - 1 : Acumulado(t, lic)[j] < montante
        /\ k = Len(t) \/ (k > 0 /\ Acumulado(t, lic)[k] >= montante)}

\* The list  alocados , as a singleton, that alocaInvestidores() builds from the bids s.
Alocacoes(s, lic, montante) ==
    UNION {{SubSeq(t, 1, k) : k \in Cortes(t, lic, montante)} :
              t \in Ordenadas(s, lic)}
=============================================================================
