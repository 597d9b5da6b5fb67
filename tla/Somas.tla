------------------------------- MODULE Somas -------------------------------
(***************************************************************************)
(* Sums of sequences of integers of any size, by which the properties say  *)
(* what a list of bids is worth.                                           *)
(***************************************************************************)
EXTENDS Integers, Sequences

\* Running totals of q: entry k is the sum of its first k elements.
Somas(q) ==
    LET acc[k \in 0 .. Len(q)] == IF k = 0 THEN 0 ELSE acc[k - 1] + q[k]
    IN  acc

Soma(q) == Somas(q)[Len(q)]

\* The elements of q without their signs.
Absolutos(q) == [k \in DOMAIN q |-> IF q[k] < 0 THEN - q[k] ELSE q[k]]
=============================================================================
