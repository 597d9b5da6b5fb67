------------------------------- MODULE Lista -------------------------------
(***************************************************************************)
(* What the growable arrays of erlzmq2 promise to the polling thread: each *)
(* live array is a finite list of elements; an operation either performs   *)
(* its list operation or reports failure and leaves every list as it was. *)
(* Allocation, reallocation and element sizes do not appear here.          *)
(***************************************************************************)
EXTENDS Naturals, Sequences, SequencesExt

CONSTANTS Vetores,   \* the arrays
          Valores,   \* what an element may be
          Morto      \* an array that is not initialised (or was destroyed)

VARIABLES lista      \* lista[x]: the elements of array x, or Morto

Vivos == {x \in Vetores : lista[x] # Morto}

(* d with the n elements of s from position i on written over it at        *)
(* position j (positions count from 0); the list grows if it must          *)
Sobrepor(d, s, i, n, j) ==
    [k \in 1 .. (IF j + n > Len(d) THEN j + n ELSE Len(d)) |->
        IF j < k /\ k <= j + n THEN s[i + k - j] ELSE d[k]]

Init == lista = [x \in Vetores |-> Morto]

Cria(x) == /\ lista[x] = Morto
           /\ lista' = [lista EXCEPT ![x] = << >>]

Destroi(x) == /\ lista[x] # Morto
              /\ lista' = [lista EXCEPT ![x] = Morto]

Acrescenta(x, e) == lista' = [lista EXCEPT ![x] = Append(@, e)]

Retira(x, i) == lista' = [lista EXCEPT ![x] = RemoveAt(@, i + 1)]

Copia(x, y, i, n, j) ==
    lista' = [lista EXCEPT ![x] = Sobrepor(@, lista[y], i, n, j)]

Next == \/ \E x \in Vetores : Cria(x)
        \/ \E x \in Vivos : \/ Destroi(x)
                            \/ \E e \in Valores : Acrescenta(x, e)
                            \/ \E i \in 0 .. Len(lista[x]) - 1 : Retira(x, i)
                            \/ \E y \in Vivos :
                                 \E i \in 0 .. Len(lista[y]) :
                                   \E n \in 0 .. Len(lista[y]) - i :
                                     \E j \in 0 .. Len(lista[x]) :
                                        Copia(x, y, i, n, j)

Spec == Init /\ [][Next]_lista
=============================================================================
