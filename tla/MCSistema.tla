------------------------------ MODULE MCSistema ------------------------------
(***************************************************************************)
(* Instances of Sistema for TLC.                                           *)
(***************************************************************************)
EXTENDS Sistema

CONSTANTS caneca, nada, semNome

Pedido(tipo, quantia, juro) ==
    [tipo |-> tipo, empresa |-> caneca, quantia |-> quantia, juro |-> juro]

So == {caneca}

\* One bid covers the auction alone; two leave one of them out.
Pedidos == {Pedido("leilao", 1000, 30), Pedido("emissao", 1000, 0),
            Pedido("licitar", 1000, 10), Pedido("emprestimo", 1000, 0),
            Pedido("outro", 0, 0)}
=============================================================================
