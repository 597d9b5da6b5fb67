----------------------------- MODULE MCExchange -----------------------------
(***************************************************************************)
(* Instances of Exchange for TLC: one company, enough auctions and issues  *)
(* for two of a kind to overlap, and requests whose amounts make an        *)
(* auction fail, be covered exactly, or be covered with bids to spare.     *)
(***************************************************************************)
EXTENDS Exchange

CONSTANTS caneca, mesas, nada

Pedido(tipo, empresa, quantia, juro) ==
    [tipo |-> tipo, empresa |-> empresa, quantia |-> quantia, juro |-> juro]

\* Well-behaved requests of one company; "outro" stands for a request that is
\* refused whatever the state.
PedidosCaneca ==
    {Pedido("leilao", caneca, 1000, 30), Pedido("emissao", caneca, 1000, 0),
     Pedido("licitar", caneca, 500, 10), Pedido("licitar", caneca, 1000, 20),
     Pedido("emprestimo", caneca, 1000, 0), Pedido("outro", caneca, 0, 0)}

So == {caneca}

CanecaMesas == {caneca, mesas}

\* Amounts nobody checks the sign of, in a range where three bids overflow;
\* requests for a company of another server arrive as well.
PedidosLimite ==
    {Pedido("leilao", caneca, 1000, 30), Pedido("leilao", mesas, 1000, 30),
     Pedido("licitar", caneca, -500, 10), Pedido("licitar", caneca, 1500, 20)}
=============================================================================
