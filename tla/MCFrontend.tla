----------------------------- MODULE MCFrontend -----------------------------
(***************************************************************************)
(* Two clients, an investor and two companies.  The first company is       *)
(* routed to the exchange that serves it; the second, like MesasLda in     *)
(* frontend.erl, to one that does not.                                     *)
(***************************************************************************)
EXTENDS Frontend, TLC

CONSTANTS c1, c2, noite, agua, mesas, ninguem, x1, x2

MCRota == agua :> x1 @@ mesas :> x2
MCServe == x1 :> {agua, mesas} @@ x2 :> {}
=============================================================================
