---------------------------- MODULE MCSettlementTx ----------------------------
(* Small instances of SettlementTx for TLC. *)
EXTENDS SettlementTx, TLC

CONSTANTS o1, o2, o3, h1, h2, h3, h4

Line(i, q) == [product |-> i, quantity |-> q]

\* o1 and o2 name the same two products in opposite orders; o3 finds its first
\* product in stock and not its second.
MCLines ==
  o1 :> <<Line(2, 1), Line(1, 1)>> @@ o2 :> <<Line(1, 1), Line(2, 1)>>
    @@ o3 :> <<Line(1, 1), Line(3, 1)>>

MCInitialStock == 1 :> 2 @@ 2 :> 1 @@ 3 :> 0

\* Two calls settle o1: two notifications, or a notification and a sync.
MCOrderOf == h1 :> o1 @@ h2 :> o1 @@ h3 :> o2 @@ h4 :> o3
=============================================================================
