----------------------------- MODULE MCSettlement -----------------------------
(* Small instances of Settlement for TLC. *)
EXTENDS SettlementProps, TLC

CONSTANTS Units   \* units on the shelf of the scarce product

\* Every order buys one unit of every product.
MCQuantity == [o \in Orders |-> [i \in Products |-> 1]]

\* Only one product is scarce, so that an order can find the others in stock.
MCInitialStock ==
  LET scarce == CHOOSE i \in Products : TRUE
  IN  [i \in Products |-> IF i = scarce THEN Units ELSE Cardinality(Orders)]

Symmetry ==
  Permutations(Pids) \cup Permutations(ClientKeys) \cup Permutations(Orders)
=============================================================================
