------------------------------- MODULE MCCart -------------------------------
EXTENDS Cart, TLC

CONSTANTS p1, p2

\* An empty cart, and one with a product twice.
MCEarlierCarts ==
  {<<>>, <<[id |-> p1, qty |-> 1, stock |-> 1], [id |-> p1, qty |-> 2, stock |-> 2]>>}

SymTabs == Permutations(Tabs)
=============================================================================
