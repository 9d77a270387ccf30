------------------------------- MODULE MCShop -------------------------------
EXTENDS Shop

MCFee == [c \in Cities |-> IF c = CHOOSE d \in Cities : TRUE THEN 1 ELSE 3]
=============================================================================
