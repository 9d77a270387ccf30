SPECIFICATION Spec
CONSTANTS
  Carts = {a, b}
  Cities = {d1, d2}
  Fee <- MCFee
  Prices = {2, 3}
  CartPrice = 3
  Orders = {1, 2}
  Mounts = {1, 2}
  Calls = {1, 2}
  MaxEdits = 1
  MaxBusy = 3
  None = None
INVARIANTS
  ShopTypeOK
  CreatedOrderIsCurrent
  OneChargePerRound
PROPERTIES
  ChargedAsShown
  LateOrdersFitTheCart
  OnlyApprovalEmptiesTheCart
\* The shopper may leave, with every order decided.
CHECK_DEADLOCK FALSE
