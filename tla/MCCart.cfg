SPECIFICATION Spec
CONSTANTS
  p1 = p1
  p2 = p2
  Products = {p1, p2}
  Tabs = {t1, t2}
  MaxStock = 2
  MaxActs = 5
  EarlierCarts <- MCEarlierCarts
SYMMETRY SymTabs
INVARIANTS
  CartTypeOK
  OneLinePerProduct
  OffersItsOwn
PROPERTY
  RaisesStayInStock
\* The shopper may stop.
CHECK_DEADLOCK FALSE
