\* Two orders want the last unit of one of their two products.
SPECIFICATION Spec
CONSTANTS
  Orders = {o1, o2}
  Products = {i1, i2}
  Pids = {w1,w2}
  ClientKeys = {k1}
  ApiProcs = {p1}
  ConsumerProcs = {p2, p1}
  JobProcs = {}
  Crashable = {}
  WidgetOrders = {}
  Outcomes = {"APPROVED"}
  None = None
  Claim = Claim
  Units = 1
  Quantity <- MCQuantity
  InitialStock <- MCInitialStock
SYMMETRY Symmetry
INVARIANTS
  StockConserved
  BindingSound
  OutOfStockIsVoided
\* The system may stop: every order can be decided and every request answered.
CHECK_DEADLOCK FALSE
