\* One order, two payments, two shopper keys: every handler may overtake every other.
SPECIFICATION Spec
CONSTANTS
  Orders = {o1}
  Products = {i1}
  Pids = {w1,w2}
  ClientKeys = {k1, k2}
  ApiProcs = {p1, p2}
  ConsumerProcs = {p2}
  JobProcs = {p2}
  Crashable = {}
  WidgetOrders = {o1}
  Outcomes = {"APPROVED","DECLINED"}
  None = None
  Claim = Claim
  Units = 1
  Quantity <- MCQuantity
  InitialStock <- MCInitialStock
SYMMETRY Symmetry
INVARIANTS
  TypeOK
  ConfirmedIsCaptured
  ClientKeyOwned
PROPERTIES
  FinalIsFrozen
  ImplementsOrderBook
\* The system may stop: every order can be decided and every request answered.
CHECK_DEADLOCK FALSE
