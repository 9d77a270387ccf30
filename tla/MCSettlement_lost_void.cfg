\* Widget payments settled by the consumer, which may die between the ERROR row and the void.
SPECIFICATION RedeliveringSpec
CONSTANTS
  Orders = {o1, o2}
  Products = {i1, i2}
  Pids = {w1, w2}
  ClientKeys = {}
  ApiProcs = {p1}
  ConsumerProcs = {p2}
  JobProcs = {}
  Crashable = {p2}
  WidgetOrders = {o1, o2}
  Outcomes = {"APPROVED"}
  None = None
  Claim = Claim
  Units = 1
  Quantity <- MCQuantity
  InitialStock <- MCInitialStock
PROPERTIES
  OutOfStockGetsVoided
\* The system may stop: every order can be decided and every request answered.
CHECK_DEADLOCK FALSE
