SPECIFICATION Spec
CONSTANTS
  o1 = o1
  o2 = o2
  o3 = o3
  h1 = h1
  h2 = h2
  h3 = h3
  h4 = h4
  None = None
  Orders = {o1, o2, o3}
  Products = {1, 2, 3}
  Handlers = {h1, h2, h3, h4}
  Crashable = {h1, h3}
  Lines <- MCLines
  InitialStock <- MCInitialStock
  OrderOf <- MCOrderOf
INVARIANTS
  NoCircularWait
PROPERTIES
  Serializable
  EveryTransactionEnds
\* The system may stop: every order can be decided.
CHECK_DEADLOCK FALSE
