\* API and consumer processes may die; the worker tick survives.
SPECIFICATION FairSpec
CONSTANTS
  Orders = {o1}
  Products = {i1}
  Pids = {w1}
  ClientKeys = {k1}
  ApiProcs = {p1}
  ConsumerProcs = {p2}
  JobProcs = {p3}
  Crashable = {p1, p2}
  WidgetOrders = {}
  Outcomes = {"APPROVED","DECLINED"}
  None = None
  Claim = Claim
  Units = 1
  Quantity <- MCQuantity
  InitialStock <- MCInitialStock
INVARIANTS
  SettledTogether
  ReplayTellsTheTruth
PROPERTIES
  ClientKeyStaysSealed
  ChargedOrderSettles
  EveryOrderEnds
\* The system may stop: every order can be decided and every request answered.
CHECK_DEADLOCK FALSE
