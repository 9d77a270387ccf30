\* An unanswered card payment, then the orphan job.
SPECIFICATION Spec
CONSTANTS
  Orders = {o1}
  Products = {i1}
  Pids = {w1}
  ClientKeys = {k1}
  ApiProcs = {p1}
  ConsumerProcs = {p2}
  JobProcs = {p2}
  Crashable = {}
  WidgetOrders = {}
  Outcomes = {"APPROVED","DECLINED"}
  None = None
  Claim = Claim
  Units = 1
  Quantity <- MCQuantity
  InitialStock <- MCInitialStock
SYMMETRY Symmetry
INVARIANTS
  ExpiredMeansUncharged
\* The system may stop: every order can be decided and every request answered.
CHECK_DEADLOCK FALSE
