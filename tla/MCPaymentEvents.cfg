SPECIFICATION EventsSpec
CONSTANTS
  None = None
  Messages = {m1}
  Unsupported = {}
  Copies = {c1, c2, c3, c4, c5}
  Replicas = {n1, n2, n3, n4, n5}
  Tasks = {k1}
  MaxRetries = 1
  Late = "orders"
  Slow = {n1}
  MaxFaults = 1
INVARIANTS
  PaymentEventsTypeOK
  NeverLost
  DeadLettersWereRetried
  NeverWedged
  AcknowledgedIsKept
\* The system rests when the event has been dealt with.
CHECK_DEADLOCK FALSE
PROPERTIES
  RegistrationsSurvive
  PaymentsArrive
