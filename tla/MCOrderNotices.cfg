SPECIFICATION NoticesSpec
CONSTANTS
  None = None
  Rows = {1, 2}
  Replicas = {w1}
  BatchSize = 2
  Unsupported = {2}
  Copies = {c1, c2, c3, c4, c5}
  Tasks = {k1, k2}
  MaxRetries = 1
  MaxFaults = 1
INVARIANTS
  NoticeIsNeverLost
\* The system rests when every notice has been dealt with.
CHECK_DEADLOCK FALSE
PROPERTIES
  EveryNoticeArrives
