SPECIFICATION Spec
CONSTANTS
  None = None
  Rows = {1, 2, 3}
  Replicas = {w1, w2}
  BatchSize = 2
INVARIANTS
  PublishedWasAccepted
  DuplicatesHaveACause
SYMMETRY Symmetry
\* The relay rests when every row is published.
CHECK_DEADLOCK FALSE
