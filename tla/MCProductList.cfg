SPECIFICATION Spec
CONSTANTS
  PageSize = 2
  None = None
  Catalogs <- MCCatalogs
  Needles <- MCNeedles
  Links <- MCLinks
  MaxPage = 3
  MaxMoves = 3
INVARIANTS
  ShownIsAsked
  PagesTile
  ComesToRest
\* The shopper may stop.
CHECK_DEADLOCK FALSE
