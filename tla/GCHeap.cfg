\* Three cells, two owners, a collection at every make() with two live cells.
CONSTANTS
  Cell = {1, 2, 3}
  Owner = {1, 2}
  Threshold = 1
  Rooted = TRUE
SPECIFICATION FairSpec
ACTION_CONSTRAINT LeastFirst
INVARIANTS
  TypeOK
  NoDangling
  MarksClear
  MarkingSound
PROPERTIES
  HeapPromise
  MakeReturns
