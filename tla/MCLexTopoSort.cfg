CONSTANTS
  Nodes = {1, 2, 3, 4}
  Powers = {0, 100}
  Ages = {1, 2}
  Graphs <- DAGs
SPECIFICATION Spec
INVARIANTS
  TypeOK
  SortIsLeastOrder
CHECK_DEADLOCK FALSE
