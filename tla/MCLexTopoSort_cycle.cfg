CONSTANTS
  Nodes = {1, 2, 3}
  Powers = {0}
  Ages = {1}
  Graphs <- AllGraphs
SPECIFICATION Spec
INVARIANTS
  SortEmitsEveryNode
CHECK_DEADLOCK FALSE
