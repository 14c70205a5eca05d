CONSTANTS
  n1 = n1
  n2 = n2
  n3 = n3
  n4 = n4
  a = a
  b = b
  c = c
  nullptr = nullptr
  Node <- MCNode
  Data <- MCData
SYMMETRY Symmetry
SPECIFICATION HSpec
INVARIANT
  DeletedOnce
CHECK_DEADLOCK FALSE
