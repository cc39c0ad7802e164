SPECIFICATION Spec
CONSTANTS
  Workers = {w1, w2}
  Objects = {o1}
  FileIds = {i1}
  MaxSize = 2
  Alone = {}
  Faults = {}
  Free = Free
SYMMETRY Symmetric
INVARIANTS RowsHaveBytes
