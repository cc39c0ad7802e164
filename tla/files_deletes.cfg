SPECIFICATION Spec
CONSTANTS
  Workers = {w1, w2, w3}
  Objects = {o1}
  FileIds = {i1, i2}
  MaxSize = 3
  Alone = {"delete"}
  Faults = {}
  Free = Free
SYMMETRY Symmetric
INVARIANTS IInv RowsHaveBytes NoOrphans
PROPERTIES SizesGrow AlarmsAreRaces
