SPECIFICATION Spec
CONSTANTS
  Workers = {w1, w2, w3}
  Temps = {t1, t2, t3}
  Files = {f1, f2}
  Objects = {k1}
  ObjectOf <- MCObjectOf
  k1 = k1
  None = None
SYMMETRY Symmetric
INVARIANTS NothingLeftBehind CommittedBytesKept EmptyDirsExplained IInv
