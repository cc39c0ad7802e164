SPECIFICATION Spec
CONSTANTS
  Workers = {w1, w2}
  Entities = {e1, e2}
  Observations = {o1}
  Tasks = {t1}
  Objects = {k1, x1}
  Catalogs = {k1}
  EntityTypes = {"asset", "track"}
  NoRow = NoRow
  NoCatalog = NoCatalog
SYMMETRY Symmetric
INVARIANTS IInv ReferencesExist ObservationObjectsOwned
PROPERTIES OnlyOvertakenDeletesOrphan OnlyOvertakenInsertsMistyped
