SPECIFICATION Spec
CONSTANTS
  Workers = {w1, w2}
  e1 = e1
  o1 = o1
  x1 = x1
  f1 = f1
  f2 = f2
  Entities = {e1}
  Observations = {o1}
  Objects = {x1}
  FileIds = {f1, f2}
  EntityTypes = {"asset", "track"}
  ComponentNames = {"supported_commands"}
  States = {"active"}
  Aliases = {"", "n1"}
  MaxNamed = 1
  MaxSize = 2
  Cap = 1
  Scenes <- MCScenes
  NoRow = NoRow
  Absent = Absent
  Keep = Keep
  Elsewhere = Elsewhere
  Unknown = Unknown
SYMMETRY Symmetric
INVARIANTS RowsValid ReplicaCurrent IInv
PROPERTIES UndisturbedPatchesKeepTheRest
