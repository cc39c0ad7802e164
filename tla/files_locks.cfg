SPECIFICATION Spec
CONSTANTS
  Workers = {w1, w2}
  Objects = {o1, o2}
  FileIds = {i1}
  MaxSize = 3
  Alone = {}
  Faults = {"promote", "unlink", "truncate", "upload_commit", "append_commit", "delete_commit", "crash"}
  Free = Free
SYMMETRY Symmetric
INVARIANTS LockDiscipline MismatchReported
