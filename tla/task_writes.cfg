SPECIFICATION Spec
CONSTANTS
  Workers = {w1, w2}
  Tasks = {t1}
  Assets = {a1}
  Catalogs = {k1, k2}
  Commands = {c1, c2}
  Parameters = {}
  Reports = {r1}
  Descriptions = {}
  k1 = k1
  k2 = k2
  c1 = c1
  c2 = c2
  Accepts <- MCAccepts
  Absent = Absent
  Keep = Keep
  NoTask = NoTask
  NoAsset = NoAsset
  NoCatalog = NoCatalog
SYMMETRY Symmetric
INVARIANTS CommandAccepted AssetExists IInv
PROPERTIES LifecycleRespected FreshWritesAreLegal
