SPECIFICATION Spec
CONSTANTS
  Documents <- MCDocuments
  Bodies <- MCBodies
  Kinds <- MCKinds
  Mantissa <- MCMantissa
  Matches <- MCMatches
  SnakeCase <- MCSnakeCase
  Schemas <- MCSchemas
  Values <- MCValues
  Unmarshalled <- MCUnmarshalled
  SchemaVerdict <- MCSchemaVerdict
  ValueVerdict <- MCValueVerdict
  Satisfied <- MCSatisfied
  UsedIn <- MCUsedIn
  Depth <- MCDepth
INVARIANTS VerdictAgrees CatalogNeverAtFault EveryEntryCounts
