CONSTANTS
  MaxEntities = 3
  VersionSpace = 3
  Comps = {"a", "b", "c"}
  Values = {"v", "w", "f", "g"}
  Json <- MCJson
  Tags = {"t"}
  Declared <- MCDeclared
  Access <- MCAccess
  Models <- MCStale
  MaxWorlds = 2
  NoSnap = NoSnap
SPECIFICATION Spec
CHECK_DEADLOCK FALSE
INVARIANT StaleNotMistaken
