SPECIFICATION Spec
CONSTANTS
  x = x
  y = y
  z = z
  u = u
  LinkNum = 5
  NodesOf <- MCNodesOf
  IgnoredLinks = {2}
  PatternOf <- MCPatternOf
  MAX_GRAM = 2
  MaxThreads = 2
  ClaimsKept = 1
INVARIANTS
  NoPairMissed
  OneNodePerPattern
  OneGramCountsExact
  EvaluatedOnce
