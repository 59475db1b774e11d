SPECIFICATION Spec
CONSTANTS
  h1 = h1
  h2 = h2
  UNDEFINED = UNDEFINED
  NoTail = NoTail
  Dangling = Dangling
  game = game
  default = default
  k1 = k1
  k2 = k2
  Handles = {h1, h2}
  Temporals <- MCTemporals
  PENDING_UPDATE_RATE_THRESHOLD = 2
  Domains = {default, game}
  DEFAULT_TIMEDOMAIN = default
  Threads = {k1, k2}
  TimedPairs <- MCTimedPairs
  TableDomains = {default}
  MaxCalls = 3
CHECK_DEADLOCK FALSE
INVARIANT AddedIsFound
