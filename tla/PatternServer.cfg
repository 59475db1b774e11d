SPECIFICATION Spec
CONSTANTS
  w1 = w1
  w2 = w2
  a = a
  c = c
  bad = bad
  None = None
  Workers = {w1, w2}
  Patterns = {a, c, bad}
  Invalid = {bad}
  Corpora <- MCCorpora
  THREAD_NUM = 1
  JSON_BUF_MAX_NUM = 2
  ParseThreads = 2
  MaxTries = 1
  MaxFaults = 1
INVARIANTS
  ReceivedAccounted
  ListedOnce
  OneParserExact
PROPERTIES
  ParsersEnd
  WorkerLeaves
