SPECIFICATION Spec
CONSTANTS
  Consoles = {"c1"}
  Broken = "broken.so"
  Absent = {"libnone.so"}
  Configured <- MCConfigured
  MaxLines = 3
  MaxStarts = 2
CHECK_DEADLOCK FALSE
INVARIANTS   RequestFactoriesAlive
PROPERTY StopObeyed
