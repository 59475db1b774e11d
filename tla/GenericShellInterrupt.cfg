\* An interrupt while one expression is queued.
CONSTANTS
    MaxExprs = 2
    MaxControls = 1
    Lines = {"expr", "interrupt"}
SPECIFICATION FairSpec
PROPERTIES InterruptReturns
CHECK_DEADLOCK FALSE
