\* Three expressions, two controls, every kind of line.
CONSTANTS
    MaxExprs = 3
    MaxControls = 2
    Lines = {"expr", "interrupt", "erase", "eot"}
SPECIFICATION FairSpec
INVARIANTS StartsWhenDone OnePoller ThreadsOutlived NothingLost
PROPERTIES DestructorEnds ExpressionsEvaluated
\* The loop that discards the queue may wait for ever: GenericShellInterrupt.cfg.
CHECK_DEADLOCK FALSE
