\* All agents, two runs; each in a thread or all in the main loop.
CONSTANTS
    n1 = n1  n2 = n2  link = link  heb = heb
    Unit = 2
    Atoms = {n1, n2, link, heb}
    HandleOrder <- MCHandleOrder
    HebbianLinks = {heb}
    Incident <- MCIncident
    Conductance <- MCConductance
    StartSTI <- MCStartSTI
    maxSpreadPercentage = 50
    hebbianMaxAllocationPercentage = 50
    tournamentSize = 500
    Estimates = {0, 1}
    AFSize = 2
    STIAtomRent = 1
    targetSTI = 10
    stiFundsBuffer = 10
    StartFunds = 20
    UpdateCycles = {20, 40}
    ElapsedTimes = {0, 1, 2}
    MaxRuns = 2
    StartChoices <- AllAgents
    SerialModes = {TRUE, FALSE}
SPECIFICATION Spec
INVARIANTS SpreadConserves SpreadSolvent
PROPERTIES RunsEnd
\* Every agent has had its runs.
CHECK_DEADLOCK FALSE
