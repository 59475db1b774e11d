\* Two dedicated threads, every kind of request.
CONSTANTS
    a1 = a1
    a2 = a2
    Agents = {a1, a2}
    Classes = {"diffusion", "rent"}
    ClassOf <- MCClassOf
    Runners = {r1, r2}
    Operations = {"startHere", "startThread", "stopAgent", "stopClass", "startLoop", "stopLoop", "shutdown"}
    MaxOps = 4
    None = None
SPECIFICATION FairSpec
INVARIANTS AgentsHaveThread LoopRunsThreads
PROPERTIES WorkerOwnsAgents StartWakesWorker JoinReturns
