------------------------- MODULE AgentRunnerProofs -------------------------
(***************************************************************************)
(* Proofs about AgentRunner for every set of agents, classes and runners:  *)
(* its type invariant, that agents never lack a thread, that the list of a *)
(* runner is changed by one thread at a time, and that enabling agents     *)
(* leaves no runner stopped.                                               *)
(***************************************************************************)
EXTENDS AgentRunner, TLAPS

\* The controlling thread is inside join_run_thread().
InJoin == cpc \in {"join", "joining"} \/ (cpc \in {"start", "notify"} /\ ret = "joining")

\* Which request the controlling thread's place in the code belongs to.
ControlInv ==
    /\ op = "startThread" => arg \in Agents
    /\ InJoin => op \in {"startThread", "shutdown"}
    /\ cpc \in {"enqueue", "add"} => op = "startThread"
    /\ cpc \in {"deleteAtoms", "destroy", "freed", "gone"} => op = "shutdown"
    /\ cpc \notin {"start", "notify"} => todo = {}
    /\ cpc = "notify" => tgt \in todo /\ running[tgt]

\* A thread is about to be started only where there is none.
AddInv == cpc = "add" => wpc[tgt] = "none"

\* While agents are enabled, a runner that is not running is about to be
\* started.
LoopInv ==
    agentsRunning =>
        \A r \in made :
            \/ running[r]
            \/ r \in todo /\ cpc \in {"start", "notify"}
            \/ r = tgt /\ cpc \in {"enqueue", "join", "joining", "add", "freed"}

AgentInv == TypeOK /\ ControlInv /\ AddInv /\ LoopInv /\ AgentsHaveThread

\* An empty list is a list.
LEMMA EmptyBagType == EmptyBag \in Bag
  BY DEF EmptyBag, Bag

\* The initial state, with no runner made, satisfies the invariant.
LEMMA InitInv == Init => AgentInv
<1> SUFFICES ASSUME Init PROVE AgentInv
  OBVIOUS
<1>1. TypeOK
  <2>1. /\ addQ \in [Runners -> Bag] /\ removeQ \in [Runners -> Bag]
        /\ agents \in [Runners -> Bag] /\ want \in [Runners -> Bag] /\ scheduled \in Bag
    BY EmptyBagType DEF Init
  <2>2. /\ idsQ \in [Runners -> SUBSET Classes] /\ clearAll \in [Runners -> BOOLEAN]
        /\ modified \in [Runners -> BOOLEAN] /\ running \in [Runners -> BOOLEAN]
        /\ wpc \in [Runners -> WorkerStates]
    BY DEF Init, WorkerStates
  <2>3. ops \in 0..MaxOps
    BY AgentAssumption DEF Init
  <2> QED
    BY <2>1, <2>2, <2>3 DEF Init, TypeOK, ControlStates
<1>2. ControlInv /\ AddInv /\ LoopInv
  BY DEF Init, ControlInv, InJoin, AddInv, LoopInv
<1>3. AgentsHaveThread
  BY DEF Init, AgentsHaveThread, HasAgents
<1> QED
  BY <1>1, <1>2, <1>3 DEF AgentInv

\* A batch of changes makes a list of a list.
LEMMA UpdatedType ==
  ASSUME TypeOK, NEW r \in Runners
  PROVE  Updated(r) \in Bag
<1> SUFFICES ASSUME NEW a \in Agents
             PROVE  (IF clearAll[r] \/ ClassOf[a] \in idsQ[r] THEN 0
                     ELSE Minus(agents[r][a], removeQ[r][a])) + addQ[r][a] \in Nat
  BY DEF Updated, Bag
<1>1. agents[r][a] \in Nat /\ removeQ[r][a] \in Nat /\ addQ[r][a] \in Nat
  BY DEF TypeOK, Bag
<1>2. Minus(agents[r][a], removeQ[r][a]) \in Nat
  BY <1>1 DEF Minus
<1> QED
  BY <1>1, <1>2

\* StartHere preserves the invariant.
LEMMA StartHereInv ==
  ASSUME AgentInv, NEW a \in Agents, StartHere(a)
  PROVE  AgentInv'
<1>1. TypeOK'
  BY AgentAssumption, EmptyBagType
  DEF AgentInv, TypeOK, Bag, StartHere, Request, listVars
<1>2. ControlInv'
  BY DEF AgentInv, ControlInv, InJoin, StartHere, Request
<1>3. AddInv'
  BY DEF AgentInv, AddInv, StartHere, Request
<1>4. LoopInv'
  BY DEF AgentInv, LoopInv, StartHere, Request
<1>5. AgentsHaveThread'
  BY DEF AgentInv, AgentsHaveThread, HasAgents, StartHere, Request
<1> QED
  BY <1>1, <1>2, <1>3, <1>4, <1>5 DEF AgentInv

\* StartThread preserves the invariant.
LEMMA StartThreadInv ==
  ASSUME AgentInv, NEW a \in Agents, NEW r \in Runners, StartThread(a, r)
  PROVE  AgentInv'
<1>1. TypeOK'
  BY AgentAssumption, EmptyBagType
  DEF AgentInv, TypeOK, ControlStates, Bag, StartThread, Request, HasAgents, listVars
<1>2. ControlInv'
  BY DEF AgentInv, ControlInv, StartThread, Request, HasAgents
<1>3. AddInv'
  BY DEF AgentInv, AddInv, StartThread, Request, HasAgents
<1>4. LoopInv'
  BY DEF AgentInv, LoopInv, StartThread, Request, HasAgents
<1>5. AgentsHaveThread'
  BY DEF AgentInv, AgentsHaveThread, HasAgents, StartThread, Request
<1> QED
  BY <1>1, <1>2, <1>3, <1>4, <1>5 DEF AgentInv

\* StopAgent preserves the invariant.
LEMMA StopAgentInv ==
  ASSUME AgentInv, NEW a \in Agents, StopAgent(a)
  PROVE  AgentInv'
<1>1. TypeOK'
  BY AgentAssumption, EmptyBagType
  DEF AgentInv, TypeOK, Bag, StopAgent, Request, Without, Minus
<1>2. ControlInv'
  BY DEF AgentInv, ControlInv, InJoin, StopAgent, Request
<1>3. AddInv'
  BY DEF AgentInv, AddInv, StopAgent, Request
<1>4. LoopInv'
  BY DEF AgentInv, LoopInv, StopAgent, Request
<1>5. AgentsHaveThread'
  BY DEF AgentInv, AgentsHaveThread, HasAgents, StopAgent, Request
<1> QED
  BY <1>1, <1>2, <1>3, <1>4, <1>5 DEF AgentInv

\* StopClass preserves the invariant.
LEMMA StopClassInv ==
  ASSUME AgentInv, NEW k \in Classes, StopClass(k)
  PROVE  AgentInv'
<1>1. TypeOK'
  BY AgentAssumption, EmptyBagType
  DEF AgentInv, TypeOK, Bag, StopClass, Request, StopClasses, WithoutClasses
<1>2. ControlInv'
  BY DEF AgentInv, ControlInv, InJoin, StopClass, Request, StopClasses
<1>3. AddInv'
  BY DEF AgentInv, AddInv, StopClass, Request, StopClasses
<1>4. LoopInv'
  BY DEF AgentInv, LoopInv, StopClass, Request, StopClasses
<1>5. AgentsHaveThread'
  BY DEF AgentInv, AgentsHaveThread, HasAgents, StopClass, Request, StopClasses
<1> QED
  BY <1>1, <1>2, <1>3, <1>4, <1>5 DEF AgentInv

\* Shutdown preserves the invariant.
LEMMA ShutdownInv ==
  ASSUME AgentInv, NEW K \in SUBSET Classes, Shutdown(K)
  PROVE  AgentInv'
<1>1. TypeOK'
  BY AgentAssumption, EmptyBagType
  DEF AgentInv, TypeOK, ControlStates, Bag, Shutdown, Request, StopClasses, WithoutClasses
<1>2. ControlInv'
  BY DEF AgentInv, ControlInv, Shutdown, Request, StopClasses
<1>3. AddInv'
  BY DEF AgentInv, AddInv, Shutdown, Request, StopClasses
<1>4. LoopInv'
  BY DEF AgentInv, LoopInv, Shutdown, Request, StopClasses
<1>5. AgentsHaveThread'
  BY DEF AgentInv, AgentsHaveThread, HasAgents, Shutdown, Request, StopClasses
<1> QED
  BY <1>1, <1>2, <1>3, <1>4, <1>5 DEF AgentInv

\* StartLoop preserves the invariant.
LEMMA StartLoopInv ==
  ASSUME AgentInv, StartLoop
  PROVE  AgentInv'
<1>1. TypeOK'
  BY AgentAssumption, EmptyBagType
  DEF AgentInv, TypeOK, ControlStates, StartLoop, Request, listVars
<1>2. ControlInv'
  BY DEF AgentInv, ControlInv, InJoin, StartLoop, Request
<1>3. AddInv'
  BY DEF AgentInv, AddInv, StartLoop, Request
<1>4. LoopInv'
  BY DEF AgentInv, LoopInv, StartLoop, Request
<1>5. AgentsHaveThread'
  BY DEF AgentInv, AgentsHaveThread, HasAgents, StartLoop, Request
<1> QED
  BY <1>1, <1>2, <1>3, <1>4, <1>5 DEF AgentInv

\* StopLoop preserves the invariant.
LEMMA StopLoopInv ==
  ASSUME AgentInv, StopLoop
  PROVE  AgentInv'
<1>1. TypeOK'
  <2>1. running' \in [Runners -> BOOLEAN]
    BY DEF StopLoop
  <2>2. agentsRunning' \in BOOLEAN /\ ops' \in 0..MaxOps /\ op' \in AllOperations
    <3>1. ops \in 0..MaxOps /\ MaxOps \in Nat
      BY AgentAssumption DEF AgentInv, TypeOK
    <3>2. op' \in AllOperations /\ agentsRunning' \in BOOLEAN
      BY DEF StopLoop, Request, AllOperations
    <3>3. ops' \in 0..MaxOps
      BY <3>1 DEF StopLoop, Request
    <3> QED
      BY <3>2, <3>3
  <2> QED
    BY <2>1, <2>2 DEF AgentInv, TypeOK, StopLoop, Request, listVars
<1>2. ControlInv'
  BY DEF AgentInv, ControlInv, InJoin, StopLoop, Request
<1>3. AddInv'
  BY DEF AgentInv, AddInv, StopLoop, Request
<1>4. LoopInv'
  BY DEF AgentInv, LoopInv, StopLoop, Request
<1>5. AgentsHaveThread'
  BY DEF AgentInv, AgentsHaveThread, HasAgents, StopLoop, Request
<1> QED
  BY <1>1, <1>2, <1>3, <1>4, <1>5 DEF AgentInv

\* Join preserves the invariant.
LEMMA JoinInv ==
  ASSUME AgentInv, Join
  PROVE  AgentInv'
<1>1. TypeOK'
  BY AgentAssumption, EmptyBagType
  DEF AgentInv, TypeOK, ControlStates, ControlInv, InJoin, Join, Joinable, AfterJoin,
      serverVars, listVars
<1>2. ControlInv'
  BY DEF AgentInv, ControlInv, InJoin, Join, Joinable, AfterJoin
<1>3. AddInv'
  BY DEF AgentInv, AddInv, Join, Joinable, AfterJoin
<1>4. LoopInv'
  BY DEF AgentInv, LoopInv, Join, Joinable, AfterJoin, serverVars
<1>5. AgentsHaveThread'
  BY DEF AgentInv, AgentsHaveThread, HasAgents, Join, Joinable, AfterJoin
<1> QED
  BY <1>1, <1>2, <1>3, <1>4, <1>5 DEF AgentInv

\* JoinEnded preserves the invariant.
LEMMA JoinEndedInv ==
  ASSUME AgentInv, JoinEnded
  PROVE  AgentInv'
<1>1. TypeOK'
  BY AgentAssumption, EmptyBagType
  DEF AgentInv, TypeOK, ControlStates, WorkerStates, ControlInv, InJoin, JoinEnded,
      AfterJoin, serverVars, listVars
<1>2. ControlInv'
  BY DEF AgentInv, ControlInv, InJoin, JoinEnded, AfterJoin
<1>3. AddInv'
  BY DEF AgentInv, TypeOK, AddInv, JoinEnded, AfterJoin
<1>4. LoopInv'
  BY DEF AgentInv, LoopInv, JoinEnded, AfterJoin, serverVars
<1>5. AgentsHaveThread'
  BY DEF AgentInv, AgentsHaveThread, HasAgents, JoinEnded, AfterJoin
<1> QED
  BY <1>1, <1>2, <1>3, <1>4, <1>5 DEF AgentInv

\* AddFirst preserves the invariant.
LEMMA AddFirstInv ==
  ASSUME AgentInv, AddFirst
  PROVE  AgentInv'
<1>1. TypeOK'
  BY AgentAssumption, EmptyBagType
  DEF AgentInv, TypeOK, ControlStates, WorkerStates, Bag, AddFirst, ThenStart,
      serverVars, listVars
<1>2. ControlInv'
  BY DEF AgentInv, ControlInv, AddFirst, ThenStart
<1>3. AddInv'
  BY DEF AgentInv, AddInv, AddFirst, ThenStart
<1>4. LoopInv'
  BY DEF AgentInv, LoopInv, AddFirst, ThenStart, serverVars
<1>5. AgentsHaveThread'
  BY DEF AgentInv, TypeOK, AgentsHaveThread, HasAgents, AddFirst, ThenStart
<1> QED
  BY <1>1, <1>2, <1>3, <1>4, <1>5 DEF AgentInv

\* Enqueue preserves the invariant.
LEMMA EnqueueInv ==
  ASSUME AgentInv, Enqueue
  PROVE  AgentInv'
<1>1. TypeOK'
  BY AgentAssumption, EmptyBagType
  DEF AgentInv, TypeOK, ControlStates, Bag, Enqueue, ThenStart, serverVars
<1>2. ControlInv'
  BY DEF AgentInv, ControlInv, Enqueue, ThenStart
<1>3. AddInv'
  BY DEF AgentInv, AddInv, Enqueue, ThenStart
<1>4. LoopInv'
  BY DEF AgentInv, LoopInv, Enqueue, ThenStart, serverVars
<1>5. AgentsHaveThread'
  BY DEF AgentInv, AgentsHaveThread, HasAgents, Enqueue, ThenStart
<1> QED
  BY <1>1, <1>2, <1>3, <1>4, <1>5 DEF AgentInv

\* SetRunning preserves the invariant.
LEMMA SetRunningInv ==
  ASSUME AgentInv, NEW r \in Runners, SetRunning(r)
  PROVE  AgentInv'
<1>1. TypeOK'
  BY AgentAssumption, EmptyBagType
  DEF AgentInv, TypeOK, ControlStates, SetRunning, CondMutexFree, serverVars, listVars
<1>2. ControlInv'
  BY DEF AgentInv, TypeOK, ControlInv, InJoin, SetRunning, CondMutexFree
<1>3. AddInv'
  BY DEF AgentInv, AddInv, SetRunning, CondMutexFree
<1>4. LoopInv'
  BY DEF AgentInv, LoopInv, SetRunning, CondMutexFree, serverVars
<1>5. AgentsHaveThread'
  BY DEF AgentInv, AgentsHaveThread, HasAgents, SetRunning, CondMutexFree
<1> QED
  BY <1>1, <1>2, <1>3, <1>4, <1>5 DEF AgentInv

\* Notify preserves the invariant.
LEMMA NotifyInv ==
  ASSUME AgentInv, Notify
  PROVE  AgentInv'
<1>1. TypeOK'
  BY AgentAssumption, EmptyBagType
  DEF AgentInv, TypeOK, ControlStates, WorkerStates, Notify, serverVars, listVars
<1>2. ControlInv'
  BY DEF AgentInv, TypeOK, ControlInv, InJoin, Notify
<1>3. AddInv'
  BY DEF AgentInv, TypeOK, AddInv, Notify
<1>4. LoopInv'
  BY DEF AgentInv, ControlInv, LoopInv, Notify, serverVars
<1>5. AgentsHaveThread'
  BY DEF AgentInv, AgentsHaveThread, HasAgents, Notify
<1> QED
  BY <1>1, <1>2, <1>3, <1>4, <1>5 DEF AgentInv

\* DeleteAtomSpace preserves the invariant.
LEMMA DeleteAtomSpaceInv ==
  ASSUME AgentInv, DeleteAtomSpace
  PROVE  AgentInv'
<1>1. TypeOK'
  BY AgentAssumption, EmptyBagType
  DEF AgentInv, TypeOK, ControlStates, DeleteAtomSpace, listVars
<1>2. ControlInv'
  BY DEF AgentInv, ControlInv, DeleteAtomSpace
<1>3. AddInv'
  BY DEF AgentInv, AddInv, DeleteAtomSpace
<1>4. LoopInv'
  BY DEF AgentInv, LoopInv, DeleteAtomSpace
<1>5. AgentsHaveThread'
  BY DEF AgentInv, AgentsHaveThread, HasAgents, DeleteAtomSpace
<1> QED
  BY <1>1, <1>2, <1>3, <1>4, <1>5 DEF AgentInv

\* DestroyRunner preserves the invariant.
LEMMA DestroyRunnerInv ==
  ASSUME AgentInv, NEW r \in Runners, DestroyRunner(r)
  PROVE  AgentInv'
<1>1. TypeOK'
  BY AgentAssumption, EmptyBagType
  DEF AgentInv, TypeOK, ControlStates, DestroyRunner, serverVars
<1>2. ControlInv'
  BY DEF AgentInv, ControlInv, DestroyRunner
<1>3. AddInv'
  BY DEF AgentInv, AddInv, DestroyRunner
<1>4. LoopInv'
  BY DEF AgentInv, LoopInv, DestroyRunner, serverVars
<1>5. AgentsHaveThread'
  BY DEF AgentInv, AgentsHaveThread, HasAgents, DestroyRunner
<1> QED
  BY <1>1, <1>2, <1>3, <1>4, <1>5 DEF AgentInv

\* FreeRunner preserves the invariant.
LEMMA FreeRunnerInv ==
  ASSUME AgentInv, FreeRunner
  PROVE  AgentInv'
<1>1. TypeOK'
  BY AgentAssumption, EmptyBagType
  DEF AgentInv, TypeOK, ControlStates, ControlInv, FreeRunner, listVars
<1>2. ControlInv'
  BY DEF AgentInv, ControlInv, FreeRunner
<1>3. AddInv'
  BY DEF AgentInv, AddInv, FreeRunner
<1>4. LoopInv'
  BY DEF AgentInv, LoopInv, FreeRunner
<1>5. AgentsHaveThread'
  BY DEF AgentInv, AgentsHaveThread, HasAgents, FreeRunner
<1> QED
  BY <1>1, <1>2, <1>3, <1>4, <1>5 DEF AgentInv

\* Gone preserves the invariant.
LEMMA GoneInv ==
  ASSUME AgentInv, Gone
  PROVE  AgentInv'
<1>1. TypeOK'
  BY AgentAssumption, EmptyBagType
  DEF AgentInv, TypeOK, ControlStates, Gone, serverVars, listVars
<1>2. ControlInv'
  BY DEF AgentInv, ControlInv, Gone
<1>3. AddInv'
  BY DEF AgentInv, AddInv, Gone
<1>4. LoopInv'
  BY DEF AgentInv, LoopInv, Gone, serverVars
<1>5. AgentsHaveThread'
  BY DEF AgentInv, AgentsHaveThread, HasAgents, Gone
<1> QED
  BY <1>1, <1>2, <1>3, <1>4, <1>5 DEF AgentInv

\* BeginCycle preserves the invariant.
LEMMA BeginCycleInv ==
  ASSUME AgentInv, BeginCycle
  PROVE  AgentInv'
<1>1. TypeOK'
  BY AgentAssumption, EmptyBagType
  DEF AgentInv, TypeOK, BeginCycle, ctlVars, listVars
<1>2. ControlInv'
  BY DEF AgentInv, ControlInv, InJoin, BeginCycle, ctlVars
<1>3. AddInv'
  BY DEF AgentInv, AddInv, BeginCycle, ctlVars
<1>4. LoopInv'
  BY DEF AgentInv, LoopInv, BeginCycle, ctlVars
<1>5. AgentsHaveThread'
  BY DEF AgentInv, AgentsHaveThread, HasAgents, BeginCycle
<1> QED
  BY <1>1, <1>2, <1>3, <1>4, <1>5 DEF AgentInv

\* EndCycle preserves the invariant.
LEMMA EndCycleInv ==
  ASSUME AgentInv, EndCycle
  PROVE  AgentInv'
<1>1. TypeOK'
  <2>1. iterating' \in BOOLEAN
    BY DEF EndCycle
  <2> QED
    BY <2>1 DEF AgentInv, TypeOK, EndCycle, ctlVars, listVars
<1>2. ControlInv'
  BY DEF AgentInv, ControlInv, InJoin, EndCycle, ctlVars
<1>3. AddInv'
  BY DEF AgentInv, AddInv, EndCycle, ctlVars
<1>4. LoopInv'
  BY DEF AgentInv, LoopInv, EndCycle, ctlVars
<1>5. AgentsHaveThread'
  BY DEF AgentInv, AgentsHaveThread, HasAgents, EndCycle
<1> QED
  BY <1>1, <1>2, <1>3, <1>4, <1>5 DEF AgentInv

\* WorkerTest preserves the invariant.
LEMMA WorkerTestInv ==
  ASSUME AgentInv, NEW r \in Runners, WorkerTest(r)
  PROVE  AgentInv'
<1>1. TypeOK'
  BY AgentAssumption, EmptyBagType
  DEF AgentInv, TypeOK, WorkerStates, WorkerTest, WorkerEnds, HasAgents, ctlVars,
      serverVars, listVars
<1>2. ControlInv'
  BY DEF AgentInv, ControlInv, InJoin, WorkerTest, WorkerEnds, HasAgents, ctlVars
<1>3. AddInv'
  BY DEF AgentInv, AddInv, WorkerTest, WorkerEnds, HasAgents, ctlVars
<1>4. LoopInv'
  BY DEF AgentInv, LoopInv, WorkerTest, WorkerEnds, HasAgents, ctlVars, serverVars
<1>5. AgentsHaveThread'
  BY DEF AgentInv, AgentsHaveThread, HasAgents, WorkerTest, WorkerEnds
<1> QED
  BY <1>1, <1>2, <1>3, <1>4, <1>5 DEF AgentInv

\* WorkerPredicate preserves the invariant.
LEMMA WorkerPredicateInv ==
  ASSUME AgentInv, NEW r \in Runners, WorkerPredicate(r)
  PROVE  AgentInv'
<1>1. TypeOK'
  BY AgentAssumption, EmptyBagType
  DEF AgentInv, TypeOK, WorkerStates, WorkerPredicate, ctlVars, serverVars, listVars
<1>2. ControlInv'
  BY DEF AgentInv, ControlInv, InJoin, WorkerPredicate, ctlVars
<1>3. AddInv'
  BY DEF AgentInv, AddInv, WorkerPredicate, ctlVars
<1>4. LoopInv'
  BY DEF AgentInv, LoopInv, WorkerPredicate, ctlVars, serverVars
<1>5. AgentsHaveThread'
  BY DEF AgentInv, AgentsHaveThread, HasAgents, WorkerPredicate
<1> QED
  BY <1>1, <1>2, <1>3, <1>4, <1>5 DEF AgentInv

\* WorkerSleep preserves the invariant.
LEMMA WorkerSleepInv ==
  ASSUME AgentInv, NEW r \in Runners, WorkerSleep(r)
  PROVE  AgentInv'
<1>1. TypeOK'
  BY AgentAssumption, EmptyBagType
  DEF AgentInv, TypeOK, WorkerStates, WorkerSleep, ctlVars, serverVars, listVars
<1>2. ControlInv'
  BY DEF AgentInv, ControlInv, InJoin, WorkerSleep, ctlVars
<1>3. AddInv'
  BY DEF AgentInv, AddInv, WorkerSleep, ctlVars
<1>4. LoopInv'
  BY DEF AgentInv, LoopInv, WorkerSleep, ctlVars, serverVars
<1>5. AgentsHaveThread'
  BY DEF AgentInv, AgentsHaveThread, HasAgents, WorkerSleep
<1> QED
  BY <1>1, <1>2, <1>3, <1>4, <1>5 DEF AgentInv

\* WorkerUpdate preserves the invariant.
LEMMA WorkerUpdateInv ==
  ASSUME AgentInv, NEW r \in Runners, WorkerUpdate(r)
  PROVE  AgentInv'
<1>1. TypeOK'
  <2>1. Updated(r) \in Bag
    BY UpdatedType DEF AgentInv
  <2>2. wpc' \in [Runners -> WorkerStates]
    BY DEF AgentInv, TypeOK, WorkerStates, WorkerUpdate
  <2>3. CASE modified[r]
    <3>1. agents' \in [Runners -> Bag]
      BY <2>1, <2>3 DEF AgentInv, TypeOK, WorkerUpdate
    <3>2. addQ' \in [Runners -> Bag] /\ removeQ' \in [Runners -> Bag]
      BY <2>3, EmptyBagType DEF AgentInv, TypeOK, WorkerUpdate
    <3>3. idsQ' \in [Runners -> SUBSET Classes]
      BY <2>3 DEF AgentInv, TypeOK, WorkerUpdate
    <3>4. clearAll' \in [Runners -> BOOLEAN] /\ modified' \in [Runners -> BOOLEAN]
      BY <2>3 DEF AgentInv, TypeOK, WorkerUpdate
    <3> QED
      BY <2>2, <3>1, <3>2, <3>3, <3>4
      DEF AgentInv, TypeOK, WorkerUpdate, ctlVars, serverVars
  <2>4. CASE ~modified[r]
    BY <2>2, <2>4 DEF AgentInv, TypeOK, WorkerUpdate, ctlVars, serverVars, listVars
  <2> QED
    BY <2>3, <2>4
<1>2. ControlInv'
  BY DEF AgentInv, ControlInv, InJoin, WorkerUpdate, ctlVars
<1>3. AddInv'
  BY DEF AgentInv, AddInv, WorkerUpdate, ctlVars
<1>4. LoopInv'
  BY DEF AgentInv, LoopInv, WorkerUpdate, ctlVars, serverVars
<1>5. AgentsHaveThread'
  BY DEF AgentInv, TypeOK, AgentsHaveThread, HasAgents, WorkerUpdate, Updated, Minus
<1> QED
  BY <1>1, <1>2, <1>3, <1>4, <1>5 DEF AgentInv

\* Every step preserves the invariant.
LEMMA StepInv == AgentInv /\ [Next]_vars => AgentInv'
<1> SUFFICES ASSUME AgentInv, [Next]_vars PROVE AgentInv'
  OBVIOUS
<1>1. CASE Requests
  BY <1>1, StartHereInv, StopAgentInv, StartThreadInv, StopClassInv, ShutdownInv,
     StartLoopInv, StopLoopInv
  DEF Requests
<1>2. CASE Control
  BY <1>2, JoinInv, JoinEndedInv, AddFirstInv, EnqueueInv, NotifyInv, DeleteAtomSpaceInv,
     FreeRunnerInv, GoneInv, SetRunningInv, DestroyRunnerInv
  DEF Control
<1>3. CASE BeginCycle \/ EndCycle
  BY <1>3, BeginCycleInv, EndCycleInv
<1>4. ASSUME NEW r \in Runners, Worker(r) PROVE AgentInv'
  BY <1>4, WorkerTestInv, WorkerPredicateInv, WorkerSleepInv, WorkerUpdateInv DEF Worker
<1>5. CASE UNCHANGED vars
  BY <1>5 DEF vars, ctlVars, serverVars, listVars, AgentInv, TypeOK, ControlInv, InJoin,
              AddInv, LoopInv, AgentsHaveThread, HasAgents
<1> QED
  BY <1>1, <1>2, <1>3, <1>4, <1>5 DEF Next, Terminated

\* The inductive invariant holds in every behaviour of the agent subsystem.
THEOREM AgentInvariance == Spec => []AgentInv
<1> QED
  BY InitInv, StepInv, PTL DEF Spec

\* Type correctness: the lists never hold a negative number of agents and the
\* controlling thread always knows the runner it deals with.
THEOREM TypeCorrect == Spec => []TypeOK
<1>1. AgentInv => TypeOK
  BY DEF AgentInv
<1> QED
  BY <1>1, AgentInvariance, PTL

\* add_agent, remove_agent, join_run_thread and the worker's own updates never
\* leave agents in a runner that has no thread.
THEOREM ThreadSafety == Spec => []AgentsHaveThread
<1>1. AgentInv => AgentsHaveThread
  BY DEF AgentInv
<1> QED
  BY <1>1, AgentInvariance, PTL

\* When no request is being executed and agents are enabled, every runner made
\* by startAgent has been started.
THEOREM LoopSafety == Spec => []LoopRunsThreads
<1>1. AgentInv => LoopRunsThreads
  BY DEF AgentInv, LoopInv, LoopRunsThreads
<1> QED
  BY <1>1, AgentInvariance, PTL

\* The comment of process_agents_thread: while the worker is active, only it
\* changes the list of agents.
THEOREM Ownership == Spec => WorkerOwnsAgents
<1> DEFINE P == \A r \in Runners : agents'[r] # agents[r] => wpc[r] \in {"none", "cycle"}
<1>1. AgentInv /\ [Next]_vars => [P]_vars
  <2> SUFFICES ASSUME AgentInv, Next PROVE P
    OBVIOUS
  <2>1. CASE AddFirst
    BY <2>1 DEF AgentInv, AddInv, AddFirst
  <2>2. ASSUME NEW r \in Runners, WorkerUpdate(r) PROVE P
    BY <2>2 DEF AgentInv, TypeOK, WorkerUpdate
  <2>3. CASE UNCHANGED agents
    BY <2>3
  <2>4. \/ UNCHANGED agents \/ AddFirst \/ \E r \in Runners : WorkerUpdate(r)
    <3>1. CASE Requests
      BY <3>1 DEF Requests, StartHere, StopAgent, StartThread, StopClass, Shutdown,
                  StartLoop, StopLoop
    <3>2. CASE Control
      BY <3>2 DEF Control, Join, JoinEnded, Enqueue, Notify, DeleteAtomSpace, FreeRunner,
                  Gone, SetRunning, DestroyRunner
    <3>3. CASE BeginCycle \/ EndCycle \/ Terminated
      BY <3>3 DEF BeginCycle, EndCycle, Terminated, vars
    <3>4. ASSUME NEW r \in Runners, Worker(r)
          PROVE  \/ UNCHANGED agents \/ AddFirst \/ \E q \in Runners : WorkerUpdate(q)
      BY <3>4 DEF Worker, WorkerTest, WorkerPredicate, WorkerSleep
    <3> QED
      BY <3>1, <3>2, <3>3, <3>4 DEF Next
  <2> QED
    BY <2>1, <2>2, <2>3, <2>4
<1> QED
  BY <1>1, AgentInvariance, PTL DEF Spec, WorkerOwnsAgents

============================================================================
