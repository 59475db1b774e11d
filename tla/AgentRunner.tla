---------------------------- MODULE AgentRunner ----------------------------
(***************************************************************************)
(* The mind agents of the CogServer: the SimpleRunner whose agents the     *)
(* main loop runs, the AgentRunnerThread objects that run theirs in a      *)
(* thread of their own, and the requests that start and stop agents.       *)
(*                                                                         *)
(* Requests are executed one at a time, under processRequestsMutex, by the *)
(* main loop or by a connection's thread that drains the queue; here by a  *)
(* controlling thread that may run at any moment, which covers both. A     *)
(* list of agents is a bag, since an agent may be started twice; the order *)
(* in which one cycle runs them is left out. Runners share nothing, so a   *)
(* loop over all of them that takes no lock twice is one step.             *)
(***************************************************************************)
EXTENDS Integers, FiniteSets

CONSTANTS
    Agents,      \* the agent objects
    Classes,     \* their class ids
    ClassOf,     \* the class of each agent
    Runners,     \* the names of the dedicated threads
    Operations,  \* the kinds of request made
    MaxOps,      \* bound: requests executed
    None         \* no agent, no runner

AllOperations ==
    {"startHere", "startThread", "stopAgent", "stopClass", "startLoop", "stopLoop",
     "shutdown"}

ASSUME AgentAssumption ==
    /\ IsFiniteSet(Agents) /\ IsFiniteSet(Runners)
    /\ ClassOf \in [Agents -> Classes]
    /\ Operations \subseteq AllOperations
    /\ MaxOps \in Nat
    /\ None \notin Agents \cup Runners

VARIABLES
    cpc,            \* where the controlling thread is
    op,             \* the request it executes
    arg,            \* the agent it starts
    tgt,            \* the runner it deals with
    todo,           \* runners it has still to start
    ret,            \* where it goes on when they are started
    ops,            \* requests executed so far
    agentsRunning,  \* CogServer::agentsRunning
    made,           \* agentThreads, by name
    scheduled,      \* the agents of agentScheduler
    iterating,      \* the main loop is inside SimpleRunner::process_agents
    atoms,          \* the AtomSpace exists
    wpc,            \* per runner: where its worker thread is
    agents,         \* per runner: agents
    addQ,           \* per runner: agents_add_q
    removeQ,        \* per runner: agents_remove_q
    idsQ,           \* per runner: ids_remove_q
    clearAll,       \* per runner: clear_all
    modified,       \* per runner: agents_modified
    running,        \* per runner: running
    want            \* history: per runner, the agents its callers scheduled

ctlVars == <<cpc, op, arg, tgt, todo, ret, ops>>
serverVars == <<agentsRunning, made, scheduled, iterating, atoms>>
listVars == <<addQ, removeQ, idsQ, clearAll, modified>>
vars == <<ctlVars, serverVars, wpc, agents, listVars, running, want>>

Bag == [Agents -> Nat]
EmptyBag == [a \in Agents |-> 0]
Minus(m, n) == IF m > n THEN m - n ELSE 0

Init ==
    /\ cpc = "idle" /\ op = "none" /\ arg = None /\ tgt = None
    /\ todo = {} /\ ret = "idle" /\ ops = 0
    /\ agentsRunning = TRUE
    /\ made = {}
    /\ scheduled = EmptyBag
    /\ iterating = FALSE
    /\ atoms = TRUE
    /\ wpc = [r \in Runners |-> "none"]
    /\ agents = [r \in Runners |-> EmptyBag]
    /\ addQ = [r \in Runners |-> EmptyBag]
    /\ removeQ = [r \in Runners |-> EmptyBag]
    /\ idsQ = [r \in Runners |-> {}]
    /\ clearAll = [r \in Runners |-> FALSE]
    /\ modified = [r \in Runners |-> FALSE]
    /\ running = [r \in Runners |-> FALSE]
    /\ want = [r \in Runners |-> EmptyBag]

----------------------------------------------------------------------------
(* The requests.                                                           *)

Request(k) ==
    /\ cpc = "idle"
    /\ k \in Operations
    /\ ops < MaxOps
    /\ ops' = ops + 1
    /\ op' = k

\* startAgent(a): the main loop is to run it.
StartHere(a) ==
    /\ Request("startHere")
    /\ scheduled' = [scheduled EXCEPT ![a] = @ + 1]
    /\ UNCHANGED <<cpc, arg, tgt, todo, ret, agentsRunning, made, iterating, atoms>>
    /\ UNCHANGED <<wpc, agents, listVars, running, want>>

\* AgentRunnerThread::has_agents()
HasAgents(r) == agents[r] # EmptyBag

\* startAgent(a, true, name) finds or makes the runner, and add_agent() asks
\* whether it has agents.
StartThread(a, r) ==
    /\ Request("startThread")
    /\ made' = made \cup {r}
    /\ arg' = a
    /\ tgt' = r
    /\ cpc' = IF HasAgents(r) THEN "enqueue" ELSE "join"
    /\ want' = [want EXCEPT ![r][a] = @ + 1]
    /\ UNCHANGED <<todo, ret, agentsRunning, scheduled, iterating, atoms>>
    /\ UNCHANGED <<wpc, agents, listVars, running>>

\* Mutant: a thread that has ended is taken not to need a join.
JoinableWhileRunning(r) == wpc[r] \notin {"none", "ended"}

\* run_thread.joinable(): a thread was started and not joined.
Joinable(r) == wpc[r] # "none"

AfterJoin == IF op = "shutdown" THEN "freed" ELSE "add"

\* Mutant: the thread is not started before it is joined.
JoinAsleep ==
    /\ cpc = "join"
    /\ IF Joinable(tgt) THEN cpc' = "joining" ELSE cpc' = AfterJoin
    /\ UNCHANGED <<op, arg, tgt, todo, ret, ops, serverVars, wpc, agents, listVars>>
    /\ UNCHANGED <<running, want>>

\* join_run_thread(): if there is a thread, start() it first.
Join ==
    /\ cpc = "join"
    /\ IF Joinable(tgt)
       THEN cpc' = "start" /\ todo' = {tgt} /\ ret' = "joining"
       ELSE cpc' = AfterJoin /\ UNCHANGED <<todo, ret>>
    /\ UNCHANGED <<op, arg, tgt, ops, serverVars, wpc, agents, listVars, running, want>>

\* run_thread.join()
JoinEnded ==
    /\ cpc = "joining"
    /\ wpc[tgt] = "ended"
    /\ wpc' = [wpc EXCEPT ![tgt] = "none"]
    /\ cpc' = AfterJoin
    /\ UNCHANGED <<op, arg, tgt, todo, ret, ops, serverVars, agents, listVars, running, want>>

\* Mutant: the runner is not started.
ThenStartNever ==
    /\ cpc' = "idle"
    /\ todo' = {}
    /\ ret' = "idle"

\* startAgent() ends: start() the runner if agents are running.
ThenStart ==
    /\ cpc' = IF agentsRunning THEN "start" ELSE "idle"
    /\ todo' = IF agentsRunning THEN {tgt} ELSE {}
    /\ ret' = "idle"

\* add_agent() to an idle runner: the agent is added and a thread started.
AddFirst ==
    /\ cpc = "add"
    /\ agents' = [agents EXCEPT ![tgt][arg] = @ + 1]
    /\ wpc' = [wpc EXCEPT ![tgt] = "test"]
    /\ ThenStart
    /\ UNCHANGED <<op, arg, tgt, ops, serverVars, listVars, running, want>>

\* add_agent() to a runner that had agents when it was asked.
Enqueue ==
    /\ cpc = "enqueue"
    /\ addQ' = [addQ EXCEPT ![tgt][arg] = @ + 1]
    /\ modified' = [modified EXCEPT ![tgt] = TRUE]
    /\ ThenStart
    /\ UNCHANGED <<op, arg, tgt, ops, serverVars, wpc, agents, removeQ, idsQ, clearAll>>
    /\ UNCHANGED <<running, want>>

\* What remove_agent leaves of a list: one entry fewer.
Without(bag, a) == [bag EXCEPT ![a] = Minus(@, 1)]

\* What remove_all_agents(id) leaves: no agent of the classes.
WithoutClasses(bag, K) == [a \in Agents |-> IF ClassOf[a] \in K THEN 0 ELSE bag[a]]

\* stopAgent(a) tells the scheduler and every runner.
StopAgent(a) ==
    /\ Request("stopAgent")
    /\ scheduled' = Without(scheduled, a)
    /\ removeQ' = [r \in Runners |-> IF r \in made THEN [removeQ[r] EXCEPT ![a] = @ + 1]
                                                   ELSE removeQ[r]]
    /\ modified' = [r \in Runners |-> modified[r] \/ r \in made]
    /\ want' = [r \in Runners |-> Without(want[r], a)]
    /\ UNCHANGED <<cpc, arg, tgt, todo, ret, agentsRunning, made, iterating, atoms>>
    /\ UNCHANGED <<wpc, agents, addQ, idsQ, clearAll, running>>

StopClasses(K) ==
    /\ scheduled' = WithoutClasses(scheduled, K)
    /\ idsQ' = [r \in Runners |-> IF r \in made THEN idsQ[r] \cup K ELSE idsQ[r]]
    /\ modified' = [r \in Runners |-> modified[r] \/ (r \in made /\ K # {})]
    /\ want' = [r \in Runners |-> WithoutClasses(want[r], K)]

\* stopAllAgents(id), also called by unregisterAgent(id).
StopClass(k) ==
    /\ Request("stopClass")
    /\ StopClasses({k})
    /\ UNCHANGED <<cpc, arg, tgt, todo, ret, agentsRunning, made, iterating, atoms>>
    /\ UNCHANGED <<wpc, agents, addQ, removeQ, clearAll, running>>

StartLoop ==
    /\ Request("startLoop")
    /\ agentsRunning' = TRUE
    /\ todo' = made
    /\ ret' = "idle"
    /\ cpc' = IF made = {} THEN "idle" ELSE "start"
    /\ UNCHANGED <<arg, tgt, made, scheduled, iterating, atoms>>
    /\ UNCHANGED <<wpc, agents, listVars, running, want>>

\* AgentRunnerThread::stop() takes no lock.
StopLoop ==
    /\ Request("stopLoop")
    /\ agentsRunning' = FALSE
    /\ running' = [r \in Runners |-> running[r] /\ r \notin made]
    /\ UNCHANGED <<cpc, arg, tgt, todo, ret, made, scheduled, iterating, atoms>>
    /\ UNCHANGED <<wpc, agents, listVars, want>>

----------------------------------------------------------------------------
(* AgentRunnerThread::start(): set running under running_cond_mutex, then  *)
(* notify. The worker holds that mutex while it evaluates the predicate of *)
(* its wait, until it is asleep.                                           *)

\* Mutant: running is set without the lock.
CondMutexFreeUnchecked(r) == TRUE

CondMutexFree(r) == wpc[r] \notin {"predicate", "toSleep"}

SetRunning(r) ==
    /\ cpc = "start"
    /\ r \in todo
    /\ CondMutexFree(r)
    /\ running' = [running EXCEPT ![r] = TRUE]
    /\ tgt' = r
    /\ cpc' = "notify"
    /\ UNCHANGED <<op, arg, todo, ret, ops, serverVars, wpc, agents, listVars, want>>

Notify ==
    /\ cpc = "notify"
    /\ wpc' = [wpc EXCEPT ![tgt] = IF @ = "asleep" THEN "predicate" ELSE @]
    /\ todo' = todo \ {tgt}
    /\ cpc' = IF todo' = {} THEN ret ELSE "start"
    /\ UNCHANGED <<op, arg, tgt, ret, ops, serverVars, agents, listVars, running, want>>

----------------------------------------------------------------------------
(* ~CogServer, once the main loop has ended.                               *)

\* The modules are unloaded; each unregisters agent classes.
Shutdown(K) ==
    /\ Request("shutdown")
    /\ ~iterating
    /\ cpc' = "deleteAtoms"
    /\ StopClasses(K)
    /\ UNCHANGED <<arg, tgt, todo, ret, agentsRunning, made, iterating, atoms>>
    /\ UNCHANGED <<wpc, agents, addQ, removeQ, clearAll, running>>

DeleteAtomSpace ==
    /\ cpc = "deleteAtoms"
    /\ atoms' = FALSE
    /\ cpc' = "destroy"
    /\ UNCHANGED <<op, arg, tgt, todo, ret, ops, agentsRunning, made, scheduled, iterating>>
    /\ UNCHANGED <<wpc, agents, listVars, running, want>>

\* ~AgentRunnerThread: remove_all_agents(), then join_run_thread().
DestroyRunner(r) ==
    /\ cpc = "destroy"
    /\ r \in made
    /\ tgt' = r
    /\ clearAll' = [clearAll EXCEPT ![r] = TRUE]
    /\ modified' = [modified EXCEPT ![r] = TRUE]
    /\ cpc' = "join"
    /\ UNCHANGED <<op, arg, todo, ret, ops, serverVars, wpc, agents, addQ, removeQ, idsQ>>
    /\ UNCHANGED <<running, want>>

FreeRunner ==
    /\ cpc = "freed"
    /\ made' = made \ {tgt}
    /\ cpc' = "destroy"
    /\ UNCHANGED <<op, arg, tgt, todo, ret, ops, agentsRunning, scheduled, iterating, atoms>>
    /\ UNCHANGED <<wpc, agents, listVars, running, want>>

Gone ==
    /\ cpc = "destroy"
    /\ made = {}
    /\ cpc' = "gone"
    /\ UNCHANGED <<op, arg, tgt, todo, ret, ops, serverVars, wpc, agents, listVars>>
    /\ UNCHANGED <<running, want>>

Requests ==
    \/ \E a \in Agents : StartHere(a) \/ StopAgent(a) \/ \E r \in Runners : StartThread(a, r)
    \/ \E k \in Classes : StopClass(k)
    \/ \E K \in SUBSET Classes : Shutdown(K)
    \/ StartLoop \/ StopLoop

\* What the controlling thread does of itself once it has a request.
Control ==
    \/ Join \/ JoinEnded \/ AddFirst \/ Enqueue \/ Notify
    \/ DeleteAtomSpace \/ FreeRunner \/ Gone
    \/ \E r \in Runners : SetRunning(r) \/ DestroyRunner(r)

----------------------------------------------------------------------------
(* The main loop: runLoopStep calling SimpleRunner::process_agents, which  *)
(* takes no lock.                                                          *)

BeginCycle ==
    /\ ~iterating
    /\ atoms /\ op # "shutdown"
    /\ agentsRunning
    /\ scheduled # EmptyBag
    /\ iterating' = TRUE
    /\ UNCHANGED <<ctlVars, agentsRunning, made, scheduled, atoms>>
    /\ UNCHANGED <<wpc, agents, listVars, running, want>>

EndCycle ==
    /\ iterating
    /\ iterating' = FALSE
    /\ UNCHANGED <<ctlVars, agentsRunning, made, scheduled, atoms>>
    /\ UNCHANGED <<wpc, agents, listVars, running, want>>

----------------------------------------------------------------------------
(* The worker thread of a runner, process_agents_thread().                 *)

\* Mutant: a stopped runner ends its thread.
WorkerEndsWhenStopped(r) == ~HasAgents(r) \/ ~running[r]

\* The condition that ends the worker's loop.
WorkerEnds(r) == ~HasAgents(r)

\* while (!agents.empty()), and the first look at running.
WorkerTest(r) ==
    /\ wpc[r] = "test"
    /\ wpc' = [wpc EXCEPT ![r] = IF WorkerEnds(r) THEN "ended"
                                 ELSE IF running[r] THEN "cycle" ELSE "predicate"]
    /\ UNCHANGED <<ctlVars, serverVars, agents, listVars, running, want>>

\* running_cond.wait(): the predicate, with running_cond_mutex held.
WorkerPredicate(r) ==
    /\ wpc[r] = "predicate"
    /\ wpc' = [wpc EXCEPT ![r] = IF running[r] THEN "cycle" ELSE "toSleep"]
    /\ UNCHANGED <<ctlVars, serverVars, agents, listVars, running, want>>

WorkerSleep(r) ==
    /\ wpc[r] = "toSleep"
    /\ wpc' = [wpc EXCEPT ![r] = "asleep"]
    /\ UNCHANGED <<ctlVars, serverVars, agents, listVars, running, want>>

\* One batch of changes: removals first, additions after.
Updated(r) ==
    [a \in Agents |->
        (IF clearAll[r] \/ ClassOf[a] \in idsQ[r] THEN 0
         ELSE Minus(agents[r][a], removeQ[r][a])) + addQ[r][a]]

\* The agents have all been run; pending changes are applied.
WorkerUpdate(r) ==
    /\ wpc[r] = "cycle"
    /\ wpc' = [wpc EXCEPT ![r] = "test"]
    /\ IF modified[r]
       THEN /\ agents' = [agents EXCEPT ![r] = Updated(r)]
            /\ addQ' = [addQ EXCEPT ![r] = EmptyBag]
            /\ removeQ' = [removeQ EXCEPT ![r] = EmptyBag]
            /\ idsQ' = [idsQ EXCEPT ![r] = {}]
            /\ clearAll' = [clearAll EXCEPT ![r] = FALSE]
            /\ modified' = [modified EXCEPT ![r] = FALSE]
       ELSE UNCHANGED <<agents, listVars>>
    /\ UNCHANGED <<ctlVars, serverVars, running, want>>

Worker(r) == WorkerTest(r) \/ WorkerPredicate(r) \/ WorkerSleep(r) \/ WorkerUpdate(r)

----------------------------------------------------------------------------
\* The requests have all been made, or the server is gone.
Terminated ==
    /\ cpc \in {"idle", "gone"}
    /\ UNCHANGED vars

Next ==
    \/ Requests \/ Control \/ BeginCycle \/ EndCycle \/ Terminated
    \/ \E r \in Runners : Worker(r)

\* Every thread keeps being scheduled and every agent's run() returns.
Fairness ==
    /\ WF_vars(Control)
    /\ WF_vars(EndCycle)
    /\ \A r \in Runners : WF_vars(Worker(r))

Spec == Init /\ [][Next]_vars
FairSpec == Spec /\ Fairness

----------------------------------------------------------------------------
(* Properties.                                                             *)

ControlStates ==
    {"idle", "enqueue", "join", "joining", "add", "start", "notify", "deleteAtoms",
     "destroy", "freed", "gone"}
WorkerStates == {"none", "test", "predicate", "toSleep", "asleep", "cycle", "ended"}

\* Every variable keeps its type; in particular a runner is being dealt with
\* whenever the controlling thread is inside add_agent, start or a join.
TypeOK ==
    /\ cpc \in ControlStates
    /\ op \in AllOperations \cup {"none"}
    /\ arg \in Agents \cup {None}
    /\ tgt \in Runners \cup {None}
    /\ cpc \in {"enqueue", "join", "joining", "add", "notify", "freed"} => tgt \in made
    /\ cpc \in {"enqueue", "add"} => arg \in Agents
    /\ todo \subseteq made
    /\ ret \in {"idle", "joining"}
    /\ ops \in 0..MaxOps
    /\ made \subseteq Runners
    /\ scheduled \in Bag
    /\ agentsRunning \in BOOLEAN /\ iterating \in BOOLEAN /\ atoms \in BOOLEAN
    /\ wpc \in [Runners -> WorkerStates]
    /\ agents \in [Runners -> Bag]
    /\ addQ \in [Runners -> Bag]
    /\ removeQ \in [Runners -> Bag]
    /\ idsQ \in [Runners -> SUBSET Classes]
    /\ clearAll \in [Runners -> BOOLEAN]
    /\ modified \in [Runners -> BOOLEAN]
    /\ running \in [Runners -> BOOLEAN]
    /\ want \in [Runners -> Bag]

\* A runner with agents has a thread to run them, whatever was started,
\* stopped or joined in between.
AgentsHaveThread == \A r \in Runners : HasAgents(r) => wpc[r] \notin {"none", "ended"}

\* While agents are enabled, no request leaves a runner behind that is not
\* running: the agents given to it would wait for ever.
LoopRunsThreads == cpc = "idle" /\ agentsRunning => \A r \in made : running[r]

\* process_agents_thread: "agents is only modified in this function while
\* this thread is active" - add_agent() touches it, and replaces the thread
\* object, only when there is no thread.
WorkerOwnsAgents ==
    [][\A r \in Runners : agents'[r] # agents[r] => wpc[r] \in {"none", "cycle"}]_vars

\* No wake-up is lost: a worker asleep on running_cond while running is set
\* goes on to run its agents.
StartWakesWorker ==
    \A r \in Runners : wpc[r] = "asleep" /\ running[r] ~> wpc[r] = "cycle" \/ ~running[r]

\* join_run_thread() returns: add_agent() gets past it, and so does the
\* destructor of runners that were stopped, when no agent waits to be added.
JoinReturns ==
    /\ op = "startThread" /\ cpc = "join" ~> cpc = "idle"
    /\ cpc = "destroy" /\ (\A r \in Runners : addQ[r] = EmptyBag) ~> cpc = "gone"

----------------------------------------------------------------------------
(* What the comments of the code promise and its threads do not keep.      *)

\* AgentRunnerThread.h: stop() stops running agents. join_run_thread()
\* starts the runner again.
StoppedLoopStays == cpc = "idle" /\ ~agentsRunning => \A r \in Runners : ~running[r]

\* CogServer.h: stopAgent() removes the agent from the list of scheduled
\* agents. Additions are applied after the removals that follow them.
StoppedAgentLeaves ==
    \A r \in Runners, a \in Agents : want[r][a] = 0 ~> agents[r][a] = 0 \/ want[r][a] > 0

\* CogServer.h: startAgent() adds the agent to the list of scheduled agents.
\* A removal that came before it may take it out again, and the thread that
\* was to add it may have ended.
StartedAgentScheduled ==
    \A r \in Runners, a \in Agents : want[r][a] > 0 ~> agents[r][a] > 0 \/ want[r][a] = 0

\* ~CogServer clears the activity table and deletes the AtomSpace last
\* because agents rely on them; the threads that run agents are joined later.
AtomSpaceOutlivesAgents == ~atoms => \A r \in Runners : wpc[r] # "cycle"

============================================================================
