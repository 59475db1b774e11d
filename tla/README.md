# TLA+ models of the OpenCog CogServer and its concurrent subsystems

This directory specifies and verifies the concurrent and stateful core of this
repository: the CogServer, a network server around an AtomSpace, with its
shells, agents and modules; and three of the subsystems that run on it: the time
server, the pattern miner and the attention economy. The AtomSpace itself, the
rule engine and the utility library (`cogutil`: logger, `concurrent_queue`) are
separate projects.

`PROJECT.json` lists the components, the runs, the source lines of every
definition, the mutants that show each property can fail, the hazards found in
the code, and the theorems.

## 1. Inventory

| Component | State | Operations | Hard behaviour | What makes it correct |
|---|---|---|---|---|
| **Request path** `NetworkServer`, `ServerSocket`, `ConsoleSocket`, `Request`, `CogServer::processRequests`/`serverLoop` | `_num_open_sockets`, `_use_count`, `_shell`, `requestQueue`, `processRequestsMutex`, `running` | accept, construct, read a line, make and queue a request, drain, execute, release, destroy | one thread per connection, all of them and the main loop may drain one queue; objects used by one thread and destroyed by another | use count exact; no console freed under a request; a client's commands in order; shell mode entered before the next line; slots exact; every request served |
| **Interactive shell** `GenericShell`, `SchemeShell` | `evalque` and its cancelled flag, `_eval_done`, `_init_done`, `self_destruct`, `_pending_output` | line discipline, evaluate, poll, interrupt, leave, destroy | three threads, two of which may poll; a cancellable queue; joins in a destructor | evaluations serial; one poller; no expression lost; the shell outlives its threads; the destructor ends |
| **Agent runners** `AgentRunnerBase`, `SimpleRunner`, `AgentRunnerThread`, and the agent operations of `CogServer` | `agents`, `agents_add_q`, `agents_remove_q`, `ids_remove_q`, `clear_all`, `agents_modified`, `running`, `agentThreads`, `agentsRunning` | start and stop an agent, a class, the loop; run a cycle; destroy | changes queued for another thread; condition variable; thread replaced while its predecessor ends | agents have a thread; enabled runners run; one writer of `agents`; wake-ups not lost; joins return |
| **Python shell** | as above, with its own `eval` | evaluate a line in the caller | `PythonShell` bypasses the evaluation thread | as above |
| **Module loader and registries** `CogServer::loadModule`, `unloadModule`, `Registry` | `modules` (two keys each), open libraries, factories by id | load, unload, reload, register, unregister, create | two keys kept by hand; two files with one id; a load that fails half way; commands of detached connection threads beside the destructor | the two keys agree; no module is deleted twice or left; no factory of a deleted module |
| **Server lifecycle** `CogServerSCM`, `CogServerMain`, `~CogServer` | the one server instance, its main-loop thread, `running` | start, stop, destroy | a stop that races the start of the loop's thread | a stop ends the loop and the join returns |
| **System activity table** | per agent, a window of utilisation entries | log, trim, clear | shared by agents' threads | window bounded and ordered |
| **AtomSpace publisher** | a queue of events, a proxy thread | enqueue, send, stop | signals from any thread | no event lost before the stop |
| **Attention allocation** diffusion and rent agents | STI of each atom, the bank's funds | compute amounts, trade STI, charge rent | agents in several threads with read-modify-writes in two calls; amounts computed before the first trade; fractions of STI cut by rent | STI conserved; no atom overdrawn; runs end |
| **Spacetime** `TemporalTable`, `TimeServer` | a sorted list of times, an index into it, a list and a tail pointer per handle, a set of handles per time; AtTimeLinks | add, get, remove with thirteen criteria, time infos, signals of the AtomSpace | four redundant structures, one of which lags by design; two-step operations of several threads | get and remove do what the criteria say; the structures agree; entries agree with AtTimeLinks |
| **Pattern miner, distributed** `PatternMinerCentralServer`, `PatternMinerDistributedWorker` | queue of received patterns, nodes by key, `allWorkers`, flags of the life of the parse threads | register, post patterns, report the stop, parse, count, ask the operator | HTTP requests and answers lost and repeated; parse threads that look up and insert in two critical sections | nothing received is lost; nothing listed twice; threads end; workers leave |
| **Pattern miner, threads** `PatternMinerDF`, `runInterestingnessEvaluation` | links copied so far, nodes, claims per thread, `cur_index` | copy a link, extract, extend, claim, evaluate | check-then-act claims of which only the latest are kept; a node found before it is filled, and then extended beyond the lists there are | no pair of links left out; one node per pattern; each evaluated once |
| **Space and octomap servers, spatial navigation, embedding, NLP, PLN, OpenPsi, GHOST, Eva, bindings, visualisation** | see `PROJECT.json` | | floating point, Scheme rules or user interface | |

How they interact: a connection's thread calls `ConsoleSocket::OnLine`, which
makes a `Request`, counts itself as used, and pushes it on the queue shared with
the main loop. A request that opens a shell is drained at once by the
connection's own thread, which thereby may execute other clients' requests. The
request that opens the shell hands the console a `GenericShell`; from then on
the connection's lines go to it, and it starts its own two threads. Requests
that start and stop agents change the lists of agents that the main loop and the
dedicated threads run. The destructor of the connection waits for its requests
and then destroys the shell. The requests themselves are made by factories that
modules register when they are loaded, by requests too; agents likewise. The
attention module brings the agents that spread STI and collect rent, which run in
the main loop or in dedicated runners. The pattern miner brings its own threads,
and, when it is distributed, its own processes and an HTTP server. The time
server lives in a module's process without threads of its own: its callers are
whichever agents and requests use it, and the AtomSpace's signals.

## 2. Modules

| Module | Models | Extends / instantiates |
|---|---|---|
| `RequestService` | abstract: what the server promises a client, three actions: a command is accepted, executed, the connection ends | |
| `ConsoleRequests` | the request path | instantiates `RequestService` |
| `ConsoleRequestsProofs` | its theorems | extends `ConsoleRequests` |
| `GenericShell` | the interactive shell | |
| `GenericShellProofs` | its theorems | extends `GenericShell` |
| `AgentRunner` | the agent runners | |
| `AgentRunnerProofs` | its theorems | extends `AgentRunner` |
| `ServerModules` | the life of a server and its modules | |
| `ServerModulesProofs` | its theorems | extends `ServerModules` |
| `TemporalTable` | one temporal table, its operations as functions of the table | |
| `TimeServer` | domains, threads and AtTimeLinks | extends `TemporalTable` |
| `TimeServerProofs` | theorems about both | extends `TimeServer` |
| `PatternServer` | the distributed pattern miner: server, workers, network | |
| `PatternServerProofs` | its theorems | extends `PatternServer` |
| `MinerThreads` | the threads of one miner process | |
| `MinerThreadsProofs` | its theorems | extends `MinerThreads` |
| `Attention` | the agents that spread STI and collect rent | |
| `AttentionProofs` | its theorems | extends `Attention` |
| `MC...` | the instances TLC runs | |

A step of a model is what one thread does between two points at which another
thread can tell the difference: a locked region, an access to an atomic or to a
variable read without a lock, a queue operation, a blocking call. A library call
that blocks is a guard.

### ConsoleRequests

*State.* `hpc[c]` is the place of the thread of connection `c`, from the
listener's `accept` through `handle_connection` and the destructor; `sock`,
`eof` and `peerClosed` are the two ends of the TCP connection; `useCount`,
`shell`, `numOpen` are `_use_count`, `_shell` and `_num_open_sockets`; `queue`
and `mutex` are `requestQueue` and `processRequestsMutex`; `req` is the state of
every `Request` object and `cur`, `stage` the one under execution; `mpc` and
`running` are the main loop. `wantShell`, `stopped` are history variables.

*Actions.* `Accept`, `CountSocket`, `StartHandler` are `NetworkServer::listen`
with the constructor it runs. `Recv`, `RecvError`, `Eof`, `NoLastLine` are the
read loop, including the read that fails on a closed socket. `OnShellLine`,
`OnIgnoredLine` and `OnCommand` are `ConsoleSocket::OnLine` and its early
returns. `LockRequests`, `PopRequest`, `Execute...`, `DeleteRequest` and
`UnlockRequests` are `processRequests`, run by either kind of thread; the kinds
of request differ in what they do to the console: `plain` answers, `shell` sets
`_shell`, `exit` closes the socket and then lets go of the console, `shutdown`
stops the server, lets go of the console and then closes the socket. `WaitUnused`,
`DeleteShell`, `ReleaseSlot`, `FreeSocket` are the destructors. `EnterLoop`,
`LoopStep`, `AgentsAndSleep` are `serverLoop` and `runLoopStep`.

*Left out.* The text of a command and of its answer: a line is one of six kinds.
A send cannot fail, and the exception handler around it is not modelled.

### GenericShell

*State.* `pc` is the place of each of three threads and `call` its place inside
`poll_output()`; the other variables carry the names of the members they model.
`evaluated` and `discarded` are history variables. The evaluator
(`GenericEval`) and `concurrent_queue` are libraries: `busy` and `result` are
what the shell can observe of the first; of the second, `pop()` waits, throws
when cancelled, and a cancelled queue refuses pushes until the cancel is reset.

*Actions.* `EvalLine` and `Spin` are the beginning of `eval()`, which starts the
evaluation thread and waits for `_init_done`; `PushExpr`, `EraseLine`,
`DiscardTest`, `DiscardPop`, `Interrupt...`, `Leave`, `LeaveCancel` are
`line_discipline`; `Dtor...` are the two destructors; `Poll...` is
`poll_output` and `poll_loop`; the remaining actions are `eval_loop`, from
`EvalInit` to `EndTest`, in the order of the code.

### AgentRunner

*State.* Per runner: its worker's place, its list, its three queues of changes,
`clear_all`, `agents_modified`, `running`; for the server, `agentsRunning`, the
runners made, the list of the main loop's `SimpleRunner`, whether the main loop
is iterating over it, and whether the AtomSpace exists. `want` is a history
variable: what the callers of `startAgent` and `stopAgent` asked for.

*Actions.* One per request (`StartHere`, `StartThread`, `StopAgent`,
`StopClass`, `StartLoop`, `StopLoop`, `Shutdown`); the places where a request's
thread can be overtaken (`Join`, `JoinEnded`, `AddFirst`, `Enqueue`,
`SetRunning`, `Notify`, `DeleteAtomSpace`, `DestroyRunner`, `FreeRunner`); the
main loop's `BeginCycle` and `EndCycle`; the worker (`WorkerTest`,
`WorkerPredicate`, `WorkerSleep`, `WorkerUpdate`). A list of agents is a bag.

A request that names several agents is that many requests in a row. `agents-step`
changes no list but for the `stopAgent` of a temporary agent, which is a
`StopAgent` of an agent nobody scheduled.

*Left out.* An agent's frequency and the order within a cycle; spurious
wake-ups of the condition variable, which its predicate makes harmless; what the
main loop's iteration does when the vector changes under it, which is undefined.

### ServerModules

*State.* `srvr`, `scheme`, `loop`, `running` are the server instance, the thread
that calls from Scheme, the main loop's thread and its flag. `modules` is the
module map with both kinds of key, `objects` the module objects ever made (so
that a deleted one is told from its successor), `libraries` how often `dlopen`
holds a file, `factories` the two registries. `requestQueue` carries requests
with the object whose factory made them; `found` is a factory a connection's thread
has looked up and not yet called, `draining` are the connections inside
`processRequests`. `moduleKeys` (what `~CogServer` collected) and `left` (what was
not deleted with its server) are for the properties.

*Actions.* `start_server`, then `LoadNext` for each configured module and
`StartLoop`; `stop_server`, then `JoinAndDelete` (the join, after which
`~CogServer` collects the keys), `UnloadNext` for each key, which is looked up
again, and `DeleteServer`. `todo` holds what is left to load or to unload.
`OnLine` is a console that finds a command's factory and `CreateRequest` makes and
queues its request; if it opens a shell the console then drains the queue itself
(`ConsoleExecutes`, `ConsoleReturns`). `MainLoop` enters the loop, tests `running`,
and executes requests. The threads of connections are detached
(`NetworkServer.cc:94`): neither `disableNetworkServer`, which stops the listener,
nor the join of the main loop keeps them from executing a command while
`~CogServer` unloads, and they do so in the model. Loading and unloading one module
are functions of the state they change. Four files stand for all: the built-in
requests, the attention module, a second file with its id, and the Scheme shell's,
whose command is the one that drains; a fifth file lacks a symbol.

*Left out.* Two threads inside the loader at once. Those that execute requests
hold `processRequestsMutex`, but the Scheme thread in `start_server` or
`~CogServer` holds no lock, and the module map and the registries have none: such a
step and a console's may overlap inside a `std::map`, which is undefined. In the
model they come one after the other, in every order. A command under way when its
server is deleted ends there. The `help` that is tried when a command is unknown.
The second call of `AttentionModule::init()`, which registers nothing new.

### TemporalTable and TimeServer

*State.* A table is a record: `sortedTemporalList`, `temporalIndexTable` with its
size and `pendingUpdateCount`, `handleMap`, `tailHandleMap`, `temporalMap`. An
entry of a list is its time, because a time occurs once in a list; a pointer to a
deleted entry is `Dangling`, and a table in which one is followed is `undefined`:
`add` then either finds the deleted entry later or earlier than the new time.
`atTimeLinks` is what the AtomSpace holds and `call[k]` the rest of what thread `k`
does: the link it is to add, the entries it has got and is to remove, those of them
whose Temporal has been deleted since, and the signal that is due. `raced` is a
history variable: the links that changed while the signal of an earlier change was
due.

*Actions.* `Add`, `RemoveMatching` and `clear` are the direct use of the server;
`addTimeInfo`, `AddTimeInfoLink`, `removeTimeInfo`, `RemoveTimeInfoLink` are the
use with AtTimeLinks, one step per critical section or call of the AtomSpace;
`AtomSpaceAdds` and `AtomSpaceRemoves` are other users of the AtomSpace. A change of
the AtomSpace is one step and its signal, which takes `ts_mutex` in the same
thread, a later one (`Signalled`). `removeTimeInfo` keeps pointers into the table
without the lock: of a Temporal deleted meanwhile it reads any time or none
(`TimesRead`). A behaviour uses the server in one of the two ways
that `TimeServer.h` describes.

*Walks.* `get` and `remove` walk a list and leave it as soon as no later time can
match. Where such a walk ends is an operator of its own, so that `OperationsMatch`
compares what the code returns with what the criterion says, time by time.
`remove` takes the times it has chosen one after the other, in the order of the
list, because each may rebuild the index.

`OVERLAPS` has two definitions in `TemporalTable.h:63`. The first, `STARTS_WITHIN ||
ENDS_WITHIN`, leaves out the intervals that contain the argument; the code, and the
reference definition here, follow the second.

*Left out.* The text of a TimeNode's name. The lookup of a domain before the
lock (`TimeServer.cc:101`), a data race inside `std::map`.

### PatternServer

*State.* Per worker: its links, its state, the mining threads with their buffers.
On the server: `main`, the parse threads, `allWorkers` (which has two keys for
one worker, because a worker registers under the query text and its patterns
carry the bare uid), `waitForParsePatternQueue`, the requests that are answered
but whose body is not yet queued (`answered`), the nodes and the map to them.

*Actions.* The three handlers, with an outcome of each request: answered, lost,
or handled with the answer lost; the worker's retries; the parse thread in the
steps between its critical sections; the main thread's join and its question to
the operator, who may answer or stay silent.

*Left out.* The text of patterns and of JSON; a link is the list of patterns it
yields. `GENERATE_TMP_PATTERNS` is 0 in this build.

### MinerThreads

*State.* Per thread its range of links, its stack of calls of
`extendAPatternForOneMoreGramRecursively` and the patterns of its current task;
shared: `observing_as`, the nodes, the claims, `cur_index`. `visits` and
`evaluated` are history variables. *Actions*: copy the next link (`NextLink`),
look up or enter its pattern (`ExtractPattern`), fill the new node (`FillNode`),
look whether its parent knows it and make the relation if not (`CheckRelation`,
`AddSuperPattern`, without a lock), walk the neighbours (`NextNode`,
`TryLink`, `EndCall`), claim (`AddClaim`), and evaluate gram by gram
(`StartEvaluation`, `EvaluateNext`, `NextGram`). With `enable_surprisingness` the
loop over the grams ends at a gram without patterns, without it at `MAX_GRAM`;
`NextGram` may do either.

`patternsForGram` has a list for each of `MAX_GRAM` numbers of links, as the code
sizes it. A thread that finds a node before its pattern is set may come to push a
pattern of more links (`PushBeyond`), or read a link of the empty pattern
(`ReadUnset`). Both leave the bounds of a vector: `OutOfBounds` sets `undefined` and
the behaviour ends, so what is said of joined threads is said of behaviours
without it.

*Left out.* Which of a pattern's values become variables: the links of an
instance have one pattern, given by `PatternOf`. Two threads inside one
`push_back` to `superPatternRelations`.

### Attention

*State.* `sti`, `funds`, and per agent where its `run()` is, with the stack of
diffusion events still to trade. `taken`, `lost` and `clean` are history
variables: what rent has taken, whether a write replaced a value other than the
one its agent had read, and whether the last run begun is one of the AF spreader,
begun while no other agent ran and no atom was below zero.

*Actions.* `BeginSpread` chooses the sources and `diffuseAtom` computes the amounts
of one; when all are computed the trades read and write the source and the target
in four steps; `BeginRent` and `RentStep` charge rent, a read and a write per
atom. Where the code walks a set of handles, the model walks its members in
`HandleOrder`.

*Numbers.* `sti_t` is a floating-point number; STI and funds are counted in parts
of 1/`Unit`. The AF spreader's total is rounded to a whole STI and a share keeps
its fraction, cut to the next part. Rent reads STI and funds into an `int`: what it
charges is whole, and the write leaves the atom without its fraction, which goes to
the funds with the rent. The AF collector charges for each cycle that has passed,
and `UpdateCycles` are those numbers: with the shipped `AF_RENT_FREQUENCY` of 0.05
and an elapsed time in whole seconds, multiples of 20.

*Left out.* LTI, which rent treats in the same way; the Hebbian and forgetting
agents. The STI of an atom and the funds are read by a rent collector in one
step.

## 3. Runs

| Run | Instance | Shows |
|---|---|---|
| `console_safety` | 2 connections, 2 slots, 2 lines each, every kind of request, symmetric | `TypeOK`, `UseCountExact`, `HeldConsoleAlive`, `ExecutedInOrder`, `ShellModeSynchronised` |
| `console_live` | 2 connections for 1 slot, every kind of line but shutdown, fair | `SlotLimit`; the threads implement `RequestService`; every queued request is served; a connection its client closed is freed |
| `shell` | 3 expressions, 2 controls, every kind of line, fair | `StartsWhenDone`, `OnePoller`, `ThreadsOutlived`, `NothingLost`; the destructor ends and every expression is evaluated or discarded |
| `agent_runner` | 2 agents of different classes, 2 runners, 4 requests, fair | `AgentsHaveThread`, `LoopRunsThreads`, `WorkerOwnsAgents`, `StartWakesWorker`, `JoinReturns` |
| `server_modules` | 2 lives of a server, 1 connection, 3 commands, 5 files, fair | the keys lead to living modules and each living module has its file key (`MapMatchesModules`); `DeletedOnce`; `RequestFactoriesAlive`; `StopObeyed` |
| `time_server` | every table over 2 atoms and 5 times; 2 threads, 2 domains, 3 calls | `IndexUsable`, `ViewsAgree`, `OperationsMatch` (against a reference definition of each criterion), `DefaultDomainAgrees` |
| `pattern_server` | 2 workers, 1 or 2 parse threads, one fault, fair | `ReceivedAccounted`, `ListedOnce`, `OneParserExact`, `ParsersEnd`, `WorkerLeaves` |
| `miner_threads` | 1 or 2 threads, 5 links, 2 grams | `NoPairMissed`, `OneNodePerPattern`, `OneGramCountsExact`, `EvaluatedOnce`, of behaviours that stay in bounds |
| `attention` | 4 atoms, halves of an STI, 2 runs of the 4 agents, serial or in threads, fair | `SpreadConserves`, `SpreadSolvent`, `RunsEnd` |
| `shell_interrupt` | violation | an interrupt may wait for ever on the queue it is emptying |
| `server_stop` | violation | a stop that comes before the loop's thread enters the loop is overwritten, and the join waits for ever |
| `time_tail` | violation | a tail pointer left behind by a removal makes a later addition invisible to its handle |

The violations are disagreements between a comment of the code and what it
does; `findings` in `PROJECT.json` quotes both sides.

### Further counterexamples

These configurations also end in a counterexample. They are kept beside the
listed runs, as the record of what the models found; each but `FoundFactoryAlive` quotes the sentence it
refutes above its property.

- `ConsoleRequestsShutdown.cfg`, `ExitOnLiveConsole`: `ShutdownRequest` lets go of
  the console and then calls `Exit()` on it, while the handler's destructor, no
  longer held off, may free it (`ShutdownRequest.cc:54`; `ConsoleSocket.h:68-72`).
- `ConsoleRequestsExit.cfg`, `ClosedSocketNoticed`: a read of a socket the server
  has closed fails with an error that does not end the read loop, which spins
  (`ServerSocket.cc:175`; the comment at `ServerSocket.cc:79-81`).
- `AgentRunnerLoop.cfg`, `StoppedLoopStays`: adding an agent to a runner whose
  thread has ended starts it although the agent loop is stopped
  (`AgentRunnerThread.cc:162`; `CogServer.h:301`).
- `AgentRunnerStop.cfg`, `StoppedAgentLeaves`: an agent started and then stopped
  within one cycle stays, because additions are applied last
  (`AgentRunnerThread.cc:150`; `CogServer.h:292`).
- `AgentRunnerStart.cfg`, `StartedAgentScheduled`: an agent queued between the
  worker's last look and its end is never run (`AgentRunnerThread.cc:58`;
  `CogServer.h:288`).
- `AgentRunnerAtoms.cfg`, `AtomSpaceOutlivesAgents`: `~CogServer` deletes the
  AtomSpace before the runners' threads are joined (`CogServer.cc:126`).
- `ServerModulesFactories.cfg`, `FactoriesAlive`: the destructor of the attention
  module leaves the factories of the two rent agents in the registry
  (`AttentionModule.cc:53`).
- `ServerModulesUnload.cfg`, `NoneLeft`: a connection queues `loadmodule` and `scm` while
  `stop_server` joins the main loop; its thread drains the queue after `~CogServer`
  has collected the keys, and the module it loads is never deleted
  (`CogServer.cc:91`; the remark at line 90 and `CogServer.h:225`).
- `ServerModulesFound.cfg`, `FoundFactoryAlive`: `createRequest` finds a factory, and
  another thread deletes its module before it is called (`Registry.h:92-103`).
- `TimeServerLinks.cfg`, `EntriesHaveLinks`: `addTimeInfo` enters a pair and adds its
  link; another thread removes the link, and its signal comes first; the signal of
  the insertion then enters the pair again, without a link (`TimeServer.cc:172`;
  `TimeServer.h:80-82`).
- `TimeServerDomains.cfg`, `EntriesHaveLinks`: the removal of an AtTimeLink with a
  domain leaves its entry, since `atomRemoved` tests the type of the time node
  where it means the domain's (`TimeServer.cc:358`).
- `PatternServerAsk.cfg`, `AskedWhenParsed`: the server prints that all received
  patterns have been parsed while an answered request is still to be queued
  (`PatternMinerCentralServer.cc:320`).
- `MinerThreadsGram.cfg`, `GramWithinMax`: a thread that finds a node whose pattern
  is not set yet takes it for smaller than it is and extends it beyond `MAX_GRAM`;
  the push to `patternsForGram` is then out of bounds (`PatternMinerDF.cc:426`; the
  remark at line 98).
- `AttentionOverdraw.cfg`, `NeverOverdrawn`: with agents in threads of their own, rent
  taken between the computation of the events and their trades makes an atom
  diffuse more than it has, without a lost write (`ImportanceDiffusionBase.cc:209`;
  the remarks at lines 197 and 225).
- `AttentionRent.cfg`, `NeverOverdrawn`: the AF collector caps the rent of one cycle
  at the atom's STI and then charges it for all cycles that have passed, 20 at
  least as shipped (`AFRentCollectionAgent.cc:81`; the remark at
  `ImportanceDiffusionBase.cc:225`).
- `AttentionTournament.cfg`, `NeverOverdrawn`: the WA spreader takes the tournament size
  for its Hebbian percentage and gives away more than an atom has
  (`WAImportanceDiffusionAgent.cc:51`).

Others were met while modelling and have no configuration, because what follows
is undefined, or outside the models:

- the listener accepts one connection more than `_max_open_sockets` before the
  constructor waits (`NetworkServer.cc:87`, `ConsoleSocket.cc:72`);
- `poll_output()` can declare an evaluation finished that is between
  `start_eval()` and `begin_eval()` (`GenericShell.cc:594`); `NothingLost` and
  `StartsWhenDone` show that nothing worse than an early prompt follows;
- the destructor of a runner with an agent still in `agents_add_q` does not
  return, since the addition is applied after `clear_all`
  (`AgentRunnerThread.cc:139-150`). `JoinReturns` is stated for the other case;
- after a shutdown nobody drains the queue, and the destructors of consoles with
  requests in it wait for ever; `ClosedConsoleFreed` is stated up to the shutdown;
- the main loop iterates over a vector of agents that a draining connection may
  change (`CogServer.cc:236`), and `agents-step` runs agents that may be running
  (`BuiltinRequestsModule.cc:305`);
- a request that waits while its module is unloaded finds no module
  (`Request.h:156`), an agent's thread may be inside a library being closed
  (`CogServer.cc:559`), and a load that fails leaves its library open
  (`CogServer.cc:438`);
- an answer that is lost makes a worker post its patterns again, and they are
  counted again (`PatternMinerDistributedWorker.cc:447`); a body that cannot be
  read after the OK is lost (`PatternMinerCentralServer.cc:341`);
  `waitingForNewClients = true` may overwrite a registration (line 138), and the
  number of processed facts is the one parsed last, not the latest (line 400);
- `superPatternRelations` is pushed to without a lock (`PatternMinerDF.cc:735`),
  with a link read from a pattern that may not be set yet (line 731), and
  `getCountOfAConnectedPattern` unlocks a lock twice (`PatternMiner.cc:1816`);
- a pattern is listed not at all when a second parse thread counts it before the
  first has tested the count (`PatternMinerCentralServer.cc:444`), and two parse
  threads make two nodes of a pattern (line 405);
- a pointer that `removeTimeInfo` has kept may lead to a deleted Temporal, and the
  link of another time may be removed for it (`TimeServer.cc:249`); in the instance
  the pointer is read, but it takes a fourth call to hit another link;
- the WA agent never sets its spread percentage
  (`WAImportanceDiffusionAgent.cc:51`); the assertion
  on the arity of an AtTimeLink holds for every arity (`TimeServer.cc:344`);
  `get_param_value` strips the zeros of whole numbers (`AttentionParamQuery.cc:79`).

### What the properties do not say

- `HeldConsoleAlive` is about requests that point to a console, not about a command
  that uses one it has let go of (`ExitOnLiveConsole`).
- `AgentsHaveThread` is about a runner's list, not about an agent still queued, and no
  property tells a thread that has ended from one that was joined.
- `RequestFactoriesAlive` is about the content of the registry, not about a factory
  that was found in it.
- `OneParserExact` is for one parse thread; `ListedOnce` only excludes a second
  listing.
- The mutant of `NoPairMissed` breaks the ranges of the threads; that the claims
  alone never lose a pair is the proof of `PairsSafety`.
- `SpreadConserves` says what holds until a write replaces a value its agent has not
  read. Such lost updates happen when the agents have threads of their own, and no
  property excludes them.
- `SpreadSolvent` is about a run of the AF spreader that no other overlaps. The other
  cases do overdraw atoms: `AttentionOverdraw.cfg`, `AttentionRent.cfg`,
  `AttentionTournament.cfg`.
- `DefaultDomainAgrees` leaves out a link that is changed while the signal of an earlier
  change is due: `TimeServerLinks.cfg`.

### Bounds

`MaxLines`, `MaxExprs`, `MaxControls` and `MaxOps` bound what the environment
does and appear in the guards of the actions that consume it. Two connections
are enough for every interaction in the request path, because its shared state
is one queue, one mutex and one counter: one connection executes another's
request, one waits for the slot the other holds, each destroys itself while the
other executes its request. Two lines are needed for an order and for a line
that follows the one that enters a shell. Three expressions let one be evaluated,
one be popped and one wait; two controls let an interrupt meet the effects of
an earlier one. Four requests are what the longest scenario of the agents needs:
start, stop, start, and a shutdown or a change of the loop. Two runners suffice
because runners share nothing but the request that visits them.

Three commands are what a clash of ids takes: load the second file, load or
unload the first, use a command; two lives let a factory outlive its server, and one
connection, with the main loop and the Scheme thread, makes three threads that
load and unload. Three calls with AtTimeLinks let an addition, a removal and the
signals of both meet in any order. Five
times contain intervals that are apart, that overlap and that include one another, a shared
bound, and two that differ in the kind of distribution only; with a threshold of
2 instead of 8 the index lags after two additions. In the pattern server one
fault at any request is enough for every retry to happen once; corpora of at
most two links contain a pattern with its parent, an unknown parent and a key
that cannot be loaded. Five links on two threads leave a remainder of one; with
`ClaimsKept` 1 instead of 60 the oldest claim is forgotten after the second. Two
runs in all let any two of the agents overlap in every order. Halves of an STI
are the coarsest fractions; 20 and 40 are the first two numbers of cycles the AF
collector can charge for as shipped, and `maxSpreadPercentage` is 50, the largest for
which `SpreadSolvent` promises that no atom falls below zero.

The theorems of section 4 have no such bounds.

### Deadlock and fairness

`console_safety` does not check for deadlock, because after a shutdown every
thread rests; `shell` does not because an interrupt may block for ever,
which is the finding of `shell_interrupt`; `server_modules`, `time_server` and
`attention` do not because the bound on calls, commands or runs comes to an end.
Other runs check it; a shell that is
gone, or a server with no more requests to come, stutters.

Fairness is weak fairness of each thread: the operating system keeps scheduling
it. In `ConsoleRequests` reaching the end of the stream is strongly fair: the
bytes a client sent before it closed are finite, so a read loop that keeps
reading comes to the end. Weak fairness suffices for `processRequestsMutex`
because the number of requests is finite. In `GenericShell` it is also assumed
that evaluations end, and in `AgentRunner` that an agent's `run()` returns. In `ServerModules` the
main loop's thread and the calling Scheme thread (its loads, its join and its
unloads) go on, in `PatternServer` every thread and handler does, and in `Attention` an agent's
`run()` that has begun. No client is obliged to connect, to send, or to close, and
no operator to answer.

### Mutants

Each property of a passing run has a mutant in `PROJECT.json`: an operator, defined just before
the definition it replaces, that changes the code the way a plausible slip
would. Each run must then fail.

## 4. Theorems

Proved by TLAPS for every value of the constants that the named assumptions
allow. The bounds of section 3 are constants here, so none of them limits a
theorem; TLC has checked each inductive invariant on the instance of the
component's run before it was proved. Each proof has one lemma per action, and a
theorem that names a property of a run only has to read it off the invariant.

| Module | Assumptions | Theorems about properties of runs |
|---|---|---|
| `ConsoleRequestsProofs` | `ConsoleAssumption`: finitely many connections, "none" is neither a connection nor a request | `TypeCorrect`, `UseCountSafety`, `HeldConsoleSafety`, `OrderSafety`, `SlotSafety`, `ShellModeSafety`, `Refinement` |
| `AgentRunnerProofs` | `AgentAssumption`: finitely many agents and runners, each agent has a class | `TypeCorrect`, `ThreadSafety`, `LoopSafety`, `Ownership` (an action property) |
| `GenericShellProofs` | `ShellAssumption`: types | `TypeCorrect`, `StartsWhenDoneSafety`, `OnePollerSafety`, `ThreadsOutlivedSafety`, `NothingLostSafety` |
| `ServerModulesProofs` | `ModulesAssumption`, `ConfiguredAssumption`: the configured modules are any sequence of file names, and a file that is absent or broken is none of the others | `TypeCorrect`, `MapSafety`, `DeletedOnceSafety`, `FactoriesSafety` |
| `PatternServerProofs` | `ServerAssumption`: at least one thread, buffer place and try | `TypeCorrect`, `ReceivedSafety`, `ListedOnceSafety`, `OneParserSafety` |
| `MinerThreadsProofs` | `MinerAssumption`: at least one link, thread, gram and kept claim; patterns with different numbers of links have different keys, since a key spells out its links | `TypeCorrect`, `OneNodeSafety`, `EvaluatedOnceSafety`, `PairsSafety`, `CountsSafety` |
| `TimeServerProofs` | `TableAssumption`: a time is an interval of natural numbers that does not end before it begins, the markers are no times or handles, and the threshold of pending updates is at least 2 (the code has 8); `ServerAssumption`: types | `TypeCorrect`, `IndexSafety`, `ViewsSafety`, `OperationsSafety`, `DomainSafety` |
| `AttentionProofs` | `GraphAssumption`: finitely many atoms, distinct handles; `ParameterAssumption`: percentages are within 100, the funds buffer and `Unit` are not zero, at least one cycle is charged for | `SpreadConservesSafety`, `SpreadSolventSafety` |

**Request path.** `UseCountExact` is not inductive by itself: to show that `put()`
is called once for each `get()` one must know which `Request` objects exist and
where they are. `ConsoleInv` adds

- `Numbered`: the requests of a connection are numbered as they are made;
- `QueueExact`: the queue holds the queued requests, each connection's oldest
  first;
- `CurrentExact`: at most one request is executing, and it points to its console
  up to the step where its code lets go.

From it follow the types, the use count, the order, the slots, that a held console
is alive, and, with the mapping of `Service`, `Refinement`: the initial states map
to initial states, a command queued is `Send`, the step that releases the console
is `Serve`, the end of the destructor's wait is `Free`, and all other steps
stutter. `HoldExact` and `ReleaseExact` isolate the cardinality argument. Shell
mode needs a second invariant on top, `ModeInv`: a request that opens a shell is
`Awaited`, the thread of its console being inside `processRequests`, from the time
it is queued until it has executed; so when that thread reads the next line, its
console's `_shell` is what its client expects (`ModeAgrees`).

**Agent runners.** `AgentInv` adds `ControlInv` (which request the controlling
thread's place belongs to), `AddInv` (`add_agent` is about to start a thread only
where there is none) and `LoopInv` (while agents are enabled, a runner that is not
running is one the request under way has still to start).

**Interactive shell.** `ShellInv` ties the places of the three threads to the
flags they share: `CallsMatch` (who is inside `poll_output()`), `Lifetimes` (which
threads exist at each place of the handler and of the destructor), `DoneHolds`
(between the wait for the last evaluation and the start of the next nobody
withdraws what the wait has seen), `HandAndQueue` (what the evaluation thread's
place says of the queue and of the expression it has), `InOrder` and `Accounted` (what was evaluated,
thrown away, held and queued is what was typed, in order).

**Modules and life of the server.** `ModulesInv` joins the types with `LoadedInv`
(a key leads to a module that is alive, a module of this server that is alive has its file key
and its open library, a factory in the registry is one its module registers, no
module is deleted twice), `Phases` (there is a server while its loop's thread or a
load or unload is under way, and the loop's thread lives only between start and
join) and `LeftToUnload` (of each module that was collected and is alive the destructor
still has the file name, and without a server none of them is alive). Commands may
come between any two of these steps: a module that was collected can be unloaded by
one, and then its name may lead to a successor, which the destructor deletes as
well; and a module may be loaded after its key's turn has passed, which is why
`DeletedOnce` speaks of those collected. Of a module's two keys only
the file key is exact: two files with one id share the other.

**Distributed miner.** `ServerInv` has the types, with `TriesRemain` (a worker
that registers, posts or reports has tries left), `Joined` and `NodeRefs` (every reference to a node
is to one there is). `ReceivedAccounted` counts occurrences over the queue,
the parse threads and the nodes, as the cardinality of the set of places at which a
pattern is. `ListInv` is what makes `ListedOnce` inductive although the count is
tested outside its lock: for each node, the times it is listed and the parse
threads that have counted it and not yet tested the count are together at most the
count. `OneParserInv` adds, for one parse thread, what its last lookup said.

**Miner threads.** Both invariants are about the steps before `undefined`; the step that sets it changes
nothing else, and none follows. `MinerInv` says of each call on a thread's stack which node and
links it has (`Calls`), that a key is entered once and that a node's pattern is
unset or has the number of links of its key (`NodesInv`), that a node is about to
be listed by exactly one thread or is listed at one place (`Listing`), and what is
evaluated before and after `cur_gram` and `cur_index` (`Progress`). One part is
less obvious: the loop may end at the first empty gram without leaving a pattern
out because there is a node for every smaller number of links (`NodeBelow`).

`MiningInv` is about the links. The ranges of the threads do not overlap and cover
all links (`RangesDisjoint`, `RangesCover`), and the links copied are those the
threads have come past. For each two copied links that share a node, the pair has
been entered, or a thread `Meets` it: the pair's later link is its task, and the
other one shares a node it has not looked at, is in its list of links to try, or is
the link it is about to claim (`Pairs`). A thread gives a pair up only to a
claim, and a claim that stands was followed by a call (`ClaimsVisited`), so it does
not matter how many claims are kept. A count is at most the number of copied links
whose task does not still lack the pattern (`CountBound`), and for a one-link
pattern the number of links of this pattern whose task has begun to extend
(`CountExact`, `StartedHasNode`).

**Time server.** `IInv` says of each table (`TableOK`) that its list is sorted
and has the times that have handles (`ListOK`), that a handle's list is sorted,
has the times under which the handle is filed, and ends where a tail pointer that
is set points (`HandleOK`), and what the index may look like (`IndexOK`). The last
one is the argument of the code's lazy index: its entries are in order and in the
list, and the times it does not show are at most `pendingUpdateCount`. As long as
the pending updates do not ask for a rebuild there are more times than that, so an
index that is in use shows one at least and can be searched. With a threshold of 1 an
index could become empty beside a list that is not, whence the assumption.
`HandleOK` is claimed until a dangling tail pointer has been followed
(`TimeServerTail.cfg` shows how that happens); the list and the index do not depend
on it. The theorem about the operations has one lemma per criterion: a walk that
ends early has come past every time that matches, by the order of the list and
the order in which the criterion compares the bounds. Between the server and the
AtomSpace, `LinksShown` says of each link of the default domain that was not changed
while a signal for it was due: it has its entry or the signal of its insertion is
due; an entry has its link, or an `addTimeInfo` is about to make it, or the signal
of the link's removal is due; and at most one signal is due for it, which says what
was done last. `OneCall` says that a thread is in one call.

**Attention.** `AttentionInv` says that the bank's funds have grown by the rent
charged and by what is on its way from a source to its target, until a write
replaces a value its agent had not read (`Conserved`; the flag is `lost`). That
this never happens in the main loop needs `Alone` (one agent runs at a time) and
`Fresh` (what it has read is still there when it writes).

`Solvent` is about debts. During a run of the AF spreader that began alone, with no
atom below zero, and after it until another run begins: the other agents rest, and
each atom has at least what the events on the diffusion stack will still take from
it (`Covered`), up to the half STI that rounding the total may have added when
`maxSpreadPercentage` is above 50 (`Grace`); the atoms still to be diffused are the source of
none of the events and have what they had; and what was read is still there when
it is written (`FreshOK`). It rests on two groups of lemmas about sums. A sum over a
finite set exists, does not depend on the order of the addends and is bounded by
a bound of its addends (`SumExists`, `SumAnyOrder`, `SumBound`). And the shares
into which an atom's total diffusion is divided, Hebbian and incident, each cut
to a part, add up to no more than this total (`NeighbourShare`, `OtherShare`,
`AllShares`, `SpreadWithin`).

**Induction.** The library's induction rules have an operator as a parameter, which
these provers cannot instantiate. `SetInduction` is stated for a set instead: a set
that contains 0 and the successor of each of its numbers contains all natural
numbers. It follows from `NatLessThanWellFounded` and `WFMin`. With it the values of
the recursive functions of `TemporalTable` and of the sums of `Attention` are
proved for every length.

### Only model-checked

- All liveness: that requests are served, the ends of destructors, joins,
  parse threads and runs, `StartWakesWorker`, `StopObeyed`. TLAPS has no rule for
  fairness that these backends can use.
- The configurations that end in a counterexample.

## 5. Not modelled

- The AtomSpace, the rule engine, Guile, `concurrent_queue`, the sockets and HTTP
  libraries and the attention bank: not in this repository, modelled by how they
  are used. That the AtomSpace's signal follows its change in the same thread, and
  holds no lock that keeps other threads from the AtomSpace meanwhile, is an
  assumption.
- Formatting, parsing of command arguments, logging, configuration.
- Space and octomap servers, spatial navigation, dimensional embedding, clustering,
  the measures of interestingness: numerical code over floating point values,
  single-threaded, in which TLA+ has nothing to check.
- The breadth-first miner, the extraction of patterns from links (`PatternMiner.cc`)
  and the pattern index: long sequential algorithms over the atoms of an
  AtomSpace.
- NLP, PLN, OpenPsi, GHOST, Eva: rules in Scheme inside the AtomSpace.
- Hebbian creation and updating, forgetting; the system activity table; the
  publisher of AtomSpace events; the Python shell and module.
- Bindings, visualisation, vendored libraries.

These make up most of the repository's lines. What is modelled is the part in
which threads, processes or redundant structures have to agree.

## 6. Plan

Done: the request path with its refinement; the shell; the agent runners; the
modules and the life of the server; the time server; the two sides of the
distributed miner; the miner's threads; the STI economy; and every invariant and
action property of the passing runs for every value of the constants. Next, in this
order:

1. Action properties beside `WorkerOwnsAgents`: a node of the miner never loses its
   key or its count, a request never goes back to an earlier state.
2. The event queue of the AtomSpace publisher, the activity table, the Hebbian
   agents.
