--------------------------- MODULE ServerModules ---------------------------
(***************************************************************************)
(* The life of a CogServer that scheme starts and stops, and the modules   *)
(* loaded into it.                                                         *)
(*                                                                         *)
(*   CogServerSCM.cc: start_server and stop_server, on the scheme thread;  *)
(*   CogServer.cc: serverLoop, stop, loadModules, loadModule,              *)
(*     unloadModule and ~CogServer;                                        *)
(*   Registry.h: the factories of requests and agents;                     *)
(*   the constructors, init() and destructors of the modules.              *)
(*                                                                         *)
(* Any module file may be loaded, among them one that lacks a symbol and a *)
(* second file with the id of another.  The thread of a connection looks a *)
(* command up in the registry, makes the request and queues it; the main   *)
(* loop executes it, or a connection that has sent a shell command and     *)
(* drains the queue itself (ConsoleRequests has the rest of that path).    *)
(* These threads are detached: neither the end of the network server nor   *)
(* that of the server stops them, so that commands are executed beside     *)
(* ~CogServer, and beside loadModules when the server is started again.    *)
(* No lock guards the module map and the registries there: to load or to   *)
(* delete one module is one step, and what a data race inside such a step  *)
(* could do besides is not modelled.  A module object is a number, so that *)
(* one deleted and one loaded later are told apart.                        *)
(***************************************************************************)
EXTENDS Naturals, Sequences

CONSTANTS
  Consoles,    \* the connections
  Broken,      \* a library without the symbols of a module
  Absent,      \* names of files that are not there
  Configured,  \* the MODULES of the configuration, in order
  MaxLines,    \* bound: commands the consoles send in all
  MaxStarts    \* bound: calls of start_server

ASSUME ModulesAssumption == {MaxLines, MaxStarts} \subseteq Nat \ {0}

(* Some of the modules of this repository, by file, with their ids; "copy"  *)
(* is libattention.so under another name.                                   *)
Files == {"libbuiltinreqs.so", "libattention.so", "copy.so", "libscheme-shell.so"}
Ids == {"opencog::BuiltinRequestsModule", "opencog::AttentionModule", "opencog::SchemeShellModule"}
Keys == Files \cup Ids

FileNames == Keys \cup Absent \cup {Broken}

ASSUME ConfiguredAssumption ==
  /\ Configured \in Seq(FileNames)
  /\ Broken \notin Keys
  /\ Absent \cap Keys = {}

IdOf(f) ==
  CASE f = "libbuiltinreqs.so" -> "opencog::BuiltinRequestsModule"
    [] f \in {"libattention.so", "copy.so"} -> "opencog::AttentionModule"
    [] f = "libscheme-shell.so" -> "opencog::SchemeShellModule"

(* What the constructor and init() of a module register: a factory is a     *)
(* member of the module object.                                             *)
Registers(f) ==
  CASE IdOf(f) = "opencog::BuiltinRequestsModule" ->
         {<<"request", "loadmodule">>, <<"request", "unloadmodule">>, <<"request", "shutdown">>}
    [] IdOf(f) = "opencog::AttentionModule" ->
         {<<"request", "start-ecan">>, <<"agent", "diffusion">>, <<"agent", "rent">>}
    [] IdOf(f) = "opencog::SchemeShellModule" -> {<<"request", "scm">>}

(* Mutant: the command is left in the registry. *)
UnregistersAgentsOnly(f) ==
  IF IdOf(f) = "opencog::BuiltinRequestsModule" THEN Registers(f)
  ELSE {n \in Registers(f) : n[1] = "agent"}

(* ~AttentionModule leaves the two rent agents.                             *)
Unregisters(f) ==
  CASE IdOf(f) = "opencog::BuiltinRequestsModule" -> Registers(f)
    [] IdOf(f) = "opencog::AttentionModule" -> {<<"request", "start-ecan">>, <<"agent", "diffusion">>}
    [] IdOf(f) = "opencog::SchemeShellModule" -> Registers(f)

Names == UNION {Registers(f) : f \in Files}
Commands == {n[2] : n \in {m \in Names : m[1] = "request"}}

(* The commands whose requests are shells (Request::isShell).               *)
Shells == {"scm"}

(* The order of the keys in a std::map.                                     *)
KeyOrder == <<"copy.so", "libattention.so", "libbuiltinreqs.so", "libscheme-shell.so",
  "opencog::AttentionModule", "opencog::BuiltinRequestsModule", "opencog::SchemeShellModule">>

VARIABLES
  srvr,       \* the number of CogServers made, when one exists, else 0
  starts,     \* how many were made
  scheme,     \* the scheme thread: "idle", "loading" in start_server,
              \* "joining" and then "unloading" in stop_server
  todo,       \* the module files it has to load yet, or the keys to look at
  moduleKeys, \* the keys ~CogServer has collected: key -> the module object
              \* it led to, 0 when there was no such key
  loop,       \* the main loop's thread: "none", "started", "test",
              \* "step" in runLoopStep, "ended"
  running,
  modules,    \* key -> the module object it leads to, 0 for none
  objects,    \* the module objects made: [file, deleted]
  libraries,  \* file -> how often it is open
  factories,  \* name -> the module object its factory is in, 0 for none
  requestQueue,
  found,      \* connection -> the request it is about to make, if any: the
              \* factory it has found is in .object
  draining,   \* the connections in processRequests
  lines,      \* how many commands were sent
  left        \* the module objects that were left when their server was
              \* deleted (history)

lifecycle == <<srvr, starts, scheme, todo, moduleKeys, loop, running>>
loaded == <<modules, objects, libraries, factories>>
consoles == <<requestQueue, found, draining, lines>>
vars == <<lifecycle, loaded, consoles, left>>

Init ==
  /\ srvr = 0
  /\ starts = 0
  /\ scheme = "idle"
  /\ todo = <<>>
  /\ moduleKeys = [k \in Keys |-> 0]
  /\ loop = "none"
  /\ running = FALSE
  /\ modules = [k \in Keys |-> 0]
  /\ objects = <<>>
  /\ libraries = [f \in Files \cup {Broken} |-> 0]
  /\ factories = [n \in Names |-> 0]
  /\ requestQueue = <<>>
  /\ found = [k \in Consoles |-> <<>>]
  /\ draining = {}
  /\ lines = 0
  /\ left = {}

----------------------------------------------------------------------------
(* Loading and unloading, as functions of the state they change.            *)
State == [modules |-> modules, objects |-> objects, libraries |-> libraries, factories |-> factories]

Becomes(s) ==
  /\ modules' = s.modules
  /\ objects' = s.objects
  /\ libraries' = s.libraries
  /\ factories' = s.factories

(* map::insert: a name that is registered keeps its factory.                *)
register(fs, names, o) == [n \in Names |-> IF n \in names /\ fs[n] = 0 THEN o ELSE fs[n]]

(* map::erase, whoever registered the name.                                 *)
unregister(fs, names) == [n \in Names |-> IF n \in names THEN 0 ELSE fs[n]]

(* loadModule: a key that is there already, an id too, means it is loaded.  *)
(* A library without the symbols stays open.                                *)
loadModule(s, f) ==
  LET o == Len(s.objects) + 1 IN
  CASE f \in Keys /\ s.modules[f] # 0 -> s
    [] f = Broken -> [s EXCEPT !.libraries[f] = @ + 1]
    [] f \in Files /\ s.modules[f] = 0 ->
         [modules |-> [s.modules EXCEPT ![IdOf(f)] = o, ![f] = o],
          objects |-> Append(s.objects, [file |-> f, deleted |-> 0]),
          libraries |-> [s.libraries EXCEPT ![f] = @ + 1],
          factories |-> register(s.factories, Registers(f), o)]
    [] OTHER -> s   \* no such file

(* Mutant: the entry under the id is forgotten. *)
EraseEntriesFileOnly(ms, f) == [ms EXCEPT ![f] = 0]

(* The two entries of a module are erased, one with the file name as key    *)
(* and one with the id.                                                     *)
EraseEntries(ms, f) == [ms EXCEPT ![f] = 0, ![IdOf(f)] = 0]

(* The module's unload function deletes the object, its destructor          *)
(* unregisters.                                                             *)
Delete(s, k) ==
  LET o == s.modules[k]
      f == s.objects[o].file
  IN [s EXCEPT !.modules = EraseEntries(@, f),
               !.objects[o].deleted = @ + 1,
               !.factories = unregister(@, Unregisters(f))]

unloadModule(s, k) ==
  IF k \notin Keys \/ s.modules[k] = 0 THEN s
  ELSE [Delete(s, k) EXCEPT !.libraries[s.objects[s.modules[k]].file] = @ - 1]

----------------------------------------------------------------------------
(* The scheme thread.                                                       *)

(* The server is made; loadModules goes through the configuration.          *)
start_server ==
  /\ scheme = "idle"
  /\ srvr = 0
  /\ starts < MaxStarts
  /\ starts' = starts + 1
  /\ srvr' = starts'
  /\ scheme' = "loading"
  /\ todo' = Configured
  /\ running' = FALSE
  /\ UNCHANGED <<moduleKeys, loop, loaded, consoles, left>>

(* A module that cannot be loaded is reported, the next one is tried.       *)
LoadNext ==
  /\ scheme = "loading"
  /\ todo # <<>>
  /\ todo' = Tail(todo)
  /\ Becomes(loadModule(State, Head(todo)))
  /\ UNCHANGED <<srvr, starts, scheme, moduleKeys, loop, running, consoles, left>>

(* The network server is enabled and the main loop's thread made.           *)
StartLoop ==
  /\ scheme = "loading"
  /\ todo = <<>>
  /\ scheme' = "idle"
  /\ loop' = "started"
  /\ UNCHANGED <<srvr, starts, todo, moduleKeys, running, loaded, consoles, left>>

stop_server ==
  /\ scheme = "idle"
  /\ srvr # 0
  /\ running' = FALSE
  /\ scheme' = "joining"
  /\ UNCHANGED <<srvr, starts, todo, moduleKeys, loop, loaded, consoles, left>>

(* Mutant: the modules are gone through by their ids. *)
JoinAndDeleteById ==
  /\ scheme = "joining"
  /\ loop = "ended"
  /\ loop' = "none"
  /\ scheme' = "unloading"
  /\ todo' = SubSeq(KeyOrder, 5, 7)
  /\ moduleKeys' = modules
  /\ UNCHANGED <<srvr, starts, running, loaded, consoles, left>>

(* The thread is joined, the network server disabled, which stops only its  *)
(* listener, and ~CogServer begins: it collects the keys.                   *)
JoinAndDelete ==
  /\ scheme = "joining"
  /\ loop = "ended"
  /\ loop' = "none"
  /\ scheme' = "unloading"
  /\ todo' = KeyOrder
  /\ moduleKeys' = modules
  /\ UNCHANGED <<srvr, starts, running, loaded, consoles, left>>

(* A key that was collected is looked up again: its module may have gone    *)
(* with another key, or by a command.  No library is closed.                *)
UnloadNext ==
  LET k == Head(todo) IN
  /\ scheme = "unloading"
  /\ todo # <<>>
  /\ todo' = Tail(todo)
  /\ Becomes(IF moduleKeys[k] # 0 /\ modules[k] # 0 THEN Delete(State, k) ELSE State)
  /\ UNCHANGED <<srvr, starts, scheme, moduleKeys, loop, running, consoles, left>>

(* The module map, the registries and the queue are members of the server;  *)
(* the modules and requests they lead to are left as they are.  A           *)
(* connection in the midst of a command goes on with a server that is gone: *)
(* the model ends the command here.                                         *)
DeleteServer ==
  /\ scheme = "unloading"
  /\ todo = <<>>
  /\ scheme' = "idle"
  /\ srvr' = 0
  /\ modules' = [k \in Keys |-> 0]
  /\ factories' = [n \in Names |-> 0]
  /\ requestQueue' = <<>>
  /\ found' = [k \in Consoles |-> <<>>]
  /\ draining' = {}
  /\ left' = left \cup {o \in DOMAIN objects : objects[o].deleted = 0}
  /\ UNCHANGED <<starts, todo, moduleKeys, loop, running, objects, libraries, lines>>

----------------------------------------------------------------------------
(* The threads of the connections.                                          *)

Args(c) ==
  CASE c = "loadmodule" -> Keys \cup {Broken}
    [] c = "unloadmodule" -> Keys
    [] OTHER -> {"none"}

(* The factory of a command is found in the registry.  Before the network   *)
(* server is first enabled there are no connections; they outlive it.       *)
OnLine(k, c, arg) ==
  /\ srvr # 0
  /\ scheme = "loading" => starts > 1
  /\ found[k] = <<>>
  /\ k \notin draining
  /\ lines < MaxLines
  /\ factories[<<"request", c>>] # 0
  /\ lines' = lines + 1
  /\ found' = [found EXCEPT ![k] =
       <<[command |-> c, arg |-> arg, object |-> factories[<<"request", c>>]]>>]
  /\ UNCHANGED <<lifecycle, loaded, requestQueue, draining, left>>

(* The factory makes the request, whether or not its module is still there, *)
(* and it is pushed; after a shell command the connection drains the queue. *)
CreateRequest(k) ==
  /\ found[k] # <<>>
  /\ requestQueue' = requestQueue \o found[k]
  /\ found' = [found EXCEPT ![k] = <<>>]
  /\ draining' = IF Head(found[k]).command \in Shells THEN draining \cup {k} ELSE draining
  /\ UNCHANGED <<lifecycle, loaded, lines, left>>

(* processRequests: the first request is popped and executed.  One whose    *)
(* module has been deleted meanwhile is executed all the same.  The mutex   *)
(* of processRequests keeps two executions apart; which of the threads that *)
(* wait for it takes the next request is left open.                         *)
Execute ==
  LET r == Head(requestQueue) IN
  /\ requestQueue # <<>>
  /\ requestQueue' = Tail(requestQueue)
  /\ CASE r.command = "loadmodule" -> Becomes(loadModule(State, r.arg)) /\ UNCHANGED running
       [] r.command = "unloadmodule" -> Becomes(unloadModule(State, r.arg)) /\ UNCHANGED running
       [] r.command = "shutdown" -> running' = FALSE /\ UNCHANGED loaded
       [] OTHER -> UNCHANGED <<loaded, running>>
  /\ UNCHANGED <<srvr, starts, scheme, todo, moduleKeys, loop, found, draining, lines, left>>

ConsoleExecutes(k) == k \in draining /\ Execute

ConsoleReturns(k) ==
  /\ k \in draining
  /\ requestQueue = <<>>
  /\ draining' = draining \ {k}
  /\ UNCHANGED <<lifecycle, loaded, requestQueue, found, lines, left>>

Console(k) ==
  \/ \E c \in Commands : \E arg \in Args(c) : OnLine(k, c, arg)
  \/ CreateRequest(k)
  \/ ConsoleExecutes(k)
  \/ ConsoleReturns(k)

----------------------------------------------------------------------------
(* The main loop.                                                           *)

(* for (running = true; ...): a stop() that came before is overwritten.     *)
EnterLoop ==
  /\ loop = "started"
  /\ loop' = "test"
  /\ running' = TRUE
  /\ UNCHANGED <<srvr, starts, scheme, todo, moduleKeys, loaded, consoles, left>>

(* Mutant: the flag is not tested. *)
LoopTestNever ==
  /\ loop = "test"
  /\ loop' = "step"
  /\ UNCHANGED <<srvr, starts, scheme, todo, moduleKeys, running, loaded, consoles, left>>

LoopTest ==
  /\ loop = "test"
  /\ loop' = IF running THEN "step" ELSE "ended"
  /\ UNCHANGED <<srvr, starts, scheme, todo, moduleKeys, running, loaded, consoles, left>>

ExecuteRequest == loop = "step" /\ Execute

EndStep ==
  /\ loop = "step"
  /\ requestQueue = <<>>
  /\ loop' = "test"
  /\ UNCHANGED <<srvr, starts, scheme, todo, moduleKeys, running, loaded, consoles, left>>

MainLoop == EnterLoop \/ LoopTest \/ ExecuteRequest \/ EndStep

SchemeRunsOn == LoadNext \/ StartLoop \/ JoinAndDelete \/ UnloadNext \/ DeleteServer

Next ==
  \/ start_server
  \/ stop_server
  \/ SchemeRunsOn
  \/ \E k \in Consoles : Console(k)
  \/ MainLoop

(* The main loop's thread and a call of start_server or stop_server run on; *)
(* nobody has to type anything.                                             *)
Spec == Init /\ [][Next]_vars /\ WF_vars(MainLoop) /\ WF_vars(SchemeRunsOn)

----------------------------------------------------------------------------
(* Properties. *)

Objects == DOMAIN objects
Alive(o) == o \in Objects /\ objects[o].deleted = 0

(* The variables keep the shapes CogServer.h declares; a library is never   *)
(* closed more often than it was opened.                                    *)
LifecycleOK ==
  /\ srvr \in 0 .. starts
  /\ starts \in 0 .. MaxStarts
  /\ scheme \in {"idle", "loading", "joining", "unloading"}
  /\ todo \in Seq(FileNames)
  /\ loop \in {"none", "started", "test", "step", "ended"}
  /\ running \in BOOLEAN

LoadedOK ==
  /\ modules \in [Keys -> 0 .. Len(objects)]
  /\ objects \in Seq([file : Files, deleted : Nat])
  /\ libraries \in [Files \cup {Broken} -> Nat]
  /\ factories \in [Names -> 0 .. Len(objects)]
  /\ moduleKeys \in [Keys -> 0 .. Len(objects)]
  /\ left \subseteq Objects

Requests == [command : Commands, arg : Keys \cup {Broken, "none"}, object : Objects]

QueueOK ==
  /\ requestQueue \in Seq(Requests)
  /\ found \in [Consoles -> Seq(Requests)]
  /\ draining \subseteq Consoles
  /\ lines \in 0 .. MaxLines

TypeOK == LifecycleOK /\ LoadedOK /\ QueueOK

(* Both keys of the module map are kept by hand.  A key never leads to a    *)
(* deleted module or to one of an earlier server, and a module loaded into  *)
(* this server is always found by its file name, with its library open,     *)
(* also when another file had the same id and its entry was overwritten or  *)
(* erased with the other's, and when a command came in between the steps of *)
(* loadModules or ~CogServer.                                               *)
MapMatchesModules ==
  /\ \A k \in Keys : modules[k] # 0 =>
       /\ Alive(modules[k])
       /\ modules[k] \notin left
       /\ k \in {objects[modules[k]].file, IdOf(objects[modules[k]].file)}
  /\ \A o \in Objects \ left : Alive(o) =>
       modules[objects[o].file] = o /\ libraries[objects[o].file] > 0

(* A module has two keys, ~CogServer goes through the keys it has collected *)
(* and connections may load and unload meanwhile: still no module is        *)
(* deleted twice, and each that was loaded when the keys were collected has *)
(* been deleted when the server is gone.                                    *)
DeletedOnce ==
  /\ \A o \in Objects : objects[o].deleted <= 1
  /\ srvr = 0 => \A k \in Keys : moduleKeys[k] # 0 => objects[moduleKeys[k]].deleted = 1

(* A factory is a member of a module object.  Whatever was loaded and       *)
(* unloaded, by whom and in whichever order, the registry never leads a     *)
(* command to the factory of a module that has been deleted.                *)
RequestFactoriesAlive ==
  \A n \in Names : n[1] = "request" /\ factories[n] # 0 => Alive(factories[n])

(* A stop() that the running main loop can see ends it, and stop_server     *)
(* returns and deletes the server.                                          *)
StopObeyed ==
  (scheme = "joining" /\ loop \in {"test", "step"} /\ ~running) ~> (srvr = 0)

(* CogServer.h says of stop(): "Interrupts the main loop. Note that the     *)
(* loop will only exit after the current interaction is finished."          *)
StopServerReturns == (scheme = "joining") ~> (scheme = "idle")

(* Request.h asks every module to unregister what it has registered, and    *)
(* CogServer.h leaves the factories to the modules: "the caller owns the    *)
(* factory instance".  So none may be in the registry after its module.     *)
FactoriesAlive == \A n \in Names : factories[n] # 0 => Alive(factories[n])

(* ~CogServer "unload[s] all modules" (CogServer.cc:90), after              *)
(* disableNetworkServer, which "closes all the open server sockets"         *)
(* (CogServer.h:225): no module may be left when the server is gone.        *)
NoneLeft == left = {}

(* Registry::create finds a factory and then calls it: the module it is a   *)
(* member of must still be there.                                           *)
FoundFactoryAlive ==
  \A k \in Consoles : found[k] # <<>> => Alive(Head(found[k]).object)
=============================================================================
