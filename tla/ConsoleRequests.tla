------------------------- MODULE ConsoleRequests -------------------------
(***************************************************************************)
(* The request path of the CogServer: the listener thread that accepts     *)
(* connections, the thread per connection that reads command lines, the    *)
(* queue of requests they feed, the server's main loop that drains it, and *)
(* the use count that keeps a ConsoleSocket alive while a request still    *)
(* points to it.                                                           *)
(*                                                                         *)
(* A step is what one thread does between two points where another thread  *)
(* can tell the difference: a locked region, a queue operation, a blocking *)
(* call.                                                                   *)
(***************************************************************************)
EXTENDS Integers, Sequences, FiniteSets

CONSTANTS
    Consoles,    \* the connections clients make, each served once
    MaxOpen,     \* ConsoleSocket::_max_open_sockets
    MaxLines,    \* bound: command lines read from one connection
    Commands,    \* the kinds of line a client may send
    Main,        \* the thread that runs CogServer::serverLoop
    None         \* no thread, no console, no request

AllCommands == {"ignored", "plain", "shell", "exit", "shutdown", "eot"}

RequestId == 1..MaxLines
RequestKinds == {"plain", "shell", "exit", "shutdown"}
Request == [con: Consoles, n: RequestId, kind: RequestKinds]

ASSUME ConsoleAssumption ==
    /\ IsFiniteSet(Consoles)
    /\ Main \notin Consoles
    /\ None \notin Consoles \cup {Main} \cup Request
    /\ MaxOpen \in Nat \ {0}
    /\ MaxLines \in Nat
    /\ Commands \subseteq AllCommands

VARIABLES
    hpc,         \* per console: where the thread in handle_connection is
    eof,         \* per console: the read loop has ended
    sock,        \* per console: its TCP socket is "none", "open" or "closed"
    peerClosed,  \* per console: the client has closed its end
    lines,       \* per console: requests made so far
    useCount,    \* per console: _use_count
    shell,       \* per console: _shell is set
    wantShell,   \* per console, history: the client's lines entered a shell
    numOpen,     \* _num_open_sockets
    accepting,   \* console the listener thread is constructing, or None
    req,         \* state of each Request object, by console and number
    queue,       \* requestQueue
    mutex,       \* owner of processRequestsMutex, or None
    cur,         \* the request being executed, or None
    stage,       \* how far its execution has come
    mpc,         \* where the thread in serverLoop is
    running,     \* CogServer::running
    stopped      \* history: stop() has been called

consoleVars == <<hpc, eof, sock, peerClosed, lines, shell, wantShell>>
slotVars == <<numOpen, accepting>>
queueVars == <<useCount, req, queue>>
execVars == <<mutex, cur, stage>>
serverVars == <<mpc, running, stopped>>
vars == <<consoleVars, slotVars, queueVars, execVars, serverVars>>

\* A Request object still holds its console when its _console is not null.
Holding == {"queued", "executing"}
Holders(c) == {n \in RequestId : req[c][n] \in Holding}

Destroying == {"dtorShell", "dtorSlot", "dtorSocket", "freed"}

Init ==
    /\ hpc = [c \in Consoles |-> "none"]
    /\ eof = [c \in Consoles |-> FALSE]
    /\ sock = [c \in Consoles |-> "none"]
    /\ peerClosed = [c \in Consoles |-> FALSE]
    /\ lines = [c \in Consoles |-> 0]
    /\ useCount = [c \in Consoles |-> 0]
    /\ shell = [c \in Consoles |-> FALSE]
    /\ wantShell = [c \in Consoles |-> FALSE]
    /\ numOpen = 0
    /\ accepting = None
    /\ req = [c \in Consoles |-> [n \in RequestId |-> "none"]]
    /\ queue = <<>>
    /\ mutex = None
    /\ cur = None
    /\ stage = "none"
    /\ mpc = "init"
    /\ running = FALSE
    /\ stopped = FALSE

----------------------------------------------------------------------------
(* The listener thread, NetworkServer::listen, and the ConsoleSocket       *)
(* constructor it runs: at most one console is under construction.         *)

\* _acceptor.accept() returns a connected socket.
Accept(c) ==
    /\ accepting = None
    /\ hpc[c] = "none"
    /\ accepting' = c
    /\ hpc' = [hpc EXCEPT ![c] = "accepted"]
    /\ sock' = [sock EXCEPT ![c] = "open"]
    /\ UNCHANGED <<eof, peerClosed, lines, shell, wantShell, numOpen>>
    /\ UNCHANGED <<queueVars, execVars, serverVars>>

\* The constructor counts the socket before it waits for a free slot.
CountSocket(c) ==
    /\ hpc[c] = "accepted"
    /\ numOpen' = numOpen + 1
    /\ hpc' = [hpc EXCEPT ![c] = "waiting"]
    /\ UNCHANGED <<eof, sock, peerClosed, lines, shell, wantShell, accepting>>
    /\ UNCHANGED <<queueVars, execVars, serverVars>>

\* Mutant: the comparison with the limit is off by one.
SlotFreeOffByOne == numOpen <= MaxOpen + 1

\* The condition the constructor waits for on _max_cv.
SlotFree == numOpen <= MaxOpen

\* The wait on _max_cv is over; the connection gets its own thread.
StartHandler(c) ==
    /\ hpc[c] = "waiting"
    /\ SlotFree
    /\ hpc' = [hpc EXCEPT ![c] = "loop"]
    /\ accepting' = None
    /\ UNCHANGED <<eof, sock, peerClosed, lines, shell, wantShell, numOpen>>
    /\ UNCHANGED <<queueVars, execVars, serverVars>>

Listener == \E c \in Consoles : Accept(c) \/ CountSocket(c) \/ StartHandler(c)

----------------------------------------------------------------------------
(* The client closes its end of the connection.                            *)

PeerClose(c) ==
    /\ sock[c] = "open"
    /\ ~peerClosed[c]
    /\ peerClosed' = [peerClosed EXCEPT ![c] = TRUE]
    /\ UNCHANGED <<hpc, eof, sock, lines, shell, wantShell>>
    /\ UNCHANGED <<slotVars, queueVars, execVars, serverVars>>

----------------------------------------------------------------------------
(* The thread of one connection: ServerSocket::handle_connection calling   *)
(* ConsoleSocket::OnLine.                                                  *)

AfterLine(c) == IF eof[c] THEN "dtor" ELSE "loop"

\* No complete line is buffered: block in recv() on the open socket.
Recv(c) ==
    /\ hpc[c] = "loop"
    /\ sock[c] = "open"
    /\ hpc' = [hpc EXCEPT ![c] = "recv"]
    /\ UNCHANGED <<eof, sock, peerClosed, lines, shell, wantShell>>
    /\ UNCHANGED <<slotVars, queueVars, execVars, serverVars>>

\* Reading a socket that another thread has closed fails with
\* bad_descriptor, which the catch clause logs before looping again.
RecvError(c) ==
    /\ \/ hpc[c] = "loop" /\ sock[c] = "closed" /\ hpc' = [hpc EXCEPT ![c] = "readError"]
       \/ hpc[c] = "readError" /\ hpc' = [hpc EXCEPT ![c] = "loop"]
    /\ UNCHANGED <<eof, sock, peerClosed, lines, shell, wantShell>>
    /\ UNCHANGED <<slotVars, queueVars, execVars, serverVars>>

\* A recv() already under way returns end-of-file when either end closes.
Eof(c) ==
    /\ hpc[c] = "recv"
    /\ peerClosed[c] \/ sock[c] = "closed"
    /\ eof' = [eof EXCEPT ![c] = TRUE]
    /\ hpc' = [hpc EXCEPT ![c] = "lastLine"]
    /\ UNCHANGED <<sock, peerClosed, lines, shell, wantShell>>
    /\ UNCHANGED <<slotVars, queueVars, execVars, serverVars>>

\* Nothing is left in the buffer after end-of-file.
NoLastLine(c) ==
    /\ hpc[c] = "lastLine"
    /\ hpc' = [hpc EXCEPT ![c] = "dtor"]
    /\ UNCHANGED <<eof, sock, peerClosed, lines, shell, wantShell>>
    /\ UNCHANGED <<slotVars, queueVars, execVars, serverVars>>

HasLine(c) == hpc[c] \in {"loop", "recv", "lastLine"}

\* OnLine in shell mode hands the line to the shell; end-of-transmission
\* makes the shell call SetShell(nullptr) and delete itself.
OnShellLine(c, k) ==
    /\ HasLine(c)
    /\ shell[c]
    /\ k \in {"plain", "eot"}
    /\ shell' = [shell EXCEPT ![c] = (k # "eot")]
    /\ wantShell' = [wantShell EXCEPT ![c] = (k # "eot")]
    /\ hpc' = [hpc EXCEPT ![c] = AfterLine(c)]
    /\ UNCHANGED <<eof, sock, peerClosed, lines>>
    /\ UNCHANGED <<slotVars, queueVars, execVars, serverVars>>

\* A blank line, a telnet negotiation, or an unknown command when there is
\* no help request: only a prompt is sent.
OnIgnoredLine(c, k) ==
    /\ HasLine(c)
    /\ ~shell[c]
    /\ k = "ignored"
    /\ hpc' = [hpc EXCEPT ![c] = AfterLine(c)]
    /\ UNCHANGED <<eof, sock, peerClosed, lines, shell, wantShell>>
    /\ UNCHANGED <<slotVars, queueVars, execVars, serverVars>>

\* Mutant: set_console() does not count the use.
HoldUncounted(c, n) ==
    /\ UNCHANGED useCount
    /\ req' = [req EXCEPT ![c][n] = "queued"]

\* Request::set_console(con) before the push: the console is got.
Hold(c, n) ==
    /\ useCount' = [useCount EXCEPT ![c] = @ + 1]
    /\ req' = [req EXCEPT ![c][n] = "queued"]

\* Mutant: the queue is left to the main loop.
DrainsAtOnceNever(kind) == FALSE

\* Request::isShell(), asked before the push.
DrainsAtOnce(kind) == kind = "shell"

\* A command becomes a Request that holds the console and is queued. The
\* thread goes on to drain the queue itself when the command is a shell.
\* End-of-transmission outside a shell is the command bound to do_ctrld. A
\* line that opens a parenthesis is the command "scm" and then, in shell
\* mode, a line for that shell.
OnCommand(c, k) ==
    LET n == lines[c] + 1
        kind == IF k = "eot" THEN "exit" ELSE k
    IN  /\ HasLine(c)
        /\ ~shell[c]
        /\ k # "ignored"
        /\ lines[c] < MaxLines
        /\ lines' = [lines EXCEPT ![c] = n]
        /\ Hold(c, n)
        /\ queue' = Append(queue, [con |-> c, n |-> n, kind |-> kind])
        /\ wantShell' = [wantShell EXCEPT ![c] = (kind = "shell")]
        /\ hpc' = [hpc EXCEPT ![c] = IF DrainsAtOnce(kind) THEN "drain" ELSE AfterLine(c)]
        /\ UNCHANGED <<eof, sock, peerClosed, shell>>
        /\ UNCHANGED <<slotVars, execVars, serverVars>>

OnLine(c, k) == OnShellLine(c, k) \/ OnIgnoredLine(c, k) \/ OnCommand(c, k)

----------------------------------------------------------------------------
(* CogServer::processRequests, run by the main loop and by a connection's  *)
(* thread that has queued a shell request.                                 *)

Drains(t) == IF t = Main THEN mpc = "drain" ELSE hpc[t] = "drain"

\* Thread t is in the locked region.
Owns(t) == Drains(t) /\ mutex = t

LockRequests(t) ==
    /\ Drains(t)
    /\ mutex = None
    /\ mutex' = t
    /\ UNCHANGED <<consoleVars, slotVars, queueVars, cur, stage, serverVars>>

\* Mutant: requests are taken from the wrong end.
PopRequestNewest(t) ==
    /\ Owns(t)
    /\ cur = None
    /\ queue # <<>>
    /\ cur' = queue[Len(queue)]
    /\ queue' = SubSeq(queue, 1, Len(queue) - 1)
    /\ req' = [req EXCEPT ![queue[Len(queue)].con][queue[Len(queue)].n] = "executing"]
    /\ stage' = "execute"
    /\ UNCHANGED <<consoleVars, slotVars, useCount, mutex, serverVars>>

\* popRequest() takes the oldest request.
PopRequest(t) ==
    /\ Owns(t)
    /\ cur = None
    /\ queue # <<>>
    /\ cur' = Head(queue)
    /\ queue' = Tail(queue)
    /\ req' = [req EXCEPT ![Head(queue).con][Head(queue).n] = "executing"]
    /\ stage' = "execute"
    /\ UNCHANGED <<consoleVars, slotVars, useCount, mutex, serverVars>>

\* The queue is empty: leave the locked region and go on.
UnlockRequests(t) ==
    /\ Owns(t)
    /\ cur = None
    /\ queue = <<>>
    /\ mutex' = None
    /\ IF t = Main
       THEN mpc' = "agents" /\ UNCHANGED hpc
       ELSE hpc' = [hpc EXCEPT ![t] = AfterLine(t)] /\ UNCHANGED mpc
    /\ UNCHANGED <<eof, sock, peerClosed, lines, shell, wantShell>>
    /\ UNCHANGED <<slotVars, queueVars, cur, stage, running, stopped>>

----------------------------------------------------------------------------
(* Request::execute and ~Request, by kind of request, in the thread that   *)
(* holds the mutex.                                                        *)

Executing(t, k, s) == Owns(t) /\ cur # None /\ cur.kind = k /\ stage = s

\* ServerSocket::SetCloseAndDelete: when the client is gone shutdown() may
\* throw not_connected, and then close() is skipped.
CloseSocket(c) ==
    \/ sock' = [sock EXCEPT ![c] = "closed"]
    \/ peerClosed[c] /\ UNCHANGED sock

\* Mutant: the console is never put back.
ReleaseKept(c, n) ==
    /\ UNCHANGED useCount
    /\ req' = [req EXCEPT ![c][n] = "released"]

\* Request::set_console(nullptr) or ~Request: the console is put() back.
Release(c, n) ==
    /\ useCount' = [useCount EXCEPT ![c] = @ - 1]
    /\ req' = [req EXCEPT ![c][n] = "released"]

\* A command that only computes and sends an answer.
ExecutePlain(t) ==
    /\ Executing(t, "plain", "execute")
    /\ stage' = "delete"
    /\ UNCHANGED <<consoleVars, slotVars, queueVars, mutex, cur, serverVars>>

\* shelloutRequest::execute: set_socket() calls SetShell().
ExecuteShell(t) ==
    /\ Executing(t, "shell", "execute")
    /\ shell' = [shell EXCEPT ![cur.con] = TRUE]
    /\ stage' = "delete"
    /\ UNCHANGED <<hpc, eof, sock, peerClosed, lines, wantShell>>
    /\ UNCHANGED <<slotVars, queueVars, mutex, cur, serverVars>>

\* do_exit: close the socket, then let go of the console.
ExecuteExit(t) ==
    /\ Executing(t, "exit", "execute")
    /\ CloseSocket(cur.con)
    /\ stage' = "release"
    /\ UNCHANGED <<hpc, eof, peerClosed, lines, shell, wantShell>>
    /\ UNCHANGED <<slotVars, queueVars, mutex, cur, serverVars>>

ReleaseAfterExit(t) ==
    /\ Executing(t, "exit", "release")
    /\ Release(cur.con, cur.n)
    /\ stage' = "delete"
    /\ UNCHANGED <<consoleVars, slotVars, queue, mutex, cur, serverVars>>

\* ShutdownRequest::execute: stop the server, let go of the console ...
ExecuteShutdown(t) ==
    /\ Executing(t, "shutdown", "execute")
    /\ running' = FALSE
    /\ stopped' = TRUE
    /\ Release(cur.con, cur.n)
    /\ stage' = "exit"
    /\ UNCHANGED <<consoleVars, slotVars, queue, mutex, cur, mpc>>

\* ... and then close the socket of the console it no longer holds.
ExitAfterShutdown(t) ==
    /\ Executing(t, "shutdown", "exit")
    /\ CloseSocket(cur.con)
    /\ stage' = "delete"
    /\ UNCHANGED <<hpc, eof, peerClosed, lines, shell, wantShell>>
    /\ UNCHANGED <<slotVars, queueVars, mutex, cur, serverVars>>

\* Mutant: the destructor does not look whether _console is null.
StillHoldsUnchecked(r) == TRUE

\* The _console of the request is not null.
StillHolds(r) == req[r.con][r.n] = "executing"

\* ~Request: a request that still holds its console calls
\* OnRequestComplete() and put().
DeleteRequest(t) ==
    /\ Owns(t)
    /\ cur # None
    /\ stage = "delete"
    /\ IF StillHolds(cur)
       THEN Release(cur.con, cur.n)
       ELSE UNCHANGED <<useCount, req>>
    /\ cur' = None
    /\ stage' = "none"
    /\ UNCHANGED <<consoleVars, slotVars, queue, mutex, serverVars>>

ProcessRequests(t) ==
    \/ LockRequests(t) \/ PopRequest(t) \/ UnlockRequests(t)
    \/ ExecutePlain(t) \/ ExecuteShell(t) \/ ExecuteExit(t) \/ ReleaseAfterExit(t)
    \/ ExecuteShutdown(t) \/ ExitAfterShutdown(t) \/ DeleteRequest(t)

----------------------------------------------------------------------------
(* The end of handle_connection, delete this: ~ConsoleSocket and then      *)
(* ~ServerSocket.                                                          *)

\* Mutant: the destructor does not wait.
UnusedUnchecked(c) == TRUE

\* The condition the destructor waits for on _in_use_cv.
Unused(c) == useCount[c] = 0

\* The wait on _in_use_cv until no request holds the console.
WaitUnused(c) ==
    /\ hpc[c] = "dtor"
    /\ Unused(c)
    /\ hpc' = [hpc EXCEPT ![c] = "dtorShell"]
    /\ UNCHANGED <<eof, sock, peerClosed, lines, shell, wantShell>>
    /\ UNCHANGED <<slotVars, queueVars, execVars, serverVars>>

DeleteShell(c) ==
    /\ hpc[c] = "dtorShell"
    /\ shell' = [shell EXCEPT ![c] = FALSE]
    /\ hpc' = [hpc EXCEPT ![c] = "dtorSlot"]
    /\ UNCHANGED <<eof, sock, peerClosed, lines, wantShell>>
    /\ UNCHANGED <<slotVars, queueVars, execVars, serverVars>>

ReleaseSlot(c) ==
    /\ hpc[c] = "dtorSlot"
    /\ numOpen' = numOpen - 1
    /\ hpc' = [hpc EXCEPT ![c] = "dtorSocket"]
    /\ UNCHANGED <<eof, sock, peerClosed, lines, shell, wantShell, accepting>>
    /\ UNCHANGED <<queueVars, execVars, serverVars>>

FreeSocket(c) ==
    /\ hpc[c] = "dtorSocket"
    /\ sock' = [sock EXCEPT ![c] = "closed"]
    /\ hpc' = [hpc EXCEPT ![c] = "freed"]
    /\ UNCHANGED <<eof, peerClosed, lines, shell, wantShell>>
    /\ UNCHANGED <<slotVars, queueVars, execVars, serverVars>>

Destroy(c) == WaitUnused(c) \/ DeleteShell(c) \/ ReleaseSlot(c) \/ FreeSocket(c)

ReadLoop(c) == Recv(c) \/ RecvError(c) \/ Eof(c) \/ NoLastLine(c)

Handler(c) ==
    \/ ReadLoop(c) \/ Destroy(c) \/ ProcessRequests(c)
    \/ \E k \in Commands : OnLine(c, k)

----------------------------------------------------------------------------
(* The main thread: CogServer::serverLoop calling runLoopStep.             *)

EnterLoop ==
    /\ mpc = "init"
    /\ running' = TRUE
    /\ mpc' = "loop"
    /\ UNCHANGED <<consoleVars, slotVars, queueVars, execVars, stopped>>

\* Mutant: a single waiting request is overlooked.
RequestsWaitingOffByOne == Len(queue) > 1

\* 0 < getRequestQueueSize()
RequestsWaiting == Len(queue) > 0

LoopStep ==
    /\ mpc = "loop"
    /\ mpc' = IF ~running THEN "done" ELSE IF RequestsWaiting THEN "drain" ELSE "agents"
    /\ UNCHANGED <<consoleVars, slotVars, queueVars, execVars, running, stopped>>

\* The scheduled agents run and the thread sleeps out the cycle.
AgentsAndSleep ==
    /\ mpc = "agents"
    /\ mpc' = "loop"
    /\ UNCHANGED <<consoleVars, slotVars, queueVars, execVars, running, stopped>>

ServerLoop == EnterLoop \/ LoopStep \/ AgentsAndSleep \/ ProcessRequests(Main)

----------------------------------------------------------------------------
Next ==
    \/ Listener
    \/ ServerLoop
    \/ \E c \in Consoles : PeerClose(c) \/ Handler(c)

\* Every thread keeps being scheduled. Nothing obliges a client to connect,
\* to send another line or to close its end; but the bytes that precede the
\* close are finite, so recv() comes to the end of the stream.
Fairness ==
    /\ WF_vars(ServerLoop)
    /\ \A c \in Consoles :
        /\ WF_vars(CountSocket(c) \/ StartHandler(c))
        /\ SF_vars(Eof(c))
        /\ WF_vars(ReadLoop(c) \/ Destroy(c) \/ ProcessRequests(c))

Spec == Init /\ [][Next]_vars
FairSpec == Spec /\ Fairness

----------------------------------------------------------------------------
(* Properties.                                                             *)

HandlerStates ==
    {"none", "accepted", "waiting", "loop", "recv", "readError", "lastLine",
     "drain", "dtor"} \cup Destroying

\* Every variable keeps its type; in particular the unsigned _use_count and
\* _num_open_sockets are never decremented below zero.
TypeOK ==
    /\ hpc \in [Consoles -> HandlerStates]
    /\ eof \in [Consoles -> BOOLEAN]
    /\ sock \in [Consoles -> {"none", "open", "closed"}]
    /\ peerClosed \in [Consoles -> BOOLEAN]
    /\ lines \in [Consoles -> 0..MaxLines]
    /\ useCount \in [Consoles -> Nat]
    /\ shell \in [Consoles -> BOOLEAN]
    /\ wantShell \in [Consoles -> BOOLEAN]
    /\ numOpen \in Nat
    /\ accepting \in Consoles \cup {None}
    /\ req \in [Consoles -> [RequestId -> {"none", "queued", "executing", "released"}]]
    /\ queue \in Seq(Request)
    /\ mutex \in Consoles \cup {Main, None}
    /\ cur \in Request \cup {None}
    /\ stage \in {"none", "execute", "release", "exit", "delete"}
    /\ mpc \in {"init", "loop", "drain", "agents", "done"}
    /\ running \in BOOLEAN
    /\ stopped \in BOOLEAN

\* The use count of a console is the number of requests that point to it
\* (ConsoleSocket::get and put, called from three places in Request).
UseCountExact == \A c \in Consoles : useCount[c] = Cardinality(Holders(c))

\* No request points to a console whose destructor has passed its wait: the
\* promise ConsoleSocket.h makes for _use_count.
HeldConsoleAlive == \A c \in Consoles : hpc[c] \in Destroying => Holders(c) = {}

\* The requests of one console are executed one at a time, in the order its
\* lines arrived, whichever threads drain the queue.
ExecutedInOrder ==
    \A c \in Consoles : \A m, n \in RequestId :
        m < n /\ req[c][n] \in {"executing", "released"} => req[c][m] = "released"

\* A connection's thread takes its next line in the mode its earlier lines
\* put the console in, although another thread may execute the request that
\* sets the shell (the drain at the end of ConsoleSocket::OnLine).
ShellModeSynchronised ==
    \A c \in Consoles : HasLine(c) => shell[c] = wantShell[c]

Counted(c) == hpc[c] \notin {"none", "accepted", "dtorSocket", "freed"}
Served(c) == Counted(c) /\ hpc[c] # "waiting"

\* _num_open_sockets counts the consoles constructed and not destroyed, and
\* no more than _max_open_sockets of them ever have a thread.
SlotLimit ==
    /\ numOpen = Cardinality({c \in Consoles : Counted(c)})
    /\ Cardinality({c \in Consoles : Served(c)}) <= MaxOpen

\* Every request queued is executed while nobody stops the server, although
\* two kinds of thread compete for processRequestsMutex.
RequestsServed ==
    \A c \in Consoles : \A n \in RequestId :
        req[c][n] = "queued" ~> (req[c][n] = "released" \/ stopped)

\* A connection that has its thread and that the client has closed is freed,
\* requests outstanding or not: the destructor's waits end, unless the server
\* is stopped or an exit request closes the socket under the read loop.
ClosedConsoleFreed ==
    \A c \in Consoles :
        Served(c) /\ peerClosed[c]
            ~> (hpc[c] = "freed" \/ stopped \/ hpc[c] = "readError")

----------------------------------------------------------------------------
(* The inductive invariant behind these: what the Request objects, the     *)
(* queue and the request under execution have to do with each other.       *)

\* Requests are numbered as they are made.
Numbered ==
    \A c \in Consoles : \A n \in RequestId : req[c][n] = "none" <=> n > lines[c]

\* The queue holds the queued requests and no other, oldest first.
QueueExact ==
    /\ \A i \in 1..Len(queue) : req[queue[i].con][queue[i].n] = "queued"
    /\ \A c \in Consoles : \A n \in RequestId :
          req[c][n] = "queued" =>
              \E i \in 1..Len(queue) : queue[i].con = c /\ queue[i].n = n
    /\ \A i, j \in 1..Len(queue) :
          i < j /\ queue[i].con = queue[j].con => queue[i].n < queue[j].n

\* At most one request is executing, and it holds its console up to the
\* point where its code lets go of it.
CurrentExact ==
    /\ \A c \in Consoles : \A n \in RequestId :
          req[c][n] = "executing" => cur # None /\ cur.con = c /\ cur.n = n
    /\ cur # None =>
          \/ req[cur.con][cur.n] = "executing" /\ stage \in {"execute", "release", "delete"}
          \/ req[cur.con][cur.n] = "released" /\ stage \in {"exit", "delete"}

RequestInv ==
    /\ TypeOK /\ Numbered /\ QueueExact /\ CurrentExact
    /\ UseCountExact /\ HeldConsoleAlive /\ ExecutedInOrder

----------------------------------------------------------------------------
(* What the comments of the code promise and its threads do not keep.      *)

\* ConsoleSocket.h: the destructor can run only when the users of the
\* console have completed their work. ShutdownRequest::execute uses the
\* console after its put().
ExitOnLiveConsole == stage = "exit" => hpc[cur.con] # "freed"

\* ServerSocket.cc: once SetCloseAndDelete() has closed the socket, the
\* handle_connection() thread notices it and leaves its loop.
ClosedSocketNoticed ==
    \A c \in Consoles : sock[c] = "closed" ~> hpc[c] \notin {"loop", "readError"}

----------------------------------------------------------------------------
(* The service a client sees.                                              *)

Service == INSTANCE RequestService WITH
    sent <- lines,
    done <- [c \in Consoles |-> {n \in RequestId : req[c][n] = "released"}],
    gone <- [c \in Consoles |-> hpc[c] \in Destroying]

\* The threads, the queue and the use count implement RequestService.
ServiceSpec == Service!Spec

============================================================================
