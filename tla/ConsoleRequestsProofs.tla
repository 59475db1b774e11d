---------------------- MODULE ConsoleRequestsProofs ----------------------
(***************************************************************************)
(* Proofs about ConsoleRequests, for any number of connections and any     *)
(* bound on the lines read from each.                                      *)
(***************************************************************************)
EXTENDS ConsoleRequests, TLAPS, FiniteSetTheorems

\* The requests of one console are finitely many.
LEMMA HoldersFinite ==
    ASSUME NEW c \in Consoles
    PROVE  /\ IsFiniteSet(Holders(c))
           /\ Cardinality(Holders(c)) \in Nat
<1>1. IsFiniteSet(RequestId)
  BY ConsoleAssumption, FS_Interval DEF RequestId
<1>2. Holders(c) \subseteq RequestId
  BY DEF Holders
<1> QED
  BY <1>1, <1>2, FS_Subset, FS_CardinalityType

\* What set_console(con) does to the use count: it stays exact.
LEMMA HoldExact ==
    ASSUME TypeOK, UseCountExact, NEW c \in Consoles, NEW n \in RequestId,
           req[c][n] = "none", Hold(c, n)
    PROVE  /\ useCount' \in [Consoles -> Nat]
           /\ req' \in [Consoles -> [RequestId -> {"none", "queued", "executing", "released"}]]
           /\ UseCountExact'
<1>1. /\ useCount' = [useCount EXCEPT ![c] = @ + 1]
      /\ req' = [req EXCEPT ![c][n] = "queued"]
  BY DEF Hold
<1>2. Holders(c)' = Holders(c) \cup {n} /\ n \notin Holders(c)
  BY <1>1 DEF TypeOK, Holders, Holding
<1>3. \A d \in Consoles \ {c} : Holders(d)' = Holders(d)
  BY <1>1 DEF TypeOK, Holders
<1>4. Cardinality(Holders(c)') = Cardinality(Holders(c)) + 1
  BY <1>2, HoldersFinite, FS_AddElement
<1>5. UseCountExact'
  BY <1>1, <1>3, <1>4 DEF UseCountExact, TypeOK
<1> QED
  BY <1>1, <1>5 DEF TypeOK

\* What put() does to it: the count was positive and stays exact.
LEMMA ReleaseExact ==
    ASSUME TypeOK, UseCountExact, NEW c \in Consoles, NEW n \in RequestId,
           req[c][n] = "executing", Release(c, n)
    PROVE  /\ useCount' \in [Consoles -> Nat]
           /\ req' \in [Consoles -> [RequestId -> {"none", "queued", "executing", "released"}]]
           /\ UseCountExact'
<1>1. /\ useCount' = [useCount EXCEPT ![c] = @ - 1]
      /\ req' = [req EXCEPT ![c][n] = "released"]
  BY DEF Release
<1>2. Holders(c)' = Holders(c) \ {n} /\ n \in Holders(c)
  BY <1>1 DEF TypeOK, Holders, Holding
<1>3. \A d \in Consoles \ {c} : Holders(d)' = Holders(d)
  BY <1>1 DEF TypeOK, Holders
<1>4. /\ Cardinality(Holders(c)') = Cardinality(Holders(c)) - 1
      /\ IsFiniteSet(Holders(c)')
  BY <1>2, HoldersFinite, FS_RemoveElement
<1>5. Cardinality(Holders(c)') \in Nat
  BY <1>4, FS_CardinalityType
<1>6. useCount[c] - 1 \in Nat
  BY <1>4, <1>5 DEF UseCountExact
<1>7. UseCountExact'
  BY <1>1, <1>3, <1>4 DEF UseCountExact, TypeOK
<1> QED
  BY <1>1, <1>6, <1>7 DEF TypeOK

\* A console with use count zero is pointed to by no request.
LEMMA UnusedHasNoHolders ==
    ASSUME UseCountExact, NEW c \in Consoles, useCount[c] = 0
    PROVE  Holders(c) = {}
BY HoldersFinite, FS_EmptySet DEF UseCountExact

----------------------------------------------------------------------------
(* The steps of every thread preserve RequestInv.                          *)

reqVars == <<lines, useCount, req, queue, cur, stage>>

\* A step that touches neither requests nor counts, and starts a destructor
\* past its wait only with use count zero, preserves the invariant.
LEMMA QuietStep ==
    ASSUME RequestInv, TypeOK', UNCHANGED reqVars,
           \A c \in Consoles :
               hpc'[c] \in Destroying => hpc[c] \in Destroying \/ useCount[c] = 0
    PROVE  RequestInv'
<1> USE DEF RequestInv, reqVars
<1>1. Numbered' /\ QueueExact' /\ CurrentExact' /\ ExecutedInOrder'
  BY DEF Numbered, QueueExact, CurrentExact, ExecutedInOrder
<1>2. \A c \in Consoles : Holders(c)' = Holders(c)
  BY DEF Holders
<1>3. UseCountExact'
  BY <1>2 DEF UseCountExact
<1>4. HeldConsoleAlive'
  BY <1>2, UnusedHasNoHolders DEF HeldConsoleAlive
<1> QED
  BY <1>1, <1>3, <1>4

\* The listener thread and the client.
LEMMA ListenerStep ==
    ASSUME RequestInv, NEW c \in Consoles,
           Accept(c) \/ CountSocket(c) \/ StartHandler(c) \/ PeerClose(c)
    PROVE  RequestInv'
<1> USE ConsoleAssumption DEF queueVars, execVars, serverVars, slotVars
<1>1. TypeOK'
  <2> USE DEF RequestInv, TypeOK
  <2>1. CASE Accept(c)
    BY <2>1 DEF Accept, HandlerStates
  <2>2. CASE CountSocket(c)
    BY <2>2 DEF CountSocket, HandlerStates
  <2>3. CASE StartHandler(c)
    BY <2>3 DEF StartHandler, HandlerStates
  <2>4. CASE PeerClose(c)
    BY <2>4 DEF PeerClose
  <2> QED
    BY <2>1, <2>2, <2>3, <2>4
<1>2. UNCHANGED reqVars
  BY DEF reqVars, Accept, CountSocket, StartHandler, PeerClose
<1>3. \A d \in Consoles : hpc'[d] \in Destroying => hpc[d] \in Destroying
  BY DEF RequestInv, TypeOK, Destroying, Accept, CountSocket, StartHandler, PeerClose
<1> QED
  BY <1>1, <1>2, <1>3, QuietStep

\* The read loop, without the lines that become requests.
LEMMA ReadStep ==
    ASSUME RequestInv, NEW c \in Consoles, NEW k,
           ReadLoop(c) \/ OnShellLine(c, k) \/ OnIgnoredLine(c, k)
    PROVE  RequestInv'
<1> USE DEF queueVars, execVars, serverVars, slotVars, AfterLine,
            Recv, RecvError, Eof, NoLastLine, OnShellLine, OnIgnoredLine
<1>1. TypeOK'
  <2> USE DEF RequestInv, TypeOK, HandlerStates
  <2>1. CASE Recv(c)
    BY <2>1
  <2>2. CASE RecvError(c)
    <3>1. /\ hpc' \in [Consoles -> HandlerStates]
          /\ UNCHANGED <<eof, sock, peerClosed, lines, shell, wantShell>>
          /\ UNCHANGED <<slotVars, queueVars, execVars, serverVars>>
      BY <2>2
    <3> QED
      BY <3>1
  <2>3. CASE Eof(c)
    BY <2>3
  <2>4. CASE NoLastLine(c)
    BY <2>4
  <2>5. CASE OnShellLine(c, k)
    <3>1. (k # "eot") \in BOOLEAN
      OBVIOUS
    <3> QED
      BY <2>5, <3>1
  <2>6. CASE OnIgnoredLine(c, k)
    BY <2>6
  <2> QED
    BY <2>1, <2>2, <2>3, <2>4, <2>5, <2>6 DEF ReadLoop
<1>2. UNCHANGED reqVars
  BY DEF reqVars, ReadLoop
<1>3. \A d \in Consoles : hpc'[d] \in Destroying => hpc[d] \in Destroying
  BY DEF RequestInv, TypeOK, Destroying, ReadLoop
<1> QED
  BY <1>1, <1>2, <1>3, QuietStep

\* The destructor.
LEMMA DestroyStep ==
    ASSUME RequestInv, NEW c \in Consoles, Destroy(c), numOpen' \in Nat
    PROVE  RequestInv'
<1> USE DEF queueVars, execVars, serverVars, slotVars, Destroy, WaitUnused,
            DeleteShell, ReleaseSlot, FreeSocket, Unused
<1>1. TypeOK'
  <2> USE DEF RequestInv, TypeOK, HandlerStates, Destroying
  <2>1. CASE WaitUnused(c)
    BY <2>1
  <2>2. CASE DeleteShell(c)
    BY <2>2
  <2>3. CASE ReleaseSlot(c)
    BY <2>3
  <2>4. CASE FreeSocket(c)
    BY <2>4
  <2> QED
    BY <2>1, <2>2, <2>3, <2>4
<1>2. UNCHANGED reqVars
  BY DEF reqVars
<1>3. \A d \in Consoles :
          hpc'[d] \in Destroying => hpc[d] \in Destroying \/ useCount[d] = 0
  BY DEF RequestInv, TypeOK, Destroying
<1> QED
  BY <1>1, <1>2, <1>3, QuietStep

\* A line that becomes a request: its number is new, so the console gains
\* one holder, and the request is the youngest of the queue.
LEMMA CommandStep ==
    ASSUME RequestInv, NEW c \in Consoles, NEW k \in Commands, OnCommand(c, k)
    PROVE  RequestInv'
<1> DEFINE n == lines[c] + 1
           kind == IF k = "eot" THEN "exit" ELSE k
           r == [con |-> c, n |-> n, kind |-> kind]
<1>1. /\ HasLine(c) /\ lines[c] < MaxLines /\ k # "ignored"
      /\ lines' = [lines EXCEPT ![c] = n]
      /\ Hold(c, n)
      /\ queue' = Append(queue, r)
      /\ hpc' = [hpc EXCEPT ![c] = IF DrainsAtOnce(kind) THEN "drain" ELSE AfterLine(c)]
      /\ wantShell' = [wantShell EXCEPT ![c] = (kind = "shell")]
      /\ UNCHANGED <<eof, sock, peerClosed, shell, slotVars, execVars, serverVars>>
  BY DEF OnCommand
<1>2. n \in RequestId /\ r \in Request
  BY <1>1, ConsoleAssumption
     DEF RequestInv, TypeOK, RequestId, Request, RequestKinds, AllCommands
<1> HIDE DEF n, kind, r
<1>3. req[c][n] = "none"
  BY <1>1, <1>2 DEF n, RequestInv, Numbered, TypeOK, RequestId
<1>4. /\ useCount' \in [Consoles -> Nat]
      /\ req' \in [Consoles -> [RequestId -> {"none", "queued", "executing", "released"}]]
      /\ UseCountExact'
  BY <1>1, <1>2, <1>3, HoldExact DEF RequestInv
<1>5. TypeOK'
  <2>1. lines' \in [Consoles -> 0..MaxLines]
    BY <1>1, ConsoleAssumption DEF n, RequestInv, TypeOK
  <2>2. queue' \in Seq(Request)
    BY <1>1, <1>2 DEF RequestInv, TypeOK
  <2>3. hpc' \in [Consoles -> HandlerStates]
    BY <1>1 DEF RequestInv, TypeOK, HandlerStates, AfterLine
  <2>4. (kind = "shell") \in BOOLEAN
    OBVIOUS
  <2>5. wantShell' \in [Consoles -> BOOLEAN]
    BY <1>1, <2>4 DEF RequestInv, TypeOK
  <2> QED
    BY <1>1, <1>4, <2>1, <2>2, <2>3, <2>5
       DEF RequestInv, TypeOK, slotVars, execVars, serverVars
<1>6. req' = [req EXCEPT ![c][n] = "queued"]
  BY <1>1 DEF Hold
<1>7. Numbered'
  <2>1. \A d \in Consoles \ {c} : lines'[d] = lines[d] /\ req'[d] = req[d]
    BY <1>1, <1>6 DEF RequestInv, TypeOK
  <2>2. lines'[c] = lines[c] + 1 /\ lines[c] \in Nat
    BY <1>1, ConsoleAssumption DEF n, RequestInv, TypeOK
  <2>3. \A m \in RequestId : req'[c][m] = IF m = n THEN "queued" ELSE req[c][m]
    BY <1>2, <1>6 DEF RequestInv, TypeOK
  <2>4. \A m \in RequestId : req'[c][m] = "none" <=> m > lines'[c]
    BY <2>2, <2>3 DEF n, RequestInv, Numbered, RequestId
  <2> QED
    BY <2>1, <2>4 DEF RequestInv, Numbered
<1>8. /\ Len(queue') = Len(queue) + 1
      /\ queue'[Len(queue) + 1] = r
      /\ \A i \in 1..Len(queue) : queue'[i] = queue[i] /\ queue[i] \in Request
      /\ Len(queue) \in Nat
  BY <1>1, <1>2 DEF RequestInv, TypeOK
<1>9. r.con = c /\ r.n = n
  BY DEF r
<1>10. \A i \in 1..Len(queue) : queue[i].con = c => queue[i].n < n
  <2> SUFFICES ASSUME NEW i \in 1..Len(queue), queue[i].con = c
               PROVE  queue[i].n < n
    OBVIOUS
  <2>1. queue[i].n \in RequestId /\ req[c][queue[i].n] = "queued"
    BY <1>8 DEF RequestInv, QueueExact, Request
  <2>2. ~(queue[i].n > lines[c]) /\ lines[c] \in Nat
    BY <2>1, ConsoleAssumption DEF RequestInv, Numbered, TypeOK
  <2> QED
    BY <2>1, <2>2 DEF n, RequestId
<1>11. QueueExact'
  <2>1. \A i \in 1..Len(queue') : req'[queue'[i].con][queue'[i].n] = "queued"
    <3>1. req'[c][n] = "queued"
      BY <1>2, <1>6 DEF RequestInv, TypeOK
    <3>2. \A i \in 1..Len(queue) : req'[queue[i].con][queue[i].n] = "queued"
      BY <1>2, <1>6, <1>8 DEF RequestInv, QueueExact, TypeOK, Request
    <3> QED
      BY <3>1, <3>2, <1>8, <1>9
  <2>2. ASSUME NEW d \in Consoles, NEW m \in RequestId, req'[d][m] = "queued"
        PROVE  \E i \in 1..Len(queue') : queue'[i].con = d /\ queue'[i].n = m
    <3>1. CASE d = c /\ m = n
      BY <3>1, <1>8, <1>9
    <3>2. CASE ~(d = c /\ m = n)
      <4>1. req[d][m] = "queued"
        BY <2>2, <3>2, <1>2, <1>6 DEF RequestInv, TypeOK
      <4>2. PICK i \in 1..Len(queue) : queue[i].con = d /\ queue[i].n = m
        BY <4>1 DEF RequestInv, QueueExact
      <4> QED
        BY <4>2, <1>8
    <3> QED
      BY <3>1, <3>2
  <2>3. \A i, j \in 1..Len(queue') :
            i < j /\ queue'[i].con = queue'[j].con => queue'[i].n < queue'[j].n
    BY <1>8, <1>9, <1>10 DEF RequestInv, QueueExact
  <2> QED
    BY <2>1, <2>2, <2>3 DEF QueueExact
<1>12. CurrentExact'
  BY <1>1, <1>2, <1>3, <1>6 DEF execVars, RequestInv, CurrentExact, TypeOK, Request
<1>13. HeldConsoleAlive'
  <2>1. hpc[c] \notin Destroying /\ hpc'[c] \notin Destroying
    BY <1>1 DEF HasLine, AfterLine, Destroying, RequestInv, TypeOK
  <2>2. \A d \in Consoles \ {c} : hpc'[d] = hpc[d] /\ Holders(d)' = Holders(d)
    BY <1>1, <1>6 DEF RequestInv, TypeOK, Holders
  <2> QED
    BY <2>1, <2>2 DEF RequestInv, HeldConsoleAlive
<1>14. ExecutedInOrder'
  BY <1>2, <1>3, <1>6 DEF RequestInv, TypeOK, ExecutedInOrder, RequestId
<1> QED
  BY <1>4, <1>5, <1>7, <1>11, <1>12, <1>13, <1>14 DEF RequestInv

\* Taking the oldest request: by QueueExact and CurrentExact every earlier
\* request of its console is released, and no other is executing.
LEMMA PopStep ==
    ASSUME RequestInv, NEW t \in Consoles \cup {Main}, PopRequest(t)
    PROVE  RequestInv'
<1> DEFINE r == Head(queue)
<1>1. /\ cur = None /\ queue # <<>>
      /\ cur' = r
      /\ queue' = Tail(queue)
      /\ req' = [req EXCEPT ![r.con][r.n] = "executing"]
      /\ stage' = "execute"
      /\ UNCHANGED <<consoleVars, slotVars, useCount, mutex, serverVars>>
  BY DEF PopRequest
<1>2. /\ Len(queue) \in Nat \ {0}
      /\ \A i \in 1..Len(queue) : queue[i] \in Request
      /\ r = queue[1]
  BY <1>1 DEF RequestInv, TypeOK
<1> HIDE DEF r
<1>3. /\ Len(queue') = Len(queue) - 1
      /\ \A i \in 1..Len(queue') : queue'[i] = queue[i + 1]
      /\ queue' \in Seq(Request)
  BY <1>1, <1>2 DEF RequestInv, TypeOK
<1>4. r \in Request /\ r.con \in Consoles /\ r.n \in RequestId
  BY <1>2 DEF Request
<1>5. req[r.con][r.n] = "queued"
  BY <1>2 DEF RequestInv, QueueExact
<1>6. TypeOK'
  BY <1>1, <1>3, <1>4
     DEF RequestInv, TypeOK, consoleVars, slotVars, serverVars
<1>7. \A d \in Consoles : \A m \in RequestId :
          req'[d][m] = IF d = r.con /\ m = r.n THEN "executing" ELSE req[d][m]
  BY <1>1, <1>4 DEF RequestInv, TypeOK
<1>8. Numbered'
  BY <1>1, <1>5, <1>7 DEF consoleVars, RequestInv, Numbered
<1>9. QueueExact'
  <2>1. \A i \in 2..Len(queue) : ~(queue[i].con = r.con /\ queue[i].n = r.n)
    BY <1>2, <1>4 DEF RequestInv, QueueExact, RequestId
  <2>2. ASSUME NEW i \in 1..Len(queue')
        PROVE  req'[queue'[i].con][queue'[i].n] = "queued"
    <3>1. i + 1 \in 2..Len(queue) /\ queue'[i] = queue[i + 1]
      BY <1>2, <1>3
    <3>2. /\ queue[i + 1].con \in Consoles
          /\ queue[i + 1].n \in RequestId
          /\ req[queue[i + 1].con][queue[i + 1].n] = "queued"
      BY <1>2, <3>1 DEF Request, RequestInv, QueueExact
    <3> QED
      BY <1>7, <2>1, <3>1, <3>2
  <2>3. ASSUME NEW d \in Consoles, NEW m \in RequestId, req'[d][m] = "queued"
        PROVE  \E i \in 1..Len(queue') : queue'[i].con = d /\ queue'[i].n = m
    <3>1. req[d][m] = "queued" /\ ~(d = r.con /\ m = r.n)
      BY <1>7, <2>3
    <3>2. PICK i \in 1..Len(queue) : queue[i].con = d /\ queue[i].n = m
      BY <3>1 DEF RequestInv, QueueExact
    <3>3. i # 1
      BY <1>2, <3>1, <3>2
    <3>4. i - 1 \in 1..Len(queue') /\ queue'[i - 1] = queue[i]
      BY <1>2, <1>3, <3>3
    <3> QED
      BY <3>2, <3>4
  <2>4. \A i, j \in 1..Len(queue') :
            i < j /\ queue'[i].con = queue'[j].con => queue'[i].n < queue'[j].n
    BY <1>2, <1>3 DEF RequestInv, QueueExact
  <2> QED
    BY <2>2, <2>3, <2>4 DEF QueueExact
<1>10. CurrentExact'
  <2>1. \A d \in Consoles : \A m \in RequestId : req[d][m] # "executing"
    BY <1>1 DEF RequestInv, CurrentExact
  <2>2. req'[r.con][r.n] = "executing"
    BY <1>4, <1>7
  <2>3. r # None
    BY <1>4, ConsoleAssumption
  <2> QED
    BY <1>1, <1>7, <2>1, <2>2, <2>3 DEF CurrentExact
<1>11. \A d \in Consoles : Holders(d)' = Holders(d)
  BY <1>4, <1>5, <1>7 DEF Holders, Holding
<1>12. UseCountExact' /\ HeldConsoleAlive'
  BY <1>1, <1>11 DEF consoleVars, RequestInv, UseCountExact, HeldConsoleAlive
<1>13. \A m \in RequestId : m < r.n => req[r.con][m] = "released"
  <2> SUFFICES ASSUME NEW m \in RequestId, m < r.n
               PROVE  req[r.con][m] = "released"
    OBVIOUS
  <2>1. req[r.con][m] # "executing"
    BY <1>1, <1>4 DEF RequestInv, CurrentExact
  <2>2. req[r.con][m] # "none"
    <3>1. r.n <= lines[r.con] /\ lines[r.con] \in Nat
      BY <1>4, <1>5, ConsoleAssumption, SMTT(30) DEF RequestInv, Numbered, TypeOK, RequestId
    <3> QED
      BY <1>4, <3>1 DEF RequestInv, Numbered, RequestId
  <2>3. req[r.con][m] # "queued"
    <3> SUFFICES ASSUME req[r.con][m] = "queued" PROVE FALSE
      OBVIOUS
    <3>1. PICK i \in 1..Len(queue) : queue[i].con = r.con /\ queue[i].n = m
      BY <1>4 DEF RequestInv, QueueExact
    <3>2. i # 1
      BY <1>2, <1>4, <3>1 DEF RequestId
    <3>3. r.n < m
      BY <1>2, <3>1, <3>2 DEF RequestInv, QueueExact
    <3> QED
      BY <1>4, <3>3 DEF RequestId
  <2> QED
    BY <1>4, <2>1, <2>2, <2>3 DEF RequestInv, TypeOK
<1>14. ExecutedInOrder'
  BY <1>4, <1>5, <1>7, <1>13 DEF RequestInv, ExecutedInOrder, RequestId
<1> QED
  BY <1>6, <1>8, <1>9, <1>10, <1>12, <1>14 DEF RequestInv

\* The request under execution lets go of its console.
LEMMA ReleaseStep ==
    ASSUME RequestInv, cur # None, req[cur.con][cur.n] = "executing",
           Release(cur.con, cur.n), UNCHANGED <<hpc, lines, queue>>,
           \/ cur' = None
           \/ cur' = cur /\ stage' \in {"exit", "delete"},
           useCount' \in [Consoles -> Nat] => TypeOK'
    PROVE  RequestInv'
<1> DEFINE c == cur.con
           n == cur.n
<1>1. c \in Consoles /\ n \in RequestId
  BY DEF RequestInv, TypeOK, Request
<1> HIDE DEF c, n
<1>2. req[c][n] = "executing" /\ Release(c, n)
  BY DEF c, n
<1>3. UseCountExact' /\ useCount' \in [Consoles -> Nat]
  BY <1>1, <1>2, ReleaseExact DEF RequestInv
<1>4. \A d \in Consoles : \A m \in RequestId :
          req'[d][m] = IF d = c /\ m = n THEN "released" ELSE req[d][m]
  <2>1. req' = [req EXCEPT ![c][n] = "released"]
    BY <1>2 DEF Release
  <2>2. DOMAIN req = Consoles /\ \A d \in Consoles : DOMAIN req[d] = RequestId
    BY DEF RequestInv, TypeOK
  <2> QED
    BY <1>1, <2>1, <2>2
<1>5. Numbered'
  BY <1>2, <1>4 DEF RequestInv, Numbered
<1>6. QueueExact'
  <2>1. \A i \in 1..Len(queue) :
            queue[i].con \in Consoles /\ queue[i].n \in RequestId
    <3>1. \A i \in 1..Len(queue) : queue[i] \in Request
      BY DEF RequestInv, TypeOK
    <3> QED
      BY <3>1 DEF Request
  <2>2. \A i \in 1..Len(queue) : req'[queue[i].con][queue[i].n] = "queued"
    BY <1>2, <1>4, <2>1 DEF RequestInv, QueueExact
  <2> QED
    BY <1>2, <1>4, <2>2 DEF RequestInv, QueueExact
<1>7. CurrentExact'
  <2>1. \A d \in Consoles : \A m \in RequestId : req'[d][m] # "executing"
    BY <1>4 DEF c, n, RequestInv, CurrentExact
  <2>2. req'[c][n] = "released"
    BY <1>1, <1>4
  <2> QED
    BY <2>1, <2>2 DEF c, n, CurrentExact
<1>8. \A d \in Consoles : Holders(d)' \subseteq Holders(d)
  BY <1>4 DEF Holders, Holding
<1>9. HeldConsoleAlive'
  BY <1>8 DEF RequestInv, HeldConsoleAlive
<1>10. ExecutedInOrder'
  BY <1>1, <1>2, <1>4 DEF RequestInv, ExecutedInOrder
<1> QED
  BY <1>3, <1>5, <1>6, <1>7, <1>9, <1>10 DEF RequestInv

\* One step of a drain of the queue, by the main loop or by a connection's
\* thread.
LEMMA ProcessStep ==
    ASSUME RequestInv, NEW t \in Consoles \cup {Main}, ProcessRequests(t)
    PROVE  RequestInv'
<1> USE DEF consoleVars, slotVars, queueVars, serverVars
<1>1. CASE LockRequests(t)
  <2>1. TypeOK'
    BY <1>1 DEF LockRequests, RequestInv, TypeOK
  <2> QED
    BY <1>1, <2>1, QuietStep DEF LockRequests, reqVars
<1>2. CASE PopRequest(t)
  BY <1>2, PopStep
<1>3. CASE UnlockRequests(t)
  <2>1. /\ UNCHANGED reqVars
        /\ UNCHANGED <<eof, sock, peerClosed, shell, wantShell, slotVars, running, stopped>>
        /\ mutex' = None
    BY <1>3 DEF UnlockRequests, reqVars
  <2>2. \/ hpc' = hpc /\ mpc' = "agents"
        \/ t \in Consoles /\ hpc' = [hpc EXCEPT ![t] = AfterLine(t)] /\ mpc' = mpc
    BY <1>3 DEF UnlockRequests
  <2>3. hpc' \in [Consoles -> HandlerStates]
    BY <2>2 DEF AfterLine, HandlerStates, RequestInv, TypeOK
  <2>4. TypeOK'
    BY <2>1, <2>2, <2>3 DEF reqVars, RequestInv, TypeOK
  <2>5. \A d \in Consoles : hpc'[d] \in Destroying => hpc[d] \in Destroying
    BY <2>2 DEF AfterLine, Destroying, RequestInv, TypeOK
  <2> QED
    BY <2>1, <2>4, <2>5, QuietStep
<1>4. CASE ExecutePlain(t) \/ ExecuteShell(t) \/ ExecuteExit(t) \/ ExitAfterShutdown(t)
  <2> USE DEF Executing, ExecutePlain, ExecuteShell, ExecuteExit, ExitAfterShutdown
  <2>1. /\ cur # None /\ cur' = cur
        /\ \/ stage = "execute" /\ stage' \in {"release", "delete"}
           \/ stage = "exit" /\ stage' = "delete"
        /\ UNCHANGED <<hpc, lines, useCount, req, queue>>
        /\ UNCHANGED <<eof, peerClosed, wantShell, slotVars, mutex, serverVars>>
    BY <1>4
  <2>2. cur.con \in Consoles
    BY <2>1 DEF RequestInv, TypeOK, Request
  <2>3. sock' \in [Consoles -> {"none", "open", "closed"}]
    BY <1>4, <2>2 DEF CloseSocket, RequestInv, TypeOK
  <2>4. shell' \in [Consoles -> BOOLEAN]
    <3>1. shell' = shell \/ shell' = [shell EXCEPT ![cur.con] = TRUE]
      BY <1>4
    <3> QED
      BY <2>2, <3>1 DEF RequestInv, TypeOK
  <2>5. TypeOK'
    BY <2>1, <2>3, <2>4 DEF RequestInv, TypeOK
  <2>6. CurrentExact'
    BY <2>1 DEF RequestInv, CurrentExact
  <2>7. \A d \in Consoles : Holders(d)' = Holders(d)
    BY <2>1 DEF Holders
  <2> QED
    BY <2>1, <2>5, <2>6, <2>7
       DEF RequestInv, Numbered, QueueExact, UseCountExact, HeldConsoleAlive,
           ExecutedInOrder
<1>5. CASE ReleaseAfterExit(t) \/ ExecuteShutdown(t)
  <2>1. /\ cur # None /\ cur' = cur
        /\ stage \in {"execute", "release"} /\ stage' \in {"exit", "delete"}
        /\ Release(cur.con, cur.n)
        /\ UNCHANGED <<consoleVars, slotVars, queue, mutex, mpc>>
        /\ running' \in BOOLEAN /\ stopped' \in BOOLEAN
    BY <1>5 DEF ReleaseAfterExit, ExecuteShutdown, Executing, RequestInv, TypeOK
  <2>2. req[cur.con][cur.n] = "executing"
    BY <2>1 DEF RequestInv, CurrentExact
  <2>3. cur.con \in Consoles /\ cur.n \in RequestId
    BY <2>1 DEF RequestInv, TypeOK, Request
  <2>4. req' \in [Consoles -> [RequestId -> {"none", "queued", "executing", "released"}]]
    BY <2>1, <2>2, <2>3, ReleaseExact DEF RequestInv
  <2>5. useCount' \in [Consoles -> Nat] => TypeOK'
    BY <2>1, <2>4 DEF RequestInv, TypeOK
  <2> QED
    BY <2>1, <2>2, <2>5, ReleaseStep
<1>6. CASE DeleteRequest(t)
  <2>1. /\ cur # None /\ cur' = None /\ stage = "delete" /\ stage' = "none"
        /\ UNCHANGED <<consoleVars, slotVars, queue, mutex, serverVars>>
    BY <1>6 DEF DeleteRequest
  <2>2. cur.con \in Consoles /\ cur.n \in RequestId
    BY <2>1 DEF RequestInv, TypeOK, Request
  <2>3. CASE StillHolds(cur)
    <3>1. req[cur.con][cur.n] = "executing" /\ Release(cur.con, cur.n)
      BY <1>6, <2>3 DEF DeleteRequest, StillHolds
    <3>2. req' \in [Consoles -> [RequestId -> {"none", "queued", "executing", "released"}]]
      BY <2>2, <3>1, ReleaseExact DEF RequestInv
    <3>3. useCount' \in [Consoles -> Nat] => TypeOK'
      BY <2>1, <3>2 DEF RequestInv, TypeOK
    <3> QED
      BY <2>1, <3>1, <3>3, ReleaseStep
  <2>4. CASE ~StillHolds(cur)
    <3>1. UNCHANGED <<useCount, req>> /\ req[cur.con][cur.n] # "executing"
      BY <1>6, <2>4 DEF DeleteRequest, StillHolds
    <3>2. TypeOK'
      BY <2>1, <3>1 DEF RequestInv, TypeOK
    <3>3. CurrentExact'
      BY <2>1, <3>1 DEF RequestInv, CurrentExact
    <3>4. \A d \in Consoles : Holders(d)' = Holders(d)
      BY <3>1 DEF Holders
    <3> QED
      BY <2>1, <3>1, <3>2, <3>3, <3>4
         DEF RequestInv, Numbered, QueueExact, UseCountExact, HeldConsoleAlive,
             ExecutedInOrder
  <2> QED
    BY <2>3, <2>4
<1> QED
  BY <1>1, <1>2, <1>3, <1>4, <1>5, <1>6 DEF ProcessRequests

\* The main loop apart from its drains.
LEMMA LoopStepStep ==
    ASSUME RequestInv, EnterLoop \/ LoopStep \/ AgentsAndSleep
    PROVE  RequestInv'
<1> USE DEF EnterLoop, LoopStep, AgentsAndSleep, consoleVars, slotVars, queueVars, execVars
<1>1. TypeOK'
  BY DEF RequestInv, TypeOK
<1>2. UNCHANGED reqVars /\ UNCHANGED hpc
  BY DEF reqVars
<1> QED
  BY <1>1, <1>2, QuietStep

----------------------------------------------------------------------------
(* The limit on connections.                                               *)

CountedSet == {c \in Consoles : Counted(c)}
ServedSet == {c \in Consoles : Served(c)}

\* A step that changes neither the count nor who is counted or served.
LEMMA SlotsUnchanged ==
    ASSUME SlotLimit, UNCHANGED numOpen,
           \A d \in Consoles : Counted(d)' = Counted(d) /\ Served(d)' = Served(d)
    PROVE  SlotLimit'
<1>1. CountedSet' = CountedSet /\ ServedSet' = ServedSet
  BY DEF CountedSet, ServedSet
<1> QED
  BY <1>1 DEF SlotLimit, CountedSet, ServedSet

\* The three steps that matter: the constructor's count, the end of its
\* wait and the destructor's decrement; _num_open_sockets stays exact and
\* is positive when it is decremented.
LEMMA SlotStep ==
    ASSUME TypeOK, SlotLimit, NEW c \in Consoles,
           CountSocket(c) \/ StartHandler(c) \/ ReleaseSlot(c)
    PROVE  SlotLimit' /\ numOpen' \in Nat
<1> USE DEF Counted, Served
<1>1. IsFiniteSet(CountedSet) /\ IsFiniteSet(ServedSet) /\ ServedSet \subseteq CountedSet
  BY ConsoleAssumption, FS_Subset DEF CountedSet, ServedSet
<1>2. numOpen = Cardinality(CountedSet) /\ Cardinality(ServedSet) <= MaxOpen
  BY DEF SlotLimit, CountedSet, ServedSet
<1>3. CASE CountSocket(c)
  <2>1. CountedSet' = CountedSet \cup {c} /\ c \notin CountedSet /\ ServedSet' = ServedSet
    BY <1>3 DEF CountSocket, CountedSet, ServedSet, TypeOK
  <2>2. Cardinality(CountedSet') = Cardinality(CountedSet) + 1
    BY <1>1, <2>1, FS_AddElement
  <2>3. numOpen' = numOpen + 1
    BY <1>3 DEF CountSocket
  <2> QED
    <3>1. SlotLimit'
      BY <1>2, <2>1, <2>2, <2>3 DEF SlotLimit, CountedSet, ServedSet
    <3> QED
      BY <2>3, <3>1 DEF TypeOK
<1>4. CASE StartHandler(c)
  <2>1. /\ CountedSet' = CountedSet /\ ServedSet' \subseteq CountedSet
        /\ numOpen' = numOpen /\ numOpen <= MaxOpen
    BY <1>4 DEF StartHandler, SlotFree, CountedSet, ServedSet, TypeOK
  <2>2. /\ Cardinality(ServedSet') <= Cardinality(CountedSet)
        /\ IsFiniteSet(ServedSet')
    BY <1>1, <2>1, FS_Subset
  <2>3. Cardinality(ServedSet') \in Nat /\ Cardinality(CountedSet) \in Nat
    BY <1>1, <2>2, FS_CardinalityType
  <2>4. Cardinality(ServedSet') <= MaxOpen
    BY <1>2, <2>1, <2>2, <2>3, ConsoleAssumption
  <2> QED
    BY <1>2, <2>1, <2>4 DEF SlotLimit, CountedSet, ServedSet, TypeOK
<1>5. CASE ReleaseSlot(c)
  <2>1. CountedSet' = CountedSet \ {c} /\ c \in CountedSet /\ ServedSet' \subseteq ServedSet
    BY <1>5 DEF ReleaseSlot, CountedSet, ServedSet, TypeOK
  <2>2. /\ Cardinality(CountedSet') = Cardinality(CountedSet) - 1
        /\ IsFiniteSet(CountedSet')
    BY <1>1, <2>1, FS_RemoveElement
  <2>3. /\ Cardinality(ServedSet') <= Cardinality(ServedSet)
        /\ IsFiniteSet(ServedSet')
    BY <1>1, <2>1, FS_Subset
  <2>4. /\ Cardinality(ServedSet') \in Nat /\ Cardinality(ServedSet) \in Nat
        /\ Cardinality(CountedSet') \in Nat
    BY <1>1, <2>2, <2>3, FS_CardinalityType
  <2>5. Cardinality(ServedSet') <= MaxOpen
    BY <1>2, <2>3, <2>4, ConsoleAssumption
  <2>6. numOpen' = numOpen - 1
    BY <1>5 DEF ReleaseSlot
  <2> QED
    BY <1>2, <2>2, <2>4, <2>5, <2>6 DEF SlotLimit, CountedSet, ServedSet
<1> QED
  BY <1>3, <1>4, <1>5

\* The counts of ConsoleSocket, together with all that keeps them exact.
ConsoleInv == RequestInv /\ SlotLimit

\* The server starts with no connection and an empty queue: the invariant holds.
LEMMA InitInv == Init => ConsoleInv
<1> SUFFICES ASSUME Init PROVE ConsoleInv
  OBVIOUS
<1> USE ConsoleAssumption DEF Init
<1>1. TypeOK
  <2>1. hpc \in [Consoles -> HandlerStates]
    BY DEF HandlerStates
  <2>2. /\ req \in [Consoles -> [RequestId -> {"none", "queued", "executing", "released"}]]
        /\ queue \in Seq(Request)
    OBVIOUS
  <2>3. lines \in [Consoles -> 0..MaxLines] /\ useCount \in [Consoles -> Nat]
    OBVIOUS
  <2> QED
    BY <2>1, <2>2, <2>3 DEF TypeOK
<1>2. Numbered /\ QueueExact /\ CurrentExact /\ ExecutedInOrder
  BY DEF Numbered, QueueExact, CurrentExact, ExecutedInOrder, RequestId
<1>3. \A c \in Consoles : Holders(c) = {}
  BY DEF Holders, Holding
<1>4. UseCountExact /\ HeldConsoleAlive
  BY <1>3, FS_EmptySet DEF UseCountExact, HeldConsoleAlive
<1>5. CountedSet = {} /\ ServedSet = {}
  BY DEF CountedSet, ServedSet, Counted, Served
<1>6. SlotLimit
  <2>1. Cardinality({}) = 0
    BY FS_EmptySet
  <2>2. numOpen = Cardinality(CountedSet) /\ Cardinality(ServedSet) <= MaxOpen
    BY <1>5, <2>1
  <2> QED
    BY <2>2 DEF SlotLimit, CountedSet, ServedSet
<1> QED
  BY <1>1, <1>2, <1>4, <1>6 DEF ConsoleInv, RequestInv

\* Every step of every thread preserves the invariant.
LEMMA StepInv == ConsoleInv /\ [Next]_vars => ConsoleInv'
<1> SUFFICES ASSUME ConsoleInv, [Next]_vars PROVE ConsoleInv'
  OBVIOUS
<1>0. RequestInv /\ SlotLimit /\ TypeOK
  BY DEF ConsoleInv, RequestInv
<1>1. ASSUME NEW c \in Consoles, Accept(c) \/ PeerClose(c)
      PROVE  ConsoleInv'
  <2>1. RequestInv'
    BY <1>0, <1>1, ListenerStep
  <2>2. SlotLimit'
    BY <1>0, <1>1, SlotsUnchanged
       DEF Accept, PeerClose, slotVars, Counted, Served, TypeOK
  <2> QED
    BY <2>1, <2>2 DEF ConsoleInv
<1>2. ASSUME NEW c \in Consoles, CountSocket(c) \/ StartHandler(c)
      PROVE  ConsoleInv'
  BY <1>0, <1>2, ListenerStep, SlotStep DEF ConsoleInv
<1>3. ASSUME NEW c \in Consoles, ReadLoop(c)
      PROVE  ConsoleInv'
  <2>1. RequestInv'
    BY <1>0, <1>3, ReadStep
  <2>2. SlotLimit'
    BY <1>0, <1>3, SlotsUnchanged
       DEF ReadLoop, Recv, RecvError, Eof, NoLastLine, slotVars, Counted, Served, TypeOK
  <2> QED
    BY <2>1, <2>2 DEF ConsoleInv
<1>4. ASSUME NEW c \in Consoles, NEW k \in Commands, OnLine(c, k)
      PROVE  ConsoleInv'
  <2>1. RequestInv'
    BY <1>0, <1>4, ReadStep, CommandStep DEF OnLine
  <2>2. /\ UNCHANGED numOpen
        /\ hpc[c] \in {"loop", "recv", "lastLine"}
        /\ \E s \in {"drain", "dtor", "loop"} : hpc' = [hpc EXCEPT ![c] = s]
    BY <1>4 DEF OnLine, OnShellLine, OnIgnoredLine, OnCommand, HasLine, AfterLine, slotVars
  <2>3. SlotLimit'
    BY <1>0, <2>2, SlotsUnchanged DEF Counted, Served, TypeOK
  <2> QED
    BY <2>1, <2>3 DEF ConsoleInv
<1>5. ASSUME NEW c \in Consoles, Destroy(c)
      PROVE  ConsoleInv'
  <2>1. CASE ReleaseSlot(c)
    BY <1>0, <1>5, <2>1, SlotStep, DestroyStep DEF ConsoleInv
  <2>2. CASE ~ReleaseSlot(c)
    <3>1. /\ UNCHANGED numOpen
          /\ \A d \in Consoles : Counted(d)' = Counted(d) /\ Served(d)' = Served(d)
      BY <1>0, <1>5, <2>2
         DEF Destroy, WaitUnused, DeleteShell, FreeSocket, slotVars, Counted, Served, TypeOK
    <3>2. SlotLimit'
      BY <1>0, <3>1, SlotsUnchanged
    <3>3. RequestInv'
      BY <1>0, <1>5, <3>1, DestroyStep DEF TypeOK
    <3> QED
      BY <3>2, <3>3 DEF ConsoleInv
  <2> QED
    BY <2>1, <2>2
<1>6. ASSUME NEW t \in Consoles \cup {Main}, ProcessRequests(t)
      PROVE  ConsoleInv'
  <2>1. RequestInv'
    BY <1>0, <1>6, ProcessStep
  <2>2. /\ UNCHANGED numOpen
        /\ UNCHANGED hpc \/ UnlockRequests(t)
    BY <1>6 DEF ProcessRequests, LockRequests, PopRequest, UnlockRequests, ExecutePlain,
                ExecuteShell, ExecuteExit, ReleaseAfterExit, ExecuteShutdown,
                ExitAfterShutdown, DeleteRequest, consoleVars, slotVars
  <2>3. ASSUME UNCHANGED hpc PROVE SlotLimit'
    BY <1>0, <2>2, <2>3, SlotsUnchanged DEF Counted, Served
  <2>4. ASSUME UnlockRequests(t) PROVE SlotLimit'
    BY <1>0, <2>2, <2>4, SlotsUnchanged
       DEF UnlockRequests, Owns, Drains, AfterLine, Counted, Served, TypeOK
  <2> QED
    BY <2>1, <2>2, <2>3, <2>4 DEF ConsoleInv
<1>7. ASSUME EnterLoop \/ LoopStep \/ AgentsAndSleep
      PROVE  ConsoleInv'
  <2>1. UNCHANGED numOpen /\ UNCHANGED hpc
    BY <1>7 DEF EnterLoop, LoopStep, AgentsAndSleep, consoleVars, slotVars
  <2>2. SlotLimit'
    BY <1>0, <2>1, SlotsUnchanged DEF Counted, Served
  <2> QED
    BY <1>0, <1>7, <2>2, LoopStepStep DEF ConsoleInv
<1>8. ASSUME UNCHANGED vars
      PROVE  ConsoleInv'
  <2>1. TypeOK' /\ UNCHANGED reqVars /\ UNCHANGED numOpen /\ UNCHANGED hpc
    BY <1>0, <1>8
       DEF vars, reqVars, consoleVars, slotVars, queueVars, execVars, serverVars, TypeOK
  <2> QED
    BY <1>0, <2>1, QuietStep, SlotsUnchanged DEF ConsoleInv, Counted, Served
<1> QED
  BY <1>1, <1>2, <1>3, <1>4, <1>5, <1>6, <1>7, <1>8
     DEF Next, Listener, ServerLoop, Handler

\* The invariant holds in every reachable state, for any set of consoles and
\* any bound on their lines.
THEOREM ConsoleInvariance == Spec => []ConsoleInv
BY InitInv, StepInv, PTL DEF Spec

\* The types are kept: no unsigned count is decremented below zero.
THEOREM TypeCorrect == Spec => []TypeOK
<1>1. ConsoleInv => TypeOK
  BY DEF ConsoleInv, RequestInv
<1> QED
  BY <1>1, ConsoleInvariance, PTL

\* The use count is the number of requests that point to the console.
THEOREM UseCountSafety == Spec => []UseCountExact
<1>1. ConsoleInv => UseCountExact
  BY DEF ConsoleInv, RequestInv
<1> QED
  BY <1>1, ConsoleInvariance, PTL

\* Therefore no request ever points to a console whose destructor has passed its
\* wait.  What a request does with the console after it has let go of it is another
\* matter (ExitOnLiveConsole).
THEOREM HeldConsoleSafety == Spec => []HeldConsoleAlive
<1>1. ConsoleInv => HeldConsoleAlive
  BY DEF ConsoleInv, RequestInv
<1> QED
  BY <1>1, ConsoleInvariance, PTL

\* Whoever drains the queue, the requests of a console are executed one at a
\* time in the order of its lines.
THEOREM OrderSafety == Spec => []ExecutedInOrder
<1>1. ConsoleInv => ExecutedInOrder
  BY DEF ConsoleInv, RequestInv
<1> QED
  BY <1>1, ConsoleInvariance, PTL

\* At most _max_open_sockets connections have a thread.
THEOREM SlotSafety == Spec => []SlotLimit
<1>1. ConsoleInv => SlotLimit
  BY DEF ConsoleInv
<1> QED
  BY <1>1, ConsoleInvariance, PTL

----------------------------------------------------------------------------
(* The mode of a console. Its own thread reads no line from the moment it  *)
(* has queued a request for a shell until that request has been executed,  *)
(* by whichever thread.                                                    *)

\* The request r is to set a shell and its console's thread is waiting for it.
Awaited(r) == r.kind = "shell" => hpc[r.con] = "drain"

\* The request that will set the shell of c is queued or about to be executed.
ShellComing(c) ==
    \/ \E i \in 1..Len(queue) : queue[i].con = c /\ queue[i].kind = "shell"
    \/ cur # None /\ cur.con = c /\ cur.kind = "shell" /\ stage = "execute"

ModeAgrees(c) ==
    /\ hpc[c] = "drain" => wantShell[c] /\ (shell[c] \/ ShellComing(c))
    /\ hpc[c] \notin Destroying \cup {"drain", "dtor"} => shell[c] = wantShell[c]

\* What makes the mode of a console agree with its lines.
ModeInv ==
    /\ \A i \in 1..Len(queue) : Awaited(queue[i])
    /\ cur # None /\ stage = "execute" => Awaited(cur)
    /\ \A c \in Consoles : ModeAgrees(c)

\* A step of the thread of c that reads no command leaves the requests alone
\* and takes c from one place outside processRequests() to another.
LEMMA ModeElsewhere ==
    ASSUME TypeOK, ModeInv, NEW c \in Consoles, hpc[c] # "drain",
           UNCHANGED <<queue, cur, stage>>,
           NEW p \in HandlerStates \ {"drain"}, hpc' = [hpc EXCEPT ![c] = p],
           \A d \in Consoles \ {c} : shell[d]' = shell[d] /\ wantShell[d]' = wantShell[d],
           p \in Destroying \cup {"dtor"} \/ shell'[c] = wantShell'[c]
    PROVE  ModeInv'
<1>1. \A d \in Consoles : hpc'[d] = IF d = c THEN p ELSE hpc[d]
  BY DEF TypeOK
<1>2. \A i \in 1..Len(queue) : Awaited(queue[i])'
  <2> TAKE i \in 1..Len(queue)
  <2>1. Awaited(queue[i])
    BY DEF ModeInv
  <2>2. queue[i].con \in Consoles
    <3>1. queue \in Seq(Request)
      BY DEF TypeOK
    <3>2. queue[i] \in Request
      BY <3>1
    <3> QED
      BY <3>2 DEF Request
  <2> QED
    BY <1>1, <2>1, <2>2 DEF Awaited
<1>3. cur # None /\ stage = "execute" => Awaited(cur)'
  BY <1>1 DEF ModeInv, Awaited, TypeOK, Request
<1>4. \A d \in Consoles : ModeAgrees(d)'
  BY <1>1 DEF ModeInv, ModeAgrees, ShellComing
<1> QED
  BY <1>2, <1>3, <1>4 DEF ModeInv

\* Every step of every thread preserves it.
LEMMA ModeStep == TypeOK /\ ModeInv /\ [Next]_vars => ModeInv'
<1> SUFFICES ASSUME TypeOK, ModeInv, [Next]_vars PROVE ModeInv'
  OBVIOUS
<1> USE DEF consoleVars, slotVars, queueVars, execVars, serverVars
<1>1. ASSUME NEW c \in Consoles, Accept(c) \/ CountSocket(c) \/ StartHandler(c)
      PROVE  ModeInv'
  <2>1. /\ hpc[c] \in {"none", "accepted", "waiting"}
        /\ \E p \in {"accepted", "waiting", "loop"} : hpc' = [hpc EXCEPT ![c] = p]
        /\ UNCHANGED <<queue, cur, stage, shell, wantShell>>
    BY <1>1 DEF Accept, CountSocket, StartHandler
  <2>2. shell[c] = wantShell[c]
    BY <2>1 DEF ModeInv, ModeAgrees, Destroying
  <2> QED
    BY <2>1, <2>2, ModeElsewhere DEF HandlerStates
<1>2. ASSUME NEW c \in Consoles, ReadLoop(c)
      PROVE  ModeInv'
  <2>1. /\ hpc[c] \in {"loop", "recv", "readError", "lastLine"}
        /\ \E p \in {"loop", "recv", "readError", "lastLine", "dtor"} :
              hpc' = [hpc EXCEPT ![c] = p]
        /\ UNCHANGED <<queue, cur, stage, shell, wantShell>>
    BY <1>2 DEF ReadLoop, Recv, RecvError, Eof, NoLastLine
  <2>2. shell[c] = wantShell[c]
    BY <2>1 DEF ModeInv, ModeAgrees, Destroying
  <2> QED
    BY <2>1, <2>2, ModeElsewhere DEF HandlerStates
<1>3. ASSUME NEW c \in Consoles, Destroy(c)
      PROVE  ModeInv'
  <2>1. /\ hpc[c] \in Destroying \cup {"dtor"}
        /\ \E p \in Destroying : hpc' = [hpc EXCEPT ![c] = p]
        /\ UNCHANGED <<queue, cur, stage, wantShell>>
        /\ UNCHANGED shell \/ shell' = [shell EXCEPT ![c] = FALSE]
    BY <1>3 DEF Destroy, WaitUnused, DeleteShell, ReleaseSlot, FreeSocket, Destroying
  <2>2. \A d \in Consoles \ {c} : shell[d]' = shell[d] /\ wantShell[d]' = wantShell[d]
    BY <2>1 DEF TypeOK
  <2>3. hpc[c] # "drain" /\ Destroying \subseteq HandlerStates \ {"drain"}
    BY <2>1 DEF HandlerStates, Destroying
  <2> QED
    BY <2>1, <2>2, <2>3, ModeElsewhere
<1>4. ASSUME NEW c \in Consoles, NEW k \in Commands, OnShellLine(c, k) \/ OnIgnoredLine(c, k)
      PROVE  ModeInv'
  <2>1. /\ hpc[c] \in {"loop", "recv", "lastLine"}
        /\ \E p \in {"loop", "dtor"} : hpc' = [hpc EXCEPT ![c] = p]
        /\ UNCHANGED <<queue, cur, stage>>
    BY <1>4 DEF OnShellLine, OnIgnoredLine, HasLine, AfterLine
  <2>2. shell[c] = wantShell[c]
    BY <2>1 DEF ModeInv, ModeAgrees, Destroying
  <2>3. /\ \A d \in Consoles \ {c} : shell[d]' = shell[d] /\ wantShell[d]' = wantShell[d]
        /\ shell'[c] = wantShell'[c]
    BY <1>4, <2>2 DEF OnShellLine, OnIgnoredLine, TypeOK
  <2> QED
    BY <2>1, <2>3, ModeElsewhere DEF HandlerStates
<1>5. ASSUME NEW c \in Consoles, NEW k \in Commands, OnCommand(c, k)
      PROVE  ModeInv'
  <2> DEFINE r == [con |-> c, n |-> lines[c] + 1, kind |-> IF k = "eot" THEN "exit" ELSE k]
  <2>1. /\ hpc[c] \in {"loop", "recv", "lastLine"} /\ ~shell[c]
        /\ queue' = Append(queue, r)
        /\ wantShell' = [wantShell EXCEPT ![c] = (r.kind = "shell")]
        /\ hpc' = [hpc EXCEPT ![c] = IF r.kind = "shell" THEN "drain" ELSE AfterLine(c)]
        /\ UNCHANGED <<cur, stage, shell>>
    BY <1>5 DEF OnCommand, HasLine, DrainsAtOnce
  <2>2. /\ Len(queue) \in Nat /\ Len(queue') = Len(queue) + 1 /\ queue'[Len(queue) + 1] = r
        /\ \A i \in 1..Len(queue) : queue'[i] = queue[i]
    BY <2>1 DEF TypeOK
  <2>3. \A d \in Consoles : hpc[d] = "drain" => hpc'[d] = "drain"
    BY <2>1 DEF TypeOK
  <2>4. hpc'[c] = IF r.kind = "shell" THEN "drain" ELSE AfterLine(c)
    BY <2>1 DEF TypeOK
  <2>5. \A i \in 1..Len(queue') : queue'[i].kind = "shell" => hpc'[queue'[i].con] = "drain"
    <3>1. \A i \in 1..Len(queue) : queue[i].con \in Consoles
      <4>1. \A i \in 1..Len(queue) : queue[i] \in Request
        BY DEF TypeOK
      <4> QED
        BY <4>1 DEF Request
    <3>2. \A i \in 1..Len(queue) : queue[i].kind = "shell" => hpc'[queue[i].con] = "drain"
      BY <2>3, <3>1 DEF ModeInv, Awaited
    <3>3. r.kind = "shell" => hpc'[r.con] = "drain"
      BY <2>4
    <3> QED
      BY <2>2, <3>2, <3>3
  <2>6. (cur # None /\ stage = "execute" => Awaited(cur))'
    <3>1. cur # None => cur.con \in Consoles
      BY DEF TypeOK, Request
    <3> QED
      BY <2>1, <2>3, <3>1 DEF ModeInv, Awaited
  <2>7. \A d \in Consoles : ShellComing(d) => ShellComing(d)'
    BY <2>1, <2>2 DEF ShellComing
  <2>8. ASSUME NEW d \in Consoles \ {c} PROVE ModeAgrees(d)'
    <3>1. hpc'[d] = hpc[d] /\ wantShell'[d] = wantShell[d] /\ shell'[d] = shell[d]
      BY <2>1 DEF TypeOK
    <3> QED
      BY <2>7, <3>1 DEF ModeInv, ModeAgrees
  <2>9. ModeAgrees(c)'
    <3>1. wantShell'[c] = (r.kind = "shell") /\ shell'[c] = FALSE
      BY <2>1 DEF TypeOK
    <3>2. CASE r.kind = "shell"
      <4>1. ShellComing(c)'
        BY <2>2, <3>2 DEF ShellComing
      <4> QED
        BY <2>4, <3>1, <3>2, <4>1 DEF ModeAgrees
    <3>3. CASE r.kind # "shell"
      BY <2>4, <3>1, <3>3 DEF ModeAgrees, AfterLine, Destroying
    <3> QED
      BY <3>2, <3>3
  <2> QED
    BY <2>5, <2>6, <2>8, <2>9 DEF ModeInv, Awaited
<1>6. ASSUME NEW t \in Consoles \cup {Main}, PopRequest(t)
      PROVE  ModeInv'
  <2>1. /\ cur = None /\ queue # <<>>
        /\ cur' = Head(queue) /\ queue' = Tail(queue) /\ stage' = "execute"
        /\ UNCHANGED <<hpc, shell, wantShell>>
    BY <1>6 DEF PopRequest
  <2>2. /\ Len(queue) \in Nat \ {0} /\ Head(queue) = queue[1] /\ queue[1] \in Request
        /\ Len(queue') = Len(queue) - 1
        /\ \A i \in 1..Len(queue) - 1 : queue'[i] = queue[i + 1]
    BY <2>1 DEF TypeOK
  <2>3. (\A i \in 1..Len(queue) : Awaited(queue[i]))'
    BY <2>1, <2>2 DEF ModeInv, Awaited
  <2>4. Awaited(cur)'
    BY <2>1, <2>2 DEF ModeInv, Awaited
  <2>5. ASSUME NEW d \in Consoles, ShellComing(d) PROVE ShellComing(d)'
    <3>1. PICK i \in 1..Len(queue) : queue[i].con = d /\ queue[i].kind = "shell"
      BY <2>1, <2>5 DEF ShellComing
    <3>2. CASE i = 1
      BY <2>1, <2>2, <3>1, <3>2, ConsoleAssumption DEF ShellComing
    <3>3. CASE i # 1
      <4>1. i - 1 \in 1..Len(queue') /\ queue'[i - 1] = queue[i]
        BY <2>2, <3>3
      <4> QED
        BY <3>1, <4>1 DEF ShellComing
    <3> QED
      BY <3>2, <3>3
  <2>6. \A d \in Consoles : ModeAgrees(d)'
    BY <2>1, <2>5 DEF ModeInv, ModeAgrees
  <2> QED
    BY <2>3, <2>4, <2>6 DEF ModeInv
<1>7. ASSUME NEW t \in Consoles \cup {Main}, ExecuteShell(t)
      PROVE  ModeInv'
  <2>1. /\ cur # None /\ cur \in Request /\ cur.kind = "shell" /\ stage = "execute"
        /\ shell' = [shell EXCEPT ![cur.con] = TRUE] /\ stage' = "delete"
        /\ UNCHANGED <<hpc, wantShell, queue, cur>>
    BY <1>7 DEF ExecuteShell, Executing, TypeOK
  <2>2. cur.con \in Consoles /\ hpc[cur.con] = "drain" /\ wantShell[cur.con]
    BY <2>1 DEF ModeInv, Awaited, Request, ModeAgrees
  <2>3. shell'[cur.con] = TRUE /\ \A d \in Consoles \ {cur.con} : shell'[d] = shell[d]
    BY <2>1, <2>2 DEF TypeOK
  <2>4. \A d \in Consoles \ {cur.con} : ModeAgrees(d)'
    BY <2>1, <2>3 DEF ModeInv, ModeAgrees, ShellComing
  <2>5. ModeAgrees(cur.con)'
    BY <2>1, <2>2, <2>3 DEF ModeAgrees
  <2> QED
    BY <2>1, <2>4, <2>5 DEF ModeInv, Awaited
<1>8. ASSUME NEW t \in Consoles \cup {Main}, UnlockRequests(t)
      PROVE  ModeInv'
  <2>1. cur = None /\ queue = <<>> /\ UNCHANGED <<queue, cur, stage, shell, wantShell>>
    BY <1>8 DEF UnlockRequests
  <2>2. \A d \in Consoles : ~ShellComing(d)
    BY <2>1 DEF ShellComing
  <2>3. CASE t = Main
    BY <1>8, <2>1, <2>3 DEF UnlockRequests, ModeInv, ModeAgrees, ShellComing, Awaited
  <2>4. CASE t # Main
    <3>1. t \in Consoles /\ hpc[t] = "drain" /\ hpc' = [hpc EXCEPT ![t] = AfterLine(t)]
      BY <1>8, <2>4 DEF UnlockRequests, Owns, Drains
    <3>2. \A d \in Consoles : hpc'[d] = IF d = t THEN AfterLine(t) ELSE hpc[d]
      BY <3>1 DEF TypeOK
    <3>3. shell[t] = TRUE /\ wantShell[t] = TRUE
      BY <2>2, <3>1 DEF ModeInv, ModeAgrees, TypeOK
    <3>4. \A d \in Consoles : ModeAgrees(d)'
      BY <2>1, <2>2, <3>2, <3>3 DEF ModeInv, ModeAgrees, AfterLine, Destroying
    <3> QED
      BY <2>1, <3>4 DEF ModeInv
  <2> QED
    BY <2>3, <2>4
<1>9. ASSUME NEW t \in Consoles \cup {Main},
             \/ ExecutePlain(t) \/ ExecuteExit(t) \/ ReleaseAfterExit(t)
             \/ ExecuteShutdown(t) \/ ExitAfterShutdown(t) \/ DeleteRequest(t)
      PROVE  ModeInv'
  <2>1. /\ UNCHANGED <<hpc, shell, wantShell, queue>> /\ stage' # "execute"
        /\ ~(cur # None /\ cur.kind = "shell" /\ stage = "execute")
    BY <1>9 DEF ExecutePlain, ExecuteExit, ReleaseAfterExit, ExecuteShutdown,
                ExitAfterShutdown, DeleteRequest, Executing
  <2> QED
    BY <2>1 DEF ModeInv, ModeAgrees, ShellComing, Awaited
<1>10. CASE UNCHANGED <<hpc, shell, wantShell, queue, cur, stage>>
  BY <1>10 DEF ModeInv, ModeAgrees, ShellComing, Awaited
<1>11. ASSUME \/ EnterLoop \/ LoopStep \/ AgentsAndSleep \/ UNCHANGED vars
              \/ \E c \in Consoles : PeerClose(c)
              \/ \E t \in Consoles \cup {Main} : LockRequests(t)
       PROVE  UNCHANGED <<hpc, shell, wantShell, queue, cur, stage>>
  BY <1>11 DEF EnterLoop, LoopStep, AgentsAndSleep, vars, PeerClose, LockRequests
<1> QED
  BY <1>1, <1>2, <1>3, <1>4, <1>5, <1>6, <1>7, <1>8, <1>9, <1>10, <1>11
     DEF Next, Listener, ServerLoop, Handler, OnLine, ProcessRequests

\* A connection's thread takes each line in the mode its earlier lines put the
\* console in, whichever thread has executed the request for the shell.
THEOREM ShellModeSafety == Spec => []ShellModeSynchronised
<1>1. Init => ModeInv
  BY DEF Init, ModeInv, ModeAgrees, Destroying
<1>2. ModeInv => ShellModeSynchronised
  BY DEF ModeInv, ModeAgrees, ShellModeSynchronised, HasLine, Destroying
<1> QED
  BY <1>1, <1>2, TypeCorrect, ModeStep, PTL DEF Spec

----------------------------------------------------------------------------
(* The refinement of RequestService: a command line is a Send, the release *)
(* of a console by a request is a Serve, the end of the destructor's wait  *)
(* is a Free, and every other step leaves the service unchanged.           *)

doneSet == [c \in Consoles |-> {n \in RequestId : req[c][n] = "released"}]
goneSet == [c \in Consoles |-> hpc[c] \in Destroying]

\* A step that makes, finishes and frees nothing.
LEMMA ServiceStutter ==
    ASSUME UNCHANGED <<lines, req>>,
           \A c \in Consoles : hpc'[c] \in Destroying <=> hpc[c] \in Destroying
    PROVE  UNCHANGED Service!vars
<1>1. doneSet' = doneSet
  BY DEF doneSet
<1>2. goneSet' = goneSet
  BY DEF goneSet
<1> QED
  BY <1>1, <1>2 DEF Service!vars, doneSet, goneSet

\* Queueing a command in OnLine is a Send step of the service.
LEMMA ServiceSend ==
    ASSUME ConsoleInv, NEW c \in Consoles, NEW k \in Commands, OnCommand(c, k)
    PROVE  Service!Send(c)
<1> DEFINE n == lines[c] + 1
<1>1. /\ HasLine(c) /\ lines[c] < MaxLines
      /\ lines' = [lines EXCEPT ![c] = @ + 1]
      /\ req' = [req EXCEPT ![c][n] = "queued"]
      /\ \E s \in {"drain", "dtor", "loop"} : hpc' = [hpc EXCEPT ![c] = s]
  BY DEF OnCommand, Hold, AfterLine
<1>2. TypeOK /\ n \in RequestId /\ req[c][n] = "none"
  BY <1>1, ConsoleAssumption DEF ConsoleInv, RequestInv, TypeOK, Numbered, RequestId
<1>3. doneSet' = doneSet
  BY <1>1, <1>2 DEF doneSet, TypeOK
<1>4. goneSet' = goneSet /\ ~goneSet[c]
  <2>1. hpc[c] \notin Destroying
    BY <1>1 DEF HasLine, Destroying
  <2>2. \A d \in Consoles : hpc'[d] \in Destroying <=> hpc[d] \in Destroying
    BY <1>1, <1>2, <2>1 DEF TypeOK, Destroying
  <2>3. goneSet' = goneSet
    BY <2>2 DEF goneSet
  <2>4. ~goneSet[c]
    BY <2>1 DEF goneSet
  <2> QED
    BY <2>3, <2>4
<1> QED
  BY <1>1, <1>3, <1>4 DEF Service!Send, doneSet, goneSet

\* The put() of the request under execution is a Serve step of the service.
LEMMA ServiceServe ==
    ASSUME ConsoleInv, NEW c \in Consoles, NEW n \in RequestId,
           req[c][n] = "executing", Release(c, n), UNCHANGED <<lines, hpc>>
    PROVE  n \in 1..lines[c] /\ Service!Serve(c, n)
<1>1. TypeOK /\ req' = [req EXCEPT ![c][n] = "released"]
  BY DEF ConsoleInv, RequestInv, Release
<1>2. n \in 1..lines[c]
  BY ConsoleAssumption DEF ConsoleInv, RequestInv, TypeOK, Numbered, RequestId
<1>3. goneSet' = goneSet /\ ~goneSet[c]
  <2>1. n \in Holders(c)
    BY DEF Holders, Holding
  <2> QED
    BY <2>1 DEF ConsoleInv, RequestInv, HeldConsoleAlive, goneSet
<1>4. n \notin doneSet[c] /\ 1..(n - 1) \subseteq doneSet[c]
  <2>1. doneSet[c] = {m \in RequestId : req[c][m] = "released"}
    BY DEF doneSet
  <2>2. \A m \in 1..(n - 1) : m \in RequestId /\ m < n
    BY ConsoleAssumption DEF RequestId
  <2>3. \A m \in 1..(n - 1) : req[c][m] = "released"
    BY <2>2 DEF ConsoleInv, RequestInv, ExecutedInOrder
  <2> QED
    BY <2>1, <2>2, <2>3
<1>5. doneSet' = [doneSet EXCEPT ![c] = @ \cup {n}]
  <2>1. doneSet'[c] = doneSet[c] \cup {n}
    BY <1>1 DEF doneSet, TypeOK
  <2>2. \A d \in Consoles \ {c} : doneSet'[d] = doneSet[d]
    BY <1>1 DEF doneSet, TypeOK
  <2> QED
    BY <2>1, <2>2 DEF doneSet
<1> QED
  BY <1>2, <1>3, <1>4, <1>5 DEF Service!Serve, doneSet, goneSet

\* The end of the destructor's wait is a Free step of the service.
LEMMA ServiceFree ==
    ASSUME ConsoleInv, NEW c \in Consoles, WaitUnused(c)
    PROVE  Service!Free(c)
<1>1. /\ TypeOK /\ hpc[c] = "dtor" /\ useCount[c] = 0
      /\ hpc' = [hpc EXCEPT ![c] = "dtorShell"]
      /\ UNCHANGED <<lines, req>>
  BY DEF ConsoleInv, RequestInv, WaitUnused, Unused, queueVars
<1>2. Holders(c) = {}
  BY <1>1, UnusedHasNoHolders DEF ConsoleInv, RequestInv
<1>3. doneSet[c] = 1..lines[c]
  <2>1. \A n \in RequestId : req[c][n] = "released" <=> ~(n > lines[c])
    BY <1>1, <1>2 DEF Holders, Holding, ConsoleInv, RequestInv, Numbered, TypeOK
  <2>2. lines[c] \in 0..MaxLines
    BY <1>1 DEF TypeOK
  <2> QED
    BY <2>1, <2>2, ConsoleAssumption DEF doneSet, RequestId
<1>4. doneSet' = doneSet
  BY <1>1 DEF doneSet
<1>5. ~goneSet[c] /\ goneSet' = [goneSet EXCEPT ![c] = TRUE]
  BY <1>1 DEF goneSet, Destroying, TypeOK
<1> QED
  BY <1>1, <1>3, <1>4, <1>5 DEF Service!Free, doneSet, goneSet

\* Every step of the threads is a step of the service or leaves it alone.
LEMMA ServiceStep ==
    ASSUME ConsoleInv, [Next]_vars
    PROVE  [Service!Next]_(Service!vars)
<1>0. RequestInv /\ TypeOK
  BY DEF ConsoleInv, RequestInv
<1>1. ASSUME NEW c \in Consoles,
             Accept(c) \/ CountSocket(c) \/ StartHandler(c) \/ PeerClose(c)
      PROVE  UNCHANGED Service!vars
  BY <1>0, <1>1, ServiceStutter
     DEF Accept, CountSocket, StartHandler, PeerClose, queueVars, Destroying, TypeOK
<1>2. ASSUME NEW c \in Consoles, ReadLoop(c)
      PROVE  UNCHANGED Service!vars
  BY <1>0, <1>2, ServiceStutter
     DEF ReadLoop, Recv, RecvError, Eof, NoLastLine, queueVars, Destroying, TypeOK
<1>3. ASSUME NEW c \in Consoles, NEW k \in Commands, OnLine(c, k)
      PROVE  Service!Send(c) \/ UNCHANGED Service!vars
  <2>1. CASE OnCommand(c, k)
    BY <2>1, ServiceSend
  <2>2. CASE OnShellLine(c, k) \/ OnIgnoredLine(c, k)
    BY <1>0, <2>2, ServiceStutter
       DEF OnShellLine, OnIgnoredLine, HasLine, AfterLine, queueVars, Destroying, TypeOK
  <2> QED
    BY <1>3, <2>1, <2>2 DEF OnLine
<1>4. ASSUME NEW c \in Consoles, Destroy(c)
      PROVE  Service!Free(c) \/ UNCHANGED Service!vars
  <2>1. CASE WaitUnused(c)
    BY <2>1, ServiceFree
  <2>2. CASE DeleteShell(c) \/ ReleaseSlot(c) \/ FreeSocket(c)
    BY <1>0, <2>2, ServiceStutter
       DEF DeleteShell, ReleaseSlot, FreeSocket, queueVars, Destroying, TypeOK
  <2> QED
    BY <1>4, <2>1, <2>2 DEF Destroy
<1>5. ASSUME NEW t \in Consoles \cup {Main}, ProcessRequests(t)
      PROVE  \/ \E c \in Consoles : \E n \in 1..lines[c] : Service!Serve(c, n)
             \/ UNCHANGED Service!vars
  <2> USE DEF consoleVars, queueVars
  <2>1. CASE LockRequests(t) \/ ExecutePlain(t) \/ ExecuteShell(t) \/ ExecuteExit(t)
             \/ ExitAfterShutdown(t)
    BY <2>1, ServiceStutter
       DEF LockRequests, ExecutePlain, ExecuteShell, ExecuteExit, ExitAfterShutdown
  <2>2. CASE UnlockRequests(t)
    BY <1>0, <2>2, ServiceStutter
       DEF UnlockRequests, Owns, Drains, AfterLine, Destroying, TypeOK
  <2>3. CASE PopRequest(t)
    <3>1. /\ queue # <<>>
          /\ req' = [req EXCEPT ![Head(queue).con][Head(queue).n] = "executing"]
          /\ UNCHANGED <<lines, hpc>>
      BY <2>3 DEF PopRequest
    <3>2. Head(queue) = queue[1] /\ Head(queue) \in Request /\ 1 \in 1..Len(queue)
      BY <1>0, <3>1 DEF TypeOK
    <3>3. req[Head(queue).con][Head(queue).n] = "queued"
      BY <1>0, <3>2 DEF RequestInv, QueueExact
    <3>4. Head(queue).con \in Consoles /\ Head(queue).n \in RequestId
      BY <3>2 DEF Request
    <3>5. \A d \in Consoles : \A m \in RequestId :
              req'[d][m] = "released" <=> req[d][m] = "released"
      BY <1>0, <3>1, <3>3, <3>4 DEF TypeOK
    <3>6. doneSet' = doneSet /\ goneSet' = goneSet
      BY <3>1, <3>5 DEF doneSet, goneSet
    <3> QED
      BY <3>1, <3>6 DEF Service!vars, doneSet, goneSet
  <2>4. CASE ReleaseAfterExit(t) \/ ExecuteShutdown(t) \/ DeleteRequest(t)
    <3>1. cur # None /\ UNCHANGED <<lines, hpc>>
      BY <2>4 DEF ReleaseAfterExit, ExecuteShutdown, DeleteRequest, Executing
    <3>2. cur.con \in Consoles /\ cur.n \in RequestId
      BY <1>0, <3>1 DEF TypeOK, Request
    <3>3. CASE Release(cur.con, cur.n) /\ req[cur.con][cur.n] = "executing"
      BY <3>1, <3>2, <3>3, ServiceServe
    <3>4. CASE UNCHANGED req
      BY <3>1, <3>4, ServiceStutter
    <3>5. \/ Release(cur.con, cur.n) /\ req[cur.con][cur.n] = "executing"
          \/ UNCHANGED req
      BY <1>0, <2>4
         DEF ReleaseAfterExit, ExecuteShutdown, DeleteRequest, Executing, StillHolds,
             RequestInv, CurrentExact
    <3> QED
      BY <3>3, <3>4, <3>5
  <2> QED
    BY <1>5, <2>1, <2>2, <2>3, <2>4 DEF ProcessRequests
<1>6. ASSUME EnterLoop \/ LoopStep \/ AgentsAndSleep \/ UNCHANGED vars
      PROVE  UNCHANGED Service!vars
  BY <1>6, ServiceStutter
     DEF EnterLoop, LoopStep, AgentsAndSleep, vars, consoleVars, queueVars
<1> QED
  BY <1>1, <1>2, <1>3, <1>4, <1>5, <1>6
     DEF Next, Listener, ServerLoop, Handler, Service!Next

\* The threads, the queue and the use count implement the service: every
\* command executed once, in order, on a console that outlives it.
THEOREM Refinement == Spec => ServiceSpec
<1>1. Init => Service!Init
  <2> SUFFICES ASSUME Init PROVE Service!Init
    OBVIOUS
  <2>1. doneSet = [c \in Consoles |-> {}] /\ goneSet = [c \in Consoles |-> FALSE]
    <3>1. \A c \in Consoles : hpc[c] \notin Destroying
      BY DEF Init, Destroying
    <3>2. \A c \in Consoles : {n \in RequestId : req[c][n] = "released"} = {}
      BY DEF Init
    <3>3. \A c \in Consoles : (hpc[c] \in Destroying) = FALSE
      BY <3>1
    <3> QED
      BY <3>2, <3>3 DEF doneSet, goneSet
  <2> QED
    BY <2>1 DEF Init, Service!Init, doneSet, goneSet
<1>2. ConsoleInv /\ [Next]_vars => [Service!Next]_(Service!vars)
  BY ServiceStep
<1> QED
  BY <1>1, <1>2, ConsoleInvariance, PTL DEF Spec, ServiceSpec, Service!Spec
============================================================================
