------------------------ MODULE PatternServerProofs ------------------------
(***************************************************************************)
(* Proofs about PatternServer, for any workers, corpora, numbers of        *)
(* threads, buffer sizes and number of faults.                             *)
(***************************************************************************)
EXTENDS PatternServer, TLAPS, FiniteSetTheorems, SequenceTheorems

----------------------------------------------------------------------------
(* Types.                                                                   *)

\* The constants, one by one.
LEMMA Sizes ==
    /\ THREAD_NUM \in Nat \ {0} /\ JSON_BUF_MAX_NUM \in Nat \ {0}
    /\ ParseThreads \in Nat \ {0} /\ MaxTries \in Nat \ {0} /\ MaxFaults \in Nat
BY ServerAssumption

\* The parts a number is divided into are no more than the number.
LEMMA Division ==
    ASSUME NEW a \in Nat, NEW b \in Nat \ {0}, NEW c \in Nat, c <= b
    PROVE  (a \div b) * c \in Nat /\ (a \div b) * c <= a
<1> DEFINE d == a \div b
<1>1. d \in Nat /\ d * b <= a
  OBVIOUS
<1> HIDE DEF d
<1>2. d * c \in Nat /\ d * b \in Nat /\ d * c <= d * b
  BY <1>1
<1>3. d * c \in Nat /\ d * c <= a
  BY <1>1, <1>2
<1> QED
  BY <1>3 DEF d

\* The range of a mining thread ends within the corpus.
LEMMA RangeWithin ==
    ASSUME WorkersOK, NEW w \in Workers, NEW t \in Threads
    PROVE  EndIndex(w, t) <= Len(allLinks[w]) /\ EndIndex(w, t) \in Nat
<1>1. allLinks[w] \in Seq(Link)
  BY ServerAssumption DEF WorkersOK
<1>2. /\ Len(allLinks[w]) \in Nat /\ THREAD_NUM \in Nat \ {0}
      /\ t + 1 \in Nat /\ t + 1 <= THREAD_NUM
  BY <1>1, Sizes DEF Threads
<1>3. /\ linksPerThread(w) * (t + 1) \in Nat
      /\ linksPerThread(w) * (t + 1) <= Len(allLinks[w])
  BY <1>2, Division DEF linksPerThread
<1> QED
  BY <1>2, <1>3 DEF EndIndex

\* A message taken out of the middle leaves a sequence of messages.
LEMMA RemoveAtType ==
    ASSUME NEW S, NEW s \in Seq(S), NEW i \in 1 .. Len(s)
    PROVE  RemoveAt(s, i) \in Seq(S)
<1>1. Len(s) \in Nat
  OBVIOUS
<1>2. SubSeq(s, 1, i - 1) \in Seq(S) /\ SubSeq(s, i + 1, Len(s)) \in Seq(S)
  BY <1>1, SubSeqProperties
<1> QED
  BY <1>2, ConcatProperties DEF RemoveAt

\* A worker that has an attempt to report its stop before it has some left.
TriesRemain ==
    \A w \in Workers : state[w] \in {"start", "mining", "reporting"} => tries[w] < MaxTries

\* The steps of the workers, and what they leave alone.
WorkersMove(w) ==
    WorkerStep(w) \/ WorkerOperatorAnswers(w) \/ \E t \in Threads : MinerStep(w, t)

\* A worker's step keeps the types of its variables.
LEMMA WorkersStep ==
    ASSUME WorkersOK, TriesRemain, NEW w \in Workers, WorkersMove(w)
    PROVE  (WorkersOK /\ TriesRemain)'
<1> USE Sizes DEF TriesRemain
<1>1. ASSUME NEW o \in Outcome, launchADistributedWorker(w, o)
      PROVE  (WorkersOK /\ TriesRemain)'
  BY <1>1 DEF launchADistributedWorker, WorkersOK
<1>2. ASSUME NEW t \in Threads, NextLink(w, t)
      PROVE  (WorkersOK /\ TriesRemain)'
  <2> DEFINE th == thread[w][t]
             link == allLinks[w][th.index + 1]
  <2>1. th \in Thread /\ allLinks[w] \in Seq(Link)
    BY ServerAssumption DEF WorkersOK
  <2>2. CASE th.index < EndIndex(w, t)
    <3>1. link \in Link
      <4>1. th.index + 1 \in 1 .. Len(allLinks[w])
        BY <2>1, <2>2, RangeWithin DEF Thread
      <4> QED
        BY <2>1, <4>1
    <3>2. th.index + 1 \in Nat /\ (IF link.ignored THEN <<>> ELSE link.infos) \in Seq(Info)
      BY <2>1, <3>1 DEF Thread, Link
    <3> DEFINE new == [th EXCEPT !.index = @ + 1,
                                 !.left = IF link.ignored THEN <<>> ELSE link.infos]
    <3>3. new \in Thread
      BY <2>1, <3>2 DEF Thread
    <3>4. /\ thread' = [thread EXCEPT ![w][t].index = @ + 1,
                                      ![w][t].left = IF link.ignored THEN <<>> ELSE link.infos]
          /\ UNCHANGED <<allLinks, state, tries>>
          /\ actualProcessedLinkNum' =
               [actualProcessedLinkNum EXCEPT ![w] = IF link.ignored THEN @ ELSE @ + 1]
      <4>1. EndIndex(w, t) \in Nat /\ th.index \in Nat
        BY <2>1, RangeWithin DEF Thread
      <4>2. ~(th.index >= EndIndex(w, t))
        BY <2>2, <4>1
      <4>3. /\ thread' = [thread EXCEPT ![w][t].index = AfterLink(@, link),
                                        ![w][t].left = IF link.ignored THEN <<>> ELSE link.infos]
            /\ actualProcessedLinkNum' =
                 [actualProcessedLinkNum EXCEPT ![w] = IF link.ignored THEN @ ELSE @ + 1]
        BY <1>2, <4>2, Zenon DEF NextLink
      <4>4. UNCHANGED <<allLinks, state, tries>>
        BY <1>2 DEF NextLink
      <4> QED
        BY <4>3, <4>4, Zenon DEF AfterLink
    <3> HIDE DEF link
    <3>5. thread' = [thread EXCEPT ![w][t] = new]
      BY <3>4 DEF WorkersOK, Thread
    <3> HIDE DEF new
    <3>6. thread' \in [Workers -> [Threads -> Thread]]
      BY <3>3, <3>5 DEF WorkersOK
    <3> QED
      BY <3>4, <3>6 DEF WorkersOK
  <2>3. CASE ~(th.index < EndIndex(w, t))
    <3>1. PICK p \in {"end", "flush"} : thread' = [thread EXCEPT ![w][t].pc = p]
      BY <1>2, <2>3 DEF NextLink
    <3>2. UNCHANGED <<allLinks, state, tries, actualProcessedLinkNum>>
      BY <1>2, <2>3 DEF NextLink
    <3>3. [th EXCEPT !.pc = p] \in Thread
      BY <2>1 DEF Thread
    <3>4. thread' \in [Workers -> [Threads -> Thread]]
      BY <3>1, <3>3 DEF WorkersOK
    <3> QED
      BY <3>2, <3>4 DEF WorkersOK
  <2> QED
    BY <2>2, <2>3
<1>3. ASSUME NEW t \in Threads, addPatternsToJsonArrayBuf(w, t)
      PROVE  (WorkersOK /\ TriesRemain)'
  <2> DEFINE th == thread[w][t]
             item == [info |-> Head(th.left), from |-> w, facts |-> ProcessedFactsNum(w)]
  <2>1. th \in Thread /\ th.left # <<>> /\ th.left \in Seq(Info) /\ th.array \in Seq(Item)
    BY <1>3 DEF WorkersOK, Thread, addPatternsToJsonArrayBuf
  <2>2. Head(th.left) \in Info /\ Tail(th.left) \in Seq(Info)
    BY <2>1
  <2>3. item \in Item
    BY <2>2 DEF Item, ProcessedFactsNum, WorkersOK
  <2>4. Append(th.array, item) \in Seq(Item)
    BY <2>1, <2>3
  <2> HIDE DEF item
  <2> DEFINE p == IF Len(Append(th.array, item)) >= JSON_BUF_MAX_NUM THEN "send" ELSE "next"
  <2>5. thread' = [thread EXCEPT ![w][t].left = Tail(@), ![w][t].array = Append(th.array, item),
                                 ![w][t].pc = p]
    BY <1>3 DEF addPatternsToJsonArrayBuf, item
  <2> HIDE DEF p
  <2>6. [th EXCEPT !.left = Tail(th.left), !.array = Append(th.array, item), !.pc = p] \in Thread
    <3>1. p \in {"send", "next"}
      BY DEF p
    <3> QED
      BY <2>1, <2>2, <2>4, <3>1 DEF Thread
  <2>7. thread' \in [Workers -> [Threads -> Thread]]
    <3> DEFINE new == [th EXCEPT !.left = Tail(th.left), !.array = Append(th.array, item), !.pc = p]
    <3>1. thread' = [thread EXCEPT ![w][t] = new]
      BY <2>5 DEF WorkersOK, Thread
    <3> HIDE DEF new
    <3>2. new \in Thread
      BY <2>6 DEF new
    <3> QED
      BY <3>1, <3>2 DEF WorkersOK
  <2> QED
    BY <1>3, <2>7 DEF addPatternsToJsonArrayBuf, WorkersOK
<1>4. ASSUME NEW t \in Threads, NEW o \in Outcome, sendPatternsToCentralServer(w, t, o)
      PROVE  (WorkersOK /\ TriesRemain)'
  <2> DEFINE th == thread[w][t]
  <2>1. CASE o # "ok"
    BY <1>4, <2>1 DEF sendPatternsToCentralServer, WorkersOK
  <2>2. CASE o = "ok"
    <3>1. PICK p \in {"next", "end"} :
            thread' = [thread EXCEPT ![w][t] = [th EXCEPT !.array = <<>>, !.pc = p]]
      BY <1>4, <2>2 DEF sendPatternsToCentralServer, WorkersOK, Thread
    <3>2. [th EXCEPT !.array = <<>>, !.pc = p] \in Thread
      <4>1. th \in Thread
        BY DEF WorkersOK
      <4>2. <<>> \in Seq(Item)
        OBVIOUS
      <4> QED
        BY <4>1, <4>2 DEF Thread
    <3>3. thread' \in [Workers -> [Threads -> Thread]]
      BY <3>1, <3>2 DEF WorkersOK
    <3> QED
      BY <1>4, <3>3 DEF sendPatternsToCentralServer, WorkersOK
  <2> QED
    BY <2>1, <2>2
<1>5. CASE JoinMiners(w)
  BY <1>5 DEF JoinMiners, WorkersOK
<1>6. ASSUME NEW o \in Outcome, notifyServerThisWorkerStop(w, o)
      PROVE  (WorkersOK /\ TriesRemain)'
  BY <1>6 DEF notifyServerThisWorkerStop, TriesLeft, WorkersOK
<1>7. CASE WorkerOperatorAnswers(w)
  <2>1. /\ UNCHANGED <<allLinks, thread, actualProcessedLinkNum>>
        /\ \/ state' = [state EXCEPT ![w] = "reporting"] /\ tries' = [tries EXCEPT ![w] = 0]
           \/ state' = [state EXCEPT ![w] = "gone"] /\ UNCHANGED tries
    BY <1>7 DEF WorkerOperatorAnswers
  <2>2. CASE state' = [state EXCEPT ![w] = "reporting"] /\ tries' = [tries EXCEPT ![w] = 0]
    <3>1. tries' \in [Workers -> 0 .. MaxTries]
      BY <2>2 DEF WorkersOK
    <3> QED
      BY <2>1, <2>2, <3>1 DEF WorkersOK
  <2>3. CASE state' = [state EXCEPT ![w] = "gone"] /\ UNCHANGED tries
    BY <2>1, <2>3 DEF WorkersOK
  <2> QED
    BY <2>1, <2>2, <2>3
<1> QED
  BY <1>1, <1>2, <1>3, <1>4, <1>5, <1>6, <1>7 DEF WorkersMove, WorkerStep, MinerStep

----------------------------------------------------------------------------
(* The server.                                                              *)

\* The parse threads have been joined when the main thread goes on.
Joined == main # "parsing" => \A q \in DOMAIN parser : parser[q].pc = "returned"

\* A thread that has found, counted or entered its pattern has its node.
HasNode == {"known", "counted", "parent", "newParent", "relation"}

\* What is known of the numbers in a parse thread when there are k nodes.
RefsOK(r, k) ==
    /\ r.pc \in Busy => r.node <= k /\ r.parent <= k
    /\ r.pc \in HasNode => r.node > 0
    /\ r.pc = "relation" => r.parent > 0
    /\ r.pc \in {"parent", "newParent"} => r.item.info.parent # None

NodeRefs == \A q \in DOMAIN parser : RefsOK(parser[q], Len(nodes))

\* What is in the parse threads and in the nodes is well-formed.
ServerInv ==
    /\ WorkersOK /\ TriesRemain /\ ClientsOK /\ InboxOK /\ ParsersOK /\ FoundOK
    /\ faults \in 0 .. MaxFaults
    /\ Joined /\ NodeRefs

\* The steps that touch nothing but the workers and the lists of the clients.
LEMMA OutsideStep ==
    ASSUME NEW w \in Workers, WorkersMove(w)
    PROVE  UNCHANGED <<found, server, waitForParsePatternQueue, total_pattern_received>>
BY DEF WorkersMove, WorkerStep, MinerStep, launchADistributedWorker, JoinMiners,
       notifyServerThisWorkerStop, WorkerOperatorAnswers, NextLink, addPatternsToJsonArrayBuf,
       sendPatternsToCentralServer, inbox

\* A parse thread leaves the workers and what they have posted alone.
LEMMA ParserFrame ==
    ASSUME NEW q \in Parsers, ParserStep(q)
    PROVE  /\ UNCHANGED <<worker, answered, total_pattern_received, main>>
           /\ UNCHANGED <<pattern_parse_thread_num, faults, allWorkersStop, waitingForNewClients>>
           /\ q \in DOMAIN parser
BY DEF ParserStep, PopPattern, FindQueueEmpty, ReadAllWorkersStop, ReadWaitingForNewClients,
       RecordFacts, FindPattern, CountAgain, InsertPattern, ListPattern, FindParent,
       InsertParent, AddRelation, At, Parsing, inbox, clients

\* Every request to the server keeps the number of faults within its bound.
LEMMA FaultsBounded ==
    ASSUME faults \in 0 .. MaxFaults, Next
    PROVE  faults' \in 0 .. MaxFaults
<1> USE Sizes
<1>1. ASSUME NEW o \in Outcome, sendRequest(o)
      PROVE  faults' \in 0 .. MaxFaults
  BY <1>1 DEF sendRequest
<1>2. ASSUME NEW i \in DOMAIN answered, BodyLost(i)
      PROVE  faults' \in 0 .. MaxFaults
  BY <1>2 DEF BodyLost
<1>3. CASE UNCHANGED faults
  BY <1>3
<1>4. ASSUME NEW w \in Workers, WorkersMove(w)
      PROVE  UNCHANGED faults \/ \E o \in Outcome : sendRequest(o)
  BY <1>4 DEF WorkersMove, WorkerStep, MinerStep, launchADistributedWorker, JoinMiners,
       notifyServerThisWorkerStop, WorkerOperatorAnswers, NextLink, addPatternsToJsonArrayBuf,
       sendPatternsToCentralServer
<1> QED
  BY <1>1, <1>2, <1>3, <1>4, ParserFrame
  DEF Next, WorkersMove, HandlerStep, EnqueuePatterns, MainStep, JoinParsers,
      centralServerEvaluateInterestingness, ServerOperatorAnswers, KeepWaiting, StartEvaluating,
      Over, vars

\* No step of a handler or of the main thread spoils the types.
LEMMA InboxStep ==
    ASSUME InboxOK, WorkersOK, Next
    PROVE  InboxOK'
<1>1. ASSUME NEW w \in Workers, NEW t \in Threads, NEW o \in Outcome,
             sendPatternsToCentralServer(w, t, o)
      PROVE  InboxOK'
  <2>1. thread[w][t].array \in Seq(Item)
    BY DEF WorkersOK, Thread
  <2> QED
    BY <1>1, <2>1 DEF sendPatternsToCentralServer, InboxOK
<1>2. ASSUME NEW i \in DOMAIN answered, EnqueuePatterns(i)
      PROVE  InboxOK'
  <2>1. i \in 1 .. Len(answered) /\ answered[i] \in Seq(Item)
    BY DEF InboxOK
  <2>2. answered' \in Seq(Seq(Item))
    BY <1>2, <2>1, RemoveAtType DEF EnqueuePatterns, InboxOK
  <2>3. waitForParsePatternQueue' \in Seq(Item)
    BY <1>2, <2>1, ConcatProperties DEF EnqueuePatterns, InboxOK
  <2>4. total_pattern_received' \in Nat
    BY <1>2, <2>1 DEF EnqueuePatterns, InboxOK
  <2> QED
    BY <2>2, <2>3, <2>4 DEF InboxOK
<1>3. ASSUME NEW i \in DOMAIN answered, BodyLost(i)
      PROVE  InboxOK'
  <2>1. i \in 1 .. Len(answered)
    BY DEF InboxOK
  <2>2. answered' \in Seq(Seq(Item))
    BY <1>3, <2>1, RemoveAtType DEF BodyLost, InboxOK
  <2> QED
    BY <1>3, <2>2 DEF BodyLost, InboxOK
<1>4. ASSUME NEW q \in Parsers, PopPattern(q)
      PROVE  InboxOK'
  BY <1>4 DEF PopPattern, InboxOK
<1>5. CASE UNCHANGED inbox
  BY <1>5 DEF inbox, InboxOK
<1>6. ASSUME NEW w \in Workers, WorkersMove(w)
      PROVE  \/ UNCHANGED inbox
             \/ \E t \in Threads, o \in Outcome : sendPatternsToCentralServer(w, t, o)
  BY <1>6 DEF WorkersMove, WorkerStep, MinerStep, launchADistributedWorker, JoinMiners,
       notifyServerThisWorkerStop, WorkerOperatorAnswers, NextLink, addPatternsToJsonArrayBuf
<1>7. ASSUME NEW q \in Parsers, ParserStep(q)
      PROVE  UNCHANGED inbox \/ PopPattern(q)
  BY <1>7
  DEF ParserStep, FindQueueEmpty, ReadAllWorkersStop, ReadWaitingForNewClients,
      RecordFacts, FindPattern, CountAgain, InsertPattern, ListPattern, FindParent,
      InsertParent, AddRelation, Parsing
<1>8. ASSUME MainStep \/ ServerOperatorAnswers \/ Over
      PROVE  UNCHANGED inbox
  BY <1>8 DEF MainStep, JoinParsers, centralServerEvaluateInterestingness,
              ServerOperatorAnswers, KeepWaiting, StartEvaluating, Over, vars
<1> QED
  BY <1>1, <1>2, <1>3, <1>4, <1>5, <1>6, <1>7, <1>8 DEF Next, WorkersMove, HandlerStep

\* The lists of the clients hold the two keys of a worker and no other.
LEMMA ClientsStep ==
    ASSUME ClientsOK, ParsersOK, Next
    PROVE  ClientsOK'
<1>1. ASSUME NEW w \in Workers, handleRegisterNewWorker(w)
      PROVE  ClientsOK'
  <2> DEFINE key == <<"query", w>>
             first == [working |-> TRUE, facts |-> 0]
  <2>1. key \in ClientKey /\ first \in [working : BOOLEAN, facts : Nat]
    BY DEF ClientKey
  <2>2. /\ allWorkers' = [k \in DOMAIN allWorkers \cup {key} |->
                            IF k \in DOMAIN allWorkers THEN allWorkers[k] ELSE first]
        /\ allWorkersStop' = FALSE /\ waitingForNewClients' = FALSE
    BY <1>1 DEF handleRegisterNewWorker
  <2> HIDE DEF key, first
  <2>3. {allWorkersStop, waitingForNewClients}' \subseteq BOOLEAN
    BY <2>2
  <2>4. DOMAIN allWorkers' = DOMAIN allWorkers \cup {key}
    BY <2>2
  <2>5. allWorkers' \in [DOMAIN allWorkers' -> [working : BOOLEAN, facts : Nat]]
    BY <2>1, <2>2, <2>4 DEF ClientsOK
  <2> QED
    BY <2>1, <2>3, <2>4, <2>5 DEF ClientsOK
<1>2. ASSUME NEW w \in Workers, handleReportWorkerStop(w)
      PROVE  ClientsOK'
  <2> DEFINE k == <<"query", w>>
  <2>1. CASE k \in DOMAIN allWorkers
    <3>1. allWorkers' = [allWorkers EXCEPT ![k].working = FALSE] /\ UNCHANGED waitingForNewClients
      BY <1>2, <2>1 DEF handleReportWorkerStop
    <3>2. allWorkersStop' \in BOOLEAN
      BY <1>2, <2>1, Zenon DEF handleReportWorkerStop, checkIfAllWorkersStopWorking
    <3>3. /\ DOMAIN allWorkers' = DOMAIN allWorkers
          /\ allWorkers' \in [DOMAIN allWorkers -> [working : BOOLEAN, facts : Nat]]
      BY <3>1 DEF ClientsOK
    <3> QED
      BY <3>1, <3>2, <3>3 DEF ClientsOK
  <2>2. CASE k \notin DOMAIN allWorkers
    BY <1>2, <2>2 DEF handleReportWorkerStop, ClientsOK
  <2> QED
    BY <2>1, <2>2
<1>3. ASSUME NEW q \in Parsers, RecordFacts(q)
      PROVE  ClientsOK'
  <2> DEFINE item == parser[q].item
             key == <<"json", item.from>>
  <2>1. q \in DOMAIN parser /\ parser[q].pc = "facts" /\ parser[q] \in Parser
    BY <1>3 DEF RecordFacts, At, ParsersOK
  <2>2. item \in Item
    BY <2>1 DEF Parser, Resting
  <2>3. key \in ClientKey /\ item.facts \in Nat
    BY <2>2 DEF Item, ClientKey
  <2>4. /\ allWorkers' = [k \in DOMAIN allWorkers \cup {key} |->
              IF k # key THEN allWorkers[k]
              ELSE [working |-> IF k \in DOMAIN allWorkers THEN allWorkers[k].working ELSE FALSE,
                    facts |-> item.facts]]
        /\ UNCHANGED <<allWorkersStop, waitingForNewClients>>
    BY <1>3 DEF RecordFacts
  <2> HIDE DEF item, key
  <2> QED
    BY <2>3, <2>4 DEF ClientsOK
<1>4. CASE KeepWaiting
  BY <1>4 DEF KeepWaiting, ClientsOK
<1>5. CASE UNCHANGED clients
  BY <1>5 DEF clients, ClientsOK
<1>6. ASSUME NEW w \in Workers, WorkersMove(w)
      PROVE  UNCHANGED clients \/ handleRegisterNewWorker(w) \/ handleReportWorkerStop(w)
  BY <1>6 DEF WorkersMove, WorkerStep, MinerStep, launchADistributedWorker, JoinMiners,
       notifyServerThisWorkerStop, WorkerOperatorAnswers, NextLink, addPatternsToJsonArrayBuf,
       sendPatternsToCentralServer
<1>7. ASSUME NEW q \in Parsers, ParserStep(q)
      PROVE  UNCHANGED clients \/ RecordFacts(q)
  BY <1>7
  DEF ParserStep, PopPattern, FindQueueEmpty, ReadAllWorkersStop, ReadWaitingForNewClients,
      FindPattern, CountAgain, InsertPattern, ListPattern, FindParent, InsertParent, AddRelation
<1>8. ASSUME MainStep \/ HandlerStep \/ StartEvaluating \/ Over
      PROVE  UNCHANGED clients
  BY <1>8 DEF MainStep, JoinParsers, centralServerEvaluateInterestingness, HandlerStep,
              EnqueuePatterns, BodyLost, StartEvaluating, Over, vars
<1> QED
  BY <1>1, <1>2, <1>3, <1>4, <1>5, <1>6, <1>7, <1>8 DEF Next, WorkersMove, ServerOperatorAnswers

----------------------------------------------------------------------------
(* The parse threads.                                                       *)

\* A thread with a pattern in its hands.
BusyParser == [pc : Busy, item : Item, node : Nat, parent : Nat]

\* What a thread in the middle of parseAPatternTask holds.
LEMMA BusyRecord ==
    ASSUME ParsersOK, NEW q \in DOMAIN parser, parser[q].pc \in Busy
    PROVE  /\ parser[q] \in BusyParser
           /\ parser[q].item.info.pattern \in Patterns
           /\ parser[q].item.info.parent \in Patterns \cup {None}
<1>1. parser[q] \in Parser
  BY DEF ParsersOK
<1>2. parser[q] \in BusyParser
  BY <1>1 DEF Parser, Resting, Busy, BusyParser
<1>3. parser[q].item \in Item
  BY <1>2 DEF BusyParser
<1> QED
  BY <1>2, <1>3 DEF Item, Info

\* A thread goes on with its pattern.
LEMMA GoesOn ==
    ASSUME NEW s \in BusyParser, NEW l \in Busy, NEW r, r = [s EXCEPT !.pc = l]
    PROVE  /\ r \in Parser /\ r.pc = l /\ r.item = s.item
           /\ r.node = s.node /\ r.parent = s.parent
<1>1. /\ r \in BusyParser /\ r.pc = l /\ r.item = s.item
      /\ r.node = s.node /\ r.parent = s.parent
  BY DEF BusyParser
<1>2. BusyParser \subseteq Parser
  BY DEF BusyParser, Parser
<1> QED
  BY <1>1, <1>2

\* The new record of a parse thread that took a step.
Moved(q, r) == r \in Parser /\ parser' = [parser EXCEPT ![q] = r]

\* The pattern is taken from the queue, or the thread looks at the flags.
LEMMA RestingStep ==
    ASSUME InboxOK, ParsersOK, FoundOK, NEW q \in Parsers,
           PopPattern(q) \/ FindQueueEmpty(q) \/ ReadAllWorkersStop(q) \/ ReadWaitingForNewClients(q)
    PROVE  \E r : Moved(q, r) /\ RefsOK(r, Len(nodes)) /\ (r.pc = "facts" \/ r.pc \in Resting)
<1> USE DEF At, GoTo
<1>1. Len(nodes) \in Nat
  BY DEF FoundOK
<1>2. CASE PopPattern(q)
  <2>1. Head(waitForParsePatternQueue) \in Item
    BY <1>2 DEF PopPattern, InboxOK
  <2> DEFINE r == [pc |-> "facts", item |-> Head(waitForParsePatternQueue), node |-> 0, parent |-> 0]
  <2>2. r \in Parser
    BY <2>1 DEF Parser, Busy
  <2>3. parser' = [parser EXCEPT ![q] = r]
    BY <1>2 DEF PopPattern
  <2>4. RefsOK(r, Len(nodes)) /\ r.pc = "facts"
    BY <1>1 DEF RefsOK, HasNode
  <2> HIDE DEF r
  <2> QED
    BY <2>2, <2>3, <2>4 DEF Moved
<1>3. CASE FindQueueEmpty(q) \/ ReadAllWorkersStop(q) \/ ReadWaitingForNewClients(q)
  <2>1. PICK l \in Resting : parser' = [parser EXCEPT ![q].pc = l]
    BY <1>3 DEF FindQueueEmpty, ReadAllWorkersStop, ReadWaitingForNewClients, Resting
  <2>2. q \in DOMAIN parser /\ parser[q].pc \in Resting
    BY <1>3 DEF FindQueueEmpty, ReadAllWorkersStop, ReadWaitingForNewClients, Resting
  <2>3. parser[q] \in Parser
    BY <2>2 DEF ParsersOK
  <2> DEFINE r == [parser[q] EXCEPT !.pc = l]
  <2>4. r \in Parser /\ r.pc = l
    BY <2>2, <2>3 DEF Parser, Resting, Busy
  <2>5. parser' = [parser EXCEPT ![q] = r]
    BY <2>1
  <2> HIDE DEF r
  <2>6. RefsOK(r, Len(nodes))
    BY <2>4 DEF RefsOK, Resting, Busy, HasNode
  <2> QED
    BY <2>4, <2>5, <2>6 DEF Moved
<1> QED
  BY <1>2, <1>3

\* What the map said is true when it was looked up.
LookedUp(s, r) ==
    /\ r.item = s.item
    /\ \/ s.pc \in {"facts", "find"} /\ r.pc \in {"find", "known", "new"}
       \/ s.pc = "parent" /\ r.pc \in {"newParent", "relation"}
    /\ r.pc = "new" => keyStrToHTreeNodeMap[r.item.info.pattern] = 0
    /\ r.pc = "newParent" => keyStrToHTreeNodeMap[r.item.info.parent] = 0

\* The facts are recorded, or a key is looked up in the map.
LEMMA LookingStep ==
    ASSUME ParsersOK, FoundOK, NodeRefs, NEW q \in Parsers,
           RecordFacts(q) \/ FindPattern(q) \/ FindParent(q)
    PROVE  \E r : Moved(q, r) /\ RefsOK(r, Len(nodes)) /\ LookedUp(parser[q], r)
<1> USE DEF At, GoTo
<1> DEFINE s == parser[q]
<1>1. q \in DOMAIN parser /\ s.pc \in {"facts", "find", "parent"} /\ Len(nodes) \in Nat
  <2>1. q \in DOMAIN parser /\ s.pc \in {"facts", "find", "parent"}
    BY DEF RecordFacts, FindPattern, FindParent
  <2> QED
    BY <2>1 DEF FoundOK
<1>2. /\ s \in BusyParser /\ s.item.info.pattern \in Patterns
      /\ s.item.info.parent \in Patterns \cup {None} /\ RefsOK(s, Len(nodes))
  BY <1>1, BusyRecord DEF NodeRefs, Busy
<1>3. s.node <= Len(nodes) /\ s.parent <= Len(nodes)
  BY <1>1, <1>2 DEF RefsOK, Busy
<1>4. CASE RecordFacts(q)
  <2> DEFINE r == [s EXCEPT !.pc = "find"]
  <2>1. parser' = [parser EXCEPT ![q] = r] /\ s.pc = "facts"
    BY <1>4 DEF RecordFacts
  <2>2. r \in Parser /\ r.pc = "find" /\ r.node = s.node /\ r.parent = s.parent /\ r.item = s.item
    <3>1. "find" \in Busy
      BY DEF Busy
    <3> HIDE DEF s
    <3> QED
      BY <1>2, <3>1, GoesOn
  <2> HIDE DEF r
  <2>3. RefsOK(r, Len(nodes))
    BY <1>3, <2>2 DEF RefsOK, HasNode
  <2> QED
    BY <2>1, <2>2, <2>3 DEF Moved, LookedUp
<1>5. CASE FindPattern(q)
  <2> DEFINE n == keyStrToHTreeNodeMap[s.item.info.pattern]
             l == IF n = 0 THEN "new" ELSE "known"
             r == [s EXCEPT !.pc = l, !.node = n]
  <2>1. s.pc = "find"
    BY <1>5 DEF FindPattern
  <2>2. parser' = [parser EXCEPT ![q] = r]
    BY <1>2, <1>5 DEF FindPattern, BusyParser
  <2>3. n \in 0 .. Len(nodes) /\ l \in Busy /\ l \in {"new", "known"} /\ (l = "new" => n = 0)
        /\ (l = "known" => n # 0)
    BY <1>2 DEF FoundOK, Busy
  <2> HIDE DEF l
  <2>4. r \in Parser /\ r.pc = l /\ r.node = n /\ r.parent = s.parent /\ r.item = s.item
    <3>1. n \in Nat
      BY <1>1, <2>3
    <3>2. r = [s EXCEPT !.pc = l, !.node = n]
      OBVIOUS
    <3> HIDE DEF s, n, r
    <3> QED
      BY <1>2, <2>3, <3>1, <3>2 DEF BusyParser, Parser
  <2> HIDE DEF r
  <2>5. RefsOK(r, Len(nodes))
    BY <1>1, <1>3, <2>3, <2>4 DEF RefsOK, HasNode
  <2> QED
    BY <2>1, <2>2, <2>3, <2>4, <2>5 DEF Moved, LookedUp
<1>6. CASE FindParent(q)
  <2> DEFINE n == keyStrToHTreeNodeMap[s.item.info.parent]
             l == IF n = 0 THEN "newParent" ELSE "relation"
             r == [s EXCEPT !.pc = l, !.parent = n]
  <2>1. s.pc = "parent"
    BY <1>6 DEF FindParent
  <2>2. parser' = [parser EXCEPT ![q] = r]
    BY <1>2, <1>6 DEF FindParent, BusyParser
  <2>3. s.item.info.parent # None /\ s.node > 0
    BY <1>2, <2>1 DEF RefsOK, HasNode
  <2>4. n \in 0 .. Len(nodes) /\ l \in Busy /\ l \in {"newParent", "relation"} /\ (l = "newParent" => n = 0)
        /\ (l = "relation" => n # 0)
    BY <1>2, <2>3 DEF FoundOK, Busy
  <2> HIDE DEF l
  <2>5. r \in Parser /\ r.pc = l /\ r.node = s.node /\ r.parent = n /\ r.item = s.item
    <3>1. n \in Nat
      BY <1>1, <2>4
    <3>2. r = [s EXCEPT !.pc = l, !.parent = n]
      OBVIOUS
    <3> HIDE DEF s, n, r
    <3> QED
      BY <1>2, <2>4, <3>1, <3>2 DEF BusyParser, Parser
  <2> HIDE DEF r
  <2>6. RefsOK(r, Len(nodes))
    BY <1>1, <1>3, <2>3, <2>4, <2>5 DEF RefsOK, HasNode
  <2> QED
    BY <2>1, <2>2, <2>4, <2>5, <2>6 DEF Moved, LookedUp
<1> QED
  BY <1>4, <1>5, <1>6

\* A known pattern is counted: the count of one node grows by one.
LEMMA CountStep ==
    ASSUME ParsersOK, FoundOK, NodeRefs, NEW q \in Parsers, CountAgain(q)
    PROVE  LET n == parser[q].node IN
           /\ n \in DOMAIN nodes /\ nodes' \in Seq(Node) /\ Len(nodes') = Len(nodes)
           /\ \A m \in DOMAIN nodes : /\ nodes'[m].pattern = nodes[m].pattern
                                      /\ nodes'[m].count = nodes[m].count + IF m = n THEN 1 ELSE 0
           /\ q \in DOMAIN parser /\ parser[q].pc = "known"
           /\ \E r : /\ Moved(q, r) /\ RefsOK(r, Len(nodes))
                     /\ r.item = parser[q].item /\ r.pc = "counted" /\ r.node = n
<1> USE DEF At, GoTo
<1> DEFINE s == parser[q]
           n == s.node
<1>1. q \in DOMAIN parser /\ s.pc = "known" /\ Len(nodes) \in Nat
  BY DEF CountAgain, FoundOK
<1>2. s \in BusyParser /\ RefsOK(s, Len(nodes))
  BY <1>1, BusyRecord DEF NodeRefs, Busy
<1>3. n \in 1 .. Len(nodes) /\ s.parent <= Len(nodes)
  BY <1>1, <1>2 DEF RefsOK, HasNode, Busy, BusyParser
<1>4. n \in DOMAIN nodes /\ nodes[n] \in Node
  BY <1>3 DEF FoundOK
<1>5. nodes' = [nodes EXCEPT ![n] = [nodes[n] EXCEPT !.count = @ + 1]]
  BY DEF CountAgain
<1> DEFINE r == [s EXCEPT !.pc = "counted"]
           new == [nodes[n] EXCEPT !.count = @ + 1]
<1>6. parser' = [parser EXCEPT ![q] = r]
  BY DEF CountAgain
<1>7. r \in Parser /\ r.pc = "counted" /\ r.node = n /\ r.parent = s.parent /\ r.item = s.item
  <2>1. "counted" \in Busy
    BY DEF Busy
  <2> HIDE DEF s
  <2> QED
    BY <1>2, <2>1, GoesOn DEF n
<1> HIDE DEF r, n
<1>8. new \in Node /\ new.count = nodes[n].count + 1 /\ new.pattern = nodes[n].pattern
  BY <1>4 DEF Node
<1>9. nodes' = [nodes EXCEPT ![n] = new]
  BY <1>5
<1> HIDE DEF new
<1>10. nodes' \in Seq(Node) /\ Len(nodes') = Len(nodes)
  BY <1>3, <1>8, <1>9 DEF FoundOK
<1>11. RefsOK(r, Len(nodes))
  BY <1>1, <1>3, <1>7 DEF RefsOK
<1>12. ASSUME NEW m \in DOMAIN nodes
       PROVE  /\ nodes'[m].pattern = nodes[m].pattern
              /\ nodes'[m].count = nodes[m].count + IF m = n THEN 1 ELSE 0
  <2>1. nodes[m] \in Node
    BY DEF FoundOK
  <2>2. nodes[m].count + 0 = nodes[m].count
    BY <2>1 DEF Node
  <2> QED
    BY <1>4, <1>8, <1>9, <2>2
<1> QED
  BY <1>1, <1>4, <1>6, <1>7, <1>10, <1>11, <1>12 DEF Moved, n

\* A new HTreeNode is the last one.
LEMMA NewNodeStep ==
    ASSUME FoundOK, NEW p \in Patterns, NEW c \in Nat, NewNode(p, c)
    PROVE  /\ nodes' \in Seq(Node) /\ Len(nodes') = Len(nodes) + 1
           /\ \A m \in DOMAIN nodes : nodes'[m] = nodes[m]
           /\ nodes'[Len(nodes) + 1].pattern = p /\ nodes'[Len(nodes) + 1].count = c
           /\ keyStrToHTreeNodeMap' \in [Patterns -> 0 .. Len(nodes')]
<1> DEFINE new == [pattern |-> p, count |-> c, superPatternRelations |-> <<>>]
<1>1. <<>> \in Seq(Nat)
  OBVIOUS
<1>2. new \in Node /\ new.pattern = p /\ new.count = c
  BY <1>1 DEF Node
<1>3. nodes' = Append(nodes, new)
  BY DEF NewNode
<1> HIDE DEF new
<1>4. /\ nodes' \in Seq(Node) /\ Len(nodes') = Len(nodes) + 1 /\ Len(nodes) \in Nat
      /\ \A m \in DOMAIN nodes : nodes'[m] = nodes[m]
      /\ nodes'[Len(nodes) + 1] = new
  BY <1>2, <1>3 DEF FoundOK
<1>5. keyStrToHTreeNodeMap' \in [Patterns -> 0 .. Len(nodes')]
  BY <1>4 DEF NewNode, FoundOK
<1> QED
  BY <1>2, <1>4, <1>5

\* A pattern is entered as the last node, counted once, or is discarded.
LEMMA InsertStep ==
    ASSUME ParsersOK, FoundOK, NodeRefs, NEW q \in Parsers, InsertPattern(q)
    PROVE  LET p == parser[q].item.info.pattern
               n == Len(nodes) + 1
           IN  /\ q \in DOMAIN parser /\ parser[q].pc = "new" /\ p \in Patterns
               /\ \/ /\ UNCHANGED <<nodes, keyStrToHTreeNodeMap>> /\ discarded' = discarded + 1
                     /\ Moved(q, Idle)
                  \/ /\ NewNode(p, 1) /\ UNCHANGED discarded
                     /\ \E r : /\ Moved(q, r) /\ RefsOK(r, n)
                               /\ r.pc = "counted" /\ r.node = n /\ r.item = parser[q].item
<1> DEFINE s == parser[q]
           p == s.item.info.pattern
           n == Len(nodes) + 1
<1>1. q \in DOMAIN parser /\ s.pc = "new"
  BY DEF InsertPattern, At
<1>2. s \in BusyParser /\ p \in Patterns /\ RefsOK(s, Len(nodes))
  BY <1>1, BusyRecord DEF NodeRefs, Busy
<1>3. s.parent <= Len(nodes) /\ s.parent \in Nat /\ Len(nodes) \in Nat
  BY <1>1, <1>2 DEF RefsOK, Busy, BusyParser, FoundOK
<1>4. CASE p \in Invalid
  <2>1. Idle \in Parser
    BY DEF Idle, Parser, Resting
  <2> QED
    BY <1>1, <1>2, <1>4, <2>1 DEF InsertPattern, Moved
<1>5. CASE p \notin Invalid
  <2> DEFINE r == [s EXCEPT !.pc = "counted", !.node = n]
  <2>1. NewNode(p, 1) /\ UNCHANGED discarded /\ parser' = [parser EXCEPT ![q] = r]
    <3>1. NewNode(p, 1) /\ UNCHANGED discarded
      BY <1>5 DEF InsertPattern
    <3>2. parser' = [parser EXCEPT ![q].pc = "counted", ![q].node = Len(nodes) + 1]
      BY <1>5 DEF InsertPattern
    <3> HIDE DEF p, n
    <3>3. parser' = [parser EXCEPT ![q] = r]
      BY <1>2, <3>2 DEF BusyParser, n
    <3> QED
      BY <3>1, <3>3
  <2>2. n \in Nat /\ "counted" \in Busy /\ r = [s EXCEPT !.pc = "counted", !.node = n]
    BY <1>3 DEF Busy
  <2> HIDE DEF s, n, p, r
  <2>3. r \in Parser /\ r.pc = "counted" /\ r.node = n /\ r.parent = s.parent /\ r.item = s.item
    BY <1>2, <2>2 DEF BusyParser, Parser
  <2>4. RefsOK(r, n)
    BY <1>3, <2>3 DEF RefsOK, n
  <2> QED
    BY <1>1, <1>2, <2>1, <2>3, <2>4 DEF Moved, s, n, p
<1> QED
  BY <1>4, <1>5

\* The node is pushed or not, and the thread turns to the parent or is done.
LEMMA ListStep ==
    ASSUME ParsersOK, FoundOK, NodeRefs, NEW q \in Parsers, ListPattern(q)
    PROVE  LET n == parser[q].node IN
           /\ q \in DOMAIN parser /\ parser[q].pc = "counted" /\ n \in DOMAIN nodes
           /\ UNCHANGED <<nodes, keyStrToHTreeNodeMap, discarded>>
           /\ patternsForGram' \in Seq(1 .. Len(nodes))
           /\ patternsForGram' = IF nodes[n].count = 1 THEN Append(patternsForGram, n)
                                 ELSE patternsForGram
           /\ \E r : /\ Moved(q, r) /\ RefsOK(r, Len(nodes))
                     /\ r = Idle \/ (r.pc = "parent" /\ r.item = parser[q].item)
<1> DEFINE s == parser[q]
           n == s.node
<1>1. q \in DOMAIN parser /\ s.pc = "counted"
  BY DEF ListPattern, At
<1>2. s \in BusyParser /\ RefsOK(s, Len(nodes))
  BY <1>1, BusyRecord DEF NodeRefs, Busy
<1>3. /\ n \in 1 .. Len(nodes) /\ n \in DOMAIN nodes
      /\ s.parent <= Len(nodes) /\ s.parent \in Nat /\ Len(nodes) \in Nat
  BY <1>1, <1>2 DEF RefsOK, Busy, HasNode, BusyParser, FoundOK
<1>4. /\ UNCHANGED <<nodes, keyStrToHTreeNodeMap, discarded>>
      /\ patternsForGram' = IF nodes[n].count = 1 THEN Append(patternsForGram, n)
                            ELSE patternsForGram
  BY DEF ListPattern, FirstSeen
<1>5. patternsForGram' \in Seq(1 .. Len(nodes))
  <2> HIDE DEF n
  <2>1. patternsForGram \in Seq(1 .. Len(nodes))
    BY DEF FoundOK
  <2>2. Append(patternsForGram, n) \in Seq(1 .. Len(nodes))
    BY <1>3, <2>1
  <2> QED
    BY <1>4, <2>1, <2>2
<1>6. CASE s.item.info.parent = None
  <2>1. Idle \in Parser /\ RefsOK(Idle, Len(nodes))
    BY DEF Idle, Parser, Resting, RefsOK, Busy, HasNode
  <2>2. Moved(q, Idle)
    BY <1>6, <2>1 DEF ListPattern, Moved
  <2>3. \E x : /\ Moved(q, x) /\ RefsOK(x, Len(nodes))
               /\ x = Idle \/ (x.pc = "parent" /\ x.item = s.item)
    <3> HIDE DEF s
    <3> WITNESS Idle
    <3> QED
      BY <2>1, <2>2
  <2> QED
    BY <1>1, <1>3, <1>4, <1>5, <2>3
<1>7. CASE s.item.info.parent # None
  <2> DEFINE r == [s EXCEPT !.pc = "parent"]
  <2>1. parser' = [parser EXCEPT ![q] = r]
    BY <1>7 DEF ListPattern, GoTo
  <2>2. r \in Parser /\ r.pc = "parent" /\ r.node = n /\ r.parent = s.parent /\ r.item = s.item
    <3>1. "parent" \in Busy
      BY DEF Busy
    <3> HIDE DEF s
    <3> QED
      BY <1>2, <3>1, GoesOn
  <2> HIDE DEF r
  <2>3. RefsOK(r, Len(nodes))
    BY <1>3, <1>7, <2>2 DEF RefsOK
  <2>4. \E x : /\ Moved(q, x) /\ RefsOK(x, Len(nodes))
               /\ x = Idle \/ (x.pc = "parent" /\ x.item = s.item)
    BY <2>1, <2>2, <2>3 DEF Moved
  <2> QED
    BY <1>1, <1>3, <1>4, <1>5, <2>4
<1> QED
  BY <1>6, <1>7

\* The parent is entered as the last node, not counted, or is given up.
LEMMA ParentStep ==
    ASSUME ParsersOK, FoundOK, NodeRefs, NEW q \in Parsers, InsertParent(q)
    PROVE  LET p == parser[q].item.info.parent
               n == Len(nodes) + 1
           IN  /\ q \in DOMAIN parser /\ parser[q].pc = "newParent" /\ p \in Patterns
               /\ \/ UNCHANGED <<nodes, keyStrToHTreeNodeMap>> /\ Moved(q, Idle)
                  \/ /\ NewNode(p, 0)
                     /\ \E r : /\ Moved(q, r) /\ RefsOK(r, n)
                               /\ r.pc = "relation" /\ r.item = parser[q].item
<1> DEFINE s == parser[q]
           p == s.item.info.parent
           n == Len(nodes) + 1
<1>1. q \in DOMAIN parser /\ s.pc = "newParent"
  BY DEF InsertParent, At
<1>2. s \in BusyParser /\ p \in Patterns \cup {None} /\ RefsOK(s, Len(nodes))
  BY <1>1, BusyRecord DEF NodeRefs, Busy
<1>3. /\ s.node <= Len(nodes) /\ s.node \in Nat /\ s.node > 0 /\ Len(nodes) \in Nat
      /\ p \in Patterns
  BY <1>1, <1>2 DEF RefsOK, Busy, HasNode, BusyParser, FoundOK
<1>4. CASE p \in Invalid
  <2>1. Idle \in Parser
    BY DEF Idle, Parser, Resting
  <2> QED
    BY <1>1, <1>3, <1>4, <2>1 DEF InsertParent, Moved
<1>5. CASE p \notin Invalid
  <2> DEFINE r == [s EXCEPT !.pc = "relation", !.parent = n]
  <2>1. NewNode(p, 0) /\ parser' = [parser EXCEPT ![q] = r]
    <3>1. NewNode(p, 0)
      BY <1>5 DEF InsertParent
    <3>2. parser' = [parser EXCEPT ![q].pc = "relation", ![q].parent = Len(nodes) + 1]
      BY <1>5 DEF InsertParent
    <3> HIDE DEF p, n
    <3>3. parser' = [parser EXCEPT ![q] = r]
      BY <1>2, <3>2 DEF BusyParser, n
    <3> QED
      BY <3>1, <3>3
  <2>2. n \in Nat /\ "relation" \in Busy /\ r = [s EXCEPT !.pc = "relation", !.parent = n]
    BY <1>3 DEF Busy
  <2> HIDE DEF s, n, p, r
  <2>3. r \in Parser /\ r.pc = "relation" /\ r.parent = n /\ r.node = s.node /\ r.item = s.item
    BY <1>2, <2>2 DEF BusyParser, Parser
  <2>4. RefsOK(r, n)
    BY <1>3, <2>3 DEF RefsOK, n
  <2> QED
    BY <1>1, <1>3, <2>1, <2>3, <2>4 DEF Moved, s, n, p
<1> QED
  BY <1>4, <1>5

\* The relation is added to the parent; counts and patterns stay.
LEMMA RelationStep ==
    ASSUME ParsersOK, FoundOK, NodeRefs, NEW q \in Parsers, AddRelation(q)
    PROVE  /\ q \in DOMAIN parser /\ parser[q].pc = "relation"
           /\ nodes' \in Seq(Node) /\ Len(nodes') = Len(nodes)
           /\ \A m \in DOMAIN nodes : /\ nodes'[m].pattern = nodes[m].pattern
                                      /\ nodes'[m].count = nodes[m].count
           /\ Moved(q, Idle)
<1> DEFINE s == parser[q]
           n == s.parent
<1>1. q \in DOMAIN parser /\ s.pc = "relation" /\ Len(nodes) \in Nat
  BY DEF AddRelation, At, FoundOK
<1>2. s \in BusyParser /\ RefsOK(s, Len(nodes))
  BY <1>1, BusyRecord DEF NodeRefs, Busy
<1>3. n \in 1 .. Len(nodes) /\ s.node \in Nat
  BY <1>1, <1>2 DEF RefsOK, Busy, BusyParser
<1>4. n \in DOMAIN nodes /\ nodes[n] \in Node
  BY <1>3 DEF FoundOK
<1>5. nodes' = [nodes EXCEPT ![n] = [nodes[n] EXCEPT !.superPatternRelations = Append(@, s.node)]]
  BY DEF AddRelation
<1> DEFINE new == [nodes[n] EXCEPT !.superPatternRelations = Append(@, s.node)]
<1>6. Moved(q, Idle)
  BY DEF AddRelation, Moved, Idle, Parser, Resting
<1> HIDE DEF n
<1>7. Append(nodes[n].superPatternRelations, s.node) \in Seq(Nat)
  BY <1>3, <1>4 DEF Node
<1>8. new \in Node /\ new.count = nodes[n].count /\ new.pattern = nodes[n].pattern
  BY <1>4, <1>7 DEF Node
<1>9. nodes' = [nodes EXCEPT ![n] = new]
  BY <1>5
<1> HIDE DEF new
<1>10. nodes' \in Seq(Node) /\ Len(nodes') = Len(nodes)
  BY <1>3, <1>8, <1>9 DEF FoundOK
<1>11. \A m \in DOMAIN nodes : /\ nodes'[m].pattern = nodes[m].pattern
                               /\ nodes'[m].count = nodes[m].count
  BY <1>4, <1>8, <1>9
<1> QED
  BY <1>1, <1>6, <1>10, <1>11

\* What a step of one thread keeps of all of them.
LEMMA MovedKeeps ==
    ASSUME ParsersOK, NodeRefs, NEW q \in DOMAIN parser, NEW r, Moved(q, r),
           UNCHANGED <<main, pattern_parse_thread_num>>,
           Len(nodes) \in Nat, Len(nodes') \in Nat, Len(nodes) <= Len(nodes'),
           RefsOK(r, Len(nodes'))
    PROVE  /\ ParsersOK' /\ NodeRefs'
           /\ DOMAIN parser' = DOMAIN parser /\ parser'[q] = r
           /\ \A p \in DOMAIN parser : p # q => parser'[p] = parser[p]
<1>1. /\ DOMAIN parser' = DOMAIN parser /\ parser'[q] = r
      /\ \A p \in DOMAIN parser : p # q => parser'[p] = parser[p]
  BY DEF Moved
<1>2. ParsersOK'
  BY DEF Moved, ParsersOK
<1>3. ASSUME NEW p \in DOMAIN parser, p # q
      PROVE  RefsOK(parser[p], Len(nodes'))
  <2>1. CASE parser[p].pc \in Busy
    <3>1. parser[p].node \in Nat /\ parser[p].parent \in Nat
      BY <2>1, BusyRecord DEF BusyParser
    <3> QED
      BY <2>1, <3>1 DEF NodeRefs, RefsOK
  <2>2. CASE parser[p].pc \notin Busy
    BY <2>2 DEF RefsOK, Busy, HasNode
  <2> QED
    BY <2>1, <2>2
<1>4. NodeRefs'
  BY <1>1, <1>3 DEF NodeRefs
<1> QED
  BY <1>1, <1>2, <1>4

\* The nodes and the list keep their types, and a thread its numbers.
LEMMA ParserKeeps ==
    ASSUME InboxOK, ParsersOK, FoundOK, NodeRefs, NEW q \in Parsers, ParserStep(q)
    PROVE  (ParsersOK /\ FoundOK /\ NodeRefs)'
<1> DEFINE Good(r) == Moved(q, r) /\ RefsOK(r, Len(nodes'))
<1>1. /\ q \in DOMAIN parser /\ UNCHANGED <<main, pattern_parse_thread_num>>
      /\ Len(nodes) \in Nat
  BY ParserFrame DEF FoundOK
<1>2. SUFFICES /\ FoundOK' /\ Len(nodes) <= Len(nodes')
               /\ \E r : Good(r)
  <2>1. Len(nodes') \in Nat
    BY <1>2 DEF FoundOK
  <2> QED
    BY <1>1, <1>2, <2>1, MovedKeeps
<1>3. RefsOK(Idle, Len(nodes'))
  BY DEF Idle, RefsOK, Busy, HasNode
<1>4. CASE PopPattern(q) \/ FindQueueEmpty(q) \/ ReadAllWorkersStop(q) \/ ReadWaitingForNewClients(q)
  <2>1. UNCHANGED found
    BY <1>4 DEF PopPattern, FindQueueEmpty, ReadAllWorkersStop, ReadWaitingForNewClients
  <2>2. FoundOK' /\ Len(nodes') = Len(nodes)
    BY <2>1 DEF found, FoundOK
  <2> QED
    BY <1>1, <1>4, <2>2, RestingStep
<1>5. CASE RecordFacts(q) \/ FindPattern(q) \/ FindParent(q)
  <2>1. UNCHANGED found
    BY <1>5 DEF RecordFacts, FindPattern, FindParent
  <2>2. FoundOK' /\ Len(nodes') = Len(nodes)
    BY <2>1 DEF found, FoundOK
  <2>3. PICK r : Moved(q, r) /\ RefsOK(r, Len(nodes))
    BY <1>5, LookingStep
  <2> QED
    BY <1>1, <2>2, <2>3
<1>6. CASE CountAgain(q)
  <2>1. /\ nodes' \in Seq(Node) /\ Len(nodes') = Len(nodes)
        /\ \E r : Moved(q, r) /\ RefsOK(r, Len(nodes))
    BY <1>6, CountStep
  <2>2. UNCHANGED <<keyStrToHTreeNodeMap, patternsForGram, discarded>>
    BY <1>6 DEF CountAgain
  <2>3. FoundOK'
    BY <2>1, <2>2 DEF FoundOK
  <2> QED
    BY <1>1, <2>1, <2>3
<1>7. CASE InsertPattern(q) \/ InsertParent(q)
  <2>1. /\ UNCHANGED patternsForGram
        /\ discarded' \in {discarded, discarded + 1}
    BY <1>7 DEF InsertPattern, InsertParent
  <2>2. CASE UNCHANGED <<nodes, keyStrToHTreeNodeMap>> /\ Moved(q, Idle)
    <3>1. FoundOK' /\ Len(nodes') = Len(nodes)
      BY <2>1, <2>2 DEF FoundOK
    <3> QED
      BY <1>1, <1>3, <2>2, <3>1
  <2>3. ASSUME NEW p \in Patterns, NEW c \in Nat, NewNode(p, c),
               NEW r, Moved(q, r), RefsOK(r, Len(nodes) + 1)
        PROVE  FoundOK' /\ Len(nodes) <= Len(nodes') /\ \E x : Good(x)
    <3>1. /\ nodes' \in Seq(Node) /\ Len(nodes') = Len(nodes) + 1
          /\ keyStrToHTreeNodeMap' \in [Patterns -> 0 .. Len(nodes')]
      BY <2>3, NewNodeStep
    <3>2. 1 .. Len(nodes) \subseteq 1 .. Len(nodes')
      BY <1>1, <3>1
    <3>3. patternsForGram' \in Seq(1 .. Len(nodes'))
      <4>1. patternsForGram \in Seq(1 .. Len(nodes))
        BY DEF FoundOK
      <4> QED
        BY <2>1, <3>2, <4>1, SeqMonotonic
    <3>4. FoundOK'
      BY <2>1, <3>1, <3>3 DEF FoundOK
    <3> QED
      BY <1>1, <2>3, <3>1, <3>4
  <2>4. CASE InsertPattern(q)
    BY <2>2, <2>3, <2>4, InsertStep
  <2>5. CASE InsertParent(q)
    BY <2>2, <2>3, <2>5, ParentStep
  <2> QED
    BY <1>7, <2>4, <2>5
<1>8. CASE ListPattern(q)
  <2>1. /\ UNCHANGED <<nodes, keyStrToHTreeNodeMap, discarded>>
        /\ patternsForGram' \in Seq(1 .. Len(nodes))
        /\ \E r : Moved(q, r) /\ RefsOK(r, Len(nodes))
    BY <1>8, ListStep
  <2>2. FoundOK'
    BY <2>1 DEF FoundOK
  <2> QED
    BY <1>1, <2>1, <2>2
<1>9. CASE AddRelation(q)
  <2>1. nodes' \in Seq(Node) /\ Len(nodes') = Len(nodes) /\ Moved(q, Idle)
    BY <1>9, RelationStep
  <2>2. UNCHANGED <<keyStrToHTreeNodeMap, patternsForGram, discarded>>
    BY <1>9 DEF AddRelation
  <2>3. FoundOK'
    BY <2>1, <2>2 DEF FoundOK
  <2> QED
    BY <1>1, <1>3, <2>1, <2>3
<1> QED
  BY <1>4, <1>5, <1>6, <1>7, <1>8, <1>9 DEF ParserStep

----------------------------------------------------------------------------
(* Type correctness.                                                        *)

\* Every step keeps the invariant of the types.
LEMMA ServerStep ==
    ASSUME ServerInv, [Next]_vars
    PROVE  ServerInv'
<1> USE DEF ServerInv
<1>1. CASE UNCHANGED vars
  BY <1>1 DEF vars, worker, found, clients, inbox, server, WorkersOK, TriesRemain, ClientsOK,
              InboxOK, ParsersOK, FoundOK, Joined, NodeRefs
<1>2. CASE Next
  <2>1. ClientsOK' /\ InboxOK' /\ (faults \in 0 .. MaxFaults)'
    BY <1>2, ClientsStep, InboxStep, FaultsBounded
  <2>2. ASSUME UNCHANGED worker
        PROVE  (WorkersOK /\ TriesRemain)'
    BY <2>2 DEF worker, WorkersOK, TriesRemain
  <2>3. ASSUME UNCHANGED <<found, server>>
        PROVE  (ParsersOK /\ FoundOK /\ Joined /\ NodeRefs)'
    BY <2>3 DEF found, server, ParsersOK, FoundOK, Joined, NodeRefs
  <2>4. ASSUME NEW w \in Workers, WorkersMove(w)
        PROVE  ServerInv'
    BY <2>1, <2>3, <2>4, OutsideStep, WorkersStep
  <2>5. ASSUME NEW q \in Parsers, ParserStep(q)
        PROVE  ServerInv'
    <3>1. UNCHANGED <<worker, main>> /\ q \in DOMAIN parser
      BY <2>5, ParserFrame
    <3>2. parser[q].pc # "returned"
      BY <2>5 DEF ParserStep, PopPattern, FindQueueEmpty, ReadAllWorkersStop,
           ReadWaitingForNewClients, RecordFacts, FindPattern, CountAgain, InsertPattern,
           ListPattern, FindParent, InsertParent, AddRelation, At
    <3>3. Joined'
      BY <3>1, <3>2 DEF Joined
    <3> QED
      BY <2>1, <2>2, <2>5, <3>1, <3>3, ParserKeeps
  <2>6. CASE HandlerStep
    BY <2>1, <2>2, <2>3, <2>6 DEF HandlerStep, EnqueuePatterns, BodyLost
  <2>7. CASE MainStep \/ StartEvaluating
    <3>1. /\ UNCHANGED <<worker, found, parser, pattern_parse_thread_num>>
          /\ main' \in {"ask", "evaluating", "exited"}
          /\ \A q \in DOMAIN parser : parser[q].pc = "returned"
      BY <2>7 DEF MainStep, JoinParsers, centralServerEvaluateInterestingness, StartEvaluating, Joined
    <3>2. (ParsersOK /\ FoundOK /\ Joined /\ NodeRefs)'
      BY <3>1 DEF found, ParsersOK, FoundOK, Joined, NodeRefs
    <3> QED
      BY <2>1, <2>2, <3>1, <3>2
  <2>8. CASE KeepWaiting
    <3>1. /\ UNCHANGED <<worker, found, pattern_parse_thread_num>> /\ main' = "parsing"
          /\ parser' = [q \in DOMAIN parser |-> Idle]
      BY <2>8 DEF KeepWaiting
    <3>2. Idle \in Parser /\ \A k : RefsOK(Idle, k)
      BY DEF Idle, Parser, Resting, RefsOK, Busy, HasNode
    <3>3. (ParsersOK /\ FoundOK /\ Joined /\ NodeRefs)'
      BY <3>1, <3>2 DEF found, ParsersOK, FoundOK, Joined, NodeRefs
    <3> QED
      BY <2>1, <2>2, <3>1, <3>3
  <2>9. CASE Over
    BY <1>1, <2>9 DEF Over
  <2> QED
    BY <1>2, <2>4, <2>5, <2>6, <2>7, <2>8, <2>9
    DEF Next, WorkersMove, MainStep, ServerOperatorAnswers
<1> QED
  BY <1>1, <1>2

\* The invariant of the types holds when the server and the workers start.
LEMMA ServerStarts == Init => ServerInv
<1> SUFFICES ASSUME Init PROVE ServerInv
  OBVIOUS
<1> USE Sizes DEF Init
<1>1. WorkersOK /\ TriesRemain
  <2>1. ASSUME NEW w \in Workers, NEW t \in Threads
        PROVE  [pc |-> "next", index |-> StartIndex(w, t), left |-> <<>>, array |-> <<>>] \in Thread
    <3>1. allLinks[w] \in Seq(Link)
      BY ServerAssumption
    <3>2. Len(allLinks[w]) \in Nat /\ t \in Nat /\ t <= THREAD_NUM
      BY <3>1 DEF Threads
    <3>3. StartIndex(w, t) \in Nat
      BY <3>2, Division DEF StartIndex, linksPerThread
    <3>4. <<>> \in Seq(Info) /\ <<>> \in Seq(Item)
      OBVIOUS
    <3> QED
      BY <3>3, <3>4 DEF Thread
  <2>2. thread \in [Workers -> [Threads -> Thread]]
    BY <2>1
  <2> QED
    BY <2>2 DEF WorkersOK, TriesRemain
<1>2. ClientsOK
  <2>1. DOMAIN allWorkers = {}
    OBVIOUS
  <2>2. {allWorkersStop, waitingForNewClients} \subseteq BOOLEAN
    OBVIOUS
  <2> QED
    BY <2>1, <2>2 DEF ClientsOK
<1>3. InboxOK
  BY DEF InboxOK
<1>4. Idle \in Parser /\ \A k : RefsOK(Idle, k)
  BY DEF Idle, Parser, Resting, RefsOK, Busy, HasNode
<1>5. ParsersOK /\ Joined /\ NodeRefs
  BY <1>4 DEF ParsersOK, Joined, NodeRefs
<1>6. FoundOK
  <2>1. nodes \in Seq(Node) /\ Len(nodes) = 0 /\ patternsForGram \in Seq(1 .. Len(nodes))
    OBVIOUS
  <2> QED
    BY <2>1 DEF FoundOK
<1> QED
  BY <1>1, <1>2, <1>3, <1>5, <1>6 DEF ServerInv

\* The invariant of the types holds in every state of the distributed miner.
LEMMA ServerInvariant == Spec => []ServerInv
BY ServerStarts, ServerStep, PTL DEF Spec

\* No step of a worker, a handler, a parse thread or the main thread takes
\* a variable out of its type or leaves a number that is not a node's.
THEOREM TypeCorrect == Spec => []TypeOK
<1>1. ServerInv => TypeOK
  <2> SUFFICES ASSUME ServerInv PROVE TypeOK
    OBVIOUS
  <2> QED
    BY DEF ServerInv, NodeRefs, RefsOK, TypeOK
<1> QED
  BY <1>1, ServerInvariant, PTL

----------------------------------------------------------------------------
(* Nothing that was received is lost.                                       *)

\* The counts together are finite, and everything received is accounted for.
Accounted == IsFiniteSet(Occurrences) /\ ReceivedAccounted

\* A set that has gained one element, and one that has lost one.
LEMMA OneMore ==
    ASSUME NEW S, IsFiniteSet(S), NEW x, x \notin S, NEW T, T = S \cup {x}
    PROVE  IsFiniteSet(T) /\ Cardinality(T) = Cardinality(S) + 1 /\ Cardinality(S) \in Nat
BY FS_AddElement, FS_CardinalityType

\* A finite set without one of its elements.
LEMMA OneLess ==
    ASSUME NEW S, IsFiniteSet(S), NEW x \in S, NEW T, T = S \ {x}
    PROVE  IsFiniteSet(T) /\ Cardinality(T) = Cardinality(S) - 1 /\ Cardinality(S) \in Nat
BY FS_RemoveElement, FS_CardinalityType

\* An element of Occurrences is a node and one of the times it was counted.
LEMMA OccursIff ==
    \A x : x \in Occurrences <=>
            \E n \in DOMAIN nodes : \E i \in 1 .. nodes[n].count : x = <<n, i>>
BY DEF Occurrences

\* A node that is counted once more adds one occurrence.
LEMMA OccursMore ==
    ASSUME IsFiniteSet(Occurrences), NEW n, NEW c \in Nat,
           DOMAIN nodes' = DOMAIN nodes \cup {n},
           \A m \in DOMAIN nodes : m # n => nodes'[m].count = nodes[m].count,
           nodes'[n].count = c + 1,
           IF n \in DOMAIN nodes THEN nodes[n].count = c ELSE c = 0
    PROVE  IsFiniteSet(Occurrences') /\ Cardinality(Occurrences') = Cardinality(Occurrences) + 1
<1>1. 1 .. (c + 1) = (1 .. c) \cup {c + 1}
  OBVIOUS
<1>2. <<n, c + 1>> \notin Occurrences
  <2>1. ASSUME NEW m \in DOMAIN nodes, NEW i \in 1 .. nodes[m].count, <<n, c + 1>> = <<m, i>>
        PROVE  FALSE
    BY <2>1
  <2> QED
    BY <2>1, OccursIff
<1>3. ASSUME NEW x
      PROVE  x \in Occurrences' <=> x \in Occurrences \cup {<<n, c + 1>>}
  <2>1. x \in Occurrences' <=>
          \E m \in DOMAIN nodes' : \E i \in 1 .. nodes'[m].count : x = <<m, i>>
    BY DEF Occurrences
  <2>2. ASSUME NEW m \in DOMAIN nodes', NEW i \in 1 .. nodes'[m].count, x = <<m, i>>
        PROVE  x \in Occurrences \cup {<<n, c + 1>>}
    <3>1. CASE m = n /\ i = c + 1
      BY <2>2, <3>1
    <3>2. CASE m = n /\ i # c + 1
      <4>1. i \in 1 .. c
        BY <2>2, <3>2, <1>1
      <4>2. n \in DOMAIN nodes /\ nodes[n].count = c
        BY <4>1
      <4> QED
        BY <2>2, <3>2, <4>1, <4>2, OccursIff
    <3>3. CASE m # n
      BY <2>2, <3>3, OccursIff
    <3> QED
      BY <3>1, <3>2, <3>3
  <2>3. ASSUME NEW m \in DOMAIN nodes, NEW i \in 1 .. nodes[m].count, x = <<m, i>>
        PROVE  x \in Occurrences'
    <3>1. CASE m = n
      <4>1. i \in 1 .. nodes'[n].count
        BY <1>1, <2>3, <3>1
      <4> QED
        BY <2>1, <2>3, <3>1, <4>1
    <3>2. CASE m # n
      BY <2>1, <2>3, <3>2
    <3> QED
      BY <3>1, <3>2
  <2>4. <<n, c + 1>> \in Occurrences'
    BY <1>1 DEF Occurrences
  <2> QED
    BY <2>1, <2>2, <2>3, <2>4, OccursIff
<1>4. Occurrences' = Occurrences \cup {<<n, c + 1>>}
  BY <1>3
<1> QED
  BY <1>2, <1>4, OneMore

\* Neither a relation nor a node with a count of 0 changes the occurrences.
LEMMA OccursSame ==
    ASSUME DOMAIN nodes \subseteq DOMAIN nodes',
           \A m \in DOMAIN nodes : nodes'[m].count = nodes[m].count,
           \A m \in DOMAIN nodes' : m \in DOMAIN nodes \/ nodes'[m].count = 0
    PROVE  Occurrences' = Occurrences
<1>1. 1 .. 0 = {}
  OBVIOUS
<1>2. ASSUME NEW x
      PROVE  x \in Occurrences' <=> x \in Occurrences
  <2>1. x \in Occurrences' <=>
          \E m \in DOMAIN nodes' : \E i \in 1 .. nodes'[m].count : x = <<m, i>>
    BY DEF Occurrences
  <2> QED
    BY <1>1, <2>1, OccursIff
<1> QED
  BY <1>2

\* There are finitely many parse threads.
LEMMA UncountedFinite ==
    ASSUME ParsersOK
    PROVE  IsFiniteSet(Uncounted) /\ Cardinality(Uncounted) \in Nat
<1>1. pattern_parse_thread_num \in Int /\ DOMAIN parser = 1 .. pattern_parse_thread_num
  BY Sizes DEF ParsersOK, Parsers
<1>2. IsFiniteSet(DOMAIN parser)
  BY <1>1, FS_Interval
<1>3. Uncounted \in SUBSET DOMAIN parser
  BY DEF Uncounted
<1> QED
  BY <1>2, <1>3, FS_Subset, FS_CardinalityType

\* What a step of thread q does to the set of threads yet to count.
LEMMA UncountedStep ==
    ASSUME ParsersOK, NEW q \in DOMAIN parser, NEW r, Moved(q, r)
    PROVE  /\ IsFiniteSet(Uncounted) /\ Cardinality(Uncounted) \in Nat
           /\ q \in Uncounted <=> parser[q].pc \in {"facts", "find", "known", "new"}
           /\ Uncounted' = IF r.pc \in {"facts", "find", "known", "new"}
                             THEN Uncounted \cup {q} ELSE Uncounted \ {q}
<1>1. IsFiniteSet(Uncounted) /\ Cardinality(Uncounted) \in Nat
  BY UncountedFinite
<1>2. /\ DOMAIN parser' = DOMAIN parser /\ parser'[q] = r
      /\ \A p \in DOMAIN parser : p # q => parser'[p] = parser[p]
  BY DEF Moved, ParsersOK
<1> QED
  BY <1>1, <1>2 DEF Uncounted

\* The places a received pattern can be in, one by one.
LEMMA AccountedStep ==
    ASSUME ServerInv, Accounted, [Next]_vars
    PROVE  Accounted'
<1> USE DEF ServerInv
<1> DEFINE queued == Len(waitForParsePatternQueue)
           held == Cardinality(Uncounted)
           occurs == Cardinality(Occurrences)
           Here == {"facts", "find", "known", "new"}
<1>1. /\ IsFiniteSet(Occurrences) /\ occurs \in Nat /\ discarded \in Nat /\ queued \in Nat
      /\ total_pattern_received = queued + held + discarded + occurs
      /\ total_pattern_received \in Nat
  BY FS_CardinalityType DEF Accounted, ReceivedAccounted, FoundOK, InboxOK
<1>2. ASSUME UNCHANGED <<found, parser, waitForParsePatternQueue, total_pattern_received>>
      PROVE  Accounted'
  BY <1>2 DEF found, Accounted, ReceivedAccounted, Uncounted, Occurrences
<1>3. ASSUME NEW i \in DOMAIN answered, EnqueuePatterns(i)
      PROVE  Accounted'
  <2>1. answered[i] \in Seq(Item)
    BY DEF InboxOK
  <2>2. /\ Len(waitForParsePatternQueue') = queued + Len(answered[i])
        /\ total_pattern_received' = total_pattern_received + Len(answered[i])
        /\ Len(answered[i]) \in Nat
        /\ UNCHANGED <<found, server>>
    BY <1>3, <2>1, ConcatProperties DEF EnqueuePatterns, InboxOK
  <2>3. Occurrences' = Occurrences /\ Uncounted' = Uncounted /\ discarded' = discarded
    BY <2>2 DEF found, server, Occurrences, Uncounted
  <2>4. held \in Nat
    BY UncountedFinite
  <2> HIDE DEF queued, held, occurs
  <2>5. total_pattern_received' = Len(waitForParsePatternQueue') + held + discarded + occurs
    BY <1>1, <2>2, <2>4
  <2> QED
    BY <1>1, <2>3, <2>5 DEF Accounted, ReceivedAccounted, held, occurs
<1>4. ASSUME NEW q \in Parsers, ParserStep(q)
      PROVE  Accounted'
  <2>1. q \in DOMAIN parser /\ UNCHANGED total_pattern_received
    BY <1>4, ParserFrame
  <2>2. CASE PopPattern(q)
    <3>1. PICK r : Moved(q, r) /\ r.pc = "facts"
      <4> DEFINE x == [pc |-> "facts", item |-> Head(waitForParsePatternQueue),
                       node |-> 0, parent |-> 0]
      <4>1. Head(waitForParsePatternQueue) \in Item
        BY <2>2 DEF PopPattern, InboxOK
      <4>2. x \in Parser /\ x.pc = "facts"
        BY <4>1 DEF Parser, Busy
      <4>3. parser' = [parser EXCEPT ![q] = x]
        BY <2>2 DEF PopPattern
      <4> HIDE DEF x
      <4> QED
        BY <4>2, <4>3 DEF Moved
    <3>2. parser[q].pc = "idle" /\ UNCHANGED found /\ Len(waitForParsePatternQueue') = queued - 1
      BY <2>2 DEF PopPattern, At, InboxOK
    <3>3. IsFiniteSet(Uncounted) /\ q \notin Uncounted /\ Uncounted' = Uncounted \cup {q}
      BY <2>1, <3>1, <3>2, UncountedStep
    <3>4. Cardinality(Uncounted') = held + 1 /\ held \in Nat
      BY <3>3, OneMore
    <3>5. Occurrences' = Occurrences /\ discarded' = discarded
      BY <3>2 DEF found, Occurrences
    <3> HIDE DEF queued, held, occurs
    <3>6. total_pattern_received' =
            Len(waitForParsePatternQueue') + Cardinality(Uncounted') + discarded' + occurs
      BY <1>1, <2>1, <3>2, <3>4, <3>5
    <3> QED
      BY <1>1, <3>5, <3>6 DEF Accounted, ReceivedAccounted, occurs
  <2>3. ASSUME UNCHANGED waitForParsePatternQueue, NEW r, Moved(q, r),
               parser[q].pc \in Here, r.pc \notin Here,
               \/ Occurrences' = Occurrences /\ discarded' = discarded + 1
               \/ /\ IsFiniteSet(Occurrences') /\ Cardinality(Occurrences') = occurs + 1
                  /\ discarded' = discarded
        PROVE  Accounted'
    <3>1. IsFiniteSet(Uncounted) /\ q \in Uncounted /\ Uncounted' = Uncounted \ {q}
      BY <2>1, <2>3, UncountedStep
    <3>2. Cardinality(Uncounted') = held - 1 /\ held \in Nat
      BY <3>1, OneLess
    <3>3. IsFiniteSet(Occurrences') /\ Len(waitForParsePatternQueue') = queued
      BY <1>1, <2>3
    <3>4. \/ Cardinality(Occurrences') = occurs /\ discarded' = discarded + 1
          \/ Cardinality(Occurrences') = occurs + 1 /\ discarded' = discarded
      BY <2>3
    <3> HIDE DEF queued, held, occurs
    <3>5. total_pattern_received' = Len(waitForParsePatternQueue') + Cardinality(Uncounted')
                                      + discarded' + Cardinality(Occurrences')
      BY <1>1, <2>1, <3>2, <3>3, <3>4
    <3> QED
      BY <3>3, <3>5 DEF Accounted, ReceivedAccounted
  <2>4. ASSUME UNCHANGED waitForParsePatternQueue, NEW r, Moved(q, r),
               parser[q].pc \in Here <=> r.pc \in Here,
               Occurrences' = Occurrences, discarded' = discarded
        PROVE  Accounted'
    <3>1. Uncounted' = Uncounted
      BY <2>1, <2>4, UncountedStep
    <3> QED
      BY <2>1, <2>4, <3>1 DEF Accounted, ReceivedAccounted
  <2>5. CASE FindQueueEmpty(q) \/ ReadAllWorkersStop(q) \/ ReadWaitingForNewClients(q)
    <3>1. /\ parser[q].pc \in Resting /\ UNCHANGED waitForParsePatternQueue
          /\ UNCHANGED found
      BY <2>5 DEF FindQueueEmpty, ReadAllWorkersStop, ReadWaitingForNewClients, At, Resting, inbox
    <3>2. PICK l \in Resting : parser' = [parser EXCEPT ![q].pc = l]
      BY <2>5 DEF FindQueueEmpty, ReadAllWorkersStop, ReadWaitingForNewClients, GoTo, Resting
    <3>3. Uncounted' = Uncounted
      BY <3>1, <3>2 DEF Uncounted, Resting
    <3> QED
      BY <2>1, <3>1, <3>3 DEF found, Accounted, ReceivedAccounted, Occurrences
  <2>6. CASE RecordFacts(q) \/ FindPattern(q) \/ FindParent(q)
    <3>1. PICK r : Moved(q, r) /\ LookedUp(parser[q], r)
      BY <2>6, LookingStep
    <3>2. UNCHANGED found /\ UNCHANGED waitForParsePatternQueue
      BY <2>6 DEF RecordFacts, FindPattern, FindParent, Parsing, inbox
    <3>3. Occurrences' = Occurrences /\ discarded' = discarded
      BY <3>2 DEF found, Occurrences
    <3>4. parser[q].pc \in Here <=> r.pc \in Here
      BY <3>1 DEF LookedUp
    <3> QED
      BY <2>4, <3>1, <3>2, <3>3, <3>4
  <2>7. CASE CountAgain(q)
    <3> DEFINE n == parser[q].node
    <3>1. PICK r : Moved(q, r) /\ r.pc = "counted"
      BY <2>7, CountStep
    <3>2. /\ n \in DOMAIN nodes /\ nodes' \in Seq(Node) /\ Len(nodes') = Len(nodes)
          /\ \A m \in DOMAIN nodes : nodes'[m].count = nodes[m].count + IF m = n THEN 1 ELSE 0
          /\ parser[q].pc = "known"
      BY <2>7, CountStep
    <3>3. ASSUME NEW m \in DOMAIN nodes
          PROVE  nodes[m].count \in Nat
      <4>1. nodes[m] \in Node
        BY DEF FoundOK
      <4> QED
        BY <4>1 DEF Node
    <3> HIDE DEF n
    <3>4. DOMAIN nodes' = DOMAIN nodes \cup {n}
      <4>1. DOMAIN nodes' = 1 .. Len(nodes') /\ DOMAIN nodes = 1 .. Len(nodes)
        BY <3>2 DEF FoundOK
      <4> QED
        BY <3>2, <4>1
    <3>5. /\ \A m \in DOMAIN nodes : m # n => nodes'[m].count = nodes[m].count
          /\ nodes'[n].count = nodes[n].count + 1 /\ nodes[n].count \in Nat
      BY <3>2, <3>3
    <3>6. IsFiniteSet(Occurrences') /\ Cardinality(Occurrences') = occurs + 1
      BY <1>1, <3>2, <3>4, <3>5, OccursMore
    <3>7. UNCHANGED <<discarded, waitForParsePatternQueue>>
      BY <2>7 DEF CountAgain, Parsing, inbox
    <3> QED
      BY <2>3, <3>1, <3>2, <3>6, <3>7
  <2>8. CASE InsertPattern(q)
    <3> DEFINE p == parser[q].item.info.pattern
               n == Len(nodes) + 1
    <3>1. parser[q].pc = "new" /\ p \in Patterns /\ UNCHANGED waitForParsePatternQueue
      BY <2>8, InsertStep DEF InsertPattern, Parsing, inbox
    <3>2. CASE UNCHANGED nodes /\ discarded' = discarded + 1 /\ Moved(q, Idle)
      <4>1. Occurrences' = Occurrences
        BY <3>2 DEF Occurrences
      <4>2. Idle.pc \notin Here
        BY DEF Idle
      <4> QED
        BY <2>3, <3>1, <3>2, <4>1, <4>2
    <3>3. ASSUME NewNode(p, 1), UNCHANGED discarded, NEW r, Moved(q, r), r.pc = "counted"
          PROVE  Accounted'
      <4>1. /\ nodes' \in Seq(Node) /\ Len(nodes') = n
            /\ \A m \in DOMAIN nodes : nodes'[m] = nodes[m]
            /\ nodes'[n].count = 1
        BY <3>1, <3>3, NewNodeStep
      <4>2. DOMAIN nodes' = DOMAIN nodes \cup {n} /\ n \notin DOMAIN nodes
        BY <4>1 DEF FoundOK
      <4>3. nodes'[n].count = 0 + 1
        BY <4>1
      <4>4. IsFiniteSet(Occurrences') /\ Cardinality(Occurrences') = occurs + 1
        BY <1>1, <4>1, <4>2, <4>3, OccursMore
      <4> QED
        BY <2>3, <3>1, <3>3, <4>4
    <3> QED
      BY <2>8, <3>2, <3>3, InsertStep
  <2>9. CASE ListPattern(q)
    <3>1. PICK r : Moved(q, r) /\ (r = Idle \/ (r.pc = "parent" /\ r.item = parser[q].item))
      BY <2>9, ListStep
    <3>2. parser[q].pc = "counted" /\ UNCHANGED <<nodes, discarded, waitForParsePatternQueue>>
      BY <2>9, ListStep DEF ListPattern, Parsing, inbox
    <3>3. r.pc \notin Here
      BY <3>1 DEF Idle
    <3>4. Occurrences' = Occurrences
      BY <3>2 DEF Occurrences
    <3> QED
      BY <2>4, <3>1, <3>2, <3>3, <3>4
  <2>10. CASE InsertParent(q)
    <3> DEFINE p == parser[q].item.info.parent
               n == Len(nodes) + 1
    <3>1. parser[q].pc = "newParent" /\ p \in Patterns /\ UNCHANGED <<discarded, waitForParsePatternQueue>>
      BY <2>10, ParentStep DEF InsertParent, Parsing, inbox
    <3>2. CASE UNCHANGED nodes /\ Moved(q, Idle)
      <4>1. Occurrences' = Occurrences
        BY <3>2 DEF Occurrences
      <4>2. Idle.pc \notin Here
        BY DEF Idle
      <4> QED
        BY <2>4, <3>1, <3>2, <4>1, <4>2
    <3>3. ASSUME NewNode(p, 0), NEW r, Moved(q, r), r.pc = "relation"
          PROVE  Accounted'
      <4>1. /\ nodes' \in Seq(Node) /\ Len(nodes') = n
            /\ \A m \in DOMAIN nodes : nodes'[m] = nodes[m]
            /\ nodes'[n].count = 0
        BY <3>1, <3>3, NewNodeStep
      <4>2. DOMAIN nodes' = DOMAIN nodes \cup {n}
        BY <4>1 DEF FoundOK
      <4>3. Occurrences' = Occurrences
        BY <4>1, <4>2, OccursSame
      <4> QED
        BY <2>4, <3>1, <3>3, <4>3
    <3> QED
      BY <2>10, <3>2, <3>3, ParentStep
  <2>11. CASE AddRelation(q)
    <3>1. /\ parser[q].pc = "relation" /\ Moved(q, Idle)
          /\ nodes' \in Seq(Node) /\ Len(nodes') = Len(nodes)
          /\ \A m \in DOMAIN nodes : nodes'[m].count = nodes[m].count
      BY <2>11, RelationStep
    <3>2. DOMAIN nodes' = DOMAIN nodes
      BY <3>1 DEF FoundOK
    <3>3. Occurrences' = Occurrences
      BY <3>1, <3>2, OccursSame
    <3>4. UNCHANGED <<discarded, waitForParsePatternQueue>>
      BY <2>11 DEF AddRelation, Parsing, inbox
    <3>5. Idle.pc \notin Here
      BY DEF Idle
    <3> QED
      BY <2>4, <3>1, <3>3, <3>4, <3>5
  <2> QED
    BY <1>4, <2>2, <2>5, <2>6, <2>7, <2>8, <2>9, <2>10, <2>11 DEF ParserStep
<1>5. CASE KeepWaiting
  <2>1. /\ UNCHANGED <<found, inbox>> /\ parser' = [q \in DOMAIN parser |-> Idle]
        /\ \A q \in DOMAIN parser : parser[q].pc = "returned"
    BY <1>5 DEF KeepWaiting, Joined
  <2>2. Uncounted = {} /\ Uncounted' = {}
    BY <2>1 DEF Uncounted, Idle
  <2> QED
    BY <2>1, <2>2 DEF found, inbox, Accounted, ReceivedAccounted, Occurrences
<1>6. ASSUME NEW w \in Workers, WorkersMove(w)
      PROVE  Accounted'
  BY <1>2, <1>6, OutsideStep DEF server
<1>7. CASE MainStep \/ StartEvaluating \/ Over \/ UNCHANGED vars
  BY <1>2, <1>7 DEF MainStep, JoinParsers, centralServerEvaluateInterestingness, StartEvaluating,
     Over, vars, inbox, server
<1>8. ASSUME NEW i \in DOMAIN answered, BodyLost(i)
      PROVE  Accounted'
  BY <1>2, <1>8 DEF BodyLost, server
<1> QED
  BY <1>3, <1>4, <1>5, <1>6, <1>7, <1>8
  DEF Next, WorkersMove, HandlerStep, MainStep, ServerOperatorAnswers

\* However the parse threads race, every pattern handleFindNewPatterns has
\* received is queued, held, counted or discarded.
THEOREM ReceivedSafety == Spec => []ReceivedAccounted
<1>1. Init => Accounted
  <2> SUFFICES ASSUME Init PROVE Accounted
    OBVIOUS
  <2>1. Occurrences = {} /\ Uncounted = {}
    BY DEF Init, Occurrences, Uncounted, Idle
  <2> QED
    BY <2>1, FS_EmptySet DEF Init, Accounted, ReceivedAccounted
<1>2. ServerInv /\ Accounted /\ [Next]_vars => Accounted'
  BY AccountedStep
<1>3. Accounted => ReceivedAccounted
  BY DEF Accounted
<1> QED
  BY <1>1, <1>2, <1>3, ServerInvariant, PTL DEF Spec

----------------------------------------------------------------------------
(* The list the results are written from.                                   *)

\* The threads between the test "count == 1" and the count that made it so.
Counting(n) == {q \in DOMAIN parser : parser[q].pc = "counted" /\ parser[q].node = n}

\* A node has been pushed, or is about to be tested, no more often than it
\* has been counted.
ListInv ==
    \A n \in DOMAIN nodes :
        /\ Times(n, patternsForGram) + Cardinality(Counting(n)) <= nodes[n].count
        /\ Times(n, patternsForGram) <= 1

\* With one parse thread: the map leads to every node, what it said last is
\* still true, and a counted node is in the list once it has been tested.
OneParserInv ==
    pattern_parse_thread_num = 1 =>
        /\ \A n \in DOMAIN nodes : keyStrToHTreeNodeMap[nodes[n].pattern] = n
        /\ At(1, "new") => keyStrToHTreeNodeMap[parser[1].item.info.pattern] = 0
        /\ At(1, "newParent") => keyStrToHTreeNodeMap[parser[1].item.info.parent] = 0
        /\ \A n \in DOMAIN nodes :
              IF At(1, "counted") /\ parser[1].node = n
                THEN nodes[n].count > 0 /\ (Times(n, patternsForGram) = 1 <=> nodes[n].count > 1)
                ELSE Times(n, patternsForGram) = 1 <=> nodes[n].count > 0


\* A node is in a list one more time when it has been appended to it.
LEMMA TimesAppend ==
    ASSUME NEW S, NEW s \in Seq(S), NEW m \in S, NEW n
    PROVE  /\ Times(n, s) \in Nat
           /\ Times(n, Append(s, m)) = Times(n, s) + IF n = m THEN 1 ELSE 0
<1> DEFINE Held(x) == {i \in DOMAIN x : x[i] = n}
           k == Len(s) + 1
           t == Append(s, m)
<1>1. Len(s) \in Nat /\ DOMAIN s = 1 .. Len(s) /\ k \notin DOMAIN s
  OBVIOUS
<1>2. DOMAIN t = DOMAIN s \cup {k} /\ t[k] = m /\ \A i \in DOMAIN s : t[i] = s[i]
  OBVIOUS
<1>3. IsFiniteSet(Held(s))
  <2>1. IsFiniteSet(DOMAIN s)
    BY <1>1, FS_Interval
  <2> QED
    BY <2>1, FS_Subset
<1>4. Cardinality(Held(s)) \in Nat
  BY <1>3, FS_CardinalityType
<1> HIDE DEF k, t
<1>5. CASE n = m
  <2>1. Held(t) = Held(s) \cup {k} /\ k \notin Held(s)
    BY <1>1, <1>2, <1>5
  <2> QED
    BY <1>3, <1>4, <1>5, <2>1, OneMore DEF Times, t
<1>6. CASE n # m
  <2>1. Held(t) = Held(s)
    BY <1>1, <1>2, <1>6
  <2> QED
    <3> HIDE DEF Held
    <3>1. Cardinality(Held(t)) = Cardinality(Held(s)) + 0
      BY <1>4, <2>1
    <3> USE DEF Held
    <3> QED
      BY <1>4, <1>6, <3>1 DEF Times, t
<1> QED
  BY <1>5, <1>6

\* A number that is no node's is not in the list.
LEMMA TimesAbsent ==
    ASSUME NEW S, NEW s \in Seq(S), NEW n, n \notin S
    PROVE  Times(n, s) = 0
<1>1. {i \in DOMAIN s : s[i] = n} = {}
  OBVIOUS
<1> QED
  BY <1>1, FS_EmptySet DEF Times

\* How often a node is in a list is a number.
LEMMA TimesNat ==
    ASSUME NEW S, NEW s \in Seq(S), NEW n
    PROVE  Times(n, s) \in Nat
<1>1. Len(s) \in Nat /\ DOMAIN s = 1 .. Len(s)
  OBVIOUS
<1>2. IsFiniteSet(DOMAIN s)
  BY <1>1, FS_Interval
<1>3. IsFiniteSet({i \in DOMAIN s : s[i] = n})
  BY <1>2, FS_Subset
<1> QED
  BY <1>3, FS_CardinalityType DEF Times

\* What a step of thread q does to the threads about to test node n.
LEMMA CountingStep ==
    ASSUME ParsersOK, NEW q \in DOMAIN parser, NEW r, Moved(q, r), NEW n
    PROVE  /\ IsFiniteSet(Counting(n)) /\ Cardinality(Counting(n)) \in Nat
           /\ q \in Counting(n) <=> (parser[q].pc = "counted" /\ parser[q].node = n)
           /\ Counting(n)' = IF r.pc = "counted" /\ r.node = n
                               THEN Counting(n) \cup {q} ELSE Counting(n) \ {q}
<1>1. pattern_parse_thread_num \in Int /\ DOMAIN parser = 1 .. pattern_parse_thread_num
  BY Sizes DEF ParsersOK, Parsers
<1>2. IsFiniteSet(DOMAIN parser)
  BY <1>1, FS_Interval
<1>3. Counting(n) \in SUBSET DOMAIN parser
  BY DEF Counting
<1>4. IsFiniteSet(Counting(n)) /\ Cardinality(Counting(n)) \in Nat
  BY <1>2, <1>3, FS_Subset, FS_CardinalityType
<1>5. /\ DOMAIN parser' = DOMAIN parser /\ parser'[q] = r
      /\ \A p \in DOMAIN parser : p # q => parser'[p] = parser[p]
  BY DEF Moved, ParsersOK
<1> QED
  BY <1>4, <1>5 DEF Counting

\* The four things a step of a parse thread may do to nodes and list: none,
Quiet(q, r) ==
    /\ parser[q].pc # "counted" /\ r.pc # "counted"
    /\ UNCHANGED <<keyStrToHTreeNodeMap, patternsForGram>>
    /\ DOMAIN nodes' = DOMAIN nodes
    /\ \A m \in DOMAIN nodes : /\ nodes'[m].pattern = nodes[m].pattern
                               /\ nodes'[m].count = nodes[m].count
    /\ r.pc = "new" => keyStrToHTreeNodeMap[r.item.info.pattern] = 0
    /\ r.pc = "newParent" => keyStrToHTreeNodeMap[r.item.info.parent] = 0

\* count a node it has found,
Counted(q, r) ==
    /\ parser[q].pc = "known" /\ parser[q].node \in DOMAIN nodes
    /\ r.pc = "counted" /\ r.node = parser[q].node
    /\ UNCHANGED <<keyStrToHTreeNodeMap, patternsForGram>>
    /\ DOMAIN nodes' = DOMAIN nodes
    /\ \A m \in DOMAIN nodes :
          /\ nodes'[m].pattern = nodes[m].pattern
          /\ nodes'[m].count = nodes[m].count + IF m = parser[q].node THEN 1 ELSE 0

\* enter a new one,
Entered(q, r, p, c) ==
    /\ NewNode(p, c) /\ UNCHANGED patternsForGram
    /\ \/ /\ parser[q].pc = "new" /\ p = parser[q].item.info.pattern
          /\ r.pc = "counted" /\ r.node = Len(nodes) + 1 /\ c = 1
       \/ /\ parser[q].pc = "newParent" /\ p = parser[q].item.info.parent
          /\ r.pc = "relation" /\ c = 0

\* or test the count and push the node.
Listed(q, r) ==
    /\ parser[q].pc = "counted" /\ parser[q].node \in DOMAIN nodes
    /\ r.pc \in {"idle", "parent"}
    /\ UNCHANGED <<keyStrToHTreeNodeMap, nodes>>
    /\ patternsForGram' = IF nodes[parser[q].node].count = 1
                            THEN Append(patternsForGram, parser[q].node) ELSE patternsForGram

\* A step of a parse thread does one of the four.
LEMMA ParserEffect ==
    ASSUME ServerInv, NEW q \in Parsers, ParserStep(q)
    PROVE  \E r : /\ Moved(q, r)
                 /\ \/ Quiet(q, r) \/ Counted(q, r) \/ Listed(q, r)
                    \/ \E p \in Patterns, c \in Nat : Entered(q, r, p, c)
<1> USE DEF ServerInv
<1>1. CASE PopPattern(q) \/ FindQueueEmpty(q) \/ ReadAllWorkersStop(q) \/ ReadWaitingForNewClients(q)
  <2>1. UNCHANGED found /\ parser[q].pc # "counted"
    BY <1>1 DEF PopPattern, FindQueueEmpty, ReadAllWorkersStop, ReadWaitingForNewClients, At
  <2>2. PICK r : Moved(q, r) /\ (r.pc = "facts" \/ r.pc \in Resting)
    BY <1>1, RestingStep
  <2>3. Quiet(q, r)
    BY <2>1, <2>2 DEF Quiet, found, Resting
  <2> QED
    BY <2>2, <2>3
<1>2. CASE RecordFacts(q) \/ FindPattern(q) \/ FindParent(q)
  <2>1. UNCHANGED found
    BY <1>2 DEF RecordFacts, FindPattern, FindParent
  <2>2. PICK r : Moved(q, r) /\ LookedUp(parser[q], r)
    BY <1>2, LookingStep
  <2>3. Quiet(q, r)
    BY <2>1, <2>2 DEF Quiet, found, LookedUp
  <2> QED
    BY <2>2, <2>3
<1>3. CASE CountAgain(q)
  <2> DEFINE n == parser[q].node
  <2>1. PICK r : Moved(q, r) /\ r.pc = "counted" /\ r.node = n
    BY <1>3, CountStep
  <2>2. /\ n \in DOMAIN nodes /\ nodes' \in Seq(Node) /\ Len(nodes') = Len(nodes)
        /\ \A m \in DOMAIN nodes : /\ nodes'[m].pattern = nodes[m].pattern
                                   /\ nodes'[m].count = nodes[m].count + IF m = n THEN 1 ELSE 0
        /\ parser[q].pc = "known"
    BY <1>3, CountStep
  <2>3. DOMAIN nodes' = DOMAIN nodes
    BY <2>2 DEF FoundOK
  <2>4. UNCHANGED <<keyStrToHTreeNodeMap, patternsForGram>>
    BY <1>3 DEF CountAgain
  <2>5. Counted(q, r)
    BY <2>1, <2>2, <2>3, <2>4 DEF Counted
  <2> QED
    BY <2>1, <2>5
<1>4. CASE InsertPattern(q) \/ InsertParent(q)
  <2>1. parser[q].pc \in {"new", "newParent"} /\ UNCHANGED patternsForGram
    BY <1>4 DEF InsertPattern, InsertParent, At
  <2>2. CASE UNCHANGED <<nodes, keyStrToHTreeNodeMap>> /\ Moved(q, Idle)
    <3>1. Quiet(q, Idle)
      BY <2>1, <2>2 DEF Quiet, Idle
    <3> QED
      BY <2>2, <3>1
  <2>3. CASE InsertPattern(q)
    <3> DEFINE p == parser[q].item.info.pattern
    <3>1. ASSUME NewNode(p, 1), NEW r, Moved(q, r), r.pc = "counted", r.node = Len(nodes) + 1
          PROVE  Entered(q, r, p, 1)
      BY <2>1, <2>3, <3>1 DEF Entered, InsertPattern, At
    <3>2. p \in Patterns
      BY <2>3, InsertStep
    <3> QED
      BY <2>2, <2>3, <3>1, <3>2, InsertStep
  <2>4. CASE InsertParent(q)
    <3> DEFINE p == parser[q].item.info.parent
    <3>1. ASSUME NewNode(p, 0), NEW r, Moved(q, r), r.pc = "relation"
          PROVE  Entered(q, r, p, 0)
      BY <2>1, <2>4, <3>1 DEF Entered, InsertParent, At
    <3>2. p \in Patterns
      BY <2>4, ParentStep
    <3> QED
      BY <2>2, <2>4, <3>1, <3>2, ParentStep
  <2> QED
    BY <1>4, <2>3, <2>4
<1>5. CASE ListPattern(q)
  <2>1. PICK r : Moved(q, r) /\ (r = Idle \/ (r.pc = "parent" /\ r.item = parser[q].item))
    BY <1>5, ListStep
  <2>2. r.pc \in {"idle", "parent"}
    BY <2>1 DEF Idle
  <2>3. Listed(q, r)
    BY <1>5, <2>2, ListStep DEF Listed
  <2> QED
    BY <2>1, <2>3
<1>6. CASE AddRelation(q)
  <2>1. /\ parser[q].pc = "relation" /\ Moved(q, Idle)
        /\ nodes' \in Seq(Node) /\ Len(nodes') = Len(nodes)
        /\ \A m \in DOMAIN nodes : /\ nodes'[m].pattern = nodes[m].pattern
                                   /\ nodes'[m].count = nodes[m].count
    BY <1>6, RelationStep
  <2>2. DOMAIN nodes' = DOMAIN nodes
    BY <2>1 DEF FoundOK
  <2>3. UNCHANGED <<keyStrToHTreeNodeMap, patternsForGram>>
    BY <1>6 DEF AddRelation
  <2>4. Quiet(q, Idle)
    BY <2>1, <2>2, <2>3 DEF Quiet, Idle
  <2> QED
    BY <2>1, <2>4
<1> QED
  BY <1>1, <1>2, <1>3, <1>4, <1>5, <1>6 DEF ParserStep

\* A step keeps the bound on how often a node is pushed.
LEMMA ListStepKeeps ==
    ASSUME ServerInv, ListInv, [Next]_vars
    PROVE  ListInv'
<1> USE DEF ServerInv
<1>1. ASSUME UNCHANGED <<found, parser>>
      PROVE  ListInv'
  BY <1>1 DEF found, ListInv, Counting
<1>2. ASSUME NEW q \in Parsers, ParserStep(q)
      PROVE  ListInv'
  <2>1. q \in DOMAIN parser
    BY <1>2, ParserFrame
  <2>2. /\ patternsForGram \in Seq(1 .. Len(nodes)) /\ Len(nodes) \in Nat
        /\ DOMAIN nodes = 1 .. Len(nodes) /\ nodes \in Seq(Node)
    BY DEF FoundOK
  <2>3. ASSUME NEW m \in DOMAIN nodes
        PROVE  nodes[m].count \in Nat /\ Times(m, patternsForGram) \in Nat
    <3>1. nodes[m] \in Node
      BY <2>2
    <3> QED
      BY <2>2, <3>1, TimesNat DEF Node
  <2>4. PICK r : /\ Moved(q, r)
                 /\ \/ Quiet(q, r) \/ Counted(q, r) \/ Listed(q, r)
                    \/ \E p \in Patterns, c \in Nat : Entered(q, r, p, c)
    BY <1>2, ParserEffect
  <2> DEFINE n == parser[q].node
  <2>5. CASE Quiet(q, r)
    <3> SUFFICES ASSUME NEW m \in DOMAIN nodes
                 PROVE  /\ Times(m, patternsForGram') + Cardinality(Counting(m)') <= nodes'[m].count
                        /\ Times(m, patternsForGram') <= 1
      BY <2>5 DEF Quiet, ListInv
    <3>1. Counting(m)' = Counting(m)
      <4>1. q \notin Counting(m) /\ Counting(m)' = Counting(m) \ {q}
        BY <2>1, <2>4, <2>5, CountingStep DEF Quiet
      <4> QED
        BY <4>1
    <3> QED
      BY <2>5, <3>1 DEF Quiet, ListInv
  <2>6. CASE Counted(q, r)
    <3> SUFFICES ASSUME NEW m \in DOMAIN nodes
                 PROVE  /\ Times(m, patternsForGram') + Cardinality(Counting(m)') <= nodes'[m].count
                        /\ Times(m, patternsForGram') <= 1
      BY <2>6 DEF Counted, ListInv
    <3>1. /\ IsFiniteSet(Counting(m)) /\ Cardinality(Counting(m)) \in Nat /\ q \notin Counting(m)
          /\ Counting(m)' = IF m = n THEN Counting(m) \cup {q} ELSE Counting(m) \ {q}
      BY <2>1, <2>4, <2>6, CountingStep DEF Counted
    <3>2. Cardinality(Counting(m)') = Cardinality(Counting(m)) + IF m = n THEN 1 ELSE 0
      <4>1. CASE m = n
        BY <3>1, <4>1, OneMore
      <4>2. CASE m # n
        BY <3>1, <4>2
      <4> QED
        BY <4>1, <4>2
    <3>3. /\ Times(m, patternsForGram') = Times(m, patternsForGram)
          /\ nodes'[m].count = nodes[m].count + IF m = n THEN 1 ELSE 0
      BY <2>6 DEF Counted
    <3>4. /\ Times(m, patternsForGram) + Cardinality(Counting(m)) <= nodes[m].count
          /\ Times(m, patternsForGram) <= 1
      BY DEF ListInv
    <3> QED
      BY <2>3, <3>1, <3>2, <3>3, <3>4
  <2>7. CASE Listed(q, r)
    <3> SUFFICES ASSUME NEW m \in DOMAIN nodes
                 PROVE  /\ Times(m, patternsForGram') + Cardinality(Counting(m)') <= nodes[m].count
                        /\ Times(m, patternsForGram') <= 1
      BY <2>7 DEF Listed, ListInv
    <3>1. /\ IsFiniteSet(Counting(m)) /\ Cardinality(Counting(m)) \in Nat
          /\ q \in Counting(m) <=> m = n
          /\ Counting(m)' = Counting(m) \ {q}
      BY <2>1, <2>4, <2>7, CountingStep DEF Listed
    <3>2. /\ Times(m, patternsForGram) + Cardinality(Counting(m)) <= nodes[m].count
          /\ Times(m, patternsForGram) <= 1
      BY DEF ListInv
    <3>3. Times(m, patternsForGram') =
            Times(m, patternsForGram) + IF m = n /\ nodes[n].count = 1 THEN 1 ELSE 0
      <4>1. n \in 1 .. Len(nodes)
        BY <2>2, <2>7 DEF Listed
      <4>2. Times(m, Append(patternsForGram, n)) =
              Times(m, patternsForGram) + IF m = n THEN 1 ELSE 0
        BY <2>2, <4>1, TimesAppend
      <4> HIDE DEF n
      <4> QED
        BY <2>3, <2>7, <4>2 DEF Listed, n
    <3>4. Cardinality(Counting(m)') = Cardinality(Counting(m)) - IF m = n THEN 1 ELSE 0
      <4>1. CASE m = n
        BY <3>1, <4>1, OneLess
      <4>2. CASE m # n
        BY <3>1, <4>2
      <4> QED
        BY <4>1, <4>2
    <3>5. m = n => Cardinality(Counting(m)) >= 1
      BY <3>1, FS_EmptySet
    <3> HIDE DEF n
    <3> QED
      BY <2>3, <3>1, <3>2, <3>3, <3>4, <3>5
  <2>8. ASSUME NEW p \in Patterns, NEW c \in Nat, Entered(q, r, p, c)
        PROVE  ListInv'
    <3>0. PICK k : k = Len(nodes) + 1
      OBVIOUS
    <3>1. /\ nodes' \in Seq(Node) /\ Len(nodes') = k
          /\ \A m \in DOMAIN nodes : nodes'[m] = nodes[m]
          /\ nodes'[k].count = c
      BY <2>8, <3>0, NewNodeStep DEF Entered
    <3>2. DOMAIN nodes' = DOMAIN nodes \cup {k} /\ k \notin DOMAIN nodes
      BY <2>2, <3>0, <3>1
    <3>3. /\ patternsForGram' = patternsForGram /\ parser[q].pc \in {"new", "newParent"}
          /\ \/ r.pc = "counted" /\ r.node = k /\ c = 1
             \/ r.pc = "relation" /\ c = 0
      BY <2>8, <3>0 DEF Entered
    <3>4. ASSUME NEW m \in DOMAIN nodes
          PROVE  /\ Times(m, patternsForGram') + Cardinality(Counting(m)') <= nodes'[m].count
                 /\ Times(m, patternsForGram') <= 1
      <4>1. Counting(m)' = Counting(m)
        <5>1. m # k /\ ~(r.pc = "counted" /\ r.node = m) /\ parser[q].pc # "counted"
          BY <3>2, <3>3
        <5>2. q \notin Counting(m) /\ Counting(m)' = Counting(m) \ {q}
          BY <2>1, <2>4, <5>1, CountingStep
        <5> QED
          BY <5>2
      <4> QED
        BY <3>1, <3>3, <4>1 DEF ListInv
    <3>5. /\ Times(k, patternsForGram') + Cardinality(Counting(k)') <= c
          /\ Times(k, patternsForGram') <= 1
      <4>1. Times(k, patternsForGram') = 0
        BY <2>2, <3>2, <3>3, TimesAbsent
      <4>2. Counting(k) = {}
        <5>1. ASSUME NEW x \in Counting(k)
              PROVE  FALSE
          <6>1. x \in DOMAIN parser /\ parser[x].pc = "counted" /\ parser[x].node = k
            BY DEF Counting
          <6>2. parser[x].node <= Len(nodes)
            BY <6>1 DEF NodeRefs, RefsOK, Busy
          <6> QED
            BY <2>2, <3>0, <6>1, <6>2
        <5> QED
          BY <5>1
      <4>3. Counting(k)' = IF r.pc = "counted" THEN {q} ELSE {}
        <5>1. Counting(k)' = IF r.pc = "counted" /\ r.node = k
                              THEN Counting(k) \cup {q} ELSE Counting(k) \ {q}
          BY <2>1, <2>4, CountingStep
        <5>2. (r.pc = "counted" /\ r.node = k) <=> r.pc = "counted"
          BY <3>3
        <5> QED
          BY <4>2, <5>1, <5>2
      <4>4. Cardinality(Counting(k)') = c
        BY <3>3, <4>3, FS_EmptySet, FS_Singleton
      <4> QED
        BY <4>1, <4>4
    <3> SUFFICES ASSUME NEW m \in DOMAIN nodes'
                 PROVE  /\ Times(m, patternsForGram') + Cardinality(Counting(m)') <= nodes'[m].count
                        /\ Times(m, patternsForGram') <= 1
      BY DEF ListInv
    <3>6. CASE m = k
      BY <3>1, <3>5, <3>6
    <3>7. CASE m # k
      BY <3>2, <3>4, <3>7
    <3> QED
      BY <3>6, <3>7
  <2> QED
    BY <2>4, <2>5, <2>6, <2>7, <2>8
<1>3. CASE KeepWaiting
  <2>1. /\ UNCHANGED found /\ parser' = [q \in DOMAIN parser |-> Idle]
        /\ \A q \in DOMAIN parser : parser[q].pc = "returned"
    BY <1>3 DEF KeepWaiting, Joined
  <2>2. \A n : Counting(n) = {} /\ Counting(n)' = {}
    BY <2>1 DEF Counting, Idle
  <2> QED
    BY <2>1, <2>2 DEF found, ListInv
<1>4. ASSUME NEW w \in Workers, WorkersMove(w)
      PROVE  ListInv'
  BY <1>1, <1>4, OutsideStep DEF server
<1>5. CASE MainStep \/ StartEvaluating \/ Over \/ HandlerStep \/ UNCHANGED vars
  BY <1>1, <1>5 DEF MainStep, JoinParsers, centralServerEvaluateInterestingness, StartEvaluating,
     Over, vars, server, HandlerStep, EnqueuePatterns, BodyLost
<1> QED
  BY <1>2, <1>3, <1>4, <1>5 DEF Next, WorkersMove, ServerOperatorAnswers

\* The test "count == 1" is made outside the lock, and still no node is
\* pushed twice into the list of the results, with any number of threads.
THEOREM ListedOnceSafety == Spec => []ListedOnce
<1>1. Init => ListInv
  BY DEF Init, ListInv
<1>2. ServerInv /\ ListInv /\ [Next]_vars => ListInv'
  BY ListStepKeeps
<1>3. ListInv => ListedOnce
  BY DEF ListInv, ListedOnce
<1> QED
  BY <1>1, <1>2, <1>3, ServerInvariant, PTL DEF Spec

----------------------------------------------------------------------------
(* One parse thread.                                                        *)

\* The part of OneParserInv that is about the list, for one node.
ListExact(n) ==
    IF At(1, "counted") /\ parser[1].node = n
      THEN nodes[n].count > 0 /\ (Times(n, patternsForGram) = 1 <=> nodes[n].count > 1)
      ELSE Times(n, patternsForGram) = 1 <=> nodes[n].count > 0

\* The only parse thread keeps map and list exact.
LEMMA OneParserStep ==
    ASSUME ServerInv, ListInv, OneParserInv, [Next]_vars
    PROVE  OneParserInv'
<1> USE DEF ServerInv
<1>1. ASSUME UNCHANGED <<found, parser, pattern_parse_thread_num>>
      PROVE  OneParserInv'
  BY <1>1 DEF found, OneParserInv, At
<1>2. ASSUME NEW q \in Parsers, ParserStep(q), pattern_parse_thread_num = 1
      PROVE  OneParserInv'
  <2>1. q \in DOMAIN parser /\ q = 1 /\ DOMAIN parser = {1}
    BY <1>2, ParserFrame DEF ParsersOK
  <2>2. /\ patternsForGram \in Seq(1 .. Len(nodes)) /\ Len(nodes) \in Nat
        /\ DOMAIN nodes = 1 .. Len(nodes) /\ nodes \in Seq(Node)
    BY DEF FoundOK
  <2>3. ASSUME NEW m \in DOMAIN nodes
        PROVE  /\ nodes[m].count \in Nat /\ nodes[m].pattern \in Patterns
               /\ Times(m, patternsForGram) \in Nat /\ Times(m, patternsForGram) <= 1
    <3>1. nodes[m] \in Node
      BY <2>2
    <3> QED
      BY <2>2, <3>1, TimesNat DEF Node, ListInv
  <2>4. PICK r : /\ Moved(q, r)
                 /\ \/ Quiet(q, r) \/ Counted(q, r) \/ Listed(q, r)
                    \/ \E p \in Patterns, c \in Nat : Entered(q, r, p, c)
    BY <1>2, ParserEffect
  <2>5. /\ \A n \in DOMAIN nodes : keyStrToHTreeNodeMap[nodes[n].pattern] = n
        /\ parser[1].pc = "new" => keyStrToHTreeNodeMap[parser[1].item.info.pattern] = 0
        /\ parser[1].pc = "newParent" => keyStrToHTreeNodeMap[parser[1].item.info.parent] = 0
        /\ \A n \in DOMAIN nodes : ListExact(n)
    BY <1>2, <2>1 DEF OneParserInv, At, ListExact
  <2>6. DOMAIN parser' = DOMAIN parser /\ parser'[1] = r
    BY <2>1, <2>4 DEF Moved
  <2>7. SUFFICES
          /\ \A n \in DOMAIN nodes' : keyStrToHTreeNodeMap'[nodes'[n].pattern] = n
          /\ r.pc = "new" => keyStrToHTreeNodeMap'[r.item.info.pattern] = 0
          /\ r.pc = "newParent" => keyStrToHTreeNodeMap'[r.item.info.parent] = 0
          /\ \A n \in DOMAIN nodes' : ListExact(n)'
    BY <2>1, <2>6, <2>7 DEF OneParserInv, At, ListExact
  <2>8. CASE Quiet(q, r)
    <3>1. ASSUME NEW n \in DOMAIN nodes
          PROVE  ListExact(n)'
      BY <2>1, <2>5, <2>6, <2>8 DEF Quiet, ListExact, At
    <3> QED
      BY <2>5, <2>8, <3>1 DEF Quiet
  <2>9. CASE Counted(q, r)
    <3>1. ASSUME NEW n \in DOMAIN nodes
          PROVE  ListExact(n)'
      <4>1. Times(n, patternsForGram) = 1 <=> nodes[n].count > 0
        BY <2>1, <2>5, <2>9 DEF Counted, ListExact, At
      <4>2. /\ nodes'[n].count = nodes[n].count + IF n = parser[1].node THEN 1 ELSE 0
            /\ patternsForGram' = patternsForGram
            /\ r.pc = "counted" /\ r.node = parser[1].node
        BY <2>1, <2>9 DEF Counted
      <4>3. CASE n = parser[1].node
        <5>1. nodes'[n].count > 0 /\ (Times(n, patternsForGram') = 1 <=> nodes'[n].count > 1)
          BY <2>3, <4>1, <4>2, <4>3
        <5> QED
          BY <2>1, <2>6, <4>2, <4>3, <5>1 DEF ListExact, At
      <4>4. CASE n # parser[1].node
        <5>1. Times(n, patternsForGram') = 1 <=> nodes'[n].count > 0
          BY <2>3, <4>1, <4>2, <4>4
        <5> QED
          BY <2>1, <2>6, <4>2, <4>4, <5>1 DEF ListExact, At
      <4> QED
        BY <4>3, <4>4
    <3> QED
      BY <2>5, <2>9, <3>1 DEF Counted
  <2>10. CASE Listed(q, r)
    <3>1. ASSUME NEW n \in DOMAIN nodes
          PROVE  ListExact(n)'
      <4>1. r.pc # "counted" /\ nodes' = nodes /\ parser[1].pc = "counted"
        BY <2>1, <2>10 DEF Listed
      <4>2. Times(n, patternsForGram') =
              Times(n, patternsForGram) + IF n = parser[1].node /\ nodes[n].count = 1 THEN 1 ELSE 0
        <5> DEFINE k == parser[1].node
        <5>1. /\ k \in 1 .. Len(nodes)
              /\ patternsForGram' = IF nodes[k].count = 1 THEN Append(patternsForGram, k)
                                    ELSE patternsForGram
          BY <2>1, <2>2, <2>10 DEF Listed
        <5> HIDE DEF k
        <5>2. Times(n, Append(patternsForGram, k)) =
                Times(n, patternsForGram) + IF n = k THEN 1 ELSE 0
          BY <2>2, <5>1, TimesAppend
        <5> QED
          BY <2>3, <5>1, <5>2 DEF k
      <4>3. IF parser[1].node = n
              THEN nodes[n].count > 0 /\ (Times(n, patternsForGram) = 1 <=> nodes[n].count > 1)
              ELSE Times(n, patternsForGram) = 1 <=> nodes[n].count > 0
        BY <2>1, <2>5, <4>1 DEF ListExact, At
      <4>4. Times(n, patternsForGram') = 1 <=> nodes[n].count > 0
        BY <2>3, <4>2, <4>3
      <4> QED
        BY <2>6, <4>1, <4>4 DEF ListExact, At
    <3> QED
      BY <2>5, <2>10, <3>1 DEF Listed
  <2>11. ASSUME NEW p \in Patterns, NEW c \in Nat, Entered(q, r, p, c)
         PROVE  /\ \A n \in DOMAIN nodes' : keyStrToHTreeNodeMap'[nodes'[n].pattern] = n
                /\ r.pc # "new" /\ r.pc # "newParent"
                /\ \A n \in DOMAIN nodes' : ListExact(n)'
    <3>0. PICK k : k = Len(nodes) + 1
      OBVIOUS
    <3>1. /\ nodes' \in Seq(Node) /\ Len(nodes') = k
          /\ \A m \in DOMAIN nodes : nodes'[m] = nodes[m]
          /\ nodes'[k].count = c /\ nodes'[k].pattern = p
      BY <2>11, <3>0, NewNodeStep DEF Entered
    <3>2. DOMAIN nodes' = DOMAIN nodes \cup {k} /\ k \notin DOMAIN nodes
      BY <2>2, <3>0, <3>1
    <3>3. /\ patternsForGram' = patternsForGram /\ parser[1].pc # "counted"
          /\ \/ r.pc = "counted" /\ r.node = k /\ c = 1
             \/ r.pc = "relation" /\ c = 0
          /\ keyStrToHTreeNodeMap[p] = 0
      BY <2>1, <2>5, <2>11, <3>0 DEF Entered
    <3>4. keyStrToHTreeNodeMap' = [keyStrToHTreeNodeMap EXCEPT ![p] = k]
      BY <2>11, <3>0, <3>3 DEF Entered, NewNode
    <3>5. keyStrToHTreeNodeMap'[p] = k
      BY <3>4 DEF FoundOK
    <3>6. ASSUME NEW m \in DOMAIN nodes
          PROVE  keyStrToHTreeNodeMap'[nodes[m].pattern] = m
      <4>1. m # 0 /\ keyStrToHTreeNodeMap[nodes[m].pattern] = m
        BY <2>2, <2>5
      <4> QED
        BY <2>3, <3>3, <3>4, <4>1 DEF FoundOK
    <3>7. ASSUME NEW m \in DOMAIN nodes
          PROVE  ListExact(m)'
      <4>1. Times(m, patternsForGram) = 1 <=> nodes[m].count > 0
        BY <2>1, <2>5, <3>3 DEF ListExact, At
      <4>2. ~(r.pc = "counted" /\ r.node = m)
        BY <3>2, <3>3
      <4> QED
        BY <2>6, <3>1, <3>3, <4>1, <4>2 DEF ListExact, At
    <3>8. ListExact(k)'
      <4>1. Times(k, patternsForGram') = 0
        BY <2>2, <3>2, <3>3, TimesAbsent
      <4>2. CASE r.pc = "counted" /\ r.node = k /\ c = 1
        BY <2>1, <2>6, <3>1, <4>1, <4>2 DEF ListExact, At
      <4>3. CASE r.pc = "relation" /\ c = 0
        BY <2>1, <2>6, <3>1, <4>1, <4>3 DEF ListExact, At
      <4> QED
        BY <3>3, <4>2, <4>3
    <3> QED
      BY <3>1, <3>2, <3>3, <3>5, <3>6, <3>7, <3>8
  <2> QED
    BY <2>4, <2>8, <2>9, <2>10, <2>11
<1>3. CASE KeepWaiting
  <2>1. /\ UNCHANGED <<found, pattern_parse_thread_num>>
        /\ parser' = [q \in DOMAIN parser |-> Idle]
        /\ \A q \in DOMAIN parser : parser[q].pc = "returned"
    BY <1>3 DEF KeepWaiting, Joined
  <2>2. ASSUME NEW l \in {"new", "newParent", "counted"}
        PROVE  ~At(1, l) /\ ~At(1, l)'
    BY <2>1 DEF At, Idle
  <2> QED
    BY <2>1, <2>2 DEF found, OneParserInv
<1>4. ASSUME NEW w \in Workers, WorkersMove(w)
      PROVE  OneParserInv'
  BY <1>1, <1>4, OutsideStep DEF server
<1>5. CASE MainStep \/ StartEvaluating \/ Over \/ HandlerStep \/ UNCHANGED vars
  BY <1>1, <1>5 DEF MainStep, JoinParsers, centralServerEvaluateInterestingness, StartEvaluating,
     Over, vars, server, HandlerStep, EnqueuePatterns, BodyLost
<1>6. ASSUME NEW q \in Parsers, ParserStep(q), pattern_parse_thread_num # 1
      PROVE  OneParserInv'
  BY <1>6, ParserFrame DEF OneParserInv
<1> QED
  BY <1>2, <1>3, <1>4, <1>5, <1>6 DEF Next, WorkersMove, ServerOperatorAnswers

\* With one parse thread a pattern has one node, the map leads to it, and it
\* is in the list as soon as it has been counted and tested.
THEOREM OneParserSafety == Spec => []OneParserExact
<1>1. Init => ListInv /\ OneParserInv
  BY DEF Init, ListInv, OneParserInv, At, Idle
<1>2. ServerInv /\ ListInv /\ OneParserInv /\ [Next]_vars => ListInv' /\ OneParserInv'
  BY ListStepKeeps, OneParserStep
<1>3. OneParserInv => OneParserExact
  BY DEF OneParserInv, OneParserExact
<1> QED
  BY <1>1, <1>2, <1>3, ServerInvariant, PTL DEF Spec

============================================================================
