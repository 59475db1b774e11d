--------------------------- MODULE PatternServer ---------------------------
(***************************************************************************)
(* The distributed pattern miner: a central server that counts patterns,   *)
(* and workers that mine their part of the corpus and post what they find. *)
(*                                                                         *)
(*   PatternMinerCentralServer.cc: launchCentralServer (the main thread),  *)
(*     the HTTP handlers handleRegisterNewWorker, handleFindNewPatterns    *)
(*     and handleReportWorkerStop, and the parse threads                   *)
(*     (runParsePatternTaskThread, parseAPatternTask);                     *)
(*   PatternMinerDistributedWorker.cc: one process per worker, with        *)
(*     THREAD_NUM mining threads (growPatternsDepthFirstTask) that fill a  *)
(*     buffer each (addPatternsToJsonArrayBuf) and post it                 *)
(*     (sendPatternsToCentralServer).                                      *)
(*                                                                         *)
(* A link of the corpus is what it yields, the patterns extracted from it: *)
(* a pattern is a value, its text is not modelled.  A request has three    *)
(* outcomes: answered, lost on the way, or handled with the answer lost.   *)
(***************************************************************************)
EXTENDS Naturals, Sequences, FiniteSets, SequencesExt

CONSTANTS
  Workers,           \* the worker processes
  Patterns,          \* the pattern keys
  Invalid,           \* keys loadPatternIntoAtomSpaceFromString rejects
  None,              \* the parent "none" of a one-gram pattern
  Corpora,           \* what the workers may be given: worker -> its links
  THREAD_NUM,        \* mining threads of a worker
  JSON_BUF_MAX_NUM,  \* patterns in a full buffer
  ParseThreads,      \* the largest pattern_parse_thread_num
  MaxTries,          \* maxTryTimes of notifyServerThisWorkerStop
  MaxFaults          \* bound: requests, answers and bodies lost in all

(* notOutPutPattern is not kept: GENERATE_TMP_PATTERNS is 0 in this build,
   so it is always false and tmpPatternsForGram stays empty.               *)
Info == [pattern : Patterns, parent : Patterns \cup {None}]
Link == [ignored : BOOLEAN, infos : Seq(Info)]

ASSUME ServerAssumption ==
  /\ {THREAD_NUM, JSON_BUF_MAX_NUM, ParseThreads, MaxTries} \subseteq Nat \ {0}
  /\ MaxFaults \in Nat
  /\ None \notin Patterns
  /\ Corpora \subseteq [Workers -> Seq(Link)]

Item == [info : Info, from : Workers, facts : Nat]
Threads == 0 .. THREAD_NUM - 1
Parsers == 1 .. ParseThreads

(* A worker registers and reports under the query text "ClientUID=<uid>",
   its patterns carry the bare <uid>: two different keys of allWorkers.    *)
ClientKey == {"query", "json"} \X Workers

Outcome == {"ok", "answerLost", "lost"}

VARIABLES
  allLinks,    \* worker -> the links it mines, each [ignored, infos]
  state,       \* worker -> "start", "mining", "reporting", "asked", "gone"
  thread       \* worker, thread -> the growPatternsDepthFirstTask in it
VARIABLES
  actualProcessedLinkNum, \* worker -> links mined so far
  tries        \* worker -> attempts to report the stop
VARIABLES
  main,        \* the main thread: "parsing", "ask", "evaluating", "exited"
  parser,      \* parse thread -> [pc, item, node, parent]
  pattern_parse_thread_num,
  allWorkers,  \* client key -> [working, facts], for the keys inserted
  allWorkersStop,
  waitingForNewClients
VARIABLES
  answered,    \* requests answered OK whose body is still to be queued
  waitForParsePatternQueue,
  total_pattern_received,
  keyStrToHTreeNodeMap,  \* pattern -> number of its node, 0 for none
  nodes,                 \* the HTreeNodes made so far
  patternsForGram        \* node numbers, in the order they were pushed
VARIABLES
  discarded,   \* how many received patterns were rejected as invalid
  faults       \* how many faults have happened

worker == <<allLinks, state, thread, actualProcessedLinkNum, tries>>
found == <<keyStrToHTreeNodeMap, nodes, patternsForGram, discarded>>
clients == <<allWorkers, allWorkersStop, waitingForNewClients>>
inbox == <<answered, waitForParsePatternQueue, total_pattern_received>>
server == <<main, parser, pattern_parse_thread_num>>
vars == <<worker, found, clients, inbox, server, faults>>

----------------------------------------------------------------------------
(* The part of the corpus a thread mines: linksPerThread links, and what    *)
(* the division left over goes to the last thread.                          *)
linksPerThread(w) == Len(allLinks[w]) \div THREAD_NUM
StartIndex(w, t) == linksPerThread(w) * t
EndIndex(w, t) == IF t = THREAD_NUM - 1 THEN Len(allLinks[w]) ELSE linksPerThread(w) * (t + 1)

Idle == [pc |-> "idle"]

Init ==
  /\ allLinks \in Corpora
  /\ state = [w \in Workers |-> "start"]
  /\ thread = [w \in Workers |-> [t \in Threads |->
                [pc |-> "next", index |-> StartIndex(w, t), left |-> <<>>, array |-> <<>>]]]
  /\ actualProcessedLinkNum = [w \in Workers |-> 0]
  /\ tries = [w \in Workers |-> 0]
  /\ main = "parsing"
  /\ pattern_parse_thread_num \in Parsers
  /\ parser = [q \in 1 .. pattern_parse_thread_num |-> Idle]
  /\ allWorkers = [k \in {} |-> [working |-> FALSE, facts |-> 0]]
  /\ allWorkersStop = FALSE
  /\ waitingForNewClients = FALSE
  /\ answered = <<>>
  /\ waitForParsePatternQueue = <<>>
  /\ total_pattern_received = 0
  /\ keyStrToHTreeNodeMap = [p \in Patterns |-> 0]
  /\ nodes = <<>>
  /\ patternsForGram = <<>>
  /\ discarded = 0
  /\ faults = 0

----------------------------------------------------------------------------
(* Requests.  sendRequest returns false when the request or its answer is   *)
(* lost; once the server has exited every request is lost.                  *)

sendRequest(o) ==
  /\ main = "exited" => o = "lost"
  /\ IF o = "ok" \/ main = "exited"
       THEN faults' = faults
       ELSE faults < MaxFaults /\ faults' = faults + 1

Reaches(o) == o # "lost"

checkIfAllWorkersStopWorking(ws) ==
  /\ DOMAIN ws # {}
  /\ \A k \in DOMAIN ws : ~ws[k].working

(* map::insert keeps the entry a key already has. *)
handleRegisterNewWorker(w) ==
  /\ allWorkersStop' = FALSE
  /\ waitingForNewClients' = FALSE
  /\ allWorkers' = [k \in DOMAIN allWorkers \cup {<<"query", w>>} |->
                      IF k \in DOMAIN allWorkers THEN allWorkers[k]
                      ELSE [working |-> TRUE, facts |-> 0]]

handleReportWorkerStop(w) ==
  LET k == <<"query", w>> IN
  /\ IF k \in DOMAIN allWorkers
       THEN /\ allWorkers' = [allWorkers EXCEPT ![k].working = FALSE]
            /\ allWorkersStop' = checkIfAllWorkersStopWorking(allWorkers')
       ELSE UNCHANGED <<allWorkers, allWorkersStop>>
  /\ UNCHANGED waitingForNewClients

----------------------------------------------------------------------------
(* A worker.                                                                *)

(* launchADistributedWorker: without an answer the worker quits, also when  *)
(* the server has registered it.                                            *)
launchADistributedWorker(w, o) ==
  /\ state[w] = "start"
  /\ sendRequest(o)
  /\ state' = [state EXCEPT ![w] = IF o = "ok" THEN "mining" ELSE "gone"]
  /\ IF Reaches(o) THEN handleRegisterNewWorker(w) ELSE UNCHANGED clients
  /\ UNCHANGED <<allLinks, thread, actualProcessedLinkNum, tries, found, inbox, server>>

(* Mutant: an ignored link is looked at again. *)
AfterLinkStuck(i, link) == IF link.ignored THEN i ELSE i + 1

AfterLink(i, link) == i + 1

(* growPatternsDepthFirstTask: the next link of the thread's range.  An     *)
(* ignored one is skipped; at the end of the range what is left in the      *)
(* array is sent.                                                           *)
NextLink(w, t) ==
  LET th == thread[w][t]
      link == allLinks[w][th.index + 1]
  IN
  /\ state[w] = "mining"
  /\ th.pc = "next"
  /\ th.left = <<>>
  /\ \/ /\ th.index < EndIndex(w, t)
        /\ thread' = [thread EXCEPT ![w][t].index = AfterLink(@, link),
                                    ![w][t].left = IF link.ignored THEN <<>> ELSE link.infos]
        /\ actualProcessedLinkNum' =
             [actualProcessedLinkNum EXCEPT ![w] = IF link.ignored THEN @ ELSE @ + 1]
     \/ /\ th.index >= EndIndex(w, t)
        /\ thread' = [thread EXCEPT ![w][t].pc = IF th.array = <<>> THEN "end" ELSE "flush"]
        /\ UNCHANGED actualProcessedLinkNum
  /\ UNCHANGED <<allLinks, state, tries, found, clients, inbox, server, faults>>

ProcessedFactsNum(w) == actualProcessedLinkNum[w]

addPatternsToJsonArrayBuf(w, t) ==
  LET th == thread[w][t]
      array == Append(th.array, [info |-> Head(th.left), from |-> w,
                                 facts |-> ProcessedFactsNum(w)])
  IN
  /\ th.pc = "next"
  /\ th.left # <<>>
  /\ thread' = [thread EXCEPT ![w][t].left = Tail(@),
                              ![w][t].array = array,
                              ![w][t].pc = IF Len(array) >= JSON_BUF_MAX_NUM THEN "send" ELSE "next"]
  /\ UNCHANGED <<allLinks, state, actualProcessedLinkNum, tries, found, clients, inbox, server, faults>>

(* sendPatternsToCentralServer tries until it has an answer.  The handler   *)
(* answers OK before it reads the body: see EnqueuePatterns.                *)
sendPatternsToCentralServer(w, t, o) ==
  LET th == thread[w][t] IN
  /\ th.pc \in {"send", "flush"}
  /\ sendRequest(o)
  /\ answered' = IF Reaches(o) THEN Append(answered, th.array) ELSE answered
  /\ thread' = IF o # "ok" THEN thread
               ELSE [thread EXCEPT ![w][t].array = <<>>,
                                   ![w][t].pc = IF th.pc = "send" THEN "next" ELSE "end"]
  /\ UNCHANGED <<allLinks, state, actualProcessedLinkNum, tries, found, clients,
                 waitForParsePatternQueue, total_pattern_received, server>>

MinersEnded(w) == \A t \in Threads : thread[w][t].pc = "end"

(* runPatternMinerDepthFirst joins the threads, then startMiningWork calls  *)
(* notifyServerThisWorkerStop.                                              *)
JoinMiners(w) ==
  /\ state[w] = "mining"
  /\ MinersEnded(w)
  /\ state' = [state EXCEPT ![w] = "reporting"]
  /\ UNCHANGED <<allLinks, thread, actualProcessedLinkNum, tries, found, clients, inbox, server, faults>>

TriesLeft(n) == n < MaxTries

notifyServerThisWorkerStop(w, o) ==
  /\ state[w] = "reporting"
  /\ sendRequest(o)
  /\ tries' = [tries EXCEPT ![w] = @ + 1]
  /\ state' = [state EXCEPT ![w] = CASE o = "ok" -> "gone"
                                     [] o # "ok" /\ TriesLeft(tries'[w]) -> "reporting"
                                     [] OTHER -> "asked"]
  /\ IF Reaches(o) THEN handleReportWorkerStop(w) ELSE UNCHANGED clients
  /\ UNCHANGED <<allLinks, thread, actualProcessedLinkNum, found, inbox, server>>

(* After maxTryTimes attempts the operator grants as many again, or quits.  *)
WorkerOperatorAnswers(w) ==
  /\ state[w] = "asked"
  /\ \/ state' = [state EXCEPT ![w] = "reporting"] /\ tries' = [tries EXCEPT ![w] = 0]
     \/ state' = [state EXCEPT ![w] = "gone"] /\ UNCHANGED tries
  /\ UNCHANGED <<allLinks, thread, actualProcessedLinkNum, found, clients, inbox, server, faults>>

----------------------------------------------------------------------------
(* The server's handler of new patterns, after it has answered.             *)

EnqueuePatterns(i) ==
  /\ main # "exited"
  /\ waitForParsePatternQueue' = waitForParsePatternQueue \o answered[i]
  /\ total_pattern_received' = total_pattern_received + Len(answered[i])
  /\ answered' = RemoveAt(answered, i)
  /\ UNCHANGED <<worker, found, clients, server, faults>>

(* extract_json throws: the connection broke after the answer.              *)
BodyLost(i) ==
  /\ main # "exited"
  /\ faults < MaxFaults
  /\ faults' = faults + 1
  /\ answered' = RemoveAt(answered, i)
  /\ UNCHANGED <<worker, found, clients, waitForParsePatternQueue, total_pattern_received, server>>

----------------------------------------------------------------------------
(* runParsePatternTaskThread.  The queue is tested under its lock, the two  *)
(* flags are read after it was released, one after the other.               *)

At(q, pc) == q \in DOMAIN parser /\ parser[q].pc = pc

GoTo(q, pc) == parser' = [parser EXCEPT ![q].pc = pc]

PopPattern(q) ==
  /\ At(q, "idle")
  /\ waitForParsePatternQueue # <<>>
  /\ parser' = [parser EXCEPT ![q] = [pc |-> "facts", item |-> Head(waitForParsePatternQueue),
                                      node |-> 0, parent |-> 0]]
  /\ waitForParsePatternQueue' = Tail(waitForParsePatternQueue)
  /\ UNCHANGED <<worker, found, clients, answered, total_pattern_received, main,
                 pattern_parse_thread_num, faults>>

FindQueueEmpty(q) ==
  /\ At(q, "idle")
  /\ waitForParsePatternQueue = <<>>
  /\ GoTo(q, "empty")
  /\ UNCHANGED <<worker, found, clients, inbox, main, pattern_parse_thread_num, faults>>

ReadAllWorkersStop(q) ==
  /\ At(q, "empty")
  /\ GoTo(q, IF allWorkersStop THEN "stopped" ELSE "idle")
  /\ UNCHANGED <<worker, found, clients, inbox, main, pattern_parse_thread_num, faults>>

(* Mutant: the test is inverted. *)
ReadWaitingInverted(q) ==
  /\ At(q, "stopped")
  /\ GoTo(q, IF waitingForNewClients THEN "returned" ELSE "idle")
  /\ UNCHANGED <<worker, found, clients, inbox, main, pattern_parse_thread_num, faults>>

ReadWaitingForNewClients(q) ==
  /\ At(q, "stopped")
  /\ GoTo(q, IF waitingForNewClients THEN "idle" ELSE "returned")
  /\ UNCHANGED <<worker, found, clients, inbox, main, pattern_parse_thread_num, faults>>

----------------------------------------------------------------------------
(* parseAPatternTask, one step per critical section.                        *)

Parsing == UNCHANGED <<worker, inbox, main, pattern_parse_thread_num, faults>>

(* operator[] inserts the bare uid, not working, the first time.            *)
RecordFacts(q) ==
  LET item == parser[q].item
      key == <<"json", item.from>>
  IN
  /\ At(q, "facts")
  /\ allWorkers' = [k \in DOMAIN allWorkers \cup {key} |->
                      IF k # key THEN allWorkers[k]
                      ELSE [working |-> IF k \in DOMAIN allWorkers THEN allWorkers[k].working ELSE FALSE,
                            facts |-> item.facts]]
  /\ GoTo(q, "find")
  /\ UNCHANGED <<found, allWorkersStop, waitingForNewClients>> /\ Parsing

FindPattern(q) ==
  LET n == keyStrToHTreeNodeMap[parser[q].item.info.pattern] IN
  /\ At(q, "find")
  /\ parser' = [parser EXCEPT ![q].pc = IF n = 0 THEN "new" ELSE "known", ![q].node = n]
  /\ UNCHANGED <<found, clients>> /\ Parsing

(* Mutant: a pattern that is known is not counted. *)
CountAgainLost(q) ==
  /\ At(q, "known")
  /\ GoTo(q, "counted")
  /\ UNCHANGED <<found, clients>> /\ Parsing

CountAgain(q) ==
  /\ At(q, "known")
  /\ nodes' = [nodes EXCEPT ![parser[q].node].count = @ + 1]
  /\ GoTo(q, "counted")
  /\ UNCHANGED <<keyStrToHTreeNodeMap, patternsForGram, discarded, clients>>
  /\ Parsing

(* A new HTreeNode; map::insert leaves a node another thread put there, and *)
(* the new one is then reachable from no key.                               *)
NewNode(p, c) ==
  /\ nodes' = Append(nodes, [pattern |-> p, count |-> c, superPatternRelations |-> <<>>])
  /\ keyStrToHTreeNodeMap' = [keyStrToHTreeNodeMap EXCEPT ![p] = IF @ = 0 THEN Len(nodes) + 1 ELSE @]

InsertPattern(q) ==
  LET p == parser[q].item.info.pattern IN
  /\ At(q, "new")
  /\ IF p \in Invalid
       THEN /\ discarded' = discarded + 1
            /\ parser' = [parser EXCEPT ![q] = Idle]
            /\ UNCHANGED <<nodes, keyStrToHTreeNodeMap>>
       ELSE /\ NewNode(p, 1)
            /\ parser' = [parser EXCEPT ![q].pc = "counted", ![q].node = Len(nodes) + 1]
            /\ UNCHANGED discarded
  /\ UNCHANGED <<patternsForGram, clients>> /\ Parsing

(* Mutant: every pattern that was counted is pushed. *)
FirstSeenAlways(n) == nodes[n].count >= 1

FirstSeen(n) == nodes[n].count = 1

(* The count is read again: another thread may have changed it.             *)
ListPattern(q) ==
  LET n == parser[q].node
  IN
  /\ At(q, "counted")
  /\ patternsForGram' = IF FirstSeen(n) THEN Append(patternsForGram, n) ELSE patternsForGram
  /\ IF parser[q].item.info.parent = None THEN parser' = [parser EXCEPT ![q] = Idle] ELSE GoTo(q, "parent")
  /\ UNCHANGED <<keyStrToHTreeNodeMap, nodes, discarded, clients>> /\ Parsing

(* Mutant: the parent is not looked up. *)
FindParentMissed(q) ==
  LET n == keyStrToHTreeNodeMap[parser[q].item.info.parent] IN
  /\ At(q, "parent")
  /\ parser' = [parser EXCEPT ![q].pc = "newParent", ![q].parent = n]
  /\ UNCHANGED <<found, clients>> /\ Parsing

FindParent(q) ==
  LET n == keyStrToHTreeNodeMap[parser[q].item.info.parent] IN
  /\ At(q, "parent")
  /\ parser' = [parser EXCEPT ![q].pc = IF n = 0 THEN "newParent" ELSE "relation", ![q].parent = n]
  /\ UNCHANGED <<found, clients>> /\ Parsing

(* A parent that has not been parsed yet is entered with a count of 0.      *)
InsertParent(q) ==
  LET p == parser[q].item.info.parent IN
  /\ At(q, "newParent")
  /\ IF p \in Invalid
       THEN parser' = [parser EXCEPT ![q] = Idle] /\ UNCHANGED <<nodes, keyStrToHTreeNodeMap>>
       ELSE NewNode(p, 0) /\ parser' = [parser EXCEPT ![q].pc = "relation", ![q].parent = Len(nodes) + 1]
  /\ UNCHANGED <<patternsForGram, discarded, clients>> /\ Parsing

AddRelation(q) ==
  /\ At(q, "relation")
  /\ nodes' = [nodes EXCEPT ![parser[q].parent].superPatternRelations = Append(@, parser[q].node)]
  /\ parser' = [parser EXCEPT ![q] = Idle]
  /\ UNCHANGED <<keyStrToHTreeNodeMap, patternsForGram, discarded, clients>>
  /\ Parsing

----------------------------------------------------------------------------
(* launchCentralServer: join the parse threads, ask the operator, evaluate  *)
(* or start over.  waitingForNewClients is assigned without the lock.       *)

JoinParsers ==
  /\ main = "parsing"
  /\ \A q \in DOMAIN parser : parser[q].pc = "returned"
  /\ main' = "ask"
  /\ UNCHANGED <<worker, found, clients, inbox, parser, pattern_parse_thread_num, faults>>

KeepWaiting ==
  /\ main = "ask"
  /\ main' = "parsing"
  /\ waitingForNewClients' = TRUE
  /\ parser' = [q \in DOMAIN parser |-> Idle]
  /\ UNCHANGED <<worker, found, allWorkers, allWorkersStop, inbox, pattern_parse_thread_num, faults>>

StartEvaluating ==
  /\ main = "ask"
  /\ main' = "evaluating"
  /\ UNCHANGED <<worker, found, clients, inbox, parser, pattern_parse_thread_num, faults>>

(* The evaluation ends in std::exit.                                        *)
centralServerEvaluateInterestingness ==
  /\ main = "evaluating"
  /\ main' = "exited"
  /\ UNCHANGED <<worker, found, clients, inbox, parser, pattern_parse_thread_num, faults>>

----------------------------------------------------------------------------
MinerStep(w, t) ==
  \/ NextLink(w, t)
  \/ addPatternsToJsonArrayBuf(w, t)
  \/ \E o \in Outcome : sendPatternsToCentralServer(w, t, o)

WorkerStep(w) ==
  \/ \E o \in Outcome : launchADistributedWorker(w, o)
  \/ JoinMiners(w)
  \/ \E o \in Outcome : notifyServerThisWorkerStop(w, o)

HandlerStep == \E i \in DOMAIN answered : EnqueuePatterns(i) \/ BodyLost(i)

ParserStep(q) ==
  \/ PopPattern(q) \/ FindQueueEmpty(q) \/ ReadAllWorkersStop(q) \/ ReadWaitingForNewClients(q)
  \/ RecordFacts(q) \/ FindPattern(q) \/ CountAgain(q) \/ InsertPattern(q) \/ ListPattern(q)
  \/ FindParent(q) \/ InsertParent(q) \/ AddRelation(q)

MainStep == JoinParsers \/ centralServerEvaluateInterestingness

ServerOperatorAnswers == KeepWaiting \/ StartEvaluating

(* Every process has ended.                                                 *)
Over ==
  /\ main = "exited"
  /\ \A w \in Workers : state[w] = "gone"
  /\ UNCHANGED vars

Next ==
  \/ \E w \in Workers : WorkerStep(w) \/ WorkerOperatorAnswers(w) \/ \E t \in Threads : MinerStep(w, t)
  \/ \E q \in Parsers : ParserStep(q)
  \/ HandlerStep
  \/ MainStep
  \/ ServerOperatorAnswers
  \/ Over

(* Threads, handlers and the main thread run on; the operators may stay     *)
(* silent, and faults are bounded.                                          *)
Fairness ==
  /\ \A w \in Workers : WF_vars(WorkerStep(w)) /\ \A t \in Threads : WF_vars(MinerStep(w, t))
  /\ \A q \in Parsers : WF_vars(ParserStep(q))
  /\ WF_vars(HandlerStep)
  /\ WF_vars(MainStep)

Spec == Init /\ [][Next]_vars /\ Fairness

----------------------------------------------------------------------------
(* Properties. *)

Resting == {"idle", "empty", "stopped", "returned"}
Busy == {"facts", "find", "known", "new", "counted", "parent", "newParent", "relation"}
Parser == [pc : Resting] \cup [pc : Busy, item : Item, node : Nat, parent : Nat]
Node == [pattern : Patterns, count : Nat, superPatternRelations : Seq(Nat)]
Thread == [pc : {"next", "send", "flush", "end"}, index : Nat, left : Seq(Info), array : Seq(Item)]

WorkersOK ==
  /\ allLinks \in Corpora
  /\ state \in [Workers -> {"start", "mining", "reporting", "asked", "gone"}]
  /\ thread \in [Workers -> [Threads -> Thread]]
  /\ actualProcessedLinkNum \in [Workers -> Nat]
  /\ tries \in [Workers -> 0 .. MaxTries]

ClientsOK ==
  /\ DOMAIN allWorkers \subseteq ClientKey
  /\ allWorkers \in [DOMAIN allWorkers -> [working : BOOLEAN, facts : Nat]]
  /\ {allWorkersStop, waitingForNewClients} \subseteq BOOLEAN

InboxOK ==
  /\ answered \in Seq(Seq(Item))
  /\ waitForParsePatternQueue \in Seq(Item)
  /\ total_pattern_received \in Nat

ParsersOK ==
  /\ main \in {"parsing", "ask", "evaluating", "exited"}
  /\ pattern_parse_thread_num \in Parsers
  /\ parser \in [1 .. pattern_parse_thread_num -> Parser]

FoundOK ==
  /\ nodes \in Seq(Node)
  /\ keyStrToHTreeNodeMap \in [Patterns -> 0 .. Len(nodes)]
  /\ patternsForGram \in Seq(1 .. Len(nodes))
  /\ discarded \in Nat

(* The variables keep the shapes their declarations in                      *)
(* DistributedPatternMiner.h give them, and node numbers refer to nodes.    *)
TypeOK ==
  /\ WorkersOK /\ ClientsOK /\ InboxOK /\ ParsersOK /\ FoundOK
  /\ faults \in 0 .. MaxFaults
  /\ \A q \in DOMAIN parser : parser[q].pc \in Busy =>
        parser[q].node <= Len(nodes) /\ parser[q].parent <= Len(nodes)

Uncounted == {q \in DOMAIN parser : parser[q].pc \in {"facts", "find", "known", "new"}}

(* What the counts of the nodes stand for, one element for each pattern     *)
(* counted: as many as the sum of the counts.                               *)
Occurrences == UNION {{n} \X (1 .. nodes[n].count) : n \in DOMAIN nodes}

(* Every pattern handleFindNewPatterns has received is in the queue, in a   *)
(* parse thread that has not counted it yet, in the count of one            *)
(* HTreeNode, or was rejected as invalid: the races between the parse       *)
(* threads may split a pattern over several nodes but lose none of it.      *)
ReceivedAccounted ==
  total_pattern_received =
    Len(waitForParsePatternQueue) + Cardinality(Uncounted) + discarded + Cardinality(Occurrences)

Times(n, s) == Cardinality({i \in DOMAIN s : s[i] = n})

(* The test "count == 1" of parseAPatternTask is made outside the lock the  *)
(* count is changed under; still no node is pushed twice into the list the  *)
(* results are written from.                                                *)
ListedOnce ==
  \A n \in DOMAIN nodes : Times(n, patternsForGram) <= 1

(* With one parse thread parseAPatternTask is exact: a pattern has one      *)
(* node, the map leads to it, and it is in a list as soon as it has been    *)
(* counted and the thread has come to the test.                             *)
OneParserExact ==
  pattern_parse_thread_num = 1 =>
    \A n \in DOMAIN nodes :
      /\ keyStrToHTreeNodeMap[nodes[n].pattern] = n
      /\ \/ At(1, "counted") /\ parser[1].node = n
         \/ Times(n, patternsForGram) = 1 <=> nodes[n].count > 0

(* Once all workers have stopped and none is waited for, the parse threads  *)
(* drain the queue and end, so the operator is asked, unless another        *)
(* worker registers.                                                        *)
ParsersEnd ==
  (main = "parsing" /\ allWorkersStop /\ ~waitingForNewClients) ~>
    (main # "parsing" \/ ~allWorkersStop)

(* A registered worker gets through its corpus and its report, as long as   *)
(* the server answers and its operator does not leave it waiting.           *)
WorkerLeaves ==
  \A w \in Workers : (state[w] = "mining") ~> (state[w] \in {"gone", "asked"} \/ main = "exited")

(* What launchCentralServer prints when the parse threads have been joined: *)
(* "All connected clients have finished and all the received patterns have  *)
(* been parsed by the server."                                              *)
AskedWhenParsed ==
  [][main # "ask" /\ main' = "ask" => answered = <<>> /\ waitForParsePatternQueue = <<>>]_vars
=============================================================================
