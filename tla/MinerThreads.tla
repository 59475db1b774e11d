---------------------------- MODULE MinerThreads ----------------------------
(***************************************************************************)
(* The depth-first pattern miner of one process: THREAD_NUM threads mine   *)
(* the links of the corpus (PatternMinerDF.cc), then as many threads       *)
(* evaluate the patterns found, gram by gram (PatternMiner.cc,             *)
(* runInterestingnessEvaluation).                                          *)
(*                                                                         *)
(* A thread copies its next link into observing_as, extracts the pattern   *)
(* of the link, and extends it by the links that share a node with it and  *)
(* are already in observing_as, up to MAX_GRAM links.  So of two links     *)
(* that share a node the one that is copied last meets the other.  When    *)
(* two threads do so at the same time each of them claims the links        *)
(* together, and the other is meant to leave them alone.                   *)
(*                                                                         *)
(* A link is the set of its nodes, and the links of an instance yield one  *)
(* pattern, PatternOf: the choice of variables is not modelled here.       *)
(*                                                                         *)
(* A read of a pattern that is not set yet and a push beyond the end of    *)
(* patternsForGram are undefined in C++: the model stops there.  Threads   *)
(* that change one list of superPatternRelations at a time do so one after *)
(* the other.                                                              *)
(***************************************************************************)
EXTENDS Naturals, Sequences, FiniteSets, FiniteSetsExt, Functions

CONSTANTS
  LinkNum,      \* allLinkNumber
  NodesOf,      \* link -> the nodes in it
  IgnoredLinks, \* the links the black and white lists leave out
  PatternOf(_), \* the key of the pattern of a set of links
  MAX_GRAM,
  MaxThreads,   \* the largest THREAD_NUM
  ClaimsKept    \* how many claims addThreadExtractedLinks keeps, 60 in the code

Links == 1 .. LinkNum
Instances == (SUBSET Links) \ {{}}

(* The key of a pattern spells out its links, so patterns with different    *)
(* numbers of links have different keys.                                    *)
ASSUME MinerAssumption ==
  /\ {LinkNum, MAX_GRAM, MaxThreads, ClaimsKept} \subseteq Nat \ {0}
  /\ IgnoredLinks \subseteq Links
  /\ DOMAIN NodesOf = Links
  /\ \A i, j \in Instances : PatternOf(i) = PatternOf(j) => Cardinality(i) = Cardinality(j)

VARIABLES
  THREAD_NUM,
  phase,        \* "mining", then "evaluating" gram cur_gram, then "done"
  index,        \* thread -> the next link of its range
  pc,           \* thread -> where it is
  stack,        \* thread -> its calls of extendAPatternForOneMoreGramRecursively
  curTask,      \* thread -> allNewMinedPatternsCurTask
  observing_as, \* the links copied so far
  nodes,        \* the HTreeNodes: [key, count, size, superPatternRelations]
  patternsForGram,              \* gram -> node numbers
  thread_DF_ExtractedLinks,     \* thread, gram -> the claims of the thread
  all_thread_ExtractedLinks_pergram,
  cur_gram, cur_index,
  visits,       \* set of links -> how often a thread entered it
  evaluated,    \* node -> how often it was evaluated
  undefined     \* a thread has left the bounds of a vector

mined == <<nodes, patternsForGram>>
claims == <<thread_DF_ExtractedLinks, all_thread_ExtractedLinks_pergram>>
evaluation == <<cur_gram, cur_index, evaluated>>
work == <<THREAD_NUM, phase, index, pc, stack, curTask, observing_as, mined, claims, evaluation, visits>>
vars == <<work, undefined>>

Threads == 0 .. THREAD_NUM - 1
Grams == 1 .. MAX_GRAM   \* the lists patternsForGram has

----------------------------------------------------------------------------
linksPerThread == LinkNum \div THREAD_NUM
StartIndex(t) == linksPerThread * t + 1
(* Mutant: what the division leaves over is not mined. *)
EndIndexShort(t) == linksPerThread * (t + 1) + 1

EndIndex(t) == IF t = THREAD_NUM - 1 THEN LinkNum + 1 ELSE linksPerThread * (t + 1) + 1

(* runPatternMinerDepthFirst starts the threads. *)
Init ==
  /\ THREAD_NUM \in 1 .. MaxThreads
  /\ phase = "mining"
  /\ index = [t \in Threads |-> StartIndex(t)]
  /\ pc = [t \in Threads |-> "link"]
  /\ stack = [t \in Threads |-> <<>>]
  /\ curTask = [t \in Threads |-> {}]
  /\ observing_as = {}
  /\ nodes = <<>>
  /\ patternsForGram = [g \in Grams |-> <<>>]
  /\ thread_DF_ExtractedLinks = [t \in Threads |-> [g \in 1 .. LinkNum + 1 |-> <<>>]]
  /\ all_thread_ExtractedLinks_pergram = [g \in 1 .. LinkNum + 1 |-> {}]
  /\ cur_gram = 1
  /\ cur_index = 0
  /\ visits = [i \in Instances |-> 0]
  /\ evaluated = <<>>
  /\ undefined = FALSE

Top(t) == stack[t][Len(stack[t])]
Below(t) == SubSeq(stack[t], 1, Len(stack[t]) - 1)
SetTop(t, frame) == stack' = [stack EXCEPT ![t] = Append(Below(t), frame)]
GoTo(t, l) == pc' = [pc EXCEPT ![t] = l]

(* A call of extendAPatternForOneMoreGramRecursively on a set of links.  Its  *)
(* gram is read from the parent's pattern, which may not have been set yet.  *)
Call(t, links, parent, below) ==
  /\ stack' = [stack EXCEPT ![t] = Append(below,
       [links |-> links, parent |-> parent, node |-> 0,
        gram |-> IF parent = 0 THEN 1 ELSE nodes[parent].size + 1,
        ext |-> {}, cand |-> {}, next |-> 0])]
  /\ visits' = [visits EXCEPT ![links] = @ + 1]
  /\ GoTo(t, "extract")

Return(t) == stack' = [stack EXCEPT ![t] = Below(t)] /\ GoTo(t, IF Len(stack[t]) = 1 THEN "link" ELSE "extend")

----------------------------------------------------------------------------
Copied(l) == observing_as \cup {l}

(* Mutant: the patterns of the last task are kept. *)
NewTaskKept(found) == found

NewTask(found) == {}

(* growPatternsDepthFirstTask *)
NextLink(t) ==
  LET l == index[t] IN
  /\ phase = "mining"
  /\ pc[t] = "link"
  /\ l < EndIndex(t)
  /\ index' = [index EXCEPT ![t] = @ + 1]
  /\ curTask' = [curTask EXCEPT ![t] = NewTask(@)]
  /\ IF l \in IgnoredLinks
       THEN UNCHANGED <<observing_as, stack, visits, pc>>
       ELSE observing_as' = Copied(l) /\ Call(t, {l}, 0, <<>>)
  /\ UNCHANGED <<THREAD_NUM, phase, mined, claims, evaluation>>

ThreadEnds(t) ==
  /\ phase = "mining"
  /\ pc[t] = "link"
  /\ index[t] = EndIndex(t)
  /\ GoTo(t, "end")
  /\ UNCHANGED <<THREAD_NUM, phase, index, stack, curTask, observing_as, mined, claims, evaluation, visits>>

(* Mutant: a node whose pattern is not set yet is not found. *)
NodeOfFilled(key) == {n \in DOMAIN nodes : nodes[n].key = key /\ nodes[n].size > 0}

(* extractAPatternFromGivenVarCombination: a pattern already found in the   *)
(* task is passed over; otherwise the key is looked up, and counted or      *)
(* entered, under uniqueKeyLock.                                            *)
NodeOf(key) == {n \in DOMAIN nodes : nodes[n].key = key}

ExtractPattern(t) ==
  LET key == PatternOf(Top(t).links)
      known == NodeOf(key)
      new == [key |-> key, count |-> 1, size |-> 0, superPatternRelations |-> <<>>]
  IN
  /\ pc[t] = "extract"
  /\ IF key \in curTask[t]
       THEN /\ SetTop(t, [Top(t) EXCEPT !.node = Min(known)])
            /\ GoTo(t, "relation")
            /\ UNCHANGED <<curTask, nodes>>
       ELSE /\ curTask' = [curTask EXCEPT ![t] = @ \cup {key}]
            /\ SetTop(t, [Top(t) EXCEPT !.node = IF known = {} THEN Len(nodes) + 1 ELSE Min(known),
                                        !.ext = UNION {NodesOf[l] : l \in Top(t).links}])
            /\ nodes' = IF known = {} THEN Append(nodes, new)
                        ELSE [nodes EXCEPT ![Min(known)].count = @ + 1]
            /\ GoTo(t, IF known = {} THEN "fill" ELSE "relation")
  /\ UNCHANGED <<THREAD_NUM, phase, index, observing_as, patternsForGram, claims, evaluation, visits>>

(* The creator sets the pattern after it has released uniqueKeyLock, and    *)
(* pushes the node under addNewPatternLock.                                 *)
FillNode(t) ==
  LET n == Top(t).node
      g == Cardinality(Top(t).links)
  IN
  /\ pc[t] = "fill"
  /\ g \in Grams
  /\ nodes' = [nodes EXCEPT ![n].size = g]
  /\ patternsForGram' = [patternsForGram EXCEPT ![g] = Append(@, n)]
  /\ GoTo(t, "relation")
  /\ UNCHANGED <<THREAD_NUM, phase, index, stack, curTask, observing_as, claims, evaluation, visits>>

(* A pattern of more than MAX_GRAM links has no list to go to.              *)
PushBeyond(t) == pc[t] = "fill" /\ Cardinality(Top(t).links) \notin Grams

(* Without a parent there is none to make.                                  *)
RelationKnown(f) == f.parent # 0 => f.node \in Range(nodes[f.parent].superPatternRelations)

(* For a pattern that is new in the task and below MAX_GRAM, the extension. *)
AfterRelation(t) ==
  IF Top(t).ext = {} \/ Top(t).gram >= MAX_GRAM THEN Return(t)
  ELSE GoTo(t, "extend") /\ UNCHANGED stack

(* Is the relation to the parent there already?  If not, a link of the      *)
(* node's pattern is copied into a new one, which is pushed in a step of    *)
(* its own: no lock is held.                                                *)
CheckRelation(t) ==
  /\ pc[t] = "relation"
  /\ \/ RelationKnown(Top(t)) /\ AfterRelation(t)
     \/ /\ ~RelationKnown(Top(t))
        /\ nodes[Top(t).node].size > 0
        /\ GoTo(t, "push")
        /\ UNCHANGED stack
  /\ UNCHANGED <<THREAD_NUM, phase, index, curTask, observing_as, mined, claims, evaluation, visits>>

(* The pattern of the node is still that of the constructor, without links. *)
ReadUnset(t) ==
  /\ pc[t] = "relation"
  /\ ~RelationKnown(Top(t))
  /\ nodes[Top(t).node].size = 0

AddSuperPattern(t) ==
  /\ pc[t] = "push"
  /\ nodes' = [nodes EXCEPT ![Top(t).parent].superPatternRelations = Append(@, Top(t).node)]
  /\ AfterRelation(t)
  /\ UNCHANGED <<THREAD_NUM, phase, index, curTask, observing_as, patternsForGram, claims, evaluation, visits>>

(* The incoming set of the next node of the instance, in observing_as.      *)
NextNode(t) ==
  LET f == Top(t) IN
  /\ pc[t] = "extend"
  /\ f.cand = {}
  /\ f.ext # {}
  /\ \E x \in f.ext :
       SetTop(t, [f EXCEPT !.ext = @ \ {x},
                           !.cand = {l \in observing_as : x \in NodesOf[l]} \ f.links])
  /\ UNCHANGED <<THREAD_NUM, phase, index, pc, curTask, observing_as, mined, claims, evaluation, visits>>

EndCall(t) ==
  /\ pc[t] = "extend"
  /\ Top(t).cand = {}
  /\ Top(t).ext = {}
  /\ Return(t)
  /\ UNCHANGED <<THREAD_NUM, index, phase, curTask, observing_as, mined, claims, evaluation, visits>>

(* existInOneThreadExtractedLinks and existInAllThreadExtractedLinks, with  *)
(* several threads only: links claimed by another thread are passed over.   *)
TryLink(t) ==
  LET f == Top(t) IN
  /\ pc[t] = "extend"
  /\ \E l \in f.cand :
       LET links == f.links \cup {l}
           g == f.gram + 1
           rest == [f EXCEPT !.cand = @ \ {l}]
           mine == links \in Range(thread_DF_ExtractedLinks[t][g])
       IN
       \/ /\ THREAD_NUM = 1 \/ mine
          /\ Call(t, links, f.node, Append(Below(t), rest))
       \/ /\ THREAD_NUM > 1 /\ ~mine
          /\ links \in all_thread_ExtractedLinks_pergram[g]
          /\ SetTop(t, rest)
          /\ UNCHANGED <<pc, visits>>
       \/ /\ THREAD_NUM > 1 /\ ~mine
          /\ links \notin all_thread_ExtractedLinks_pergram[g]
          /\ SetTop(t, [rest EXCEPT !.next = l])
          /\ GoTo(t, "claim")
          /\ UNCHANGED visits
  /\ UNCHANGED <<THREAD_NUM, phase, index, curTask, observing_as, mined, claims, evaluation>>

(* addThreadExtractedLinks, a critical section of its own.                  *)
AddClaim(t) ==
  LET f == Top(t)
      g == f.gram + 1
      links == f.links \cup {f.next}
      own == Append(thread_DF_ExtractedLinks[t][g], links)
      full == Len(own) > ClaimsKept
  IN
  /\ pc[t] = "claim"
  /\ thread_DF_ExtractedLinks' = [thread_DF_ExtractedLinks EXCEPT ![t][g] = IF full THEN Tail(own) ELSE own]
  /\ all_thread_ExtractedLinks_pergram' =
       [all_thread_ExtractedLinks_pergram EXCEPT ![g] = (@ \cup {links}) \ (IF full THEN {Head(own)} ELSE {})]
  /\ Call(t, links, f.node, stack[t])
  /\ UNCHANGED <<THREAD_NUM, phase, index, curTask, observing_as, mined, evaluation>>

----------------------------------------------------------------------------
(* runInterestingnessEvaluation: threads for one gram after the other.      *)
StartEvaluation ==
  /\ phase = "mining"
  /\ \A t \in Threads : pc[t] = "end"
  /\ phase' = "evaluating"
  /\ pc' = [t \in Threads |-> "next"]
  /\ evaluated' = [n \in DOMAIN nodes |-> 0]
  /\ UNCHANGED <<THREAD_NUM, index, stack, curTask, observing_as, mined, claims, cur_gram, cur_index, visits>>

(* Mutant: the last pattern is left out. *)
ListedButLast(i) == i < Len(patternsForGram[cur_gram])

Listed(i) == i <= Len(patternsForGram[cur_gram])

(* evaluateInterestingnessTask: the next pattern, under readNextPatternLock.*)
EvaluateNext(t) ==
  /\ phase = "evaluating"
  /\ pc[t] = "next"
  /\ cur_index' = cur_index + 1
  /\ IF Listed(cur_index')
       THEN /\ evaluated' = [evaluated EXCEPT ![patternsForGram[cur_gram][cur_index']] = @ + 1]
            /\ UNCHANGED pc
       ELSE GoTo(t, "end") /\ UNCHANGED evaluated
  /\ UNCHANGED <<THREAD_NUM, phase, index, stack, curTask, observing_as, mined, claims, cur_gram, visits>>

GramsLeft == cur_gram < MAX_GRAM

(* With enable_surprisingness a gram without patterns ends the loop.        *)
NextGram ==
  /\ phase = "evaluating"
  /\ \A t \in Threads : pc[t] = "end"
  /\ \/ /\ GramsLeft
        /\ cur_gram' = cur_gram + 1
        /\ cur_index' = 0
        /\ pc' = [t \in Threads |-> "next"]
        /\ UNCHANGED phase
     \/ /\ ~GramsLeft \/ patternsForGram[cur_gram] = <<>>
        /\ phase' = "done"
        /\ UNCHANGED <<cur_gram, cur_index, pc>>
  /\ UNCHANGED <<THREAD_NUM, index, stack, curTask, observing_as, mined, claims, evaluated, visits>>

MinerStep(t) ==
  \/ NextLink(t) \/ ThreadEnds(t) \/ ExtractPattern(t) \/ FillNode(t) \/ CheckRelation(t)
  \/ AddSuperPattern(t) \/ NextNode(t) \/ EndCall(t) \/ TryLink(t) \/ AddClaim(t) \/ EvaluateNext(t)

Step ==
  \/ \E t \in 0 .. MaxThreads - 1 : t \in Threads /\ MinerStep(t)
  \/ StartEvaluation
  \/ NextGram

OutOfBounds ==
  /\ \E t \in Threads : PushBeyond(t) \/ ReadUnset(t)
  /\ undefined' = TRUE
  /\ UNCHANGED work

Over == (phase = "done" \/ undefined) /\ UNCHANGED vars

Next ==
  \/ ~undefined /\ Step /\ UNCHANGED undefined
  \/ ~undefined /\ OutOfBounds
  \/ Over

Spec == Init /\ [][Next]_vars

----------------------------------------------------------------------------
(* Properties. *)

Mined == phase # "mining"

Frame == [links : Instances, parent : Nat, node : Nat, gram : 1 .. LinkNum, ext : SUBSET UNION Range(NodesOf),
          cand : SUBSET Links, next : 0 .. LinkNum]
HTreeNode == [key : {PatternOf(i) : i \in Instances}, count : Nat, size : 0 .. LinkNum,
              superPatternRelations : Seq(Nat)]

ThreadsOK ==
  /\ THREAD_NUM \in 1 .. MaxThreads
  /\ phase \in {"mining", "evaluating", "done"}
  /\ index \in [Threads -> 1 .. LinkNum + 1]
  /\ pc \in [Threads -> {"link", "extract", "fill", "relation", "push", "extend", "claim", "next", "end"}]
  /\ stack \in [Threads -> Seq(Frame)]
  /\ curTask \in [Threads -> SUBSET {PatternOf(i) : i \in Instances}]

PatternsOK ==
  /\ observing_as \subseteq Links \ IgnoredLinks
  /\ nodes \in Seq(HTreeNode)
  /\ patternsForGram \in [Grams -> Seq(DOMAIN nodes)]
  /\ visits \in [Instances -> Nat]
  /\ cur_gram \in 1 .. MAX_GRAM
  /\ cur_index \in Nat
  /\ Mined => evaluated \in [DOMAIN nodes -> Nat]

ClaimsOK ==
  /\ thread_DF_ExtractedLinks \in [Threads -> [1 .. LinkNum + 1 -> Seq(Instances)]]
  /\ all_thread_ExtractedLinks_pergram \in [1 .. LinkNum + 1 -> SUBSET Instances]

(* The variables keep the shapes PatternMiner.h declares; no claim is made  *)
(* for more links than there are.                                           *)
TypeOK == ThreadsOK /\ PatternsOK /\ ClaimsOK

SharesNode(l, m) == l # m /\ NodesOf[l] \cap NodesOf[m] # {}

(* Two links that share a node are looked at together by some thread:       *)
(* whatever the threads' order, the check of the claims never makes each    *)
(* of them leave the pair to the other.                                     *)
NoPairMissed ==
  Mined /\ MAX_GRAM > 1 =>
    \A l, m \in Links \ IgnoredLinks : SharesNode(l, m) => visits[{l, m}] > 0

(* The lookup and the insertion of a key are one critical section: a        *)
(* pattern has one HTreeNode, and it is in the list of its gram exactly     *)
(* once when the threads have been joined.                                  *)
OneNodePerPattern ==
  /\ \A m, n \in DOMAIN nodes : nodes[m].key = nodes[n].key => m = n
  /\ Mined => \A n \in DOMAIN nodes : \E g \in Grams : \E i \in DOMAIN patternsForGram[g] :
       \A h \in Grams : \A j \in DOMAIN patternsForGram[h] :
         patternsForGram[h][j] = n <=> h = g /\ j = i

(* A pattern is counted at most once for a link, and a one-link pattern     *)
(* exactly once for each link it matches, whichever thread mined the link.  *)
OneGramCountsExact ==
  Mined => \A n \in DOMAIN nodes :
    /\ nodes[n].count <= Cardinality(Links \ IgnoredLinks)
    /\ nodes[n].size = 1 => nodes[n].count = Cardinality({l \in Links \ IgnoredLinks : PatternOf({l}) = nodes[n].key})

(* The threads share cur_index; every listed pattern of every gram is       *)
(* evaluated once, none twice.                                              *)
EvaluatedOnce ==
  phase = "done" => \A g \in 1 .. MAX_GRAM : \A n \in Range(patternsForGram[g]) : evaluated[n] = 1

(* growPatternsDepthFirstTask: "extend till the max_gram links".            *)
GramWithinMax == \A t \in Threads : \A i \in DOMAIN stack[t] : Cardinality(stack[t][i].links) <= MAX_GRAM
=============================================================================
