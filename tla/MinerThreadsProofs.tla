------------------------- MODULE MinerThreadsProofs -------------------------
(***************************************************************************)
(* Proofs about MinerThreads for every corpus, number of threads, bound on *)
(* the claims and MAX_GRAM: the types, that a pattern has one HTreeNode    *)
(* which is listed once when the threads have been joined, that every      *)
(* listed pattern is evaluated once, that no pair of links that share a    *)
(* node is missed, and that the counts are those of the links.             *)
(***************************************************************************)
EXTENDS MinerThreads, FiniteSetTheorems, SequenceTheorems, TLAPS

Places == {"link", "extract", "fill", "relation", "push", "extend", "claim", "next", "end"}

(* The links of a call: those that may be added are not among them, and     *)
(* there is a node for a pattern with one link less.                        *)
FrameInv(nd, f) ==
  /\ f.parent \in 0 .. Len(nd)
  /\ f.cand \cap f.links = {}
  /\ f.gram <= Cardinality(f.links)
  /\ Cardinality(f.links) > 1 => \E m \in DOMAIN nd : \E i \in Instances :
       nd[m].key = PatternOf(i) /\ Cardinality(f.links) = Cardinality(i) + 1

(* The call has its node.                                                   *)
FrameDone(nd, f) == f.node \in DOMAIN nd /\ nd[f.node].key = PatternOf(f.links)

(* The calls st of a thread that is at p, with the nodes nd.                *)
CallsOK(nd, st, p) ==
  /\ p \in {"link", "next", "end"} <=> st = <<>>
  /\ \A k \in DOMAIN st :
       /\ FrameInv(nd, st[k])
       /\ k < Len(st) \/ p # "extract" => FrameDone(nd, st[k])
  /\ p = "claim" => st[Len(st)].next \in Links \ st[Len(st)].links

Calls == \A t \in Threads : CallsOK(nodes, stack[t], pc[t])

Phases ==
  \A t \in Threads :
    /\ phase = "mining" => pc[t] # "next"
    /\ phase # "mining" => pc[t] \in {"next", "end"}

(* Keys are entered once; what a task has found has a node; a node's        *)
(* pattern is not set yet or has as many links as its key says; and there   *)
(* is a node for every smaller number of links.                             *)
KeysUnique == \A m, n \in DOMAIN nodes : nodes[m].key = nodes[n].key => m = n
FoundHasNode == \A t \in Threads : \A k \in curTask[t] : \E n \in DOMAIN nodes : nodes[n].key = k
SizeOfKey ==
  \A n \in DOMAIN nodes : \A i \in Instances :
    nodes[n].key = PatternOf(i) => nodes[n].size \in {0, Cardinality(i)}
NodeBelow ==
  \A n \in DOMAIN nodes : \A i \in Instances :
    nodes[n].key = PatternOf(i) =>
      \A c \in 1 .. Cardinality(i) - 1 : \E m \in DOMAIN nodes : \E j \in Instances :
        nodes[m].key = PatternOf(j) /\ Cardinality(j) = c

NodesInv == KeysUnique /\ FoundHasNode /\ SizeOfKey /\ NodeBelow

(* The node that a thread has made and not listed yet, 0 for none.          *)
Filling(t) == IF pc[t] = "fill" THEN Top(t).node ELSE 0

(* A node is about to be listed by one thread, or it is listed, at one      *)
(* place, under the number of links of its key.                             *)
OneFiller == \A t, s \in Threads : Filling(t) = Filling(s) /\ Filling(t) # 0 => t = s
FilledUnlisted ==
  \A t \in Threads : \A g \in Grams : \A i \in DOMAIN patternsForGram[g] : patternsForGram[g][i] # Filling(t)
FilledOrListed ==
  \A n \in DOMAIN nodes :
    \/ \E t \in Threads : Filling(t) = n
    \/ \E g \in Grams : \E i \in DOMAIN patternsForGram[g] : patternsForGram[g][i] = n
OnePlace ==
  \A g, h \in Grams : \A i \in DOMAIN patternsForGram[g] : \A j \in DOMAIN patternsForGram[h] :
    patternsForGram[g][i] = patternsForGram[h][j] => g = h /\ i = j
GramOfKey ==
  \A g \in Grams : \A i \in DOMAIN patternsForGram[g] : \A k \in Instances :
    nodes[patternsForGram[g][i]].key = PatternOf(k) => Cardinality(k) = g

Listing == OneFiller /\ FilledUnlisted /\ FilledOrListed /\ OnePlace /\ GramOfKey

(* What is before cur_gram and cur_index has been evaluated once, the rest  *)
(* not at all; a thread ends when it has found no pattern left, and the     *)
(* loop over the grams at the last one or at an empty one.                  *)
Passed(g, i) == g < cur_gram \/ (g = cur_gram /\ i <= cur_index)
Evaluation ==
  Mined => \A g \in Grams : \A i \in DOMAIN patternsForGram[g] :
             evaluated[patternsForGram[g][i]] = IF Passed(g, i) THEN 1 ELSE 0
EndOfGram ==
  Mined /\ ((\E t \in Threads : pc[t] = "end") \/ phase = "done") =>
    cur_index >= Len(patternsForGram[cur_gram])
LastGram == phase = "done" => cur_gram = MAX_GRAM \/ patternsForGram[cur_gram] = <<>>

Waiting == ~Mined => cur_gram = 1 /\ cur_index = 0

Progress == Evaluation /\ EndOfGram /\ LastGram /\ Waiting

MinerInv == TypeOK /\ Calls /\ Phases /\ NodesInv /\ Listing /\ Progress

----------------------------------------------------------------------------
(* Sets of links.                                                           *)

\* A set of links has from one to LinkNum links.
LEMMA InstanceFacts ==
  ASSUME NEW i \in Instances
  PROVE  IsFiniteSet(i) /\ Cardinality(i) \in 1 .. LinkNum
<1>1. LinkNum \in Nat /\ i \subseteq 1 .. LinkNum /\ i # {}
  BY MinerAssumption DEF Instances, Links
<1>2. IsFiniteSet(1 .. LinkNum) /\ Cardinality(1 .. LinkNum) = LinkNum
  BY <1>1, FS_Interval
<1>3. IsFiniteSet(i) /\ Cardinality(i) <= LinkNum
  BY <1>1, <1>2, FS_Subset
<1>4. Cardinality(i) \in Nat /\ Cardinality(i) # 0
  BY <1>1, <1>3, FS_CardinalityType, FS_EmptySet
<1> QED
  BY <1>1, <1>3, <1>4

\* A link more.
LEMMA AddLink ==
  ASSUME NEW i \in Instances, NEW l \in Links \ i
  PROVE  i \cup {l} \in Instances /\ Cardinality(i \cup {l}) = Cardinality(i) + 1
<1>1. i \cup {l} \in Instances
  BY DEF Instances
<1>2. Cardinality(i \cup {l}) = Cardinality(i) + 1
  BY InstanceFacts, FS_AddElement
<1> QED
  BY <1>1, <1>2

\* One link.
LEMMA OneLink ==
  ASSUME NEW l \in Links
  PROVE  {l} \in Instances /\ Cardinality({l}) = 1
<1>1. {l} \in Instances
  BY DEF Instances
<1> QED
  BY <1>1, FS_Singleton

\* The ranges of the threads are within the links.
LEMMA RangeFacts ==
  ASSUME THREAD_NUM \in 1 .. MaxThreads, NEW t \in Threads
  PROVE  StartIndex(t) \in 1 .. LinkNum + 1 /\ EndIndex(t) \in 1 .. LinkNum + 1
<1>1. LinkNum \in Nat /\ THREAD_NUM \in Nat /\ THREAD_NUM > 0 /\ t \in Nat /\ t < THREAD_NUM
  BY MinerAssumption DEF Threads
<1> DEFINE q == LinkNum \div THREAD_NUM
<1>2. q \in Nat /\ q * THREAD_NUM <= LinkNum
  BY <1>1
<1> HIDE DEF q
<1>3. \A k \in 0 .. THREAD_NUM : q * k \in Nat /\ q * k <= q * THREAD_NUM
  <2> TAKE k \in 0 .. THREAD_NUM
  <2>1. q * k \in Nat
    BY <1>1, <1>2
  <2>2. q * THREAD_NUM = q * k + q * (THREAD_NUM - k)
    BY <1>1, <1>2
  <2>3. q * (THREAD_NUM - k) \in Nat
    BY <1>1, <1>2
  <2> QED
    BY <2>1, <2>2, <2>3, <1>1, <1>2
<1>4. q * t \in Nat /\ q * t <= LinkNum
  BY <1>1, <1>2, <1>3
<1>5. q * (t + 1) \in Nat /\ q * (t + 1) <= LinkNum
  BY <1>1, <1>2, <1>3
<1>6. StartIndex(t) = q * t + 1 /\ EndIndex(t) \in {LinkNum + 1, q * (t + 1) + 1}
  BY DEF StartIndex, EndIndex, linksPerThread, q
<1> QED
  BY <1>1, <1>4, <1>5, <1>6

----------------------------------------------------------------------------
(* Stacks of calls.                                                         *)

\* The stack of a thread that is in a call.
LEMMA StackFacts ==
  ASSUME ThreadsOK, NEW t \in Threads, stack[t] # <<>>
  PROVE  /\ stack[t] \in Seq(Frame)
         /\ Len(stack[t]) \in Nat \ {0}
         /\ Len(stack[t]) \in DOMAIN stack[t]
         /\ Top(t) = stack[t][Len(stack[t])]
         /\ Top(t) \in Frame
         /\ Below(t) \in Seq(Frame)
         /\ Len(Below(t)) = Len(stack[t]) - 1
         /\ \A k \in DOMAIN Below(t) : k \in DOMAIN stack[t] /\ k < Len(stack[t]) /\ Below(t)[k] = stack[t][k]
<1> DEFINE s == stack[t]
           F == Frame
<1>1. s \in Seq(F) /\ s # <<>>
  BY DEF ThreadsOK
<1> HIDE DEF s, F
<1>2. /\ Len(s) \in Nat \ {0}
      /\ Len(s) \in DOMAIN s
      /\ s[Len(s)] \in F
  BY <1>1
<1>3. /\ SubSeq(s, 1, Len(s) - 1) \in Seq(F)
      /\ Len(SubSeq(s, 1, Len(s) - 1)) = Len(s) - 1
      /\ \A k \in DOMAIN SubSeq(s, 1, Len(s) - 1) :
           k \in DOMAIN s /\ k < Len(s) /\ SubSeq(s, 1, Len(s) - 1)[k] = s[k]
  <2>1. /\ SubSeq(s, 1, Len(s) - 1) \in Seq(F)
        /\ Len(SubSeq(s, 1, Len(s) - 1)) = Len(s) - 1
        /\ \A k \in 1 .. Len(s) - 1 : SubSeq(s, 1, Len(s) - 1)[k] = s[k]
    <3>1. Len(s) - 1 \in Int /\ \A k \in 1 .. Len(s) - 1 : s[k] \in F
      BY <1>1, <1>2
    <3> DEFINE n == Len(s) - 1
    <3>2. n \in Nat /\ \A k \in 1 .. n : s[k] \in F
      BY <1>2, <3>1
    <3> HIDE DEF n
    <3>3. /\ SubSeq(s, 1, n) \in Seq(F)
          /\ Len(SubSeq(s, 1, n)) = IF 1 <= n THEN n - 1 + 1 ELSE 0
          /\ \A k \in 1 .. n - 1 + 1 : SubSeq(s, 1, n)[k] = s[1 + k - 1]
      BY <3>2, SubSeqProperties
    <3>4. /\ SubSeq(s, 1, n) \in Seq(F)
          /\ Len(SubSeq(s, 1, n)) = n
          /\ \A k \in 1 .. n : SubSeq(s, 1, n)[k] = s[k]
      BY <3>2, <3>3
    <3> QED
      BY <3>4 DEF n
  <2>3. DOMAIN SubSeq(s, 1, Len(s) - 1) = 1 .. Len(s) - 1
    BY <1>2, <2>1
  <2>4. DOMAIN s = 1 .. Len(s)
    BY <1>1
  <2> QED
    BY <1>2, <2>1, <2>3, <2>4
<1> QED
  BY <1>1, <1>2, <1>3 DEF s, F, Top, Below

\* Putting a call on top.
LEMMA AppendFacts ==
  ASSUME NEW F, NEW s \in Seq(F), NEW f \in F
  PROVE  /\ Append(s, f) \in Seq(F)
         /\ Append(s, f) # <<>>
         /\ Len(Append(s, f)) = Len(s) + 1
         /\ Append(s, f)[Len(s) + 1] = f
         /\ \A k \in DOMAIN Append(s, f) :
              \/ k \in DOMAIN s /\ k < Len(s) + 1 /\ Append(s, f)[k] = s[k]
              \/ k = Len(s) + 1
  OBVIOUS

\* The nodes ne are the nodes nd, with some added or filled in: none is taken
\* away, and each keeps its key.
NodesKept(nd, ne) ==
  /\ Len(nd) \in Nat /\ Len(ne) \in Nat
  /\ Len(nd) <= Len(ne)
  /\ \A n \in DOMAIN nd : n \in DOMAIN ne /\ ne[n].key = nd[n].key

\* What is said of a call stays true while nodes are added and filled in.
LEMMA FrameKept ==
  ASSUME NEW nd, NEW ne, NodesKept(nd, ne), NEW f
  PROVE  /\ FrameInv(nd, f) => FrameInv(ne, f)
         /\ FrameDone(nd, f) => FrameDone(ne, f)
<1>1. 0 .. Len(nd) \subseteq 0 .. Len(ne)
  BY DEF NodesKept
<1>2. ASSUME NEW m \in DOMAIN nd
      PROVE  m \in DOMAIN ne /\ ne[m].key = nd[m].key
  BY DEF NodesKept
<1>3. FrameInv(nd, f) => FrameInv(ne, f)
  <2> SUFFICES ASSUME FrameInv(nd, f) PROVE FrameInv(ne, f)
    OBVIOUS
  <2>1. /\ f.parent \in 0 .. Len(ne)
        /\ f.cand \cap f.links = {}
        /\ f.gram <= Cardinality(f.links)
    BY <1>1 DEF FrameInv
  <2>2. ASSUME Cardinality(f.links) > 1
        PROVE  \E m \in DOMAIN ne : \E i \in Instances :
                 ne[m].key = PatternOf(i) /\ Cardinality(f.links) = Cardinality(i) + 1
    <3>1. PICK m \in DOMAIN nd : \E i \in Instances :
                 nd[m].key = PatternOf(i) /\ Cardinality(f.links) = Cardinality(i) + 1
      BY <2>2 DEF FrameInv
    <3> QED
      BY <3>1, <1>2
  <2> QED
    BY <2>1, <2>2 DEF FrameInv
<1>4. FrameDone(nd, f) => FrameDone(ne, f)
  BY <1>2 DEF FrameDone
<1> QED
  BY <1>3, <1>4

\* So the calls of the threads that do nothing are as they were.
LEMMA CallsKept ==
  ASSUME NEW nd, NEW ne, NodesKept(nd, ne), NEW st, NEW p, CallsOK(nd, st, p)
  PROVE  CallsOK(ne, st, p)
<1>1. \A k \in DOMAIN st : /\ FrameInv(nd, st[k]) => FrameInv(ne, st[k])
                           /\ FrameDone(nd, st[k]) => FrameDone(ne, st[k])
  BY FrameKept
<1> QED
  BY <1>1 DEF CallsOK

\* A step of thread t that leaves it at p with the calls s.
LEMMA CallsStep ==
  ASSUME ThreadsOK, NodesKept(nodes, nodes'), Calls,
         NEW t \in Threads, NEW s \in Seq(Frame), NEW p \in Places,
         stack' = [stack EXCEPT ![t] = s], pc' = [pc EXCEPT ![t] = p],
         CallsOK(nodes', s, p), UNCHANGED THREAD_NUM
  PROVE  /\ Calls'
         /\ stack' \in [Threads -> Seq(Frame)]
         /\ pc' \in [Threads -> Places]
         /\ stack'[t] = s /\ pc'[t] = p
         /\ \A u \in Threads \ {t} : stack'[u] = stack[u] /\ pc'[u] = pc[u]
<1>1. stack \in [Threads -> Seq(Frame)] /\ pc \in [Threads -> Places]
  BY DEF ThreadsOK, Places
<1>2. stack' \in [Threads -> Seq(Frame)] /\ pc' \in [Threads -> Places]
  BY <1>1
<1>3. /\ stack'[t] = s /\ pc'[t] = p
      /\ \A u \in Threads \ {t} : stack'[u] = stack[u] /\ pc'[u] = pc[u]
  BY <1>1
<1>4. Threads' = Threads
  BY DEF Threads
<1>5. \A u \in Threads : CallsOK(nodes, stack[u], pc[u])
  BY DEF Calls
<1>6. ASSUME NEW u \in Threads PROVE CallsOK(nodes', stack'[u], pc'[u])
  <2>1. CASE u = t
    BY <2>1, <1>3
  <2>2. CASE u # t
    BY <2>2, <1>3, <1>5, CallsKept
  <2> QED
    BY <2>1, <2>2
<1> QED
  BY <1>2, <1>3, <1>4, <1>6 DEF Calls

\* The top call is replaced by f.
LEMMA TopReplaced ==
  ASSUME ThreadsOK, Calls, NEW ne, NodesKept(nodes, ne), NEW t \in Threads, stack[t] # <<>>,
         NEW f \in Frame, NEW p \in {"extract", "fill", "relation", "push", "extend", "claim"},
         FrameInv(ne, f), p # "extract" => FrameDone(ne, f),
         p = "claim" => f.next \in Links \ f.links
  PROVE  Append(Below(t), f) \in Seq(Frame) /\ CallsOK(ne, Append(Below(t), f), p)
<1> DEFINE b == Below(t)
           a == Append(b, f)
<1>1. /\ b \in Seq(Frame)
      /\ \A k \in DOMAIN b : k \in DOMAIN stack[t] /\ k < Len(stack[t]) /\ b[k] = stack[t][k]
  BY StackFacts
<1>2. \A k \in DOMAIN b : FrameInv(nodes, b[k]) /\ FrameDone(nodes, b[k])
  BY <1>1 DEF Calls, CallsOK
<1>3. \A k \in DOMAIN b : FrameInv(ne, b[k]) /\ FrameDone(ne, b[k])
  BY <1>2, FrameKept
<1> HIDE DEF b
<1>4. /\ a \in Seq(Frame) /\ a # <<>> /\ Len(a) = Len(b) + 1 /\ a[Len(b) + 1] = f
      /\ \A k \in DOMAIN a : (k \in DOMAIN b /\ k < Len(b) + 1 /\ a[k] = b[k]) \/ k = Len(b) + 1
  BY <1>1, AppendFacts
<1> HIDE DEF a
<1>5. \A k \in DOMAIN a : /\ FrameInv(ne, a[k])
                          /\ k < Len(a) \/ p # "extract" => FrameDone(ne, a[k])
  <2> TAKE k \in DOMAIN a
  <2>1. CASE k \in DOMAIN b /\ a[k] = b[k]
    BY <2>1, <1>3
  <2>2. CASE k = Len(b) + 1
    <3>1. ~(k < Len(a))
      BY <2>2, <1>4, <1>1
    <3> QED
      BY <2>2, <3>1, <1>4
  <2> QED
    BY <2>1, <2>2, <1>4
<1>6. CallsOK(ne, a, p)
  BY <1>4, <1>5 DEF CallsOK
<1> QED
  BY <1>4, <1>6 DEF a, b

\* A call f is made from calls that all have their nodes.
LEMMA Pushed ==
  ASSUME NEW nd, NEW s \in Seq(Frame), NEW f \in Frame, FrameInv(nd, f),
         \A k \in DOMAIN s : FrameInv(nd, s[k]) /\ FrameDone(nd, s[k])
  PROVE  Append(s, f) \in Seq(Frame) /\ CallsOK(nd, Append(s, f), "extract")
<1> DEFINE a == Append(s, f)
<1>1. /\ a \in Seq(Frame) /\ a # <<>> /\ Len(a) = Len(s) + 1 /\ a[Len(s) + 1] = f
      /\ \A k \in DOMAIN a : (k \in DOMAIN s /\ k < Len(s) + 1 /\ a[k] = s[k]) \/ k = Len(s) + 1
  BY AppendFacts
<1> HIDE DEF a
<1>2. \A k \in DOMAIN a : FrameInv(nd, a[k]) /\ (k < Len(a) => FrameDone(nd, a[k]))
  <2> TAKE k \in DOMAIN a
  <2>1. CASE k \in DOMAIN s /\ a[k] = s[k]
    BY <2>1
  <2>2. CASE k = Len(s) + 1
    <3>1. ~(k < Len(a))
      BY <2>2, <1>1
    <3> QED
      BY <2>2, <3>1, <1>1
  <2> QED
    BY <2>1, <2>2, <1>1
<1>3. CallsOK(nd, a, "extract")
  BY <1>1, <1>2 DEF CallsOK
<1> QED
  BY <1>1, <1>3 DEF a

\* The top call returns.
LEMMA Returned ==
  ASSUME ThreadsOK, Calls, NEW ne, NodesKept(nodes, ne), NEW t \in Threads, stack[t] # <<>>
  PROVE  Below(t) \in Seq(Frame) /\ CallsOK(ne, Below(t), IF Len(stack[t]) = 1 THEN "link" ELSE "extend")
<1> DEFINE b == Below(t)
<1>1. /\ b \in Seq(Frame) /\ Len(stack[t]) \in Nat \ {0} /\ Len(b) = Len(stack[t]) - 1
      /\ \A k \in DOMAIN b : k \in DOMAIN stack[t] /\ k < Len(stack[t]) /\ b[k] = stack[t][k]
  BY StackFacts
<1>2. \A k \in DOMAIN b : FrameInv(nodes, b[k]) /\ FrameDone(nodes, b[k])
  BY <1>1 DEF Calls, CallsOK
<1>3. \A k \in DOMAIN b : FrameInv(ne, b[k]) /\ FrameDone(ne, b[k])
  BY <1>2, FrameKept
<1> HIDE DEF b
<1>4. Len(stack[t]) = 1 <=> b = <<>>
  <2>1. Len(b) = 0 <=> b = <<>>
    BY <1>1, EmptySeq
  <2> QED
    BY <2>1, <1>1
<1>5. CallsOK(ne, b, IF Len(stack[t]) = 1 THEN "link" ELSE "extend")
  BY <1>3, <1>4 DEF CallsOK
<1> QED
  BY <1>1, <1>5 DEF b

----------------------------------------------------------------------------
(* Steps that neither add a node nor list one.                              *)

\* The nodes ne are the nodes nd but for counts and relations.
SameNodes(nd, ne) ==
  /\ Len(nd) \in Nat /\ Len(ne) = Len(nd)
  /\ DOMAIN ne = DOMAIN nd
  /\ \A n \in DOMAIN nd : ne[n].key = nd[n].key /\ ne[n].size = nd[n].size

\* A step of a mining thread that neither adds a node nor lists one keeps
\* everything but the types.
LEMMA QuietStep ==
  ASSUME MinerInv, phase = "mining", UNCHANGED <<THREAD_NUM, phase, patternsForGram, evaluation>>,
         SameNodes(nodes, nodes'),
         NEW t \in Threads, NEW s \in Seq(Frame), NEW p \in Places \ {"next", "fill"},
         pc[t] # "fill",
         stack' = [stack EXCEPT ![t] = s], pc' = [pc EXCEPT ![t] = p],
         CallsOK(nodes', s, p),
         \A u \in Threads : \A k \in curTask'[u] : k \in curTask[u] \/ \E n \in DOMAIN nodes : nodes[n].key = k
  PROVE  /\ (Calls /\ Phases /\ NodesInv /\ Listing /\ Progress)'
         /\ stack' \in [Threads -> Seq(Frame)]
         /\ pc' \in [Threads -> Places]
<1>0. ThreadsOK /\ Calls /\ Phases /\ NodesInv /\ Listing
  BY DEF MinerInv, TypeOK
<1>1. NodesKept(nodes, nodes')
  BY DEF SameNodes, NodesKept
<1>2. /\ Calls'
      /\ stack' \in [Threads -> Seq(Frame)]
      /\ pc' \in [Threads -> Places]
      /\ stack'[t] = s /\ pc'[t] = p
      /\ \A u \in Threads \ {t} : stack'[u] = stack[u] /\ pc'[u] = pc[u]
  BY <1>0, <1>1, CallsStep
<1>3. Threads' = Threads /\ Grams' = Grams
  BY DEF Threads, Grams
<1>4. Phases'
  BY <1>0, <1>2, <1>3 DEF Phases
<1>5. \A n \in DOMAIN nodes : nodes'[n].key = nodes[n].key /\ nodes'[n].size = nodes[n].size
  BY DEF SameNodes
<1>6. DOMAIN nodes' = DOMAIN nodes
  BY DEF SameNodes
<1>7. NodesInv'
  <2>1. KeysUnique'
    BY <1>0, <1>5, <1>6 DEF NodesInv, KeysUnique
  <2>2. FoundHasNode'
    <3>1. ASSUME NEW u \in Threads, NEW k \in curTask'[u]
          PROVE  \E n \in DOMAIN nodes' : nodes'[n].key = k
      <4>1. \E n \in DOMAIN nodes : nodes[n].key = k
        BY <1>0 DEF NodesInv, FoundHasNode
      <4> QED
        BY <4>1, <1>5, <1>6
    <3> QED
      BY <3>1, <1>3 DEF FoundHasNode
  <2>3. SizeOfKey'
    BY <1>0, <1>5, <1>6 DEF NodesInv, SizeOfKey
  <2>4. NodeBelow'
    <3>1. ASSUME NEW n \in DOMAIN nodes, NEW i \in Instances,
                 nodes[n].key = PatternOf(i), NEW c \in 1 .. Cardinality(i) - 1
          PROVE  \E m \in DOMAIN nodes : \E j \in Instances :
                   nodes'[m].key = PatternOf(j) /\ Cardinality(j) = c
      <4>1. PICK m \in DOMAIN nodes : \E j \in Instances :
                   nodes[m].key = PatternOf(j) /\ Cardinality(j) = c
        BY <3>1, <1>0 DEF NodesInv, NodeBelow
      <4> QED
        BY <4>1, <1>5
    <3> QED
      BY <3>1, <1>5, <1>6 DEF NodeBelow
  <2> QED
    BY <2>1, <2>2, <2>3, <2>4 DEF NodesInv
<1>8. Listing'
  <2>1. ASSUME NEW u \in Threads PROVE Filling(u)' = Filling(u)
    BY <1>2 DEF Filling, Top
  <2>2. OneFiller' /\ FilledUnlisted' /\ FilledOrListed' /\ OnePlace'
    BY <1>0, <2>1, <1>3, <1>6 DEF Listing, OneFiller, FilledUnlisted, FilledOrListed, OnePlace
  <2>3. GramOfKey'
    <3>1. \A g \in Grams : \A i \in DOMAIN patternsForGram[g] : patternsForGram[g][i] \in DOMAIN nodes
      BY DEF MinerInv, TypeOK, PatternsOK
    <3> QED
      BY <1>0, <1>3, <1>5, <3>1 DEF Listing, GramOfKey
  <2> QED
    BY <2>2, <2>3 DEF Listing
<1>9. Progress'
  BY DEF MinerInv, Progress, Evaluation, EndOfGram, LastGram, Waiting, Mined, evaluation
<1> QED
  BY <1>2, <1>4, <1>7, <1>8, <1>9

\* The frame that Call makes.
NewCall(links, parent, g) ==
  [links |-> links, parent |-> parent, node |-> 0, gram |-> g, ext |-> {}, cand |-> {}, next |-> 0]

\* A call that is made: its gram is at most the number of its links.
LEMMA NewFrame ==
  ASSUME TypeOK, NEW links \in Instances, NEW parent \in 0 .. Len(nodes), NEW g \in 1 .. LinkNum,
         g <= Cardinality(links),
         Cardinality(links) > 1 => \E m \in DOMAIN nodes : \E i \in Instances :
           nodes[m].key = PatternOf(i) /\ Cardinality(links) = Cardinality(i) + 1
  PROVE  NewCall(links, parent, g) \in Frame /\ FrameInv(nodes, NewCall(links, parent, g))
<1> DEFINE f == NewCall(links, parent, g)
<1>1. f.links = links /\ f.parent = parent /\ f.gram = g /\ f.cand = {}
  BY DEF NewCall
<1>2. f \in Frame
  <2>1. Len(nodes) \in Nat
    BY DEF TypeOK, PatternsOK
  <2>2. LinkNum \in Nat
    BY MinerAssumption
  <2>3. parent \in Nat /\ 0 \in Nat /\ 0 \in 0 .. LinkNum
    BY <2>1, <2>2
  <2> QED
    BY <2>3 DEF Frame, NewCall
<1> HIDE DEF f
<1>3. FrameInv(nodes, f)
  BY <1>1 DEF FrameInv
<1> QED
  BY <1>2, <1>3 DEF f

\* A thread takes the next link of its range.
LEMMA NextLinkStep ==
  ASSUME MinerInv, NEW t \in Threads, NextLink(t)
  PROVE  MinerInv'
<1> DEFINE l == index[t]
<1>0. TypeOK /\ ThreadsOK /\ PatternsOK /\ ClaimsOK /\ Calls
  BY DEF MinerInv, TypeOK
<1>1. /\ phase = "mining" /\ pc[t] = "link" /\ l < EndIndex(t)
      /\ index' = [index EXCEPT ![t] = @ + 1]
      /\ curTask' = [curTask EXCEPT ![t] = {}]
      /\ UNCHANGED <<THREAD_NUM, phase, mined, claims, evaluation>>
  BY DEF NextLink, NewTask
<1>2. l \in Links /\ l \in 1 .. LinkNum + 1 /\ l + 1 \in 1 .. LinkNum + 1 /\ LinkNum \in Nat
  <2>1. EndIndex(t) \in 1 .. LinkNum + 1 /\ l \in 1 .. LinkNum + 1 /\ LinkNum \in Nat
    BY <1>0, RangeFacts, MinerAssumption DEF ThreadsOK
  <2> QED
    BY <1>1, <2>1 DEF Links
<1>3. index' \in [Threads -> 1 .. LinkNum + 1]
  BY <1>0, <1>1, <1>2 DEF ThreadsOK
<1>4. curTask' \in [Threads -> SUBSET {PatternOf(i) : i \in Instances}]
      /\ \A u \in Threads : \A k \in curTask'[u] : k \in curTask[u]
  <2> DEFINE K == {PatternOf(i) : i \in Instances}
  <2>1. curTask \in [Threads -> SUBSET K]
    BY <1>0 DEF ThreadsOK
  <2> HIDE DEF K
  <2>2. curTask' \in [Threads -> SUBSET K] /\ \A u \in Threads : \A k \in curTask'[u] : k \in curTask[u]
    BY <2>1, <1>1
  <2> QED
    BY <2>2 DEF K
<1>5. UNCHANGED <<nodes, patternsForGram>> /\ SameNodes(nodes, nodes')
  BY <1>0, <1>1 DEF mined, SameNodes, PatternsOK
<1>6. stack[t] = <<>> /\ stack \in [Threads -> Seq(Frame)] /\ pc \in [Threads -> Places]
  BY <1>0, <1>1 DEF Calls, CallsOK, ThreadsOK, Places
<1>7. /\ (Calls /\ Phases /\ NodesInv /\ Listing /\ Progress)'
      /\ stack' \in [Threads -> Seq(Frame)] /\ pc' \in [Threads -> Places]
      /\ observing_as' \subseteq Links \ IgnoredLinks /\ visits' \in [Instances -> Nat]
  <2>1. CASE l \in IgnoredLinks
    <3>1. UNCHANGED <<observing_as, stack, visits, pc>>
      BY <2>1 DEF NextLink
    <3>2. stack' = [stack EXCEPT ![t] = <<>>] /\ pc' = [pc EXCEPT ![t] = "link"]
      BY <3>1, <1>1, <1>6
    <3>3. CallsOK(nodes', <<>>, "link")
      BY DEF CallsOK
    <3>4. <<>> \in Seq(Frame) /\ "link" \in Places \ {"next", "fill"}
      BY DEF Places
    <3> QED
      BY <3>1, <3>2, <3>3, <3>4, <1>0, <1>1, <1>4, <1>5, QuietStep DEF PatternsOK
  <2>2. CASE l \notin IgnoredLinks
    <3> DEFINE f == NewCall({l}, 0, 1)
               s == Append(<<>>, f)
    <3>1. observing_as' = observing_as \cup {l} /\ Call(t, {l}, 0, <<>>)
      BY <2>2 DEF NextLink, Copied
    <3>2. /\ stack' = [stack EXCEPT ![t] = s] /\ pc' = [pc EXCEPT ![t] = "extract"]
          /\ visits' = [visits EXCEPT ![{l}] = @ + 1]
      BY <3>1 DEF Call, GoTo, NewCall
    <3>3. {l} \in Instances /\ Cardinality({l}) = 1
      BY <1>2, OneLink
    <3>4. 0 \in 0 .. Len(nodes) /\ 1 \in 1 .. LinkNum
      BY <1>0, <1>2 DEF PatternsOK, Links
    <3>5. f \in Frame /\ FrameInv(nodes, f)
      BY <3>3, <3>4, <1>0, NewFrame
    <3> HIDE DEF f
    <3>6. s \in Seq(Frame) /\ CallsOK(nodes', s, "extract")
      <4>1. <<>> \in Seq(Frame) /\ \A k \in DOMAIN <<>> : FrameInv(nodes, <<>>[k]) /\ FrameDone(nodes, <<>>[k])
        OBVIOUS
      <4> DEFINE e == <<>>
      <4>2. e \in Seq(Frame) /\ \A k \in DOMAIN e : FrameInv(nodes, e[k]) /\ FrameDone(nodes, e[k])
        BY <4>1
      <4> HIDE DEF e
      <4>3. Append(e, f) \in Seq(Frame) /\ CallsOK(nodes, Append(e, f), "extract")
        BY <3>5, <4>2, Pushed
      <4> QED
        BY <4>3, <1>5 DEF e
    <3>7. "extract" \in Places \ {"next", "fill"}
      BY DEF Places
    <3> HIDE DEF s
    <3>8. visits' \in [Instances -> Nat]
      BY <3>2, <3>3, <1>0 DEF PatternsOK
    <3>9. observing_as' \subseteq Links \ IgnoredLinks
      BY <3>1, <2>2, <1>0, <1>2 DEF PatternsOK
    <3> QED
      BY <3>2, <3>6, <3>7, <3>8, <3>9, <1>1, <1>4, <1>5, QuietStep
  <2> QED
    BY <2>1, <2>2
<1>8. ThreadsOK'
  BY <1>0, <1>1, <1>3, <1>4, <1>7 DEF ThreadsOK, Threads, Places
<1>9. PatternsOK' /\ ClaimsOK'
  BY <1>0, <1>1, <1>5, <1>7 DEF PatternsOK, ClaimsOK, Threads, Grams, Mined, claims, evaluation
<1> QED
  BY <1>7, <1>8, <1>9 DEF MinerInv, TypeOK

\* The rest of the types, for a step that leaves the other variables alone.
LEMMA TypesKept ==
  ASSUME TypeOK, UNCHANGED <<THREAD_NUM, phase, index, curTask, observing_as, patternsForGram, evaluation, visits>>,
         stack' \in [Threads -> Seq(Frame)], pc' \in [Threads -> Places],
         nodes' \in Seq(HTreeNode), DOMAIN nodes' = DOMAIN nodes
  PROVE  ThreadsOK' /\ PatternsOK'
<1>1. ThreadsOK'
  BY DEF TypeOK, ThreadsOK, Threads, Places
<1>2. PatternsOK'
  BY DEF TypeOK, PatternsOK, Grams, Mined, evaluation
<1> QED
  BY <1>1, <1>2

\* A thread has mined its range.
LEMMA ThreadEndsStep ==
  ASSUME MinerInv, NEW t \in Threads, ThreadEnds(t)
  PROVE  MinerInv'
<1>0. TypeOK /\ ThreadsOK /\ PatternsOK /\ ClaimsOK /\ Calls
  BY DEF MinerInv, TypeOK
<1>1. /\ phase = "mining" /\ pc[t] = "link" /\ pc' = [pc EXCEPT ![t] = "end"]
      /\ UNCHANGED <<THREAD_NUM, phase, index, stack, curTask, observing_as, mined, claims, evaluation, visits>>
  BY DEF ThreadEnds, GoTo
<1>2. stack[t] = <<>> /\ stack \in [Threads -> Seq(Frame)]
  BY <1>0, <1>1 DEF Calls, CallsOK, ThreadsOK
<1>3. stack' = [stack EXCEPT ![t] = <<>>] /\ <<>> \in Seq(Frame) /\ "end" \in Places \ {"next", "fill"}
  BY <1>1, <1>2 DEF Places
<1>4. UNCHANGED <<nodes, patternsForGram>> /\ SameNodes(nodes, nodes')
  BY <1>0, <1>1 DEF mined, SameNodes, PatternsOK
<1>5. CallsOK(nodes', <<>>, "end")
  BY DEF CallsOK
<1>6. /\ (Calls /\ Phases /\ NodesInv /\ Listing /\ Progress)'
      /\ stack' \in [Threads -> Seq(Frame)] /\ pc' \in [Threads -> Places]
  BY <1>1, <1>3, <1>4, <1>5, QuietStep
<1>7. ThreadsOK' /\ PatternsOK' /\ ClaimsOK'
  BY <1>0, <1>1, <1>4, <1>6, TypesKept DEF PatternsOK, ClaimsOK, claims, Threads
<1> QED
  BY <1>6, <1>7 DEF MinerInv, TypeOK

----------------------------------------------------------------------------
(* The steps inside a call.                                                 *)

\* The call a thread is in.
LEMMA TopFacts ==
  ASSUME MinerInv, NEW t \in Threads, pc[t] \in {"extract", "fill", "relation", "push", "extend", "claim"}
  PROVE  /\ phase = "mining" /\ stack[t] # <<>>
         /\ Top(t) \in Frame /\ FrameInv(nodes, Top(t))
         /\ pc[t] # "extract" => FrameDone(nodes, Top(t))
         /\ pc[t] = "claim" => Top(t).next \in Links \ Top(t).links
<1>1. ThreadsOK /\ CallsOK(nodes, stack[t], pc[t]) /\ phase = "mining"
  BY DEF MinerInv, TypeOK, Calls, Phases, ThreadsOK
<1>2. stack[t] # <<>>
  BY <1>1 DEF CallsOK
<1>3. Len(stack[t]) \in DOMAIN stack[t] /\ Top(t) = stack[t][Len(stack[t])] /\ Top(t) \in Frame
  BY <1>1, <1>2, StackFacts
<1> QED
  BY <1>1, <1>2, <1>3 DEF CallsOK

\* A frame that differs from f in what is left to try.
LEMMA FrameLike ==
  ASSUME NEW nd, NEW f, NEW g, FrameInv(nd, f),
         g.links = f.links, g.parent = f.parent, g.gram = f.gram, g.cand \cap g.links = {}
  PROVE  FrameInv(nd, g) /\ (g.node = f.node /\ FrameDone(nd, f) => FrameDone(nd, g))
  BY DEF FrameInv, FrameDone

\* The nodes stay as they are.
LEMMA NodesSame ==
  ASSUME PatternsOK, UNCHANGED mined
  PROVE  /\ UNCHANGED <<nodes, patternsForGram>> /\ SameNodes(nodes, nodes')
         /\ NodesKept(nodes, nodes') /\ nodes' \in Seq(HTreeNode)
  BY DEF PatternsOK, mined, SameNodes, NodesKept

\* The next node of the instance.
LEMMA NextNodeStep ==
  ASSUME MinerInv, NEW t \in Threads, NextNode(t)
  PROVE  MinerInv'
<1> DEFINE f == Top(t)
<1>0. TypeOK /\ ThreadsOK /\ PatternsOK /\ ClaimsOK /\ Calls
  BY DEF MinerInv, TypeOK
<1>1. /\ pc[t] = "extend"
      /\ UNCHANGED <<THREAD_NUM, phase, index, pc, curTask, observing_as, mined, claims, evaluation, visits>>
  BY DEF NextNode
<1>2. PICK n \in f.ext :
        stack' = [stack EXCEPT ![t] = Append(Below(t), [f EXCEPT !.ext = @ \ {n},
                     !.cand = {l \in observing_as : n \in NodesOf[l]} \ f.links])]
  BY DEF NextNode, SetTop
<1>3. phase = "mining" /\ stack[t] # <<>> /\ f \in Frame /\ FrameInv(nodes, f) /\ FrameDone(nodes, f)
  BY <1>1, TopFacts
<1> HIDE DEF f
<1> DEFINE c == {l \in observing_as : n \in NodesOf[l]} \ f.links
           e == f.ext \ {n}
           g == [f EXCEPT !.ext = @ \ {n}, !.cand = c]
<1>4. c \subseteq Links /\ c \cap f.links = {} /\ e \subseteq UNION Range(NodesOf)
  BY <1>0, <1>3 DEF PatternsOK, Frame
<1>5. g = [f EXCEPT !.ext = e, !.cand = c]
  OBVIOUS
<1> HIDE DEF c, e, g
<1>6. g \in Frame /\ g.links = f.links /\ g.parent = f.parent /\ g.gram = f.gram /\ g.cand = c /\ g.node = f.node
  BY <1>3, <1>4, <1>5 DEF Frame
<1>7. FrameInv(nodes, g) /\ FrameDone(nodes, g)
  BY <1>3, <1>4, <1>6, FrameLike
<1>8. /\ UNCHANGED <<nodes, patternsForGram>> /\ SameNodes(nodes, nodes')
      /\ NodesKept(nodes, nodes') /\ nodes' \in Seq(HTreeNode)
  BY <1>0, <1>1, NodesSame
<1> DEFINE s == Append(Below(t), g)
<1>9. s \in Seq(Frame) /\ CallsOK(nodes', s, "extend")
  BY <1>0, <1>3, <1>6, <1>7, <1>8, TopReplaced
<1>10. stack' = [stack EXCEPT ![t] = s]
  BY <1>2 DEF g, c
<1> HIDE DEF s
<1>11. pc' = [pc EXCEPT ![t] = "extend"] /\ "extend" \in Places \ {"next", "fill"}
  BY <1>0, <1>1 DEF ThreadsOK, Places
<1>12. /\ (Calls /\ Phases /\ NodesInv /\ Listing /\ Progress)'
       /\ stack' \in [Threads -> Seq(Frame)] /\ pc' \in [Threads -> Places]
  BY <1>1, <1>3, <1>8, <1>9, <1>10, <1>11, QuietStep
<1>13. ThreadsOK' /\ PatternsOK' /\ ClaimsOK'
  BY <1>0, <1>1, <1>8, <1>12, TypesKept DEF ClaimsOK, claims, Threads
<1> QED
  BY <1>12, <1>13 DEF MinerInv, TypeOK

\* A call returns.
LEMMA ReturnStep ==
  ASSUME MinerInv, NEW t \in Threads, pc[t] \in {"relation", "push", "extend"}, Return(t),
         SameNodes(nodes, nodes'), nodes' \in Seq(HTreeNode), UNCHANGED patternsForGram,
         UNCHANGED <<THREAD_NUM, phase, index, curTask, observing_as, claims, evaluation, visits>>
  PROVE  MinerInv'
<1> DEFINE p == IF Len(stack[t]) = 1 THEN "link" ELSE "extend"
           s == Below(t)
<1>0. TypeOK /\ ThreadsOK /\ PatternsOK /\ ClaimsOK /\ Calls
  BY DEF MinerInv, TypeOK
<1>1. phase = "mining" /\ stack[t] # <<>>
  BY TopFacts
<1>2. NodesKept(nodes, nodes') /\ DOMAIN nodes' = DOMAIN nodes
  BY DEF SameNodes, NodesKept
<1>3. s \in Seq(Frame) /\ CallsOK(nodes', s, p)
  BY <1>0, <1>1, <1>2, Returned
<1>4. stack' = [stack EXCEPT ![t] = s] /\ pc' = [pc EXCEPT ![t] = p]
  BY DEF Return, GoTo
<1>5. p \in Places \ {"next", "fill"}
  BY DEF Places
<1> HIDE DEF p, s
<1>6. /\ (Calls /\ Phases /\ NodesInv /\ Listing /\ Progress)'
      /\ stack' \in [Threads -> Seq(Frame)] /\ pc' \in [Threads -> Places]
  BY <1>1, <1>3, <1>4, <1>5, QuietStep
<1>7. ThreadsOK' /\ PatternsOK' /\ ClaimsOK'
  BY <1>0, <1>2, <1>6, TypesKept DEF ClaimsOK, claims, Threads
<1> QED
  BY <1>6, <1>7 DEF MinerInv, TypeOK

\* There is nothing left to extend.
LEMMA EndCallStep ==
  ASSUME MinerInv, NEW t \in Threads, EndCall(t)
  PROVE  MinerInv'
<1>1. /\ pc[t] = "extend" /\ Return(t)
      /\ UNCHANGED <<THREAD_NUM, phase, index, curTask, observing_as, mined, claims, evaluation, visits>>
  BY DEF EndCall
<1>2. SameNodes(nodes, nodes') /\ nodes' \in Seq(HTreeNode) /\ UNCHANGED patternsForGram
  BY <1>1, NodesSame DEF MinerInv, TypeOK
<1> QED
  BY <1>1, <1>2, ReturnStep

\* A call goes on, to the push of the relation or to the extension.
LEMMA OnwardStep ==
  ASSUME MinerInv, NEW t \in Threads, pc[t] \in {"relation", "push"}, NEW p \in {"push", "extend"},
         GoTo(t, p), UNCHANGED stack,
         SameNodes(nodes, nodes'), nodes' \in Seq(HTreeNode), UNCHANGED patternsForGram,
         UNCHANGED <<THREAD_NUM, phase, index, curTask, observing_as, claims, evaluation, visits>>
  PROVE  MinerInv'
<1> DEFINE s == stack[t]
<1>0. TypeOK /\ ThreadsOK /\ PatternsOK /\ ClaimsOK /\ Calls
  BY DEF MinerInv, TypeOK
<1>1. phase = "mining" /\ stack[t] # <<>>
  BY TopFacts
<1>2. NodesKept(nodes, nodes') /\ DOMAIN nodes' = DOMAIN nodes
  BY DEF SameNodes, NodesKept
<1>3. /\ stack' = [stack EXCEPT ![t] = s] /\ pc' = [pc EXCEPT ![t] = p]
      /\ s \in Seq(Frame) /\ p \in Places \ {"next", "fill"}
  BY <1>0 DEF GoTo, Places, ThreadsOK
<1>4. CallsOK(nodes, s, p)
  BY <1>0 DEF Calls, CallsOK
<1> HIDE DEF s
<1>5. CallsOK(nodes', s, p)
  BY <1>2, <1>4, CallsKept
<1>6. /\ (Calls /\ Phases /\ NodesInv /\ Listing /\ Progress)'
      /\ stack' \in [Threads -> Seq(Frame)] /\ pc' \in [Threads -> Places]
  BY <1>1, <1>3, <1>5, QuietStep
<1>7. ThreadsOK' /\ PatternsOK' /\ ClaimsOK'
  BY <1>0, <1>2, <1>6, TypesKept DEF ClaimsOK, claims, Threads
<1> QED
  BY <1>6, <1>7 DEF MinerInv, TypeOK

\* The relation to the parent is looked for.
LEMMA CheckRelationStep ==
  ASSUME MinerInv, NEW t \in Threads, CheckRelation(t)
  PROVE  MinerInv'
<1>1. /\ pc[t] = "relation"
      /\ UNCHANGED <<THREAD_NUM, phase, index, curTask, observing_as, mined, claims, evaluation, visits>>
      /\ \/ Return(t)
         \/ GoTo(t, "extend") /\ UNCHANGED stack
         \/ GoTo(t, "push") /\ UNCHANGED stack
  BY DEF CheckRelation, AfterRelation
<1>2. SameNodes(nodes, nodes') /\ nodes' \in Seq(HTreeNode) /\ UNCHANGED patternsForGram
  BY <1>1, NodesSame DEF MinerInv, TypeOK
<1>3. CASE Return(t)
  BY <1>1, <1>2, <1>3, ReturnStep
<1>4. CASE GoTo(t, "extend") /\ UNCHANGED stack
  BY <1>1, <1>2, <1>4, OnwardStep
<1>5. CASE GoTo(t, "push") /\ UNCHANGED stack
  BY <1>1, <1>2, <1>5, OnwardStep
<1> QED
  BY <1>1, <1>3, <1>4, <1>5

\* A push to the relations of a node leaves its key, its count and its size.
LEMMA RelationPushed ==
  ASSUME nodes \in Seq(HTreeNode), NEW m \in 0 .. Len(nodes), NEW n \in Nat,
         nodes' = [nodes EXCEPT ![m].superPatternRelations = Append(@, n)]
  PROVE  /\ nodes' \in Seq(HTreeNode) /\ SameNodes(nodes, nodes')
         /\ \A k \in DOMAIN nodes : nodes'[k].count = nodes[k].count
<1>0. Len(nodes) \in Nat /\ DOMAIN nodes = 1 .. Len(nodes)
  OBVIOUS
<1>1. CASE m = 0
  <2>1. nodes' = nodes
    BY <1>0, <1>1
  <2> QED
    BY <1>0, <2>1 DEF SameNodes
<1>2. CASE m # 0
  <2> DEFINE r == Append(nodes[m].superPatternRelations, n)
  <2>1. m \in DOMAIN nodes
    BY <1>0, <1>2
  <2>2. nodes[m] \in HTreeNode
    BY <2>1
  <2>3. r \in Seq(Nat)
    BY <2>2 DEF HTreeNode
  <2> HIDE DEF r
  <2> DEFINE h == [nodes[m] EXCEPT !.superPatternRelations = r]
  <2>4. h \in HTreeNode /\ h.key = nodes[m].key /\ h.size = nodes[m].size /\ h.count = nodes[m].count
    BY <2>2, <2>3 DEF HTreeNode
  <2>5. nodes' = [nodes EXCEPT ![m] = h]
    BY DEF r
  <2> HIDE DEF h
  <2>6. /\ nodes' \in Seq(HTreeNode) /\ Len(nodes') = Len(nodes) /\ DOMAIN nodes' = DOMAIN nodes
        /\ nodes'[m] = h /\ \A k \in DOMAIN nodes : k # m => nodes'[k] = nodes[k]
    BY <1>0, <2>1, <2>4, <2>5
  <2>7. \A k \in DOMAIN nodes :
          nodes'[k].key = nodes[k].key /\ nodes'[k].size = nodes[k].size /\ nodes'[k].count = nodes[k].count
    <3> TAKE k \in DOMAIN nodes
    <3>1. CASE k = m
      BY <3>1, <2>4, <2>6
    <3>2. CASE k # m
      BY <3>2, <2>6
    <3> QED
      BY <3>1, <3>2
  <2> QED
    BY <1>0, <2>6, <2>7 DEF SameNodes
<1> QED
  BY <1>1, <1>2

\* The relation to the parent is noted, then the call is extended or returns.
LEMMA AddSuperPatternStep ==
  ASSUME MinerInv, NEW t \in Threads, AddSuperPattern(t)
  PROVE  MinerInv'
<1>1. /\ pc[t] = "push"
      /\ nodes' = [nodes EXCEPT ![Top(t).parent].superPatternRelations = Append(@, Top(t).node)]
      /\ UNCHANGED <<THREAD_NUM, phase, index, curTask, observing_as, patternsForGram, claims, evaluation, visits>>
      /\ Return(t) \/ (GoTo(t, "extend") /\ UNCHANGED stack)
  BY DEF AddSuperPattern, AfterRelation
<1>2. Top(t) \in Frame /\ FrameInv(nodes, Top(t)) /\ nodes \in Seq(HTreeNode)
  BY <1>1, TopFacts DEF MinerInv, TypeOK, PatternsOK
<1>3. Top(t).parent \in 0 .. Len(nodes) /\ Top(t).node \in Nat
  BY <1>2 DEF FrameInv, Frame
<1>4. SameNodes(nodes, nodes') /\ nodes' \in Seq(HTreeNode)
  BY <1>1, <1>2, <1>3, RelationPushed
<1>5. CASE Return(t)
  BY <1>1, <1>4, <1>5, ReturnStep
<1>6. CASE GoTo(t, "extend") /\ UNCHANGED stack
  BY <1>1, <1>4, <1>6, OnwardStep
<1> QED
  BY <1>1, <1>5, <1>6

----------------------------------------------------------------------------
(* The steps that go on to a larger instance.                               *)

\* A call whose node is known, extended by link l.  The new gram is read from
\* the node, so it is 1 while the node's pattern is not set.
LEMMA Extended ==
  ASSUME MinerInv, NEW f \in Frame, FrameDone(nodes, f), NEW l \in Links \ f.links
  PROVE  LET links == f.links \cup {l}
             g == IF f.node = 0 THEN 1 ELSE nodes[f.node].size + 1
         IN  /\ links \in Instances
             /\ NewCall(links, f.node, g) \in Frame
             /\ FrameInv(nodes, NewCall(links, f.node, g))
<1> DEFINE links == f.links \cup {l}
           g == IF f.node = 0 THEN 1 ELSE nodes[f.node].size + 1
<1>0. TypeOK /\ PatternsOK /\ SizeOfKey
  BY DEF MinerInv, TypeOK, NodesInv
<1>1. f.links \in Instances /\ f.node \in DOMAIN nodes /\ nodes[f.node].key = PatternOf(f.links)
  BY DEF Frame, FrameDone
<1>2. links \in Instances /\ Cardinality(links) = Cardinality(f.links) + 1
  BY <1>1, AddLink
<1>3. Cardinality(f.links) \in 1 .. LinkNum /\ Cardinality(links) \in 1 .. LinkNum /\ LinkNum \in Nat
  BY <1>1, <1>2, InstanceFacts, MinerAssumption
<1>4. nodes[f.node].size \in {0, Cardinality(f.links)}
  BY <1>0, <1>1 DEF SizeOfKey
<1>5. f.node \in 0 .. Len(nodes) /\ f.node # 0
  BY <1>0, <1>1 DEF PatternsOK
<1>6. g \in 1 .. LinkNum /\ g <= Cardinality(links)
  BY <1>2, <1>3, <1>4
<1> HIDE DEF g, links
<1>7. Cardinality(links) > 1 => \E m \in DOMAIN nodes : \E i \in Instances :
        nodes[m].key = PatternOf(i) /\ Cardinality(links) = Cardinality(i) + 1
  BY <1>1, <1>2
<1>8. NewCall(links, f.node, g) \in Frame /\ FrameInv(nodes, NewCall(links, f.node, g))
  BY <1>0, <1>2, <1>5, <1>6, <1>7, NewFrame
<1> QED
  BY <1>2, <1>8 DEF links, g

\* A thread looks at a link that shares a node with its instance.
LEMMA TryLinkStep ==
  ASSUME MinerInv, NEW t \in Threads, TryLink(t)
  PROVE  MinerInv'
<1> DEFINE f == Top(t)
<1>0. TypeOK /\ ThreadsOK /\ PatternsOK /\ ClaimsOK /\ Calls
  BY DEF MinerInv, TypeOK
<1>1. /\ pc[t] = "extend"
      /\ UNCHANGED <<THREAD_NUM, phase, index, curTask, observing_as, mined, claims, evaluation>>
  BY DEF TryLink
<1>2. PICK l \in f.cand :
        \/ Call(t, f.links \cup {l}, f.node, Append(Below(t), [f EXCEPT !.cand = @ \ {l}]))
        \/ SetTop(t, [f EXCEPT !.cand = @ \ {l}]) /\ UNCHANGED <<pc, visits>>
        \/ SetTop(t, [[f EXCEPT !.cand = @ \ {l}] EXCEPT !.next = l]) /\ GoTo(t, "claim") /\ UNCHANGED visits
  BY DEF TryLink
<1>3. phase = "mining" /\ stack[t] # <<>> /\ f \in Frame /\ FrameInv(nodes, f) /\ FrameDone(nodes, f)
  BY <1>1, TopFacts
<1> HIDE DEF f
<1> DEFINE c == f.cand \ {l}
           rest == [f EXCEPT !.cand = c]
           claim == [rest EXCEPT !.next = l]
<1>4. l \in Links \ f.links /\ l \in 0 .. LinkNum /\ c \subseteq Links /\ c \cap f.links = {}
  BY <1>3, MinerAssumption DEF Frame, FrameInv, Links
<1> HIDE DEF c
<1>5. /\ rest \in Frame /\ rest.links = f.links /\ rest.parent = f.parent /\ rest.gram = f.gram
      /\ rest.cand = c /\ rest.node = f.node
  BY <1>3, <1>4 DEF Frame
<1> HIDE DEF rest
<1>6. /\ claim \in Frame /\ claim.links = f.links /\ claim.parent = f.parent /\ claim.gram = f.gram
      /\ claim.cand = c /\ claim.node = f.node /\ claim.next = l
  BY <1>4, <1>5 DEF Frame
<1> HIDE DEF claim
<1>7. FrameInv(nodes, rest) /\ FrameDone(nodes, rest) /\ FrameInv(nodes, claim) /\ FrameDone(nodes, claim)
  <2>1. FrameInv(nodes, rest) /\ FrameDone(nodes, rest)
    BY <1>3, <1>4, <1>5, FrameLike
  <2>2. FrameInv(nodes, claim) /\ FrameDone(nodes, claim)
    BY <1>3, <1>4, <1>6, FrameLike
  <2> QED
    BY <2>1, <2>2
<1>8. /\ UNCHANGED <<nodes, patternsForGram>> /\ SameNodes(nodes, nodes')
      /\ NodesKept(nodes, nodes') /\ nodes' \in Seq(HTreeNode)
  BY <1>0, <1>1, NodesSame
<1>9. /\ (Calls /\ Phases /\ NodesInv /\ Listing /\ Progress)'
      /\ stack' \in [Threads -> Seq(Frame)] /\ pc' \in [Threads -> Places]
      /\ visits' \in [Instances -> Nat]
  <2>1. CASE Call(t, f.links \cup {l}, f.node, Append(Below(t), [f EXCEPT !.cand = @ \ {l}]))
    <3> DEFINE links == f.links \cup {l}
               g == IF f.node = 0 THEN 1 ELSE nodes[f.node].size + 1
               n == NewCall(links, f.node, g)
               b == Append(Below(t), rest)
               s == Append(b, n)
    <3>1. links \in Instances /\ n \in Frame /\ FrameInv(nodes, n)
      BY <1>3, <1>4, Extended
    <3>2. b \in Seq(Frame) /\ CallsOK(nodes, b, "extend")
      BY <1>0, <1>3, <1>5, <1>7, <1>8, TopReplaced DEF NodesKept
    <3>3. /\ stack' = [stack EXCEPT ![t] = s] /\ pc' = [pc EXCEPT ![t] = "extract"]
          /\ visits' = [visits EXCEPT ![links] = @ + 1]
      BY <2>1 DEF Call, GoTo, NewCall, rest, c
    <3> HIDE DEF links, n, b
    <3>4. \A k \in DOMAIN b : FrameInv(nodes, b[k]) /\ FrameDone(nodes, b[k])
      BY <3>2 DEF CallsOK
    <3>5. s \in Seq(Frame) /\ CallsOK(nodes, s, "extract")
      BY <3>1, <3>2, <3>4, Pushed
    <3> HIDE DEF s
    <3>6. CallsOK(nodes', s, "extract") /\ "extract" \in Places \ {"next", "fill"}
      BY <3>5, <1>8 DEF Places
    <3>7. visits' \in [Instances -> Nat]
      BY <3>1, <3>3, <1>0 DEF PatternsOK
    <3> QED
      BY <3>3, <3>5, <3>6, <3>7, <1>1, <1>3, <1>8, QuietStep
  <2>2. CASE SetTop(t, [f EXCEPT !.cand = @ \ {l}]) /\ UNCHANGED <<pc, visits>>
    <3> DEFINE s == Append(Below(t), rest)
    <3>1. s \in Seq(Frame) /\ CallsOK(nodes', s, "extend")
      BY <1>0, <1>3, <1>5, <1>7, <1>8, TopReplaced
    <3>2. stack' = [stack EXCEPT ![t] = s]
      BY <2>2 DEF SetTop, rest, c
    <3> HIDE DEF s
    <3>3. pc' = [pc EXCEPT ![t] = "extend"] /\ "extend" \in Places \ {"next", "fill"}
      BY <1>0, <1>1, <2>2 DEF ThreadsOK, Places
    <3> QED
      BY <3>1, <3>2, <3>3, <2>2, <1>0, <1>1, <1>3, <1>8, QuietStep DEF PatternsOK
  <2>3. CASE SetTop(t, [[f EXCEPT !.cand = @ \ {l}] EXCEPT !.next = l]) /\ GoTo(t, "claim") /\ UNCHANGED visits
    <3> DEFINE s == Append(Below(t), claim)
    <3>1. s \in Seq(Frame) /\ CallsOK(nodes', s, "claim")
      BY <1>0, <1>3, <1>4, <1>6, <1>7, <1>8, TopReplaced
    <3>2. stack' = [stack EXCEPT ![t] = s] /\ pc' = [pc EXCEPT ![t] = "claim"]
      BY <2>3 DEF SetTop, GoTo, claim, rest, c
    <3> HIDE DEF s
    <3>3. "claim" \in Places \ {"next", "fill"}
      BY DEF Places
    <3> QED
      BY <3>1, <3>2, <3>3, <2>3, <1>0, <1>1, <1>3, <1>8, QuietStep DEF PatternsOK
  <2> QED
    BY <1>2, <2>1, <2>2, <2>3
<1>10. ThreadsOK' /\ PatternsOK' /\ ClaimsOK'
  <2>1. ThreadsOK'
    BY <1>0, <1>1, <1>9 DEF ThreadsOK, Threads, Places
  <2>2. PatternsOK' /\ ClaimsOK'
    BY <1>0, <1>1, <1>8, <1>9 DEF PatternsOK, ClaimsOK, Threads, Grams, Mined, claims, evaluation
  <2> QED
    BY <2>1, <2>2
<1> QED
  BY <1>9, <1>10 DEF MinerInv, TypeOK

\* A thread claims an instance and goes on to it.
LEMMA AddClaimStep ==
  ASSUME MinerInv, NEW t \in Threads, AddClaim(t)
  PROVE  MinerInv'
<1> DEFINE f == Top(t)
           l == f.next
           links == f.links \cup {l}
           k == f.gram + 1
           own == Append(thread_DF_ExtractedLinks[t][k], links)
           full == Len(own) > ClaimsKept
           kept == IF full THEN Tail(own) ELSE own
           all == (all_thread_ExtractedLinks_pergram[k] \cup {links}) \ (IF full THEN {Head(own)} ELSE {})
<1>0. TypeOK /\ ThreadsOK /\ PatternsOK /\ ClaimsOK /\ Calls
  BY DEF MinerInv, TypeOK
<1>1. /\ pc[t] = "claim"
      /\ thread_DF_ExtractedLinks' = [thread_DF_ExtractedLinks EXCEPT ![t][k] = kept]
      /\ all_thread_ExtractedLinks_pergram' = [all_thread_ExtractedLinks_pergram EXCEPT ![k] = all]
      /\ Call(t, links, f.node, stack[t])
      /\ UNCHANGED <<THREAD_NUM, phase, index, curTask, observing_as, mined, evaluation>>
  BY DEF AddClaim
<1>2. /\ phase = "mining" /\ stack[t] # <<>> /\ f \in Frame /\ FrameInv(nodes, f) /\ FrameDone(nodes, f)
      /\ l \in Links \ f.links
  BY <1>1, TopFacts
<1> DEFINE g == IF f.node = 0 THEN 1 ELSE nodes[f.node].size + 1
           n == NewCall(links, f.node, g)
           s == Append(stack[t], n)
<1>3. links \in Instances /\ n \in Frame /\ FrameInv(nodes, n)
  BY <1>2, Extended
<1>4. /\ stack' = [stack EXCEPT ![t] = s] /\ pc' = [pc EXCEPT ![t] = "extract"]
      /\ visits' = [visits EXCEPT ![links] = @ + 1]
  BY <1>1 DEF Call, GoTo, NewCall
<1>5. k \in 1 .. LinkNum + 1
  BY <1>2, MinerAssumption DEF Frame
<1> HIDE DEF f, l, links, n, k
<1>6. /\ UNCHANGED <<nodes, patternsForGram>> /\ SameNodes(nodes, nodes')
      /\ NodesKept(nodes, nodes') /\ nodes' \in Seq(HTreeNode)
  BY <1>0, <1>1, NodesSame
<1>7. stack[t] \in Seq(Frame) /\ \A i \in DOMAIN stack[t] : FrameInv(nodes, stack[t][i]) /\ FrameDone(nodes, stack[t][i])
  BY <1>0, <1>1 DEF ThreadsOK, Calls, CallsOK
<1>8. s \in Seq(Frame) /\ CallsOK(nodes, s, "extract")
  BY <1>3, <1>7, Pushed
<1> HIDE DEF s
<1>9. CallsOK(nodes', s, "extract") /\ "extract" \in Places \ {"next", "fill"}
  BY <1>8, <1>6 DEF Places
<1>10. /\ (Calls /\ Phases /\ NodesInv /\ Listing /\ Progress)'
       /\ stack' \in [Threads -> Seq(Frame)] /\ pc' \in [Threads -> Places]
  BY <1>1, <1>2, <1>4, <1>6, <1>8, <1>9, QuietStep
<1>11. visits' \in [Instances -> Nat]
  BY <1>0, <1>3, <1>4 DEF PatternsOK
<1>12. ThreadsOK' /\ PatternsOK'
  <2>1. ThreadsOK'
    BY <1>0, <1>1, <1>10 DEF ThreadsOK, Threads, Places
  <2>2. PatternsOK'
    BY <1>0, <1>1, <1>6, <1>10, <1>11 DEF PatternsOK, Grams, Mined, evaluation
  <2> QED
    BY <2>1, <2>2
<1>13. ClaimsOK'
  <2> DEFINE C == Instances
             D == thread_DF_ExtractedLinks[t]
  <2>1. D \in [1 .. LinkNum + 1 -> Seq(C)] /\ all_thread_ExtractedLinks_pergram[k] \subseteq C /\ links \in C
    BY <1>0, <1>3, <1>5 DEF ClaimsOK
  <2> HIDE DEF C
  <2>2. own \in Seq(C) /\ own # <<>>
    <3>1. D[k] \in Seq(C)
      BY <2>1, <1>5
    <3> QED
      BY <3>1, <2>1, AppendFacts
  <2>3. Tail(own) \in Seq(C)
    BY <2>2
  <2>4. kept \in Seq(C) /\ all \subseteq C
    BY <2>1, <2>2, <2>3
  <2> HIDE DEF own, kept, all, full
  <2>5. [D EXCEPT ![k] = kept] \in [1 .. LinkNum + 1 -> Seq(C)]
    BY <2>1, <2>4
  <2>6. thread_DF_ExtractedLinks' = [thread_DF_ExtractedLinks EXCEPT ![t] = [D EXCEPT ![k] = kept]]
    BY <1>1
  <2> HIDE DEF D
  <2>7. thread_DF_ExtractedLinks \in [Threads -> [1 .. LinkNum + 1 -> Seq(C)]]
        /\ all_thread_ExtractedLinks_pergram \in [1 .. LinkNum + 1 -> SUBSET C]
    BY <1>0 DEF ClaimsOK, C
  <2>8. thread_DF_ExtractedLinks' \in [Threads -> [1 .. LinkNum + 1 -> Seq(C)]]
    BY <2>5, <2>6, <2>7
  <2>9. all_thread_ExtractedLinks_pergram' \in [1 .. LinkNum + 1 -> SUBSET C]
    BY <2>4, <2>7, <1>1
  <2> QED
    BY <2>8, <2>9, <1>1 DEF ClaimsOK, C, Threads
<1> QED
  BY <1>10, <1>12, <1>13 DEF MinerInv, TypeOK

----------------------------------------------------------------------------
(* Looking up a pattern, and entering it.                                   *)

\* A key that has a node has one, and Min finds it.
LEMMA OneKnown ==
  ASSUME PatternsOK, KeysUnique, NEW key, NodeOf(key) # {}
  PROVE  Min(NodeOf(key)) \in DOMAIN nodes /\ nodes[Min(NodeOf(key))].key = key
<1>1. PICK n \in NodeOf(key) : TRUE
  OBVIOUS
<1>2. n \in DOMAIN nodes /\ nodes[n].key = key /\ n \in Nat
  BY <1>1 DEF NodeOf, PatternsOK
<1>3. NodeOf(key) = {n}
  BY <1>2 DEF NodeOf, KeysUnique
<1>4. Min(NodeOf(key)) = n
  BY <1>2, <1>3 DEF Min
<1> QED
  BY <1>2, <1>4

\* The pattern is known, in the task or before it: the call gets its node.
LEMMA KnownPattern ==
  ASSUME MinerInv, NEW t \in Threads, pc[t] = "extract",
         NEW n \in DOMAIN nodes, nodes[n].key = PatternOf(Top(t).links),
         NEW e \in SUBSET UNION Range(NodesOf),
         stack' = [stack EXCEPT ![t] = Append(Below(t), [Top(t) EXCEPT !.node = n, !.ext = e])],
         pc' = [pc EXCEPT ![t] = "relation"],
         SameNodes(nodes, nodes'), nodes' \in Seq(HTreeNode),
         curTask' \in [Threads -> SUBSET {PatternOf(i) : i \in Instances}],
         \A u \in Threads : \A k \in curTask'[u] : k \in curTask[u] \/ \E m \in DOMAIN nodes : nodes[m].key = k,
         UNCHANGED <<THREAD_NUM, phase, index, observing_as, patternsForGram, claims, evaluation, visits>>
  PROVE  MinerInv'
<1> DEFINE f == Top(t)
           g == [f EXCEPT !.node = n, !.ext = e]
           s == Append(Below(t), g)
<1>0. TypeOK /\ ThreadsOK /\ PatternsOK /\ ClaimsOK /\ Calls
  BY DEF MinerInv, TypeOK
<1>1. phase = "mining" /\ stack[t] # <<>> /\ f \in Frame /\ FrameInv(nodes, f)
  BY TopFacts
<1>2. n \in Nat
  BY <1>0 DEF PatternsOK
<1> HIDE DEF f
<1>3. /\ g \in Frame /\ g.links = f.links /\ g.parent = f.parent /\ g.gram = f.gram
      /\ g.cand = f.cand /\ g.node = n
  BY <1>1, <1>2 DEF Frame
<1> HIDE DEF g
<1>4. FrameInv(nodes, g)
  BY <1>1, <1>3, FrameLike DEF FrameInv
<1>5. FrameDone(nodes, g)
  BY <1>3 DEF FrameDone, f
<1>6. NodesKept(nodes, nodes') /\ DOMAIN nodes' = DOMAIN nodes
  BY DEF SameNodes, NodesKept
<1>7. FrameInv(nodes', g) /\ FrameDone(nodes', g)
  BY <1>4, <1>5, <1>6, FrameKept
<1>8. s \in Seq(Frame) /\ CallsOK(nodes', s, "relation")
  BY <1>0, <1>1, <1>3, <1>6, <1>7, TopReplaced
<1>9. stack' = [stack EXCEPT ![t] = s] /\ "relation" \in Places \ {"next", "fill"}
  BY DEF g, f, Places
<1> HIDE DEF s
<1>10. /\ (Calls /\ Phases /\ NodesInv /\ Listing /\ Progress)'
       /\ stack' \in [Threads -> Seq(Frame)] /\ pc' \in [Threads -> Places]
  BY <1>1, <1>8, <1>9, QuietStep
<1>11. ThreadsOK'
  BY <1>0, <1>10 DEF ThreadsOK, Threads, Places
<1>12. PatternsOK'
  BY <1>0, <1>6 DEF PatternsOK, Grams, Mined, evaluation
<1>13. ClaimsOK'
  BY <1>0 DEF ClaimsOK, claims, Threads
<1> QED
  BY <1>10, <1>11, <1>12, <1>13 DEF MinerInv, TypeOK

\* The nodes with one more at the end.
LEMMA NodeAdded ==
  ASSUME NEW nd \in Seq(HTreeNode), NEW h \in HTreeNode, NEW ne, ne = Append(nd, h)
  PROVE  /\ ne \in Seq(HTreeNode) /\ Len(nd) \in Nat /\ Len(ne) = Len(nd) + 1
         /\ DOMAIN ne = DOMAIN nd \cup {Len(nd) + 1} /\ Len(nd) + 1 \notin DOMAIN nd
         /\ 0 \notin DOMAIN ne
         /\ ne[Len(nd) + 1] = h
         /\ \A n \in DOMAIN nd : ne[n] = nd[n]
         /\ NodesKept(nd, ne)
<1> DEFINE H == HTreeNode
<1>1. nd \in Seq(H) /\ h \in H
  OBVIOUS
<1> HIDE DEF H
<1>2. /\ ne \in Seq(H) /\ Len(nd) \in Nat /\ Len(ne) = Len(nd) + 1
      /\ DOMAIN nd = 1 .. Len(nd) /\ DOMAIN ne = 1 .. Len(nd) + 1
      /\ ne[Len(nd) + 1] = h
      /\ \A n \in DOMAIN nd : ne[n] = nd[n]
  BY <1>1
<1>3. DOMAIN ne = DOMAIN nd \cup {Len(nd) + 1} /\ Len(nd) + 1 \notin DOMAIN nd /\ 0 \notin DOMAIN ne
  BY <1>2
<1>4. NodesKept(nd, ne)
  BY <1>2, <1>3 DEF NodesKept
<1> QED
  BY <1>2, <1>3, <1>4 DEF H

\* A pattern that has no node gets one, which the thread has yet to fill.
LEMMA NewPattern ==
  ASSUME MinerInv, NEW t \in Threads, pc[t] = "extract",
         NEW key, key = PatternOf(Top(t).links), NodeOf(key) = {},
         NEW e \in SUBSET UNION Range(NodesOf),
         stack' = [stack EXCEPT ![t] = Append(Below(t), [Top(t) EXCEPT !.node = Len(nodes) + 1, !.ext = e])],
         pc' = [pc EXCEPT ![t] = "fill"],
         nodes' = Append(nodes, [key |-> key, count |-> 1, size |-> 0, superPatternRelations |-> <<>>]),
         curTask' = [curTask EXCEPT ![t] = @ \cup {key}],
         UNCHANGED <<THREAD_NUM, phase, index, observing_as, patternsForGram, claims, evaluation, visits>>
  PROVE  MinerInv'
<1> DEFINE f == Top(t)
           n == Len(nodes) + 1
           h == [key |-> key, count |-> 1, size |-> 0, superPatternRelations |-> <<>>]
           g == [f EXCEPT !.node = n, !.ext = e]
           s == Append(Below(t), g)
           K == {PatternOf(i) : i \in Instances}
<1>0. TypeOK /\ ThreadsOK /\ PatternsOK /\ ClaimsOK /\ Calls /\ Phases /\ NodesInv /\ Listing
  BY DEF MinerInv, TypeOK
<1>1. phase = "mining" /\ stack[t] # <<>> /\ f \in Frame /\ FrameInv(nodes, f)
  BY TopFacts
<1>2. f.links \in Instances /\ key \in K
  BY <1>1 DEF Frame
<1>3. h \in HTreeNode /\ h.key = key /\ h.size = 0
  BY <1>2, MinerAssumption DEF HTreeNode
<1> HIDE DEF h
<1>4. /\ nodes' \in Seq(HTreeNode) /\ Len(nodes) \in Nat /\ Len(nodes') = Len(nodes) + 1
      /\ DOMAIN nodes' = DOMAIN nodes \cup {n} /\ n \notin DOMAIN nodes
      /\ 0 \notin DOMAIN nodes'
      /\ nodes'[n] = h
      /\ \A m \in DOMAIN nodes : nodes'[m] = nodes[m]
      /\ NodesKept(nodes, nodes')
  <2>1. nodes' = Append(nodes, h) /\ nodes \in Seq(HTreeNode)
    BY <1>0 DEF h, PatternsOK
  <2> QED
    BY <2>1, <1>3, NodeAdded
<1>5. n \in Nat
  BY <1>4
<1> HIDE DEF f, n
<1>6. /\ g \in Frame /\ g.links = f.links /\ g.parent = f.parent /\ g.gram = f.gram
      /\ g.cand = f.cand /\ g.node = n
  BY <1>1, <1>5 DEF Frame
<1> HIDE DEF g
<1>7. FrameInv(nodes, g)
  BY <1>1, <1>6, FrameLike DEF FrameInv
<1>8. FrameInv(nodes', g)
  BY <1>4, <1>7, FrameKept
<1>9. FrameDone(nodes', g)
  BY <1>3, <1>4, <1>6 DEF FrameDone, f
<1>10. s \in Seq(Frame) /\ CallsOK(nodes', s, "fill")
  BY <1>0, <1>1, <1>4, <1>6, <1>8, <1>9, TopReplaced
<1>11. stack' = [stack EXCEPT ![t] = s] /\ "fill" \in Places
  BY DEF g, f, n, Places
<1>12. Len(s) \in DOMAIN s /\ s[Len(s)] = g
  BY <1>0, <1>1, <1>6, StackFacts, AppendFacts
<1> HIDE DEF s
<1>13. /\ Calls'
       /\ stack' \in [Threads -> Seq(Frame)]
       /\ pc' \in [Threads -> Places]
       /\ stack'[t] = s /\ pc'[t] = "fill"
       /\ \A u \in Threads \ {t} : stack'[u] = stack[u] /\ pc'[u] = pc[u]
  BY <1>0, <1>4, <1>10, <1>11, CallsStep
<1>14. Threads' = Threads /\ Grams' = Grams
  BY DEF Threads, Grams
<1>15. Phases'
  BY <1>0, <1>1, <1>13, <1>14 DEF Phases
<1>16. curTask' \in [Threads -> SUBSET K] /\ \A u \in Threads : \A k \in curTask'[u] : k \in curTask[u] \/ k = key
  <2>1. curTask \in [Threads -> SUBSET K]
    BY <1>0 DEF ThreadsOK
  <2> HIDE DEF K
  <2> QED
    BY <2>1, <1>2
<1>17. NodesInv'
  <2>1. KeysUnique'
    <3>1. \A m \in DOMAIN nodes : nodes'[m].key # key
      BY <1>4 DEF NodeOf
    <3> QED
      BY <3>1, <1>0, <1>3, <1>4 DEF NodesInv, KeysUnique
  <2>2. FoundHasNode'
    <3>1. ASSUME NEW u \in Threads, NEW k \in curTask'[u]
          PROVE  \E m \in DOMAIN nodes' : nodes'[m].key = k
      <4>1. CASE k = key
        BY <4>1, <1>3, <1>4
      <4>2. CASE k \in curTask[u]
        BY <4>2, <1>0, <1>4 DEF NodesInv, FoundHasNode
      <4> QED
        BY <4>1, <4>2, <1>16
    <3> QED
      BY <3>1, <1>14 DEF FoundHasNode
  <2>3. SizeOfKey'
    BY <1>0, <1>3, <1>4 DEF NodesInv, SizeOfKey
  <2>4. NodeBelow'
    <3>1. ASSUME NEW k \in DOMAIN nodes', NEW i \in Instances,
                 nodes'[k].key = PatternOf(i), NEW c \in 1 .. Cardinality(i) - 1
          PROVE  \E m \in DOMAIN nodes' : \E j \in Instances :
                   nodes'[m].key = PatternOf(j) /\ Cardinality(j) = c
      <4>0. NodeBelow /\ Cardinality(i) \in Nat
        BY <1>0, InstanceFacts DEF NodesInv
      <4>1. CASE k = n
        <5>1. PatternOf(i) = PatternOf(f.links)
          BY <4>1, <3>1, <1>3, <1>4 DEF f
        <5>2. Cardinality(i) = Cardinality(f.links)
          BY <5>1, <1>2, MinerAssumption
        <5>3. PICK m \in DOMAIN nodes : \E j \in Instances :
                nodes[m].key = PatternOf(j) /\ Cardinality(f.links) = Cardinality(j) + 1
          BY <5>2, <3>1, <4>0, <1>1 DEF FrameInv
        <5>4. PICK j \in Instances : nodes[m].key = PatternOf(j) /\ Cardinality(f.links) = Cardinality(j) + 1
          BY <5>3
        <5>5. Cardinality(j) \in Nat
          BY InstanceFacts
        <5>6. CASE c = Cardinality(j)
          BY <5>4, <5>6, <1>4
        <5>7. CASE c \in 1 .. Cardinality(j) - 1
          <6>1. \E q \in DOMAIN nodes : \E z \in Instances : nodes[q].key = PatternOf(z) /\ Cardinality(z) = c
            BY <5>4, <5>7, <4>0 DEF NodeBelow
          <6> QED
            BY <6>1, <1>4
        <5> QED
          BY <5>2, <5>4, <5>5, <5>6, <5>7, <4>0
      <4>2. CASE k \in DOMAIN nodes
        <5>1. \E m \in DOMAIN nodes : \E j \in Instances : nodes[m].key = PatternOf(j) /\ Cardinality(j) = c
          BY <4>0, <4>2, <3>1, <1>4 DEF NodeBelow
        <5> QED
          BY <5>1, <1>4
      <4> QED
        BY <4>1, <4>2, <1>4
    <3> QED
      BY <3>1 DEF NodeBelow
  <2> QED
    BY <2>1, <2>2, <2>3, <2>4 DEF NodesInv
<1>18. Listing'
  <2>1. Filling(t)' = n /\ Filling(t) = 0
    BY <1>6, <1>12, <1>13 DEF Filling, Top
  <2>2. ASSUME NEW u \in Threads, u # t
        PROVE  Filling(u)' = Filling(u) /\ Filling(u) \in DOMAIN nodes \cup {0}
    <3>1. Filling(u)' = Filling(u)
      BY <2>2, <1>13 DEF Filling, Top
    <3>2. pc[u] = "fill" => FrameDone(nodes, Top(u))
      BY TopFacts
    <3> QED
      BY <3>1, <3>2 DEF Filling, FrameDone
  <2>3. \A k \in Grams : \A i \in DOMAIN patternsForGram[k] : patternsForGram[k][i] \in DOMAIN nodes
    BY <1>0 DEF PatternsOK
  <2>4. n # 0 /\ n \notin DOMAIN nodes
    BY <1>4
  <2>5. OneFiller'
    BY <2>1, <2>2, <2>4, <1>0, <1>14 DEF Listing, OneFiller
  <2>6. FilledUnlisted'
    <3>1. ASSUME NEW u \in Threads, NEW k \in Grams, NEW i \in DOMAIN patternsForGram[k]
          PROVE  patternsForGram[k][i] # Filling(u)'
      <4>1. CASE u = t
        BY <4>1, <2>1, <2>3, <2>4
      <4>2. CASE u # t
        BY <4>2, <2>2, <1>0 DEF Listing, FilledUnlisted
      <4> QED
        BY <4>1, <4>2
    <3> QED
      BY <3>1, <1>14 DEF FilledUnlisted
  <2>7. FilledOrListed'
    <3>1. ASSUME NEW m \in DOMAIN nodes'
          PROVE  \/ \E u \in Threads : Filling(u)' = m
                 \/ \E k \in Grams : \E i \in DOMAIN patternsForGram[k] : patternsForGram[k][i] = m
      <4>1. CASE m = n
        BY <4>1, <2>1
      <4>2. CASE m \in DOMAIN nodes
        <5>1. CASE \E k \in Grams : \E i \in DOMAIN patternsForGram[k] : patternsForGram[k][i] = m
          BY <5>1
        <5>2. CASE \E u \in Threads : Filling(u) = m
          <6>1. PICK u \in Threads : Filling(u) = m
            BY <5>2
          <6>2. m # 0
            BY <4>2, <1>4
          <6>3. u # t
            BY <6>1, <6>2, <2>1
          <6> QED
            BY <6>1, <6>3, <2>2
        <5> QED
          BY <4>2, <5>1, <5>2, <1>0 DEF Listing, FilledOrListed
      <4> QED
        BY <4>1, <4>2, <1>4
    <3> QED
      BY <3>1, <1>14 DEF FilledOrListed
  <2>8. OnePlace'
    BY <1>0, <1>14 DEF Listing, OnePlace
  <2>9. GramOfKey'
    BY <1>0, <1>4, <1>14, <2>3 DEF Listing, GramOfKey
  <2> QED
    BY <2>5, <2>6, <2>7, <2>8, <2>9 DEF Listing
<1>19. Progress'
  BY <1>1 DEF MinerInv, Progress, Evaluation, EndOfGram, LastGram, Waiting, Mined, evaluation
<1>20. ThreadsOK'
  BY <1>0, <1>13, <1>14, <1>16 DEF ThreadsOK, Places
<1>21. PatternsOK' /\ ClaimsOK'
  <2>1. patternsForGram' \in [Grams -> Seq(DOMAIN nodes')]
    <3>1. patternsForGram \in [Grams -> Seq(DOMAIN nodes)] /\ DOMAIN nodes \subseteq DOMAIN nodes'
      BY <1>0, <1>4 DEF PatternsOK
    <3>2. Seq(DOMAIN nodes) \subseteq Seq(DOMAIN nodes')
      BY <3>1
    <3> QED
      BY <3>1, <3>2
  <2>2. PatternsOK'
    BY <2>1, <1>0, <1>1, <1>4, <1>14 DEF PatternsOK, Mined, evaluation
  <2>3. ClaimsOK'
    BY <1>0, <1>14 DEF ClaimsOK, claims
  <2> QED
    BY <2>2, <2>3
<1> QED
  BY <1>13, <1>15, <1>17, <1>18, <1>19, <1>20, <1>21 DEF MinerInv, TypeOK

\* A pattern is looked up, and counted or entered.
LEMMA ExtractPatternStep ==
  ASSUME MinerInv, NEW t \in Threads, ExtractPattern(t)
  PROVE  MinerInv'
<1> DEFINE f == Top(t)
           key == PatternOf(f.links)
           n == Min(NodeOf(key))
           x == UNION {NodesOf[l] : l \in f.links}
           K == {PatternOf(i) : i \in Instances}
<1>0. TypeOK /\ ThreadsOK /\ PatternsOK /\ KeysUnique /\ FoundHasNode
  BY DEF MinerInv, TypeOK, NodesInv
<1>1. pc[t] = "extract" /\ UNCHANGED <<THREAD_NUM, phase, index, observing_as, patternsForGram, claims, evaluation, visits>>
  BY DEF ExtractPattern
<1>2. f \in Frame /\ f.links \in Instances /\ f.ext \in SUBSET UNION Range(NodesOf) /\ key \in K
  BY <1>1, TopFacts DEF Frame
<1>3. x \in SUBSET UNION Range(NodesOf)
  <2>1. f.links \subseteq DOMAIN NodesOf
    BY <1>2, MinerAssumption DEF Instances
  <2>2. \A l \in DOMAIN NodesOf : NodesOf[l] \in Range(NodesOf)
    BY DEF Range
  <2> QED
    BY <2>1, <2>2
<1>4. CASE key \in curTask[t]
  <2>1. /\ stack' = [stack EXCEPT ![t] = Append(Below(t), [f EXCEPT !.node = n])]
        /\ pc' = [pc EXCEPT ![t] = "relation"] /\ UNCHANGED <<curTask, nodes>>
    BY <1>4 DEF ExtractPattern, SetTop, GoTo
  <2>2. NodeOf(key) # {}
    BY <1>4, <1>0 DEF FoundHasNode, NodeOf
  <2>3. n \in DOMAIN nodes /\ nodes[n].key = key
    BY <2>2, <1>0, OneKnown
  <2>4. [f EXCEPT !.node = n] = [f EXCEPT !.node = n, !.ext = f.ext]
    <3> HIDE DEF f, n
    <3> QED
      BY <1>2 DEF Frame
  <2>5. stack' = [stack EXCEPT ![t] = Append(Below(t), [f EXCEPT !.node = n, !.ext = f.ext])]
    BY <2>1, <2>4
  <2>6. SameNodes(nodes, nodes') /\ nodes' \in Seq(HTreeNode)
    BY <2>1, <1>0 DEF SameNodes, PatternsOK
  <2>7. curTask' \in [Threads -> SUBSET K]
    BY <2>1, <1>0 DEF ThreadsOK
  <2> HIDE DEF n
  <2> QED
    BY <1>1, <1>2, <2>1, <2>3, <2>5, <2>6, <2>7, KnownPattern
<1>5. CASE key \notin curTask[t] /\ NodeOf(key) # {}
  <2>1. /\ stack' = [stack EXCEPT ![t] = Append(Below(t), [f EXCEPT !.node = n, !.ext = x])]
        /\ pc' = [pc EXCEPT ![t] = "relation"]
        /\ curTask' = [curTask EXCEPT ![t] = @ \cup {key}]
        /\ nodes' = [nodes EXCEPT ![n].count = @ + 1]
    BY <1>5 DEF ExtractPattern, SetTop, GoTo
  <2>2. n \in DOMAIN nodes /\ nodes[n].key = key
    BY <1>5, <1>0, OneKnown
  <2> HIDE DEF n, x
  <2>3. curTask' \in [Threads -> SUBSET K] /\ \A u \in Threads : \A k \in curTask'[u] : k \in curTask[u] \/ k = key
    <3>1. curTask \in [Threads -> SUBSET K] /\ key \in K
      BY <1>0, <1>2 DEF ThreadsOK
    <3> HIDE DEF K, key
    <3> QED
      BY <3>1, <2>1
  <2>4. SameNodes(nodes, nodes') /\ nodes' \in Seq(HTreeNode)
    <3>0. nodes \in Seq(HTreeNode) /\ Len(nodes) \in Nat /\ nodes[n] \in HTreeNode
      BY <2>2, <1>0 DEF PatternsOK
    <3> DEFINE c == nodes[n].count + 1
               h == [nodes[n] EXCEPT !.count = c]
    <3>1. h \in HTreeNode /\ h.key = nodes[n].key /\ h.size = nodes[n].size
      <4>1. c \in Nat
        BY <3>0 DEF HTreeNode
      <4> HIDE DEF c
      <4> QED
        BY <3>0, <4>1 DEF HTreeNode
    <3>2. nodes' = [nodes EXCEPT ![n] = h]
      BY <2>1
    <3> HIDE DEF h
    <3>3. /\ nodes' \in Seq(HTreeNode) /\ Len(nodes') = Len(nodes) /\ DOMAIN nodes' = DOMAIN nodes
          /\ nodes'[n] = h /\ \A m \in DOMAIN nodes : m # n => nodes'[m] = nodes[m]
      BY <3>0, <3>1, <3>2, <2>2
    <3>4. \A m \in DOMAIN nodes : nodes'[m].key = nodes[m].key /\ nodes'[m].size = nodes[m].size
      <4> TAKE m \in DOMAIN nodes
      <4>1. CASE m = n
        BY <4>1, <3>1, <3>3
      <4>2. CASE m # n
        BY <4>2, <3>3
      <4> QED
        BY <4>1, <4>2
    <3> QED
      BY <3>0, <3>3, <3>4 DEF SameNodes
  <2>5. \A u \in Threads : \A k \in curTask'[u] : k \in curTask[u] \/ \E m \in DOMAIN nodes : nodes[m].key = k
    BY <2>2, <2>3
  <2> QED
    BY <1>1, <1>3, <2>1, <2>2, <2>3, <2>4, <2>5, KnownPattern DEF x
<1>6. CASE key \notin curTask[t] /\ NodeOf(key) = {}
  <2>1. /\ stack' = [stack EXCEPT ![t] = Append(Below(t), [f EXCEPT !.node = Len(nodes) + 1, !.ext = x])]
        /\ pc' = [pc EXCEPT ![t] = "fill"]
        /\ curTask' = [curTask EXCEPT ![t] = @ \cup {key}]
        /\ nodes' = Append(nodes, [key |-> key, count |-> 1, size |-> 0, superPatternRelations |-> <<>>])
    BY <1>6 DEF ExtractPattern, SetTop, GoTo
  <2> HIDE DEF x
  <2> QED
    BY <1>1, <1>3, <1>6, <2>1, NewPattern
<1> QED
  BY <1>4, <1>5, <1>6

\* A list with one more node.
LEMMA ListedAt ==
  ASSUME NEW D, NEW pg \in [Grams -> Seq(D)], NEW g \in Grams, NEW n \in D,
         NEW pn, pn = [pg EXCEPT ![g] = Append(@, n)]
  PROVE  /\ pn \in [Grams -> Seq(D)]
         /\ Len(pg[g]) + 1 \in DOMAIN pn[g] /\ pn[g][Len(pg[g]) + 1] = n
         /\ \A h \in Grams : \A j \in DOMAIN pg[h] : j \in DOMAIN pn[h] /\ pn[h][j] = pg[h][j]
         /\ \A h \in Grams : \A j \in DOMAIN pn[h] :
              \/ j \in DOMAIN pg[h] /\ pn[h][j] = pg[h][j]
              \/ h = g /\ j = Len(pg[g]) + 1
<1> DEFINE a == Append(pg[g], n)
<1>1. pg[g] \in Seq(D)
  OBVIOUS
<1>2. /\ a \in Seq(D) /\ Len(pg[g]) + 1 \in DOMAIN a /\ a[Len(pg[g]) + 1] = n
      /\ \A j \in DOMAIN pg[g] : j \in DOMAIN a /\ a[j] = pg[g][j]
      /\ \A j \in DOMAIN a : j \in DOMAIN pg[g] \/ j = Len(pg[g]) + 1
  BY <1>1
<1>3. pn = [pg EXCEPT ![g] = a]
  OBVIOUS
<1> HIDE DEF a
<1>4. pn \in [Grams -> Seq(D)] /\ pn[g] = a /\ \A h \in Grams : h # g => pn[h] = pg[h]
  BY <1>2, <1>3
<1> QED
  BY <1>2, <1>4

\* The creator of a node sets its pattern and lists it.
LEMMA FillNodeStep ==
  ASSUME MinerInv, NEW t \in Threads, FillNode(t)
  PROVE  MinerInv'
<1> DEFINE f == Top(t)
           n == f.node
           g == Cardinality(f.links)
           at == Len(patternsForGram[g]) + 1
<1>0. TypeOK /\ ThreadsOK /\ PatternsOK /\ ClaimsOK /\ Calls /\ Phases /\ NodesInv /\ Listing
  BY DEF MinerInv, TypeOK
<1>1. /\ pc[t] = "fill" /\ pc' = [pc EXCEPT ![t] = "relation"]
      /\ nodes' = [nodes EXCEPT ![n].size = g]
      /\ patternsForGram' = [patternsForGram EXCEPT ![g] = Append(@, n)]
      /\ UNCHANGED <<THREAD_NUM, phase, index, stack, curTask, observing_as, claims, evaluation, visits>>
      /\ g \in Grams
  BY DEF FillNode, GoTo
<1>2. phase = "mining" /\ stack[t] # <<>> /\ f \in Frame /\ FrameDone(nodes, f)
  BY <1>1, TopFacts
<1>3. n \in DOMAIN nodes /\ nodes[n].key = PatternOf(f.links) /\ f.links \in Instances
  BY <1>2 DEF FrameDone, Frame
<1>4. g \in 1 .. LinkNum /\ LinkNum \in Nat /\ g \in Grams /\ g \in 0 .. LinkNum
  BY <1>1, <1>3, InstanceFacts, MinerAssumption
<1>5. Filling(t) = n
  BY <1>1 DEF Filling
<1>6. n # 0
  BY <1>0, <1>3 DEF PatternsOK
<1>7. \A i \in Instances : nodes[n].key = PatternOf(i) => Cardinality(i) = g
  BY <1>3, MinerAssumption
<1> HIDE DEF f, n, g
<1>8. /\ nodes' \in Seq(HTreeNode) /\ Len(nodes') = Len(nodes) /\ DOMAIN nodes' = DOMAIN nodes
      /\ nodes'[n].size = g /\ nodes'[n].key = nodes[n].key
      /\ \A m \in DOMAIN nodes : m # n => nodes'[m] = nodes[m]
      /\ NodesKept(nodes, nodes')
  <2>0. nodes \in Seq(HTreeNode) /\ Len(nodes) \in Nat /\ nodes[n] \in HTreeNode
    BY <1>0, <1>3 DEF PatternsOK
  <2> DEFINE h == [nodes[n] EXCEPT !.size = g]
  <2>1. h \in HTreeNode /\ h.key = nodes[n].key /\ h.size = g
    BY <2>0, <1>4 DEF HTreeNode
  <2>2. nodes' = [nodes EXCEPT ![n] = h]
    BY <1>1
  <2> HIDE DEF h
  <2>3. /\ nodes' \in Seq(HTreeNode) /\ Len(nodes') = Len(nodes) /\ DOMAIN nodes' = DOMAIN nodes
        /\ nodes'[n] = h /\ \A m \in DOMAIN nodes : m # n => nodes'[m] = nodes[m]
    BY <2>0, <2>1, <2>2, <1>3
  <2>4. \A m \in DOMAIN nodes : m \in DOMAIN nodes' /\ nodes'[m].key = nodes[m].key
    <3> TAKE m \in DOMAIN nodes
    <3>1. CASE m = n
      BY <3>1, <2>1, <2>3
    <3>2. CASE m # n
      BY <3>2, <2>3
    <3> QED
      BY <3>1, <3>2, <2>3
  <2>5. NodesKept(nodes, nodes')
    BY <2>0, <2>3, <2>4 DEF NodesKept
  <2> QED
    BY <2>1, <2>3, <2>5
<1>9. \A m \in DOMAIN nodes : nodes'[m].key = nodes[m].key
  BY <1>8
<1> DEFINE s == stack[t]
<1>10. /\ stack' = [stack EXCEPT ![t] = s] /\ s \in Seq(Frame) /\ "relation" \in Places
       /\ CallsOK(nodes, s, "relation")
  BY <1>0, <1>1 DEF ThreadsOK, Places, Calls, CallsOK
<1> HIDE DEF s
<1>11. CallsOK(nodes', s, "relation")
  BY <1>8, <1>10, CallsKept
<1>12. /\ Calls'
       /\ stack' \in [Threads -> Seq(Frame)]
       /\ pc' \in [Threads -> Places]
       /\ pc'[t] = "relation"
       /\ \A u \in Threads \ {t} : pc'[u] = pc[u]
  BY <1>0, <1>1, <1>8, <1>10, <1>11, CallsStep
<1>13. Threads' = Threads /\ Grams' = Grams
  BY <1>1 DEF Threads, Grams
<1>14. Phases'
  BY <1>0, <1>1, <1>2, <1>12, <1>13 DEF Phases
<1>15. NodesInv'
  <2>1. KeysUnique'
    BY <1>0, <1>8, <1>9 DEF NodesInv, KeysUnique
  <2>2. FoundHasNode'
    BY <1>0, <1>1, <1>8, <1>9, <1>13 DEF NodesInv, FoundHasNode
  <2>3. SizeOfKey'
    <3>1. ASSUME NEW m \in DOMAIN nodes, NEW i \in Instances, nodes'[m].key = PatternOf(i)
          PROVE  nodes'[m].size \in {0, Cardinality(i)}
      <4>1. CASE m = n
        BY <4>1, <3>1, <1>7, <1>8
      <4>2. CASE m # n
        BY <4>2, <3>1, <1>0, <1>8 DEF NodesInv, SizeOfKey
      <4> QED
        BY <4>1, <4>2
    <3> QED
      BY <3>1, <1>8 DEF SizeOfKey
  <2>4. NodeBelow'
    <3>1. ASSUME NEW k \in DOMAIN nodes, NEW i \in Instances,
                 nodes[k].key = PatternOf(i), NEW c \in 1 .. Cardinality(i) - 1
          PROVE  \E m \in DOMAIN nodes : \E j \in Instances :
                   nodes'[m].key = PatternOf(j) /\ Cardinality(j) = c
      <4>1. PICK m \in DOMAIN nodes : \E j \in Instances :
                   nodes[m].key = PatternOf(j) /\ Cardinality(j) = c
        BY <3>1, <1>0 DEF NodesInv, NodeBelow
      <4> QED
        BY <4>1, <1>9
    <3> QED
      BY <3>1, <1>8, <1>9 DEF NodeBelow
  <2> QED
    BY <2>1, <2>2, <2>3, <2>4 DEF NodesInv
<1>16. /\ patternsForGram' \in [Grams -> Seq(DOMAIN nodes)]
       /\ at \in DOMAIN patternsForGram'[g] /\ patternsForGram'[g][at] = n
       /\ \A h \in Grams : \A j \in DOMAIN patternsForGram[h] :
            j \in DOMAIN patternsForGram'[h] /\ patternsForGram'[h][j] = patternsForGram[h][j]
       /\ \A h \in Grams : \A j \in DOMAIN patternsForGram'[h] :
            \/ j \in DOMAIN patternsForGram[h] /\ patternsForGram'[h][j] = patternsForGram[h][j]
            \/ h = g /\ j = at
  <2>1. patternsForGram \in [Grams -> Seq(DOMAIN nodes)]
    BY <1>0 DEF PatternsOK
  <2> QED
    BY <2>1, <1>1, <1>3, <1>4, ListedAt
<1> HIDE DEF at
<1>17. \A h \in Grams : \A j \in DOMAIN patternsForGram[h] : patternsForGram[h][j] \in DOMAIN nodes /\ patternsForGram[h][j] # n
  BY <1>0, <1>5 DEF PatternsOK, Listing, FilledUnlisted
<1>18. 0 \notin DOMAIN nodes
  BY <1>0 DEF PatternsOK
<1>19. Listing'
  <2>1. Filling(t)' = 0
    BY <1>12 DEF Filling
  <2>2. ASSUME NEW u \in Threads, u # t
        PROVE  Filling(u)' = Filling(u) /\ Filling(u) # n
    BY <2>2, <1>0, <1>1, <1>5, <1>6, <1>12 DEF Filling, Top, Listing, OneFiller
  <2>3. OneFiller'
    BY <2>1, <2>2, <1>0, <1>13 DEF Listing, OneFiller
  <2>4. FilledUnlisted'
    <3>1. ASSUME NEW u \in Threads, NEW h \in Grams, NEW j \in DOMAIN patternsForGram'[h]
          PROVE  patternsForGram'[h][j] # Filling(u)'
      <4>1. CASE u = t
        BY <4>1, <2>1, <1>3, <1>16, <1>17, <1>18
      <4>2. CASE u # t
        BY <4>2, <2>2, <1>0, <1>16 DEF Listing, FilledUnlisted
      <4> QED
        BY <4>1, <4>2
    <3> QED
      BY <3>1, <1>13 DEF FilledUnlisted
  <2>5. FilledOrListed'
    <3>1. ASSUME NEW m \in DOMAIN nodes
          PROVE  \/ \E u \in Threads : Filling(u)' = m
                 \/ \E h \in Grams : \E j \in DOMAIN patternsForGram'[h] : patternsForGram'[h][j] = m
      <4>1. CASE m = n
        BY <4>1, <1>4, <1>16
      <4>2. CASE \E h \in Grams : \E j \in DOMAIN patternsForGram[h] : patternsForGram[h][j] = m
        BY <4>2, <1>16
      <4>3. CASE m # n /\ \E u \in Threads : Filling(u) = m
        <5>1. PICK u \in Threads : Filling(u) = m
          BY <4>3
        <5> QED
          BY <5>1, <4>3, <2>2, <1>5
      <4> QED
        BY <4>1, <4>2, <4>3, <1>0 DEF Listing, FilledOrListed
    <3> QED
      BY <3>1, <1>8, <1>13 DEF FilledOrListed
  <2>6. OnePlace'
    <3>1. ASSUME NEW h \in Grams, NEW k \in Grams, NEW i \in DOMAIN patternsForGram'[h],
                 NEW j \in DOMAIN patternsForGram'[k], patternsForGram'[h][i] = patternsForGram'[k][j]
          PROVE  h = k /\ i = j
      <4>1. CASE h = g /\ i = at
        <5>1. patternsForGram'[k][j] = n
          BY <4>1, <3>1, <1>16
        <5>2. ~(j \in DOMAIN patternsForGram[k] /\ patternsForGram'[k][j] = patternsForGram[k][j])
          BY <5>1, <1>17
        <5> QED
          BY <4>1, <5>2, <1>16
      <4>2. CASE k = g /\ j = at
        <5>1. patternsForGram'[h][i] = n
          BY <4>2, <3>1, <1>16
        <5>2. ~(i \in DOMAIN patternsForGram[h] /\ patternsForGram'[h][i] = patternsForGram[h][i])
          BY <5>1, <1>17
        <5> QED
          BY <4>2, <5>2, <1>16
      <4>3. CASE /\ i \in DOMAIN patternsForGram[h] /\ patternsForGram'[h][i] = patternsForGram[h][i]
                 /\ j \in DOMAIN patternsForGram[k] /\ patternsForGram'[k][j] = patternsForGram[k][j]
        <5>1. patternsForGram[h][i] = patternsForGram[k][j]
          BY <4>3, <3>1
        <5>2. OnePlace
          BY <1>0 DEF Listing
        <5> QED
          BY <4>3, <5>1, <5>2 DEF OnePlace
      <4> QED
        BY <4>1, <4>2, <4>3, <1>16
    <3> QED
      BY <3>1, <1>13 DEF OnePlace
  <2>7. GramOfKey'
    <3>1. ASSUME NEW h \in Grams, NEW j \in DOMAIN patternsForGram'[h], NEW k \in Instances,
                 nodes'[patternsForGram'[h][j]].key = PatternOf(k)
          PROVE  Cardinality(k) = h
      <4>1. CASE h = g /\ j = at
        BY <4>1, <3>1, <1>3, <1>7, <1>8, <1>16
      <4>2. CASE j \in DOMAIN patternsForGram[h] /\ patternsForGram'[h][j] = patternsForGram[h][j]
        BY <4>2, <3>1, <1>0, <1>9, <1>17 DEF Listing, GramOfKey
      <4> QED
        BY <4>1, <4>2, <1>16
    <3> QED
      BY <3>1, <1>13 DEF GramOfKey
  <2> QED
    BY <2>3, <2>4, <2>5, <2>6, <2>7 DEF Listing
<1>20. Progress'
  BY <1>1, <1>2 DEF MinerInv, Progress, Evaluation, EndOfGram, LastGram, Waiting, Mined, evaluation
<1>21. ThreadsOK'
  BY <1>0, <1>1, <1>12, <1>13 DEF ThreadsOK, Places
<1>22. PatternsOK' /\ ClaimsOK'
  BY <1>0, <1>1, <1>8, <1>13, <1>16 DEF PatternsOK, ClaimsOK, Mined, evaluation, claims
<1> QED
  BY <1>12, <1>14, <1>15, <1>19, <1>20, <1>21, <1>22 DEF MinerInv, TypeOK

----------------------------------------------------------------------------
(* The evaluation.                                                          *)

\* When the threads are not mining nothing is half entered.
LEMMA NothingFilled ==
  ASSUME MinerInv, \A u \in Threads : pc[u] \in {"next", "end"}
  PROVE  /\ \A u \in Threads : stack[u] = <<>> /\ Filling(u) = 0
         /\ \A n \in DOMAIN nodes : \E g \in Grams : \E i \in DOMAIN patternsForGram[g] : patternsForGram[g][i] = n
<1>1. \A u \in Threads : stack[u] = <<>> /\ Filling(u) = 0
  BY DEF MinerInv, Calls, CallsOK, Filling
<1>2. 0 \notin DOMAIN nodes
  BY DEF MinerInv, TypeOK, PatternsOK
<1> QED
  BY <1>1, <1>2 DEF MinerInv, Listing, FilledOrListed

\* A step of the evaluation disturbs neither calls nor lists.
LEMMA EvaluationStep ==
  ASSUME MinerInv, \A u \in Threads : pc[u] \in {"next", "end"},
         pc' \in [Threads -> {"next", "end"}], phase' \in {"evaluating", "done"},
         UNCHANGED <<THREAD_NUM, index, stack, curTask, observing_as, mined, claims, visits>>
  PROVE  Calls' /\ Phases' /\ NodesInv' /\ Listing' /\ ThreadsOK' /\ ClaimsOK'
<1>0. TypeOK /\ ThreadsOK /\ ClaimsOK /\ NodesInv /\ Listing
  BY DEF MinerInv, TypeOK
<1>1. Threads' = Threads /\ Grams' = Grams /\ UNCHANGED <<nodes, patternsForGram>>
  BY DEF Threads, Grams, mined
<1>2. \A u \in Threads : stack[u] = <<>> /\ Filling(u) = 0 /\ pc'[u] \in {"next", "end"}
  BY NothingFilled
<1>3. \A u \in Threads : Filling(u)' = 0
  BY <1>2 DEF Filling
<1>4. Calls'
  BY <1>1, <1>2 DEF Calls, CallsOK
<1>5. Phases'
  BY <1>1, <1>2 DEF Phases
<1>6. NodesInv'
  BY <1>0, <1>1 DEF NodesInv, KeysUnique, FoundHasNode, SizeOfKey, NodeBelow
<1>7. Listing'
  BY <1>0, <1>1, <1>2, <1>3 DEF Listing, OneFiller, FilledUnlisted, FilledOrListed, OnePlace, GramOfKey
<1>8. ThreadsOK'
  <2>1. pc' \in [Threads -> Places]
    BY DEF Places
  <2> QED
    BY <2>1, <1>0, <1>1 DEF ThreadsOK, Places
<1>9. ClaimsOK'
  BY <1>0, <1>1 DEF ClaimsOK, claims
<1> QED
  BY <1>4, <1>5, <1>6, <1>7, <1>8, <1>9

\* The mining threads have been joined.
LEMMA StartEvaluationStep ==
  ASSUME MinerInv, StartEvaluation
  PROVE  MinerInv'
<1>0. TypeOK /\ PatternsOK /\ Progress
  BY DEF MinerInv, TypeOK
<1>1. /\ phase = "mining" /\ phase' = "evaluating" /\ \A u \in Threads : pc[u] = "end"
      /\ pc' = [u \in Threads |-> "next"] /\ evaluated' = [n \in DOMAIN nodes |-> 0]
      /\ UNCHANGED <<THREAD_NUM, index, stack, curTask, observing_as, mined, claims, cur_gram, cur_index, visits>>
  BY DEF StartEvaluation
<1>2. Calls' /\ Phases' /\ NodesInv' /\ Listing' /\ ThreadsOK' /\ ClaimsOK'
  BY <1>1, EvaluationStep
<1>3. Threads' = Threads /\ Grams' = Grams /\ UNCHANGED <<nodes, patternsForGram>>
  BY <1>1 DEF Threads, Grams, mined
<1>4. PatternsOK'
  BY <1>0, <1>1, <1>3 DEF PatternsOK, Mined
<1>5. cur_gram' = 1 /\ cur_index' = 0
  BY <1>0, <1>1 DEF Progress, Waiting, Mined
<1>6. Evaluation'
  <2>1. ASSUME NEW g \in Grams, NEW i \in DOMAIN patternsForGram[g]
        PROVE  evaluated'[patternsForGram[g][i]] = 0 /\ ~Passed(g, i)'
    <3>1. patternsForGram[g][i] \in DOMAIN nodes /\ i \in Nat \ {0}
      BY <1>0 DEF PatternsOK
    <3>2. g \in Nat \ {0}
      BY MinerAssumption DEF Grams
    <3> QED
      BY <3>1, <3>2, <1>1, <1>5 DEF Passed
  <2> QED
    BY <2>1, <1>3 DEF Evaluation
<1>7. EndOfGram' /\ LastGram' /\ Waiting'
  BY <1>1, <1>3 DEF EndOfGram, LastGram, Waiting, Mined
<1> QED
  BY <1>2, <1>4, <1>6, <1>7 DEF MinerInv, TypeOK, Progress

\* A thread evaluates the next pattern of the gram, or finds none.
LEMMA EvaluateNextStep ==
  ASSUME MinerInv, NEW t \in Threads, EvaluateNext(t)
  PROVE  MinerInv'
<1> DEFINE L == patternsForGram[cur_gram]
           n == L[cur_index + 1]
<1>0. TypeOK /\ ThreadsOK /\ PatternsOK /\ Phases /\ OnePlace /\ Evaluation /\ EndOfGram
  BY DEF MinerInv, TypeOK, Listing, Progress
<1>1. /\ phase = "evaluating" /\ pc[t] = "next" /\ cur_index' = cur_index + 1
      /\ UNCHANGED <<THREAD_NUM, phase, index, stack, curTask, observing_as, mined, claims, cur_gram, visits>>
      /\ \/ cur_index + 1 <= Len(L) /\ evaluated' = [evaluated EXCEPT ![n] = @ + 1] /\ UNCHANGED pc
         \/ ~(cur_index + 1 <= Len(L)) /\ pc' = [pc EXCEPT ![t] = "end"] /\ UNCHANGED evaluated
  BY DEF EvaluateNext, Listed, GoTo
<1>2. Threads' = Threads /\ Grams' = Grams /\ UNCHANGED <<nodes, patternsForGram>> /\ Mined /\ Mined'
  BY <1>1 DEF Threads, Grams, mined, Mined
<1>3. pc \in [Threads -> {"next", "end"}] /\ \A u \in Threads : pc[u] \in {"next", "end"}
  BY <1>0, <1>1 DEF Phases, ThreadsOK
<1>4. pc' \in [Threads -> {"next", "end"}]
  BY <1>1, <1>3
<1>5. Calls' /\ Phases' /\ NodesInv' /\ Listing' /\ ThreadsOK' /\ ClaimsOK'
  BY <1>1, <1>3, <1>4, EvaluationStep
<1>6. /\ cur_gram \in Grams /\ cur_gram \in Nat /\ cur_index \in Nat /\ L \in Seq(DOMAIN nodes)
      /\ DOMAIN L = 1 .. Len(L) /\ Len(L) \in Nat /\ evaluated \in [DOMAIN nodes -> Nat]
  BY <1>0, <1>2, MinerAssumption DEF PatternsOK, Grams
<1>7. \A g \in Grams : g \in Nat
  BY MinerAssumption DEF Grams
<1>8. \A g \in Grams : \A i \in DOMAIN patternsForGram[g] : patternsForGram[g][i] \in DOMAIN nodes /\ i \in Nat
  BY <1>0 DEF PatternsOK
<1>9. /\ evaluated' \in [DOMAIN nodes -> Nat]
      /\ Evaluation'
  <2>1. CASE cur_index + 1 <= Len(L) /\ evaluated' = [evaluated EXCEPT ![n] = @ + 1]
    <3>1. cur_index + 1 \in DOMAIN L /\ n \in DOMAIN nodes
      BY <2>1, <1>6
    <3>2. evaluated[n] = 0
      BY <3>1, <1>0, <1>2, <1>6 DEF Evaluation, Passed
    <3>3. evaluated' \in [DOMAIN nodes -> Nat]
      BY <2>1, <3>1, <1>6
    <3>4. ASSUME NEW g \in Grams, NEW i \in DOMAIN patternsForGram[g]
          PROVE  evaluated'[patternsForGram[g][i]] = IF Passed(g, i)' THEN 1 ELSE 0
      <4>1. CASE g = cur_gram /\ i = cur_index + 1
        <5>1. Passed(g, i)'
          BY <4>1, <1>1, <1>6 DEF Passed
        <5>2. evaluated'[n] = 1
          BY <2>1, <3>1, <3>2, <1>6
        <5> QED
          BY <4>1, <5>1, <5>2
      <4>2. CASE ~(g = cur_gram /\ i = cur_index + 1)
        <5>1. patternsForGram[g][i] # n
          BY <4>2, <3>1, <1>0, <1>6 DEF OnePlace
        <5>2. evaluated'[patternsForGram[g][i]] = evaluated[patternsForGram[g][i]]
          BY <5>1, <2>1, <1>6, <1>8
        <5>3. Passed(g, i)' <=> Passed(g, i)
          BY <4>2, <1>1, <1>6, <1>7, <1>8 DEF Passed
        <5>4. evaluated[patternsForGram[g][i]] = IF Passed(g, i) THEN 1 ELSE 0
          BY <1>0, <1>2 DEF Evaluation
        <5> QED
          BY <5>2, <5>3, <5>4
      <4> QED
        BY <4>1, <4>2
    <3> QED
      BY <3>3, <3>4, <1>2 DEF Evaluation
  <2>2. CASE ~(cur_index + 1 <= Len(L)) /\ UNCHANGED evaluated
    <3>1. ASSUME NEW g \in Grams, NEW i \in DOMAIN patternsForGram[g]
          PROVE  evaluated'[patternsForGram[g][i]] = IF Passed(g, i)' THEN 1 ELSE 0
      <4>1. Passed(g, i)' <=> Passed(g, i)
        BY <2>2, <1>1, <1>6, <1>7, <1>8 DEF Passed
      <4>2. evaluated[patternsForGram[g][i]] = IF Passed(g, i) THEN 1 ELSE 0
        BY <1>0, <1>2 DEF Evaluation
      <4> QED
        BY <2>2, <4>1, <4>2
    <3> QED
      BY <3>1, <2>2, <1>2, <1>6 DEF Evaluation
  <2> QED
    BY <2>1, <2>2, <1>1
<1>10. PatternsOK'
  BY <1>0, <1>1, <1>2, <1>6, <1>9 DEF PatternsOK
<1>11. EndOfGram'
  <2>1. CASE cur_index + 1 <= Len(L) /\ UNCHANGED pc
    <3>1. ~ \E u \in Threads : pc[u] = "end"
      BY <2>1, <1>0, <1>2, <1>6 DEF EndOfGram
    <3> QED
      BY <2>1, <3>1, <1>1, <1>2 DEF EndOfGram
  <2>2. CASE ~(cur_index + 1 <= Len(L))
    BY <2>2, <1>1, <1>2, <1>6 DEF EndOfGram
  <2> QED
    BY <2>1, <2>2, <1>1
<1>12. LastGram' /\ Waiting'
  BY <1>1, <1>2 DEF LastGram, Waiting
<1> QED
  BY <1>5, <1>9, <1>10, <1>11, <1>12 DEF MinerInv, TypeOK, Progress

\* All threads have ended: the next gram, or the end.
LEMMA NextGramStep ==
  ASSUME MinerInv, NextGram
  PROVE  MinerInv'
<1> DEFINE L == patternsForGram[cur_gram]
<1>0. TypeOK /\ ThreadsOK /\ PatternsOK /\ Evaluation /\ EndOfGram
  BY DEF MinerInv, TypeOK, Progress
<1>1. /\ phase = "evaluating" /\ \A u \in Threads : pc[u] = "end"
      /\ UNCHANGED <<THREAD_NUM, index, stack, curTask, observing_as, mined, claims, evaluated, visits>>
      /\ \/ /\ cur_gram < MAX_GRAM /\ cur_gram' = cur_gram + 1 /\ cur_index' = 0
            /\ pc' = [u \in Threads |-> "next"] /\ UNCHANGED phase
         \/ /\ ~(cur_gram < MAX_GRAM) \/ L = <<>>
            /\ phase' = "done" /\ UNCHANGED <<cur_gram, cur_index, pc>>
  BY DEF NextGram, GramsLeft
<1>2. Threads' = Threads /\ Grams' = Grams /\ UNCHANGED <<nodes, patternsForGram>> /\ Mined /\ Mined'
  BY <1>1 DEF Threads, Grams, mined, Mined
<1>3. pc' \in [Threads -> {"next", "end"}] /\ phase' \in {"evaluating", "done"}
  BY <1>0, <1>1 DEF ThreadsOK
<1>4. Calls' /\ Phases' /\ NodesInv' /\ Listing' /\ ThreadsOK' /\ ClaimsOK'
  BY <1>1, <1>3, EvaluationStep
<1>5. /\ cur_gram \in 1 .. MAX_GRAM /\ MAX_GRAM \in Nat /\ cur_index \in Nat
      /\ DOMAIN L = 1 .. Len(L) /\ Len(L) \in Nat
  BY <1>0, MinerAssumption DEF PatternsOK, Grams
<1>6. 0 \in Threads
  BY <1>0, MinerAssumption DEF ThreadsOK, Threads
<1>7. cur_index >= Len(L)
  BY <1>0, <1>1, <1>2, <1>6 DEF EndOfGram
<1>8. PatternsOK'
  BY <1>0, <1>1, <1>2, <1>5 DEF PatternsOK
<1>9. \A g \in Grams : g \in Nat
  BY MinerAssumption DEF Grams
<1>10. \A g \in Grams : \A i \in DOMAIN patternsForGram[g] : i \in Nat \ {0}
  BY <1>0 DEF PatternsOK
<1>11. Evaluation'
  <2>1. ASSUME NEW g \in Grams, NEW i \in DOMAIN patternsForGram[g]
        PROVE  Passed(g, i)' <=> Passed(g, i)
    BY <1>1, <1>5, <1>7, <1>9, <1>10 DEF Passed
  <2> QED
    BY <2>1, <1>0, <1>1, <1>2 DEF Evaluation
<1>12. EndOfGram' /\ LastGram' /\ Waiting'
  BY <1>1, <1>2, <1>5, <1>7 DEF EndOfGram, LastGram, Waiting
<1> QED
  BY <1>4, <1>8, <1>11, <1>12 DEF MinerInv, TypeOK, Progress

----------------------------------------------------------------------------
(* The theorems.                                                            *)

\* runPatternMinerDepthFirst starts the threads with nothing mined.
LEMMA InitMiner ==
  ASSUME Init PROVE MinerInv
<1>1. THREAD_NUM \in 1 .. MaxThreads
  BY DEF Init
<1>2. ThreadsOK
  <2>1. \A t \in Threads : StartIndex(t) \in 1 .. LinkNum + 1
    BY <1>1, RangeFacts
  <2> QED
    BY <2>1, <1>1 DEF Init, ThreadsOK
<1>3. PatternsOK /\ ClaimsOK
  BY MinerAssumption DEF Init, PatternsOK, ClaimsOK, Mined
<1>4. Calls /\ Phases
  BY DEF Init, Calls, CallsOK, Phases
<1>5. NodesInv
  BY DEF Init, NodesInv, KeysUnique, FoundHasNode, SizeOfKey, NodeBelow
<1>6. Listing
  BY DEF Init, Listing, OneFiller, FilledUnlisted, FilledOrListed, OnePlace, GramOfKey, Filling
<1>7. Progress
  BY DEF Init, Progress, Evaluation, EndOfGram, LastGram, Waiting, Mined
<1> QED
  BY <1>2, <1>3, <1>4, <1>5, <1>6, <1>7 DEF MinerInv, TypeOK

\* Nothing changes.
LEMMA MinerStutter ==
  ASSUME MinerInv, UNCHANGED work PROVE MinerInv'
<1>1. /\ UNCHANGED <<THREAD_NUM, phase, index, pc, stack, curTask, observing_as, visits>>
      /\ UNCHANGED <<nodes, patternsForGram, thread_DF_ExtractedLinks, all_thread_ExtractedLinks_pergram>>
      /\ UNCHANGED <<cur_gram, cur_index, evaluated>>
  BY DEF work, mined, claims, evaluation
<1>2. Threads' = Threads /\ Grams' = Grams
  BY <1>1 DEF Threads, Grams
<1>3. TypeOK'
  BY <1>1, <1>2 DEF MinerInv, TypeOK, ThreadsOK, PatternsOK, ClaimsOK, Mined
<1>4. Calls' /\ Phases'
  BY <1>1, <1>2 DEF MinerInv, Calls, Phases
<1>5. NodesInv'
  BY <1>1, <1>2 DEF MinerInv, NodesInv, KeysUnique, FoundHasNode, SizeOfKey, NodeBelow
<1>6. Listing'
  <2>1. \A t \in Threads : Filling(t)' = Filling(t)
    BY <1>1 DEF Filling, Top
  <2> QED
    BY <2>1, <1>1, <1>2 DEF MinerInv, Listing, OneFiller, FilledUnlisted, FilledOrListed, OnePlace, GramOfKey
<1>7. Progress'
  BY <1>1, <1>2 DEF MinerInv, Progress, Evaluation, Passed, EndOfGram, LastGram, Waiting, Mined
<1> QED
  BY <1>3, <1>4, <1>5, <1>6, <1>7 DEF MinerInv

\* The inductive invariant: however the threads of PatternMinerDF.cc
\* interleave, a key is entered once, its creator lists it once under its
\* number of links, and the evaluation passes over each list in order.
THEOREM MinerInvariant == Spec => []MinerInv
<1>1. Init => MinerInv
  BY InitMiner
<1>2. MinerInv /\ [Next]_vars => MinerInv'
  <2> SUFFICES ASSUME MinerInv, [Next]_vars PROVE MinerInv'
    OBVIOUS
  <2>1. ASSUME NEW t \in 0 .. MaxThreads - 1, t \in Threads, MinerStep(t) PROVE MinerInv'
    <3>1. CASE NextLink(t)       BY <2>1, <3>1, NextLinkStep
    <3>2. CASE ThreadEnds(t)     BY <2>1, <3>2, ThreadEndsStep
    <3>3. CASE ExtractPattern(t) BY <2>1, <3>3, ExtractPatternStep
    <3>4. CASE FillNode(t)       BY <2>1, <3>4, FillNodeStep
    <3>5. CASE AddSuperPattern(t) BY <2>1, <3>5, AddSuperPatternStep
    <3>6. CASE NextNode(t)       BY <2>1, <3>6, NextNodeStep
    <3>7. CASE EndCall(t)        BY <2>1, <3>7, EndCallStep
    <3>8. CASE TryLink(t)        BY <2>1, <3>8, TryLinkStep
    <3>9. CASE AddClaim(t)       BY <2>1, <3>9, AddClaimStep
    <3>10. CASE EvaluateNext(t)  BY <2>1, <3>10, EvaluateNextStep
    <3>11. CASE CheckRelation(t) BY <2>1, <3>11, CheckRelationStep
    <3> QED
      BY <2>1, <3>1, <3>2, <3>3, <3>4, <3>5, <3>6, <3>7, <3>8, <3>9, <3>10, <3>11 DEF MinerStep
  <2>2. CASE StartEvaluation
    BY <2>2, StartEvaluationStep
  <2>3. CASE NextGram
    BY <2>3, NextGramStep
  <2>4. CASE UNCHANGED work
    BY <2>4, MinerStutter
  <2>5. Step \/ UNCHANGED work
    BY DEF Next, Over, OutOfBounds, vars
  <2> QED
    BY <2>1, <2>2, <2>3, <2>4, <2>5 DEF Step
<1> QED
  BY <1>1, <1>2, PTL DEF Spec

\* The variables keep the shapes PatternMiner.h declares, and no gram beyond
\* LinkNum + 1 is ever used as the index of the claims.
THEOREM TypeCorrect == Spec => []TypeOK
<1>1. MinerInv => TypeOK
  BY DEF MinerInv
<1> QED
  BY <1>1, MinerInvariant, PTL

\* A pattern has one HTreeNode, and it is listed at one place when the mining
\* threads have been joined: the critical section of uniqueKeyLock keeps two
\* threads from entering a key twice, although its creator sets the pattern
\* and lists the node after the lock has been released.
THEOREM OneNodeSafety == Spec => []OneNodePerPattern
<1>1. MinerInv => OneNodePerPattern
  <2> SUFFICES ASSUME MinerInv PROVE OneNodePerPattern
    OBVIOUS
  <2>1. \A m, n \in DOMAIN nodes : nodes[m].key = nodes[n].key => m = n
    BY DEF MinerInv, NodesInv, KeysUnique
  <2>2. ASSUME Mined, NEW n \in DOMAIN nodes
        PROVE  \E g \in Grams : \E i \in DOMAIN patternsForGram[g] :
                 \A h \in Grams : \A j \in DOMAIN patternsForGram[h] :
                   patternsForGram[h][j] = n <=> h = g /\ j = i
    <3>1. \A u \in Threads : pc[u] \in {"next", "end"}
      BY <2>2 DEF MinerInv, Phases, Mined
    <3>2. PICK g \in Grams : \E i \in DOMAIN patternsForGram[g] : patternsForGram[g][i] = n
      BY <3>1, NothingFilled
    <3>3. PICK i \in DOMAIN patternsForGram[g] : patternsForGram[g][i] = n
      BY <3>2
    <3>4. \A h \in Grams : \A j \in DOMAIN patternsForGram[h] :
            patternsForGram[h][j] = n <=> h = g /\ j = i
      BY <3>3 DEF MinerInv, Listing, OnePlace
    <3> QED
      BY <3>4
  <2> QED
    BY <2>1, <2>2 DEF OneNodePerPattern
<1> QED
  BY <1>1, MinerInvariant, PTL

\* Every listed pattern is evaluated exactly once, although the threads share
\* cur_index and the loop may end at the first gram without patterns: when a
\* gram has none, no longer one has any.
THEOREM EvaluatedOnceSafety == Spec => []EvaluatedOnce
<1>1. MinerInv => EvaluatedOnce
  <2> SUFFICES ASSUME MinerInv, phase = "done",
                      NEW g \in 1 .. MAX_GRAM, NEW n \in Range(patternsForGram[g])
               PROVE  evaluated[n] = 1
    BY DEF EvaluatedOnce
  <2>0. TypeOK /\ PatternsOK /\ Evaluation /\ EndOfGram /\ LastGram /\ NodeBelow /\ GramOfKey /\ Mined
    BY DEF MinerInv, TypeOK, Progress, NodesInv, Listing, Mined
  <2>1. PICK i \in DOMAIN patternsForGram[g] : patternsForGram[g][i] = n
    BY DEF Range
  <2>2. g \in Grams /\ g \in Nat /\ cur_gram \in Grams /\ cur_gram \in 1 .. MAX_GRAM /\ MAX_GRAM \in Nat
    BY <2>0, MinerAssumption DEF PatternsOK, Grams
  <2>3. /\ patternsForGram[g] \in Seq(DOMAIN nodes) /\ n \in DOMAIN nodes
        /\ Len(patternsForGram[g]) \in Nat /\ i \in 1 .. Len(patternsForGram[g]) /\ cur_index \in Nat
    BY <2>0, <2>1, <2>2 DEF PatternsOK
  <2>4. cur_index >= Len(patternsForGram[cur_gram])
    BY <2>0 DEF EndOfGram
  <2>5. ~(cur_gram < g)
    <3> SUFFICES ASSUME cur_gram < g PROVE FALSE
      OBVIOUS
    <3>1. patternsForGram[cur_gram] = <<>>
      BY <2>0, <2>2 DEF LastGram
    <3>2. PICK k \in Instances : nodes[n].key = PatternOf(k)
      <4>1. nodes \in Seq(HTreeNode)
        BY <2>0 DEF PatternsOK
      <4>2. nodes[n] \in HTreeNode
        BY <4>1, <2>3
      <4> QED
        BY <4>2 DEF HTreeNode
    <3>3. Cardinality(k) = g
      BY <3>2, <2>0, <2>1, <2>2 DEF GramOfKey
    <3>4. PICK m \in DOMAIN nodes, j \in Instances : nodes[m].key = PatternOf(j) /\ Cardinality(j) = cur_gram
      BY <3>2, <3>3, <2>0, <2>2, <2>3 DEF NodeBelow
    <3>5. \A u \in Threads : pc[u] \in {"next", "end"}
      BY DEF MinerInv, Phases
    <3>6. PICK h \in Grams : \E q \in DOMAIN patternsForGram[h] : patternsForGram[h][q] = m
      BY <3>5, NothingFilled
    <3>7. h = cur_gram
      BY <3>4, <3>6, <2>0 DEF GramOfKey
    <3> QED
      BY <3>1, <3>6, <3>7
  <2>6. Passed(g, i)
    BY <2>2, <2>3, <2>4, <2>5 DEF Passed
  <2> QED
    BY <2>0, <2>1, <2>2, <2>6 DEF Evaluation
<1> QED
  BY <1>1, MinerInvariant, PTL

----------------------------------------------------------------------------
(* No two links that share a node are left out by all threads, and the      *)
(* counts are those of the links.                                           *)
(*                                                                          *)
(* A pair of links is met by the thread that copies the second of them: it  *)
(* is in its calls, as a node it is still to look at, a link to try or the  *)
(* link it is about to claim, until a thread has entered the pair.  A       *)
(* pattern is counted by a task when it is new in it, so a count is the     *)
(* number of links whose task has found the pattern.                        *)

(* The task of thread t with the links obs copied: its next link idx, its   *)
(* calls st and the place p it is at, the patterns it has found.  The first *)
(* call is on the link before idx, and has no link to try until its pattern *)
(* has been looked up; the others are on more links than one.               *)
TaskOK(t, obs, idx, st, p, task) ==
  /\ idx \in StartIndex(t) .. EndIndex(t)
  /\ p \in {"next", "end"} => idx = EndIndex(t)
  /\ st # <<>> =>
       /\ idx - 1 \in StartIndex(t) .. EndIndex(t) - 1 /\ idx - 1 \in obs
       /\ st[1].links = {idx - 1} /\ st[1].gram = 1
       /\ \A k \in DOMAIN st : k > 1 => Cardinality(st[k].links) > 1
  /\ Len(st) = 1 /\ p \in {"extract", "fill", "relation", "push"} => st[1].cand = {}
  /\ Len(st) = 1 /\ p = "extract" => task = {}

Tasks == \A t \in Threads : TaskOK(t, observing_as, index[t], stack[t], pc[t], curTask[t])

(* The links copied are those the threads have come past.                   *)
PastCopied == \A t \in Threads : \A l \in StartIndex(t) .. index[t] - 1 : l \in IgnoredLinks \cup observing_as
CopiedPast == \A l \in observing_as : \E t \in Threads : l \in StartIndex(t) .. index[t] - 1

(* A claim that stands was followed by a call.                              *)
ClaimsVisited == \A g \in 1 .. LinkNum + 1 : \A i \in all_thread_ExtractedLinks_pergram[g] : visits[i] > 0

(* A thread with the calls st at p is still to come from link l to link m.  *)
Meets(st, p, l, m) ==
  /\ st # <<>>
  /\ st[1].links = {l}
  /\ \/ Len(st) = 1 /\ p = "extract"
     \/ NodesOf[l] \cap NodesOf[m] \cap st[1].ext # {}
     \/ m \in st[1].cand
     \/ Len(st) = 1 /\ p = "claim" /\ st[1].next = m

Pairs ==
  MAX_GRAM > 1 => \A l, m \in observing_as : SharesNode(l, m) =>
    \/ visits[{l, m}] > 0
    \/ \E t \in Threads : Meets(stack[t], pc[t], l, m) \/ Meets(stack[t], pc[t], m, l)

(* The links whose task is under way and has not found key, and those whose *)
(* own pattern has not been looked up.                                      *)
Open(key) == {l \in observing_as : \E t \in Threads : l = index[t] - 1 /\ stack[t] # <<>> /\ key \notin curTask[t]}
Starting == {l \in observing_as : \E t \in Threads : l = index[t] - 1 /\ Len(stack[t]) = 1 /\ pc[t] = "extract"}

(* The links that are counted for a one-link pattern.                       *)
Counted(key) == {l \in observing_as \ Starting : PatternOf({l}) = key}

Keys == {PatternOf(i) : i \in Instances}

CountBound ==
  \A key \in Keys : \A n \in DOMAIN nodes :
    nodes[n].key = key => nodes[n].count <= Cardinality(observing_as \ Open(key))
CountExact ==
  \A l \in Links : \A n \in DOMAIN nodes :
    nodes[n].key = PatternOf({l}) => nodes[n].count = Cardinality(Counted(PatternOf({l})))
StartedHasNode == \A l \in observing_as \ Starting : \E n \in DOMAIN nodes : nodes[n].key = PatternOf({l})

(* The inductive invariant of mining, with MinerInv.                        *)
MiningInv == Tasks /\ PastCopied /\ CopiedPast /\ ClaimsVisited /\ Pairs /\ CountBound /\ CountExact /\ StartedHasNode
----------------------------------------------------------------------------
(* The ranges of the threads.                                               *)

\* The ranges do not overlap.
LEMMA RangesDisjoint ==
  ASSUME THREAD_NUM \in 1 .. MaxThreads, NEW t \in Threads, NEW u \in Threads,
         NEW l \in StartIndex(t) .. EndIndex(t) - 1, l \in StartIndex(u) .. EndIndex(u) - 1
  PROVE  t = u
<1>1. LinkNum \in Nat /\ THREAD_NUM \in Nat /\ THREAD_NUM > 0 /\ t \in 0 .. THREAD_NUM - 1 /\ u \in 0 .. THREAD_NUM - 1
  BY MinerAssumption DEF Threads
<1> DEFINE q == LinkNum \div THREAD_NUM
<1>2. q \in Nat
  BY <1>1
<1>3. \A v \in Threads : StartIndex(v) = q * v + 1 /\ (v # THREAD_NUM - 1 => EndIndex(v) = q * (v + 1) + 1)
  BY DEF StartIndex, EndIndex, linksPerThread
<1> HIDE DEF q
<1>4. ASSUME NEW v \in Threads, NEW w \in Threads, v < w PROVE EndIndex(v) <= StartIndex(w)
  <2>1. v \in Nat /\ w \in Nat /\ v + 1 <= w /\ v # THREAD_NUM - 1
    BY <1>1, <1>4 DEF Threads
  <2> DEFINE d == w - (v + 1)
  <2>2. d \in Nat /\ w = (v + 1) + d
    BY <2>1
  <2> HIDE DEF d
  <2>3. q * w = q * (v + 1) + q * d /\ q * d \in Nat /\ q * (v + 1) \in Nat
    BY <1>2, <2>1, <2>2
  <2>4. EndIndex(v) = q * (v + 1) + 1 /\ StartIndex(w) = q * w + 1
    BY <1>3, <2>1
  <2> QED
    BY <2>3, <2>4
<1>5. /\ StartIndex(t) \in Int /\ EndIndex(t) \in Int /\ StartIndex(u) \in Int /\ EndIndex(u) \in Int
  BY <1>1, RangeFacts
<1>6. CASE t < u
  BY <1>4, <1>5, <1>6
<1>7. CASE u < t
  BY <1>4, <1>5, <1>7
<1> QED
  BY <1>1, <1>6, <1>7

\* Every link is in one of them.
LEMMA RangesCover ==
  ASSUME THREAD_NUM \in 1 .. MaxThreads, NEW l \in Links
  PROVE  \E t \in Threads : l \in StartIndex(t) .. EndIndex(t) - 1
<1>1. LinkNum \in Nat /\ THREAD_NUM \in Nat /\ THREAD_NUM > 0 /\ l \in 1 .. LinkNum
  BY MinerAssumption DEF Links
<1> DEFINE q == LinkNum \div THREAD_NUM
           last == THREAD_NUM - 1
<1>2. q \in Nat
  BY <1>1
<1>3. /\ last \in Threads /\ StartIndex(last) = q * last + 1 /\ EndIndex(last) = LinkNum + 1
      /\ \A v \in Threads : v # last => StartIndex(v) = q * v + 1 /\ EndIndex(v) = q * (v + 1) + 1
  BY <1>1 DEF Threads, StartIndex, EndIndex, linksPerThread
<1>4. Threads = 0 .. last /\ last \in Nat
  BY <1>1 DEF Threads
<1> HIDE DEF q, last
<1>5. CASE q = 0
  <2>1. q * last = 0
    BY <1>4, <1>5
  <2>2. l \in StartIndex(last) .. EndIndex(last) - 1
    BY <2>1, <1>1, <1>3
  <2> QED
    BY <2>2, <1>3
<1>6. CASE q # 0
  <2> DEFINE k == (l - 1) \div q
  <2>1. k \in Nat /\ q * k <= l - 1 /\ l - 1 < q * k + q
    BY <1>1, <1>2, <1>6
  <2> HIDE DEF k
  <2>2. CASE k < last
    <3>1. k \in Threads /\ k # last /\ q * (k + 1) = q * k + q /\ q * k \in Nat
      BY <1>2, <1>4, <2>1, <2>2
    <3>2. StartIndex(k) = q * k + 1 /\ EndIndex(k) = q * (k + 1) + 1
      BY <1>3, <3>1
    <3>3. l \in StartIndex(k) .. EndIndex(k) - 1
      BY <3>1, <3>2, <2>1, <1>1, <1>2
    <3> QED
      BY <3>1, <3>3
  <2>3. CASE k >= last
    <3> DEFINE d == k - last
    <3>1. d \in Nat /\ k = last + d
      BY <1>4, <2>1, <2>3
    <3> HIDE DEF d
    <3>2. q * k = q * last + q * d /\ q * d \in Nat /\ q * last \in Nat
      BY <1>2, <1>4, <3>1
    <3>3. l \in StartIndex(last) .. EndIndex(last) - 1
      BY <3>2, <2>1, <1>1, <1>3
    <3> QED
      BY <3>3, <1>3
  <2> QED
    BY <2>2, <2>3, <2>1, <1>4
<1> QED
  BY <1>5, <1>6

----------------------------------------------------------------------------
(* Calls.                                                                   *)

\* A call is made on top of the calls b.
LEMMA PushFacts ==
  ASSUME NEW F, NEW b \in Seq(F), NEW f \in F
  PROVE  LET s == Append(b, f)
         IN  /\ s \in Seq(F) /\ s # <<>> /\ Len(s) = Len(b) + 1 /\ s[Len(s)] = f
             /\ DOMAIN s = 1 .. Len(b) + 1
             /\ \A k \in 1 .. Len(b) : s[k] = b[k]
OBVIOUS

\* The top call of a thread is replaced by f.
LEMMA SetTopFacts ==
  ASSUME ThreadsOK, NEW t \in Threads, stack[t] # <<>>, NEW f \in Frame
  PROVE  LET s == Append(Below(t), f)
             n == Len(stack[t])
         IN  /\ s \in Seq(Frame) /\ s # <<>> /\ Len(s) = n /\ s[n] = f
             /\ n \in Nat \ {0} /\ DOMAIN s = 1 .. n /\ DOMAIN stack[t] = 1 .. n
             /\ \A k \in 1 .. n - 1 : s[k] = stack[t][k]
<1> DEFINE b == Below(t)
           n == Len(stack[t])
           s == Append(b, f)
<1>1. /\ b \in Seq(Frame) /\ n \in Nat \ {0} /\ Len(b) = n - 1
      /\ \A k \in DOMAIN b : b[k] = stack[t][k]
      /\ stack[t] \in Seq(Frame)
  BY StackFacts
<1>2. DOMAIN stack[t] = 1 .. n /\ DOMAIN b = 1 .. n - 1
  BY <1>1
<1> HIDE DEF b, n
<1>3. /\ s \in Seq(Frame) /\ s # <<>> /\ Len(s) = Len(b) + 1 /\ s[Len(s)] = f
      /\ DOMAIN s = 1 .. Len(b) + 1
      /\ \A k \in 1 .. Len(b) : s[k] = b[k]
  BY <1>1, PushFacts
<1> HIDE DEF s
<1>4. Len(s) = n /\ DOMAIN s = 1 .. n /\ \A k \in 1 .. n - 1 : s[k] = stack[t][k]
  BY <1>1, <1>2, <1>3
<1> QED
  BY <1>1, <1>2, <1>3, <1>4 DEF s, b, n

\* The task goes on: the first call is on the same link.
LEMMA TaskGoesOn ==
  ASSUME NEW t, NEW obs, NEW idx, NEW st, NEW p, NEW task, TaskOK(t, obs, idx, st, p, task), st # <<>>,
         NEW s, NEW q, NEW task2, q \notin {"next", "end"}, s # <<>>,
         s[1].links = st[1].links, s[1].gram = st[1].gram,
         \A k \in DOMAIN s : k > 1 => Cardinality(s[k].links) > 1,
         Len(s) = 1 /\ q \in {"extract", "fill", "relation", "push"} => s[1].cand = {},
         Len(s) = 1 => q # "extract"
  PROVE  TaskOK(t, obs, idx, s, q, task2)
BY DEF TaskOK

\* A step of thread t, and of what is copied.
LEMMA TasksStep ==
  ASSUME ThreadsOK, Tasks, NEW t \in Threads, UNCHANGED THREAD_NUM, observing_as \subseteq observing_as',
         NEW s, NEW p, NEW i, NEW task,
         stack' = [stack EXCEPT ![t] = s], pc' = [pc EXCEPT ![t] = p],
         index' = [index EXCEPT ![t] = i], curTask' = [curTask EXCEPT ![t] = task],
         TaskOK(t, observing_as', i, s, p, task)
  PROVE  Tasks'
<1>1. /\ DOMAIN stack = Threads /\ DOMAIN pc = Threads /\ DOMAIN index = Threads /\ DOMAIN curTask = Threads
  BY DEF ThreadsOK
<1>2. /\ stack'[t] = s /\ pc'[t] = p /\ index'[t] = i /\ curTask'[t] = task
      /\ \A u \in Threads : u # t => stack'[u] = stack[u] /\ pc'[u] = pc[u] /\ index'[u] = index[u] /\ curTask'[u] = curTask[u]
  BY <1>1
<1>3. ASSUME NEW u \in Threads PROVE TaskOK(u, observing_as', index'[u], stack'[u], pc'[u], curTask'[u])
  <2>1. CASE u = t
    BY <2>1, <1>2
  <2>2. CASE u # t
    <3>1. TaskOK(u, observing_as, index[u], stack[u], pc[u], curTask[u])
      BY DEF Tasks
    <3>2. TaskOK(u, observing_as', index[u], stack[u], pc[u], curTask[u])
      BY <3>1 DEF TaskOK
    <3> QED
      BY <2>2, <3>2, <1>2
  <2> QED
    BY <2>1, <2>2
<1>4. Threads' = Threads /\ \A u \in Threads : StartIndex(u)' = StartIndex(u) /\ EndIndex(u)' = EndIndex(u)
  BY DEF Threads, StartIndex, EndIndex, linksPerThread
<1> QED
  BY <1>3, <1>4 DEF Tasks, TaskOK

\* What is copied is left alone.
LEMMA TasksInside ==
  ASSUME ThreadsOK, Tasks, NEW t \in Threads, UNCHANGED <<THREAD_NUM, index, observing_as>>, NEW s, NEW p, NEW task,
         stack' = [stack EXCEPT ![t] = s], pc' = [pc EXCEPT ![t] = p], curTask' = [curTask EXCEPT ![t] = task],
         TaskOK(t, observing_as, index[t], s, p, task)
  PROVE  Tasks'
<1>1. index' = [index EXCEPT ![t] = index[t]] /\ observing_as \subseteq observing_as'
  BY DEF ThreadsOK
<1>2. TaskOK(t, observing_as', index[t], s, p, task)
  OBVIOUS
<1> QED
  BY <1>1, <1>2, TasksStep

\* What is copied does not change while a thread is in its task.
LEMMA CopiedStep ==
  ASSUME PastCopied, CopiedPast, UNCHANGED <<THREAD_NUM, index, observing_as>>
  PROVE  (PastCopied /\ CopiedPast)'
BY DEF PastCopied, CopiedPast, Threads, StartIndex, linksPerThread
----------------------------------------------------------------------------
(* Pairs of links.                                                          *)

\* Two links that share a node, and the calls of one thread change.
LEMMA PairsStep ==
  ASSUME ThreadsOK, PatternsOK, PatternsOK', Pairs, NEW t \in Threads, UNCHANGED <<THREAD_NUM, observing_as>>,
         NEW s, NEW p, stack' = [stack EXCEPT ![t] = s], pc' = [pc EXCEPT ![t] = p],
         \A i \in Instances : visits[i] > 0 => visits'[i] > 0,
         MAX_GRAM > 1 => \A l, m \in observing_as :
           SharesNode(l, m) /\ Meets(stack[t], pc[t], l, m) => Meets(s, p, l, m) \/ visits'[{l, m}] > 0
  PROVE  Pairs'
<1>1. /\ stack'[t] = s /\ pc'[t] = p
      /\ \A u \in Threads : u # t => stack'[u] = stack[u] /\ pc'[u] = pc[u]
  BY DEF ThreadsOK
<1> SUFFICES ASSUME MAX_GRAM > 1, NEW l \in observing_as, NEW m \in observing_as, SharesNode(l, m)
             PROVE  \/ visits'[{l, m}] > 0
                    \/ \E u \in Threads : Meets(stack'[u], pc'[u], l, m) \/ Meets(stack'[u], pc'[u], m, l)
  BY DEF Pairs, Threads
<1>2. {l, m} \in Instances /\ {l, m} = {m, l} /\ SharesNode(m, l)
  BY DEF PatternsOK, Instances, SharesNode
<1>3. CASE visits[{l, m}] > 0
  BY <1>2, <1>3
<1>4. CASE \E u \in Threads : Meets(stack[u], pc[u], l, m) \/ Meets(stack[u], pc[u], m, l)
  <2>1. PICK u \in Threads : Meets(stack[u], pc[u], l, m) \/ Meets(stack[u], pc[u], m, l)
    BY <1>4
  <2>2. CASE u = t
    <3>1. CASE Meets(stack[t], pc[t], l, m)
      BY <3>1, <1>1
    <3>2. CASE Meets(stack[t], pc[t], m, l)
      <4>1. Meets(s, p, m, l) \/ visits'[{m, l}] > 0
        BY <3>2, <1>2
      <4> QED
        BY <4>1, <1>1, <1>2
    <3> QED
      BY <2>1, <2>2, <3>1, <3>2
  <2>3. CASE u # t
    BY <2>1, <2>3, <1>1
  <2> QED
    BY <2>2, <2>3
<1> QED
  BY <1>3, <1>4 DEF Pairs

\* The first call is as it was.
LEMMA MeetsSame ==
  ASSUME NEW st, NEW p, NEW s, NEW q, NEW l, NEW m, Meets(st, p, l, m), s # <<>>, s[1] = st[1],
         ~(Len(st) = 1 /\ p \in {"extract", "claim"})
  PROVE  Meets(s, q, l, m)
BY DEF Meets

----------------------------------------------------------------------------
(* Counts.                                                                  *)

\* The links copied are finitely many.
LEMMA CopiedFinite ==
  ASSUME PatternsOK
  PROVE  IsFiniteSet(observing_as) /\ \A S \in SUBSET observing_as : IsFiniteSet(S) /\ Cardinality(S) \in Nat
<1>1. IsFiniteSet(Links) /\ observing_as \subseteq Links
  BY FS_Interval, MinerAssumption DEF Links, PatternsOK
<1> QED
  BY <1>1, FS_Subset, FS_CardinalityType

\* A call that is not the lookup of a link's own pattern leaves the counts.
LEMMA CountsStep ==
  ASSUME ThreadsOK, PatternsOK, CountBound, CountExact, StartedHasNode, NEW t \in Threads,
         UNCHANGED <<THREAD_NUM, observing_as, index, curTask>>,
         NEW s, NEW p, stack' = [stack EXCEPT ![t] = s], pc' = [pc EXCEPT ![t] = p],
         stack[t] = <<>> => s = <<>>, Len(s) = 1 /\ p = "extract" <=> Len(stack[t]) = 1 /\ pc[t] = "extract",
         DOMAIN nodes' = DOMAIN nodes,
         \A n \in DOMAIN nodes : nodes'[n].key = nodes[n].key /\ nodes'[n].count = nodes[n].count
  PROVE  (CountBound /\ CountExact /\ StartedHasNode)'
<1>1. /\ stack'[t] = s /\ pc'[t] = p
      /\ \A u \in Threads : u # t => stack'[u] = stack[u] /\ pc'[u] = pc[u]
  BY DEF ThreadsOK
<1>2. Threads' = Threads
  BY DEF Threads
<1>3. Starting' = Starting
  <2>1. \A u \in Threads : Len(stack'[u]) = 1 /\ pc'[u] = "extract" <=> Len(stack[u]) = 1 /\ pc[u] = "extract"
    BY <1>1
  <2> QED
    BY <2>1, <1>2 DEF Starting
<1>4. \A k : Open(k)' \subseteq Open(k)
  <2>1. \A u \in Threads : stack'[u] # <<>> => stack[u] # <<>>
    BY <1>1
  <2> QED
    BY <2>1, <1>2 DEF Open
<1>5. CountBound'
  <2> SUFFICES ASSUME NEW k \in Keys, NEW n \in DOMAIN nodes, nodes[n].key = k
               PROVE  nodes'[n].count <= Cardinality(observing_as \ Open(k)')
    BY DEF CountBound
  <2> DEFINE A == observing_as \ Open(k)
             B == observing_as \ Open(k)'
  <2>1. A \subseteq B /\ B \subseteq observing_as
    BY <1>4
  <2>2. nodes[n].count <= Cardinality(A) /\ nodes[n].count \in Nat
    <3>1. nodes[n] \in HTreeNode
      BY DEF PatternsOK
    <3> QED
      BY <3>1 DEF CountBound, HTreeNode
  <2> HIDE DEF A, B
  <2>3. IsFiniteSet(B) /\ Cardinality(B) \in Nat /\ Cardinality(A) \in Nat
    BY <2>1, CopiedFinite
  <2>4. Cardinality(A) <= Cardinality(B)
    BY <2>1, <2>3, FS_Subset
  <2> QED
    BY <2>2, <2>3, <2>4 DEF B
<1>6. CountExact'
  <2>1. \A k : Counted(k)' = Counted(k)
    BY <1>3 DEF Counted
  <2> QED
    BY <2>1 DEF CountExact
<1>7. StartedHasNode'
  BY <1>3 DEF StartedHasNode
<1> QED
  BY <1>5, <1>6, <1>7

----------------------------------------------------------------------------
(* The steps inside a task.                                                 *)

\* A step of a thread inside its task that looks no pattern up.
LEMMA InsideStep ==
  ASSUME MinerInv, PatternsOK', MiningInv, NEW t \in Threads, stack[t] # <<>>,
         ~(Len(stack[t]) = 1 /\ pc[t] = "extract"),
         UNCHANGED <<THREAD_NUM, index, curTask, observing_as>>,
         NEW s, NEW p, stack' = [stack EXCEPT ![t] = s], pc' = [pc EXCEPT ![t] = p],
         Len(s) = 1 => p # "extract",
         TaskOK(t, observing_as, index[t], s, p, curTask[t]), ClaimsVisited',
         \A i \in Instances : visits[i] > 0 => visits'[i] > 0,
         MAX_GRAM > 1 => \A l, m \in observing_as :
           SharesNode(l, m) /\ Meets(stack[t], pc[t], l, m) => Meets(s, p, l, m) \/ visits'[{l, m}] > 0,
         DOMAIN nodes' = DOMAIN nodes,
         \A n \in DOMAIN nodes : nodes'[n].key = nodes[n].key /\ nodes'[n].count = nodes[n].count
  PROVE  MiningInv'
<1>0. ThreadsOK /\ PatternsOK
  BY DEF MinerInv, TypeOK
<1>1. /\ Tasks /\ PastCopied /\ CopiedPast /\ Pairs /\ CountBound /\ CountExact /\ StartedHasNode
  BY DEF MiningInv
<1>2. Tasks'
  <2>1. curTask' = [curTask EXCEPT ![t] = curTask[t]]
    BY <1>0 DEF ThreadsOK
  <2> QED
    BY <2>1, <1>0, <1>1, TasksInside
<1>3. (PastCopied /\ CopiedPast)'
  BY <1>1, CopiedStep
<1>4. Pairs'
  BY <1>0, <1>1, PairsStep
<1>5. (CountBound /\ CountExact /\ StartedHasNode)'
  BY <1>0, <1>1, CountsStep
<1> QED
  BY <1>2, <1>3, <1>4, <1>5 DEF MiningInv

\* The facts about the first call that a step inside a task needs.
LEMMA RootFacts ==
  ASSUME MinerInv, MiningInv, NEW t \in Threads, pc[t] \in {"extract", "fill", "relation", "push", "extend", "claim"}
  PROVE  /\ stack[t] # <<>> /\ stack[t] \in Seq(Frame) /\ Top(t) = stack[t][Len(stack[t])] /\ Top(t) \in Frame
         /\ Len(stack[t]) \in Nat \ {0} /\ DOMAIN stack[t] = 1 .. Len(stack[t])
         /\ stack[t][1] \in Frame /\ stack[t][1].gram = 1 /\ stack[t][1].links = {index[t] - 1}
         /\ \A k \in DOMAIN stack[t] : k > 1 => Cardinality(stack[t][k].links) > 1
         /\ Len(stack[t]) = 1 /\ pc[t] \in {"extract", "fill", "relation", "push"} => stack[t][1].cand = {}
         /\ Len(stack[t]) = 1 /\ pc[t] = "extract" => curTask[t] = {}
         /\ TaskOK(t, observing_as, index[t], stack[t], pc[t], curTask[t])
<1>1. ThreadsOK /\ stack[t] # <<>>
  BY TopFacts DEF MinerInv, TypeOK
<1>2. /\ stack[t] \in Seq(Frame) /\ Top(t) = stack[t][Len(stack[t])] /\ Top(t) \in Frame
      /\ Len(stack[t]) \in Nat \ {0}
  BY <1>1, StackFacts
<1>3. DOMAIN stack[t] = 1 .. Len(stack[t]) /\ stack[t][1] \in Frame
  BY <1>2
<1>4. TaskOK(t, observing_as, index[t], stack[t], pc[t], curTask[t])
  BY DEF MiningInv, Tasks
<1> QED
  BY <1>1, <1>2, <1>3, <1>4 DEF TaskOK

\* The claims stand as they were.
LEMMA ClaimsStep ==
  ASSUME ClaimsOK, ClaimsVisited, UNCHANGED all_thread_ExtractedLinks_pergram,
         \A i \in Instances : visits[i] > 0 => visits'[i] > 0
  PROVE  ClaimsVisited'
BY DEF ClaimsOK, ClaimsVisited

\* The pattern of a new node is set.
LEMMA FillNodeMining ==
  ASSUME MinerInv, MinerInv', MiningInv, NEW t \in Threads, FillNode(t)
  PROVE  MiningInv'
<1> DEFINE n == Top(t).node
           g == Cardinality(Top(t).links)
<1>0. PatternsOK /\ PatternsOK' /\ ClaimsOK /\ ThreadsOK
  BY DEF MinerInv, TypeOK
<1>1. /\ pc[t] = "fill" /\ pc' = [pc EXCEPT ![t] = "relation"] /\ nodes' = [nodes EXCEPT ![n].size = g]
      /\ UNCHANGED <<THREAD_NUM, index, stack, curTask, observing_as, claims, visits>>
  BY DEF FillNode, GoTo
<1>2. /\ stack[t] # <<>> /\ Len(stack[t]) \in Nat
      /\ Len(stack[t]) = 1 => stack[t][1].cand = {}
      /\ TaskOK(t, observing_as, index[t], stack[t], pc[t], curTask[t])
  BY <1>1, RootFacts
<1>3. stack' = [stack EXCEPT ![t] = stack[t]]
  BY <1>0, <1>1 DEF ThreadsOK
<1>4. TaskOK(t, observing_as, index[t], stack[t], "relation", curTask[t])
  BY <1>1, <1>2 DEF TaskOK
<1>5. ClaimsVisited'
  BY <1>0, <1>1, ClaimsStep DEF MiningInv, claims
<1>6. \A l, m : Meets(stack[t], pc[t], l, m) => Meets(stack[t], "relation", l, m)
  BY <1>1, <1>2, MeetsSame
<1>7. DOMAIN nodes' = DOMAIN nodes /\ \A m \in DOMAIN nodes : nodes'[m].key = nodes[m].key /\ nodes'[m].count = nodes[m].count
  <2>1. DOMAIN nodes' = DOMAIN nodes
    BY <1>1
  <2>2. ASSUME NEW m \in DOMAIN nodes PROVE nodes'[m].key = nodes[m].key /\ nodes'[m].count = nodes[m].count
    <3>1. nodes[m] \in HTreeNode
      BY <1>0 DEF PatternsOK
    <3>2. nodes'[m] = IF m = n THEN [nodes[m] EXCEPT !.size = g] ELSE nodes[m]
      BY <1>1
    <3> HIDE DEF n, g
    <3> QED
      BY <3>1, <3>2 DEF HTreeNode
  <2> QED
    BY <2>1, <2>2
<1>8. \A i \in Instances : visits[i] > 0 => visits'[i] > 0
  BY <1>1
<1> HIDE DEF n, g
<1> QED
  BY <1>0, <1>1, <1>2, <1>3, <1>4, <1>5, <1>6, <1>7, <1>8, InsideStep

\* A call returns, with nothing left to come from its link to another.
LEMMA ReturnMining ==
  ASSUME MinerInv, MinerInv', MiningInv, NEW t \in Threads, pc[t] \in {"relation", "push", "extend"}, Return(t),
         UNCHANGED <<THREAD_NUM, index, curTask, observing_as, claims, visits>>,
         Top(t).cand = {} \/ pc[t] # "extend", Top(t).ext = {} \/ Top(t).gram >= MAX_GRAM,
         DOMAIN nodes' = DOMAIN nodes,
         \A n \in DOMAIN nodes : nodes'[n].key = nodes[n].key /\ nodes'[n].count = nodes[n].count
  PROVE  MiningInv'
<1> DEFINE s == Below(t)
           p == IF Len(stack[t]) = 1 THEN "link" ELSE "extend"
           st == stack[t]
<1>0. PatternsOK /\ PatternsOK' /\ ClaimsOK /\ ThreadsOK
  BY DEF MinerInv, TypeOK
<1>1. /\ st # <<>> /\ Top(t) = st[Len(st)] /\ Len(st) \in Nat \ {0} /\ DOMAIN st = 1 .. Len(st) /\ st[1].gram = 1
      /\ \A k \in DOMAIN st : k > 1 => Cardinality(st[k].links) > 1
      /\ Len(st) = 1 /\ pc[t] # "extend" => st[1].cand = {}
      /\ TaskOK(t, observing_as, index[t], st, pc[t], curTask[t])
  BY RootFacts
<1>2. /\ s \in Seq(Frame) /\ Len(s) = Len(st) - 1
      /\ \A k \in DOMAIN s : k \in DOMAIN st /\ s[k] = st[k]
  BY <1>0, <1>1, StackFacts
<1>3. stack' = [stack EXCEPT ![t] = s] /\ pc' = [pc EXCEPT ![t] = p]
  BY DEF Return, GoTo
<1>4. ClaimsVisited' /\ \A i \in Instances : visits[i] > 0 => visits'[i] > 0
  BY <1>0, ClaimsStep DEF MiningInv, claims
<1> HIDE DEF s
<1>5. CASE Len(st) = 1
  <2>1. s = <<>> /\ p = "link"
    BY <1>2, <1>5, EmptySeq
  <2>2. TaskOK(t, observing_as, index[t], s, p, curTask[t])
    BY <1>1, <2>1 DEF TaskOK
  <2>3. ASSUME MAX_GRAM > 1, NEW l, NEW m PROVE ~Meets(st, pc[t], l, m)
    <3>1. st[1].cand = {} /\ st[1].ext = {}
      BY <1>1, <1>5, <2>3, MinerAssumption
    <3> QED
      BY <3>1 DEF Meets
  <2>4. Len(s) = 1 => p # "extract"
    BY <2>1
  <2> HIDE DEF p
  <2> QED
    BY <1>0, <1>1, <1>3, <1>4, <2>2, <2>3, <2>4, InsideStep
<1>6. CASE Len(st) # 1
  <2>1. s # <<>> /\ 1 \in DOMAIN s /\ s[1] = st[1] /\ p = "extend"
    <3>1. Len(s) >= 1
      <4> HIDE DEF st
      <4> QED
        BY <1>1, <1>2, <1>6
    <3> QED
      BY <3>1, <1>2, <1>6
  <2>2. \A k \in DOMAIN s : k > 1 => Cardinality(s[k].links) > 1
    BY <1>1, <1>2
  <2>3. TaskOK(t, observing_as, index[t], s, p, curTask[t])
    BY <1>1, <2>1, <2>2, TaskGoesOn
  <2>4. \A l, m : Meets(st, pc[t], l, m) => Meets(s, p, l, m)
    BY <1>1, <2>1, MeetsSame
  <2>5. Len(s) = 1 => p # "extract"
    BY <2>1
  <2> HIDE DEF p
  <2> QED
    BY <1>0, <1>1, <1>3, <1>4, <2>3, <2>4, <2>5, InsideStep
<1> QED
  BY <1>5, <1>6

\* There is nothing left to extend.
LEMMA EndCallMining ==
  ASSUME MinerInv, MinerInv', MiningInv, NEW t \in Threads, EndCall(t)
  PROVE  MiningInv'
BY ReturnMining DEF EndCall, mined

\* A call goes on, to the push of the relation or to the extension.
LEMMA OnwardMining ==
  ASSUME MinerInv, MinerInv', MiningInv, NEW t \in Threads, pc[t] \in {"relation", "push"},
         NEW p \in {"push", "extend"}, GoTo(t, p), UNCHANGED stack,
         UNCHANGED <<THREAD_NUM, index, curTask, observing_as, claims, visits>>,
         DOMAIN nodes' = DOMAIN nodes,
         \A n \in DOMAIN nodes : nodes'[n].key = nodes[n].key /\ nodes'[n].count = nodes[n].count
  PROVE  MiningInv'
<1> DEFINE st == stack[t]
<1>0. PatternsOK /\ PatternsOK' /\ ClaimsOK /\ ThreadsOK
  BY DEF MinerInv, TypeOK
<1>1. st # <<>> /\ TaskOK(t, observing_as, index[t], st, pc[t], curTask[t])
  BY RootFacts
<1>2. stack' = [stack EXCEPT ![t] = st] /\ pc' = [pc EXCEPT ![t] = p]
  BY <1>0 DEF ThreadsOK, GoTo
<1>3. TaskOK(t, observing_as, index[t], st, p, curTask[t])
  BY <1>1 DEF TaskOK
<1>4. ClaimsVisited' /\ \A i \in Instances : visits[i] > 0 => visits'[i] > 0
  BY <1>0, ClaimsStep DEF MiningInv, claims
<1>5. \A l, m : Meets(st, pc[t], l, m) => Meets(st, p, l, m)
  BY <1>1, MeetsSame
<1> QED
  BY <1>0, <1>1, <1>2, <1>3, <1>4, <1>5, InsideStep

\* The relation to the parent is looked for.
LEMMA CheckRelationMining ==
  ASSUME MinerInv, MinerInv', MiningInv, NEW t \in Threads, CheckRelation(t)
  PROVE  MiningInv'
<1>1. /\ pc[t] = "relation"
      /\ UNCHANGED <<THREAD_NUM, index, curTask, observing_as, claims, visits, nodes>>
      /\ \/ Return(t) /\ (Top(t).ext = {} \/ Top(t).gram >= MAX_GRAM)
         \/ GoTo(t, "extend") /\ UNCHANGED stack
         \/ GoTo(t, "push") /\ UNCHANGED stack
  BY DEF CheckRelation, AfterRelation, mined
<1>2. CASE Return(t) /\ (Top(t).ext = {} \/ Top(t).gram >= MAX_GRAM)
  BY <1>1, <1>2, ReturnMining
<1>3. CASE GoTo(t, "extend") /\ UNCHANGED stack
  BY <1>1, <1>3, OnwardMining
<1>4. CASE GoTo(t, "push") /\ UNCHANGED stack
  BY <1>1, <1>4, OnwardMining
<1> QED
  BY <1>1, <1>2, <1>3, <1>4

\* The relation to the parent is noted.
LEMMA AddSuperPatternMining ==
  ASSUME MinerInv, MinerInv', MiningInv, NEW t \in Threads, AddSuperPattern(t)
  PROVE  MiningInv'
<1>1. /\ pc[t] = "push"
      /\ UNCHANGED <<THREAD_NUM, index, curTask, observing_as, claims, visits>>
      /\ nodes' = [nodes EXCEPT ![Top(t).parent].superPatternRelations = Append(@, Top(t).node)]
      /\ \/ Return(t) /\ (Top(t).ext = {} \/ Top(t).gram >= MAX_GRAM)
         \/ GoTo(t, "extend") /\ UNCHANGED stack
  BY DEF AddSuperPattern, AfterRelation
<1>2. Top(t) \in Frame /\ FrameInv(nodes, Top(t)) /\ nodes \in Seq(HTreeNode)
  BY <1>1, TopFacts DEF MinerInv, TypeOK, PatternsOK
<1>3. Top(t).parent \in 0 .. Len(nodes) /\ Top(t).node \in Nat
  BY <1>2 DEF FrameInv, Frame
<1>4. /\ DOMAIN nodes' = DOMAIN nodes
      /\ \A n \in DOMAIN nodes : nodes'[n].key = nodes[n].key /\ nodes'[n].count = nodes[n].count
  BY <1>1, <1>2, <1>3, RelationPushed DEF SameNodes
<1>5. CASE Return(t) /\ (Top(t).ext = {} \/ Top(t).gram >= MAX_GRAM)
  BY <1>1, <1>4, <1>5, ReturnMining
<1>6. CASE GoTo(t, "extend") /\ UNCHANGED stack
  BY <1>1, <1>4, <1>6, OnwardMining
<1> QED
  BY <1>1, <1>5, <1>6

\* The top call is replaced by one on the same links.
LEMMA TopLike ==
  ASSUME MinerInv, MiningInv, NEW t \in Threads, pc[t] \in {"extract", "extend"}, NEW f \in Frame,
         f.links = Top(t).links, f.gram = Top(t).gram, NEW p \in {"fill", "relation", "push", "extend", "claim"}, NEW task,
         pc[t] = "extract" => f.cand = Top(t).cand,
         pc[t] = "extend" => p \in {"extend", "claim"}
  PROVE  LET s == Append(Below(t), f)
         IN  /\ s \in Seq(Frame) /\ s # <<>> /\ Len(s) = Len(stack[t])
             /\ IF Len(stack[t]) = 1 THEN s[1] = f ELSE s[1] = stack[t][1]
             /\ \A k \in DOMAIN s : k > 1 => Cardinality(s[k].links) > 1
             /\ TaskOK(t, observing_as, index[t], s, p, task)
<1> DEFINE s == Append(Below(t), f)
           st == stack[t]
           n == Len(st)
<1>0. ThreadsOK
  BY DEF MinerInv, TypeOK
<1>1. /\ st # <<>> /\ Top(t) = st[n] /\ n \in Nat \ {0} /\ DOMAIN st = 1 .. n
      /\ \A k \in DOMAIN st : k > 1 => Cardinality(st[k].links) > 1
      /\ n = 1 /\ pc[t] = "extract" => st[1].cand = {}
      /\ TaskOK(t, observing_as, index[t], st, pc[t], curTask[t])
  BY RootFacts
<1>2. /\ s \in Seq(Frame) /\ s # <<>> /\ Len(s) = n /\ s[n] = f /\ DOMAIN s = 1 .. n
      /\ \A k \in 1 .. n - 1 : s[k] = st[k]
  BY <1>0, <1>1, SetTopFacts
<1> HIDE DEF s
<1>3. IF n = 1 THEN s[1] = f ELSE s[1] = st[1]
  <2> HIDE DEF n
  <2>1. n # 1 => 1 \in 1 .. n - 1
    BY <1>1
  <2> QED
    BY <2>1, <1>2
<1>4. ASSUME NEW k \in DOMAIN s, k > 1 PROVE Cardinality(s[k].links) > 1
  <2>1. CASE k = n
    BY <2>1, <1>1, <1>2, <1>4
  <2>2. CASE k # n
    <3>1. k \in 1 .. n - 1 /\ k \in DOMAIN st
      BY <2>2, <1>1, <1>2
    <3> QED
      BY <3>1, <1>1, <1>2, <1>4
  <2> QED
    BY <2>1, <2>2
<1>5. s[1].links = st[1].links /\ s[1].gram = st[1].gram
  BY <1>1, <1>3
<1>6. n = 1 /\ p \in {"extract", "fill", "relation", "push"} => s[1].cand = {}
  BY <1>1, <1>3
<1>7. TaskOK(t, observing_as, index[t], s, p, task)
  BY <1>1, <1>2, <1>4, <1>5, <1>6, TaskGoesOn
<1> QED
  BY <1>2, <1>3, <1>4, <1>7 DEF s

\* The links at the next node of the instance.
LEMMA NextNodeMining ==
  ASSUME MinerInv, MinerInv', MiningInv, NEW t \in Threads, NextNode(t)
  PROVE  MiningInv'
<1> DEFINE f == Top(t)
           st == stack[t]
<1>0. PatternsOK /\ PatternsOK' /\ ClaimsOK /\ ThreadsOK
  BY DEF MinerInv, TypeOK
<1>1. /\ pc[t] = "extend" /\ f.cand = {}
      /\ UNCHANGED <<THREAD_NUM, index, pc, curTask, observing_as, nodes, claims, visits>>
  BY DEF NextNode, mined
<1>2. PICK x \in f.ext :
        stack' = [stack EXCEPT ![t] = Append(Below(t), [f EXCEPT !.ext = @ \ {x},
                     !.cand = {l \in observing_as : x \in NodesOf[l]} \ f.links])]
  BY DEF NextNode, SetTop
<1>3. /\ st # <<>> /\ f = st[Len(st)] /\ f \in Frame /\ Len(st) \in Nat \ {0}
  BY <1>1, RootFacts
<1> HIDE DEF f
<1> DEFINE c == {l \in observing_as : x \in NodesOf[l]} \ f.links
           e == f.ext \ {x}
           g == [f EXCEPT !.ext = e, !.cand = c]
           s == Append(Below(t), g)
<1>4. c \subseteq Links /\ e \subseteq UNION Range(NodesOf)
  BY <1>0, <1>3 DEF PatternsOK, Frame
<1>5. stack' = [stack EXCEPT ![t] = s]
  BY <1>2
<1> HIDE DEF c, e
<1>6. g \in Frame /\ g.links = f.links /\ g.gram = f.gram /\ g.cand = c /\ g.ext = e
  BY <1>3, <1>4 DEF Frame
<1> HIDE DEF g
<1>7. /\ s # <<>> /\ Len(s) = Len(st) /\ IF Len(st) = 1 THEN s[1] = g ELSE s[1] = st[1]
      /\ TaskOK(t, observing_as, index[t], s, "extend", curTask[t])
  BY <1>1, <1>6, TopLike DEF f
<1> HIDE DEF s
<1>8. ASSUME NEW l \in observing_as, NEW m \in observing_as, SharesNode(l, m), Meets(st, pc[t], l, m)
      PROVE  Meets(s, "extend", l, m)
  <2>1. CASE Len(st) = 1
    <3>1. /\ s[1] = g /\ st[1] = f /\ f.links = {l} /\ g.links = {l} /\ l # m
          /\ NodesOf[l] \cap NodesOf[m] \cap f.ext # {}
      BY <1>1, <1>3, <1>6, <1>7, <1>8, <2>1 DEF Meets, SharesNode
    <3>2. PICK y \in NodesOf[l] \cap NodesOf[m] : y \in f.ext
      BY <3>1
    <3>3. CASE y = x
      BY <3>1, <3>2, <3>3, <1>6, <1>7 DEF Meets, c
    <3>4. CASE y # x
      BY <3>1, <3>2, <3>4, <1>6, <1>7 DEF Meets, e
    <3> QED
      BY <3>3, <3>4
  <2>2. CASE Len(st) # 1
    BY <2>2, <1>1, <1>7, <1>8, MeetsSame
  <2> QED
    BY <2>1, <2>2
<1>9. pc' = [pc EXCEPT ![t] = "extend"]
  BY <1>0, <1>1 DEF ThreadsOK
<1>10. ClaimsVisited' /\ \A i \in Instances : visits[i] > 0 => visits'[i] > 0
  BY <1>0, <1>1, ClaimsStep DEF MiningInv, claims
<1> QED
  BY <1>0, <1>1, <1>3, <1>5, <1>7, <1>8, <1>9, <1>10, InsideStep

\* A thread looks at a link that shares a node with its instance.
LEMMA TryLinkMining ==
  ASSUME MinerInv, MinerInv', MiningInv, NEW t \in Threads, TryLink(t)
  PROVE  MiningInv'
<1> DEFINE f == Top(t)
           st == stack[t]
<1>0. PatternsOK /\ PatternsOK' /\ ClaimsOK /\ ThreadsOK
  BY DEF MinerInv, TypeOK
<1>1. /\ pc[t] = "extend"
      /\ UNCHANGED <<THREAD_NUM, index, curTask, observing_as, nodes, claims>>
  BY DEF TryLink, mined
<1>2. PICK a \in f.cand :
        \/ Call(t, f.links \cup {a}, f.node, Append(Below(t), [f EXCEPT !.cand = @ \ {a}]))
        \/ /\ SetTop(t, [f EXCEPT !.cand = @ \ {a}]) /\ UNCHANGED <<pc, visits>>
           /\ f.links \cup {a} \in all_thread_ExtractedLinks_pergram[f.gram + 1]
        \/ SetTop(t, [[f EXCEPT !.cand = @ \ {a}] EXCEPT !.next = a]) /\ GoTo(t, "claim") /\ UNCHANGED visits
  BY DEF TryLink
<1>3. /\ st # <<>> /\ f = st[Len(st)] /\ f \in Frame /\ Len(st) \in Nat \ {0}
      /\ FrameInv(nodes, f) /\ FrameDone(nodes, f)
  BY <1>1, RootFacts, TopFacts
<1> HIDE DEF f
<1> DEFINE c == f.cand \ {a}
           rest == [f EXCEPT !.cand = c]
           claim == [rest EXCEPT !.next = a]
           links == f.links \cup {a}
<1>4. a \in Links \ f.links /\ a \in 0 .. LinkNum /\ c \subseteq Links /\ f.links \in Instances
  <2>1. f.cand \subseteq Links /\ f.cand \cap f.links = {} /\ f.links \in Instances
    BY <1>3 DEF Frame, FrameInv
  <2>2. Links \subseteq 0 .. LinkNum
    BY MinerAssumption DEF Links
  <2> QED
    BY <2>1, <2>2
<1>5. links \in Instances /\ Cardinality(links) > 1
  <2>1. links \in Instances /\ Cardinality(links) = Cardinality(f.links) + 1
    BY <1>4, AddLink
  <2>2. Cardinality(f.links) \in 1 .. LinkNum /\ LinkNum \in Nat
    BY <1>4, InstanceFacts, MinerAssumption
  <2> QED
    BY <2>1, <2>2
<1> HIDE DEF c
<1>6. rest \in Frame /\ rest.links = f.links /\ rest.gram = f.gram /\ rest.cand = c /\ rest.ext = f.ext
  BY <1>3, <1>4 DEF Frame
<1> HIDE DEF rest
<1>7. /\ claim \in Frame /\ claim.links = f.links /\ claim.gram = f.gram /\ claim.cand = c /\ claim.ext = f.ext
      /\ claim.next = a
  BY <1>4, <1>6 DEF Frame
<1> HIDE DEF claim
<1>8. ASSUME NEW l, NEW m, Meets(st, pc[t], l, m), Len(st) = 1
      PROVE  /\ st[1] = f /\ f.links = {l}
             /\ m = a => links = {l, m}
             /\ m # a => NodesOf[l] \cap NodesOf[m] \cap f.ext # {} \/ m \in c
             /\ NodesOf[l] \cap NodesOf[m] \cap f.ext # {} \/ m \in f.cand
  BY <1>1, <1>3, <1>8 DEF Meets, c
<1>9. CASE Call(t, links, f.node, Append(Below(t), [f EXCEPT !.cand = @ \ {a}]))
  <2> DEFINE b == Append(Below(t), rest)
             n == NewCall(links, f.node, IF f.node = 0 THEN 1 ELSE nodes[f.node].size + 1)
             s == Append(b, n)
  <2>1. /\ stack' = [stack EXCEPT ![t] = s] /\ pc' = [pc EXCEPT ![t] = "extract"]
        /\ visits' = [visits EXCEPT ![links] = @ + 1]
    BY <1>9 DEF Call, GoTo, NewCall, rest, c
  <2>2. /\ b \in Seq(Frame) /\ b # <<>> /\ Len(b) = Len(st) /\ IF Len(st) = 1 THEN b[1] = rest ELSE b[1] = st[1]
        /\ \A k \in DOMAIN b : k > 1 => Cardinality(b[k].links) > 1
        /\ TaskOK(t, observing_as, index[t], b, "extend", curTask[t])
    BY <1>1, <1>6, TopLike DEF f
  <2>3. n \in Frame /\ n.links = links
    BY <1>3, <1>4, Extended DEF NewCall
  <2> HIDE DEF b, n
  <2>4. /\ s \in Seq(Frame) /\ s # <<>> /\ Len(s) = Len(b) + 1 /\ s[Len(s)] = n /\ DOMAIN s = 1 .. Len(b) + 1
        /\ \A k \in 1 .. Len(b) : s[k] = b[k]
    BY <2>2, <2>3, PushFacts
  <2> HIDE DEF s
  <2>5. Len(b) \in Nat \ {0} /\ DOMAIN b = 1 .. Len(b) /\ s[1] = b[1] /\ Len(s) # 1
    <3>1. Len(b) \in Nat \ {0} /\ DOMAIN b = 1 .. Len(b)
      BY <2>2
    <3>2. 1 \in 1 .. Len(b)
      BY <3>1
    <3> QED
      BY <3>1, <3>2, <2>4
  <2>6. ASSUME NEW k \in DOMAIN s, k > 1 PROVE Cardinality(s[k].links) > 1
    <3>1. CASE k = Len(b) + 1
      BY <3>1, <2>3, <2>4, <1>5
    <3>2. CASE k # Len(b) + 1
      <4>1. k \in 1 .. Len(b)
        BY <3>2, <2>4, <2>5
      <4> QED
        BY <4>1, <2>2, <2>4, <2>5, <2>6
    <3> QED
      BY <3>1, <3>2
  <2>7. TaskOK(t, observing_as, index[t], s, "extract", curTask[t])
    BY <2>2, <2>4, <2>5, <2>6, TaskGoesOn
  <2>8. visits'[links] > 0 /\ \A i \in Instances : visits[i] > 0 => visits'[i] > 0
    <3> HIDE DEF links
    <3> QED
      BY <2>1, <1>0, <1>5 DEF PatternsOK
  <2>9. ClaimsVisited'
    BY <2>8, <1>0, <1>1, ClaimsStep DEF MiningInv, claims
  <2>10. ASSUME NEW l, NEW m, Meets(st, pc[t], l, m) PROVE Meets(s, "extract", l, m) \/ visits'[{l, m}] > 0
    <3>1. CASE Len(st) = 1
      <4>1. s[1] = rest
        BY <3>1, <2>2, <2>5
      <4>2. CASE m = a
        BY <4>2, <3>1, <2>8, <2>10, <1>8
      <4>3. CASE m # a
        <5>1. /\ s # <<>> /\ s[1].links = {l}
              /\ NodesOf[l] \cap NodesOf[m] \cap s[1].ext # {} \/ m \in s[1].cand
          BY <4>1, <4>3, <3>1, <2>4, <2>10, <1>6, <1>8
        <5> QED
          BY <5>1 DEF Meets
      <4> QED
        BY <4>2, <4>3
    <3>2. CASE Len(st) # 1
      BY <3>2, <2>2, <2>4, <2>5, <2>10, <1>1, MeetsSame
    <3> QED
      BY <3>1, <3>2
  <2> QED
    BY <1>0, <1>1, <1>3, <2>1, <2>5, <2>7, <2>8, <2>9, <2>10, InsideStep
<1>10. CASE /\ SetTop(t, [f EXCEPT !.cand = @ \ {a}]) /\ UNCHANGED <<pc, visits>>
            /\ links \in all_thread_ExtractedLinks_pergram[f.gram + 1]
  <2> DEFINE s == Append(Below(t), rest)
  <2>1. stack' = [stack EXCEPT ![t] = s] /\ pc' = [pc EXCEPT ![t] = "extend"]
    BY <1>0, <1>1, <1>10 DEF SetTop, rest, c, ThreadsOK
  <2>2. /\ s # <<>> /\ Len(s) = Len(st) /\ IF Len(st) = 1 THEN s[1] = rest ELSE s[1] = st[1]
        /\ TaskOK(t, observing_as, index[t], s, "extend", curTask[t])
    BY <1>1, <1>6, TopLike DEF f
  <2> HIDE DEF s
  <2>3. visits[links] > 0
    <3>1. f.gram + 1 \in 1 .. LinkNum + 1
      BY <1>3, MinerAssumption DEF Frame
    <3> QED
      BY <3>1, <1>10 DEF MiningInv, ClaimsVisited
  <2>4. ASSUME NEW l, NEW m, Meets(st, pc[t], l, m) PROVE Meets(s, "extend", l, m) \/ visits'[{l, m}] > 0
    <3>1. CASE Len(st) = 1
      <4>1. CASE m = a
        BY <4>1, <3>1, <2>3, <2>4, <1>8, <1>10
      <4>2. CASE m # a
        BY <4>2, <3>1, <2>2, <2>4, <1>6, <1>8 DEF Meets
      <4> QED
        BY <4>1, <4>2
    <3>2. CASE Len(st) # 1
      BY <3>2, <2>2, <2>4, <1>1, MeetsSame
    <3> QED
      BY <3>1, <3>2
  <2>5. ClaimsVisited' /\ \A i \in Instances : visits[i] > 0 => visits'[i] > 0
    BY <1>0, <1>1, <1>10, ClaimsStep DEF MiningInv, claims
  <2> QED
    BY <1>0, <1>1, <1>3, <2>1, <2>2, <2>4, <2>5, InsideStep
<1>11. CASE SetTop(t, [[f EXCEPT !.cand = @ \ {a}] EXCEPT !.next = a]) /\ GoTo(t, "claim") /\ UNCHANGED visits
  <2> DEFINE s == Append(Below(t), claim)
  <2>1. stack' = [stack EXCEPT ![t] = s] /\ pc' = [pc EXCEPT ![t] = "claim"]
    BY <1>11 DEF SetTop, GoTo, claim, rest, c
  <2>2. /\ s # <<>> /\ Len(s) = Len(st) /\ IF Len(st) = 1 THEN s[1] = claim ELSE s[1] = st[1]
        /\ TaskOK(t, observing_as, index[t], s, "claim", curTask[t])
    BY <1>1, <1>7, TopLike DEF f
  <2> HIDE DEF s
  <2>3. ASSUME NEW l, NEW m, Meets(st, pc[t], l, m) PROVE Meets(s, "claim", l, m)
    <3>1. CASE Len(st) = 1
      <4>1. s[1] = claim /\ s # <<>> /\ Len(s) = 1
        BY <3>1, <2>2
      <4>2. CASE m = a
        BY <4>1, <4>2, <3>1, <2>3, <1>7, <1>8 DEF Meets
      <4>3. CASE m # a
        BY <4>1, <4>3, <3>1, <2>3, <1>7, <1>8 DEF Meets
      <4> QED
        BY <4>2, <4>3
    <3>2. CASE Len(st) # 1
      BY <3>2, <2>2, <2>3, <1>1, MeetsSame
    <3> QED
      BY <3>1, <3>2
  <2>4. ClaimsVisited' /\ \A i \in Instances : visits[i] > 0 => visits'[i] > 0
    BY <1>0, <1>1, <1>11, ClaimsStep DEF MiningInv, claims
  <2> QED
    BY <1>0, <1>1, <1>3, <2>1, <2>2, <2>3, <2>4, InsideStep
<1> QED
  BY <1>2, <1>9, <1>10, <1>11

\* A thread claims an instance and goes on to it.
LEMMA AddClaimMining ==
  ASSUME MinerInv, MinerInv', MiningInv, NEW t \in Threads, AddClaim(t)
  PROVE  MiningInv'
<1> DEFINE f == Top(t)
           st == stack[t]
           links == f.links \cup {f.next}
           g == f.gram + 1
           n == NewCall(links, f.node, IF f.node = 0 THEN 1 ELSE nodes[f.node].size + 1)
           s == Append(st, n)
<1>0. PatternsOK /\ PatternsOK' /\ ClaimsOK /\ ThreadsOK /\ ClaimsVisited
  BY DEF MinerInv, TypeOK, MiningInv
<1>1. /\ pc[t] = "claim" /\ Call(t, links, f.node, st)
      /\ UNCHANGED <<THREAD_NUM, index, curTask, observing_as, nodes>>
      /\ \E out : all_thread_ExtractedLinks_pergram' =
                    [all_thread_ExtractedLinks_pergram EXCEPT ![g] = (@ \cup {links}) \ out]
  BY DEF AddClaim, mined
<1>2. /\ stack' = [stack EXCEPT ![t] = s] /\ pc' = [pc EXCEPT ![t] = "extract"]
      /\ visits' = [visits EXCEPT ![links] = @ + 1]
  BY <1>1 DEF Call, GoTo, NewCall
<1>3. /\ st # <<>> /\ st \in Seq(Frame) /\ f = st[Len(st)] /\ f \in Frame /\ Len(st) \in Nat \ {0}
      /\ DOMAIN st = 1 .. Len(st)
      /\ \A k \in DOMAIN st : k > 1 => Cardinality(st[k].links) > 1
      /\ TaskOK(t, observing_as, index[t], st, pc[t], curTask[t])
  BY <1>1, RootFacts
<1>4. FrameDone(nodes, f) /\ f.next \in Links \ f.links /\ f.links \in Instances
  BY <1>1, <1>3, TopFacts DEF Frame
<1>5. n \in Frame /\ n.links = links /\ links \in Instances
  BY <1>3, <1>4, Extended DEF NewCall
<1>6. Cardinality(links) > 1
  <2>1. Cardinality(links) = Cardinality(f.links) + 1
    BY <1>4, AddLink
  <2>2. Cardinality(f.links) \in 1 .. LinkNum /\ LinkNum \in Nat
    BY <1>4, InstanceFacts, MinerAssumption
  <2> QED
    BY <2>1, <2>2
<1> HIDE DEF f, links, n
<1>7. /\ s \in Seq(Frame) /\ s # <<>> /\ Len(s) = Len(st) + 1 /\ s[Len(s)] = n /\ DOMAIN s = 1 .. Len(st) + 1
      /\ \A k \in 1 .. Len(st) : s[k] = st[k]
  BY <1>3, <1>5, PushFacts
<1> HIDE DEF s
<1>8. s[1] = st[1] /\ Len(s) # 1
  <2>1. 1 \in 1 .. Len(st)
    BY <1>3
  <2> QED
    BY <2>1, <1>3, <1>7
<1>9. ASSUME NEW k \in DOMAIN s, k > 1 PROVE Cardinality(s[k].links) > 1
  <2>1. CASE k = Len(st) + 1
    BY <2>1, <1>5, <1>6, <1>7
  <2>2. CASE k # Len(st) + 1
    <3>1. k \in 1 .. Len(st)
      BY <2>2, <1>3, <1>7
    <3> QED
      BY <3>1, <1>3, <1>7, <1>9
  <2> QED
    BY <2>1, <2>2
<1>10. TaskOK(t, observing_as, index[t], s, "extract", curTask[t])
  BY <1>3, <1>7, <1>8, <1>9, TaskGoesOn
<1>11. visits'[links] > 0 /\ \A i \in Instances : visits[i] > 0 => visits'[i] > 0
  BY <1>0, <1>2, <1>5 DEF PatternsOK
<1>12. ClaimsVisited'
  <2> SUFFICES ASSUME NEW k \in 1 .. LinkNum + 1, NEW i \in all_thread_ExtractedLinks_pergram'[k]
               PROVE  visits'[i] > 0
    BY DEF ClaimsVisited
  <2>1. i = links \/ i \in all_thread_ExtractedLinks_pergram[k]
    BY <1>0, <1>1 DEF ClaimsOK
  <2>2. i \in all_thread_ExtractedLinks_pergram[k] => i \in Instances /\ visits[i] > 0
    BY <1>0 DEF ClaimsOK, ClaimsVisited
  <2> QED
    BY <2>1, <2>2, <1>11
<1>13. ASSUME NEW l, NEW m, Meets(st, pc[t], l, m) PROVE Meets(s, "extract", l, m) \/ visits'[{l, m}] > 0
  <2>1. CASE Len(st) = 1 /\ st[1].next = m
    <3>1. links = {l, m}
      BY <2>1, <1>3, <1>13 DEF Meets, links
    <3> QED
      BY <3>1, <1>11
  <2>2. CASE ~(Len(st) = 1 /\ st[1].next = m)
    BY <2>2, <1>1, <1>7, <1>8, <1>13 DEF Meets
  <2> QED
    BY <2>1, <2>2
<1> QED
  BY <1>0, <1>1, <1>2, <1>3, <1>8, <1>10, <1>11, <1>12, <1>13, InsideStep
----------------------------------------------------------------------------
(* Looking a pattern up.                                                    *)

\* The link of a task is not that of another.
LEMMA OwnLink ==
  ASSUME MinerInv, MiningInv, NEW t \in Threads, NEW u \in Threads, stack[t] # <<>>, stack[u] # <<>>,
         index[t] - 1 = index[u] - 1
  PROVE  t = u
<1>1. THREAD_NUM \in 1 .. MaxThreads
  BY DEF MinerInv, TypeOK, ThreadsOK
<1>2. /\ index[t] - 1 \in StartIndex(t) .. EndIndex(t) - 1
      /\ index[u] - 1 \in StartIndex(u) .. EndIndex(u) - 1
  BY DEF MiningInv, Tasks, TaskOK
<1> QED
  BY <1>1, <1>2, RangesDisjoint

\* A pattern that is new in the task is counted once, for the link of the task.
LEMMA CountedStep ==
  ASSUME MinerInv, MiningInv, NEW t \in Threads, pc[t] = "extract", NEW key, key = PatternOf(Top(t).links),
         key \notin curTask[t], UNCHANGED <<THREAD_NUM, observing_as, index>>,
         NEW s, NEW p, stack' = [stack EXCEPT ![t] = s], pc' = [pc EXCEPT ![t] = p],
         s # <<>>, p # "extract", curTask' = [curTask EXCEPT ![t] = @ \cup {key}],
         NEW n \in DOMAIN nodes', DOMAIN nodes \subseteq DOMAIN nodes', nodes'[n].key = key,
         IF n \in DOMAIN nodes THEN nodes[n].key = key /\ nodes'[n].count = nodes[n].count + 1
         ELSE nodes'[n].count = 1 /\ NodeOf(key) = {},
         \A m \in DOMAIN nodes' : m # n => m \in DOMAIN nodes /\ nodes'[m] = nodes[m],
         \A m \in DOMAIN nodes : nodes'[m].key = nodes[m].key
  PROVE  (CountBound /\ CountExact /\ StartedHasNode)'
<1> DEFINE x == index[t] - 1
           st == stack[t]
<1>0. ThreadsOK /\ PatternsOK /\ CountBound /\ CountExact /\ StartedHasNode /\ KeysUnique
  BY DEF MinerInv, TypeOK, MiningInv, NodesInv
<1>1. /\ st # <<>> /\ Len(st) \in Nat \ {0} /\ DOMAIN st = 1 .. Len(st) /\ Top(t) = st[Len(st)] /\ Top(t) \in Frame
      /\ st[1].links = {x} /\ (\A k \in DOMAIN st : k > 1 => Cardinality(st[k].links) > 1)
      /\ TaskOK(t, observing_as, index[t], st, pc[t], curTask[t])
  BY RootFacts
<1>2. x \in observing_as /\ x \in Links
  BY <1>0, <1>1 DEF TaskOK, PatternsOK
<1>3. /\ stack'[t] = s /\ pc'[t] = p /\ curTask'[t] = curTask[t] \cup {key}
      /\ \A u \in Threads : u # t => stack'[u] = stack[u] /\ pc'[u] = pc[u] /\ curTask'[u] = curTask[u]
  BY <1>0 DEF ThreadsOK
<1>4. Threads' = Threads
  BY DEF Threads
<1>5. \A u \in Threads : u # t /\ stack[u] # <<>> => index[u] - 1 # x
  BY <1>1, OwnLink
<1>6. \A k : k # key => Open(k)' = Open(k)
  <2> TAKE k
  <2> SUFFICES ASSUME k # key PROVE Open(k)' = Open(k)
    OBVIOUS
  <2>1. \A u \in Threads : stack'[u] # <<>> /\ k \notin curTask'[u] <=> stack[u] # <<>> /\ k \notin curTask[u]
    BY <1>1, <1>3
  <2> QED
    BY <2>1, <1>4 DEF Open
<1>7. x \in Open(key) /\ Open(key)' = Open(key) \ {x}
  <2>1. x \in Open(key)
    BY <1>1, <1>2 DEF Open
  <2>2. ASSUME NEW l \in observing_as
        PROVE  l \in Open(key)' <=> l \in Open(key) /\ l # x
    <3>1. l \in Open(key)' <=> \E u \in Threads : u # t /\ l = index[u] - 1 /\ stack[u] # <<>> /\ key \notin curTask[u]
      BY <1>3, <1>4 DEF Open
    <3>2. l \in Open(key) <=> \E u \in Threads : l = index[u] - 1 /\ stack[u] # <<>> /\ key \notin curTask[u]
      BY DEF Open
    <3> QED
      BY <3>1, <3>2, <1>5
  <2> QED
    BY <2>1, <2>2 DEF Open
<1> DEFINE A == observing_as \ Open(key)
           B == observing_as \ Open(key)'
<1>8. Cardinality(B) = Cardinality(A) + 1 /\ Cardinality(A) \in Nat /\ IsFiniteSet(A)
  <2>1. B = A \cup {x} /\ x \notin A /\ A \subseteq observing_as
    BY <1>2, <1>7
  <2> HIDE DEF A, B, x
  <2>2. IsFiniteSet(A) /\ Cardinality(A) \in Nat
    BY <2>1, <1>0, CopiedFinite
  <2> QED
    BY <2>1, <2>2, FS_AddElement
<1> HIDE DEF B, A, x, st
<1>9. CountBound'
  <2> SUFFICES ASSUME NEW k \in Keys, NEW m \in DOMAIN nodes', nodes'[m].key = k
               PROVE  nodes'[m].count <= Cardinality(observing_as \ Open(k)')
    BY DEF CountBound
  <2>1. CASE m # n
    <3>1. nodes'[m] = nodes[m] /\ m \in DOMAIN nodes
      BY <2>1
    <3>2. nodes[m].key # key
      <4>1. CASE n \in DOMAIN nodes
        BY <4>1, <3>1, <2>1, <1>0 DEF KeysUnique
      <4>2. CASE n \notin DOMAIN nodes
        BY <4>2, <3>1 DEF NodeOf
      <4> QED
        BY <4>1, <4>2
    <3>3. nodes[m].count <= Cardinality(observing_as \ Open(k))
      BY <3>1, <1>0 DEF CountBound
    <3> QED
      BY <3>1, <3>2, <3>3, <1>6
  <2>2. CASE m = n
    <3>1. CASE n \in DOMAIN nodes
      <4>1. nodes[n].count <= Cardinality(A) /\ nodes'[n].count = nodes[n].count + 1
        BY <3>1, <2>2, <1>0 DEF CountBound, A
      <4>2. nodes[n] \in HTreeNode
        BY <3>1, <1>0 DEF PatternsOK
      <4>3. nodes[n].count \in Nat
        BY <4>2 DEF HTreeNode
      <4>4. nodes'[n].count <= Cardinality(B)
        BY <4>1, <4>3, <1>8
      <4> QED
        BY <4>4, <2>2 DEF B
    <3>2. CASE n \notin DOMAIN nodes
      <4>1. nodes'[n].count <= Cardinality(B)
        BY <3>2, <1>8
      <4> QED
        BY <4>1, <2>2 DEF B
    <3> QED
      BY <3>1, <3>2
  <2> QED
    BY <2>1, <2>2
<1>10. CASE Len(st) = 1
  <2>1. key = PatternOf({x})
    BY <1>1, <1>10
  <2>2. x \in Starting /\ Starting' = Starting \ {x}
    <3>1. x \in Starting
      BY <1>2, <1>10 DEF Starting, x, st
    <3>2. ASSUME NEW l \in observing_as
          PROVE  l \in Starting' <=> l \in Starting /\ l # x
      <4>1. l \in Starting' <=> \E u \in Threads : u # t /\ l = index[u] - 1 /\ Len(stack[u]) = 1 /\ pc[u] = "extract"
        BY <1>3, <1>4 DEF Starting
      <4>2. l \in Starting <=> \E u \in Threads : l = index[u] - 1 /\ Len(stack[u]) = 1 /\ pc[u] = "extract"
        BY DEF Starting
      <4>3. \A u \in Threads : Len(stack[u]) = 1 => stack[u] # <<>>
        OBVIOUS
      <4>4. \A u \in Threads : u # t /\ Len(stack[u]) = 1 => index[u] - 1 # x
        BY <4>3, <1>5
      <4> QED
        BY <4>1, <4>2, <4>4 DEF x
    <3> QED
      BY <3>1, <3>2 DEF Starting
  <2>3. x \notin Counted(key) /\ Counted(key)' = Counted(key) \cup {x} /\ Counted(key) \subseteq observing_as
    BY <2>1, <2>2, <1>2 DEF Counted
  <2>4. \A k : k # key => Counted(k)' = Counted(k)
    BY <2>1, <2>2 DEF Counted
  <2>5. Cardinality(Counted(key)') = Cardinality(Counted(key)) + 1 /\ Cardinality(Counted(key)) \in Nat
    <3>1. IsFiniteSet(Counted(key)) /\ Cardinality(Counted(key)) \in Nat
      BY <2>3, <1>0, CopiedFinite
    <3> QED
      BY <3>1, <2>3, FS_AddElement
  <2>6. CountExact'
    <3> SUFFICES ASSUME NEW l \in Links, NEW m \in DOMAIN nodes', nodes'[m].key = PatternOf({l})
                 PROVE  nodes'[m].count = Cardinality(Counted(PatternOf({l}))')
      BY DEF CountExact
    <3>1. CASE m # n
      <4>1. nodes'[m] = nodes[m] /\ m \in DOMAIN nodes
        BY <3>1
      <4>2. nodes[m].key # key
        <5>1. CASE n \in DOMAIN nodes
          BY <5>1, <4>1, <3>1, <1>0 DEF KeysUnique
        <5>2. CASE n \notin DOMAIN nodes
          BY <5>2, <4>1 DEF NodeOf
        <5> QED
          BY <5>1, <5>2
      <4>3. nodes[m].count = Cardinality(Counted(PatternOf({l})))
        BY <4>1, <1>0 DEF CountExact
      <4> QED
        BY <4>1, <4>2, <4>3, <2>4
    <3>2. CASE m = n /\ n \in DOMAIN nodes
      <4>1. nodes[n].count = Cardinality(Counted(key)) /\ nodes'[n].count = nodes[n].count + 1
        BY <3>2, <1>0 DEF CountExact
      <4> QED
        BY <4>1, <3>2, <2>5
    <3>3. CASE m = n /\ n \notin DOMAIN nodes
      <4>1. Counted(key) = {}
        BY <3>3, <1>0 DEF StartedHasNode, Counted, NodeOf
      <4>2. Cardinality(Counted(key)) = 0
        BY <4>1, FS_EmptySet
      <4> QED
        BY <4>2, <3>3, <2>5
    <3> QED
      BY <3>1, <3>2, <3>3
  <2>7. StartedHasNode'
    <3> SUFFICES ASSUME NEW l \in observing_as \ Starting' PROVE \E m \in DOMAIN nodes' : nodes'[m].key = PatternOf({l})
      BY DEF StartedHasNode
    <3>1. CASE l = x
      BY <3>1, <2>1
    <3>2. CASE l # x
      <4>1. \E m \in DOMAIN nodes : nodes[m].key = PatternOf({l})
        BY <3>2, <2>2, <1>0 DEF StartedHasNode
      <4> QED
        BY <4>1
    <3> QED
      BY <3>1, <3>2
  <2> QED
    BY <2>6, <2>7, <1>9
<1>11. CASE Len(st) # 1
  <2>1. Cardinality(Top(t).links) > 1 /\ Top(t).links \in Instances
    <3>1. Len(st) \in DOMAIN st /\ Len(st) > 1
      BY <1>1, <1>11
    <3> QED
      BY <3>1, <1>1 DEF Frame
  <2>2. \A l \in Links : key # PatternOf({l})
    <3> TAKE l \in Links
    <3>1. {l} \in Instances /\ Cardinality({l}) = 1
      BY OneLink
    <3> QED
      BY <3>1, <2>1, MinerAssumption
  <2>3. Starting' = Starting
    <3>1. \A u \in Threads : Len(stack'[u]) = 1 /\ pc'[u] = "extract" <=> Len(stack[u]) = 1 /\ pc[u] = "extract"
      BY <1>3, <1>11 DEF st
    <3> QED
      BY <3>1, <1>4 DEF Starting
  <2>4. \A k : Counted(k)' = Counted(k)
    BY <2>3 DEF Counted
  <2>5. CountExact'
    BY <2>2, <2>4, <1>0 DEF CountExact
  <2>6. StartedHasNode'
    <3> SUFFICES ASSUME NEW l \in observing_as \ Starting PROVE \E m \in DOMAIN nodes' : nodes'[m].key = PatternOf({l})
      BY <2>3 DEF StartedHasNode
    <3>1. \E m \in DOMAIN nodes : nodes[m].key = PatternOf({l})
      BY <1>0 DEF StartedHasNode
    <3> QED
      BY <3>1
  <2> QED
    BY <2>5, <2>6, <1>9
<1> QED
  BY <1>10, <1>11

\* A pattern that is new in the task: the calls, and the pairs of the link.
LEMMA FoundCalls ==
  ASSUME MinerInv, MiningInv, NEW t \in Threads, pc[t] = "extract", NEW n \in Nat, NEW p \in {"fill", "relation"},
         NEW task
  PROVE  LET s == Append(Below(t), [Top(t) EXCEPT !.node = n, !.ext = UNION {NodesOf[l] : l \in Top(t).links}])
         IN  /\ s # <<>> /\ TaskOK(t, observing_as, index[t], s, p, task)
             /\ \A l, m : SharesNode(l, m) /\ Meets(stack[t], pc[t], l, m) => Meets(s, p, l, m)
<1> DEFINE f == Top(t)
           e == UNION {NodesOf[l] : l \in f.links}
           g == [f EXCEPT !.node = n, !.ext = e]
           s == Append(Below(t), g)
           st == stack[t]
<1>1. st # <<>> /\ f = st[Len(st)] /\ f \in Frame /\ Len(st) \in Nat \ {0}
  BY RootFacts
<1>2. e \in SUBSET UNION Range(NodesOf)
  <2>1. f.links \subseteq DOMAIN NodesOf
    BY <1>1, MinerAssumption DEF Frame, Instances
  <2>2. \A l \in DOMAIN NodesOf : NodesOf[l] \in Range(NodesOf)
    BY DEF Range
  <2> QED
    BY <2>1, <2>2
<1> HIDE DEF f, e
<1>3. g \in Frame /\ g.links = f.links /\ g.gram = f.gram /\ g.cand = f.cand /\ g.ext = e
  BY <1>1, <1>2 DEF Frame
<1> HIDE DEF g
<1>4. /\ s # <<>> /\ Len(s) = Len(st) /\ IF Len(st) = 1 THEN s[1] = g ELSE s[1] = st[1]
      /\ TaskOK(t, observing_as, index[t], s, p, task)
  BY <1>3, TopLike DEF f
<1> HIDE DEF s
<1>5. ASSUME NEW l, NEW m, SharesNode(l, m), Meets(st, pc[t], l, m) PROVE Meets(s, p, l, m)
  <2>1. CASE Len(st) = 1
    <3>1. f.links = {l}
      BY <2>1, <1>1, <1>5 DEF Meets
    <3>2. e = NodesOf[l]
      BY <3>1 DEF e
    <3> QED
      BY <3>1, <3>2, <2>1, <1>3, <1>4, <1>5 DEF Meets, SharesNode
  <2>2. CASE Len(st) # 1
    BY <2>2, <1>4, <1>5, MeetsSame
  <2> QED
    BY <2>1, <2>2
<1> QED
  BY <1>4, <1>5 DEF s, g, f, e

\* The patterns and the tasks, with the node of the pattern.
LEMMA FoundStep ==
  ASSUME MinerInv, MinerInv', MiningInv, NEW t \in Threads, pc[t] = "extract",
         NEW key, key = PatternOf(Top(t).links), key \notin curTask[t], NEW s, NEW p \in {"fill", "relation"},
         s # <<>>, TaskOK(t, observing_as, index[t], s, p, curTask[t] \cup {key}),
         \A l, m : SharesNode(l, m) /\ Meets(stack[t], pc[t], l, m) => Meets(s, p, l, m),
         stack' = [stack EXCEPT ![t] = s],
         pc' = [pc EXCEPT ![t] = p], curTask' = [curTask EXCEPT ![t] = @ \cup {key}],
         UNCHANGED <<THREAD_NUM, index, observing_as, claims, visits>>,
         NEW n \in DOMAIN nodes', DOMAIN nodes \subseteq DOMAIN nodes', nodes'[n].key = key,
         IF n \in DOMAIN nodes THEN nodes[n].key = key /\ nodes'[n].count = nodes[n].count + 1
         ELSE nodes'[n].count = 1 /\ NodeOf(key) = {},
         \A m \in DOMAIN nodes' : m # n => m \in DOMAIN nodes /\ nodes'[m] = nodes[m],
         \A m \in DOMAIN nodes : nodes'[m].key = nodes[m].key
  PROVE  MiningInv'
<1>0. /\ ThreadsOK /\ PatternsOK /\ PatternsOK' /\ ClaimsOK
      /\ Tasks /\ PastCopied /\ CopiedPast /\ ClaimsVisited /\ Pairs
  BY DEF MinerInv, TypeOK, MiningInv
<1>1. Tasks'
  <2> DEFINE task == curTask[t] \cup {key}
  <2>1. /\ curTask' = [curTask EXCEPT ![t] = task] /\ TaskOK(t, observing_as, index[t], s, p, task)
        /\ UNCHANGED <<THREAD_NUM, index, observing_as>>
    OBVIOUS
  <2> HIDE DEF task
  <2> QED
    BY <2>1, <1>0, TasksInside
<1>2. (PastCopied /\ CopiedPast)'
  BY <1>0, CopiedStep
<1>3. ClaimsVisited' /\ \A i \in Instances : visits[i] > 0 => visits'[i] > 0
  BY <1>0, ClaimsStep DEF claims
<1>4. Pairs'
  BY <1>0, <1>3, PairsStep
<1>5. (CountBound /\ CountExact /\ StartedHasNode)'
  BY CountedStep
<1> QED
  BY <1>1, <1>2, <1>3, <1>4, <1>5 DEF MiningInv

\* A pattern is looked up, and counted or entered.
LEMMA ExtractPatternMining ==
  ASSUME MinerInv, MinerInv', MiningInv, NEW t \in Threads, ExtractPattern(t)
  PROVE  MiningInv'
<1> DEFINE f == Top(t)
           key == PatternOf(f.links)
           n == Min(NodeOf(key))
           x == UNION {NodesOf[l] : l \in f.links}
           st == stack[t]
<1>0. ThreadsOK /\ PatternsOK /\ PatternsOK' /\ ClaimsOK /\ KeysUnique /\ FoundHasNode
  BY DEF MinerInv, TypeOK, NodesInv
<1>1. pc[t] = "extract" /\ UNCHANGED <<THREAD_NUM, index, observing_as, claims, visits>>
  BY DEF ExtractPattern
<1>2. /\ f \in Frame /\ st # <<>> /\ Len(st) \in Nat \ {0} /\ (Len(st) = 1 => curTask[t] = {})
  BY <1>1, RootFacts
<1>3. CASE key \in curTask[t]
  <2> DEFINE g == [f EXCEPT !.node = n]
             s == Append(Below(t), g)
  <2>1. /\ stack' = [stack EXCEPT ![t] = s]
        /\ pc' = [pc EXCEPT ![t] = "relation"] /\ UNCHANGED <<curTask, nodes>>
    BY <1>3 DEF ExtractPattern, SetTop, GoTo
  <2>2. n \in DOMAIN nodes /\ n \in Nat
    <3>1. NodeOf(key) # {}
      BY <1>3, <1>0 DEF FoundHasNode, NodeOf
    <3>2. n \in DOMAIN nodes
      BY <3>1, <1>0, OneKnown
    <3> QED
      BY <3>2, <1>0 DEF PatternsOK
  <2> HIDE DEF n, f
  <2>3. g \in Frame /\ g.links = f.links /\ g.gram = f.gram /\ g.cand = f.cand
    BY <2>2, <1>2 DEF Frame
  <2> HIDE DEF g
  <2>4. /\ s # <<>> /\ Len(s) = Len(st) /\ IF Len(st) = 1 THEN s[1] = g ELSE s[1] = st[1]
        /\ TaskOK(t, observing_as, index[t], s, "relation", curTask[t])
    BY <1>1, <2>3, TopLike DEF f
  <2> HIDE DEF s
  <2>5. Len(st) # 1
    BY <1>2, <1>3
  <2>6. \A l, m : Meets(st, pc[t], l, m) => Meets(s, "relation", l, m)
    BY <2>4, <2>5, MeetsSame
  <2>7. ClaimsVisited' /\ \A i \in Instances : visits[i] > 0 => visits'[i] > 0
    BY <1>0, <1>1, ClaimsStep DEF MiningInv, claims
  <2> QED
    BY <1>0, <1>1, <1>2, <2>1, <2>4, <2>5, <2>6, <2>7, InsideStep
<1>4. CASE key \notin curTask[t] /\ NodeOf(key) # {}
  <2>1. /\ stack' = [stack EXCEPT ![t] = Append(Below(t), [f EXCEPT !.node = n, !.ext = x])]
        /\ pc' = [pc EXCEPT ![t] = "relation"]
        /\ curTask' = [curTask EXCEPT ![t] = @ \cup {key}]
        /\ nodes' = [nodes EXCEPT ![n].count = @ + 1]
    BY <1>4 DEF ExtractPattern, SetTop, GoTo
  <2>2. n \in DOMAIN nodes /\ nodes[n].key = key
    BY <1>4, <1>0, OneKnown
  <2>3. n \in Nat /\ nodes[n] \in HTreeNode
    BY <2>2, <1>0 DEF PatternsOK
  <2> HIDE DEF n
  <2> DEFINE c == nodes[n].count + 1
             h == [nodes[n] EXCEPT !.count = c]
  <2>4. h.key = nodes[n].key /\ h.count = c
    BY <2>3 DEF HTreeNode
  <2>5. nodes' = [nodes EXCEPT ![n] = h]
    BY <2>1
  <2> HIDE DEF h
  <2>6. /\ DOMAIN nodes' = DOMAIN nodes /\ nodes'[n] = h
        /\ \A m \in DOMAIN nodes : m # n => nodes'[m] = nodes[m]
    BY <2>2, <2>5
  <2>7. \A m \in DOMAIN nodes : nodes'[m].key = nodes[m].key
    <3> TAKE m \in DOMAIN nodes
    <3>1. CASE m = n
      BY <3>1, <2>4, <2>6
    <3>2. CASE m # n
      BY <3>2, <2>6
    <3> QED
      BY <3>1, <3>2
  <2>8. nodes'[n].key = key /\ nodes'[n].count = nodes[n].count + 1
    BY <2>2, <2>4, <2>6
  <2> DEFINE s == Append(Below(t), [f EXCEPT !.node = n, !.ext = x])
  <2>9. /\ s # <<>> /\ TaskOK(t, observing_as, index[t], s, "relation", curTask[t] \cup {key})
        /\ \A l, m : SharesNode(l, m) /\ Meets(stack[t], pc[t], l, m) => Meets(s, "relation", l, m)
    BY <1>1, <2>3, FoundCalls
  <2>10. stack' = [stack EXCEPT ![t] = s]
    BY <2>1
  <2>11. key = PatternOf(Top(t).links) /\ key \notin curTask[t] /\ n \in DOMAIN nodes' /\ DOMAIN nodes \subseteq DOMAIN nodes'
    BY <1>4, <2>2, <2>6
  <2>12. \A m \in DOMAIN nodes' : m # n => m \in DOMAIN nodes /\ nodes'[m] = nodes[m]
    BY <2>6
  <2>13. pc' = [pc EXCEPT ![t] = "relation"] /\ curTask' = [curTask EXCEPT ![t] = @ \cup {key}]
    BY <2>1
  <2>14. IF n \in DOMAIN nodes THEN nodes[n].key = key /\ nodes'[n].count = nodes[n].count + 1
         ELSE nodes'[n].count = 1 /\ NodeOf(key) = {}
    BY <2>2, <2>8
  <2> HIDE DEF c, key, s, f, x
  <2> QED
    BY <1>1, <2>7, <2>8, <2>9, <2>10, <2>11, <2>12, <2>13, <2>14, FoundStep
<1>5. CASE key \notin curTask[t] /\ NodeOf(key) = {}
  <2> DEFINE k == Len(nodes) + 1
             h == [key |-> key, count |-> 1, size |-> 0, superPatternRelations |-> <<>>]
  <2>1. /\ stack' = [stack EXCEPT ![t] = Append(Below(t), [f EXCEPT !.node = k, !.ext = x])]
        /\ pc' = [pc EXCEPT ![t] = "fill"]
        /\ curTask' = [curTask EXCEPT ![t] = @ \cup {key}]
        /\ nodes' = Append(nodes, h)
    BY <1>5 DEF ExtractPattern, SetTop, GoTo
  <2>2. h.key = key /\ h.count = 1
    OBVIOUS
  <2>3. nodes \in Seq(HTreeNode) /\ Len(nodes) \in Nat /\ DOMAIN nodes = 1 .. Len(nodes)
    BY <1>0 DEF PatternsOK
  <2> HIDE DEF h
  <2>4. /\ DOMAIN nodes' = 1 .. k /\ nodes'[k] = h /\ \A m \in 1 .. Len(nodes) : nodes'[m] = nodes[m]
    BY <2>1, <2>3
  <2>5. /\ k \in Nat /\ k \in DOMAIN nodes' /\ k \notin DOMAIN nodes /\ DOMAIN nodes \subseteq DOMAIN nodes'
        /\ \A m \in DOMAIN nodes' : m # k => m \in DOMAIN nodes /\ nodes'[m] = nodes[m]
        /\ \A m \in DOMAIN nodes : nodes'[m].key = nodes[m].key
    BY <2>3, <2>4
  <2>6. nodes'[k].key = key /\ nodes'[k].count = 1
    BY <2>2, <2>4
  <2> DEFINE s == Append(Below(t), [f EXCEPT !.node = k, !.ext = x])
  <2> HIDE DEF k
  <2>7. /\ s # <<>> /\ TaskOK(t, observing_as, index[t], s, "fill", curTask[t] \cup {key})
        /\ \A l, m : SharesNode(l, m) /\ Meets(stack[t], pc[t], l, m) => Meets(s, "fill", l, m)
    BY <1>1, <2>5, FoundCalls
  <2>8. stack' = [stack EXCEPT ![t] = s]
    BY <2>1
  <2>9. key = PatternOf(Top(t).links) /\ key \notin curTask[t]
    BY <1>5
  <2>10. pc' = [pc EXCEPT ![t] = "fill"] /\ curTask' = [curTask EXCEPT ![t] = @ \cup {key}]
    BY <2>1
  <2>11. IF k \in DOMAIN nodes THEN nodes[k].key = key /\ nodes'[k].count = nodes[k].count + 1
         ELSE nodes'[k].count = 1 /\ NodeOf(key) = {}
    BY <1>5, <2>5, <2>6
  <2> HIDE DEF key, s, f, x
  <2> QED
    BY <1>1, <2>5, <2>6, <2>7, <2>8, <2>9, <2>10, <2>11, FoundStep
<1> QED
  BY <1>3, <1>4, <1>5

----------------------------------------------------------------------------
(* The next link, and the end of the ranges.                                *)

\* The link a thread comes to has not been copied.
LEMMA NotYetCopied ==
  ASSUME MinerInv, MiningInv, NEW t \in Threads, index[t] < EndIndex(t)
  PROVE  index[t] \notin observing_as /\ index[t] \in StartIndex(t) .. EndIndex(t) - 1
<1> DEFINE l == index[t]
<1>0. THREAD_NUM \in 1 .. MaxThreads /\ CopiedPast
  BY DEF MinerInv, TypeOK, ThreadsOK, MiningInv
<1>1. \A u \in Threads : index[u] \in StartIndex(u) .. EndIndex(u) /\ StartIndex(u) \in Int /\ EndIndex(u) \in Int
  BY <1>0, RangeFacts DEF MiningInv, Tasks, TaskOK
<1>2. l \in StartIndex(t) .. EndIndex(t) - 1
  BY <1>1
<1>3. ASSUME l \in observing_as PROVE FALSE
  <2>1. PICK u \in Threads : l \in StartIndex(u) .. index[u] - 1
    BY <1>0, <1>3 DEF CopiedPast
  <2>2. l \in StartIndex(u) .. EndIndex(u) - 1
    BY <2>1, <1>1
  <2>3. u = t
    BY <2>2, <1>0, <1>2, RangesDisjoint
  <2> QED
    BY <2>1, <2>3, <1>1
<1> QED
  BY <1>2, <1>3

\* A thread comes past a link that is ignored or copied now.
LEMMA CopiedGrows ==
  ASSUME ThreadsOK, PastCopied, CopiedPast, NEW t \in Threads, UNCHANGED THREAD_NUM,
         index' = [index EXCEPT ![t] = @ + 1], StartIndex(t) \in Int, StartIndex(t) <= index[t],
         observing_as \subseteq observing_as', observing_as' \subseteq observing_as \cup {index[t]},
         index[t] \in IgnoredLinks \cup observing_as'
  PROVE  (PastCopied /\ CopiedPast)'
<1>1. Threads' = Threads /\ \A u \in Threads : StartIndex(u)' = StartIndex(u)
  BY DEF Threads, StartIndex, linksPerThread
<1>2. index'[t] = index[t] + 1 /\ \A u \in Threads : index[u] \in Int /\ (u # t => index'[u] = index[u])
  BY DEF ThreadsOK
<1>3. ASSUME NEW u \in Threads, NEW l \in StartIndex(u) .. index'[u] - 1 PROVE l \in IgnoredLinks \cup observing_as'
  <2>1. CASE u = t /\ l = index[t]
    BY <2>1
  <2>2. CASE ~(u = t /\ l = index[t])
    <3>1. l \in StartIndex(u) .. index[u] - 1
      BY <2>2, <1>2, <1>3
    <3> QED
      BY <3>1 DEF PastCopied
  <2> QED
    BY <2>1, <2>2
<1>4. ASSUME NEW l \in observing_as' PROVE \E u \in Threads : l \in StartIndex(u) .. index'[u] - 1
  <2>1. CASE l \in observing_as
    <3>1. PICK u \in Threads : l \in StartIndex(u) .. index[u] - 1
      BY <2>1 DEF CopiedPast
    <3>2. l \in StartIndex(u) .. index'[u] - 1
      BY <3>1, <1>2
    <3> QED
      BY <3>2
  <2>2. CASE l = index[t]
    <3>1. l \in StartIndex(t) .. index'[t] - 1
      BY <2>2, <1>2
    <3> QED
      BY <3>1
  <2> QED
    BY <2>1, <2>2
<1> QED
  BY <1>1, <1>3, <1>4 DEF PastCopied, CopiedPast

\* A link that the lists leave out is passed over.
LEMMA IgnoredMining ==
  ASSUME MinerInv, MinerInv', MiningInv, NEW t \in Threads, NextLink(t), index[t] \in IgnoredLinks
  PROVE  MiningInv'
<1> DEFINE l == index[t]
           i == l + 1
<1>0. /\ ThreadsOK /\ PatternsOK /\ PatternsOK' /\ ClaimsOK /\ Calls
      /\ Tasks /\ PastCopied /\ CopiedPast /\ ClaimsVisited /\ Pairs /\ CountBound /\ CountExact /\ StartedHasNode
  BY DEF MinerInv, TypeOK, MiningInv
<1>1. /\ pc[t] = "link" /\ l < EndIndex(t)
      /\ index' = [index EXCEPT ![t] = i] /\ curTask' = [curTask EXCEPT ![t] = {}]
      /\ UNCHANGED <<observing_as, stack, visits, pc, THREAD_NUM, nodes, claims>>
  BY DEF NextLink, NewTask, mined
<1>2. stack[t] = <<>> /\ stack' = [stack EXCEPT ![t] = <<>>] /\ pc' = [pc EXCEPT ![t] = "link"]
  BY <1>0, <1>1 DEF Calls, CallsOK, ThreadsOK
<1>3. l \in StartIndex(t) .. EndIndex(t) - 1 /\ StartIndex(t) \in Int /\ EndIndex(t) \in Int /\ l \in Int
  BY <1>0, <1>1, NotYetCopied, RangeFacts DEF ThreadsOK
<1>4. TaskOK(t, observing_as', i, <<>>, "link", {})
  BY <1>3 DEF TaskOK
<1>5. Tasks'
  <2>1. UNCHANGED THREAD_NUM /\ observing_as \subseteq observing_as'
    BY <1>1
  <2> HIDE DEF i
  <2> DEFINE s == <<>>
             task == {}
  <2>2. /\ TaskOK(t, observing_as', i, s, "link", task) /\ index' = [index EXCEPT ![t] = i]
        /\ curTask' = [curTask EXCEPT ![t] = task] /\ stack' = [stack EXCEPT ![t] = s]
    BY <1>1, <1>2, <1>4
  <2> HIDE DEF s, task
  <2> QED
    BY <2>1, <2>2, <1>0, <1>2, TasksStep
<1>6. (PastCopied /\ CopiedPast)'
  <2>1. /\ index' = [index EXCEPT ![t] = @ + 1] /\ UNCHANGED THREAD_NUM /\ StartIndex(t) \in Int /\ StartIndex(t) <= index[t]
        /\ observing_as \subseteq observing_as' /\ observing_as' \subseteq observing_as \cup {index[t]}
    BY <1>1, <1>3
  <2> QED
    BY <2>1, <1>0, CopiedGrows
<1>7. ClaimsVisited'
  BY <1>0, <1>1, ClaimsStep DEF claims
<1>8. Pairs'
  BY <1>0, <1>1 DEF Pairs, Threads
<1>9. /\ Threads' = Threads
      /\ \A u \in Threads : stack'[u] = stack[u] /\ pc'[u] = pc[u]
      /\ \A u \in Threads : stack[u] # <<>> => index'[u] = index[u] /\ curTask'[u] = curTask[u]
  BY <1>0, <1>1, <1>2 DEF ThreadsOK, Threads
<1>10. \A k : Open(k)' = Open(k)
  BY <1>1, <1>9 DEF Open
<1>11. Starting' = Starting
  <2>1. \A u \in Threads : Len(stack[u]) = 1 => stack[u] # <<>>
    <3>1. Len(<<>>) # 1
      OBVIOUS
    <3> QED
      BY <3>1
  <2> QED
    BY <2>1, <1>1, <1>9 DEF Starting
<1>12. \A k : Counted(k)' = Counted(k)
  BY <1>1, <1>11 DEF Counted
<1>13. (CountBound /\ CountExact /\ StartedHasNode)'
  BY <1>0, <1>1, <1>10, <1>11, <1>12 DEF CountBound, CountExact, StartedHasNode
<1> QED
  BY <1>5, <1>6, <1>7, <1>8, <1>13 DEF MiningInv

\* The next link is copied: it is to meet every link copied before it.
LEMMA CopiedMining ==
  ASSUME MinerInv, MinerInv', MiningInv, NEW t \in Threads, NextLink(t), index[t] \notin IgnoredLinks
  PROVE  MiningInv'
<1> DEFINE l == index[t]
           i == l + 1
           f == NewCall({l}, 0, 1)
           s == Append(<<>>, f)
           task == {}
<1>0. /\ ThreadsOK /\ PatternsOK /\ PatternsOK' /\ ClaimsOK /\ Calls
      /\ Tasks /\ PastCopied /\ CopiedPast /\ ClaimsVisited /\ Pairs /\ CountBound /\ CountExact /\ StartedHasNode
  BY DEF MinerInv, TypeOK, MiningInv
<1>1. /\ pc[t] = "link" /\ l < EndIndex(t)
      /\ index' = [index EXCEPT ![t] = i] /\ curTask' = [curTask EXCEPT ![t] = task]
      /\ observing_as' = observing_as \cup {l} /\ Call(t, {l}, 0, <<>>)
      /\ UNCHANGED <<THREAD_NUM, nodes, claims>>
  BY DEF NextLink, NewTask, mined, Copied
<1>2. /\ stack' = [stack EXCEPT ![t] = s] /\ pc' = [pc EXCEPT ![t] = "extract"]
      /\ visits' = [visits EXCEPT ![{l}] = @ + 1]
  BY <1>1 DEF Call, GoTo, NewCall
<1>3. stack[t] = <<>>
  BY <1>0, <1>1 DEF Calls, CallsOK
<1>4. /\ l \in StartIndex(t) .. EndIndex(t) - 1 /\ StartIndex(t) \in Int /\ EndIndex(t) \in Int /\ l \in Int
      /\ l \notin observing_as
  BY <1>0, <1>1, NotYetCopied, RangeFacts DEF ThreadsOK
<1>5. l \in Links /\ {l} \in Instances
  <2>1. l \in Links
    BY <1>0, <1>1 DEF PatternsOK
  <2> QED
    BY <2>1, OneLink
<1>6. s # <<>> /\ Len(s) = 1 /\ s[1] = f /\ DOMAIN s = 1 .. 1 /\ f.links = {l} /\ f.gram = 1 /\ f.cand = {}
  <2>1. f.links = {l} /\ f.gram = 1 /\ f.cand = {}
    BY DEF NewCall
  <2> HIDE DEF f
  <2> QED
    BY <2>1
<1> HIDE DEF s, f
<1>7. TaskOK(t, observing_as', i, s, "extract", task)
  <2>1. i - 1 = l /\ i \in StartIndex(t) .. EndIndex(t) /\ i - 1 \in observing_as'
    BY <1>1, <1>4
  <2>2. \A k \in DOMAIN s : ~(k > 1)
    BY <1>6
  <2> QED
    BY <2>1, <2>2, <1>4, <1>6 DEF TaskOK
<1>8. Tasks'
  <2>1. UNCHANGED THREAD_NUM /\ observing_as \subseteq observing_as'
    BY <1>1
  <2> HIDE DEF i, task
  <2> QED
    BY <2>1, <1>0, <1>1, <1>2, <1>7, TasksStep
<1>9. (PastCopied /\ CopiedPast)'
  <2>1. /\ index' = [index EXCEPT ![t] = @ + 1] /\ UNCHANGED THREAD_NUM /\ StartIndex(t) \in Int /\ StartIndex(t) <= index[t]
        /\ observing_as \subseteq observing_as' /\ observing_as' \subseteq observing_as \cup {index[t]}
        /\ index[t] \in IgnoredLinks \cup observing_as'
    BY <1>1, <1>4
  <2> QED
    BY <2>1, <1>0, CopiedGrows
<1>10. \A j \in Instances : visits[j] > 0 => visits'[j] > 0
  BY <1>0, <1>2, <1>5 DEF PatternsOK
<1>11. ClaimsVisited'
  BY <1>0, <1>1, <1>10, ClaimsStep DEF claims
<1>12. /\ Threads' = Threads /\ stack'[t] = s /\ pc'[t] = "extract" /\ index'[t] = i /\ curTask'[t] = task
       /\ \A u \in Threads : u # t => /\ stack'[u] = stack[u] /\ pc'[u] = pc[u]
                                      /\ index'[u] = index[u] /\ curTask'[u] = curTask[u]
  BY <1>0, <1>1, <1>2 DEF ThreadsOK, Threads
<1>13. Pairs'
  <2> SUFFICES ASSUME MAX_GRAM > 1, NEW a \in observing_as', NEW b \in observing_as', SharesNode(a, b)
               PROVE  \/ visits'[{a, b}] > 0
                      \/ \E u \in Threads : Meets(stack'[u], pc'[u], a, b) \/ Meets(stack'[u], pc'[u], b, a)
    BY <1>12 DEF Pairs
  <2>1. \A m : Meets(s, "extract", l, m)
    BY <1>6 DEF Meets
  <2>2. CASE a = l \/ b = l
    BY <2>1, <2>2, <1>12
  <2>3. CASE a # l /\ b # l
    <3>1. a \in observing_as /\ b \in observing_as /\ {a, b} \in Instances
      BY <2>3, <1>0, <1>1 DEF PatternsOK, Instances
    <3>2. CASE visits[{a, b}] > 0
      BY <3>1, <3>2, <1>10
    <3>3. CASE \E u \in Threads : Meets(stack[u], pc[u], a, b) \/ Meets(stack[u], pc[u], b, a)
      <4>1. PICK u \in Threads : Meets(stack[u], pc[u], a, b) \/ Meets(stack[u], pc[u], b, a)
        BY <3>3
      <4>2. u # t
        BY <4>1, <1>3 DEF Meets
      <4> QED
        BY <4>1, <4>2, <1>12
    <3> QED
      BY <3>1, <3>2, <3>3, <1>0 DEF Pairs
  <2> QED
    BY <2>2, <2>3
<1>14. \A k : observing_as' \ Open(k)' = observing_as \ Open(k)
  <2> TAKE k
  <2>1. ASSUME NEW x \in observing_as' PROVE x \in Open(k)' <=> x = l \/ x \in Open(k)
    <3>1. x \in Open(k)' <=> \E u \in Threads : x = index'[u] - 1 /\ stack'[u] # <<>> /\ k \notin curTask'[u]
      BY <1>12 DEF Open
    <3>2. x \in Open(k) <=> x \in observing_as /\ \E u \in Threads : x = index[u] - 1 /\ stack[u] # <<>> /\ k \notin curTask[u]
      BY DEF Open
    <3>3. index'[t] - 1 = l
      BY <1>4, <1>12
    <3>4. x # l => x \in observing_as
      BY <1>1
    <3> QED
      BY <3>1, <3>2, <3>3, <3>4, <1>3, <1>6, <1>12
  <2> QED
    BY <2>1, <1>1, <1>4
<1>15. observing_as' \ Starting' = observing_as \ Starting
  <2>1. ASSUME NEW x \in observing_as' PROVE x \in Starting' <=> x = l \/ x \in Starting
    <3>1. x \in Starting' <=> \E u \in Threads : x = index'[u] - 1 /\ Len(stack'[u]) = 1 /\ pc'[u] = "extract"
      BY <1>12 DEF Starting
    <3>2. x \in Starting <=> x \in observing_as /\ \E u \in Threads : x = index[u] - 1 /\ Len(stack[u]) = 1 /\ pc[u] = "extract"
      BY DEF Starting
    <3>3. index'[t] - 1 = l
      BY <1>4, <1>12
    <3>4. x # l => x \in observing_as
      BY <1>1
    <3> QED
      BY <3>1, <3>2, <3>3, <3>4, <1>1, <1>6, <1>12
  <2> QED
    BY <2>1, <1>1, <1>4
<1>16. \A k : Counted(k)' = Counted(k)
  BY <1>15 DEF Counted
<1>17. (CountBound /\ CountExact /\ StartedHasNode)'
  <2>1. UNCHANGED nodes
    BY <1>1
  <2>2. CountBound'
    BY <2>1, <1>0, <1>14 DEF CountBound
  <2>3. CountExact'
    BY <2>1, <1>0, <1>16 DEF CountExact
  <2>4. StartedHasNode'
    BY <2>1, <1>0, <1>15 DEF StartedHasNode
  <2> QED
    BY <2>2, <2>3, <2>4
<1> QED
  BY <1>8, <1>9, <1>11, <1>13, <1>17 DEF MiningInv

\* A thread has come to the end of its range.
LEMMA ThreadEndsMining ==
  ASSUME MinerInv, MinerInv', MiningInv, NEW t \in Threads, ThreadEnds(t)
  PROVE  MiningInv'
<1> DEFINE s == <<>>
<1>0. /\ ThreadsOK /\ PatternsOK /\ PatternsOK' /\ ClaimsOK /\ Calls
      /\ Tasks /\ PastCopied /\ CopiedPast /\ ClaimsVisited /\ Pairs /\ CountBound /\ CountExact /\ StartedHasNode
  BY DEF MinerInv, TypeOK, MiningInv
<1>1. /\ pc[t] = "link" /\ index[t] = EndIndex(t) /\ pc' = [pc EXCEPT ![t] = "end"]
      /\ UNCHANGED <<THREAD_NUM, index, stack, curTask, observing_as, nodes, claims, visits>>
  BY DEF ThreadEnds, GoTo, mined
<1>2. stack[t] = s /\ stack' = [stack EXCEPT ![t] = s] /\ curTask' = [curTask EXCEPT ![t] = curTask[t]]
  BY <1>0, <1>1 DEF Calls, CallsOK, ThreadsOK
<1>3. TaskOK(t, observing_as, index[t], s, "end", curTask[t])
  <2>1. index[t] \in StartIndex(t) .. EndIndex(t)
    BY <1>0 DEF Tasks, TaskOK
  <2> QED
    BY <2>1, <1>1 DEF TaskOK
<1>4. Len(s) # 1
  OBVIOUS
<1> HIDE DEF s
<1>5. Tasks'
  BY <1>0, <1>1, <1>2, <1>3, TasksInside
<1>6. (PastCopied /\ CopiedPast)'
  BY <1>0, <1>1, CopiedStep
<1>7. ClaimsVisited'
  BY <1>0, <1>1, ClaimsStep DEF claims
<1>8. Pairs'
  <2>1. \A l, m : Meets(s, pc[t], l, m) => Meets(s, "end", l, m)
    BY <1>4, MeetsSame DEF Meets
  <2> QED
    BY <2>1, <1>0, <1>1, <1>2, PairsStep
<1>9. (CountBound /\ CountExact /\ StartedHasNode)'
  BY <1>0, <1>1, <1>2, <1>4, CountsStep
<1> QED
  BY <1>5, <1>6, <1>7, <1>8, <1>9 DEF MiningInv

\* The mining threads have been joined, and patterns are evaluated.
LEMMA JoinedStep ==
  ASSUME MinerInv, MiningInv,
         \A u \in Threads : pc[u] \in {"next", "end"}, \A u \in Threads : pc'[u] \in {"next", "end"},
         UNCHANGED <<THREAD_NUM, index, stack, curTask, observing_as, nodes, claims, visits>>
  PROVE  MiningInv'
<1>0. /\ ThreadsOK /\ PatternsOK /\ ClaimsOK /\ Calls
      /\ Tasks /\ PastCopied /\ CopiedPast /\ ClaimsVisited /\ Pairs /\ CountBound /\ CountExact /\ StartedHasNode
  BY DEF MinerInv, TypeOK, MiningInv
<1>1. \A u \in Threads : stack[u] = <<>>
  BY <1>0 DEF Calls, CallsOK
<1>2. Threads' = Threads /\ \A u \in Threads : StartIndex(u)' = StartIndex(u) /\ EndIndex(u)' = EndIndex(u)
  BY DEF Threads, StartIndex, EndIndex, linksPerThread
<1>3. Len(<<>>) # 1
  OBVIOUS
<1>4. Tasks'
  <2> SUFFICES ASSUME NEW u \in Threads PROVE TaskOK(u, observing_as, index[u], stack[u], pc'[u], curTask[u])
    BY <1>2 DEF Tasks, TaskOK
  <2>1. TaskOK(u, observing_as, index[u], stack[u], pc[u], curTask[u])
    BY <1>0 DEF Tasks
  <2>2. index[u] \in StartIndex(u) .. EndIndex(u) /\ index[u] = EndIndex(u)
    BY <2>1 DEF TaskOK
  <2> QED
    BY <2>2, <1>1, <1>3 DEF TaskOK
<1>5. (PastCopied /\ CopiedPast)'
  BY <1>0, CopiedStep
<1>6. ClaimsVisited'
  BY <1>0, ClaimsStep DEF claims
<1>7. Pairs'
  <2>1. \A u \in Threads : \A l, m : ~Meets(stack[u], pc[u], l, m)
    BY <1>1 DEF Meets
  <2> QED
    BY <2>1, <1>0, <1>2 DEF Pairs
<1>8. Starting = {} /\ Starting' = {}
  BY <1>1, <1>2, <1>3 DEF Starting
<1>9. \A k : Open(k)' = Open(k) /\ Counted(k)' = Counted(k)
  BY <1>2, <1>8 DEF Open, Counted
<1>10. (CountBound /\ CountExact /\ StartedHasNode)'
  BY <1>0, <1>8, <1>9 DEF CountBound, CountExact, StartedHasNode
<1> QED
  BY <1>4, <1>5, <1>6, <1>7, <1>10 DEF MiningInv

\* Nothing changes.
LEMMA MiningStutter ==
  ASSUME MinerInv, MiningInv, UNCHANGED work PROVE MiningInv'
<1>0. /\ ThreadsOK /\ PatternsOK /\ ClaimsOK
      /\ Tasks /\ PastCopied /\ CopiedPast /\ ClaimsVisited /\ Pairs /\ CountBound /\ CountExact /\ StartedHasNode
  BY DEF MinerInv, TypeOK, MiningInv
<1>1. UNCHANGED <<THREAD_NUM, index, pc, stack, curTask, observing_as, nodes, all_thread_ExtractedLinks_pergram, visits>>
  BY DEF work, mined, claims
<1>2. Threads' = Threads /\ \A u \in Threads : StartIndex(u)' = StartIndex(u) /\ EndIndex(u)' = EndIndex(u)
  BY <1>1 DEF Threads, StartIndex, EndIndex, linksPerThread
<1>3. Tasks' /\ (PastCopied /\ CopiedPast)' /\ ClaimsVisited' /\ Pairs'
  BY <1>0, <1>1, <1>2, CopiedStep, ClaimsStep DEF Tasks, TaskOK, Pairs
<1>4. Starting' = Starting
  BY <1>1, <1>2 DEF Starting
<1>5. \A k : Open(k)' = Open(k) /\ Counted(k)' = Counted(k)
  BY <1>1, <1>2, <1>4 DEF Open, Counted
<1>6. (CountBound /\ CountExact /\ StartedHasNode)'
  BY <1>0, <1>1, <1>4, <1>5 DEF CountBound, CountExact, StartedHasNode
<1> QED
  BY <1>3, <1>6 DEF MiningInv

\* A range ends no earlier than it starts.
LEMMA RangeOrder ==
  ASSUME THREAD_NUM \in 1 .. MaxThreads, NEW t \in Threads
  PROVE  StartIndex(t) \in Int /\ EndIndex(t) \in Int /\ StartIndex(t) <= EndIndex(t)
<1>1. LinkNum \in Nat /\ THREAD_NUM \in Nat /\ THREAD_NUM > 0 /\ t \in Nat
  BY MinerAssumption DEF Threads
<1>2. StartIndex(t) \in 1 .. LinkNum + 1 /\ EndIndex(t) \in 1 .. LinkNum + 1
  BY RangeFacts
<1> DEFINE q == LinkNum \div THREAD_NUM
<1>3. q \in Nat
  BY <1>1
<1>4. StartIndex(t) = q * t + 1 /\ EndIndex(t) \in {LinkNum + 1, q * (t + 1) + 1}
  BY DEF StartIndex, EndIndex, linksPerThread
<1> HIDE DEF q
<1>5. q * (t + 1) = q * t + q /\ q * t \in Nat
  BY <1>1, <1>3
<1> QED
  BY <1>1, <1>2, <1>3, <1>4, <1>5

\* Nothing is copied and no call made at the start.
LEMMA InitMining ==
  ASSUME Init PROVE MiningInv
<1>1. THREAD_NUM \in 1 .. MaxThreads /\ index = [t \in Threads |-> StartIndex(t)] /\ stack = [t \in Threads |-> <<>>]
      /\ pc = [t \in Threads |-> "link"] /\ observing_as = {} /\ nodes = <<>>
      /\ all_thread_ExtractedLinks_pergram = [g \in 1 .. LinkNum + 1 |-> {}]
  BY DEF Init
<1>2. \A t \in Threads : StartIndex(t) \in Int /\ EndIndex(t) \in Int /\ StartIndex(t) <= EndIndex(t)
  BY <1>1, RangeOrder
<1>3. Tasks
  <2>1. Len(<<>>) # 1
    OBVIOUS
  <2> QED
    BY <2>1, <1>1, <1>2 DEF Tasks, TaskOK
<1>4. PastCopied
  BY <1>1, <1>2 DEF PastCopied
<1>5. CopiedPast /\ ClaimsVisited /\ Pairs
  BY <1>1 DEF CopiedPast, ClaimsVisited, Pairs
<1>6. CountBound /\ CountExact /\ StartedHasNode
  BY <1>1 DEF CountBound, CountExact, StartedHasNode
<1> QED
  BY <1>3, <1>4, <1>5, <1>6 DEF MiningInv

\* The inductive invariant of mining: a thread in its task is still to come
\* to every link that shares a node with its own, unless the pair has been
\* entered, and a count is that of the tasks that have found the pattern.
THEOREM MiningInvariant == Spec => []MiningInv
<1>1. Init => MiningInv
  BY InitMining
<1>2. MinerInv /\ MinerInv' /\ MiningInv /\ [Next]_vars => MiningInv'
  <2> SUFFICES ASSUME MinerInv, MinerInv', MiningInv, [Next]_vars PROVE MiningInv'
    OBVIOUS
  <2>1. ASSUME NEW t \in 0 .. MaxThreads - 1, t \in Threads, MinerStep(t) PROVE MiningInv'
    <3>1. CASE NextLink(t)
      <4>1. CASE index[t] \in IgnoredLinks
        BY <2>1, <3>1, <4>1, IgnoredMining
      <4>2. CASE index[t] \notin IgnoredLinks
        BY <2>1, <3>1, <4>2, CopiedMining
      <4> QED
        BY <4>1, <4>2
    <3>2. CASE ThreadEnds(t)      BY <2>1, <3>2, ThreadEndsMining
    <3>3. CASE ExtractPattern(t)  BY <2>1, <3>3, ExtractPatternMining
    <3>4. CASE FillNode(t)        BY <2>1, <3>4, FillNodeMining
    <3>5. CASE AddSuperPattern(t) BY <2>1, <3>5, AddSuperPatternMining
    <3>6. CASE NextNode(t)        BY <2>1, <3>6, NextNodeMining
    <3>7. CASE EndCall(t)         BY <2>1, <3>7, EndCallMining
    <3>8. CASE TryLink(t)         BY <2>1, <3>8, TryLinkMining
    <3>9. CASE AddClaim(t)        BY <2>1, <3>9, AddClaimMining
    <3>10. CASE EvaluateNext(t)
      <4>1. /\ phase = "evaluating" /\ phase' = "evaluating" /\ Threads' = Threads
            /\ UNCHANGED <<THREAD_NUM, index, stack, curTask, observing_as, nodes, claims, visits>>
        BY <3>10 DEF EvaluateNext, mined, Threads
      <4>2. (\A u \in Threads : pc[u] \in {"next", "end"}) /\ \A u \in Threads : pc'[u] \in {"next", "end"}
        BY <4>1 DEF MinerInv, Phases
      <4> QED
        BY <4>1, <4>2, JoinedStep
    <3>11. CASE CheckRelation(t)  BY <2>1, <3>11, CheckRelationMining
    <3> QED
      BY <2>1, <3>1, <3>2, <3>3, <3>4, <3>5, <3>6, <3>7, <3>8, <3>9, <3>10, <3>11 DEF MinerStep
  <2>2. CASE StartEvaluation \/ NextGram
    <3>1. /\ \A u \in Threads : pc[u] = "end" /\ phase' # "mining" /\ Threads' = Threads
          /\ UNCHANGED <<THREAD_NUM, index, stack, curTask, observing_as, nodes, claims, visits>>
      BY <2>2 DEF StartEvaluation, NextGram, mined, Threads
    <3>2. \A u \in Threads : pc'[u] \in {"next", "end"}
      BY <3>1 DEF MinerInv, Phases
    <3> QED
      BY <3>1, <3>2, JoinedStep
  <2>3. CASE UNCHANGED work
    BY <2>3, MiningStutter
  <2>4. Step \/ UNCHANGED work
    BY DEF Next, Over, OutOfBounds, vars
  <2> QED
    BY <2>1, <2>2, <2>3, <2>4 DEF Step
<1> QED
  BY <1>1, <1>2, MinerInvariant, PTL DEF Spec

\* What has been copied when the threads have been joined.
LEMMA MinedFacts ==
  ASSUME MinerInv, MiningInv, Mined
  PROVE  observing_as = Links \ IgnoredLinks /\ \A t \in Threads : stack[t] = <<>>
<1>0. ThreadsOK /\ PatternsOK /\ Calls /\ Phases /\ Tasks /\ PastCopied
  BY DEF MinerInv, TypeOK, MiningInv
<1>1. \A t \in Threads : pc[t] \in {"next", "end"}
  BY <1>0 DEF Phases, Mined
<1>2. \A t \in Threads : stack[t] = <<>>
  BY <1>0, <1>1 DEF Calls, CallsOK
<1>3. \A t \in Threads : index[t] = EndIndex(t)
  BY <1>0, <1>1 DEF Tasks, TaskOK
<1>4. ASSUME NEW l \in Links \ IgnoredLinks PROVE l \in observing_as
  <2>1. PICK t \in Threads : l \in StartIndex(t) .. EndIndex(t) - 1
    BY <1>0, RangesCover DEF ThreadsOK
  <2> QED
    BY <2>1, <1>0, <1>3 DEF PastCopied
<1> QED
  BY <1>0, <1>2, <1>4 DEF PatternsOK

\* Two links that share a node are entered together by some thread, however
\* the copies, the checks of the claims and addThreadExtractedLinks interleave,
\* and whatever claims are dropped from the lists: of two threads that leave a
\* pair to a claim one has entered it.
THEOREM PairsSafety == Spec => []NoPairMissed
<1>1. MinerInv /\ MiningInv => NoPairMissed
  <2> SUFFICES ASSUME MinerInv, MiningInv, Mined, MAX_GRAM > 1,
                      NEW l \in Links \ IgnoredLinks, NEW m \in Links \ IgnoredLinks, SharesNode(l, m)
               PROVE  visits[{l, m}] > 0
    BY DEF NoPairMissed
  <2>1. observing_as = Links \ IgnoredLinks /\ \A t \in Threads : stack[t] = <<>>
    BY MinedFacts
  <2>2. \A t \in Threads : ~Meets(stack[t], pc[t], l, m) /\ ~Meets(stack[t], pc[t], m, l)
    BY <2>1 DEF Meets
  <2> QED
    BY <2>1, <2>2 DEF MiningInv, Pairs
<1> QED
  BY <1>1, MinerInvariant, MiningInvariant, PTL

\* A pattern is counted at most once for a link, and a one-link pattern exactly
\* once for each link it matches: allNewMinedPatternsCurTask is cleared for
\* every link and uniqueKeyLock covers the lookup and the count.
THEOREM CountsSafety == Spec => []OneGramCountsExact
<1>1. MinerInv /\ MiningInv => OneGramCountsExact
  <2> SUFFICES ASSUME MinerInv, MiningInv, Mined, NEW n \in DOMAIN nodes
               PROVE  /\ nodes[n].count <= Cardinality(Links \ IgnoredLinks)
                      /\ nodes[n].size = 1 =>
                           nodes[n].count = Cardinality({l \in Links \ IgnoredLinks : PatternOf({l}) = nodes[n].key})
    BY DEF OneGramCountsExact
  <2>0. PatternsOK /\ SizeOfKey /\ CountBound /\ CountExact
    BY DEF MinerInv, TypeOK, NodesInv, MiningInv
  <2>1. observing_as = Links \ IgnoredLinks /\ \A t \in Threads : stack[t] = <<>>
    BY MinedFacts
  <2>2. Starting = {} /\ \A k : Open(k) = {}
    <3>1. Len(<<>>) # 1
      OBVIOUS
    <3> QED
      BY <3>1, <2>1 DEF Starting, Open
  <2>3. PICK i \in Instances : nodes[n].key = PatternOf(i)
    <3>1. nodes[n] \in HTreeNode
      BY <2>0 DEF PatternsOK
    <3> QED
      BY <3>1 DEF HTreeNode
  <2>4. nodes[n].count <= Cardinality(Links \ IgnoredLinks)
    <3>1. PatternOf(i) \in Keys /\ observing_as \ Open(PatternOf(i)) = Links \ IgnoredLinks
      BY <2>1, <2>2 DEF Keys
    <3> QED
      BY <3>1, <2>0, <2>3 DEF CountBound
  <2>5. ASSUME nodes[n].size = 1
        PROVE  nodes[n].count = Cardinality({l \in Links \ IgnoredLinks : PatternOf({l}) = nodes[n].key})
    <3>1. Cardinality(i) = 1 /\ IsFiniteSet(i)
      BY <2>0, <2>3, <2>5, InstanceFacts DEF SizeOfKey
    <3>2. PICK l : i = {l}
      BY <3>1, FS_Singleton
    <3>3. l \in Links
      BY <3>2 DEF Instances
    <3>4. Counted(PatternOf({l})) = {a \in Links \ IgnoredLinks : PatternOf({a}) = nodes[n].key}
      BY <3>2, <2>1, <2>2, <2>3 DEF Counted
    <3> QED
      BY <3>2, <3>3, <3>4, <2>0, <2>3 DEF CountExact
  <2> QED
    BY <2>4, <2>5
<1> QED
  BY <1>1, MinerInvariant, MiningInvariant, PTL

=============================================================================
