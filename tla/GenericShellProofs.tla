------------------------ MODULE GenericShellProofs ------------------------
(***************************************************************************)
(* Proofs about GenericShell, for any number of expressions and controls   *)
(* and any choice of lines the client may send.                            *)
(***************************************************************************)
EXTENDS GenericShell, TLAPS

\* Where a thread is inside poll_output(), it is at one of its calls of it.
CallsMatch ==
    /\ call["handler"] = "none"
    /\ call["eval"] # "none" <=> pc["eval"] \in {"drainPolling", "endPolling"}
    /\ call["poll"] # "none" <=> pc["poll"] \in {"polling", "lastPolling"}

\* The handler has begun to leave or to destroy the shell: it takes no line
\* any more.
LeavingStates == {"leave", "dtor", "destroy", "cancel", "join", "gone"}

\* The evaluation thread past cancel_reset() and not evaluating.
DrainStates ==
    {"joinPoll", "drain", "drainPolling", "drainTest", "drainPop",
     "endPolling", "endTest", "done"}

\* Who started whom, and who has told whom to stop: the polling thread is
\* the child of the evaluation thread, the queue is cancelled and the flag
\* raised only by a handler that is leaving, and the evaluation thread goes
\* past its loop only then.
Lifetimes ==
    /\ pc["handler"] \in {"spin", "discipline", "discard", "discardPop", "interrupt",
                          "interruptFinish", "interruptPrompt"} => pc["eval"] # "none"
    /\ pc["poll"] = "none" <=> pc["eval"] \in {"none", "init"}
    /\ selfDestruct \/ canceled => pc["handler"] \in LeavingStates
    /\ pc["eval"] = "reset" \/ draining => pc["handler"] \in LeavingStates
    /\ pc["eval"] \in DrainStates => draining
    /\ draining => pc["eval"] \in DrainStates \cup {"start", "begin", "evaluate"}
    /\ draining /\ pc["eval"] # "joinPoll" => pc["poll"] = "done"
    /\ pc["handler"] = "gone" => pc["eval"] \in {"none", "done"}

\* Between the wait for the last evaluation and the start of the next nobody
\* can withdraw what the wait has seen.
DoneHolds == pc["eval"] \in {"pop", "start", "drainPop"} => evalDone

\* Which expression is where: the evaluated ones, the one in hand and the
\* queued ones are in the order they were sent, and with the discarded ones
\* they are all that were sent.
InOrder ==
    /\ \A i, j \in 1..Len(evaluated) : i < j => evaluated[i] < evaluated[j]
    /\ \A i, j \in 1..Len(evalque) : i < j => evalque[i] < evalque[j]
    /\ \A i \in 1..Len(evaluated), j \in 1..Len(evalque) : evaluated[i] < evalque[j]
    /\ in # 0 => /\ \A i \in 1..Len(evaluated) : evaluated[i] < in
                 /\ \A j \in 1..Len(evalque) : in < evalque[j]

Has(s, e) == \E i \in 1..Len(s) : s[i] = e
Evaluated(e) == Has(evaluated, e)
Queued(e) == Has(evalque, e)

Accounted ==
    \A e \in Exprs : e <= pushed <=> Evaluated(e) \/ Queued(e) \/ e = in \/ e \in discarded

\* What the evaluation thread's place says of the queue and of its hand.
HandAndQueue ==
    /\ in # 0 <=> pc["eval"] \in {"start", "begin", "evaluate"}
    /\ pc["eval"] \in {"drainPolling", "drainTest", "drainPop"} => evalque # <<>>
    /\ pc["eval"] \in {"endPolling", "endTest", "done"} => evalque = <<>>
    /\ pc["eval"] = "none" => pushed = 0

\* The inductive invariant.
ShellInv ==
    TypeOK /\ CallsMatch /\ Lifetimes /\ DoneHolds /\ HandAndQueue /\ InOrder /\ Accounted

\* What taking the first element of a queue leaves.
LEMMA FirstAndRest ==
    ASSUME NEW S, NEW q \in Seq(S), q # <<>>
    PROVE  /\ Len(q) \in Nat \ {0}
           /\ Head(q) \in S /\ Head(q) = q[1]
           /\ Tail(q) \in Seq(S)
           /\ Len(Tail(q)) = Len(q) - 1
           /\ \A i \in 1..Len(q) - 1 : Tail(q)[i] = q[i + 1]
OBVIOUS

\* What is in a queue is its first element or is in the rest.
LEMMA InFirstOrRest ==
    ASSUME NEW S, NEW q \in Seq(S), q # <<>>, NEW e
    PROVE  Has(q, e) <=> e = Head(q) \/ Has(Tail(q), e)
<1>1. /\ Len(q) \in Nat \ {0} /\ Head(q) = q[1] /\ Len(Tail(q)) = Len(q) - 1
      /\ \A i \in 1..Len(q) - 1 : Tail(q)[i] = q[i + 1]
  BY FirstAndRest
<1>2. ASSUME NEW i \in 1..Len(q), q[i] = e, i # 1
      PROVE  i - 1 \in 1..Len(Tail(q)) /\ Tail(q)[i - 1] = e
  BY <1>1, <1>2
<1>3. ASSUME NEW i \in 1..Len(Tail(q)), Tail(q)[i] = e
      PROVE  i + 1 \in 1..Len(q) /\ q[i + 1] = e
  BY <1>1, <1>3
<1>4. 1 \in 1..Len(q)
  BY <1>1
<1> QED
  BY <1>1, <1>2, <1>3, <1>4 DEF Has

\* No step of any thread writes anything but a Boolean to a flag.
LEMMA FlagsStep ==
    ASSUME ShellInv, Next
    PROVE  FlagsOK'
<1> USE DEF ShellInv, TypeOK, FlagsOK, At, Goto, handlerVars, queueVars, loopVars,
            evaluatorVars
<1>1. CASE LineDiscipline
  BY <1>1 DEF LineDiscipline, Spin, PushExpr, EraseLine, DiscardTest, DiscardPop, Interrupt,
              InterruptFinish, InterruptPrompt, Leave, LeaveCancel
<1>2. CASE Destroy
  BY <1>2 DEF Destroy, DtorWait, DtorFlag, DtorCancel, DtorJoin, EvalThreadJoined
<1>3. CASE Close
  BY <1>3 DEF Close
<1>4. ASSUME NEW k \in Lines, EvalLine(k)
      PROVE  FlagsOK'
  BY <1>4 DEF EvalLine
<1>5. CASE PollStart \/ PollLoop \/ PollLast
  BY <1>5 DEF PollStart, PollLoop, PollLast, CallPoll
<1>6. CASE EvalInit \/ WhileNotDone \/ EvalPop \/ StartEval \/ BeginEval \/ EvalExpr
  BY <1>6 DEF EvalInit, WhileNotDone, LastFinished, EvalPop, StartEval, BeginEval, EvalExpr
<1>7. CASE \/ EvalCheck \/ CancelReset \/ JoinPoll \/ DrainTest \/ DrainPollAgain
           \/ DrainPop \/ EndTest
  BY <1>7 DEF EvalCheck, CancelReset, JoinPoll, PollThreadJoined, DrainTest, DrainPollAgain,
              DrainPop, EndTest, CallPoll
<1>8. ASSUME NEW t \in {"eval", "poll"}, Poll(t)
      PROVE  FlagsOK'
  BY <1>8 DEF Poll, PollOutput, PollResult, PollTest, PollFinish, PollReturns, AfterPoll
<1>9. CASE Terminated
  BY <1>9 DEF Terminated, vars
<1> QED
  BY <1>1, <1>2, <1>3, <1>4, <1>5, <1>6, <1>7, <1>8, <1>9
  DEF Next, Handler, EvalThread, PollThread

\* No step takes a thread to a place that is not one of its own: in particular
\* a return from poll_output() goes to the loop of its caller.
LEMMA PlacesStep ==
    ASSUME ShellInv, Next
    PROVE  PlacesOK'
<1> USE ShellAssumption DEF ShellInv, TypeOK, PlacesOK, CallsMatch, At, Goto, handlerVars,
           queueVars, loopVars, evaluatorVars, Threads, HandlerStates, PollStates, EvalStates
<1>1. CASE LineDiscipline
  <2>1. CASE Spin
    BY <2>1 DEF Spin
  <2>2. CASE PushExpr
    BY <2>2 DEF PushExpr
  <2>3. CASE EraseLine
    BY <2>3 DEF EraseLine
  <2>4. CASE DiscardTest
    BY <2>4 DEF DiscardTest
  <2>5. CASE DiscardPop
    BY <2>5 DEF DiscardPop
  <2>6. CASE Interrupt
    BY <2>6 DEF Interrupt
  <2>7. CASE InterruptFinish
    BY <2>7 DEF InterruptFinish
  <2>8. CASE InterruptPrompt
    BY <2>8 DEF InterruptPrompt
  <2>9. CASE Leave
    BY <2>9 DEF Leave
  <2>10. CASE LeaveCancel
    BY <2>10 DEF LeaveCancel
  <2> QED
    BY <1>1, <2>1, <2>2, <2>3, <2>4, <2>5, <2>6, <2>7, <2>8, <2>9, <2>10 DEF LineDiscipline
<1>2. CASE Destroy
  BY <1>2 DEF Destroy, DtorWait, DtorFlag, DtorCancel, DtorJoin, EvalThreadJoined
<1>3. CASE Close
  BY <1>3 DEF Close
<1>4. ASSUME NEW k \in Lines, EvalLine(k)
      PROVE  PlacesOK'
  BY <1>4 DEF EvalLine
<1>5. CASE PollStart \/ PollLoop \/ PollLast
  BY <1>5 DEF PollStart, PollLoop, PollLast, CallPoll
<1>6. CASE EvalInit \/ WhileNotDone \/ EvalPop \/ StartEval \/ BeginEval \/ EvalExpr
  BY <1>6 DEF EvalInit, WhileNotDone, LastFinished, EvalPop, StartEval, BeginEval, EvalExpr
<1>7. CASE \/ EvalCheck \/ CancelReset \/ JoinPoll \/ DrainTest \/ DrainPollAgain
           \/ DrainPop \/ EndTest
  BY <1>7 DEF EvalCheck, CancelReset, JoinPoll, PollThreadJoined, DrainTest, DrainPollAgain,
              DrainPop, EndTest, CallPoll
<1>8. ASSUME NEW t \in {"eval", "poll"}, Poll(t)
      PROVE  PlacesOK'
  BY <1>8 DEF Poll, PollOutput, PollResult, PollTest, PollFinish, PollReturns, AfterPoll
<1>9. CASE Terminated
  BY <1>9 DEF Terminated, vars
<1> QED
  BY <1>1, <1>2, <1>3, <1>4, <1>5, <1>6, <1>7, <1>8, <1>9
  DEF Next, Handler, EvalThread, PollThread

\* No step takes an expression from an empty queue.
LEMMA DataTypeStep ==
    ASSUME ShellInv, Next
    PROVE  DataOK'
<1> USE ShellAssumption DEF ShellInv, TypeOK, DataOK, HandAndQueue, At, Goto, handlerVars,
           queueVars, loopVars, evaluatorVars, Exprs, AllLines
<1>0. evalque # <<>> => Head(evalque) \in Exprs /\ Tail(evalque) \in Seq(Exprs)
  BY FirstAndRest
<1>1. CASE LineDiscipline
  <2>1. CASE Spin
    BY <2>1 DEF Spin
  <2>2. CASE PushExpr
    BY <2>2 DEF PushExpr
  <2>3. CASE EraseLine
    BY <2>3 DEF EraseLine
  <2>4. CASE DiscardTest
    BY <2>4 DEF DiscardTest
  <2>5. CASE DiscardPop
    BY <2>5, <1>0 DEF DiscardPop
  <2>6. CASE Interrupt
    BY <2>6 DEF Interrupt
  <2>7. CASE InterruptFinish
    BY <2>7 DEF InterruptFinish
  <2>8. CASE InterruptPrompt
    BY <2>8 DEF InterruptPrompt
  <2>9. CASE Leave
    BY <2>9 DEF Leave
  <2>10. CASE LeaveCancel
    BY <2>10 DEF LeaveCancel
  <2> QED
    BY <1>1, <2>1, <2>2, <2>3, <2>4, <2>5, <2>6, <2>7, <2>8, <2>9, <2>10 DEF LineDiscipline
<1>2. CASE Destroy
  BY <1>2 DEF Destroy, DtorWait, DtorFlag, DtorCancel, DtorJoin, EvalThreadJoined
<1>3. CASE Close
  BY <1>3 DEF Close
<1>4. ASSUME NEW k \in Lines, EvalLine(k)
      PROVE  DataOK'
  BY <1>4 DEF EvalLine
<1>5. CASE PollStart \/ PollLoop \/ PollLast
  BY <1>5 DEF PollStart, PollLoop, PollLast, CallPoll
<1>6. CASE EvalInit \/ WhileNotDone \/ EvalPop \/ StartEval \/ BeginEval \/ EvalExpr
  <2>1. CASE EvalInit
    BY <2>1 DEF EvalInit
  <2>2. CASE WhileNotDone
    BY <2>2 DEF WhileNotDone, LastFinished
  <2>3. CASE EvalPop
    BY <2>3, <1>0 DEF EvalPop
  <2>4. CASE StartEval
    BY <2>4 DEF StartEval
  <2>5. CASE BeginEval
    BY <2>5 DEF BeginEval
  <2>6. CASE EvalExpr
    BY <2>6 DEF EvalExpr
  <2> QED
    BY <1>6, <2>1, <2>2, <2>3, <2>4, <2>5, <2>6
<1>7. CASE \/ EvalCheck \/ CancelReset \/ JoinPoll \/ DrainTest \/ DrainPollAgain
           \/ DrainPop \/ EndTest
  BY <1>0, <1>7 DEF EvalCheck, CancelReset, JoinPoll, PollThreadJoined, DrainTest, DrainPollAgain,
              DrainPop, EndTest, CallPoll
<1>8. ASSUME NEW t \in {"eval", "poll"}, Poll(t)
      PROVE  DataOK'
  BY <1>8 DEF Poll, PollOutput, PollResult, PollTest, PollFinish, PollReturns, AfterPoll
<1>9. CASE Terminated
  BY <1>9 DEF Terminated, vars
<1> QED
  BY <1>1, <1>2, <1>3, <1>4, <1>5, <1>6, <1>7, <1>8, <1>9
  DEF Next, Handler, EvalThread, PollThread

\* No step ends, restarts or overtakes a thread out of turn.
LEMMA ControlStep ==
    ASSUME ShellInv, Next
    PROVE  (CallsMatch /\ Lifetimes /\ DoneHolds)'
<1> USE ShellAssumption DEF ShellInv, TypeOK, FlagsOK, PlacesOK, DataOK, CallsMatch,
           Lifetimes, DoneHolds, HandAndQueue, LeavingStates,
           DrainStates, At, Goto, handlerVars, queueVars, loopVars, evaluatorVars,
           Threads, Exprs, AllLines, HandlerStates, PollStates, EvalStates
<1>1. CASE LineDiscipline
  <2>1. CASE Spin
    BY <2>1 DEF Spin
  <2>2. CASE PushExpr
    BY <2>2 DEF PushExpr
  <2>3. CASE EraseLine
    BY <2>3 DEF EraseLine
  <2>4. CASE DiscardTest
    BY <2>4 DEF DiscardTest
  <2>5. CASE DiscardPop
    BY <2>5 DEF DiscardPop
  <2>6. CASE Interrupt
    BY <2>6 DEF Interrupt
  <2>7. CASE InterruptFinish
    BY <2>7 DEF InterruptFinish
  <2>8. CASE InterruptPrompt
    BY <2>8 DEF InterruptPrompt
  <2>9. CASE Leave
    BY <2>9 DEF Leave
  <2>10. CASE LeaveCancel
    BY <2>10 DEF LeaveCancel
  <2> QED
    BY <1>1, <2>1, <2>2, <2>3, <2>4, <2>5, <2>6, <2>7, <2>8, <2>9, <2>10 DEF LineDiscipline
<1>2. CASE Destroy
  BY <1>2, SMTT(30) DEF Destroy, DtorWait, DtorFlag, DtorCancel, DtorJoin, EvalThreadJoined
<1>3. CASE Close
  BY <1>3 DEF Close
<1>4. ASSUME NEW k \in Lines, EvalLine(k)
      PROVE  (CallsMatch /\ Lifetimes /\ DoneHolds)'
  BY <1>4 DEF EvalLine
<1>5. CASE PollStart \/ PollLoop \/ PollLast
  BY <1>5 DEF PollStart, PollLoop, PollLast, CallPoll
<1>6. CASE EvalInit \/ WhileNotDone \/ EvalPop \/ StartEval \/ BeginEval \/ EvalExpr
  <2>1. CASE EvalInit
    BY <2>1 DEF EvalInit
  <2>2. CASE WhileNotDone
    BY <2>2 DEF WhileNotDone, LastFinished
  <2>3. CASE EvalPop
    BY <2>3 DEF EvalPop
  <2>4. CASE StartEval
    BY <2>4 DEF StartEval
  <2>5. CASE BeginEval
    BY <2>5 DEF BeginEval
  <2>6. CASE EvalExpr
    BY <2>6 DEF EvalExpr
  <2> QED
    BY <1>6, <2>1, <2>2, <2>3, <2>4, <2>5, <2>6
<1>7. CASE \/ EvalCheck \/ CancelReset \/ JoinPoll \/ DrainTest \/ DrainPollAgain
           \/ DrainPop \/ EndTest
  <2>1. CASE EvalCheck
    BY <2>1 DEF EvalCheck
  <2>2. CASE CancelReset
    BY <2>2 DEF CancelReset
  <2>3. CASE JoinPoll
    BY <2>3 DEF JoinPoll, PollThreadJoined
  <2>4. CASE DrainTest
    BY <2>4 DEF DrainTest, CallPoll
  <2>5. CASE DrainPollAgain
    BY <2>5 DEF DrainPollAgain, CallPoll
  <2>6. CASE DrainPop
    BY <2>6 DEF DrainPop
  <2>7. CASE EndTest
    BY <2>7 DEF EndTest, CallPoll
  <2> QED
    BY <1>7, <2>1, <2>2, <2>3, <2>4, <2>5, <2>6, <2>7
<1>8. ASSUME NEW t \in {"eval", "poll"}, Poll(t)
      PROVE  (CallsMatch /\ Lifetimes /\ DoneHolds)'
  BY <1>8, SMTT(30) DEF Poll, PollOutput, PollResult, PollTest, PollFinish, PollReturns, AfterPoll
<1>9. CASE Terminated
  BY <1>9 DEF Terminated, vars
<1> QED
  BY <1>1, <1>2, <1>3, <1>4, <1>5, <1>6, <1>7, <1>8, <1>9
  DEF Next, Handler, EvalThread, PollThread

\* The queue the evaluation thread found empty, or not, while it drains stays
\* so until the thread itself changes it.
LEMMA HandStep ==
    ASSUME ShellInv, Next
    PROVE  HandAndQueue'
<1> USE ShellAssumption DEF ShellInv, TypeOK, FlagsOK, PlacesOK, DataOK, CallsMatch,
           Lifetimes, DoneHolds, HandAndQueue, LeavingStates,
           DrainStates, At, Goto, handlerVars, queueVars, loopVars, evaluatorVars,
           Threads, Exprs, AllLines, HandlerStates, PollStates, EvalStates
<1>1. CASE LineDiscipline
  BY <1>1, ZenonT(30) DEF LineDiscipline, Spin, PushExpr, EraseLine, DiscardTest, DiscardPop, Interrupt,
              InterruptFinish, InterruptPrompt, Leave, LeaveCancel
<1>2. CASE Destroy
  BY <1>2 DEF Destroy, DtorWait, DtorFlag, DtorCancel, DtorJoin, EvalThreadJoined
<1>3. CASE Close
  BY <1>3 DEF Close
<1>4. ASSUME NEW k \in Lines, EvalLine(k)
      PROVE  HandAndQueue'
  BY <1>4 DEF EvalLine
<1>5. CASE PollStart \/ PollLoop \/ PollLast
  BY <1>5 DEF PollStart, PollLoop, PollLast, CallPoll
<1>6. CASE EvalInit \/ WhileNotDone \/ EvalPop \/ StartEval \/ BeginEval \/ EvalExpr
  <2>1. CASE EvalInit
    BY <2>1 DEF EvalInit
  <2>2. CASE WhileNotDone
    BY <2>2 DEF WhileNotDone, LastFinished
  <2>3. CASE EvalPop
    BY <2>3 DEF EvalPop
  <2>4. CASE StartEval
    BY <2>4 DEF StartEval
  <2>5. CASE BeginEval
    BY <2>5 DEF BeginEval
  <2>6. CASE EvalExpr
    BY <2>6 DEF EvalExpr
  <2> QED
    BY <1>6, <2>1, <2>2, <2>3, <2>4, <2>5, <2>6
<1>7. CASE \/ EvalCheck \/ CancelReset \/ JoinPoll \/ DrainTest \/ DrainPollAgain
           \/ DrainPop \/ EndTest
  <2>1. CASE EvalCheck
    BY <2>1 DEF EvalCheck
  <2>2. CASE CancelReset
    BY <2>2 DEF CancelReset
  <2>3. CASE JoinPoll
    BY <2>3 DEF JoinPoll, PollThreadJoined
  <2>4. CASE DrainTest
    BY <2>4 DEF DrainTest, CallPoll
  <2>5. CASE DrainPollAgain
    BY <2>5 DEF DrainPollAgain, CallPoll
  <2>6. CASE DrainPop
    BY <2>6 DEF DrainPop
  <2>7. CASE EndTest
    BY <2>7 DEF EndTest, CallPoll
  <2> QED
    BY <1>7, <2>1, <2>2, <2>3, <2>4, <2>5, <2>6, <2>7
<1>8. ASSUME NEW t \in {"eval", "poll"}, Poll(t)
      PROVE  HandAndQueue'
  BY <1>8 DEF Poll, PollOutput, PollResult, PollTest, PollFinish, PollReturns, AfterPoll
<1>9. CASE Terminated
  BY <1>9 DEF Terminated, vars
<1> QED
  BY <1>1, <1>2, <1>3, <1>4, <1>5, <1>6, <1>7, <1>8, <1>9
  DEF Next, Handler, EvalThread, PollThread

\* The order and the account, when the first expression of the queue is taken
\* in hand.
LEMMA TakeInHand ==
    ASSUME ShellInv, evalque # <<>>, in = 0, in' = Head(evalque), evalque' = Tail(evalque),
           UNCHANGED <<evaluated, pushed, discarded>>
    PROVE  (InOrder /\ Accounted)'
<1> DEFINE q == evalque
<1>1. /\ q \in Seq(Exprs) /\ Len(q) \in Nat \ {0} /\ Head(q) = q[1] /\ q[1] \in Exprs
      /\ Len(Tail(q)) = Len(q) - 1
      /\ \A i \in 1..Len(q) - 1 : Tail(q)[i] = q[i + 1]
  BY FirstAndRest DEF ShellInv, TypeOK, DataOK
<1>2. \A i \in 1..Len(q) : q[i] \in Exprs
  BY <1>1
<1>3. \A i \in 1..Len(evaluated) : evaluated[i] \in Exprs
  BY DEF ShellInv, TypeOK, DataOK
<1>4. \A e \in Exprs : Queued(e) <=> Queued(e)' \/ e = in'
  <2> SUFFICES ASSUME NEW e \in Exprs
               PROVE  Queued(e) <=> Queued(e)' \/ e = in'
    OBVIOUS
  <2>1. Has(evalque, e) <=> e = Head(evalque) \/ Has(Tail(evalque), e)
    BY <1>1, InFirstOrRest
  <2> QED
    BY <2>1 DEF Queued
<1>5. Accounted'
  BY <1>1, <1>4 DEF ShellInv, Accounted, Evaluated, Exprs
<1>6. InOrder'
  BY <1>1, <1>2, <1>3, ShellAssumption DEF ShellInv, InOrder, Exprs
<1> QED
  BY <1>5, <1>6

\* No step reorders, repeats or loses an expression.
LEMMA DataStep ==
    ASSUME ShellInv, Next
    PROVE  (InOrder /\ Accounted)'
<1> USE ShellAssumption DEF ShellInv, handlerVars, queueVars, loopVars, evaluatorVars
<1>0. /\ pushed \in Nat /\ evalque \in Seq(Exprs) /\ evaluated \in Seq(Exprs)
      /\ Exprs \subseteq Nat
      /\ \A i \in 1..Len(evalque) : evalque[i] \in Exprs
      /\ \A i \in 1..Len(evaluated) : evaluated[i] \in Exprs
  <2>1. pushed \in Nat /\ evalque \in Seq(Exprs) /\ evaluated \in Seq(Exprs)
    BY DEF TypeOK, DataOK
  <2> QED
    BY <2>1 DEF Exprs
<1>1. CASE PushExpr
  <2>1. /\ pushed' = pushed + 1 /\ pushed' \in Exprs
        /\ evalque' = Append(evalque, pushed + 1)
        /\ UNCHANGED <<evaluated, in, discarded>>
    BY <1>1 DEF PushExpr, TypeOK, DataOK, Exprs
  <2>2. /\ Len(evalque') = Len(evalque) + 1
        /\ evalque'[Len(evalque) + 1] = pushed + 1
        /\ \A i \in 1..Len(evalque) : evalque'[i] = evalque[i]
    BY <1>0, <2>1
  <2>3. \A e \in Exprs : Queued(e)' <=> Queued(e) \/ e = pushed + 1
    BY <1>0, <2>2 DEF Queued, Has
  <2>4. Accounted'
    BY <1>0, <2>1, <2>3 DEF Accounted, Evaluated, Exprs
  <2>5. /\ \A i \in 1..Len(evalque) : evalque[i] <= pushed
        /\ \A i \in 1..Len(evaluated) : evaluated[i] <= pushed
        /\ in # 0 => in <= pushed
    BY <1>0 DEF Accounted, Queued, Evaluated, Has, TypeOK, DataOK
  <2>6. InOrder'
    <3>1. \A i, j \in 1..Len(evalque') : i < j => evalque'[i] < evalque'[j]
      <4> SUFFICES ASSUME NEW i \in 1..Len(evalque'), NEW j \in 1..Len(evalque'), i < j
                   PROVE  evalque'[i] < evalque'[j]
        OBVIOUS
      <4>0. Len(evalque) \in Nat
        BY <1>0
      <4>1. i \in 1..Len(evalque) /\ evalque'[i] = evalque[i]
        BY <2>2, <4>0
      <4>2. CASE j = Len(evalque) + 1
        <5>1. evalque[i] \in Nat /\ evalque[i] <= pushed
          BY <1>0, <2>5, <4>1
        <5> QED
          BY <1>0, <2>2, <4>1, <4>2, <5>1
      <4>3. CASE j # Len(evalque) + 1
        <5>1. j \in 1..Len(evalque) /\ evalque'[j] = evalque[j]
          BY <2>2, <4>0, <4>3
        <5> QED
          BY <4>1, <5>1 DEF InOrder
      <4> QED
        BY <4>2, <4>3
    <3>2. \A i \in 1..Len(evaluated), j \in 1..Len(evalque') : evaluated[i] < evalque'[j]
      <4> SUFFICES ASSUME NEW i \in 1..Len(evaluated), NEW j \in 1..Len(evalque')
                   PROVE  evaluated[i] < evalque'[j]
        OBVIOUS
      <4>1. evaluated[i] \in Nat /\ evaluated[i] <= pushed
        BY <1>0, <2>5
      <4>2. CASE j = Len(evalque) + 1
        BY <1>0, <2>2, <4>1, <4>2
      <4>3. CASE j # Len(evalque) + 1
        BY <1>0, <2>2, <4>3 DEF InOrder
      <4> QED
        BY <4>2, <4>3
    <3>3. in # 0 => \A j \in 1..Len(evalque') : in < evalque'[j]
      BY <1>0, <2>2, <2>5 DEF InOrder, TypeOK, DataOK
    <3> QED
      BY <2>1, <3>1, <3>2, <3>3 DEF InOrder
  <2> QED
    BY <2>4, <2>6
<1>2. CASE DiscardPop
  <2>1. /\ evalque # <<>> /\ evalque' = Tail(evalque)
        /\ discarded' = discarded \cup {Head(evalque)}
        /\ UNCHANGED <<evaluated, in, pushed>>
    BY <1>2 DEF DiscardPop
  <2>2. /\ Len(evalque) \in Nat \ {0} /\ Head(evalque) = evalque[1]
        /\ Len(evalque') = Len(evalque) - 1
        /\ \A i \in 1..Len(evalque) - 1 : evalque'[i] = evalque[i + 1]
    BY <1>0, <2>1, FirstAndRest
  <2>3. \A e \in Exprs : Queued(e) <=> Queued(e)' \/ e = Head(evalque)
    <3> SUFFICES ASSUME NEW e \in Exprs
                 PROVE  Queued(e) <=> Queued(e)' \/ e = Head(evalque)
      OBVIOUS
    <3>1. Has(evalque, e) <=> e = Head(evalque) \/ Has(Tail(evalque), e)
      BY <1>0, <2>1, InFirstOrRest
    <3> QED
      BY <2>1, <3>1 DEF Queued
  <2>4. Accounted'
    BY <2>1, <2>3 DEF Accounted, Evaluated, Exprs
  <2>5. InOrder'
    BY <1>0, <2>1, <2>2 DEF InOrder
  <2> QED
    BY <2>4, <2>5
<1>3. CASE EvalPop
  <2>1. CASE canceled
    BY <1>3, <2>1 DEF EvalPop, InOrder, Accounted, Evaluated, Queued, Exprs
  <2>2. CASE ~canceled
    <3>1. in = 0
      BY <1>3 DEF EvalPop, HandAndQueue, At
    <3> QED
      BY <1>3, <2>2, <3>1, TakeInHand DEF EvalPop
  <2> QED
    BY <2>1, <2>2
<1>4. CASE DrainPop
  <2>1. CASE canceled
    BY <1>4, <2>1 DEF DrainPop, InOrder, Accounted, Evaluated, Queued, Exprs
  <2>2. CASE ~canceled
    <3>1. in = 0 /\ evalque # <<>>
      BY <1>4 DEF DrainPop, HandAndQueue, At
    <3> QED
      BY <1>4, <2>2, <3>1, TakeInHand DEF DrainPop
  <2> QED
    BY <2>1, <2>2
<1>5. CASE EvalExpr
  <2>1. /\ in \in Exprs /\ in' = 0 /\ evaluated' = Append(evaluated, in)
        /\ UNCHANGED <<evalque, pushed, discarded>>
    BY <1>5 DEF EvalExpr, HandAndQueue, At, TypeOK, DataOK
  <2>2. /\ Len(evaluated') = Len(evaluated) + 1
        /\ evaluated'[Len(evaluated) + 1] = in
        /\ \A i \in 1..Len(evaluated) : evaluated'[i] = evaluated[i]
    BY <1>0, <2>1
  <2>3. \A e \in Exprs : Evaluated(e)' <=> Evaluated(e) \/ e = in
    BY <1>0, <2>2, SMTT(30) DEF Evaluated, Has
  <2>4. Accounted'
    BY <1>0, <2>1, <2>3 DEF Accounted, Queued, Exprs
  <2>5. InOrder'
    BY <1>0, <2>1, <2>2, SMTT(30) DEF InOrder, Exprs
  <2> QED
    BY <2>4, <2>5
<1>6. CASE UNCHANGED <<evalque, evaluated, in, pushed, discarded>>
  BY <1>6 DEF InOrder, Accounted, Evaluated, Queued, Exprs
<1>7. Next => \/ PushExpr \/ DiscardPop \/ EvalPop \/ DrainPop \/ EvalExpr
              \/ UNCHANGED <<evalque, evaluated, in, pushed, discarded>>
  BY DEF Next, Handler, LineDiscipline, Destroy, EvalThread, PollThread, Poll, Terminated,
         vars, Spin, EraseLine, DiscardTest, Interrupt, InterruptFinish, InterruptPrompt,
         Leave, LeaveCancel, DtorWait, DtorFlag, DtorCancel, DtorJoin, Close, EvalLine,
         PollStart, PollLoop, PollLast, EvalInit, WhileNotDone, StartEval, BeginEval,
         EvalCheck, CancelReset, JoinPoll, DrainTest, DrainPollAgain, EndTest,
         PollOutput, PollResult, PollTest, PollFinish
<1> QED
  BY <1>1, <1>2, <1>3, <1>4, <1>5, <1>6, <1>7

\* The invariant holds at first and every step of any thread keeps it.
THEOREM ShellInvariant == Spec => []ShellInv
<1>1. Init => ShellInv
  <2> SUFFICES ASSUME Init
               PROVE  ShellInv
    OBVIOUS
  <2>1. FlagsOK
    BY DEF Init, FlagsOK
  <2>2. PlacesOK
    BY DEF Init, PlacesOK, Threads, HandlerStates, PollStates, EvalStates
  <2>3. DataOK
    BY ShellAssumption DEF Init, DataOK, AllLines
  <2>4. CallsMatch /\ Lifetimes /\ DoneHolds /\ HandAndQueue
    BY DEF Init, CallsMatch, Lifetimes, DoneHolds, HandAndQueue, LeavingStates, DrainStates,
           Threads
  <2>5. InOrder /\ Accounted
    BY DEF Init, InOrder, Accounted, Evaluated, Queued, Has, Exprs
  <2> QED
    BY <2>1, <2>2, <2>3, <2>4, <2>5 DEF ShellInv, TypeOK
<1>2. ShellInv /\ Next => ShellInv'
  BY FlagsStep, PlacesStep, DataTypeStep, ControlStep, HandStep, DataStep DEF ShellInv, TypeOK
<1>3. ShellInv /\ UNCHANGED vars => ShellInv'
  BY DEF ShellInv, vars, handlerVars, queueVars, loopVars, evaluatorVars, TypeOK, FlagsOK,
         PlacesOK, DataOK, CallsMatch, Lifetimes, DoneHolds, HandAndQueue, InOrder,
         Accounted, Evaluated, Queued
<1> QED
  BY <1>1, <1>2, <1>3, PTL DEF Spec

\* Every variable keeps its type.
THEOREM TypeCorrect == Spec => []TypeOK
<1>1. ShellInv => TypeOK
  BY DEF ShellInv
<1> QED
  BY <1>1, ShellInvariant, PTL

\* The assertion of start_eval() holds.
THEOREM StartsWhenDoneSafety == Spec => []StartsWhenDone
<1>1. ShellInv => StartsWhenDone
  BY DEF ShellInv, DoneHolds, StartsWhenDone
<1> QED
  BY <1>1, ShellInvariant, PTL

\* The evaluation thread polls only once pollthr->join() has returned.
THEOREM OnePollerSafety == Spec => []OnePoller
<1>1. ShellInv => OnePoller
  BY DEF ShellInv, CallsMatch, Lifetimes, DrainStates, OnePoller
<1> QED
  BY <1>1, ShellInvariant, PTL

\* The destructor frees the shell only when both of its threads have ended.
THEOREM ThreadsOutlivedSafety == Spec => []ThreadsOutlived
<1>1. ShellInv => ThreadsOutlived
  BY DEF ShellInv, Lifetimes, DrainStates, ThreadsOutlived
<1> QED
  BY <1>1, ShellInvariant, PTL

\* The queue hands out the expressions in order and once, and when the shell is
\* freed each has been evaluated or was thrown away by an interrupt, however
\* the two cancels of the queue fall.
THEOREM NothingLostSafety == Spec => []NothingLost
<1>1. ShellInv => NothingLost
  <2> SUFFICES ASSUME ShellInv
               PROVE  NothingLost
    OBVIOUS
  <2>1. \A i, j \in 1..Len(evaluated) : i < j => evaluated[i] < evaluated[j]
    BY DEF ShellInv, InOrder
  <2>2. ASSUME pc["handler"] = "gone"
        PROVE  {evaluated[i] : i \in 1..Len(evaluated)} \cup discarded = 1..pushed
    <3>1. /\ evaluated \in Seq(Exprs) /\ discarded \subseteq Exprs
          /\ pushed \in 0..MaxExprs /\ in = 0
      BY <2>2 DEF ShellInv, TypeOK, DataOK, Lifetimes, HandAndQueue
    <3>2. \A e \in Exprs : e <= pushed <=> Evaluated(e) \/ e \in discarded
      <4>1. CASE pc["eval"] = "done"
        BY <3>1, <4>1 DEF ShellInv, HandAndQueue, Accounted, Queued, Has, Exprs
      <4>2. CASE pc["eval"] = "none"
        BY <3>1, <4>2 DEF ShellInv, HandAndQueue, Accounted, Queued, Has, Exprs
      <4> QED
        BY <2>2, <4>1, <4>2 DEF ShellInv, Lifetimes
    <3>3. \A i \in 1..Len(evaluated) : evaluated[i] \in Exprs
      BY <3>1
    <3>4. 1..pushed \subseteq Exprs
      BY <3>1, ShellAssumption DEF Exprs
    <3>5. \A e \in Exprs : e \in 1..pushed <=> e <= pushed
      BY <3>1, ShellAssumption DEF Exprs
    <3> QED
      BY <3>1, <3>2, <3>3, <3>4, <3>5 DEF Evaluated, Has
  <2> QED
    BY <2>1, <2>2 DEF NothingLost
<1> QED
  BY <1>1, ShellInvariant, PTL

============================================================================
