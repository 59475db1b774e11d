--------------------------- MODULE GenericShell ---------------------------
(***************************************************************************)
(* An interactive shell on a console (GenericShell, as SchemeShell uses    *)
(* it). Three threads share it: the thread of the connection hands it      *)
(* lines and destroys it, the evaluation thread takes expressions from a   *)
(* queue, and the polling thread fetches results and declares an           *)
(* evaluation finished. The evaluator and the concurrent queue are         *)
(* libraries; they are modelled by how the shell uses them.                *)
(***************************************************************************)
EXTENDS Integers, Sequences

CONSTANTS
    MaxExprs,       \* bound: expressions sent to the shell
    MaxControls,    \* bound: interrupts and erase-lines sent to the shell
    Lines           \* the kinds of line the client may send

AllLines == {"expr", "interrupt", "erase", "eot"}

ASSUME ShellAssumption ==
    /\ MaxExprs \in Nat
    /\ MaxControls \in Nat
    /\ Lines \subseteq AllLines

VARIABLES
    pc,            \* per thread: where it is
    call,          \* per thread: where its call of poll_output() is
    line,          \* the line the handler is dealing with
    pushed,        \* expressions pushed so far, numbered from 1
    controls,      \* interrupts and erase-lines received so far
    evalque,       \* evalque
    canceled,      \* evalque has been cancelled
    in,            \* the expression taken from the queue, or 0
    draining,      \* the evaluation thread is past its main loop
    initDone,      \* _init_done
    selfDestruct,  \* self_destruct
    evalDone,      \* _eval_done
    busy,          \* the evaluator is between begin_eval and its result
    result,        \* expression whose result has not been polled, or 0
    pending,       \* _pending_output is not empty
    evaluated,     \* history: the expressions evaluated, in order
    discarded      \* history: expressions thrown away by an interrupt

handlerVars == <<line, pushed, controls, discarded>>
queueVars == <<evalque, canceled>>
loopVars == <<in, draining, initDone>>
evaluatorVars == <<busy, result, evaluated>>
vars == <<pc, call, handlerVars, queueVars, loopVars, selfDestruct, evalDone,
          evaluatorVars, pending>>

Threads == {"handler", "eval", "poll"}
Exprs == 1..MaxExprs

Init ==
    /\ pc = [handler |-> "idle", eval |-> "none", poll |-> "none"]
    /\ call = [t \in Threads |-> "none"]
    /\ line = "none"
    /\ pushed = 0
    /\ controls = 0
    /\ evalque = <<>>
    /\ canceled = FALSE
    /\ in = 0
    /\ draining = FALSE
    /\ initDone = FALSE
    /\ selfDestruct = FALSE
    /\ evalDone = TRUE
    /\ busy = FALSE
    /\ result = 0
    /\ pending = FALSE
    /\ evaluated = <<>>
    /\ discarded = {}

At(t, l) == pc[t] = l /\ call[t] = "none"
Goto(t, l) == pc' = [pc EXCEPT ![t] = l]

----------------------------------------------------------------------------
(* The thread of the connection: eval(), line_discipline() and the         *)
(* destructors.                                                            *)

\* eval() is called with a line; the first call starts the evaluation
\* thread.
EvalLine(k) ==
    /\ At("handler", "idle")
    /\ k = "expr" => pushed < MaxExprs
    /\ k \in {"interrupt", "erase"} => controls < MaxControls
    /\ line' = k
    /\ pc' = IF pc["eval"] = "none"
             THEN [pc EXCEPT !["handler"] = "spin", !["eval"] = "init"]
             ELSE [pc EXCEPT !["handler"] = "discipline"]
    /\ controls' = controls + (IF k \in {"interrupt", "erase"} THEN 1 ELSE 0)
    /\ UNCHANGED <<call, pushed, discarded, queueVars, loopVars, selfDestruct, evalDone>>
    /\ UNCHANGED <<evaluatorVars, pending>>

\* while (not _init_done)
Spin ==
    /\ At("handler", "spin")
    /\ initDone
    /\ Goto("handler", "discipline")
    /\ UNCHANGED <<call, handlerVars, queueVars, loopVars, selfDestruct, evalDone>>
    /\ UNCHANGED <<evaluatorVars, pending>>

\* The expression is queued. So is an end-of-transmission in the middle of
\* an expression.
PushExpr ==
    /\ At("handler", "discipline")
    /\ line \in {"expr", "eot"}
    /\ pushed < MaxExprs
    /\ pushed' = pushed + 1
    /\ evalque' = Append(evalque, pushed + 1)
    /\ line' = "none"
    /\ Goto("handler", "idle")
    /\ UNCHANGED <<call, controls, discarded, canceled, loopVars, selfDestruct, evalDone>>
    /\ UNCHANGED <<evaluatorVars, pending>>

\* Telnet erase-line: only a prompt, if prompts are on.
EraseLine ==
    /\ At("handler", "discipline")
    /\ line = "erase"
    /\ pending' \in {pending, TRUE}
    /\ line' = "none"
    /\ Goto("handler", "idle")
    /\ UNCHANGED <<call, pushed, controls, discarded, queueVars, loopVars>>
    /\ UNCHANGED <<selfDestruct, evalDone, evaluatorVars>>

\* The test of the loop that throws away the queued expressions.
DiscardTest ==
    /\ \/ At("handler", "discipline") /\ line = "interrupt"
       \/ At("handler", "discard")
    /\ Goto("handler", IF evalque = <<>> THEN "interrupt" ELSE "discardPop")
    /\ UNCHANGED <<call, handlerVars, queueVars, loopVars, selfDestruct, evalDone>>
    /\ UNCHANGED <<evaluatorVars, pending>>

\* Its body: pop() waits until there is something to pop.
DiscardPop ==
    /\ At("handler", "discardPop")
    /\ evalque # <<>>
    /\ discarded' = discarded \cup {Head(evalque)}
    /\ evalque' = Tail(evalque)
    /\ Goto("handler", "discard")
    /\ UNCHANGED <<call, line, pushed, controls, canceled, loopVars, selfDestruct, evalDone>>
    /\ UNCHANGED <<evaluatorVars, pending>>

\* The abort prompt is put out and the evaluator told to stop ...
Interrupt ==
    /\ At("handler", "interrupt")
    /\ pending' = TRUE
    /\ Goto("handler", "interruptFinish")
    /\ UNCHANGED <<call, handlerVars, queueVars, loopVars, selfDestruct, evalDone>>
    /\ UNCHANGED evaluatorVars

\* ... and finish_eval() releases whoever waits for it. A telnet interrupt
\* ends there; the control characters put out a prompt as well.
InterruptFinish ==
    /\ At("handler", "interruptFinish")
    /\ evalDone' = TRUE
    /\ line' = "none"
    /\ \/ Goto("handler", "idle")
       \/ Goto("handler", "interruptPrompt")
    /\ UNCHANGED <<call, pushed, controls, discarded, queueVars, loopVars, selfDestruct>>
    /\ UNCHANGED <<evaluatorVars, pending>>

InterruptPrompt ==
    /\ At("handler", "interruptPrompt")
    /\ pending' = TRUE
    /\ Goto("handler", "idle")
    /\ UNCHANGED <<call, handlerVars, queueVars, loopVars, selfDestruct, evalDone>>
    /\ UNCHANGED evaluatorVars

\* End-of-transmission with no input pending: the user leaves the shell.
Leave ==
    /\ At("handler", "discipline")
    /\ line = "eot"
    /\ selfDestruct' = TRUE
    /\ Goto("handler", "leave")
    /\ UNCHANGED <<call, handlerVars, queueVars, loopVars, evalDone>>
    /\ UNCHANGED <<evaluatorVars, pending>>

\* cancel(), a farewell unless prompts are off, and delete this.
LeaveCancel ==
    /\ At("handler", "leave")
    /\ canceled' = TRUE
    /\ pending' \in {pending, TRUE}
    /\ Goto("handler", "dtor")
    /\ UNCHANGED <<call, handlerVars, evalque, loopVars, selfDestruct, evalDone>>
    /\ UNCHANGED evaluatorVars

\* The connection is closed: ~ConsoleSocket deletes the shell.
Close ==
    /\ At("handler", "idle")
    /\ Goto("handler", "dtor")
    /\ UNCHANGED <<call, handlerVars, queueVars, loopVars, selfDestruct, evalDone>>
    /\ UNCHANGED <<evaluatorVars, pending>>

\* ~SchemeShell: while_not_done().
DtorWait ==
    /\ At("handler", "dtor")
    /\ evalDone
    /\ Goto("handler", "destroy")
    /\ UNCHANGED <<call, handlerVars, queueVars, loopVars, selfDestruct, evalDone>>
    /\ UNCHANGED <<evaluatorVars, pending>>

DtorFlag ==
    /\ At("handler", "destroy")
    /\ selfDestruct' = TRUE
    /\ Goto("handler", "cancel")
    /\ UNCHANGED <<call, handlerVars, queueVars, loopVars, evalDone>>
    /\ UNCHANGED <<evaluatorVars, pending>>

\* Cancelling a second time throws, and is caught.
DtorCancel ==
    /\ At("handler", "cancel")
    /\ canceled' = TRUE
    /\ Goto("handler", "join")
    /\ UNCHANGED <<call, handlerVars, evalque, loopVars, selfDestruct, evalDone>>
    /\ UNCHANGED <<evaluatorVars, pending>>

\* Mutant: the destructor does not wait for the evaluation thread.
EvalThreadJoinedUnchecked == TRUE

\* The condition evalthr->join() waits for.
EvalThreadJoined == pc["eval"] \in {"none", "done"}

DtorJoin ==
    /\ At("handler", "join")
    /\ EvalThreadJoined
    /\ Goto("handler", "gone")
    /\ UNCHANGED <<call, handlerVars, queueVars, loopVars, selfDestruct, evalDone>>
    /\ UNCHANGED <<evaluatorVars, pending>>

Destroy == DtorWait \/ DtorFlag \/ DtorCancel \/ DtorJoin

\* What the handler does of itself once it has a line.
LineDiscipline ==
    \/ Spin \/ PushExpr \/ EraseLine \/ DiscardTest \/ DiscardPop \/ Interrupt
    \/ InterruptFinish \/ InterruptPrompt \/ Leave \/ LeaveCancel

Handler == LineDiscipline \/ Destroy \/ Close \/ \E k \in Lines : EvalLine(k)

----------------------------------------------------------------------------
(* poll_output(), called by the polling thread and, when that one has      *)
(* ended, by the evaluation thread. When it returns the caller goes on at  *)
(* AfterPoll.                                                              *)

AfterPoll(l) ==
    CASE l = "polling" -> "loop"
      [] l = "lastPolling" -> "lastTest"
      [] l = "drainPolling" -> "drainTest"
      [] l = "endPolling" -> "endTest"

CallPoll(t, l) ==
    /\ Goto(t, l)
    /\ call' = [call EXCEPT ![t] = "output"]

PollReturns(t) ==
    /\ call' = [call EXCEPT ![t] = "none"]
    /\ Goto(t, AfterPoll(pc[t]))

\* Pending output is sent and ends the call.
PollOutput(t) ==
    /\ call[t] = "output"
    /\ IF pending
       THEN PollReturns(t)
       ELSE call' = [call EXCEPT ![t] = "result"] /\ UNCHANGED pc
    /\ pending' = FALSE
    /\ UNCHANGED <<handlerVars, queueVars, loopVars, selfDestruct, evalDone>>
    /\ UNCHANGED evaluatorVars

\* poll_result() blocks while the evaluator is busy; a result is sent, with
\* any output put out meanwhile, and ends the call.
PollResult(t) ==
    /\ call[t] = "result"
    /\ ~busy
    /\ IF result # 0
       THEN /\ PollReturns(t)
            /\ pending' = FALSE
       ELSE call' = [call EXCEPT ![t] = "test"] /\ UNCHANGED <<pc, pending>>
    /\ result' = 0
    /\ UNCHANGED <<handlerVars, queueVars, loopVars, selfDestruct, evalDone, busy, evaluated>>

PollTest(t) ==
    /\ call[t] = "test"
    /\ IF evalDone
       THEN PollReturns(t)
       ELSE call' = [call EXCEPT ![t] = "finish"] /\ UNCHANGED pc
    /\ UNCHANGED <<handlerVars, queueVars, loopVars, selfDestruct, evalDone>>
    /\ UNCHANGED <<evaluatorVars, pending>>

\* Mutant: the prompt is sent but nobody is told.
PollFinishSilent(t) ==
    /\ call[t] = "finish"
    /\ PollReturns(t)
    /\ UNCHANGED <<handlerVars, queueVars, loopVars, selfDestruct, evalDone>>
    /\ UNCHANGED <<evaluatorVars, pending>>

\* finish_eval(), and a prompt.
PollFinish(t) ==
    /\ call[t] = "finish"
    /\ evalDone' = TRUE
    /\ PollReturns(t)
    /\ UNCHANGED <<handlerVars, queueVars, loopVars, selfDestruct>>
    /\ UNCHANGED <<evaluatorVars, pending>>

Poll(t) == PollOutput(t) \/ PollResult(t) \/ PollTest(t) \/ PollFinish(t)

----------------------------------------------------------------------------
(* The polling thread, poll_loop().                                        *)

PollStart ==
    /\ At("poll", "start")
    /\ initDone' = TRUE
    /\ Goto("poll", "loop")
    /\ UNCHANGED <<call, handlerVars, queueVars, in, draining, selfDestruct, evalDone>>
    /\ UNCHANGED <<evaluatorVars, pending>>

\* Mutant: the loop ends as soon as the shell is told to go.
PollLoopNoLastPoll ==
    /\ At("poll", "loop")
    /\ IF selfDestruct
       THEN Goto("poll", "done") /\ UNCHANGED call
       ELSE CallPoll("poll", "polling")
    /\ UNCHANGED <<handlerVars, queueVars, loopVars, selfDestruct, evalDone>>
    /\ UNCHANGED <<evaluatorVars, pending>>

PollLoop ==
    /\ At("poll", "loop")
    /\ CallPoll("poll", IF selfDestruct THEN "lastPolling" ELSE "polling")
    /\ UNCHANGED <<handlerVars, queueVars, loopVars, selfDestruct, evalDone>>
    /\ UNCHANGED <<evaluatorVars, pending>>

\* Poll again until the evaluation under way is done.
PollLast ==
    /\ At("poll", "lastTest")
    /\ IF evalDone
       THEN Goto("poll", "done") /\ UNCHANGED call
       ELSE CallPoll("poll", "lastPolling")
    /\ UNCHANGED <<handlerVars, queueVars, loopVars, selfDestruct, evalDone>>
    /\ UNCHANGED <<evaluatorVars, pending>>

PollThread == PollStart \/ PollLoop \/ PollLast \/ Poll("poll")

----------------------------------------------------------------------------
(* The evaluation thread, eval_loop().                                     *)

EvalInit ==
    /\ At("eval", "init")
    /\ pc' = [pc EXCEPT !["eval"] = "wait", !["poll"] = "start"]
    /\ UNCHANGED <<call, handlerVars, queueVars, loopVars, selfDestruct, evalDone>>
    /\ UNCHANGED <<evaluatorVars, pending>>

\* Mutant: the next expression does not wait for the last.
LastFinishedUnchecked == TRUE

\* The condition while_not_done() waits for.
LastFinished == evalDone

WhileNotDone ==
    /\ At("eval", "wait")
    /\ LastFinished
    /\ Goto("eval", "pop")
    /\ UNCHANGED <<call, handlerVars, queueVars, loopVars, selfDestruct, evalDone>>
    /\ UNCHANGED <<evaluatorVars, pending>>

\* pop() throws when the queue is cancelled, and else waits for an element.
EvalPop ==
    /\ At("eval", "pop")
    /\ \/ canceled /\ Goto("eval", "reset") /\ UNCHANGED <<in, evalque>>
       \/ /\ ~canceled
          /\ evalque # <<>>
          /\ in' = Head(evalque)
          /\ evalque' = Tail(evalque)
          /\ Goto("eval", "start")
    /\ UNCHANGED <<call, handlerVars, canceled, draining, initDone, selfDestruct, evalDone>>
    /\ UNCHANGED <<evaluatorVars, pending>>

StartEval ==
    /\ At("eval", "start")
    /\ evalDone' = FALSE
    /\ Goto("eval", "begin")
    /\ UNCHANGED <<call, handlerVars, queueVars, loopVars, selfDestruct>>
    /\ UNCHANGED <<evaluatorVars, pending>>

\* begin_eval(): a result not yet polled is forgotten.
BeginEval ==
    /\ At("eval", "begin")
    /\ busy' = TRUE
    /\ result' = 0
    /\ Goto("eval", "evaluate")
    /\ UNCHANGED <<call, handlerVars, queueVars, loopVars, selfDestruct, evalDone>>
    /\ UNCHANGED <<evaluated, pending>>

\* eval_expr() returns; its result, if not empty, is there to be polled.
EvalExpr ==
    /\ At("eval", "evaluate")
    /\ busy' = FALSE
    /\ result' \in {0, in}
    /\ evaluated' = Append(evaluated, in)
    /\ in' = 0
    /\ Goto("eval", IF draining THEN "drain" ELSE "check")
    /\ UNCHANGED <<call, handlerVars, queueVars, draining, initDone, selfDestruct, evalDone>>
    /\ UNCHANGED pending

\* while (not self_destruct)
EvalCheck ==
    /\ At("eval", "check")
    /\ Goto("eval", IF selfDestruct THEN "reset" ELSE "wait")
    /\ UNCHANGED <<call, handlerVars, queueVars, loopVars, selfDestruct, evalDone>>
    /\ UNCHANGED <<evaluatorVars, pending>>

CancelReset ==
    /\ At("eval", "reset")
    /\ canceled' = FALSE
    /\ draining' = TRUE
    /\ Goto("eval", "joinPoll")
    /\ UNCHANGED <<call, handlerVars, evalque, in, initDone, selfDestruct, evalDone>>
    /\ UNCHANGED <<evaluatorVars, pending>>

\* Mutant: the evaluation thread does not wait for the polling thread.
PollThreadJoinedUnchecked == TRUE

\* The condition pollthr->join() waits for.
PollThreadJoined == pc["poll"] = "done"

JoinPoll ==
    /\ At("eval", "joinPoll")
    /\ PollThreadJoined
    /\ Goto("eval", "drain")
    /\ UNCHANGED <<call, handlerVars, queueVars, loopVars, selfDestruct, evalDone>>
    /\ UNCHANGED <<evaluatorVars, pending>>

\* while (0 < evalque.size()): poll until the last evaluation is done.
DrainTest ==
    /\ At("eval", "drain")
    /\ CallPoll("eval", IF evalque # <<>> THEN "drainPolling" ELSE "endPolling")
    /\ UNCHANGED <<handlerVars, queueVars, loopVars, selfDestruct, evalDone>>
    /\ UNCHANGED <<evaluatorVars, pending>>

DrainPollAgain ==
    /\ At("eval", "drainTest")
    /\ IF evalDone
       THEN Goto("eval", "drainPop") /\ UNCHANGED call
       ELSE CallPoll("eval", "drainPolling")
    /\ UNCHANGED <<handlerVars, queueVars, loopVars, selfDestruct, evalDone>>
    /\ UNCHANGED <<evaluatorVars, pending>>

\* Mutant: a second cancel ends the drain.
DrainPopGivesUp ==
    /\ At("eval", "drainPop")
    /\ IF canceled
       THEN /\ canceled' = FALSE
            /\ CallPoll("eval", "endPolling")
            /\ UNCHANGED <<in, evalque>>
       ELSE /\ in' = Head(evalque)
            /\ evalque' = Tail(evalque)
            /\ Goto("eval", "start")
            /\ UNCHANGED <<canceled, call>>
    /\ UNCHANGED <<handlerVars, draining, initDone, selfDestruct, evalDone>>
    /\ UNCHANGED <<evaluatorVars, pending>>

\* The destructor may cancel the queue a second time: reset and try again.
DrainPop ==
    /\ At("eval", "drainPop")
    /\ IF canceled
       THEN /\ canceled' = FALSE
            /\ Goto("eval", "drain")
            /\ UNCHANGED <<in, evalque>>
       ELSE /\ in' = Head(evalque)
            /\ evalque' = Tail(evalque)
            /\ Goto("eval", "start")
            /\ UNCHANGED canceled
    /\ UNCHANGED <<call, handlerVars, draining, initDone, selfDestruct, evalDone>>
    /\ UNCHANGED <<evaluatorVars, pending>>

\* Poll until the last evaluation is done; then the thread ends.
EndTest ==
    /\ At("eval", "endTest")
    /\ IF evalDone
       THEN Goto("eval", "done") /\ UNCHANGED call
       ELSE CallPoll("eval", "endPolling")
    /\ UNCHANGED <<handlerVars, queueVars, loopVars, selfDestruct, evalDone>>
    /\ UNCHANGED <<evaluatorVars, pending>>

EvalThread ==
    \/ EvalInit \/ WhileNotDone \/ EvalPop \/ StartEval \/ BeginEval \/ EvalExpr
    \/ EvalCheck \/ CancelReset \/ JoinPoll \/ DrainTest \/ DrainPollAgain
    \/ DrainPop \/ EndTest \/ Poll("eval")

----------------------------------------------------------------------------
\* The shell is gone.
Terminated == pc["handler"] = "gone" /\ UNCHANGED vars

Next == Handler \/ EvalThread \/ PollThread \/ Terminated

\* Every thread keeps being scheduled and every evaluation ends. Nothing
\* obliges the client to send a line or to close the connection.
Fairness ==
    /\ WF_vars(LineDiscipline \/ Destroy)
    /\ WF_vars(EvalThread)
    /\ WF_vars(PollThread)

Spec == Init /\ [][Next]_vars
FairSpec == Spec /\ Fairness

----------------------------------------------------------------------------
(* Properties.                                                             *)

HandlerStates ==
    {"idle", "spin", "discipline", "discard", "discardPop", "interrupt",
     "interruptFinish", "interruptPrompt", "leave", "dtor", "destroy", "cancel", "join", "gone"}
PollStates == {"none", "start", "loop", "polling", "lastPolling", "lastTest", "done"}
EvalStates ==
    {"none", "init", "wait", "pop", "start", "begin", "evaluate", "check", "reset",
     "joinPoll", "drain", "drainPolling", "drainTest", "drainPop", "endPolling",
     "endTest", "done"}

FlagsOK ==
    {canceled, draining, initDone, selfDestruct, evalDone, busy, pending} \subseteq BOOLEAN

PlacesOK ==
    /\ pc \in [Threads -> HandlerStates \cup PollStates \cup EvalStates]
    /\ pc["handler"] \in HandlerStates
    /\ pc["eval"] \in EvalStates
    /\ pc["poll"] \in PollStates
    /\ call \in [Threads -> {"none", "output", "result", "test", "finish"}]

DataOK ==
    /\ line \in AllLines \cup {"none"}
    /\ pushed \in 0..MaxExprs
    /\ controls \in 0..MaxControls
    /\ evalque \in Seq(Exprs)
    /\ in \in Exprs \cup {0}
    /\ result \in Exprs \cup {0}
    /\ evaluated \in Seq(Exprs)
    /\ discarded \subseteq Exprs

\* Every variable keeps its type; in particular what the evaluation thread
\* takes from the queue is an expression.
TypeOK == FlagsOK /\ PlacesOK /\ DataOK

\* The assertion of start_eval(): no evaluation starts before somebody has
\* declared the previous one finished.
StartsWhenDone == pc["eval"] = "start" => evalDone

\* The polling thread has ended before the evaluation thread polls by itself:
\* at no time do two threads take turns at the evaluator's output.
OnePoller == call["eval"] # "none" => pc["poll"] = "done"

\* The shell object is freed only when neither of its threads can touch it.
ThreadsOutlived ==
    pc["handler"] = "gone" => pc["eval"] \in {"none", "done"} /\ pc["poll"] \in {"none", "done"}

\* Expressions are evaluated in the order they were sent and each at most
\* once; and when the shell goes, because the user left or the connection
\* closed, every expression has been evaluated unless an interrupt threw it
\* away: two cancels of the queue, at any moments, lose none.
NothingLost ==
    /\ \A i, j \in 1..Len(evaluated) : i < j => evaluated[i] < evaluated[j]
    /\ pc["handler"] = "gone" =>
          {evaluated[i] : i \in 1..Len(evaluated)} \cup discarded = 1..pushed

\* The destructor ends: the three threads do not wait for each other for
\* ever, whatever they were doing when it began.
DestructorEnds == pc["handler"] = "dtor" ~> pc["handler"] = "gone"

\* Every expression sent is evaluated, unless an interrupt throws it away:
\* an interrupt that waits for ever on an empty queue starves no other.
ExpressionsEvaluated ==
    \A e \in Exprs :
        pushed = e ~> e \in discarded \/ \E i \in 1..Len(evaluated) : evaluated[i] = e

----------------------------------------------------------------------------
(* What the comments of the code promise and its threads do not keep.      *)

\* The requirements before GenericShell::eval(): evaluations are
\* interruptible, and eval() returns so that the caller can read on.
InterruptReturns == pc["handler"] = "discard" ~> pc["handler"] \in {"idle", "gone"}

============================================================================
