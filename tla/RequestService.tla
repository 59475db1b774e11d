-------------------------- MODULE RequestService --------------------------
(***************************************************************************)
(* What the request path of the CogServer promises each client: its        *)
(* commands are executed exactly once each, in the order it sent them, and *)
(* the console they report to is kept until the last of them is done.      *)
(***************************************************************************)
EXTENDS Integers

CONSTANTS
    Consoles,  \* the connections
    MaxLines   \* bound: commands sent on one connection

VARIABLES
    sent,      \* per console: number of commands queued
    done,      \* per console: the commands executed and finished with
    gone       \* per console: the console is being, or has been, destroyed

vars == <<sent, done, gone>>

Init ==
    /\ sent = [c \in Consoles |-> 0]
    /\ done = [c \in Consoles |-> {}]
    /\ gone = [c \in Consoles |-> FALSE]

Send(c) ==
    /\ ~gone[c]
    /\ sent[c] < MaxLines
    /\ sent' = [sent EXCEPT ![c] = @ + 1]
    /\ UNCHANGED <<done, gone>>

\* The oldest unfinished command is finished.
Serve(c, n) ==
    /\ ~gone[c]
    /\ n \notin done[c]
    /\ 1..(n - 1) \subseteq done[c]
    /\ done' = [done EXCEPT ![c] = @ \cup {n}]
    /\ UNCHANGED <<sent, gone>>

\* The console goes only when nothing is outstanding.
Free(c) ==
    /\ ~gone[c]
    /\ done[c] = 1..sent[c]
    /\ gone' = [gone EXCEPT ![c] = TRUE]
    /\ UNCHANGED <<sent, done>>

Next == \E c \in Consoles : Send(c) \/ Free(c) \/ \E n \in 1..sent[c] : Serve(c, n)

Spec == Init /\ [][Next]_vars
============================================================================
