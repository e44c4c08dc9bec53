------------------------------ MODULE TaskPool ------------------------------
(***************************************************************************)
(* What a task pool promises to the code that submits work to it: a task   *)
(* is accepted only while the pool is open, an accepted task is executed   *)
(* exactly once, and the pool is gone only when nothing accepted is left.  *)
(* Threads, queue, condition variable and futures are not mentioned: they  *)
(* are how ThreadPool keeps the promise.                                   *)
(***************************************************************************)

CONSTANT Task       \* everything that may ever be submitted

VARIABLES
    status,         \* status[t]: "none", "accepted" or "executed"
    open,           \* the pool still accepts work
    gone            \* the pool's destructor has returned

vars == <<status, open, gone>>

TypeOK ==
    /\ status \in [Task -> {"none", "accepted", "executed"}]
    /\ open \in BOOLEAN
    /\ gone \in BOOLEAN

Init ==
    /\ status = [t \in Task |-> "none"]
    /\ open = TRUE
    /\ gone = FALSE

Accept(t) ==
    /\ open
    /\ status[t] = "none"
    /\ status' = [status EXCEPT ![t] = "accepted"]
    /\ UNCHANGED <<open, gone>>

Execute(t) ==
    /\ ~gone
    /\ status[t] = "accepted"
    /\ status' = [status EXCEPT ![t] = "executed"]
    /\ UNCHANGED <<open, gone>>

Close ==
    /\ open
    /\ open' = FALSE
    /\ UNCHANGED <<status, gone>>

Vanish ==
    /\ ~open
    /\ ~gone
    /\ \A t \in Task : status[t] # "accepted"
    /\ gone' = TRUE
    /\ UNCHANGED <<status, open>>

Next ==
    \/ \E t \in Task : Accept(t) \/ Execute(t)
    \/ Close
    \/ Vanish

(* The safety part of the promise, and the promise with its liveness: an   *)
(* accepted task is executed, a closed pool goes away.                     *)
SafeSpec == Init /\ [][Next]_vars

Spec ==
    /\ SafeSpec
    /\ \A t \in Task : WF_vars(Execute(t))
    /\ WF_vars(Vanish)
=============================================================================
