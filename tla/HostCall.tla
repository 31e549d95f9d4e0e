------------------------------ MODULE HostCall ------------------------------
(***************************************************************************)
(* What a dispatcher that marshals calls onto the IDA main thread promises *)
(* its callers, without saying how.  A call is executed at most once, and  *)
(* is answered exactly once; the answer tells the truth about the          *)
(* execution: a value or an error is the outcome of a finished execution,  *)
(* and a call answered "timeout" was not executed and never will be.       *)
(* "shutdown" is the one answer that says nothing about the execution.     *)
(***************************************************************************)
CONSTANT Jobs

VARIABLES exec,    \* the execution of each call on the main thread
          answer,  \* what its caller has been told
          closed   \* shutdown has been requested

vars == <<exec, answer, closed>>

TypeOK ==
    /\ exec \in [Jobs -> {"no", "running", "done"}]
    /\ answer \in [Jobs -> {"none", "value", "error", "timeout", "shutdown"}]
    /\ closed \in BOOLEAN

Init ==
    /\ exec = [j \in Jobs |-> "no"]
    /\ answer = [j \in Jobs |-> "none"]
    /\ closed = FALSE

\* A call whose caller gave up on a timeout must not start any more.
Start(j) ==
    /\ exec[j] = "no"
    /\ answer[j] # "timeout"
    /\ exec' = [exec EXCEPT ![j] = "running"]
    /\ UNCHANGED <<answer, closed>>

Finish(j) ==
    /\ exec[j] = "running"
    /\ exec' = [exec EXCEPT ![j] = "done"]
    /\ UNCHANGED <<answer, closed>>

\* The answers that are truthful in the present state of the execution.
Truthful(j, a) ==
    \/ a \in {"value", "error"} /\ exec[j] = "done"
    \/ a = "timeout" /\ exec[j] = "no"
    \/ a = "shutdown" /\ closed

Reply(j) ==
    /\ answer[j] = "none"
    /\ \E a \in {"value", "error", "timeout", "shutdown"} :
          /\ Truthful(j, a)
          /\ answer' = [answer EXCEPT ![j] = a]
    /\ UNCHANGED <<exec, closed>>

Close ==
    /\ closed' = TRUE
    /\ UNCHANGED <<exec, answer>>

Next ==
    \/ Close
    \/ \E j \in Jobs : Start(j) \/ Finish(j) \/ Reply(j)

Spec == Init /\ [][Next]_vars
=============================================================================
