----------------------------- MODULE Dispatcher -----------------------------
(***************************************************************************)
(* IdaHeadlessDispatcher (lucnhan/ida/dispatch.py): worker threads queue   *)
(* IDA API calls and wait, the IDA main thread pumps the queue, and any    *)
(* thread may request shutdown.                                            *)
(*                                                                         *)
(* One element of Jobs is one call of a wrapped function by a worker       *)
(* thread, i.e. one _DispatchJob.  A step is the code between two points   *)
(* where another thread can be observed: a lock-protected section, a queue *)
(* operation, or a wait.  Time is not modelled: a timed wait may run out   *)
(* whenever its event is unset.                                            *)
(***************************************************************************)
EXTENDS Sequences

CONSTANTS Jobs,   \* calls made through IdaHeadlessDispatcher.wrap
          NoJob   \* the main thread is not processing a job

ASSUME NoJobAssumption == NoJob \notin Jobs

VARIABLES
    shutdown,  \* self._shutdown
    queue,     \* self._queue
    pending,   \* self._pending_jobs
    jstate,    \* job._state ("none": not created yet)
    exc,       \* job.exception
    event,     \* job.event
    wpc,       \* where the worker thread is in wrapper()
    outcome,   \* how wrapper() ended: a value, or the exception it raised
    mpc,       \* where the main thread is in the pump loop
    mjob,      \* the job the main thread took from the queue
    spc        \* where the thread in request_shutdown() is

jobVars == <<jstate, exc, event>>
workerVars == <<wpc, outcome>>
mainVars == <<mpc, mjob>>
vars == <<shutdown, queue, pending, jobVars, workerVars, mainVars, spc>>

JobStates == {"none", "queued", "running", "completed", "cancelled"}
Failures == {"error", "timeout", "shutdown"}
WorkerPCs == {"start", "register", "enqueue", "wait", "unlist", "late_unlist",
              "giveup", "poll", "collect", "returned"}

TypeOK ==
    /\ shutdown \in BOOLEAN
    /\ queue \in Seq(Jobs)
    /\ pending \in SUBSET Jobs
    /\ jstate \in [Jobs -> JobStates]
    /\ exc \in [Jobs -> Failures \cup {"none"}]
    /\ event \in [Jobs -> BOOLEAN]
    /\ wpc \in [Jobs -> WorkerPCs]
    /\ outcome \in [Jobs -> Failures \cup {"none", "value"}]
    /\ mpc \in {"get", "claim", "run", "complete", "check", "stopped"}
    /\ mjob \in Jobs \cup {NoJob}
    /\ spc \in {"idle", "drain", "wake", "done"}

Init ==
    /\ shutdown = FALSE
    /\ queue = <<>>
    /\ pending = {}
    /\ jstate = [j \in Jobs |-> "none"]
    /\ exc = [j \in Jobs |-> "none"]
    /\ event = [j \in Jobs |-> FALSE]
    /\ wpc = [j \in Jobs |-> "start"]
    /\ outcome = [j \in Jobs |-> "none"]
    /\ mpc = "get"
    /\ mjob = NoJob
    /\ spc = "idle"

-----------------------------------------------------------------------------
(* The worker thread, in wrapper() *)

Goto(j, from, to) ==
    /\ wpc[j] = from
    /\ wpc' = [wpc EXCEPT ![j] = to]

Return(j, from, result) ==
    /\ Goto(j, from, "returned")
    /\ outcome' = [outcome EXCEPT ![j] = result]

\* The check on entry, before any lock is taken.
Enter(j) ==
    /\ \/ shutdown /\ Return(j, "start", "shutdown")
       \/ ~shutdown /\ Goto(j, "start", "register") /\ UNCHANGED outcome
    /\ UNCHANGED <<shutdown, queue, pending, jobVars, mainVars, spc>>

\* Mutant: the check under _pending_lock is missing.
RegisterUnchecked(j) ==
    /\ Goto(j, "register", "enqueue")
    /\ pending' = pending \cup {j}
    /\ jstate' = [jstate EXCEPT ![j] = "queued"]
    /\ UNCHANGED <<shutdown, queue, exc, event, outcome, mainVars, spc>>

\* Under _pending_lock: shutdown is looked at again before the job is listed.
Register(j) ==
    /\ \/ /\ shutdown
          /\ Return(j, "register", "shutdown")
          /\ UNCHANGED <<pending, jstate>>
       \/ /\ ~shutdown
          /\ Goto(j, "register", "enqueue")
          /\ pending' = pending \cup {j}
          /\ jstate' = [jstate EXCEPT ![j] = "queued"]
          /\ UNCHANGED outcome
    /\ UNCHANGED <<shutdown, queue, exc, event, mainVars, spc>>

Enqueue(j) ==
    /\ Goto(j, "enqueue", "wait")
    /\ queue' = Append(queue, j)
    /\ UNCHANGED <<shutdown, pending, jobVars, outcome, mainVars, spc>>

\* job.event.wait(timeout=_DEFAULT_JOB_TIMEOUT)
WakeUp(j) ==
    /\ event[j]
    /\ Goto(j, "wait", "unlist")
    /\ UNCHANGED <<shutdown, queue, pending, jobVars, outcome, mainVars, spc>>

TimeOut(j) ==
    /\ ~event[j]
    /\ Goto(j, "wait", "late_unlist")
    /\ UNCHANGED <<shutdown, queue, pending, jobVars, outcome, mainVars, spc>>

\* Under _pending_lock; the job may have been unlisted already.
Unlist(j) ==
    /\ Goto(j, "unlist", "collect") \/ Goto(j, "late_unlist", "giveup")
    /\ pending' = pending \ {j}
    /\ UNCHANGED <<shutdown, queue, jobVars, outcome, mainVars, spc>>

\* Mutant: a worker that cannot cancel its job takes whatever result it holds.
GiveUpCollecting(j) ==
    /\ \/ /\ jstate[j] = "queued"
          /\ Return(j, "giveup", "timeout")
          /\ jstate' = [jstate EXCEPT ![j] = "cancelled"]
       \/ /\ jstate[j] # "queued"
          /\ Goto(j, "giveup", "collect")
          /\ UNCHANGED <<jstate, outcome>>
    /\ UNCHANGED <<shutdown, queue, pending, exc, event, mainVars, spc>>

\* job.cancel() succeeds only while the job is QUEUED.
GiveUp(j) ==
    /\ \/ /\ jstate[j] = "queued"
          /\ Return(j, "giveup", "timeout")
          /\ jstate' = [jstate EXCEPT ![j] = "cancelled"]
          /\ exc' = [exc EXCEPT ![j] = "timeout"]
          /\ event' = [event EXCEPT ![j] = TRUE]
       \/ /\ jstate[j] # "queued"
          /\ Goto(j, "giveup", "poll")
          /\ UNCHANGED <<jobVars, outcome>>
    /\ UNCHANGED <<shutdown, queue, pending, mainVars, spc>>

\* Mutant: the poll loop does not look at shutdown.
PollEventOnly(j) ==
    /\ event[j]
    /\ Goto(j, "poll", "collect")
    /\ UNCHANGED <<shutdown, queue, pending, jobVars, outcome, mainVars, spc>>

\* The poll loop of a worker whose job was claimed before it could cancel it.
Poll(j) ==
    /\ \/ event[j] /\ Goto(j, "poll", "collect") /\ UNCHANGED outcome
       \/ ~event[j] /\ shutdown /\ Return(j, "poll", "shutdown")
    /\ UNCHANGED <<shutdown, queue, pending, jobVars, mainVars, spc>>

\* Mutant: the worker returns the state of its job.
CollectState(j) ==
    /\ Return(j, "collect", jstate[j])
    /\ UNCHANGED <<shutdown, queue, pending, jobVars, mainVars, spc>>

Collect(j) ==
    /\ \/ exc[j] # "none" /\ Return(j, "collect", exc[j])
       \/ exc[j] = "none" /\ shutdown /\ Return(j, "collect", "shutdown")
       \/ exc[j] = "none" /\ ~shutdown /\ Return(j, "collect", "value")
    /\ UNCHANGED <<shutdown, queue, pending, jobVars, mainVars, spc>>

Worker(j) ==
    \/ Enter(j) \/ Register(j) \/ Enqueue(j) \/ WakeUp(j) \/ TimeOut(j)
    \/ Unlist(j) \/ GiveUp(j) \/ Poll(j) \/ Collect(j)

-----------------------------------------------------------------------------
(* The main thread: pump_until() inside the loop of _run_server() *)

PumpGet ==
    /\ mpc = "get"
    /\ \/ /\ queue # <<>>
          /\ mjob' = Head(queue)
          /\ queue' = Tail(queue)
          /\ mpc' = "claim"
       \/ /\ queue = <<>>          \* queue.get timed out
          /\ mpc' = "check"
          /\ UNCHANGED <<queue, mjob>>
    /\ UNCHANGED <<shutdown, pending, jobVars, workerVars, spc>>

\* Mutant: the pump runs whatever it takes from the queue.
PumpClaimUnchecked ==
    /\ mpc = "claim"
    /\ jstate' = [jstate EXCEPT ![mjob] = "running"]
    /\ mpc' = "run"
    /\ UNCHANGED <<shutdown, queue, pending, exc, event, workerVars, mjob, spc>>

\* try_claim(): a job that is not QUEUED any more is skipped.
PumpClaim ==
    /\ mpc = "claim"
    /\ \/ /\ jstate[mjob] = "queued"
          /\ jstate' = [jstate EXCEPT ![mjob] = "running"]
          /\ mpc' = "run"
          /\ UNCHANGED mjob
       \/ /\ jstate[mjob] # "queued"
          /\ mpc' = "check"
          /\ mjob' = NoJob
          /\ UNCHANGED jstate
    /\ UNCHANGED <<shutdown, queue, pending, exc, event, workerVars, spc>>

\* job.func() returns, or raises and leaves its exception in the job.
PumpRun ==
    /\ mpc = "run"
    /\ mpc' = "complete"
    /\ \/ UNCHANGED exc
       \/ exc' = [exc EXCEPT ![mjob] = "error"]
    /\ UNCHANGED <<shutdown, queue, pending, jstate, event, workerVars, mjob, spc>>

\* Mutant: the worker of a completed job is not woken.
PumpCompleteSilently ==
    /\ mpc = "complete"
    /\ jstate' = [jstate EXCEPT ![mjob] = "completed"]
    /\ mpc' = "check"
    /\ mjob' = NoJob
    /\ UNCHANGED <<shutdown, queue, pending, exc, event, workerVars, spc>>

\* The finally clause of _process_job.
PumpComplete ==
    /\ mpc = "complete"
    /\ jstate' = [jstate EXCEPT ![mjob] = "completed"]
    /\ event' = [event EXCEPT ![mjob] = TRUE]
    /\ mpc' = "check"
    /\ mjob' = NoJob
    /\ UNCHANGED <<shutdown, queue, pending, exc, workerVars, spc>>

PumpCheck ==
    /\ mpc = "check"
    /\ mpc' = IF shutdown THEN "stopped" ELSE "get"
    /\ UNCHANGED <<shutdown, queue, pending, jobVars, workerVars, mjob, spc>>

Pump == PumpGet \/ PumpClaim \/ PumpRun \/ PumpComplete \/ PumpCheck

-----------------------------------------------------------------------------
(* request_shutdown(), callable from any thread and more than once *)

RequestShutdown ==
    /\ spc \in {"idle", "done"}
    /\ shutdown' = TRUE
    /\ spc' = "drain"
    /\ UNCHANGED <<queue, pending, jobVars, workerVars, mainVars>>

\* _cancel_job on each job still in the queue.
DrainJob ==
    /\ spc = "drain"
    /\ queue # <<>>
    /\ queue' = Tail(queue)
    /\ LET j == Head(queue) IN
          \/ /\ jstate[j] = "queued"
             /\ jstate' = [jstate EXCEPT ![j] = "cancelled"]
             /\ exc' = [exc EXCEPT ![j] = "shutdown"]
             /\ event' = [event EXCEPT ![j] = TRUE]
          \/ jstate[j] # "queued" /\ UNCHANGED jobVars
    /\ UNCHANGED <<shutdown, pending, workerVars, mainVars, spc>>

DrainDone ==
    /\ spc = "drain"
    /\ queue = <<>>
    /\ spc' = "wake"
    /\ UNCHANGED <<shutdown, queue, pending, jobVars, workerVars, mainVars>>

\* Under _pending_lock: every listed job is failed and its worker woken.
WakePending ==
    /\ spc = "wake"
    /\ exc' = [j \in Jobs |-> IF j \in pending /\ exc[j] = "none"
                              THEN "shutdown" ELSE exc[j]]
    /\ event' = [j \in Jobs |-> event[j] \/ j \in pending]
    /\ pending' = {}
    /\ spc' = "done"
    /\ UNCHANGED <<shutdown, queue, jstate, workerVars, mainVars>>

Stop == RequestShutdown \/ DrainJob \/ DrainDone \/ WakePending

-----------------------------------------------------------------------------
Next == Pump \/ Stop \/ \E j \in Jobs : Worker(j)

Spec == Init /\ [][Next]_vars

\* Threads that are runnable run; a started request_shutdown() is finished.
\* The main thread may stall for ever, inside a job or elsewhere.
StalledFairness ==
    /\ \A j \in Jobs : WF_vars(Worker(j))
    /\ WF_vars(DrainJob \/ DrainDone \/ WakePending)

\* The main thread keeps pumping and the functions it runs return.
Fairness == StalledFairness /\ WF_vars(Pump)

-----------------------------------------------------------------------------
(* Properties *)

\* A call reported as timed out is cancelled for good: the pump skips it when
\* it reaches it, so it is never executed after its caller gave up.
TimedOutIsCancelled ==
    \A j \in Jobs : outcome[j] = "timeout" => jstate[j] = "cancelled"

\* Once request_shutdown() has made its pass, no worker is left in a wait that
\* only its timeout would end: the check under _pending_lock and the pass
\* over _pending_jobs leave no gap for a job registered in between.
NoWorkerStranded ==
    spc = "done" =>
        \A j \in Jobs : wpc[j] \in {"enqueue", "wait"} => event[j]

\* The execution of a call as its caller may rely on it.
Execution ==
    [j \in Jobs |->
        IF jstate[j] = "completed" \/ (mpc = "complete" /\ mjob = j) THEN "done"
        ELSE IF jstate[j] = "running" THEN "running"
        ELSE "no"]

Abstract == INSTANCE HostCall
                WITH exec <- Execution, answer <- outcome, closed <- shutdown

\* The dispatcher keeps the promises of HostCall: answers are truthful, and
\* a timed-out call does not start.
ImplementsHostCall == Abstract!Spec

\* Even with the main thread stalled inside a job, a shutdown request ends
\* every call in progress.
ShutdownReleasesWorkers ==
    StalledFairness => \A j \in Jobs : shutdown ~> wpc[j] = "returned"

\* Every call returns, as long as the functions the main thread runs do.
EveryCallReturns ==
    Fairness => \A j \in Jobs : wpc[j] = "register" ~> wpc[j] = "returned"
=============================================================================
