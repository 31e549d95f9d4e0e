-------------------------- MODULE DispatcherProofs --------------------------
(***************************************************************************)
(* Proofs about Dispatcher, for any set of calls: its safety properties    *)
(* and that it implements HostCall.                                        *)
(***************************************************************************)
EXTENDS Dispatcher, TLAPS

-----------------------------------------------------------------------------
(* The inductive invariant *)

\* The job in the main thread's hands: only run and complete have claimed it.
MainHasJob ==
    /\ mpc \in {"claim", "run", "complete"} => mjob \in Jobs
    /\ mpc \in {"run", "complete"} => jstate[mjob] = "running"

\* A job has no state before its worker lists it, and no answer before its
\* worker returns.
WorkerProgress ==
    \A j \in Jobs :
        /\ wpc[j] \in {"start", "register"} => jstate[j] = "none"
        /\ wpc[j] # "returned" => outcome[j] = "none"
        /\ wpc[j] \in {"unlist", "collect"} => event[j]

\* What an exception recorded in a job says of the job.
ExceptionMeaning ==
    \A j \in Jobs :
        /\ exc[j] = "timeout" => jstate[j] = "cancelled"
        /\ exc[j] = "error" => \/ jstate[j] = "completed"
                               \/ mpc = "complete" /\ mjob = j
        /\ exc[j] = "shutdown" => shutdown

\* An event is set by completion or after an exception has been recorded.
EventMeaning ==
    \A j \in Jobs : event[j] => exc[j] # "none" \/ jstate[j] = "completed"

\* A worker that is about to wait can be found by request_shutdown(), which
\* empties the list only after it has closed the dispatcher.
ListedOrWoken ==
    /\ \A j \in Jobs : wpc[j] \in {"enqueue", "wait"} => event[j] \/ j \in pending
    /\ spc # "idle" => shutdown
    /\ spc = "done" => pending = {}

IInv ==
    /\ TypeOK
    /\ MainHasJob
    /\ WorkerProgress
    /\ ExceptionMeaning
    /\ EventMeaning
    /\ ListedOrWoken
    /\ TimedOutIsCancelled

-----------------------------------------------------------------------------
\* The initial state satisfies the invariant.
LEMMA InitInv == Init => IInv
<1> SUFFICES ASSUME Init PROVE IInv
  OBVIOUS
<1>1. TypeOK
  <2>1. queue \in Seq(Jobs)
    BY DEF Init
  <2> QED
    BY <2>1 DEF Init, TypeOK, JobStates, Failures, WorkerPCs
<1>2. MainHasJob /\ WorkerProgress /\ ExceptionMeaning
  BY DEF Init, MainHasJob, WorkerProgress, ExceptionMeaning
<1>3. EventMeaning /\ ListedOrWoken /\ TimedOutIsCancelled
  BY DEF Init, EventMeaning, ListedOrWoken, TimedOutIsCancelled
<1> QED
  BY <1>1, <1>2, <1>3 DEF IInv

\* The worker's own steps keep it.
LEMMA WorkerInv ==
    ASSUME IInv, NEW j \in Jobs, Worker(j)
    PROVE  IInv'
<1> USE DEF IInv, TypeOK, JobStates, Failures, WorkerPCs, MainHasJob,
            WorkerProgress, ExceptionMeaning, EventMeaning, ListedOrWoken,
            TimedOutIsCancelled, Goto, Return, jobVars, mainVars, workerVars
<1>1. CASE Enter(j)
  BY <1>1 DEF Enter
<1>2. CASE Register(j)
  BY <1>2 DEF Register
<1>3. CASE Enqueue(j)
  BY <1>3 DEF Enqueue
<1>4. CASE WakeUp(j)
  BY <1>4 DEF WakeUp
<1>5. CASE TimeOut(j)
  BY <1>5 DEF TimeOut
<1>6. CASE Unlist(j)
  BY <1>6 DEF Unlist
<1>7. CASE GiveUp(j)
  <2>1. CASE jstate[j] = "queued"
    <3>1. /\ jstate' = [jstate EXCEPT ![j] = "cancelled"]
          /\ exc' = [exc EXCEPT ![j] = "timeout"]
          /\ event' = [event EXCEPT ![j] = TRUE]
          /\ wpc' = [wpc EXCEPT ![j] = "returned"]
          /\ outcome' = [outcome EXCEPT ![j] = "timeout"]
          /\ UNCHANGED <<shutdown, queue, pending, mainVars, spc>>
      BY <1>7, <2>1 DEF GiveUp
    <3>2. TypeOK'
      BY <3>1
    <3>3. MainHasJob' /\ WorkerProgress' /\ TimedOutIsCancelled'
      BY <2>1, <3>1
    <3>4. ExceptionMeaning'
      BY <2>1, <3>1
    <3>5. EventMeaning' /\ ListedOrWoken'
      BY <2>1, <3>1
    <3> QED
      BY <3>2, <3>3, <3>4, <3>5
  <2>2. CASE jstate[j] # "queued"
    BY <1>7, <2>2 DEF GiveUp
  <2> QED
    BY <2>1, <2>2
<1>8. CASE Poll(j)
  BY <1>8 DEF Poll
<1>9. CASE Collect(j)
  BY <1>9 DEF Collect
<1> QED
  BY <1>1, <1>2, <1>3, <1>4, <1>5, <1>6, <1>7, <1>8, <1>9 DEF Worker

\* So do the steps of the main thread.
LEMMA PumpInv ==
    ASSUME IInv, Pump
    PROVE  IInv'
<1> USE DEF IInv, TypeOK, JobStates, Failures, WorkerPCs, MainHasJob,
            WorkerProgress, ExceptionMeaning, EventMeaning, ListedOrWoken,
            TimedOutIsCancelled, jobVars, mainVars, workerVars
<1>1. CASE PumpGet
  BY <1>1 DEF PumpGet
<1>2. CASE PumpClaim
  BY <1>2 DEF PumpClaim
<1>3. CASE PumpRun
  BY <1>3 DEF PumpRun
<1>4. CASE PumpComplete
  BY <1>4 DEF PumpComplete
<1>5. CASE PumpCheck
  BY <1>5 DEF PumpCheck
<1> QED
  BY <1>1, <1>2, <1>3, <1>4, <1>5 DEF Pump

\* So do the steps of request_shutdown().
LEMMA StopInv ==
    ASSUME IInv, Stop
    PROVE  IInv'
<1> USE DEF IInv, TypeOK, JobStates, Failures, WorkerPCs, MainHasJob,
            WorkerProgress, ExceptionMeaning, EventMeaning, ListedOrWoken,
            TimedOutIsCancelled, jobVars, mainVars, workerVars
<1>1. CASE RequestShutdown
  BY <1>1 DEF RequestShutdown
<1>2. CASE DrainJob
  <2> DEFINE j == Head(queue)
  <2>1. j \in Jobs /\ Tail(queue) \in Seq(Jobs)
    BY <1>2 DEF DrainJob
  <2>2. CASE jstate[j] = "queued"
    <3>1. /\ jstate' = [jstate EXCEPT ![j] = "cancelled"]
          /\ exc' = [exc EXCEPT ![j] = "shutdown"]
          /\ event' = [event EXCEPT ![j] = TRUE]
          /\ queue' = Tail(queue)
          /\ UNCHANGED <<shutdown, pending, workerVars, mainVars, spc>>
      BY <1>2, <2>2 DEF DrainJob
    <3>2. shutdown /\ spc = "drain"
      BY <1>2 DEF DrainJob
    <3> HIDE DEF j
    <3>3. TypeOK'
      BY <2>1, <3>1
    <3>4. MainHasJob' /\ WorkerProgress' /\ TimedOutIsCancelled'
      BY <2>1, <2>2, <3>1
    <3>5. ExceptionMeaning'
      BY <2>1, <2>2, <3>1, <3>2
    <3>6. EventMeaning' /\ ListedOrWoken'
      BY <2>1, <2>2, <3>1, <3>2
    <3> QED
      BY <3>3, <3>4, <3>5, <3>6
  <2>3. CASE jstate[j] # "queued"
    BY <1>2, <2>1, <2>3 DEF DrainJob
  <2> QED
    BY <2>2, <2>3
<1>3. CASE DrainDone
  BY <1>3 DEF DrainDone
<1>4. CASE WakePending
  BY <1>4 DEF WakePending
<1> QED
  BY <1>1, <1>2, <1>3, <1>4 DEF Stop

LEMMA StutterInv ==
    ASSUME IInv, UNCHANGED vars
    PROVE  IInv'
  BY DEF IInv, TypeOK, MainHasJob, WorkerProgress, ExceptionMeaning,
         EventMeaning, ListedOrWoken, TimedOutIsCancelled, vars, jobVars,
         mainVars, workerVars

\* IInv holds in every reachable state of the dispatcher.
THEOREM Invariance == Spec => []IInv
<1>1. ASSUME IInv, [Next]_vars
      PROVE  IInv'
  BY <1>1, WorkerInv, PumpInv, StopInv, StutterInv DEF Next
<1> QED
  BY InitInv, <1>1, PTL DEF Spec

-----------------------------------------------------------------------------
(* What follows from it *)

\* The queue holds jobs, and a job, its caller and the main thread are only ever
\* in the states the code has for them.
THEOREM TypeCorrect == Spec => []TypeOK
<1>1. IInv => TypeOK
  BY DEF IInv
<1> QED
  BY Invariance, <1>1, PTL

\* A call that its caller was told had timed out is never executed: whatever
\* wins the race between cancel() and try_claim(), both sides agree on it.
THEOREM NoLateExecution == Spec => []TimedOutIsCancelled
<1>1. IInv => TimedOutIsCancelled
  BY DEF IInv
<1> QED
  BY Invariance, <1>1, PTL

\* After a complete request_shutdown() no worker waits for an event that
\* nobody will set, for any number of workers and any interleaving.
THEOREM ShutdownStrandsNobody == Spec => []NoWorkerStranded
<1>1. IInv => NoWorkerStranded
  BY DEF IInv, ListedOrWoken, NoWorkerStranded
<1> QED
  BY Invariance, <1>1, PTL

-----------------------------------------------------------------------------
(* Refinement of HostCall *)

LEMMA InitRefines == Init => Abstract!Init
  BY DEF Init, Abstract!Init, Execution

\* A step of a worker either answers its call truthfully or changes nothing
\* that a caller can see.
LEMMA WorkerRefines ==
    ASSUME IInv, IInv', NEW j \in Jobs, Worker(j)
    PROVE  Abstract!Reply(j) \/ UNCHANGED Abstract!vars
<1> USE DEF IInv, TypeOK, JobStates, Failures, WorkerPCs, MainHasJob,
            WorkerProgress, ExceptionMeaning, EventMeaning,
            TimedOutIsCancelled, Goto, Return, jobVars, mainVars, workerVars,
            Execution, Abstract!vars, Abstract!Reply, Abstract!Truthful
<1>1. CASE Enter(j)
  BY <1>1 DEF Enter
<1>2. CASE Register(j)
  BY <1>2 DEF Register
<1>3. CASE Enqueue(j) \/ WakeUp(j) \/ TimeOut(j) \/ Unlist(j)
  BY <1>3 DEF Enqueue, WakeUp, TimeOut, Unlist
<1>4. CASE GiveUp(j)
  BY <1>4 DEF GiveUp
<1>5. CASE Poll(j)
  BY <1>5 DEF Poll
<1>6. CASE Collect(j)
  BY <1>6 DEF Collect
<1> QED
  BY <1>1, <1>2, <1>3, <1>4, <1>5, <1>6 DEF Worker

LEMMA PumpRefines ==
    ASSUME IInv, IInv', Pump
    PROVE  \/ \E j \in Jobs : Abstract!Start(j) \/ Abstract!Finish(j)
           \/ UNCHANGED Abstract!vars
<1> USE DEF IInv, TypeOK, JobStates, Failures, MainHasJob,
            TimedOutIsCancelled, jobVars, mainVars, workerVars,
            Execution, Abstract!vars
<1>1. CASE PumpGet \/ PumpCheck
  BY <1>1 DEF PumpGet, PumpCheck
<1>2. CASE PumpClaim
  <2>1. CASE jstate[mjob] = "queued"
    <3>1. mjob \in Jobs /\ Execution[mjob] = "no" /\ outcome[mjob] # "timeout"
      <4>1. mpc = "claim" /\ mjob \in Jobs
        BY <1>2 DEF PumpClaim
      <4>2. outcome[mjob] # "timeout"
        BY <4>1, <2>1
      <4> QED
        BY <4>1, <4>2, <2>1
    <3>2. Execution' = [Execution EXCEPT ![mjob] = "running"]
      <4>1. /\ mpc = "claim" /\ mpc' = "run"
            /\ jstate' = [jstate EXCEPT ![mjob] = "running"]
        BY <1>2, <2>1 DEF PumpClaim
      <4>2. ASSUME NEW k \in Jobs
            PROVE  Execution'[k] = IF k = mjob THEN "running" ELSE Execution[k]
        BY <3>1, <4>1
      <4> QED
        BY <3>1, <4>2
    <3>3. UNCHANGED <<outcome, shutdown>>
      BY <1>2 DEF PumpClaim
    <3> QED
      BY <3>1, <3>2, <3>3 DEF Abstract!Start
  <2>2. CASE jstate[mjob] # "queued"
    BY <1>2, <2>2 DEF PumpClaim
  <2> QED
    BY <2>1, <2>2
<1>3. CASE PumpRun
  <2>1. mjob \in Jobs /\ Execution[mjob] = "running"
    BY <1>3 DEF PumpRun
  <2>2. Execution' = [Execution EXCEPT ![mjob] = "done"]
    BY <1>3, <2>1 DEF PumpRun
  <2>3. UNCHANGED <<outcome, shutdown>>
    BY <1>3 DEF PumpRun
  <2> QED
    BY <2>1, <2>2, <2>3 DEF Abstract!Finish
<1>4. CASE PumpComplete
  BY <1>4 DEF PumpComplete
<1> QED
  BY <1>1, <1>2, <1>3, <1>4 DEF Pump

LEMMA StopRefines ==
    ASSUME IInv, IInv', Stop
    PROVE  Abstract!Close \/ UNCHANGED Abstract!vars
<1> USE DEF IInv, TypeOK, JobStates, Failures, MainHasJob, jobVars, mainVars,
            workerVars, Execution, Abstract!vars
<1>1. CASE RequestShutdown
  BY <1>1 DEF RequestShutdown, Abstract!Close
<1>2. CASE DrainJob
  BY <1>2 DEF DrainJob
<1>3. CASE DrainDone \/ WakePending
  BY <1>3 DEF DrainDone, WakePending
<1> QED
  BY <1>1, <1>2, <1>3 DEF Stop

\* The queue, the locks and the events of the dispatcher implement the
\* promises of HostCall.
THEOREM Refinement == Spec => ImplementsHostCall
<1>1. ASSUME IInv, IInv', [Next]_vars
      PROVE  [Abstract!Next]_Abstract!vars
  <2>1. CASE UNCHANGED vars
    BY <2>1 DEF vars, jobVars, workerVars, mainVars, Execution, Abstract!vars
  <2>2. CASE Next
    BY <1>1, <2>2, WorkerRefines, PumpRefines, StopRefines
       DEF Next, Abstract!Next
  <2> QED
    BY <1>1, <2>1, <2>2
<1> QED
  BY InitRefines, Invariance, <1>1, PTL DEF Spec, ImplementsHostCall, Abstract!Spec
=============================================================================
