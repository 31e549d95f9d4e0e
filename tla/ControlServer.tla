--------------------------- MODULE ControlServer ---------------------------
(***************************************************************************)
(* The headless control server (lucnhan/control/server.py) with the part   *)
(* of the session controller it drives (SessionControllerBase in           *)
(* lucnhan/ui/session_controller_base.py): HTTP handler threads, one event *)
(* broker thread per run, the runner slot of the controller's only tab,    *)
(* and the agent threads.                                                  *)
(*                                                                         *)
(* A run is what one POST /prompt creates; its runner and its agent bear   *)
(* its name.  A handler's step is a section under state.lock, or a call    *)
(* into the controller made outside of it.  Of an agent's events only the  *)
(* kind is kept: info, request (the agent then waits for a decision or a   *)
(* cancellation) and the outcome that ends it.                             *)
(***************************************************************************)
EXTENDS Integers, FiniteSets, SequencesExt

CONSTANTS Runs,          \* POST /prompt requests
          Requests,      \* POST /tool-approval, /answer and /cancel requests
          NoRun,
          MaxEvents,     \* bound: events of an agent before its outcome
          EagerClients,  \* a client may prompt as soon as it sees "finished"
          SlowStart      \* polls and requests may precede the agent's run()

ASSUME ControlAssumption ==
    /\ NoRun \notin Runs
    /\ MaxEvents \in Nat
    /\ EagerClients \in BOOLEAN /\ SlowStart \in BOOLEAN

VARIABLES
    shutting,  \* state.shutting_down
    current,   \* state.run
    finished,  \* run.finished
    exit,      \* run.exit_code
    buffer,    \* run.event_buffer: <<run of the emitting agent, kind>>
    hpc,       \* where the handler of the run's /prompt is
    bpc,       \* where the run's EventBroker is
    bstop,     \* broker._stop
    hand,      \* the event the broker has taken from the runner
    slot,      \* controller._runners[active tab]
    agent,     \* the agent thread of the run
    events,    \* runner.event_queue
    cancelled, \* loop._cancelled
    answer,    \* whether loop's answer queue holds a decision
    qpc,       \* where the handler of a request is
    qrun,      \* the run the request names
    sent,      \* requests that took effect: <<run named, run reached>>
    spc        \* where the /shutdown handler is

runVars == <<finished, exit, buffer>>
brokerVars == <<bpc, bstop, hand>>
agentVars == <<agent, events, cancelled, answer>>
requestVars == <<qpc, qrun, sent>>
vars == <<shutting, current, runVars, hpc, brokerVars, slot, agentVars, requestVars, spc>>

Outcomes == {"text_done", "error", "cancelled"}
Kinds == {"info", "request"} \cup Outcomes
NoEvent == <<>>

TypeOK ==
    /\ shutting \in BOOLEAN
    /\ current \in Runs \cup {NoRun} /\ slot \in Runs \cup {NoRun}
    /\ finished \in [Runs -> BOOLEAN]
    /\ exit \in [Runs -> {"ok", "config", "error", "cancelled"}]
    /\ buffer \in [Runs -> Seq(Runs \X Kinds)]
    /\ hpc \in [Runs -> {"idle", "start", "failed", "broker", "replied", "refused"}]
    /\ bpc \in [Runs -> {"none", "look", "get", "publish", "check",
                         "mark", "drain", "final", "notify", "exited"}]
    /\ bstop \in [Runs -> BOOLEAN]
    /\ hand \in [Runs -> Runs \X Kinds \cup {NoEvent}]
    /\ agent \in [Runs -> {"none", "starting", "running", "waiting", "ended"}]
    /\ events \in [Runs -> Seq(Kinds)]
    /\ cancelled \in [Runs -> BOOLEAN] /\ answer \in [Runs -> BOOLEAN]
    /\ qpc \in [Requests -> {"idle", "decide", "cancel", "done"}]
    /\ qrun \in [Requests -> Runs \cup {NoRun}]
    /\ sent \subseteq Runs \X Runs
    /\ spc \in {"idle", "cancel", "stop", "done"}

Init ==
    /\ shutting = FALSE
    /\ current = NoRun /\ slot = NoRun
    /\ finished = [r \in Runs |-> FALSE]
    /\ exit = [r \in Runs |-> "ok"]
    /\ buffer = [r \in Runs |-> <<>>]
    /\ hpc = [r \in Runs |-> "idle"]
    /\ bpc = [r \in Runs |-> "none"]
    /\ bstop = [r \in Runs |-> FALSE]
    /\ hand = [r \in Runs |-> NoEvent]
    /\ agent = [r \in Runs |-> "none"]
    /\ events = [r \in Runs |-> <<>>]
    /\ cancelled = [r \in Runs |-> FALSE] /\ answer = [r \in Runs |-> FALSE]
    /\ qpc = [q \in Requests |-> "idle"]
    /\ qrun = [q \in Requests |-> NoRun]
    /\ sent = {}
    /\ spc = "idle"

-----------------------------------------------------------------------------
(* POST /prompt *)

\* is_agent_running: only runners in the slot are looked at.
IsAgentRunning == slot # NoRun /\ agent[slot] \in {"running", "waiting"}

\* Mutant: the server is idle as soon as no agent runs.
IdleWithoutAgent == ~IsAgentRunning

Idle == current # NoRun => finished[current]

\* A client that is not eager leaves the broker the moment it takes to tell
\* the controller that the run is over.
ClientPrompts == EagerClients \/ \A r \in Runs : bpc[r] # "notify"

Accept(r) ==
    /\ hpc[r] = "idle"
    /\ ~shutting /\ Idle /\ ClientPrompts
    /\ current' = r
    /\ hpc' = [hpc EXCEPT ![r] = "start"]
    /\ UNCHANGED <<shutting, runVars, brokerVars, slot, agentVars, requestVars, spc>>

Refuse(r) ==
    /\ hpc[r] = "idle"
    /\ shutting \/ ~Idle
    /\ hpc' = [hpc EXCEPT ![r] = "refused"]
    /\ UNCHANGED <<shutting, current, runVars, brokerVars, slot, agentVars, requestVars, spc>>

\* controller.start_agent(), outside of the lock.
StartAgent(r) ==
    /\ hpc[r] = "start"
    /\ hpc' = [hpc EXCEPT ![r] = "broker"]
    /\ slot' = r
    /\ agent' = [agent EXCEPT ![r] = "starting"]
    /\ UNCHANGED <<shutting, current, runVars, brokerVars, events, cancelled, answer,
                   requestVars, spc>>

\* Mutant: a start that fails is reported but the run is left open.
StartFailsSilently(r) ==
    /\ hpc[r] = "start"
    /\ hpc' = [hpc EXCEPT ![r] = "failed"]
    /\ UNCHANGED <<shutting, current, runVars, brokerVars, slot, agentVars, requestVars, spc>>

\* start_agent() returned an error: no runner, no broker thread.
StartFails(r) ==
    /\ hpc[r] = "start"
    /\ hpc' = [hpc EXCEPT ![r] = "failed"]
    /\ IF current = r
       THEN /\ finished' = [finished EXCEPT ![r] = TRUE]
            /\ exit' = [exit EXCEPT ![r] = "config"]
       ELSE UNCHANGED <<finished, exit>>
    /\ UNCHANGED <<shutting, current, buffer, brokerVars, slot, agentVars, requestVars, spc>>

StartBroker(r) ==
    /\ hpc[r] = "broker"
    /\ hpc' = [hpc EXCEPT ![r] = "replied"]
    /\ bpc' = [bpc EXCEPT ![r] = "look"]
    /\ UNCHANGED <<shutting, current, runVars, bstop, hand, slot, agentVars, requestVars, spc>>

Prompt(r) ==
    \/ Accept(r) \/ Refuse(r) \/ StartAgent(r) \/ StartFails(r) \/ StartBroker(r)

-----------------------------------------------------------------------------
(* The agent thread *)

\* run() clears a cancellation that came before it.
EnterRun(r) ==
    /\ agent[r] = "starting"
    /\ agent' = [agent EXCEPT ![r] = "running"]
    /\ cancelled' = [cancelled EXCEPT ![r] = FALSE]
    /\ UNCHANGED <<shutting, current, runVars, hpc, brokerVars, slot, events, answer,
                   requestVars, spc>>

Emit(r, kind, then) ==
    /\ agent' = [agent EXCEPT ![r] = then]
    /\ events' = [events EXCEPT ![r] = Append(@, kind)]
    /\ UNCHANGED <<shutting, current, runVars, hpc, brokerVars, slot, cancelled, requestVars, spc>>

\* The number of events the agent has emitted: published, in hand or queued.
Emitted(r) ==
    Len(events[r]) + Len(buffer[r])
        + Cardinality({b \in Runs : hand[b] # NoEvent /\ hand[b][1] = r})

Work(r) ==
    /\ agent[r] = "running"
    /\ Emitted(r) < MaxEvents
    /\ Emit(r, "info", "running") \/ Emit(r, "request", "waiting")
    /\ UNCHANGED answer

Answered(r) ==
    /\ agent[r] = "waiting"
    /\ answer[r]
    /\ agent' = [agent EXCEPT ![r] = "running"]
    /\ answer' = [answer EXCEPT ![r] = FALSE]
    /\ UNCHANGED <<shutting, current, runVars, hpc, brokerVars, slot, events, cancelled,
                   requestVars, spc>>

\* Mutant: an agent that waits for a decision does not look at its event.
EndUnlessWaiting(r) ==
    /\ agent[r] = "running"
    /\ \/ \E kind \in {"text_done", "error"} : Emit(r, kind, "ended")
       \/ cancelled[r] /\ Emit(r, "cancelled", "ended")
    /\ UNCHANGED answer

\* The last event, after which is_running is false.
End(r) ==
    /\ \/ agent[r] = "running" /\ \E kind \in {"text_done", "error"} : Emit(r, kind, "ended")
       \/ agent[r] \in {"running", "waiting"} /\ cancelled[r] /\ Emit(r, "cancelled", "ended")
    /\ UNCHANGED answer

Agent(r) == EnterRun(r) \/ Work(r) \/ Answered(r) \/ End(r)

-----------------------------------------------------------------------------
(* The event broker of run r *)

BGoto(r, from, to) ==
    /\ bpc[r] = from
    /\ bpc' = [bpc EXCEPT ![r] = to]

\* The head of the _drain() loop; without a runner no agent is running.
Look(r) ==
    /\ BGoto(r, "look", IF bstop[r] \/ slot = NoRun THEN "mark" ELSE "get")
    /\ UNCHANGED <<shutting, current, runVars, hpc, bstop, hand, slot, agentVars, requestVars, spc>>

\* runner.get_event(), the runner being the one in the slot.
Take(r, from, to) ==
    /\ slot # NoRun
    /\ events[slot] # <<>>
    /\ BGoto(r, from, to)
    /\ hand' = [hand EXCEPT ![r] = <<slot, Head(events[slot])>>]
    /\ events' = [events EXCEPT ![slot] = Tail(@)]
    /\ UNCHANGED <<shutting, current, runVars, hpc, bstop, slot, agent, cancelled, answer,
                   requestVars, spc>>

Get(r) ==
    \/ Take(r, "get", "publish")
    \/ /\ slot # NoRun => events[slot] = <<>> /\ (SlowStart \/ agent[slot] # "starting")
       /\ BGoto(r, "get", "check")
       /\ UNCHANGED <<shutting, current, runVars, hpc, bstop, hand, slot, agentVars,
                      requestVars, spc>>

\* Mutant: a poll that brings nothing ends the run.
CheckNothing(r) ==
    /\ BGoto(r, "check", "mark")
    /\ UNCHANGED <<shutting, current, runVars, hpc, bstop, hand, slot, agentVars, requestVars, spc>>

Check(r) ==
    /\ BGoto(r, "check", IF IsAgentRunning THEN "look" ELSE "mark")
    /\ UNCHANGED <<shutting, current, runVars, hpc, bstop, hand, slot, agentVars, requestVars, spc>>

\* Under the lock: the event goes to the run that is current.
Publish(r) ==
    /\ BGoto(r, "publish", "look")
    /\ buffer' = [buffer EXCEPT ![current] = Append(@, hand[r])]
    /\ hand' = [hand EXCEPT ![r] = NoEvent]
    /\ UNCHANGED <<shutting, current, finished, exit, hpc, bstop, slot, agentVars,
                   requestVars, spc>>

\* Mutant: what is left in the queue is not drained.
MarkWithoutDrain(r) ==
    /\ BGoto(r, "mark", IF finished[current] THEN "exited" ELSE "final")
    /\ UNCHANGED <<shutting, current, runVars, hpc, bstop, hand, slot, agentVars, requestVars, spc>>

\* _mark_finished(): the current run, whichever it is, if not finished.
Mark(r) ==
    /\ BGoto(r, "mark", IF finished[current] THEN "exited"
                        ELSE IF slot = NoRun THEN "final" ELSE "drain")
    /\ UNCHANGED <<shutting, current, runVars, hpc, bstop, hand, slot, agentVars, requestVars, spc>>

\* One event of the drain; the run is looked at again under the lock.
Drain(r) ==
    \/ /\ hand[r] = NoEvent
       /\ Take(r, "drain", "drain")
    \/ /\ hand[r] # NoEvent
       /\ BGoto(r, "drain", IF current = r THEN "drain" ELSE "exited")
       /\ buffer' = IF current = r THEN [buffer EXCEPT ![r] = Append(@, hand[r])] ELSE buffer
       /\ hand' = [hand EXCEPT ![r] = NoEvent]
       /\ UNCHANGED <<shutting, current, finished, exit, hpc, bstop, slot, agentVars,
                      requestVars, spc>>
    \/ /\ hand[r] = NoEvent
       /\ slot # NoRun => events[slot] = <<>>
       /\ BGoto(r, "drain", "final")
       /\ UNCHANGED <<shutting, current, runVars, hpc, bstop, hand, slot, agentVars,
                      requestVars, spc>>

\* Mutant: the exit code is the kind of the last event.
ExitCodeOfLast(r) == IF buffer[r] = <<>> THEN "ok" ELSE Last(buffer[r])[2]

\* The last error or cancellation among the buffered events decides.
ExitCode(r) ==
    LET bad == {i \in DOMAIN buffer[r] : buffer[r][i][2] \in {"error", "cancelled"}}
    IN  IF bad = {} THEN "ok" ELSE buffer[r][Max(bad)][2]

\* Under the lock: the run is finished before the controller knows.
Finalise(r) ==
    /\ IF current = r /\ ~finished[r]
       THEN /\ BGoto(r, "final", "notify")
            /\ finished' = [finished EXCEPT ![r] = TRUE]
            /\ exit' = [exit EXCEPT ![r] = ExitCode(r)]
       ELSE BGoto(r, "final", "exited") /\ UNCHANGED <<finished, exit>>
    /\ UNCHANGED <<shutting, current, buffer, hpc, bstop, hand, slot, agentVars, requestVars, spc>>

\* controller.on_agent_finished(): the slot's runner is dropped.
Notify(r) ==
    /\ BGoto(r, "notify", "exited")
    /\ slot' = NoRun
    /\ UNCHANGED <<shutting, current, runVars, hpc, bstop, hand, agentVars, requestVars, spc>>

Broker(r) ==
    \/ Look(r) \/ Get(r) \/ Check(r) \/ Publish(r)
    \/ Mark(r) \/ Drain(r) \/ Finalise(r) \/ Notify(r)

-----------------------------------------------------------------------------
(* POST /answer, /tool-approval, /approval and /cancel *)

\* _resolve_run(): the named run is the current one and has not finished.
\* A client knows the name of a run from the reply to its /prompt.
Resolve(q, r, what) ==
    /\ qpc[q] = "idle"
    /\ hpc[r] = "replied"
    /\ SlowStart \/ agent[r] # "starting"
    /\ current = r /\ ~finished[r]
    /\ qpc' = [qpc EXCEPT ![q] = what]
    /\ qrun' = [qrun EXCEPT ![q] = r]
    /\ UNCHANGED <<shutting, current, runVars, hpc, brokerVars, slot, agentVars, sent, spc>>

\* get_runner() and submit_tool_approval() or submit_user_answer(), or
\* controller.cancel(): they reach the runner in the slot, if any.
Deliver(q) ==
    /\ qpc[q] \in {"decide", "cancel"}
    /\ qpc' = [qpc EXCEPT ![q] = "done"]
    /\ IF slot = NoRun
       THEN UNCHANGED <<answer, cancelled, sent>>
       ELSE /\ sent' = sent \cup {<<qrun[q], slot>>}
            /\ IF qpc[q] = "decide"
               THEN answer' = [answer EXCEPT ![slot] = TRUE] /\ UNCHANGED cancelled
               ELSE cancelled' = [cancelled EXCEPT ![slot] = TRUE] /\ UNCHANGED answer
    /\ UNCHANGED <<shutting, current, runVars, hpc, brokerVars, slot, agent, events, qrun, spc>>

Request(q) ==
    \/ \E r \in Runs, what \in {"decide", "cancel"} : Resolve(q, r, what)
    \/ Deliver(q)

-----------------------------------------------------------------------------
(* POST /shutdown *)

BeginShutdown ==
    /\ spc = "idle"
    /\ shutting' = TRUE
    /\ spc' = "cancel"
    /\ UNCHANGED <<current, runVars, hpc, brokerVars, slot, agentVars, requestVars>>

CancelRun ==
    /\ spc = "cancel"
    /\ spc' = "stop"
    /\ cancelled' = IF current # NoRun /\ slot # NoRun
                    THEN [cancelled EXCEPT ![slot] = TRUE] ELSE cancelled
    /\ UNCHANGED <<shutting, current, runVars, hpc, brokerVars, slot, agent, events, answer,
                   requestVars>>

StopBroker ==
    /\ spc = "stop"
    /\ spc' = "done"
    /\ bstop' = IF current # NoRun THEN [bstop EXCEPT ![current] = TRUE] ELSE bstop
    /\ UNCHANGED <<shutting, current, runVars, hpc, bpc, hand, slot, agentVars, requestVars>>

Shutdown == BeginShutdown \/ CancelRun \/ StopBroker

-----------------------------------------------------------------------------
\* Nothing is left to do; agents that wait for a decision may stay behind.
Quiet ==
    /\ \A r \in Runs : /\ hpc[r] \in {"failed", "replied", "refused"}
                       /\ bpc[r] \in {"none", "exited"}
                       /\ agent[r] \in {"none", "waiting", "ended"}
    /\ UNCHANGED vars

Next ==
    \/ \E r \in Runs : Prompt(r) \/ Agent(r) \/ Broker(r)
    \/ \E q \in Requests : Request(q)
    \/ Shutdown
    \/ Quiet

Spec == Init /\ [][Next]_vars

\* Handlers, brokers and agents run.
Fairness ==
    /\ \A r \in Runs : WF_vars(Agent(r)) /\ WF_vars(Broker(r))
                       /\ WF_vars(StartAgent(r) \/ StartFails(r) \/ StartBroker(r))
    /\ \A q \in Requests : WF_vars(Deliver(q))

-----------------------------------------------------------------------------
(* Properties *)

Running(r) == agent[r] \in {"starting", "running", "waiting"}

\* Two agents never work on the one database and session of the server.
OneAgentAtATime == \A r, s \in Runs : Running(r) /\ Running(s) => r = s

\* "When the run finishes (runner gone and agent not running)": a finished
\* run is not one whose agent goes on unseen, unless the broker was stopped.
FinishedMeansEnded == \A r \in Runs : finished[r] /\ ~bstop[r] => ~Running(r)

\* A client sees the events of its own run, and when the run has finished it
\* has seen all of them, the last one and the exit code telling its outcome.
WholeRun ==
    \A r \in Runs :
        /\ \A i \in DOMAIN buffer[r] : buffer[r][i][1] = r
        /\ finished[r] /\ ~bstop[r] /\ agent[r] # "none" =>
             /\ buffer[r] # <<>>
             /\ LET last == Last(buffer[r])[2]
                IN  last \in Outcomes /\ (exit[r] = IF last = "text_done" THEN "ok" ELSE last)

\* An answer, approval or cancellation reaches the run it names or none.
RequestReachesItsRun == \A s \in sent : s[1] = s[2]

\* A cancellation that reaches an agent inside of run() ends the run, also
\* when the agent waits for a decision.
CancelEnds ==
    Fairness => \A r \in Runs : cancelled[r] /\ agent[r] # "starting" ~> finished[r]

\* Every accepted prompt leads to a finished run, so that the next one can be
\* accepted, unless its agent is left waiting for a decision.
RunConcluded ==
    Fairness => \A r \in Runs : hpc[r] = "start" ~> finished[r] \/ agent[r] = "waiting"
=============================================================================
