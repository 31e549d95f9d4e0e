---------------------------- MODULE RunConsumer ----------------------------
(***************************************************************************)
(* One agent run and the thread that consumes its events and decides when  *)
(* the run is over: run_prompt() of lucnhan/headless/runner.py, or         *)
(* EventBroker._drain() and _mark_finished() of lucnhan/control/server.py. *)
(* Both stop at the first poll that brings nothing while the agent is not  *)
(* running; the broker alone then empties the queue (Drains).              *)
(*                                                                         *)
(* Some control events are requests on which the agent waits: run_prompt() *)
(* answers them as it meets them, the broker's client does.  The consumer  *)
(* may be slow: any put of the runner may time out on a full queue.        *)
(***************************************************************************)
EXTENDS EventStream

CONSTANTS Drains,    \* the queue is emptied after the last poll
          SlowStart  \* a poll may run out before the agent thread gets to run()

ASSUME RunConsumerAssumption == Drains \in BOOLEAN /\ SlowStart \in BOOLEAN

VARIABLES
    asked,     \* positions of the events the agent waits on
    answered,  \* those that have been answered
    cpc        \* where the consumer is

allVars == <<vars, asked, answered, cpc>>

\* The variables of the run and of its consumer have their types, the queue
\* its bound.
ConsumerTypeOK ==
    /\ TypeOK
    /\ asked \subseteq 1..MaxEvents
    /\ answered \subseteq asked
    /\ cpc \in {"poll", "check", "drain", "done"}

ConsumerInit ==
    /\ Init
    /\ asked = {} /\ answered = {}
    /\ cpc = "poll"

-----------------------------------------------------------------------------
(* The agent *)

\* _wait_for_queue(): the generator does not go on before it has its answer.
Waiting == Current \in asked \ answered

Ask ==
    /\ ~Waiting
    /\ Yield("control")
    /\ asked' = asked \cup {Current + 1}
    /\ UNCHANGED <<answered, cpc>>

LoopStep ==
    /\ ~Waiting
    /\ Return \/ \E kind \in Kinds : Yield(kind)
    /\ UNCHANGED <<asked, answered, cpc>>

RunnerStep ==
    /\ \/ Start \/ Raise \/ Flush \/ DeliverDelta
       \/ DeliverEvent \/ DeliverFailure \/ PutSentinel
    /\ UNCHANGED <<asked, answered, cpc>>

Agent == Ask \/ LoopStep \/ RunnerStep

-----------------------------------------------------------------------------
(* The consumer *)

Goto(from, to) == cpc = from /\ cpc' = to

\* Mutant: a request is passed over without an answer.
PollEventMute ==
    /\ GetEvent
    /\ Goto("poll", IF Head(queue) = Sentinel THEN "check" ELSE "poll")
    /\ UNCHANGED <<answered, asked>>

PollEvent ==
    /\ GetEvent
    /\ Goto("poll", IF Head(queue) = Sentinel THEN "check" ELSE "poll")
    /\ answered' = answered \cup (asked \cap Range(Head(queue)))
    /\ UNCHANGED asked

PollTimeout ==
    /\ queue = <<>>
    /\ SlowStart \/ rpc \notin {"starting", "failed"}
    /\ Goto("poll", "check")
    /\ UNCHANGED <<vars, asked, answered>>

\* Mutant: nothing is drained.
StopAtOnce ==
    /\ Goto("check", IF running THEN "poll" ELSE "done")
    /\ UNCHANGED <<vars, asked, answered>>

\* Mutant: the agent's state is not looked at.
StopAtTimeout ==
    /\ Goto("check", IF Drains THEN "drain" ELSE "done")
    /\ UNCHANGED <<vars, asked, answered>>

\* get_event() returned None: is_agent_running decides.
Check ==
    /\ Goto("check", IF running THEN "poll" ELSE IF Drains THEN "drain" ELSE "done")
    /\ UNCHANGED <<vars, asked, answered>>

\* The loop of _mark_finished(): up to the first None.
DrainEvent ==
    /\ GetEvent
    /\ Goto("drain", IF Head(queue) = Sentinel THEN "done" ELSE "drain")
    /\ UNCHANGED <<asked, answered>>

DrainEmpty ==
    /\ queue = <<>>
    /\ Goto("drain", "done")
    /\ UNCHANGED <<vars, asked, answered>>

Consumer == PollEvent \/ PollTimeout \/ Check \/ DrainEvent \/ DrainEmpty

Finished == cpc = "done" /\ rpc = "ended" /\ UNCHANGED allVars

ConsumerNext == Agent \/ Consumer \/ Finished

ConsumerSpec == ConsumerInit /\ [][ConsumerNext]_allVars

\* The agent thread runs, and comes to its next event when it is answered;
\* a timed put returns.
AgentFairness == WF_allVars(Agent)
ConsumerFairness == WF_allVars(Consumer)

-----------------------------------------------------------------------------
(* Properties *)

\* Nothing was yielded or can still be yielded when the run is declared over.
OverMeansOver == cpc = "done" => rpc \in {"sentinel", "ended"}

\* The result of a run is made of all its events: TEXT_DONE, ERROR and
\* CANCELLED, from which text and exit code derive, are among the last.
ResultComplete ==
    cpc = "done" =>
        Positions(received) = 1..Current \ (dropped \cup discarded)

\* Even when its consumer is dead the agent thread ends, unless it waits for
\* an answer.
RunnerEnds == AgentFairness => (rpc = "next" ~> rpc = "ended" \/ Waiting)

\* A run always comes to an end for its consumer: it is answered when it
\* asks, unless the request itself was dropped, and the end is noticed with or
\* without the sentinel.
RunIsConcluded ==
    AgentFairness /\ ConsumerFairness
        => <>(cpc = "done" \/ asked \cap dropped # {})
=============================================================================
