------------------------ MODULE ControlServerProofs ------------------------
(***************************************************************************)
(* Proofs about ControlServer, for every set of prompts and of requests    *)
(* and any number of events: with clients that leave the broker the moment *)
(* it takes to tell the controller that a run is over, and brokers that do *)
(* not overtake the start of an agent thread, the server has one agent at  *)
(* a time, and a finished run has ended and is there as a whole.           *)
(***************************************************************************)
EXTENDS ControlServer, FiniteSetTheorems, TLAPS

-----------------------------------------------------------------------------
(* The inductive invariant *)

\* A request that was resolved names a run.
RequestsNamed == \A q \in Requests : qpc[q] \in {"decide", "cancel"} => qrun[q] \in Runs

\* A broker about to publish has an event in its hand.
EventToPublish == \A r \in Runs : bpc[r] = "publish" => hand[r] # NoEvent

Typed == TypeOK /\ RequestsNamed /\ EventToPublish

\* What there is of a run at each place of its /prompt handler, and where its
\* broker is when it is finished.
Stages ==
    \A r \in Runs :
        /\ hpc[r] \in {"idle", "start", "failed", "refused"} =>
             agent[r] = "none" /\ bpc[r] = "none" /\ buffer[r] = <<>>
        /\ hpc[r] = "broker" => agent[r] # "none" /\ bpc[r] = "none"
        /\ hpc[r] = "replied" => agent[r] # "none" /\ bpc[r] # "none"
        /\ finished[r] <=> hpc[r] = "failed" \/ bpc[r] \in {"notify", "exited"}

\* The runner in the slot is that of the current run, from the start of its
\* agent until its broker has told the controller.
SlotMeaning ==
    /\ slot \in {NoRun, current}
    /\ current # NoRun => hpc[current] \in {"start", "failed", "broker", "replied"}
    /\ slot # NoRun <=>
         current # NoRun /\ hpc[current] \in {"broker", "replied"} /\ bpc[current] # "exited"

\* Nothing is left of a run that is not current any more.
PastIsOver ==
    \A r \in Runs \ {current} :
        /\ hpc[r] \in {"idle", "failed", "replied", "refused"}
        /\ bpc[r] \in {"none", "exited"}
        /\ ~Running(r)

\* Only the broker of the last run is ever stopped.
StopMeaning ==
    /\ spc # "idle" => shutting
    /\ \A r \in Runs : bstop[r] => shutting /\ r = current

\* What a broker has found out about its agent.
BrokerKnows ==
    \A r \in Runs :
        /\ bpc[r] = "check" => agent[r] # "starting"
        /\ bpc[r] \in {"mark", "drain", "final", "notify", "exited"} /\ ~bstop[r] => agent[r] = "ended"
        /\ bpc[r] \in {"final", "notify", "exited"} /\ ~bstop[r] => events[r] = <<>>
        /\ hand[r] # NoEvent => hand[r][1] = r /\ bpc[r] \in {"publish", "drain"}

\* The events of a run are its own.
OwnEvents == \A r \in Runs : \A i \in DOMAIN buffer[r] : buffer[r][i][1] = r

\* An outcome is the last event of an agent that has ended, ...
OutcomeIsLast ==
    \A r \in Runs :
        /\ \A i \in DOMAIN buffer[r] : buffer[r][i][2] \in Outcomes =>
             i = Len(buffer[r]) /\ hand[r] = NoEvent /\ events[r] = <<>> /\ agent[r] = "ended"
        /\ hand[r] # NoEvent /\ hand[r][2] \in Outcomes => events[r] = <<>> /\ agent[r] = "ended"
        /\ \A i \in DOMAIN events[r] : events[r][i] \in Outcomes =>
             i = Len(events[r]) /\ agent[r] = "ended"

\* ... and such an agent has one, wherever it is by now.
OutcomeIsThere ==
    \A r \in Runs : agent[r] = "ended" =>
        \/ events[r] # <<>> /\ Last(events[r]) \in Outcomes
        \/ hand[r] # NoEvent /\ hand[r][2] \in Outcomes
        \/ buffer[r] # <<>> /\ Last(buffer[r])[2] \in Outcomes

\* A finished run has the exit code of its outcome.
ExitIsOutcome ==
    \A r \in Runs :
        finished[r] /\ ~bstop[r] /\ agent[r] # "none" =>
            exit[r] = IF Last(buffer[r])[2] = "text_done" THEN "ok" ELSE Last(buffer[r])[2]

Places == Stages /\ SlotMeaning /\ PastIsOver /\ StopMeaning /\ BrokerKnows
Stream == OwnEvents /\ OutcomeIsLast /\ OutcomeIsThere /\ ExitIsOutcome

IInv == Typed /\ Places /\ Stream

-----------------------------------------------------------------------------
(* Type correctness, which needs no hypothesis on clients or brokers *)

\* A set of positions has a last one.
LEMMA MaxIsMember ==
    ASSUME NEW n \in Nat, NEW S \in SUBSET (1..n), S # {}
    PROVE  Max(S) \in S
<1> DEFINE From(x) == S \cap (x..n)
           Ends == {From(x) : x \in S}
<1>0. \A x \in S : x \in Int /\ x <= n
  OBVIOUS
<1>1. Ends # {}
  <2>1. PICK x \in S : TRUE
    OBVIOUS
  <2>2. From(x) \in Ends
    BY <2>1
  <2> QED
    BY <2>2
<1>2. Ends \subseteq FiniteSubsetsOf(S)
  <2>1. IsFiniteSet(1..n) /\ S \subseteq 1..n
    BY FS_Interval
  <2>2. \A U \in SUBSET S : IsFiniteSet(U)
    BY <2>1, FS_Subset
  <2> QED
    BY <2>2 DEF FiniteSubsetsOf
<1>3. \E e \in Ends : \A u \in Ends : ~(<<u, e>> \in StrictSubsetOrdering(S))
  <2> HIDE DEF Ends
  <2> QED
    BY <1>1, <1>2, FS_StrictSubsetOrderingWellFounded, WFMin
<1>4. PICK x \in S : \A y \in S : ~(<<From(y), From(x)>> \in StrictSubsetOrdering(S))
  BY <1>3
<1>5. ASSUME NEW y \in S, y > x
      PROVE  FALSE
  <2>1. From(y) \subseteq From(x)
    BY <1>0, <1>5
  <2>2. x \in From(x) /\ x \notin From(y)
    BY <1>0, <1>5
  <2> HIDE DEF From
  <2>3. From(x) \in SUBSET S /\ From(y) \in SUBSET S
    BY DEF From
  <2> QED
    BY <2>1, <2>2, <2>3, <1>4 DEF StrictSubsetOrdering
<1>6. \A y \in S : x >= y
  BY <1>0, <1>5
<1> QED
  BY <1>6 DEF Max

LEMMA ExitCodeType ==
    ASSUME TypeOK, NEW r \in Runs
    PROVE  ExitCode(r) \in {"ok", "config", "error", "cancelled"}
<1> DEFINE bad == {i \in DOMAIN buffer[r] : buffer[r][i][2] \in {"error", "cancelled"}}
<1>1. bad \in SUBSET (1..Len(buffer[r])) /\ Len(buffer[r]) \in Nat
  BY DEF TypeOK
<1>2. bad # {} => Max(bad) \in bad
  BY <1>1, MaxIsMember
<1>3. ExitCode(r) = IF bad = {} THEN "ok" ELSE buffer[r][Max(bad)][2]
  BY DEF ExitCode
<1> QED
  BY <1>2, <1>3
LEMMA InitTypes == Init => Typed
<1> SUFFICES ASSUME Init PROVE Typed
  OBVIOUS
<1>1. buffer \in [Runs -> Seq(Runs \X Kinds)] /\ events \in [Runs -> Seq(Kinds)]
  BY DEF Init
<1>2. hand \in [Runs -> Runs \X Kinds \cup {NoEvent}]
  BY DEF Init
<1>3. exit \in [Runs -> {"ok", "config", "error", "cancelled"}] /\ sent \subseteq Runs \X Runs
  BY DEF Init
<1> QED
  BY <1>1, <1>2, <1>3 DEF Init, Typed, TypeOK, RequestsNamed, EventToPublish

\* Taking an event out of the queue of the runner in the slot.
LEMMA TakeEffect ==
    ASSUME Typed, NEW r \in Runs, NEW from, NEW to, Take(r, from, to)
    PROVE  /\ slot \in Runs /\ events[slot] # <<>>
           /\ Head(events[slot]) \in Kinds
           /\ hand' = [hand EXCEPT ![r] = <<slot, Head(events[slot])>>]
           /\ hand'[r] # NoEvent
           /\ hand' \in [Runs -> Runs \X Kinds \cup {NoEvent}]
           /\ events' = [events EXCEPT ![slot] = Tail(@)]
           /\ events' \in [Runs -> Seq(Kinds)]
           /\ bpc[r] = from /\ bpc' = [bpc EXCEPT ![r] = to]
           /\ UNCHANGED <<shutting, current, runVars, hpc, bstop, slot, agent, cancelled, answer,
                          requestVars, spc>>
<1>1. slot \in Runs /\ events[slot] \in Seq(Kinds) /\ events[slot] # <<>>
  BY DEF Typed, TypeOK, Take
<1>2. Head(events[slot]) \in Kinds /\ Tail(events[slot]) \in Seq(Kinds)
  BY <1>1
<1>3. <<slot, Head(events[slot])>> \in Runs \X Kinds /\ <<slot, Head(events[slot])>> # NoEvent
  BY <1>1, <1>2 DEF NoEvent
<1> QED
  BY <1>1, <1>2, <1>3 DEF Typed, TypeOK, Take, BGoto

LEMMA TakeTypes ==
    ASSUME Typed, NEW r \in Runs, NEW from, NEW to, Take(r, from, to), to \in {"publish", "drain"}
    PROVE  Typed'
<1>1. /\ hand' \in [Runs -> Runs \X Kinds \cup {NoEvent}] /\ events' \in [Runs -> Seq(Kinds)]
      /\ hand'[r] # NoEvent /\ hand' = [hand EXCEPT ![r] = <<slot, Head(events[slot])>>]
      /\ bpc' = [bpc EXCEPT ![r] = to]
      /\ UNCHANGED <<shutting, current, finished, exit, buffer, hpc, bstop, slot, agent, cancelled, answer,
                     qpc, qrun, sent, spc>>
  BY TakeEffect DEF runVars, requestVars
<1>2. TypeOK'
  BY <1>1 DEF Typed, TypeOK
<1>3. RequestsNamed'
  BY <1>1 DEF Typed, RequestsNamed
<1>4. ASSUME NEW s \in Runs, bpc'[s] = "publish"
      PROVE  hand'[s] # NoEvent
  BY <1>1, <1>4 DEF Typed, TypeOK, EventToPublish
<1> QED
  BY <1>2, <1>3, <1>4 DEF Typed, EventToPublish

LEMMA PromptTypes ==
    ASSUME Typed, NEW r \in Runs, Prompt(r)
    PROVE  Typed'
<1> USE DEF Typed, runVars, brokerVars, agentVars, requestVars
<1>1. CASE Accept(r)
  BY <1>1 DEF TypeOK, RequestsNamed, EventToPublish, Accept
<1>2. CASE Refuse(r)
  BY <1>2 DEF TypeOK, RequestsNamed, EventToPublish, Refuse
<1>3. CASE StartAgent(r)
  BY <1>3 DEF TypeOK, RequestsNamed, EventToPublish, StartAgent
<1>4. CASE StartFails(r)
  BY <1>4 DEF TypeOK, RequestsNamed, EventToPublish, StartFails
<1>5. CASE StartBroker(r)
  BY <1>5 DEF TypeOK, RequestsNamed, EventToPublish, StartBroker
<1> QED
  BY <1>1, <1>2, <1>3, <1>4, <1>5 DEF Prompt

LEMMA AgentTypes ==
    ASSUME Typed, NEW r \in Runs, Agent(r)
    PROVE  Typed'
<1> USE DEF Typed, runVars, brokerVars, agentVars, requestVars
<1>1. CASE EnterRun(r)
  BY <1>1 DEF TypeOK, RequestsNamed, EventToPublish, EnterRun
<1>3. CASE Answered(r)
  BY <1>3 DEF TypeOK, RequestsNamed, EventToPublish, Answered
<1>2. ASSUME NEW kind \in Kinds, NEW then \in {"running", "waiting", "ended"},
             Emit(r, kind, then), UNCHANGED answer
      PROVE  Typed'
  <2>1. events' \in [Runs -> Seq(Kinds)]
    BY <1>2 DEF TypeOK, Emit
  <2> QED
    BY <1>2, <2>1 DEF TypeOK, RequestsNamed, EventToPublish, Emit
<1> QED
  BY <1>1, <1>2, <1>3 DEF Agent, Work, End, Kinds, Outcomes

LEMMA BrokerTypes ==
    ASSUME Typed, NEW r \in Runs, Broker(r)
    PROVE  Typed'
<1> USE DEF BGoto, runVars, brokerVars, agentVars, requestVars
<1>1. ASSUME NEW to \in {"mark", "get", "look", "drain", "exited", "final", "notify", "check"},
             bpc' = [bpc EXCEPT ![r] = to], TypeOK', UNCHANGED <<hand, requestVars>>
      PROVE  Typed'
  <2>1. RequestsNamed'
    BY <1>1 DEF Typed, RequestsNamed
  <2>2. EventToPublish'
    BY <1>1 DEF Typed, TypeOK, EventToPublish
  <2> QED
    BY <1>1, <2>1, <2>2 DEF Typed
<1>2. CASE Look(r) \/ Check(r) \/ Mark(r) \/ Notify(r)
  <2>1. TypeOK'
    BY <1>2 DEF Typed, TypeOK, Look, Check, Mark, Notify
  <2> QED
    BY <1>1, <1>2, <2>1 DEF Look, Check, Mark, Notify
<1>3. CASE Get(r)
  <2>1. CASE Take(r, "get", "publish")
    BY <2>1, TakeTypes
  <2>2. CASE ~Take(r, "get", "publish")
    <3>1. /\ bpc' = [bpc EXCEPT ![r] = "check"]
          /\ UNCHANGED <<shutting, current, runVars, hpc, bstop, hand, slot, agentVars, requestVars, spc>>
      BY <1>3, <2>2 DEF Get
    <3>2. TypeOK'
      BY <3>1 DEF Typed, TypeOK
    <3> QED
      BY <1>1, <3>1, <3>2
  <2> QED
    BY <2>1, <2>2
<1>4. CASE Publish(r) \/ (Drain(r) /\ hand[r] # NoEvent)
  <2>1. hand[r] # NoEvent /\ hand[r] \in Runs \X Kinds
    BY <1>4 DEF Typed, TypeOK, EventToPublish, Publish
  <2>2. \A x \in Runs : [buffer EXCEPT ![x] = Append(@, hand[r])] \in [Runs -> Seq(Runs \X Kinds)]
    BY <2>1 DEF Typed, TypeOK
  <2>3. current \notin Runs => [buffer EXCEPT ![current] = Append(@, hand[r])] = buffer
    BY DEF Typed, TypeOK
  <2>4. buffer' \in [Runs -> Seq(Runs \X Kinds)]
    <3>1. buffer \in [Runs -> Seq(Runs \X Kinds)]
      BY DEF Typed, TypeOK
    <3>2. \/ buffer' = buffer
          \/ buffer' = [buffer EXCEPT ![r] = Append(@, hand[r])]
          \/ buffer' = [buffer EXCEPT ![current] = Append(@, hand[r])]
      BY <1>4, <2>1 DEF Publish, Drain
    <3> QED
      BY <2>2, <2>3, <3>1, <3>2
  <2>5. /\ hand' = [hand EXCEPT ![r] = NoEvent]
        /\ \E to \in {"look", "drain", "exited"} : bpc' = [bpc EXCEPT ![r] = to]
        /\ UNCHANGED <<shutting, current, finished, exit, hpc, bstop, slot, agentVars, requestVars, spc>>
    BY <1>4, <2>1 DEF Publish, Drain
  <2>6. TypeOK'
    BY <2>4, <2>5 DEF Typed, TypeOK
  <2>7. RequestsNamed' /\ EventToPublish'
    BY <2>5 DEF Typed, TypeOK, RequestsNamed, EventToPublish
  <2> QED
    BY <2>6, <2>7 DEF Typed
<1>5. CASE Drain(r) /\ hand[r] = NoEvent
  <2>1. CASE Take(r, "drain", "drain")
    BY <2>1, TakeTypes
  <2>2. CASE ~Take(r, "drain", "drain")
    <3>1. /\ bpc' = [bpc EXCEPT ![r] = "final"]
          /\ UNCHANGED <<shutting, current, runVars, hpc, bstop, hand, slot, agentVars, requestVars, spc>>
      BY <1>5, <2>2 DEF Drain
    <3>2. TypeOK'
      BY <3>1 DEF Typed, TypeOK
    <3> QED
      BY <1>1, <3>1, <3>2
  <2> QED
    BY <2>1, <2>2
<1>6. CASE Finalise(r)
  <2>1. exit' \in [Runs -> {"ok", "config", "error", "cancelled"}] /\ finished' \in [Runs -> BOOLEAN]
    BY <1>6, ExitCodeType DEF Typed, TypeOK, Finalise
  <2>2. \E to \in {"notify", "exited"} : bpc' = [bpc EXCEPT ![r] = to]
    BY <1>6 DEF Finalise
  <2>3. TypeOK'
    BY <1>6, <2>1, <2>2 DEF Typed, TypeOK, Finalise
  <2> QED
    BY <1>1, <1>6, <2>2, <2>3 DEF Finalise
<1> QED
  BY <1>2, <1>3, <1>4, <1>5, <1>6 DEF Broker

LEMMA OtherTypes ==
    ASSUME Typed, (\E q \in Requests : Request(q)) \/ Shutdown
    PROVE  Typed'
<1> USE DEF Typed, runVars, brokerVars, agentVars, requestVars
<1>1. ASSUME NEW q \in Requests, NEW r \in Runs, NEW what \in {"decide", "cancel"}, Resolve(q, r, what)
      PROVE  Typed'
  BY <1>1 DEF TypeOK, RequestsNamed, EventToPublish, Resolve
<1>2. ASSUME NEW q \in Requests, Deliver(q)
      PROVE  Typed'
  <2>1. sent' \subseteq Runs \X Runs
    BY <1>2 DEF TypeOK, RequestsNamed, Deliver
  <2> QED
    BY <1>2, <2>1 DEF TypeOK, RequestsNamed, EventToPublish, Deliver
<1>3. CASE Shutdown
  BY <1>3 DEF TypeOK, RequestsNamed, EventToPublish, Shutdown, BeginShutdown, CancelRun, StopBroker
<1> QED
  BY <1>1, <1>2, <1>3 DEF Request

LEMMA StepTyped ==
    ASSUME Typed, [Next]_vars
    PROVE  Typed'
<1>1. CASE UNCHANGED vars
  BY <1>1 DEF Typed, TypeOK, RequestsNamed, EventToPublish, vars, runVars, brokerVars, agentVars, requestVars
<1> QED
  BY <1>1, PromptTypes, AgentTypes, BrokerTypes, OtherTypes DEF Next, Quiet

\* The variables keep their types, whatever clients and brokers do; in
\* particular the exit code of a run is one of the four the server knows.
THEOREM TypeCorrect == Spec => []TypeOK
<1>1. Typed /\ [Next]_vars => Typed'
  BY StepTyped
<1>2. Typed => TypeOK
  BY DEF Typed
<1> QED
  BY <1>1, <1>2, InitTypes, PTL DEF Spec

-----------------------------------------------------------------------------
(* One agent at a time, and whole runs *)

\* A broker that is at work is that of the current run, whose runner is in the slot.
LEMMA BrokerOfCurrent ==
    ASSUME Typed, Places, NEW r \in Runs, bpc[r] \notin {"none", "exited"}
    PROVE  r = current /\ slot = r /\ hpc[r] = "replied" /\ agent[r] # "none"
<1>1. r = current
  BY DEF Places, PastIsOver
<1>2. hpc[r] = "replied" /\ agent[r] # "none"
  BY DEF Places, Stages, Typed, TypeOK
<1> QED
  BY <1>1, <1>2, ControlAssumption DEF Places, SlotMeaning

LEMMA InitSafe == Init => Places /\ Stream
<1> SUFFICES ASSUME Init PROVE Places /\ Stream
  OBVIOUS
<1> USE ControlAssumption DEF Init
<1>1. Places
  BY DEF Places, Stages, SlotMeaning, PastIsOver, StopMeaning, BrokerKnows, Running
<1>2. Stream
  BY DEF Stream, OwnEvents, OutcomeIsLast, OutcomeIsThere, ExitIsOutcome
<1> QED
  BY <1>1, <1>2

\* The prompt of a client that is not eager finds the slot empty.
LEMMA AcceptSafe ==
    ASSUME ~EagerClients, IInv, NEW r \in Runs, Accept(r)
    PROVE  Places' /\ Stream'
<1> USE DEF IInv, runVars, brokerVars, agentVars, requestVars
<1>1. /\ hpc[r] = "idle" /\ ~shutting /\ current' = r /\ hpc' = [hpc EXCEPT ![r] = "start"]
      /\ UNCHANGED <<shutting, finished, exit, buffer, bpc, bstop, hand, slot, agent, events, spc>>
      /\ current # NoRun => finished[current]
      /\ \A x \in Runs : bpc[x] # "notify"
  BY DEF Accept, Idle, ClientPrompts
<1>2. current # r
  BY <1>1, ControlAssumption DEF Places, SlotMeaning
<1>3. slot = NoRun
  BY <1>1, ControlAssumption DEF Typed, TypeOK, Places, SlotMeaning, Stages
<1>4. Stages'
  BY <1>1 DEF Typed, TypeOK, Places, Stages
<1>5. SlotMeaning'
  BY <1>1, <1>3, ControlAssumption DEF Typed, TypeOK, SlotMeaning
<1>6. StopMeaning' /\ BrokerKnows'
  BY <1>1 DEF Places, StopMeaning, BrokerKnows
<1>7. ASSUME NEW x \in Runs \ {r}, x = current
      PROVE  hpc[x] \in {"failed", "replied"} /\ bpc[x] \in {"none", "exited"} /\ ~Running(x)
  <2>1. finished[x] /\ hpc[x] \in {"start", "failed", "broker", "replied"} /\ ~bstop[x]
    BY <1>1, <1>7, ControlAssumption DEF Places, SlotMeaning, StopMeaning
  <2> QED
    BY <1>1, <2>1 DEF Places, Stages, BrokerKnows, Running, Typed, TypeOK
<1>8. PastIsOver'
  BY <1>1, <1>2, <1>7 DEF Typed, TypeOK, Places, PastIsOver, Running
<1>9. Stream'
  BY <1>1 DEF Stream, OwnEvents, OutcomeIsLast, OutcomeIsThere, ExitIsOutcome
<1> QED
  BY <1>4, <1>5, <1>6, <1>8, <1>9 DEF Places

LEMMA PromptSafe ==
    ASSUME IInv, NEW r \in Runs, Refuse(r) \/ StartAgent(r) \/ StartFails(r) \/ StartBroker(r)
    PROVE  Places' /\ Stream'
<1> USE ControlAssumption DEF IInv, runVars, brokerVars, agentVars, requestVars
<1>1. CASE Refuse(r)
  <2>1. Places'
    BY <1>1 DEF Refuse, Typed, TypeOK, Places, Stages, SlotMeaning, PastIsOver, StopMeaning, BrokerKnows, Running
  <2>2. Stream'
    BY <1>1 DEF Refuse, Stream, OwnEvents, OutcomeIsLast, OutcomeIsThere, ExitIsOutcome
  <2> QED
    BY <2>1, <2>2
<1>2. CASE StartAgent(r)
  <2>1. r = current
    BY <1>2 DEF StartAgent, Places, PastIsOver
  <2>2. Places'
    BY <1>2, <2>1 DEF StartAgent, Typed, TypeOK, Places, Stages, SlotMeaning, PastIsOver, StopMeaning, BrokerKnows, Running
  <2>3. /\ UNCHANGED <<finished, exit, buffer, bstop, hand, events>> /\ ~finished[r] /\ agent[r] = "none"
        /\ agent' = [agent EXCEPT ![r] = "starting"] /\ DOMAIN agent = Runs
    BY <1>2 DEF StartAgent, Typed, TypeOK, Places, Stages
  <2>4. OwnEvents' /\ OutcomeIsLast' /\ OutcomeIsThere'
    BY <2>3 DEF Stream, OwnEvents, OutcomeIsLast, OutcomeIsThere
  <2>5. ExitIsOutcome'
    BY <2>3 DEF Stream, ExitIsOutcome
  <2> QED
    BY <2>2, <2>4, <2>5 DEF Stream
<1>3. CASE StartFails(r)
  <2>1. r = current /\ agent[r] = "none"
    BY <1>3 DEF StartFails, Places, PastIsOver, Stages
  <2>2. Places'
    BY <1>3, <2>1 DEF StartFails, Typed, TypeOK, Places, Stages, SlotMeaning, PastIsOver, StopMeaning, BrokerKnows, Running
  <2>3. OwnEvents' /\ OutcomeIsLast' /\ OutcomeIsThere'
    BY <1>3 DEF StartFails, Stream, OwnEvents, OutcomeIsLast, OutcomeIsThere
  <2>4. ExitIsOutcome'
    BY <1>3, <2>1 DEF StartFails, Typed, TypeOK, Stream, ExitIsOutcome
  <2> QED
    BY <2>2, <2>3, <2>4 DEF Stream
<1>4. CASE StartBroker(r)
  <2>1. r = current /\ agent[r] # "none"
    BY <1>4 DEF StartBroker, Places, PastIsOver, Stages
  <2>2. Places'
    BY <1>4, <2>1 DEF StartBroker, Typed, TypeOK, Places, Stages, SlotMeaning, PastIsOver, StopMeaning, BrokerKnows, Running
  <2>3. Stream'
    BY <1>4, <2>1 DEF StartBroker, Typed, TypeOK, Stream, OwnEvents, OutcomeIsLast, OutcomeIsThere, ExitIsOutcome
  <2> QED
    BY <2>2, <2>3
<1> QED
  BY <1>1, <1>2, <1>3, <1>4
\* An agent goes on, without an event or with one that is not an outcome.
LEMMA AgentGoesOnSafe ==
    ASSUME IInv, NEW r \in Runs, EnterRun(r) \/ Answered(r) \/ Work(r)
    PROVE  Places' /\ Stream'
<1> USE DEF IInv, runVars, brokerVars, agentVars, requestVars
<1>1. /\ agent[r] \in {"starting", "running", "waiting"}
      /\ \E then \in {"running", "waiting"} : agent' = [agent EXCEPT ![r] = then]
      /\ \/ events' = events
         \/ \E kind \in {"info", "request"} : events' = [events EXCEPT ![r] = Append(@, kind)]
      /\ UNCHANGED <<shutting, current, finished, exit, buffer, hpc, bpc, bstop, hand, slot, spc>>
  BY DEF EnterRun, Answered, Work, Emit
<1>2. DOMAIN agent = Runs /\ events \in [Runs -> Seq(Kinds)]
  BY DEF Typed, TypeOK
<1>3. agent'[r] \in {"running", "waiting"} /\ \A x \in Runs \ {r} : agent'[x] = agent[x] /\ events'[x] = events[x]
  BY <1>1, <1>2
<1>4. Stages' /\ SlotMeaning' /\ PastIsOver' /\ StopMeaning'
  BY <1>1, <1>3 DEF Places, Stages, SlotMeaning, PastIsOver, StopMeaning, Running
<1>5. BrokerKnows'
  BY <1>1, <1>3 DEF Places, BrokerKnows
<1>6. OwnEvents' /\ ExitIsOutcome'
  BY <1>1, <1>3 DEF Stream, OwnEvents, ExitIsOutcome, Places, BrokerKnows, Stages
<1>7. \A i \in DOMAIN events'[r] : events'[r][i] \notin Outcomes
  <2>1. \A i \in DOMAIN events[r] : events[r][i] \notin Outcomes
    BY <1>1 DEF Stream, OutcomeIsLast
  <2>2. CASE events' = events
    BY <2>1, <2>2
  <2>3. ASSUME NEW kind \in {"info", "request"}, events' = [events EXCEPT ![r] = Append(@, kind)]
        PROVE  \A i \in DOMAIN events'[r] : events'[r][i] \notin Outcomes
    <3>1. events'[r] = Append(events[r], kind) /\ events[r] \in Seq(Kinds)
      BY <2>3, <1>2
    <3>2. \A i \in DOMAIN events'[r] : events'[r][i] = kind \/ (i \in DOMAIN events[r] /\ events'[r][i] = events[r][i])
      BY <3>1
    <3> QED
      BY <2>1, <3>2 DEF Outcomes
  <2> QED
    BY <1>1, <2>2, <2>3
<1>8. OutcomeIsLast' /\ OutcomeIsThere'
  BY <1>1, <1>3, <1>7 DEF Stream, OutcomeIsLast, OutcomeIsThere
<1> QED
  BY <1>4, <1>5, <1>6, <1>8 DEF Places, Stream

\* An agent ends with its outcome.
LEMMA EndSafe ==
    ASSUME IInv, NEW r \in Runs, End(r)
    PROVE  Places' /\ Stream'
<1> USE DEF IInv, runVars, brokerVars, agentVars, requestVars
<1>1. PICK kind \in Outcomes :
        /\ agent[r] \in {"running", "waiting"}
        /\ agent' = [agent EXCEPT ![r] = "ended"]
        /\ events' = [events EXCEPT ![r] = Append(@, kind)]
        /\ UNCHANGED <<shutting, current, finished, exit, buffer, hpc, bpc, bstop, hand, slot, spc>>
  BY DEF End, Emit, Outcomes
<1>2. DOMAIN agent = Runs /\ events \in [Runs -> Seq(Kinds)]
  BY DEF Typed, TypeOK
<1>3. agent'[r] = "ended" /\ \A x \in Runs \ {r} : agent'[x] = agent[x] /\ events'[x] = events[x]
  BY <1>1, <1>2
<1>4. Stages' /\ SlotMeaning' /\ PastIsOver' /\ StopMeaning'
  BY <1>1, <1>3 DEF Places, Stages, SlotMeaning, PastIsOver, StopMeaning, Running
<1>5. BrokerKnows'
  BY <1>1, <1>3 DEF Places, BrokerKnows
<1>6. OwnEvents' /\ ExitIsOutcome'
  BY <1>1, <1>3 DEF Stream, OwnEvents, ExitIsOutcome
<1>7. /\ events'[r] # <<>> /\ Last(events'[r]) = kind
      /\ \A i \in DOMAIN events'[r] : i = Len(events'[r]) \/ (i \in DOMAIN events[r] /\ events'[r][i] = events[r][i])
  BY <1>1, <1>2, kind \in Kinds DEF Last, Kinds
<1>8. \A i \in DOMAIN events[r] : events[r][i] \notin Outcomes
  BY <1>1 DEF Stream, OutcomeIsLast
<1>9. OutcomeIsLast'
  BY <1>1, <1>3, <1>7, <1>8 DEF Stream, OutcomeIsLast
<1>10. OutcomeIsThere'
  BY <1>1, <1>3, <1>7 DEF Stream, OutcomeIsThere
<1> QED
  BY <1>4, <1>5, <1>6, <1>9, <1>10 DEF Places, Stream

\* The steps of a broker that only look.
LEMMA LookSafe ==
    ASSUME ~SlowStart, IInv, NEW r \in Runs,
           \/ Look(r) \/ Check(r) \/ Mark(r)
           \/ Get(r) /\ ~Take(r, "get", "publish")
           \/ Drain(r) /\ hand[r] = NoEvent /\ ~Take(r, "drain", "drain")
    PROVE  Places' /\ Stream'
<1> USE DEF IInv, runVars, brokerVars, agentVars, requestVars
<1>1. /\ bpc[r] \in {"look", "get", "check", "mark", "drain"}
      /\ UNCHANGED <<shutting, current, finished, exit, buffer, hpc, bstop, hand, slot, agent, events, spc>>
  BY DEF Look, Check, Mark, Get, Drain, BGoto
<1>2. r = current /\ slot = r /\ hpc[r] = "replied" /\ agent[r] # "none" /\ slot # NoRun /\ ~finished[r]
  BY <1>1, BrokerOfCurrent, ControlAssumption DEF Places, Stages
<1>3. PICK to \in {"mark", "get", "look", "check", "drain", "final"} :
        /\ bpc' = [bpc EXCEPT ![r] = to]
        /\ to = "check" => agent[r] # "starting"
        /\ to \in {"mark", "drain", "final"} => bstop[r] \/ agent[r] = "ended"
        /\ to = "final" => events[r] = <<>>
        /\ hand[r] # NoEvent => to = "drain"
  BY <1>1, <1>2 DEF Look, Check, Mark, Get, Drain, BGoto, IsAgentRunning, Places, BrokerKnows, Typed, TypeOK
<1>4. bpc'[r] = to /\ \A x \in Runs \ {r} : bpc'[x] = bpc[x]
  BY <1>3 DEF Typed, TypeOK
<1>5. Stages' /\ SlotMeaning' /\ PastIsOver' /\ StopMeaning'
  BY <1>1, <1>2, <1>4 DEF Places, Stages, SlotMeaning, PastIsOver, StopMeaning, Running
<1>6. BrokerKnows'
  BY <1>1, <1>2, <1>3, <1>4 DEF Places, BrokerKnows
<1>7. Stream'
  BY <1>1 DEF Stream, OwnEvents, OutcomeIsLast, OutcomeIsThere, ExitIsOutcome
<1> QED
  BY <1>5, <1>6, <1>7 DEF Places
\* A broker takes the next event of its own runner.
LEMMA TakeSafe ==
    ASSUME IInv, NEW r \in Runs,
           Take(r, "get", "publish") \/ (Take(r, "drain", "drain") /\ hand[r] = NoEvent)
    PROVE  Places' /\ Stream'
<1> USE DEF IInv, runVars, brokerVars, agentVars, requestVars
<1>1. PICK to \in {"publish", "drain"} :
        /\ bpc[r] \in {"get", "drain"} /\ bpc' = [bpc EXCEPT ![r] = to]
        /\ slot \in Runs /\ events[slot] # <<>> /\ hand'[r] # NoEvent
        /\ hand' = [hand EXCEPT ![r] = <<slot, Head(events[slot])>>]
        /\ events' = [events EXCEPT ![slot] = Tail(@)]
        /\ to = "drain" => bpc[r] = "drain"
        /\ bpc[r] = "drain" => hand[r] = NoEvent
        /\ UNCHANGED <<shutting, current, finished, exit, buffer, hpc, bstop, slot, agent, spc>>
  BY TakeEffect
<1>2. r = current /\ slot = r /\ hpc[r] = "replied" /\ agent[r] # "none" /\ ~finished[r] /\ hand[r] = NoEvent
  BY <1>1, BrokerOfCurrent DEF Places, Stages, BrokerKnows
<1>3. /\ bpc'[r] = to /\ hand'[r] = <<r, Head(events[r])>> /\ events'[r] = Tail(events[r])
      /\ \A x \in Runs \ {r} : bpc'[x] = bpc[x] /\ hand'[x] = hand[x] /\ events'[x] = events[x]
  BY <1>1, <1>2 DEF Typed, TypeOK
<1>4. Stages' /\ SlotMeaning' /\ PastIsOver' /\ StopMeaning'
  BY <1>1, <1>2, <1>3 DEF Places, Stages, SlotMeaning, PastIsOver, StopMeaning, Running
<1>5. BrokerKnows'
  BY <1>1, <1>2, <1>3 DEF Places, BrokerKnows
<1>6. OwnEvents' /\ ExitIsOutcome'
  BY <1>1 DEF Stream, OwnEvents, ExitIsOutcome
<1>7. events[r] \in Seq(Kinds) /\ events[r] # <<>>
  BY <1>1, <1>2 DEF Typed, TypeOK
<1>8. /\ \A i \in DOMAIN events'[r] : i + 1 \in DOMAIN events[r] /\ events'[r][i] = events[r][i + 1]
      /\ Len(events'[r]) = Len(events[r]) - 1
      /\ hand'[r][2] = events[r][1] /\ 1 \in DOMAIN events[r]
      /\ events'[r] # <<>> => Last(events'[r]) = Last(events[r])
      /\ events'[r] = <<>> => Last(events[r]) = events[r][1]
      /\ Len(events[r]) = 1 => events'[r] = <<>>
  <2>1. /\ events'[r] \in Seq(Kinds) /\ Len(events'[r]) = Len(events[r]) - 1
        /\ Len(events[r]) \in Nat /\ Len(events[r]) > 0
        /\ \A i \in 1..Len(events'[r]) : events'[r][i] = events[r][i + 1]
    BY <1>3, <1>7
  <2>2. /\ \A i \in DOMAIN events'[r] : i + 1 \in DOMAIN events[r] /\ events'[r][i] = events[r][i + 1]
        /\ hand'[r][2] = events[r][1] /\ 1 \in DOMAIN events[r]
    BY <1>3, <1>7, <2>1
  <2>3. events'[r] # <<>> => Last(events'[r]) = Last(events[r])
    BY <2>1 DEF Last
  <2>4. /\ events'[r] = <<>> => Last(events[r]) = events[r][1]
        /\ Len(events[r]) = 1 => events'[r] = <<>>
    BY <2>1 DEF Last
  <2> QED
    BY <2>1, <2>2, <2>3, <2>4
<1>9. OutcomeIsLast'
  <2>1. \A i \in DOMAIN buffer[r] : buffer[r][i][2] \notin Outcomes
    BY <1>7 DEF Stream, OutcomeIsLast
  <2>2. hand'[r][2] \in Outcomes => events'[r] = <<>> /\ agent[r] = "ended"
    BY <1>8 DEF Stream, OutcomeIsLast
  <2>3. \A i \in DOMAIN events'[r] : events'[r][i] \in Outcomes => i = Len(events'[r]) /\ agent[r] = "ended"
    <3> SUFFICES ASSUME NEW i \in DOMAIN events'[r], events'[r][i] \in Outcomes
                 PROVE  i = Len(events'[r]) /\ agent[r] = "ended"
      OBVIOUS
    <3>1. i + 1 = Len(events[r]) /\ agent[r] = "ended"
      BY <1>8 DEF Stream, OutcomeIsLast
    <3>2. i \in Int /\ Len(events[r]) \in Int
      BY <1>3, <1>7
    <3> QED
      BY <1>8, <3>1, <3>2
  <2>4. ASSUME NEW x \in Runs \ {r}
        PROVE  /\ \A i \in DOMAIN buffer'[x] : buffer'[x][i][2] \in Outcomes =>
                    i = Len(buffer'[x]) /\ hand'[x] = NoEvent /\ events'[x] = <<>> /\ agent'[x] = "ended"
               /\ (hand'[x] # NoEvent /\ hand'[x][2] \in Outcomes => events'[x] = <<>> /\ agent'[x] = "ended")
               /\ \A i \in DOMAIN events'[x] : events'[x][i] \in Outcomes =>
                    i = Len(events'[x]) /\ agent'[x] = "ended"
    <3>1. buffer'[x] = buffer[x] /\ hand'[x] = hand[x] /\ events'[x] = events[x] /\ agent'[x] = agent[x]
      BY <1>1, <1>3
    <3>2. OutcomeIsLast
      BY DEF Stream
    <3> HIDE DEF IInv
    <3> QED
      BY <3>1, <3>2 DEF OutcomeIsLast
  <2>5. buffer'[r] = buffer[r] /\ agent'[r] = agent[r]
    BY <1>1
  <2> HIDE DEF IInv
  <2> QED
    BY <2>1, <2>2, <2>3, <2>4, <2>5 DEF OutcomeIsLast
<1>10. OutcomeIsThere'
  BY <1>1, <1>2, <1>3, <1>7, <1>8 DEF Stream, OutcomeIsThere, OutcomeIsLast
<1> QED
  BY <1>4, <1>5, <1>6, <1>9, <1>10 DEF Places, Stream

\* A broker appends the event in its hand to the buffer of its own run.
LEMMA AppendSafe ==
    ASSUME IInv, NEW r \in Runs, Publish(r) \/ (Drain(r) /\ hand[r] # NoEvent)
    PROVE  Places' /\ Stream'
<1> USE DEF IInv, runVars, brokerVars, agentVars, requestVars
<1>1. bpc[r] \in {"publish", "drain"} /\ hand[r] # NoEvent
  BY DEF Publish, Drain, Take, BGoto, Typed, EventToPublish
<1>2. r = current /\ slot = r /\ hpc[r] = "replied" /\ agent[r] # "none" /\ ~finished[r] /\ hand[r][1] = r
  BY <1>1, BrokerOfCurrent DEF Places, Stages, BrokerKnows
<1>3. PICK to \in {"look", "drain"} :
        /\ bpc' = [bpc EXCEPT ![r] = to] /\ (to = "drain" => bpc[r] = "drain")
        /\ hand' = [hand EXCEPT ![r] = NoEvent]
        /\ buffer' = [buffer EXCEPT ![r] = Append(@, hand[r])]
        /\ UNCHANGED <<shutting, current, finished, exit, hpc, bstop, slot, agent, events, spc>>
  BY <1>1, <1>2 DEF Publish, Drain, BGoto
<1>4. buffer[r] \in Seq(Runs \X Kinds) /\ hand[r] \in Runs \X Kinds
  BY <1>1 DEF Typed, TypeOK
<1>5. /\ bpc'[r] = to /\ hand'[r] = NoEvent /\ buffer'[r] = Append(buffer[r], hand[r])
      /\ \A x \in Runs \ {r} : bpc'[x] = bpc[x] /\ hand'[x] = hand[x] /\ buffer'[x] = buffer[x]
  <2>1. DOMAIN bpc = Runs /\ DOMAIN hand = Runs /\ DOMAIN buffer = Runs
    BY DEF Typed, TypeOK
  <2> QED
    BY <1>3, <2>1
<1>6. Stages' /\ SlotMeaning' /\ PastIsOver' /\ StopMeaning'
  BY <1>2, <1>3, <1>5 DEF Places, Stages, SlotMeaning, PastIsOver, StopMeaning, Running
<1>7. BrokerKnows'
  BY <1>2, <1>3, <1>5 DEF Places, BrokerKnows
<1>8. /\ buffer'[r] # <<>> /\ Last(buffer'[r]) = hand[r]
      /\ \A i \in DOMAIN buffer'[r] :
            \/ i = Len(buffer'[r]) /\ buffer'[r][i] = hand[r]
            \/ i \in DOMAIN buffer[r] /\ buffer'[r][i] = buffer[r][i]
  BY <1>4, <1>5 DEF Last
<1>9. OwnEvents' /\ ExitIsOutcome'
  BY <1>2, <1>3, <1>5, <1>8 DEF Stream, OwnEvents, ExitIsOutcome
<1>10. OutcomeIsLast'
  BY <1>1, <1>3, <1>5, <1>8 DEF Stream, OutcomeIsLast
<1>11. OutcomeIsThere'
  <2>1. ~(buffer[r] # <<>> /\ Last(buffer[r])[2] \in Outcomes)
    <3>1. buffer[r] # <<>> => Len(buffer[r]) \in DOMAIN buffer[r]
      BY <1>4
    <3> QED
      BY <1>1, <3>1 DEF Stream, OutcomeIsLast, Last
  <2>2. agent'[r] = "ended" =>
          \/ events'[r] # <<>> /\ Last(events'[r]) \in Outcomes
          \/ buffer'[r] # <<>> /\ Last(buffer'[r])[2] \in Outcomes
    <3>1. agent'[r] = agent[r] /\ events'[r] = events[r]
      BY <1>3
    <3>2. OutcomeIsThere
      BY DEF Stream
    <3>3. agent[r] = "ended" => (events[r] # <<>> /\ Last(events[r]) \in Outcomes) \/ hand[r][2] \in Outcomes
      BY <2>1, <3>2 DEF OutcomeIsThere
    <3> HIDE DEF IInv
    <3> QED
      BY <1>8, <3>1, <3>3
  <2>3. ASSUME NEW x \in Runs \ {r}, agent'[x] = "ended"
        PROVE  \/ events'[x] # <<>> /\ Last(events'[x]) \in Outcomes
               \/ hand'[x] # NoEvent /\ hand'[x][2] \in Outcomes
               \/ buffer'[x] # <<>> /\ Last(buffer'[x])[2] \in Outcomes
    <3>1. agent[x] = "ended" /\ events'[x] = events[x] /\ hand'[x] = hand[x] /\ buffer'[x] = buffer[x]
      BY <1>3, <1>5, <2>3
    <3> QED
      BY <3>1 DEF Stream, OutcomeIsThere
  <2> HIDE DEF IInv
  <2> QED
    BY <2>2, <2>3 DEF OutcomeIsThere
<1> QED
  BY <1>6, <1>7, <1>9, <1>10, <1>11 DEF Places, Stream

\* The exit code derived from a whole stream is that of its outcome.
LEMMA ExitCodeOfWhole ==
    ASSUME IInv, NEW r \in Runs, buffer[r] # <<>>, Last(buffer[r])[2] \in Outcomes
    PROVE  ExitCode(r) = IF Last(buffer[r])[2] = "text_done" THEN "ok" ELSE Last(buffer[r])[2]
<1> USE DEF IInv
<1> DEFINE bad == {i \in DOMAIN buffer[r] : buffer[r][i][2] \in {"error", "cancelled"}}
<1>1. buffer[r] \in Seq(Runs \X Kinds) /\ Len(buffer[r]) \in Nat /\ Len(buffer[r]) \in DOMAIN buffer[r]
  BY DEF Typed, TypeOK
<1>2. bad \in SUBSET (1..Len(buffer[r])) /\ bad \subseteq {Len(buffer[r])}
  BY <1>1 DEF Stream, OutcomeIsLast, Outcomes
<1>3. ExitCode(r) = IF bad = {} THEN "ok" ELSE buffer[r][Max(bad)][2]
  BY DEF ExitCode
<1>4. bad # {} => Max(bad) = Len(buffer[r])
  BY <1>1, <1>2, MaxIsMember
<1>5. Last(buffer[r])[2] = "text_done" => bad = {}
  BY <1>2 DEF Last
<1>6. Last(buffer[r])[2] # "text_done" => bad # {}
  BY <1>1 DEF Last, Outcomes
<1> QED
  BY <1>3, <1>4, <1>5, <1>6 DEF Last

LEMMA FinishSafe ==
    ASSUME IInv, NEW r \in Runs, Finalise(r) \/ Notify(r)
    PROVE  Places' /\ Stream'
<1> USE DEF IInv, runVars, brokerVars, agentVars, requestVars, BGoto
<1>1. CASE Finalise(r)
  <2>1. r = current /\ slot = r /\ hpc[r] = "replied" /\ agent[r] # "none" /\ ~finished[r] /\ hand[r] = NoEvent
        /\ bpc[r] = "final"
    BY <1>1, BrokerOfCurrent DEF Finalise, Places, Stages, BrokerKnows
  <2>2. /\ bpc' = [bpc EXCEPT ![r] = "notify"]
        /\ finished' = [finished EXCEPT ![r] = TRUE]
        /\ exit' = [exit EXCEPT ![r] = ExitCode(r)]
        /\ UNCHANGED <<shutting, current, buffer, hpc, bstop, hand, slot, agent, events, spc>>
    BY <1>1, <2>1 DEF Finalise
  <2>3. /\ bpc'[r] = "notify" /\ finished'[r] /\ exit'[r] = ExitCode(r)
        /\ \A x \in Runs \ {r} : bpc'[x] = bpc[x] /\ finished'[x] = finished[x] /\ exit'[x] = exit[x]
    BY <2>2 DEF Typed, TypeOK
  <2>4. Stages' /\ SlotMeaning' /\ PastIsOver' /\ StopMeaning'
    BY <2>1, <2>2, <2>3 DEF Places, Stages, SlotMeaning, PastIsOver, StopMeaning, Running
  <2>5. BrokerKnows'
    BY <2>1, <2>2, <2>3 DEF Places, BrokerKnows
  <2>6. OwnEvents' /\ OutcomeIsLast' /\ OutcomeIsThere'
    BY <2>2 DEF Stream, OwnEvents, OutcomeIsLast, OutcomeIsThere
  <2>7. ~bstop[r] => buffer[r] # <<>> /\ Last(buffer[r])[2] \in Outcomes
    BY <2>1 DEF Places, BrokerKnows, Stream, OutcomeIsThere
  <2>8. ExitIsOutcome'
    BY <2>2, <2>3, <2>7, ExitCodeOfWhole DEF Stream, ExitIsOutcome
  <2> QED
    BY <2>4, <2>5, <2>6, <2>8 DEF Places, Stream
<1>2. CASE Notify(r)
  <2>1. r = current /\ slot = r /\ hpc[r] = "replied" /\ bpc[r] = "notify" /\ hand[r] = NoEvent
    BY <1>2, BrokerOfCurrent DEF Notify, Places, BrokerKnows
  <2>2. bpc'[r] = "exited" /\ \A x \in Runs \ {r} : bpc'[x] = bpc[x]
    BY <1>2 DEF Notify, Typed, TypeOK
  <2>3. Stages' /\ PastIsOver' /\ StopMeaning' /\ BrokerKnows'
    BY <1>2, <2>1, <2>2 DEF Notify, Places, Stages, PastIsOver, StopMeaning, BrokerKnows, Running
  <2>4. SlotMeaning'
    BY <1>2, <2>1, <2>2, ControlAssumption DEF Notify, Places, SlotMeaning
  <2>5. Stream'
    BY <1>2 DEF Notify, Stream, OwnEvents, OutcomeIsLast, OutcomeIsThere, ExitIsOutcome
  <2> QED
    BY <2>3, <2>4, <2>5 DEF Places
<1> QED
  BY <1>1, <1>2

LEMMA OtherSafe ==
    ASSUME IInv, (\E q \in Requests : Request(q)) \/ Shutdown
    PROVE  Places' /\ Stream'
<1> USE DEF IInv, runVars, brokerVars, agentVars, requestVars
<1>1. CASE UNCHANGED <<shutting, current, finished, exit, buffer, hpc, bpc, bstop, hand, slot, agent, events, spc>>
  <2>1. Places'
    BY <1>1 DEF Places, Stages, SlotMeaning, PastIsOver, StopMeaning, BrokerKnows, Running
  <2> QED
    BY <1>1, <2>1 DEF Stream, OwnEvents, OutcomeIsLast, OutcomeIsThere, ExitIsOutcome
<1>2. CASE Shutdown
  <2>1. /\ UNCHANGED <<current, finished, exit, buffer, hpc, bpc, hand, slot, agent, events>>
        /\ shutting' \in BOOLEAN /\ (shutting => shutting') /\ (spc' # "idle" => shutting')
        /\ \/ bstop' = bstop
           \/ current # NoRun /\ shutting' /\ bstop' = [bstop EXCEPT ![current] = TRUE]
    BY <1>2 DEF Shutdown, BeginShutdown, CancelRun, StopBroker, Typed, TypeOK, Places, StopMeaning
  <2>2. \A x \in Runs : (bstop[x] => bstop'[x]) /\ (bstop'[x] => bstop[x] \/ (x = current /\ shutting'))
    BY <2>1, ControlAssumption DEF Typed, TypeOK
  <2>3. Stages' /\ SlotMeaning' /\ PastIsOver' /\ BrokerKnows'
    BY <2>1, <2>2 DEF Places, Stages, SlotMeaning, PastIsOver, BrokerKnows, Running
  <2>4. StopMeaning'
    BY <2>1, <2>2 DEF Places, StopMeaning
  <2>5. Stream'
    BY <2>1, <2>2 DEF Stream, OwnEvents, OutcomeIsLast, OutcomeIsThere, ExitIsOutcome
  <2> QED
    BY <2>3, <2>4, <2>5 DEF Places
<1> QED
  BY <1>1, <1>2 DEF Request, Resolve, Deliver

LEMMA StepSafe ==
    ASSUME ~EagerClients, ~SlowStart, IInv, [Next]_vars
    PROVE  IInv'
<1>1. ASSUME NEW r \in Runs, Prompt(r)
      PROVE  Places' /\ Stream'
  BY <1>1, AcceptSafe, PromptSafe DEF Prompt
<1>2. ASSUME NEW r \in Runs, Agent(r)
      PROVE  Places' /\ Stream'
  BY <1>2, AgentGoesOnSafe, EndSafe DEF Agent
<1>3. ASSUME NEW r \in Runs, Broker(r)
      PROVE  Places' /\ Stream'
  <2>1. CASE Look(r) \/ Check(r) \/ Mark(r)
    BY <2>1, LookSafe
  <2>2. CASE Get(r)
    BY <2>2, LookSafe, TakeSafe DEF Get
  <2>3. CASE Drain(r)
    BY <2>3, LookSafe, TakeSafe, AppendSafe DEF Drain
  <2>4. CASE Publish(r) \/ Finalise(r) \/ Notify(r)
    BY <2>4, AppendSafe, FinishSafe
  <2> QED
    BY <1>3, <2>1, <2>2, <2>3, <2>4 DEF Broker
<1>4. ASSUME (\E q \in Requests : Request(q)) \/ Shutdown
      PROVE  Places' /\ Stream'
  BY <1>4, OtherSafe
<1>5. ASSUME UNCHANGED vars
      PROVE  Places' /\ Stream'
  <2>1. Places'
    BY <1>5 DEF vars, runVars, brokerVars, agentVars, requestVars, IInv, Places, Stages, SlotMeaning,
                PastIsOver, StopMeaning, BrokerKnows, Running
  <2>2. Stream'
    BY <1>5 DEF vars, runVars, brokerVars, agentVars, requestVars, IInv, Stream, OwnEvents,
                OutcomeIsLast, OutcomeIsThere, ExitIsOutcome
  <2> QED
    BY <2>1, <2>2
<1>6. Places' /\ Stream'
  BY <1>1, <1>2, <1>3, <1>4, <1>5 DEF Next, Quiet
<1> QED
  BY <1>6, StepTyped DEF IInv

THEOREM Invariance == ~EagerClients /\ ~SlowStart /\ Spec => []IInv
<1> SUFFICES ASSUME ~EagerClients, ~SlowStart PROVE Spec => []IInv
  OBVIOUS
<1>1. Init => IInv
  BY InitTypes, InitSafe DEF IInv
<1>2. IInv /\ [Next]_vars => IInv'
  BY StepSafe
<1> QED
  BY <1>1, <1>2, PTL DEF Spec

\* Two agents never work on the one database and session of the server: a
\* prompt is accepted when the current run has finished, and by then its
\* agent has ended.
THEOREM OneAgent == ~EagerClients /\ ~SlowStart /\ Spec => []OneAgentAtATime
<1>1. IInv => OneAgentAtATime
  BY DEF IInv, Places, PastIsOver, OneAgentAtATime
<1> QED
  BY <1>1, Invariance, PTL

\* A finished run is not one whose agent goes on unseen: its broker had seen
\* the agent end, unless it was stopped.
THEOREM FinishedRunsHaveEnded == ~EagerClients /\ ~SlowStart /\ Spec => []FinishedMeansEnded
<1>1. IInv => FinishedMeansEnded
  BY DEF IInv, Places, Stages, BrokerKnows, FinishedMeansEnded, Running
<1> QED
  BY <1>1, Invariance, PTL

\* Every buffered event is one of the run's own, and a finished run has all of
\* them: the last one is its outcome, and the exit code tells it.
THEOREM RunsAreWhole == ~EagerClients /\ ~SlowStart /\ Spec => []WholeRun
<1>1. ASSUME IInv, NEW r \in Runs, finished[r], ~bstop[r], agent[r] # "none"
      PROVE  buffer[r] # <<>> /\ Last(buffer[r])[2] \in Outcomes
  <2>1. agent[r] = "ended" /\ events[r] = <<>> /\ hand[r] = NoEvent
    BY <1>1 DEF IInv, Places, Stages, BrokerKnows
  <2> QED
    BY <1>1, <2>1 DEF IInv, Stream, OutcomeIsThere
<1>2. IInv => WholeRun
  BY <1>1 DEF IInv, Stream, OwnEvents, ExitIsOutcome, WholeRun
<1> QED
  BY <1>2, Invariance, PTL
=============================================================================
