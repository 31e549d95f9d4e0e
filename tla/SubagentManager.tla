-------------------------- MODULE SubagentManager --------------------------
(***************************************************************************)
(* The subagents of a session: SubagentManager of                          *)
(* lucnhan/agent/subagent_manager.py with the loops that spawn and join    *)
(* them (_handle_spawn_subagent_tool, _join_subagents of agent/loop.py),   *)
(* the bulk renamer that registers agents of its own, and the Agents tab   *)
(* that cancels any of them.                                               *)
(*                                                                         *)
(* A child runs an AgentLoop of its own, which shares the manager and may  *)
(* spawn in its turn.  Nothing but the status fields is locked: a status   *)
(* is read in one step and overwritten in a later one.  The waits for a    *)
(* slot and for children poll with a timeout, so the shared _done_event    *)
(* decides when they look again and never what they find: it is left out.  *)
(***************************************************************************)
EXTENDS Integers, FiniteSets, Sequences, Functions, SequencesExt

CONSTANTS MaxAgents,  \* bound: agents ever spawned or registered
          Cap,        \* subagent_max_concurrent
          MaxClicks,  \* bound: cancellations by the user
          MaxRegistered,  \* bound: agents of the bulk renamer
          MaxUpdates  \* bound: events of such an agent when it reports progress

ASSUME SubagentAssumption ==
    MaxAgents \in Nat \ {0} /\ Cap \in Nat \ {0}
    /\ MaxClicks \in Nat /\ MaxRegistered \in Nat /\ MaxUpdates \in Nat

Children == 1..MaxAgents
Root == 0                    \* the loop of the tab
Renamer == MaxAgents + 1     \* the bulk renamer, which runs its agents itself
NoOne == MaxAgents + 2
Loops == Children \cup {Root}

VARIABLES
    status,   \* SubagentInfo.status; "unborn" before the record exists
    parent,   \* who spawned or registered it
    cancel,   \* the cancel event of every loop
    worker,   \* where the thread of a child is in _run_agent()
    loop,     \* where an agent loop is
    pending,  \* the children of a loop's current batch of tool calls
    todo,     \* those its teardown has still to cancel
    victim,   \* whom a loop is finalizing as cancelled
    tab,      \* whom the Agents tab is finalizing as cancelled
    clicked,  \* what the user cancelled: agents of the Agents tab, or the run
    ends      \* the terminal events put for each agent, in order of their updates

vars == <<status, parent, cancel, worker, loop, pending, todo, victim, tab, clicked, ends>>

Terminal == {"completed", "failed", "cancelled"}
Born == {c \in Children : status[c] # "unborn"}

\* Mutant: an agent that failed keeps its slot.
ActiveOrFailed == {c \in Born : status[c] \notin {"completed", "cancelled"}}

Active == {c \in Children : status[c] \in {"pending", "running"}}  \* active_count()

Cancelled == {c \in Children : c \in clicked \/ cancel[c]}

\* The cap is checked before it is used, by every loop of the tree: the fan-out
\* stays below twice the cap, and each cancelled agent, which gives up its
\* slot while its loop runs on, adds at most one.
FanOutBounded ==
    Cardinality({c \in Active \ Cancelled : parent[c] # Renamer})
        <= 2 * Cap - 1 + Cardinality(Cancelled)

\* The variables have their types, the loop of a child lives inside its worker,
\* and the fan-out is bounded.
TypeOK ==
    /\ status \in [Children -> {"unborn", "pending", "running"} \cup Terminal]
    /\ parent \in [Children -> Loops \cup {Renamer, NoOne}]
    /\ cancel \in [Loops -> BOOLEAN]
    /\ worker \in [Children -> {"none", "born", "preflight", "run", "commit",
                                "fail", "kill", "over"}]
    /\ loop \in [Loops -> {"off", "turn", "slot", "spawn", "join", "teardown", "over"}]
    /\ pending \in [Loops -> SUBSET Children]
    /\ todo \in [Loops -> SUBSET Children]
    /\ victim \in [Loops -> Children \cup {NoOne}]
    /\ tab \in Children \cup {NoOne}
    /\ clicked \subseteq Loops
    /\ ends \in [Children -> Seq(Terminal)]
    /\ \A c \in Children : worker[c] = "run" <=> loop[c] \notin {"off", "over"}
    /\ FanOutBounded

Init ==
    /\ status = [c \in Children |-> "unborn"]
    /\ parent = [c \in Children |-> NoOne]
    /\ cancel = [l \in Loops |-> FALSE]
    /\ worker = [c \in Children |-> "none"]
    /\ loop = [l \in Loops |-> IF l = Root THEN "turn" ELSE "off"]
    /\ pending = [l \in Loops |-> {}] /\ todo = [l \in Loops |-> {}]
    /\ victim = [l \in Loops |-> NoOne]
    /\ tab = NoOne /\ clicked = {}
    /\ ends = [c \in Children |-> <<>>]

\* A spawn or registration that begins now will find an id.
Room == Cardinality(Born) + Cardinality({l \in Loops : loop[l] \in {"slot", "spawn"}}) < MaxAgents

Set(f, x, v) == f' = [f EXCEPT ![x] = v]
Go(f, x, from, to) == f[x] = from /\ Set(f, x, to)

\* The first spawn or registration takes id 1, the next id 2, ...
Create(c, by) ==
    /\ c = Cardinality(Born) + 1
    /\ Set(status, c, "pending")
    /\ Set(parent, c, by)

\* A terminal event for c enters the event queue.
Put(c, end) == Set(ends, c, Append(ends[c], end))

\* The second half of _finalize_cancellation(), after its look at the status.
Finalize(c) == Set(status, c, "cancelled") /\ Put(c, "cancelled")

-----------------------------------------------------------------------------
(* The thread of a child: _run_agent() *)

workerOnly == UNCHANGED <<parent, cancel, loop, pending, todo, victim, tab, clicked>>

SetRunning(c) ==
    /\ Go(worker, c, "born", "preflight")
    /\ Set(status, c, "running")
    /\ workerOnly /\ UNCHANGED ends

\* The first half of _finalize_cancellation() by the worker: its look at the
\* status.  It is one step with what led to it, which it cannot overtake.
Finalizing(c) == IF status[c] = "cancelled" THEN "over" ELSE "kill"

Preflight(c) ==
    /\ worker[c] = "preflight"
    /\ IF cancel[c]
         THEN Set(worker, c, Finalizing(c)) /\ UNCHANGED loop
         ELSE Set(worker, c, "run") /\ Set(loop, c, "turn")
    /\ UNCHANGED <<status, parent, cancel, pending, todo, victim, tab, clicked, ends>>

Kill(c) == Go(worker, c, "kill", "over") /\ Finalize(c) /\ workerOnly

\* The generator is exhausted: a cancelled record stays, a cancelled run is
\* finalized, anything else is about to be recorded as completed.
Settled(c) == IF cancel[c] \/ status[c] = "cancelled" THEN Finalizing(c) ELSE "commit"

\* Mutant: a failure is not announced.
CommitCompletion(c) ==
    /\ \/ Go(worker, c, "commit", "over") /\ Set(status, c, "completed") /\ Put(c, "completed")
       \/ Go(worker, c, "fail", "over") /\ Set(status, c, "failed") /\ UNCHANGED ends
    /\ workerOnly

\* The record, then the event: who reads the one does not look at the other.
Commit(c) ==
    /\ \/ Go(worker, c, "commit", "over") /\ Set(status, c, "completed") /\ Put(c, "completed")
       \/ Go(worker, c, "fail", "over") /\ Set(status, c, "failed") /\ Put(c, "failed")
    /\ workerOnly

WorkerStep(c) == SetRunning(c) \/ Preflight(c) \/ Kill(c) \/ Commit(c)

-----------------------------------------------------------------------------
(* An agent loop: the tab's, or that of a running child *)

loopOnly == UNCHANGED <<status, parent, cancel, victim, tab, clicked, ends>>

\* The run of l ends; a child's worker goes on behind its generator.
Leave(l, next) ==
    /\ Set(loop, l, "over") /\ Set(pending, l, {})
    /\ IF l = Root THEN UNCHANGED worker ELSE Set(worker, l, next)

\* The turn ends when its batch is joined; the last turn ends the run.
EndRun(l) ==
    /\ loop[l] = "turn" /\ pending[l] = {}
    /\ Leave(l, Settled(l))
    /\ loopOnly /\ UNCHANGED todo

\* The exception path of the worker.
Raise(c) ==
    /\ c # Root /\ loop[c] = "turn"
    /\ Leave(c, IF cancel[c] THEN Finalizing(c) ELSE "fail")
    /\ loopOnly /\ UNCHANGED todo

\* Between two events, or at the next _check_cancelled(): the children spawned
\* by the batch are left to themselves.
NoticeCancel(l) ==
    /\ loop[l] = "turn" /\ cancel[l]
    /\ Leave(l, Finalizing(l))
    /\ loopOnly /\ UNCHANGED todo

BeginSpawn(l) ==
    /\ ~cancel[l] /\ Room
    /\ Go(loop, l, "turn", "slot")
    /\ loopOnly /\ UNCHANGED <<worker, pending, todo>>

\* Mutant: agents whose thread has not started yet do not count.
TakeSlotFromRunning(l) ==
    /\ Cardinality({c \in Active : status[c] = "running"}) < Cap
    /\ Go(loop, l, "slot", "spawn")
    /\ loopOnly /\ UNCHANGED <<worker, pending, todo>>

\* active_count() < cap; spawn() is a later step.
TakeSlot(l) ==
    /\ Cardinality(Active) < Cap
    /\ Go(loop, l, "slot", "spawn")
    /\ loopOnly /\ UNCHANGED <<worker, pending, todo>>

SlotCancelled(l) ==
    /\ loop[l] = "slot" /\ cancel[l] /\ Cardinality(Active) >= Cap
    /\ Leave(l, Finalizing(l))
    /\ loopOnly /\ UNCHANGED todo

Spawn(l) ==
    /\ Go(loop, l, "spawn", "turn")
    /\ \E c \in Children :
         /\ Create(c, l)
         /\ Set(worker, c, "born")
         /\ Set(pending, l, pending[l] \cup {c})
    /\ UNCHANGED <<cancel, todo, victim, tab, clicked, ends>>

Join(l) ==
    /\ pending[l] # {}
    /\ Go(loop, l, "turn", "join")
    /\ loopOnly /\ UNCHANGED <<worker, pending, todo>>

AllTerminal(l) == pending[l] \cap Active = {}

\* Every child has its end; the results are handed to the model.
Joined(l) ==
    /\ AllTerminal(l)
    /\ Go(loop, l, "join", "turn")
    /\ Set(pending, l, {})
    /\ loopOnly /\ UNCHANGED <<worker, todo>>

\* Mutant: a cancelled join waits on for its children.
JoinWaitsOn(l) ==
    /\ cancel[l] /\ AllTerminal(l)
    /\ Go(loop, l, "join", "teardown")
    /\ Set(todo, l, {})
    /\ loopOnly /\ UNCHANGED <<worker, pending>>

JoinCancelled(l) ==
    /\ cancel[l] /\ ~AllTerminal(l)
    /\ Go(loop, l, "join", "teardown")
    /\ Set(todo, l, pending[l])
    /\ loopOnly /\ UNCHANGED <<worker, pending>>

\* cancel() of the next child, up to its look at the status.
CancelChild(l) ==
    /\ loop[l] = "teardown" /\ victim[l] = NoOne
    /\ \E c \in todo[l] :
         /\ \A x \in todo[l] : c <= x
         /\ Set(cancel, c, TRUE)
         /\ Set(victim, l, IF c \in Active THEN c ELSE NoOne)
         /\ Set(todo, l, todo[l] \ {c})
    /\ UNCHANGED <<status, parent, worker, loop, pending, tab, clicked, ends>>

FinalizeChild(l) ==
    /\ victim[l] # NoOne
    /\ Finalize(victim[l])
    /\ Set(victim, l, NoOne)
    /\ UNCHANGED <<parent, cancel, worker, loop, pending, todo, tab, clicked>>

TornDown(l) ==
    /\ loop[l] = "teardown" /\ victim[l] = NoOne /\ todo[l] = {}
    /\ Leave(l, Finalizing(l))
    /\ loopOnly /\ UNCHANGED todo

LoopStep(l) ==
    \/ EndRun(l) \/ Raise(l) \/ NoticeCancel(l)
    \/ BeginSpawn(l) \/ TakeSlot(l) \/ SlotCancelled(l) \/ Spawn(l)
    \/ Join(l) \/ Joined(l) \/ JoinCancelled(l)
    \/ CancelChild(l) \/ FinalizeChild(l) \/ TornDown(l)

-----------------------------------------------------------------------------
(* The user and the bulk renamer *)

Click(l) ==
    /\ l \notin clicked /\ Cardinality(clicked) < MaxClicks
    /\ clicked' = clicked \cup {l}

CancelRun ==
    /\ Click(Root)
    /\ loop[Root] # "over"
    /\ Set(cancel, Root, TRUE)
    /\ UNCHANGED <<status, parent, worker, loop, pending, todo, victim, tab, ends>>

\* The next message of the tab: run() resets the cancel event it owns.
NewRun ==
    /\ Go(loop, Root, "over", "turn")
    /\ Room
    /\ Set(cancel, Root, FALSE)
    /\ UNCHANGED <<status, parent, worker, pending, todo, victim, tab, clicked, ends>>

\* cancel() from the Agents tab, up to its look at the status.  A registered
\* agent has no cancel event; that of a thread that is over is not looked at.
ClickCancel(c) ==
    /\ Click(c)
    /\ tab = NoOne /\ c \in Born /\ worker[c] # "over"
    /\ tab' = IF c \in Active THEN c ELSE NoOne
    /\ IF parent[c] = Renamer THEN UNCHANGED cancel ELSE Set(cancel, c, TRUE)
    /\ UNCHANGED <<status, parent, worker, loop, pending, todo, victim, ends>>

FinalizeClicked ==
    /\ tab # NoOne
    /\ Finalize(tab)
    /\ tab' = NoOne
    /\ UNCHANGED <<parent, cancel, worker, loop, pending, todo, victim, clicked>>

Register(c) ==
    /\ Room /\ Cardinality({x \in Born : parent[x] = Renamer}) < MaxRegistered
    /\ Create(c, Renamer)
    /\ UNCHANGED <<cancel, worker, loop, pending, todo, victim, tab, clicked, ends>>

\* update_external(): every status but "completed" is announced by a failed
\* event, the progress of an agent that runs among them.
UpdateExternal(c, s) ==
    /\ parent[c] = Renamer /\ worker[c] # "over"
    /\ s = "running" => Len(ends[c]) < MaxUpdates
    /\ Set(status, c, s)
    /\ Put(c, IF s = "completed" THEN "completed" ELSE "failed")
    /\ IF s \in Terminal THEN Set(worker, c, "over") ELSE UNCHANGED worker
    /\ UNCHANGED <<parent, cancel, loop, pending, todo, victim, tab, clicked>>

RenamerStep ==
    \E c \in Children : \/ Register(c)
                        \/ \E s \in {"running"} \cup Terminal : UpdateExternal(c, s)
-----------------------------------------------------------------------------
Over ==
    /\ ~Room /\ loop[Root] = "over"
    /\ \A c \in Born : worker[c] = "over"
    /\ UNCHANGED vars

\* Every agent that still waits has only waiting ancestors and descendants.
Stalled ==
    /\ Cardinality(Active) >= Cap
    /\ \E c \in Active : loop[c] = "slot"
    /\ \A c \in Active : worker[c] = "run" /\ loop[c] \in {"slot", "join"}

Stuck == Stalled /\ loop[Root] \in {"slot", "join", "over"} /\ UNCHANGED vars

Next ==
    \/ \E c \in Children : WorkerStep(c) \/ ClickCancel(c)
    \/ \E l \in Loops : LoopStep(l)
    \/ CancelRun \/ NewRun \/ FinalizeClicked \/ RenamerStep
    \/ Over \/ Stuck

Spec == Init /\ [][Next]_vars

\* A thread is scheduled, an agent's work ends in an answer, and the renamer
\* comes to the end of a batch.  Nothing is assumed of the user.
RenamerEnds(c) == \E s \in Terminal : UpdateExternal(c, s)

Fairness ==
    /\ \A c \in Children : WF_vars(WorkerStep(c)) /\ WF_vars(RenamerEnds(c))
    /\ \A l \in Loops : WF_vars(LoopStep(l))
    /\ WF_vars(FinalizeClicked)

-----------------------------------------------------------------------------
(* Properties *)

BeingFinalized == {tab} \cup Range(victim)

\* The event that is put for the status of an agent.
Announcement(c) ==
    IF parent[c] = Renamer /\ status[c] # "completed" THEN "failed" ELSE status[c]

\* An agent that is over has an end, and the end its record shows was announced.
\* A child is announced exactly once unless somebody cancelled it, when its worker
\* and the two cancelling threads may each announce one.  An agent of the renamer
\* nobody cancelled has its end announced last, and completed once if at all:
\* before that update_external() announces a failure for each progress it makes.
EndAnnounced ==
    \A c \in Born \ BeingFinalized : worker[c] = "over" =>
        /\ {status[c], Announcement(c)} \cap Range(ends[c]) # {}
        /\ parent[c] # Renamer => Len(ends[c]) <= IF c \in Cancelled THEN 3 ELSE 1
        /\ parent[c] = Renamer /\ c \notin Cancelled =>
            /\ ends[c] # <<>> /\ Last(ends[c]) = Announcement(c)
            /\ \A k \in 1..Len(ends[c]) - 1 : ends[c][k] = "failed"

\* Cancelling a run ends it, whatever its children do.
CancelledRunEnds ==
    WF_vars(LoopStep(Root)) => (cancel[Root] ~> loop[Root] = "over")

\* The thread of a child ends, unless every slot is held by an agent that
\* waits for a slot or for such an agent.
ChildEnds ==
    Fairness => \A c \in Children : worker[c] = "born" ~> (worker[c] = "over" \/ Stalled)
=============================================================================
