# Luc Nhan in TLA+

Luc Nhan is an LLM agent for reverse engineering that lives inside IDA Pro: in
the IDA window, as a one-shot headless command, or behind a small HTTP control
server.  This directory holds TLA+ modules for the concurrent core of it, the
TLC configurations that check them, and theorems about them proved with TLAPS.
Paths below are relative to the repository; line numbers of every definition
are in `PROJECT.json` under `map`.

Contents: [the system](#the-system) - [modules](#modules) -
[what each module says](#what-each-module-says) - [runs](#runs) -
[fairness](#fairness) - [theorems](#theorems) - [findings](#findings) -
[limits](#limits) - [plan](#plan).

## The system

IDA's API may be used from IDA's main thread only; everything else of Luc Nhan
runs in other threads.  One prompt travels like this:

```
 client/UI --POST /prompt--> control server --start_agent--> session controller
                                  |                               | starts
                           event broker (thread)                  v
                                  |  get_event()       BackgroundAgentRunner (thread)
                                  +<---- bounded queue <---- AgentLoop.run() generator
                                                               | tool calls
                                                               v
                                            ToolRegistry: cache, lock, pool (2 threads)
                                                               | wrapped IDA call
                                                               v
                                   IdaHeadlessDispatcher queue --> IDA main thread
```

### Inventory

| component | state | operations | talks to | what makes it correct |
|---|---|---|---|---|
| **Host dispatcher** `ida/dispatch.py`, `ida/headless_bootstrap.py` | job queue, pending list, job states, shutdown flag | `wrap`, `pump_until`, `request_shutdown` | tool threads, main thread | a timed-out call never runs later; answers are truthful; shutdown frees every waiter |
| **Background runner** `agent/loop.py` | bounded event queue, pending delta buffer | `start`, put helpers, coalescing, sentinel, `get_event` | loop generator, consumer | events in order, none lost in silence, deltas of one kind merged only, ends with a dead consumer |
| **Run consumers** `headless/runner.py`, `control/server.py`, UI poll | collected events, "is it over" | poll, drain, answer requests | runner, controller | over means over; the result has every event |
| **Control server** `control/server.py` | current run, event buffer, finished, exit code, brokers | /prompt, /answer, /tool-approval, /cancel, /shutdown | controller, brokers | one agent at a time; own events only; every run concluded; decisions reach the run they name |
| **Session controller** `ui/session_controller_base.py` | tabs, runners per tab, follow-up queues, undo stacks, memory stores | start/cancel/finish agent, tab and file changes | everything | a finished run lets go of its slot, and only of its own |
| **Tool registry, result cache** `tools/registry.py`, `tools/cache.py` | tools, cache, mutation lock, two-thread pool | execute, execute_coerced, allowlist views | loops, dispatcher | the cache is fresh; a call always ends; the pool keeps its limit |
| **Mutation log, /undo** `agent/mutation.py`, `agent/loop_commands.py` | a stack of records per tab | capture, record, undo | registry, loops of the tab | undo leads back to the original state; a record leaves only when reversed |
| **Agent loop** `agent/loop.py`, `agent/modes/` | messages, cancel event, decision queues, modes | turn cycle, waiting for decisions, tools | provider, registry, user | turn and tool results pair up; waits end on cancel |
| **Loop guard, progress** `agent/loop_guard.py` | retained segments, trigger | deltas, tool starts, abort test | agent loop | aborts exactly on stalls |
| **Subagents** `agent/subagent_manager.py` | status per child, cancel events, event queue | spawn, cancel, join | nested loops | one terminal status and one terminal event per child; cap respected |
| **Bulk renamer** `agent/bulk_renamer.py` | jobs, pause and cancel events | start, pause, cancel, undo_all | registry, subagents | each job ends in one state; undo restores |
| **A2A bridge** `agent/a2a/` | tasks of external agents | run, poll, cancel | loops | a task ends with one outcome |
| **Session history** `state/history.py` | session files, manifest, save executor | async save, delete, list | controller, disk | newest state wins; deletion is final; crash-safe |
| **Central memory** `memory/` | sqlite stores, MEMORY.md projection | facts, projection, backup, import | loops, disk | file and database agree or are marked dirty |
| **MCP** `mcp/` | clients, generation, registered tools | start, reload, shutdown, call | registry | tools registered are those of live clients |
| **String cache** `tools/string_cache.py` | files on disk, build status | background build, refresh | tools, disk | a cache read is complete |
| **Providers, prompts, reports, skills, widgets, IDA tools, CLI** | configuration and text | | | data transformations or pure I/O |

`PROJECT.json` lists all of them with their modelling status; what is hard to
test in them is listed there under `hazards`, each at its line.

### Behaviours that are hard

* **Time-outs that race an answer**: a dispatcher job claimed while its caller
  gives up; a tool handler that cannot be cancelled any more; a poll that runs
  out just before the agent's last event.
* **State read under a lock and used after it**: the control server validates a
  run and looks its runner up later; `finished` is published before the
  controller is told.
* **A bounded queue with a slow or dead reader**, merged deltas, dropped puts.
* **Shared bookkeeping of concurrent mutations**: cache, undo stack, pool.
* **A main thread that stalls for ever** while everything else must go on.
* **A status two threads finalise without a lock**, agents that spawn agents
  under one cap, and cancellation of a tree of them.
* **Start-up that is superseded while it is under way**: a reload or shutdown
  meets start threads and event loops at any of their steps.
* **Two representations of one state**: a database and a file a person edits;
  a chat in memory, in a queue of saves and on disk.
* **Handlers of a user interface in any order**: queued messages, tabs that
  close, chats loaded and deleted while their saves are on the way.

## Modules

| module | models | extends |
|---|---|---|
| `HostCall` | abstract: what a dispatcher promises its callers | |
| `Dispatcher` | `IdaHeadlessDispatcher` and the server's pump loop | implements `HostCall` |
| `DispatcherProofs` | inductive invariant and refinement, proved | `Dispatcher`, TLAPS |
| `EventStream` | `BackgroundAgentRunner` and its queue | |
| `RunConsumer` | a run and the thread that consumes it: `run_prompt()`, the broker | `EventStream` |
| `RunConsumerProofs` | inductive invariants of the stream and of its consumer, proved | `RunConsumer`, TLAPS |
| `ControlServer` | control server, brokers, the controller's runner slot | |
| `ControlServerProofs` | inductive invariant of runs and brokers, proved | `ControlServer`, TLAPS |
| `ToolExecution` | registry, cache, pool, mutation bookkeeping, /undo | |
| `ToolExecutionProofs` | inductive invariants of the stacks, the cache and the way back, proved | `ToolExecution`, TLAPS |
| `SubagentManager` | subagents, the loops that spawn and join them, the Agents tab | |
| `SubagentManagerProofs` | inductive invariant of the tree of agents, proved | `SubagentManager`, TLAPS |
| `McpManager` | MCP manager, its start threads, clients' event loops, reload and shutdown | |
| `McpManagerProofs` | inductive invariant of the manager, proved | `McpManager`, TLAPS |
| `MemoryProjection` | saving facts and their projection to MEMORY.md | |
| `MemoryProjectionProofs` | inductive invariant of the projection, proved | `MemoryProjection`, TLAPS |
| `ChatTabs` | tabs, runs, follow-up queues, history and its save executor | |
| `ChatTabsProofs` | inductive invariant of tabs, runs and saves, proved | `ChatTabs`, TLAPS |
| `MC...` | the instances TLC checks | the module of that name |

Definitions named in comments as *mutants* are the plausible mistakes against
which the properties are tested: replacing the operation by its mutant must
make TLC report the property.

Conventions: a variable bears the name of the attribute it models where it is
not obvious; a step is the code between two points at which another thread can
be observed (a section under a lock, a queue operation, a wait); a timed wait
may run out at any moment the awaited condition does not hold, time itself is
not modelled.  Messages and results are reduced to what the properties
distinguish.

## What each module says

### HostCall and Dispatcher

A worker thread that calls a wrapped IDA function makes a job, lists it in
`pending` under the lock (`Register`), queues it (`Enqueue`) and waits.  The
main thread takes jobs (`PumpGet`), claims them (`PumpClaim`), runs them and
sets the event (`PumpComplete`).  A worker whose wait runs out (`TimeOut`)
cancels its job; if the job has been claimed already it polls on until the
event or shutdown (`Poll`).  `request_shutdown()` is four steps that interleave
with all of this: set the flag, drain the queue, wake the listed jobs.
One element of `Jobs` is one call; `wpc[j]` is where its worker is in
`wrapper()`, `mpc` where the main thread is in the pump.

`HostCall` says what callers rely on: at most one execution, one answer, a
value or error only from a finished execution, and *timeout* only if the call
was not and will never be executed.  `ImplementsHostCall` instantiates it with
the mapping `Execution` (a job is "done" from the moment its function
returned, although its state says so only later).

Safety: `TimedOutIsCancelled`, `NoWorkerStranded`.  Liveness:
`ShutdownReleasesWorkers` (whatever the main thread does), `EveryCallReturns`.

### EventStream and RunConsumer

An event is the position at which the loop yielded it; a queued event is the
sequence of positions merged into it, so order, loss, duplication and mixing
can be read off directly.  `Yield` chooses any kind; `Flush`, `DeliverDelta`,
`DeliverEvent`, `DeliverFailure` and `PutSentinel` are the branches of `_run()`;
`PutOrGiveUp` is any put with a timeout, whose loss is recorded in `dropped`.
The one restriction on what the loop yields is that a stream of deltas is closed
by a control event before the generator returns, as `AgentLoop` does.

`RunConsumer` adds the thread that reads: it polls, on an empty poll looks at
`is_agent_running` (`Check`), and then stops (`run_prompt()`) or first drains
the queue (the broker, `Drains`).  Some control events are questions on which
the agent waits (`Ask`), which the consumer answers.

Safety: `InOrder` (`Stream`, what was received, is queued and is pending, is in
the order of the loop, and only neighbouring deltas of one kind are merged),
`NothingLost` (nothing but what is recorded as dropped or discarded, and only
reasoning is discarded), `OverMeansOver`, `ResultComplete`; `ConsumerTypeOK` contains the
types of both modules and the queue's limit.  Liveness: `RunnerEnds`,
`RunIsConcluded`.

### ControlServer

A run is what one POST /prompt makes; its runner, agent and broker bear its
name.  `/prompt` is accepted under `state.lock` (`Accept`), the agent is started
outside of it (`StartAgent`, `StartFails`), then the broker thread
(`StartBroker`).  Brokers find the runner through the controller's slot and the
run through `state.run`, both of which may belong to another run by then: the
actions `Take`, `Publish`, `Mark`, `Drain`, `Finalise` and `Notify` keep exactly
that.  `Resolve` and `Deliver` are the two halves of /answer, /tool-approval,
/approval and /cancel; `BeginShutdown`, `CancelRun` and `StopBroker` those of
/shutdown.

Safety: `OneAgentAtATime`, `FinishedMeansEnded`, `WholeRun` (a finished run has
all of its events and no others).
Liveness: `RunConcluded`, `CancelEnds`.

### ToolExecution

Agents call two tools, a cacheable read and a reversible rename, on functions
of the database.  A read looks into the result cache, else runs in the pool and
stores its result (`Lookup`, `StartJob`, `Handler`, `Store`).  A rename first
reads the old name through the same cache (why = "capture"), runs, invalidates
the cache, is verified by another read and put on the tab's undo stack
(`Captured`, `Renamed`, `Verified`).  `/undo` peeks at the last record, runs the
reverse outside of the lock and drops *that* record, wherever it is by then
(`Undo`, `Undone`, `DropRecord`).  Only
`/undo` takes the registry's mutation lock (`TakeLock`), because only
`execute()` does.  `TimeOut` gives up on a call at any time; a handler that was
running stays in the pool as an orphan and takes effect later
(`OrphanHandler`).  Views of a registry (`allowlist()`,
`without_approval_gated_tools()`) are registries with a cache of their own.

The ghost variable `contested` holds the functions on which a rename or undo
overlapped another agent's call or was hit by a timeout: for those the code
gives no guarantee (see [limits](#limits)); `CacheFresh` and `UndoRestores` are
about all others.

Safety: `CacheFresh`, `UndoRestores` (the records about a function at rest lead
from its name back to the original one), `StackIsExact`, and the pool's limit in
`TypeOK`.  Liveness: `EveryCallEnds`.

### SubagentManager

One element of `Children` is one agent, in order of creation; `Root` is the loop
of the tab.  A child has a worker thread (`worker`: `_run_agent()`) and inside
of it an agent loop (`loop`), which shares the manager and may spawn in turn.
The cap is looked at in one step (`TakeSlot`) and used in the next (`Spawn`);
`Join` waits for the children of a batch, `JoinCancelled` starts the teardown
that cancels them one by one.  `_finalize_cancellation()` is its look at the
status (`Finalizing`, `CancelChild`, `ClickCancel`) and, a step later, the
change and its event (`Kill`, `FinalizeChild`, `FinalizeClicked`); any two of the
three paths can meet, and meet a completion (`Commit`).  The bulk renamer lists
agents of its own (`Register`, `UpdateExternal`), which the user can cancel but
which have no cancel event, and whose progress is announced as a failure like
any status but *completed* (`Announcement`).  `_done_event` is left out: every wait on it is
polled.

Safety: `EndAnnounced`; `TypeOK` contains `FanOutBounded`: agents in slots stay
below twice the cap, plus one for each cancelled agent.  Liveness: `ChildEnds`,
`CancelledRunEnds`.

### McpManager

A client is a server and the generation of its start cycle.  `StartServers` takes
the generation and starts a thread per enabled server; `Started`, `Check`,
`Register` and `Store` are the sections of `_start_one()`, with the looks at the
generation under the lock in `Check` and `Store`; `RegisterFails` is a schema that
raises, before or after some tools of the server are registered, and `Failed` the
handler that stops the client.  `ThreadStep` and `ServerDies`
are the client's event loop, which goes on when `start()` has given up.  `Init...`,
`Reload...` and `Exit` are the three threads of the session controller that call
the manager.  `Stop` is `client.stop()`: it reaches an event loop only if there
is one.  `tools` holds the generations whose tools of a server are registered.
Three ghosts name what the code loses: the clients in `replaced` and `late`, and
the tools of those in `halfway`.

Safety: `ShutdownIsFinal`, `ToolsServed`.  Liveness: `ShutdownStopsServers`.

### MemoryProjection

A save is a transaction (`Save`), a listing through the memo of its store
(`List`), and the projection: lock (`Acquire`, or `Contend` when the wait for it
runs out), read, read again and compare (`Reread`), replace the file, mark clean.
Any step may fail (`Fails`), also after the file was replaced; then `Failed` marks
the state dirty, or the mark fails as well and the save raises (`MarkFails`);
`Restart` is a crash of the process of a store, or the next run opening its own.
The user's `Edit` takes no lock.  The managed region and its hash are the set of
facts it lists, the notes around it the set of edits they hold.  The ghosts
`alone` and `created` say whom `SaveRepairs` speaks of, `unseen` and `torn` name
the two windows the code leaves open.

Safety: `StateDescribesFile`, `EditsKept`, `SaveRepairs`; `TypeOK` contains the
exclusion of projectors.

### ChatTabs

The handlers of the main thread (`Submit`, `Finish`, `Cancel`, `NewTab`,
`CloseTab`, `NewChat`, `ChangeDatabase`, `OpenRow`, `Attach`, `DeleteRow`) are
atomic and come in any order; between them run the agent threads (`Ask`, `End`),
the history workers (`Load`, `QueueDelete`) and the save executor
(`Serialise`, `ReplaceFile`, `Delete`), which serialises a chat as it is when its
turn comes.  A message is the name of the run it starts, a chat the set of turns
it holds.  `Finish` is a poll of the panel that finds a run over: the chat is
queued for saving and the next message of the tab is started (`FollowUp`), which
can fail for want of a slot or of a provider.  If no run is live at that moment
the poll timer is stopped, whether or not this pass has seen every run that is
over: the tabs it has not are in `missed` (`Overlooked`) until `StartAgent`
starts the timer again.  `owed` is what the user has seen
answered in each chat; `adrift`, `reread` and `excused` name what the code lets
go of (see [limits](#limits)).

Safety: `DeletedStaysDeleted`, `ChatsAreKept`; `TypeOK` contains that a chat is
open in one tab and a message waits in one place.  Liveness: `FollowUpsStart`.

## Runs

| run | shows | bounds, and why they are enough |
|---|---|---|
| `dispatcher` | all properties of `Dispatcher`, refinement and liveness | two calls, repeated shutdown requests, about 30 thousand states: the races are between one call, the pump and the shutdown; the second call lets the pump be busy elsewhere and the queue hold more than one.  The safety properties are proved for any number |
| `run_consumer` | all properties of `EventStream` and `RunConsumer` | a queue of one and four events, 137 thousand states: full and empty queues, a non-empty buffer, flush, recovery, drop and sentinel all occur together; every mutant needs at most three deltas.  The safety properties are proved for any number |
| `run_prompt` | **violation**: the result of a one-shot run can miss the last events | three events |
| `control` | all properties of `ControlServer` | two prompts, one decision or cancellation, one shutdown, one event before the outcome, 121 thousand states: a broker of an old run next to a new one needs two runs.  The safety properties are proved for any number |
| `control_eager` | **violation**: a finished run whose agent goes on | as `control`, with clients that prompt at once |
| `control_stale` | **violation**: a decision reaches a run it does not name | as `control` |
| `tools` | type invariant with the pool's limit, cache, undo, and the end of every call | two agents of one tab, each with a function of its own (undo crosses over), two names, any three calls, timeouts, one worker, so that the pool is soon full of orphans, 352 thousand states: two renames and an undo, or two undos of one record, are the shortest conflicts.  The safety properties are proved for any number |
| `tools_view` | **violation**: a rename through a view leaves the parent's cache stale | an agent and a subagent with a view |
| `subagents` | all properties of `SubagentManager` | three agents under a cap of one, one cancellation by the user, one agent of the renamer with two reports of progress, 124 thousand states: a child with a child of its own is the shortest tree that over-subscribes the cap or stalls; a cancellation meets completion, teardown and preflight with one click.  The safety properties are proved for any number |
| `mcp` | all properties of `McpManager` | one server, start-up and two reloads, 476 thousand states: servers share nothing but the generation, and two start cycles next to a third is what a superseded start can meet.  The safety properties are proved for any number |
| `memory` | all properties of `MemoryProjection` | an agent and its subagent on one store and an agent on another, two facts, three saves, one edit, two faults, 1.5 million states: three savers at once, each at another step of the projection; a record and a mark that fail in a row need two faults.  Proved for any number |
| `chats` | all properties of `ChatTabs` | two tabs, two chat objects, three messages, one agent at a time, one failing start, 280 thousand states: the shortest case in which the timer misses a tab with a follow-up takes a run and its follow-up in one tab and a run in another.  Chats of an earlier session are opened, continued, closed and deleted; that a chat of this session is closed and opened again takes a third chat object.  The safety properties are proved for any number |

`MaxEvents`, `MaxCalls`, `Capacity` and `Workers` bound the instances; the
counters they bound stop growing there, no other guard depends on them
(`Capacity` is `_EVENT_QUEUE_MAXSIZE`, `Workers` the pool's `max_workers`).
The other `Max...` constants bound the inputs of the instances in the same way.
`CHECK_DEADLOCK FALSE` appears in the runs of `ToolExecution`, `MemoryProjection`
and `ChatTabs` only: there everything stops when the calls, saves or messages
of the instance are used up.  `SubagentManager` and `McpManager` have explicit
final steps (`Over`, `Stuck`, `Done`).  `Dispatcher`, whose main thread stops for
good but whose shutdown can be requested again, never stops; `RunConsumer` and
`ControlServer` have an explicit final stuttering step (`Finished`, `Quiet`)
so that any other stop is reported.

## Fairness

Fairness is part of the liveness properties, as an implication, so that one
run checks safety and liveness of one specification.

* `Dispatcher`: runnable worker threads run, and a started shutdown request goes
  on (`StalledFairness`): they are plain threads, and the timed waits return.
  Only `EveryCallReturns` assumes in addition that the main thread pumps;
  `ShutdownReleasesWorkers` holds without.
* `RunConsumer`: the agent thread runs, comes to its next event and its timed
  puts return (`AgentFairness`); the generator is bounded, as turns are.
  `RunnerEnds` assumes nothing of the consumer; `RunIsConcluded` assumes that it
  polls (`ConsumerFairness`), which is a loop with timed gets.
* `ControlServer`: agents and brokers run, a handler that has accepted a request
  finishes it.  Nothing makes a client send one: decisions and cancellations
  are not fair.
* `ToolExecution`: the loops run and `future.result()` times out (`Progress`
  contains `TimeOut`); the pool and the main thread are not assumed to do
  anything.
* `SubagentManager`: threads are scheduled, a child's work ends in an answer or a
  failure and the renamer comes to the end of a batch; the user does nothing.
  `CancelledRunEnds` assumes the loop of the tab only.
* `McpManager`: start threads, event loops and the callers run; a handshake ends
  with an answer or its timeout.  No server has to die by itself.
* `ChatTabs`: runs end, and the poll timer fires as long as it runs: `Finish` of a
  tab in `missed` is not enabled, so nothing is assumed of a timer that was
  stopped.  Neither the user nor the save executor is assumed to do anything.

## Theorems

Every invariant that a passing run checks is also proved, for every value of the
constants; the runs show that the hypotheses below are met and that the
properties can fail.  Each inductive invariant was checked by TLC, on instances
of several sizes, before it was proved.

`DispatcherProofs`, for every set `Jobs` of calls and from the single assumption
that `NoJob` is not one of them:

| theorem | statement |
|---|---|
| `Invariance` | `Spec => []IInv`, with type correctness as its first conjunct |
| `TypeCorrect` | `Spec => []TypeOK` |
| `NoLateExecution` | `Spec => []TimedOutIsCancelled` |
| `ShutdownStrandsNobody` | `Spec => []NoWorkerStranded` |
| `Refinement` | `Spec => ImplementsHostCall` |

Neither safety property is inductive.  `TimedOutIsCancelled` relates what a
caller was told to the state of its job, and the two meet through the exception
left in the job: one has to know what each recorded exception means
(`ExceptionMeaning`: a *timeout* is recorded only by the step that cancels the
job, an *error* only by the main thread, *shutdown* only after the flag is set)
and that a set event means that a result or an exception is there
(`EventMeaning`).  `NoWorkerStranded` needs that a worker about to wait is listed
or already woken (`ListedOrWoken`), which holds across the shutdown's pass only
because the flag is checked again under the lock that lists the job.
`MainHasJob` and `WorkerProgress` place the two threads.  `IInv` is their
conjunction; there is one lemma for the steps of workers, of the pump and of the
shutdown, each with one step per action.  The refinement uses the same invariant
and maps each step to a step of `HostCall` or to a stutter.

`RunConsumerProofs`, for every `Capacity` and `MaxEvents`, with and without the
final drain (`Drains`):

| theorem | statement |
|---|---|
| `ConsumerRefinesStream` | `ConsumerSpec => Spec` |
| `StreamInvariance` | `Spec => []StreamInv` |
| `EventsInOrder` | `ConsumerSpec => []InOrder` |
| `NoEventLost` | `ConsumerSpec => []NothingLost` |
| `TypesCorrect` | `ConsumerSpec => []ConsumerTypeOK` |
| `Invariance` | `~SlowStart /\ ConsumerSpec => []IInv` |
| `RunsEndWithTheirAgent` | `~SlowStart /\ ConsumerSpec => []OverMeansOver` |
| `ResultsAreComplete` | `~SlowStart /\ Drains /\ ConsumerSpec => []ResultComplete` |

Order and conservation are facts of the stream with any consumer, so they are
proved of `EventStream` and carried over by `ConsumerRefinesStream`.  `InOrder`
looks at the items as they are, and a step adds to them: what is pending must be
the latest run of deltas (`PendingIsLatest`) and an event that finds it pending
must continue it, discard it or flush it first (`PendingGoesOn`), or a merge
would join what is not next to each other.  `Accounted` keeps the positions
received, queued and pending equal to those yielded less those given up, which
is exact only with the event at hand set apart (`Settled`).

The hypothesis `~SlowStart` says that no poll runs out before the agent thread
is in `run()`: a poll lasts half a second (a fifth in the broker) and the thread
is started before the first one.  It is needed, since a poll that overtook the
start would read `is_agent_running` as false; the code has no other protection.
`OverMeansOver` speaks of the moment the consumer stops, and the decision is
made two steps before: the consumer leaves its poll because of a time-out or of
the sentinel, then reads the flag.  `CheckedLate` carries what is known across
these steps; it rests on what the flag means at each place of the agent thread
(`RunningMeaning`), and on the sentinel being in the queue only once the thread
has ended (`SentinelIsLast`).  The latter is about any element of a queue that
grows at one end and shrinks at the other, hence the lemmas `AppendQueue` and
`TailQueue`, and about no real event being mistaken for the sentinel, hence
`AtHand`: a delta or an event at hand has a position, so what is put is never
the empty sequence.  `ResultsAreComplete` needs in addition that the sentinel is
last (`QueueEmptied`): a broker that stops at it, or at an empty queue, leaves
nothing behind.  Without the final drain (`Drains` false, `run_prompt()`) it is
false: run `run_prompt` shows how.

`ControlServerProofs`, for every set of prompts and requests and any number of
events:

| theorem | statement |
|---|---|
| `TypeCorrect` | `Spec => []TypeOK` |
| `Invariance` | `~EagerClients /\ ~SlowStart /\ Spec => []IInv` |
| `OneAgent` | `~EagerClients /\ ~SlowStart /\ Spec => []OneAgentAtATime` |
| `FinishedRunsHaveEnded` | `~EagerClients /\ ~SlowStart /\ Spec => []FinishedMeansEnded` |
| `RunsAreWhole` | `~EagerClients /\ ~SlowStart /\ Spec => []WholeRun` |

Both hypotheses are needed and are the two windows of the findings: a client
that prompts between `finished` and `on_agent_finished()` (run `control_eager`
shows what becomes of it), and a poll that overtakes the agent thread.  Nothing
in the server looks at the agent of the run it replaces, so the argument is about
places: the slot holds the runner of the current run from the start of its agent
until its broker has told the controller (`SlotMeaning`), of the runs before it
neither broker nor agent is left (`PastIsOver`), and a broker that has got to its
last steps has seen its agent end (`BrokerKnows`).  `WholeRun` follows the
outcome: an agent that has ended has one, which is the last of its events
(`OutcomeIsLast`) and is in its queue, in the broker's hand or in the buffer
(`OutcomeIsThere`); the exit code is computed where all three have become one
(`ExitIsOutcome`).

`ToolExecutionProofs`, for any agents, tabs, functions, names, calls and workers:

| theorem | statement |
|---|---|
| `TypeCorrect` | `Spec => []TypeOK` |
| `StackStaysExact` | `Spec => []StackIsExact` |
| `CacheStaysFresh` | `NoViews /\ Spec => []CacheFresh` |
| `UndoLeadsBack` | `NoViews /\ FunctionsOfTabs /\ Spec => []UndoRestores` |

The invariants form a chain, each with the one before it.  `Basic` counts the
pool: handlers that run for somebody and orphans are together no more than the
workers, which needs that both are finite.  `StackInv` says that numbers name
one call and one record at most (`Numbered`), that an undo holds a record of its
own tab, and that an orphan which can still change the database is contested
(`UndoMeaning`); with them `Settled` follows a record from its reversal to its
removal, although the stack may grow in between.  `CacheInv` says that agents meet
at an uncontested function only to read it (`Apartness`), so that a name that came
back from the pool is still the name when it is stored (`Fresh`).  `RestoreInv`
is about the way back: while nobody is ahead of the stack, the records lead from
the name to the original one, and every call that is under way knows the part
of it that it is about to change (`Knows`): the old name a rename captured is
the name, and the record an undo reverses is the last about its function.

`NoViews` (all agents share one registry) is the exception of finding 1, without
which `CacheFresh` is false (run `tools_view`).  `FunctionsOfTabs` says that no
two tabs work on one function: stacks are per tab and the database is one, so
that a record of one tab does not know of a later rename by another.  Both hold
of the run `tools`.

`SubagentManagerProofs`, for any number of agents, cancellations and
registrations and any cap:

| theorem | statement |
|---|---|
| `Invariance` | `Spec => []IInv` |
| `TypeCorrect` | `Spec => []TypeOK`, with the bound of the fan-out |
| `EndsAreAnnounced` | `Spec => []EndAnnounced` |

Three threads may announce the end of a child, none of them under a lock.
`Counted` gives each of them one announcement: the worker on its way to "over",
the parent when its teardown is through with the child (`Torn`), and the user
whose click is not in progress.  That the parent cannot come back rests on
`Kin`: a teardown deals with the batch the loop was joining, and that batch is
dropped when the loop goes on.  `Shown` says who may have written what the
record shows, and that it was announced (`Told`); of the agents of the renamer,
whose announcements have no bound, it says that an end nobody interfered with
comes last and behind failures only (`Reported`).  It is also what makes a worker with a slot an agent that counts.  The
fan-out is inductive only with the loops that took a slot and have not spawned
yet (`FanOut`): each of them is the root's, is cancelled, or belongs to an agent
in `Active` (`SpawnersCount`), so that at the moment a loop gets its slot the
agents are below the cap, and the loops with a slot are no more than these, the
root and the cancelled ones.  New ids are fresh because the agents that
exist are the first ones (`Numbered`).

`ChatTabsProofs`, for any number of tabs, chats, messages and failing starts:

| theorem | statement |
|---|---|
| `TypeCorrect` | `Spec => []TypeOK`, with `OpenOnce` and `WaitsOnce` |
| `DeletedChatsStayDeleted` | `Spec => []DeletedStaysDeleted` |
| `Invariance` | `Spec => []IInv` |
| `HistoryKeepsChats` | `Spec => []ChatsAreKept` |

A deletion is final because it is the last job of its chat: a request is about a
chat that is in no tab, and no save of the chat is queued behind its deletion
(`RequestMeaning`), for only a chat in a tab is saved.  `ChatsAreKept` speaks of
chats at rest; what carries it there is where the turns are in between
(`Carried`): in the chat object of the tab, with a chat that is being loaded, in
every object that is queued to be saved, and in the file or what is about to
replace it.  The synchronous save of `close_tab()` is the step that can break
the last, and the turns at stake are then in `adrift`.

`McpManagerProofs`, for every set of servers and any number of reloads:

| theorem | statement |
|---|---|
| `TypeCorrect` | `Spec => []TypeOK` |
| `ShutdownFinality` | `Spec => []ShutdownIsFinal` |
| `NoStaleTools` | `Spec => []ToolsServed` |

That the generation stays in its range is a matter of `Counting`: start-up, the
reload in flight and the shutdown hold one generation each until they take it.
`ShutdownIsFinal` needs that the flag is what the exit thread has set
(`FlagMeaning`), so that the second look of a start thread, under the lock, cannot
miss it.  For `ToolsServed` every server's tools are accounted for at any time
(`ToolsAccounted`): those of the stored client, those of a start that has still
to look again, those a reload is about to sweep, or those of a registration that
failed half-way (`halfway`), which the property excepts because nothing removes
them before the next registration or reload.  Storing a client over the
tools of another would break it; it cannot, because a start that has still to
look is no newer than the client whose tools replaced its own
(`RecheckedIsOlder`), and one that passes its second look is the newest.

`MemoryProjectionProofs`, for any writers, stores and facts and any number of
saves, edits and faults:

| theorem | statement |
|---|---|
| `OneProjector` | `Spec => []TypeOK` |
| `CleanMeansDescribed` | `Spec => []StateDescribesFile` |
| `NoEditOverwritten` | `Spec => []EditsKept` |
| `UndisturbedSaveRepairs` | `Spec => []SaveRepairs` |

Each is made inductive by what the projector has in hand: the notes it is about
to put back lack no edit but the unseen ones (`NotesAtHand`), what it is about
to record, or has failed to, is what it has written (`WrittenAtHand`), and the listing of a save
that nobody disturbs is the database as it is (`AloneIsCurrent`), because creating
a fact has outdated the memo of its store.  All of them rest on the exclusion of
projectors in `TypeOK`, whose last conjunct needs `MemoIsPast`.

Only model-checked: all liveness properties (the prover has neither fairness nor
ENABLED): `ShutdownReleasesWorkers`, `EveryCallReturns`, `RunnerEnds`,
`RunIsConcluded`, `RunConcluded`, `CancelEnds`, `EveryCallEnds`,
`CancelledRunEnds`, `ChildEnds`, `ShutdownStopsServers` and `FollowUpsStart`.
Outside of the hypotheses named above, where the properties fail, the runs with
a violation show how.

## Findings

Four runs end in a violation of something the repository says of itself; each
quotes the sentence in `PROJECT.json`.

1. `tools_view` (code): the views of a registry that subagents get have result
   caches of their own and still expose mutating tools.  A subagent's rename
   invalidates the view's cache only; the parent is served the old name, though
   no two calls overlap.
2. `control_eager`: `finished` is visible before `on_agent_finished()` runs, and
   that call pops whichever runner is in the slot: a prompt in between loses its
   runner, and its run is closed while its agent goes on.
3. `control_stale`: a run is validated under the lock and its runner looked up
   after it; the decision may reach the next run.
4. `run_prompt`: the loop ends at the first empty poll while the agent is not
   running, so the last events can stay in the queue in spite of "All events are
   drained".

Further limits of the code, met while modelling; the models show each of them
(the properties that come nearest say what they except), without a run of its
own:

* *Events and runs.*  A timed-out put does drop its event although the class
  says it does not; a cancellation that precedes the agent thread's first step
  is wiped by `run()`; a poll that runs out before that step ends the run.
* *Tools.*  A read that straddles a rename caches the old name; a rename that
  timed out takes effect later without a record.  The "global lock serializing
  mutating tools" (`tools/registry.py`:82-84) is taken by `execute()` only, while
  the agent loop uses `execute_coerced()`.
* *Subagents.*  `_finalize_cancellation()` "cannot emit the cancellation event
  twice" (`agent/subagent_manager.py`:247-255): it can, three times at most.  The
  join's "worker thread has exited by now" (`agent/loop.py`:2826) is not so after
  a cancellation from the Agents tab.  A cancellation noticed between two spawns
  of a batch, or while waiting for a slot, leaves the children already spawned
  running, unlike the "kill-style teardown" of the join.  `update_external()` with
  RUNNING emits a *failed* event, so that every agent of the bulk renamer that
  gets to work is announced failed and later with its end (`EndAnnounced` says
  that the end comes last).  A cancelled child gives up its slot while it
  runs; agents of the renamer occupy slots.  A nested spawn at the cap waits for
  a slot that its own ancestors hold (`Stalled`) until the user cancels.
* *MCP.*  A start that completes between `reload()`'s `stop_all()` and its new
  generation stores a client that is later overwritten and never stopped
  (`replaced`); a client given up before its event loop exists is not stopped
  (`late`); a superseded start can sweep the tools of the newer one, whose
  server then runs without tools until the next reload.  A registration that
  raises half-way leaves the tools registered so far, of a client that is then
  stopped (`halfway`).
* *Memory.*  "The memo is never stale" (`memory/workspace_store.py`:374-377)
  holds for the writes of one connection; another store's facts are missed.
  Two savers that overlap can leave MEMORY.md without a fact and marked clean; a
  mark set for contention is cleared by the one who held the lock.  A crash
  before `mark_projection_clean()` leaves the state describing the old file, one
  before `mark_projection_dirty()` leaves it clean, and so does a database that
  refuses the record of a replaced file and then the mark, with an exception from
  `save_fact()` (`MarkFails`, `torn`); an edit saved between the
  second reading and the replacement is lost.
* *Chats.*  After `reset_for_new_file()` "no code may mutate" the detached
  sessions; only the active tab is cancelled, and the runs of the others go on in
  them.  `close_tab()` saves past the executor, so that an older save on its way
  can replace the newer content.  A chat loaded while a save of it is queued
  starts from the older content.  A message queued because no slot was free is
  started by the next end of a run of its own tab only.  The end of a run stops the
  poll timer when no run is live (`ui/panel_core.py`:3158), although another tab's
  run that ended meanwhile, or has thirty events or more left, was not seen in
  this pass: its last events, the autosave of its chat and its follow-ups wait
  until a message is submitted in any tab (`missed`).

## Limits

* Passing runs leave out what the findings are about: `EagerClients = FALSE`
  keeps clients from prompting between `finished` and `on_agent_finished()`, and
  `SlowStart = FALSE` keeps polls and cancellations from overtaking the agent
  thread's first step.  Functions in `contested` are outside of `CacheFresh`
  and `UndoRestores`, and so are functions that several tabs rename: each tab has
  an undo stack of its own over the one database.
* `EventStream` takes what the loop yields as arbitrary but for the rule named
  above; the loop's own turn cycle is not modelled yet.
* `EventStream`: the event of kind "recovery" is a RECOVERY_START that asks for the
  discard of pending reasoning; one that does not is an ordinary control event.
  `RunConsumer` drains the queue to its end, the broker 200 events of it.
* `ControlServer` has one tab; the event ring of 4096, the drain's limit of
  200, the /events long poll, /tools and authentication are left out, and
  `start_agent()` fails by returning an error, never by raising.  The decision
  queues hold at most one decision, whoever it is for.
* `ToolExecution` has one read and one reversible tool; argument coercion,
  capability checks, approvals and the inline path `execute_current_thread()`
  are left out.  A handler takes effect in one step, because the host runs it on
  its main thread.  The cache has an entry per function and no size limit.
  A subagent's records join its tab's stack at once; the code keeps them in a log
  of its own until the subagent ends (`agent/subagent.py`:221-237).
* `SubagentManager`: what an agent does between two spawns is one turn; a child's
  supplied cancel event is not reset by its `run()`, that of the tab is.  The
  profile, summary and tools of a child are left out.
* `McpManager`: every start of a server lists the same tools, and two servers whose names
  map to one prefix are not considered; calls of tools are left out, as is
  `stop()` waiting for the thread.
* `MemoryProjection`: portalocker is installed (the fallback lock is per
  projector); the reading of the state that makes the answer of `save_fact()` does
  not fail; the `projection_conflict` flag, observations and revisions are
  left out; facts are never deleted by `save_fact()`.
* `ChatTabs`: the disk does not fail, and `checkpoint_auto_save` is on; the
  manifest, listing, renaming, forks, restore at start-up, the watchdog and retry
  of deletions, the synchronous saves of `shutdown()`, and the history after a
  change of the database are left out; so is the order of messages in a chat.
* Logging, texts, prices and token counts are left out throughout.

Not modelled at all, with the reason, are the components with that status in
`PROJECT.json`: data transformations (prompts, reports, retrieval, IDA tools),
wire formats (providers), widgets, pure I/O (CLI), and what is planned below.

## Plan

In this order, the most consequential first:

1. **DecisionQueues**: drain-then-put of `submit_*`, `_wait_for_queue()`, several
   submitters and nested loops; abstract: an answer is given to one question.
   Today's hazards without a property (`agent/loop.py`:816, the event ring of
   `control/server.py`:72) belong here and to a larger `ControlServer`.
2. **BulkRenamer**: jobs, pause, cancel and undo over worker threads
   (`agent/bulk_renamer.py`:257).
3. **Turn cycle and loop guard**: the agent loop's states, stream recovery,
   pairing of tool calls and results, and the guard's trigger as operators
   checked against a reference definition.
4. `ChatTabs` with the manifest, forks and a failing disk; **A2A**, **string
   cache**, **memory bundles and migration** (crash safety).

Theorems to prove next: sharper forms of what is proved, such as that
`request_shutdown()` leaves no listed job behind, and abstract specifications
that the larger modules implement: a broker that is a consumer of
`RunConsumer`, an undo stack that is one sequence of reversals.

Not modelled, and not planned: prompts, reports, retrieval, providers, the IDA
tools, skills and widgets are transformations of texts or calls into a host or a
service, without shared state of their own beyond what the modules above hold;
they make up most of the repository's lines.
