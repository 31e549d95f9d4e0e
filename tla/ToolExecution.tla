--------------------------- MODULE ToolExecution ---------------------------
(***************************************************************************)
(* Tool calls of several agent loops on one ToolRegistry: the pool that    *)
(* runs the handlers (lucnhan/tools/registry.py), the result cache         *)
(* (lucnhan/tools/cache.py), the bookkeeping of mutations in               *)
(* _execute_single_tool() (lucnhan/agent/loop.py) and /undo                *)
(* (lucnhan/agent/loop_commands.py).                                       *)
(*                                                                         *)
(* The database is the name of each function.  The tools are               *)
(* get_function_name, which is cacheable, and rename_function, which is    *)
(* mutating, reversible and verified after it ran.  Agents of one tab      *)
(* share the tab's undo stack.  The views of a registry that subagents     *)
(* get (allowlist(), without_approval_gated_tools()) are registries with a *)
(* cache and a lock of their own; the pool is one for all.  A handler      *)
(* takes effect in one step: it runs on the host's main thread.            *)
(***************************************************************************)
EXTENDS Integers, FiniteSets, SequencesExt

CONSTANTS Agents, Tabs,
          TabOf,        \* the tab of an agent
          Registries,   \* the tool registry and the views made of it
          RegistryOf,   \* the one an agent has
          Addresses,    \* functions
          Touches,      \* the functions an agent reads and renames
          Names, Original,
          None,
          Workers,      \* max_workers of _executor
          Timeouts,     \* whether future.result() may time out
          MaxCalls      \* bound: calls the agents make

ASSUME TabAssumption == TabOf \in [Agents -> Tabs]
ASSUME RegistryAssumption == RegistryOf \in [Agents -> Registries]
ASSUME TouchesAssumption == Touches \in [Agents -> SUBSET Addresses]
ASSUME NamesAssumption == Original \in Names /\ None \notin Names \cup Agents \cup Addresses
ASSUME BoundsAssumption == /\ Workers \in Nat \ {0} /\ MaxCalls \in Nat
                           /\ Timeouts \in BOOLEAN

VARIABLES
    name,       \* the database
    cache,      \* each registry's _result_cache of get_function_name
    log,        \* each tab's undo stack
    call,       \* what each agent's loop is doing
    lock,       \* the holder of each registry's _mutate_lock
    orphans,    \* handlers still in the pool whose caller timed out
    calls,      \* calls made so far
    recorded,   \* numbers of the renames that were put on an undo stack
    restored,   \* numbers of the renames that were reversed by /undo
    contested   \* functions on which a rename or undo overlapped another
                \* agent's call, or was hit by a timeout

hist == <<recorded, restored>>
vars == <<name, cache, log, call, lock, orphans, calls, hist, contested>>

Whys == {"none", "read", "capture", "rename", "verify", "undo"}
Stages == {"idle", "lookup", "lock", "queued", "running", "done",
           "invalidate", "back", "failed"}

\* no: the call's number; undoing: the number of the rename /undo reverses;
\* want: the name to set; old: pre_state; got: the result of the last read.
Calls == [why : Whys, stage : Stages, no : Nat, undoing : Nat,
          fn : Addresses \cup {None}, want : Names \cup {None},
          old : Names \cup {None}, got : Names \cup {None}]

Idle == [why |-> "none", stage |-> "idle", no |-> 0, undoing |-> 0,
         fn |-> None, want |-> None, old |-> None, got |-> None]

\* MutationRecord; no is its identity, new is not kept by the code.
Records == [no : Nat, fn : Addresses, old : Names, new : Names]

TypeOK ==
    /\ name \in [Addresses -> Names]
    /\ cache \in [Registries -> [Addresses -> Names \cup {None}]]
    /\ log \in [Tabs -> Seq(Records)]
    /\ call \in [Agents -> Calls]
    /\ lock \in [Registries -> Agents \cup {None}]
    /\ IsFiniteSet(orphans) /\ \A o \in orphans : o \in Calls
    /\ calls \in 0..MaxCalls
    /\ Cardinality(orphans)
       + Cardinality({a \in Agents : call[a].stage = "running"}) <= Workers

Init ==
    /\ name = [f \in Addresses |-> Original]
    /\ cache = [g \in Registries |-> [f \in Addresses |-> None]]
    /\ log = [t \in Tabs |-> <<>>]
    /\ call = [a \in Agents |-> Idle]
    /\ lock = [g \in Registries |-> None] /\ orphans = {} /\ calls = 0
    /\ recorded = {} /\ restored = {} /\ contested = {}

-----------------------------------------------------------------------------
(* What an agent asks for *)

Mutating(c) == c.why \in {"rename", "undo"}
At(a, stage) == call[a].stage = stage
Stage(a, stage) == call' = [call EXCEPT ![a].stage = stage]
Ask(a, c) == /\ At(a, "idle") /\ calls < MaxCalls
             /\ calls' = calls + 1
             /\ call' = [call EXCEPT ![a] = [c EXCEPT !.no = calls + 1]]
             /\ contested' = contested \cup
                   {call[b].fn : b \in {b \in Agents \ {a} :
                       call[b].fn = c.fn /\ ~(call[b].why = "read" /\ c.why = "read")}}
             /\ UNCHANGED <<name, cache, log, lock, orphans, hist>>

Read(a, f) ==
    Ask(a, [Idle EXCEPT !.why = "read", !.stage = "lookup", !.fn = f])

\* A rename starts with capture_pre_state().
Rename(a, f, n) ==
    Ask(a, [Idle EXCEPT !.why = "capture", !.stage = "lookup",
                        !.fn = f, !.want = n])

\* One round of /undo: peek at the last record, execute() its reverse.
Undo(a) ==
    /\ log[TabOf[a]] # <<>>
    /\ LET r == Last(log[TabOf[a]])
       IN  Ask(a, [Idle EXCEPT !.why = "undo", !.stage = "lock", !.fn = r.fn,
                               !.want = r.old, !.undoing = r.no])

-----------------------------------------------------------------------------
(* ToolRegistry.execute() and execute_coerced() *)

Lookup(a) ==
    /\ At(a, "lookup")
    /\ LET hit == cache[RegistryOf[a]][call[a].fn]
       IN  call' = [call EXCEPT ![a].stage = IF hit # None THEN "back" ELSE "queued",
                                ![a].got = hit]
    /\ UNCHANGED <<name, cache, log, lock, orphans, calls, hist, contested>>

\* Only execute() takes _mutate_lock, so only /undo does.
TakeLock(a) ==
    /\ At(a, "lock") /\ lock[RegistryOf[a]] = None
    /\ lock' = [lock EXCEPT ![RegistryOf[a]] = a]
    /\ Stage(a, "queued")
    /\ UNCHANGED <<name, cache, log, orphans, calls, hist, contested>>

Busy == Cardinality(orphans) + Cardinality({a \in Agents : At(a, "running")})

\* Mutant: the pool has no limit.
StartJobUnbounded(a) ==
    /\ At(a, "queued")
    /\ Stage(a, "running")
    /\ UNCHANGED <<name, cache, log, lock, orphans, calls, hist, contested>>

StartJob(a) ==
    /\ At(a, "queued") /\ Busy < Workers
    /\ Stage(a, "running")
    /\ UNCHANGED <<name, cache, log, lock, orphans, calls, hist, contested>>

\* The handler, on the main thread.
Effect(c) ==
    /\ name' = IF Mutating(c) THEN [name EXCEPT ![c.fn] = c.want] ELSE name
    /\ restored' = restored \cup (IF c.why = "undo" THEN {c.undoing} ELSE {})
    /\ UNCHANGED <<cache, log, lock, calls, recorded, contested>>

Handler(a) ==
    /\ At(a, "running")
    /\ call' = [call EXCEPT ![a].stage = "done",
                            ![a].got = IF Mutating(call[a]) THEN @
                                       ELSE name[call[a].fn]]
    /\ Effect(call[a])
    /\ UNCHANGED orphans

OrphanHandler(o) ==
    /\ orphans' = orphans \ {o}
    /\ Effect(o)
    /\ UNCHANGED call

ReleaseIfHeld(a) ==
    lock' = [lock EXCEPT ![RegistryOf[a]] = IF @ = a THEN None ELSE @]

\* What a timeout leaves in doubt: a mutation that may take effect later, and
\* one that goes without its record.
Doubtful(a) ==
    IF \/ Mutating(call[a]) /\ At(a, "running")
       \/ call[a].why \in {"capture", "verify"}
    THEN {call[a].fn} ELSE {}

\* Mutant: the lock is not released when the handler times out.
TimeOutLocked(a) ==
    /\ Timeouts
    /\ call[a].stage \in {"queued", "running"}
    /\ orphans' = orphans \cup (IF At(a, "running") THEN {call[a]} ELSE {})
    /\ contested' = contested \cup Doubtful(a)
    /\ Stage(a, "failed")
    /\ UNCHANGED <<name, cache, log, lock, calls, hist>>

\* A queued handler is cancelled, a running one cannot be.
TimeOut(a) ==
    /\ Timeouts
    /\ call[a].stage \in {"queued", "running"}
    /\ orphans' = orphans \cup (IF At(a, "running") THEN {call[a]} ELSE {})
    /\ ReleaseIfHeld(a)
    /\ contested' = contested \cup Doubtful(a)
    /\ Stage(a, "failed")
    /\ UNCHANGED <<name, cache, log, calls, hist>>

Store(a) ==
    /\ At(a, "done") /\ ~Mutating(call[a])
    /\ cache' = [cache EXCEPT ![RegistryOf[a]][call[a].fn] = call[a].got]
    /\ Stage(a, "back")
    /\ UNCHANGED <<name, log, lock, orphans, calls, hist, contested>>

Release(a) ==
    /\ At(a, "done") /\ Mutating(call[a])
    /\ ReleaseIfHeld(a)
    /\ Stage(a, "invalidate")
    /\ UNCHANGED <<name, cache, log, orphans, calls, hist, contested>>

\* Mutant: the cache survives a mutation.
InvalidateNothing(a) ==
    /\ At(a, "invalidate")
    /\ Stage(a, "back")
    /\ UNCHANGED <<name, cache, log, lock, orphans, calls, hist, contested>>

Invalidate(a) ==
    /\ At(a, "invalidate")
    /\ cache' = [cache EXCEPT ![RegistryOf[a]] = [f \in Addresses |-> None]]
    /\ Stage(a, "back")
    /\ UNCHANGED <<name, log, lock, orphans, calls, hist, contested>>

-----------------------------------------------------------------------------
(* What the agent does with the result *)

Returned(a) == call[a].stage \in {"back", "failed"}
Finish(a) == call' = [call EXCEPT ![a] = Idle]

ReadDone(a) ==
    /\ Returned(a) /\ call[a].why = "read"
    /\ Finish(a)
    /\ UNCHANGED <<name, cache, log, lock, orphans, calls, hist, contested>>

\* A failed capture leaves pre_state empty; the rename runs all the same.
Captured(a) ==
    /\ Returned(a) /\ call[a].why = "capture"
    /\ call' = [call EXCEPT ![a].why = "rename", ![a].stage = "queued",
                            ![a].old = IF At(a, "back") THEN call[a].got ELSE None,
                            ![a].got = None]
    /\ UNCHANGED <<name, cache, log, lock, orphans, calls, hist, contested>>

Renamed(a) ==
    /\ Returned(a) /\ call[a].why = "rename"
    /\ IF At(a, "back")
       THEN call' = [call EXCEPT ![a].why = "verify", ![a].stage = "lookup"]
       ELSE Finish(a)
    /\ UNCHANGED <<name, cache, log, lock, orphans, calls, hist, contested>>

Record(c) == [no |-> c.no, fn |-> c.fn, old |-> c.old, new |-> c.want]

Verified(a) ==
    /\ Returned(a) /\ call[a].why = "verify"
    /\ IF At(a, "back") /\ call[a].got = call[a].want /\ call[a].old # None
       THEN /\ log' = [log EXCEPT ![TabOf[a]] = Append(@, Record(call[a]))]
            /\ recorded' = recorded \cup {call[a].no}
       ELSE UNCHANGED <<log, recorded>>
    /\ Finish(a)
    /\ UNCHANGED <<name, cache, lock, orphans, calls, restored, contested>>

\* Mutant: /undo drops the oldest record.
DropOldest(s, no) == SubSeq(s, 2, Len(s))

\* _drop_record(): that record goes, if it is still there.
DropRecord(s, no) ==
    IF \E i \in DOMAIN s : s[i].no = no THEN RemoveAt(s, CHOOSE i \in DOMAIN s : s[i].no = no) ELSE s

\* Mutant: the last record is popped, whichever it is by now.
UndoneBlindly(a) ==
    /\ Returned(a) /\ call[a].why = "undo"
    /\ log' = IF At(a, "back") /\ log[TabOf[a]] # <<>>
              THEN [log EXCEPT ![TabOf[a]] = Front(@)]
              ELSE log
    /\ Finish(a)
    /\ UNCHANGED <<name, cache, lock, orphans, calls, hist, contested>>

\* A failed reverse keeps the record.
Undone(a) ==
    /\ Returned(a) /\ call[a].why = "undo"
    /\ log' = IF At(a, "back")
              THEN [log EXCEPT ![TabOf[a]] = DropRecord(@, call[a].undoing)]
              ELSE log
    /\ Finish(a)
    /\ UNCHANGED <<name, cache, lock, orphans, calls, hist, contested>>

-----------------------------------------------------------------------------
Progress(a) ==
    \/ Lookup(a) \/ Store(a) \/ Release(a) \/ Invalidate(a) \/ TimeOut(a)
    \/ ReadDone(a) \/ Captured(a) \/ Renamed(a) \/ Verified(a) \/ Undone(a)

Next ==
    \/ \E a \in Agents :
          \/ \E f \in Touches[a] : Read(a, f)
          \/ \E f \in Touches[a], n \in Names : Rename(a, f, n)
          \/ Undo(a)
          \/ TakeLock(a)
          \/ StartJob(a)
          \/ Handler(a)
          \/ Progress(a)
    \/ \E o \in orphans : OrphanHandler(o)

Spec == Init /\ [][Next]_vars

\* The loops run and the timeouts elapse; the main thread and with it the
\* pool may stall for ever.
Fairness == \A a \in Agents : WF_vars(Progress(a)) /\ WF_vars(TakeLock(a))

-----------------------------------------------------------------------------
(* Properties *)

\* A mutating call that took effect and has not invalidated the cache yet.
Unsettled == \E a \in Agents : Mutating(call[a]) /\ call[a].stage \in {"done", "invalidate"}

\* While no mutation is being settled, the cached name of a function that no
\* two agents used at once is its current name.  cache.py promises that "a
\* rename_function between two calls correctly returns fresh results".
CacheFresh ==
    ~Unsettled => \A g \in Registries, f \in Addresses \ contested :
                     cache[g][f] \in {None, name[f]}

AtRest(f) == \A a \in Agents : call[a].fn = f => call[a].why = "read"
About(s, f) == {i \in DOMAIN s : s[i].fn = f}

\* The records about a function lead from its name n back to its original name:
\* the last one set n, each holds what the one before it set, and the first one
\* holds the original name.
LeadsBack(s, f, n) ==
    \A i \in About(s, f) :
        /\ (\A j \in About(s, f) : j <= i) => s[i].new = n
        /\ (\A j \in About(s, f) : j >= i) => s[i].old = Original
        /\ \A j \in About(s, f) :
              i < j /\ (\A k \in About(s, f) : k <= i \/ j <= k) => s[j].old = s[i].new

\* Undoing a tab's stack to the bottom takes every function back to its
\* original name through the names it had.
UndoRestores ==
    \A f \in Addresses \ contested : AtRest(f) =>
      /\ (\A t \in Tabs : About(log[t], f) = {}) => name[f] = Original
      /\ \A t \in Tabs : LeadsBack(log[t], f, name[f])

OnStack == UNION {Range(log[t]) : t \in Tabs}

\* A record leaves an undo stack only after its reverse ran, whatever was
\* appended to the stack meanwhile; a record whose reverse ran does not stay
\* (unless the call is still being concluded, or was contested).
StackIsExact ==
    /\ recorded \ {r.no : r \in OnStack} \subseteq restored
    /\ \A r \in OnStack : r.no \in restored /\ r.fn \notin contested =>
         \E a \in Agents : call[a].why = "undo" /\ call[a].undoing = r.no

\* Whatever the main thread does, every tool call ends.
EveryCallEnds == Fairness => \A a \in Agents : call[a] # Idle ~> call[a] = Idle
=============================================================================
