------------------------- MODULE ToolExecutionProofs -------------------------
(***************************************************************************)
(* Proofs about ToolExecution, for any number of agents, tabs, functions   *)
(* and calls and any size of the pool: the pool keeps its limit and the    *)
(* undo stacks are exact; without views of the registry, the cache is      *)
(* fresh; and when no two tabs rename one function, /undo leads every      *)
(* function back to its original name.                                     *)
(***************************************************************************)
EXTENDS ToolExecution, FiniteSetTheorems, SequenceTheorems, TLAPS

-----------------------------------------------------------------------------
(* The pool, and what a call may be doing *)

\* The types of the variables, without the limit of the pool.
Types ==
    /\ name \in [Addresses -> Names]
    /\ cache \in [Registries -> [Addresses -> Names \cup {None}]]
    /\ log \in [Tabs -> Seq(Records)]
    /\ call \in [Agents -> Calls]
    /\ lock \in [Registries -> Agents \cup {None}]
    /\ \A o \in orphans : o \in Calls
    /\ calls \in 0..MaxCalls

\* The pool runs a finite number of handlers.
Running == {a \in Agents : call[a].stage = "running"}
FinitePool == IsFiniteSet(Running)

\* Handlers running for agents and handlers whose agent is gone fit in the pool.
Pool == FinitePool /\ IsFiniteSet(orphans) /\ Cardinality(orphans) + Cardinality(Running) <= Workers

\* What a call is doing, and where it may be with it; n calls were made.
Shapely(c, n) ==
    /\ c.why = "none" => c.fn = None /\ c.stage = "idle"
    /\ c.why # "none" => c.fn \in Addresses /\ c.no \in 1..n /\ c.stage # "idle"
    /\ c.why \in {"read", "capture", "verify"} => c.stage \notin {"lock", "invalidate"}
    /\ c.why = "rename" => c.stage \notin {"lookup", "lock"}
    /\ c.why = "undo" => c.stage # "lookup"
    /\ c.why \in {"capture", "rename", "verify", "undo"} => c.want \in Names

Shape == \A a \in Agents : Shapely(call[a], calls)

Basic == Types /\ Pool /\ Shape

\* A mutation whose caller timed out has a function and a name to set.
Left == \A o \in orphans : Mutating(o) => o.fn \in Addresses /\ o.want \in Names

-----------------------------------------------------------------------------
(* What the stacks and the calls know of each other *)

Conclusive == {"done", "invalidate", "back"}

\* A number is one call's, and one record's at most.
Numbered ==
    /\ \A a, b \in Agents : a # b /\ call[a].why # "none" /\ call[b].why # "none" => call[a].no # call[b].no
    /\ \A a \in Agents : call[a].why \in {"capture", "rename", "verify"} => call[a].no \notin recorded
    /\ recorded \subseteq 1..calls
    /\ \A t \in Tabs : \A i \in DOMAIN log[t] :
        /\ log[t][i].no \in recorded
        /\ \A u \in Tabs : \A j \in DOMAIN log[u] : log[t][i].no = log[u][j].no => t = u /\ i = j

\* An /undo reverses a record of its tab, and has its function.
Reverses(c, tab) ==
    c.why = "undo" =>
        /\ c.undoing \in recorded
        /\ \A t \in Tabs : \A i \in DOMAIN log[t] : log[t][i].no = c.undoing => t \in tab /\ log[t][i].fn = c.fn

UndoMeaning ==
    /\ \A a \in Agents : Reverses(call[a], {TabOf[a]})
    /\ \A o \in orphans : Reverses(o, Tabs) /\ (Mutating(o) => o.fn \in contested)

\* The records whose reverse ran are off the stack, or about to be.
Settled ==
    /\ restored \subseteq recorded
    /\ \A n \in recorded : n \in restored \/ \E t \in Tabs : \E i \in DOMAIN log[t] : log[t][i].no = n
    /\ \A a \in Agents : call[a].why = "undo" /\ call[a].stage \in Conclusive => call[a].undoing \in restored
    /\ \A t \in Tabs : \A i \in DOMAIN log[t] :
        log[t][i].no \in restored /\ log[t][i].fn \notin contested =>
            \E a \in Agents : call[a].why = "undo" /\ call[a].stage \in Conclusive /\ call[a].undoing = log[t][i].no

StackInv == Basic /\ Left /\ Numbered /\ UndoMeaning /\ Settled

-----------------------------------------------------------------------------
(* The cache *)

\* All agents use one registry, not views of it.
NoViews == \A a, b \in Agents : RegistryOf[a] = RegistryOf[b]

\* Two agents are at one function only to read it, or it is contested.
Apartness ==
    \A a, b \in Agents : a # b /\ call[a].fn = call[b].fn /\ call[a].fn # None =>
        (call[a].why = "read" /\ call[b].why = "read") \/ call[a].fn \in contested

\* A mutation took effect and the cache was not invalidated since.
Settles(a, f) == call[a].fn = f /\ Mutating(call[a]) /\ call[a].stage \in {"done", "invalidate"}

\* A read came back with a name.
Holds(a, f) == call[a].fn = f /\ ~Mutating(call[a]) /\ call[a].stage \in {"done", "back"}

Fresh ==
    /\ \A g \in Registries, f \in Addresses : cache[g][f] # None => \E a \in Agents : RegistryOf[a] = g
    /\ \A f \in Addresses \ contested :
        /\ (\E a \in Agents : Settles(a, f)) \/ \A g \in Registries : cache[g][f] \in {None, name[f]}
        /\ \A a \in Agents : Holds(a, f) => call[a].got = name[f]

CacheInv == StackInv /\ Apartness /\ Fresh

-----------------------------------------------------------------------------
(* The way back *)

\* The functions of the agents of one tab are not those of another one's.
FunctionsOfTabs == \A a, b \in Agents : Touches[a] \cap Touches[b] # {} => TabOf[a] = TabOf[b]

\* What is recorded, or recorded soon, is about a function of the tab.
Home ==
    /\ \A a \in Agents : call[a].why \in {"read", "capture", "rename", "verify"} => call[a].fn \in Touches[a]
    /\ \A t \in Tabs : \A i \in DOMAIN log[t] : \E b \in Agents : TabOf[b] = t /\ log[t][i].fn \in Touches[b]

\* The stacks lead from name n of f back to its original name.
Chain(f, n) ==
    /\ (\A t \in Tabs : About(log[t], f) = {}) => n = Original
    /\ \A t \in Tabs : LeadsBack(log[t], f, n)

\* The call has set the name, and the stack does not say so yet.
Ahead(a) == call[a].why = "verify" \/ (Mutating(call[a]) /\ call[a].stage \in Conclusive)

\* The record that an /undo reverses is the last one about its function.
LastAbout(a, f, k) ==
    /\ k \in About(log[TabOf[a]], f) /\ \A j \in About(log[TabOf[a]], f) : j <= k
    /\ log[TabOf[a]][k].no = call[a].undoing /\ log[TabOf[a]][k].old = call[a].want

\* What an agent at a function knows of it.
Knows(a, f) ==
    /\ call[a].why = "rename" /\ call[a].stage \in {"queued", "running"} => call[a].old = name[f]
    /\ call[a].why \in {"rename", "verify"} /\ Ahead(a) =>
        name[f] = call[a].want /\ call[a].old \in Names /\ Chain(f, call[a].old)
    /\ call[a].why = "undo" => \E k \in DOMAIN log[TabOf[a]] :
        /\ LastAbout(a, f, k)
        /\ Ahead(a) => name[f] = call[a].want /\ Chain(f, log[TabOf[a]][k].new)

Back(f) ==
    /\ (\A a \in Agents : call[a].fn = f => ~Ahead(a)) => Chain(f, name[f])
    /\ \A a \in Agents : call[a].fn = f => Knows(a, f)

Returns == \A f \in Addresses \ contested : Back(f)

\* A read that the rename depends on does not time out unnoticed.
Doubted == \A a \in Agents : call[a].why \in {"capture", "verify"} /\ call[a].stage = "failed" => call[a].fn \in contested

RestoreInv == CacheInv /\ Home /\ Doubted /\ Returns

-----------------------------------------------------------------------------
(* What a step does to a call *)

\* The calls of the other agents stay.
Alone(a) == \A b \in Agents \ {a} : call'[b] = call[b]

\* The call goes on, at another stage.
Moves(a, stage) ==
    /\ Alone(a) /\ call'[a].stage = stage /\ call'[a].got = call[a].got
    /\ call'[a].why = call[a].why /\ call'[a].no = call[a].no /\ call'[a].undoing = call[a].undoing
    /\ call'[a].fn = call[a].fn /\ call'[a].want = call[a].want /\ call'[a].old = call[a].old

LEMMA StageMoves ==
    ASSUME call \in [Agents -> Calls], NEW a \in Agents, NEW stage \in Stages, Stage(a, stage)
    PROVE  call' \in [Agents -> Calls] /\ Moves(a, stage)
<1>1. call[a] \in Calls
  OBVIOUS
<1>2. call'[a] = [call[a] EXCEPT !.stage = stage] /\ Alone(a)
  BY DEF Stage, Alone
<1>3. [call[a] EXCEPT !.stage = stage] \in Calls
  BY <1>1 DEF Calls
<1>4. call' \in [Agents -> Calls]
  BY <1>2, <1>3 DEF Stage
<1>5. Moves(a, stage)
  BY <1>1, <1>2 DEF Calls, Moves
<1> QED
  BY <1>4, <1>5

\* The call is over.
Ends(a) == Alone(a) /\ call'[a] = Idle

LEMMA FinishEnds ==
    ASSUME call \in [Agents -> Calls], NEW a \in Agents, Finish(a)
    PROVE  call' \in [Agents -> Calls] /\ Ends(a)
<1>1. Idle \in Calls
  BY NamesAssumption DEF Idle, Calls, Whys, Stages
<1> QED
  BY <1>1 DEF Finish, Ends, Alone

\* A call begins.
Begins(a, why, stage, f, want, undoing) ==
    /\ Alone(a) /\ call[a].stage = "idle" /\ calls < MaxCalls /\ calls' = calls + 1
    /\ call'[a].why = why /\ call'[a].stage = stage /\ call'[a].no = calls + 1 /\ call'[a].undoing = undoing
    /\ call'[a].fn = f /\ call'[a].want = want /\ call'[a].old = None /\ call'[a].got = None
    /\ contested' = contested \cup {call[b].fn : b \in {b \in Agents \ {a} :
                       call[b].fn = f /\ ~(call[b].why = "read" /\ why = "read")}}
    /\ UNCHANGED <<name, cache, log, lock, orphans, hist>>

LEMMA AskBegins ==
    ASSUME call \in [Agents -> Calls], calls \in 0..MaxCalls, NEW a \in Agents, NEW c \in Calls,
           c.old = None, c.got = None, Ask(a, c)
    PROVE  call' \in [Agents -> Calls] /\ Begins(a, c.why, c.stage, c.fn, c.want, c.undoing)
<1> DEFINE d == [c EXCEPT !.no = calls + 1]
<1>1. d \in Calls /\ d.why = c.why /\ d.stage = c.stage /\ d.no = calls + 1 /\ d.undoing = c.undoing
      /\ d.fn = c.fn /\ d.want = c.want /\ d.old = None /\ d.got = None
  BY DEF Calls
<1>2. call' = [call EXCEPT ![a] = d]
  BY DEF Ask
<1> HIDE DEF d
<1>3. call' \in [Agents -> Calls] /\ call'[a] = d /\ Alone(a)
  BY <1>1, <1>2 DEF Alone
<1>4. call[a].stage = "idle" /\ calls < MaxCalls /\ calls' = calls + 1 /\ UNCHANGED <<name, cache, log, lock, orphans, hist>>
  BY DEF Ask, At
<1>5. contested' = contested \cup {call[b].fn : b \in {b \in Agents \ {a} :
                       call[b].fn = c.fn /\ ~(call[b].why = "read" /\ c.why = "read")}}
  BY DEF Ask
<1> QED
  BY <1>1, <1>3, <1>4, <1>5 DEF Begins

LEMMA ReadBegins ==
    ASSUME TypeOK, NEW a \in Agents, NEW f \in Touches[a], Read(a, f)
    PROVE  f \in Addresses /\ call' \in [Agents -> Calls] /\ Begins(a, "read", "lookup", f, None, 0)
<1> DEFINE c == [Idle EXCEPT !.why = "read", !.stage = "lookup", !.fn = f]
<1>1. f \in Addresses
  BY TouchesAssumption
<1>2. c \in Calls /\ c.why = "read" /\ c.stage = "lookup" /\ c.fn = f /\ c.want = None /\ c.undoing = 0
      /\ c.old = None /\ c.got = None
  BY <1>1 DEF Idle, Calls, Whys, Stages
<1>3. Ask(a, c)
  BY DEF Read
<1> HIDE DEF c
<1>4. call' \in [Agents -> Calls] /\ Begins(a, c.why, c.stage, c.fn, c.want, c.undoing)
  BY <1>2, <1>3, AskBegins DEF TypeOK
<1> QED
  BY <1>1, <1>2, <1>4

LEMMA RenameBegins ==
    ASSUME TypeOK, NEW a \in Agents, NEW f \in Touches[a], NEW n \in Names, Rename(a, f, n)
    PROVE  f \in Addresses /\ call' \in [Agents -> Calls] /\ Begins(a, "capture", "lookup", f, n, 0)
<1> DEFINE c == [Idle EXCEPT !.why = "capture", !.stage = "lookup", !.fn = f, !.want = n]
<1>1. f \in Addresses
  BY TouchesAssumption
<1>2. c \in Calls /\ c.why = "capture" /\ c.stage = "lookup" /\ c.fn = f /\ c.want = n /\ c.undoing = 0
      /\ c.old = None /\ c.got = None
  BY <1>1 DEF Idle, Calls, Whys, Stages
<1>3. Ask(a, c)
  BY DEF Rename
<1> HIDE DEF c
<1>4. call' \in [Agents -> Calls] /\ Begins(a, c.why, c.stage, c.fn, c.want, c.undoing)
  BY <1>2, <1>3, AskBegins DEF TypeOK
<1> QED
  BY <1>1, <1>2, <1>4

\* The record that an /undo begins with is the last one of the stack of its tab.
LEMMA UndoBegins ==
    ASSUME TypeOK, NEW a \in Agents, Undo(a)
    PROVE  /\ call' \in [Agents -> Calls]
           /\ \E k \in DOMAIN log[TabOf[a]] :
                /\ log[TabOf[a]][k] \in Records
                /\ \A j \in DOMAIN log[TabOf[a]] : j <= k
                /\ Begins(a, "undo", "lock", log[TabOf[a]][k].fn, log[TabOf[a]][k].old, log[TabOf[a]][k].no)
<1> DEFINE s == log[TabOf[a]]
           k == Len(s)
           r == s[k]
<1>1. s \in Seq(Records) /\ s # <<>>
  BY TabAssumption DEF TypeOK, Undo
<1>2. k \in DOMAIN s /\ Last(s) = r /\ \A j \in DOMAIN s : j <= k
  BY <1>1 DEF Last
<1>3. r \in Records
  BY <1>1, <1>2
<1>4. r.fn \in Addresses /\ r.old \in Names \cup {None} /\ r.no \in Nat
  BY <1>3 DEF Records
<1> DEFINE c == [Idle EXCEPT !.why = "undo", !.stage = "lock", !.fn = r.fn, !.want = r.old, !.undoing = r.no]
<1>5. Ask(a, c)
  BY <1>2 DEF Undo
<1> HIDE DEF r, k, s
<1>6. c \in Calls /\ c.why = "undo" /\ c.stage = "lock" /\ c.fn = r.fn /\ c.want = r.old /\ c.undoing = r.no
      /\ c.old = None /\ c.got = None
  BY <1>4 DEF Idle, Calls, Whys, Stages
<1> HIDE DEF c
<1>7. call' \in [Agents -> Calls] /\ Begins(a, c.why, c.stage, c.fn, c.want, c.undoing)
  BY <1>5, <1>6, AskBegins DEF TypeOK
<1> QED
  BY <1>2, <1>3, <1>6, <1>7 DEF r, s

\* A lookup goes back with what the cache has, or to the pool.
LEMMA LookupMoves ==
    ASSUME TypeOK, NEW a \in Agents, Lookup(a), call[a].fn \in Addresses
    PROVE  /\ call' \in [Agents -> Calls] /\ Alone(a)
           /\ call'[a].why = call[a].why /\ call'[a].no = call[a].no /\ call'[a].undoing = call[a].undoing
           /\ call'[a].fn = call[a].fn /\ call'[a].want = call[a].want /\ call'[a].old = call[a].old
           /\ call'[a].got = cache[RegistryOf[a]][call[a].fn]
           /\ call'[a].stage = IF call'[a].got # None THEN "back" ELSE "queued"
<1> DEFINE hit == cache[RegistryOf[a]][call[a].fn]
           c == [call[a] EXCEPT !.stage = IF hit # None THEN "back" ELSE "queued", !.got = hit]
<1>1. call[a] \in Calls /\ hit \in Names \cup {None}
  BY RegistryAssumption DEF TypeOK
<1>2. call' = [call EXCEPT ![a] = c]
  BY DEF Lookup
<1> HIDE DEF hit
<1>3. c \in Calls /\ c.why = call[a].why /\ c.no = call[a].no /\ c.undoing = call[a].undoing
      /\ c.fn = call[a].fn /\ c.want = call[a].want /\ c.old = call[a].old
      /\ c.got = hit /\ c.stage = IF hit # None THEN "back" ELSE "queued"
  BY <1>1 DEF Calls, Stages
<1> HIDE DEF c
<1>4. call' \in [Agents -> Calls] /\ call'[a] = c /\ Alone(a)
  BY <1>2, <1>3 DEF TypeOK, Alone
<1> QED
  BY <1>3, <1>4 DEF hit

LEMMA HandlerMoves ==
    ASSUME TypeOK, NEW a \in Agents, Handler(a), call[a].fn \in Addresses
    PROVE  /\ call' \in [Agents -> Calls] /\ Alone(a)
           /\ call'[a].why = call[a].why /\ call'[a].no = call[a].no /\ call'[a].undoing = call[a].undoing
           /\ call'[a].fn = call[a].fn /\ call'[a].want = call[a].want /\ call'[a].old = call[a].old
           /\ call'[a].got = IF Mutating(call[a]) THEN call[a].got ELSE name[call[a].fn]
           /\ call'[a].stage = "done"
<1> DEFINE got == IF Mutating(call[a]) THEN call[a].got ELSE name[call[a].fn]
           c == [call[a] EXCEPT !.stage = "done", !.got = got]
<1>1. call[a] \in Calls
  BY DEF TypeOK
<1>2. got \in Names \cup {None}
  BY <1>1 DEF TypeOK, Calls
<1>3. call' = [call EXCEPT ![a] = c]
  BY DEF Handler
<1> HIDE DEF got
<1>4. c \in Calls /\ c.why = call[a].why /\ c.no = call[a].no /\ c.undoing = call[a].undoing
      /\ c.fn = call[a].fn /\ c.want = call[a].want /\ c.old = call[a].old
      /\ c.got = got /\ c.stage = "done"
  BY <1>1, <1>2 DEF Calls, Stages
<1> HIDE DEF c
<1>5. call' \in [Agents -> Calls] /\ call'[a] = c /\ Alone(a)
  BY <1>3, <1>4 DEF TypeOK, Alone
<1> QED
  BY <1>4, <1>5 DEF got

LEMMA CapturedMoves ==
    ASSUME TypeOK, NEW a \in Agents, Captured(a)
    PROVE  /\ call' \in [Agents -> Calls] /\ Alone(a)
           /\ call'[a].why = "rename" /\ call'[a].no = call[a].no /\ call'[a].undoing = call[a].undoing
           /\ call'[a].fn = call[a].fn /\ call'[a].want = call[a].want
           /\ call'[a].old = IF call[a].stage = "back" THEN call[a].got ELSE None
           /\ call'[a].got = None /\ call'[a].stage = "queued"
<1> DEFINE old == IF call[a].stage = "back" THEN call[a].got ELSE None
           c == [call[a] EXCEPT !.why = "rename", !.stage = "queued", !.old = old, !.got = None]
<1>1. call[a] \in Calls
  BY DEF TypeOK
<1>2. old \in Names \cup {None}
  BY <1>1 DEF Calls
<1>3. call' = [call EXCEPT ![a] = c]
  BY DEF Captured, At
<1> HIDE DEF old
<1>4. c \in Calls /\ c.why = "rename" /\ c.no = call[a].no /\ c.undoing = call[a].undoing
      /\ c.fn = call[a].fn /\ c.want = call[a].want /\ c.old = old
      /\ c.got = None /\ c.stage = "queued"
  BY <1>1, <1>2 DEF Calls, Stages, Whys
<1> HIDE DEF c
<1>5. call' \in [Agents -> Calls] /\ call'[a] = c /\ Alone(a)
  BY <1>3, <1>4 DEF TypeOK, Alone
<1> QED
  BY <1>4, <1>5 DEF old

LEMMA RenamedMoves ==
    ASSUME TypeOK, NEW a \in Agents, Renamed(a), call[a].stage = "back"
    PROVE  /\ call' \in [Agents -> Calls] /\ Alone(a)
           /\ call'[a].why = "verify" /\ call'[a].no = call[a].no /\ call'[a].undoing = call[a].undoing
           /\ call'[a].fn = call[a].fn /\ call'[a].want = call[a].want /\ call'[a].old = call[a].old
           /\ call'[a].stage = "lookup"
<1> DEFINE c == [call[a] EXCEPT !.why = "verify", !.stage = "lookup"]
<1>1. call[a] \in Calls
  BY DEF TypeOK
<1>2. call' = [call EXCEPT ![a] = c]
  BY DEF Renamed, At
<1>3. c \in Calls /\ c.why = "verify" /\ c.no = call[a].no /\ c.undoing = call[a].undoing
      /\ c.fn = call[a].fn /\ c.want = call[a].want /\ c.old = call[a].old /\ c.stage = "lookup"
  BY <1>1 DEF Calls, Stages, Whys
<1> HIDE DEF c
<1>4. call' \in [Agents -> Calls] /\ call'[a] = c /\ Alone(a)
  BY <1>2, <1>3 DEF TypeOK, Alone
<1> QED
  BY <1>3, <1>4

-----------------------------------------------------------------------------
(* The types, the pool and the shapes stay *)

LEMMA TypeParts == TypeOK /\ FinitePool <=> Types /\ Pool
BY DEF TypeOK, FinitePool, Types, Pool, Running

LEMMA PoolShrinks ==
    ASSUME Pool, Running' \subseteq Running, orphans' \subseteq orphans
    PROVE  Pool'
<1>1. IsFiniteSet(Running') /\ Cardinality(Running') <= Cardinality(Running)
  BY FS_Subset DEF Pool, FinitePool
<1>2. IsFiniteSet(orphans') /\ Cardinality(orphans') <= Cardinality(orphans)
  BY FS_Subset DEF Pool
<1>3. Cardinality(Running) \in Nat /\ Cardinality(Running') \in Nat /\ Cardinality(orphans) \in Nat /\ Cardinality(orphans') \in Nat
  BY <1>1, <1>2, FS_CardinalityType DEF Pool, FinitePool
<1>4. Workers \in Nat /\ Cardinality(orphans) + Cardinality(Running) <= Workers
  BY BoundsAssumption DEF Pool
<1>5. Cardinality(orphans') + Cardinality(Running') <= Workers
  BY <1>1, <1>2, <1>3, <1>4
<1> QED
  BY <1>1, <1>2, <1>5 DEF Pool, FinitePool

\* A step of an agent that leaves its handler not running.
LEMMA NothingStarts ==
    ASSUME Pool, NEW a \in Agents, Alone(a), call'[a].stage # "running", orphans' \subseteq orphans
    PROVE  Pool'
<1>1. Running' \subseteq Running
  BY DEF Running, Alone
<1> QED
  BY <1>1, PoolShrinks

LEMMA PoolTakesIn ==
    ASSUME Types, Pool, NEW a \in Agents, StartJob(a)
    PROVE  Pool'
<1>1. Moves(a, "running") /\ call[a].stage = "queued" /\ orphans' = orphans
  BY StageMoves DEF Types, StartJob, At, Stages
<1>2. Running' = Running \cup {a} /\ a \notin Running
  BY <1>1 DEF Running, Moves, Alone
<1>3. IsFiniteSet(Running') /\ Cardinality(Running') = Cardinality(Running) + 1
  BY <1>2, FS_AddElement DEF Pool, FinitePool
<1>4. Cardinality(orphans) + Cardinality(Running) < Workers
  BY DEF StartJob, Busy, Running, At
<1>5. Cardinality(Running) \in Nat /\ Cardinality(orphans) \in Nat /\ Workers \in Nat
  BY FS_CardinalityType, BoundsAssumption DEF Pool, FinitePool
<1>6. Cardinality(orphans') + Cardinality(Running') <= Workers
  BY <1>1, <1>3, <1>4, <1>5
<1> QED
  BY <1>1, <1>3, <1>6 DEF Pool, FinitePool

LEMMA PoolKeeps ==
    ASSUME Types, Pool, NEW a \in Agents, TimeOut(a)
    PROVE  Pool'
<1>1. Moves(a, "failed")
  BY StageMoves DEF Types, TimeOut, Stages
<1>2. CASE call[a].stage = "running"
  <2>1. Running' = Running \ {a} /\ a \in Running
    BY <1>1, <1>2 DEF Running, Moves, Alone
  <2>2. IsFiniteSet(Running') /\ Cardinality(Running') = Cardinality(Running) - 1
    BY <2>1, FS_RemoveElement DEF Pool, FinitePool
  <2>3. orphans' = orphans \cup {call[a]}
    BY <1>2 DEF TimeOut, At
  <2>4. IsFiniteSet(orphans') /\ Cardinality(orphans') = IF call[a] \in orphans THEN Cardinality(orphans) ELSE Cardinality(orphans) + 1
    BY <2>3, FS_AddElement DEF Pool
  <2>5. Cardinality(Running) \in Nat /\ Cardinality(orphans) \in Nat /\ Workers \in Nat
    BY FS_CardinalityType, BoundsAssumption DEF Pool, FinitePool
  <2>6. Cardinality(orphans) + Cardinality(Running) <= Workers
    BY DEF Pool
  <2>7. Cardinality(orphans') + Cardinality(Running') <= Workers
    BY <2>2, <2>4, <2>5, <2>6
  <2> QED
    BY <2>2, <2>4, <2>7 DEF Pool, FinitePool
<1>3. CASE call[a].stage # "running"
  <2>1. orphans' \subseteq orphans
    BY <1>3 DEF TimeOut, At
  <2> QED
    BY <1>1, <2>1, NothingStarts DEF Moves
<1> QED
  BY <1>2, <1>3

\* A step of one agent that leaves its call with a shape.
LEMMA ShapeKept ==
    ASSUME Shape, calls \in Nat, calls' \in Nat, calls' >= calls, NEW a \in Agents, Alone(a), Shapely(call'[a], calls')
    PROVE  Shape'
<1> SUFFICES ASSUME NEW b \in Agents
             PROVE  Shapely(call'[b], calls')
  BY DEF Shape
<1>1. CASE b = a
  BY <1>1
<1>2. CASE b # a
  <2>1. call'[b] = call[b] /\ Shapely(call[b], calls)
    BY <1>2 DEF Alone, Shape
  <2>2. \A n \in 1..calls : n \in 1..calls'
    OBVIOUS
  <2>3. Shapely(call[b], calls')
    BY <2>1, <2>2 DEF Shapely
  <2> QED
    BY <2>1, <2>3
<1> QED
  BY <1>1, <1>2

\* What the shape of a call says, once more, where it is needed.
LEMMA BasicFacts ==
    ASSUME Basic, NEW a \in Agents
    PROVE  /\ TypeOK /\ call \in [Agents -> Calls] /\ call[a] \in Calls /\ calls \in Nat
           /\ Shapely(call[a], calls)
           /\ call[a].stage # "idle" => call[a].why # "none" /\ call[a].fn \in Addresses
<1>1. TypeOK
  BY TypeParts DEF Basic
<1>2. call \in [Agents -> Calls] /\ call[a] \in Calls /\ calls \in Nat
  BY BoundsAssumption DEF Basic, Types
<1>3. Shapely(call[a], calls)
  BY DEF Basic, Shape
<1> QED
  BY <1>1, <1>2, <1>3 DEF Shapely

\* A call goes from one stage to another, and its reason says which it may be at.
LEMMA BasicMoves ==
    ASSUME Basic, NEW a \in Agents, NEW stage \in Stages, Stage(a, stage), call[a].stage # "idle", stage # "idle",
           stage = "lock" => call[a].why = "undo", stage = "invalidate" => call[a].why \in {"rename", "undo"},
           stage # "lookup", calls' = calls
    PROVE  call' \in [Agents -> Calls] /\ Moves(a, stage) /\ Shape'
<1>1. call' \in [Agents -> Calls] /\ Moves(a, stage)
  BY StageMoves, BasicFacts
<1>2. Shapely(call'[a], calls')
  BY <1>1, BasicFacts DEF Shapely, Moves
<1> QED
  BY <1>1, <1>2, BasicFacts, ShapeKept DEF Basic, Moves

LEMMA BasicBegins ==
    ASSUME Basic, call' \in [Agents -> Calls], NEW a \in Agents, NEW why, NEW stage, NEW f \in Addresses, NEW want, NEW undoing,
           Begins(a, why, stage, f, want, undoing),
           <<why, stage>> = <<"read", "lookup">> \/ (want \in Names /\ <<why, stage>> \in {<<"capture", "lookup">>, <<"undo", "lock">>})
    PROVE  Basic'
<1>1. Alone(a) /\ call'[a].stage = stage /\ call'[a].why = why /\ call'[a].fn = f /\ call'[a].want = want
      /\ call'[a].no = calls + 1 /\ calls' = calls + 1 /\ calls < MaxCalls /\ UNCHANGED <<name, cache, log, lock, orphans>>
  BY DEF Begins
<1>2. calls \in Nat /\ calls' \in 0..MaxCalls /\ calls' >= calls /\ calls' \in Nat /\ calls + 1 \in 1..calls'
  BY <1>1, BasicFacts, BoundsAssumption DEF Basic, Types
<1>3. Shapely(call'[a], calls')
  BY <1>1, <1>2 DEF Shapely
<1>4. Shape'
  BY <1>1, <1>2, <1>3, ShapeKept DEF Basic
<1>5. stage # "running"
  OBVIOUS
<1>6. Pool'
  BY <1>1, <1>5, NothingStarts DEF Basic
<1>7. Types'
  BY <1>1, <1>2 DEF Basic, Types
<1> QED
  BY <1>4, <1>6, <1>7 DEF Basic

LEMMA BasicAsk ==
    ASSUME Basic, NEW a \in Agents, (\E f \in Touches[a] : Read(a, f)) \/ (\E f \in Touches[a], n \in Names : Rename(a, f, n)) \/ Undo(a)
    PROVE  Basic'
<1>0. TypeOK
  BY BasicFacts
<1>1. CASE \E f \in Touches[a] : Read(a, f)
  BY <1>0, <1>1, ReadBegins, BasicBegins
<1>2. CASE \E f \in Touches[a], n \in Names : Rename(a, f, n)
  BY <1>0, <1>2, RenameBegins, BasicBegins
<1>3. CASE Undo(a)
  <2>1. call' \in [Agents -> Calls]
    BY <1>0, <1>3, UndoBegins
  <2>2. PICK k \in DOMAIN log[TabOf[a]] :
          /\ log[TabOf[a]][k] \in Records
          /\ Begins(a, "undo", "lock", log[TabOf[a]][k].fn, log[TabOf[a]][k].old, log[TabOf[a]][k].no)
    BY <1>0, <1>3, UndoBegins
  <2>3. log[TabOf[a]][k].fn \in Addresses /\ log[TabOf[a]][k].old \in Names
    BY <2>2 DEF Records
  <2> QED
    BY <2>1, <2>2, <2>3, BasicBegins
<1> QED
  BY <1>1, <1>2, <1>3

LEMMA BasicTakeLock ==
    ASSUME Basic, NEW a \in Agents, TakeLock(a)
    PROVE  Basic'
<1>1. call' \in [Agents -> Calls] /\ Moves(a, "queued") /\ Shape'
  BY BasicMoves DEF TakeLock, At, Stages
<1>2. Pool'
  BY <1>1, NothingStarts DEF Basic, TakeLock, Moves
<1>3. lock' \in [Registries -> Agents \cup {None}]
  BY RegistryAssumption DEF Basic, Types, TakeLock
<1>4. Types'
  BY <1>1, <1>3 DEF Basic, Types, TakeLock
<1> QED
  BY <1>1, <1>2, <1>4 DEF Basic

LEMMA BasicStartJob ==
    ASSUME Basic, NEW a \in Agents, StartJob(a)
    PROVE  Basic'
<1>1. call' \in [Agents -> Calls] /\ Moves(a, "running") /\ Shape'
  BY BasicMoves DEF StartJob, At, Stages
<1>2. Pool'
  BY PoolTakesIn DEF Basic
<1>3. Types'
  BY <1>1 DEF Basic, Types, StartJob
<1> QED
  BY <1>1, <1>2, <1>3 DEF Basic

LEMMA BasicHandler ==
    ASSUME Basic, NEW a \in Agents, Handler(a)
    PROVE  Basic'
<1>1. call[a].stage = "running" /\ call[a].fn \in Addresses /\ call[a].why # "none"
  BY BasicFacts DEF Handler, At
<1>2. call' \in [Agents -> Calls] /\ Alone(a)
      /\ call'[a].why = call[a].why /\ call'[a].no = call[a].no /\ call'[a].fn = call[a].fn /\ call'[a].want = call[a].want
      /\ call'[a].stage = "done"
  BY <1>1, HandlerMoves, BasicFacts
<1>3. calls' = calls /\ UNCHANGED <<cache, log, lock, orphans>>
  BY DEF Handler, Effect
<1>4. Shape'
  <2>1. Shapely(call'[a], calls')
    BY <1>1, <1>2, <1>3, BasicFacts DEF Shapely
  <2> QED
    BY <1>2, <1>3, <2>1, BasicFacts, ShapeKept DEF Basic
<1>5. Pool'
  BY <1>2, <1>3, NothingStarts DEF Basic
<1>6. name' \in [Addresses -> Names]
  <2>1. Mutating(call[a]) => call[a].want \in Names
    BY BasicFacts DEF Mutating, Shapely
  <2> QED
    BY <2>1 DEF Basic, Types, Handler, Effect
<1>7. Types'
  BY <1>2, <1>3, <1>6 DEF Basic, Types
<1> QED
  BY <1>4, <1>5, <1>7 DEF Basic

LEMMA BasicLookup ==
    ASSUME Basic, NEW a \in Agents, Lookup(a)
    PROVE  Basic'
<1>1. call[a].stage = "lookup" /\ call[a].fn \in Addresses /\ call[a].why \in {"read", "capture", "verify"}
  BY BasicFacts DEF Lookup, At, Shapely, Calls, Whys
<1>2. call' \in [Agents -> Calls] /\ Alone(a)
      /\ call'[a].why = call[a].why /\ call'[a].no = call[a].no /\ call'[a].fn = call[a].fn /\ call'[a].want = call[a].want
      /\ call'[a].stage \in {"back", "queued"}
  BY <1>1, LookupMoves, BasicFacts
<1>3. UNCHANGED <<name, cache, log, lock, orphans, calls>>
  BY DEF Lookup
<1>4. Shape'
  <2>1. Shapely(call'[a], calls')
    BY <1>1, <1>2, <1>3, BasicFacts DEF Shapely
  <2> QED
    BY <1>2, <1>3, <2>1, BasicFacts, ShapeKept DEF Basic
<1>5. Pool'
  BY <1>2, <1>3, NothingStarts DEF Basic
<1>6. Types'
  BY <1>2, <1>3 DEF Basic, Types
<1> QED
  BY <1>4, <1>5, <1>6 DEF Basic

LEMMA BasicStore ==
    ASSUME Basic, NEW a \in Agents, Store(a)
    PROVE  Basic'
<1>1. call' \in [Agents -> Calls] /\ Moves(a, "back") /\ Shape'
  BY BasicMoves DEF Store, At, Stages
<1>2. Pool'
  BY <1>1, NothingStarts DEF Basic, Store, Moves
<1>3. call[a].got \in Names \cup {None}
  BY BasicFacts DEF Calls
<1>4. cache' \in [Registries -> [Addresses -> Names \cup {None}]]
  BY <1>3 DEF Basic, Types, Store
<1>5. Types'
  BY <1>1, <1>4 DEF Basic, Types, Store
<1> QED
  BY <1>1, <1>2, <1>5 DEF Basic

LEMMA LockReleased ==
    ASSUME Types, NEW a \in Agents, ReleaseIfHeld(a)
    PROVE  lock' \in [Registries -> Agents \cup {None}]
BY DEF Types, ReleaseIfHeld

LEMMA BasicRelease ==
    ASSUME Basic, NEW a \in Agents, Release(a)
    PROVE  Basic'
<1>1. call' \in [Agents -> Calls] /\ Moves(a, "invalidate") /\ Shape'
  BY BasicMoves DEF Release, At, Stages, Mutating
<1>2. Pool'
  BY <1>1, NothingStarts DEF Basic, Release, Moves
<1>3. Types'
  BY <1>1, LockReleased DEF Basic, Types, Release
<1> QED
  BY <1>1, <1>2, <1>3 DEF Basic

LEMMA BasicInvalidate ==
    ASSUME Basic, NEW a \in Agents, Invalidate(a)
    PROVE  Basic'
<1>1. call' \in [Agents -> Calls] /\ Moves(a, "back") /\ Shape'
  BY BasicMoves DEF Invalidate, At, Stages
<1>2. Pool'
  BY <1>1, NothingStarts DEF Basic, Invalidate, Moves
<1>3. cache' \in [Registries -> [Addresses -> Names \cup {None}]]
  BY DEF Basic, Types, Invalidate
<1>4. Types'
  BY <1>1, <1>3 DEF Basic, Types, Invalidate
<1> QED
  BY <1>1, <1>2, <1>4 DEF Basic

LEMMA BasicTimeOut ==
    ASSUME Basic, NEW a \in Agents, TimeOut(a)
    PROVE  Basic'
<1>1. call' \in [Agents -> Calls] /\ Moves(a, "failed") /\ Shape'
  BY BasicMoves DEF TimeOut, Stages
<1>2. Pool'
  BY PoolKeeps DEF Basic
<1>3. \A o \in orphans' : o \in Calls
  BY DEF Basic, Types, TimeOut
<1>4. Types'
  BY <1>1, <1>3, LockReleased DEF Basic, Types, TimeOut
<1> QED
  BY <1>1, <1>2, <1>4 DEF Basic

\* Without its k-th element, a sequence has the ones before and the ones after.
LEMMA RemoveAtIs ==
    ASSUME NEW S, NEW s \in Seq(S), NEW k \in 1..Len(s)
    PROVE  /\ RemoveAt(s, k) \in Seq(S) /\ Len(RemoveAt(s, k)) = Len(s) - 1
           /\ \A i \in 1..(Len(s) - 1) : RemoveAt(s, k)[i] = IF i < k THEN s[i] ELSE s[i + 1]
<1> DEFINE p == SubSeq(s, 1, k - 1)
           q == SubSeq(s, k + 1, Len(s))
<1>1. p \in Seq(S) /\ Len(p) = k - 1 /\ \A i \in 1..(k - 1) : p[i] = s[i]
  OBVIOUS
<1>2. q \in Seq(S) /\ Len(q) = Len(s) - k /\ \A i \in 1..(Len(s) - k) : q[i] = s[k + i]
  OBVIOUS
<1>3. RemoveAt(s, k) = p \o q
  BY DEF RemoveAt
<1> HIDE DEF p, q
<1>4. p \o q \in Seq(S) /\ Len(p \o q) = Len(s) - 1
  <2>1. p \o q \in Seq(S) /\ Len(p \o q) = Len(p) + Len(q)
    BY <1>1, <1>2, ConcatProperties
  <2>2. Len(s) \in Nat /\ (k - 1) + (Len(s) - k) = Len(s) - 1
    OBVIOUS
  <2> QED
    BY <1>1, <1>2, <2>1, <2>2
<1>5. ASSUME NEW i \in 1..(Len(s) - 1)
      PROVE  (p \o q)[i] = IF i < k THEN s[i] ELSE s[i + 1]
  <2>1. CASE i < k
    <3>1. i \in 1..Len(p) /\ p[i] = s[i]
      BY <1>1, <2>1
    <3>2. (p \o q)[i] = p[i]
      BY <1>1, <1>2, <3>1
    <3> QED
      BY <2>1, <3>1, <3>2
  <2>2. CASE ~(i < k)
    <3>1. i - Len(p) \in 1..Len(q) /\ i - Len(p) = i - (k - 1) /\ k + (i - (k - 1)) = i + 1
      BY <1>1, <1>2, <2>2
    <3>2. (p \o q)[i] = q[i - Len(p)]
      BY <1>1, <1>2, <1>4, <2>2
    <3>3. q[i - Len(p)] = s[i + 1]
      BY <1>2, <3>1
    <3> QED
      BY <2>2, <3>2, <3>3
  <2> QED
    BY <2>1, <2>2
<1> QED
  BY <1>3, <1>4, <1>5

\* _drop_record() takes out one record with the number, if there is one.
LEMMA DropIs ==
    ASSUME NEW s \in Seq(Records), NEW no
    PROVE  \/ DropRecord(s, no) = s /\ \A i \in 1..Len(s) : s[i].no # no
           \/ \E k \in 1..Len(s) : s[k].no = no /\ DropRecord(s, no) = RemoveAt(s, k)
<1>1. DOMAIN s = 1..Len(s)
  OBVIOUS
<1>2. CASE \E i \in DOMAIN s : s[i].no = no
  <2> DEFINE k == CHOOSE i \in DOMAIN s : s[i].no = no
  <2>1. k \in DOMAIN s /\ s[k].no = no
    BY <1>2
  <2>2. DropRecord(s, no) = RemoveAt(s, k)
    BY <1>2 DEF DropRecord
  <2> HIDE DEF k
  <2> QED
    BY <1>1, <2>1, <2>2
<1>3. CASE ~(\E i \in DOMAIN s : s[i].no = no)
  BY <1>1, <1>3 DEF DropRecord
<1> QED
  BY <1>2, <1>3

\* A call that ends.
LEMMA BasicFinish ==
    ASSUME Basic, NEW a \in Agents, Finish(a), calls' = calls, orphans' = orphans
    PROVE  call' \in [Agents -> Calls] /\ Ends(a) /\ Shape' /\ Pool'
<1>1. call' \in [Agents -> Calls] /\ Ends(a)
  BY FinishEnds, BasicFacts
<1>2. Shapely(call'[a], calls')
  BY <1>1 DEF Ends, Idle, Shapely
<1>3. call'[a].stage = "idle"
  BY <1>1 DEF Ends, Idle
<1> QED
  BY <1>1, <1>2, <1>3, BasicFacts, ShapeKept, NothingStarts DEF Basic, Ends

LEMMA BasicReadDone ==
    ASSUME Basic, NEW a \in Agents, ReadDone(a)
    PROVE  Basic'
<1>1. call' \in [Agents -> Calls] /\ Ends(a) /\ Shape' /\ Pool'
  BY BasicFinish DEF ReadDone
<1> QED
  BY <1>1 DEF Basic, Types, ReadDone

LEMMA BasicCaptured ==
    ASSUME Basic, NEW a \in Agents, Captured(a)
    PROVE  Basic'
<1>1. call[a].why = "capture" /\ UNCHANGED <<name, cache, log, lock, orphans, calls>>
  BY DEF Captured
<1>2. call' \in [Agents -> Calls] /\ Alone(a) /\ call'[a].why = "rename" /\ call'[a].no = call[a].no
      /\ call'[a].fn = call[a].fn /\ call'[a].want = call[a].want /\ call'[a].stage = "queued"
  BY CapturedMoves, BasicFacts
<1>3. Shape'
  <2>1. Shapely(call'[a], calls')
    BY <1>1, <1>2, BasicFacts DEF Shapely
  <2> QED
    BY <1>1, <1>2, <2>1, BasicFacts, ShapeKept DEF Basic
<1>4. Pool'
  BY <1>1, <1>2, NothingStarts DEF Basic
<1>5. Types'
  BY <1>1, <1>2 DEF Basic, Types
<1> QED
  BY <1>3, <1>4, <1>5 DEF Basic

LEMMA BasicRenamed ==
    ASSUME Basic, NEW a \in Agents, Renamed(a)
    PROVE  Basic'
<1>1. call[a].why = "rename" /\ UNCHANGED <<name, cache, log, lock, orphans, calls>>
  BY DEF Renamed
<1>2. CASE call[a].stage = "back"
  <2>1. call' \in [Agents -> Calls] /\ Alone(a) /\ call'[a].why = "verify" /\ call'[a].no = call[a].no
        /\ call'[a].fn = call[a].fn /\ call'[a].want = call[a].want /\ call'[a].stage = "lookup"
    BY <1>2, RenamedMoves, BasicFacts
  <2>2. Shape'
    <3>1. Shapely(call'[a], calls')
      BY <1>1, <2>1, BasicFacts DEF Shapely
    <3> QED
      BY <1>1, <2>1, <3>1, BasicFacts, ShapeKept DEF Basic
  <2>3. Pool'
    BY <1>1, <2>1, NothingStarts DEF Basic
  <2>4. Types'
    BY <1>1, <2>1 DEF Basic, Types
  <2> QED
    BY <2>2, <2>3, <2>4 DEF Basic
<1>3. CASE call[a].stage # "back"
  <2>1. call' \in [Agents -> Calls] /\ Ends(a) /\ Shape' /\ Pool'
    BY <1>1, <1>3, BasicFinish DEF Renamed, At
  <2> QED
    BY <1>1, <2>1 DEF Basic, Types
<1> QED
  BY <1>2, <1>3

\* A verified call is recorded when it came back with the new name and its
\* pre-state was captured.
Recordable(a) == call[a].stage = "back" /\ call[a].got = call[a].want /\ call[a].old # None

LEMMA RecordIs ==
    ASSUME Basic, NEW a \in Agents, call[a].why = "verify", call[a].old # None
    PROVE  /\ Record(call[a]) \in Records /\ Record(call[a]).no = call[a].no /\ Record(call[a]).fn = call[a].fn
           /\ Record(call[a]).old = call[a].old /\ Record(call[a]).new = call[a].want
<1>1. call[a].no \in Nat /\ call[a].fn \in Addresses /\ call[a].old \in Names /\ call[a].want \in Names
  BY BasicFacts DEF Calls, Shapely
<1> QED
  BY <1>1 DEF Record, Records

LEMMA BasicVerified ==
    ASSUME Basic, NEW a \in Agents, Verified(a)
    PROVE  Basic'
<1>1. call[a].why = "verify" /\ UNCHANGED <<name, cache, lock, orphans, calls>>
  BY DEF Verified
<1>2. call' \in [Agents -> Calls] /\ Ends(a) /\ Shape' /\ Pool'
  BY <1>1, BasicFinish DEF Verified
<1>3. log' \in [Tabs -> Seq(Records)]
  <2>1. CASE Recordable(a)
    <3>1. Record(call[a]) \in Records
      BY <1>1, <2>1, RecordIs DEF Recordable
    <3> DEFINE s == Append(log[TabOf[a]], Record(call[a]))
    <3>2. log' = [log EXCEPT ![TabOf[a]] = s]
      BY <2>1 DEF Verified, Recordable, At
    <3>3. log \in [Tabs -> Seq(Records)] /\ log[TabOf[a]] \in Seq(Records)
      BY TabAssumption DEF Basic, Types
    <3>4. s \in Seq(Records)
      BY <3>1, <3>3
    <3> HIDE DEF s
    <3> QED
      BY <3>2, <3>3, <3>4
  <2>2. CASE ~Recordable(a)
    BY <2>2 DEF Verified, Recordable, At, Basic, Types
  <2> QED
    BY <2>1, <2>2
<1> QED
  BY <1>1, <1>2, <1>3 DEF Basic, Types

LEMMA BasicUndone ==
    ASSUME Basic, NEW a \in Agents, Undone(a)
    PROVE  Basic'
<1>1. call[a].why = "undo" /\ UNCHANGED <<name, cache, lock, orphans, calls>>
  BY DEF Undone
<1>2. call' \in [Agents -> Calls] /\ Ends(a) /\ Shape' /\ Pool'
  BY <1>1, BasicFinish DEF Undone
<1>3. log' \in [Tabs -> Seq(Records)]
  <2>1. log \in [Tabs -> Seq(Records)] /\ log[TabOf[a]] \in Seq(Records)
    BY TabAssumption DEF Basic, Types
  <2>2. DropRecord(log[TabOf[a]], call[a].undoing) \in Seq(Records)
    <3> DEFINE s == log[TabOf[a]]
               d == DropRecord(s, call[a].undoing)
    <3>1. s \in Seq(Records)
      BY <2>1
    <3> HIDE DEF s
    <3>2. d = s \/ \E k \in 1..Len(s) : d = RemoveAt(s, k)
      BY <3>1, DropIs
    <3>3. \A k \in 1..Len(s) : RemoveAt(s, k) \in Seq(Records)
      BY <3>1, RemoveAtIs
    <3> HIDE DEF d
    <3>4. d \in Seq(Records)
      BY <3>1, <3>2, <3>3
    <3> QED
      BY <3>4 DEF d, s
  <2>3. log' = [log EXCEPT ![TabOf[a]] = DropRecord(log[TabOf[a]], call[a].undoing)] \/ log' = log
    BY DEF Undone
  <2> QED
    BY <2>1, <2>2, <2>3
<1> QED
  BY <1>1, <1>2, <1>3 DEF Basic, Types

LEMMA BasicOrphanHandler ==
    ASSUME Basic, Left, NEW o \in orphans, OrphanHandler(o)
    PROVE  Basic'
<1>1. call' = call /\ orphans' \subseteq orphans /\ UNCHANGED <<cache, log, lock, calls>>
  BY DEF OrphanHandler, Effect
<1>2. name' \in [Addresses -> Names]
  BY DEF Basic, Types, OrphanHandler, Effect, Left
<1>3. Types'
  BY <1>1, <1>2 DEF Basic, Types
<1>4. Pool'
  BY <1>1, PoolShrinks DEF Basic, Running
<1>5. Shape'
  BY <1>1 DEF Basic, Shape
<1> QED
  BY <1>3, <1>4, <1>5 DEF Basic

\* Every step keeps the types, the pool and the shapes.
LEMMA BasicKept ==
    ASSUME Basic, Left, [Next]_vars
    PROVE  Basic'
<1>1. CASE UNCHANGED vars
  BY <1>1 DEF vars, Basic, Types, Pool, FinitePool, Running, Shape
<1>2. ASSUME NEW o \in orphans, OrphanHandler(o)
      PROVE  Basic'
  BY <1>2, BasicOrphanHandler
<1>3. ASSUME NEW a \in Agents, (\E f \in Touches[a] : Read(a, f)) \/ (\E f \in Touches[a], n \in Names : Rename(a, f, n)) \/ Undo(a)
      PROVE  Basic'
  BY <1>3, BasicAsk
<1>4. ASSUME NEW a \in Agents, TakeLock(a) \/ StartJob(a) \/ Handler(a)
      PROVE  Basic'
  BY <1>4, BasicTakeLock, BasicStartJob, BasicHandler
<1>5. ASSUME NEW a \in Agents, Progress(a)
      PROVE  Basic'
  BY <1>5, BasicLookup, BasicStore, BasicRelease, BasicInvalidate, BasicTimeOut,
     BasicReadDone, BasicCaptured, BasicRenamed, BasicVerified, BasicUndone DEF Progress
<1> QED
  BY <1>1, <1>2, <1>3, <1>4, <1>5 DEF Next

\* Only a timeout leaves a handler behind.
LEMMA LeftKept ==
    ASSUME Basic, Left, [Next]_vars
    PROVE  Left'
<1>1. CASE orphans' \subseteq orphans
  BY <1>1 DEF Left
<1>2. ASSUME NEW a \in Agents, TimeOut(a)
      PROVE  Left'
  <2>1. \A o \in orphans' : o \in orphans \/ o = call[a]
    BY <1>2 DEF TimeOut
  <2>2. Mutating(call[a]) => call[a].fn \in Addresses /\ call[a].want \in Names
    BY BasicFacts DEF Mutating, Shapely
  <2> QED
    BY <2>1, <2>2 DEF Left
<1>3. orphans' \subseteq orphans \/ \E a \in Agents : TimeOut(a)
  BY DEF Next, vars, Read, Rename, Undo, Ask, TakeLock, StartJob, Handler, OrphanHandler, Progress,
     Lookup, Store, Release, Invalidate, ReadDone, Captured, Renamed, Verified, Undone
<1> QED
  BY <1>1, <1>2, <1>3

LEMMA BasicAtFirst ==
    ASSUME Init
    PROVE  Basic /\ Left
<1>1. \A a \in Agents : call[a] = Idle
  BY DEF Init
<1>2. Idle \in Calls
  BY NamesAssumption DEF Idle, Calls, Whys, Stages
<1>3. Types
  BY <1>2, NamesAssumption, BoundsAssumption DEF Init, Types
<1>4. Running = {} /\ orphans = {}
  BY <1>1 DEF Running, Idle, Init
<1>5. Pool
  BY <1>4, FS_EmptySet, BoundsAssumption DEF Pool, FinitePool
<1>6. Shape
  BY <1>1 DEF Shape, Shapely, Idle
<1> QED
  BY <1>3, <1>4, <1>5, <1>6 DEF Basic, Left

\* The variables have their types, and the pool never runs more handlers than it
\* has workers: those of the agents that wait and those of the agents that a
\* timeout sent away (_executor, registry.py).
THEOREM TypeCorrect == Spec => []TypeOK
<1>1. Init => Basic /\ Left
  BY BasicAtFirst
<1>2. Basic /\ Left /\ [Next]_vars => (Basic /\ Left)'
  BY BasicKept, LeftKept
<1>3. Basic => TypeOK
  BY TypeParts DEF Basic
<1> QED
  BY <1>1, <1>2, <1>3, PTL DEF Spec

-----------------------------------------------------------------------------
(* What a step does to the stacks *)

LEMMA StackTypes ==
    ASSUME Types, NEW t \in Tabs
    PROVE  /\ log[t] \in Seq(Records) /\ DOMAIN log[t] = 1..Len(log[t]) /\ Len(log[t]) \in Nat
           /\ \A i \in DOMAIN log[t] : log[t][i] \in Records /\ log[t][i].no \in Nat /\ log[t][i].fn \in Addresses
                                      /\ log[t][i].old \in Names /\ log[t][i].new \in Names
<1>1. log[t] \in Seq(Records)
  BY DEF Types
<1>2. \A i \in DOMAIN log[t] : log[t][i] \in Records
  BY <1>1
<1>3. \A r \in Records : r.no \in Nat /\ r.fn \in Addresses /\ r.old \in Names /\ r.new \in Names
  BY DEF Records
<1> QED
  BY <1>1, <1>2, <1>3

\* A record is put on top of the stack of a tab.
Puts(tab, r) ==
    \E n \in Nat :
        /\ n \notin DOMAIN log[tab] /\ (\A i \in DOMAIN log[tab] : i < n)
        /\ DOMAIN log'[tab] = DOMAIN log[tab] \cup {n} /\ log'[tab][n] = r
        /\ \A i \in DOMAIN log[tab] : log'[tab][i] = log[tab][i]
        /\ \A t \in Tabs \ {tab} : log'[t] = log[t]

LEMMA AppendPuts ==
    ASSUME Types, NEW tab \in Tabs, NEW r \in Records, log' = [log EXCEPT ![tab] = Append(log[tab], r)]
    PROVE  Puts(tab, r)
<1> DEFINE s == log[tab]
           n == Len(s) + 1
<1>1. s \in Seq(Records) /\ DOMAIN s = 1..Len(s) /\ Len(s) \in Nat
  BY StackTypes
<1>2. log'[tab] = Append(s, r) /\ \A t \in Tabs \ {tab} : log'[t] = log[t]
  BY DEF Types
<1>3. Append(s, r) \in Seq(Records) /\ Len(Append(s, r)) = n /\ Append(s, r)[n] = r /\ \A i \in 1..Len(s) : Append(s, r)[i] = s[i]
  BY <1>1, AppendProperties
<1>4. DOMAIN Append(s, r) = DOMAIN s \cup {n} /\ n \notin DOMAIN s /\ n \in Nat /\ \A i \in DOMAIN s : i < n
  BY <1>1, <1>3
<1> QED
  BY <1>1, <1>2, <1>3, <1>4 DEF Puts

\* A record is taken out of the stack of a tab, from its k-th place; the ones
\* above it move one place down.
Place(tab, k, t, i) == IF t = tab /\ i >= k THEN i + 1 ELSE i

Takes(tab, k) ==
    /\ \A t \in Tabs : \A i \in DOMAIN log'[t] :
        /\ i \in Nat /\ Place(tab, k, t, i) \in DOMAIN log[t] /\ log'[t][i] = log[t][Place(tab, k, t, i)]
    /\ \A t \in Tabs : \A j \in DOMAIN log[t] : (t = tab /\ j = k) \/ \E i \in DOMAIN log'[t] : j = Place(tab, k, t, i)

LEMMA RemoveTakes ==
    ASSUME Types, NEW tab \in Tabs, NEW k \in DOMAIN log[tab], log' = [log EXCEPT ![tab] = RemoveAt(log[tab], k)]
    PROVE  Takes(tab, k)
<1> DEFINE s == log[tab]
           m == RemoveAt(s, k)
<1>1. s \in Seq(Records) /\ DOMAIN s = 1..Len(s) /\ Len(s) \in Nat /\ k \in 1..Len(s)
  BY StackTypes
<1>2. log'[tab] = m /\ \A t \in Tabs \ {tab} : log'[t] = log[t]
  BY DEF Types
<1>3. m \in Seq(Records) /\ Len(m) = Len(s) - 1 /\ \A i \in 1..(Len(s) - 1) : m[i] = IF i < k THEN s[i] ELSE s[i + 1]
  BY <1>1, RemoveAtIs
<1>4. DOMAIN m = 1..(Len(s) - 1)
  BY <1>3
<1> HIDE DEF m
<1>5. ASSUME NEW t \in Tabs, NEW i \in DOMAIN log'[t]
      PROVE  i \in Nat /\ Place(tab, k, t, i) \in DOMAIN log[t] /\ log'[t][i] = log[t][Place(tab, k, t, i)]
  <2>1. CASE t = tab
    BY <1>1, <1>2, <1>3, <1>4, <2>1 DEF Place
  <2>2. CASE t # tab
    BY <1>2, <2>2, StackTypes DEF Place
  <2> QED
    BY <2>1, <2>2
<1>6. ASSUME NEW t \in Tabs, NEW j \in DOMAIN log[t], ~(t = tab /\ j = k)
      PROVE  \E i \in DOMAIN log'[t] : j = Place(tab, k, t, i)
  <2>1. CASE t = tab /\ j < k
    <3>1. j \in DOMAIN log'[t] /\ j = Place(tab, k, t, j)
      BY <1>1, <1>2, <1>4, <2>1 DEF Place
    <3> QED
      BY <3>1
  <2>2. CASE t = tab /\ ~(j < k)
    <3>1. j \in 1..Len(s) /\ j # k
      BY <1>1, <1>6, <2>2
    <3>2. j - 1 \in 1..(Len(s) - 1) /\ j - 1 >= k /\ (j - 1) + 1 = j
      BY <1>1, <2>2, <3>1
    <3>3. j - 1 \in DOMAIN log'[t] /\ j = Place(tab, k, t, j - 1)
      BY <1>2, <1>4, <2>2, <3>2 DEF Place
    <3> QED
      BY <3>3
  <2>3. CASE t # tab
    BY <1>2, <2>3 DEF Place
  <2> QED
    BY <2>1, <2>2, <2>3
<1> QED
  BY <1>5, <1>6 DEF Takes

\* Two places below are two places above, and neither is the one that went.
LEMMA PlacesApart ==
    ASSUME NEW tab, NEW t, NEW k \in Nat, NEW i \in Nat, NEW j \in Nat
    PROVE  /\ Place(tab, k, t, i) = Place(tab, k, t, j) => i = j
           /\ i <= j <=> Place(tab, k, t, i) <= Place(tab, k, t, j)
           /\ t = tab => Place(tab, k, t, i) # k
BY DEF Place

-----------------------------------------------------------------------------
(* What the steps do, as far as the stacks can tell *)

\* The call goes on, with its number and function; what it is for changes only
\* on the way from a capture to the verification.  Only the handler of an /undo
\* reverses a record, and the call then concludes.
Goes(a) ==
    /\ Alone(a) /\ call'[a].no = call[a].no /\ call'[a].undoing = call[a].undoing /\ call'[a].fn = call[a].fn
    /\ call'[a].why = call[a].why \/ (call[a].why \in {"capture", "rename", "verify"} /\ call'[a].why \in {"capture", "rename", "verify"})
    /\ UNCHANGED <<log, recorded, calls>> /\ contested \subseteq contested'
    /\ call[a].why = "undo" /\ call[a].stage \in Conclusive => call'[a].stage \in Conclusive
    /\ call[a].why = "undo" /\ call'[a].stage \in Conclusive => call[a].stage \in Conclusive \/ call[a].undoing \in restored'
    /\ restored \subseteq restored'
    /\ \A n \in restored' \ restored : call[a].why = "undo" /\ n = call[a].undoing /\ call'[a].stage \in Conclusive
    /\ \A o \in orphans' \ orphans : o = call[a] /\ (Mutating(o) => o.fn \in contested')

\* The call ends and leaves the stacks alone: no reverse of it took effect.
Leaves(a) ==
    /\ Ends(a) /\ UNCHANGED <<log, recorded, restored, calls, contested, orphans>>
    /\ ~(call[a].why = "undo" /\ call[a].stage \in Conclusive)

\* A verified rename ends and is recorded.
Recorded(a) ==
    /\ Ends(a) /\ call[a].why = "verify" /\ UNCHANGED <<restored, calls, contested, orphans>>
    /\ recorded' = recorded \cup {call[a].no} /\ Puts(TabOf[a], Record(call[a]))
    /\ Record(call[a]).no = call[a].no /\ Record(call[a]).fn = call[a].fn
    /\ call[a].stage = "back" /\ call[a].got = call[a].want /\ call[a].old # None

\* An /undo ends, and its record goes if it is there still.
Unrecorded(a) ==
    /\ Ends(a) /\ call[a].why = "undo" /\ call[a].stage = "back" /\ UNCHANGED <<recorded, restored, calls, contested, orphans>>
    /\ \/ log' = log /\ \A i \in DOMAIN log[TabOf[a]] : log[TabOf[a]][i].no # call[a].undoing
       \/ \E k \in DOMAIN log[TabOf[a]] : log[TabOf[a]][k].no = call[a].undoing /\ Takes(TabOf[a], k)

LEMMA MovingGoes ==
    ASSUME Basic, NEW a \in Agents, TakeLock(a) \/ StartJob(a) \/ Store(a) \/ Release(a) \/ Invalidate(a)
    PROVE  Goes(a)
<1>1. UNCHANGED <<log, recorded, restored, calls, contested, orphans>>
  BY DEF TakeLock, StartJob, Store, Release, Invalidate, hist
<1>2. \E stage \in Stages : Stage(a, stage) /\ (call[a].stage \in Conclusive <=> stage \in Conclusive)
  BY DEF TakeLock, StartJob, Store, Release, Invalidate, At, Stages, Conclusive
<1>3. PICK stage \in Stages : Stage(a, stage) /\ (call[a].stage \in Conclusive <=> stage \in Conclusive)
  BY <1>2
<1>4. Moves(a, stage)
  BY <1>3, StageMoves, BasicFacts
<1> QED
  BY <1>1, <1>3, <1>4 DEF Goes, Moves

LEMMA LookupGoes ==
    ASSUME Basic, NEW a \in Agents, Lookup(a)
    PROVE  Goes(a)
<1>1. UNCHANGED <<log, recorded, restored, calls, contested, orphans>>
  BY DEF Lookup, hist
<1>2. call[a].stage = "lookup" /\ call[a].why # "undo" /\ call[a].fn \in Addresses
  BY BasicFacts DEF Lookup, At, Shapely
<1>3. Alone(a) /\ call'[a].no = call[a].no /\ call'[a].undoing = call[a].undoing /\ call'[a].fn = call[a].fn /\ call'[a].why = call[a].why
  BY <1>2, LookupMoves, BasicFacts
<1> QED
  BY <1>1, <1>2, <1>3 DEF Goes

LEMMA TimeOutGoes ==
    ASSUME Basic, NEW a \in Agents, TimeOut(a)
    PROVE  Goes(a)
<1>1. UNCHANGED <<log, recorded, restored, calls>> /\ contested \subseteq contested'
  BY DEF TimeOut, hist
<1>2. call[a].stage \notin Conclusive
  BY DEF TimeOut, Conclusive
<1>3. Moves(a, "failed")
  BY StageMoves, BasicFacts DEF TimeOut, Stages
<1>4. ASSUME NEW o \in orphans' \ orphans
      PROVE  o = call[a] /\ (Mutating(o) => o.fn \in contested')
  BY <1>4 DEF TimeOut, Doubtful, At
<1> QED
  BY <1>1, <1>2, <1>3, <1>4 DEF Goes, Moves, Conclusive

LEMMA HandlerGoes ==
    ASSUME Basic, NEW a \in Agents, Handler(a)
    PROVE  Goes(a)
<1>1. UNCHANGED <<log, recorded, calls, contested, orphans>>
      /\ restored' = restored \cup (IF call[a].why = "undo" THEN {call[a].undoing} ELSE {})
  BY DEF Handler, Effect
<1>2. call[a].stage = "running" /\ call[a].fn \in Addresses
  BY BasicFacts DEF Handler, At
<1>3. Alone(a) /\ call'[a].no = call[a].no /\ call'[a].undoing = call[a].undoing /\ call'[a].fn = call[a].fn
      /\ call'[a].why = call[a].why /\ call'[a].stage = "done"
  BY <1>2, HandlerMoves, BasicFacts
<1> QED
  BY <1>1, <1>2, <1>3 DEF Goes, Conclusive

LEMMA RenamingGoes ==
    ASSUME Basic, NEW a \in Agents, Captured(a) \/ Renamed(a)
    PROVE  Goes(a) \/ Leaves(a)
<1>1. UNCHANGED <<log, recorded, restored, calls, contested, orphans>> /\ call[a].why \in {"capture", "rename"}
  BY DEF Captured, Renamed, hist
<1>2. CASE Captured(a)
  <2>1. Alone(a) /\ call'[a].why = "rename" /\ call'[a].no = call[a].no /\ call'[a].undoing = call[a].undoing
        /\ call'[a].fn = call[a].fn
    BY <1>2, CapturedMoves, BasicFacts
  <2> QED
    BY <1>1, <2>1 DEF Goes
<1>3. CASE Renamed(a) /\ call[a].stage = "back"
  <2>1. Alone(a) /\ call'[a].why = "verify" /\ call'[a].no = call[a].no /\ call'[a].undoing = call[a].undoing
        /\ call'[a].fn = call[a].fn
    BY <1>3, RenamedMoves, BasicFacts
  <2> QED
    BY <1>1, <2>1 DEF Goes
<1>4. CASE Renamed(a) /\ call[a].stage # "back"
  <2>1. Ends(a)
    BY <1>4, FinishEnds, BasicFacts DEF Renamed, At
  <2> QED
    BY <1>1, <2>1 DEF Leaves
<1> QED
  BY <1>2, <1>3, <1>4

LEMMA ReadLeaves ==
    ASSUME Basic, NEW a \in Agents, ReadDone(a)
    PROVE  Leaves(a)
<1>1. Ends(a)
  BY FinishEnds, BasicFacts DEF ReadDone
<1> QED
  BY <1>1 DEF ReadDone, Leaves, hist

LEMMA VerifiedRecords ==
    ASSUME Basic, NEW a \in Agents, Verified(a)
    PROVE  Recorded(a) \/ Leaves(a)
<1>1. Ends(a) /\ call[a].why = "verify" /\ UNCHANGED <<restored, calls, contested, orphans>>
  BY FinishEnds, BasicFacts DEF Verified
<1>2. CASE Recordable(a)
  <2>1. Record(call[a]) \in Records /\ Record(call[a]).no = call[a].no /\ Record(call[a]).fn = call[a].fn
    BY <1>1, <1>2, RecordIs DEF Recordable
  <2>2. log' = [log EXCEPT ![TabOf[a]] = Append(log[TabOf[a]], Record(call[a]))] /\ recorded' = recorded \cup {call[a].no}
    BY <1>2 DEF Verified, Recordable, At
  <2>3. TabOf[a] \in Tabs /\ Types
    BY TabAssumption DEF Basic
  <2>4. Puts(TabOf[a], Record(call[a]))
    BY <2>1, <2>2, <2>3, AppendPuts
  <2> QED
    BY <1>1, <1>2, <2>1, <2>2, <2>4 DEF Recorded, Recordable
<1>3. CASE ~Recordable(a)
  <2>1. UNCHANGED <<log, recorded>>
    BY <1>3 DEF Verified, Recordable, At
  <2> QED
    BY <1>1, <2>1 DEF Leaves
<1> QED
  BY <1>2, <1>3

LEMMA UndoneDrops ==
    ASSUME Basic, NEW a \in Agents, Undone(a)
    PROVE  Unrecorded(a) \/ Leaves(a)
<1> DEFINE tab == TabOf[a]
           s == log[tab]
           no == call[a].undoing
<1>1. Ends(a) /\ call[a].why = "undo" /\ UNCHANGED <<recorded, restored, calls, contested, orphans>>
      /\ call[a].stage \in {"back", "failed"}
  BY FinishEnds, BasicFacts DEF Undone, Returned, hist
<1>2. CASE call[a].stage = "back"
  <2>1. log' = [log EXCEPT ![tab] = DropRecord(s, no)]
    BY <1>2 DEF Undone, At
  <2>2. tab \in Tabs /\ Types /\ log \in [Tabs -> Seq(Records)]
    BY TabAssumption DEF Basic, Types
  <2>3. s \in Seq(Records) /\ DOMAIN s = 1..Len(s)
    BY <2>2, StackTypes
  <2>4. CASE DropRecord(s, no) = s /\ \A i \in 1..Len(s) : s[i].no # no
    <3>1. log' = log
      BY <2>1, <2>2, <2>4
    <3> QED
      BY <1>1, <1>2, <2>3, <2>4, <3>1 DEF Unrecorded
  <2>5. CASE \E k \in 1..Len(s) : s[k].no = no /\ DropRecord(s, no) = RemoveAt(s, k)
    <3>1. PICK k \in 1..Len(s) : s[k].no = no /\ DropRecord(s, no) = RemoveAt(s, k)
      BY <2>5
    <3>2. k \in DOMAIN s /\ log' = [log EXCEPT ![tab] = RemoveAt(s, k)]
      BY <2>1, <2>3, <3>1
    <3>3. Takes(tab, k)
      BY <2>2, <3>2, RemoveTakes
    <3> QED
      BY <1>1, <1>2, <3>1, <3>2, <3>3 DEF Unrecorded
  <2> QED
    BY <2>3, <2>4, <2>5, DropIs
<1>3. CASE call[a].stage = "failed"
  <2>1. log' = log
    BY <1>3 DEF Undone, At
  <2> QED
    BY <1>1, <1>3, <2>1 DEF Leaves, Conclusive
<1> QED
  BY <1>1, <1>2, <1>3

\* A call begins: a read, a capture, or an /undo of a record of the tab.
Starts(a) ==
    /\ Alone(a) /\ call[a].stage = "idle" /\ calls' = calls + 1 /\ call'[a].no = calls + 1
    /\ call'[a].stage \in {"lookup", "lock"} /\ call'[a].why \in {"read", "capture", "undo"}
    /\ call'[a].why = "undo" => \E k \in DOMAIN log[TabOf[a]] :
            log[TabOf[a]][k].no = call'[a].undoing /\ log[TabOf[a]][k].fn = call'[a].fn
    /\ call'[a].why # "undo" => call'[a].fn \in Touches[a]
    /\ UNCHANGED <<log, recorded, restored, orphans>> /\ contested \subseteq contested'
    /\ \A b \in Agents \ {a} : call[b].fn = call'[a].fn /\ ~(call[b].why = "read" /\ call'[a].why = "read") =>
            call[b].fn \in contested'

LEMMA AskStarts ==
    ASSUME Basic, NEW a \in Agents, (\E f \in Touches[a] : Read(a, f)) \/ (\E f \in Touches[a], n \in Names : Rename(a, f, n)) \/ Undo(a)
    PROVE  Starts(a)
<1>0. TypeOK
  BY BasicFacts
<1>1. CASE \E f \in Touches[a] : Read(a, f)
  <2>1. PICK f \in Touches[a] : Begins(a, "read", "lookup", f, None, 0)
    BY <1>0, <1>1, ReadBegins
  <2> QED
    BY <2>1 DEF Begins, Starts, Conclusive, hist
<1>2. CASE \E f \in Touches[a], n \in Names : Rename(a, f, n)
  <2>1. PICK f \in Touches[a], n \in Names : Begins(a, "capture", "lookup", f, n, 0)
    BY <1>0, <1>2, RenameBegins
  <2> QED
    BY <2>1 DEF Begins, Starts, Conclusive, hist
<1>3. CASE Undo(a)
  <2>1. PICK k \in DOMAIN log[TabOf[a]] : Begins(a, "undo", "lock", log[TabOf[a]][k].fn, log[TabOf[a]][k].old, log[TabOf[a]][k].no)
    BY <1>0, <1>3, UndoBegins
  <2>2. call'[a].undoing = log[TabOf[a]][k].no /\ call'[a].fn = log[TabOf[a]][k].fn
    BY <2>1 DEF Begins
  <2> QED
    BY <2>1, <2>2 DEF Begins, Starts, Conclusive, hist
<1> QED
  BY <1>1, <1>2, <1>3

\* An orphan's handler: it may reverse the record its call was to reverse.
Orphaned(o) ==
    /\ UNCHANGED <<call, log, recorded, calls, contested>> /\ orphans' \subseteq orphans /\ restored \subseteq restored'
    /\ \A n \in restored' \ restored : o.why = "undo" /\ n = o.undoing

LEMMA OrphanActs ==
    ASSUME NEW o \in orphans, OrphanHandler(o)
    PROVE  Orphaned(o)
BY DEF OrphanHandler, Effect, Orphaned

\* The kinds of steps there are.
LEMMA StepKinds ==
    ASSUME Basic, [Next]_vars
    PROVE  \/ UNCHANGED <<call, log, recorded, restored, calls, contested, orphans>>
           \/ \E o \in orphans : Orphaned(o)
           \/ \E a \in Agents : Starts(a) \/ Goes(a) \/ Leaves(a) \/ Recorded(a) \/ Unrecorded(a)
<1>1. CASE UNCHANGED vars
  BY <1>1 DEF vars, hist
<1>2. ASSUME NEW o \in orphans, OrphanHandler(o)
      PROVE  Orphaned(o)
  BY <1>2, OrphanActs
<1>3. ASSUME NEW a \in Agents, (\E f \in Touches[a] : Read(a, f)) \/ (\E f \in Touches[a], n \in Names : Rename(a, f, n)) \/ Undo(a)
      PROVE  Starts(a)
  BY <1>3, AskStarts
<1>4. ASSUME NEW a \in Agents, TakeLock(a) \/ StartJob(a) \/ Handler(a)
      PROVE  Goes(a)
  BY <1>4, MovingGoes, HandlerGoes
<1>5. ASSUME NEW a \in Agents, Progress(a)
      PROVE  Goes(a) \/ Leaves(a) \/ Recorded(a) \/ Unrecorded(a)
  BY <1>5, LookupGoes, MovingGoes, TimeOutGoes, ReadLeaves, RenamingGoes, VerifiedRecords, UndoneDrops DEF Progress
<1> QED
  BY <1>1, <1>2, <1>3, <1>4, <1>5 DEF Next

-----------------------------------------------------------------------------
(* The numbers *)

LEMMA NumberedStarts ==
    ASSUME Basic, Numbered, NEW a \in Agents, Starts(a)
    PROVE  Numbered'
<1>1. calls \in Nat /\ calls' = calls + 1 /\ recorded' = recorded /\ log' = log /\ recorded \subseteq 1..calls
  BY BasicFacts DEF Starts, Numbered
<1>2. recorded' \subseteq 1..calls' /\ calls' \notin recorded'
  BY <1>1
<1>3. call'[a].no = calls' /\ \A b \in Agents \ {a} : call'[b] = call[b] /\ (call[b].why # "none" => call[b].no # calls')
  <2>1. ASSUME NEW b \in Agents \ {a}, call[b].why # "none"
        PROVE  call[b].no # calls'
    BY <1>1, <2>1, BasicFacts DEF Shapely
  <2> QED
    BY <1>1, <2>1 DEF Starts, Alone
<1>4. \A b, c \in Agents : b # c /\ call'[b].why # "none" /\ call'[c].why # "none" => call'[b].no # call'[c].no
  BY <1>3 DEF Numbered
<1>5. \A b \in Agents : call'[b].why \in {"capture", "rename", "verify"} => call'[b].no \notin recorded'
  BY <1>1, <1>2, <1>3 DEF Numbered
<1> QED
  BY <1>1, <1>2, <1>4, <1>5 DEF Numbered

LEMMA NumberedGoes ==
    ASSUME Basic, Numbered, NEW a \in Agents, Goes(a) \/ Leaves(a)
    PROVE  Numbered'
<1>1. recorded' = recorded /\ log' = log /\ calls' = calls
  BY DEF Goes, Leaves
<1>2. \A b \in Agents : /\ call'[b].why # "none" => call[b].why # "none" /\ call'[b].no = call[b].no
                        /\ call'[b].why \in {"capture", "rename", "verify"} => call[b].why \in {"capture", "rename", "verify"}
  BY DEF Goes, Leaves, Ends, Alone, Idle
<1>3. \A b, c \in Agents : b # c /\ call'[b].why # "none" /\ call'[c].why # "none" => call'[b].no # call'[c].no
  BY <1>2 DEF Numbered
<1>4. \A b \in Agents : call'[b].why \in {"capture", "rename", "verify"} => call'[b].no \notin recorded'
  BY <1>1, <1>2 DEF Numbered
<1> QED
  BY <1>1, <1>3, <1>4 DEF Numbered

LEMMA NumberedRecorded ==
    ASSUME Basic, Numbered, NEW a \in Agents, Recorded(a)
    PROVE  Numbered'
<1> DEFINE no == call[a].no
           tab == TabOf[a]
<1>1. recorded' = recorded \cup {no} /\ calls' = calls /\ no \in 1..calls /\ no \notin recorded /\ tab \in Tabs
  BY BasicFacts, TabAssumption DEF Recorded, Numbered, Shapely
<1>2. \A b \in Agents : call'[b].why # "none" => b # a /\ call'[b] = call[b]
  BY DEF Recorded, Ends, Alone, Idle
<1>3. \A b, c \in Agents : b # c /\ call'[b].why # "none" /\ call'[c].why # "none" => call'[b].no # call'[c].no
  BY <1>2 DEF Numbered
<1>4. \A b \in Agents : call'[b].why \in {"capture", "rename", "verify"} => call'[b].no \notin recorded'
  BY <1>1, <1>2 DEF Numbered, Recorded
<1>5. recorded' \subseteq 1..calls'
  BY <1>1 DEF Numbered
<1>6. PICK n \in Nat :
        /\ n \notin DOMAIN log[tab] /\ DOMAIN log'[tab] = DOMAIN log[tab] \cup {n} /\ log'[tab][n].no = no
        /\ \A i \in DOMAIN log[tab] : log'[tab][i] = log[tab][i]
        /\ \A t \in Tabs \ {tab} : log'[t] = log[t]
  BY DEF Recorded, Puts
<1>7. \A t \in Tabs : \A i \in DOMAIN log'[t] :
        (t = tab /\ i = n /\ log'[t][i].no = no) \/ (i \in DOMAIN log[t] /\ log'[t][i] = log[t][i] /\ log'[t][i].no \in recorded)
  <2>1. \A t \in Tabs : \A i \in DOMAIN log[t] : log[t][i].no \in recorded
    BY DEF Numbered
  <2> QED
    BY <1>6, <2>1
<1>8. ASSUME NEW t \in Tabs, NEW i \in DOMAIN log'[t]
      PROVE  /\ log'[t][i].no \in recorded'
             /\ \A u \in Tabs : \A j \in DOMAIN log'[u] : log'[t][i].no = log'[u][j].no => t = u /\ i = j
  <2>1. log'[t][i].no \in recorded'
    BY <1>1, <1>7
  <2>2. ASSUME NEW u \in Tabs, NEW j \in DOMAIN log'[u], log'[t][i].no = log'[u][j].no
        PROVE  t = u /\ i = j
    <3>1. CASE t = tab /\ i = n /\ log'[t][i].no = no
      BY <1>1, <1>7, <2>2, <3>1
    <3>2. CASE i \in DOMAIN log[t] /\ log'[t][i] = log[t][i] /\ log'[t][i].no \in recorded
      <4>1. j \in DOMAIN log[u] /\ log'[u][j] = log[u][j]
        BY <1>1, <1>7, <2>2, <3>2
      <4> QED
        BY <2>2, <3>2, <4>1 DEF Numbered
    <3> QED
      BY <1>7, <3>1, <3>2
  <2> QED
    BY <2>1, <2>2
<1> QED
  BY <1>3, <1>4, <1>5, <1>8 DEF Numbered

LEMMA NumberedUnrecorded ==
    ASSUME Basic, Numbered, NEW a \in Agents, Unrecorded(a)
    PROVE  Numbered'
<1>1. recorded' = recorded /\ calls' = calls /\ TabOf[a] \in Tabs
  BY TabAssumption DEF Unrecorded
<1>2. \A b \in Agents : call'[b].why # "none" => b # a /\ call'[b] = call[b]
  BY DEF Unrecorded, Ends, Alone, Idle
<1>3. \A b, c \in Agents : b # c /\ call'[b].why # "none" /\ call'[c].why # "none" => call'[b].no # call'[c].no
  BY <1>2 DEF Numbered
<1>4. \A b \in Agents : call'[b].why \in {"capture", "rename", "verify"} => call'[b].no \notin recorded'
  BY <1>1, <1>2 DEF Numbered
<1>5. \A t \in Tabs : \A i \in DOMAIN log'[t] :
        /\ log'[t][i].no \in recorded'
        /\ \A u \in Tabs : \A j \in DOMAIN log'[u] : log'[t][i].no = log'[u][j].no => t = u /\ i = j
  <2>1. CASE log' = log
    BY <1>1, <2>1 DEF Numbered
  <2>2. ASSUME NEW k \in DOMAIN log[TabOf[a]], Takes(TabOf[a], k)
        PROVE  \A t \in Tabs : \A i \in DOMAIN log'[t] :
                 /\ log'[t][i].no \in recorded'
                 /\ \A u \in Tabs : \A j \in DOMAIN log'[u] : log'[t][i].no = log'[u][j].no => t = u /\ i = j
    <3> DEFINE at(t, i) == Place(TabOf[a], k, t, i)
    <3>1. k \in Nat
      BY <1>1, StackTypes DEF Basic
    <3>2. \A t \in Tabs : \A i \in DOMAIN log'[t] : i \in Nat /\ at(t, i) \in DOMAIN log[t] /\ log'[t][i] = log[t][at(t, i)]
      BY <2>2 DEF Takes
    <3>3. \A t \in Tabs : \A i, j \in DOMAIN log'[t] : at(t, i) = at(t, j) => i = j
      BY <3>1, <3>2, PlacesApart
    <3> HIDE DEF at
    <3> QED
      BY <1>1, <3>2, <3>3 DEF Numbered
  <2> QED
    BY <2>1, <2>2 DEF Unrecorded
<1> QED
  BY <1>1, <1>3, <1>4, <1>5 DEF Numbered

-----------------------------------------------------------------------------
(* What an /undo is about *)

LEMMA MeaningStarts ==
    ASSUME Basic, Numbered, UndoMeaning, NEW a \in Agents, Starts(a)
    PROVE  UndoMeaning'
<1>1. log' = log /\ recorded' = recorded /\ orphans' = orphans /\ contested \subseteq contested' /\ TabOf[a] \in Tabs
  BY TabAssumption DEF Starts
<1>2. Reverses(call[a], {TabOf[a]})'
  <2>1. SUFFICES ASSUME call'[a].why = "undo"
                 PROVE  Reverses(call'[a], {TabOf[a]})
    BY <1>1 DEF Reverses
  <2>2. PICK k \in DOMAIN log[TabOf[a]] : log[TabOf[a]][k].no = call'[a].undoing /\ log[TabOf[a]][k].fn = call'[a].fn
    BY <2>1 DEF Starts
  <2>3. call'[a].undoing \in recorded
    BY <1>1, <2>2 DEF Numbered
  <2>4. \A t \in Tabs : \A i \in DOMAIN log[t] : log[t][i].no = call'[a].undoing => t = TabOf[a] /\ i = k
    BY <1>1, <2>2 DEF Numbered
  <2> QED
    BY <2>2, <2>3, <2>4 DEF Reverses
<1>3. ASSUME NEW b \in Agents, b # a
      PROVE  Reverses(call[b], {TabOf[b]})'
  BY <1>1, <1>3 DEF Reverses, UndoMeaning, Starts, Alone
<1>4. \A o \in orphans' : Reverses(o, Tabs)' /\ (Mutating(o) => o.fn \in contested')
  BY <1>1 DEF Reverses, UndoMeaning
<1> QED
  BY <1>2, <1>3, <1>4 DEF UndoMeaning

LEMMA MeaningGoes ==
    ASSUME Basic, UndoMeaning, NEW a \in Agents, Goes(a) \/ Leaves(a)
    PROVE  UndoMeaning'
<1>1. log' = log /\ recorded' = recorded /\ contested \subseteq contested' /\ TabOf[a] \in Tabs
  BY TabAssumption DEF Goes, Leaves
<1>2. ASSUME NEW b \in Agents
      PROVE  Reverses(call[b], {TabOf[b]})'
  <2>1. call'[b].why = "undo" => call[b].why = "undo" /\ call'[b].undoing = call[b].undoing /\ call'[b].fn = call[b].fn
    BY DEF Goes, Leaves, Ends, Alone, Idle
  <2> QED
    BY <1>1, <2>1 DEF Reverses, UndoMeaning
<1>3. ASSUME NEW o \in orphans'
      PROVE  Reverses(o, Tabs)' /\ (Mutating(o) => o.fn \in contested')
  <2>1. CASE o \in orphans
    BY <1>1, <2>1 DEF Reverses, UndoMeaning
  <2>2. CASE o \notin orphans
    <3>1. o = call[a] /\ (Mutating(o) => o.fn \in contested')
      BY <2>2 DEF Goes, Leaves
    <3>2. Reverses(call[a], Tabs)
      BY <1>1 DEF UndoMeaning, Reverses
    <3> QED
      BY <1>1, <3>1, <3>2 DEF Reverses
  <2> QED
    BY <2>1, <2>2
<1> QED
  BY <1>2, <1>3 DEF UndoMeaning

\* Records that come later have another number, and records that go leave the
\* others as they are.
LEMMA MeaningKept ==
    ASSUME Basic, UndoMeaning, recorded \subseteq recorded', orphans' \subseteq orphans, contested' = contested,
           \A b \in Agents : call'[b].why = "undo" => call'[b] = call[b],
           \A t \in Tabs : \A i \in DOMAIN log'[t] :
               log'[t][i].no \notin recorded \/ \E j \in DOMAIN log[t] : log'[t][i] = log[t][j]
    PROVE  UndoMeaning'
<1>1. ASSUME NEW c, NEW tabs, Reverses(c, tabs)
      PROVE  Reverses(c, tabs)'
  <2>1. SUFFICES ASSUME c.why = "undo"
                 PROVE  /\ c.undoing \in recorded'
                        /\ \A t \in Tabs : \A i \in DOMAIN log'[t] : log'[t][i].no = c.undoing => t \in tabs /\ log'[t][i].fn = c.fn
    BY DEF Reverses
  <2>2. c.undoing \in recorded /\ \A t \in Tabs : \A j \in DOMAIN log[t] : log[t][j].no = c.undoing => t \in tabs /\ log[t][j].fn = c.fn
    BY <1>1, <2>1 DEF Reverses
  <2>3. ASSUME NEW t \in Tabs, NEW i \in DOMAIN log'[t], log'[t][i].no = c.undoing
        PROVE  t \in tabs /\ log'[t][i].fn = c.fn
    <3>1. PICK j \in DOMAIN log[t] : log'[t][i] = log[t][j]
      BY <2>2, <2>3
    <3> QED
      BY <2>2, <2>3, <3>1
  <2> QED
    BY <2>2, <2>3
<1>2. ASSUME NEW b \in Agents
      PROVE  Reverses(call[b], {TabOf[b]})'
  <2>1. Reverses(call[b], {TabOf[b]})
    BY DEF UndoMeaning
  <2>2. CASE call'[b].why = "undo"
    <3>1. call'[b] = call[b]
      BY <2>2
    <3>2. \A c : c = call[b] => Reverses(c, {TabOf[b]})'
      BY <1>1, <2>1
    <3> QED
      BY <3>1, <3>2 DEF Reverses
  <2>3. CASE call'[b].why # "undo"
    BY <2>3 DEF Reverses
  <2> QED
    BY <2>2, <2>3
<1>3. \A o \in orphans' : Reverses(o, Tabs)' /\ (Mutating(o) => o.fn \in contested')
  BY <1>1 DEF UndoMeaning
<1> QED
  BY <1>2, <1>3 DEF UndoMeaning

LEMMA MeaningRecorded ==
    ASSUME Basic, Numbered, UndoMeaning, NEW a \in Agents, Recorded(a) \/ Unrecorded(a)
    PROVE  UndoMeaning'
<1>1. recorded \subseteq recorded' /\ orphans' \subseteq orphans /\ contested' = contested
  BY DEF Recorded, Unrecorded
<1>2. \A b \in Agents : call'[b].why = "undo" => call'[b] = call[b]
  BY DEF Recorded, Unrecorded, Ends, Alone, Idle
<1>3. \A t \in Tabs : \A i \in DOMAIN log'[t] :
               log'[t][i].no \notin recorded \/ \E j \in DOMAIN log[t] : log'[t][i] = log[t][j]
  <2>1. CASE Recorded(a)
    <3>1. call[a].no \notin recorded
      BY <2>1 DEF Recorded, Numbered
    <3> QED
      BY <2>1, <3>1 DEF Recorded, Puts
  <2>2. CASE Unrecorded(a)
    BY <2>2 DEF Unrecorded, Takes
  <2> QED
    BY <2>1, <2>2
<1> QED
  BY <1>1, <1>2, <1>3, MeaningKept

LEMMA MeaningOrphaned ==
    ASSUME Basic, UndoMeaning, NEW o \in orphans, Orphaned(o)
    PROVE  UndoMeaning'
BY MeaningKept DEF Orphaned

-----------------------------------------------------------------------------
(* The records whose reverse ran *)

LEMMA SettledStarts ==
    ASSUME Basic, Settled, NEW a \in Agents, Starts(a)
    PROVE  Settled'
<1>1. log' = log /\ recorded' = recorded /\ restored' = restored /\ contested \subseteq contested'
  BY DEF Starts
<1>2. \A b \in Agents : b # a => call'[b] = call[b]
  BY DEF Starts, Alone
<1>3. call[a].stage \notin Conclusive /\ call'[a].stage \notin Conclusive
  BY DEF Starts, Conclusive
<1>4. \A b \in Agents : call[b].stage \in Conclusive \/ call'[b].stage \in Conclusive => call'[b] = call[b]
  BY <1>2, <1>3
<1> QED
  BY <1>1, <1>4 DEF Settled

LEMMA SettledGoes ==
    ASSUME Basic, Settled, UndoMeaning, NEW a \in Agents, Goes(a)
    PROVE  Settled'
<1>1. log' = log /\ recorded' = recorded /\ restored \subseteq restored' /\ contested \subseteq contested'
  BY DEF Goes
<1>2. restored' \subseteq recorded'
  <2>1. call[a].why = "undo" => call[a].undoing \in recorded
    BY DEF UndoMeaning, Reverses
  <2> QED
    BY <1>1, <2>1 DEF Goes, Settled
<1>3. \A n \in recorded' : n \in restored' \/ \E t \in Tabs : \E i \in DOMAIN log'[t] : log'[t][i].no = n
  BY <1>1 DEF Settled
<1>4. ASSUME NEW b \in Agents, call'[b].why = "undo", call'[b].stage \in Conclusive
      PROVE  call'[b].undoing \in restored'
  <2>1. CASE b = a
    BY <1>1, <1>4, <2>1 DEF Goes, Settled
  <2>2. CASE b # a
    BY <1>1, <1>4, <2>2 DEF Goes, Alone, Settled
  <2> QED
    BY <2>1, <2>2
<1>5. ASSUME NEW t \in Tabs, NEW i \in DOMAIN log'[t], log'[t][i].no \in restored', log'[t][i].fn \notin contested'
      PROVE  \E b \in Agents : call'[b].why = "undo" /\ call'[b].stage \in Conclusive /\ call'[b].undoing = log'[t][i].no
  <2>1. CASE log'[t][i].no \in restored
    <3>1. PICK b \in Agents : call[b].why = "undo" /\ call[b].stage \in Conclusive /\ call[b].undoing = log[t][i].no
      BY <1>1, <1>5, <2>1 DEF Settled
    <3>2. call'[b].why = "undo" /\ call'[b].stage \in Conclusive /\ call'[b].undoing = call[b].undoing
      BY <3>1 DEF Goes, Alone
    <3> QED
      BY <1>1, <3>1, <3>2
  <2>2. CASE log'[t][i].no \notin restored
    BY <1>5, <2>2 DEF Goes
  <2> QED
    BY <2>1, <2>2
<1> QED
  BY <1>2, <1>3, <1>4, <1>5 DEF Settled

LEMMA SettledLeaves ==
    ASSUME Basic, Settled, NEW a \in Agents, Leaves(a)
    PROVE  Settled'
<1>1. UNCHANGED <<log, recorded, restored, contested>>
  BY DEF Leaves
<1>2. \A b \in Agents : b # a => call'[b] = call[b]
  BY DEF Leaves, Ends, Alone
<1>3. ~(call[a].why = "undo" /\ call[a].stage \in Conclusive) /\ call'[a].why # "undo"
  BY DEF Leaves, Ends, Idle
<1> QED
  BY <1>1, <1>2, <1>3 DEF Settled

LEMMA SettledRecorded ==
    ASSUME Basic, Numbered, Settled, NEW a \in Agents, Recorded(a)
    PROVE  Settled'
<1> DEFINE no == call[a].no
           tab == TabOf[a]
<1>1. restored' = restored /\ contested' = contested /\ recorded' = recorded \cup {no} /\ no \notin recorded /\ tab \in Tabs
  BY TabAssumption DEF Recorded, Numbered
<1>2. \A b \in Agents : call[b].why = "undo" \/ call'[b].why = "undo" => call'[b] = call[b]
  BY DEF Recorded, Ends, Alone, Idle
<1>3. PICK n \in Nat :
        /\ n \notin DOMAIN log[tab] /\ DOMAIN log'[tab] = DOMAIN log[tab] \cup {n} /\ log'[tab][n].no = no
        /\ \A i \in DOMAIN log[tab] : log'[tab][i] = log[tab][i]
        /\ \A t \in Tabs \ {tab} : log'[t] = log[t]
  BY DEF Recorded, Puts
<1> HIDE DEF no, tab
<1>4. \A t \in Tabs : \A i \in DOMAIN log'[t] : log'[t][i].no = no \/ (i \in DOMAIN log[t] /\ log'[t][i] = log[t][i])
  BY <1>3
<1>5. \A t \in Tabs : \A i \in DOMAIN log[t] : i \in DOMAIN log'[t] /\ log'[t][i] = log[t][i]
  BY <1>3
<1>6. restored' \subseteq recorded' /\ no \notin restored
  BY <1>1 DEF Settled
<1>7. \A m \in recorded' : m \in restored' \/ \E t \in Tabs : \E i \in DOMAIN log'[t] : log'[t][i].no = m
  <2>1. \E i \in DOMAIN log'[tab] : log'[tab][i].no = no
    BY <1>3
  <2>2. \A m \in recorded : m \in restored' \/ \E t \in Tabs : \E i \in DOMAIN log'[t] : log'[t][i].no = m
    BY <1>1, <1>5 DEF Settled
  <2> QED
    BY <1>1, <2>1, <2>2
<1>8. \A b \in Agents : call'[b].why = "undo" /\ call'[b].stage \in Conclusive => call'[b].undoing \in restored'
  BY <1>1, <1>2 DEF Settled
<1>9. \A t \in Tabs : \A i \in DOMAIN log'[t] : log'[t][i].no \in restored' /\ log'[t][i].fn \notin contested' =>
        \E b \in Agents : call'[b].why = "undo" /\ call'[b].stage \in Conclusive /\ call'[b].undoing = log'[t][i].no
  BY <1>1, <1>2, <1>4, <1>6 DEF Settled
<1> QED
  BY <1>6, <1>7, <1>8, <1>9 DEF Settled

LEMMA SettledUnrecorded ==
    ASSUME Basic, Numbered, UndoMeaning, Settled, NEW a \in Agents, Unrecorded(a)
    PROVE  Settled'
<1> DEFINE no == call[a].undoing
           tab == TabOf[a]
<1>1. restored' = restored /\ contested' = contested /\ recorded' = recorded /\ tab \in Tabs /\ no \in restored
  BY TabAssumption DEF Unrecorded, Settled, Conclusive
<1>2. \A b \in Agents : b # a => call'[b] = call[b]
  BY DEF Unrecorded, Ends, Alone
<1>3. call'[a].why # "undo"
  BY DEF Unrecorded, Ends, Idle
<1> HIDE DEF no
<1>4. \A t \in Tabs : \A j \in DOMAIN log[t] : log[t][j].no = no \/ \E i \in DOMAIN log'[t] : log'[t][i] = log[t][j]
  BY DEF Unrecorded, Takes, no
<1>5. \A t \in Tabs : \A i \in DOMAIN log'[t] : \E j \in DOMAIN log[t] : log'[t][i] = log[t][j] /\ log[t][j].no # no
  <2>1. CASE log' = log /\ \A i \in DOMAIN log[tab] : log[tab][i].no # no
    <3>1. \A t \in Tabs : \A i \in DOMAIN log[t] : log[t][i].no = no => t = tab
      BY DEF UndoMeaning, Reverses, Unrecorded, no
    <3> QED
      BY <2>1, <3>1
  <2>2. ASSUME NEW k \in DOMAIN log[tab], log[tab][k].no = no, Takes(tab, k)
        PROVE  \A t \in Tabs : \A i \in DOMAIN log'[t] : \E j \in DOMAIN log[t] : log'[t][i] = log[t][j] /\ log[t][j].no # no
    <3>1. SUFFICES ASSUME NEW t \in Tabs, NEW i \in DOMAIN log'[t]
                   PROVE  \E j \in DOMAIN log[t] : log'[t][i] = log[t][j] /\ log[t][j].no # no
      OBVIOUS
    <3> DEFINE j == Place(tab, k, t, i)
    <3>2. j \in DOMAIN log[t] /\ log'[t][i] = log[t][j] /\ i \in Nat
      BY <2>2 DEF Takes
    <3>3. k \in Nat
      BY <1>1, StackTypes DEF Basic
    <3>4. t = tab => j # k
      BY <3>2, <3>3, PlacesApart
    <3> HIDE DEF j
    <3>5. log[t][j].no # no
      BY <1>1, <2>2, <3>2, <3>4 DEF Numbered
    <3> QED
      BY <3>2, <3>5
  <2> QED
    BY <2>1, <2>2 DEF Unrecorded, no
<1> HIDE DEF tab
<1>6. \A m \in recorded' : m \in restored' \/ \E t \in Tabs : \E i \in DOMAIN log'[t] : log'[t][i].no = m
  BY <1>1, <1>4 DEF Settled
<1>7. \A b \in Agents : call'[b].why = "undo" /\ call'[b].stage \in Conclusive => call'[b].undoing \in restored'
  BY <1>1, <1>2, <1>3 DEF Settled
<1>8. ASSUME NEW t \in Tabs, NEW i \in DOMAIN log'[t], log'[t][i].no \in restored', log'[t][i].fn \notin contested'
      PROVE  \E b \in Agents : call'[b].why = "undo" /\ call'[b].stage \in Conclusive /\ call'[b].undoing = log'[t][i].no
  <2>1. PICK j \in DOMAIN log[t] : log'[t][i] = log[t][j] /\ log[t][j].no # no
    BY <1>5
  <2>2. PICK b \in Agents : call[b].why = "undo" /\ call[b].stage \in Conclusive /\ call[b].undoing = log[t][j].no
    BY <1>1, <1>8, <2>1 DEF Settled
  <2>3. b # a
    BY <2>1, <2>2 DEF no
  <2> QED
    BY <1>2, <2>1, <2>2, <2>3
<1> QED
  BY <1>1, <1>6, <1>7, <1>8 DEF Settled

LEMMA SettledOrphaned ==
    ASSUME Basic, UndoMeaning, Settled, NEW o \in orphans, Orphaned(o)
    PROVE  Settled'
<1>1. UNCHANGED <<call, log, recorded, contested>> /\ restored \subseteq restored'
  BY DEF Orphaned
<1>2. \A n \in restored' \ restored : n \in recorded /\
        \A t \in Tabs : \A i \in DOMAIN log[t] : log[t][i].no = n => log[t][i].fn \in contested
  BY DEF Orphaned, UndoMeaning, Reverses, Mutating
<1> QED
  BY <1>1, <1>2 DEF Settled

-----------------------------------------------------------------------------
(* The stacks stay exact *)

LEMMA StackAtFirst ==
    ASSUME Init
    PROVE  StackInv
<1>1. \A a \in Agents : call[a].why = "none"
  BY DEF Init, Idle
<1>2. orphans = {} /\ recorded = {} /\ restored = {} /\ \A t \in Tabs : DOMAIN log[t] = {}
  BY DEF Init
<1>3. Numbered
  BY <1>1, <1>2 DEF Numbered
<1>4. UndoMeaning
  BY <1>1, <1>2 DEF UndoMeaning, Reverses
<1>5. Settled
  BY <1>1, <1>2 DEF Settled
<1> QED
  BY <1>3, <1>4, <1>5, BasicAtFirst DEF StackInv

LEMMA StackKept ==
    ASSUME StackInv, [Next]_vars
    PROVE  StackInv'
<1>1. Basic' /\ Left'
  BY BasicKept, LeftKept DEF StackInv
<1>2. Basic /\ Numbered /\ UndoMeaning /\ Settled
  BY DEF StackInv
<1>3. CASE UNCHANGED <<call, log, recorded, restored, calls, contested, orphans>>
  BY <1>1, <1>2, <1>3 DEF StackInv, Numbered, UndoMeaning, Reverses, Settled
<1>4. ASSUME NEW o \in orphans, Orphaned(o)
      PROVE  StackInv'
  <2>1. Numbered'
    BY <1>2, <1>4 DEF Orphaned, Numbered
  <2> QED
    BY <1>1, <1>2, <1>4, <2>1, MeaningOrphaned, SettledOrphaned DEF StackInv
<1>5. ASSUME NEW a \in Agents, Starts(a)
      PROVE  StackInv'
  BY <1>1, <1>2, <1>5, NumberedStarts, MeaningStarts, SettledStarts DEF StackInv
<1>6. ASSUME NEW a \in Agents, Goes(a) \/ Leaves(a)
      PROVE  StackInv'
  BY <1>1, <1>2, <1>6, NumberedGoes, MeaningGoes, SettledGoes, SettledLeaves DEF StackInv
<1>7. ASSUME NEW a \in Agents, Recorded(a)
      PROVE  StackInv'
  BY <1>1, <1>2, <1>7, NumberedRecorded, MeaningRecorded, SettledRecorded DEF StackInv
<1>8. ASSUME NEW a \in Agents, Unrecorded(a)
      PROVE  StackInv'
  BY <1>1, <1>2, <1>8, NumberedUnrecorded, MeaningRecorded, SettledUnrecorded DEF StackInv
<1> QED
  BY <1>2, <1>3, <1>4, <1>5, <1>6, <1>7, <1>8, StepKinds

LEMMA StackSays ==
    ASSUME StackInv
    PROVE  StackIsExact
<1>1. \A t \in Tabs : Range(log[t]) = {log[t][i] : i \in DOMAIN log[t]}
  BY DEF Range
<1>2. \A r : r \in OnStack <=> \E t \in Tabs : \E i \in DOMAIN log[t] : r = log[t][i]
  BY <1>1 DEF OnStack
<1>3. ASSUME NEW n \in recorded, n \notin {r.no : r \in OnStack}
      PROVE  n \in restored
  <2>1. \A t \in Tabs : \A i \in DOMAIN log[t] : log[t][i].no # n
    BY <1>2, <1>3
  <2> QED
    BY <2>1 DEF StackInv, Settled
<1>4. ASSUME NEW r \in OnStack, r.no \in restored, r.fn \notin contested
      PROVE  \E a \in Agents : call[a].why = "undo" /\ call[a].undoing = r.no
  <2>1. \E t \in Tabs : \E i \in DOMAIN log[t] : r = log[t][i]
    BY <1>2
  <2> QED
    BY <1>4, <2>1 DEF StackInv, Settled
<1> QED
  BY <1>3, <1>4 DEF StackIsExact

\* A record leaves an undo stack only when its reverse ran, whatever other agents
\* of the tab put on the stack between the peek at it and its end
\* (_drop_record(), loop_commands.py); one whose reverse ran goes with that call.
THEOREM StackStaysExact == Spec => []StackIsExact
<1>1. Init => StackInv
  BY StackAtFirst
<1>2. StackInv /\ [Next]_vars => StackInv'
  BY StackKept
<1>3. StackInv => StackIsExact
  BY StackSays
<1> QED
  BY <1>1, <1>2, <1>3, PTL DEF Spec

-----------------------------------------------------------------------------
(* The cache is fresh *)

LEMMA ApartnessKept ==
    ASSUME Basic, Apartness, [Next]_vars
    PROVE  Apartness'
<1>1. CASE UNCHANGED <<call, log, recorded, restored, calls, contested, orphans>>
  BY <1>1 DEF Apartness
<1>2. ASSUME NEW o \in orphans, Orphaned(o)
      PROVE  Apartness'
  BY <1>2 DEF Apartness, Orphaned
<1>3. ASSUME NEW a \in Agents, Starts(a)
      PROVE  Apartness'
  <2>1. \A b \in Agents \ {a} : call'[b] = call[b]
    BY <1>3 DEF Starts, Alone
  <2>2. contested \subseteq contested'
    BY <1>3 DEF Starts
  <2>3. \A b \in Agents \ {a} : call[b].fn = call'[a].fn =>
          (call[b].why = "read" /\ call'[a].why = "read") \/ call[b].fn \in contested'
    BY <1>3 DEF Starts
  <2> QED
    BY <2>1, <2>2, <2>3 DEF Apartness
<1>4. ASSUME NEW a \in Agents, Goes(a)
      PROVE  Apartness'
  <2>1. \A b \in Agents : call'[b].fn = call[b].fn /\ (call[b].why = "read" => call'[b].why = "read")
    BY <1>4 DEF Goes, Alone
  <2>2. contested \subseteq contested'
    BY <1>4 DEF Goes
  <2> QED
    BY <2>1, <2>2 DEF Apartness
<1>5. ASSUME NEW a \in Agents, Leaves(a) \/ Recorded(a) \/ Unrecorded(a)
      PROVE  Apartness'
  <2>1. Ends(a) /\ contested' = contested
    BY <1>5 DEF Leaves, Recorded, Unrecorded
  <2>2. call'[a].fn = None /\ \A b \in Agents \ {a} : call'[b] = call[b]
    BY <2>1 DEF Ends, Idle, Alone
  <2> QED
    BY <2>1, <2>2 DEF Apartness
<1> QED
  BY <1>1, <1>2, <1>3, <1>4, <1>5, StepKinds

\* Nothing that the cache is about changes.
Quiet ==
    /\ UNCHANGED <<name, cache>> /\ contested \subseteq contested'
    /\ \A b \in Agents, f \in Addresses :
        /\ Settles(b, f) => Settles(b, f)'
        /\ Holds(b, f)' => Holds(b, f) /\ call'[b].got = call[b].got

LEMMA FreshQuiet ==
    ASSUME Fresh, Quiet
    PROVE  Fresh'
<1>1. \A g \in Registries, f \in Addresses : cache'[g][f] # None => \E a \in Agents : RegistryOf[a] = g
  BY DEF Fresh, Quiet
<1>2. ASSUME NEW f \in Addresses \ contested'
      PROVE  /\ (\E a \in Agents : Settles(a, f)') \/ \A g \in Registries : cache'[g][f] \in {None, name'[f]}
             /\ \A a \in Agents : Holds(a, f)' => call'[a].got = name'[f]
  BY DEF Fresh, Quiet
<1> QED
  BY <1>1, <1>2 DEF Fresh

\* A step of one agent, whose call was not settling and does not hold a name
\* that it did not hold before.
LEMMA QuietStep ==
    ASSUME NEW a \in Agents, Alone(a), UNCHANGED <<name, cache>>, contested \subseteq contested',
           \A f \in Addresses : /\ Settles(a, f) => Settles(a, f)'
                                /\ Holds(a, f)' => Holds(a, f) /\ call'[a].got = call[a].got
    PROVE  Quiet
BY DEF Alone, Quiet, Settles, Holds

LEMMA FreshAsk ==
    ASSUME Basic, Fresh, NEW a \in Agents, (\E f \in Touches[a] : Read(a, f)) \/ (\E f \in Touches[a], n \in Names : Rename(a, f, n)) \/ Undo(a)
    PROVE  Fresh'
<1>1. Starts(a)
  BY AskStarts
<1>2. UNCHANGED <<name, cache>>
  BY DEF Read, Rename, Undo, Ask
<1>3. call[a].stage = "idle" /\ call'[a].stage \notin {"done", "back"} /\ Alone(a) /\ contested \subseteq contested'
  BY <1>1 DEF Starts, Conclusive
<1> QED
  BY <1>2, <1>3, QuietStep, FreshQuiet DEF Settles, Holds

LEMMA FreshMoves ==
    ASSUME Basic, Fresh, NEW a \in Agents, TakeLock(a) \/ StartJob(a) \/ Release(a) \/ TimeOut(a)
    PROVE  Fresh'
<1>1. UNCHANGED <<name, cache>> /\ contested \subseteq contested'
  BY DEF TakeLock, StartJob, Release, TimeOut
<1>2. PICK stage \in Stages :
        /\ Stage(a, stage) /\ stage \notin {"done", "back"}
        /\ (call[a].stage = "done" /\ stage = "invalidate") \/ call[a].stage \notin {"done", "invalidate"}
  BY DEF TakeLock, StartJob, Release, TimeOut, At, Stages
<1>3. Moves(a, stage)
  BY <1>2, StageMoves, BasicFacts
<1>4. Alone(a) /\ \A f \in Addresses : (Settles(a, f) => Settles(a, f)') /\ ~Holds(a, f)'
  BY <1>2, <1>3 DEF Moves, Settles, Holds, Mutating
<1> QED
  BY <1>1, <1>4, QuietStep, FreshQuiet

LEMMA FreshReturns ==
    ASSUME Basic, Fresh, NEW a \in Agents, ReadDone(a) \/ Captured(a) \/ Renamed(a) \/ Verified(a) \/ Undone(a)
    PROVE  Fresh'
<1>1. UNCHANGED <<name, cache>> /\ contested' = contested /\ call[a].stage \in {"back", "failed"}
  BY DEF ReadDone, Captured, Renamed, Verified, Undone, Returned
<1>2. Alone(a) /\ call'[a].stage \notin {"done", "back"}
  <2>1. CASE Finish(a)
    <3>1. Ends(a)
      BY <2>1, FinishEnds, BasicFacts
    <3> QED
      BY <3>1 DEF Ends, Idle
  <2>2. CASE Captured(a)
    BY <2>2, CapturedMoves, BasicFacts
  <2>3. CASE Renamed(a) /\ call[a].stage = "back"
    BY <2>3, RenamedMoves, BasicFacts
  <2> QED
    BY <2>1, <2>2, <2>3 DEF ReadDone, Renamed, Verified, Undone, At
<1>3. \A f \in Addresses : ~Settles(a, f) /\ ~Holds(a, f)'
  BY <1>1, <1>2 DEF Settles, Holds
<1> QED
  BY <1>1, <1>2, <1>3, QuietStep, FreshQuiet

LEMMA FreshOrphan ==
    ASSUME UndoMeaning, Fresh, NEW o \in orphans, OrphanHandler(o), name \in [Addresses -> Names]
    PROVE  Fresh'
<1>1. UNCHANGED <<call, cache, contested>>
  BY DEF OrphanHandler, Effect
<1>2. \A f \in Addresses \ contested : name'[f] = name[f]
  BY DEF OrphanHandler, Effect, UndoMeaning
<1>3. \A a \in Agents, f \in Addresses : (Settles(a, f)' <=> Settles(a, f)) /\ (Holds(a, f)' <=> Holds(a, f))
  BY <1>1 DEF Settles, Holds, Mutating
<1> QED
  BY <1>1, <1>2, <1>3 DEF Fresh

\* While an agent reads or renames an uncontested function, no other one is
\* renaming it.
LEMMA AloneAt ==
    ASSUME Apartness, NEW f \in Addresses \ contested, NEW a \in Agents, NEW b \in Agents, a # b,
           call[a].fn = f, call[b].fn = f
    PROVE  ~Mutating(call[a]) /\ ~Mutating(call[b]) /\ call[a].why = "read" /\ call[b].why = "read"
BY NamesAssumption DEF Apartness, Mutating

LEMMA FreshLookup ==
    ASSUME Basic, Apartness, Fresh, NEW a \in Agents, Lookup(a)
    PROVE  Fresh'
<1> DEFINE h == call[a].fn
<1>1. UNCHANGED <<name, cache, contested>>
  BY DEF Lookup
<1>2. call[a].stage = "lookup" /\ h \in Addresses /\ ~Mutating(call[a])
  BY BasicFacts DEF Lookup, At, Shapely, Mutating
<1>3. Alone(a) /\ call'[a].why = call[a].why /\ call'[a].fn = h
      /\ call'[a].got = cache[RegistryOf[a]][h] /\ (call'[a].stage = "back" => call'[a].got # None)
      /\ call'[a].stage \in {"back", "queued"}
  BY <1>2, LookupMoves, BasicFacts
<1>4. \A b \in Agents, f \in Addresses : Settles(b, f) => b # a /\ Settles(b, f)'
  BY <1>2, <1>3 DEF Alone, Settles
<1>5. ASSUME NEW f \in Addresses \ contested, NEW b \in Agents, Holds(b, f)'
      PROVE  call'[b].got = name'[f]
  <2>1. CASE b # a
    BY <1>1, <1>3, <1>5, <2>1 DEF Fresh, Holds, Alone
  <2>2. CASE b = a
    <3>1. f = h /\ call'[a].got # None /\ RegistryOf[a] \in Registries
      BY <1>3, <1>5, <2>2, RegistryAssumption DEF Holds
    <3>2. \A c \in Agents : ~Settles(c, f)
      <4>1. SUFFICES ASSUME NEW c \in Agents, Settles(c, f)
                     PROVE  FALSE
        OBVIOUS
      <4>2. c # a /\ call[c].fn = f /\ call[a].fn = f /\ Mutating(call[c])
        BY <1>4, <3>1, <4>1 DEF Settles
      <4> QED
        BY <4>2, AloneAt
    <3>3. cache[RegistryOf[a]][f] \in {None, name[f]}
      BY <3>1, <3>2 DEF Fresh
    <3> QED
      BY <1>1, <1>3, <2>2, <3>1, <3>3
  <2> QED
    BY <2>1, <2>2
<1> QED
  BY <1>1, <1>4, <1>5 DEF Fresh

LEMMA FreshHandler ==
    ASSUME Basic, Apartness, Fresh, NEW a \in Agents, Handler(a)
    PROVE  Fresh'
<1> DEFINE h == call[a].fn
<1>1. UNCHANGED <<cache, contested>>
  BY DEF Handler, Effect
<1>2. call[a].stage = "running" /\ h \in Addresses
  BY BasicFacts DEF Handler, At
<1>3. Alone(a) /\ call'[a].why = call[a].why /\ call'[a].fn = h /\ call'[a].stage = "done"
      /\ call'[a].got = IF Mutating(call[a]) THEN call[a].got ELSE name[h]
  BY <1>2, HandlerMoves, BasicFacts
<1>4. \A b \in Agents, f \in Addresses : Settles(b, f) => b # a /\ Settles(b, f)'
  BY <1>2, <1>3 DEF Alone, Settles
<1>5. CASE Mutating(call[a])
  <2>1. \A f \in Addresses : f # h => name'[f] = name[f]
    BY <1>5 DEF Handler, Effect, Basic, Types
  <2>2. \A f \in Addresses : f = h => Settles(a, f)'
    BY <1>3, <1>5 DEF Settles, Mutating
  <2>3. \A f \in Addresses, b \in Agents : Holds(b, f)' => Holds(b, f) /\ b # a /\ call'[b].got = call[b].got
    BY <1>3, <1>5 DEF Holds, Mutating, Alone
  <2>4. ASSUME NEW f \in Addresses \ contested, NEW b \in Agents, Holds(b, f)'
        PROVE  call'[b].got = name'[f]
    <3>1. Holds(b, f) /\ b # a /\ call'[b].got = call[b].got /\ call[b].fn = f
      BY <2>3, <2>4 DEF Holds
    <3>2. f # h
      BY <1>5, <3>1, AloneAt
    <3> QED
      BY <2>1, <3>1, <3>2 DEF Fresh
  <2>5. ASSUME NEW f \in Addresses \ contested
        PROVE  (\E b \in Agents : Settles(b, f)') \/ \A g \in Registries : cache'[g][f] \in {None, name'[f]}
    <3>1. CASE f = h
      BY <2>2, <3>1
    <3>2. CASE f # h
      BY <1>1, <1>4, <2>1, <3>2 DEF Fresh
    <3> QED
      BY <3>1, <3>2
  <2>6. \A g \in Registries, f \in Addresses : cache'[g][f] # None => \E b \in Agents : RegistryOf[b] = g
    BY <1>1 DEF Fresh
  <2> QED
    BY <1>1, <2>4, <2>5, <2>6 DEF Fresh
<1>6. CASE ~Mutating(call[a])
  <2>1. name' = name
    BY <1>6 DEF Handler, Effect
  <2>2. \A f \in Addresses \ contested, b \in Agents : Holds(b, f)' => call'[b].got = name'[f]
    BY <1>3, <1>6, <2>1 DEF Fresh, Holds, Alone
  <2> QED
    BY <1>1, <1>4, <2>1, <2>2 DEF Fresh
<1> QED
  BY <1>5, <1>6

LEMMA FreshStore ==
    ASSUME Basic, Fresh, NEW a \in Agents, Store(a)
    PROVE  Fresh'
<1> DEFINE h == call[a].fn
           g == RegistryOf[a]
<1>1. UNCHANGED <<name, contested>> /\ call[a].stage = "done" /\ ~Mutating(call[a])
  BY DEF Store, At
<1>2. h \in Addresses /\ g \in Registries
  BY <1>1, BasicFacts, RegistryAssumption
<1>3. Moves(a, "back")
  BY StageMoves, BasicFacts DEF Store, Stages
<1>4. cache'[g][h] = call[a].got /\ \A r \in Registries, f \in Addresses : (r = g /\ f = h) \/ cache'[r][f] = cache[r][f]
  BY <1>2 DEF Store, Basic, Types
<1>5. \A b \in Agents, f \in Addresses :
        /\ Settles(b, f) => Settles(b, f)'
        /\ Holds(b, f)' => Holds(b, f) /\ call'[b].got = call[b].got
  BY <1>1, <1>3 DEF Moves, Alone, Settles, Holds, Mutating
<1>6. h \notin contested => call[a].got = name[h]
  BY <1>1, <1>2 DEF Fresh, Holds
<1>7. \A r \in Registries, f \in Addresses : cache'[r][f] # None => \E b \in Agents : RegistryOf[b] = r
  BY <1>4 DEF Fresh
<1>8. ASSUME NEW f \in Addresses \ contested
      PROVE  (\E b \in Agents : Settles(b, f)') \/ \A r \in Registries : cache'[r][f] \in {None, name'[f]}
  BY <1>1, <1>4, <1>5, <1>6 DEF Fresh
<1>9. \A f \in Addresses \ contested, b \in Agents : Holds(b, f)' => call'[b].got = name'[f]
  BY <1>1, <1>5 DEF Fresh
<1> QED
  BY <1>1, <1>7, <1>8, <1>9 DEF Fresh

\* The invalidation is where views would matter: it empties the cache of one
\* registry.
LEMMA FreshInvalidate ==
    ASSUME NoViews, Basic, Fresh, NEW a \in Agents, Invalidate(a)
    PROVE  Fresh'
<1>1. UNCHANGED <<name, contested>> /\ call[a].stage = "invalidate"
  BY DEF Invalidate, At
<1>2. \A r \in Registries, f \in Addresses : cache'[r][f] = None
  <2>1. \A r \in Registries : r # RegistryOf[a] => cache'[r] = cache[r]
    BY DEF Invalidate, Basic, Types
  <2>2. \A f \in Addresses : cache'[RegistryOf[a]][f] = None
    BY RegistryAssumption DEF Invalidate, Basic, Types
  <2>3. \A r \in Registries, f \in Addresses : r # RegistryOf[a] => cache[r][f] = None
    BY DEF Fresh, NoViews
  <2> QED
    BY <2>1, <2>2, <2>3
<1>3. Moves(a, "back")
  BY StageMoves, BasicFacts DEF Invalidate, Stages
<1>4. call[a].why \in {"rename", "undo"}
  BY <1>1, BasicFacts DEF Shapely, Calls, Whys
<1>5. \A b \in Agents, f \in Addresses : Holds(b, f)' => Holds(b, f) /\ call'[b].got = call[b].got
  BY <1>3, <1>4 DEF Moves, Alone, Holds, Mutating
<1> QED
  BY <1>1, <1>2, <1>5 DEF Fresh

LEMMA FreshKept ==
    ASSUME NoViews, Basic, UndoMeaning, Apartness, Fresh, [Next]_vars
    PROVE  Fresh'
<1>1. CASE UNCHANGED vars
  BY <1>1 DEF vars, Fresh, Settles, Holds, Mutating
<1>2. ASSUME NEW o \in orphans, OrphanHandler(o)
      PROVE  Fresh'
  BY <1>2, FreshOrphan DEF Basic, Types
<1>3. ASSUME NEW a \in Agents, (\E f \in Touches[a] : Read(a, f)) \/ (\E f \in Touches[a], n \in Names : Rename(a, f, n)) \/ Undo(a)
      PROVE  Fresh'
  BY <1>3, FreshAsk
<1>4. ASSUME NEW a \in Agents, TakeLock(a) \/ StartJob(a) \/ Handler(a)
      PROVE  Fresh'
  BY <1>4, FreshMoves, FreshHandler
<1>5. ASSUME NEW a \in Agents, Progress(a)
      PROVE  Fresh'
  BY <1>5, FreshLookup, FreshStore, FreshMoves, FreshInvalidate, FreshReturns DEF Progress
<1> QED
  BY <1>1, <1>2, <1>3, <1>4, <1>5 DEF Next

LEMMA CacheAtFirst ==
    ASSUME Init
    PROVE  CacheInv
<1>1. \A a \in Agents : call[a].fn = None
  BY DEF Init, Idle
<1>2. Apartness
  BY <1>1 DEF Apartness
<1>3. \A g \in Registries, f \in Addresses : cache[g][f] = None
  BY DEF Init
<1>4. Fresh
  BY <1>1, <1>3, NamesAssumption DEF Fresh, Holds, Init, Idle
<1> QED
  BY <1>2, <1>4, StackAtFirst DEF CacheInv

LEMMA CacheKept ==
    ASSUME NoViews, CacheInv, [Next]_vars
    PROVE  CacheInv'
<1>1. StackInv' /\ Apartness' /\ Basic /\ UndoMeaning
  BY StackKept, ApartnessKept DEF CacheInv, StackInv
<1>2. Fresh'
  BY <1>1, FreshKept DEF CacheInv
<1> QED
  BY <1>1, <1>2 DEF CacheInv

\* When every agent uses the registry itself, the cached name of a function that
\* no two agents were at is its name, but for the time between a rename and the
\* invalidation that follows it (cache.py).  An agent with a view of the registry
\* has a cache that the invalidation of another one does not reach.
THEOREM CacheStaysFresh == NoViews /\ Spec => []CacheFresh
<1>1. SUFFICES ASSUME NoViews PROVE Spec => []CacheFresh
  OBVIOUS
<1>2. Init => CacheInv
  BY CacheAtFirst
<1>3. CacheInv /\ [Next]_vars => CacheInv'
  BY <1>1, CacheKept
<1>4. CacheInv => CacheFresh
  BY DEF CacheInv, Fresh, CacheFresh, Unsettled, Settles
<1> QED
  BY <1>2, <1>3, <1>4, PTL DEF Spec

-----------------------------------------------------------------------------
(* The functions of a tab *)

LEMMA HomeKept ==
    ASSUME Basic, Home, [Next]_vars
    PROVE  Home'
<1> DEFINE Own(a) == call[a].why \in {"read", "capture", "rename", "verify"} => call[a].fn \in Touches[a]
           OnTab(t, f) == \E b \in Agents : TabOf[b] = t /\ f \in Touches[b]
<1>0. /\ \A a \in Agents : Own(a)
      /\ \A t \in Tabs : \A i \in DOMAIN log[t] : OnTab(t, log[t][i].fn)
  BY DEF Home
<1>1. ASSUME \A a \in Agents : call'[a].why \in {"read", "capture", "rename", "verify"} => call'[a].fn \in Touches[a],
             \A t \in Tabs : \A i \in DOMAIN log'[t] : OnTab(t, log'[t][i].fn)
      PROVE  Home'
  BY <1>1 DEF Home
<1>2. CASE UNCHANGED <<call, log>>
  BY <1>2 DEF Home
<1>3. ASSUME NEW a \in Agents, Starts(a)
      PROVE  Home'
  <2>1. log' = log /\ \A b \in Agents \ {a} : call'[b] = call[b]
    BY <1>3 DEF Starts, Alone
  <2>2. call'[a].why # "undo" => call'[a].fn \in Touches[a]
    BY <1>3 DEF Starts
  <2> QED
    BY <2>1, <2>2 DEF Home
<1>4. ASSUME NEW a \in Agents, Goes(a) \/ Leaves(a)
      PROVE  Home'
  <2>1. log' = log
    BY <1>4 DEF Goes, Leaves
  <2>2. \A b \in Agents : call'[b].why \in {"read", "capture", "rename", "verify"} =>
          call[b].why \in {"read", "capture", "rename", "verify"} /\ call'[b].fn = call[b].fn
    BY <1>4 DEF Goes, Leaves, Ends, Alone, Idle
  <2> QED
    BY <2>1, <2>2 DEF Home
<1>5. ASSUME NEW a \in Agents, Recorded(a)
      PROVE  Home'
  <2>1. \A b \in Agents : call'[b].why # "none" => call'[b] = call[b]
    BY <1>5 DEF Recorded, Ends, Alone, Idle
  <2>2. OnTab(TabOf[a], call[a].fn) /\ Record(call[a]).fn = call[a].fn
    BY <1>0, <1>5 DEF Recorded
  <2>3. PICK n \in Nat :
          /\ DOMAIN log'[TabOf[a]] = DOMAIN log[TabOf[a]] \cup {n} /\ log'[TabOf[a]][n] = Record(call[a])
          /\ \A i \in DOMAIN log[TabOf[a]] : log'[TabOf[a]][i] = log[TabOf[a]][i]
          /\ \A t \in Tabs \ {TabOf[a]} : log'[t] = log[t]
    BY <1>5 DEF Recorded, Puts
  <2> HIDE DEF OnTab
  <2>4. ASSUME NEW t \in Tabs, NEW i \in DOMAIN log'[t]
        PROVE  OnTab(t, log'[t][i].fn)
    BY <1>0, <2>2, <2>3
  <2> QED
    BY <1>0, <1>1, <2>1, <2>4
<1>6. ASSUME NEW a \in Agents, Unrecorded(a)
      PROVE  Home'
  <2>1. \A b \in Agents : call'[b].why # "none" => call'[b] = call[b]
    BY <1>6 DEF Unrecorded, Ends, Alone, Idle
  <2>2. \A t \in Tabs : \A i \in DOMAIN log'[t] : \E j \in DOMAIN log[t] : log'[t][i] = log[t][j]
    BY <1>6 DEF Unrecorded, Takes
  <2> HIDE DEF OnTab
  <2>3. \A t \in Tabs : \A i \in DOMAIN log'[t] : OnTab(t, log'[t][i].fn)
    BY <1>0, <2>2
  <2> QED
    BY <1>0, <1>1, <2>1, <2>3
<1>7. \A o \in orphans : Orphaned(o) => UNCHANGED <<call, log>>
  BY DEF Orphaned
<1> QED
  BY <1>2, <1>3, <1>4, <1>5, <1>6, <1>7, StepKinds

\* The records about a function are on one stack.
LEMMA OneHome ==
    ASSUME FunctionsOfTabs, Home, NEW t \in Tabs, NEW u \in Tabs, NEW f, About(log[t], f) # {}, About(log[u], f) # {}
    PROVE  t = u
<1>1. PICK i \in DOMAIN log[t] : log[t][i].fn = f
  BY DEF About
<1>2. PICK j \in DOMAIN log[u] : log[u][j].fn = f
  BY DEF About
<1>3. PICK a \in Agents : TabOf[a] = t /\ f \in Touches[a]
  BY <1>1 DEF Home
<1>4. PICK b \in Agents : TabOf[b] = u /\ f \in Touches[b]
  BY <1>2 DEF Home
<1> QED
  BY <1>3, <1>4 DEF FunctionsOfTabs

\* An agent that renames a function is of the tab whose stack has the records.
LEMMA AtHome ==
    ASSUME FunctionsOfTabs, Home, NEW a \in Agents, call[a].why \in {"capture", "rename", "verify"}, NEW t \in Tabs,
           About(log[t], call[a].fn) # {}
    PROVE  t = TabOf[a]
<1>1. call[a].fn \in Touches[a]
  BY DEF Home
<1>2. PICK i \in DOMAIN log[t] : log[t][i].fn = call[a].fn
  BY DEF About
<1>3. PICK b \in Agents : TabOf[b] = t /\ log[t][i].fn \in Touches[b]
  BY DEF Home
<1> QED
  BY <1>1, <1>2, <1>3 DEF FunctionsOfTabs

LEMMA DoubtedKept ==
    ASSUME Basic, Doubted, [Next]_vars
    PROVE  Doubted'
<1>1. CASE UNCHANGED <<call, contested>>
  BY <1>1 DEF Doubted
<1>2. ASSUME NEW a \in Agents, Alone(a), contested \subseteq contested',
             call'[a].why \in {"capture", "verify"} /\ call'[a].stage = "failed" => call'[a].fn \in contested'
      PROVE  Doubted'
  BY <1>2 DEF Doubted, Alone
<1>3. ASSUME NEW a \in Agents, Starts(a) \/ Leaves(a) \/ Recorded(a) \/ Unrecorded(a)
      PROVE  Doubted'
  <2>1. Alone(a) /\ contested \subseteq contested'
    BY <1>3 DEF Starts, Leaves, Recorded, Unrecorded, Ends
  <2>2. call'[a].stage # "failed"
    BY <1>3 DEF Starts, Leaves, Recorded, Unrecorded, Ends, Idle
  <2> QED
    BY <1>2, <2>1, <2>2
<1>4. ASSUME NEW a \in Agents, TakeLock(a) \/ StartJob(a) \/ Store(a) \/ Release(a) \/ Invalidate(a)
      PROVE  Doubted'
  <2>1. Goes(a)
    BY <1>4, MovingGoes
  <2>2. \E stage \in Stages : Stage(a, stage) /\ stage # "failed"
    BY <1>4 DEF TakeLock, StartJob, Store, Release, Invalidate, Stages
  <2>3. call'[a].stage # "failed"
    BY <2>2, StageMoves, BasicFacts DEF Moves
  <2> QED
    BY <1>2, <2>1, <2>3 DEF Goes
<1>5. ASSUME NEW a \in Agents, Lookup(a) \/ Handler(a) \/ Captured(a) \/ Renamed(a)
      PROVE  Doubted'
  <2>1. Goes(a) \/ Leaves(a)
    BY <1>5, LookupGoes, HandlerGoes, RenamingGoes
  <2>2. Alone(a) /\ contested \subseteq contested'
    BY <2>1 DEF Goes, Leaves, Ends
  <2>3. call'[a].stage # "failed"
    <3>1. CASE Lookup(a)
      <4>1. call[a].fn \in Addresses
        BY <3>1, BasicFacts DEF Lookup, At
      <4> QED
        BY <3>1, <4>1, LookupMoves, BasicFacts
    <3>2. CASE Handler(a)
      <4>1. call[a].fn \in Addresses
        BY <3>2, BasicFacts DEF Handler, At
      <4> QED
        BY <3>2, <4>1, HandlerMoves, BasicFacts
    <3>3. CASE Captured(a)
      BY <3>3, CapturedMoves, BasicFacts
    <3>4. CASE Renamed(a) /\ call[a].stage = "back"
      BY <3>4, RenamedMoves, BasicFacts
    <3>5. CASE Renamed(a) /\ call[a].stage # "back"
      <4>1. Finish(a)
        BY <3>5 DEF Renamed, At
      <4> QED
        BY <4>1, FinishEnds, BasicFacts DEF Ends, Idle
    <3> QED
      BY <1>5, <3>1, <3>2, <3>3, <3>4, <3>5
  <2> QED
    BY <1>2, <2>2, <2>3
<1>6. ASSUME NEW a \in Agents, TimeOut(a)
      PROVE  Doubted'
  <2>1. Goes(a)
    BY <1>6, TimeOutGoes
  <2>2. Moves(a, "failed")
    BY <1>6, StageMoves, BasicFacts DEF TimeOut, Stages
  <2>3. call[a].why \in {"capture", "verify"} => call[a].fn \in contested'
    BY <1>6 DEF TimeOut, Doubtful
  <2> QED
    BY <1>2, <2>1, <2>2, <2>3 DEF Goes, Moves
<1>7. ASSUME NEW a \in Agents, ReadDone(a) \/ Verified(a) \/ Undone(a)
      PROVE  Doubted'
  BY <1>3, <1>7, ReadLeaves, VerifiedRecords, UndoneDrops
<1>8. ASSUME NEW o \in orphans, OrphanHandler(o)
      PROVE  Doubted'
  BY <1>1, <1>8 DEF OrphanHandler, Effect
<1>9. ASSUME NEW a \in Agents, (\E f \in Touches[a] : Read(a, f)) \/ (\E f \in Touches[a], n \in Names : Rename(a, f, n)) \/ Undo(a)
      PROVE  Doubted'
  BY <1>3, <1>9, AskStarts
<1> QED
  BY <1>1, <1>4, <1>5, <1>6, <1>7, <1>8, <1>9 DEF Next, Progress, vars

-----------------------------------------------------------------------------
(* The way back stays *)

\* The records about f in z are those in s, in the same order.
Alike(s, z, f) ==
    \E p \in [About(z, f) -> About(s, f)] :
        /\ \A i \in About(z, f) : z[i] = s[p[i]]
        /\ \A i, j \in About(z, f) : (i <= j <=> p[i] <= p[j]) /\ (i < j <=> p[i] < p[j])
        /\ \A k \in About(s, f) : \E i \in About(z, f) : p[i] = k

LEMMA AlikeLeadsBack ==
    ASSUME NEW s, NEW z, NEW f, NEW n, Alike(s, z, f), LeadsBack(s, f, n)
    PROVE  LeadsBack(z, f, n)
<1> PICK p \in [About(z, f) -> About(s, f)] :
        /\ \A i \in About(z, f) : z[i] = s[p[i]]
        /\ \A i, j \in About(z, f) : (i <= j <=> p[i] <= p[j]) /\ (i < j <=> p[i] < p[j])
        /\ \A k \in About(s, f) : \E i \in About(z, f) : p[i] = k
  BY DEF Alike
<1> SUFFICES ASSUME NEW i \in About(z, f)
             PROVE  /\ (\A j \in About(z, f) : j <= i) => z[i].new = n
                    /\ (\A j \in About(z, f) : j >= i) => z[i].old = Original
                    /\ \A j \in About(z, f) :
                          i < j /\ (\A k \in About(z, f) : k <= i \/ j <= k) => z[j].old = z[i].new
  BY DEF LeadsBack
<1>1. p[i] \in About(s, f) /\ z[i] = s[p[i]]
  OBVIOUS
<1>2. (\A j \in About(z, f) : j <= i) => z[i].new = n
  <2>1. SUFFICES ASSUME \A j \in About(z, f) : j <= i PROVE z[i].new = n
    OBVIOUS
  <2>2. \A j \in About(s, f) : j <= p[i]
    BY <2>1
  <2> QED
    BY <1>1, <2>2 DEF LeadsBack
<1>3. (\A j \in About(z, f) : j >= i) => z[i].old = Original
  <2>1. SUFFICES ASSUME \A j \in About(z, f) : j >= i PROVE z[i].old = Original
    OBVIOUS
  <2>2. \A j \in About(z, f) : i <= j
    BY <2>1
  <2>3. \A j \in About(s, f) : p[i] <= j
    BY <2>2
  <2>4. \A j \in About(s, f) : j >= p[i]
    BY <2>3
  <2> QED
    BY <1>1, <2>4 DEF LeadsBack
<1>4. ASSUME NEW j \in About(z, f), i < j, \A k \in About(z, f) : k <= i \/ j <= k
      PROVE  z[j].old = z[i].new
  <2>1. p[j] \in About(s, f) /\ z[j] = s[p[j]] /\ p[i] < p[j]
    BY <1>4
  <2>2. \A k \in About(s, f) : k <= p[i] \/ p[j] <= k
    BY <1>4
  <2> QED
    BY <1>1, <2>1, <2>2 DEF LeadsBack
<1> QED
  BY <1>2, <1>3, <1>4

LEMMA AlikeNone ==
    ASSUME NEW s, NEW z, NEW f, Alike(s, z, f)
    PROVE  About(s, f) = {} <=> About(z, f) = {}
BY DEF Alike

LEMMA SameIsAlike ==
    ASSUME NEW s, NEW z, NEW f, About(z, f) = About(s, f), \A i \in About(s, f) : z[i] = s[i]
    PROVE  Alike(s, z, f)
<1> DEFINE p == [i \in About(z, f) |-> i]
<1>1. p \in [About(z, f) -> About(s, f)] /\ \A i \in About(z, f) : p[i] = i
  OBVIOUS
<1> HIDE DEF p
<1> QED
  BY <1>1 DEF Alike

\* The stacks are alike for f.
AlikeOn(f) == \A t \in Tabs : Alike(log[t], log'[t], f)

LEMMA UnchangedIsAlike ==
    ASSUME log' = log, NEW f
    PROVE  AlikeOn(f)
BY SameIsAlike DEF AlikeOn

LEMMA PutsIsAlike ==
    ASSUME NEW tab \in Tabs, NEW r, Puts(tab, r), NEW f, r.fn # f
    PROVE  AlikeOn(f)
<1>1. SUFFICES ASSUME NEW t \in Tabs
               PROVE  Alike(log[t], log'[t], f)
  BY DEF AlikeOn
<1>2. About(log'[t], f) = About(log[t], f) /\ \A i \in About(log[t], f) : log'[t][i] = log[t][i]
  BY DEF Puts, About
<1> QED
  BY <1>2, SameIsAlike

LEMMA TakesIsAlike ==
    ASSUME Types, NEW tab \in Tabs, NEW k \in DOMAIN log[tab], Takes(tab, k), NEW f, log[tab][k].fn # f
    PROVE  AlikeOn(f)
<1>1. SUFFICES ASSUME NEW t \in Tabs
               PROVE  Alike(log[t], log'[t], f)
  BY DEF AlikeOn
<1> DEFINE at(i) == Place(tab, k, t, i)
           p == [i \in About(log'[t], f) |-> at(i)]
<1>2. k \in Nat
  BY StackTypes
<1>3. \A i \in DOMAIN log'[t] : i \in Nat /\ at(i) \in DOMAIN log[t] /\ log'[t][i] = log[t][at(i)]
  BY DEF Takes
<1>4. \A i, j \in DOMAIN log'[t] : (i <= j <=> at(i) <= at(j)) /\ (i < j <=> at(i) < at(j))
  BY <1>2, <1>3 DEF Place
<1>5. \A j \in DOMAIN log[t] : log[t][j].fn = f => \E i \in DOMAIN log'[t] : j = at(i)
  BY DEF Takes
<1> HIDE DEF at
<1>6. p \in [About(log'[t], f) -> About(log[t], f)] /\ \A i \in About(log'[t], f) : p[i] = at(i)
  BY <1>3 DEF About
<1> HIDE DEF p
<1>7. \A i \in About(log'[t], f) : log'[t][i] = log[t][p[i]]
  BY <1>3, <1>6 DEF About
<1>8. \A i, j \in About(log'[t], f) : (i <= j <=> p[i] <= p[j]) /\ (i < j <=> p[i] < p[j])
  BY <1>4, <1>6 DEF About
<1>9. \A j \in About(log[t], f) : \E i \in About(log'[t], f) : p[i] = j
  <2>1. SUFFICES ASSUME NEW j \in About(log[t], f)
                 PROVE  \E i \in About(log'[t], f) : p[i] = j
    OBVIOUS
  <2>2. PICK i \in DOMAIN log'[t] : j = at(i)
    BY <1>5 DEF About
  <2>3. i \in About(log'[t], f)
    BY <1>3, <2>2 DEF About
  <2> QED
    BY <1>6, <2>2, <2>3
<1> QED
  BY <1>6, <1>7, <1>8, <1>9 DEF Alike

LEMMA ChainKept ==
    ASSUME NEW f, AlikeOn(f)
    PROVE  \A n : Chain(f, n) => Chain(f, n)'
<1>1. SUFFICES ASSUME NEW n, Chain(f, n)
               PROVE  /\ (\A t \in Tabs : About(log'[t], f) = {}) => n = Original
                      /\ \A t \in Tabs : LeadsBack(log'[t], f, n)
  BY DEF Chain
<1>2. \A t \in Tabs : About(log'[t], f) = {} <=> About(log[t], f) = {}
  BY AlikeNone DEF AlikeOn
<1>3. \A t \in Tabs : LeadsBack(log'[t], f, n)
  BY <1>1, AlikeLeadsBack DEF AlikeOn, Chain
<1> QED
  BY <1>1, <1>2, <1>3 DEF Chain

LEMMA LastKept ==
    ASSUME NEW a \in Agents, NEW f, AlikeOn(f), NEW k, LastAbout(a, f, k),
           call'[a].undoing = call[a].undoing, call'[a].want = call[a].want
    PROVE  \E i \in DOMAIN log'[TabOf[a]] : LastAbout(a, f, i)' /\ log'[TabOf[a]][i] = log[TabOf[a]][k]
<1> DEFINE s == log[TabOf[a]]
           z == log'[TabOf[a]]
<1>1. Alike(s, z, f)
  BY TabAssumption DEF AlikeOn
<1>2. k \in About(s, f) /\ (\A j \in About(s, f) : j <= k) /\ s[k].no = call[a].undoing /\ s[k].old = call[a].want
  BY DEF LastAbout
<1>3. \E i \in About(z, f) : z[i] = s[k] /\ \A j \in About(z, f) : j <= i
  <2> HIDE DEF s, z
  <2>1. PICK p \in [About(z, f) -> About(s, f)] :
        /\ \A i \in About(z, f) : z[i] = s[p[i]]
        /\ \A i, j \in About(z, f) : (i <= j <=> p[i] <= p[j])
        /\ \A m \in About(s, f) : \E i \in About(z, f) : p[i] = m
    BY <1>1 DEF Alike
  <2>2. PICK i \in About(z, f) : p[i] = k
    BY <1>2, <2>1
  <2>3. \A j \in About(z, f) : p[j] \in About(s, f) /\ p[j] <= p[i]
    BY <1>2, <2>2
  <2> QED
    BY <2>1, <2>2, <2>3
<1>4. PICK i \in About(z, f) : z[i] = s[k] /\ \A j \in About(z, f) : j <= i
  BY <1>3
<1>5. i \in DOMAIN z
  BY <1>4 DEF About
<1>6. LastAbout(a, f, i)'
  BY <1>2, <1>4 DEF LastAbout
<1> QED
  BY <1>4, <1>5, <1>6

\* The call of a is at f as before, as far as the way back can tell.
SameAt(a, f) ==
    /\ call[a].fn = f /\ call'[a].why = call[a].why /\ call'[a].undoing = call[a].undoing
    /\ call'[a].want = call[a].want /\ call'[a].old = call[a].old
    /\ Ahead(a)' <=> Ahead(a)
    /\ call'[a].why = "rename" /\ call'[a].stage \in {"queued", "running"} => call[a].stage \in {"queued", "running"}

LEMMA KnowsKept ==
    ASSUME NEW a \in Agents, NEW f, SameAt(a, f), AlikeOn(f), name'[f] = name[f], Knows(a, f)
    PROVE  Knows(a, f)'
<1>1. call'[a].why = "rename" /\ call'[a].stage \in {"queued", "running"} => call'[a].old = name'[f]
  BY DEF SameAt, Knows
<1>2. call'[a].why \in {"rename", "verify"} /\ Ahead(a)' => name'[f] = call'[a].want /\ call'[a].old \in Names /\ Chain(f, call[a].old)'
  <2>1. SUFFICES ASSUME call'[a].why \in {"rename", "verify"}, Ahead(a)'
                 PROVE  name'[f] = call'[a].want /\ call'[a].old \in Names /\ Chain(f, call[a].old)'
    OBVIOUS
  <2>2. name[f] = call[a].want /\ call[a].old \in Names /\ Chain(f, call[a].old)
    BY <2>1 DEF SameAt, Knows
  <2>3. \A n : n = call[a].old => Chain(f, n)'
    BY <2>2, ChainKept
  <2>4. call'[a].old = call[a].old /\ call'[a].want = call[a].want
    BY DEF SameAt
  <2> QED
    BY <2>2, <2>3, <2>4 DEF Chain
<1>3. call'[a].why = "undo" => \E i \in DOMAIN log'[TabOf[a]] :
        LastAbout(a, f, i)' /\ (Ahead(a)' => name'[f] = call'[a].want /\ Chain(f, log[TabOf[a]][i].new)')
  <2>1. SUFFICES ASSUME call'[a].why = "undo"
                 PROVE  \E i \in DOMAIN log'[TabOf[a]] :
                            LastAbout(a, f, i)' /\ (Ahead(a)' => name'[f] = call'[a].want /\ Chain(f, log[TabOf[a]][i].new)')
    OBVIOUS
  <2>2. PICK k \in DOMAIN log[TabOf[a]] : LastAbout(a, f, k) /\ (Ahead(a) => name[f] = call[a].want /\ Chain(f, log[TabOf[a]][k].new))
    BY <2>1 DEF SameAt, Knows
  <2>3. PICK i \in DOMAIN log'[TabOf[a]] : LastAbout(a, f, i)' /\ log'[TabOf[a]][i] = log[TabOf[a]][k]
    BY <2>2, LastKept DEF SameAt
  <2>4. ASSUME Ahead(a)'
        PROVE  name'[f] = call'[a].want /\ Chain(f, log[TabOf[a]][i].new)'
    <3>1. name[f] = call[a].want /\ Chain(f, log[TabOf[a]][k].new)
      BY <2>2, <2>4 DEF SameAt
    <3>2. \A n : n = log[TabOf[a]][k].new => Chain(f, n)'
      BY <3>1, ChainKept
    <3>3. Chain(f, log[TabOf[a]][i].new)'
      BY <2>3, <3>2 DEF Chain
    <3> QED
      BY <3>1, <3>3 DEF SameAt
  <2> QED
    BY <2>3, <2>4
<1> QED
  BY <1>1, <1>2, <1>3 DEF Knows

\* A step that takes no part in a rename or an undo of f.
LEMMA Undisturbed ==
    ASSUME NEW f, Back(f), AlikeOn(f), name'[f] = name[f],
           \A b \in Agents : call'[b].fn = f => SameAt(b, f) \/ call'[b].why \in {"read", "capture"},
           \A b \in Agents : call[b].fn = f /\ Ahead(b) => call'[b].fn = f /\ Ahead(b)'
    PROVE  Back(f)'
<1>1. (\A b \in Agents : call'[b].fn = f => ~Ahead(b)') => Chain(f, name[f])'
  <2>1. SUFFICES ASSUME \A b \in Agents : call'[b].fn = f => ~Ahead(b)'
                 PROVE  Chain(f, name[f])'
    OBVIOUS
  <2>2. Chain(f, name[f])
    BY <2>1 DEF Back
  <2>3. \A n : n = name[f] => Chain(f, n)'
    BY <2>2, ChainKept
  <2> QED
    BY <2>3 DEF Chain
<1>2. ASSUME NEW b \in Agents, call'[b].fn = f
      PROVE  Knows(b, f)'
  <2>1. CASE SameAt(b, f)
    <3>1. Knows(b, f)
      BY <2>1 DEF SameAt, Back
    <3> QED
      BY <2>1, <3>1, KnowsKept
  <2>2. CASE call'[b].why \in {"read", "capture"}
    BY <2>2 DEF Knows
  <2> QED
    BY <1>2, <2>1, <2>2
<1> QED
  BY <1>1, <1>2 DEF Back

\* The same, for the step of one agent.
LEMMA OneUndisturbed ==
    ASSUME NEW f, Back(f), AlikeOn(f), name'[f] = name[f], NEW a \in Agents, Alone(a),
           call'[a].fn = f => SameAt(a, f) \/ call'[a].why \in {"read", "capture"},
           call[a].fn = f /\ Ahead(a) => call'[a].fn = f /\ Ahead(a)'
    PROVE  Back(f)'
<1>1. \A b \in Agents \ {a} : call'[b].fn = f => SameAt(b, f)
  BY DEF Alone, SameAt, Ahead, Mutating
<1>2. \A b \in Agents \ {a} : call[b].fn = f /\ Ahead(b) => call'[b].fn = f /\ Ahead(b)'
  BY DEF Alone, Ahead, Mutating
<1>3. \A b \in Agents : call'[b].fn = f => SameAt(b, f) \/ call'[b].why \in {"read", "capture"}
  BY <1>1
<1>4. \A b \in Agents : call[b].fn = f /\ Ahead(b) => call'[b].fn = f /\ Ahead(b)'
  BY <1>2
<1> QED
  BY <1>3, <1>4, Undisturbed

\* An agent that renames or undoes an uncontested function is alone at it.
LEMMA OnlyAt ==
    ASSUME Apartness, NEW a \in Agents, call[a].fn \in Addresses \ contested, call[a].why # "read"
    PROVE  \A b \in Agents \ {a} : call[b].fn # call[a].fn
BY NamesAssumption DEF Apartness

LEMMA BackMoves ==
    ASSUME Basic, Returns, NEW a \in Agents, TakeLock(a) \/ StartJob(a) \/ Store(a) \/ Release(a) \/ Invalidate(a) \/ TimeOut(a),
           NEW f \in Addresses \ contested'
    PROVE  Back(f)'
<1>1. UNCHANGED <<name, log>> /\ contested \subseteq contested'
  BY DEF TakeLock, StartJob, Store, Release, Invalidate, TimeOut
<1>2. \E stage \in Stages :
        /\ Stage(a, stage) /\ (Mutating(call[a]) => (call[a].stage \in Conclusive <=> stage \in Conclusive))
        /\ call[a].why = "rename" /\ stage \in {"queued", "running"} => call[a].stage \in {"queued", "running"}
  <2>1. CASE TakeLock(a)
    <3>1. call[a].stage = "lock" /\ Stage(a, "queued")
      BY <2>1 DEF TakeLock, At
    <3>2. call[a].why # "rename"
      BY <3>1, BasicFacts DEF Shapely
    <3> QED
      BY <3>1, <3>2 DEF Stages, Conclusive
  <2>2. CASE StartJob(a)
    BY <2>2 DEF StartJob, At, Stages, Conclusive
  <2>3. CASE Store(a)
    BY <2>3 DEF Store, At, Stages, Conclusive
  <2>4. CASE Release(a)
    BY <2>4 DEF Release, At, Stages, Conclusive
  <2>5. CASE Invalidate(a)
    BY <2>5 DEF Invalidate, At, Stages, Conclusive
  <2>6. CASE TimeOut(a)
    BY <2>6 DEF TimeOut, At, Stages, Conclusive
  <2> QED
    BY <2>1, <2>2, <2>3, <2>4, <2>5, <2>6
<1>3. PICK stage \in Stages :
        /\ Stage(a, stage) /\ (Mutating(call[a]) => (call[a].stage \in Conclusive <=> stage \in Conclusive))
        /\ call[a].why = "rename" /\ stage \in {"queued", "running"} => call[a].stage \in {"queued", "running"}
  BY <1>2
<1>4. Moves(a, stage)
  BY <1>3, StageMoves, BasicFacts
<1>5. Alone(a) /\ call'[a].fn = call[a].fn /\ (call[a].fn = f => SameAt(a, f))
  BY <1>3, <1>4 DEF Moves, SameAt, Ahead, Mutating
<1>6. call[a].fn = f /\ Ahead(a) => call'[a].fn = f /\ Ahead(a)'
  BY <1>5 DEF SameAt
<1>7. Back(f) /\ name'[f] = name[f] /\ AlikeOn(f)
  BY <1>1, UnchangedIsAlike DEF Returns
<1> QED
  BY <1>5, <1>6, <1>7, OneUndisturbed

LEMMA BackLookup ==
    ASSUME Basic, Returns, NEW a \in Agents, Lookup(a), NEW f \in Addresses \ contested'
    PROVE  Back(f)'
<1>1. UNCHANGED <<name, log, contested>>
  BY DEF Lookup
<1>2. call[a].fn \in Addresses /\ call[a].why \notin {"rename", "undo"}
  BY BasicFacts DEF Lookup, At, Shapely
<1>3. Alone(a) /\ call'[a].fn = call[a].fn /\ (call[a].fn = f => SameAt(a, f))
  BY <1>2, LookupMoves, BasicFacts DEF SameAt, Ahead, Mutating
<1>4. call[a].fn = f /\ Ahead(a) => call'[a].fn = f /\ Ahead(a)'
  BY <1>3 DEF SameAt
<1>5. Back(f) /\ name'[f] = name[f] /\ AlikeOn(f)
  BY <1>1, UnchangedIsAlike DEF Returns
<1> QED
  BY <1>3, <1>4, <1>5, OneUndisturbed

\* An agent leaves, and was not ahead of the stack.
LEMMA BackEnds ==
    ASSUME Returns, NEW a \in Agents, Ends(a), ~Ahead(a), UNCHANGED <<name, log, contested>>, NEW f \in Addresses \ contested'
    PROVE  Back(f)'
<1>1. Back(f) /\ name'[f] = name[f] /\ AlikeOn(f)
  BY UnchangedIsAlike DEF Returns
<1>2. Alone(a) /\ call'[a].fn # f
  BY NamesAssumption DEF Ends, Idle
<1> QED
  BY <1>1, <1>2, OneUndisturbed

LEMMA BackReadDone ==
    ASSUME Basic, Returns, NEW a \in Agents, ReadDone(a), NEW f \in Addresses \ contested'
    PROVE  Back(f)'
<1>1. Ends(a) /\ UNCHANGED <<name, log, contested>> /\ ~Ahead(a)
  BY FinishEnds, BasicFacts DEF ReadDone, Ahead, Mutating
<1> QED
  BY <1>1, BackEnds

LEMMA BackOrphan ==
    ASSUME UndoMeaning, Returns, NEW o \in orphans, OrphanHandler(o), name \in [Addresses -> Names], NEW f \in Addresses \ contested'
    PROVE  Back(f)'
<1>1. UNCHANGED <<call, log, contested>>
  BY DEF OrphanHandler, Effect
<1>2. name'[f] = name[f]
  BY <1>1 DEF OrphanHandler, Effect, UndoMeaning
<1>3. Back(f) /\ AlikeOn(f)
  BY <1>1, UnchangedIsAlike DEF Returns
<1>4. \A b \in Agents : call'[b].fn = f => SameAt(b, f)
  BY <1>1 DEF SameAt, Ahead, Mutating
<1>5. \A b \in Agents : call[b].fn = f /\ Ahead(b) => call'[b].fn = f /\ Ahead(b)'
  BY <1>1 DEF Ahead, Mutating
<1> QED
  BY <1>2, <1>3, <1>4, <1>5, Undisturbed

LEMMA BackAsk ==
    ASSUME Basic, Returns, NEW a \in Agents, (\E f \in Touches[a] : Read(a, f)) \/ (\E f \in Touches[a], n \in Names : Rename(a, f, n)) \/ Undo(a),
           NEW f \in Addresses \ contested'
    PROVE  Back(f)'
<1>1. Starts(a)
  BY AskStarts
<1>2. UNCHANGED <<name, log>> /\ contested \subseteq contested' /\ Alone(a)
  BY <1>1 DEF Read, Rename, Undo, Ask, Starts
<1>3. Back(f) /\ name'[f] = name[f] /\ AlikeOn(f)
  BY <1>2, UnchangedIsAlike DEF Returns
<1>4. ~Ahead(a) /\ call[a].fn # f
  <2>1. call[a].why = "none" /\ call[a].fn = None
    BY <1>1, BasicFacts DEF Starts, Shapely
  <2> QED
    BY <2>1, NamesAssumption DEF Ahead, Mutating
<1>5. CASE call'[a].why # "undo" \/ call'[a].fn # f
  <2>1. call'[a].fn = f => call'[a].why \in {"read", "capture"}
    BY <1>1, <1>5 DEF Starts
  <2> QED
    BY <1>2, <1>3, <1>4, <2>1, OneUndisturbed
<1>6. CASE call'[a].why = "undo" /\ call'[a].fn = f
  <2>1. Undo(a)
    <3>1. ASSUME NEW g \in Touches[a], Read(a, g)
          PROVE  call'[a].why # "undo"
      BY <3>1, ReadBegins, BasicFacts DEF Begins
    <3>2. ASSUME NEW g \in Touches[a], NEW n \in Names, Rename(a, g, n)
          PROVE  call'[a].why # "undo"
      BY <3>2, RenameBegins, BasicFacts DEF Begins
    <3> QED
      BY <1>6, <3>1, <3>2
  <2> DEFINE s == log[TabOf[a]]
  <2>2. PICK k \in DOMAIN s : (\A j \in DOMAIN s : j <= k) /\ Begins(a, "undo", "lock", s[k].fn, s[k].old, s[k].no)
    BY <2>1, UndoBegins, BasicFacts
  <2>3. s[k].fn = f /\ call'[a].want = s[k].old /\ call'[a].undoing = s[k].no /\ call'[a].stage = "lock"
    BY <1>6, <2>2 DEF Begins
  <2>4. \A b \in Agents : b # a => call[b].fn # f /\ call'[b] = call[b]
    BY <1>1, <1>6, <1>2 DEF Starts, Alone
  <2>5. Chain(f, name[f])
    BY <1>3, <1>4, <2>4 DEF Back
  <2>6. Chain(f, name[f])'
    BY <1>2, <2>5 DEF Chain
  <2>7. LastAbout(a, f, k)'
    BY <1>2, <2>2, <2>3 DEF LastAbout, About
  <2>8. ~Ahead(a)'
    BY <1>6, <2>3 DEF Ahead, Conclusive
  <2>9. Knows(a, f)'
    BY <1>2, <1>6, <2>7, <2>8 DEF Knows
  <2> QED
    BY <2>4, <2>6, <2>9 DEF Back
<1> QED
  BY <1>5, <1>6

\* Only a is at f, after the step.
LEMMA OnlyBack ==
    ASSUME NEW f, NEW a \in Agents, Alone(a), \A b \in Agents \ {a} : call[b].fn # f,
           call'[a].fn = f => Knows(a, f)' /\ (Ahead(a)' \/ Chain(f, name[f])'),
           call'[a].fn # f => Chain(f, name[f])'
    PROVE  Back(f)'
<1>1. \A b \in Agents : call'[b].fn = f => b = a
  BY DEF Alone
<1> QED
  BY <1>1 DEF Back

LEMMA BackHandler ==
    ASSUME Basic, Apartness, Returns, NEW a \in Agents, Handler(a), NEW f \in Addresses \ contested'
    PROVE  Back(f)'
<1> DEFINE h == call[a].fn
<1>1. UNCHANGED <<log, contested>> /\ call[a].stage = "running" /\ h \in Addresses /\ call[a].why # "none"
  BY BasicFacts DEF Handler, Effect, At
<1>2. Alone(a) /\ call'[a].why = call[a].why /\ call'[a].undoing = call[a].undoing /\ call'[a].fn = h
      /\ call'[a].want = call[a].want /\ call'[a].old = call[a].old /\ call'[a].stage = "done"
  BY <1>1, HandlerMoves, BasicFacts
<1>3. Back(f) /\ AlikeOn(f)
  BY <1>1, UnchangedIsAlike DEF Returns
<1>4. CASE ~Mutating(call[a]) \/ h # f
  <2>1. name'[f] = name[f]
    BY <1>4 DEF Handler, Effect, Basic, Types
  <2>2. h = f => SameAt(a, f)
    BY <1>2, <1>4 DEF SameAt, Ahead, Mutating
  <2>3. call[a].fn = f /\ Ahead(a) => call'[a].fn = f /\ Ahead(a)'
    BY <1>2, <2>2 DEF SameAt
  <2> QED
    BY <1>2, <1>3, <2>1, <2>2, <2>3, OneUndisturbed
<1>5. CASE Mutating(call[a]) /\ h = f
  <2>1. \A b \in Agents \ {a} : call[b].fn # f
    BY <1>1, <1>5, OnlyAt DEF Mutating
  <2>2. name'[f] = call[a].want
    BY <1>5 DEF Handler, Effect, Basic, Types
  <2>3. ~Ahead(a) /\ Ahead(a)'
    BY <1>1, <1>2, <1>5 DEF Ahead, Mutating, Conclusive
  <2>4. Chain(f, name[f]) /\ Knows(a, f)
    BY <1>3, <1>5, <2>1, <2>3 DEF Back
  <2>5. name[f] \in Names
    BY DEF Basic, Types
  <2>6. Knows(a, f)'
    <3>1. call'[a].why = "rename" => call'[a].old = name[f] /\ name'[f] = call'[a].want
      BY <1>1, <1>2, <2>2, <2>4 DEF Knows
    <3>2. call'[a].why = "rename" => call'[a].old \in Names /\ Chain(f, call[a].old)'
      BY <1>1, <1>2, <2>4, <2>5, <3>1 DEF Chain
    <3>3. call'[a].why = "undo" => \E k \in DOMAIN log'[TabOf[a]] :
            LastAbout(a, f, k)' /\ name'[f] = call'[a].want /\ Chain(f, log[TabOf[a]][k].new)'
      <4>1. SUFFICES ASSUME call'[a].why = "undo"
                     PROVE  \E k \in DOMAIN log'[TabOf[a]] :
                                LastAbout(a, f, k)' /\ name'[f] = call'[a].want /\ Chain(f, log[TabOf[a]][k].new)'
        OBVIOUS
      <4>2. PICK k \in DOMAIN log[TabOf[a]] : LastAbout(a, f, k)
        BY <1>2, <2>4, <4>1 DEF Knows
      <4>3. log[TabOf[a]][k].new = name[f]
        BY <2>4, <4>2, TabAssumption DEF Chain, LeadsBack, LastAbout
      <4>4. Chain(f, log[TabOf[a]][k].new)'
        BY <1>1, <2>4, <4>3 DEF Chain
      <4>5. LastAbout(a, f, k)'
        BY <1>1, <1>2, <4>2 DEF LastAbout
      <4> QED
        BY <1>1, <1>2, <2>2, <4>2, <4>4, <4>5
    <3>4. call'[a].why # "verify" /\ ~(call'[a].stage \in {"queued", "running"})
      BY <1>2, <1>5 DEF Mutating
    <3>5. call'[a].why \in {"rename", "verify"} /\ Ahead(a)' =>
            name'[f] = call'[a].want /\ call'[a].old \in Names /\ Chain(f, call[a].old)'
      BY <3>1, <3>2, <3>4
    <3> QED
      BY <1>2, <3>3, <3>4, <3>5 DEF Knows, Chain
  <2> QED
    BY <1>2, <1>5, <2>1, <2>3, <2>6, OnlyBack
<1> QED
  BY <1>4, <1>5

LEMMA BackCaptured ==
    ASSUME Basic, Apartness, Fresh, Doubted, Returns, NEW a \in Agents, Captured(a), NEW f \in Addresses \ contested'
    PROVE  Back(f)'
<1>1. UNCHANGED <<name, log, contested>> /\ call[a].why = "capture" /\ call[a].stage \in {"back", "failed"}
  BY DEF Captured, Returned
<1>2. Alone(a) /\ call'[a].why = "rename" /\ call'[a].fn = call[a].fn
      /\ call'[a].old = (IF call[a].stage = "back" THEN call[a].got ELSE None) /\ call'[a].stage = "queued"
  BY CapturedMoves, BasicFacts
<1>3. Back(f) /\ AlikeOn(f) /\ ~Ahead(a)
  BY <1>1, UnchangedIsAlike DEF Returns, Ahead, Mutating
<1>4. CASE call[a].fn # f
  BY <1>1, <1>2, <1>3, <1>4, OneUndisturbed
<1>5. CASE call[a].fn = f
  <2>1. call[a].stage = "back"
    BY <1>1, <1>5 DEF Doubted
  <2>2. call[a].got = name[f]
    BY <1>1, <1>5, <2>1 DEF Fresh, Holds, Mutating
  <2>3. \A b \in Agents \ {a} : call[b].fn # f
    BY <1>1, <1>5, OnlyAt
  <2>4. Chain(f, name[f])
    BY <1>3, <2>3 DEF Back
  <2>5. Chain(f, name[f])'
    BY <1>1, <2>4 DEF Chain
  <2>6. ~Ahead(a)'
    BY <1>2 DEF Ahead, Conclusive
  <2>7. Knows(a, f)'
    BY <1>1, <1>2, <2>1, <2>2, <2>6 DEF Knows
  <2> QED
    BY <1>2, <1>5, <2>3, <2>5, <2>7, OnlyBack
<1> QED
  BY <1>4, <1>5

LEMMA BackRenamed ==
    ASSUME Basic, Apartness, Returns, NEW a \in Agents, Renamed(a), NEW f \in Addresses \ contested'
    PROVE  Back(f)'
<1>1. UNCHANGED <<name, log, contested>> /\ call[a].why = "rename" /\ call[a].stage \in {"back", "failed"}
  BY DEF Renamed, Returned
<1>2. CASE call[a].stage = "failed"
  <2>1. Ends(a) /\ ~Ahead(a)
    BY <1>1, <1>2, FinishEnds, BasicFacts DEF Renamed, At, Ahead, Conclusive
  <2> QED
    BY <1>1, <2>1, BackEnds
<1>3. CASE call[a].stage = "back"
  <2>1. Alone(a) /\ call'[a].why = "verify" /\ call'[a].fn = call[a].fn
        /\ call'[a].want = call[a].want /\ call'[a].old = call[a].old
    BY <1>3, RenamedMoves, BasicFacts
  <2>2. Back(f) /\ AlikeOn(f) /\ Ahead(a) /\ Ahead(a)'
    BY <1>1, <1>3, <2>1, UnchangedIsAlike DEF Returns, Ahead, Mutating, Conclusive
  <2>3. CASE call[a].fn # f
    BY <1>1, <2>1, <2>2, <2>3, OneUndisturbed
  <2>4. CASE call[a].fn = f
    <3>1. \A b \in Agents \ {a} : call[b].fn # f
      BY <1>1, <2>4, OnlyAt
    <3>2. name[f] = call[a].want /\ call[a].old \in Names /\ Chain(f, call[a].old)
      BY <1>1, <2>2, <2>4 DEF Back, Knows
    <3>3. Knows(a, f)'
      BY <1>1, <2>1, <3>2 DEF Knows, Chain
    <3> QED
      BY <2>1, <2>2, <2>4, <3>1, <3>3, OnlyBack
  <2> QED
    BY <2>3, <2>4
<1> QED
  BY <1>1, <1>2, <1>3

\* A record on top of the stack leads back from the new name, if the stack led
\* back from the old one.
LEMMA ChainGrows ==
    ASSUME Types, NEW tab \in Tabs, NEW r, Puts(tab, r), NEW f, r.fn = f, Chain(f, r.old),
           \A t \in Tabs : About(log[t], f) # {} => t = tab
    PROVE  Chain(f, r.new)'
<1> DEFINE s == log[tab]
           z == log'[tab]
<1>1. PICK n \in Nat :
        /\ n \notin DOMAIN s /\ (\A i \in DOMAIN s : i < n)
        /\ DOMAIN z = DOMAIN s \cup {n} /\ z[n] = r /\ \A i \in DOMAIN s : z[i] = s[i]
        /\ \A t \in Tabs \ {tab} : log'[t] = log[t]
  BY DEF Puts
<1>2. \A i \in DOMAIN s : i \in Nat
  BY StackTypes
<1>3. LeadsBack(s, f, r.old)
  BY DEF Chain
<1>4. \A t \in Tabs \ {tab} : About(log'[t], f) = {}
  BY <1>1
<1>5. About(s, f) = {} => r.old = Original
  <2>1. \A t \in Tabs \ {tab} : About(log[t], f) = {}
    OBVIOUS
  <2> QED
    BY <2>1 DEF Chain
<1>6. \A t \in Tabs \ {tab} : LeadsBack(log'[t], f, r.new)
  BY <1>4 DEF LeadsBack
<1> HIDE DEF s, z
<1>7. About(z, f) = About(s, f) \cup {n} /\ \A i \in About(s, f) : z[i] = s[i] /\ i < n /\ i \in Nat
  BY <1>1, <1>2 DEF About
<1>8. LeadsBack(z, f, r.new)
  <2>1. ASSUME NEW i \in About(z, f), \A j \in About(z, f) : j <= i
        PROVE  z[i].new = r.new
    <3>1. i = n
      BY <1>7, <2>1
    <3> QED
      BY <1>1, <3>1
  <2>2. ASSUME NEW i \in About(z, f), \A j \in About(z, f) : j >= i
        PROVE  z[i].old = Original
    <3>1. CASE i = n
      <4>1. \A j \in About(s, f) : j \in Nat /\ j < n /\ j >= n
        BY <1>7, <2>2, <3>1
      <4>2. \A j \in About(s, f) : FALSE
        BY <4>1
      <4> QED
        BY <1>1, <1>5, <3>1, <4>2
    <3>2. CASE i # n
      <4>1. i \in About(s, f) /\ z[i] = s[i] /\ \A j \in About(s, f) : j >= i
        BY <1>7, <2>2, <3>2
      <4> QED
        BY <1>3, <4>1 DEF LeadsBack
    <3> QED
      BY <3>1, <3>2
  <2>3. ASSUME NEW i \in About(z, f), NEW j \in About(z, f), i < j, \A k \in About(z, f) : k <= i \/ j <= k
        PROVE  z[j].old = z[i].new
    <3>1. i # n /\ i \in About(s, f) /\ z[i] = s[i]
      BY <1>7, <2>3
    <3>2. CASE j = n
      <4>1. \A k \in About(s, f) : k <= i
        BY <1>7, <2>3, <3>2
      <4>2. s[i].new = r.old
        BY <1>3, <3>1, <4>1 DEF LeadsBack
      <4> QED
        BY <1>1, <3>1, <3>2, <4>2
    <3>3. CASE j # n
      <4>1. j \in About(s, f) /\ z[j] = s[j] /\ \A k \in About(s, f) : k <= i \/ j <= k
        BY <1>7, <2>3, <3>3
      <4> QED
        BY <1>3, <2>3, <3>1, <4>1 DEF LeadsBack
    <3> QED
      BY <3>2, <3>3
  <2> QED
    BY <2>1, <2>2, <2>3 DEF LeadsBack
<1>9. ~(\A t \in Tabs : About(log'[t], f) = {})
  <2>1. About(z, f) # {}
    BY <1>7
  <2> QED
    BY <2>1 DEF z
<1> QED
  BY <1>6, <1>8, <1>9 DEF Chain, z

\* Without its last record about f, a stack that led back from the new name of
\* the record leads back from the old one.
LEMMA ChainShrinks ==
    ASSUME Types, NEW tab \in Tabs, NEW f, NEW k \in About(log[tab], f), \A j \in About(log[tab], f) : j <= k,
           Takes(tab, k), Chain(f, log[tab][k].new), \A t \in Tabs : About(log[t], f) # {} => t = tab,
           NEW m, m = log[tab][k].old
    PROVE  Chain(f, m)'
<1> DEFINE s == log[tab]
           z == log'[tab]
           at(i) == Place(tab, k, tab, i)
<1>1. k \in DOMAIN s /\ k \in Nat /\ \A i \in DOMAIN s : i \in Nat
  BY StackTypes DEF About
<1>2. \A i \in DOMAIN z : i \in Nat /\ at(i) \in DOMAIN s /\ z[i] = s[at(i)]
  BY DEF Takes
<1>3. \A i, j \in DOMAIN z : (i <= j <=> at(i) <= at(j)) /\ (i < j <=> at(i) < at(j))
  BY <1>1, <1>2 DEF Place
<1>4. \A i \in DOMAIN z : at(i) # k
  BY <1>1, <1>2, PlacesApart
<1>5. \A j \in DOMAIN s : j = k \/ \E i \in DOMAIN z : j = at(i)
  BY DEF Takes
<1>6. LeadsBack(s, f, s[k].new)
  BY DEF Chain
<1>7. \A t \in Tabs \ {tab} : About(log'[t], f) = {}
  <2>1. ASSUME NEW t \in Tabs \ {tab}, NEW i \in DOMAIN log'[t]
        PROVE  log'[t][i].fn # f
    <3>1. i \in DOMAIN log[t] /\ log'[t][i] = log[t][i]
      BY DEF Takes, Place
    <3>2. About(log[t], f) = {}
      OBVIOUS
    <3> QED
      BY <3>1, <3>2 DEF About
  <2> QED
    BY <2>1 DEF About
<1>8. \A t \in Tabs \ {tab} : LeadsBack(log'[t], f, m)
  BY <1>7 DEF LeadsBack
<1>0. m = s[k].old
  OBVIOUS
<1> HIDE DEF s, z, at
<1>9. \A i \in About(z, f) : i \in Nat /\ at(i) \in About(s, f) /\ z[i] = s[at(i)] /\ at(i) < k /\ at(i) \in Nat
  <2>1. \A i \in About(z, f) : i \in DOMAIN z /\ i \in Nat /\ at(i) \in About(s, f) /\ z[i] = s[at(i)] /\ at(i) # k
    BY <1>2, <1>4 DEF About
  <2>2. \A j \in About(s, f) : j <= k /\ j \in Nat
    BY <1>1 DEF s, About
  <2> QED
    BY <1>1, <2>1, <2>2
<1>10. \A j \in About(s, f) : j = k \/ \E i \in About(z, f) : j = at(i)
  BY <1>2, <1>5 DEF About
<1>11. k \in About(s, f) /\ \A j \in About(s, f) : j <= k
  BY DEF s
<1>12. \A i, j \in About(z, f) : (i <= j <=> at(i) <= at(j)) /\ (i < j <=> at(i) < at(j))
  BY <1>3 DEF About
<1>13. LeadsBack(z, f, m)
  <2>1. ASSUME NEW i \in About(z, f), \A j \in About(z, f) : j <= i
        PROVE  z[i].new = m
    <3>1. \A j \in About(s, f) : j <= at(i) \/ k <= j
      BY <1>1, <1>10, <1>12, <2>1
    <3> QED
      BY <1>0, <1>6, <1>9, <1>11, <3>1 DEF LeadsBack
  <2>2. ASSUME NEW i \in About(z, f), \A j \in About(z, f) : j >= i
        PROVE  z[i].old = Original
    <3>1. \A j \in About(z, f) : i <= j
      BY <1>9, <2>2
    <3>2. \A j \in About(s, f) : j >= at(i)
      BY <1>1, <1>9, <1>10, <1>12, <3>1
    <3> QED
      BY <1>6, <1>9, <3>2 DEF LeadsBack
  <2>3. ASSUME NEW i \in About(z, f), NEW j \in About(z, f), i < j, \A l \in About(z, f) : l <= i \/ j <= l
        PROVE  z[j].old = z[i].new
    <3>1. at(i) < at(j)
      BY <1>12, <2>3
    <3>2. \A l \in About(s, f) : l <= at(i) \/ at(j) <= l
      BY <1>1, <1>9, <1>10, <1>12, <2>3
    <3> QED
      BY <1>6, <1>9, <3>1, <3>2 DEF LeadsBack
  <2> QED
    BY <2>1, <2>2, <2>3 DEF LeadsBack
<1>14. (\A t \in Tabs : About(log'[t], f) = {}) => m = Original
  <2>1. SUFFICES ASSUME About(z, f) = {}
                 PROVE  m = Original
    BY DEF z
  <2>2. \A j \in About(s, f) : j >= k
    BY <1>1, <1>10, <2>1
  <2> QED
    BY <1>0, <1>6, <1>11, <2>2 DEF LeadsBack
<1> QED
  BY <1>8, <1>13, <1>14 DEF Chain, z

LEMMA BackVerified ==
    ASSUME Basic, Numbered, Apartness, Fresh, FunctionsOfTabs, Home, Doubted, Returns, NEW a \in Agents, Verified(a),
           NEW f \in Addresses \ contested'
    PROVE  Back(f)'
<1>1. UNCHANGED <<name, contested>> /\ call[a].why = "verify" /\ call[a].stage \in {"back", "failed"} /\ TabOf[a] \in Tabs
  BY TabAssumption DEF Verified, Returned
<1>2. Ends(a) /\ Alone(a) /\ call'[a].fn # f
  BY FinishEnds, BasicFacts, NamesAssumption DEF Verified, Ends, Idle
<1>3. Back(f) /\ name'[f] = name[f] /\ Ahead(a)
  BY <1>1 DEF Returns, Ahead
<1>4. Recorded(a) \/ (Leaves(a) /\ log' = log)
  BY VerifiedRecords DEF Leaves
<1>5. CASE call[a].fn # f
  <2>1. AlikeOn(f)
    BY <1>1, <1>4, <1>5, UnchangedIsAlike, PutsIsAlike DEF Recorded
  <2> QED
    BY <1>2, <1>3, <1>5, <2>1, OneUndisturbed
<1>6. CASE call[a].fn = f
  <2>1. call[a].stage = "back"
    BY <1>1, <1>6 DEF Doubted
  <2>2. call[a].got = name[f]
    BY <1>1, <1>6, <2>1 DEF Fresh, Holds, Mutating
  <2>3. name[f] = call[a].want /\ call[a].old \in Names /\ Chain(f, call[a].old)
    BY <1>1, <1>3, <1>6 DEF Back, Knows
  <2>4. Recorded(a)
    <3>1. call[a].old # None
      BY <2>3, NamesAssumption
    <3>2. recorded' = recorded \cup {call[a].no}
      BY <2>1, <2>2, <2>3, <3>1 DEF Verified, At
    <3>3. call[a].no \notin recorded
      BY <1>1 DEF Numbered
    <3> QED
      BY <1>4, <3>2, <3>3 DEF Leaves
  <2>5. \A b \in Agents \ {a} : call[b].fn # f
    BY <1>1, <1>6, OnlyAt
  <2>6. \A t \in Tabs : About(log[t], f) # {} => t = TabOf[a]
    BY <1>1, <1>6, AtHome
  <2>7. Puts(TabOf[a], Record(call[a])) /\ Record(call[a]).fn = f
    BY <1>6, <2>4 DEF Recorded
  <2>8. Record(call[a]).old = call[a].old /\ Record(call[a]).new = call[a].want
    BY DEF Record
  <2>9. Types
    BY DEF Basic
  <2>10. \A r : Puts(TabOf[a], r) /\ r.fn = f /\ Chain(f, r.old) => Chain(f, r.new)'
    BY <1>1, <2>6, <2>9, ChainGrows
  <2>11. \A n : n = call[a].want => Chain(f, n)'
    BY <2>3, <2>7, <2>8, <2>10
  <2>12. Chain(f, name[f])'
    BY <1>3, <2>3, <2>11 DEF Chain
  <2> QED
    BY <1>2, <2>5, <2>12, OnlyBack
<1> QED
  BY <1>5, <1>6

LEMMA BackUndone ==
    ASSUME Basic, Numbered, UndoMeaning, Apartness, FunctionsOfTabs, Home, Returns, NEW a \in Agents, Undone(a),
           NEW f \in Addresses \ contested'
    PROVE  Back(f)'
<1> DEFINE tab == TabOf[a]
<1>1. UNCHANGED <<name, contested>> /\ call[a].why = "undo" /\ call[a].stage \in {"back", "failed"} /\ tab \in Tabs
  BY TabAssumption DEF Undone, Returned
<1>2. Ends(a) /\ Alone(a) /\ call'[a].fn # f
  BY FinishEnds, BasicFacts, NamesAssumption DEF Undone, Ends, Idle
<1>3. Back(f) /\ name'[f] = name[f] /\ Types
  BY <1>1 DEF Returns, Basic
<1>4. CASE call[a].stage = "failed"
  <2>1. log' = log /\ ~Ahead(a)
    BY <1>1, <1>4 DEF Undone, At, Ahead, Conclusive
  <2> QED
    BY <1>1, <1>2, <2>1, BackEnds
<1>5. CASE call[a].stage = "back"
  <2>1. Unrecorded(a) /\ Ahead(a)
    BY <1>1, <1>5, UndoneDrops DEF Leaves, Conclusive, Ahead, Mutating
  <2>2. CASE call[a].fn # f
    <3>1. ASSUME NEW k \in DOMAIN log[tab], log[tab][k].no = call[a].undoing, Takes(tab, k)
          PROVE  AlikeOn(f)
      <4>1. log[tab][k].fn = call[a].fn
        BY <1>1, <3>1 DEF UndoMeaning, Reverses
      <4> QED
        BY <1>1, <1>3, <2>2, <3>1, <4>1, TakesIsAlike
    <3>2. AlikeOn(f)
      BY <2>1, <3>1, UnchangedIsAlike DEF Unrecorded
    <3> QED
      BY <1>2, <1>3, <2>2, <3>2, OneUndisturbed
  <2>3. CASE call[a].fn = f
    <3>1. PICK k \in DOMAIN log[tab] : LastAbout(a, f, k) /\ name[f] = call[a].want /\ Chain(f, log[tab][k].new)
      BY <1>1, <1>3, <2>1, <2>3 DEF Back, Knows
    <3>2. k \in About(log[tab], f) /\ (\A j \in About(log[tab], f) : j <= k)
          /\ log[tab][k].no = call[a].undoing /\ log[tab][k].old = call[a].want
      BY <3>1 DEF LastAbout
    <3>3. Takes(tab, k)
      <4>1. ASSUME NEW l \in DOMAIN log[tab], log[tab][l].no = call[a].undoing, Takes(tab, l)
            PROVE  Takes(tab, k)
        <5>1. l = k
          BY <1>1, <3>2, <4>1 DEF Numbered
        <5> QED
          BY <4>1, <5>1
      <4> QED
        BY <2>1, <3>2, <4>1 DEF Unrecorded
    <3>4. \A t \in Tabs : About(log[t], f) # {} => t = tab
      BY <1>1, <3>2, OneHome
    <3>5. \A m : m = log[tab][k].old => Chain(f, m)'
      BY <1>1, <1>3, <3>1, <3>2, <3>3, <3>4, ChainShrinks
    <3>6. Chain(f, name[f])'
      BY <1>3, <3>1, <3>2, <3>5 DEF Chain
    <3>7. \A b \in Agents \ {a} : call[b].fn # f
      BY <1>1, <2>3, OnlyAt
    <3> QED
      BY <1>2, <3>6, <3>7, OnlyBack
  <2> QED
    BY <2>2, <2>3
<1> QED
  BY <1>1, <1>4, <1>5

LEMMA ReturnsKept ==
    ASSUME FunctionsOfTabs, RestoreInv, [Next]_vars
    PROVE  Returns'
<1>0. Basic /\ Numbered /\ UndoMeaning /\ Apartness /\ Fresh /\ Home /\ Doubted /\ Returns
  BY DEF RestoreInv, CacheInv, StackInv
<1>1. SUFFICES ASSUME NEW f \in Addresses \ contested'
               PROVE  Back(f)'
  BY DEF Returns
<1>2. CASE UNCHANGED vars
  <2>1. Back(f)
    BY <1>0, <1>2 DEF vars, Returns
  <2> QED
    BY <1>2, <2>1 DEF vars, Back, Knows, Chain, Ahead, Mutating, LastAbout
<1>3. ASSUME NEW o \in orphans, OrphanHandler(o)
      PROVE  Back(f)'
  BY <1>0, <1>3, BackOrphan DEF Basic, Types
<1>4. ASSUME NEW a \in Agents, (\E g \in Touches[a] : Read(a, g)) \/ (\E g \in Touches[a], n \in Names : Rename(a, g, n)) \/ Undo(a)
      PROVE  Back(f)'
  BY <1>0, <1>4, BackAsk
<1>5. ASSUME NEW a \in Agents, TakeLock(a) \/ StartJob(a) \/ Handler(a)
      PROVE  Back(f)'
  BY <1>0, <1>5, BackMoves, BackHandler
<1>6. ASSUME NEW a \in Agents, Lookup(a) \/ Store(a) \/ Release(a) \/ Invalidate(a) \/ TimeOut(a)
      PROVE  Back(f)'
  BY <1>0, <1>6, BackLookup, BackMoves
<1>7. ASSUME NEW a \in Agents, ReadDone(a) \/ Captured(a) \/ Renamed(a) \/ Verified(a) \/ Undone(a)
      PROVE  Back(f)'
  BY <1>0, <1>7, BackReadDone, BackCaptured, BackRenamed, BackVerified, BackUndone
<1> QED
  BY <1>2, <1>3, <1>4, <1>5, <1>6, <1>7 DEF Next, Progress

LEMMA RestoreAtFirst ==
    ASSUME Init
    PROVE  RestoreInv
<1>1. \A a \in Agents : call[a].why = "none" /\ call[a].fn = None /\ call[a].stage = "idle"
  BY DEF Init, Idle
<1>2. \A t \in Tabs : log[t] = <<>>
  BY DEF Init
<1>3. \A t \in Tabs : DOMAIN log[t] = {}
  BY <1>2
<1>4. Home
  BY <1>1, <1>3 DEF Home
<1>5. Doubted
  BY <1>1 DEF Doubted
<1>6. \A f \in Addresses : Chain(f, name[f])
  BY <1>3 DEF Chain, About, LeadsBack, Init
<1>7. Returns
  BY <1>1, <1>6, NamesAssumption DEF Returns, Back
<1> QED
  BY <1>4, <1>5, <1>7, CacheAtFirst DEF RestoreInv

LEMMA RestoreKept ==
    ASSUME NoViews, FunctionsOfTabs, RestoreInv, [Next]_vars
    PROVE  RestoreInv'
<1>1. CacheInv' /\ Basic
  BY CacheKept DEF RestoreInv, CacheInv, StackInv
<1>2. Home' /\ Doubted'
  BY <1>1, HomeKept, DoubtedKept DEF RestoreInv
<1> QED
  BY <1>1, <1>2, ReturnsKept DEF RestoreInv

LEMMA RestoreSays ==
    ASSUME RestoreInv
    PROVE  UndoRestores
<1>1. ASSUME NEW f \in Addresses \ contested, AtRest(f)
      PROVE  Chain(f, name[f])
  <2>1. \A a \in Agents : call[a].fn = f => ~Ahead(a)
    BY <1>1 DEF AtRest, Ahead, Mutating
  <2> QED
    BY <2>1 DEF RestoreInv, Returns, Back
<1> QED
  BY <1>1 DEF UndoRestores, Chain

\* When the agents of one tab rename a function and all agents use one registry,
\* the records about a function at rest lead back from its name, through the
\* names it had, to the one it had at first: /undo to the bottom of the stack
\* restores it (loop_commands.py, mutation.py).
THEOREM UndoLeadsBack == NoViews /\ FunctionsOfTabs /\ Spec => []UndoRestores
<1>1. SUFFICES ASSUME NoViews, FunctionsOfTabs PROVE Spec => []UndoRestores
  OBVIOUS
<1>2. Init => RestoreInv
  BY RestoreAtFirst
<1>3. RestoreInv /\ [Next]_vars => RestoreInv'
  BY <1>1, RestoreKept
<1>4. RestoreInv => UndoRestores
  BY RestoreSays
<1> QED
  BY <1>2, <1>3, <1>4, PTL DEF Spec
=============================================================================
