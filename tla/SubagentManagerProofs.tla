----------------------- MODULE SubagentManagerProofs -----------------------
(***************************************************************************)
(* Proofs about SubagentManager, for any number of agents, cancellations   *)
(* and registrations and any cap: the fan-out stays below its bound, and   *)
(* the end of every agent is announced.                                    *)
(***************************************************************************)
EXTENDS SubagentManager, FiniteSetTheorems, SequenceTheorems, TLAPS

-----------------------------------------------------------------------------
(* The inductive invariant *)

\* TypeOK without its last conjunct, the bound of the fan-out.
Types ==
    /\ status \in [Children -> {"unborn", "pending", "running"} \cup Terminal]
    /\ parent \in [Children -> Loops \cup {Renamer, NoOne}]
    /\ cancel \in [Loops -> BOOLEAN]
    /\ worker \in [Children -> {"none", "born", "preflight", "run", "commit",
                                "fail", "kill", "over"}]
    /\ loop \in [Loops -> {"off", "turn", "slot", "spawn", "join", "teardown", "over"}]
    /\ pending \in [Loops -> SUBSET Children]
    /\ todo \in [Loops -> SUBSET Children]
    /\ victim \in [Loops -> Children \cup {NoOne}]
    /\ tab \in Children \cup {NoOne}
    /\ clicked \subseteq Loops
    /\ ends \in [Children -> Seq(Terminal)]
    /\ \A c \in Children : worker[c] = "run" <=> loop[c] \notin {"off", "over"}

\* The agents that exist have the first ids, and nothing happened to the others.
Numbered ==
    /\ \E k \in 0..MaxAgents : Born = 1..k
    /\ \A c \in Children \ Born :
        worker[c] = "none" /\ parent[c] = NoOne /\ ends[c] = <<>> /\ ~cancel[c] /\ c \notin clicked

\* A loop deals with children of its own, and its teardown with the batch it
\* was joining.
Kin ==
    /\ \A l \in Loops :
        /\ \A c \in pending[l] : parent[c] = l
        /\ todo[l] \subseteq pending[l]
        /\ todo[l] # {} \/ victim[l] # NoOne => loop[l] = "teardown"
        /\ victim[l] # NoOne => victim[l] \in pending[l] \ todo[l] /\ cancel[victim[l]]
        /\ loop[l] = "teardown" => cancel[l]
    /\ \A c \in Children : worker[c] \notin {"none", "over"} => parent[c] \in Loops
    /\ tab # NoOne => tab \in clicked

\* The end that the record of c shows was announced.
Told(c) == {status[c], Announcement(c)} \cap Range(ends[c]) # {}

\* An agent of the renamer nobody cancelled: failures, and its end behind them.
Reported(c) ==
    /\ worker[c] = "over" => ends[c] # <<>> /\ ends[c][Len(ends[c])] = Announcement(c)
    /\ \A k \in DOMAIN ends[c] : ends[c][k] = "failed" \/ (worker[c] = "over" /\ k = Len(ends[c]))

\* What the record of an agent shows, and who may have written it.
Shows(c) ==
    /\ status[c] \in Terminal => Told(c)
    /\ parent[c] = Renamer /\ c \notin Cancelled => Reported(c)
    /\ worker[c] = "over" => status[c] \in Terminal
    /\ status[c] = "cancelled" /\ parent[c] # Renamer => c \in Cancelled
    /\ worker[c] = "kill" => c \in Cancelled
    /\ worker[c] = "born" => status[c] \in {"pending", "cancelled"}
    /\ worker[c] \in {"preflight", "run"} /\ c \notin Cancelled => status[c] = "running"

Shown == \A c \in Children : Shows(c)

\* The teardown of its parent is through with c, or will never come.
Torn(c) ==
    /\ cancel[c] /\ parent[c] \in Loops
    /\ c \notin todo[parent[c]] /\ victim[parent[c]] # c
    /\ c \in pending[parent[c]] => loop[parent[c]] = "teardown"

One(b) == IF b THEN 1 ELSE 0

\* The worker, the parent and the user announce an end of a child once each.
Counts(c) ==
    parent[c] # Renamer =>
        Len(ends[c]) <= One(worker[c] = "over") + One(Torn(c)) + One(c \in clicked /\ tab # c)

Counted == \A c \in Children : Counts(c)

\* Loops that took a slot and will spawn count as agents.
Free == {c \in Active \ Cancelled : parent[c] # Renamer}
Spawners == {l \in Loops : loop[l] = "spawn"}
FanOut == Cardinality(Free) + Cardinality(Spawners) <= 2 * Cap - 1 + Cardinality(Cancelled)

IInv == Types /\ Numbered /\ Kin /\ Shown /\ Counted /\ FanOut

-----------------------------------------------------------------------------
(* The types *)

LEMMA Numbers ==
    /\ MaxAgents \in Nat \ {0} /\ Cap \in Nat \ {0}
    /\ Children = 1..MaxAgents /\ Root = 0 /\ Loops = 0..MaxAgents
    /\ Root \notin Children /\ Root \in Loops /\ \A c \in Children : c \in Loops
    /\ Renamer \notin Loops /\ NoOne \notin Loops /\ Renamer # NoOne
BY SubagentAssumption DEF Children, Root, Loops, Renamer, NoOne

\* The next id is that of an agent nothing happened to yet.
LEMMA Unborn ==
    ASSUME Types, Numbered, NEW c \in Children, NEW by, Create(c, by)
    PROVE  /\ status[c] = "unborn" /\ worker[c] = "none" /\ parent[c] = NoOne
           /\ ends[c] = <<>> /\ ~cancel[c] /\ c \notin clicked
           /\ \E k \in 0..MaxAgents : Born \cup {c} = 1..k
<1>1. PICK k \in 0..MaxAgents : Born = 1..k
  BY DEF Numbered
<1>2. Cardinality(Born) = k
  BY <1>1, FS_Interval, Numbers
<1>3. c = k + 1
  BY <1>2 DEF Create
<1>4. c \notin Born /\ Born \cup {c} = 1..(k + 1) /\ k + 1 \in 0..MaxAgents
  BY <1>1, <1>3, Numbers
<1> QED
  BY <1>4 DEF Numbered, Born

LEMMA TypesWorker ==
    ASSUME Types, NEW c \in Children, WorkerStep(c)
    PROVE  Types'
<1>0. c \in Loops
  BY Numbers
<1>1. CASE SetRunning(c)
  BY <1>1 DEF Types, SetRunning, Go, Set, workerOnly
<1>2. CASE Preflight(c)
  <2>1. CASE cancel[c]
    <3>1. Finalizing(c) \in {"over", "kill"}
      BY DEF Finalizing
    <3>2. worker' = [worker EXCEPT ![c] = Finalizing(c)] /\ loop' = loop /\ worker[c] = "preflight"
      BY <1>2, <2>1 DEF Preflight, Set
    <3>3. UNCHANGED <<status, parent, cancel, pending, todo, victim, tab, clicked, ends>>
      BY <1>2 DEF Preflight
    <3> QED
      BY <1>0, <3>1, <3>2, <3>3 DEF Types
  <2>2. CASE ~cancel[c]
    <3>1. worker' = [worker EXCEPT ![c] = "run"] /\ loop' = [loop EXCEPT ![c] = "turn"] /\ worker[c] = "preflight"
      BY <1>2, <2>2 DEF Preflight, Set
    <3>2. UNCHANGED <<status, parent, cancel, pending, todo, victim, tab, clicked, ends>>
      BY <1>2 DEF Preflight
    <3>3. \A d \in Children : worker'[d] = "run" <=> loop'[d] \notin {"off", "over"}
      BY <1>0, <3>1, Numbers DEF Types
    <3> QED
      BY <1>0, <3>1, <3>2, <3>3 DEF Types
  <2> QED
    BY <2>1, <2>2
<1>3. CASE Kill(c)
  BY <1>3 DEF Types, Kill, Go, Set, Finalize, Put, workerOnly, Terminal
<1>4. CASE Commit(c)
  <2>1. PICK s \in {"completed", "failed"} : status' = [status EXCEPT ![c] = s] /\ ends' = [ends EXCEPT ![c] = Append(ends[c], s)]
    BY <1>4 DEF Commit, Set, Put
  <2>2. worker' = [worker EXCEPT ![c] = "over"] /\ worker[c] # "run" /\ workerOnly
    BY <1>4 DEF Commit, Set, Go
  <2>3. ends' \in [Children -> Seq(Terminal)] /\ status' \in [Children -> {"unborn", "pending", "running"} \cup Terminal]
    BY <2>1 DEF Types, Terminal
  <2> QED
    BY <2>2, <2>3 DEF Types, workerOnly
<1> QED
  BY <1>1, <1>2, <1>3, <1>4 DEF WorkerStep

\* A run ends; a child's worker goes on with its end: to finalize it if it was
\* cancelled and the record does not show it, to record it, or to nothing.
Ends(l, next) ==
    /\ next \in {"over", "kill", "commit", "fail"}
    /\ next = "over" => status[l] = "cancelled"
    /\ next = "kill" => cancel[l]

Quits(l) ==
    /\ loop[l] \in {"turn", "slot", "teardown"}
    /\ loop[l] = "teardown" => victim[l] = NoOne /\ todo[l] = {}
    /\ loop' = [loop EXCEPT ![l] = "over"] /\ pending' = [pending EXCEPT ![l] = {}]
    /\ loopOnly /\ todo' = todo
    /\ l = Root => worker' = worker
    /\ l # Root => \E next : Ends(l, next) /\ worker' = [worker EXCEPT ![l] = next]

Quitting(l) == EndRun(l) \/ Raise(l) \/ NoticeCancel(l) \/ SlotCancelled(l) \/ TornDown(l)

LEMMA QuittingQuits ==
    ASSUME NEW l \in Loops, Quitting(l), loop[l] = "teardown" => cancel[l]
    PROVE  Quits(l)
<1> SUFFICES ASSUME NEW next, next \in {"over", "kill", "commit", "fail"},
                    next = "over" => status[l] = "cancelled", next = "kill" => cancel[l],
                    loop' = [loop EXCEPT ![l] = "over"], pending' = [pending EXCEPT ![l] = {}],
                    l = Root => worker' = worker,
                    l # Root => worker' = [worker EXCEPT ![l] = next],
                    loopOnly, todo' = todo, loop[l] \in {"turn", "slot", "teardown"},
                    loop[l] = "teardown" => victim[l] = NoOne /\ todo[l] = {}
             PROVE  Quits(l)
  <2> DEFINE P(next) ==
        /\ next \in {"over", "kill", "commit", "fail"}
        /\ next = "over" => status[l] = "cancelled"
        /\ next = "kill" => cancel[l]
      W(next) == l # Root => worker' = [worker EXCEPT ![l] = next]
      Rest ==
        /\ loop' = [loop EXCEPT ![l] = "over"] /\ pending' = [pending EXCEPT ![l] = {}]
        /\ l = Root => worker' = worker
        /\ loopOnly /\ todo' = todo /\ loop[l] \in {"turn", "slot", "teardown"}
        /\ loop[l] = "teardown" => victim[l] = NoOne /\ todo[l] = {}
  <2>0. P(Settled(l)) /\ P("fail") /\ (cancel[l] => P(Finalizing(l)))
    BY DEF Settled, Finalizing
  <2>1. CASE EndRun(l)
    <3>1. Rest /\ W(Settled(l))
      BY <2>1 DEF EndRun, Leave, Set
    <3> QED
      BY <2>0, <3>1
  <2>2. CASE Raise(l)
    <3>1. CASE cancel[l]
      <4>1. Rest /\ W(Finalizing(l))
        BY <2>2, <3>1 DEF Raise, Leave, Set
      <4> QED
        BY <2>0, <3>1, <4>1
    <3>2. CASE ~cancel[l]
      <4>1. Rest /\ W("fail")
        BY <2>2, <3>2 DEF Raise, Leave, Set
      <4> QED
        BY <2>0, <4>1
    <3> QED
      BY <3>1, <3>2
  <2>3. CASE NoticeCancel(l)
    <3>1. Rest /\ W(Finalizing(l)) /\ cancel[l]
      BY <2>3 DEF NoticeCancel, Leave, Set
    <3> QED
      BY <2>0, <3>1
  <2>4. CASE SlotCancelled(l)
    <3>1. Rest /\ W(Finalizing(l)) /\ cancel[l]
      BY <2>4 DEF SlotCancelled, Leave, Set
    <3> QED
      BY <2>0, <3>1
  <2>5. CASE TornDown(l)
    <3>1. Rest /\ W(Finalizing(l)) /\ cancel[l]
      BY <2>5 DEF TornDown, Leave, Set
    <3> QED
      BY <2>0, <3>1
  <2> QED
    BY <2>1, <2>2, <2>3, <2>4, <2>5 DEF Quitting
<1> QED
  BY DEF Quits, Ends

LEMMA TypesQuits ==
    ASSUME Types, NEW l \in Loops, Quits(l)
    PROVE  Types'
<1>1. loop' = [loop EXCEPT ![l] = "over"] /\ pending' = [pending EXCEPT ![l] = {}] /\ loop[l] \notin {"off", "over"}
  BY DEF Quits
<1>2. UNCHANGED <<status, parent, cancel, todo, victim, tab, clicked, ends>>
  BY DEF Quits, loopOnly
<1>3. CASE l = Root
  <2>1. worker' = worker
    BY <1>3 DEF Quits
  <2> QED
    BY <1>1, <1>2, <1>3, <2>1, Numbers DEF Types
<1>4. CASE l # Root
  <2>1. l \in Children
    BY <1>4 DEF Loops
  <2>2. PICK next : Ends(l, next) /\ worker' = [worker EXCEPT ![l] = next]
    BY <1>4 DEF Quits
  <2>3. next \in {"over", "kill", "commit", "fail"}
    BY <2>2 DEF Ends
  <2>4. worker' \in [Children -> {"none", "born", "preflight", "run", "commit", "fail", "kill", "over"}]
    BY <2>1, <2>2, <2>3 DEF Types
  <2>5. \A c \in Children : worker'[c] = "run" <=> loop'[c] \notin {"off", "over"}
    BY <1>1, <2>1, <2>2, <2>3, Numbers DEF Types
  <2> QED
    BY <1>1, <1>2, <2>4, <2>5 DEF Types
<1> QED
  BY <1>3, <1>4

LEMMA TypesLoop ==
    ASSUME Types, NEW l \in Loops, LoopStep(l), ~Quitting(l), ~Spawn(l)
    PROVE  Types'
<1>4. CASE BeginSpawn(l)
  BY <1>4 DEF Types, BeginSpawn, Go, Set, loopOnly
<1>5. CASE TakeSlot(l)
  BY <1>5 DEF Types, TakeSlot, Go, Set, loopOnly
<1>8. CASE Join(l)
  BY <1>8 DEF Types, Join, Go, Set, loopOnly
<1>9. CASE Joined(l)
  BY <1>9 DEF Types, Joined, Go, Set, loopOnly
<1>10. CASE JoinCancelled(l)
  BY <1>10 DEF Types, JoinCancelled, Go, Set, loopOnly
<1>11. CASE CancelChild(l)
  <2>1. PICK c \in todo[l] : /\ cancel' = [cancel EXCEPT ![c] = TRUE]
                           /\ victim' = [victim EXCEPT ![l] = IF c \in Active THEN c ELSE NoOne]
                           /\ todo' = [todo EXCEPT ![l] = todo[l] \ {c}]
    BY <1>11 DEF CancelChild, Set
  <2>2. c \in Children
    BY DEF Types
  <2> QED
    BY <1>11, <2>1, <2>2 DEF Types, CancelChild
<1>12. CASE FinalizeChild(l)
  BY <1>12 DEF Types, FinalizeChild, Finalize, Put, Set, Terminal
<1> QED
  BY <1>4, <1>5, <1>8, <1>9, <1>10, <1>11, <1>12 DEF LoopStep, Quitting

LEMMA TypesSpawn ==
    ASSUME Types, Numbered, NEW l \in Loops, Spawn(l)
    PROVE  Types'
<1>1. PICK c \in Children : Create(c, l) /\ Set(worker, c, "born") /\ Set(pending, l, pending[l] \cup {c})
  BY DEF Spawn
<1>2. status' = [status EXCEPT ![c] = "pending"] /\ parent' = [parent EXCEPT ![c] = l]
      /\ worker' = [worker EXCEPT ![c] = "born"] /\ pending' = [pending EXCEPT ![l] = pending[l] \cup {c}]
  BY <1>1 DEF Create, Set
<1>3. loop[l] = "spawn" /\ loop' = [loop EXCEPT ![l] = "turn"] /\ UNCHANGED <<cancel, todo, victim, tab, clicked, ends>>
  BY DEF Spawn, Go, Set
<1>4. (l \in Children => c # l) /\ worker[c] = "none"
  BY <1>1, <1>3, Unborn DEF Types
<1>5. worker' \in [Children -> {"none", "born", "preflight", "run", "commit", "fail", "kill", "over"}]
  BY <1>2 DEF Types
<1>6. \A d \in Children : worker'[d] = "run" <=> loop'[d] \notin {"off", "over"}
  BY <1>2, <1>3, <1>4, Numbers DEF Types
<1> QED
  BY <1>2, <1>3, <1>5, <1>6, Numbers DEF Types

LEMMA TypesOthers ==
    ASSUME Types, Kin, CancelRun \/ NewRun \/ FinalizeClicked \/ RenamerStep \/ \E c \in Children : ClickCancel(c)
    PROVE  Types'
<1>1. CASE CancelRun
  BY <1>1, Numbers DEF Types, CancelRun, Click, Set
<1>2. CASE NewRun
  BY <1>2, Numbers DEF Types, NewRun, Go, Set
<1>3. CASE FinalizeClicked
  BY <1>3 DEF Types, FinalizeClicked, Finalize, Put, Set, Terminal
<1>4. ASSUME NEW c \in Children, ClickCancel(c)
      PROVE  Types'
  <2>1. tab' \in Children \cup {NoOne} /\ clicked' \subseteq Loops
    BY <1>4, Numbers DEF Types, ClickCancel, Click
  <2>2. cancel' \in [Loops -> BOOLEAN]
    BY <1>4 DEF Types, ClickCancel, Set
  <2> QED
    BY <1>4, <2>1, <2>2 DEF Types, ClickCancel
<1>5. ASSUME NEW c \in Children, Register(c)
      PROVE  Types'
  BY <1>5, Numbers DEF Types, Register, Create, Set
<1>6. ASSUME NEW c \in Children, NEW s \in {"running"} \cup Terminal, UpdateExternal(c, s)
      PROVE  Types'
  <2>1. status' \in [Children -> {"unborn", "pending", "running"} \cup Terminal]
    BY <1>6 DEF Types, UpdateExternal, Set
  <2>2. PICK e \in Terminal : ends' = [ends EXCEPT ![c] = Append(ends[c], e)]
    BY <1>6 DEF UpdateExternal, Put, Set, Terminal
  <2>3. ends' \in [Children -> Seq(Terminal)]
    BY <2>2 DEF Types
  <2>4. worker' = worker \/ worker' = [worker EXCEPT ![c] = "over"]
    BY <1>6 DEF UpdateExternal, Set
  <2>5. worker[c] # "run"
    BY <1>6, Numbers DEF UpdateExternal, Kin
  <2> QED
    BY <1>6, <2>1, <2>3, <2>4, <2>5 DEF Types, UpdateExternal
<1> QED
  BY <1>1, <1>2, <1>3, <1>4, <1>5, <1>6 DEF RenamerStep

-----------------------------------------------------------------------------
(* Ids *)

\* Whoever a step is about exists.
LEMMA Known ==
    ASSUME Types, Numbered, Kin
    PROVE  /\ \A c \in Children : worker[c] # "none" \/ parent[c] # NoOne \/ cancel[c] \/ c \in clicked
                                    => status[c] # "unborn"
           /\ \A l \in Loops : pending[l] \subseteq Born /\ todo[l] \subseteq Born
                                /\ (victim[l] # NoOne => status[victim[l]] # "unborn")
           /\ tab # NoOne => status[tab] # "unborn"
           /\ \A c \in Children : loop[c] \notin {"off", "over"} => status[c] # "unborn"
<1>1. \A c \in Children : worker[c] # "none" \/ parent[c] # NoOne \/ cancel[c] \/ c \in clicked => status[c] # "unborn"
  BY DEF Numbered, Born
<1>2. ASSUME NEW l \in Loops
      PROVE  pending[l] \subseteq Born
  <2>1. \A c \in pending[l] : c \in Children /\ parent[c] # NoOne
    BY <1>2, Numbers DEF Kin, Types
  <2> QED
    BY <1>1, <2>1 DEF Born
<1>3. ASSUME NEW l \in Loops
      PROVE  todo[l] \subseteq Born /\ (victim[l] # NoOne => status[victim[l]] # "unborn")
  BY <1>2 DEF Kin, Born
<1>4. tab # NoOne => status[tab] # "unborn"
  BY <1>1 DEF Kin, Types
<1>5. \A c \in Children : loop[c] \notin {"off", "over"} => worker[c] # "none"
  BY DEF Types
<1> QED
  BY <1>1, <1>2, <1>3, <1>4, <1>5

\* A step that is about agents that exist.
Keeps ==
    \A c \in Children :
        /\ status'[c] = "unborn" <=> status[c] = "unborn"
        /\ status[c] = "unborn" =>
            /\ worker'[c] = worker[c] /\ parent'[c] = parent[c] /\ ends'[c] = ends[c]
            /\ cancel'[c] = cancel[c] /\ (c \in clicked' => c \in clicked)

LEMMA KeepsNumbered ==
    ASSUME Numbered, Keeps
    PROVE  Numbered'
<1>1. Born' = Born
  BY DEF Born, Keeps
<1>2. \A c \in Children \ Born : status[c] = "unborn"
  BY DEF Born
<1> QED
  BY <1>1, <1>2 DEF Numbered, Keeps

LEMMA KeepsWorker ==
    ASSUME Types, Numbered, Kin, NEW c \in Children, WorkerStep(c)
    PROVE  Keeps
<1>0. status[c] # "unborn" /\ c \in Loops
  BY Known, Numbers DEF WorkerStep, SetRunning, Preflight, Kill, Commit, Go
<1>1. CASE SetRunning(c)
  BY <1>0, <1>1 DEF Keeps, Types, SetRunning, Go, Set, workerOnly
<1>2. CASE Preflight(c)
  <2>1. \A d \in Children : d # c => worker'[d] = worker[d]
    BY <1>2 DEF Preflight, Set, Types
  <2> QED
    BY <1>0, <1>2, <2>1 DEF Keeps, Preflight
<1>3. CASE Kill(c)
  BY <1>0, <1>3 DEF Keeps, Types, Kill, Go, Set, Finalize, Put, workerOnly
<1>4. CASE Commit(c)
  <2>1. PICK s \in {"completed", "failed"} : status' = [status EXCEPT ![c] = s] /\ ends' = [ends EXCEPT ![c] = Append(ends[c], s)]
    BY <1>4 DEF Commit, Set, Put
  <2>2. worker' = [worker EXCEPT ![c] = "over"] /\ workerOnly
    BY <1>4 DEF Commit, Set, Go
  <2> QED
    BY <1>0, <2>1, <2>2 DEF Keeps, Types, workerOnly
<1> QED
  BY <1>1, <1>2, <1>3, <1>4 DEF WorkerStep

LEMMA KeepsQuits ==
    ASSUME Types, Numbered, Kin, NEW l \in Loops, Quits(l)
    PROVE  Keeps
<1>1. l \in Children => status[l] # "unborn"
  BY Known DEF Quits
<1>2. \A d \in Children : d # l => worker'[d] = worker[d]
  <2>1. CASE l = Root
    BY <2>1 DEF Quits
  <2>2. CASE l # Root
    BY <2>2 DEF Quits, Types
  <2> QED
    BY <2>1, <2>2
<1> QED
  BY <1>1, <1>2 DEF Keeps, Quits, loopOnly

LEMMA KeepsLoop ==
    ASSUME Types, Numbered, Kin, NEW l \in Loops, LoopStep(l), ~Quitting(l), ~Spawn(l)
    PROVE  Keeps
<1>1. CASE BeginSpawn(l) \/ TakeSlot(l) \/ Join(l) \/ Joined(l) \/ JoinCancelled(l)
  BY <1>1 DEF Keeps, BeginSpawn, TakeSlot, Join, Joined, JoinCancelled, loopOnly
<1>2. CASE CancelChild(l)
  <2>1. PICK c \in todo[l] : cancel' = [cancel EXCEPT ![c] = TRUE]
    BY <1>2 DEF CancelChild, Set
  <2>2. status[c] # "unborn"
    BY Known DEF Born
  <2> QED
    BY <1>2, <2>1, <2>2, Numbers DEF Keeps, CancelChild, Types
<1>3. CASE FinalizeChild(l)
  BY <1>3, Known DEF Keeps, Types, FinalizeChild, Finalize, Put, Set
<1> QED
  BY <1>1, <1>2, <1>3 DEF LoopStep, Quitting

LEMMA KeepsOthers ==
    ASSUME Types, Numbered, Kin
    PROVE  /\ CancelRun \/ NewRun \/ FinalizeClicked => Keeps
           /\ \A c \in Children : ClickCancel(c) => Keeps
           /\ \A c \in Children : \A s \in {"running"} \cup Terminal : UpdateExternal(c, s) => Keeps
<1>1. ASSUME CancelRun \/ NewRun
      PROVE  Keeps
  BY <1>1, Numbers DEF Keeps, CancelRun, NewRun, Click, Set, Types
<1>2. ASSUME FinalizeClicked
      PROVE  Keeps
  BY <1>2, Known DEF Keeps, FinalizeClicked, Finalize, Put, Set, Types
<1>3. ASSUME NEW c \in Children, ClickCancel(c)
      PROVE  Keeps
  <2>1. status[c] # "unborn"
    BY <1>3 DEF ClickCancel, Born
  <2>2. \A d \in Children : d # c => cancel'[d] = cancel[d]
    BY <1>3, Numbers DEF ClickCancel, Set, Types
  <2>3. clicked' = clicked \cup {c}
    BY <1>3 DEF ClickCancel, Click
  <2> QED
    BY <1>3, <2>1, <2>2, <2>3 DEF Keeps, ClickCancel
<1>4. ASSUME NEW c \in Children, NEW s \in {"running"} \cup Terminal, UpdateExternal(c, s)
      PROVE  Keeps
  <2>1. status[c] # "unborn" /\ s # "unborn"
    BY <1>4, Known, Numbers DEF UpdateExternal, Terminal
  <2>2. \A d \in Children : d # c => worker'[d] = worker[d] /\ ends'[d] = ends[d]
    BY <1>4 DEF UpdateExternal, Put, Set, Types
  <2>3. status' = [status EXCEPT ![c] = s] /\ UNCHANGED <<parent, cancel, clicked>>
    BY <1>4 DEF UpdateExternal, Set
  <2> QED
    BY <2>1, <2>2, <2>3 DEF Keeps, Types
<1> QED
  BY <1>1, <1>2, <1>3, <1>4

\* An agent is created: by a loop, with a worker, or by the renamer, without.
Creates(c, by) ==
    /\ status' = [status EXCEPT ![c] = "pending"] /\ parent' = [parent EXCEPT ![c] = by]
    /\ status[c] = "unborn" /\ worker[c] = "none" /\ parent[c] = NoOne
    /\ ends[c] = <<>> /\ ~cancel[c] /\ c \notin clicked
    /\ UNCHANGED <<cancel, todo, victim, tab, clicked, ends>>
    /\ \/ /\ by \in Loops /\ loop[by] = "spawn" /\ c # by
          /\ loop' = [loop EXCEPT ![by] = "turn"]
          /\ worker' = [worker EXCEPT ![c] = "born"]
          /\ pending' = [pending EXCEPT ![by] = pending[by] \cup {c}]
       \/ by = Renamer /\ UNCHANGED <<loop, worker, pending>>

LEMMA SpawnCreates ==
    ASSUME Types, Numbered, NEW l \in Loops, Spawn(l)
    PROVE  \E c \in Children : Create(c, l) /\ Creates(c, l)
<1>1. PICK c \in Children : Create(c, l) /\ Set(worker, c, "born") /\ Set(pending, l, pending[l] \cup {c})
  BY DEF Spawn
<1>2. loop[l] = "spawn" /\ loop' = [loop EXCEPT ![l] = "turn"] /\ UNCHANGED <<cancel, todo, victim, tab, clicked, ends>>
  BY DEF Spawn, Go, Set
<1>3. status[c] = "unborn" /\ worker[c] = "none" /\ parent[c] = NoOne
        /\ ends[c] = <<>> /\ ~cancel[c] /\ c \notin clicked
  BY <1>1, Unborn
<1>4. c # l
  BY <1>2, <1>3 DEF Types
<1>5. status' = [status EXCEPT ![c] = "pending"] /\ parent' = [parent EXCEPT ![c] = l]
      /\ worker' = [worker EXCEPT ![c] = "born"] /\ pending' = [pending EXCEPT ![l] = pending[l] \cup {c}]
  BY <1>1 DEF Create, Set
<1> QED
  BY <1>1, <1>2, <1>3, <1>4, <1>5 DEF Creates

LEMMA RegisterCreates ==
    ASSUME Types, Numbered, NEW c \in Children, Register(c)
    PROVE  Create(c, Renamer) /\ Creates(c, Renamer)
<1>1. Create(c, Renamer) /\ UNCHANGED <<cancel, worker, loop, pending, todo, victim, tab, clicked, ends>>
  BY DEF Register
<1>2. status[c] = "unborn" /\ worker[c] = "none" /\ parent[c] = NoOne
        /\ ends[c] = <<>> /\ ~cancel[c] /\ c \notin clicked
  BY <1>1, Unborn
<1>3. status' = [status EXCEPT ![c] = "pending"] /\ parent' = [parent EXCEPT ![c] = Renamer]
  BY <1>1 DEF Create, Set
<1> QED
  BY <1>1, <1>2, <1>3 DEF Creates

LEMMA CreatesNumbered ==
    ASSUME Types, Numbered, NEW c \in Children, NEW by, Create(c, by), Creates(c, by)
    PROVE  Numbered'
<1>1. PICK k \in 0..MaxAgents : Born \cup {c} = 1..k
  BY Unborn
<1>2. \A d \in Children : status'[d] # "unborn" <=> status[d] # "unborn" \/ d = c
  BY DEF Creates, Types
<1>3. Born' = Born \cup {c}
  BY <1>2 DEF Born
<1>4. ASSUME NEW d \in Children \ Born'
      PROVE  worker'[d] = "none" /\ parent'[d] = NoOne /\ ends'[d] = <<>> /\ ~cancel'[d] /\ d \notin clicked'
  <2>1. d # c /\ d \in Children \ Born
    BY <1>3, <1>4
  <2>2. worker'[d] = worker[d] /\ parent'[d] = parent[d]
    BY <2>1 DEF Creates, Types
  <2> QED
    BY <2>1, <2>2 DEF Creates, Numbered
<1> QED
  BY <1>1, <1>3, <1>4 DEF Numbered

-----------------------------------------------------------------------------
(* Families *)

LEMMA KinWorker ==
    ASSUME Types, Kin, NEW c \in Children, WorkerStep(c)
    PROVE  Kin'
<1>1. UNCHANGED <<parent, cancel, pending, todo, victim, tab, clicked>>
  BY DEF WorkerStep, SetRunning, Preflight, Kill, Commit, workerOnly
<1>2. worker[c] \notin {"none", "over", "run"} /\ \A d \in Children : d # c => worker'[d] = worker[d]
  BY DEF WorkerStep, SetRunning, Preflight, Kill, Commit, Go, Set, Types
<1>3. \A l \in Loops : loop'[l] = loop[l] \/ (l = c /\ loop'[l] = "turn")
  <2>1. loop' = loop \/ loop' = [loop EXCEPT ![c] = "turn"]
    BY DEF WorkerStep, SetRunning, Preflight, Kill, Commit, Set, workerOnly
  <2> QED
    BY <2>1 DEF Types
<1>4. loop[c] # "teardown"
  BY <1>2 DEF Types
<1>5. \A l \in Loops : loop'[l] = "teardown" <=> loop[l] = "teardown"
  BY <1>3, <1>4
<1>6. \A d \in Children : worker'[d] \notin {"none", "over"} => parent[d] \in Loops
  BY <1>2 DEF Kin
<1> QED
  BY <1>1, <1>5, <1>6 DEF Kin

LEMMA KinQuits ==
    ASSUME Types, Kin, NEW l \in Loops, Quits(l)
    PROVE  Kin'
<1>1. todo[l] = {} /\ victim[l] = NoOne
  BY DEF Quits, Kin
<1>2. UNCHANGED <<parent, cancel, todo, victim, tab, clicked>>
  BY DEF Quits, loopOnly
<1>3. \A m \in Loops : m # l => loop'[m] = loop[m] /\ pending'[m] = pending[m]
  BY DEF Quits, Types
<1>4. loop'[l] = "over" /\ pending'[l] = {}
  BY DEF Quits, Types
<1>5. \A d \in Children : d # l => worker'[d] = worker[d]
  <2>1. CASE l = Root
    BY <2>1 DEF Quits
  <2>2. CASE l # Root
    BY <2>2 DEF Quits, Types
  <2> QED
    BY <2>1, <2>2
<1>6. l \in Children => worker[l] = "run"
  BY DEF Quits, Types
<1>7. \A d \in Children : worker'[d] \notin {"none", "over"} => parent[d] \in Loops
  BY <1>5, <1>6 DEF Kin
<1> QED
  BY <1>1, <1>2, <1>3, <1>4, <1>7 DEF Kin

LEMMA KinLoop ==
    ASSUME Types, Kin, NEW l \in Loops, LoopStep(l), ~Quitting(l), ~Spawn(l)
    PROVE  Kin'
<1>1. UNCHANGED <<parent, worker, tab, clicked>>
  BY DEF LoopStep, Quitting, BeginSpawn, TakeSlot, Join, Joined, JoinCancelled, CancelChild,
         FinalizeChild, loopOnly
<1>2. CASE BeginSpawn(l) \/ TakeSlot(l) \/ Join(l)
  <2>1. UNCHANGED <<cancel, pending, todo, victim>>
    BY <1>2 DEF BeginSpawn, TakeSlot, Join, loopOnly
  <2>2. loop[l] # "teardown" /\ loop'[l] # "teardown" /\ \A m \in Loops : m # l => loop'[m] = loop[m]
    BY <1>2 DEF BeginSpawn, TakeSlot, Join, Go, Set, Types
  <2> QED
    BY <1>1, <2>1, <2>2 DEF Kin
<1>3. CASE Joined(l)
  <2>1. UNCHANGED <<cancel, todo, victim>> /\ loop[l] = "join" /\ loop'[l] = "turn" /\ pending'[l] = {}
    BY <1>3 DEF Joined, Go, Set, loopOnly, Types
  <2>2. \A m \in Loops : m # l => loop'[m] = loop[m] /\ pending'[m] = pending[m]
    BY <1>3 DEF Joined, Go, Set, Types
  <2>3. todo[l] = {} /\ victim[l] = NoOne
    BY <2>1 DEF Kin
  <2> QED
    BY <1>1, <2>1, <2>2, <2>3 DEF Kin
<1>4. CASE JoinCancelled(l)
  <2>1. UNCHANGED <<cancel, pending, victim>> /\ loop[l] = "join" /\ loop'[l] = "teardown" /\ todo'[l] = pending[l] /\ cancel[l]
    BY <1>4 DEF JoinCancelled, Go, Set, loopOnly, Types
  <2>2. \A m \in Loops : m # l => loop'[m] = loop[m] /\ todo'[m] = todo[m]
    BY <1>4 DEF JoinCancelled, Go, Set, Types
  <2>3. victim[l] = NoOne
    BY <2>1 DEF Kin
  <2> QED
    BY <1>1, <2>1, <2>2, <2>3 DEF Kin
<1>5. CASE CancelChild(l)
  <2>1. PICK c \in todo[l] : /\ cancel' = [cancel EXCEPT ![c] = TRUE]
                           /\ victim' = [victim EXCEPT ![l] = IF c \in Active THEN c ELSE NoOne]
                           /\ todo' = [todo EXCEPT ![l] = todo[l] \ {c}]
    BY <1>5 DEF CancelChild, Set
  <2>2. loop[l] = "teardown" /\ UNCHANGED <<loop, pending>> /\ c \in pending[l] /\ c \in Loops
    BY <1>5, Numbers DEF CancelChild, Kin, Types
  <2>3. \A m \in Loops : cancel[m] => cancel'[m]
    BY <2>1 DEF Types
  <2>4. cancel'[c] /\ victim'[l] \in {c, NoOne} /\ todo'[l] = todo[l] \ {c}
    BY <2>1, <2>2 DEF Types
  <2>5. \A m \in Loops : m # l => victim'[m] = victim[m] /\ todo'[m] = todo[m]
    BY <2>1 DEF Types
  <2>6. ASSUME NEW m \in Loops, victim'[m] # NoOne
        PROVE  victim'[m] \in pending[m] \ todo'[m] /\ cancel'[victim'[m]]
    <3>1. CASE m = l
      BY <2>2, <2>4, <2>6, <3>1
    <3>2. CASE m # l
      <4>1. victim[m] \in pending[m] \ todo[m] /\ cancel[victim[m]] /\ victim[m] \in Loops
        BY <2>5, <2>6, <3>2, Numbers DEF Kin, Types
      <4> QED
        BY <2>3, <2>5, <3>2, <4>1
    <3> QED
      BY <3>1, <3>2
  <2>7. \A m \in Loops : todo'[m] \subseteq pending[m] /\ (todo'[m] # {} \/ victim'[m] # NoOne => loop[m] = "teardown")
    BY <2>2, <2>4, <2>5 DEF Kin
  <2> QED
    BY <1>1, <2>2, <2>3, <2>6, <2>7 DEF Kin
<1>6. CASE FinalizeChild(l)
  BY <1>1, <1>6 DEF Kin, FinalizeChild, Set, Types
<1> QED
  BY <1>2, <1>3, <1>4, <1>5, <1>6 DEF LoopStep, Quitting

LEMMA KinCreates ==
    ASSUME Types, Numbered, Kin, NEW c \in Children, NEW by, Creates(c, by)
    PROVE  Kin'
<1>1. UNCHANGED <<cancel, todo, victim, tab, clicked>> /\ parent' = [parent EXCEPT ![c] = by]
  BY DEF Creates
<1>2. \A l \in Loops : c \notin pending[l]
  BY Known DEF Creates, Born
<1>3. CASE by \in Loops
  <2>1. loop[by] = "spawn" /\ loop' = [loop EXCEPT ![by] = "turn"] /\ worker' = [worker EXCEPT ![c] = "born"]
        /\ pending' = [pending EXCEPT ![by] = pending[by] \cup {c}]
    BY <1>3, Numbers DEF Creates
  <2>2. \A l \in Loops : pending'[l] = IF l = by THEN pending[l] \cup {c} ELSE pending[l]
    BY <2>1 DEF Types
  <2>3. \A l \in Loops : loop'[l] = "teardown" <=> loop[l] = "teardown"
    BY <2>1 DEF Types
  <2>4. \A d \in Children : parent'[d] = IF d = c THEN by ELSE parent[d]
    BY <1>1 DEF Types
  <2>5. ASSUME NEW l \in Loops, NEW d \in pending'[l]
        PROVE  parent'[d] = l
    <3>1. d \in Children
      BY <1>3, <2>2 DEF Types
    <3>2. CASE d = c
      BY <1>2, <2>2, <2>4, <3>1, <3>2
    <3>3. CASE d # c
      <4>1. d \in pending[l]
        BY <2>2, <2>5, <3>3
      <4> QED
        BY <2>4, <3>1, <3>3, <4>1 DEF Kin
    <3> QED
      BY <3>2, <3>3
  <2>6. \A d \in Children : worker'[d] \notin {"none", "over"} => parent'[d] \in Loops
    BY <1>3, <2>1, <2>4 DEF Kin, Types
  <2>7. \A l \in Loops : pending[l] \subseteq pending'[l]
    BY <2>2
  <2>8. \A l \in Loops : victim[l] # NoOne => victim[l] \in pending'[l] \ todo[l] /\ cancel[victim[l]]
    BY <2>7 DEF Kin
  <2>9. \A l \in Loops : todo[l] \subseteq pending'[l]
    BY <2>7 DEF Kin
  <2>10. \A l \in Loops : /\ todo[l] # {} \/ victim[l] # NoOne => loop'[l] = "teardown"
                          /\ loop'[l] = "teardown" => cancel[l]
    BY <2>3 DEF Kin
  <2>11. tab # NoOne => tab \in clicked
    BY DEF Kin
  <2> QED
    BY <1>1, <2>5, <2>6, <2>8, <2>9, <2>10, <2>11 DEF Kin
<1>4. CASE by = Renamer
  <2>1. UNCHANGED <<loop, worker, pending>> /\ worker[c] = "none"
    BY <1>4, Numbers DEF Creates
  <2>2. \A d \in Children : d # c => parent'[d] = parent[d]
    BY <1>1 DEF Types
  <2>3. ASSUME NEW l \in Loops, NEW d \in pending[l]
        PROVE  parent'[d] = l
    BY <1>2, <2>2 DEF Kin, Types
  <2>4. \A d \in Children : worker'[d] \notin {"none", "over"} => parent'[d] \in Loops
    BY <2>1, <2>2 DEF Kin
  <2> QED
    BY <1>1, <2>1, <2>3, <2>4 DEF Kin
<1> QED
  BY <1>3, <1>4 DEF Creates

LEMMA KinOthers ==
    ASSUME Types, Kin
    PROVE  /\ CancelRun \/ NewRun \/ FinalizeClicked => Kin'
           /\ \A c \in Children : ClickCancel(c) => Kin'
           /\ \A c \in Children : \A s \in {"running"} \cup Terminal : UpdateExternal(c, s) => Kin'
<1>1. ASSUME CancelRun
      PROVE  Kin'
  BY <1>1, Numbers DEF Kin, CancelRun, Click, Set, Types
<1>2. ASSUME NewRun
      PROVE  Kin'
  <2>1. UNCHANGED <<parent, worker, pending, todo, victim, tab, clicked>> /\ cancel' = [cancel EXCEPT ![Root] = FALSE]
        /\ loop' = [loop EXCEPT ![Root] = "turn"] /\ loop[Root] = "over"
    BY <1>2 DEF NewRun, Go, Set
  <2>2. \A c \in Loops : c # Root => cancel'[c] = cancel[c]
    BY <2>1 DEF Types
  <2>3. \A l \in Loops : loop'[l] = "teardown" <=> loop[l] = "teardown" /\ l # Root
    BY <2>1 DEF Types
  <2>4. \A l \in Loops : victim[l] # NoOne => victim[l] \in Loops /\ victim[l] # Root
    BY Numbers DEF Types
  <2>5. loop[Root] # "teardown"
    BY <2>1
  <2> QED
    BY <2>1, <2>2, <2>3, <2>4, <2>5, Numbers DEF Kin
<1>3. ASSUME FinalizeClicked
      PROVE  Kin'
  BY <1>3 DEF Kin, FinalizeClicked
<1>4. ASSUME NEW c \in Children, ClickCancel(c)
      PROVE  Kin'
  <2>1. \A l \in Loops : cancel[l] => cancel'[l]
    BY <1>4 DEF ClickCancel, Set, Types
  <2>2. tab' # NoOne => tab' \in clicked'
    BY <1>4 DEF ClickCancel, Click
  <2>3. UNCHANGED <<parent, worker, loop, pending, todo, victim>>
    BY <1>4 DEF ClickCancel
  <2>4. \A l \in Loops : victim[l] # NoOne => victim[l] \in Loops
    BY Numbers DEF Types
  <2> QED
    BY <2>1, <2>2, <2>3, <2>4 DEF Kin
<1>5. ASSUME NEW c \in Children, NEW s \in {"running"} \cup Terminal, UpdateExternal(c, s)
      PROVE  Kin'
  <2>1. UNCHANGED <<parent, cancel, loop, pending, todo, victim, tab, clicked>>
    BY <1>5 DEF UpdateExternal
  <2>2. \A d \in Children : worker'[d] = worker[d] \/ worker'[d] = "over"
    BY <1>5 DEF UpdateExternal, Set, Types
  <2> QED
    BY <2>1, <2>2 DEF Kin
<1> QED
  BY <1>1, <1>2, <1>3, <1>4, <1>5

-----------------------------------------------------------------------------
(* Records *)

LEMMA LastInRange ==
    ASSUME NEW s \in Seq(Terminal), NEW e \in Terminal
    PROVE  /\ e \in Range(Append(s, e)) /\ Len(Append(s, e)) = Len(s) + 1
           /\ Append(s, e) \in Seq(Terminal)
<1>1. Len(s) + 1 \in DOMAIN Append(s, e) /\ Append(s, e)[Len(s) + 1] = e
  OBVIOUS
<1> QED
  BY <1>1 DEF Range

\* An agent nobody touches shows what it showed.
LEMMA ShowsStill ==
    ASSUME NEW d \in Children, Shows(d), status'[d] = status[d], parent'[d] = parent[d],
           worker'[d] = worker[d], ends'[d] = ends[d], d \in Cancelled => d \in Cancelled'
    PROVE  Shows(d)'
BY DEF Shows, Told, Reported, Announcement

\* The end of c is recorded and announced.
Announces(c, e) ==
    status' = [status EXCEPT ![c] = e] /\ ends' = [ends EXCEPT ![c] = Append(ends[c], e)]

LEMMA AnnouncesEffects ==
    ASSUME Types, NEW c \in Children, NEW e \in Terminal, Announces(c, e)
    PROVE  /\ status'[c] = e /\ e \in Range(ends'[c]) /\ Len(ends'[c]) = Len(ends[c]) + 1
           /\ \A d \in Children : d # c => status'[d] = status[d] /\ ends'[d] = ends[d]
<1>1. status'[c] = e /\ ends'[c] = Append(ends[c], e) /\ ends[c] \in Seq(Terminal)
  BY DEF Announces, Types
<1>2. \A d \in Children : d # c => status'[d] = status[d] /\ ends'[d] = ends[d]
  BY DEF Announces, Types
<1> QED
  BY <1>1, <1>2, LastInRange

\* c is finalized as cancelled.
LEMMA FinalizeShown ==
    ASSUME Types, Shown, NEW c \in Children, Announces(c, "cancelled"), c \in Cancelled,
           UNCHANGED <<parent, cancel, clicked>>,
           worker'[c] = worker[c] \/ worker'[c] = "over",
           \A d \in Children : d # c => worker'[d] = worker[d]
    PROVE  Shown'
<1>1. Cancelled' = Cancelled
  BY DEF Cancelled
<1>2. /\ status'[c] = "cancelled" /\ "cancelled" \in Range(ends'[c])
      /\ \A d \in Children : d # c => status'[d] = status[d] /\ ends'[d] = ends[d]
  BY AnnouncesEffects DEF Terminal
<1>3. Shows(c)'
  <2>1. Told(c)'
    BY <1>2 DEF Told
  <2> QED
    BY <1>1, <1>2, <2>1 DEF Shown, Shows, Terminal
<1>4. ASSUME NEW d \in Children, d # c
      PROVE  Shows(d)'
  BY <1>1, <1>2, <1>4, ShowsStill DEF Shown
<1> QED
  BY <1>3, <1>4 DEF Shown

LEMMA ShownWorker ==
    ASSUME Types, Kin, Shown, NEW c \in Children, WorkerStep(c)
    PROVE  Shown'
<1>0. UNCHANGED <<parent, cancel, clicked>> /\ Cancelled' = Cancelled
  BY DEF WorkerStep, SetRunning, Preflight, Kill, Commit, workerOnly, Cancelled
<1>a. worker[c] \in {"born", "preflight", "kill", "commit", "fail"}
  BY DEF WorkerStep, SetRunning, Preflight, Kill, Commit, Go
<1>b. parent[c] # Renamer
  BY <1>a, Numbers DEF Kin
<1>1. CASE SetRunning(c)
  <2>1. status' = [status EXCEPT ![c] = "running"] /\ worker' = [worker EXCEPT ![c] = "preflight"] /\ ends' = ends
    BY <1>1 DEF SetRunning, Go, Set
  <2>2. status'[c] = "running" /\ worker'[c] = "preflight"
        /\ \A d \in Children : d # c => status'[d] = status[d] /\ worker'[d] = worker[d]
    BY <2>1 DEF Types
  <2>3. Shows(c)'
    BY <1>0, <1>b, <2>2 DEF Shows, Terminal
  <2>4. ASSUME NEW d \in Children, d # c
        PROVE  Shows(d)'
    BY <1>0, <2>1, <2>2, <2>4, ShowsStill DEF Shown
  <2> QED
    BY <2>3, <2>4 DEF Shown
<1>2. CASE Preflight(c)
  <2>1. UNCHANGED <<status, ends>> /\ worker[c] = "preflight"
    BY <1>2 DEF Preflight
  <2>2. \A d \in Children : d # c => worker'[d] = worker[d]
    BY <1>2 DEF Preflight, Set, Types
  <2>3. \/ worker'[c] = "over" /\ status[c] = "cancelled"
        \/ worker'[c] = "kill" /\ cancel[c]
        \/ worker'[c] = "run"
    BY <1>2 DEF Preflight, Finalizing, Set, Types
  <2>4. Shows(c)'
    <3>1. status[c] \in Terminal => Told(c)'
      BY <1>0, <2>1 DEF Shown, Shows, Told, Announcement
    <3> QED
      BY <1>0, <1>b, <2>1, <2>3, <3>1 DEF Shown, Shows, Cancelled, Terminal
  <2>5. ASSUME NEW d \in Children, d # c
        PROVE  Shows(d)'
    BY <1>0, <2>1, <2>2, <2>5, ShowsStill DEF Shown
  <2> QED
    BY <2>4, <2>5 DEF Shown
<1>3. CASE Kill(c)
  <2>1. Announces(c, "cancelled")
    BY <1>3 DEF Kill, Finalize, Put, Set, Announces
  <2>2. worker'[c] = "over" /\ worker[c] = "kill" /\ \A d \in Children : d # c => worker'[d] = worker[d]
    BY <1>3 DEF Kill, Go, Set, Types
  <2>3. c \in Cancelled
    BY <2>2 DEF Shown, Shows
  <2> QED
    BY <1>0, <2>1, <2>2, <2>3, FinalizeShown
<1>4. CASE Commit(c)
  <2>1. PICK s \in {"completed", "failed"} : Announces(c, s)
    BY <1>4 DEF Commit, Set, Put, Announces
  <2>2. worker'[c] = "over" /\ \A d \in Children : d # c => worker'[d] = worker[d]
    BY <1>4 DEF Commit, Set, Go, Types
  <2>3. /\ status'[c] = s /\ s \in Range(ends'[c]) /\ s \in Terminal
        /\ \A d \in Children : d # c => status'[d] = status[d] /\ ends'[d] = ends[d]
    BY <2>1, AnnouncesEffects DEF Terminal
  <2>4. Shows(c)'
    <3>1. Told(c)'
      BY <2>3 DEF Told
    <3> QED
      BY <1>0, <1>b, <2>1, <2>2, <2>3, <3>1 DEF Shows
  <2>5. ASSUME NEW d \in Children, d # c
        PROVE  Shows(d)'
    BY <1>0, <2>2, <2>3, <2>5, ShowsStill DEF Shown
  <2> QED
    BY <2>4, <2>5 DEF Shown
<1> QED
  BY <1>1, <1>2, <1>3, <1>4 DEF WorkerStep

LEMMA ShownQuits ==
    ASSUME Types, Kin, Shown, NEW l \in Loops, Quits(l)
    PROVE  Shown'
<1>0. UNCHANGED <<status, parent, cancel, clicked, ends>> /\ Cancelled' = Cancelled
  BY DEF Quits, loopOnly, Cancelled
<1>1. CASE l = Root
  <2>1. worker' = worker
    BY <1>1 DEF Quits
  <2> QED
    BY <1>0, <2>1, ShowsStill DEF Shown
<1>2. CASE l # Root
  <2>1. l \in Children
    BY <1>2 DEF Loops
  <2>2. PICK next : Ends(l, next) /\ worker' = [worker EXCEPT ![l] = next]
    BY <1>2 DEF Quits
  <2>3. worker'[l] = next /\ \A d \in Children : d # l => worker'[d] = worker[d]
    BY <2>1, <2>2 DEF Types
  <2>4. Shows(l)'
    <3>1. worker[l] = "run"
      BY <1>2, <2>1 DEF Quits, Types
    <3>2. parent[l] # Renamer
      BY <2>1, <3>1, Numbers DEF Kin
    <3>3. status[l] \in Terminal => Told(l)'
      BY <1>0, <2>1 DEF Shown, Shows, Told, Announcement
    <3> QED
      BY <1>0, <2>1, <2>2, <2>3, <3>2, <3>3 DEF Ends, Shown, Shows, Cancelled, Terminal
  <2>5. ASSUME NEW d \in Children, d # l
        PROVE  Shows(d)'
    BY <1>0, <2>3, <2>5, ShowsStill DEF Shown
  <2> QED
    BY <2>4, <2>5 DEF Shown
<1> QED
  BY <1>1, <1>2

LEMMA ShownLoop ==
    ASSUME Types, Kin, Shown, NEW l \in Loops, LoopStep(l), ~Quitting(l), ~Spawn(l)
    PROVE  Shown'
<1>1. CASE BeginSpawn(l) \/ TakeSlot(l) \/ Join(l) \/ Joined(l) \/ JoinCancelled(l)
  <2>1. UNCHANGED <<status, parent, cancel, worker, clicked, ends>>
    BY <1>1 DEF BeginSpawn, TakeSlot, Join, Joined, JoinCancelled, loopOnly
  <2>2. Cancelled' = Cancelled
    BY <2>1 DEF Cancelled
  <2> QED
    BY <2>1, <2>2, ShowsStill DEF Shown
<1>2. CASE CancelChild(l)
  <2>1. UNCHANGED <<status, parent, worker, clicked, ends>>
    BY <1>2 DEF CancelChild
  <2>2. \A d \in Children : cancel[d] => cancel'[d]
    BY <1>2, Numbers DEF CancelChild, Set, Types
  <2>3. \A d \in Children : d \in Cancelled => d \in Cancelled'
    BY <2>1, <2>2 DEF Cancelled
  <2> QED
    BY <2>1, <2>3, ShowsStill DEF Shown
<1>3. CASE FinalizeChild(l)
  <2>1. victim[l] \in Children /\ cancel[victim[l]] /\ UNCHANGED <<parent, cancel, clicked, worker>>
    BY <1>3 DEF FinalizeChild, Types, Kin
  <2>2. PICK c \in Children : c = victim[l]
    BY <2>1
  <2>3. Announces(c, "cancelled") /\ c \in Cancelled
    BY <1>3, <2>1, <2>2 DEF FinalizeChild, Finalize, Put, Set, Announces, Cancelled
  <2> QED
    BY <2>1, <2>3, FinalizeShown
<1> QED
  BY <1>1, <1>2, <1>3 DEF LoopStep, Quitting

LEMMA ShownCreates ==
    ASSUME Types, Shown, NEW c \in Children, NEW by, Creates(c, by)
    PROVE  Shown'
<1>0. UNCHANGED <<cancel, clicked, ends>> /\ Cancelled' = Cancelled
  BY DEF Creates, Cancelled
<1>1. status'[c] = "pending" /\ \A d \in Children : d # c => status'[d] = status[d] /\ parent'[d] = parent[d]
  BY DEF Creates, Types
<1>2. worker'[c] \in {"none", "born"} /\ \A d \in Children : d # c => worker'[d] = worker[d]
  BY DEF Creates, Types
<1>3. Shows(c)'
  <2>1. ends'[c] = <<>>
    BY <1>0 DEF Creates
  <2>2. Reported(c)'
    BY <1>2, <2>1 DEF Reported
  <2>3. c \notin Cancelled
    BY DEF Creates, Cancelled
  <2> QED
    BY <1>0, <1>1, <1>2, <2>2, <2>3 DEF Shows, Terminal
<1>4. ASSUME NEW d \in Children, d # c
      PROVE  Shows(d)'
  BY <1>0, <1>1, <1>2, <1>4, ShowsStill DEF Shown
<1> QED
  BY <1>3, <1>4 DEF Shown

\* The event of an update.
Echo(s) == IF s = "completed" THEN "completed" ELSE "failed"

\* The renamer updates an agent of its own, which has no thread.
LEMMA UpdateEffects ==
    ASSUME Types, Kin, NEW c \in Children, NEW s \in {"running"} \cup Terminal, UpdateExternal(c, s)
    PROVE  /\ status'[c] = s /\ ends'[c] = Append(ends[c], Echo(s)) /\ Echo(s) \in Terminal
           /\ parent[c] = Renamer /\ worker[c] = "none"
           /\ worker'[c] = IF s \in Terminal THEN "over" ELSE "none"
           /\ UNCHANGED <<parent, cancel, loop, pending, todo, victim, tab, clicked>>
           /\ \A d \in Children : d # c => worker'[d] = worker[d] /\ ends'[d] = ends[d] /\ status'[d] = status[d]
<1>1. status' = [status EXCEPT ![c] = s] /\ parent[c] = Renamer /\ worker[c] # "over"
      /\ ends' = [ends EXCEPT ![c] = Append(ends[c], Echo(s))]
      /\ UNCHANGED <<parent, cancel, loop, pending, todo, victim, tab, clicked>>
  BY DEF UpdateExternal, Set, Put, Echo
<1>2. worker[c] = "none"
  BY <1>1, Numbers DEF Kin
<1>3. worker'[c] = IF s \in Terminal THEN "over" ELSE "none"
  BY <1>2 DEF UpdateExternal, Set, Types
<1>4. \A d \in Children : d # c => worker'[d] = worker[d]
  BY DEF UpdateExternal, Set, Types
<1>5. status'[c] = s /\ \A d \in Children : d # c => status'[d] = status[d]
  BY <1>1 DEF Types
<1>6. ends'[c] = Append(ends[c], Echo(s)) /\ \A d \in Children : d # c => ends'[d] = ends[d]
  BY <1>1 DEF Types
<1>7. Echo(s) \in Terminal
  BY DEF Echo, Terminal
<1> QED
  BY <1>1, <1>2, <1>3, <1>4, <1>5, <1>6, <1>7

\* A failure for every progress, and the end behind them.
LEMMA UpdateReports ==
    ASSUME Types, Kin, NEW c \in Children, NEW s \in {"running"} \cup Terminal, UpdateExternal(c, s)
    PROVE  /\ Told(c)'
           /\ Reported(c) => Reported(c)'
<1> DEFINE q == ends[c]
<1>1. q \in Seq(Terminal) /\ Echo(s) \in Terminal /\ worker[c] = "none"
      /\ status'[c] = s /\ ends'[c] = Append(q, Echo(s))
      /\ worker'[c] = IF s \in Terminal THEN "over" ELSE "none"
  BY UpdateEffects DEF Types
<1>2. parent'[c] = Renamer
  BY UpdateEffects
<1>3. Announcement(c)' = Echo(s)
  BY <1>1, <1>2 DEF Announcement, Echo
<1>4. Echo(s) \in Range(ends'[c])
  BY <1>1, LastInRange
<1>5. Told(c)'
  BY <1>3, <1>4 DEF Told
<1>6. ASSUME Reported(c)
      PROVE  Reported(c)'
  <2>1. \A k \in DOMAIN q : q[k] = "failed"
    BY <1>1, <1>6 DEF Reported
  <2>2. /\ DOMAIN ends'[c] = 1..Len(q) + 1 /\ Len(ends'[c]) = Len(q) + 1
        /\ ends'[c][Len(q) + 1] = Echo(s) /\ ends'[c] # <<>>
        /\ \A k \in 1..Len(q) : k \in DOMAIN q /\ ends'[c][k] = q[k]
        /\ Len(q) \in Nat
    <3> HIDE DEF q
    <3> QED
      BY <1>1
  <2>3. s \notin Terminal => Echo(s) = "failed"
    BY DEF Echo, Terminal
  <2>4. \A k \in DOMAIN ends'[c] : k = Len(q) + 1 \/ k \in 1..Len(q)
    <3> HIDE DEF q
    <3> QED
      BY <2>2
  <2>5. \A k \in DOMAIN ends'[c] : ends'[c][k] = "failed" \/ (worker'[c] = "over" /\ k = Len(ends'[c]))
    <3> HIDE DEF q
    <3> QED
      BY <1>1, <2>1, <2>2, <2>3, <2>4
  <2>6. ends'[c] # <<>> /\ ends'[c][Len(ends'[c])] = Announcement(c)'
    <3> HIDE DEF q
    <3> QED
      BY <1>3, <2>2
  <2> QED
    BY <2>5, <2>6 DEF Reported
<1> QED
  BY <1>5, <1>6

LEMMA ShownOthers ==
    ASSUME Types, Kin, Shown
    PROVE  /\ CancelRun \/ NewRun \/ FinalizeClicked => Shown'
           /\ \A c \in Children : ClickCancel(c) => Shown'
           /\ \A c \in Children : \A s \in {"running"} \cup Terminal : UpdateExternal(c, s) => Shown'
<1>1. ASSUME CancelRun \/ NewRun
      PROVE  Shown'
  <2>1. UNCHANGED <<status, parent, worker, ends>> /\ clicked \subseteq clicked'
    BY <1>1 DEF CancelRun, NewRun, Click
  <2>2. \A d \in Children : cancel'[d] = cancel[d]
    BY <1>1, Numbers DEF CancelRun, NewRun, Set, Types
  <2>3. \A d \in Children : d \in Cancelled => d \in Cancelled'
    BY <2>1, <2>2 DEF Cancelled
  <2> QED
    BY <2>1, <2>3, ShowsStill DEF Shown
<1>2. ASSUME FinalizeClicked
      PROVE  Shown'
  <2>1. tab \in Children /\ tab \in clicked /\ UNCHANGED <<parent, cancel, clicked, worker>>
    BY <1>2 DEF FinalizeClicked, Types, Kin
  <2>2. PICK c \in Children : c = tab
    BY <2>1
  <2>3. Announces(c, "cancelled") /\ c \in Cancelled
    BY <1>2, <2>1, <2>2 DEF FinalizeClicked, Finalize, Put, Set, Announces, Cancelled
  <2> QED
    BY <2>1, <2>3, FinalizeShown
<1>3. ASSUME NEW c \in Children, ClickCancel(c)
      PROVE  Shown'
  <2>1. UNCHANGED <<status, parent, worker, ends>> /\ clicked \subseteq clicked'
    BY <1>3 DEF ClickCancel, Click
  <2>2. \A d \in Children : cancel[d] => cancel'[d]
    BY <1>3, Numbers DEF ClickCancel, Set, Types
  <2>3. \A d \in Children : d \in Cancelled => d \in Cancelled'
    BY <2>1, <2>2 DEF Cancelled
  <2> QED
    BY <2>1, <2>3, ShowsStill DEF Shown
<1>4. ASSUME NEW c \in Children, NEW s \in {"running"} \cup Terminal, UpdateExternal(c, s)
      PROVE  Shown'
  <2>1. Cancelled' = Cancelled /\ parent' = parent /\ parent[c] = Renamer
        /\ \A d \in Children : d # c => worker'[d] = worker[d] /\ ends'[d] = ends[d] /\ status'[d] = status[d]
    BY <1>4, UpdateEffects DEF Cancelled
  <2>2. Shows(c)'
    <3>1. Told(c)' /\ (Reported(c) => Reported(c)')
      BY <1>4, UpdateReports
    <3>2. /\ status'[c] = s /\ parent'[c] = Renamer
          /\ worker'[c] = IF s \in Terminal THEN "over" ELSE "none"
      BY <1>4, UpdateEffects
    <3> QED
      BY <2>1, <3>1, <3>2 DEF Shown, Shows
  <2>3. ASSUME NEW d \in Children, d # c
        PROVE  Shows(d)'
    BY <2>1, <2>3, ShowsStill DEF Shown
  <2> QED
    BY <2>2, <2>3 DEF Shown
<1> QED
  BY <1>1, <1>2, <1>3, <1>4

-----------------------------------------------------------------------------
(* The number of ends announced *)

LEMMA TornWorker ==
    ASSUME Types, NEW c \in Children, WorkerStep(c), NEW d \in Children, Torn(d)
    PROVE  Torn(d)'
<1>1. UNCHANGED <<parent, cancel, pending, todo, victim>>
  BY DEF WorkerStep, SetRunning, Preflight, Kill, Commit, workerOnly
<1>2. loop' = loop \/ (loop' = [loop EXCEPT ![c] = "turn"] /\ worker[c] = "preflight")
  BY DEF WorkerStep, SetRunning, Preflight, Kill, Commit, Set, workerOnly
<1>3. \A l \in Loops : loop[l] = "teardown" => loop'[l] = "teardown"
  BY <1>2 DEF Types
<1> QED
  BY <1>1, <1>3 DEF Torn

LEMMA TornQuits ==
    ASSUME Types, NEW l \in Loops, Quits(l), NEW d \in Children, Torn(d)
    PROVE  Torn(d)'
<1>1. UNCHANGED <<parent, cancel, todo, victim>>
  BY DEF Quits, loopOnly
<1>2. pending'[l] = {} /\ \A m \in Loops : m # l => pending'[m] = pending[m] /\ loop'[m] = loop[m]
  BY DEF Quits, Types
<1> QED
  BY <1>1, <1>2 DEF Torn

LEMMA TornLoop ==
    ASSUME Types, Kin, NEW l \in Loops, LoopStep(l), ~Quitting(l), ~Spawn(l), NEW d \in Children, Torn(d)
    PROVE  Torn(d)'
<1>0. parent' = parent
  BY DEF LoopStep, Quitting, BeginSpawn, TakeSlot, Join, Joined, JoinCancelled, CancelChild,
         FinalizeChild, loopOnly
<1>1. CASE BeginSpawn(l) \/ TakeSlot(l) \/ Join(l)
  <2>1. UNCHANGED <<cancel, pending, todo, victim>>
    BY <1>1 DEF BeginSpawn, TakeSlot, Join, loopOnly
  <2>2. loop[l] # "teardown" /\ \A m \in Loops : m # l => loop'[m] = loop[m]
    BY <1>1 DEF BeginSpawn, TakeSlot, Join, Go, Set, Types
  <2> QED
    BY <1>0, <2>1, <2>2 DEF Torn
<1>2. CASE Joined(l)
  <2>1. UNCHANGED <<cancel, todo, victim>> /\ pending'[l] = {}
    BY <1>2 DEF Joined, Set, loopOnly, Types
  <2>2. \A m \in Loops : m # l => loop'[m] = loop[m] /\ pending'[m] = pending[m]
    BY <1>2 DEF Joined, Go, Set, Types
  <2> QED
    BY <1>0, <2>1, <2>2 DEF Torn
<1>3. CASE JoinCancelled(l)
  <2>1. UNCHANGED <<cancel, pending, victim>> /\ loop[l] = "join" /\ todo'[l] = pending[l]
    BY <1>3 DEF JoinCancelled, Go, Set, loopOnly, Types
  <2>2. \A m \in Loops : m # l => loop'[m] = loop[m] /\ todo'[m] = todo[m]
    BY <1>3 DEF JoinCancelled, Go, Set, Types
  <2> QED
    BY <1>0, <2>1, <2>2 DEF Torn
<1>4. CASE CancelChild(l)
  <2>1. PICK c \in todo[l] : /\ cancel' = [cancel EXCEPT ![c] = TRUE]
                           /\ victim' = [victim EXCEPT ![l] = IF c \in Active THEN c ELSE NoOne]
                           /\ todo' = [todo EXCEPT ![l] = todo[l] \ {c}]
    BY <1>4 DEF CancelChild, Set
  <2>2. UNCHANGED <<loop, pending>> /\ NoOne # d
    BY <1>4, Numbers DEF CancelChild
  <2>3. cancel'[d]
    BY <2>1, Numbers DEF Torn, Types
  <2>4. victim'[l] \in {c, NoOne} /\ todo'[l] = todo[l] \ {c}
    BY <2>1 DEF Types
  <2>5. \A m \in Loops : m # l => victim'[m] = victim[m] /\ todo'[m] = todo[m]
    BY <2>1 DEF Types
  <2>6. parent[d] = l => d # c
    BY DEF Torn
  <2> QED
    BY <1>0, <2>2, <2>3, <2>4, <2>5, <2>6 DEF Torn
<1>5. CASE FinalizeChild(l)
  <2>1. UNCHANGED <<cancel, loop, pending, todo>>
    BY <1>5 DEF FinalizeChild
  <2>2. \A m \in Loops : victim'[m] \in {victim[m], NoOne}
    BY <1>5 DEF FinalizeChild, Set, Types
  <2>3. NoOne # d
    BY Numbers
  <2> QED
    BY <1>0, <2>1, <2>2, <2>3 DEF Torn
<1> QED
  BY <1>1, <1>2, <1>3, <1>4, <1>5 DEF LoopStep, Quitting

LEMMA TornCreates ==
    ASSUME Types, NEW c \in Children, NEW by, Creates(c, by), NEW d \in Children, Torn(d)
    PROVE  Torn(d)'
<1>1. d # c /\ UNCHANGED <<cancel, todo, victim>>
  BY DEF Creates, Torn
<1>2. parent'[d] = parent[d]
  BY <1>1 DEF Creates, Types
<1>3. CASE by \in Loops
  <2>1. loop[by] = "spawn" /\ loop' = [loop EXCEPT ![by] = "turn"]
        /\ pending' = [pending EXCEPT ![by] = pending[by] \cup {c}]
    BY <1>3, Numbers DEF Creates
  <2>2. \A m \in Loops : d \in pending'[m] => d \in pending[m]
    BY <1>1, <2>1 DEF Types
  <2>3. \A m \in Loops : loop[m] = "teardown" => loop'[m] = "teardown"
    BY <2>1 DEF Types
  <2> QED
    BY <1>1, <1>2, <2>2, <2>3 DEF Torn
<1>4. CASE by = Renamer
  <2>1. UNCHANGED <<loop, pending>>
    BY <1>4, Numbers DEF Creates
  <2> QED
    BY <1>1, <1>2, <2>1 DEF Torn
<1> QED
  BY <1>3, <1>4 DEF Creates

LEMMA TornOthers ==
    ASSUME Types, Kin, NEW d \in Children, Torn(d)
    PROVE  /\ CancelRun \/ NewRun \/ FinalizeClicked => Torn(d)'
           /\ \A c \in Children : ClickCancel(c) => Torn(d)'
           /\ \A c \in Children : \A s \in {"running"} \cup Terminal : UpdateExternal(c, s) => Torn(d)'
<1>1. ASSUME CancelRun \/ NewRun
      PROVE  Torn(d)'
  <2>1. UNCHANGED <<parent, pending, todo, victim>>
    BY <1>1 DEF CancelRun, NewRun
  <2>2. cancel'[d] = cancel[d]
    BY <1>1, Numbers DEF CancelRun, NewRun, Set, Types
  <2>3. \A m \in Loops : loop[m] = "teardown" => loop'[m] = "teardown"
    BY <1>1 DEF CancelRun, NewRun, Go, Set, Types
  <2> QED
    BY <2>1, <2>2, <2>3 DEF Torn
<1>2. ASSUME FinalizeClicked
      PROVE  Torn(d)'
  BY <1>2 DEF FinalizeClicked, Torn
<1>3. ASSUME NEW c \in Children, ClickCancel(c)
      PROVE  Torn(d)'
  <2>1. UNCHANGED <<parent, pending, todo, victim, loop>>
    BY <1>3 DEF ClickCancel
  <2>2. cancel[d] => cancel'[d]
    BY <1>3, Numbers DEF ClickCancel, Set, Types
  <2> QED
    BY <2>1, <2>2 DEF Torn
<1>4. ASSUME NEW c \in Children, NEW s \in {"running"} \cup Terminal, UpdateExternal(c, s)
      PROVE  Torn(d)'
  BY <1>4, UpdateEffects DEF Torn
<1> QED
  BY <1>1, <1>2, <1>3, <1>4

\* Whoever has announced the end of d will not announce it again.
Lasts(d) ==
    /\ parent[d] = Renamer => parent'[d] = Renamer
    /\ worker[d] = "over" => worker'[d] = "over"
    /\ Torn(d) => Torn(d)'
    /\ d \in clicked /\ tab # d => d \in clicked' /\ tab' # d

\* Somebody who has not announced it yet is through with it.
Falls(d) ==
    \/ worker[d] # "over" /\ worker'[d] = "over"
    \/ ~Torn(d) /\ Torn(d)'
    \/ ~(d \in clicked /\ tab # d) /\ d \in clicked' /\ tab' # d

LEMMA CountsStep ==
    ASSUME Types, NEW d \in Children, Counts(d), Lasts(d),
           ends'[d] = ends[d] \/ (Falls(d) /\ Len(ends'[d]) = Len(ends[d]) + 1)
    PROVE  Counts(d)'
<1> DEFINE w == worker[d] = "over"
           t == Torn(d)
           k == d \in clicked /\ tab # d
<1>0. Len(ends[d]) \in Nat
  BY DEF Types
<1> SUFFICES ASSUME parent'[d] # Renamer
             PROVE  Len(ends'[d]) <= One(w') + One(t') + One(k')
  BY DEF Counts
<1>1. Len(ends[d]) <= One(w) + One(t) + One(k)
  BY DEF Counts, Lasts
<1>2. (w => w') /\ (t => t') /\ (k => k')
  BY DEF Lasts
<1>3. ends'[d] = ends[d] \/ (Len(ends'[d]) = Len(ends[d]) + 1 /\ ((~w /\ w') \/ (~t /\ t') \/ (~k /\ k')))
  BY DEF Falls
<1>4. Len(ends'[d]) <= One(w') + One(t') + One(k')
  <2> HIDE DEF w, t, k
  <2>1. CASE ends'[d] = ends[d]
    BY <1>0, <1>1, <1>2, <2>1 DEF One
  <2>2. CASE Len(ends'[d]) = Len(ends[d]) + 1 /\ ((~w /\ w') \/ (~t /\ t') \/ (~k /\ k'))
    BY <1>0, <1>1, <1>2, <2>2 DEF One
  <2> QED
    BY <1>3, <2>1, <2>2
<1> QED
  BY <1>4

LEMMA CountedWorker ==
    ASSUME Types, Counted, NEW c \in Children, WorkerStep(c)
    PROVE  Counted'
<1>1. UNCHANGED <<parent, tab, clicked>>
  BY DEF WorkerStep, SetRunning, Preflight, Kill, Commit, workerOnly
<1>2. worker[c] # "over" /\ \A d \in Children : d # c => worker'[d] = worker[d]
  BY DEF WorkerStep, SetRunning, Preflight, Kill, Commit, Go, Set, Types
<1>3. ASSUME NEW d \in Children
      PROVE  Lasts(d)
  BY <1>1, <1>2, TornWorker DEF Lasts
<1>4. \/ ends' = ends
      \/ worker'[c] = "over" /\ \E e \in Terminal : Announces(c, e)
  <2>1. CASE SetRunning(c) \/ Preflight(c)
    BY <2>1 DEF SetRunning, Preflight
  <2>2. CASE Kill(c)
    <3>1. Announces(c, "cancelled") /\ worker'[c] = "over"
      BY <2>2 DEF Kill, Go, Finalize, Put, Set, Announces, Types
    <3> QED
      BY <3>1 DEF Terminal
  <2>3. CASE Commit(c)
    <3>1. PICK s \in {"completed", "failed"} : Announces(c, s)
      BY <2>3 DEF Commit, Set, Put, Announces
    <3>2. worker'[c] = "over"
      BY <2>3 DEF Commit, Set, Go, Types
    <3> QED
      BY <3>1, <3>2 DEF Terminal
  <2> QED
    BY <2>1, <2>2, <2>3 DEF WorkerStep
<1>5. CASE ends' = ends
  BY <1>3, <1>5, CountsStep DEF Counted
<1>6. ASSUME worker'[c] = "over", NEW e \in Terminal, Announces(c, e), NEW d \in Children
      PROVE  Counts(d)'
  <2>1. Len(ends'[c]) = Len(ends[c]) + 1 /\ (d # c => ends'[d] = ends[d])
    BY <1>6, AnnouncesEffects
  <2>2. d = c => Falls(d)
    BY <1>2, <1>6 DEF Falls
  <2> QED
    BY <1>3, <2>1, <2>2, CountsStep DEF Counted
<1> QED
  BY <1>4, <1>5, <1>6 DEF Counted

LEMMA CountedQuits ==
    ASSUME Types, Counted, NEW l \in Loops, Quits(l)
    PROVE  Counted'
<1>1. UNCHANGED <<parent, tab, clicked, ends>>
  BY DEF Quits, loopOnly
<1>2. \A d \in Children : worker[d] = "over" => worker'[d] = "over"
  <2>1. CASE l = Root
    BY <2>1 DEF Quits
  <2>2. CASE l # Root
    <3>1. l \in Children /\ worker[l] = "run"
      BY <2>2 DEF Loops, Quits, Types
    <3> QED
      BY <2>2, <3>1 DEF Quits, Types
  <2> QED
    BY <2>1, <2>2
<1>3. ASSUME NEW d \in Children
      PROVE  Lasts(d)
  BY <1>1, <1>2, TornQuits DEF Lasts
<1> QED
  BY <1>1, <1>3, CountsStep DEF Counted

LEMMA CountedLoop ==
    ASSUME Types, Kin, Counted, NEW l \in Loops, LoopStep(l), ~Quitting(l), ~Spawn(l)
    PROVE  Counted'
<1>1. UNCHANGED <<parent, worker, tab, clicked>>
  BY DEF LoopStep, Quitting, BeginSpawn, TakeSlot, Join, Joined, JoinCancelled, CancelChild,
         FinalizeChild, loopOnly
<1>2. ASSUME NEW d \in Children
      PROVE  Lasts(d)
  BY <1>1, TornLoop DEF Lasts
<1>3. CASE ends' = ends
  BY <1>2, <1>3, CountsStep DEF Counted
<1>4. CASE FinalizeChild(l)
  <2>1. /\ victim[l] \in Children /\ victim[l] \in pending[l] \ todo[l] /\ cancel[victim[l]]
        /\ loop[l] = "teardown" /\ victim'[l] = NoOne /\ UNCHANGED <<cancel, loop, pending, todo>>
    BY <1>4 DEF FinalizeChild, Set, Types, Kin
  <2>2. PICK c \in Children : c = victim[l]
    BY <2>1
  <2>3. Announces(c, "cancelled")
    BY <1>4, <2>2 DEF FinalizeChild, Finalize, Put, Set, Announces
  <2>4. parent[c] = l
    BY <2>1, <2>2 DEF Kin
  <2>5. ~Torn(c) /\ Torn(c)'
    BY <1>1, <2>1, <2>2, <2>4, Numbers DEF Torn
  <2>6. ASSUME NEW d \in Children
        PROVE  Counts(d)'
    <3>1. Len(ends'[c]) = Len(ends[c]) + 1 /\ (d # c => ends'[d] = ends[d])
      BY <2>3, AnnouncesEffects DEF Terminal
    <3>2. Falls(c)
      BY <2>5 DEF Falls
    <3> QED
      BY <1>2, <3>1, <3>2, CountsStep DEF Counted
  <2> QED
    BY <2>6 DEF Counted
<1> QED
  BY <1>3, <1>4 DEF LoopStep, Quitting, BeginSpawn, TakeSlot, Join, Joined, JoinCancelled,
                    CancelChild, loopOnly

LEMMA CountedCreates ==
    ASSUME Types, Counted, NEW c \in Children, NEW by, Creates(c, by)
    PROVE  Counted'
<1>1. UNCHANGED <<tab, clicked, ends>> /\ worker[c] = "none" /\ parent[c] = NoOne
  BY DEF Creates
<1>2. \A d \in Children : d # c => worker'[d] = worker[d] /\ parent'[d] = parent[d]
  BY DEF Creates, Types
<1>3. ASSUME NEW d \in Children
      PROVE  Lasts(d)
  BY <1>1, <1>2, TornCreates, Numbers DEF Lasts
<1> QED
  BY <1>1, <1>3, CountsStep DEF Counted

LEMMA CountedOthers ==
    ASSUME Types, Kin, Counted
    PROVE  /\ CancelRun \/ NewRun \/ FinalizeClicked => Counted'
           /\ \A c \in Children : ClickCancel(c) => Counted'
           /\ \A c \in Children : \A s \in {"running"} \cup Terminal : UpdateExternal(c, s) => Counted'
<1>1. ASSUME CancelRun \/ NewRun
      PROVE  Counted'
  <2>1. UNCHANGED <<parent, worker, tab, ends>> /\ clicked \subseteq clicked'
    BY <1>1 DEF CancelRun, NewRun, Click
  <2>2. ASSUME NEW d \in Children
        PROVE  Lasts(d)
    BY <1>1, <2>1, TornOthers DEF Lasts
  <2> QED
    BY <2>1, <2>2, CountsStep DEF Counted
<1>2. ASSUME FinalizeClicked
      PROVE  Counted'
  <2>1. tab \in Children /\ tab \in clicked /\ tab' = NoOne /\ UNCHANGED <<parent, clicked, worker>>
    BY <1>2 DEF FinalizeClicked, Types, Kin
  <2>2. PICK c \in Children : c = tab
    BY <2>1
  <2>3. Announces(c, "cancelled")
    BY <1>2, <2>2 DEF FinalizeClicked, Finalize, Put, Set, Announces
  <2>4. ASSUME NEW d \in Children
        PROVE  Counts(d)'
    <3>1. Len(ends'[c]) = Len(ends[c]) + 1 /\ (d # c => ends'[d] = ends[d])
      BY <2>3, AnnouncesEffects DEF Terminal
    <3>2. Falls(c)
      BY <2>1, <2>2, Numbers DEF Falls
    <3>3. Lasts(d)
      BY <1>2, <2>1, TornOthers, Numbers DEF Lasts
    <3> QED
      BY <3>1, <3>2, <3>3, CountsStep DEF Counted
  <2> QED
    BY <2>4 DEF Counted
<1>3. ASSUME NEW c \in Children, ClickCancel(c)
      PROVE  Counted'
  <2>1. UNCHANGED <<parent, worker, ends>> /\ clicked' = clicked \cup {c} /\ c \notin clicked /\ tab' \in {c, NoOne}
    BY <1>3 DEF ClickCancel, Click
  <2>2. ASSUME NEW d \in Children
        PROVE  Lasts(d)
    BY <1>3, <2>1, TornOthers, Numbers DEF Lasts
  <2> QED
    BY <2>1, <2>2, CountsStep DEF Counted
<1>4. ASSUME NEW c \in Children, NEW s \in {"running"} \cup Terminal, UpdateExternal(c, s)
      PROVE  Counted'
  <2>1. /\ UNCHANGED <<parent, tab, clicked>> /\ worker[c] = "none" /\ parent[c] = Renamer
        /\ \A d \in Children : d # c => worker'[d] = worker[d] /\ ends'[d] = ends[d]
    BY <1>4, UpdateEffects
  <2>2. ASSUME NEW d \in Children, d # c
        PROVE  Lasts(d)
    BY <1>4, <2>1, <2>2, TornOthers DEF Lasts
  <2>3. ASSUME NEW d \in Children, d # c
        PROVE  Counts(d)'
    BY <2>1, <2>2, <2>3, CountsStep DEF Counted
  <2>4. Counts(c)'
    BY <2>1 DEF Counts
  <2> QED
    BY <2>3, <2>4 DEF Counted
<1> QED
  BY <1>1, <1>2, <1>3, <1>4

-----------------------------------------------------------------------------
(* The fan-out *)

LEMMA Finite ==
    /\ IsFiniteSet(Free) /\ Cardinality(Free) \in Nat
    /\ IsFiniteSet(Spawners) /\ Cardinality(Spawners) \in Nat
    /\ IsFiniteSet(Cancelled) /\ Cardinality(Cancelled) \in Nat
    /\ IsFiniteSet(Active) /\ Cardinality(Active) \in Nat
<1>1. IsFiniteSet(Loops) /\ IsFiniteSet(Children)
  BY FS_Interval, Numbers
<1>2. Free \subseteq Children /\ Spawners \subseteq Loops /\ Cancelled \subseteq Children /\ Active \subseteq Children
  BY DEF Free, Spawners, Cancelled, Active
<1>3. IsFiniteSet(Free) /\ IsFiniteSet(Spawners) /\ IsFiniteSet(Cancelled) /\ IsFiniteSet(Active)
  BY <1>1, <1>2, FS_Subset
<1> QED
  BY <1>3, FS_CardinalityType

\* A step after which no more agents are active and no more loops will spawn,
\* whatever was cancelled meanwhile.
LEMMA FanOutStill ==
    ASSUME FanOut, Free' \subseteq Free, Spawners' \subseteq Spawners, Cancelled \subseteq Cancelled',
           Cancelled' \subseteq Children
    PROVE  FanOut'
<1>0. IsFiniteSet(Children)
  BY FS_Interval, Numbers
<1>1. IsFiniteSet(Cancelled')
  BY <1>0, FS_Subset
<1>2. Cardinality(Cancelled) <= Cardinality(Cancelled') /\ Cardinality(Cancelled') \in Nat
  BY <1>1, FS_Subset, FS_CardinalityType
<1>3. Cardinality(Free') <= Cardinality(Free) /\ Cardinality(Free') \in Nat
  BY Finite, FS_Subset, FS_CardinalityType
<1>4. Cardinality(Spawners') <= Cardinality(Spawners) /\ Cardinality(Spawners') \in Nat
  BY Finite, FS_Subset, FS_CardinalityType
<1> QED
  BY <1>2, <1>3, <1>4, Finite, Numbers DEF FanOut

\* Almost every step is of that kind.
LEMMA FanOutCalm ==
    ASSUME Types, FanOut, parent' = parent,
           \A d \in Children : d \in Cancelled => d \in Cancelled',
           \A d \in Children \ Cancelled : parent[d] # Renamer /\ status'[d] \in {"pending", "running"}
                                            => status[d] \in {"pending", "running"},
           \A l \in Loops : loop'[l] = "spawn" => loop[l] = "spawn"
    PROVE  FanOut'
<1>1. Spawners' \subseteq Spawners
  BY DEF Spawners
<1>2. Cancelled \subseteq Cancelled' /\ Cancelled' \subseteq Children
  BY DEF Cancelled
<1>3. Free' \subseteq Free
  BY <1>2 DEF Free, Active
<1> QED
  BY <1>1, <1>2, <1>3, FanOutStill

LEMMA FanOutWorker ==
    ASSUME Types, Kin, Shown, FanOut, NEW c \in Children, WorkerStep(c)
    PROVE  FanOut'
<1>1. parent' = parent /\ Cancelled' = Cancelled
  BY DEF WorkerStep, SetRunning, Preflight, Kill, Commit, workerOnly, Cancelled
<1>2. loop' = loop \/ loop' = [loop EXCEPT ![c] = "turn"]
  BY DEF WorkerStep, SetRunning, Preflight, Kill, Commit, Set, workerOnly
<1>3. \A l \in Loops : loop'[l] = "spawn" => loop[l] = "spawn"
  BY <1>2 DEF Types
<1>4. \/ status' = status
      \/ worker[c] = "born"
      \/ \E e \in Terminal : status' = [status EXCEPT ![c] = e]
  BY DEF WorkerStep, SetRunning, Preflight, Kill, Commit, Finalize, Go, Set, Terminal
<1>5. \A d \in Children : d # c => status'[d] = status[d]
  BY DEF WorkerStep, SetRunning, Preflight, Kill, Commit, Finalize, Set, Types
<1>6. c \notin Cancelled /\ parent[c] # Renamer /\ status'[c] \in {"pending", "running"}
        => status[c] \in {"pending", "running"}
  <2>1. CASE worker[c] = "born"
    BY <2>1 DEF Shown, Shows
  <2>2. ASSUME NEW e \in Terminal, status' = [status EXCEPT ![c] = e]
        PROVE  status'[c] \notin {"pending", "running"}
    BY <2>2 DEF Terminal, Types
  <2> QED
    BY <1>4, <2>1, <2>2
<1> QED
  BY <1>1, <1>3, <1>5, <1>6, FanOutCalm

LEMMA FanOutQuits ==
    ASSUME Types, FanOut, NEW l \in Loops, Quits(l)
    PROVE  FanOut'
<1>1. UNCHANGED <<status, parent>> /\ Cancelled' = Cancelled
  BY DEF Quits, loopOnly, Cancelled
<1>2. \A m \in Loops : loop'[m] = "spawn" => loop[m] = "spawn"
  BY DEF Quits, Types
<1> QED
  BY <1>1, <1>2, FanOutCalm

\* A loop that has a slot or waits for one is the root's, is cancelled, or
\* belongs to an agent that counts.
LEMMA SpawnersCount ==
    ASSUME Types, Kin, Shown, NEW l \in Loops, loop[l] \in {"slot", "spawn"}
    PROVE  l = Root \/ l \in Free \/ l \in Cancelled
<1> SUFFICES ASSUME l # Root, l \notin Cancelled
             PROVE  l \in Free
  OBVIOUS
<1>1. l \in Children
  BY DEF Loops
<1>2. worker[l] = "run"
  BY <1>1 DEF Types
<1>3. status[l] = "running" /\ parent[l] # Renamer
  BY <1>1, <1>2, Numbers DEF Kin, Shown, Shows
<1> QED
  BY <1>1, <1>3 DEF Free, Active

LEMMA FanOutTakeSlot ==
    ASSUME Types, Kin, Shown, FanOut, NEW l \in Loops, TakeSlot(l)
    PROVE  FanOut'
<1>1. UNCHANGED <<status, parent, cancel, clicked>> /\ Cardinality(Active) < Cap
      /\ loop[l] = "slot" /\ loop' = [loop EXCEPT ![l] = "spawn"]
  BY DEF TakeSlot, Go, Set, loopOnly
<1>2. Free' = Free /\ Cancelled' = Cancelled
  BY <1>1 DEF Free, Active, Cancelled
<1>3. Spawners' \subseteq Free \cup Cancelled \cup {Root}
  <2>1. \A m \in Loops : loop'[m] = "spawn" => loop[m] \in {"slot", "spawn"}
    BY <1>1 DEF Types
  <2> QED
    BY <2>1, SpawnersCount DEF Spawners
<1>4. Free \subseteq Active
  BY DEF Free
<1>5. Cardinality(Free) <= Cap - 1
  BY <1>1, <1>4, Finite, FS_Subset, Numbers
<1>6. /\ IsFiniteSet(Free \cup Cancelled)
      /\ Cardinality(Free \cup Cancelled) <= Cardinality(Free) + Cardinality(Cancelled)
  <2>1. IsFiniteSet(Free \cap Cancelled)
    BY Finite, FS_Subset
  <2>2. Cardinality(Free \cap Cancelled) \in Nat
    BY <2>1, FS_CardinalityType
  <2>3. IsFiniteSet(Free \cup Cancelled)
        /\ Cardinality(Free \cup Cancelled)
             = Cardinality(Free) + Cardinality(Cancelled) - Cardinality(Free \cap Cancelled)
    BY Finite, FS_Union
  <2> QED
    BY <2>2, <2>3, Finite
<1>7. /\ IsFiniteSet((Free \cup Cancelled) \cup {Root})
      /\ Cardinality((Free \cup Cancelled) \cup {Root}) <= Cardinality(Free \cup Cancelled) + 1
  <2>1. Cardinality(Free \cup Cancelled) \in Nat
    BY <1>6, FS_CardinalityType
  <2>2. /\ IsFiniteSet((Free \cup Cancelled) \cup {Root})
        /\ Cardinality((Free \cup Cancelled) \cup {Root})
             = IF Root \in Free \cup Cancelled THEN Cardinality(Free \cup Cancelled)
                                              ELSE Cardinality(Free \cup Cancelled) + 1
    BY <1>6, FS_AddElement
  <2> QED
    BY <2>1, <2>2
<1>8. IsFiniteSet(Spawners') /\ Cardinality(Spawners') <= Cardinality((Free \cup Cancelled) \cup {Root})
  BY <1>3, <1>7, FS_Subset
<1>9. Cardinality(Spawners') \in Nat /\ Cardinality((Free \cup Cancelled) \cup {Root}) \in Nat
      /\ Cardinality(Free \cup Cancelled) \in Nat
  BY <1>6, <1>7, <1>8, FS_CardinalityType
<1>10. Cardinality(Free) + Cardinality(Spawners') <= 2 * Cap - 1 + Cardinality(Cancelled)
  BY <1>5, <1>6, <1>7, <1>8, <1>9, Finite, Numbers
<1> QED
  BY <1>2, <1>10 DEF FanOut

LEMMA FanOutLoop ==
    ASSUME Types, Kin, Shown, FanOut, NEW l \in Loops, LoopStep(l), ~Quitting(l), ~Spawn(l)
    PROVE  FanOut'
<1>1. CASE BeginSpawn(l) \/ Join(l) \/ Joined(l) \/ JoinCancelled(l)
  <2>1. UNCHANGED <<status, parent, cancel, clicked>>
    BY <1>1 DEF BeginSpawn, Join, Joined, JoinCancelled, loopOnly
  <2>2. Cancelled' = Cancelled
    BY <2>1 DEF Cancelled
  <2>3. \A m \in Loops : loop'[m] = "spawn" => loop[m] = "spawn"
    BY <1>1 DEF BeginSpawn, Join, Joined, JoinCancelled, Go, Set, Types
  <2> QED
    BY <2>1, <2>2, <2>3, FanOutCalm
<1>2. CASE CancelChild(l)
  <2>1. UNCHANGED <<status, parent, loop, clicked>>
    BY <1>2 DEF CancelChild
  <2>2. \A d \in Children : cancel[d] => cancel'[d]
    BY <1>2, Numbers DEF CancelChild, Set, Types
  <2>3. \A d \in Children : d \in Cancelled => d \in Cancelled'
    BY <2>1, <2>2 DEF Cancelled
  <2> QED
    BY <2>1, <2>3, FanOutCalm
<1>3. CASE FinalizeChild(l)
  <2>1. UNCHANGED <<parent, cancel, loop, clicked>>
    BY <1>3 DEF FinalizeChild
  <2>2. \A d \in Children : status'[d] = status[d] \/ status'[d] = "cancelled"
    BY <1>3 DEF FinalizeChild, Finalize, Set, Types
  <2>3. Cancelled' = Cancelled
    BY <2>1 DEF Cancelled
  <2> QED
    BY <2>1, <2>2, <2>3, FanOutCalm
<1> QED
  BY <1>1, <1>2, <1>3, FanOutTakeSlot DEF LoopStep, Quitting

LEMMA FanOutCreates ==
    ASSUME Types, FanOut, NEW c \in Children, NEW by, Creates(c, by)
    PROVE  FanOut'
<1>1. Cancelled' = Cancelled
  BY DEF Creates, Cancelled
<1>2. \A d \in Children : d # c => status'[d] = status[d] /\ parent'[d] = parent[d]
  BY DEF Creates, Types
<1>3. parent'[c] = by
  BY DEF Creates, Types
<1>4. CASE by \in Loops
  <2>1. loop[by] = "spawn" /\ loop' = [loop EXCEPT ![by] = "turn"]
    BY <1>4, Numbers DEF Creates
  <2>2. Spawners' = Spawners \ {by} /\ by \in Spawners
    BY <1>4, <2>1 DEF Spawners, Types
  <2>3. Cardinality(Spawners') = Cardinality(Spawners) - 1
    BY <2>2, Finite, FS_RemoveElement
  <2>4. Free' \subseteq Free \cup {c}
    BY <1>1, <1>2 DEF Free, Active
  <2>5. IsFiniteSet(Free \cup {c}) /\ Cardinality(Free \cup {c}) <= Cardinality(Free) + 1
    <3>1. /\ IsFiniteSet(Free \cup {c})
          /\ Cardinality(Free \cup {c}) = IF c \in Free THEN Cardinality(Free) ELSE Cardinality(Free) + 1
      BY Finite, FS_AddElement
    <3> QED
      BY <3>1, Finite
  <2>6. IsFiniteSet(Free') /\ Cardinality(Free') <= Cardinality(Free \cup {c})
    BY <2>4, <2>5, FS_Subset
  <2>7. Cardinality(Free') \in Nat /\ Cardinality(Free \cup {c}) \in Nat
    BY <2>5, <2>6, FS_CardinalityType
  <2>8. Cardinality(Free') + Cardinality(Spawners') <= 2 * Cap - 1 + Cardinality(Cancelled)
    BY <2>3, <2>5, <2>6, <2>7, Finite, Numbers DEF FanOut
  <2> QED
    BY <1>1, <2>8 DEF FanOut
<1>5. CASE by = Renamer
  <2>1. loop' = loop
    BY <1>5, Numbers DEF Creates
  <2>2. Free' \subseteq Free /\ Spawners' = Spawners
    BY <1>1, <1>2, <1>3, <1>5, <2>1 DEF Free, Active, Spawners
  <2> QED
    BY <1>1, <2>2, FanOutStill DEF Cancelled
<1> QED
  BY <1>4, <1>5 DEF Creates

LEMMA FanOutOthers ==
    ASSUME Types, Kin, FanOut
    PROVE  /\ CancelRun \/ NewRun \/ FinalizeClicked => FanOut'
           /\ \A c \in Children : ClickCancel(c) => FanOut'
           /\ \A c \in Children : \A s \in {"running"} \cup Terminal : UpdateExternal(c, s) => FanOut'
<1>1. ASSUME CancelRun \/ NewRun
      PROVE  FanOut'
  <2>1. UNCHANGED <<status, parent>> /\ clicked \subseteq clicked'
    BY <1>1 DEF CancelRun, NewRun, Click
  <2>2. \A d \in Children : cancel'[d] = cancel[d]
    BY <1>1, Numbers DEF CancelRun, NewRun, Set, Types
  <2>3. \A d \in Children : d \in Cancelled => d \in Cancelled'
    BY <2>1, <2>2 DEF Cancelled
  <2>4. \A m \in Loops : loop'[m] = "spawn" => loop[m] = "spawn"
    BY <1>1 DEF CancelRun, NewRun, Go, Set, Types
  <2> QED
    BY <2>1, <2>3, <2>4, FanOutCalm
<1>2. ASSUME FinalizeClicked
      PROVE  FanOut'
  <2>1. UNCHANGED <<parent, cancel, loop, clicked>>
    BY <1>2 DEF FinalizeClicked
  <2>2. \A d \in Children : status'[d] = status[d] \/ status'[d] = "cancelled"
    BY <1>2 DEF FinalizeClicked, Finalize, Set, Types
  <2>3. Cancelled' = Cancelled
    BY <2>1 DEF Cancelled
  <2> QED
    BY <2>1, <2>2, <2>3, FanOutCalm
<1>3. ASSUME NEW c \in Children, ClickCancel(c)
      PROVE  FanOut'
  <2>1. UNCHANGED <<status, parent, loop>> /\ clicked \subseteq clicked'
    BY <1>3 DEF ClickCancel, Click
  <2>2. \A d \in Children : cancel[d] => cancel'[d]
    BY <1>3, Numbers DEF ClickCancel, Set, Types
  <2>3. \A d \in Children : d \in Cancelled => d \in Cancelled'
    BY <2>1, <2>2 DEF Cancelled
  <2> QED
    BY <2>1, <2>3, FanOutCalm
<1>4. ASSUME NEW c \in Children, NEW s \in {"running"} \cup Terminal, UpdateExternal(c, s)
      PROVE  FanOut'
  <2>1. parent[c] = Renamer /\ UNCHANGED <<parent, cancel, loop, clicked>>
        /\ \A d \in Children : d # c => status'[d] = status[d]
    BY <1>4, UpdateEffects
  <2>2. Cancelled' = Cancelled
    BY <2>1 DEF Cancelled
  <2> QED
    BY <2>1, <2>2, FanOutCalm
<1> QED
  BY <1>1, <1>2, <1>3, <1>4

-----------------------------------------------------------------------------
(* The invariant *)

LEMMA Initially ==
    ASSUME Init
    PROVE  IInv
<1>1. Types
  <2>1. ends \in [Children -> Seq(Terminal)] /\ status \in [Children -> {"unborn", "pending", "running"} \cup Terminal]
    BY DEF Init
  <2> QED
    BY <2>1, Numbers DEF Init, Types
<1>2. Born = {} /\ Cancelled = {} /\ Free = {} /\ Spawners = {}
  BY Numbers DEF Init, Born, Cancelled, Free, Active, Spawners
<1>3. Numbered
  <2>1. 0 \in 0..MaxAgents /\ {} = 1..0
    BY Numbers
  <2>2. \A c \in Children : worker[c] = "none" /\ parent[c] = NoOne /\ ends[c] = <<>> /\ ~cancel[c] /\ c \notin clicked
    BY Numbers DEF Init
  <2> QED
    BY <1>2, <2>1, <2>2 DEF Numbered
<1>4. Kin
  BY Numbers DEF Init, Kin
<1>5. Shown
  BY Numbers DEF Init, Shown, Shows, Terminal
<1>6. Counted
  <2>1. \A b : One(b) \in {0, 1}
    BY DEF One
  <2>2. ASSUME NEW c \in Children
        PROVE  Counts(c)
    <3> DEFINE a == One(worker[c] = "over")
               b == One(Torn(c))
               d == One(c \in clicked /\ tab # c)
    <3>1. a \in {0, 1} /\ b \in {0, 1} /\ d \in {0, 1}
      BY DEF One
    <3>2. Len(ends[c]) = 0
      BY DEF Init
    <3>3. Len(ends[c]) <= a + b + d
      <4> HIDE DEF a, b, d
      <4> QED
        BY <3>1, <3>2
    <3> QED
      BY <3>3 DEF Counts
  <2> QED
    BY <2>2 DEF Counted
<1>7. FanOut
  BY <1>2, FS_EmptySet, Numbers DEF FanOut
<1> QED
  BY <1>1, <1>3, <1>4, <1>5, <1>6, <1>7 DEF IInv

LEMMA Inductive ==
    ASSUME IInv, [Next]_vars
    PROVE  IInv'
<1> USE DEF IInv
<1>1. ASSUME NEW c \in Children, WorkerStep(c)
      PROVE  IInv'
  BY <1>1, TypesWorker, KeepsWorker, KeepsNumbered, KinWorker, ShownWorker, CountedWorker, FanOutWorker
<1>2. ASSUME NEW l \in Loops, Quitting(l)
      PROVE  IInv'
  <2>1. Quits(l)
    BY <1>2, QuittingQuits DEF Kin
  <2> QED
    BY <2>1, TypesQuits, KeepsQuits, KeepsNumbered, KinQuits, ShownQuits, CountedQuits, FanOutQuits
<1>3. ASSUME NEW l \in Loops, Spawn(l)
      PROVE  IInv'
  <2>1. PICK c \in Children : Create(c, l) /\ Creates(c, l)
    BY <1>3, SpawnCreates
  <2>2. Types'
    BY <1>3, TypesSpawn
  <2> QED
    BY <2>1, <2>2, CreatesNumbered, KinCreates, ShownCreates, CountedCreates, FanOutCreates
<1>4. ASSUME NEW l \in Loops, LoopStep(l), ~Quitting(l), ~Spawn(l)
      PROVE  IInv'
  BY <1>4, TypesLoop, KeepsLoop, KeepsNumbered, KinLoop, ShownLoop, CountedLoop, FanOutLoop
<1>5. ASSUME NEW c \in Children, Register(c)
      PROVE  IInv'
  <2>1. Create(c, Renamer) /\ Creates(c, Renamer)
    BY <1>5, RegisterCreates
  <2>2. Types'
    BY <1>5, TypesOthers DEF RenamerStep
  <2> QED
    BY <2>1, <2>2, CreatesNumbered, KinCreates, ShownCreates, CountedCreates, FanOutCreates
<1>6. ASSUME CancelRun \/ NewRun \/ FinalizeClicked
      PROVE  IInv'
  BY <1>6, TypesOthers, KeepsOthers, KeepsNumbered, KinOthers, ShownOthers, CountedOthers, FanOutOthers
<1>7. ASSUME NEW c \in Children, ClickCancel(c)
      PROVE  IInv'
  BY <1>7, TypesOthers, KeepsOthers, KeepsNumbered, KinOthers, ShownOthers, CountedOthers, FanOutOthers
<1>8. ASSUME NEW c \in Children, NEW s \in {"running"} \cup Terminal, UpdateExternal(c, s)
      PROVE  IInv'
  <2>1. Types'
    BY <1>8, TypesOthers DEF RenamerStep
  <2> QED
    BY <1>8, <2>1, KeepsOthers, KeepsNumbered, KinOthers, ShownOthers, CountedOthers, FanOutOthers
<1>9. ASSUME UNCHANGED vars
      PROVE  IInv'
  <2>1. UNCHANGED <<status, parent, cancel, worker, loop, pending, todo, victim, tab, clicked, ends>>
    BY <1>9 DEF vars
  <2>2. Types'
    BY <2>1 DEF Types
  <2>3. Numbered'
    BY <2>1 DEF Numbered, Born
  <2>4. Kin'
    BY <2>1 DEF Kin
  <2>5. Cancelled' = Cancelled
    BY <2>1 DEF Cancelled
  <2>6. Shown'
    BY <2>1, <2>5, ShowsStill DEF Shown
  <2>7. ASSUME NEW d \in Children
        PROVE  Lasts(d)
    BY <2>1 DEF Lasts, Torn
  <2>8. Counted'
    BY <2>1, <2>7, CountsStep DEF Counted
  <2>9. FanOut'
    BY <2>1, <2>5 DEF FanOut, Free, Active, Spawners
  <2> QED
    BY <2>2, <2>3, <2>4, <2>6, <2>8, <2>9
<1> QED
  BY <1>1, <1>2, <1>3, <1>4, <1>5, <1>6, <1>7, <1>8, <1>9 DEF Next, Over, Stuck, RenamerStep

\* The inductive invariant.
THEOREM Invariance == Spec => []IInv
BY Initially, Inductive, PTL DEF Spec

\* The types, and the bound of the fan-out: whatever the tree of agents, fewer
\* than twice the cap are active, not counting the bulk renamer's, and each
\* agent somebody cancelled adds at most one.
THEOREM TypeCorrect == Spec => []TypeOK
<1>1. IInv => TypeOK
  <2> SUFFICES ASSUME IInv
               PROVE  TypeOK
    OBVIOUS
  <2>1. {c \in Active \ Cancelled : parent[c] # Renamer} = Free
    BY DEF Free
  <2>2. FanOutBounded
    <3>1. Cardinality(Free) <= 2 * Cap - 1 + Cardinality(Cancelled)
      BY Finite, Numbers DEF IInv, FanOut
    <3> QED
      BY <2>1, <3>1 DEF FanOutBounded
  <2> QED
    BY <2>2 DEF IInv, Types, TypeOK
<1> QED
  BY <1>1, Invariance, PTL

\* The end that the record of an agent shows was announced.  That of a child is
\* announced once if nobody cancelled it, and at most once by each of its worker,
\* its parent and the user otherwise; that of an agent of the renamer nobody
\* cancelled is the last event of it, behind the failures that announced its progress.
THEOREM EndsAreAnnounced == Spec => []EndAnnounced
<1>1. IInv => EndAnnounced
  <2> SUFFICES ASSUME IInv, NEW c \in Born \ BeingFinalized, worker[c] = "over"
               PROVE  /\ {status[c], Announcement(c)} \cap Range(ends[c]) # {}
                      /\ parent[c] # Renamer => Len(ends[c]) <= IF c \in Cancelled THEN 3 ELSE 1
                      /\ parent[c] = Renamer /\ c \notin Cancelled =>
                          /\ ends[c] # <<>> /\ Last(ends[c]) = Announcement(c)
                          /\ \A k \in 1..Len(ends[c]) - 1 : ends[c][k] = "failed"
    BY DEF EndAnnounced
  <2>1. c \in Children /\ Shows(c) /\ Counts(c) /\ ends[c] \in Seq(Terminal)
    BY DEF Born, IInv, Shown, Counted, Types
  <2>2. Told(c)
    BY <2>1 DEF Shows
  <2>3. ASSUME parent[c] # Renamer
        PROVE  Len(ends[c]) <= IF c \in Cancelled THEN 3 ELSE 1
    <3> DEFINE a == One(worker[c] = "over")
               b == One(Torn(c))
               d == One(c \in clicked /\ tab # c)
    <3>1. a \in {0, 1} /\ b \in {0, 1} /\ d \in {0, 1}
      BY DEF One
    <3>2. c \notin Cancelled => b = 0 /\ d = 0
      BY <2>1 DEF One, Torn, Cancelled
    <3>3. Len(ends[c]) <= a + b + d /\ Len(ends[c]) \in Nat
      BY <2>1, <2>3 DEF Counts
    <3> HIDE DEF a, b, d
    <3> QED
      BY <3>1, <3>2, <3>3
  <2>4. ASSUME parent[c] = Renamer, c \notin Cancelled
        PROVE  /\ ends[c] # <<>> /\ Last(ends[c]) = Announcement(c)
               /\ \A k \in 1..Len(ends[c]) - 1 : ends[c][k] = "failed"
    <3>1. Reported(c)
      BY <2>1, <2>4 DEF Shows
    <3>2. ends[c] # <<>> /\ Last(ends[c]) = Announcement(c)
      BY <3>1 DEF Reported, Last
    <3>3. \A k \in 1..Len(ends[c]) - 1 : k \in DOMAIN ends[c] /\ k # Len(ends[c])
      BY <2>1
    <3> QED
      BY <3>1, <3>2, <3>3 DEF Reported
  <2> QED
    BY <2>2, <2>3, <2>4 DEF Told
<1> QED
  BY <1>1, Invariance, PTL
=============================================================================
