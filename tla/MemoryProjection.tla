-------------------------- MODULE MemoryProjection --------------------------
(***************************************************************************)
(* The facts of a workspace and their projection to MEMORY.md: save_fact() *)
(* of memory/service.py, the transaction and the memoised listing of       *)
(* memory/workspace_store.py, and MemoryProjector.project() of             *)
(* memory/markdown.py.                                                     *)
(*                                                                         *)
(* Every run opens a store of its own on the database of the workspace,    *)
(* and its subagents save through the store of their parent: a writer is   *)
(* an agent, StoreOf its store.  The projection lock is a file lock, so it *)
(* excludes the writers of one store as well as those of two.  The user    *)
(* edits the notes of MEMORY.md outside the managed region, with any       *)
(* editor: edits take no lock.  The text of the managed region is the set  *)
(* of facts it lists, and a hash of it that set.                           *)
(***************************************************************************)
EXTENDS Integers, FiniteSets

CONSTANTS Writers,   \* the agents that save
          Stores,    \* the stores opened on the database
          StoreOf,   \* the store of each writer
          Facts,     \* the facts they may save
          MaxSaves,  \* bound: saves of all writers
          MaxEdits,  \* bound: edits of the user
          MaxFaults  \* bound: crashes and failing steps

ASSUME MemoryAssumption ==
    /\ StoreOf \in [Writers -> Stores]
    /\ MaxSaves \in Nat /\ MaxEdits \in Nat /\ MaxFaults \in Nat
    /\ "outdated" \notin Facts

Outdated == {"outdated"}    \* a memo that is older than its store

VARIABLES
    facts,    \* the facts table of the database
    dirty,    \* projection_dirty of the projection_state row
    recorded, \* managed_hash of the projection_state row
    file,     \* MEMORY.md: the managed region and the notes around it
    memo,     \* the listing each store has memoised, or Outdated
    pc,       \* where each writer is in save_fact()
    listing,  \* entries: what project() is to write
    before,   \* the document project() has read
    saves,    \* how often the writers saved
    edits,    \* the edits of the user so far
    faults,   \* how often a step failed or a process crashed
    created,  \* the writer's save is the one that created its fact
    alone,    \* nobody else has saved or crashed since the writer's save began
    torn,     \* a save came to its end between the new MEMORY.md and its record:
              \* its process crashed, or neither mark could be made
    unseen    \* edits made after the projector's last look, before its write

vars == <<facts, dirty, recorded, file, memo, pc, listing, before, saves, edits,
          faults, created, alone, torn, unseen>>

Documents == [managed : SUBSET Facts, notes : SUBSET (1..MaxEdits)]
NoDocument == [managed |-> {}, notes |-> {}]
Holding == {"read", "reread", "replace", "clean"}     \* with the projection lock
Marking == {"failed", "unrecorded"}  \* after an exception, the file not replaced or replaced
Places == {"idle", "list", "lock", "report"} \cup Holding \cup Marking
Holder(w) == pc[w] \in Holding
Idle(w) == pc[w] = "idle"

TypeOK ==
    /\ facts \subseteq Facts /\ recorded \subseteq Facts /\ dirty \in BOOLEAN
    /\ file \in Documents
    /\ memo \in [Stores -> (SUBSET Facts) \cup {Outdated}]
    /\ pc \in [Writers -> Places]
    /\ listing \in [Writers -> SUBSET Facts]
    /\ before \in [Writers -> Documents]
    /\ saves \in 0..MaxSaves /\ edits \in 0..MaxEdits /\ faults \in 0..MaxFaults
    /\ created \in [Writers -> BOOLEAN] /\ alone \in [Writers -> BOOLEAN]
    /\ torn \in BOOLEAN /\ unseen \subseteq 1..MaxEdits
    \* One projector at a time, and what it works with is of this database.
    /\ \A v, w \in Writers : Holder(v) /\ Holder(w) => v = w
    /\ \A w \in Writers : listing[w] \subseteq facts

Init ==
    /\ facts = {} /\ dirty = FALSE /\ recorded = {}
    /\ file = NoDocument
    /\ memo = [s \in Stores |-> Outdated]
    /\ pc = [w \in Writers |-> "idle"]
    /\ listing = [w \in Writers |-> {}] /\ before = [w \in Writers |-> NoDocument]
    /\ saves = 0 /\ edits = 0 /\ faults = 0
    /\ created = [w \in Writers |-> FALSE] /\ alone = [w \in Writers |-> FALSE]
    /\ torn = FALSE /\ unseen = {}

row == <<dirty, recorded>>
bounds == <<saves, edits, faults>>

Goto(w, from, to) == pc[w] = from /\ pc' = [pc EXCEPT ![w] = to]

-----------------------------------------------------------------------------
(* save_fact() *)

\* Mutant: a write leaves the memo of its store.
NoteNothing(s) == memo' = memo

\* _note_write(): the generation of the store moves past its memo.
NoteWrite(s) == memo' = [memo EXCEPT ![s] = Outdated]

\* One transaction looks for the fact and adds it if it is absent.
Save(w, f) ==
    /\ Goto(w, "idle", "list") /\ saves < MaxSaves
    /\ saves' = saves + 1
    /\ created' = [created EXCEPT ![w] = f \notin facts]
    /\ facts' = facts \cup {f}
    /\ IF f \in facts THEN UNCHANGED memo ELSE NoteWrite(StoreOf[w])
    /\ alone' = [v \in Writers |-> v = w /\ \A u \in Writers \ {w} : Idle(u)]
    /\ UNCHANGED <<row, file, listing, before, edits, faults, torn, unseen>>

\* list_facts(): from the memo of the store if that is current.
List(w) ==
    LET s == StoreOf[w]
        now == IF memo[s] = Outdated THEN facts ELSE memo[s]
    IN  /\ Goto(w, "list", "lock")
        /\ listing' = [listing EXCEPT ![w] = now]
        /\ memo' = [memo EXCEPT ![s] = now]
        /\ UNCHANGED <<facts, row, file, created, before, bounds, alone, torn, unseen>>

\* Mutant: each projector has a lock of its own.
AcquireOwn(w) ==
    /\ Goto(w, "lock", "read")
    /\ UNCHANGED <<facts, row, file, memo, created, listing, before, bounds, alone, torn, unseen>>

Acquire(w) ==
    /\ Goto(w, "lock", "read")
    /\ \A v \in Writers : ~Holder(v)
    /\ UNCHANGED <<facts, row, file, memo, created, listing, before, bounds, alone, torn, unseen>>

\* The lock stays taken for the whole timeout: the projection is left to a later
\* pass.
Contend(w) ==
    /\ Goto(w, "lock", "report")
    /\ \E v \in Writers : Holder(v)
    /\ dirty' = TRUE
    /\ UNCHANGED <<facts, recorded, file, memo, created, listing, before, bounds, alone, torn, unseen>>

Read(w) ==
    /\ Goto(w, "read", "reread")
    /\ before' = [before EXCEPT ![w] = file]
    /\ UNCHANGED <<facts, row, file, memo, created, listing, bounds, alone, torn, unseen>>

\* Mutant: the second reading is not compared with the first.
RereadTrusting(w) ==
    /\ Goto(w, "reread", "replace")
    /\ UNCHANGED <<facts, row, file, memo, created, listing, before, bounds, alone, torn, unseen>>

\* The document must still be the one that was rendered; otherwise
\* ProjectionConflictError leaves the lock and the projection is marked dirty.
Reread(w) ==
    /\ Goto(w, "reread", IF file = before[w] THEN "replace" ELSE "failed")
    /\ UNCHANGED <<facts, row, file, memo, created, listing, before, bounds, alone, torn, unseen>>

Replace(w) ==
    /\ Goto(w, "replace", "clean")
    /\ file' = [before[w] EXCEPT !.managed = listing[w]]
    /\ UNCHANGED <<facts, row, memo, created, listing, before, bounds, alone, torn, unseen>>

\* mark_projection_clean(), and the lock is released.
Clean(w) ==
    /\ Goto(w, "clean", "report")
    /\ dirty' = FALSE /\ recorded' = listing[w] /\ torn' = FALSE
    /\ UNCHANGED <<facts, file, memo, created, listing, before, bounds, alone, unseen>>

\* Facts or a document that cannot be read or written, or a row that cannot be
\* updated: project() raises.
Fails(w) ==
    /\ pc[w] \in {"list", "lock"} \cup Holding /\ faults < MaxFaults
    /\ pc' = [pc EXCEPT ![w] = IF @ = "clean" THEN "unrecorded" ELSE "failed"]
    /\ faults' = faults + 1
    /\ UNCHANGED <<facts, row, file, memo, created, listing, before, saves, edits, alone, torn, unseen>>

\* Mutant: the failed projection is only logged.
FailedQuietly(w) ==
    /\ pc[w] \in Marking /\ pc' = [pc EXCEPT ![w] = "report"]
    /\ UNCHANGED <<facts, row, file, memo, created, listing, before, bounds, alone, torn, unseen>>

Failed(w) ==
    /\ pc[w] \in Marking /\ pc' = [pc EXCEPT ![w] = "report"]
    /\ dirty' = TRUE
    /\ UNCHANGED <<facts, recorded, file, memo, created, listing, before, bounds, alone, torn, unseen>>

\* What a call kept in its variables is gone with the call.
Forget(gone) ==
    /\ pc' = [w \in Writers |-> IF w \in gone THEN "idle" ELSE pc[w]]
    /\ listing' = [w \in Writers |-> IF w \in gone THEN {} ELSE listing[w]]
    /\ before' = [w \in Writers |-> IF w \in gone THEN NoDocument ELSE before[w]]
    /\ created' = [w \in Writers |-> w \notin gone /\ created[w]]

Report(w) ==
    /\ pc[w] = "report"
    /\ Forget({w})
    /\ alone' = [alone EXCEPT ![w] = FALSE]
    /\ UNCHANGED <<facts, row, file, memo, bounds, torn, unseen>>

\* The mark cannot be made either: save_fact() raises, with its fact saved and the
\* state as it was.
MarkFails(w) ==
    /\ pc[w] \in Marking /\ faults < MaxFaults
    /\ Forget({w})
    /\ faults' = faults + 1
    /\ alone' = [alone EXCEPT ![w] = FALSE]
    /\ torn' = (torn \/ pc[w] = "unrecorded")
    /\ UNCHANGED <<facts, row, file, memo, saves, edits, unseen>>

-----------------------------------------------------------------------------
(* The world around it *)

\* The user saves an edit of the notes in MEMORY.md.
Edit ==
    /\ edits < MaxEdits
    /\ edits' = edits + 1
    /\ file' = [file EXCEPT !.notes = @ \cup {edits'}]
    /\ unseen' = IF \E w \in Writers : pc[w] = "replace" THEN unseen \cup {edits'} ELSE unseen
    /\ UNCHANGED <<facts, row, memo, pc, created, listing, before, saves, faults, alone, torn>>

\* The process of a store crashes, or its run ends and the next one opens a store:
\* the memo is gone, and the system releases the file lock of a dead process.
Restart(s) ==
    LET gone == {w \in Writers : StoreOf[w] = s}
    IN  /\ memo[s] # Outdated \/ \E w \in gone : ~Idle(w)
        /\ IF \A w \in gone : Idle(w) THEN UNCHANGED faults
           ELSE faults < MaxFaults /\ faults' = faults + 1
        /\ Forget(gone)
        /\ memo' = [memo EXCEPT ![s] = Outdated]
        /\ torn' = (torn \/ \E w \in gone : pc[w] \in {"clean", "unrecorded"})
        /\ alone' = [w \in Writers |-> alone[w] /\ \A v \in gone : Idle(v)]
        /\ UNCHANGED <<facts, row, file, saves, edits, unseen>>

Next ==
    \/ \E w \in Writers :
        \/ \E f \in Facts : Save(w, f)
        \/ List(w) \/ Acquire(w) \/ Contend(w)
        \/ Read(w) \/ Reread(w) \/ Replace(w) \/ Clean(w)
        \/ Fails(w) \/ Failed(w) \/ MarkFails(w) \/ Report(w)
    \/ Edit
    \/ \E s \in Stores : Restart(s)

Spec == Init /\ [][Next]_vars

-----------------------------------------------------------------------------
(* Properties *)

\* A projection state that is not dirty describes the managed region of the
\* MEMORY.md that is there, whichever projections failed, contended or met an edit
\* before.  Two things break the tie, until the next projection: a crash between
\* the new file and its record, and a database that refuses the record and then
\* the mark as well.  A failure before the file is replaced never does.
StateDescribesFile ==
    ~dirty /\ ~torn /\ (\A w \in Writers : pc[w] \notin {"clean", "unrecorded"})
        => file.managed = recorded

\* An edit of the notes is lost only if it was saved in the window between the
\* projector's second look at MEMORY.md and its replacement of the file.
EditsKept == 1..edits \subseteq file.notes \cup unseen

\* A save that creates a fact while nobody else saves, and that ends with a clean
\* state, has repaired whatever conflicts, contention, crashes and outdated
\* listings left behind: MEMORY.md lists every fact of the database.
SaveRepairs ==
    \A w \in Writers :
        pc[w] = "report" /\ alone[w] /\ created[w] /\ ~dirty
            => file.managed = facts /\ recorded = facts

=============================================================================
