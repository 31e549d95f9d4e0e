------------------------ MODULE MemoryProjectionProofs ------------------------
(***************************************************************************)
(* Proofs about MemoryProjection, for any writers, stores and facts, and   *)
(* any number of saves, edits and faults.                                  *)
(***************************************************************************)
EXTENDS MemoryProjection, TLAPS

\* What a store remembers was in the database.
MemoIsPast == \A s \in Stores : memo[s] # Outdated => memo[s] \subseteq facts

\* The notes a projector is about to put back lack at most the unseen edits.
NotesAtHand ==
    \A w \in Writers : pc[w] = "replace" => file.notes \subseteq before[w].notes \cup unseen

\* What is to be recorded is what the projector has written.
WrittenAtHand == \A w \in Writers : pc[w] = "clean" => file.managed = listing[w]

\* A save nobody interferes with lists the database as it is.
AloneIsCurrent ==
    \A w \in Writers : alone[w] =>
        /\ \A v \in Writers \ {w} : Idle(v)
        /\ created[w] /\ pc[w] = "list" => memo[StoreOf[w]] = Outdated
        /\ created[w] /\ pc[w] \in {"lock"} \cup Holding => listing[w] = facts

IInv ==
    /\ TypeOK /\ MemoIsPast /\ NotesAtHand /\ WrittenAtHand /\ AloneIsCurrent
    /\ StateDescribesFile /\ EditsKept /\ SaveRepairs

-----------------------------------------------------------------------------

LEMMA InitIInv == Init => IInv
<1> SUFFICES ASSUME Init PROVE IInv
  OBVIOUS
<1> USE MemoryAssumption DEF Init
<1>1. TypeOK
  <2>1. facts \subseteq Facts /\ recorded \subseteq Facts /\ dirty \in BOOLEAN /\ torn \in BOOLEAN
        /\ unseen \subseteq 1..MaxEdits
    OBVIOUS
  <2>2. NoDocument \in Documents
    BY DEF NoDocument, Documents
  <2>3. saves \in 0..MaxSaves /\ edits \in 0..MaxEdits /\ faults \in 0..MaxFaults
    OBVIOUS
  <2>4. memo \in [Stores -> (SUBSET Facts) \cup {Outdated}]
        /\ listing \in [Writers -> SUBSET Facts] /\ before \in [Writers -> Documents]
    BY <2>2
  <2>5. created \in [Writers -> BOOLEAN] /\ alone \in [Writers -> BOOLEAN]
    BY Zenon
  <2>6. pc \in [Writers -> Places]
        /\ (\A v, w \in Writers : Holder(v) /\ Holder(w) => v = w)
        /\ \A w \in Writers : listing[w] \subseteq facts
    BY DEF Holder, Holding, Places, Marking
  <2> QED BY <2>1, <2>2, <2>3, <2>4, <2>5, <2>6 DEF TypeOK
<1>2. MemoIsPast /\ NotesAtHand /\ WrittenAtHand /\ AloneIsCurrent
  BY DEF MemoIsPast, NotesAtHand, WrittenAtHand, AloneIsCurrent
<1>3. StateDescribesFile /\ EditsKept /\ SaveRepairs
  BY DEF StateDescribesFile, EditsKept, SaveRepairs, NoDocument
<1> QED BY <1>1, <1>2, <1>3 DEF IInv

LEMMA SaveStep ==
    ASSUME IInv, NEW w \in Writers, NEW f \in Facts, Save(w, f)
    PROVE  IInv'
<1> USE MemoryAssumption DEF row
<1>1. /\ pc[w] = "idle" /\ pc' = [pc EXCEPT ![w] = "list"]
      /\ UNCHANGED <<dirty, recorded, file, listing, before, edits, faults, torn, unseen>>
      /\ saves' \in 0..MaxSaves
      /\ facts' = facts \cup {f}
      /\ created' = [created EXCEPT ![w] = f \notin facts]
      /\ alone' = [v \in Writers |-> v = w /\ \A u \in Writers \ {w} : Idle(u)]
      /\ IF f \in facts THEN memo' = memo ELSE memo' = [memo EXCEPT ![StoreOf[w]] = Outdated]
  BY DEF Save, Goto, NoteWrite, IInv, TypeOK
<1>2. TypeOK'
  <2>1. memo' \in [Stores -> (SUBSET Facts) \cup {Outdated}]
    BY <1>1 DEF IInv, TypeOK
  <2>2. created' \in [Writers -> BOOLEAN] /\ alone' \in [Writers -> BOOLEAN]
    <3>1. created \in [Writers -> BOOLEAN] /\ (f \notin facts) \in BOOLEAN
      BY DEF IInv, TypeOK
    <3>2. created' \in [Writers -> BOOLEAN]
      BY <1>1, <3>1, Zenon
    <3>3. \A v \in Writers : (v = w /\ \A u \in Writers \ {w} : Idle(u)) \in BOOLEAN
      BY Zenon
    <3>4. alone' \in [Writers -> BOOLEAN]
      BY <1>1, <3>3, Zenon
    <3> QED BY <3>2, <3>4
  <2>3. /\ pc' \in [Writers -> Places]
        /\ \A v, u \in Writers : Holder(v)' /\ Holder(u)' => v = u
    BY <1>1 DEF IInv, TypeOK, Holder, Holding, Places, Marking
  <2> QED BY <1>1, <2>1, <2>2, <2>3 DEF IInv, TypeOK
<1>3. MemoIsPast'
  BY <1>1 DEF IInv, TypeOK, MemoIsPast
<1>4. NotesAtHand' /\ WrittenAtHand' /\ StateDescribesFile' /\ EditsKept'
  BY <1>1 DEF IInv, TypeOK, NotesAtHand, WrittenAtHand, StateDescribesFile, EditsKept
<1>5. AloneIsCurrent'
  <2> SUFFICES ASSUME NEW u \in Writers, alone'[u]
               PROVE  /\ \A v \in Writers \ {u} : Idle(v)'
                      /\ created'[u] /\ pc'[u] = "list" => memo'[StoreOf[u]] = Outdated
                      /\ created'[u] /\ pc'[u] \in {"lock"} \cup Holding => listing'[u] = facts'
    BY DEF AloneIsCurrent
  <2>1. u = w /\ \A v \in Writers \ {w} : Idle(v)
    BY <1>1
  <2>2. \A v \in Writers \ {w} : pc'[v] = pc[v]
    BY <1>1 DEF IInv, TypeOK
  <2>3. pc'[w] = "list" /\ created'[w] = (f \notin facts)
    BY <1>1 DEF IInv, TypeOK
  <2> QED BY <1>1, <2>1, <2>2, <2>3 DEF IInv, TypeOK, Idle, Holding
<1>6. SaveRepairs'
  BY <1>1 DEF IInv, TypeOK, SaveRepairs
<1> QED BY <1>2, <1>3, <1>4, <1>5, <1>6 DEF IInv

\* The steps of a projection that leave the database and MEMORY.md alone: a
\* listing, the two readings, a failure and its report, contention.
LEMMA ListStep ==
    ASSUME IInv, NEW w \in Writers, List(w)
    PROVE  IInv'
<1> USE MemoryAssumption DEF row, bounds
<1> DEFINE s == StoreOf[w]
           now == IF memo[s] = Outdated THEN facts ELSE memo[s]
<1>1. /\ pc[w] = "list" /\ pc' = [pc EXCEPT ![w] = "lock"]
      /\ UNCHANGED <<facts, dirty, recorded, file, before, saves, edits, faults, created, alone, torn, unseen>>
      /\ listing' = [listing EXCEPT ![w] = now]
      /\ memo' = [memo EXCEPT ![s] = now]
  BY DEF List, Goto
<1>2. s \in Stores /\ now \subseteq facts /\ now \subseteq Facts
  BY DEF IInv, TypeOK, MemoIsPast
<1>3. TypeOK'
  <2>1. memo' \in [Stores -> (SUBSET Facts) \cup {Outdated}]
        /\ listing' \in [Writers -> SUBSET Facts]
        /\ \A u \in Writers : listing'[u] \subseteq facts'
    BY <1>1, <1>2 DEF IInv, TypeOK
  <2>2. /\ pc' \in [Writers -> Places]
        /\ \A v, u \in Writers : Holder(v)' /\ Holder(u)' => v = u
    BY <1>1 DEF IInv, TypeOK, Holder, Holding, Places, Marking
  <2> QED BY <1>1, <2>1, <2>2 DEF IInv, TypeOK
<1>4. MemoIsPast'
  BY <1>1, <1>2 DEF IInv, TypeOK, MemoIsPast
<1>5. NotesAtHand' /\ WrittenAtHand' /\ StateDescribesFile' /\ EditsKept'
  BY <1>1 DEF IInv, TypeOK, NotesAtHand, WrittenAtHand, StateDescribesFile, EditsKept
<1>6. AloneIsCurrent'
  <2> SUFFICES ASSUME NEW u \in Writers, alone'[u]
               PROVE  /\ \A v \in Writers \ {u} : Idle(v)'
                      /\ created'[u] /\ pc'[u] = "list" => memo'[StoreOf[u]] = Outdated
                      /\ created'[u] /\ pc'[u] \in {"lock"} \cup Holding => listing'[u] = facts'
    BY DEF AloneIsCurrent
  <2>1. u = w
    BY <1>1 DEF IInv, AloneIsCurrent, Idle
  <2>2. \A v \in Writers \ {u} : Idle(v)'
    BY <1>1, <2>1 DEF IInv, TypeOK, AloneIsCurrent, Idle
  <2>3. pc'[u] = "lock" /\ listing'[u] = now
    BY <1>1, <2>1 DEF IInv, TypeOK
  <2>4. created[u] => now = facts
    BY <1>1, <2>1 DEF IInv, AloneIsCurrent
  <2> QED BY <1>1, <2>2, <2>3, <2>4
<1>7. SaveRepairs'
  BY <1>1 DEF IInv, TypeOK, SaveRepairs
<1> QED BY <1>3, <1>4, <1>5, <1>6, <1>7 DEF IInv

LEMMA QuietSteps ==
    ASSUME IInv, NEW w \in Writers,
           Acquire(w) \/ Contend(w) \/ Read(w) \/ Reread(w) \/ Fails(w) \/ Failed(w)
    PROVE  IInv'
<1> USE MemoryAssumption DEF row, bounds
<1>1. /\ UNCHANGED <<facts, recorded, file, memo, listing, saves, edits, created, alone, torn, unseen>>
      /\ faults' \in 0..MaxFaults
      /\ before' \in [Writers -> Documents] /\ \A u \in Writers \ {w} : before'[u] = before[u]
      /\ dirty' \in BOOLEAN /\ (dirty' = dirty \/ dirty')
      /\ pc[w] # "idle"
  <2>1. CASE Read(w)
    BY <2>1 DEF Read, Goto, IInv, TypeOK
  <2>2. CASE Fails(w)
    BY <2>2 DEF Fails, Holding, IInv, TypeOK
  <2>3. CASE Acquire(w) \/ Contend(w) \/ Reread(w) \/ Failed(w)
    BY <2>3 DEF Acquire, Contend, Reread, Failed, Marking, Goto, IInv, TypeOK
  <2> QED BY <2>1, <2>2, <2>3
<1>2. \E to \in {"read", "report", "reread", "replace"} \cup Marking :
        /\ pc' = [pc EXCEPT ![w] = to]
        /\ to \in Holding => pc[w] \in {"lock"} \cup Holding
        /\ to \in Holding => Holder(w) \/ \A v \in Writers : ~Holder(v)
        /\ to = "replace" => before'[w] = before[w] /\ before[w] = file
        /\ pc[w] = "clean" => to = "unrecorded"
        /\ pc[w] = "unrecorded" => to = "report"
        /\ to = "report" => dirty'
  BY DEF Acquire, Contend, Read, Reread, Fails, Failed, Goto, Holder, Holding, Marking
<1>3. PICK to \in {"read", "report", "reread", "replace"} \cup Marking :
        /\ pc' = [pc EXCEPT ![w] = to]
        /\ to \in Holding => pc[w] \in {"lock"} \cup Holding
        /\ to \in Holding => Holder(w) \/ \A v \in Writers : ~Holder(v)
        /\ to = "replace" => before'[w] = before[w] /\ before[w] = file
        /\ pc[w] = "clean" => to = "unrecorded"
        /\ pc[w] = "unrecorded" => to = "report"
        /\ to = "report" => dirty'
  BY <1>2
<1>4. pc'[w] = to /\ \A u \in Writers \ {w} : pc'[u] = pc[u]
  BY <1>3 DEF IInv, TypeOK
<1>5. TypeOK'
  <2>1. pc' \in [Writers -> Places]
    BY <1>3 DEF IInv, TypeOK, Holding, Places, Marking
  <2>2. \A v, u \in Writers : Holder(v)' /\ Holder(u)' => v = u
    BY <1>3, <1>4 DEF IInv, TypeOK, Holder
  <2> QED BY <1>1, <2>1, <2>2 DEF IInv, TypeOK
<1>6. MemoIsPast' /\ EditsKept'
  BY <1>1 DEF IInv, MemoIsPast, EditsKept
<1>7. NotesAtHand' /\ WrittenAtHand'
  BY <1>1, <1>3, <1>4 DEF IInv, NotesAtHand, WrittenAtHand, Marking
<1>8. AloneIsCurrent'
  <2>1. to # "idle" /\ to # "list" /\ to # "lock"
    BY DEF Marking
  <2> QED BY <2>1, <1>1, <1>3, <1>4 DEF IInv, AloneIsCurrent, Idle, Marking
<1>9. StateDescribesFile'
  BY <1>1, <1>3, <1>4 DEF IInv, StateDescribesFile
<1>10. SaveRepairs'
  BY <1>1, <1>3, <1>4 DEF IInv, SaveRepairs
<1> QED BY <1>5, <1>6, <1>7, <1>8, <1>9, <1>10 DEF IInv

LEMMA NewManagedPart ==
    ASSUME NEW d \in Documents, NEW m \in SUBSET Facts
    PROVE  /\ [d EXCEPT !.managed = m] \in Documents
           /\ [d EXCEPT !.managed = m].managed = m /\ [d EXCEPT !.managed = m].notes = d.notes
BY DEF Documents

LEMMA NewNotes ==
    ASSUME NEW d \in Documents, NEW n \in SUBSET (1..MaxEdits)
    PROVE  /\ [d EXCEPT !.notes = n] \in Documents
           /\ [d EXCEPT !.notes = n].notes = n /\ [d EXCEPT !.notes = n].managed = d.managed
BY DEF Documents

LEMMA NothingIsADocument == NoDocument \in Documents
BY DEF NoDocument, Documents

LEMMA CreatedIsBoolean ==
    ASSUME NEW gone, Forget(gone)
    PROVE  created' \in [Writers -> BOOLEAN]
<1>1. \A w \in Writers : (w \notin gone /\ created[w]) \in BOOLEAN
  BY Zenon
<1> QED BY <1>1, Zenon DEF Forget

LEMMA ReplaceStep ==
    ASSUME IInv, NEW w \in Writers, Replace(w)
    PROVE  IInv'
<1> USE MemoryAssumption DEF row, bounds
<1>1. /\ UNCHANGED <<facts, dirty, recorded, memo, listing, before, saves, edits, faults, created, alone,
                     torn, unseen>>
      /\ pc[w] = "replace" /\ pc' = [pc EXCEPT ![w] = "clean"]
      /\ file' = [before[w] EXCEPT !.managed = listing[w]]
  BY DEF Replace, Goto
<1>2. before[w] \in Documents /\ listing[w] \in SUBSET Facts
  BY DEF IInv, TypeOK
<1>3. file' \in Documents /\ file'.managed = listing[w] /\ file'.notes = before[w].notes
  BY <1>1, <1>2, NewManagedPart
<1>4. pc'[w] = "clean" /\ \A u \in Writers \ {w} : pc'[u] = pc[u] /\ pc[u] \notin {"replace", "clean"}
  BY <1>1 DEF IInv, TypeOK, Holder, Holding, Places, Marking
<1>5. TypeOK'
  <2>1. pc' \in [Writers -> Places]
    BY <1>1 DEF IInv, TypeOK, Holding, Places, Marking
  <2>2. \A v, u \in Writers : Holder(v)' /\ Holder(u)' => v = u
    BY <1>1, <1>4 DEF IInv, TypeOK, Holder, Holding, Places, Marking
  <2> QED BY <1>1, <1>3, <2>1, <2>2 DEF IInv, TypeOK
<1>6. MemoIsPast' /\ NotesAtHand' /\ WrittenAtHand'
  BY <1>1, <1>3, <1>4 DEF IInv, MemoIsPast, NotesAtHand, WrittenAtHand
<1>7. EditsKept'
  BY <1>1, <1>3 DEF IInv, NotesAtHand, EditsKept
<1>8. AloneIsCurrent'
  BY <1>1, <1>4 DEF IInv, AloneIsCurrent, Idle, Holding
<1>9. StateDescribesFile'
  BY <1>4 DEF StateDescribesFile
<1>10. SaveRepairs'
  BY <1>1, <1>4 DEF IInv, SaveRepairs, AloneIsCurrent, Idle
<1> QED BY <1>5, <1>6, <1>7, <1>8, <1>9, <1>10 DEF IInv

LEMMA CleanStep ==
    ASSUME IInv, NEW w \in Writers, Clean(w)
    PROVE  IInv'
<1> USE MemoryAssumption DEF row, bounds
<1>1. /\ UNCHANGED <<facts, file, memo, listing, before, saves, edits, faults, created, alone, unseen>>
      /\ pc[w] = "clean" /\ pc' = [pc EXCEPT ![w] = "report"]
      /\ dirty' = FALSE /\ recorded' = listing[w] /\ torn' = FALSE
  BY DEF Clean, Goto
<1>2. file.managed = listing[w] /\ listing[w] \subseteq Facts
  BY <1>1 DEF IInv, TypeOK, WrittenAtHand
<1>3. pc'[w] = "report" /\ \A u \in Writers \ {w} : pc'[u] = pc[u]
  BY <1>1 DEF IInv, TypeOK
<1>4. TypeOK'
  <2>1. pc' \in [Writers -> Places]
    BY <1>1 DEF IInv, TypeOK, Holding, Places, Marking
  <2>2. \A v, u \in Writers : Holder(v)' /\ Holder(u)' => v = u
    BY <1>3 DEF IInv, TypeOK, Holder, Holding, Places, Marking
  <2> QED BY <1>1, <1>2, <2>1, <2>2 DEF IInv, TypeOK
<1>5. MemoIsPast' /\ NotesAtHand' /\ WrittenAtHand' /\ EditsKept'
  BY <1>1, <1>3 DEF IInv, MemoIsPast, NotesAtHand, WrittenAtHand, EditsKept
<1>6. AloneIsCurrent'
  BY <1>1, <1>3 DEF IInv, AloneIsCurrent, Idle, Holding
<1>7. StateDescribesFile'
  BY <1>1, <1>2 DEF StateDescribesFile
<1>8. SaveRepairs'
  <2> SUFFICES ASSUME NEW u \in Writers, pc'[u] = "report", alone'[u], created'[u]
               PROVE  file'.managed = facts' /\ recorded' = facts'
    BY DEF SaveRepairs
  <2>1. u = w
    BY <1>1 DEF IInv, AloneIsCurrent, Idle
  <2> QED BY <2>1, <1>1, <1>2 DEF IInv, AloneIsCurrent, Holding
<1> QED BY <1>4, <1>5, <1>6, <1>7, <1>8 DEF IInv

\* The end of a save, or the exception that leaves it, forgets what the call kept.
LEMMA ReportStep ==
    ASSUME IInv, NEW w \in Writers, Report(w) \/ MarkFails(w)
    PROVE  IInv'
<1> USE MemoryAssumption DEF row, bounds
<1>1. /\ UNCHANGED <<facts, dirty, recorded, file, memo, saves, edits, unseen>>
      /\ faults' \in 0..MaxFaults
      /\ pc[w] \in {"report"} \cup Marking /\ alone' = [alone EXCEPT ![w] = FALSE]
      /\ torn' \in BOOLEAN /\ (torn \/ pc[w] = "unrecorded" => torn')
      /\ Forget({w})
  <2>1. CASE Report(w)
    BY <2>1 DEF Report, IInv, TypeOK
  <2>2. CASE MarkFails(w)
    <3>1. torn' = (torn \/ pc[w] = "unrecorded")
      BY <2>2 DEF MarkFails
    <3>2. torn' \in BOOLEAN /\ (torn \/ pc[w] = "unrecorded" => torn')
      BY <3>1, Zenon
    <3> QED BY <2>2, <3>2 DEF MarkFails, IInv, TypeOK
  <2> QED BY <2>1, <2>2
<1>2. /\ \A u \in Writers \ {w} : /\ pc'[u] = pc[u] /\ listing'[u] = listing[u]
                                  /\ before'[u] = before[u] /\ (created'[u] <=> created[u])
                                  /\ alone'[u] = alone[u]
      /\ pc'[w] = "idle" /\ listing'[w] = {} /\ ~created'[w] /\ ~alone'[w]
  BY <1>1 DEF Forget, IInv, TypeOK
<1>3. TypeOK'
  <2>1. /\ pc' \in [Writers -> Places]
        /\ listing' \in [Writers -> SUBSET Facts]
    BY <1>1 DEF IInv, TypeOK, Forget, Places
  <2>2. before' \in [Writers -> Documents]
    BY <1>1, NothingIsADocument DEF IInv, TypeOK, Forget
  <2>3. created' \in [Writers -> BOOLEAN]
    BY <1>1, CreatedIsBoolean
  <2>4. alone' \in [Writers -> BOOLEAN]
    BY <1>1 DEF IInv, TypeOK
  <2>5. \A v, u \in Writers : Holder(v)' /\ Holder(u)' => v = u
    BY <1>2 DEF IInv, TypeOK, Holder, Holding, Places, Marking
  <2>6. \A u \in Writers : listing'[u] \subseteq facts'
    BY <1>1, <1>2 DEF IInv, TypeOK
  <2> QED BY <1>1, <2>1, <2>2, <2>3, <2>4, <2>5, <2>6 DEF IInv, TypeOK
<1>4. MemoIsPast' /\ NotesAtHand' /\ WrittenAtHand' /\ EditsKept'
  BY <1>1, <1>2 DEF IInv, MemoIsPast, NotesAtHand, WrittenAtHand, EditsKept
<1>5. AloneIsCurrent'
  BY <1>1, <1>2 DEF IInv, AloneIsCurrent, Idle
<1>6. StateDescribesFile' /\ SaveRepairs'
  BY <1>1, <1>2 DEF IInv, StateDescribesFile, SaveRepairs, Marking
<1> QED BY <1>3, <1>4, <1>5, <1>6 DEF IInv

LEMMA EditStep ==
    ASSUME IInv, Edit
    PROVE  IInv'
<1> USE MemoryAssumption DEF row
<1>1. /\ UNCHANGED <<facts, dirty, recorded, memo, pc, created, listing, before, saves, faults, alone, torn>>
      /\ edits' = edits + 1 /\ edits' \in 1..MaxEdits /\ edits' \in 0..MaxEdits
      /\ file' = [file EXCEPT !.notes = @ \cup {edits'}]
      /\ unseen' = IF \E w \in Writers : pc[w] = "replace" THEN unseen \cup {edits'} ELSE unseen
  BY DEF Edit, IInv, TypeOK
<1>2. file \in Documents /\ file.notes \cup {edits'} \in SUBSET (1..MaxEdits)
  BY <1>1 DEF IInv, TypeOK, Documents
<1>3. file' \in Documents /\ file'.notes = file.notes \cup {edits'} /\ file'.managed = file.managed
  BY <1>1, <1>2, NewNotes
<1>4. TypeOK'
  <2>1. unseen' \subseteq 1..MaxEdits
    BY <1>1 DEF IInv, TypeOK
  <2>2. \A v, u \in Writers : Holder(v)' /\ Holder(u)' => v = u
    BY <1>1 DEF IInv, TypeOK, Holder
  <2> QED BY <1>1, <1>3, <2>1, <2>2 DEF IInv, TypeOK
<1>5. MemoIsPast' /\ WrittenAtHand' /\ StateDescribesFile' /\ SaveRepairs'
  BY <1>1, <1>3 DEF IInv, MemoIsPast, WrittenAtHand, StateDescribesFile, SaveRepairs
<1>6. AloneIsCurrent'
  BY <1>1 DEF IInv, AloneIsCurrent, Idle
<1>7. NotesAtHand'
  BY <1>1, <1>3 DEF IInv, NotesAtHand
<1>8. EditsKept'
  <2>1. 1..edits' = (1..edits) \cup {edits'}
    BY <1>1 DEF IInv, TypeOK
  <2> QED BY <2>1, <1>1, <1>3 DEF IInv, EditsKept
<1> QED BY <1>4, <1>5, <1>6, <1>7, <1>8 DEF IInv

LEMMA RestartStep ==
    ASSUME IInv, NEW s \in Stores, Restart(s)
    PROVE  IInv'
<1> USE MemoryAssumption DEF row
<1> DEFINE gone == {w \in Writers : StoreOf[w] = s}
<1>1. /\ UNCHANGED <<facts, dirty, recorded, file, saves, edits, unseen>>
      /\ faults' \in 0..MaxFaults
      /\ memo' = [memo EXCEPT ![s] = Outdated]
      /\ Forget(gone)
      /\ torn' = (torn \/ \E w \in gone : pc[w] \in {"clean", "unrecorded"})
      /\ alone' = [w \in Writers |-> alone[w] /\ \A v \in gone : Idle(v)]
  BY DEF Restart, IInv, TypeOK
<1>2. /\ \A u \in Writers \ gone : /\ pc'[u] = pc[u] /\ listing'[u] = listing[u]
                                   /\ before'[u] = before[u] /\ (created'[u] <=> created[u])
      /\ \A u \in gone : pc'[u] = "idle" /\ listing'[u] = {} /\ ~created'[u]
      /\ \A u \in Writers : alone'[u] <=> alone[u] /\ \A v \in gone : Idle(v)
  BY <1>1 DEF Forget
<1>3. TypeOK'
  <2>1. /\ pc' \in [Writers -> Places]
        /\ listing' \in [Writers -> SUBSET Facts]
    BY <1>1 DEF IInv, TypeOK, Forget, Places
  <2>2. before' \in [Writers -> Documents]
    BY <1>1, NothingIsADocument DEF IInv, TypeOK, Forget
  <2>3. created' \in [Writers -> BOOLEAN]
    BY <1>1, CreatedIsBoolean
  <2>4. alone' \in [Writers -> BOOLEAN]
    <3>1. \A u \in Writers : (alone[u] /\ \A v \in gone : Idle(v)) \in BOOLEAN
      BY Zenon
    <3> HIDE DEF gone
    <3> QED BY <1>1, <3>1, Zenon
  <2>5. \A v, u \in Writers : Holder(v)' /\ Holder(u)' => v = u
    BY <1>2 DEF IInv, TypeOK, Holder, Holding, Places, Marking
  <2>6. \A u \in Writers : listing'[u] \subseteq facts'
    BY <1>1, <1>2 DEF IInv, TypeOK
  <2>7. memo' \in [Stores -> (SUBSET Facts) \cup {Outdated}]
    BY <1>1 DEF IInv, TypeOK
  <2>8. torn' \in BOOLEAN
    BY <1>1, Zenon
  <2> QED BY <1>1, <2>1, <2>2, <2>3, <2>4, <2>5, <2>6, <2>7, <2>8 DEF IInv, TypeOK
<1>4. MemoIsPast'
  BY <1>1 DEF IInv, TypeOK, MemoIsPast
<1>5. NotesAtHand' /\ WrittenAtHand' /\ EditsKept'
  BY <1>1, <1>2 DEF IInv, NotesAtHand, WrittenAtHand, EditsKept
<1>6. AloneIsCurrent'
  <2> SUFFICES ASSUME NEW u \in Writers, alone'[u]
               PROVE  /\ \A v \in Writers \ {u} : Idle(v)'
                      /\ created'[u] /\ pc'[u] = "list" => memo'[StoreOf[u]] = Outdated
                      /\ created'[u] /\ pc'[u] \in {"lock"} \cup Holding => listing'[u] = facts'
    BY DEF AloneIsCurrent
  <2>1. \A v \in Writers \ {u} : Idle(v)'
    BY <1>2 DEF IInv, AloneIsCurrent, Idle
  <2>2. CASE u \in gone
    BY <2>1, <2>2, <1>2
  <2>3. CASE u \notin gone
    <3>1. StoreOf[u] \in Stores /\ StoreOf[u] # s
      BY <2>3
    <3>2. memo'[StoreOf[u]] = memo[StoreOf[u]]
      BY <3>1, <1>1 DEF IInv, TypeOK
    <3> QED BY <2>1, <2>3, <3>2, <1>1, <1>2 DEF IInv, AloneIsCurrent
  <2> QED BY <2>2, <2>3
<1>7. StateDescribesFile' /\ SaveRepairs'
  BY <1>1, <1>2 DEF IInv, StateDescribesFile, SaveRepairs
<1> QED BY <1>3, <1>4, <1>5, <1>6, <1>7 DEF IInv

-----------------------------------------------------------------------------
(* The theorems *)

LEMMA Inductive == IInv /\ [Next]_vars => IInv'
<1> SUFFICES ASSUME IInv, [Next]_vars PROVE IInv'
  OBVIOUS
<1>1. CASE \E w \in Writers : (\E f \in Facts : Save(w, f)) \/ List(w) \/ Replace(w) \/ Clean(w)
                                 \/ Report(w) \/ MarkFails(w)
  BY <1>1, SaveStep, ListStep, ReplaceStep, CleanStep, ReportStep
<1>2. CASE \E w \in Writers : Acquire(w) \/ Contend(w) \/ Read(w) \/ Reread(w) \/ Fails(w) \/ Failed(w)
  BY <1>2, QuietSteps
<1>3. CASE Edit \/ \E s \in Stores : Restart(s)
  BY <1>3, EditStep, RestartStep
<1>4. CASE UNCHANGED vars
  BY <1>4 DEF vars, IInv, TypeOK, MemoIsPast, NotesAtHand, WrittenAtHand, AloneIsCurrent,
              StateDescribesFile, EditsKept, SaveRepairs, Holder, Idle
<1> QED BY <1>1, <1>2, <1>3, <1>4 DEF Next

THEOREM Invariance == Spec => []IInv
BY InitIInv, Inductive, PTL DEF Spec

\* The projection lock admits one projector at a time, and none of them works
\* with a fact the database does not have.
THEOREM OneProjector == Spec => []TypeOK
<1>1. IInv => TypeOK
  BY DEF IInv
<1> QED BY <1>1, Invariance, PTL

\* The projection_state row of a workspace describes MEMORY.md unless it says
\* dirty, or a save came to its end between the file and the row, because its
\* process died or because the database refused the row and then the mark.
THEOREM CleanMeansDescribed == Spec => []StateDescribesFile
<1>1. IInv => StateDescribesFile
  BY DEF IInv
<1> QED BY <1>1, Invariance, PTL

\* MemoryProjector.project() overwrites no edit of the notes but one that was
\* saved between its second reading and its replacement of the file.
THEOREM NoEditOverwritten == Spec => []EditsKept
<1>1. IInv => EditsKept
  BY DEF IInv
<1> QED BY <1>1, Invariance, PTL

\* A save_fact() that creates its fact and that nobody interferes with leaves
\* MEMORY.md complete, whatever happened before.
THEOREM UndisturbedSaveRepairs == Spec => []SaveRepairs
<1>1. IInv => SaveRepairs
  BY DEF IInv
<1> QED BY <1>1, Invariance, PTL

=============================================================================
