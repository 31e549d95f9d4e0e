--------------------------- MODULE ChatTabsProofs ---------------------------
(***************************************************************************)
(* Proofs about ChatTabs, for any number of tabs, chats, messages and      *)
(* failing starts and any cap on the agents: a chat is open in one tab and *)
(* a message waits in one place, a deleted chat stays deleted, and the     *)
(* history gets every turn that the code does not let go of.               *)
(***************************************************************************)
EXTENDS ChatTabs, FiniteSetTheorems, SequenceTheorems, TLAPS

-----------------------------------------------------------------------------
(* The inductive invariant *)

Busy(i) == \E t \in Tabs : Open(t) /\ idOf[tab[t]] = i /\ runner[t] # None

IsSaveOf(j, i) == j.op = "save" /\ idOf[j.chat] = i

\* What is referred to has been made, and nothing is known of an id that has not.
MadeSoFar ==
    /\ \A c \in 1..made : idOf[c] <= made
    /\ \A t \in Tabs : tab[t] <= made /\ (t > opened => ~Open(t))
    /\ \A m \in Msgs : chat[m] <= made /\ (IsLive(m) => chat[m] # None)
    /\ \A j \in DOMAIN jobs : IF jobs[j].op = "save" THEN jobs[j].chat <= made ELSE jobs[j].id <= made
    /\ writing.id <= made /\ request.id <= made
    /\ \A i \in Ids : i > made => file[i] = {} /\ owed[i] = {}

\* A message waits in one place, as often as it was submitted.
WaitsInPlace ==
    /\ \A m \in Msgs : m > typed => agent[m] = "none"
    /\ \A t \in Tabs : \A k \in DOMAIN pending[t] :
        /\ pending[t][k] <= typed /\ agent[pending[t][k]] = "none"
        /\ \A u \in Tabs : \A n \in DOMAIN pending[u] : pending[t][k] = pending[u][n] => t = u /\ k = n

\* A request is about a chat that is in no tab; while it is not one that was
\* queued, no deletion is, and never more than one.
RequestMeaning ==
    /\ switched => request = Nothing
    /\ request = Nothing \/ request.op # "none"
    /\ request # Nothing => request.id \in Ids \ OpenIds /\ request.id \notin removed
    /\ \A j \in DOMAIN jobs : jobs[j].op = "delete" =>
        /\ switched \/ (request.op = "queued" /\ request.id = jobs[j].id)
        /\ jobs[j].id \notin OpenIds
        /\ \A k \in DOMAIN jobs : jobs[k].op = "delete" => k = j
        /\ \A k \in DOMAIN jobs : k > j => ~IsSaveOf(jobs[k], jobs[j].id)

\* A deleted chat has no file, is in no tab, and is not to be saved.
Gone ==
    \A i \in removed :
        /\ i <= made
        /\ file[i] = {} /\ i \notin OpenIds /\ writing.id # i
        /\ \A j \in DOMAIN jobs : ~IsSaveOf(jobs[j], i)

\* A live run works on the chat of its tab, or its turn is adrift.
RunsInTabs ==
    \A m \in Msgs : IsLive(m) =>
        /\ m \in adrift \/ \E t \in Tabs : Open(t) /\ tab[t] = chat[m] /\ runner[t] = m
        /\ agent[m] = "asked" => m \in content[chat[m]]

Kept(i) == owed[i] \ adrift

Queued(i) == \E j \in DOMAIN jobs : IsSaveOf(jobs[j], i)

\* Where the turns that ended in a chat are: with the chat in its tab, with one
\* that is loaded, ...
InTab(i) ==
    \A t \in Tabs : Open(t) /\ idOf[tab[t]] = i =>
        /\ Kept(i) \subseteq content[tab[t]]
        /\ \A j \in DOMAIN jobs : IsSaveOf(jobs[j], i) => jobs[j].chat = tab[t]

InRequest(i) == request.op = "loaded" /\ request.id = i => Kept(i) \subseteq request.turns /\ ~Queued(i)

\* ... with every chat that is to be saved, and, when its runs are over and no save
\* is queued, with the file or what will replace it.
InJobs(i) == \A j \in DOMAIN jobs : IsSaveOf(jobs[j], i) => Kept(i) \subseteq content[jobs[j].chat]

OnDisk(i) ==
    ~Busy(i) /\ ~Queued(i) => Kept(i) \subseteq IF writing.id = i THEN writing.turns ELSE file[i]

CarriedOn(i) == InTab(i) /\ InRequest(i) /\ InJobs(i) /\ OnDisk(i)

Carried == \A i \in Ids \ (removed \cup reread) : CarriedOn(i)

\* Where things are, and where the turns are.
Placed == Types /\ MadeSoFar /\ OpenOnce /\ WaitsInPlace /\ RequestMeaning /\ Gone

IInv == Placed /\ RunsInTabs /\ Carried

-----------------------------------------------------------------------------
(* Types *)

\* The jobs are followed by saves of chats of a set, at least of those of them
\* that hold something.
SavesFollow(S) ==
    /\ jobs' \in Seq(Jobs) /\ Len(jobs') >= Len(jobs)
    /\ \A k \in DOMAIN jobs : k \in DOMAIN jobs' /\ jobs'[k] = jobs[k]
    /\ \A k \in DOMAIN jobs' \ DOMAIN jobs : k > Len(jobs) /\ \E c \in S : jobs'[k] = SaveJob(c)
    /\ \A c \in S : content[c] # {} => \E k \in DOMAIN jobs' \ DOMAIN jobs : jobs'[k] = SaveJob(c)

LEMMA SavesAppended ==
    ASSUME Types, NEW S \in SUBSET Chats, NEW new \in Seq(Jobs), jobs' = jobs \o new,
           \A k \in DOMAIN new : \E c \in S : new[k] = SaveJob(c),
           \A c \in S : content[c] # {} => \E k \in DOMAIN new : new[k] = SaveJob(c)
    PROVE  SavesFollow(S)
<1>1. /\ jobs \in Seq(Jobs) /\ jobs' \in Seq(Jobs) /\ Len(jobs') = Len(jobs) + Len(new)
      /\ Len(jobs) \in Nat /\ Len(new) \in Nat
      /\ \A k \in 1..Len(jobs) : jobs'[k] = jobs[k]
      /\ \A k \in 1..Len(new) : jobs'[Len(jobs) + k] = new[k]
  BY DEF Types
<1>2. DOMAIN jobs = 1..Len(jobs) /\ DOMAIN jobs' = 1..Len(jobs') /\ DOMAIN new = 1..Len(new)
  BY <1>1
<1>3. ASSUME NEW k \in DOMAIN jobs' \ DOMAIN jobs
      PROVE  k > Len(jobs) /\ \E c \in S : jobs'[k] = SaveJob(c)
  <2>1. k - Len(jobs) \in 1..Len(new) /\ k = Len(jobs) + (k - Len(jobs))
    BY <1>1, <1>2
  <2> QED
    BY <1>1, <1>2, <2>1
<1>4. ASSUME NEW c \in S, content[c] # {}
      PROVE  \E k \in DOMAIN jobs' \ DOMAIN jobs : jobs'[k] = SaveJob(c)
  <2>1. PICK k \in DOMAIN new : new[k] = SaveJob(c)
    BY <1>4
  <2>2. Len(jobs) + k \in DOMAIN jobs' \ DOMAIN jobs /\ jobs'[Len(jobs) + k] = SaveJob(c)
    BY <1>1, <1>2, <2>1
  <2> QED
    BY <2>2
<1> QED
  BY <1>1, <1>2, <1>3, <1>4 DEF SavesFollow

LEMMA OneSave ==
    ASSUME Types, NEW c \in Chats, jobs' = jobs \o SaveJobs(c)
    PROVE  SavesFollow({c})
<1>1. SaveJob(c) \in Jobs
  BY DEF SaveJob, Jobs
<1>2. CASE content[c] = {}
  <2>1. <<>> \in Seq(Jobs) /\ DOMAIN <<>> = {} /\ SaveJobs(c) = <<>>
    BY <1>2 DEF SaveJobs
  <2> QED
    BY <1>2, <2>1, SavesAppended
<1>3. CASE content[c] # {}
  <2>1. /\ <<SaveJob(c)>> \in Seq(Jobs) /\ DOMAIN <<SaveJob(c)>> = {1} /\ <<SaveJob(c)>>[1] = SaveJob(c)
        /\ SaveJobs(c) = <<SaveJob(c)>>
    BY <1>1, <1>3 DEF SaveJobs
  <2> HIDE DEF SaveJob
  <2> QED
    BY <2>1, SavesAppended
<1> QED
  BY <1>2, <1>3

LEMMA ManySaves ==
    ASSUME Types, NEW active \in Tabs, ChangeDatabase(active)
    PROVE  SavesFollow({tab[t] : t \in {t \in Tabs : Open(t)}})
<1> DEFINE open == {t \in Tabs : Open(t)}
           full == {t \in open : content[tab[t]] # {}}
<1>1. PICK ts \in InTabOrder(full) : jobs' = jobs \o [k \in DOMAIN ts |-> SaveJob(tab[ts[k]])]
  BY DEF ChangeDatabase
<1>2. Cardinality(full) \in Nat
  <2>1. IsFiniteSet(Tabs) /\ full \subseteq Tabs
    BY ChatAssumption, FS_Interval DEF Tabs
  <2> QED
    BY <2>1, FS_Subset, FS_CardinalityType
<1> DEFINE n == Cardinality(full)
           new == [k \in DOMAIN ts |-> SaveJob(tab[ts[k]])]
<1>3. ts \in [1..n -> full] /\ {ts[k] : k \in DOMAIN ts} = full
  BY DEF InTabOrder, ToSet
<1>4. \A t \in open : tab[t] \in Chats /\ SaveJob(tab[t]) \in Jobs
  BY DEF Types, Open, SaveJob, Jobs
<1>5. new \in [1..n -> Jobs] /\ DOMAIN new = DOMAIN ts /\ \A k \in DOMAIN ts : new[k] = SaveJob(tab[ts[k]])
  BY <1>3, <1>4
<1>6. new \in Seq(Jobs)
  <2> HIDE DEF new, n
  <2> QED
    BY <1>2, <1>5, SeqDef DEF n
<1>7. \A k \in DOMAIN new : \E c \in {tab[t] : t \in open} : new[k] = SaveJob(c)
  BY <1>3, <1>5
<1>8. \A c \in {tab[t] : t \in open} : content[c] # {} => \E k \in DOMAIN new : new[k] = SaveJob(c)
  <2> SUFFICES ASSUME NEW t \in open, content[tab[t]] # {}
               PROVE  \E k \in DOMAIN new : new[k] = SaveJob(tab[t])
    OBVIOUS
  <2>1. PICK k \in DOMAIN ts : ts[k] = t
    BY <1>3
  <2> QED
    BY <1>5, <2>1
<1>9. {tab[t] : t \in open} \in SUBSET Chats
  BY <1>4
<1>10. jobs' = jobs \o new
  BY <1>1
<1> HIDE DEF open, new
<1>11. SavesFollow({tab[t] : t \in open})
  BY <1>6, <1>7, <1>8, <1>9, <1>10, SavesAppended
<1> QED
  BY <1>11 DEF open

LEMMA SaverTypes ==
    ASSUME Types, Serialise \/ ReplaceFile \/ Delete
    PROVE  Types'
<1> USE DEF tabs, runs, queues, saver, history, ledger
<1>1. CASE Serialise
  <2>1. Head(jobs) \in Jobs /\ jobs' \in Seq(Jobs) /\ Head(jobs).chat \in Chats
    BY <1>1 DEF Types, Serialise, Jobs
  <2>2. writing' \in [id : Ids \cup {None}, turns : SUBSET Turns]
    BY <1>1, <2>1 DEF Types, Serialise
  <2> QED
    BY <1>1, <2>1, <2>2 DEF Types, Serialise
<1>2. CASE ReplaceFile
  <2>1. writing' \in [id : Ids \cup {None}, turns : SUBSET Turns]
    BY <1>2 DEF Types, ReplaceFile, NoWrite
  <2>2. file' \in [Ids -> SUBSET Turns]
    BY <1>2 DEF Types, ReplaceFile
  <2> QED
    BY <1>2, <2>1, <2>2 DEF Types, ReplaceFile
<1>3. CASE Delete
  <2>1. Head(jobs) \in Jobs /\ jobs' \in Seq(Jobs) /\ Head(jobs).id \in Ids
    BY <1>3 DEF Types, Delete, Jobs
  <2>2. file' \in [Ids -> SUBSET Turns] /\ removed' \subseteq Ids
    BY <1>3, <2>1 DEF Types, Delete
  <2>3. request' \in [op : {"none", "load", "loaded", "delete", "queued"}, id : Ids \cup {None}, turns : SUBSET Turns]
    BY <1>3 DEF Types, Delete, Nothing
  <2> QED
    BY <1>3, <2>1, <2>2, <2>3 DEF Types, Delete
<1> QED
  BY <1>1, <1>2, <1>3

\* Starting a message in an open tab, refusing it a slot or failing to start it.
LEMMA StartTypes ==
    ASSUME Types, NEW t \in Tabs, Open(t), NEW m \in Msgs, NEW queue \in Seq(Msgs),
           NEW current \in Msgs \cup {None}, NEW unseen \in SUBSET Tabs,
           StartForTab(t, m, queue, current, unseen)
    PROVE  /\ runner' \in [Tabs -> Msgs \cup {None}]
           /\ agent' \in [Msgs -> {"none", "begun", "asked", "over"}]
           /\ chat' \in [Msgs -> Chats \cup {None}]
           /\ missed' \subseteq Tabs
           /\ pending' \in [Tabs -> Seq(Msgs)]
           /\ errors' \in 0..MaxErrors
           /\ excused' \subseteq Msgs
<1> USE DEF StartForTab, StartAgent, Types
<1>1. runner' \in [Tabs -> Msgs \cup {None}]
  OBVIOUS
<1>2. agent' \in [Msgs -> {"none", "begun", "asked", "over"}]
  OBVIOUS
<1>3. chat' \in [Msgs -> Chats \cup {None}]
  OBVIOUS
<1>4. pending' \in [Tabs -> Seq(Msgs)]
  <2>1. Append(queue, m) \in Seq(Msgs)
    OBVIOUS
  <2> QED
    BY <2>1
<1>5. errors' \in 0..MaxErrors
  BY ChatAssumption
<1>6. excused' \subseteq Msgs
  BY DEF ToSet
<1>7. missed' \subseteq Tabs
  OBVIOUS
<1> QED
  BY <1>1, <1>2, <1>3, <1>4, <1>5, <1>6, <1>7

LEMMA RunTypes ==
    ASSUME Types, MadeSoFar, NEW m \in Msgs, Ask(m) \/ End(m)
    PROVE  Types'
<1>1. chat[m] \in Chats /\ m \in Turns
  BY DEF Types, MadeSoFar, IsLive, Ask, End, Msgs, Turns
<1>2. CASE Ask(m)
  BY <1>1, <1>2 DEF Types, Ask, tabs, queues, saver, history, ledger
<1>3. CASE End(m)
  <2>1. owed' \in [Ids -> SUBSET Turns]
    BY <1>1, <1>3 DEF Types, End
  <2> QED
    BY <1>1, <1>3, <2>1 DEF Types, End, tabs, queues, saver, history
<1> QED
  BY <1>2, <1>3

LEMMA PanelTypes ==
    ASSUME Types, NEW t \in Tabs, Submit(t) \/ Finish(t) \/ Cancel(t)
    PROVE  Types'
<1> USE DEF tabs, runs, queues, saver, history, ledger
<1>1. CASE Submit(t)
  <2>1. typed' \in Msgs /\ typed' \in 0..MaxMsgs /\ Open(t) /\ pending[t] \in Seq(Msgs) /\ runner[t] \in Msgs \cup {None}
    BY <1>1, ChatAssumption DEF Types, Submit, Msgs
  <2>2. CASE Running(t)
    <3>1. pending' = [pending EXCEPT ![t] = Append(@, typed')] /\ Append(pending[t], typed') \in Seq(Msgs)
      BY <1>1, <2>1, <2>2 DEF Submit
    <3>2. pending' \in [Tabs -> Seq(Msgs)]
      BY <3>1 DEF Types
    <3> QED
      BY <1>1, <2>1, <2>2, <3>2 DEF Types, Submit
  <2>3. CASE ~Running(t)
    <3>1. StartForTab(t, typed', pending[t], runner[t], missed)
      BY <1>1, <2>3 DEF Submit
    <3> QED
      BY <1>1, <2>1, <3>1, StartTypes DEF Types, Submit
  <2> QED
    BY <2>2, <2>3
<1>2. CASE Finish(t)
  <2>1. jobs' \in Seq(Jobs)
    <3>1. CASE Open(t)
      <4>1. tab[t] \in Chats /\ jobs' = jobs \o SaveJobs(tab[t])
        BY <1>2, <3>1 DEF Types, Finish, Open, SavedAtEnd
      <4> QED
        BY <4>1, OneSave DEF SavesFollow
    <3> QED
      BY <1>2, <3>1 DEF Types, Finish
  <2>2. CASE Open(t) /\ pending[t] # <<>>
    <3>1. Head(pending[t]) \in Msgs /\ Tail(pending[t]) \in Seq(Msgs)
      BY <2>2 DEF Types
    <3>2. PICK us \in SUBSET Tabs : StartForTab(t, Head(pending[t]), Tail(pending[t]), None, missed \cup us)
      BY <1>2, <2>2 DEF Finish, FollowUp, Overlooked
    <3>3. missed \cup us \in SUBSET Tabs /\ None \in Msgs \cup {None} /\ Open(t)
      BY <2>2 DEF Types
    <3>4. /\ runner' \in [Tabs -> Msgs \cup {None}]
          /\ agent' \in [Msgs -> {"none", "begun", "asked", "over"}]
          /\ chat' \in [Msgs -> Chats \cup {None}]
          /\ missed' \subseteq Tabs
          /\ pending' \in [Tabs -> Seq(Msgs)]
          /\ errors' \in 0..MaxErrors
          /\ excused' \subseteq Msgs
      <4> DEFINE unseen == missed \cup us
      <4> HIDE DEF unseen
      <4>1. unseen \in SUBSET Tabs /\ StartForTab(t, Head(pending[t]), Tail(pending[t]), None, unseen)
        BY <3>2, <3>3 DEF unseen
      <4> QED
        BY <3>1, <3>3, <4>1, StartTypes
    <3> QED
      BY <1>2, <2>1, <3>4 DEF Types, Finish
  <2>3. CASE ~(Open(t) /\ pending[t] # <<>>)
    <3> DEFINE rest == IF pending[t] = <<>> THEN pending[t] ELSE Tail(pending[t])
    <3>1. pending' = [pending EXCEPT ![t] = rest]
      BY <1>2, <2>3 DEF Finish
    <3>2. pending[t] \in Seq(Msgs) /\ rest \in Seq(Msgs)
      BY DEF Types
    <3>3. pending' \in [Tabs -> Seq(Msgs)]
      <4> HIDE DEF rest
      <4> QED
        BY <3>1, <3>2 DEF Types
    <3>4. missed' \subseteq Tabs
      <4>1. PICK us \in Overlooked(t) : missed' = missed \cup us
        BY <1>2, <2>3 DEF Finish
      <4>2. us \subseteq Tabs
        BY <4>1 DEF Overlooked
      <4> QED
        BY <4>1, <4>2 DEF Types
    <3> QED
      BY <1>2, <2>1, <2>3, <3>3, <3>4 DEF Types, Finish
  <2> QED
    BY <2>2, <2>3
<1>3. CASE Cancel(t)
  BY <1>3 DEF Types, Cancel, Withdraw, ToSet
<1> QED
  BY <1>1, <1>2, <1>3

\* What making a chat object changes.
LEMMA MakeEffect ==
    ASSUME Types, NEW i \in Ids, NEW turns \in SUBSET Turns, Make(i, turns)
    PROVE  /\ made \in Nat /\ made' = made + 1 /\ made' \in Chats
           /\ idOf' \in [Chats -> Ids] /\ content' \in [Chats -> SUBSET Turns]
           /\ idOf'[made'] = i /\ content'[made'] = turns
           /\ \A c \in Chats \ {made'} : idOf'[c] = idOf[c] /\ content'[c] = content[c]
<1>1. made \in Nat /\ made' = made + 1 /\ made' \in Chats
  BY ChatAssumption DEF Types, Make, Chats
<1> QED
  BY <1>1 DEF Types, Make

\* The queue of a tab and what it excuses.
LEMMA WithdrawTypes ==
    ASSUME Types, NEW t \in Tabs, Withdraw(t)
    PROVE  pending' \in [Tabs -> Seq(Msgs)] /\ excused' \subseteq Msgs
BY DEF Types, Withdraw, ToSet

LEMMA LetGoTypes ==
    ASSUME NEW cs
    PROVE  LetGo(cs) \subseteq Msgs /\ Msgs \subseteq Turns
BY DEF LetGo, Msgs, Turns

LEMMA TabTypes ==
    ASSUME Types, RequestMeaning, NEW t \in Tabs, CloseTab(t) \/ NewChat(t) \/ ChangeDatabase(t) \/ Attach(t) \/ NewTab
    PROVE  Types'
<1> USE DEF tabs, runs, queues, saver, history, ledger
<1>1. Saved \in Ids /\ (made < MaxChats => NewId \in Ids) /\ {} \in SUBSET Turns
  BY ChatAssumption DEF Types, Saved, Ids, NewId, Chats
<1>2. CASE CloseTab(t)
  <2>1. tab[t] \in Chats /\ idOf[tab[t]] \in Ids /\ content[tab[t]] \in SUBSET Turns
    BY <1>2 DEF Types, CloseTab, Open
  <2>2. pending' \in [Tabs -> Seq(Msgs)] /\ excused' \subseteq Msgs
    BY <1>2, WithdrawTypes DEF CloseTab
  <2>3. adrift' \subseteq Turns /\ file' \in [Ids -> SUBSET Turns]
    BY <1>2, <2>1, LetGoTypes DEF Types, CloseTab
  <2> QED
    BY <1>2, <2>2, <2>3 DEF Types, CloseTab
<1>3. CASE NewChat(t)
  <2>1. tab[t] \in Chats
    BY <1>3 DEF Types, NewChat, Open
  <2>2. jobs' \in Seq(Jobs)
    BY <1>3, <2>1, OneSave DEF NewChat, SavesFollow
  <2>3. pending' \in [Tabs -> Seq(Msgs)] /\ excused' \subseteq Msgs
    BY <1>3, WithdrawTypes DEF NewChat
  <2>4. made' \in Chats /\ idOf' \in [Chats -> Ids] /\ content' \in [Chats -> SUBSET Turns]
    BY <1>1, <1>3, MakeEffect DEF NewChat, Make
  <2>5. adrift' \subseteq Turns
    BY <1>3, LetGoTypes DEF Types, NewChat
  <2> QED
    BY <1>3, <2>2, <2>3, <2>4, <2>5 DEF Types, NewChat
<1>4. CASE ChangeDatabase(t)
  <2>1. jobs' \in Seq(Jobs)
    BY <1>4, ManySaves DEF SavesFollow
  <2>2. pending' \in [Tabs -> Seq(Msgs)] /\ excused' \subseteq Msgs
    BY <1>4, WithdrawTypes DEF ChangeDatabase
  <2>3. made' \in Chats /\ idOf' \in [Chats -> Ids] /\ content' \in [Chats -> SUBSET Turns]
    BY <1>1, <1>4, MakeEffect DEF ChangeDatabase, Make
  <2>4. adrift' \subseteq Turns
    BY <1>4, LetGoTypes DEF Types, ChangeDatabase
  <2>5. opened' \in Tabs /\ tab' \in [Tabs -> Chats \cup {None}]
    BY <1>4, <2>3, ChatAssumption DEF Types, ChangeDatabase, Tabs
  <2>6. request' \in [op : {"none", "load", "loaded", "delete", "queued"}, id : Ids \cup {None}, turns : SUBSET Turns]
    BY <1>4 DEF ChangeDatabase, Nothing
  <2> QED
    BY <1>4, <2>1, <2>2, <2>3, <2>4, <2>5, <2>6 DEF Types, ChangeDatabase
<1>5. CASE NewTab
  <2>1. made' \in Chats /\ idOf' \in [Chats -> Ids] /\ content' \in [Chats -> SUBSET Turns]
    BY <1>1, <1>5, MakeEffect DEF NewTab, Make
  <2>2. opened' \in Tabs /\ tab' \in [Tabs -> Chats \cup {None}]
    BY <1>5, <2>1, ChatAssumption DEF Types, NewTab, Tabs
  <2> QED
    BY <1>5, <2>1, <2>2 DEF Types, NewTab
<1>6. CASE Attach(t)
  <2> DEFINE at == IF content[tab[t]] = {} THEN t ELSE opened + 1
  <2>1. request.id \in Ids /\ request.turns \in SUBSET Turns
    BY <1>6 DEF Types, RequestMeaning, Attach, Nothing
  <2>2. made' \in Chats /\ idOf' \in [Chats -> Ids] /\ content' \in [Chats -> SUBSET Turns]
    BY <1>6, <2>1, MakeEffect DEF Attach, Make
  <2>3. at \in Tabs /\ tab' = [tab EXCEPT ![at] = made'] /\ opened' = IF at > opened THEN at ELSE opened
    BY <1>6 DEF Attach
  <2>4. adrift' \subseteq Turns
    BY <1>6, LetGoTypes DEF Types, Attach
  <2>5. request' \in [op : {"none", "load", "loaded", "delete", "queued"}, id : Ids \cup {None}, turns : SUBSET Turns]
    BY <1>6 DEF Attach, Nothing
  <2>6. opened' \in Tabs /\ tab' \in [Tabs -> Chats \cup {None}]
    <3> HIDE DEF at
    <3> QED
      BY <2>2, <2>3 DEF Types
  <2> QED
    BY <1>6, <2>2, <2>4, <2>5, <2>6 DEF Types, Attach
<1> QED
  BY <1>2, <1>3, <1>4, <1>5, <1>6

LEMMA HistoryTypes ==
    ASSUME Types, RequestMeaning, (\E i \in Ids : OpenRow(i) \/ DeleteRow(i)) \/ Load \/ QueueDelete
    PROVE  Types'
<1> USE DEF desk, tabs, runs, queues, saver, history, ledger
<1> DEFINE Requests == [op : {"none", "load", "loaded", "delete", "queued"}, id : Ids \cup {None}, turns : SUBSET Turns]
<1>1. ASSUME NEW i \in Ids, OpenRow(i) \/ DeleteRow(i)
      PROVE  Types'
  <2>1. request' \in Requests
    BY <1>1 DEF OpenRow, DeleteRow
  <2> QED
    BY <1>1, <2>1 DEF Types, OpenRow, DeleteRow
<1>2. CASE Load
  <2>1. request \in Requests /\ request.id \in Ids
    BY <1>2 DEF Types, RequestMeaning, Load, Nothing
  <2>2. request' \in Requests /\ reread' \subseteq Ids
    BY <1>2, <2>1 DEF Types, Load
  <2> QED
    BY <1>2, <2>2 DEF Types, Load
<1>3. CASE QueueDelete
  <2>1. request \in Requests /\ request.id \in Ids
    BY <1>3 DEF Types, RequestMeaning, QueueDelete, Nothing
  <2>2. request' \in Requests
    BY <1>3, <2>1 DEF QueueDelete
  <2>3. jobs' \in Seq(Jobs)
    <3>1. [op |-> "delete", id |-> request.id] \in Jobs
      BY <2>1 DEF Jobs
    <3> QED
      BY <1>3, <3>1 DEF Types, QueueDelete
  <2> QED
    BY <1>3, <2>2, <2>3 DEF Types, QueueDelete
<1> QED
  BY <1>1, <1>2, <1>3

LEMMA TypesStep ==
    ASSUME Types, MadeSoFar, RequestMeaning, [Next]_vars
    PROVE  Types'
<1>1. CASE UNCHANGED vars
  BY <1>1 DEF Types, vars
<1>2. CASE NewTab
  <2>1. 1 \in Tabs
    BY ChatAssumption DEF Tabs
  <2> QED
    BY <1>2, <2>1, TabTypes
<1> QED
  BY <1>1, <1>2, SaverTypes, RunTypes, PanelTypes, TabTypes, HistoryTypes DEF Next

-----------------------------------------------------------------------------
(* What a step does to the tabs, the jobs, the files and the request *)

\* Tabs stay or close, and no chat is made.
TabsShrink ==
    /\ made' = made /\ idOf' = idOf /\ opened' = opened
    /\ \A u \in Tabs : tab'[u] \in {tab[u], None}

\* A chat is made for tab t: a new one, or the one that was requested.
TabOpens(t, i) ==
    /\ made' = made + 1 /\ made' \in Chats /\ idOf'[made'] = i
    /\ \A c \in Chats \ {made'} : idOf'[c] = idOf[c]
    /\ t <= opened' /\ opened <= opened'
    /\ tab'[t] = made' /\ \A u \in Tabs \ {t} : tab'[u] \in {tab[u], None}
    /\ \/ i = made'
       \/ request.op = "loaded" /\ i = request.id /\ request' = Nothing /\ content'[made'] = request.turns

LEMMA TabsStep ==
    ASSUME Types, MadeSoFar, RequestMeaning, [Next]_vars
    PROVE  TabsShrink \/ \E t \in Tabs, i \in Ids : TabOpens(t, i)
<1>1. CASE UNCHANGED vars
  BY <1>1 DEF TabsShrink, vars
<1>2. CASE Serialise \/ ReplaceFile \/ Delete \/ Load \/ QueueDelete
  BY <1>2 DEF Serialise, ReplaceFile, Delete, Load, QueueDelete, desk, tabs, TabsShrink
<1>3. ASSUME NEW m \in Msgs, Ask(m) \/ End(m)
      PROVE  TabsShrink
  BY <1>3 DEF Ask, End, tabs, TabsShrink
<1>4. ASSUME NEW i \in Ids, OpenRow(i) \/ DeleteRow(i)
      PROVE  TabsShrink
  BY <1>4 DEF OpenRow, DeleteRow, desk, tabs, TabsShrink
<1>5. ASSUME NEW t \in Tabs, Submit(t) \/ Finish(t) \/ Cancel(t)
      PROVE  TabsShrink
  BY <1>5 DEF Submit, Finish, Cancel, tabs, TabsShrink
<1>6. ASSUME NEW t \in Tabs, CloseTab(t)
      PROVE  TabsShrink
  BY <1>6 DEF CloseTab, TabsShrink, Types
<1>7. (made < MaxChats => NewId \in Ids) /\ {} \in SUBSET Turns /\ NewId = made + 1
  BY ChatAssumption DEF Types, Ids, NewId, Chats
<1>8. CASE NewTab
  <2>1. Make(NewId, {}) /\ made < MaxChats
    BY <1>8 DEF NewTab, Make
  <2>2. opened' \in Tabs /\ opened' = opened + 1 /\ tab' = [tab EXCEPT ![opened'] = made']
    BY <1>8, ChatAssumption DEF NewTab, Types, Tabs
  <2>3. tab'[opened'] = made' /\ \A u \in Tabs \ {opened'} : tab'[u] = tab[u]
    BY <2>2 DEF Types
  <2>4. opened <= opened'
    BY <2>2 DEF Types, Tabs
  <2>5. TabOpens(opened', NewId)
    BY <1>7, <2>1, <2>2, <2>3, <2>4, MakeEffect DEF TabOpens, Types, Tabs
  <2> QED
    BY <1>7, <2>1, <2>2, <2>5
<1>9. ASSUME NEW t \in Tabs, NewChat(t)
      PROVE  TabOpens(t, NewId) /\ NewId \in Ids
  <2>1. Make(NewId, {}) /\ made < MaxChats
    BY <1>9 DEF NewChat, Make
  <2>2. opened' = opened /\ t <= opened /\ tab' = [tab EXCEPT ![t] = made']
    BY <1>9 DEF NewChat, MadeSoFar, Types, Tabs
  <2>3. tab'[t] = made' /\ \A u \in Tabs \ {t} : tab'[u] = tab[u]
    BY <2>2 DEF Types
  <2> QED
    BY <1>7, <2>1, <2>2, <2>3, MakeEffect DEF TabOpens, Types, Tabs
<1>10. ASSUME NEW t \in Tabs, ChangeDatabase(t)
       PROVE  opened' \in Tabs /\ TabOpens(opened', NewId) /\ NewId \in Ids
  <2>1. Make(NewId, {}) /\ made < MaxChats
    BY <1>10 DEF ChangeDatabase, Make
  <2>2. opened' \in Tabs /\ opened' = opened + 1 /\ tab' = [u \in Tabs |-> IF u = opened' THEN made' ELSE None]
    BY <1>10, ChatAssumption DEF ChangeDatabase, Types, Tabs
  <2>3. tab'[opened'] = made' /\ \A u \in Tabs \ {opened'} : tab'[u] = None
    BY <2>2
  <2>4. opened <= opened'
    BY <2>2 DEF Types, Tabs
  <2> QED
    BY <1>7, <2>1, <2>2, <2>3, <2>4, MakeEffect DEF TabOpens, Types, Tabs
<1>11. ASSUME NEW t \in Tabs, Attach(t)
       PROVE  \E u \in Tabs : TabOpens(u, request.id) /\ request.id \in Ids
  <2> DEFINE at == IF content[tab[t]] = {} THEN t ELSE opened + 1
  <2>1. request.op = "loaded" /\ request.id \in Ids /\ request.turns \in SUBSET Turns /\ request' = Nothing
    BY <1>11 DEF Types, RequestMeaning, Attach, Nothing
  <2>2. Make(request.id, request.turns)
    BY <1>11 DEF Attach
  <2>3. at \in Tabs /\ tab' = [tab EXCEPT ![at] = made'] /\ opened' = IF at > opened THEN at ELSE opened
    BY <1>11 DEF Attach
  <2>4. t <= opened
    BY <1>11 DEF Attach, MadeSoFar, Types, Tabs
  <2> HIDE DEF at
  <2>5. tab'[at] = made' /\ \A u \in Tabs \ {at} : tab'[u] = tab[u]
    BY <2>3 DEF Types
  <2>6. at <= opened' /\ opened <= opened'
    BY <2>3, <2>4 DEF Types, Tabs
  <2>7. TabOpens(at, request.id)
    BY <2>1, <2>2, <2>3, <2>5, <2>6, MakeEffect DEF TabOpens
  <2> QED
    BY <2>1, <2>3, <2>7
<1> QED
  BY <1>1, <1>2, <1>3, <1>4, <1>5, <1>6, <1>8, <1>9, <1>10, <1>11 DEF Next

\* The first job is taken.
JobTaken ==
    /\ jobs # <<>> /\ jobs' = Tail(jobs) /\ Len(jobs') = Len(jobs) - 1
    /\ \A k \in DOMAIN jobs' : k + 1 \in DOMAIN jobs /\ jobs'[k] = jobs[k + 1]

LEMMA TailTaken ==
    ASSUME Types, jobs # <<>>, jobs' = Tail(jobs)
    PROVE  JobTaken /\ 1 \in DOMAIN jobs /\ jobs[1] = Head(jobs)
BY DEF Types, JobTaken

\* Saves of open chats follow.
SavesOfOpen ==
    /\ jobs' \in Seq(Jobs) /\ Len(jobs') >= Len(jobs)
    /\ \A k \in DOMAIN jobs : k \in DOMAIN jobs' /\ jobs'[k] = jobs[k]
    /\ \A k \in DOMAIN jobs' \ DOMAIN jobs :
        k > Len(jobs) /\ \E t \in Tabs : Open(t) /\ jobs'[k] = SaveJob(tab[t])

LEMMA JobsStep ==
    ASSUME Types, [Next]_vars
    PROVE  \/ jobs' = jobs
           \/ JobTaken /\ (Serialise \/ Delete)
           \/ SavesOfOpen /\ request' \in {request, Nothing} /\ (switched' \/ request' = request)
           \/ QueueDelete
<1>1. CASE UNCHANGED vars
  BY <1>1 DEF vars
<1>2. CASE Serialise \/ Delete
  BY <1>2, TailTaken DEF Serialise, Delete
<1>3. CASE ReplaceFile \/ Load \/ NewTab
  BY <1>3 DEF ReplaceFile, Load, NewTab, saver
<1>4. ASSUME NEW m \in Msgs, Ask(m) \/ End(m)
      PROVE  jobs' = jobs
  BY <1>4 DEF Ask, End, saver
<1>5. ASSUME NEW i \in Ids, OpenRow(i) \/ DeleteRow(i)
      PROVE  jobs' = jobs
  BY <1>5 DEF OpenRow, DeleteRow, saver
<1>6. ASSUME NEW t \in Tabs, Submit(t) \/ Cancel(t) \/ CloseTab(t) \/ Attach(t)
      PROVE  jobs' = jobs
  BY <1>6 DEF Submit, Cancel, CloseTab, Attach, saver
<1>7. ASSUME NEW t \in Tabs, Finish(t), ~Open(t)
      PROVE  jobs' = jobs
  BY <1>7 DEF Finish
<1>8. ASSUME NEW t \in Tabs, (Finish(t) /\ Open(t)) \/ NewChat(t)
      PROVE  SavesOfOpen /\ request' = request
  <2>1. tab[t] \in Chats /\ Open(t) /\ jobs' = jobs \o SaveJobs(tab[t]) /\ request' = request
    BY <1>8 DEF Types, Finish, NewChat, Open, SavedAtEnd, history
  <2>2. SavesFollow({tab[t]})
    BY <2>1, OneSave
  <2> QED
    BY <2>1, <2>2 DEF SavesFollow, SavesOfOpen
<1>9. ASSUME NEW t \in Tabs, ChangeDatabase(t)
      PROVE  SavesOfOpen /\ request' = Nothing /\ switched'
  <2>1. SavesFollow({tab[u] : u \in {u \in Tabs : Open(u)}})
    BY <1>9, ManySaves
  <2>2. SavesOfOpen
    BY <2>1 DEF SavesFollow, SavesOfOpen
  <2> QED
    BY <1>9, <2>2 DEF ChangeDatabase
<1> QED
  BY <1>1, <1>2, <1>3, <1>4, <1>5, <1>6, <1>7, <1>8, <1>9 DEF Next

\* A file is emptied or stays, unless it is being written or its chat is open.
LEMMA FilesStep ==
    ASSUME Types, [Next]_vars, NEW i \in Ids
    PROVE  file'[i] \in {file[i], {}} \/ i = writing.id \/ i \in OpenIds
<1> USE DEF history
<1>1. CASE ReplaceFile
  BY <1>1 DEF ReplaceFile, Types
<1>2. CASE Delete
  BY <1>2 DEF Delete, Types
<1>3. ASSUME NEW t \in Tabs, CloseTab(t)
      PROVE  file'[i] = file[i] \/ i \in OpenIds
  BY <1>3 DEF CloseTab, Types, OpenIds
<1>4. CASE UNCHANGED file
  BY <1>4
<1>5. [Next]_vars => \/ ReplaceFile \/ Delete \/ (\E t \in Tabs : CloseTab(t)) \/ UNCHANGED file
  BY DEF Next, Serialise, Ask, End, Submit, Finish, Cancel, NewChat, ChangeDatabase, Attach,
         NewTab, OpenRow, DeleteRow, Load, QueueDelete, vars
<1> QED
  BY <1>1, <1>2, <1>3, <1>4, <1>5

\* What is being written is taken from the first job, a save.
LEMMA WritingStep ==
    ASSUME Types, [Next]_vars
    PROVE  \/ writing'.id \in {writing.id, None}
           \/ Serialise /\ 1 \in DOMAIN jobs /\ IsSaveOf(jobs[1], writing'.id)
<1>1. CASE Serialise
  BY <1>1, TailTaken DEF Serialise, IsSaveOf
<1>2. CASE ReplaceFile
  BY <1>2 DEF ReplaceFile, NoWrite
<1>3. [Next]_vars => Serialise \/ ReplaceFile \/ UNCHANGED writing
  BY DEF Next, Delete, Ask, End, Submit, Finish, Cancel, CloseTab, NewChat, ChangeDatabase, Attach,
         NewTab, OpenRow, DeleteRow, Load, QueueDelete, vars, saver
<1> QED
  BY <1>1, <1>2, <1>3

\* The request is the old one at most, unless a row is opened or deleted; chats
\* are removed by a delete job.
LEMMA RequestStep ==
    ASSUME Types, [Next]_vars
    PROVE  /\ \/ UNCHANGED <<request, switched>>
              \/ request' = Nothing
              \/ Load \/ QueueDelete
              \/ \E i \in Ids : (OpenRow(i) \/ DeleteRow(i)) /\ request'.id = i /\ Row(i)
           /\ \/ UNCHANGED switched
              \/ switched' /\ request' = Nothing
           /\ Delete \/ UNCHANGED removed
<1> USE DEF history
<1>1. [Next]_vars => \/ Delete \/ Load \/ QueueDelete \/ (\E i \in Ids : OpenRow(i) \/ DeleteRow(i))
                     \/ (\E t \in Tabs : ChangeDatabase(t) \/ Attach(t)) \/ UNCHANGED <<request, switched, removed>>
  BY DEF Next, Serialise, ReplaceFile, Ask, End, Submit, Finish, Cancel, CloseTab, NewChat, NewTab, vars
<1> QED
  BY <1>1 DEF Delete, Load, QueueDelete, OpenRow, DeleteRow, Deletable, ChangeDatabase, Attach, desk

\* The ids of the open tabs, before and after a step.
LEMMA IdsOfTabs ==
    /\ \A i : i \in OpenIds <=> \E t \in Tabs : tab[t] # None /\ i = idOf[tab[t]]
    /\ \A i : i \in OpenIds' <=> \E t \in Tabs : tab'[t] # None /\ i = idOf'[tab'[t]]
<1>1. \A i : i \in OpenIds <=> \E t \in Tabs : tab[t] # None /\ i = idOf[tab[t]]
  BY DEF OpenIds, Open
<1>2. \A i : i \in OpenIds' <=> \E t \in Tabs : tab'[t] # None /\ i = idOf'[tab'[t]]
  BY DEF OpenIds, Open
<1> QED
  BY <1>1, <1>2

\* A tab that is open after a step was open before it, unless it is the one the
\* step opens.
LEMMA OtherTabs ==
    ASSUME Types, MadeSoFar, NEW t \in Tabs, NEW i \in Ids, TabOpens(t, i),
           NEW u \in Tabs, u # t, tab'[u] # None
    PROVE  tab[u] # None /\ tab'[u] = tab[u] /\ idOf'[tab[u]] = idOf[tab[u]]
<1>1. tab'[u] = tab[u] /\ tab[u] # None
  BY DEF TabOpens
<1>2. tab[u] \in Chats /\ tab[u] <= made
  BY <1>1 DEF Types, MadeSoFar
<1>3. made \in Int /\ made' = made + 1
  BY DEF Types, TabOpens, Chats
<1>4. tab[u] # made'
  BY <1>2, <1>3 DEF Chats
<1> QED
  BY <1>1, <1>2, <1>4 DEF TabOpens

\* The ids of made chats stay, and only the chat that is made comes into a tab.
LEMMA IdsStep ==
    ASSUME Types, Types', MadeSoFar, RequestMeaning, [Next]_vars
    PROVE  /\ made' >= made /\ opened' >= opened
           /\ \A c \in Chats : c <= made => idOf'[c] = idOf[c]
           /\ \A i \in OpenIds' : \/ i \in OpenIds
                                  \/ i = made + 1
                                  \/ request.op = "loaded" /\ i = request.id /\ request' = Nothing
<1>0. made \in Int /\ opened \in Int
  BY DEF Types, Chats, Tabs
<1>1. CASE TabsShrink
  <2>1. \A u \in Tabs : tab'[u] # None => tab[u] # None /\ idOf'[tab'[u]] = idOf[tab[u]]
    BY <1>1 DEF TabsShrink
  <2>2. \A i \in OpenIds' : i \in OpenIds
    BY <2>1, IdsOfTabs
  <2> QED
    BY <1>0, <1>1, <2>2 DEF TabsShrink
<1>2. ASSUME NEW t \in Tabs, NEW i \in Ids, TabOpens(t, i)
      PROVE  /\ made' >= made /\ opened' >= opened
             /\ \A c \in Chats : c <= made => idOf'[c] = idOf[c]
             /\ \A n \in OpenIds' : n \in OpenIds \/ n = i
  <2>1. made' >= made /\ opened' >= opened
    BY <1>0, <1>2 DEF TabOpens
  <2>2. \A c \in Chats : c <= made => idOf'[c] = idOf[c]
    BY <1>0, <1>2 DEF TabOpens, Chats
  <2>3. idOf'[tab'[t]] = i
    BY <1>2 DEF TabOpens
  <2>4. \A n \in OpenIds' : n \in OpenIds \/ n = i
    BY <1>2, <2>3, OtherTabs, IdsOfTabs
  <2> QED
    BY <2>1, <2>2, <2>4
<1>3. ASSUME NEW t \in Tabs, NEW i \in Ids, TabOpens(t, i)
      PROVE  i = made + 1 \/ (request.op = "loaded" /\ i = request.id /\ request' = Nothing)
  BY <1>3 DEF TabOpens
<1> QED
  BY <1>1, <1>2, <1>3, TabsStep

LEMMA OpenIdsMade ==
    ASSUME Types, MadeSoFar
    PROVE  /\ \A i \in OpenIds : i \in Ids /\ i <= made
           /\ \A t \in Tabs : Open(t) => tab[t] \in Chats /\ tab[t] <= made /\ idOf[tab[t]] \in OpenIds
BY DEF Types, MadeSoFar, OpenIds, Open, Chats

LEMMA OpenOnceStep ==
    ASSUME Types, Types', MadeSoFar, RequestMeaning, OpenOnce, [Next]_vars
    PROVE  OpenOnce'
<1>1. CASE TabsShrink
  BY <1>1 DEF TabsShrink, OpenOnce, Open
<1>2. ASSUME NEW t \in Tabs, NEW i \in Ids, TabOpens(t, i)
      PROVE  OpenOnce'
  <2>1. i \notin OpenIds
    <3>1. made \in Int /\ \A n \in OpenIds : n \in Int /\ n <= made
      <4>1. \A n \in OpenIds : n \in Int /\ n <= made
        BY OpenIdsMade DEF Ids
      <4> QED
        BY <4>1 DEF Types, Chats
    <3>2. i = made + 1 => i \notin OpenIds
      BY <3>1
    <3>3. i = request.id /\ request.op = "loaded" => i \notin OpenIds
      BY DEF RequestMeaning, Nothing
    <3> QED
      BY <1>2, <3>2, <3>3 DEF TabOpens
  <2>2. idOf'[tab'[t]] = i
    BY <1>2 DEF TabOpens
  <2>3. \A u \in Tabs : tab'[u] # None /\ u # t =>
            tab[u] # None /\ idOf'[tab'[u]] = idOf[tab[u]] /\ idOf[tab[u]] \in OpenIds
    BY <1>2, OtherTabs, IdsOfTabs
  <2> QED
    BY <2>1, <2>2, <2>3 DEF OpenOnce, Open
<1> QED
  BY <1>1, <1>2, TabsStep

\* What a step does to the runs: they go on with the chat they have, a new one
\* gets the chat of its tab.
LEMMA RunsStep ==
    ASSUME Types, [Next]_vars, NEW m \in Msgs
    PROVE  \/ agent'[m] = agent[m] /\ chat'[m] = chat[m]
           \/ Ask(m) /\ agent'[m] = "asked" /\ chat'[m] = chat[m]
           \/ End(m) /\ agent'[m] = "over" /\ chat'[m] = None
           \/ \E t \in Tabs : /\ Open(t) /\ agent'[m] = "begun" /\ chat'[m] = tab[t] /\ runner'[t] = m
                              /\ Submit(t) \/ Finish(t)
<1>1. ASSUME NEW n \in Msgs, Ask(n) \/ End(n)
      PROVE  \/ agent'[m] = agent[m] /\ chat'[m] = chat[m]
             \/ Ask(m) /\ agent'[m] = "asked" /\ chat'[m] = chat[m]
             \/ End(m) /\ agent'[m] = "over" /\ chat'[m] = None
  BY <1>1 DEF Ask, End, Types
<1>2. ASSUME NEW t \in Tabs, NEW n \in Msgs, NEW queue, NEW current, NEW unseen, StartForTab(t, n, queue, current, unseen)
      PROVE  \/ agent'[m] = agent[m] /\ chat'[m] = chat[m]
             \/ agent'[m] = "begun" /\ chat'[m] = tab[t] /\ runner'[t] = m
  BY <1>2 DEF StartForTab, StartAgent, Types
<1>3. ASSUME NEW t \in Tabs, Submit(t)
      PROVE  \/ agent'[m] = agent[m] /\ chat'[m] = chat[m]
             \/ Open(t) /\ agent'[m] = "begun" /\ chat'[m] = tab[t] /\ runner'[t] = m
  <2>1. typed' \in Msgs
    BY <1>3, ChatAssumption DEF Submit, Types, Msgs
  <2>2. CASE Running(t)
    BY <1>3, <2>2 DEF Submit, runs
  <2>3. CASE ~Running(t)
    <3>1. StartForTab(t, typed', pending[t], runner[t], missed) /\ Open(t)
      BY <1>3, <2>3 DEF Submit
    <3> HIDE DEF StartForTab
    <3> QED
      BY <1>2, <2>1, <3>1
  <2> QED
    BY <2>2, <2>3
<1>4. ASSUME NEW t \in Tabs, Finish(t)
      PROVE  \/ agent'[m] = agent[m] /\ chat'[m] = chat[m]
             \/ Open(t) /\ agent'[m] = "begun" /\ chat'[m] = tab[t] /\ runner'[t] = m
  <2>1. CASE Open(t) /\ pending[t] # <<>>
    <3>1. Head(pending[t]) \in Msgs
      BY <2>1 DEF Types
    <3>2. PICK us \in SUBSET Tabs : StartForTab(t, Head(pending[t]), Tail(pending[t]), None, missed \cup us)
      BY <1>4, <2>1 DEF Finish, FollowUp, Overlooked
    <3> QED
      BY <1>2, <2>1, <3>1, <3>2
  <2>2. CASE ~(Open(t) /\ pending[t] # <<>>)
    BY <1>4, <2>2 DEF Finish
  <2> QED
    BY <2>1, <2>2
<1>5. [Next]_vars => \/ \E n \in Msgs : Ask(n) \/ End(n)
                     \/ \E t \in Tabs : Submit(t) \/ Finish(t)
                     \/ UNCHANGED <<agent, chat>>
  BY DEF Next, Serialise, ReplaceFile, Delete, Cancel, CloseTab, NewChat, ChangeDatabase, Attach,
         NewTab, OpenRow, DeleteRow, Load, QueueDelete, vars, runs, desk
<1> QED
  BY <1>1, <1>3, <1>4, <1>5

-----------------------------------------------------------------------------
(* Deleted chats stay deleted *)

\* What the numbers of chats range over.
LEMMA Numbers ==
    ASSUME Types
    PROVE  /\ made \in Chats /\ opened \in Tabs /\ writing.id \in Int /\ request.id \in Int
           /\ Chats \subseteq Int /\ Ids \subseteq Int /\ Tabs \subseteq Int /\ None \in Int
           /\ None < made /\ None \notin Ids /\ Chats \subseteq Ids
           /\ \A c \in Chats : c > 0 /\ idOf[c] \in Ids
           /\ \A i \in Ids : i >= 0
           /\ \A j \in DOMAIN jobs : jobs[j] \in Jobs
           /\ \A t \in Tabs : tab[t] \in Int
           /\ \A m \in Msgs : chat[m] \in Int
<1>1. /\ made \in Chats /\ opened \in Tabs /\ writing.id \in Ids \cup {None} /\ request.id \in Ids \cup {None}
      /\ \A j \in DOMAIN jobs : jobs[j] \in Jobs
      /\ \A c \in Chats : idOf[c] \in Ids
      /\ \A t \in Tabs : tab[t] \in Chats \cup {None}
      /\ \A m \in Msgs : chat[m] \in Chats \cup {None}
  BY DEF Types
<1>2. /\ Chats \subseteq Int /\ Ids \subseteq Int /\ Tabs \subseteq Int /\ None \in Int
      /\ None \notin Ids /\ Chats \subseteq Ids
      /\ \A c \in Chats : c > 0 /\ c > None
      /\ \A i \in Ids : i >= 0
  BY ChatAssumption DEF Chats, Ids, Tabs, None
<1> QED
  BY <1>1, <1>2

\* The two kinds of job.
LEMMA JobKinds ==
    ASSUME NEW j \in Jobs
    PROVE  /\ j.op = "save" \/ j.op = "delete"
           /\ j.op = "save" => j.chat \in Chats
           /\ j.op = "delete" => j.id \in Ids
BY DEF Jobs

\* Every job was there, or is a save of an open chat or the requested deletion.
LEMMA JobsAre ==
    ASSUME Types, [Next]_vars, NEW k \in DOMAIN jobs'
    PROVE  \/ \E j \in DOMAIN jobs : jobs'[k] = jobs[j]
           \/ \E t \in Tabs : Open(t) /\ jobs'[k] = SaveJob(tab[t])
           \/ QueueDelete /\ jobs'[k] = [op |-> "delete", id |-> request.id]
<1>1. CASE jobs' = jobs
  BY <1>1
<1>2. CASE JobTaken
  BY <1>2 DEF JobTaken
<1>3. CASE SavesOfOpen
  BY <1>3 DEF SavesOfOpen
<1>4. CASE QueueDelete
  BY <1>4 DEF QueueDelete, Types
<1> QED
  BY <1>1, <1>2, <1>3, <1>4, JobsStep

LEMMA MadeSoFarStep ==
    ASSUME Types, Types', MadeSoFar, RequestMeaning, [Next]_vars
    PROVE  MadeSoFar'
<1>0. /\ made' \in Int /\ made' >= made /\ made \in Int /\ made' \in Chats
      /\ opened' >= opened /\ opened \in Int /\ opened' \in Int
      /\ \A c \in Chats : c <= made => idOf'[c] = idOf[c]
  BY Numbers, IdsStep DEF Types, Chats, Tabs
<1>1. \A c \in 1..made' : idOf'[c] <= made'
  <2> SUFFICES ASSUME NEW c \in 1..made' PROVE idOf'[c] <= made'
    OBVIOUS
  <2>1. c \in Int /\ c \in Chats
    BY <1>0, ChatAssumption DEF Chats
  <2>2. CASE c <= made
    <3>1. idOf[c] <= made /\ idOf[c] \in Int
      BY <1>0, <2>1, <2>2, Numbers DEF MadeSoFar
    <3> QED
      BY <1>0, <2>1, <2>2, <3>1
  <2>3. CASE c > made
    <3>1. PICK t \in Tabs, i \in Ids : TabOpens(t, i)
      BY <1>0, <2>1, <2>3, TabsStep DEF TabsShrink
    <3>2. c = made' /\ idOf'[c] = i
      BY <1>0, <2>1, <2>3, <3>1 DEF TabOpens
    <3>3. i <= made' \/ i = request.id
      BY <1>0, <3>1 DEF TabOpens
    <3> QED
      BY <1>0, <3>2, <3>3, Numbers DEF MadeSoFar
  <2> QED
    BY <1>0, <2>1, <2>2, <2>3
<1>2. \A t \in Tabs : tab'[t] <= made' /\ (t > opened' => tab'[t] = None)
  <2> SUFFICES ASSUME NEW t \in Tabs PROVE tab'[t] <= made' /\ (t > opened' => tab'[t] = None)
    OBVIOUS
  <2>1. tab[t] \in Int /\ tab[t] <= made /\ (t > opened => tab[t] = None) /\ None <= made
    BY <1>0, Numbers DEF MadeSoFar, Open
  <2>2. CASE tab'[t] \in {tab[t], None}
    BY <1>0, <2>1, <2>2, Numbers
  <2>3. CASE \E i \in Ids : TabOpens(t, i)
    BY <1>0, <2>3, Numbers DEF TabOpens
  <2> QED
    BY <2>2, <2>3, TabsStep DEF TabsShrink, TabOpens
<1>3. \A m \in Msgs : chat'[m] <= made' /\ (agent'[m] \in {"begun", "asked"} => chat'[m] # None)
  <2> SUFFICES ASSUME NEW m \in Msgs
               PROVE  chat'[m] <= made' /\ (agent'[m] \in {"begun", "asked"} => chat'[m] # None)
    OBVIOUS
  <2>1. chat[m] \in Int /\ chat[m] <= made /\ (agent[m] \in {"begun", "asked"} => chat[m] # None) /\ None <= made
    BY <1>0, Numbers DEF MadeSoFar, IsLive
  <2>2. \A t \in Tabs : Open(t) => tab[t] \in Int /\ tab[t] <= made /\ tab[t] # None
    BY Numbers, OpenIdsMade DEF Open
  <2>3. CASE chat'[m] = chat[m] /\ (agent'[m] = agent[m] \/ agent[m] = "begun")
    BY <1>0, <2>1, <2>3
  <2>4. CASE chat'[m] = None /\ agent'[m] = "over"
    BY <1>0, <2>1, <2>4, Numbers
  <2>5. CASE \E t \in Tabs : Open(t) /\ chat'[m] = tab[t]
    BY <1>0, <2>2, <2>5
  <2> QED
    BY <2>3, <2>4, <2>5, RunsStep DEF Ask
<1>4. \A k \in DOMAIN jobs' : IF jobs'[k].op = "save" THEN jobs'[k].chat <= made' ELSE jobs'[k].id <= made'
  <2> SUFFICES ASSUME NEW k \in DOMAIN jobs'
               PROVE  IF jobs'[k].op = "save" THEN jobs'[k].chat <= made' ELSE jobs'[k].id <= made'
    OBVIOUS
  <2>1. CASE \E j \in DOMAIN jobs : jobs'[k] = jobs[j]
    <3>1. PICK j \in DOMAIN jobs : jobs'[k] = jobs[j]
      BY <2>1
    <3>2. jobs[j] \in Jobs /\ IF jobs[j].op = "save" THEN jobs[j].chat <= made ELSE jobs[j].id <= made
      BY Numbers DEF MadeSoFar
    <3>3. IF jobs[j].op = "save" THEN jobs[j].chat \in Int ELSE jobs[j].id \in Int
      BY <3>2, JobKinds, Numbers
    <3> QED
      BY <1>0, <3>1, <3>2, <3>3
  <2>2. CASE \E t \in Tabs : Open(t) /\ jobs'[k] = SaveJob(tab[t])
    <3>1. PICK t \in Tabs : Open(t) /\ jobs'[k] = SaveJob(tab[t])
      BY <2>2
    <3>2. jobs'[k].op = "save" /\ jobs'[k].chat = tab[t] /\ tab[t] \in Int /\ tab[t] <= made
      BY <3>1, OpenIdsMade, Numbers DEF SaveJob
    <3> QED
      BY <1>0, <3>2
  <2>3. CASE jobs'[k] = [op |-> "delete", id |-> request.id]
    BY <1>0, <2>3, Numbers DEF MadeSoFar
  <2> QED
    BY <2>1, <2>2, <2>3, JobsAre
<1>5. writing'.id <= made'
  <2>1. CASE writing'.id \in {writing.id, None}
    BY <1>0, <2>1, Numbers DEF MadeSoFar
  <2>2. CASE 1 \in DOMAIN jobs /\ IsSaveOf(jobs[1], writing'.id)
    <3>1. jobs[1].chat \in Chats /\ jobs[1].chat <= made /\ writing'.id = idOf[jobs[1].chat]
      BY <2>2, Numbers, JobKinds DEF IsSaveOf, MadeSoFar
    <3>2. writing'.id <= made /\ writing'.id \in Int
      BY <3>1, Numbers DEF MadeSoFar, Chats
    <3> QED
      BY <1>0, <3>2
  <2> QED
    BY <2>1, <2>2, WritingStep
<1>6. request'.id <= made'
  <2>1. request'.id \in {request.id, None} \/ \E i \in Ids : request'.id = i /\ Row(i)
    <3>1. Load \/ QueueDelete => request'.id = request.id
      BY DEF Load, QueueDelete, Types
    <3>2. request' = Nothing => request'.id = None
      BY DEF Nothing
    <3> QED
      BY <3>1, <3>2, RequestStep
  <2>2. \A i \in Ids : Row(i) => i <= made
    BY <1>0, Numbers DEF Row, MadeSoFar
  <2> QED
    BY <1>0, <2>1, <2>2, Numbers DEF MadeSoFar
<1>7. \A i \in Ids : i > made' => file'[i] = {} /\ owed'[i] = {}
  <2> SUFFICES ASSUME NEW i \in Ids, i > made' PROVE file'[i] = {} /\ owed'[i] = {}
    OBVIOUS
  <2>1. i > made /\ file[i] = {} /\ owed[i] = {} /\ i # writing.id /\ i \notin OpenIds
    BY <1>0, Numbers, OpenIdsMade DEF MadeSoFar
  <2>2. file'[i] = {}
    BY <2>1, FilesStep
  <2>3. ASSUME NEW m \in Msgs, End(m)
        PROVE  owed'[i] = {}
    <3>1. chat[m] \in Chats /\ chat[m] <= made
      BY <2>3 DEF End, Types, MadeSoFar
    <3>2. idOf[chat[m]] <= made /\ idOf[chat[m]] \in Int
      BY <3>1, Numbers DEF MadeSoFar, Chats
    <3>3. idOf[chat[m]] # i
      BY <1>0, <2>1, <3>2, Numbers
    <3> QED
      BY <2>1, <2>3, <3>3 DEF End, Types
  <2>4. (\E m \in Msgs : End(m)) \/ owed' = owed
    BY DEF Next, Serialise, ReplaceFile, Delete, Ask, Submit, Finish, Cancel, CloseTab, NewChat,
           ChangeDatabase, Attach, NewTab, OpenRow, DeleteRow, Load, QueueDelete, vars, ledger
  <2> QED
    BY <2>1, <2>2, <2>3, <2>4
<1>8. MadeSoFar' <=>
        /\ \A c \in 1..made' : idOf'[c] <= made'
        /\ \A t \in Tabs : tab'[t] <= made' /\ (t > opened' => tab'[t] = None)
        /\ \A m \in Msgs : chat'[m] <= made' /\ (agent'[m] \in {"begun", "asked"} => chat'[m] # None)
        /\ \A k \in DOMAIN jobs' : IF jobs'[k].op = "save" THEN jobs'[k].chat <= made' ELSE jobs'[k].id <= made'
        /\ writing'.id <= made' /\ request'.id <= made'
        /\ \A i \in Ids : i > made' => file'[i] = {} /\ owed'[i] = {}
  BY DEF MadeSoFar, Open, IsLive
<1> QED
  BY <1>1, <1>2, <1>3, <1>4, <1>5, <1>6, <1>7, <1>8

\* An id that is in no tab stays out of them, unless it is the one of the chat
\* that is loaded.
LEMMA StaysOutOfTabs ==
    ASSUME Types, Types', MadeSoFar, RequestMeaning, [Next]_vars,
           NEW i \in Ids, i <= made, i \notin OpenIds,
           request.op # "loaded" \/ request.id # i \/ request' # Nothing
    PROVE  i \notin OpenIds'
<1>1. i # made + 1
  BY Numbers
<1> QED
  BY <1>1, IdsStep

\* No save of an id is added while it is in no tab.
LEMMA NoNewSave ==
    ASSUME Types, Types', MadeSoFar, RequestMeaning, [Next]_vars, NEW k \in DOMAIN jobs',
           NEW i \in Ids, i \notin OpenIds, jobs'[k].op = "save", idOf'[jobs'[k].chat] = i
    PROVE  \E j \in DOMAIN jobs : jobs'[k] = jobs[j] /\ IsSaveOf(jobs[j], i)
<1>1. \A c \in Chats : c <= made => idOf'[c] = idOf[c]
  BY IdsStep
<1>2. CASE \E j \in DOMAIN jobs : jobs'[k] = jobs[j]
  <2>1. PICK j \in DOMAIN jobs : jobs'[k] = jobs[j]
    BY <1>2
  <2>2. jobs[j].chat \in Chats /\ jobs[j].chat <= made
    BY <2>1, Numbers, JobKinds DEF MadeSoFar
  <2> QED
    BY <1>1, <2>1, <2>2 DEF IsSaveOf
<1>3. CASE \E t \in Tabs : Open(t) /\ jobs'[k] = SaveJob(tab[t])
  <2>1. PICK t \in Tabs : Open(t) /\ jobs'[k].chat = tab[t]
    BY <1>3 DEF SaveJob
  <2>2. idOf'[tab[t]] \in OpenIds
    BY <1>1, <2>1, OpenIdsMade
  <2> QED
    BY <2>1, <2>2
<1>4. CASE jobs'[k] = [op |-> "delete", id |-> request.id]
  BY <1>4
<1> QED
  BY <1>2, <1>3, <1>4, JobsAre

LEMMA GoneStep ==
    ASSUME Types, Types', MadeSoFar, RequestMeaning, Gone, [Next]_vars
    PROVE  Gone'
<1> SUFFICES ASSUME NEW i \in removed'
             PROVE  /\ i <= made'
                    /\ file'[i] = {} /\ i \notin OpenIds' /\ writing'.id # i
                    /\ \A k \in DOMAIN jobs' : ~(jobs'[k].op = "save" /\ idOf'[jobs'[k].chat] = i)
  BY DEF Gone, IsSaveOf
<1>1. i \in Ids /\ i # None
  BY Numbers DEF Types
<1>2. /\ i <= made /\ i \notin OpenIds /\ writing.id # i
      /\ request.op # "loaded" \/ request.id # i \/ request' # Nothing
  <2>1. CASE i \in removed
    BY <2>1 DEF Gone, RequestMeaning, Nothing
  <2>2. CASE i \notin removed
    <3>1. Delete /\ i = jobs[1].id /\ 1 \in DOMAIN jobs /\ jobs[1].op = "delete"
      BY <2>2, RequestStep, TailTaken DEF Delete
    <3>2. i <= made /\ i \notin OpenIds
      BY <3>1 DEF RequestMeaning, MadeSoFar
    <3>3. writing.id # i
      BY <1>1, <3>1 DEF Delete, NoWrite
    <3>4. switched \/ request.op = "queued"
      BY <3>1 DEF RequestMeaning
    <3>5. request.op # "loaded"
      BY <3>4 DEF RequestMeaning, Nothing
    <3> QED
      BY <3>2, <3>3, <3>5
  <2> QED
    BY <2>1, <2>2
<1>3. i \notin OpenIds' /\ i <= made'
  <2>1. made \in Int /\ made' \in Int /\ i \in Int /\ made <= made'
    BY <1>1, IdsStep, Numbers DEF Types, Chats
  <2>2. i <= made'
    BY <1>2, <2>1
  <2> QED
    BY <1>1, <1>2, <2>2, StaysOutOfTabs
<1>4. file'[i] = {}
  <2>1. CASE i \in removed
    BY <1>1, <1>2, <2>1, FilesStep DEF Gone
  <2>2. CASE i \notin removed
    BY <2>2, RequestStep DEF Delete, Types
  <2> QED
    BY <2>1, <2>2
<1>5. ASSUME NEW k \in DOMAIN jobs', jobs'[k].op = "save" /\ idOf'[jobs'[k].chat] = i
      PROVE  FALSE
  <2>1. CASE i \in removed
    BY <1>1, <1>2, <1>5, <2>1, NoNewSave DEF Gone
  <2>2. CASE i \notin removed
    <3>1. Delete /\ i = jobs[1].id /\ 1 \in DOMAIN jobs /\ jobs[1].op = "delete" /\ JobTaken
      BY <2>2, RequestStep, TailTaken DEF Delete
    <3>2. \A j \in DOMAIN jobs : j > 1 => ~IsSaveOf(jobs[j], i)
      BY <3>1 DEF RequestMeaning
    <3>3. k + 1 \in DOMAIN jobs /\ jobs'[k] = jobs[k + 1] /\ k + 1 > 1
      BY <3>1 DEF JobTaken, Types
    <3>4. jobs[k + 1].chat \in Chats /\ jobs[k + 1].chat <= made
      BY <1>5, <3>3, Numbers, JobKinds DEF MadeSoFar
    <3>5. IsSaveOf(jobs[k + 1], i)
      BY <1>5, <3>3, <3>4, IdsStep DEF IsSaveOf
    <3> QED
      BY <3>2, <3>3, <3>5
  <2> QED
    BY <2>1, <2>2
<1>6. writing'.id # i
  <2>1. CASE writing'.id \in {writing.id, None}
    BY <1>1, <1>2, <2>1
  <2>2. CASE Serialise /\ 1 \in DOMAIN jobs /\ IsSaveOf(jobs[1], writing'.id)
    <3>1. i \in removed
      BY <2>2 DEF Serialise, history
    <3> QED
      BY <2>2, <3>1 DEF Gone
  <2> QED
    BY <2>1, <2>2, WritingStep
<1> QED
  BY <1>3, <1>4, <1>5, <1>6

\* While a deletion is queued, no other request is made.
LEMMA QueuedAlone ==
    ASSUME Types, RequestMeaning, [Next]_vars, NEW j \in DOMAIN jobs, jobs[j].op = "delete"
    PROVE  /\ request.op # "loaded" /\ ~QueueDelete
           /\ Delete \/ switched' \/ request' = request
           /\ switched => switched'
<1>1. request.op # "load" /\ request.op # "loaded" /\ request.op # "delete"
  BY DEF RequestMeaning, Nothing
<1>2. switched \/ request # Nothing
  BY DEF RequestMeaning, Nothing
<1>3. ~Load /\ ~QueueDelete /\ \A i \in Ids : ~Row(i)
  BY <1>1, <1>2 DEF Load, QueueDelete, Row
<1>4. switched => switched'
  BY RequestStep
<1>5. [Next]_vars => \/ Delete \/ Load \/ QueueDelete \/ (\E i \in Ids : OpenRow(i) \/ DeleteRow(i))
                     \/ (\E t \in Tabs : ChangeDatabase(t) \/ Attach(t)) \/ UNCHANGED request
  BY DEF Next, Serialise, ReplaceFile, Ask, End, Submit, Finish, Cancel, CloseTab, NewChat, NewTab, vars, history
<1> QED
  BY <1>1, <1>3, <1>4, <1>5 DEF OpenRow, DeleteRow, Deletable, ChangeDatabase, Attach

LEMMA RequestStays ==
    ASSUME Types, Types', MadeSoFar, RequestMeaning, Gone, [Next]_vars, request' # Nothing
    PROVE  /\ ~switched' /\ request'.op # "none"
           /\ request'.id \in Ids \ OpenIds' /\ request'.id \notin removed'
<1>1. ~switched' /\ ~switched
  <2>1. switched' => switched
    BY RequestStep
  <2>2. switched => request = Nothing
    BY DEF RequestMeaning
  <2>3. switched => ~Load /\ ~QueueDelete /\ (\A i \in Ids : ~Row(i))
    BY <2>2 DEF Load, QueueDelete, Row, Nothing
  <2> QED
    BY <2>1, <2>2, <2>3, RequestStep
<1>2. CASE \E i \in Ids : (OpenRow(i) \/ DeleteRow(i)) /\ request'.id = i /\ Row(i)
  <2>1. PICK i \in Ids : (OpenRow(i) \/ DeleteRow(i)) /\ request'.id = i /\ Row(i)
    BY <1>2
  <2>2. tab' = tab /\ idOf' = idOf /\ removed' = removed
    BY <2>1 DEF OpenRow, DeleteRow, desk, tabs
  <2>3. i \notin OpenIds' /\ i \notin removed'
    BY <2>1, <2>2, IdsOfTabs DEF Row, Gone
  <2>4. request'.op # "none"
    BY <2>1 DEF OpenRow, DeleteRow
  <2> QED
    BY <1>1, <2>1, <2>3, <2>4
<1>3. CASE UNCHANGED request \/ Load \/ QueueDelete
  <2>1. request # Nothing /\ request'.id = request.id /\ request'.op # "none"
    <3>1. CASE UNCHANGED request
      BY <3>1 DEF RequestMeaning
    <3>2. CASE Load \/ QueueDelete
      <4>1. request.op # "none" /\ request # Nothing
        BY <3>2 DEF Load, QueueDelete, Nothing
      <4>2. request'.id = request.id /\ request'.op \in {"loaded", "queued"}
        BY <3>2 DEF Load, QueueDelete, Types
      <4> QED
        BY <4>1, <4>2
    <3> QED
      BY <1>3, <3>1, <3>2
  <2>2. request.id \in Ids /\ request.id \notin OpenIds /\ request.id \notin removed /\ request.id <= made
    BY <2>1 DEF RequestMeaning, MadeSoFar
  <2>3. request.id \notin OpenIds'
    BY <2>2, StaysOutOfTabs
  <2>4. request.id \notin removed'
    <3>1. CASE Delete
      <4>1. 1 \in DOMAIN jobs /\ jobs[1].op = "delete"
        BY <3>1, TailTaken DEF Delete
      <4>2. request.op = "queued"
        BY <1>1, <4>1 DEF RequestMeaning
      <4> QED
        BY <3>1, <4>2 DEF Delete
    <3> QED
      BY <2>2, <3>1, RequestStep
  <2> QED
    BY <1>1, <2>1, <2>2, <2>3, <2>4
<1> QED
  BY <1>2, <1>3, RequestStep

\* What RequestMeaning says of a deletion, after a step.
LEMMA DeletionStays ==
    ASSUME Types, Types', MadeSoFar, RequestMeaning, [Next]_vars,
           NEW k \in DOMAIN jobs', jobs'[k].op = "delete"
    PROVE  /\ switched' \/ (request'.op = "queued" /\ request'.id = jobs'[k].id)
           /\ jobs'[k].id \notin OpenIds'
           /\ \A n \in DOMAIN jobs' : jobs'[n].op = "delete" => n = k
           /\ \A n \in DOMAIN jobs' : n > k => ~(jobs'[n].op = "save" /\ idOf'[jobs'[n].chat] = jobs'[k].id)
<1>0. jobs \in Seq(Jobs) /\ jobs' \in Seq(Jobs) /\ Len(jobs) \in Nat /\ Len(jobs') \in Nat
      /\ DOMAIN jobs = 1..Len(jobs) /\ DOMAIN jobs' = 1..Len(jobs')
  BY DEF Types
<1>1. ASSUME NEW j \in DOMAIN jobs, jobs[j].op = "delete", jobs'[k] = jobs[j], ~Delete
      PROVE  /\ switched' \/ (request'.op = "queued" /\ request'.id = jobs'[k].id)
             /\ jobs'[k].id \notin OpenIds'
  <2>1. jobs[j].id \in Ids /\ jobs[j].id <= made /\ jobs[j].id \notin OpenIds
    BY <1>1, Numbers, JobKinds DEF RequestMeaning, MadeSoFar
  <2>2. jobs[j].id \notin OpenIds'
    BY <1>1, <2>1, QueuedAlone, StaysOutOfTabs
  <2>3. switched' \/ (request'.op = "queued" /\ request'.id = jobs[j].id)
    BY <1>1, QueuedAlone DEF RequestMeaning
  <2> QED
    BY <1>1, <2>2, <2>3
<1>2. CASE jobs' = jobs /\ ~Delete
  <2>1. k \in DOMAIN jobs /\ jobs[k].op = "delete" /\ jobs[k].id \in Ids /\ jobs[k].id \notin OpenIds
    BY <1>2, Numbers, JobKinds DEF RequestMeaning
  <2>2. \A n \in DOMAIN jobs' : jobs'[n].op = "delete" => n = k
    BY <1>2, <2>1 DEF RequestMeaning
  <2>3. ASSUME NEW n \in DOMAIN jobs', n > k, jobs'[n].op = "save", idOf'[jobs'[n].chat] = jobs'[k].id
        PROVE  FALSE
    <3>1. jobs[n].chat \in Chats /\ jobs[n].chat <= made
      BY <1>2, <2>3, Numbers, JobKinds DEF MadeSoFar
    <3>2. IsSaveOf(jobs[n], jobs[k].id)
      BY <1>2, <2>3, <3>1, IdsStep DEF IsSaveOf
    <3> QED
      BY <1>2, <2>1, <2>3, <3>2 DEF RequestMeaning
  <2> QED
    BY <1>1, <1>2, <2>1, <2>2, <2>3
<1>3. CASE JobTaken /\ Serialise
  <2>1. k + 1 \in DOMAIN jobs /\ jobs'[k] = jobs[k + 1] /\ ~Delete
    BY <1>3 DEF JobTaken, Serialise, Delete
  <2>2. \A n \in DOMAIN jobs' : jobs'[n].op = "delete" => n = k
    <3> SUFFICES ASSUME NEW n \in DOMAIN jobs', jobs'[n].op = "delete" PROVE n = k
      OBVIOUS
    <3>1. n + 1 \in DOMAIN jobs /\ jobs'[n] = jobs[n + 1]
      BY <1>3 DEF JobTaken
    <3>2. n + 1 = k + 1
      BY <2>1, <3>1 DEF RequestMeaning
    <3> QED
      BY <1>0, <3>2
  <2>3. ASSUME NEW n \in DOMAIN jobs', n > k, jobs'[n].op = "save", idOf'[jobs'[n].chat] = jobs'[k].id
        PROVE  FALSE
    <3>1. n + 1 \in DOMAIN jobs /\ jobs'[n] = jobs[n + 1] /\ n + 1 > k + 1
      BY <1>0, <1>3, <2>3 DEF JobTaken
    <3>2. idOf' = idOf
      BY <1>3 DEF Serialise, tabs
    <3>3. IsSaveOf(jobs[n + 1], jobs[k + 1].id)
      BY <2>1, <2>3, <3>1, <3>2 DEF IsSaveOf
    <3> QED
      BY <2>1, <3>1, <3>3 DEF RequestMeaning
  <2> QED
    BY <1>1, <2>1, <2>2, <2>3
<1>4. CASE JobTaken /\ Delete
  <2>1. k + 1 \in DOMAIN jobs /\ jobs'[k] = jobs[k + 1]
    BY <1>4 DEF JobTaken
  <2>2. 1 \in DOMAIN jobs /\ jobs[1].op = "delete"
    BY <1>4, TailTaken DEF Delete
  <2>3. k + 1 = 1
    BY <2>1, <2>2 DEF RequestMeaning
  <2> QED
    BY <1>0, <2>3
<1>5. CASE SavesOfOpen /\ ~Delete
  <2>1. ASSUME NEW n \in DOMAIN jobs', jobs'[n].op = "delete"
        PROVE  n \in DOMAIN jobs /\ jobs'[n] = jobs[n]
    BY <1>5, <2>1 DEF SavesOfOpen, SaveJob
  <2>2. k \in DOMAIN jobs /\ jobs'[k] = jobs[k] /\ jobs[k].op = "delete" /\ jobs[k].id \in Ids /\ jobs[k].id \notin OpenIds
    BY <2>1, Numbers, JobKinds DEF RequestMeaning
  <2>3. \A n \in DOMAIN jobs' : jobs'[n].op = "delete" => n = k
    BY <2>1, <2>2 DEF RequestMeaning
  <2>4. ASSUME NEW n \in DOMAIN jobs', n > k, jobs'[n].op = "save", idOf'[jobs'[n].chat] = jobs'[k].id
        PROVE  FALSE
    <3>1. CASE n \in DOMAIN jobs
      <4>1. jobs'[n] = jobs[n]
        BY <1>5, <3>1 DEF SavesOfOpen
      <4>2. jobs[n].chat \in Chats /\ jobs[n].chat <= made
        BY <2>4, <3>1, <4>1, Numbers, JobKinds DEF MadeSoFar
      <4>3. IsSaveOf(jobs[n], jobs[k].id)
        BY <2>2, <2>4, <4>1, <4>2, IdsStep DEF IsSaveOf
      <4> QED
        BY <2>2, <2>4, <3>1, <4>3 DEF RequestMeaning
    <3>2. CASE n \notin DOMAIN jobs
      <4>1. PICK t \in Tabs : Open(t) /\ jobs'[n].chat = tab[t]
        BY <1>5, <3>2 DEF SavesOfOpen, SaveJob
      <4>2. idOf'[tab[t]] \in OpenIds
        BY <4>1, IdsStep, OpenIdsMade
      <4> QED
        BY <2>2, <2>4, <4>1, <4>2
    <3> QED
      BY <3>1, <3>2
  <2> QED
    BY <1>1, <1>5, <2>2, <2>3, <2>4
<1>6. CASE QueueDelete
  <2>1. \A j \in DOMAIN jobs : jobs[j].op # "delete"
    BY <1>6, QueuedAlone
  <2>2. /\ jobs' = Append(jobs, [op |-> "delete", id |-> request.id]) /\ request # Nothing
        /\ request' = [request EXCEPT !.op = "queued"] /\ tab' = tab /\ idOf' = idOf
    BY <1>6 DEF QueueDelete, desk, tabs, Nothing
  <2>3. /\ Len(jobs') = Len(jobs) + 1 /\ jobs'[Len(jobs')].id = request.id
        /\ \A n \in DOMAIN jobs' : n # Len(jobs') => n \in DOMAIN jobs /\ jobs'[n] = jobs[n]
    BY <1>0, <2>2
  <2>4. k = Len(jobs') /\ jobs'[k].id = request.id
    BY <2>1, <2>3
  <2>5. request'.op = "queued" /\ request'.id = request.id
    BY <2>2 DEF Types
  <2>6. request.id \notin OpenIds'
    BY <2>2, IdsOfTabs DEF RequestMeaning
  <2>7. \A n \in DOMAIN jobs' : jobs'[n].op = "delete" => n = k
    BY <2>1, <2>3, <2>4
  <2>8. \A n \in DOMAIN jobs' : ~(n > k)
    BY <1>0, <2>4
  <2> QED
    BY <2>4, <2>5, <2>6, <2>7, <2>8
<1>7. Delete => JobTaken
  BY TailTaken DEF Delete
<1> QED
  BY <1>2, <1>3, <1>4, <1>5, <1>6, <1>7, JobsStep

LEMMA RequestStepInv ==
    ASSUME Types, Types', MadeSoFar, RequestMeaning, Gone, [Next]_vars
    PROVE  RequestMeaning'
<1>1. /\ switched' => request' = Nothing
      /\ request' = Nothing \/ request'.op # "none"
      /\ request' # Nothing => request'.id \in Ids \ OpenIds' /\ request'.id \notin removed'
  BY RequestStays
<1>2. \A k \in DOMAIN jobs' : jobs'[k].op = "delete" =>
        /\ switched' \/ (request'.op = "queued" /\ request'.id = jobs'[k].id)
        /\ jobs'[k].id \notin OpenIds'
        /\ \A n \in DOMAIN jobs' : jobs'[n].op = "delete" => n = k
        /\ \A n \in DOMAIN jobs' : n > k => ~(jobs'[n].op = "save" /\ idOf'[jobs'[n].chat] = jobs'[k].id)
  BY DeletionStays
<1> QED
  BY <1>1, <1>2 DEF RequestMeaning, IsSaveOf, Nothing

-----------------------------------------------------------------------------
(* A message waits in one place *)

\* Messages wait in the queues as WaitsInPlace says, given what is queued and
\* what the runs are.
Waiting(p, a, last) ==
    \A t \in Tabs : \A k \in DOMAIN p[t] :
        /\ p[t][k] <= last /\ a[p[t][k]] = "none"
        /\ \A u \in Tabs : \A n \in DOMAIN p[u] : p[t][k] = p[u][n] => t = u /\ k = n

\* A queue that has some of the messages of another one, in their order.
Within(q, p) == \E d \in Nat : \A k \in DOMAIN q : k \in Nat /\ k + d \in DOMAIN p /\ q[k] = p[k + d]

\* Queues that lose messages stay in order.
LEMMA FewerWait ==
    ASSUME NEW p, NEW q, NEW a, NEW last, Waiting(p, a, last),
           \A t \in Tabs : Within(q[t], p[t])
    PROVE  Waiting(q, a, last)
<1> SUFFICES ASSUME NEW t \in Tabs, NEW k \in DOMAIN q[t]
             PROVE  /\ q[t][k] <= last /\ a[q[t][k]] = "none"
                    /\ \A u \in Tabs : \A n \in DOMAIN q[u] : q[t][k] = q[u][n] => t = u /\ k = n
  BY DEF Waiting
<1>1. PICK d \in Nat : k \in Nat /\ k + d \in DOMAIN p[t] /\ q[t][k] = p[t][k + d]
  BY DEF Within
<1>2. q[t][k] <= last /\ a[q[t][k]] = "none"
  BY <1>1 DEF Waiting
<1>3. ASSUME NEW u \in Tabs, NEW n \in DOMAIN q[u], q[t][k] = q[u][n]
      PROVE  t = u /\ k = n
  <2>1. t = u
    <3>1. PICK e \in Nat : n \in Nat /\ n + e \in DOMAIN p[u] /\ q[u][n] = p[u][n + e]
      BY DEF Within
    <3> DEFINE x == k + d
               y == n + e
    <3>2. x \in DOMAIN p[t] /\ y \in DOMAIN p[u] /\ p[t][x] = p[u][y]
      BY <1>1, <1>3, <3>1
    <3> HIDE DEF x, y
    <3> QED
      BY <3>2 DEF Waiting
  <2>2. PICK e \in Nat : \A x \in DOMAIN q[t] : x \in Nat /\ x + e \in DOMAIN p[t] /\ q[t][x] = p[t][x + e]
    BY DEF Within
  <2>3. k + e = n + e /\ k \in Nat /\ n \in Nat
    BY <1>3, <2>1, <2>2 DEF Waiting
  <2> QED
    BY <2>1, <2>3
<1> QED
  BY <1>2, <1>3

\* A message that waits nowhere may be put at the end of a queue.
LEMMA OneMoreWaits ==
    ASSUME NEW p, NEW a, NEW last \in Nat, Waiting(p, a, last), NEW t \in Tabs,
           NEW m \in Msgs, m <= last, a[m] = "none", p \in [Tabs -> Seq(Msgs)],
           \A u \in Tabs : \A k \in DOMAIN p[u] : p[u][k] # m
    PROVE  Waiting([p EXCEPT ![t] = Append(p[t], m)], a, last)
<1> DEFINE q == [p EXCEPT ![t] = Append(p[t], m)]
           end == Len(p[t]) + 1
<1>1. \A u \in Tabs \ {t} : q[u] = p[u]
  OBVIOUS
<1>2. p[t] \in Seq(Msgs) /\ end \in Nat /\ end \notin DOMAIN p[t]
  OBVIOUS
<1>3. DOMAIN q[t] = DOMAIN p[t] \cup {end} /\ q[t][end] = m /\ \A k \in DOMAIN p[t] : q[t][k] = p[t][k]
  BY <1>2
<1> HIDE DEF q, end
<1>4. \A u \in Tabs : \A k \in DOMAIN q[u] : (u = t /\ k = end /\ q[u][k] = m)
                                            \/ (k \in DOMAIN p[u] /\ q[u][k] = p[u][k])
  BY <1>1, <1>3
<1>5. Waiting(q, a, last)
  <2> SUFFICES ASSUME NEW u \in Tabs, NEW k \in DOMAIN q[u]
               PROVE  /\ q[u][k] <= last /\ a[q[u][k]] = "none"
                      /\ \A v \in Tabs : \A n \in DOMAIN q[v] : q[u][k] = q[v][n] => u = v /\ k = n
    BY DEF Waiting
  <2>1. CASE u = t /\ k = end /\ q[u][k] = m
    BY <1>4, <2>1
  <2>2. CASE k \in DOMAIN p[u] /\ q[u][k] = p[u][k]
    <3>1. q[u][k] <= last /\ a[q[u][k]] = "none" /\ q[u][k] # m
      BY <2>2 DEF Waiting
    <3>2. ASSUME NEW v \in Tabs, NEW n \in DOMAIN q[v], q[u][k] = q[v][n]
          PROVE  u = v /\ k = n
      <4>1. n \in DOMAIN p[v] /\ q[v][n] = p[v][n]
        BY <1>4, <3>1, <3>2
      <4>2. p[u][k] = p[v][n]
        BY <2>2, <3>2, <4>1
      <4> QED
        BY <2>2, <4>1, <4>2 DEF Waiting
    <3> QED
      BY <3>1, <3>2
  <2> QED
    BY <1>4, <2>1, <2>2
<1> QED
  BY <1>5 DEF q

\* Runs that are started or go on take no waiting message with them.
LEMMA WaitOn ==
    ASSUME NEW p, NEW a, NEW b, NEW last \in Nat, NEW next \in Nat, last <= next, Waiting(p, a, last),
           p \in [Tabs -> Seq(Msgs)],
           \A t \in Tabs : \A k \in DOMAIN p[t] : b[p[t][k]] = "none"
    PROVE  Waiting(p, b, next)
<1>1. \A t \in Tabs : \A k \in DOMAIN p[t] : p[t][k] \in Msgs
  OBVIOUS
<1>2. Msgs \subseteq Nat
  BY DEF Msgs
<1>3. \A t \in Tabs : \A k \in DOMAIN p[t] : p[t][k] <= next
  <2> SUFFICES ASSUME NEW t \in Tabs, NEW k \in DOMAIN p[t] PROVE p[t][k] <= next
    OBVIOUS
  <2>1. p[t][k] <= last /\ p[t][k] \in Nat
    BY <1>1, <1>2 DEF Waiting
  <2> QED
    BY <2>1
<1> QED
  BY <1>3 DEF Waiting

LEMMA WaitingNow ==
    ASSUME Types, WaitsInPlace
    PROVE  /\ Waiting(pending, agent, typed) /\ typed \in Nat
           /\ \A m \in Msgs : m > typed => agent[m] = "none"
BY DEF WaitsInPlace, Waiting, Types

\* The queues that the handlers leave: the same, none, or without the first.
LEMMA Shorter ==
    ASSUME NEW q \in Seq(Msgs)
    PROVE  Within(q, q) /\ Within(<<>>, q) /\ (q # <<>> => Within(Tail(q), q))
<1>1. \A k \in DOMAIN q : k \in Nat /\ k + 0 \in DOMAIN q /\ q[k] = q[k + 0]
  OBVIOUS
<1>2. DOMAIN <<>> = {}
  OBVIOUS
<1>3. ASSUME q # <<>>
      PROVE  \A k \in DOMAIN Tail(q) : k \in Nat /\ k + 1 \in DOMAIN q /\ Tail(q)[k] = q[k + 1]
  BY <1>3
<1>4. Within(q, q)
  BY <1>1 DEF Within
<1>5. Within(<<>>, q)
  BY <1>2 DEF Within
<1>6. q # <<>> => Within(Tail(q), q)
  <2> SUFFICES ASSUME q # <<>> PROVE Within(Tail(q), q)
    OBVIOUS
  <2>1. \A k \in DOMAIN Tail(q) : k \in Nat /\ k + 1 \in DOMAIN q /\ Tail(q)[k] = q[k + 1]
    BY <1>3
  <2> QED
    BY <2>1 DEF Within
<1> QED
  BY <1>4, <1>5, <1>6

\* A message is begun, dropped or put behind the queue without it.
BegunOrWaits(t, m, queue) ==
    \/ agent' = [agent EXCEPT ![m] = "begun"] /\ pending' = [pending EXCEPT ![t] = queue]
    \/ agent' = agent /\ pending' = [pending EXCEPT ![t] = queue]
    \/ agent' = agent /\ pending' = [pending EXCEPT ![t] = Append(queue, m)]

\* A message that is started, refused or cannot be started, given the queue
\* without it.
LEMMA StartWaits ==
    ASSUME Types, NEW t \in Tabs, NEW m \in Msgs, NEW queue \in Seq(Msgs), NEW last \in Nat,
           BegunOrWaits(t, m, queue), m <= last, agent[m] = "none",
           Waiting([pending EXCEPT ![t] = queue], agent, last),
           \A u \in Tabs \ {t} : \A k \in DOMAIN pending[u] : pending[u][k] # m,
           \A k \in DOMAIN queue : queue[k] # m
    PROVE  Waiting(pending', agent', last)
<1> DEFINE p == [pending EXCEPT ![t] = queue]
<1>1. p \in [Tabs -> Seq(Msgs)] /\ p[t] = queue /\ \A u \in Tabs : \A k \in DOMAIN p[u] : p[u][k] # m
  BY DEF Types
<1>2. CASE agent' = [agent EXCEPT ![m] = "begun"] /\ pending' = p
  <2>1. \A u \in Tabs : \A k \in DOMAIN p[u] : p[u][k] \in Msgs /\ agent[p[u][k]] = "none"
    BY <1>1 DEF Waiting
  <2>2. \A u \in Tabs : \A k \in DOMAIN p[u] : agent'[p[u][k]] = "none"
    BY <1>1, <1>2, <2>1 DEF Types
  <2>3. Waiting(p, agent, last)
    OBVIOUS
  <2> HIDE DEF p
  <2>4. Waiting(p, agent', last)
    BY <1>1, <2>2, <2>3, WaitOn
  <2> QED
    BY <1>2, <2>4
<1>3. CASE agent' = agent /\ pending' = p
  BY <1>3
<1>4. CASE agent' = agent /\ pending' = [pending EXCEPT ![t] = Append(queue, m)]
  <2>1. pending' = [p EXCEPT ![t] = Append(p[t], m)]
    BY <1>4 DEF Types
  <2> HIDE DEF p
  <2>2. Waiting([p EXCEPT ![t] = Append(p[t], m)], agent, last)
    BY <1>1, OneMoreWaits DEF p
  <2> QED
    BY <1>4, <2>1, <2>2
<1> QED
  BY <1>2, <1>3, <1>4 DEF BegunOrWaits

LEMMA WaitsStep ==
    ASSUME Types, Types', WaitsInPlace, [Next]_vars
    PROVE  WaitsInPlace'
<1> SUFFICES /\ Waiting(pending', agent', typed')
             /\ \A m \in Msgs : m > typed' => agent'[m] = "none"
  BY DEF Waiting, WaitsInPlace
<1>0. /\ Waiting(pending, agent, typed) /\ typed \in Nat /\ pending \in [Tabs -> Seq(Msgs)]
      /\ \A m \in Msgs : m > typed => agent[m] = "none"
      /\ \A t \in Tabs : \A k \in DOMAIN pending[t] : pending[t][k] \in Msgs /\ agent[pending[t][k]] = "none"
      /\ Msgs \subseteq Nat
  <2>1. pending \in [Tabs -> Seq(Msgs)]
    BY DEF Types
  <2>2. \A t \in Tabs : \A k \in DOMAIN pending[t] : pending[t][k] \in Msgs
    BY <2>1
  <2> QED
    BY <2>1, <2>2, WaitingNow DEF Waiting, Msgs
\* Steps of the runs
<1>1. ASSUME NEW m \in Msgs, Ask(m) \/ End(m)
      PROVE  /\ Waiting(pending', agent', typed')
             /\ \A n \in Msgs : n > typed' => agent'[n] = "none"
  <2>1. pending' = pending /\ typed' = typed /\ agent[m] # "none" /\ \A n \in Msgs \ {m} : agent'[n] = agent[n]
    BY <1>1 DEF Ask, End, queues, IsLive, Types
  <2>2. \A t \in Tabs : \A k \in DOMAIN pending[t] : agent'[pending[t][k]] = "none"
    BY <1>0, <2>1
  <2> QED
    BY <1>0, <2>1, <2>2, WaitOn
\* The queue of a tab goes
<1>2. ASSUME NEW t \in Tabs, Withdraw(t), agent' = agent, typed' = typed
      PROVE  /\ Waiting(pending', agent', typed')
             /\ \A n \in Msgs : n > typed' => agent'[n] = "none"
  <2>1. \A u \in Tabs : Within(pending'[u], pending[u])
    BY <1>0, <1>2, Shorter DEF Withdraw
  <2> QED
    BY <1>0, <1>2, <2>1, FewerWait
<1>3. ASSUME NEW t \in Tabs, Submit(t)
      PROVE  /\ Waiting(pending', agent', typed')
             /\ \A n \in Msgs : n > typed' => agent'[n] = "none"
  <2>1. typed' = typed + 1 /\ typed' \in Msgs
    BY <1>0, <1>3 DEF Submit, Types, Msgs
  <2>2. /\ Waiting(pending, agent, typed') /\ agent[typed'] = "none"
        /\ \A u \in Tabs : \A k \in DOMAIN pending[u] : pending[u][k] # typed'
    <3>1. Waiting(pending, agent, typed')
      BY <1>0, <2>1, WaitOn
    <3>2. \A u \in Tabs : \A k \in DOMAIN pending[u] : pending[u][k] \in Nat /\ pending[u][k] <= typed
      BY <1>0 DEF Waiting
    <3> QED
      BY <1>0, <2>1, <3>1, <3>2
  <2>3. CASE Running(t)
    <3>1. pending' = [pending EXCEPT ![t] = Append(pending[t], typed')] /\ agent' = agent
      BY <1>3, <2>3 DEF Submit, runs
    <3>2. Waiting([pending EXCEPT ![t] = Append(pending[t], typed')], agent, typed')
      <4>1. typed' \in Nat /\ typed' <= typed'
        BY <1>0, <2>1
      <4> QED
        BY <1>0, <2>1, <2>2, <4>1, OneMoreWaits
    <3> QED
      BY <1>0, <2>1, <3>1, <3>2
  <2>4. CASE ~Running(t)
    <3>1. StartForTab(t, typed', pending[t], runner[t], missed)
      BY <1>3, <2>4 DEF Submit
    <3>2. pending = [pending EXCEPT ![t] = pending[t]] /\ pending[t] \in Seq(Msgs)
      BY <1>0
    <3>3. Waiting(pending', agent', typed')
      <4>1. BegunOrWaits(t, typed', pending[t])
        BY <3>1 DEF BegunOrWaits, StartForTab, StartAgent
      <4>2. typed' \in Nat /\ typed' <= typed'
        BY <1>0, <2>1
      <4> QED
        BY <1>0, <2>1, <2>2, <3>2, <4>1, <4>2, StartWaits
    <3>4. \A n \in Msgs \ {typed'} : agent'[n] = agent[n]
      BY <3>1 DEF StartForTab, StartAgent, Types
    <3> QED
      BY <1>0, <2>1, <3>3, <3>4
  <2> QED
    BY <2>3, <2>4
<1>4. ASSUME NEW t \in Tabs, Finish(t)
      PROVE  /\ Waiting(pending', agent', typed')
             /\ \A n \in Msgs : n > typed' => agent'[n] = "none"
  <2>1. typed' = typed
    BY <1>4 DEF Finish
  <2>2. CASE Open(t) /\ pending[t] # <<>>
    <3> DEFINE m == Head(pending[t])
               queue == Tail(pending[t])
    <3>1. PICK us \in SUBSET Tabs : StartForTab(t, m, queue, None, missed \cup us)
      BY <1>4, <2>2 DEF Finish, FollowUp, Overlooked
    <3>2. m \in Msgs /\ queue \in Seq(Msgs) /\ 1 \in DOMAIN pending[t] /\ pending[t][1] = m
      BY <1>0, <2>2
    <3>3. m <= typed /\ agent[m] = "none"
      BY <1>0, <3>2 DEF Waiting
    <3>4. \A u \in Tabs \ {t} : \A k \in DOMAIN pending[u] : pending[u][k] # m
      BY <1>0, <3>2 DEF Waiting
    <3>5. \A k \in DOMAIN queue : queue[k] # m
      <4> SUFFICES ASSUME NEW k \in DOMAIN queue PROVE queue[k] # m
        OBVIOUS
      <4>1. k + 1 \in DOMAIN pending[t] /\ queue[k] = pending[t][k + 1] /\ k + 1 # 1
        BY <1>0, <2>2
      <4> QED
        BY <1>0, <3>2, <4>1 DEF Waiting
    <3>6. Waiting([pending EXCEPT ![t] = queue], agent, typed)
      <4>1. \A u \in Tabs : Within([pending EXCEPT ![t] = queue][u], pending[u])
        BY <1>0, <2>2, Shorter
      <4> HIDE DEF queue
      <4> QED
        BY <1>0, <4>1, FewerWait
    <3> HIDE DEF m, queue
    <3>7. Waiting(pending', agent', typed)
      <4>1. BegunOrWaits(t, m, queue)
        BY <3>1 DEF BegunOrWaits, StartForTab, StartAgent
      <4> QED
        BY <1>0, <3>2, <3>3, <3>4, <3>5, <3>6, <4>1, StartWaits
    <3>8. \A n \in Msgs \ {m} : agent'[n] = agent[n]
      BY <3>1 DEF StartForTab, StartAgent, Types
    <3>9. ~(m > typed)
      BY <1>0, <3>2, <3>3
    <3> QED
      BY <1>0, <2>1, <3>7, <3>8, <3>9
  <2>3. CASE ~(Open(t) /\ pending[t] # <<>>)
    <3>1. agent' = agent /\ \A u \in Tabs \ {t} : pending'[u] = pending[u]
      BY <1>0, <1>4, <2>3 DEF Finish
    <3>2. Within(pending'[t], pending[t])
      BY <1>0, <1>4, <2>3, Shorter DEF Finish
    <3>3. \A u \in Tabs : Within(pending'[u], pending[u])
      BY <1>0, <3>1, <3>2, Shorter
    <3> QED
      BY <1>0, <2>1, <3>1, <3>3, FewerWait
  <2> QED
    BY <2>2, <2>3
<1>5. [Next]_vars => \/ \E m \in Msgs : Ask(m) \/ End(m)
                     \/ \E t \in Tabs : Withdraw(t) /\ agent' = agent /\ typed' = typed
                     \/ \E t \in Tabs : Submit(t) \/ Finish(t)
                     \/ UNCHANGED <<pending, agent, typed>>
  BY DEF Next, Serialise, ReplaceFile, Delete, Cancel, CloseTab, NewChat, ChangeDatabase, Attach,
         NewTab, OpenRow, DeleteRow, Load, QueueDelete, vars, runs, queues, desk
<1>6. CASE UNCHANGED <<pending, agent, typed>>
  BY <1>0, <1>6
<1> QED
  BY <1>1, <1>2, <1>3, <1>4, <1>5, <1>6

-----------------------------------------------------------------------------
(* Types and deletions, in every reachable state *)

LEMMA InitTypes == Init => Types
<1> SUFFICES ASSUME Init PROVE Types
  OBVIOUS
<1>1. 1 \in Tabs /\ 1 \in Chats /\ Chats \subseteq Ids /\ Saved \in Ids /\ Saved \in Turns
  BY ChatAssumption DEF Tabs, Chats, Ids, Turns, Saved
<1>2. tab \in [Tabs -> Chats \cup {None}] /\ runner \in [Tabs -> Msgs \cup {None}]
  BY <1>1 DEF Init
<1>3. idOf \in [Chats -> Ids] /\ content \in [Chats -> SUBSET Turns]
  BY <1>1 DEF Init
<1>4. <<>> \in Seq(Msgs) /\ <<>> \in Seq(Jobs)
  OBVIOUS
<1>5. pending \in [Tabs -> Seq(Msgs)] /\ jobs \in Seq(Jobs)
  BY <1>4 DEF Init
<1>6. file \in [Ids -> SUBSET Turns] /\ owed \in [Ids -> SUBSET Turns]
  BY <1>1 DEF Init
<1>7. writing \in [id : Ids \cup {None}, turns : SUBSET Turns]
  BY DEF Init, NoWrite
<1>8. request \in [op : {"none", "load", "loaded", "delete", "queued"}, id : Ids \cup {None}, turns : SUBSET Turns]
  BY DEF Init, Nothing
<1>9. agent \in [Msgs -> {"none", "begun", "asked", "over"}] /\ chat \in [Msgs -> Chats \cup {None}]
  BY DEF Init
<1>10. typed \in 0..MaxMsgs /\ errors \in 0..MaxErrors
  BY ChatAssumption DEF Init
<1> QED
  BY <1>1, <1>2, <1>3, <1>5, <1>6, <1>7, <1>8, <1>9, <1>10 DEF Init, Types

LEMMA InitPlaced == Init => Placed
<1> SUFFICES ASSUME Init PROVE Placed
  OBVIOUS
<1>1. Types
  BY InitTypes
<1>2. DOMAIN jobs = {} /\ \A t \in Tabs : DOMAIN pending[t] = {}
  BY DEF Init
<1>3. MadeSoFar
  <2>1. \A c \in 1..made : idOf[c] <= made
    BY ChatAssumption DEF Init, Chats
  <2>2. \A t \in Tabs : tab[t] <= made /\ (t > opened => ~Open(t))
    BY DEF Init, None, Open, Tabs
  <2>3. \A m \in Msgs : chat[m] <= made /\ (IsLive(m) => chat[m] # None)
    BY DEF Init, None, IsLive
  <2>4. writing.id <= made /\ request.id <= made
    BY DEF Init, NoWrite, Nothing, None
  <2>5. \A i \in Ids : i > made => file[i] = {} /\ owed[i] = {}
    BY DEF Init, Saved
  <2> QED
    BY <1>2, <2>1, <2>2, <2>3, <2>4, <2>5 DEF MadeSoFar
<1>4. OpenOnce
  BY DEF Init, OpenOnce, Open, None
<1>5. WaitsInPlace
  BY <1>2 DEF Init, WaitsInPlace
<1>6. RequestMeaning
  BY <1>2 DEF Init, RequestMeaning
<1>7. Gone
  BY DEF Init, Gone
<1> QED
  BY <1>1, <1>3, <1>4, <1>5, <1>6, <1>7 DEF Placed

LEMMA PlacedStep ==
    ASSUME Placed, [Next]_vars
    PROVE  Placed'
<1>1. Types'
  BY TypesStep DEF Placed
<1> QED
  BY <1>1, MadeSoFarStep, OpenOnceStep, WaitsStep, RequestStepInv, GoneStep DEF Placed

LEMMA PlacedAlways == Spec => []Placed
BY InitPlaced, PlacedStep, PTL DEF Spec

\* The panel's state keeps its types, a chat is never open in two tabs, and a
\* message is never queued twice or behind two tabs.
THEOREM TypeCorrect == Spec => []TypeOK
<1>1. ASSUME Placed
      PROVE  TypeOK
  <2>1. WaitsOnce
    <3> SUFFICES ASSUME NEW t \in Tabs, NEW m \in ToSet(pending[t])
                 PROVE  agent[m] = "none" /\ \A u \in Tabs \ {t} : m \notin ToSet(pending[u])
      BY DEF WaitsOnce
    <3> QED
      BY <1>1 DEF Placed, WaitsInPlace, ToSet
  <2> QED
    BY <1>1, <2>1 DEF Placed, TypeOK
<1> QED
  BY <1>1, PlacedAlways, PTL

\* A deleted chat has no file, is in no tab and is not about to be written
\* again, whatever saves and loads were in flight when it was deleted.
THEOREM DeletedChatsStayDeleted == Spec => []DeletedStaysDeleted
<1>1. Placed => DeletedStaysDeleted
  BY DEF Placed, Gone, DeletedStaysDeleted
<1> QED
  BY <1>1, PlacedAlways, PTL

-----------------------------------------------------------------------------
(* The history keeps the chats *)

\* Turns that are adrift stay so, and nothing is forgotten of what was removed
\* or read again.
LEMMA AdriftGrows ==
    ASSUME Types, [Next]_vars
    PROVE  adrift \subseteq adrift' /\ removed \subseteq removed' /\ reread \subseteq reread'
BY DEF Next, Serialise, ReplaceFile, Delete, Ask, End, Submit, Finish, Cancel, CloseTab, NewChat,
       ChangeDatabase, Attach, NewTab, OpenRow, DeleteRow, Load, QueueDelete, vars, ledger, history

\* A chat keeps its turns.
LEMMA ContentStep ==
    ASSUME Types, RequestMeaning, [Next]_vars, NEW c \in Chats, c <= made
    PROVE  content[c] \subseteq content'[c]
<1>1. ASSUME NEW m \in Msgs, Ask(m)
      PROVE  content[c] \subseteq content'[c]
  BY <1>1 DEF Ask, Types
<1>2. ASSUME NEW i \in Ids, NEW turns \in SUBSET Turns, Make(i, turns)
      PROVE  content'[c] = content[c]
  <2>1. c # made'
    BY <1>2, MakeEffect, Numbers
  <2> QED
    BY <1>2, <2>1, MakeEffect
<1>3. (made < MaxChats => NewId \in Ids) /\ {} \in SUBSET Turns
  BY ChatAssumption DEF Types, Ids, NewId, Chats
<1>4. ASSUME Make(NewId, {})
      PROVE  content'[c] = content[c]
  BY <1>2, <1>3, <1>4 DEF Make
<1>5. ASSUME NEW t \in Tabs, Attach(t)
      PROVE  content'[c] = content[c]
  <2>1. request.id \in Ids /\ request.turns \in SUBSET Turns /\ Make(request.id, request.turns)
    BY <1>5 DEF Types, RequestMeaning, Attach, Nothing
  <2> QED
    BY <1>2, <2>1
<1>6. [Next]_vars => \/ \E m \in Msgs : Ask(m)
                     \/ Make(NewId, {})
                     \/ \E t \in Tabs : Attach(t)
                     \/ content' = content
  BY DEF Next, Serialise, ReplaceFile, Delete, End, Submit, Finish, Cancel, CloseTab, NewChat,
         ChangeDatabase, NewTab, OpenRow, DeleteRow, Load, QueueDelete, vars, desk
<1> QED
  BY <1>1, <1>4, <1>5, <1>6

\* A tab keeps its chat, unless the runs that work on it are let go of.
LEMMA LetGoOrStay ==
    ASSUME Types, MadeSoFar, [Next]_vars, NEW t \in Tabs, Open(t), NEW m \in Msgs,
           IsLive(m), chat[m] = tab[t], m \notin adrift'
    PROVE  tab'[t] = tab[t]
<1>1. \A cs : tab[t] \in cs => m \in LetGo(cs)
  BY DEF LetGo
<1>2. ASSUME NEW u \in Tabs, CloseTab(u) \/ NewChat(u)
      PROVE  tab'[t] = tab[t]
  <2>1. u # t
    BY <1>1, <1>2 DEF CloseTab, NewChat
  <2> QED
    BY <1>2, <2>1 DEF CloseTab, NewChat, Types
<1>3. ASSUME NEW u \in Tabs, ChangeDatabase(u)
      PROVE  FALSE
  BY <1>1, <1>3 DEF ChangeDatabase
<1>4. t <= opened /\ t \in Int /\ opened \in Int
  BY Numbers DEF MadeSoFar
<1>5. ASSUME NEW u \in Tabs, Attach(u)
      PROVE  tab'[t] = tab[t]
  <2> DEFINE at == IF content[tab[u]] = {} THEN u ELSE opened + 1
  <2>1. tab' = [tab EXCEPT ![at] = made'] /\ adrift' = adrift \cup (IF at = u THEN LetGo({tab[at]}) ELSE {})
    BY <1>5 DEF Attach
  <2>2. at = u => u # t
    BY <1>1, <2>1
  <2>3. at # u => at = opened + 1
    OBVIOUS
  <2> HIDE DEF at
  <2>4. at # t
    BY <1>4, <2>2, <2>3
  <2> QED
    BY <2>1, <2>4 DEF Types
<1>6. CASE NewTab
  <2>1. t # opened'
    BY <1>4, <1>6 DEF NewTab
  <2> QED
    BY <1>6, <2>1 DEF NewTab, Types
<1>7. [Next]_vars => \/ \E u \in Tabs : CloseTab(u) \/ NewChat(u)
                     \/ \E u \in Tabs : ChangeDatabase(u)
                     \/ \E u \in Tabs : Attach(u)
                     \/ NewTab
                     \/ tab' = tab
  BY DEF Next, Serialise, ReplaceFile, Delete, Ask, End, Submit, Finish, Cancel,
         OpenRow, DeleteRow, Load, QueueDelete, vars, tabs, desk
<1> QED
  BY <1>2, <1>3, <1>5, <1>6, <1>7

\* A tab polls a run that is at work until it has ended, or its tab is closed.
LEMMA RunnerStays ==
    ASSUME Types, MadeSoFar, [Next]_vars, NEW t \in Tabs, Open(t), NEW m \in Msgs,
           IsLive(m), chat[m] = tab[t], m \notin adrift', runner[t] = m
    PROVE  runner'[t] = m
<1>1. ASSUME NEW u \in Tabs, u # t, NEW n, NEW queue, NEW current, NEW unseen, StartForTab(u, n, queue, current, unseen)
      PROVE  runner'[t] = m
  BY <1>1 DEF StartForTab, StartAgent, Types
<1>2. Running(t)
  BY DEF Running, None, Msgs
<1>3. ASSUME NEW u \in Tabs, Submit(u)
      PROVE  runner'[t] = m
  <2>1. CASE Running(u)
    BY <1>3, <2>1 DEF Submit, runs
  <2>2. CASE ~Running(u)
    <3>1. StartForTab(u, typed', pending[u], runner[u], missed) /\ u # t
      BY <1>2, <1>3, <2>2 DEF Submit
    <3> QED
      BY <1>1, <3>1
  <2> QED
    BY <2>1, <2>2
<1>4. ASSUME NEW u \in Tabs, Finish(u)
      PROVE  runner'[t] = m
  <2>1. u # t
    BY <1>4 DEF Finish
  <2>2. CASE Open(u) /\ pending[u] # <<>>
    <3>1. PICK us \in SUBSET Tabs : StartForTab(u, Head(pending[u]), Tail(pending[u]), None, missed \cup us)
      BY <1>4, <2>2 DEF Finish, FollowUp, Overlooked
    <3> QED
      BY <1>1, <2>1, <3>1
  <2>3. CASE ~(Open(u) /\ pending[u] # <<>>)
    BY <1>4, <2>1, <2>3 DEF Finish, Types
  <2> QED
    BY <2>2, <2>3
<1>5. ASSUME NEW u \in Tabs, CloseTab(u)
      PROVE  runner'[t] = m
  <2>1. u # t
    BY <1>5 DEF CloseTab, LetGo
  <2> QED
    BY <1>5, <2>1 DEF CloseTab, Types
<1>6. [Next]_vars => \/ \E u \in Tabs : Submit(u) \/ Finish(u) \/ CloseTab(u)
                     \/ runner' = runner
  BY DEF Next, Serialise, ReplaceFile, Delete, Ask, End, Cancel, NewChat, ChangeDatabase, Attach, NewTab,
         OpenRow, DeleteRow, Load, QueueDelete, vars, runs, desk
<1> QED
  BY <1>3, <1>4, <1>5, <1>6

\* The runs at work are in their tabs, or adrift.
LEMMA RunsInTabsStep ==
    ASSUME Placed, RunsInTabs, [Next]_vars
    PROVE  RunsInTabs'
<1> SUFFICES ASSUME NEW m \in Msgs, agent'[m] \in {"begun", "asked"}
             PROVE  /\ m \in adrift' \/ \E t \in Tabs : tab'[t] # None /\ tab'[t] = chat'[m] /\ runner'[t] = m
                    /\ agent'[m] = "asked" => m \in content'[chat'[m]]
  BY DEF RunsInTabs, IsLive, Open
<1>0. Types /\ MadeSoFar /\ RequestMeaning
  BY DEF Placed
<1>1. adrift \subseteq adrift'
  BY <1>0, AdriftGrows
<1>2. CASE agent'[m] = agent[m] /\ chat'[m] = chat[m]
  <2>1. IsLive(m) /\ chat[m] \in Chats /\ chat[m] <= made
    BY <1>0, <1>2 DEF IsLive, Types, MadeSoFar
  <2>2. agent'[m] = "asked" => m \in content'[chat'[m]]
    BY <1>0, <1>2, <2>1, ContentStep DEF RunsInTabs
  <2>3. ASSUME m \notin adrift'
        PROVE  \E t \in Tabs : tab'[t] # None /\ tab'[t] = chat'[m] /\ runner'[t] = m
    <3>1. PICK t \in Tabs : Open(t) /\ tab[t] = chat[m] /\ runner[t] = m
      BY <1>1, <2>1, <2>3 DEF RunsInTabs
    <3>2. tab'[t] = tab[t]
      BY <1>0, <2>1, <2>3, <3>1, LetGoOrStay
    <3>3. runner'[t] = m
      BY <1>0, <2>1, <2>3, <3>1, RunnerStays
    <3> QED
      BY <1>2, <3>1, <3>2, <3>3 DEF Open
  <2> QED
    BY <2>2, <2>3
<1>3. CASE Ask(m) /\ agent'[m] = "asked" /\ chat'[m] = chat[m]
  <2>1. IsLive(m) /\ chat[m] \in Chats
    BY <1>0, <1>3 DEF Ask, IsLive, Types, MadeSoFar
  <2>2. m \in content'[chat'[m]]
    BY <1>0, <1>3, <2>1 DEF Ask, Types
  <2>3. tab' = tab /\ runner' = runner
    BY <1>3 DEF Ask, tabs
  <2> QED
    BY <1>1, <1>3, <2>1, <2>2, <2>3 DEF RunsInTabs, Open
<1>4. CASE \E t \in Tabs : Open(t) /\ agent'[m] = "begun" /\ chat'[m] = tab[t] /\ runner'[t] = m /\ (Submit(t) \/ Finish(t))
  BY <1>4 DEF Submit, Finish, tabs, Open
<1> QED
  BY <1>0, <1>2, <1>3, <1>4, RunsStep

\* What the step adds to the turns that ended in a chat: a run that ended, in a
\* tab that is open.
LEMMA KeptStep ==
    ASSUME Types, MadeSoFar, RunsInTabs, [Next]_vars, NEW i \in Ids, NEW x \in Kept(i)'
    PROVE  \/ x \in Kept(i)
           \/ /\ \E t \in Tabs : /\ Open(t) /\ idOf[tab[t]] = i /\ x \in content[tab[t]]
                                 /\ tab'[t] # None /\ runner'[t] # None
              /\ tab' = tab /\ idOf' = idOf /\ jobs' = jobs /\ request' = request
<1>1. x \in owed'[i] /\ x \notin adrift' /\ x \notin adrift
  BY AdriftGrows DEF Kept
<1>2. ASSUME NEW m \in Msgs, End(m)
      PROVE  \/ x \in owed[i]
             \/ x = m /\ agent[m] = "asked" /\ idOf[chat[m]] = i
  <2>1. chat[m] \in Chats /\ idOf[chat[m]] \in Ids
    BY <1>2 DEF End, Types, MadeSoFar
  <2> QED
    BY <1>1, <1>2, <2>1 DEF End, Types
<1>3. ASSUME NEW m \in Msgs, End(m), x = m, agent[m] = "asked", idOf[chat[m]] = i
      PROVE  /\ \E t \in Tabs : /\ Open(t) /\ idOf[tab[t]] = i /\ x \in content[tab[t]]
                                /\ tab'[t] # None /\ runner'[t] # None
             /\ tab' = tab /\ idOf' = idOf /\ jobs' = jobs /\ request' = request
  <2>1. PICK t \in Tabs : Open(t) /\ tab[t] = chat[m] /\ runner[t] = m
    BY <1>1, <1>3 DEF RunsInTabs, End
  <2>2. m \in content[chat[m]]
    BY <1>3 DEF RunsInTabs, End
  <2>3. tab' = tab /\ idOf' = idOf /\ jobs' = jobs /\ request' = request /\ runner' = runner
    BY <1>3 DEF End, tabs, saver, history
  <2>4. m # None
    BY DEF Msgs, None
  <2> QED
    BY <1>3, <2>1, <2>2, <2>3, <2>4 DEF Open
<1>4. [Next]_vars => (\E m \in Msgs : End(m)) \/ owed' = owed
  BY DEF Next, Serialise, ReplaceFile, Delete, Ask, Submit, Finish, Cancel, CloseTab, NewChat,
         ChangeDatabase, Attach, NewTab, OpenRow, DeleteRow, Load, QueueDelete, vars, ledger
<1> QED
  BY <1>1, <1>2, <1>3, <1>4 DEF Kept

\* A save after a step was one before it, or is of the chat of an open tab.
LEMMA SaveWas ==
    ASSUME Types, Types', MadeSoFar, RequestMeaning, [Next]_vars, NEW i \in Ids,
           NEW k \in DOMAIN jobs', jobs'[k].op = "save", idOf'[jobs'[k].chat] = i
    PROVE  /\ jobs'[k].chat \in Chats /\ jobs'[k].chat <= made
           /\ \/ \E j \in DOMAIN jobs : jobs'[k] = jobs[j] /\ IsSaveOf(jobs[j], i)
              \/ \E t \in Tabs : Open(t) /\ idOf[tab[t]] = i /\ jobs'[k].chat = tab[t]
<1>1. \A c \in Chats : c <= made => idOf'[c] = idOf[c]
  BY IdsStep
<1>2. CASE \E j \in DOMAIN jobs : jobs'[k] = jobs[j]
  <2>1. PICK j \in DOMAIN jobs : jobs'[k] = jobs[j]
    BY <1>2
  <2>2. jobs[j].chat \in Chats /\ jobs[j].chat <= made
    BY <2>1, Numbers, JobKinds DEF MadeSoFar
  <2> QED
    BY <1>1, <2>1, <2>2 DEF IsSaveOf
<1>3. CASE \E t \in Tabs : Open(t) /\ jobs'[k] = SaveJob(tab[t])
  <2>1. PICK t \in Tabs : Open(t) /\ jobs'[k].chat = tab[t]
    BY <1>3 DEF SaveJob
  <2> QED
    BY <1>1, <2>1, OpenIdsMade
<1>4. CASE jobs'[k] = [op |-> "delete", id |-> request.id]
  BY <1>4
<1> QED
  BY <1>2, <1>3, <1>4, JobsAre

\* A save stays queued until the executor takes it.
LEMMA SaveStays ==
    ASSUME Types, Types', MadeSoFar, RequestMeaning, [Next]_vars, NEW i \in Ids, Queued(i), ~Serialise
    PROVE  Queued(i)'
<1>1. PICK j \in DOMAIN jobs : IsSaveOf(jobs[j], i)
  BY DEF Queued
<1>2. jobs[j].op = "save" /\ jobs[j].chat \in Chats /\ jobs[j].chat <= made /\ idOf'[jobs[j].chat] = i
  BY <1>1, IdsStep, Numbers, JobKinds DEF IsSaveOf, MadeSoFar
<1>3. \E k \in DOMAIN jobs' : jobs'[k] = jobs[j]
  <2>1. CASE Delete
    <3>1. j # 1 /\ jobs \in Seq(Jobs) /\ jobs' = Tail(jobs) /\ jobs # <<>>
      BY <1>2, <2>1, TailTaken DEF Delete, Types
    <3>2. j - 1 \in DOMAIN jobs' /\ jobs'[j - 1] = jobs[j]
      BY <3>1
    <3> QED
      BY <3>2
  <2>2. CASE QueueDelete
    <3>1. jobs \in Seq(Jobs) /\ jobs' = Append(jobs, [op |-> "delete", id |-> request.id])
      BY <2>2 DEF QueueDelete, Types
    <3>2. j \in DOMAIN jobs' /\ jobs'[j] = jobs[j]
      BY <3>1
    <3> QED
      BY <3>2
  <2>3. CASE SavesOfOpen
    BY <2>3 DEF SavesOfOpen
  <2> QED
    BY <2>1, <2>2, <2>3, JobsStep
<1> QED
  BY <1>2, <1>3 DEF Queued, IsSaveOf

\* The save that the executor takes is what is being written then.
LEMMA SaveTaken ==
    ASSUME Types, Types', MadeSoFar, Serialise, NEW i \in Ids, Queued(i), ~Queued(i)'
    PROVE  \E j \in DOMAIN jobs : IsSaveOf(jobs[j], i) /\ writing'.id = i /\ writing'.turns = content[jobs[j].chat]
<1>1. PICK j \in DOMAIN jobs : IsSaveOf(jobs[j], i)
  BY DEF Queued
<1>2. idOf' = idOf /\ jobs \in Seq(Jobs) /\ jobs' = Tail(jobs) /\ jobs # <<>> /\ 1 \in DOMAIN jobs /\ jobs[1] = Head(jobs)
  BY TailTaken DEF Serialise, tabs, Types
<1>3. CASE j = 1
  BY <1>1, <1>2, <1>3 DEF Serialise, IsSaveOf
<1>4. CASE j # 1
  <2>1. j - 1 \in DOMAIN jobs' /\ jobs'[j - 1] = jobs[j]
    BY <1>2, <1>4
  <2> QED
    BY <1>1, <1>2, <2>1 DEF Queued, IsSaveOf
<1> QED
  BY <1>3, <1>4

LEMMA InTabStep ==
    ASSUME Types, Types', MadeSoFar, RequestMeaning, OpenOnce, RunsInTabs, [Next]_vars,
           NEW i \in Ids, CarriedOn(i)
    PROVE  InTab(i)'
<1> SUFFICES ASSUME NEW t \in Tabs, tab'[t] # None, idOf'[tab'[t]] = i
             PROVE  /\ Kept(i)' \subseteq content'[tab'[t]]
                    /\ \A k \in DOMAIN jobs' : jobs'[k].op = "save" /\ idOf'[jobs'[k].chat] = i => jobs'[k].chat = tab'[t]
  BY DEF InTab, Open, IsSaveOf
<1>1. ASSUME Open(t), tab'[t] = tab[t]
      PROVE  /\ Kept(i)' \subseteq content'[tab'[t]]
             /\ \A k \in DOMAIN jobs' : jobs'[k].op = "save" /\ idOf'[jobs'[k].chat] = i => jobs'[k].chat = tab'[t]
  <2>1. tab[t] \in Chats /\ tab[t] <= made /\ idOf[tab[t]] = i
    BY <1>1, OpenIdsMade, IdsStep
  <2>2. content[tab[t]] \subseteq content'[tab[t]]
    BY <2>1, ContentStep
  <2>3. \A u \in Tabs : Open(u) /\ idOf[tab[u]] = i => u = t
    BY <1>1, <2>1 DEF OpenOnce
  <2>4. ASSUME NEW x \in Kept(i)'
        PROVE  x \in content[tab[t]]
    BY <1>1, <2>1, <2>3, <2>4, KeptStep DEF CarriedOn, InTab
  <2>5. ASSUME NEW k \in DOMAIN jobs', jobs'[k].op = "save", idOf'[jobs'[k].chat] = i
        PROVE  jobs'[k].chat = tab[t]
    BY <1>1, <2>1, <2>3, <2>5, SaveWas DEF CarriedOn, InTab
  <2> QED
    BY <1>1, <2>2, <2>4, <2>5
<1>2. CASE TabsShrink
  BY <1>1, <1>2 DEF TabsShrink, Open
<1>3. ASSUME NEW u \in Tabs, NEW n \in Ids, TabOpens(u, n)
      PROVE  /\ Kept(i)' \subseteq content'[tab'[t]]
             /\ \A k \in DOMAIN jobs' : jobs'[k].op = "save" /\ idOf'[jobs'[k].chat] = i => jobs'[k].chat = tab'[t]
  <2>1. CASE u # t
    BY <1>1, <1>3, <2>1, OtherTabs DEF Open
  <2>2. CASE u = t
    <3>1. i = n /\ i \notin OpenIds
      <4>1. i = n
        BY <1>3, <2>2 DEF TabOpens
      <4>2. n = made + 1 => n \notin OpenIds
        <5>1. \A o \in OpenIds : o \in Int /\ o <= made
          BY OpenIdsMade, Numbers
        <5> QED
          BY <5>1, Numbers
      <4>3. n = request.id /\ request.op = "loaded" => n \notin OpenIds
        BY DEF RequestMeaning, Nothing
      <4> QED
        BY <1>3, <4>1, <4>2, <4>3 DEF TabOpens
    <3>2. \A v \in Tabs : Open(v) => idOf[tab[v]] # i
      BY <3>1, IdsOfTabs DEF Open
    <3>3. Kept(i)' \subseteq Kept(i)
      BY <3>2, KeptStep
    <3>4. ASSUME NEW k \in DOMAIN jobs', jobs'[k].op = "save", idOf'[jobs'[k].chat] = i
          PROVE  \E j \in DOMAIN jobs : IsSaveOf(jobs[j], i) /\ jobs[j].chat \in Chats /\ jobs[j].chat <= made
      BY <3>2, <3>4, SaveWas
    <3>5. CASE i = made + 1
      <4>1. Kept(i) = {}
        BY <3>5, Numbers DEF MadeSoFar, Kept
      <4>2. \A c \in Chats : c <= made => idOf[c] # i
        <5>1. \A c \in Chats : c <= made => idOf[c] <= made /\ idOf[c] \in Int
          BY Numbers DEF MadeSoFar
        <5> QED
          BY <3>5, <5>1, Numbers
      <4> QED
        BY <3>3, <3>4, <4>1, <4>2 DEF IsSaveOf
    <3>6. CASE request.op = "loaded" /\ i = request.id /\ content'[made'] = request.turns
      <4>1. Kept(i) \subseteq content'[tab'[t]] /\ ~Queued(i)
        BY <1>3, <2>2, <3>6 DEF CarriedOn, InRequest, TabOpens
      <4> QED
        BY <3>3, <3>4, <4>1 DEF Queued
    <3> QED
      BY <1>3, <3>1, <3>5, <3>6 DEF TabOpens
  <2> QED
    BY <2>1, <2>2
<1> QED
  BY <1>2, <1>3, TabsStep

LEMMA InRequestStep ==
    ASSUME Types, Types', MadeSoFar, RequestMeaning, RunsInTabs, [Next]_vars,
           NEW i \in Ids, CarriedOn(i), i \notin reread'
    PROVE  InRequest(i)'
<1> SUFFICES ASSUME request'.op = "loaded", request'.id = i
             PROVE  /\ Kept(i)' \subseteq request'.turns
                    /\ \A k \in DOMAIN jobs' : ~(jobs'[k].op = "save" /\ idOf'[jobs'[k].chat] = i)
  BY DEF InRequest, Queued, IsSaveOf
<1>1. request.id = i /\ request # Nothing /\ (request' = request \/ Load)
  <2>1. request' # Nothing /\ ~QueueDelete /\ \A n \in Ids : ~OpenRow(n) /\ ~DeleteRow(n)
    BY DEF Nothing, QueueDelete, OpenRow, DeleteRow, Types
  <2>2. request' = request \/ Load
    BY <2>1, RequestStep
  <2>3. Load => request.id = i /\ request # Nothing
    BY DEF Load, Nothing, Types
  <2> QED
    BY <2>1, <2>2, <2>3
<1>2. \A t \in Tabs : Open(t) => idOf[tab[t]] # i
  BY <1>1, IdsOfTabs DEF RequestMeaning, Open
<1>3. Kept(i)' \subseteq Kept(i)
  BY <1>2, KeptStep
<1>4. ASSUME NEW k \in DOMAIN jobs', jobs'[k].op = "save", idOf'[jobs'[k].chat] = i
      PROVE  Queued(i)
  BY <1>2, <1>4, SaveWas DEF Queued
<1>5. CASE request' = request
  BY <1>3, <1>4, <1>5 DEF CarriedOn, InRequest
<1>6. CASE Load
  <2>1. ~SavesOf(i) /\ request'.turns = file[i]
    BY <1>1, <1>6 DEF Load, Types
  <2>2. ~Queued(i) /\ writing.id # i
    BY <2>1 DEF SavesOf, Queued, IsSaveOf
  <2>3. Kept(i) \subseteq file[i]
    BY <1>2, <2>2 DEF CarriedOn, OnDisk, Busy
  <2> QED
    BY <1>3, <1>4, <2>1, <2>2, <2>3
<1> QED
  BY <1>1, <1>5, <1>6

LEMMA InJobsStep ==
    ASSUME Types, Types', MadeSoFar, RequestMeaning, OpenOnce, RunsInTabs, [Next]_vars,
           NEW i \in Ids, CarriedOn(i)
    PROVE  InJobs(i)'
<1> SUFFICES ASSUME NEW k \in DOMAIN jobs', jobs'[k].op = "save", idOf'[jobs'[k].chat] = i, NEW x \in Kept(i)'
             PROVE  x \in content'[jobs'[k].chat]
  BY DEF InJobs, IsSaveOf
<1>1. jobs'[k].chat \in Chats /\ jobs'[k].chat <= made
  BY SaveWas
<1>2. content[jobs'[k].chat] \subseteq content'[jobs'[k].chat]
  BY <1>1, ContentStep
<1>3. CASE \E j \in DOMAIN jobs : jobs'[k] = jobs[j] /\ IsSaveOf(jobs[j], i)
  <2>1. PICK j \in DOMAIN jobs : jobs'[k] = jobs[j] /\ IsSaveOf(jobs[j], i)
    BY <1>3
  <2>2. CASE x \in Kept(i)
    BY <1>2, <2>1, <2>2 DEF CarriedOn, InJobs
  <2>3. CASE \E t \in Tabs : Open(t) /\ idOf[tab[t]] = i /\ x \in content[tab[t]]
    BY <1>2, <2>1, <2>3 DEF CarriedOn, InTab
  <2> QED
    BY <2>2, <2>3, KeptStep
<1>4. CASE \E t \in Tabs : Open(t) /\ idOf[tab[t]] = i /\ jobs'[k].chat = tab[t]
  <2>1. PICK t \in Tabs : Open(t) /\ idOf[tab[t]] = i /\ jobs'[k].chat = tab[t]
    BY <1>4
  <2>2. CASE x \in Kept(i)
    BY <1>2, <2>1, <2>2 DEF CarriedOn, InTab
  <2>3. CASE \E u \in Tabs : Open(u) /\ idOf[tab[u]] = i /\ x \in content[tab[u]]
    <3>1. x \in content[tab[t]]
      BY <2>1, <2>3 DEF OpenOnce
    <3> QED
      BY <1>2, <2>1, <3>1
  <2> QED
    BY <2>2, <2>3, KeptStep
<1> QED
  BY <1>3, <1>4, SaveWas

\* The saves that follow queue every chat of the set that holds something.
LEMMA SavesQueue ==
    ASSUME Types, Types', MadeSoFar, RequestMeaning, [Next]_vars, NEW S, SavesFollow(S),
           NEW t \in Tabs, Open(t), tab[t] \in S, content[tab[t]] # {}, NEW i \in Ids, idOf[tab[t]] = i
    PROVE  Queued(i)'
<1>1. PICK k \in DOMAIN jobs' : jobs'[k] = SaveJob(tab[t])
  BY DEF SavesFollow
<1>2. idOf'[tab[t]] = i
  BY IdsStep, OpenIdsMade
<1>3. jobs'[k].op = "save" /\ jobs'[k].chat = tab[t]
  BY <1>1 DEF SaveJob
<1> QED
  BY <1>2, <1>3 DEF Queued, IsSaveOf

\* A chat whose last run is finished, or that leaves its tab, is queued to be saved,
\* unless it holds nothing.
LEMMA BusyStep ==
    ASSUME Types, Types', MadeSoFar, RequestMeaning, [Next]_vars, NEW t \in Tabs, Open(t), runner[t] # None,
           ~CloseTab(t), tab'[t] # tab[t] \/ runner'[t] = None, content[tab[t]] # {}
    PROVE  \E S : SavesFollow(S) /\ tab[t] \in S
<1>1. tab[t] \in Chats /\ t <= opened /\ t \in Int /\ opened \in Int
  BY OpenIdsMade, Numbers DEF MadeSoFar
<1>2. ASSUME NEW u \in Tabs, NEW n \in Msgs, NEW queue, NEW current, NEW unseen, u # t \/ current # None,
             StartForTab(u, n, queue, current, unseen)
      PROVE  runner'[t] # None
  <2>1. n # None
    BY DEF Msgs, None
  <2> QED
    BY <1>2, <2>1 DEF StartForTab, StartAgent, Types
<1>3. ASSUME NEW u \in Tabs, Submit(u)
      PROVE  FALSE
  <2>1. tab' = tab /\ typed' \in Msgs
    BY <1>3, ChatAssumption DEF Submit, tabs, Types, Msgs
  <2>2. CASE Running(u)
    BY <1>3, <2>1, <2>2 DEF Submit, runs
  <2>3. CASE ~Running(u)
    <3>1. StartForTab(u, typed', pending[u], runner[u], missed)
      BY <1>3, <2>3 DEF Submit
    <3> QED
      BY <1>2, <2>1, <3>1
  <2> QED
    BY <2>2, <2>3
<1>4. ASSUME NEW u \in Tabs, Finish(u)
      PROVE  SavesFollow({tab[t]})
  <2>1. tab' = tab
    BY <1>4 DEF Finish, tabs
  <2>2. CASE u = t
    BY <1>1, <1>4, <2>2, OneSave DEF Finish, SavedAtEnd
  <2>3. CASE u # t
    <3>1. CASE Open(u) /\ pending[u] # <<>>
      <4>1. PICK us \in SUBSET Tabs : StartForTab(u, Head(pending[u]), Tail(pending[u]), None, missed \cup us)
        BY <1>4, <3>1 DEF Finish, FollowUp, Overlooked
      <4>2. Head(pending[u]) \in Msgs
        BY <3>1 DEF Types
      <4> QED
        BY <1>2, <2>1, <2>3, <4>1, <4>2
    <3>2. CASE ~(Open(u) /\ pending[u] # <<>>)
      BY <1>4, <2>1, <2>3, <3>2 DEF Finish, Types
    <3> QED
      BY <3>1, <3>2
  <2> QED
    BY <2>2, <2>3
<1>5. ASSUME NEW u \in Tabs, CloseTab(u)
      PROVE  FALSE
  BY <1>5 DEF CloseTab, Types
<1>6. ASSUME NEW u \in Tabs, NewChat(u)
      PROVE  SavesFollow({tab[t]})
  <2>1. u = t
    BY <1>6 DEF NewChat, runs, Types
  <2> QED
    BY <1>1, <1>6, <2>1, OneSave DEF NewChat
<1>7. ASSUME NEW u \in Tabs, ChangeDatabase(u)
      PROVE  SavesFollow({tab[v] : v \in {v \in Tabs : Open(v)}})
  BY <1>7, ManySaves
<1>8. ASSUME NEW u \in Tabs, Attach(u)
      PROVE  FALSE
  <2> DEFINE at == IF content[tab[u]] = {} THEN u ELSE opened + 1
  <2>1. tab' = [tab EXCEPT ![at] = made'] /\ runner' = runner
    BY <1>8 DEF Attach, runs
  <2>2. at # t
    BY <1>1
  <2> HIDE DEF at
  <2> QED
    BY <2>1, <2>2 DEF Types
<1>9. CASE NewTab
  <2>1. t # opened'
    BY <1>1, <1>9 DEF NewTab
  <2> QED
    BY <1>9, <2>1 DEF NewTab, Types, runs
<1>10. [Next]_vars => \/ \E u \in Tabs : Submit(u) \/ Finish(u)
                      \/ \E u \in Tabs : CloseTab(u) \/ NewChat(u) \/ ChangeDatabase(u) \/ Attach(u)
                      \/ NewTab
                      \/ UNCHANGED <<tab, runner>>
  BY DEF Next, Serialise, ReplaceFile, Delete, Ask, End, Cancel, OpenRow, DeleteRow, Load, QueueDelete,
         vars, tabs, runs, desk
<1>11. tab[t] \in {tab[t]} /\ tab[t] \in {tab[v] : v \in {v \in Tabs : Open(v)}}
  OBVIOUS
<1> QED
  BY <1>3, <1>4, <1>5, <1>6, <1>7, <1>8, <1>9, <1>10, <1>11

Disk(i) == IF writing.id = i THEN writing.turns ELSE file[i]

\* A chat that is not queued stays on the disk, or on its way there.
LEMMA DiskStep ==
    ASSUME Types, [Next]_vars, NEW i \in Ids, ~Queued(i), i \notin removed',
           \A t \in Tabs : ~(CloseTab(t) /\ idOf[tab[t]] = i)
    PROVE  Disk(i)' = Disk(i)
<1>0. i # None
  BY Numbers
<1>1. CASE Serialise
  <2>1. 1 \in DOMAIN jobs /\ jobs[1] = Head(jobs) /\ writing = NoWrite /\ writing'.id = idOf[jobs[1].chat] /\ file' = file
    BY <1>1, TailTaken DEF Serialise, history
  <2>2. writing'.id # i /\ writing.id # i
    BY <1>0, <1>1, <2>1 DEF Serialise, Queued, IsSaveOf, NoWrite
  <2> QED
    BY <2>1, <2>2 DEF Disk
<1>2. CASE ReplaceFile
  BY <1>0, <1>2 DEF ReplaceFile, Disk, NoWrite, Types
<1>3. CASE Delete
  <2>1. writing' = writing /\ file'[i] = file[i]
    BY <1>3 DEF Delete, Types
  <2> QED
    BY <2>1 DEF Disk
<1>4. ASSUME NEW t \in Tabs, CloseTab(t)
      PROVE  Disk(i)' = Disk(i)
  <2>1. idOf[tab[t]] # i
    BY <1>4
  <2>2. writing' = writing /\ file'[i] = file[i]
    BY <1>4, <2>1 DEF CloseTab, saver, Types
  <2> QED
    BY <2>2 DEF Disk
<1>5. CASE UNCHANGED <<writing, file>>
  BY <1>5 DEF Disk
<1>6. [Next]_vars => \/ Serialise \/ ReplaceFile \/ Delete \/ (\E t \in Tabs : CloseTab(t)) \/ UNCHANGED <<writing, file>>
  BY DEF Next, Ask, End, Submit, Finish, Cancel, NewChat, ChangeDatabase, Attach,
         NewTab, OpenRow, DeleteRow, Load, QueueDelete, vars, saver, history
<1> QED
  BY <1>1, <1>2, <1>3, <1>4, <1>5, <1>6

\* close_tab() leaves the turns of the chat in its file, in what is being written,
\* or adrift.
LEMMA ClosedOnDisk ==
    ASSUME Types, NEW t \in Tabs, CloseTab(t), NEW i \in Ids, idOf[tab[t]] = i, InTab(i), NEW x \in Kept(i)'
    PROVE  x \in Disk(i)'
<1>1. x \in content[tab[t]] /\ x \notin adrift'
  <2>1. x \in Kept(i) /\ x \notin adrift'
    BY DEF CloseTab, Kept
  <2> QED
    BY <2>1 DEF InTab, CloseTab
<1>2. writing' = writing
  BY DEF CloseTab, saver
<1>3. CASE writing.id = i
  <2>1. x \in writing.turns
    BY <1>1, <1>3 DEF CloseTab
  <2> QED
    BY <1>2, <1>3, <2>1 DEF Disk
<1>4. CASE writing.id # i
  <2>1. file'[i] = content[tab[t]]
    BY <1>1 DEF CloseTab, Types
  <2> QED
    BY <1>1, <1>2, <1>4, <2>1 DEF Disk
<1> QED
  BY <1>3, <1>4

LEMMA OnDiskStep ==
    ASSUME Types, Types', MadeSoFar, RequestMeaning, RunsInTabs, [Next]_vars,
           NEW i \in Ids, CarriedOn(i), i \notin removed'
    PROVE  OnDisk(i)'
<1> SUFFICES ASSUME ~Busy(i)', ~Queued(i)', NEW x \in Kept(i)'
             PROVE  x \in Disk(i)'
  BY DEF OnDisk, Disk
<1>1. x \in Kept(i)
  <2>1. ASSUME NEW t \in Tabs, Open(t), idOf[tab[t]] = i, tab'[t] # None, runner'[t] # None, tab' = tab, idOf' = idOf
        PROVE  FALSE
    BY <2>1 DEF Busy, Open
  <2> QED
    BY <2>1, KeptStep
<1>2. CASE \E t \in Tabs : CloseTab(t) /\ idOf[tab[t]] = i
  BY <1>2, ClosedOnDisk DEF CarriedOn
<1>3. CASE Queued(i)
  <2>1. Serialise
    BY <1>3, SaveStays
  <2>2. PICK j \in DOMAIN jobs : IsSaveOf(jobs[j], i) /\ writing'.id = i /\ writing'.turns = content[jobs[j].chat]
    BY <1>3, <2>1, SaveTaken
  <2> QED
    BY <1>1, <2>2 DEF CarriedOn, InJobs, Disk
<1>4. CASE Busy(i) /\ \A t \in Tabs : ~(CloseTab(t) /\ idOf[tab[t]] = i)
  <2>1. PICK t \in Tabs : Open(t) /\ idOf[tab[t]] = i /\ runner[t] # None
    BY <1>4 DEF Busy
  <2>2. tab'[t] # tab[t] \/ runner'[t] = None
    <3>1. idOf'[tab[t]] = i
      BY <2>1, OpenIdsMade, IdsStep
    <3> QED
      BY <2>1, <3>1 DEF Busy, Open
  <2>3. content[tab[t]] = {}
    <3> SUFFICES ASSUME content[tab[t]] # {} PROVE FALSE
      OBVIOUS
    <3>1. PICK S : SavesFollow(S) /\ tab[t] \in S
      BY <1>4, <2>1, <2>2, BusyStep
    <3> QED
      BY <2>1, <3>1, SavesQueue
  <2> QED
    BY <1>1, <2>1, <2>3 DEF CarriedOn, InTab
<1>5. CASE ~Queued(i) /\ ~Busy(i) /\ \A t \in Tabs : ~(CloseTab(t) /\ idOf[tab[t]] = i)
  BY <1>1, <1>5, DiskStep DEF CarriedOn, OnDisk, Disk
<1> QED
  BY <1>2, <1>3, <1>4, <1>5

-----------------------------------------------------------------------------
(* The invariant, and the property of the history *)

LEMMA InitInv == Init => IInv
<1> SUFFICES ASSUME Init PROVE IInv
  OBVIOUS
<1>1. Placed
  BY InitPlaced
<1>2. RunsInTabs
  BY DEF Init, RunsInTabs, IsLive
<1>3. Carried
  <2> SUFFICES ASSUME NEW i \in Ids PROVE CarriedOn(i)
    BY DEF Carried
  <2>1. ~Queued(i) /\ Kept(i) = file[i] /\ request.op # "loaded"
    BY DEF Init, Queued, Kept, Nothing
  <2>2. \A t \in Tabs : Open(t) /\ idOf[tab[t]] = i => i = 1
    BY ChatAssumption DEF Init, Open, None, Chats
  <2>3. i = 1 => file[i] = {}
    BY DEF Init, Saved
  <2>4. writing.id # i
    BY <1>1, Numbers DEF Placed, Init, NoWrite
  <2> QED
    BY <2>1, <2>2, <2>3, <2>4 DEF CarriedOn, InTab, InRequest, InJobs, OnDisk, Queued
<1> QED
  BY <1>1, <1>2, <1>3 DEF IInv

THEOREM Invariance == Spec => []IInv
<1>1. ASSUME IInv, [Next]_vars
      PROVE  IInv'
  <2>1. Placed'
    BY <1>1, PlacedStep DEF IInv
  <2>2. RunsInTabs'
    BY <1>1, RunsInTabsStep DEF IInv
  <2>3. Carried'
    <3> SUFFICES ASSUME NEW i \in Ids, i \notin removed', i \notin reread' PROVE CarriedOn(i)'
      BY DEF Carried
    <3>1. CarriedOn(i)
      BY <1>1, AdriftGrows DEF IInv, Placed, Carried
    <3>2. InTab(i)' /\ InRequest(i)' /\ InJobs(i)' /\ OnDisk(i)'
      BY <1>1, <2>1, <3>1, InTabStep, InRequestStep, InJobsStep, OnDiskStep DEF IInv, Placed
    <3> QED
      BY <3>2 DEF CarriedOn
  <2> QED
    BY <2>1, <2>2, <2>3 DEF IInv
<1> QED
  BY InitInv, <1>1, PTL DEF Spec

\* Once the saves of a chat are through and its runs are finished, its file holds
\* every turn that ended in it and that the code does not let go of: whatever
\* autosaves, closed tabs, cleared chats, database changes and loads there were.
THEOREM HistoryKeepsChats == Spec => []ChatsAreKept
<1>1. ASSUME IInv
      PROVE  ChatsAreKept
  <2> SUFFICES ASSUME NEW i \in Ids \ (removed \cup reread), ~SavesOf(i),
                      \A t \in Tabs : Open(t) /\ idOf[tab[t]] = i => runner[t] = None
               PROVE  owed[i] \ adrift \subseteq file[i]
    BY DEF ChatsAreKept
  <2>1. ~Busy(i) /\ ~Queued(i) /\ writing.id # i
    BY DEF SavesOf, Busy, Queued, IsSaveOf
  <2> QED
    BY <1>1, <2>1 DEF IInv, Carried, CarriedOn, OnDisk, Kept
<1> QED
  BY <1>1, Invariance, PTL
=============================================================================
