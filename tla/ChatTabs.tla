------------------------------ MODULE ChatTabs ------------------------------
(***************************************************************************)
(* The chats of the panel: the tabs, runs and follow-up queues of          *)
(* SessionControllerBase (ui/session_controller_base.py), the handlers of  *)
(* PanelCore that drive them (ui/panel_core.py), and the history on disk   *)
(* with its one-worker save executor (state/history.py).                   *)
(*                                                                         *)
(* A chat object is a SessionState; a chat loaded from the history is a    *)
(* new object with the id of the saved one.  The content of a chat is the  *)
(* set of messages whose turn it holds.  A run is named by the message it  *)
(* was started with.  The handlers of the main thread are atomic; any open *)
(* tab may be the active one when one of them runs.  The thread of a run   *)
(* enters run() before the next handler: RunConsumer is about polls that   *)
(* overtake it.  checkpoint_auto_save is on and the disk does not fail.    *)
(***************************************************************************)
EXTENDS Integers, SequencesExt

CONSTANTS MaxTabs,   \* bound: tabs opened in one session of the program
          MaxChats,  \* bound: chat objects
          MaxMsgs,   \* bound: messages the user submits
          MaxErrors, \* bound: runs that cannot be started
          Cap        \* _max_concurrent_agents

ASSUME ChatAssumption ==
    /\ {MaxTabs, MaxChats, Cap} \subseteq Nat \ {0}
    /\ MaxMsgs \in Nat /\ MaxErrors \in Nat

Tabs == 1..MaxTabs
Chats == 1..MaxChats
Msgs == 1..MaxMsgs
Saved == 0                     \* the id, and the turn, of a chat of an earlier session
Ids == 0..MaxChats
Turns == 0..MaxMsgs
None == -1                     \* no chat, no run, no file

VARIABLES
    tab,      \* _sessions: the chat of each tab, None if it is not open
    opened,   \* how many tabs were opened: ids are not used again
    made,     \* how many chat objects were made
    idOf,     \* session.id of each chat object
    content,  \* the turns each chat object holds
    runner,   \* _runners: the run each tab polls
    agent,    \* the thread of each run
    chat,     \* the chat object each live run works on
    missed,   \* tabs whose run is over and that the stopped poll timer will not visit
    pending,  \* _pending_messages of each tab
    typed,    \* how many messages were submitted
    errors,   \* how many runs could not be started
    jobs,     \* the queue of the save executor
    writing,  \* what the save executor serialised and has not yet replaced
    file,     \* the history: the turns in the file of each id
    request,  \* the history request in flight
    switched, \* the user has opened another database
    removed,  \* ids whose deletion was carried out
    owed,     \* the turns that ended in the chat of each id
    adrift,   \* turns the code lets go of: see ChatsAreKept
    reread,   \* ids that were loaded while a save of them was queued
    excused   \* messages that were withdrawn, refused a slot, could not be started,
              \* or were queued behind such a one

vars == <<tab, opened, made, idOf, content, runner, agent, chat, missed, pending, typed, errors,
          jobs, writing, file, request, switched, removed, owed, adrift, reread, excused>>

tabs == <<tab, opened, made, idOf>>
runs == <<runner, agent, chat, missed>>
queues == <<pending, typed, errors, excused>>
saver == <<jobs, writing>>
history == <<file, request, removed>>
ledger == <<owed, adrift, reread>>

NoWrite == [id |-> None, turns |-> {}]
Nothing == [op |-> "none", id |-> None, turns |-> {}]
Jobs == [op : {"save"}, chat : Chats] \cup [op : {"delete"}, id : Ids]

Open(t) == tab[t] # None
IsLive(m) == agent[m] \in {"begun", "asked"}
Running(t) == runner[t] # None /\ IsLive(runner[t])
HasFreeSlot == Cardinality({t \in Tabs : Running(t)}) < Cap
OpenIds == {idOf[tab[t]] : t \in {t \in Tabs : Open(t)}}

Types ==
    /\ tab \in [Tabs -> Chats \cup {None}] /\ opened \in Tabs
    /\ made \in Chats /\ idOf \in [Chats -> Ids]
    /\ content \in [Chats -> SUBSET Turns]
    /\ runner \in [Tabs -> Msgs \cup {None}]
    /\ agent \in [Msgs -> {"none", "begun", "asked", "over"}]
    /\ chat \in [Msgs -> Chats \cup {None}] /\ missed \subseteq Tabs
    /\ pending \in [Tabs -> Seq(Msgs)] /\ typed \in 0..MaxMsgs /\ errors \in 0..MaxErrors
    /\ jobs \in Seq(Jobs)
    /\ writing \in [id : Ids \cup {None}, turns : SUBSET Turns]
    /\ file \in [Ids -> SUBSET Turns]
    /\ request \in [op : {"none", "load", "loaded", "delete", "queued"}, id : Ids \cup {None}, turns : SUBSET Turns]
    /\ switched \in BOOLEAN /\ removed \subseteq Ids
    /\ owed \in [Ids -> SUBSET Turns] /\ adrift \subseteq Turns /\ reread \subseteq Ids /\ excused \subseteq Msgs

OpenOnce == \A t, u \in Tabs : t # u /\ Open(t) /\ Open(u) => idOf[tab[t]] # idOf[tab[u]]

WaitsOnce ==
    \A t \in Tabs : \A m \in ToSet(pending[t]) :
        agent[m] = "none" /\ \A u \in Tabs \ {t} : m \notin ToSet(pending[u])

\* A chat is open in one tab, and a message waits in one place.
TypeOK == Types /\ OpenOnce /\ WaitsOnce

Init ==
    /\ tab = [t \in Tabs |-> IF t = 1 THEN 1 ELSE None] /\ opened = 1
    /\ made = 1 /\ idOf = [c \in Chats |-> c]
    /\ content = [c \in Chats |-> {}]
    /\ runner = [t \in Tabs |-> None]
    /\ agent = [m \in Msgs |-> "none"] /\ chat = [m \in Msgs |-> None]
    /\ missed = {}
    /\ pending = [t \in Tabs |-> <<>>] /\ typed = 0 /\ errors = 0
    /\ jobs = <<>> /\ writing = NoWrite
    /\ file = [i \in Ids |-> IF i = Saved THEN {Saved} ELSE {}]
    /\ request = Nothing /\ switched = FALSE /\ removed = {}
    /\ owed = file /\ adrift = {} /\ reread = {} /\ excused = {}

-----------------------------------------------------------------------------
(* Saving: save_session(), save_session_async() and the executor *)

SaveJob(c) == [op |-> "save", chat |-> c]

\* A chat without messages is not saved.
SaveJobs(c) == IF content[c] = {} THEN <<>> ELSE <<SaveJob(c)>>

\* save_session() of the executor serialises the chat as it is now, ...
Serialise ==
    /\ writing = NoWrite /\ jobs # <<>> /\ Head(jobs).op = "save"
    /\ LET c == Head(jobs).chat IN writing' = [id |-> idOf[c], turns |-> content[c]]
    /\ jobs' = Tail(jobs)
    /\ UNCHANGED <<tabs, content, runs, queues, history, switched, ledger>>

\* ... and replaces the file with what it serialised.
ReplaceFile ==
    /\ writing # NoWrite
    /\ file' = [file EXCEPT ![writing.id] = writing.turns]
    /\ writing' = NoWrite
    /\ UNCHANGED <<tabs, content, runs, queues, jobs, request, removed, switched, ledger>>

\* _delete_session_ordered(), behind every save queued before it.
Delete ==
    /\ writing = NoWrite /\ jobs # <<>> /\ Head(jobs).op = "delete"
    /\ LET i == Head(jobs).id IN
        /\ file' = [file EXCEPT ![i] = {}]
        /\ removed' = removed \cup {i}
        /\ request' = IF request.op = "queued" THEN Nothing ELSE request
    /\ jobs' = Tail(jobs)
    /\ UNCHANGED <<tabs, content, runs, queues, writing, switched, ledger>>

-----------------------------------------------------------------------------
(* Runs *)

\* The turns of a chat that nobody keeps once its tab lets go of it: those of a
\* run that is still at work.
LetGo(cs) == {m \in Msgs : IsLive(m) /\ chat[m] \in cs}

\* The loop appends the user's message.
Ask(m) ==
    /\ agent[m] = "begun"
    /\ agent' = [agent EXCEPT ![m] = "asked"]
    /\ content' = [content EXCEPT ![chat[m]] = @ \cup {m}]
    /\ UNCHANGED <<tabs, runner, chat, missed, queues, saver, history, switched, ledger>>

\* The run ends: answered, failed or cancelled.
End(m) ==
    /\ IsLive(m)
    /\ agent' = [agent EXCEPT ![m] = "over"]
    /\ owed' = IF agent[m] = "asked" THEN [owed EXCEPT ![idOf[chat[m]]] = @ \cup {m}] ELSE owed
    /\ chat' = [chat EXCEPT ![m] = None]
    /\ UNCHANGED <<tabs, content, runner, missed, queues, saver, history, switched, adrift, reread>>

\* start_agent(): the runner of the tab is replaced, whatever it was; then the
\* poll timer is started, and visits every tab again.
StartAgent(t, m) ==
    /\ runner' = [runner EXCEPT ![t] = m]
    /\ agent' = [agent EXCEPT ![m] = "begun"]
    /\ chat' = [chat EXCEPT ![m] = tab[t]]
    /\ missed' = {}

\* _start_agent_for_tab() of a message, given what is queued for the tab, the
\* runner it has and the tabs the timer misses: the message is started; or no slot
\* is free and it goes to the end of the queue; or the provider fails.
StartForTab(t, m, queue, current, unseen) ==
    \/ /\ HasFreeSlot
       /\ StartAgent(t, m)
       /\ pending' = [pending EXCEPT ![t] = queue]
       /\ UNCHANGED <<errors, excused>>
    \/ /\ ~HasFreeSlot
       /\ pending' = [pending EXCEPT ![t] = Append(queue, m)]
       /\ excused' = excused \cup ToSet(queue) \cup {m}
       /\ runner' = [runner EXCEPT ![t] = current] /\ missed' = unseen
       /\ UNCHANGED <<agent, chat, errors>>
    \/ /\ HasFreeSlot /\ errors < MaxErrors
       /\ errors' = errors + 1
       /\ pending' = [pending EXCEPT ![t] = queue]
       /\ excused' = excused \cup ToSet(queue) \cup {m}
       /\ runner' = [runner EXCEPT ![t] = current] /\ missed' = unseen
       /\ UNCHANGED <<agent, chat>>

\* _on_submit(): queue for a tab whose agent runs, start otherwise.
Submit(t) ==
    /\ Open(t) /\ typed < MaxMsgs
    /\ typed' = typed + 1
    /\ IF Running(t)
       THEN /\ pending' = [pending EXCEPT ![t] = Append(@, typed')]
            /\ UNCHANGED <<runs, errors, excused>>
       ELSE StartForTab(t, typed', pending[t], runner[t], missed)
    /\ UNCHANGED <<tabs, content, saver, history, switched, ledger>>

\* Mutant: the chat is saved once its tab has nothing more to do.
SavedAtLast(t) == IF pending[t] = <<>> THEN SaveJobs(tab[t]) ELSE <<>>

\* The autosave of a finished run.
SavedAtEnd(t) == SaveJobs(tab[t])

\* Mutant: the follow-up is looked at and left in the queue.
FollowUpPeeked(t, unseen) == StartForTab(t, Head(pending[t]), pending[t], None, unseen)

\* Mutant: the controller pops the follow-up and the panel does not start it.
FollowUpPopped(t, unseen) ==
    /\ runner' = [runner EXCEPT ![t] = None] /\ missed' = unseen
    /\ pending' = [pending EXCEPT ![t] = Tail(@)]
    /\ UNCHANGED <<agent, chat, errors, excused>>

\* on_agent_finished() pops the next message, _on_agent_finished() starts it.
FollowUp(t, unseen) == StartForTab(t, Head(pending[t]), Tail(pending[t]), None, unseen)

\* _on_agent_finished() stops the poll timer unless a run is live.  A run that is
\* over by then is missed if this pass of _poll_events() came to its tab too early
\* or met thirty events there.
Overlooked(t) ==
    IF \E u \in Tabs : Running(u) THEN {{}} ELSE SUBSET {u \in Tabs \ {t} : runner[u] # None}

\* _poll_events() finds that the run of a tab is over: _on_agent_finished().
Finish(t) ==
    /\ runner[t] # None /\ ~IsLive(runner[t]) /\ t \notin missed
    /\ jobs' = IF Open(t) THEN jobs \o SavedAtEnd(t) ELSE jobs
    /\ \E us \in Overlooked(t) :
         IF Open(t) /\ pending[t] # <<>> THEN FollowUp(t, missed \cup us)
         ELSE /\ runner' = [runner EXCEPT ![t] = None] /\ missed' = missed \cup us
              /\ pending' = [pending EXCEPT ![t] = IF @ = <<>> THEN @ ELSE Tail(@)]
              /\ UNCHANGED <<agent, chat, errors, excused>>
    /\ UNCHANGED <<tabs, content, typed, writing, history, switched, ledger>>

\* cancel() of a tab.
Withdraw(t) ==
    /\ pending' = [pending EXCEPT ![t] = <<>>]
    /\ excused' = excused \cup ToSet(pending[t])

\* _on_cancel(): the queue of the tab goes, its run ends some time later.
Cancel(t) ==
    /\ Open(t) /\ pending[t] # <<>>
    /\ Withdraw(t)
    /\ UNCHANGED <<tabs, content, runs, typed, errors, saver, history, switched, ledger>>

-----------------------------------------------------------------------------
(* Tabs *)

\* A chat object for a tab: a new one, or one that was loaded.
Make(i, turns) ==
    /\ made < MaxChats /\ made' = made + 1
    /\ idOf' = [idOf EXCEPT ![made'] = i]
    /\ content' = [content EXCEPT ![made'] = turns]

NewId == made + 1

NewTab ==
    /\ opened < MaxTabs /\ opened' = opened + 1
    /\ Make(NewId, {})
    /\ tab' = [tab EXCEPT ![opened'] = made']
    /\ UNCHANGED <<runs, queues, saver, history, switched, ledger>>

\* close_tab(): the chat is saved at once, past the save executor.  What that had
\* serialised of the same chat it will still write.
CloseTab(t) ==
    LET c == tab[t]  i == idOf[c]
    IN  /\ Open(t) /\ \E u \in Tabs \ {t} : Open(u)
        /\ tab' = [tab EXCEPT ![t] = None]
        /\ Withdraw(t)
        /\ runner' = [runner EXCEPT ![t] = None] /\ missed' = missed \ {t}
        /\ file' = IF content[c] = {} THEN file ELSE [file EXCEPT ![i] = content[c]]
        /\ adrift' = adrift \cup LetGo({c})
                     \cup (IF writing.id = i THEN content[c] \ writing.turns ELSE {})
        /\ UNCHANGED <<opened, made, idOf, content, agent, chat, typed, errors,
                       saver, request, removed, switched, owed, reread>>

\* new_chat(): the tab gets a fresh chat, the old one is saved behind the others.
NewChat(t) ==
    /\ Open(t) /\ content[tab[t]] # {}
    /\ Withdraw(t)
    /\ jobs' = jobs \o SaveJobs(tab[t])
    /\ Make(NewId, {})
    /\ tab' = [tab EXCEPT ![t] = made']
    /\ adrift' = adrift \cup LetGo({tab[t]})
    /\ UNCHANGED <<opened, runs, typed, errors, writing, history, switched, owed, reread>>

\* Tabs in the order in which they were opened.
InTabOrder(S) == {ts \in [1..Cardinality(S) -> S] :
                   ToSet(ts) = S /\ \A k, n \in DOMAIN ts : k < n => ts[k] < ts[n]}

\* on_database_changed(): one tab, the active one, is cancelled; every chat is
\* saved and let go of; the runners and the queues of the other tabs stay.
ChangeDatabase(active) ==
    LET open == {t \in Tabs : Open(t)}
    IN  /\ ~switched /\ switched' = TRUE
        /\ Open(active)
        /\ Withdraw(active)
        /\ \E ts \in InTabOrder({t \in open : content[tab[t]] # {}}) :
              jobs' = jobs \o [k \in DOMAIN ts |-> SaveJob(tab[ts[k]])]
        /\ opened < MaxTabs /\ opened' = opened + 1
        /\ Make(NewId, {})
        /\ tab' = [t \in Tabs |-> IF t = opened' THEN made' ELSE None]
        /\ request' = Nothing
        /\ adrift' = adrift \cup LetGo({tab[t] : t \in open})
        /\ UNCHANGED <<runs, typed, errors, writing, file, removed, owed, reread>>

-----------------------------------------------------------------------------
(* The history panel: one request at a time *)

desk == <<tabs, content, runs, queues, switched>>

\* A row stands for a file of this database that is in no tab.
Row(i) == request = Nothing /\ ~switched /\ file[i] # {} /\ i \notin OpenIds

OpenRow(i) ==
    /\ Row(i)
    /\ request' = [op |-> "load", id |-> i, turns |-> {}]
    /\ UNCHANGED <<desk, saver, file, removed, ledger>>

SavesOf(i) == writing.id = i \/ \E j \in DOMAIN jobs : jobs[j].op = "save" /\ idOf[jobs[j].chat] = i

\* _history_load_worker(): the file is read now, whatever saves of it are queued.
Load ==
    /\ request.op = "load"
    /\ request' = [request EXCEPT !.op = "loaded", !.turns = file[request.id]]
    /\ reread' = IF SavesOf(request.id) THEN reread \cup {request.id} ELSE reread
    /\ UNCHANGED <<desk, saver, file, removed, owed, adrift>>

\* attach_history_session(): into the active tab if its chat is empty, else into
\* a tab of its own.
Attach(active) ==
    /\ request.op = "loaded" /\ Open(active)
    /\ LET t == IF content[tab[active]] = {} THEN active ELSE opened + 1
       IN  /\ t \in Tabs
           /\ Make(request.id, request.turns)
           /\ tab' = [tab EXCEPT ![t] = made']
           /\ opened' = IF t > opened THEN t ELSE opened
           /\ adrift' = adrift \cup (IF t = active THEN LetGo({tab[t]}) ELSE {})
    /\ request' = Nothing
    /\ UNCHANGED <<runs, queues, saver, file, removed, switched, owed, reread>>

\* Mutant: the row's delete button does not look for an open tab.
DeletableAnyway(i) == request = Nothing /\ ~switched /\ file[i] # {}

\* _on_history_delete_requested(): an open chat is refused.
Deletable(i) == Row(i)

DeleteRow(i) ==
    /\ Deletable(i)
    /\ request' = [op |-> "delete", id |-> i, turns |-> {}]
    /\ UNCHANGED <<desk, saver, file, removed, ledger>>

\* delete_history_session(): the scope is still this database's, or the request
\* is gone by now.
QueueDelete ==
    /\ request.op = "delete"
    /\ jobs' = Append(jobs, [op |-> "delete", id |-> request.id])
    /\ request' = [request EXCEPT !.op = "queued"]
    /\ UNCHANGED <<desk, writing, file, removed, ledger>>

-----------------------------------------------------------------------------
Next ==
    \/ Serialise \/ ReplaceFile \/ Delete
    \/ \E m \in Msgs : Ask(m) \/ End(m)
    \/ \E t \in Tabs :
        \/ Submit(t) \/ Finish(t) \/ Cancel(t)
        \/ CloseTab(t) \/ NewChat(t) \/ ChangeDatabase(t) \/ Attach(t)
    \/ NewTab
    \/ \E i \in Ids : OpenRow(i) \/ DeleteRow(i)
    \/ Load \/ QueueDelete

Spec == Init /\ [][Next]_vars

-----------------------------------------------------------------------------
(* Properties *)

\* A chat the user deleted has no file, is in no tab and is not about to be
\* written again, whatever autosaves, loads and deletions were in flight.
DeletedStaysDeleted ==
    \A i \in removed : file[i] = {} /\ i \notin OpenIds /\ writing.id # i

\* Once the saves of a chat are through and no run of its tab is to be finished
\* (one that the stopped timer misses is still to be), its file holds every turn
\* that ended in it.  The code lets go of the turns of a
\* run that is at work when its tab is closed, cleared or taken over by another
\* chat or database, of those a save of close_tab() holds while an older save of
\* the chat is being written, and of a chat that is loaded again while a save of
\* it is queued.
ChatsAreKept ==
    \A i \in Ids \ (removed \cup reread) :
        ~SavesOf(i) /\ (\A t \in Tabs : Open(t) /\ idOf[tab[t]] = i => runner[t] = None)
            => owed[i] \ adrift \subseteq file[i]

\* A poll timer that runs fires, a pass of it comes to its end, and runs end: they
\* answer, fail or are cancelled.
Fairness == (\A t \in Tabs : WF_vars(Finish(t))) /\ (\A m \in Msgs : WF_vars(End(m)))

\* A follow-up that waits behind a run of its own tab is started, unless the user
\* withdraws it or its tab, or a start of this tab is refused for want of a slot or
\* fails: nothing starts what such a tab has queued before its next run ends.  Nor
\* is it started if the timer is stopped by the end of another tab's run and misses
\* the end of this one: that waits for the user's next message in any tab.
FollowUpsStart ==
    Fairness => \A t \in Tabs, m \in Msgs :
        Open(t) /\ m \in ToSet(pending[t]) ~>
            ~Open(t) \/ agent[m] # "none" \/ m \in excused \/ t \in missed

=============================================================================
