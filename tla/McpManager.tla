----------------------------- MODULE McpManager -----------------------------
(***************************************************************************)
(* The MCP servers of a session: MCPManager of lucnhan/mcp/manager.py, the *)
(* MCPClient it makes for each server and start cycle (mcp/client.py), the *)
(* tools these register (mcp/bridge.py), and the threads of the session    *)
(* controller that call the manager: _initialize_runtime(),                *)
(* _mcp_reload_worker() and shutdown() of session_controller_base.py.      *)
(*                                                                         *)
(* A client is named by its server and the generation of its start cycle.  *)
(* Every start of a server finds the same tools, so that a registration    *)
(* that comes to its end replaces those of the starts before it, and one   *)
(* that does not replaces some of them.  stop() signals the event loop, if *)
(* it exists by then, and waits five seconds at most: it may return before *)
(* the thread is gone.                                                     *)
(***************************************************************************)
EXTENDS Integers, FiniteSets, Functions

CONSTANTS Servers,     \* the servers a configuration may enable
          MaxReloads   \* bound: reloads asked for

ASSUME McpAssumption == Servers # {} /\ MaxReloads \in Nat

Cycles == 1..(MaxReloads + 2)          \* generations that start servers
Clients == Servers \X Cycles
None == 0                              \* no generation

VARIABLES
    configs,     \* the enabled servers
    generation,  \* _generation
    shutDown,    \* _shut_down
    clients,     \* _clients: the generation of the client of each server
    tools,       \* the registry: the generations whose tools of each server are registered
    starter,     \* where _start_one() of each client is
    thread,      \* where the event-loop thread of each client is
    signalled,   \* clients whose shutdown event is set
    init,        \* the thread of _initialize_runtime()
    reload,      \* the worker of the one reload in flight
    exit,        \* shutdown()
    stopping,    \* the clients a reload or shutdown took and has to stop
    reloads,     \* how many reloads were asked for
    replaced,    \* clients that were overwritten in _clients
    late,        \* clients whose stop() came before their event loop
    halfway      \* clients whose registration failed with tools registered

vars == <<configs, generation, shutDown, clients, tools, starter, thread, signalled,
          init, reload, exit, stopping, reloads, replaced, late, halfway>>

TypeOK ==
    /\ configs \subseteq Servers
    /\ generation \in 0..(MaxReloads + 2)
    /\ shutDown \in BOOLEAN
    /\ clients \in [Servers -> Cycles \cup {None}]
    /\ tools \in [Servers -> SUBSET Cycles]
    /\ starter \in [Clients -> {"none", "waiting", "check", "register", "recheck", "fail", "over"}]
    /\ thread \in [Clients -> {"none", "importing", "handshake", "ready", "dead"}]
    /\ signalled \subseteq Clients
    /\ init \in {"load", "look", "start", "over"}
    /\ reload \in {"idle", "take", "stop", "unregister", "load", "look", "start"}
    /\ exit \in {"no", "raise", "take", "stop", "over"}
    /\ stopping \in [{"reload", "exit"} -> SUBSET Clients]
    /\ reloads \in 0..MaxReloads
    /\ replaced \subseteq Clients /\ late \subseteq Clients /\ halfway \subseteq Clients
    \* A start cycle is known to the manager before its threads run.
    /\ \A c \in Clients : starter[c] # "none" => c[2] <= generation

Init ==
    /\ configs = {} /\ generation = 0 /\ shutDown = FALSE
    /\ clients = [s \in Servers |-> None] /\ tools = [s \in Servers |-> {}]
    /\ starter = [c \in Clients |-> "none"] /\ thread = [c \in Clients |-> "none"]
    /\ signalled = {}
    /\ init = "load" /\ reload = "idle" /\ exit = "no"
    /\ stopping = [x \in {"reload", "exit"} |-> {}]
    /\ reloads = 0
    /\ replaced = {} /\ late = {} /\ halfway = {}

manager == <<configs, generation, shutDown>>
callers == <<init, reload, exit, stopping, reloads>>
stops == <<signalled, late>>

\* stop() of a set of clients: only an event loop that exists can be told.
Stop(cs) ==
    /\ signalled' = signalled \cup {c \in cs : thread[c] \in {"handshake", "ready"}}
    /\ late' = late \cup {c \in cs : thread[c] = "importing"}

-----------------------------------------------------------------------------
(* The event-loop thread of a client: _async_main() *)

lost == <<replaced, halfway>>
threadOnly == UNCHANGED <<manager, callers, stops, clients, tools, starter, lost>>

Step(c, from, to) == thread[c] = from /\ thread' = [thread EXCEPT ![c] = to]

ThreadStep(c) ==
    /\ \/ Step(c, "importing", "handshake")
       \/ Step(c, "handshake", "ready") \/ Step(c, "handshake", "dead")
       \/ c \in signalled /\ Step(c, "ready", "dead")
    /\ threadOnly

\* The server ends, or cannot be started at all.
ServerDies(c) ==
    /\ Step(c, "ready", "dead") \/ Step(c, "importing", "dead")
    /\ threadOnly

-----------------------------------------------------------------------------
(* The thread that starts a client: _start_one() *)

At(c, from, to) == starter[c] = from /\ starter' = [starter EXCEPT ![c] = to]
starterOnly == UNCHANGED <<manager, callers, thread>>

Stale(c) == generation # c[2] \/ shutDown

\* client.start() returns, or raises: the handshake failed, or the wait for it
\* ran out while the thread goes on.
Started(c) ==
    /\ \/ thread[c] = "ready" /\ At(c, "waiting", "check")
       \/ At(c, "waiting", "fail")
    /\ starterOnly /\ UNCHANGED <<clients, tools, stops, lost>>

\* Mutant: a client that failed to start is forgotten.
FailedQuietly(c) ==
    /\ At(c, "fail", "over")
    /\ starterOnly /\ UNCHANGED <<clients, tools, stops, lost>>

Failed(c) ==
    /\ At(c, "fail", "over")
    /\ Stop({c})
    /\ starterOnly /\ UNCHANGED <<clients, tools, lost>>

\* A start that was superseded meanwhile stops its client again.
Check(c) ==
    /\ At(c, "check", IF Stale(c) THEN "over" ELSE "register")
    /\ Stop(IF Stale(c) THEN {c} ELSE {})
    /\ starterOnly /\ UNCHANGED <<clients, tools, lost>>

Register(c) ==
    /\ At(c, "register", "recheck")
    /\ tools' = [tools EXCEPT ![c[1]] = {c[2]}]
    /\ starterOnly /\ UNCHANGED <<clients, stops, lost>>

\* One tool is registered after the other, and the schema of any may raise.
\* Those before it stay.
RegisterFails(c) ==
    /\ At(c, "register", "fail")
    /\ \/ UNCHANGED <<tools, halfway>>
       \/ /\ tools' = [tools EXCEPT ![c[1]] = @ \cup {c[2]}]
          /\ halfway' = halfway \cup {c}
    /\ starterOnly /\ UNCHANGED <<clients, stops, replaced>>

\* Mutant: the client is stored on the strength of the first check.
StoreUnchecked(c) ==
    /\ At(c, "recheck", "over")
    /\ clients' = [clients EXCEPT ![c[1]] = c[2]]
    /\ replaced' = IF clients[c[1]] = None THEN replaced ELSE replaced \cup {<<c[1], clients[c[1]]>>}
    /\ Stop({}) /\ UNCHANGED tools
    /\ starterOnly /\ UNCHANGED halfway

\* Mutant: the tools of a superseded start stay registered.
StoreLeavingTools(c) ==
    /\ At(c, "recheck", "over")
    /\ IF Stale(c)
         THEN UNCHANGED <<tools, clients, replaced>> /\ Stop({c})
         ELSE /\ clients' = [clients EXCEPT ![c[1]] = c[2]]
              /\ replaced' = IF clients[c[1]] = None THEN replaced
                             ELSE replaced \cup {<<c[1], clients[c[1]]>>}
              /\ Stop({}) /\ UNCHANGED tools
    /\ starterOnly /\ UNCHANGED halfway

\* Superseded during the registration: whatever is registered under the prefix
\* of the server goes.  Otherwise the client is stored over what was there.
Store(c) ==
    /\ At(c, "recheck", "over")
    /\ IF Stale(c)
         THEN /\ tools' = [tools EXCEPT ![c[1]] = {}]
              /\ Stop({c})
              /\ UNCHANGED <<clients, replaced>>
         ELSE /\ clients' = [clients EXCEPT ![c[1]] = c[2]]
              /\ replaced' = IF clients[c[1]] = None THEN replaced
                             ELSE replaced \cup {<<c[1], clients[c[1]]>>}
              /\ Stop({}) /\ UNCHANGED tools
    /\ starterOnly /\ UNCHANGED halfway

StarterStep(c) ==
    Started(c) \/ Failed(c) \/ Check(c) \/ Register(c) \/ RegisterFails(c) \/ Store(c)

-----------------------------------------------------------------------------
(* The callers of the manager *)

Goto(v, from, to) == v = from /\ v' = to

\* Mutant: the threads run ahead of the generation they start for.
StartUnannounced ==
    /\ LET new == configs \X {generation + 1}
       IN  /\ starter' = [c \in Clients |-> IF c \in new THEN "waiting" ELSE starter[c]]
           /\ thread' = [c \in Clients |-> IF c \in new THEN "importing" ELSE thread[c]]
    /\ UNCHANGED <<generation, configs, shutDown, clients, tools, stops, exit, stopping, reloads,
                   lost>>

\* start_servers(): the new generation is taken under the lock, with the
\* configuration of this moment; then the start threads run.
StartServers ==
    /\ generation' = generation + 1
    /\ LET new == configs \X {generation'}
       IN  /\ starter' = [c \in Clients |-> IF c \in new THEN "waiting" ELSE starter[c]]
           /\ thread' = [c \in Clients |-> IF c \in new THEN "importing" ELSE thread[c]]
    /\ UNCHANGED <<configs, shutDown, clients, tools, stops, exit, stopping, reloads, lost>>

\* The first look of start_servers() at _shut_down is not under the lock.
LookIfShut(v, quit) ==
    /\ Goto(v, "look", IF shutDown THEN quit ELSE "start")
    /\ UNCHANGED <<manager, clients, tools, starter, thread, stops, exit, stopping, reloads, lost>>

\* _initialize_runtime(): it looks at _runtime_shutdown before each part.
InitLoad ==
    /\ \/ exit = "no" /\ Goto(init, "load", "look") /\ configs' = Servers
       \/ exit # "no" /\ Goto(init, "load", "over") /\ UNCHANGED configs
    /\ UNCHANGED <<generation, shutDown, clients, tools, starter, thread, stops, reload, exit,
                   stopping, reloads, lost>>

InitStart ==
    /\ \/ LookIfShut(init, "over")
       \/ Goto(init, "start", "over") /\ StartServers
    /\ UNCHANGED reload

\* reload_mcp(): refused during shutdown and while one is in flight.
AskReload ==
    /\ exit = "no" /\ reloads < MaxReloads
    /\ Goto(reload, "idle", "take")
    /\ reloads' = reloads + 1
    /\ UNCHANGED <<manager, clients, tools, starter, thread, stops, init, exit, stopping, lost>>

\* stop_all(): the clients are taken under the lock and stopped outside.
TakeClients(who) ==
    /\ stopping' = [stopping EXCEPT ![who] = {c \in Clients : clients[c[1]] = c[2]}]
    /\ clients' = [s \in Servers |-> None]

StopClients(who) ==
    /\ Stop(stopping[who])
    /\ stopping' = [stopping EXCEPT ![who] = {}]

ReloadStop ==
    /\ \/ Goto(reload, "take", "stop") /\ TakeClients("reload") /\ UNCHANGED stops
       \/ Goto(reload, "stop", "unregister") /\ StopClients("reload") /\ UNCHANGED clients
    /\ UNCHANGED <<manager, tools, starter, thread, init, exit, reloads, lost>>

ReloadUnregister ==
    /\ Goto(reload, "unregister", "load")
    /\ tools' = [s \in Servers |-> {}]
    /\ UNCHANGED <<manager, clients, starter, thread, stops, init, exit, stopping, reloads, lost>>

\* The configuration file says what it says by now.
ReloadLoad ==
    /\ Goto(reload, "load", "look")
    /\ configs' \in SUBSET Servers
    /\ UNCHANGED <<generation, shutDown, clients, tools, starter, thread, stops, init, exit,
                   stopping, reloads, lost>>

ReloadStart ==
    /\ \/ LookIfShut(reload, "idle")
       \/ Goto(reload, "start", "idle") /\ StartServers
    /\ UNCHANGED init

Reload == ReloadStop \/ ReloadUnregister \/ ReloadLoad \/ ReloadStart

AskExit ==
    /\ Goto(exit, "no", "raise")
    /\ UNCHANGED <<manager, clients, tools, starter, thread, stops, init, reload, stopping, reloads,
                   lost>>

RaiseFlag ==
    /\ Goto(exit, "raise", "take")
    /\ shutDown' = TRUE /\ generation' = generation + 1
    /\ UNCHANGED <<configs, clients, tools, starter, thread, stops, init, reload, stopping, reloads,
                   lost>>

ExitStop ==
    /\ \/ Goto(exit, "take", "stop") /\ TakeClients("exit") /\ UNCHANGED stops
       \/ Goto(exit, "stop", "over") /\ StopClients("exit") /\ UNCHANGED clients
    /\ UNCHANGED <<manager, tools, starter, thread, init, reload, reloads, lost>>

Exit == RaiseFlag \/ ExitStop

Quiet ==
    /\ init = "over" /\ reload = "idle"
    /\ \A c \in Clients : starter[c] \in {"none", "over"}

Done == Quiet /\ exit = "over" /\ UNCHANGED vars

Next ==
    \/ \E c \in Clients : ThreadStep(c) \/ ServerDies(c) \/ StarterStep(c)
    \/ InitLoad \/ InitStart \/ AskReload \/ Reload \/ AskExit \/ Exit
    \/ Done

Spec == Init /\ [][Next]_vars

\* Threads are scheduled; a handshake ends with an answer or its timeout.
Fairness ==
    /\ \A c \in Clients : WF_vars(ThreadStep(c)) /\ WF_vars(StarterStep(c))
    /\ WF_vars(InitLoad \/ InitStart) /\ WF_vars(Reload) /\ WF_vars(Exit)

-----------------------------------------------------------------------------
(* Properties *)

Alive(c) == thread[c] \notin {"none", "dead"}

\* After shutdown() has taken the clients no start in flight adds another.
ShutdownIsFinal == exit \in {"stop", "over"} => \A s \in Servers : clients[s] = None

\* When no start, reload or shutdown is under way, the model is not offered a
\* tool whose client was stopped or superseded, but for those of a client whose
\* own registration failed half-way: it is stopped and its tools stay.
ToolsServed ==
    Quiet /\ exit = "no" =>
        \A s \in Servers : \A g \in tools[s] : g = clients[s] \/ <<s, g>> \in halfway

\* Every server process of the session ends with it.  Two kinds are not told:
\* a client stored over by a newer start that slipped between reload()'s
\* stop_all() and its new generation, and one given up before its event loop
\* existed.
ShutdownStopsServers ==
    Fairness => (exit = "over" ~> \A c \in Clients \ (replaced \cup late) : ~Alive(c))
=============================================================================
