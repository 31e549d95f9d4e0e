--------------------------- MODULE McpManagerProofs ---------------------------
(***************************************************************************)
(* Proofs about McpManager, for every set of servers and any number of     *)
(* reloads.                                                                *)
(***************************************************************************)
EXTENDS McpManager, TLAPS

One(b) == IF b THEN 1 ELSE 0

\* Every start cycle that is still to come, and the shutdown, will take a
\* generation: together they never exceed what was asked for.
Counting ==
    generation + One(init # "over") + One(reload # "idle") + One(exit \in {"no", "raise"})
        <= reloads + 2

\* The flag is what the thread of shutdown() has set.
FlagMeaning == shutDown <=> exit \in {"take", "stop", "over"}

\* Only the last step of a start stores its client.
StoredIsOver == \A s \in Servers, g \in Cycles : clients[s] = g => starter[<<s, g>>] = "over"

\* Tools that were not stored with their client are being rechecked, or swept by
\* a reload, or were left by a registration that failed.
ToolsAccounted ==
    exit \notin {"stop", "over"} =>
        \A s \in Servers : \A g \in tools[s] :
            \/ g = clients[s] \/ <<s, g>> \in halfway
            \/ starter[<<s, g>>] = "recheck"
            \/ reload \in {"stop", "unregister"}

\* A start that is still to look again is no newer than the client whose tools
\* took the place of its own.
RecheckedIsOlder ==
    \A s \in Servers : \A h \in Cycles :
        starter[<<s, h>>] = "recheck" /\ clients[s] \in tools[s]
            => h <= clients[s]

IInv ==
    /\ TypeOK /\ Counting /\ FlagMeaning /\ StoredIsOver
    /\ ShutdownIsFinal /\ ToolsAccounted /\ RecheckedIsOlder

-----------------------------------------------------------------------------

LEMMA InitIInv == Init => IInv
<1> SUFFICES ASSUME Init PROVE IInv
  OBVIOUS
<1> USE McpAssumption DEF Init, None
<1>1. TypeOK
  <2>1. shutDown \in BOOLEAN /\ configs \subseteq Servers /\ signalled \subseteq Clients
        /\ replaced \subseteq Clients /\ late \subseteq Clients /\ halfway \subseteq Clients
        /\ init \in {"load", "look", "start", "over"}
        /\ reload \in {"idle", "take", "stop", "unregister", "load", "look", "start"}
        /\ exit \in {"no", "raise", "take", "stop", "over"}
    OBVIOUS
  <2>2. generation \in 0..(MaxReloads + 2) /\ reloads \in 0..MaxReloads
    OBVIOUS
  <2>3. clients \in [Servers -> Cycles \cup {None}] /\ tools \in [Servers -> SUBSET Cycles]
    OBVIOUS
  <2>4. starter \in [Clients -> {"none", "waiting", "check", "register", "recheck", "fail", "over"}]
        /\ thread \in [Clients -> {"none", "importing", "handshake", "ready", "dead"}]
        /\ stopping \in [{"reload", "exit"} -> SUBSET Clients]
        /\ \A c \in Clients : starter[c] # "none" => c[2] <= generation
    OBVIOUS
  <2> QED BY <2>1, <2>2, <2>3, <2>4 DEF TypeOK
<1>2. Counting
  BY DEF Counting, One
<1>3. FlagMeaning /\ StoredIsOver /\ ShutdownIsFinal /\ ToolsAccounted /\ RecheckedIsOlder
  BY DEF FlagMeaning, StoredIsOver, ShutdownIsFinal, ToolsAccounted, RecheckedIsOlder, Clients, Cycles
<1> QED BY <1>1, <1>2, <1>3 DEF IInv

\* The event-loop threads of the clients touch nothing but their own state.
LEMMA ThreadSteps ==
    ASSUME IInv, NEW c \in Clients, ThreadStep(c) \/ ServerDies(c)
    PROVE  IInv'
<1>1. TypeOK'
  <2>1. \E to \in {"handshake", "ready", "dead"} : thread' = [thread EXCEPT ![c] = to]
    BY DEF ThreadStep, ServerDies, Step
  <2>2. UNCHANGED <<configs, generation, shutDown, clients, tools, starter, signalled, late, init,
                    reload, exit, stopping, reloads, replaced, halfway>>
    BY DEF ThreadStep, ServerDies, threadOnly, lost, manager, callers, stops
  <2> QED BY <2>1, <2>2 DEF IInv, TypeOK
<1>2. Counting' /\ FlagMeaning' /\ ShutdownIsFinal'
  BY DEF IInv, Counting, One, FlagMeaning, ShutdownIsFinal,
         ThreadStep, ServerDies, threadOnly, lost, manager, callers
<1>3. StoredIsOver' /\ ToolsAccounted' /\ RecheckedIsOlder'
  BY DEF IInv, StoredIsOver, ToolsAccounted, RecheckedIsOlder, ThreadStep, ServerDies, threadOnly, lost,
         manager, callers
<1> QED BY <1>1, <1>2, <1>3 DEF IInv

LEMMA ClientIsPair ==
    ASSUME NEW c \in Clients
    PROVE  c[1] \in Servers /\ c[2] \in Cycles /\ c[2] \in Nat /\ c[2] # None /\ c = <<c[1], c[2]>>
BY McpAssumption DEF Clients, Cycles, None

\* What a start thread does before and instead of registering.
LEMMA EarlyStarterSteps ==
    ASSUME IInv, NEW c \in Clients, Started(c) \/ Failed(c) \/ Check(c)
    PROVE  IInv'
<1> USE DEF starterOnly, manager, callers, stops, lost
<1>1. /\ UNCHANGED <<configs, generation, shutDown, clients, tools, thread, init, reload, exit,
                     stopping, reloads, replaced, halfway>>
      /\ \E to \in {"check", "register", "fail", "over"} : starter' = [starter EXCEPT ![c] = to]
      /\ starter[c] \in {"waiting", "fail", "check"}
      /\ signalled' \subseteq Clients /\ late' \subseteq Clients
  BY DEF Started, Failed, Check, At, Stop, IInv, TypeOK
<1>2. TypeOK'
  BY <1>1 DEF IInv, TypeOK
<1>3. Counting' /\ FlagMeaning' /\ ShutdownIsFinal'
  BY <1>1 DEF IInv, Counting, One, FlagMeaning, ShutdownIsFinal
<1>4. \A s \in Servers, h \in Cycles :
        /\ starter'[<<s, h>>] = "recheck" <=> starter[<<s, h>>] = "recheck"
        /\ starter[<<s, h>>] = "over" => starter'[<<s, h>>] = "over"
  BY <1>1 DEF IInv, TypeOK, Clients
<1>5. StoredIsOver' /\ ToolsAccounted' /\ RecheckedIsOlder'
  BY <1>1, <1>4 DEF IInv, StoredIsOver, ToolsAccounted, RecheckedIsOlder
<1> QED BY <1>2, <1>3, <1>5 DEF IInv

LEMMA RegisterStep ==
    ASSUME IInv, NEW c \in Clients, Register(c)
    PROVE  IInv'
<1> USE DEF starterOnly, manager, callers, stops, lost
<1>1. /\ UNCHANGED <<configs, generation, shutDown, clients, thread, signalled, late, init, reload, exit,
                     stopping, reloads, replaced, halfway>>
      /\ starter' = [starter EXCEPT ![c] = "recheck"] /\ starter[c] = "register"
      /\ tools' = [tools EXCEPT ![c[1]] = {c[2]}]
  BY DEF Register, At
<1>2. TypeOK'
  BY <1>1, ClientIsPair DEF IInv, TypeOK
<1>3. Counting' /\ FlagMeaning' /\ ShutdownIsFinal'
  BY <1>1 DEF IInv, Counting, One, FlagMeaning, ShutdownIsFinal
<1>4. starter'[<<c[1], c[2]>>] = "recheck" /\ tools'[c[1]] = {c[2]}
  BY <1>1, ClientIsPair DEF IInv, TypeOK
<1>5. \A s \in Servers, h \in Cycles : <<s, h>> # c => starter'[<<s, h>>] = starter[<<s, h>>]
  BY <1>1 DEF IInv, TypeOK, Clients
<1>6. \A s \in Servers \ {c[1]} : tools'[s] = tools[s]
  BY <1>1 DEF IInv, TypeOK
<1>7. ToolsAccounted'
  <2> SUFFICES ASSUME exit' \notin {"stop", "over"}, NEW s \in Servers, NEW g \in tools'[s]
               PROVE  \/ g = clients'[s] \/ <<s, g>> \in halfway'
                      \/ starter'[<<s, g>>] = "recheck"
                      \/ reload' \in {"stop", "unregister"}
    BY DEF ToolsAccounted
  <2>1. CASE s = c[1]
    BY <2>1, <1>4, ClientIsPair
  <2>2. CASE s # c[1]
    <3>1. \A h \in Cycles : <<s, h>> # c
      BY <2>2, ClientIsPair
    <3> QED BY <2>2, <3>1, <1>1, <1>5, <1>6 DEF IInv, ToolsAccounted
  <2> QED BY <2>1, <2>2
<1>8. StoredIsOver'
  BY <1>1, <1>5, ClientIsPair DEF IInv, StoredIsOver
<1>9. RecheckedIsOlder'
  <2> SUFFICES ASSUME NEW s \in Servers, NEW h \in Cycles, starter'[<<s, h>>] = "recheck",
                      clients'[s] \in tools'[s]
               PROVE  h <= clients'[s]
    BY DEF RecheckedIsOlder
  <2>1. s # c[1]
    BY <1>1, <1>4, <1>5, ClientIsPair DEF IInv, StoredIsOver
  <2>2. <<s, h>> # c
    BY <2>1, ClientIsPair
  <2> QED BY <2>1, <2>2, <1>1, <1>5, <1>6 DEF IInv, RecheckedIsOlder
<1> QED BY <1>2, <1>3, <1>7, <1>8, <1>9 DEF IInv

\* A registration that fails leaves what it is remembered for.
LEMMA RegisterFailsStep ==
    ASSUME IInv, NEW c \in Clients, RegisterFails(c)
    PROVE  IInv'
<1> USE DEF starterOnly, manager, callers, stops
<1>1. /\ UNCHANGED <<configs, generation, shutDown, clients, thread, signalled, late, init, reload, exit,
                     stopping, reloads, replaced>>
      /\ starter' = [starter EXCEPT ![c] = "fail"] /\ starter[c] = "register"
      /\ \/ tools' = tools /\ halfway' = halfway
         \/ tools' = [tools EXCEPT ![c[1]] = tools[c[1]] \cup {c[2]}] /\ halfway' = halfway \cup {c}
  BY DEF RegisterFails, At
<1>2. TypeOK'
  BY <1>1, ClientIsPair DEF IInv, TypeOK
<1>3. Counting' /\ FlagMeaning' /\ ShutdownIsFinal'
  BY <1>1 DEF IInv, Counting, One, FlagMeaning, ShutdownIsFinal
<1>4. \A s \in Servers, h \in Cycles :
        /\ starter'[<<s, h>>] = "recheck" <=> starter[<<s, h>>] = "recheck"
        /\ starter[<<s, h>>] = "over" => starter'[<<s, h>>] = "over"
  BY <1>1 DEF IInv, TypeOK, Clients
<1>5. StoredIsOver'
  BY <1>1, <1>4 DEF IInv, StoredIsOver
<1>6. halfway \subseteq halfway'
      /\ \A s \in Servers, g \in Cycles : g \in tools'[s] =>
            g \in tools[s] \/ (s = c[1] /\ g = c[2] /\ <<s, g>> \in halfway')
  BY <1>1, ClientIsPair DEF IInv, TypeOK
<1>7. ToolsAccounted'
  <2> SUFFICES ASSUME exit' \notin {"stop", "over"}, NEW s \in Servers, NEW g \in tools'[s]
               PROVE  \/ g = clients'[s] \/ <<s, g>> \in halfway'
                      \/ starter'[<<s, g>>] = "recheck"
                      \/ reload' \in {"stop", "unregister"}
    BY DEF ToolsAccounted
  <2>1. g \in Cycles
    BY <1>2 DEF TypeOK
  <2> QED BY <2>1, <1>1, <1>4, <1>6 DEF IInv, ToolsAccounted
<1>8. RecheckedIsOlder'
  <2> SUFFICES ASSUME NEW s \in Servers, NEW h \in Cycles, starter'[<<s, h>>] = "recheck",
                      clients'[s] \in tools'[s]
               PROVE  h <= clients'[s]
    BY DEF RecheckedIsOlder
  <2>1. clients[s] \in Cycles
    BY <1>1, <1>2 DEF TypeOK
  <2>2. clients[s] \in tools[s]
    BY <2>1, <1>1, <1>6, ClientIsPair DEF IInv, StoredIsOver
  <2> QED BY <2>2, <1>1, <1>4 DEF IInv, RecheckedIsOlder
<1> QED BY <1>2, <1>3, <1>5, <1>7, <1>8 DEF IInv

LEMMA StoreStep ==
    ASSUME IInv, NEW c \in Clients, Store(c)
    PROVE  IInv'
<1> USE DEF starterOnly, manager, callers, stops, lost
<1>1. /\ UNCHANGED <<configs, generation, shutDown, thread, init, reload, exit, stopping, reloads>>
      /\ starter' = [starter EXCEPT ![c] = "over"] /\ starter[c] = "recheck"
      /\ signalled' \subseteq Clients /\ late' \subseteq Clients
  BY DEF Store, At, Stop, IInv, TypeOK
<1>2. starter'[<<c[1], c[2]>>] = "over"
  BY <1>1, ClientIsPair DEF IInv, TypeOK
<1>3. \A s \in Servers, h \in Cycles : <<s, h>> # c => starter'[<<s, h>>] = starter[<<s, h>>]
  BY <1>1 DEF IInv, TypeOK, Clients
<1>4. Counting' /\ FlagMeaning'
  BY <1>1 DEF IInv, Counting, One, FlagMeaning
<1>5. CASE Stale(c)
  <2>1. /\ tools' = [tools EXCEPT ![c[1]] = {}]
        /\ UNCHANGED <<clients, replaced, halfway>>
    BY <1>5 DEF Store
  <2>2. TypeOK'
    BY <1>1, <2>1 DEF IInv, TypeOK
  <2>3. StoredIsOver' /\ ShutdownIsFinal'
    BY <1>1, <1>2, <1>3, <2>1, ClientIsPair DEF IInv, StoredIsOver, ShutdownIsFinal
  <2>4. tools'[c[1]] = {} /\ \A s \in Servers \ {c[1]} : tools'[s] = tools[s]
    BY <2>1, ClientIsPair DEF IInv, TypeOK
  <2>5. ToolsAccounted'
    <3> SUFFICES ASSUME exit' \notin {"stop", "over"}, NEW s \in Servers, NEW g \in tools'[s], s # c[1]
                 PROVE  \/ g = clients'[s] \/ <<s, g>> \in halfway'
                        \/ starter'[<<s, g>>] = "recheck"
                        \/ reload' \in {"stop", "unregister"}
      BY <2>4 DEF ToolsAccounted
    <3>1. \A h \in Cycles : <<s, h>> # c
      BY ClientIsPair
    <3> QED BY <3>1, <1>1, <1>3, <2>1, <2>4 DEF IInv, ToolsAccounted
  <2>6. RecheckedIsOlder'
    <3> SUFFICES ASSUME NEW s \in Servers, NEW h \in Cycles, starter'[<<s, h>>] = "recheck",
                        clients'[s] \in tools'[s]
                 PROVE  h <= clients'[s]
      BY DEF RecheckedIsOlder
    <3>1. s # c[1]
      BY <2>1, <2>4
    <3>2. <<s, h>> # c
      BY <3>1, ClientIsPair
    <3> QED BY <3>1, <3>2, <1>3, <2>1, <2>4 DEF IInv, RecheckedIsOlder
  <2> QED BY <1>4, <2>2, <2>3, <2>5, <2>6 DEF IInv
<1>6. CASE ~Stale(c)
  <2>1. /\ clients' = [clients EXCEPT ![c[1]] = c[2]]
        /\ UNCHANGED <<tools, halfway>>
        /\ generation = c[2] /\ ~shutDown
        /\ replaced' = IF clients[c[1]] = None THEN replaced ELSE replaced \cup {<<c[1], clients[c[1]]>>}
    BY <1>6 DEF Store, Stale
  <2>2. replaced' \subseteq Clients
    BY <2>1, ClientIsPair DEF IInv, TypeOK, Clients
  <2>3. TypeOK'
    BY <1>1, <2>1, <2>2, ClientIsPair DEF IInv, TypeOK
  <2>4. ShutdownIsFinal'
    BY <1>1, <2>1 DEF IInv, FlagMeaning, ShutdownIsFinal
  <2>5. clients'[c[1]] = c[2] /\ \A s \in Servers \ {c[1]} : clients'[s] = clients[s]
    BY <2>1, ClientIsPair DEF IInv, TypeOK
  <2>6. StoredIsOver'
    BY <1>2, <1>3, <2>5, ClientIsPair DEF IInv, StoredIsOver
  <2>7. \A h \in Cycles : starter[<<c[1], h>>] # "none" => h <= c[2]
    BY <2>1, ClientIsPair DEF IInv, TypeOK, Clients
  <2>8. ToolsAccounted'
    <3> SUFFICES ASSUME exit' \notin {"stop", "over"}, NEW s \in Servers, NEW g \in tools'[s]
                 PROVE  \/ g = clients'[s] \/ <<s, g>> \in halfway'
                        \/ starter'[<<s, g>>] = "recheck"
                        \/ reload' \in {"stop", "unregister"}
      BY DEF ToolsAccounted
    <3>0. g \in tools[s] /\ g \in Cycles
      BY <2>1 DEF IInv, TypeOK
    <3>1. CASE s # c[1]
      <4>1. <<s, g>> # c
        BY <3>1, ClientIsPair
      <4> QED BY <3>0, <3>1, <4>1, <1>1, <1>3, <2>1, <2>5 DEF IInv, ToolsAccounted
    <3>2. CASE s = c[1] /\ g = c[2]
      BY <3>2, <2>5
    <3>3. CASE s = c[1] /\ g # c[2] /\ g = clients[s]
      <4>1. starter[<<s, g>>] = "over"
        BY <3>0, <3>3 DEF IInv, StoredIsOver
      <4>2. g <= c[2]
        BY <4>1, <3>0, <3>3, <2>7
      <4>3. c[2] <= g
        BY <3>0, <3>3, <1>1, ClientIsPair DEF IInv, RecheckedIsOlder
      <4> QED BY <3>0, <3>3, <4>2, <4>3, ClientIsPair, McpAssumption DEF Cycles
    <3>4. CASE s = c[1] /\ g # c[2] /\ g # clients[s]
      <4>1. \/ <<s, g>> \in halfway \/ starter[<<s, g>>] = "recheck"
            \/ reload \in {"stop", "unregister"}
        BY <3>0, <3>4, <1>1 DEF IInv, ToolsAccounted
      <4>2. <<s, g>> # c
        BY <3>4, ClientIsPair
      <4> QED BY <3>0, <4>1, <4>2, <1>1, <1>3, <2>1
    <3> QED BY <3>1, <3>2, <3>3, <3>4
  <2>9. RecheckedIsOlder'
    <3> SUFFICES ASSUME NEW s \in Servers, NEW h \in Cycles, starter'[<<s, h>>] = "recheck",
                        clients'[s] \in tools'[s]
                 PROVE  h <= clients'[s]
      BY DEF RecheckedIsOlder
    <3>1. <<s, h>> # c
      BY <1>2, ClientIsPair
    <3>2. starter[<<s, h>>] = "recheck"
      BY <3>1, <1>3
    <3>3. CASE s = c[1]
      BY <3>2, <3>3, <2>5, <2>7
    <3>4. CASE s # c[1]
      BY <3>2, <3>4, <2>1, <2>5 DEF IInv, RecheckedIsOlder
    <3> QED BY <3>3, <3>4
  <2> QED BY <1>4, <2>3, <2>4, <2>6, <2>8, <2>9 DEF IInv
<1> QED BY <1>5, <1>6

-----------------------------------------------------------------------------
(* The callers of the manager *)

\* start_servers() takes a generation that the counting has left for it.
LEMMA StartServersStep ==
    ASSUME IInv, StartServers, generation + 1 <= MaxReloads + 2,
           init' \in {"load", "look", "start", "over"},
           reload' \in {"idle", "take", "stop", "unregister", "load", "look", "start"},
           reload' = reload \/ reload \notin {"stop", "unregister"}
    PROVE  TypeOK' /\ FlagMeaning' /\ StoredIsOver' /\ ShutdownIsFinal' /\ ToolsAccounted'
           /\ RecheckedIsOlder'
<1> USE DEF stops, lost
<1> DEFINE new == configs \X {generation'}
<1>1. /\ generation' = generation + 1
      /\ UNCHANGED <<configs, shutDown, clients, tools, signalled, late, exit, stopping, reloads, replaced, halfway>>
      /\ starter' = [c \in Clients |-> IF c \in new THEN "waiting" ELSE starter[c]]
      /\ thread' = [c \in Clients |-> IF c \in new THEN "importing" ELSE thread[c]]
  BY DEF StartServers
<1>2. generation \in Nat /\ generation' \in 0..(MaxReloads + 2)
  BY <1>1, McpAssumption DEF IInv, TypeOK
<1>3. \A c \in Clients : starter[c] # "none" => starter'[c] = starter[c]
  <2> SUFFICES ASSUME NEW c \in Clients, starter[c] # "none" PROVE c \notin new
    BY <1>1
  <2>1. c[2] <= generation /\ c[2] \in Nat
    BY ClientIsPair DEF IInv, TypeOK
  <2> QED BY <2>1, <1>1, <1>2
<1>4. \A c \in Clients : starter'[c] = "recheck" => starter[c] = "recheck"
  BY <1>1
<1>5. TypeOK'
  <2>1. \A c \in Clients : starter'[c] # "none" => c[2] <= generation'
    <3> SUFFICES ASSUME NEW c \in Clients, starter'[c] # "none" PROVE c[2] <= generation'
      OBVIOUS
    <3>1. CASE c \in new
      BY <3>1, <1>2, ClientIsPair
    <3>2. CASE c \notin new
      BY <3>2, <1>1, <1>2, ClientIsPair DEF IInv, TypeOK
    <3> QED BY <3>1, <3>2
  <2>2. starter' \in [Clients -> {"none", "waiting", "check", "register", "recheck", "fail", "over"}]
        /\ thread' \in [Clients -> {"none", "importing", "handshake", "ready", "dead"}]
    BY <1>1 DEF IInv, TypeOK
  <2> QED BY <2>1, <2>2, <1>1, <1>2 DEF IInv, TypeOK
<1>6. FlagMeaning' /\ ShutdownIsFinal'
  BY <1>1 DEF IInv, FlagMeaning, ShutdownIsFinal
<1>7. \A s \in Servers, h \in Cycles : <<s, h>> \in Clients
  BY DEF Clients
<1>8. StoredIsOver'
  BY <1>1, <1>3, <1>7 DEF IInv, StoredIsOver
<1>9. ToolsAccounted'
  <2>1. \A s \in Servers : \A g \in tools[s] : <<s, g>> \in Clients
    BY <1>7 DEF IInv, TypeOK
  <2> QED BY <2>1, <1>1, <1>3 DEF IInv, ToolsAccounted
<1>10. RecheckedIsOlder'
  BY <1>1, <1>4, <1>7 DEF IInv, RecheckedIsOlder
<1> QED BY <1>5, <1>6, <1>8, <1>9, <1>10

LEMMA InitThreadSteps ==
    ASSUME IInv, InitLoad \/ InitStart
    PROVE  IInv'
<1> USE DEF manager, stops, lost
<1>1. CASE InitLoad \/ (LookIfShut(init, "over") /\ UNCHANGED reload)
  <2>1. /\ UNCHANGED <<generation, shutDown, clients, tools, starter, thread, signalled, late, reload,
                       exit, stopping, reloads, replaced, halfway>>
        /\ configs' \subseteq Servers /\ init \in {"load", "look"}
        /\ init' \in {"look", "start", "over"}
    BY <1>1 DEF InitLoad, LookIfShut, Goto, IInv, TypeOK
  <2>2. TypeOK'
    BY <2>1 DEF IInv, TypeOK
  <2>3. Counting'
    BY <2>1, McpAssumption DEF IInv, TypeOK, Counting, One
  <2>4. FlagMeaning' /\ StoredIsOver' /\ ShutdownIsFinal' /\ ToolsAccounted' /\ RecheckedIsOlder'
    BY <2>1 DEF IInv, FlagMeaning, StoredIsOver, ShutdownIsFinal, ToolsAccounted, RecheckedIsOlder
  <2> QED BY <2>2, <2>3, <2>4 DEF IInv
<1>2. CASE Goto(init, "start", "over") /\ StartServers /\ UNCHANGED reload
  <2>1. init = "start" /\ init' = "over" /\ UNCHANGED <<reload, exit, reloads>>
        /\ generation' = generation + 1
    BY <1>2 DEF Goto, StartServers
  <2>2. generation + 1 <= MaxReloads + 2 /\ Counting'
    BY <2>1, McpAssumption DEF IInv, TypeOK, Counting, One
  <2>3. reload' \in {"idle", "take", "stop", "unregister", "load", "look", "start"}
    BY <2>1 DEF IInv, TypeOK
  <2> QED BY <1>2, <2>1, <2>2, <2>3, StartServersStep DEF IInv
<1> QED BY <1>1, <1>2 DEF InitStart, LookIfShut, Goto

LEMMA ReloadSteps ==
    ASSUME IInv, AskReload \/ Reload
    PROVE  IInv'
<1> USE DEF manager, stops, lost
<1>1. CASE AskReload \/ ReloadLoad \/ (LookIfShut(reload, "idle") /\ UNCHANGED init)
  <2>1. /\ UNCHANGED <<generation, shutDown, clients, tools, starter, thread, signalled, late, init,
                       exit, stopping, replaced, halfway>>
        /\ configs' \subseteq Servers /\ reloads' \in 0..MaxReloads
        /\ reload \in {"idle", "load", "look"} /\ reload' \in {"idle", "take", "look", "start"}
        /\ \/ reload # "idle" /\ reloads' = reloads
           \/ reload = "idle" /\ reloads' = reloads + 1
    BY <1>1, McpAssumption DEF AskReload, ReloadLoad, LookIfShut, Goto, IInv, TypeOK
  <2>2. TypeOK'
    BY <2>1 DEF IInv, TypeOK
  <2>3. Counting'
    <3>1. generation \in Int /\ reloads \in Int /\ Counting
      BY McpAssumption DEF IInv, TypeOK
    <3>2. CASE reload # "idle" /\ reloads' = reloads
      BY <2>1, <3>1, <3>2 DEF Counting, One
    <3>3. CASE reload = "idle" /\ reloads' = reloads + 1
      BY <2>1, <3>1, <3>3 DEF Counting, One
    <3> QED BY <2>1, <3>2, <3>3
  <2>4. FlagMeaning' /\ StoredIsOver' /\ ShutdownIsFinal' /\ ToolsAccounted' /\ RecheckedIsOlder'
    BY <2>1 DEF IInv, FlagMeaning, StoredIsOver, ShutdownIsFinal, ToolsAccounted, RecheckedIsOlder
  <2> QED BY <2>2, <2>3, <2>4 DEF IInv
<1>2. CASE ReloadStop
  <2>1. /\ UNCHANGED <<configs, generation, shutDown, tools, starter, thread, init, exit, reloads, replaced, halfway>>
        /\ reload \in {"take", "stop"} /\ reload' \in {"stop", "unregister"}
        /\ clients' = clients \/ clients' = [s \in Servers |-> None]
        /\ signalled' \subseteq Clients /\ late' \subseteq Clients
        /\ stopping' \in [{"reload", "exit"} -> SUBSET Clients]
    BY <1>2 DEF ReloadStop, Goto, TakeClients, StopClients, Stop, IInv, TypeOK
  <2>2. TypeOK'
    BY <2>1 DEF IInv, TypeOK
  <2>3. Counting' /\ FlagMeaning' /\ ShutdownIsFinal' /\ ToolsAccounted'
    BY <2>1 DEF IInv, Counting, One, FlagMeaning, ShutdownIsFinal, ToolsAccounted
  <2>4. \A s \in Servers : None \notin tools[s] /\ None \notin Cycles
    BY McpAssumption DEF IInv, TypeOK, Cycles, None
  <2>5. StoredIsOver' /\ RecheckedIsOlder'
    BY <2>1, <2>4 DEF IInv, StoredIsOver, RecheckedIsOlder
  <2> QED BY <2>2, <2>3, <2>5 DEF IInv
<1>3. CASE ReloadUnregister
  <2>1. /\ UNCHANGED <<configs, generation, shutDown, clients, starter, thread, signalled, late, init,
                       exit, stopping, reloads, replaced, halfway>>
        /\ reload = "unregister" /\ reload' = "load" /\ tools' = [s \in Servers |-> {}]
    BY <1>3 DEF ReloadUnregister, Goto
  <2>2. TypeOK'
    BY <2>1 DEF IInv, TypeOK
  <2>3. Counting' /\ FlagMeaning' /\ StoredIsOver' /\ ShutdownIsFinal' /\ ToolsAccounted' /\ RecheckedIsOlder'
    BY <2>1 DEF IInv, Counting, One, FlagMeaning, StoredIsOver, ShutdownIsFinal, ToolsAccounted, RecheckedIsOlder
  <2> QED BY <2>2, <2>3 DEF IInv
<1>4. CASE Goto(reload, "start", "idle") /\ StartServers /\ UNCHANGED init
  <2>1. reload = "start" /\ reload' = "idle" /\ UNCHANGED <<init, exit, reloads>>
        /\ generation' = generation + 1
    BY <1>4 DEF Goto, StartServers
  <2>2. generation + 1 <= MaxReloads + 2 /\ Counting'
    BY <2>1, McpAssumption DEF IInv, TypeOK, Counting, One
  <2>3. init' \in {"load", "look", "start", "over"}
    BY <2>1 DEF IInv, TypeOK
  <2> QED BY <1>4, <2>1, <2>2, <2>3, StartServersStep DEF IInv
<1> QED BY <1>1, <1>2, <1>3, <1>4 DEF Reload, ReloadStart, LookIfShut, Goto

LEMMA ExitSteps ==
    ASSUME IInv, AskExit \/ Exit
    PROVE  IInv'
<1> USE DEF manager, stops, lost
<1>1. CASE AskExit
  <2>1. /\ UNCHANGED <<configs, generation, shutDown, clients, tools, starter, thread, signalled, late,
                       init, reload, stopping, reloads, replaced, halfway>>
        /\ exit = "no" /\ exit' = "raise"
    BY <1>1 DEF AskExit, Goto
  <2>2. TypeOK'
    BY <2>1 DEF IInv, TypeOK
  <2>3. Counting' /\ FlagMeaning' /\ StoredIsOver' /\ ShutdownIsFinal' /\ ToolsAccounted' /\ RecheckedIsOlder'
    BY <2>1 DEF IInv, Counting, One, FlagMeaning, StoredIsOver, ShutdownIsFinal, ToolsAccounted, RecheckedIsOlder
  <2> QED BY <2>2, <2>3 DEF IInv
<1>2. CASE RaiseFlag
  <2>1. /\ UNCHANGED <<configs, clients, tools, starter, thread, signalled, late,
                       init, reload, stopping, reloads, replaced, halfway>>
        /\ exit = "raise" /\ exit' = "take" /\ shutDown' = TRUE /\ generation' = generation + 1
    BY <1>2 DEF RaiseFlag, Goto
  <2>2. generation' \in 0..(MaxReloads + 2) /\ Counting'
    BY <2>1, McpAssumption DEF IInv, TypeOK, Counting, One
  <2>3. \A c \in Clients : starter'[c] # "none" => c[2] <= generation'
    BY <2>1, ClientIsPair DEF IInv, TypeOK
  <2>4. TypeOK'
    BY <2>1, <2>2, <2>3 DEF IInv, TypeOK
  <2>5. FlagMeaning' /\ StoredIsOver' /\ ShutdownIsFinal' /\ ToolsAccounted' /\ RecheckedIsOlder'
    BY <2>1 DEF IInv, FlagMeaning, StoredIsOver, ShutdownIsFinal, ToolsAccounted, RecheckedIsOlder
  <2> QED BY <2>2, <2>4, <2>5 DEF IInv
<1>3. CASE ExitStop
  <2>1. /\ UNCHANGED <<configs, generation, shutDown, tools, starter, thread, init, reload, reloads, replaced, halfway>>
        /\ \/ exit = "take" /\ exit' = "stop" /\ clients' = [s \in Servers |-> None]
           \/ exit = "stop" /\ exit' = "over" /\ clients' = clients
        /\ signalled' \subseteq Clients /\ late' \subseteq Clients
        /\ stopping' \in [{"reload", "exit"} -> SUBSET Clients]
    BY <1>3 DEF ExitStop, Goto, TakeClients, StopClients, Stop, IInv, TypeOK
  <2>2. TypeOK'
    BY <2>1 DEF IInv, TypeOK
  <2>3. Counting' /\ FlagMeaning' /\ ShutdownIsFinal' /\ ToolsAccounted'
    BY <2>1 DEF IInv, Counting, One, FlagMeaning, ShutdownIsFinal, ToolsAccounted
  <2>4. \A s \in Servers : None \notin tools[s] /\ None \notin Cycles
    BY McpAssumption DEF IInv, TypeOK, Cycles, None
  <2>5. StoredIsOver' /\ RecheckedIsOlder'
    BY <2>1, <2>4 DEF IInv, StoredIsOver, RecheckedIsOlder
  <2> QED BY <2>2, <2>3, <2>5 DEF IInv
<1> QED BY <1>1, <1>2, <1>3 DEF Exit

LEMMA Stutter ==
    ASSUME IInv, UNCHANGED vars
    PROVE  IInv'
<1> USE DEF vars
<1>1. TypeOK'
  BY DEF IInv, TypeOK
<1>2. Counting' /\ FlagMeaning' /\ StoredIsOver' /\ ShutdownIsFinal' /\ ToolsAccounted' /\ RecheckedIsOlder'
  BY DEF IInv, Counting, One, FlagMeaning, StoredIsOver, ShutdownIsFinal, ToolsAccounted, RecheckedIsOlder
<1> QED BY <1>1, <1>2 DEF IInv

-----------------------------------------------------------------------------
(* The theorems *)

LEMMA Inductive == IInv /\ [Next]_vars => IInv'
<1> SUFFICES ASSUME IInv, [Next]_vars PROVE IInv'
  OBVIOUS
<1>1. CASE \E c \in Clients : ThreadStep(c) \/ ServerDies(c) \/ StarterStep(c)
  BY <1>1, ThreadSteps, EarlyStarterSteps, RegisterStep, RegisterFailsStep, StoreStep DEF StarterStep
<1>2. CASE InitLoad \/ InitStart \/ AskReload \/ Reload \/ AskExit \/ Exit
  BY <1>2, InitThreadSteps, ReloadSteps, ExitSteps
<1>3. CASE Done \/ UNCHANGED vars
  BY <1>3, Stutter DEF Done
<1> QED BY <1>1, <1>2, <1>3 DEF Next

THEOREM Invariance == Spec => []IInv
BY InitIInv, Inductive, PTL DEF Spec

\* The variables keep their types; in particular start_servers() never runs out
\* of the generations the requests account for, and no start thread of
\* MCPManager runs ahead of the manager's generation.
THEOREM TypeCorrect == Spec => []TypeOK
<1>1. IInv => TypeOK
  BY DEF IInv
<1> QED BY <1>1, Invariance, PTL

\* Once MCPManager.shutdown() has taken the clients, no start in flight stores
\* another, however many servers and reloads there are.
THEOREM ShutdownFinality == Spec => []ShutdownIsFinal
<1>1. IInv => ShutdownIsFinal
  BY DEF IInv
<1> QED BY <1>1, Invariance, PTL

\* Once starts and reloads are through, no tools of a stopped or superseded
\* client are left in the registry but those of a registration that failed
\* half-way, which MCPManager stops without unregistering.
THEOREM NoStaleTools == Spec => []ToolsServed
<1>1. IInv => ToolsServed
  <2> SUFFICES ASSUME IInv, Quiet, exit = "no", NEW s \in Servers, NEW g \in tools[s]
               PROVE  g = clients[s] \/ <<s, g>> \in halfway
    BY DEF ToolsServed
  <2>1. <<s, g>> \in Clients
    BY DEF Clients, IInv, TypeOK
  <2>2. reload = "idle" /\ starter[<<s, g>>] # "recheck"
    BY <2>1 DEF Quiet
  <2> QED BY <2>2 DEF IInv, ToolsAccounted
<1> QED BY <1>1, Invariance, PTL

=============================================================================
