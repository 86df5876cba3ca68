------------------------- MODULE ServiceController -------------------------
(***************************************************************************)
(* The service controller (cmd/service): the DNS listener, the takeover    *)
(* and the two mutexes around them, p.mu of the program and m.mu of the    *)
(* takeover manager, as the goroutines of the HTTP API, the service        *)
(* manager and the DNS queries use them.                                   *)
(*                                                                         *)
(* A goroutine is the list of the steps it still has to make, as in        *)
(* ConfigureLAN calling StopDNS, StartDNS and EnableTakeover.  A step is   *)
(* what happens between two points where the goroutine can wait or the     *)
(* lock is free; a section of p.mu that takes no other lock is one step.   *)
(* The takeover manager is reduced to the adapters that point at this      *)
(* machine and the ones it remembers; WinTakeover has its insides.         *)
(***************************************************************************)
EXTENDS Naturals, Sequences

CONSTANTS
  Threads,         \* goroutines that call the controller
  Queries,         \* goroutines that serve DNS queries
  Adapters,        \* network adapters
  Calls,           \* the calls that are made
  Faults,          \* what may go wrong, a subset of FaultKinds
  AutoTakeover,    \* cfg.Takeover.AutoTakeoverOnStart
  None             \* no goroutine, no listener

CallKinds  == {"Run", "StartDNS", "StopDNS", "EnableTakeover", "DisableTakeover",
               "TakeoverSingle", "RestoreSingle", "EmergencyRestore",
               "GetStatus", "ConfigureLAN", "Stop"}
FaultKinds == {"port", "scan", "takeover", "restore"}

ASSUME ControllerAssumption ==
  /\ Calls \subseteq CallKinds \ {"Run"} /\ Faults \subseteq FaultKinds
  /\ AutoTakeover \in BOOLEAN
  /\ None \notin Threads \cup BOOLEAN
  /\ None \notin CallKinds
  /\ Adapters # {}

VARIABLES
  up,       \* the service runs
  pmu,      \* the goroutine that holds p.mu, or None
  mmu,      \* the goroutine that holds m.mu, or None
  running,  \* p.dnsRunning
  server,   \* the AllowLAN setting the open listener was started with, or None
  lan,      \* cfg.DNS.AllowLAN
  taken,    \* adapters that point at this machine
  held,     \* m.adapters; IsTakeoverActive is held # {}
  th,       \* goroutines of the controller
  query,    \* goroutines of the DNS server
  stray     \* history: adapters that point here with nobody bound to keep a
            \* listener for them or to restore them before it closes

vars == <<up, pmu, mmu, running, server, lan, taken, held, th, query, stray>>

ManagerSteps == {"takeover", "restore", "takeoverSingle", "restoreSingle"}
Steps == ManagerSteps \cup
  {"start", "stop", "stopActive", "notify", "shutdown", "drain", "enable", "scan",
   "setAdapter", "emergency", "status", "statusAdapters", "statusActive", "statusDone",
   "lan", "lanActive", "lanEnable", "quit", "close", "exit"}

(* A goroutine: its call, the steps to come, the argument of the call, the *)
(* error of the last routine, and whether it saw the takeover active.      *)
Idle == [call |-> None, todo |-> <<>>, on |-> FALSE, adapters |-> {},
         ok |-> TRUE, was |-> FALSE]

active == held # {}

At(t, s)   == up /\ th[t].todo # <<>> /\ Head(th[t].todo) = s
(* The step is done and the steps s come first now.                        *)
Then(t, s) == th' = [th EXCEPT ![t].todo = s \o Tail(@)]
ThenOk(t, s, b) == th' = [th EXCEPT ![t].todo = s \o Tail(@), ![t].ok = b]

-----------------------------------------------------------------------------
(* Calls.                                                                  *)
StepsOf(c) ==
  CASE c = "StartDNS"         -> <<"start">>
    [] c = "StopDNS"          -> <<"stop">>
    [] c = "EnableTakeover"   -> <<"enable">>
    [] c = "DisableTakeover"  -> <<"restore">>
    [] c = "TakeoverSingle"   -> <<"setAdapter">>
    [] c = "RestoreSingle"    -> <<"restoreSingle">>
    [] c = "EmergencyRestore" -> <<"emergency">>
    [] c = "GetStatus"        -> <<"status">>
    [] c = "ConfigureLAN"     -> <<"lan">>
    [] c = "Stop"             -> <<"quit", "stop", "close", "exit">>

Call(t, c, on, S) ==
  /\ up /\ th[t].call = None
  /\ c \in Calls
  /\ c = "Stop" => \A u \in Threads : th[u].call # "Stop"
  /\ \A u \in Threads : ~At(u, "exit")
  /\ th' = [th EXCEPT ![t] = [Idle EXCEPT !.call = c, !.todo = StepsOf(c),
                                          !.on = on, !.adapters = S]]
  /\ UNCHANGED <<up, pmu, mmu, running, server, lan, taken, held, query, stray>>

Return(t) ==
  /\ th[t].call # None /\ th[t].todo = <<>>
  /\ th' = [th EXCEPT ![t] = Idle]
  /\ UNCHANGED <<up, pmu, mmu, running, server, lan, taken, held, query, stray>>

-----------------------------------------------------------------------------
(* StartDNS.  The port may be taken, or the listener may not bind.         *)
StartDNS(t) ==
  /\ At(t, "start") /\ pmu = None
  /\ \/ running /\ ThenOk(t, <<>>, TRUE) /\ UNCHANGED <<running, server, stray>>
     \/ /\ ~running /\ running' = TRUE /\ server' = lan /\ ThenOk(t, <<>>, TRUE)
        /\ stray' = stray \ held
     \/ ~running /\ "port" \in Faults /\ ThenOk(t, <<>>, FALSE) /\ UNCHANGED <<running, server, stray>>
  /\ UNCHANGED <<up, pmu, mmu, lan, taken, held, query>>

(* Mutant: the early return comes before the deferred unlock is set up.    *)
MutKeepLock(t) ==
  /\ At(t, "stop") /\ pmu = None
  /\ pmu' = t
  /\ Then(t, IF running THEN <<"stopActive">> ELSE <<>>)
  /\ UNCHANGED <<up, mmu, running, server, lan, taken, held, query, stray>>

(* StopDNS holds p.mu from here to the end of Drain.                       *)
StopDNS(t) ==
  /\ At(t, "stop") /\ pmu = None
  /\ IF running THEN pmu' = t /\ Then(t, <<"stopActive">>)
                ELSE pmu' = pmu /\ Then(t, <<>>)
  /\ UNCHANGED <<up, mmu, running, server, lan, taken, held, query, stray>>

(* Mutant: the listener closes without a restore.                          *)
MutNoRestore(t) ==
  /\ At(t, "stopActive") /\ mmu = None
  /\ Then(t, <<"shutdown">>)
  /\ UNCHANGED <<up, pmu, mmu, running, server, lan, taken, held, query, stray>>

(* IsTakeoverActive takes m.mu for a moment.                               *)
StopIsTakeoverActive(t) ==
  /\ At(t, "stopActive") /\ mmu = None
  /\ Then(t, IF active THEN <<"restore", "notify", "shutdown">> ELSE <<"shutdown">>)
  /\ UNCHANGED <<up, pmu, mmu, running, server, lan, taken, held, query, stray>>

(* After a restore that worked the interface is told, through              *)
(* currentIPCServer, which locks p.mu.                                     *)
Notify(t) ==
  /\ At(t, "notify")
  /\ th[t].ok => pmu = None
  /\ Then(t, <<>>)
  /\ UNCHANGED <<up, pmu, mmu, running, server, lan, taken, held, query, stray>>

(* Server.Shutdown: the sockets close, and queries in flight are waited    *)
(* for, for three seconds at most; but the library's own Shutdown, called  *)
(* on the way, waits for its handlers without a limit.                     *)
Shutdown(t) ==
  /\ At(t, "shutdown")
  /\ server' = None
  /\ Then(t, <<"drain">>)
  /\ UNCHANGED <<up, pmu, mmu, running, lan, taken, held, query, stray>>

LibraryShutdown == \A q \in Queries : query[q] = "idle"

Drain(t) ==
  /\ At(t, "drain") /\ LibraryShutdown
  /\ running' = FALSE
  /\ pmu' = None
  /\ Then(t, <<>>)
  /\ UNCHANGED <<up, mmu, server, lan, taken, held, query, stray>>

-----------------------------------------------------------------------------
(* EnableTakeover reads dnsRunning, starts the listener if it has to, and  *)
(* asks the manager with no lock held.                                     *)
EnableTakeover(t) ==
  /\ At(t, "enable") /\ pmu = None
  /\ ThenOk(t, IF running THEN <<"scan">> ELSE <<"start", "scan">>, TRUE)
  /\ UNCHANGED <<up, pmu, mmu, running, server, lan, taken, held, query, stray>>

ScanAdapters(t) ==
  /\ At(t, "scan")
  /\ \/ th[t].ok /\ Then(t, <<"takeover">>)
     \/ (th[t].ok => "scan" \in Faults) /\ Then(t, <<>>)
  /\ UNCHANGED <<up, pmu, mmu, running, server, lan, taken, held, query, stray>>

(* Mutant: an adapter the scan does not list is passed on.                 *)
MutNoLookup(t) ==
  /\ At(t, "setAdapter")
  /\ Then(t, <<"takeoverSingle">>)
  /\ UNCHANGED <<up, pmu, mmu, running, server, lan, taken, held, query, stray>>

(* SetAdapterTakeover(enable): the adapter is looked up in a scan, and     *)
(* nothing is asked of the listener.                                       *)
SetAdapterTakeover(t) ==
  /\ At(t, "setAdapter")
  /\ Then(t, IF th[t].adapters \subseteq Adapters THEN <<"takeoverSingle">> ELSE <<>>)
  /\ UNCHANGED <<up, pmu, mmu, running, server, lan, taken, held, query, stray>>

(* The manager's operations hold m.mu from their first line to their last. *)
LockManager(t) ==
  /\ \E s \in ManagerSteps : At(t, s)
  /\ mmu = None /\ mmu' = t
  /\ UNCHANGED <<up, pmu, running, server, lan, taken, held, th, query, stray>>

(* The restore of a StopDNS.                                               *)
StopRestores(t) == At(t, "restore") /\ Len(th[t].todo) > 1 /\ th[t].todo[2] = "notify"

(* Nothing listens, or a StopDNS that has looked at the manager (or whose  *)
(* restore is over) is about to close the listener.                        *)
Unlistened ==
  server = None \/ \E u \in Threads : At(u, "notify") \/ At(u, "shutdown") \/ At(u, "drain")

(* The adapters an operation of goroutine t leaves astray.  One that it    *)
(* takes over while nothing listens: EnableTakeover has made sure of the   *)
(* listener, but it holds no lock, and SetAdapterTakeover does not ask.    *)
(* And those that a failing operation leaves pointing here: the ones the   *)
(* manager has no memory of, and all when StopDNS makes the restore, since *)
(* it closes the listener just the same.                                   *)
Strays(t, bad) ==
  stray' = (stray \cap taken')
             \cup (IF Unlistened /\ th[t].ok THEN taken' \ taken ELSE {})
             \cup (IF bad THEN taken' \ held' ELSE {})
             \cup (IF bad /\ StopRestores(t) THEN taken' ELSE {})

(* An operation that ends well.                                            *)
ManagerDone(t) ==
  /\ mmu = t /\ mmu' = None
  /\ \/ At(t, "takeover") /\ taken' = Adapters /\ held' = Adapters
     \/ At(t, "restore") /\ taken' = {} /\ held' = {}
     \/ /\ At(t, "takeoverSingle")
        /\ taken' = taken \cup th[t].adapters /\ held' = held \cup th[t].adapters
     \/ /\ At(t, "restoreSingle")
        /\ taken' = taken \ (held \cap th[t].adapters) /\ held' = held \ th[t].adapters
  /\ ThenOk(t, <<>>, TRUE)
  /\ Strays(t, FALSE)
  /\ UNCHANGED <<up, pmu, running, server, lan, query>>

(* One that returns an error: a takeover is refused or rolled back, and a  *)
(* restore, or a rollback, may leave adapters behind.                      *)
Leftovers(S) == IF "restore" \in Faults THEN SUBSET S ELSE {}

ManagerFailed(t) ==
  /\ mmu = t /\ mmu' = None
  /\ \/ /\ \/ At(t, "takeover") /\ taken' \in {taken, {}} \cup Leftovers(Adapters)
           \/ At(t, "takeoverSingle") /\ LET S == th[t].adapters IN
                taken' \in {taken, taken \ S} \cup {(taken \ S) \cup L : L \in Leftovers(S)}
        /\ "takeover" \in Faults
        /\ held' = held
     \/ /\ At(t, "restore") /\ "restore" \in Faults
        /\ taken' \in SUBSET taken
        /\ held' = IF held = {} THEN taken ELSE held
     \/ /\ At(t, "restoreSingle") /\ "restore" \in Faults
        /\ th[t].adapters \subseteq held
        /\ UNCHANGED <<taken, held>>
  /\ ThenOk(t, <<>>, FALSE)
  /\ Strays(t, TRUE)
  /\ UNCHANGED <<up, pmu, running, server, lan, query>>

(* EmergencyRestore goes past m.mu: everything on the loopback is reset,   *)
(* if the reset works; the manager's memory is not.                        *)
EmergencyRestore(t) ==
  /\ At(t, "emergency")
  /\ \/ taken' = {}
     \/ "restore" \in Faults /\ taken' \in SUBSET taken
  /\ stray' = stray \cap taken'
  /\ Then(t, <<>>)
  /\ UNCHANGED <<up, pmu, mmu, running, server, lan, held, query>>

-----------------------------------------------------------------------------
(* GetStatus, under p.mu: the adapters taken over, then the active flag,   *)
(* each under m.mu, and the answer.                                        *)
GetStatus(t) ==
  /\ At(t, "status") /\ pmu = None
  /\ pmu' = t
  /\ Then(t, <<"statusAdapters">>)
  /\ UNCHANGED <<up, mmu, running, server, lan, taken, held, query, stray>>

GetTakenOverAdapters(t) ==
  /\ At(t, "statusAdapters") /\ mmu = None
  /\ Then(t, <<"statusActive">>)
  /\ UNCHANGED <<up, pmu, mmu, running, server, lan, taken, held, query, stray>>

StatusIsTakeoverActive(t) ==
  /\ At(t, "statusActive") /\ mmu = None
  /\ Then(t, <<"statusDone">>)
  /\ UNCHANGED <<up, pmu, mmu, running, server, lan, taken, held, query, stray>>

(* Mutant: the answer is put together after p.mu is locked once more.      *)
MutLockTwice(t) ==
  /\ At(t, "statusDone") /\ pmu = None
  /\ Then(t, <<>>)
  /\ UNCHANGED <<up, pmu, mmu, running, server, lan, taken, held, query, stray>>

StatusDone(t) ==
  /\ At(t, "statusDone")
  /\ pmu' = None
  /\ Then(t, <<>>)
  /\ UNCHANGED <<up, mmu, running, server, lan, taken, held, query, stray>>

(* Mutant: a running listener is not restarted.                            *)
MutKeepListener(t) ==
  /\ At(t, "lan") /\ pmu = None
  /\ lan' = th[t].on
  /\ Then(t, <<>>)
  /\ UNCHANGED <<up, pmu, mmu, running, server, taken, held, query, stray>>

(* ConfigureLAN changes the setting, then restarts a running listener and  *)
(* takes over again if the takeover was active.                            *)
ConfigureLAN(t) ==
  /\ At(t, "lan") /\ pmu = None
  /\ lan' = th[t].on
  /\ Then(t, IF running THEN <<"lanActive", "stop", "start", "lanEnable">> ELSE <<>>)
  /\ UNCHANGED <<up, pmu, mmu, running, server, taken, held, query, stray>>

LANIsTakeoverActive(t) ==
  /\ At(t, "lanActive") /\ mmu = None
  /\ th' = [th EXCEPT ![t].todo = Tail(@), ![t].was = active]
  /\ UNCHANGED <<up, pmu, mmu, running, server, lan, taken, held, query, stray>>

LANEnable(t) ==
  /\ At(t, "lanEnable")
  /\ Then(t, IF th[t].ok /\ th[t].was THEN <<"enable">> ELSE <<>>)
  /\ UNCHANGED <<up, pmu, mmu, running, server, lan, taken, held, query, stray>>

-----------------------------------------------------------------------------
(* The service manager calls Stop once: it restores, stops the listener,   *)
(* and shuts the IPC server down, which takes no new request and waits for *)
(* the ones it is serving; then the process ends.                          *)
Quit(t) ==
  /\ At(t, "quit") /\ mmu = None
  /\ Then(t, IF active THEN <<"restore">> ELSE <<>>)
  /\ UNCHANGED <<up, pmu, mmu, running, server, lan, taken, held, query, stray>>

CloseAPI(t) ==
  /\ At(t, "close") /\ pmu = None
  /\ Then(t, <<>>)
  /\ UNCHANGED <<up, pmu, mmu, running, server, lan, taken, held, query, stray>>

Exit(t) ==
  /\ At(t, "exit")
  /\ \A u \in Threads : th[u].call \in {None, "Run", "Stop"}
  /\ up' = FALSE
  /\ pmu' = None /\ mmu' = None
  /\ running' = FALSE /\ server' = None
  /\ held' = {}
  /\ th' = [u \in Threads |-> Idle]
  /\ query' = [q \in Queries |-> "idle"]
  /\ UNCHANGED <<lan, taken, stray>>

(* run: the self-heal, then StartDNS, then EnableTakeover whether or not   *)
(* the listener came up.  The API is open from the start.                  *)
Run(t) ==
  /\ ~up /\ up' = TRUE
  /\ \/ taken' = {}
     \/ "restore" \in Faults /\ taken' \in SUBSET taken
  /\ th' = [th EXCEPT ![t] = [Idle EXCEPT !.call = "Run",
              !.todo = IF AutoTakeover THEN <<"start", "enable">> ELSE <<"start">>]]
  /\ stray' = taken'
  /\ UNCHANGED <<pmu, mmu, running, server, lan, held, query>>

-----------------------------------------------------------------------------
(* A DNS query in the pipeline: the middlewares before the cache and the   *)
(* response filter after it read the configuration under p.mu.             *)
Arrive(q) ==
  /\ up /\ server # None /\ query[q] = "idle"
  /\ query' = [query EXCEPT ![q] = "before"]
  /\ UNCHANGED <<up, pmu, mmu, running, server, lan, taken, held, th, stray>>

Pipeline(q) ==
  /\ \/ query[q] = "before" /\ pmu = None /\ query' = [query EXCEPT ![q] = "upstream"]
     \/ query[q] = "upstream" /\ query' = [query EXCEPT ![q] = "after"]
     \/ query[q] = "after" /\ pmu = None /\ query' = [query EXCEPT ![q] = "idle"]
  /\ UNCHANGED <<up, pmu, mmu, running, server, lan, taken, held, th, stray>>

-----------------------------------------------------------------------------
Init ==
  /\ up = FALSE
  /\ pmu = None /\ mmu = None
  /\ running = FALSE /\ server = None
  /\ lan \in BOOLEAN
  /\ taken = {} /\ held = {}
  /\ th = [t \in Threads |-> Idle]
  /\ query = [q \in Queries |-> "idle"]
  /\ stray = {}

Step(t) ==
  \/ StartDNS(t) \/ StopDNS(t) \/ StopIsTakeoverActive(t) \/ Notify(t)
  \/ Shutdown(t) \/ Drain(t)
  \/ EnableTakeover(t) \/ ScanAdapters(t) \/ SetAdapterTakeover(t)
  \/ LockManager(t) \/ ManagerDone(t) \/ ManagerFailed(t) \/ EmergencyRestore(t)
  \/ GetStatus(t) \/ GetTakenOverAdapters(t) \/ StatusIsTakeoverActive(t) \/ StatusDone(t)
  \/ ConfigureLAN(t) \/ LANIsTakeoverActive(t) \/ LANEnable(t)
  \/ Quit(t) \/ CloseAPI(t) \/ Exit(t) \/ Return(t)

(* Only ConfigureLAN has a flag, only the single-adapter calls an adapter  *)
(* (None: an identifier no adapter has).                                   *)
Request(t) ==
  \E c \in Calls :
    \/ c = "ConfigureLAN" /\ \E on \in BOOLEAN : Call(t, c, on, {})
    \/ c \in {"TakeoverSingle", "RestoreSingle"} /\ \E a \in Adapters \cup {None} : Call(t, c, FALSE, {a})
    \/ c \notin {"ConfigureLAN", "TakeoverSingle", "RestoreSingle"} /\ Call(t, c, FALSE, {})

Next ==
  \/ \E t \in Threads : Request(t) \/ Step(t) \/ Run(t)
  \/ \E q \in Queries : Arrive(q) \/ Pipeline(q)

Spec == Init /\ [][Next]_vars

(* A goroutine that can go on does.  A Go mutex hands itself to a waiter   *)
(* that has starved, so one that can get the lock again and again does.    *)
FairSpec ==
  /\ Spec
  /\ \A t \in Threads : SF_vars(Step(t))
  /\ \A q \in Queries : SF_vars(Pipeline(q))

-----------------------------------------------------------------------------
TypeOK ==
  /\ up \in BOOLEAN /\ running \in BOOLEAN /\ lan \in BOOLEAN
  /\ pmu \in Threads \cup {None} /\ mmu \in Threads \cup {None}
  /\ server \in BOOLEAN \cup {None}
  /\ taken \subseteq Adapters /\ held \subseteq Adapters /\ stray \subseteq Adapters
  /\ th \in [Threads -> [call : CallKinds \cup {None}, todo : Seq(Steps), on : BOOLEAN,
                         adapters : SUBSET (Adapters \cup {None}), ok : BOOLEAN, was : BOOLEAN]]
  /\ query \in [Queries -> {"idle", "before", "upstream", "after"}]

(* p.mu and m.mu are held by the goroutine that is inside a section of     *)
(* theirs, and by no other: every way out of StopDNS, GetStatus and the    *)
(* manager unlocks, and none unlocks twice.                                *)
InSection(t) ==
  \/ \E s \in {"stopActive", "notify", "shutdown", "drain",
               "statusAdapters", "statusActive", "statusDone"} : At(t, s)
  \/ StopRestores(t)

LocksMatchSteps ==
  /\ TypeOK
  /\ \A t \in Threads : pmu = t <=> InSection(t)
  /\ \A t \in Threads : mmu = t => \E s \in ManagerSteps : At(t, s)

(* A listener that is open was started with the LAN setting in force,      *)
(* unless a ConfigureLAN is still on its way to restarting it: two of      *)
(* them, and starts and stops between their steps, never leave an old      *)
(* binding behind (ConfigureLAN against StartDNS and StopDNS).             *)
ListenerFollowsConfig ==
  server # None /\ server # lan =>
    \E t \in Threads : th[t].call = "ConfigureLAN" /\ \E i \in DOMAIN th[t].todo : th[t].todo[i] = "start"

(* No adapter points at this machine while nothing listens (what StopDNS's *)
(* comment calls its key protection, controller_dns.go:85, and             *)
(* EnableTakeover's start is for), over all calls and faults, but for      *)
(* those with a cause that the code leaves open: one taken over after      *)
(* EnableTakeover had made sure of the listener, or without asking for it, *)
(* while the listener was closed or its StopDNS had already looked at the  *)
(* manager; and one that a failing restore, rollback or self-heal left     *)
(* there (Strays, Run).  In particular a listener that opens takes         *)
(* charge of every adapter the manager remembers, and the next StopDNS     *)
(* restores it.                                                            *)
NeverCutOff ==
  up /\ server = None => taken \subseteq stray

(* Every call of the controller returns, so no lock is held for ever.      *)
CallsReturn ==
  \A t \in Threads : th[t].call # None ~> th[t].call = None

(* A StopDNS returns.                                                      *)
StopReturns ==
  \A t \in Threads : th[t].call = "StopDNS" ~> th[t].call = None

(* Every query is answered, whatever the controller does meanwhile.        *)
QueriesEnd ==
  \A q \in Queries : query[q] # "idle" ~> query[q] = "idle"

(* No caller of the controller and no query is kept waiting for ever by    *)
(* the two locks and the drain.                                            *)
EveryoneReturns == CallsReturn /\ QueriesEnd
=============================================================================
