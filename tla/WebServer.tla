------------------------------ MODULE WebServer ------------------------------
(***************************************************************************)
(* The administration server (internal/ipc): the hub goroutine that sends  *)
(* events to WebSocket subscribers, the two pumps of each subscriber, and  *)
(* the restart by which ConfigureWeb moves the server to another address.  *)
(***************************************************************************)
EXTENDS Naturals, Sequences

CONSTANTS Subs,         \* WebSocket subscribers
          SendCap,      \* capacity of client.send
          EventCap,     \* capacity of s.broadcast
          MaxEvents,    \* bound: events that are broadcast
          Tasks,        \* calls of ConfigureWeb
          Addresses,    \* listen addresses: [lan, port]
          MaxBindFaults \* bound: ports that some other program holds

VARIABLES
  stopCh,     \* s.stopCh is closed
  hub,        \* the hub goroutine runs
  clients,    \* s.clients
  queue,      \* events in s.broadcast
  events,
  sub,        \* subscriber -> its handler, its pumps, its channel and connection
  panicked,   \* history: a closed channel was closed again or sent to
  webCfg,     \* p.cfg.Web and p.cfg.IPC.ListenAddress
  servers,    \* the servers made so far: [addr, state]
  ipcServer,  \* p.ipcServer
  task,       \* the ConfigureWeb calls and the goroutines they start
  overlap,    \* history: two of them were under way at once
  bindFaults

hubVars == <<stopCh, hub, clients, queue, events, sub, panicked>>
restartVars == <<webCfg, servers, ipcServer, task, overlap, bindFaults>>
webVars == <<hubVars, restartVars>>

NewSub == [handler |-> "idle", read |-> "none", write |-> "none",
           sent |-> 0, closed |-> FALSE, conn |-> TRUE, slow |-> 0]
NewTask == [pc |-> "idle", old |-> 0, addr |-> CHOOSE a \in Addresses : TRUE, moved |-> FALSE]

WebInit ==
  /\ stopCh = FALSE /\ hub = TRUE /\ clients = {} /\ queue = 0 /\ events = 0
  /\ sub = [c \in Subs |-> NewSub] /\ panicked = FALSE
  /\ webCfg \in Addresses
  /\ servers = <<[addr |-> webCfg, state |-> "listening"]>> /\ ipcServer = 1
  /\ task = [t \in Tasks |-> NewTask] /\ overlap = FALSE /\ bindFaults = 0

(* --- the hub ---                                                         *)

\* Broadcast never waits: an event that finds the buffer full is dropped.
Broadcast ==
  /\ events < MaxEvents /\ events' = events + 1
  /\ queue' = IF queue < EventCap THEN queue + 1 ELSE queue
  /\ UNCHANGED <<stopCh, hub, clients, sub, panicked, restartVars>>

\* handleEvents: the subscriber waits for the hub to take it.
HandleEvents(c) ==
  /\ sub[c].handler = "idle" /\ sub' = [sub EXCEPT ![c].handler = "register"]
  /\ UNCHANGED <<stopCh, hub, clients, queue, events, panicked, restartVars>>

HubRegister(c) ==
  /\ hub /\ sub[c].handler = "register"
  /\ clients' = clients \cup {c}
  /\ sub' = [sub EXCEPT ![c].handler = "done", ![c].read = "run", ![c].write = "run"]
  /\ UNCHANGED <<stopCh, hub, queue, events, panicked, restartVars>>

\* ... or for the end of the server.
RefuseLate(c) ==
  /\ stopCh /\ sub[c].handler = "register"
  /\ sub' = [sub EXCEPT ![c].handler = "done", ![c].conn = FALSE]
  /\ UNCHANGED <<stopCh, hub, clients, queue, events, panicked, restartVars>>

CloseSend(c) == [sub[c] EXCEPT !.closed = TRUE, !.conn = FALSE]

MutHubUnregister(c) ==
  /\ hub /\ (sub[c].read = "unregister" \/ sub[c].slow > 0)
  /\ clients' = clients \ {c}
  /\ panicked' = (panicked \/ sub[c].closed)
  /\ sub' = [sub EXCEPT ![c] =
       IF sub[c].read = "unregister" THEN [CloseSend(c) EXCEPT !.read = "end"]
       ELSE [CloseSend(c) EXCEPT !.slow = @ - 1]]
  /\ UNCHANGED <<stopCh, hub, queue, events, restartVars>>

\* An unregistration, of the read pump or of a goroutine that found the
\* subscriber too slow; only the first one closes the channel.
HubUnregister(c) ==
  LET after == IF c \in clients THEN CloseSend(c) ELSE sub[c]
  IN  /\ hub
      /\ \/ sub[c].read = "unregister" /\ sub' = [sub EXCEPT ![c] = [after EXCEPT !.read = "end"]]
         \/ sub[c].slow > 0 /\ sub' = [sub EXCEPT ![c] = [after EXCEPT !.slow = @ - 1]]
      /\ panicked' = (panicked \/ (c \in clients /\ sub[c].closed))
      /\ clients' = clients \ {c}
      /\ UNCHANGED <<stopCh, hub, queue, events, restartVars>>

\* One event to every subscriber; a full channel starts a goroutine that
\* unregisters the subscriber.
HubBroadcast ==
  /\ hub /\ queue > 0 /\ queue' = queue - 1
  /\ panicked' = (panicked \/ \E c \in clients : sub[c].closed)
  /\ sub' = [c \in Subs |->
       IF c \notin clients THEN sub[c]
       ELSE IF sub[c].sent < SendCap THEN [sub[c] EXCEPT !.sent = @ + 1]
       ELSE [sub[c] EXCEPT !.slow = @ + 1]]
  /\ UNCHANGED <<stopCh, hub, clients, events, restartVars>>

HubStop ==
  /\ hub /\ stopCh /\ hub' = FALSE
  /\ panicked' = (panicked \/ \E c \in clients : sub[c].closed)
  /\ sub' = [c \in Subs |-> IF c \in clients THEN CloseSend(c) ELSE sub[c]]
  /\ clients' = {}
  /\ UNCHANGED <<stopCh, queue, events, restartVars>>

(* --- the pumps ---                                                       *)

SubOnly == UNCHANGED <<stopCh, hub, clients, queue, events, panicked, restartVars>>

\* The peer closes, breaks or times out.
PeerGone(c) ==
  /\ sub[c].conn /\ sub[c].handler = "done"
  /\ sub' = [sub EXCEPT ![c].conn = FALSE] /\ SubOnly

ReadPump(c) ==
  /\ sub[c].read = "run" /\ ~sub[c].conn
  /\ sub' = [sub EXCEPT ![c].read = "unregister"] /\ SubOnly

MutReadEnds(c) == FALSE /\ sub[c].read = "unregister" /\ UNCHANGED webVars

\* A pump that wants to unregister ends with the server.
ReadEnds(c) ==
  /\ stopCh /\ sub[c].read = "unregister"
  /\ sub' = [sub EXCEPT ![c].read = "end"] /\ SubOnly

SlowEnds(c) ==
  /\ stopCh /\ sub[c].slow > 0
  /\ sub' = [sub EXCEPT ![c].slow = @ - 1] /\ SubOnly

\* The write pump takes an event; a write to a closed connection ends it, and
\* so does the next ping or a closed channel.
WritePump(c) ==
  /\ sub[c].write = "run"
  /\ \/ sub[c].sent > 0 /\ sub[c].conn /\ sub' = [sub EXCEPT ![c].sent = @ - 1]
     \/ ~sub[c].conn /\ sub' = [sub EXCEPT ![c].write = "end"]
  /\ SubOnly

(* --- Shutdown ---                                                        *)

Shutdown ==
  /\ ~stopCh /\ stopCh' = TRUE
  /\ UNCHANGED <<hub, clients, queue, events, sub, panicked, restartVars>>

(* --- ConfigureWeb ---                                                    *)

Busy == {t \in Tasks : task[t].pc \notin {"idle", "done"}}
TaskStep(t, pc) == task' = [task EXCEPT ![t].pc = pc]
Listening == {i \in DOMAIN servers : servers[i].state = "listening"}

\* Under p.mu: the new address is set and saved.
ConfigureWeb(t, a) ==
  /\ task[t].pc = "idle"
  /\ webCfg' = a /\ overlap' = (overlap \/ Busy # {})
  /\ task' = [task EXCEPT ![t] = [pc |-> "capture", old |-> 0, addr |-> a, moved |-> a # webCfg]]
  /\ UNCHANGED <<servers, ipcServer, bindFaults, hubVars>>

\* Under p.mu again, after the firewall: the server to be replaced.
Capture(t) ==
  /\ task[t].pc = "capture"
  /\ task' = [task EXCEPT ![t].old = ipcServer,
                          ![t].pc = IF task[t].moved THEN "shutdown" ELSE "done"]
  /\ UNCHANGED <<webCfg, servers, ipcServer, overlap, bindFaults, hubVars>>

ShutdownOld(t) ==
  /\ task[t].pc = "shutdown" /\ TaskStep(t, "start")
  /\ servers' = [servers EXCEPT ![task[t].old].state = "shut"]
  /\ UNCHANGED <<webCfg, ipcServer, overlap, bindFaults, hubVars>>

\* A port has one listener; a server that cannot bind is given up.
StartNew(t) ==
  LET a == task[t].addr
      taken == \E i \in Listening : servers[i].addr.port = a.port
  IN  /\ task[t].pc = "start"
      /\ \/ /\ ~taken
            /\ servers' = Append(servers, [addr |-> a, state |-> "listening"])
            /\ task' = [task EXCEPT ![t].pc = "publish", ![t].old = Len(servers) + 1]
            /\ UNCHANGED bindFaults
         \/ /\ taken \/ bindFaults < MaxBindFaults
            /\ bindFaults' = IF taken THEN bindFaults ELSE bindFaults + 1
            /\ TaskStep(t, "done") /\ UNCHANGED servers
      /\ UNCHANGED <<webCfg, ipcServer, overlap, hubVars>>

MutPublish(t) ==
  /\ task[t].pc = "publish" /\ TaskStep(t, "done")
  /\ UNCHANGED <<ipcServer, webCfg, servers, overlap, bindFaults, hubVars>>

Publish(t) ==
  /\ task[t].pc = "publish" /\ TaskStep(t, "done")
  /\ ipcServer' = task[t].old
  /\ UNCHANGED <<webCfg, servers, overlap, bindFaults, hubVars>>

(* --- the specification ---                                               *)

RestartStep(t) == Capture(t) \/ ShutdownOld(t) \/ StartNew(t) \/ Publish(t)

HubNext ==
  \/ Broadcast \/ HubBroadcast \/ HubStop \/ Shutdown
  \/ \E c \in Subs :
       \/ HandleEvents(c) \/ HubRegister(c) \/ RefuseLate(c) \/ HubUnregister(c)
       \/ PeerGone(c) \/ ReadPump(c) \/ ReadEnds(c) \/ SlowEnds(c) \/ WritePump(c)

RestartNext ==
  \E t \in Tasks : RestartStep(t) \/ \E a \in Addresses : ConfigureWeb(t, a)

WebNext == HubNext \/ RestartNext

\* Goroutines that can move do; a ping goes out every 30 seconds.
WebFairness ==
  /\ WF_webVars(HubStop)
  /\ \A c \in Subs :
       /\ WF_webVars(ReadPump(c)) /\ WF_webVars(ReadEnds(c)) /\ WF_webVars(WritePump(c))
       /\ WF_webVars(RefuseLate(c)) /\ WF_webVars(SlowEnds(c))
       /\ WF_webVars(HubUnregister(c)) /\ WF_webVars(HubRegister(c))

(* --- properties ---                                                      *)

\* The hub never sends on a channel it has closed and never closes one twice,
\* however the read pump, the goroutines for slow subscribers and the end of
\* the server race to remove the same subscriber (server_ws.go:40-83).
HubNeverPanics == ~panicked

\* Once the server is shut down every subscriber is let go and its pumps end
\* (server_ws.go:85-161).
PumpsEnd ==
  \A c \in Subs : []<>(stopCh /\ sub[c].handler # "idle" =>
    sub[c].handler = "done" /\ sub[c].read \in {"none", "end"} /\ sub[c].write \in {"none", "end"})

\* When no ConfigureWeb is under way, no two of them overlapped and every port
\* could be bound, one server listens: the one p.ipcServer points to, at the
\* configured address (controller_web.go:77-145).
ConsoleFollowsConfig ==
  Busy = {} /\ ~overlap /\ bindFaults = 0 =>
    Listening = {ipcServer} /\ servers[ipcServer].addr = webCfg
=============================================================================
