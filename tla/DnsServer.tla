----------------------------- MODULE DnsServer -----------------------------
(***************************************************************************)
(* The DNS server of the desktop service (internal/dns/server*.go,         *)
(* dot_conn.go, doq_conn.go) and the calls that start, stop and reload it  *)
(* (cmd/service/controller_dns.go, controller_encrypted.go,                *)
(* controller_dot.go).  Each StartDNS makes a new Server with one plain    *)
(* listener set and an optional DoT, DoH and DoQ listener; a change of the *)
(* encrypted configuration closes and reopens only the encrypted ones,     *)
(* while connections are accepted, queries run and a stop may come.        *)
(*                                                                         *)
(* Three locks matter: p.mu, held by StartDNS and StopDNS throughout and   *)
(* taken by the middlewares of every query; s.mu, which makes the steps    *)
(* below atomic; and reloadMu, held by one reload of a server at a time.   *)
(***************************************************************************)
EXTENDS Naturals, FiniteSets

CONSTANTS
  Callers,       \* threads that serve StopDNS and ConfigureEncryptedDNS
  Conns,         \* client connections
  Configs,       \* encrypted configurations: the protocols and the port
  Busy,          \* protocol and port pairs another program occupies
  Addresses, V6, \* the plain addresses, and those that are IPv6
  Entries,       \* the protocols clients use
  MaxStarts, MaxCalls, MaxQueries   \* bounds

Encrypted == {"dot", "doh", "doq"}
Protos    == {"plain"} \cup Encrypted
NoCfg     == [protos |-> {}, port |-> 0]   \* buildEncryptedServerConfig made nil

(* What a message may be: a single standard question, one with another     *)
(* number of questions or the answer bit set, one with an Id where DoQ     *)
(* wants 0, and bytes that are no message.                                 *)
Messages == {"standard", "multi", "id", "garbage"}

ASSUME ServerAssumption ==
  /\ NoCfg \in Configs /\ Configs \subseteq [protos : SUBSET Encrypted, port : Nat]
  /\ "free" \notin Callers
  /\ Busy \subseteq Encrypted \X Nat /\ V6 \subseteq Addresses /\ Entries \subseteq Protos
  /\ MaxStarts \in Nat /\ MaxCalls \in Nat /\ MaxQueries \in Nat

VARIABLES
  pmu,     \* who holds p.mu, or "free"
  server,  \* p.server as its number, 0 for nil; p.dnsRunning is server # 0
  want,    \* p.cfg.Encrypted, as buildEncryptedServerConfig reads it
  srv,     \* the Server objects made so far
  open,    \* the listening sockets of this process
  conn,    \* the connections
  call,    \* what each caller does
  left     \* what is left of the bounds

vars == <<pmu, server, want, srv, open, conn, call, left>>

Gens     == 1 .. MaxStarts
(* A listening socket; "late" is history: it was opened for a server that  *)
(* had been shut down already.                                             *)
Listener == [gen : Gens, proto : Protos, port : Nat, round : Nat, late : BOOLEAN]
NoListener == [gen |-> 0, proto |-> "plain", port |-> 0, round |-> 0, late |-> FALSE]
NoConn   == [at |-> "none", l |-> NoListener, up |-> FALSE, msg |-> "none"]
Idle     == [op |-> "none", at |-> "idle", gen |-> 0, cfg |-> NoCfg, old |-> {}, cur |-> {}]
(* "clash" and "overtaken" are history, see OtherServer and ReloadEncrypted.*)
NoServer == [started |-> FALSE, closed |-> FALSE, enc |-> NoCfg, slot |-> {},
             reload |-> "free", round |-> 0, clash |-> {}, overtaken |-> FALSE]

Serving(g) == srv[g].started /\ ~srv[g].closed
Of(l)      == {k \in Conns : conn[k].at # "none" /\ conn[k].l = l}
Free       == pmu = "free"

Init ==
  /\ pmu = "free" /\ server = 0 /\ want \in Configs
  /\ srv = [g \in Gens |-> NoServer] /\ open = {}
  /\ conn = [k \in Conns |-> NoConn] /\ call = [k \in Callers |-> Idle]
  /\ left = [starts |-> MaxStarts, calls |-> MaxCalls, queries |-> MaxQueries]

-----------------------------------------------------------------------------
(* Starting.                                                               *)
(* Binding one encrypted listener per enabled protocol; one that cannot be *)
(* bound is only logged, and a start overwrites the field of its protocol. *)
Bindable(p, port) == /\ <<p, port>> \notin Busy
                     /\ ~\E l \in open : l.proto = p /\ l.port = port

Startable(cfg) == {p \in cfg.protos : Bindable(p, cfg.port)}

Started(g, cfg) == {[gen |-> g, proto |-> p, port |-> cfg.port, round |-> srv[g].round + 1,
                     late |-> srv[g].closed] : p \in Startable(cfg)}

(* History: the protocols whose port a listener of another server holds.   *)
OtherServer(g, cfg) ==
  {p \in cfg.protos : \E l \in open : l.proto = p /\ l.port = cfg.port /\ l.gen # g}

StartEncryptedListeners(g, cfg, s) ==
  LET new == Started(g, cfg)
  IN  [s EXCEPT !.enc = cfg, !.round = @ + 1, !.clash = OtherServer(g, cfg),
                !.slot = {l \in @ : l.proto \notin Startable(cfg)} \cup new]

(* Server.Start: every IPv4 address must be bound and one at least; what   *)
(* was bound before a failure is closed again.                             *)
Bound(bound) == Addresses \ V6 \subseteq bound /\ bound # {}

StartDNS ==
  /\ Free /\ server = 0 /\ left.starts > 0
  /\ left' = [left EXCEPT !.starts = @ - 1]
  /\ \E bound \in SUBSET Addresses :
       LET g     == MaxStarts - left.starts + 1
           plain == [gen |-> g, proto |-> "plain", port |-> 53, round |-> 0, late |-> FALSE]
           s     == [NoServer EXCEPT !.started = TRUE, !.slot = {plain}]
       IN  IF Bound(bound)
             THEN /\ server' = g
                  /\ srv' = [srv EXCEPT ![g] = StartEncryptedListeners(g, want, s)]
                  /\ open' = open \cup {plain} \cup Started(g, want)
             ELSE UNCHANGED <<server, srv, open>>
  /\ UNCHANGED <<pmu, want, conn, call>>

-----------------------------------------------------------------------------
(* Closing.  A caller closes the listeners in "old" one after the other:   *)
(* the socket first, then the connections it tracks, then it waits for the *)
(* handlers, three seconds at most.                                        *)
Order == [plain |-> 0, dot |-> 1, doh |-> 2, doq |-> 3]
First(ls) == CHOOSE l \in ls : \A m \in ls : Order[l.proto] <= Order[m.proto]

(* dotListener.close and doqListener.close cut every tracked connection,   *)
(* http.Server.Shutdown only the idle ones, dns.Server.Shutdown expires    *)
(* the reads.                                                              *)
CutBy(l) == {k \in Of(l) : \/ conn[k].at = "serving"
                           \/ conn[k].at = "query" /\ l.proto \in {"dot", "doq"}}
Cut(ks)  == [k \in Conns |-> IF k \in ks THEN [conn[k] EXCEPT !.up = FALSE] ELSE conn[k]]

CloseListener(k) ==
  /\ call[k].at = "close" /\ call[k].old # {}
  /\ LET l == First(call[k].old)
     IN  /\ open' = open \ {l}
         /\ conn' = Cut(CutBy(l))
         /\ call' = [call EXCEPT ![k].at = "drain", ![k].old = @ \ {l}, ![k].cur = {l}]
  /\ UNCHANGED <<pmu, server, want, srv, left>>

(* Mutant: no time limit on the handlers.                                  *)
MutPatience(l) == FALSE

(* After three seconds the encrypted listeners stop waiting for handlers.  *)
Patience(l) == l.proto \in Encrypted

(* The handlers are gone, or the three seconds are over; closeHTTP then    *)
(* cuts what is left.  The plain servers of miekg/dns wait without limit.  *)
Drain(k) ==
  /\ call[k].at = "drain"
  /\ \E l \in call[k].cur :
       /\ Of(l) = {} \/ Patience(l)
       /\ conn' = IF l.proto = "doh" THEN Cut(Of(l)) ELSE conn
  /\ call' = [call EXCEPT ![k].at = "close", ![k].cur = {}]
  /\ UNCHANGED <<pmu, server, want, srv, open, left>>

-----------------------------------------------------------------------------
(* StopDNS and Server.Shutdown.                                            *)
StopDNS(k) ==
  /\ Free /\ server # 0 /\ call[k] = Idle /\ left.calls > 0
  /\ left' = [left EXCEPT !.calls = @ - 1]
  /\ pmu' = k
  /\ call' = [call EXCEPT ![k] = [Idle EXCEPT !.op = "stop", !.at = "close", !.gen = server,
                                             !.old = srv[server].slot]]
  /\ srv' = [srv EXCEPT ![server].closed = TRUE, ![server].started = FALSE,
                        ![server].slot = {}]
  /\ UNCHANGED <<server, want, open, conn>>

(* All closed: wait for the queries, three seconds at most, and return.    *)
Stopped(k) ==
  /\ call[k].op = "stop" /\ call[k].at = "close" /\ call[k].old = {}
  /\ server' = 0 /\ pmu' = "free"
  /\ call' = [call EXCEPT ![k] = Idle]
  /\ UNCHANGED <<want, srv, open, conn, left>>

-----------------------------------------------------------------------------
(* ConfigureEncryptedDNS (a new certificate, GenerateEncryptedCert and     *)
(* ImportEncryptedCert, reloads the configuration there is): the change    *)
(* under p.mu, then reloadDNSWithCurrentConfig.                            *)
ConfigureEncryptedDNS(k) ==
  /\ Free /\ call[k] = Idle /\ left.calls > 0
  /\ left' = [left EXCEPT !.calls = @ - 1]
  /\ want' \in Configs
  /\ call' = [call EXCEPT ![k] = [Idle EXCEPT !.op = "reload", !.at = "snapshot"]]
  /\ UNCHANGED <<pmu, server, srv, open, conn>>

(* The snapshot of server and configuration, under p.mu again.             *)
ReloadDNSWithCurrentConfig(k) ==
  /\ Free /\ call[k].at = "snapshot"
  /\ call' = [call EXCEPT ![k] = IF server = 0 THEN Idle
                                 ELSE [@ EXCEPT !.at = "lock", !.gen = server, !.cfg = want]]
  /\ UNCHANGED <<pmu, server, want, srv, open, conn, left>>

(* Mutant: two reloads run side by side.                                   *)
MutReloadLocked(g) == FALSE

ReloadLocked(g) == srv[g].reload # "free"

(* ReloadEncrypted takes the listeners out of the fields under s.mu ...    *)
(* History: whether the configuration had been changed again since this    *)
(* reload took its snapshot; a reload of that change may be over already.  *)
ReloadEncrypted(k) ==
  /\ call[k].at = "lock" /\ ~ReloadLocked(call[k].gen)
  /\ LET g   == call[k].gen
         enc == {l \in srv[g].slot : l.proto \in Encrypted}
     IN  /\ srv' = [srv EXCEPT ![g].reload = k, ![g].slot = @ \ enc, ![g].enc = call[k].cfg,
                               ![g].overtaken = (call[k].cfg # want)]
         /\ call' = [call EXCEPT ![k].at = "close", ![k].old = enc]
  /\ UNCHANGED <<pmu, server, want, open, conn, left>>

(* ... closes them, and looks whether the server still runs.  No lock is   *)
(* held between this look and the start that follows.                      *)
StillServing(k) ==
  /\ call[k].op = "reload" /\ call[k].at = "close" /\ call[k].old = {}
  /\ LET g == call[k].gen
     IN  IF call[k].cfg = NoCfg \/ ~Serving(g)
           THEN /\ srv' = [srv EXCEPT ![g].reload = "free"]
                /\ call' = [call EXCEPT ![k] = Idle]
           ELSE call' = [call EXCEPT ![k].at = "start"] /\ UNCHANGED srv
  /\ UNCHANGED <<pmu, server, want, open, conn, left>>

Restart(k) ==
  /\ call[k].at = "start"
  /\ LET g == call[k].gen
     IN  /\ open' = open \cup Started(g, call[k].cfg)
         /\ srv' = [srv EXCEPT ![g] = [StartEncryptedListeners(g, call[k].cfg, @)
                                         EXCEPT !.reload = "free"]]
  /\ call' = [call EXCEPT ![k] = Idle]
  /\ UNCHANGED <<pmu, server, want, conn, left>>

-----------------------------------------------------------------------------
(* Connections.                                                            *)
(* The accept loops of DoT and DoQ run while the server serves, the others *)
(* while the socket is open.                                               *)
Accept(k) ==
  /\ conn[k].at = "none" /\ left.queries > 0
  /\ \E l \in open :
       /\ l.proto \in Entries /\ (l.proto \in {"dot", "doq"} => Serving(l.gen))
       /\ conn' = [conn EXCEPT ![k] = [at |-> "accepted", l |-> l, up |-> TRUE, msg |-> "none"]]
  /\ UNCHANGED <<pmu, server, want, srv, open, call, left>>

(* Mutant: the connection is tracked although the listener closes.         *)
MutTrack(k) == TRUE

(* track: a listener whose close began takes no connection any more.       *)
Track(k) == conn[k].l \in open

(* The handshake ends, well or not; a tracked connection is served.        *)
Handshake(k) ==
  /\ conn[k].at = "accepted"
  /\ \/ Track(k) /\ conn' = [conn EXCEPT ![k].at = "serving"]
     \/ conn' = [conn EXCEPT ![k] = NoConn]
  /\ UNCHANGED <<pmu, server, want, srv, open, call, left>>

(* What an entry does with a message: hand it to the pipeline, answer it   *)
(* with a failure (a 400 on DoH), or close the connection.                 *)
Verdict(p, m) ==
  CASE p = "plain" -> IF m \in {"standard", "id"} THEN "handle" ELSE "reject"
    [] p = "dot"   -> IF m = "garbage" THEN "close" ELSE "handle"
    [] p = "doh"   -> IF m \in {"standard", "id"} THEN "handle" ELSE "reject"
    [] p = "doq"   -> IF m \in {"standard", "multi"} THEN "handle" ELSE "close"

(* A message is read; after Shutdown it is answered with a failure.        *)
Read(k) ==
  /\ conn[k].at = "serving" /\ conn[k].up /\ left.queries > 0
  /\ left' = [left EXCEPT !.queries = @ - 1]
  /\ \E m \in Messages :
       LET v == Verdict(conn[k].l.proto, m)
       IN  conn' = CASE v = "close" -> [conn EXCEPT ![k] = NoConn]
                     [] v = "handle" /\ ~srv[conn[k].l.gen].closed ->
                          [conn EXCEPT ![k].at = "query", ![k].msg = m]
                     [] OTHER -> conn
  /\ UNCHANGED <<pmu, server, want, srv, open, call>>

(* handleQuery: the pipeline, whose middlewares take p.mu, and the answer, *)
(* dropped when the connection is closed; a DoH server that shuts down     *)
(* closes the connection after it.                                         *)
HandleQuery(k) ==
  /\ conn[k].at = "query" /\ Free
  /\ conn' = [conn EXCEPT ![k] = IF conn[k].l.proto = "doh" /\ conn[k].l \notin open THEN NoConn
                                 ELSE [@ EXCEPT !.at = "serving", !.msg = "none"]]
  /\ UNCHANGED <<pmu, server, want, srv, open, call, left>>

(* serve returns: the peer or a close ended the connection, the read timed *)
(* out, or the server stopped; the connection is closed and untracked.     *)
EndConn(k) ==
  /\ conn[k].at = "serving"
  /\ conn' = [conn EXCEPT ![k] = NoConn]
  /\ UNCHANGED <<pmu, server, want, srv, open, call, left>>

-----------------------------------------------------------------------------
Steps(k) == \/ CloseListener(k) \/ Drain(k) \/ Stopped(k) \/ ReloadDNSWithCurrentConfig(k)
            \/ ReloadEncrypted(k) \/ StillServing(k) \/ Restart(k)

Next == \/ StartDNS
        \/ \E k \in Callers : StopDNS(k) \/ ConfigureEncryptedDNS(k) \/ Steps(k)
        \/ \E k \in Conns : Accept(k) \/ Handshake(k) \/ Read(k) \/ HandleQuery(k) \/ EndConn(k)

Spec == Init /\ [][Next]_vars

(* Threads are scheduled, and every handshake, read and pipeline run has a *)
(* deadline.  Callers are finitely many here, so a mutex that is released  *)
(* is free for good in the end and weak fairness is enough for its waiters.*)
FairSpec ==
  /\ Spec
  /\ \A k \in Callers : WF_vars(Steps(k))
  /\ \A k \in Conns : WF_vars(Handshake(k)) /\ WF_vars(HandleQuery(k)) /\ WF_vars(EndConn(k))

-----------------------------------------------------------------------------
(* Types; a server's fields hold at most one listener of each protocol,    *)
(* and p.mu and reloadMu are held by a stop and by a reload under way.     *)
TypeOK ==
  /\ pmu \in Callers \cup {"free"} /\ server \in 0 .. MaxStarts /\ want \in Configs
  /\ \A g \in Gens :
       /\ srv[g].enc \in Configs /\ srv[g].reload \in Callers \cup {"free"}
       /\ srv[g].slot \subseteq Listener
       /\ \A l, m \in srv[g].slot : l.proto = m.proto => l = m
  /\ open \subseteq Listener
  /\ \A k \in Conns : /\ conn[k].at \in {"none", "accepted", "serving", "query"}
                      /\ conn[k].at # "none" => conn[k].l \in Listener
  /\ \A k \in Callers : call[k].at \in {"idle", "snapshot", "lock", "close", "drain", "start"}
  /\ {k \in Callers : call[k].op = "stop"} = {pmu} \ {"free"}
  /\ \A g \in Gens : srv[g].reload # "free" => call[srv[g].reload].gen = g

(* No socket is lost: every listener that is open is in a field of the     *)
(* server that runs, where the next reload or stop finds it, or a reload   *)
(* or stop under way is about to close it.  There is one exception, which  *)
(* the code has: the look at started and closed (server.go:96) and the     *)
(* start after it are not one step, so a reload that looked before         *)
(* Shutdown (server.go:400) and starts after it opens sockets for a server *)
(* nobody will stop again.  No other order of calls loses one.             *)
NoLostListener ==
  \A l \in open : \/ l.gen = server /\ Serving(server) /\ l \in srv[server].slot
                  \/ \E k \in Callers : l \in call[k].old
                  \/ l.late

(* When a listener has been closed, by a reload or a stop, none of its     *)
(* tracked DoT or DoQ connections is left open, a connection whose         *)
(* handshake ends later included.                                          *)
ClosedListenerKeepsNoConn ==
  \A k \in Conns :
    /\ conn[k].at \in {"serving", "query"} /\ conn[k].l.proto \in {"dot", "doq"}
    /\ conn[k].l \notin open
    => ~conn[k].up

(* Once every change of the configuration has been carried out and nobody  *)
(* stops the server, the encrypted listeners are those the configuration   *)
(* of the service asks for, on its port: a protocol that was switched off  *)
(* no longer listens, and one that is on does unless its port was taken,   *)
(* by another program or by a listener left behind on a stopped server.    *)
(* The one exception the code has: of two changes that overlap the reload  *)
(* of the older one may come second, and what it brings up stays           *)
(* (controller_dot.go:97-110 takes the snapshot before reloadMu).         *)
Settled == /\ server # 0 /\ pmu = "free"
           /\ \A k \in Callers :
                call[k].op = "reload" => call[k].at # "snapshot" /\ call[k].gen # server

Listens(p) == \E l \in srv[server].slot : l.proto = p /\ l.port = want.port

EnabledMeansListening ==
  Settled /\ ~srv[server].overtaken =>
    /\ \A p \in want.protos :
         Listens(p) \/ <<p, want.port>> \in Busy \/ p \in srv[server].clash
    /\ \A l \in srv[server].slot : l.proto \in Encrypted => l.proto \in want.protos /\ Listens(l.proto)

(* The sockets that are open are the ones the configuration asks for, and  *)
(* somebody owns each of them.                                             *)
ListenersAccounted == TypeOK /\ NoLostListener /\ EnabledMeansListening

(* StopDNS, which holds p.mu, waits in the Shutdown of a plain listener    *)
(* for a query that needs p.mu (cleanupServers, server.go:428-431).        *)
StopHangs ==
  \E k \in Callers : /\ call[k].op = "stop" /\ call[k].at = "drain"
                     /\ \E l \in call[k].cur : /\ l.proto = "plain"
                                                /\ \E c \in Of(l) : conn[c].at = "query"

(* Every StopDNS and every ConfigureEncryptedDNS returns, whatever         *)
(* connections and queries of the encrypted entries it meets: each wait    *)
(* for their handlers ends after three seconds (server.go:412-423).  The   *)
(* wait for the plain handlers has no limit, and the one way in which a    *)
(* call does not return is that one: a plain query under way at a stop.    *)
CallsReturn == \A k \in Callers : call[k] # Idle ~> call[k] = Idle \/ StopHangs
=============================================================================
