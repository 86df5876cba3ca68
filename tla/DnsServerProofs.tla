-------------------------- MODULE DnsServerProofs --------------------------
(***************************************************************************)
(* What the DNS server keeps for any number of callers, connections,       *)
(* configurations and restarts: no listening socket is lost between stops  *)
(* and reloads that interleave, every enabled protocol listens once nobody *)
(* works on the server, and a closed listener has no open connection left. *)
(***************************************************************************)
EXTENDS DnsServer, TLAPS

-----------------------------------------------------------------------------
(* The inductive invariant.                                                *)

Server == [started : BOOLEAN, closed : BOOLEAN, enc : Configs, slot : SUBSET Listener,
           reload : Callers \cup {"free"}, round : Nat, clash : SUBSET Protos, overtaken : BOOLEAN]
CallRec == [op : {"none", "stop", "reload"},
            at : {"idle", "snapshot", "lock", "close", "drain", "start"},
            gen : 0..MaxStarts, cfg : Configs, old : SUBSET Listener, cur : SUBSET Listener]
ConnRec == [at : {"none", "accepted", "serving", "query"}, l : Listener \cup {NoListener},
            up : BOOLEAN, msg : Messages \cup {"none"}]

Types ==
  /\ pmu \in Callers \cup {"free"} /\ server \in 0..MaxStarts /\ want \in Configs
  /\ srv \in [Gens -> Server] /\ open \subseteq Listener
  /\ conn \in [Conns -> ConnRec] /\ call \in [Callers -> CallRec]
  /\ \A k \in Conns : conn[k].at # "none" => conn[k].l \in Listener
  /\ left \in [starts : 0..MaxStarts, calls : Nat, queries : Nat]

(* The servers made so far; the numbers above are for the ones to come.    *)
Made == MaxStarts - left.starts
Unmade ==
  /\ server <= Made /\ \A k \in Callers : call[k].gen <= Made
  /\ \A g \in Gens : g > Made => srv[g] = NoServer

(* Where the callers are: a stop has p.mu, and only a close under way has  *)
(* listeners in its hands.                                                 *)
Phases ==
  /\ \A k \in Callers : call[k].op = "stop" <=> pmu = k
  /\ \A k \in Callers :
       /\ call[k].op = "stop" => call[k].at \in {"close", "drain"}
       /\ call[k].at \in {"close", "drain"} => call[k].op \in {"stop", "reload"}
       /\ call[k].at \in {"snapshot", "lock", "start"} => call[k].op = "reload"
       /\ call[k].at \in {"lock", "close", "drain", "start"} => call[k].gen \in Gens
       /\ call[k].old # {} => call[k].at \in {"close", "drain"}

(* reloadMu: its holder has taken the encrypted listeners out of the       *)
(* fields and written its configuration.                                   *)
Holds(k) == call[k].op = "reload" /\ call[k].at \in {"close", "drain", "start"}
Reloads ==
  /\ \A k \in Callers : Holds(k) =>
       /\ srv[call[k].gen].reload = k /\ srv[call[k].gen].enc = call[k].cfg
       /\ \A l \in srv[call[k].gen].slot : l.proto \notin Encrypted
  /\ \A g \in Gens : srv[g].reload # "free" =>
       \E k \in Callers : srv[g].reload = k /\ Holds(k) /\ call[k].gen = g

(* A server's fields, and the hands of who closes it, have its own         *)
(* listeners, one of a protocol.                                           *)
Slots ==
  /\ \A g \in Gens : \A l, m \in srv[g].slot : l.gen = g /\ (l.proto = m.proto => l = m)
  /\ \A k \in Callers : \A l \in call[k].old : l.gen = call[k].gen

(* Every open socket is in a field of some server, running or stopped, or  *)
(* in the hands of a caller; and once nobody reloads the running server,   *)
(* what its own copy of the configuration enables listens.                 *)
InSomeHand == \A l \in open : l \in srv[l.gen].slot \/ \E k \in Callers : l \in call[k].old
UpAfterStart ==
  server # 0 /\ pmu = "free" /\ ~ReloadLocked(server) =>
    \A p \in srv[server].enc.protos :
      \/ \E l \in srv[server].slot : l.proto = p
      \/ <<p, srv[server].enc.port>> \in Busy
      \/ p \in srv[server].clash

RunningServes == server # 0 /\ pmu = "free" => Serving(server)

Accounted ==
  /\ Types /\ Unmade /\ Phases /\ Reloads /\ Slots /\ RunningServes
  /\ InSomeHand /\ UpAfterStart

-----------------------------------------------------------------------------
(* What a start of the encrypted listeners makes.                          *)
LEMMA StartedFacts ==
  ASSUME Types, NEW g \in Gens, NEW cfg \in Configs, NEW s \in Server,
         NEW r, r = StartEncryptedListeners(g, cfg, s)
  PROVE  /\ Startable(cfg) \subseteq Encrypted /\ Started(g, cfg) \subseteq Listener
         /\ \A l \in Started(g, cfg) : /\ l.gen = g /\ l.proto \in Startable(cfg)
                                        /\ l.port = cfg.port /\ l.late = srv[g].closed
         /\ \A l, m \in Started(g, cfg) : l.proto = m.proto => l = m
         /\ \A p \in Startable(cfg) : \E l \in Started(g, cfg) : l.proto = p
         /\ r \in Server /\ r.enc = cfg /\ r.reload = s.reload
         /\ r.started = s.started /\ r.closed = s.closed /\ r.clash = OtherServer(g, cfg)
         /\ r.overtaken = s.overtaken
         /\ r.slot = {l \in s.slot : l.proto \notin Startable(cfg)} \cup Started(g, cfg)
<1>1. cfg.protos \subseteq Encrypted /\ cfg.port \in Nat
  BY ServerAssumption
<1>2. Startable(cfg) \subseteq Encrypted /\ Startable(cfg) \subseteq Protos
  BY <1>1 DEF Startable, Protos
<1>3. srv[g].round \in Nat /\ srv[g].round + 1 \in Nat
  BY DEF Types, Server
<1>4. /\ \A l \in Started(g, cfg) : /\ l \in Listener /\ l.gen = g /\ l.proto \in Startable(cfg)
                                     /\ l.port = cfg.port /\ l.late = srv[g].closed
      /\ \A l, m \in Started(g, cfg) : l.proto = m.proto => l = m
      /\ \A p \in Startable(cfg) : \E l \in Started(g, cfg) : l.proto = p
  <2> DEFINE L(x) == [gen |-> g, proto |-> x, port |-> cfg.port, round |-> srv[g].round + 1,
                    late |-> srv[g].closed]
  <2>1. Started(g, cfg) = {L(x) : x \in Startable(cfg)}
    BY DEF Started
  <2>2. \A x \in Startable(cfg) : /\ L(x) \in Listener /\ L(x).gen = g /\ L(x).proto = x
                                  /\ L(x).port = cfg.port /\ L(x).late = srv[g].closed
    BY <1>1, <1>2, <1>3 DEF Listener, Types, Server
  <2> HIDE DEF L
  <2> QED BY <2>1, <2>2
<1>5. OtherServer(g, cfg) \subseteq Protos
  BY <1>1 DEF OtherServer, Protos
<1>6. /\ r.enc = cfg /\ r.reload = s.reload /\ r.started = s.started /\ r.closed = s.closed
      /\ r.clash = OtherServer(g, cfg) /\ r.overtaken = s.overtaken
      /\ r.slot = {l \in s.slot : l.proto \notin Startable(cfg)} \cup Started(g, cfg)
  BY DEF StartEncryptedListeners, Server
<1>7. {l \in s.slot : l.proto \notin Startable(cfg)} \cup Started(g, cfg) \subseteq Listener
  BY <1>4 DEF Server
<1>8. r \in Server
  <2> DEFINE A == {l \in s.slot : l.proto \notin Startable(cfg)} \cup Started(g, cfg)
             C == OtherServer(g, cfg)
  <2>1. r = [s EXCEPT !.enc = cfg, !.round = s.round + 1, !.clash = C, !.slot = A]
    BY DEF StartEncryptedListeners, Server
  <2>2. A \in SUBSET Listener /\ C \in SUBSET Protos /\ s.round + 1 \in Nat
    BY <1>5, <1>7 DEF Server
  <2> HIDE DEF A, C
  <2> QED BY <2>1, <2>2 DEF Server
<1> QED BY <1>2, <1>4, <1>6, <1>8

(* Every protocol of the configuration listens then, or its port was       *)
(* somebody else's; nothing of the server may be in other hands.           *)
LEMMA ListensAfterStart ==
  ASSUME Types, NEW g \in Gens, NEW cfg \in Configs, NEW s \in Server,
         NEW r, r = StartEncryptedListeners(g, cfg, s),
         \A l \in open : l.gen = g => l \in s.slot,
         NEW p \in cfg.protos
  PROVE  (\E l \in r.slot : l.proto = p) \/ <<p, cfg.port>> \in Busy \/ p \in r.clash
<1>1. /\ \A x \in Startable(cfg) : \E l \in Started(g, cfg) : l.proto = x
      /\ r.clash = OtherServer(g, cfg)
      /\ r.slot = {l \in s.slot : l.proto \notin Startable(cfg)} \cup Started(g, cfg)
  BY StartedFacts
<1>2. CASE p \in Startable(cfg)
  BY <1>1, <1>2
<1>3. CASE p \notin Startable(cfg)
  <2>1. <<p, cfg.port>> \in Busy \/ \E l \in open : l.proto = p /\ l.port = cfg.port
    BY <1>3 DEF Startable, Bindable
  <2>2. ASSUME NEW l \in open, l.proto = p, l.port = cfg.port
        PROVE  (\E x \in r.slot : x.proto = p) \/ p \in r.clash
    <3>1. CASE l.gen = g
      BY <1>1, <1>3, <2>2, <3>1
    <3>2. CASE l.gen # g
      BY <1>1, <2>2, <3>2 DEF OtherServer
    <3> QED BY <3>1, <3>2
  <2> QED BY <2>1, <2>2
<1> QED BY <1>2, <1>3

-----------------------------------------------------------------------------
(* The actions.                                                            *)

(* Connections do not touch the listeners.                                 *)
LEMMA ConnsAccounted ==
  ASSUME Accounted, Types', UNCHANGED <<pmu, server, want, srv, open, call>>, left'.starts = left.starts
  PROVE  Accounted'
<1>1. Made' = Made
  BY DEF Made
<1>2. Unmade' /\ Phases' /\ Reloads' /\ Slots' /\ RunningServes' /\ InSomeHand'
      /\ UpAfterStart'
  BY <1>1 DEF Accounted, Unmade, Phases, Reloads, Slots, RunningServes, InSomeHand,
     UpAfterStart, Holds, Serving, ReloadLocked
<1> QED BY <1>2 DEF Accounted

LEMMA ConnTypes ==
  ASSUME Types, NEW k \in Conns,
         Accept(k) \/ Handshake(k) \/ Read(k) \/ HandleQuery(k) \/ EndConn(k)
  PROVE  /\ Types' /\ UNCHANGED <<pmu, server, want, srv, open, call>> /\ left'.starts = left.starts
<1>1. UNCHANGED <<pmu, server, want, srv, open, call>>
  BY DEF Accept, Handshake, Read, HandleQuery, EndConn
<1>2. left' \in [starts : 0..MaxStarts, calls : Nat, queries : Nat] /\ left'.starts = left.starts
  <2>1. CASE left' = left
    BY <2>1 DEF Types
  <2>2. CASE Read(k)
    <3>1. left \in [starts : 0..MaxStarts, calls : Nat, queries : Nat]
      BY DEF Types
    <3>2. left.queries > 0 /\ left' = [left EXCEPT !.queries = left.queries - 1]
      BY <2>2, <3>1 DEF Read
    <3>3. left.queries - 1 \in Nat
      BY <3>1, <3>2
    <3> QED BY <3>1, <3>2, <3>3
  <2> QED BY <2>1, <2>2 DEF Accept, Handshake, HandleQuery, EndConn
<1>3. NoConn \in ConnRec /\ NoConn.at = "none"
  BY DEF NoConn, ConnRec
<1>4. conn \in [Conns -> ConnRec]
  BY DEF Types
<1>5. ASSUME NEW c \in ConnRec, c.at # "none" => c.l \in Listener, conn' = [conn EXCEPT ![k] = c]
      PROVE  /\ conn' \in [Conns -> ConnRec]
             /\ \A j \in Conns : conn'[j].at # "none" => conn'[j].l \in Listener
  BY <1>4, <1>5 DEF Types
<1>6. \/ conn' = conn
      \/ \E c \in ConnRec : conn' = [conn EXCEPT ![k] = c] /\ (c.at # "none" => c.l \in Listener)
  <2>1. CASE Accept(k)
    <3>1. PICK l \in open : conn' = [conn EXCEPT ![k] = [at |-> "accepted", l |-> l, up |-> TRUE, msg |-> "none"]]
      BY <2>1 DEF Accept
    <3>2. l \in Listener /\ [at |-> "accepted", l |-> l, up |-> TRUE, msg |-> "none"] \in ConnRec
      BY DEF Types, ConnRec
    <3> QED BY <3>1, <3>2
  <2>2. CASE conn' = [conn EXCEPT ![k] = NoConn]
    BY <1>3, <2>2
  <2>3. ASSUME conn[k].at # "none", NEW a \in {"serving", "query"}, NEW m \in Messages \cup {"none"},
               conn' = [conn EXCEPT ![k] = [@ EXCEPT !.at = a, !.msg = m]]
        PROVE  \E c \in ConnRec : conn' = [conn EXCEPT ![k] = c] /\ (c.at # "none" => c.l \in Listener)
    <3>1. conn[k] \in ConnRec /\ conn[k].at # "none" /\ conn[k].l \in Listener
      BY <1>4, <2>3 DEF Types, NoConn
    <3>2. [conn[k] EXCEPT !.at = a, !.msg = m] \in ConnRec
          /\ [conn[k] EXCEPT !.at = a, !.msg = m].l = conn[k].l
      BY <2>3, <3>1 DEF ConnRec
    <3> QED BY <2>3, <3>1, <3>2
  <2>4. CASE Handshake(k)
    <3>1. CASE conn' = [conn EXCEPT ![k].at = "serving"]
      <4>1. conn[k] \in ConnRec /\ conn[k].at # "none" /\ conn[k].l \in Listener
        BY <1>4, <2>4 DEF Types, NoConn, Handshake
      <4>2. [conn[k] EXCEPT !.at = "serving"] \in ConnRec
            /\ [conn[k] EXCEPT !.at = "serving"].l = conn[k].l
        BY <4>1 DEF ConnRec
      <4> QED BY <3>1, <4>1, <4>2
    <3> QED BY <2>2, <2>4, <3>1 DEF Handshake
  <2>5. CASE Read(k)
    <3>1. PICK m \in Messages :
            LET v == Verdict(conn[k].l.proto, m)
            IN  conn' = CASE v = "close" -> [conn EXCEPT ![k] = NoConn]
                          [] v = "handle" /\ ~srv[conn[k].l.gen].closed ->
                               [conn EXCEPT ![k].at = "query", ![k].msg = m]
                          [] OTHER -> conn
      BY <2>5 DEF Read
    <3>2. conn' = [conn EXCEPT ![k] = NoConn] \/ conn' = [conn EXCEPT ![k].at = "query", ![k].msg = m]
          \/ conn' = conn
      BY <3>1
    <3>3. CASE conn' = [conn EXCEPT ![k].at = "query", ![k].msg = m]
      <4>1. conn[k].at # "none"
        BY <2>5 DEF Read
      <4>2. conn' = [conn EXCEPT ![k] = [@ EXCEPT !.at = "query", !.msg = m]]
        BY <1>4, <3>3 DEF ConnRec
      <4> QED BY <2>3, <4>1, <4>2
    <3> QED BY <2>2, <3>2, <3>3
  <2>6. CASE HandleQuery(k)
    <3>1. conn[k].at # "none" /\ "none" \in Messages \cup {"none"}
      BY <2>6 DEF HandleQuery
    <3>2. \/ conn' = [conn EXCEPT ![k] = NoConn]
          \/ conn' = [conn EXCEPT ![k] = [@ EXCEPT !.at = "serving", !.msg = "none"]]
      BY <2>6 DEF HandleQuery
    <3> QED BY <2>2, <2>3, <3>1, <3>2
  <2> QED BY <2>1, <2>2, <2>4, <2>5, <2>6 DEF EndConn
<1>7. /\ conn' \in [Conns -> ConnRec]
      /\ \A j \in Conns : conn'[j].at # "none" => conn'[j].l \in Listener
  BY <1>4, <1>5, <1>6 DEF Types
<1> QED BY <1>1, <1>2, <1>7 DEF Types

(* A step of one caller that changes no server.                            *)
LEMMA CallTypes ==
  ASSUME Types, NEW k \in Callers, NEW c \in CallRec, call' = [call EXCEPT ![k] = c]
  PROVE  call' \in [Callers -> CallRec] /\ call'[k] = c /\ \A j \in Callers \ {k} : call'[j] = call[j]
BY DEF Types

LEMMA IdleFacts ==
  /\ Idle \in CallRec /\ Idle.op = "none" /\ Idle.at = "idle" /\ Idle.gen = 0 /\ Idle.old = {}
<1>1. NoCfg \in Configs /\ MaxStarts \in Nat
  BY ServerAssumption
<1> QED BY <1>1 DEF Idle, CallRec

(* A caller moves on, keeps what it has in its hands and                   *)
(* the lock, and touches no server.                                        *)
LEMMA QuietCall ==
  ASSUME Accounted, NEW k \in Callers, NEW c \in CallRec, call' = [call EXCEPT ![k] = c],
         conn' \in [Conns -> ConnRec],
         \A j \in Conns : conn'[j].at # "none" => conn'[j].l \in Listener,
         UNCHANGED <<pmu, server, srv>>, open' \subseteq open, want' \in Configs,
         left' \in [starts : 0..MaxStarts, calls : Nat, queries : Nat], left'.starts = left.starts,
         c.op = "stop" <=> call[k].op = "stop",
         c.op = "stop" => c.at \in {"close", "drain"},
         c.at \in {"close", "drain"} => c.op \in {"stop", "reload"},
         c.at \in {"snapshot", "lock", "start"} => c.op = "reload",
         c.at \in {"lock", "close", "drain", "start"} => c.gen \in Gens,
         c.old # {} => c.at \in {"close", "drain"},
         c.gen <= Made,
         Holds(k) <=> (c.op = "reload" /\ c.at \in {"close", "drain", "start"}),
         Holds(k) => c.gen = call[k].gen /\ c.cfg = call[k].cfg,
         \A l \in c.old : l.gen = c.gen,
         \A l \in open' : l \in call[k].old => l \in c.old
  PROVE  Accounted'
<1>1. call' \in [Callers -> CallRec] /\ call'[k] = c /\ \A j \in Callers \ {k} : call'[j] = call[j]
  BY CallTypes DEF Accounted
<1>2. Types'
  BY <1>1 DEF Accounted, Types
<1>3. Made' = Made
  BY DEF Made
<1>4. Unmade'
  BY <1>1, <1>3 DEF Accounted, Unmade
<1>5. Phases'
  BY <1>1 DEF Accounted, Phases
<1>6. Reloads'
  <2>2. ASSUME NEW j \in Callers, Holds(j)'
        PROVE  /\ srv'[call'[j].gen].reload = j /\ srv'[call'[j].gen].enc = call'[j].cfg
               /\ \A l \in srv'[call'[j].gen].slot : l.proto \notin Encrypted
    <3>1. Holds(j) /\ call'[j].gen = call[j].gen /\ call'[j].cfg = call[j].cfg /\ srv' = srv
      BY <1>1, <2>2 DEF Holds
    <3> QED BY <3>1 DEF Accounted, Reloads
  <2>3. ASSUME NEW g \in Gens, srv'[g].reload # "free"
        PROVE  \E j \in Callers : srv'[g].reload = j /\ Holds(j)' /\ call'[j].gen = g
    <3>1. PICK j \in Callers : srv[g].reload = j /\ Holds(j) /\ call[j].gen = g
      BY <2>3 DEF Accounted, Reloads
    <3>2. Holds(j)' /\ call'[j].gen = g
      BY <1>1, <3>1 DEF Holds
    <3> QED BY <3>1, <3>2
  <2> QED BY <2>2, <2>3 DEF Reloads
<1>7. Slots'
  BY <1>1 DEF Accounted, Slots
<1>8. InSomeHand'
  BY <1>1 DEF Accounted, InSomeHand
<1>9. RunningServes' /\ UpAfterStart'
  BY DEF Accounted, RunningServes, UpAfterStart, Serving, ReloadLocked
<1> QED BY <1>2, <1>4, <1>5, <1>6, <1>7, <1>8, <1>9 DEF Accounted

LEMMA ConfigureAccounted ==
  ASSUME Accounted, NEW k \in Callers, ConfigureEncryptedDNS(k)
  PROVE  Accounted'
<1> DEFINE c == [Idle EXCEPT !.op = "reload", !.at = "snapshot"]
<1>1. /\ UNCHANGED <<pmu, server, srv, open, conn>> /\ want' \in Configs
      /\ call[k] = Idle /\ call' = [call EXCEPT ![k] = c]
      /\ left.calls > 0 /\ left' = [left EXCEPT !.calls = @ - 1]
  BY DEF ConfigureEncryptedDNS
<1>2. c \in CallRec /\ c.op = "reload" /\ c.at = "snapshot" /\ c.gen = 0 /\ c.old = {}
  BY IdleFacts DEF CallRec
<1> HIDE DEF c
<1>3. left \in [starts : 0..MaxStarts, calls : Nat, queries : Nat]
  BY DEF Accounted, Types
<1>4. left' \in [starts : 0..MaxStarts, calls : Nat, queries : Nat] /\ left'.starts = left.starts
  <2>1. left.calls - 1 \in Nat /\ left' = [left EXCEPT !.calls = left.calls - 1]
    BY <1>1, <1>3
  <2> QED BY <1>3, <2>1
<1>5. 0 <= Made
  BY <1>3, ServerAssumption DEF Made
<1>6. ~Holds(k) /\ call[k].op # "stop" /\ call[k].old = {}
  BY <1>1, IdleFacts DEF Holds
<1>7. conn' \in [Conns -> ConnRec] /\ \A j \in Conns : conn'[j].at # "none" => conn'[j].l \in Listener
  BY <1>1 DEF Accounted, Types
<1> QED BY <1>1, <1>2, <1>4, <1>5, <1>6, <1>7, QuietCall

(* Steps of a caller whose record is c afterwards.                         *)
LEMMA SnapshotAccounted ==
  ASSUME Accounted, NEW k \in Callers, ReloadDNSWithCurrentConfig(k)
  PROVE  Accounted'
<1>1. /\ UNCHANGED <<pmu, server, want, srv, open, conn, left>> /\ call[k].at = "snapshot"
      /\ call' = [call EXCEPT ![k] = IF server = 0 THEN Idle
                                     ELSE [call[k] EXCEPT !.at = "lock", !.gen = server, !.cfg = want]]
  BY DEF ReloadDNSWithCurrentConfig, Accounted, Types
<1> DEFINE c == IF server = 0 THEN Idle
                ELSE [call[k] EXCEPT !.at = "lock", !.gen = server, !.cfg = want]
<1>2. call[k] \in CallRec /\ server \in 0..MaxStarts /\ want \in Configs /\ MaxStarts \in Nat
      /\ left \in [starts : 0..MaxStarts, calls : Nat, queries : Nat]
  BY ServerAssumption DEF Accounted, Types
<1>3. call[k].old = {} /\ call[k].op = "reload" /\ ~Holds(k)
  BY <1>1, <1>2 DEF Accounted, Phases, Holds
<1>4. c \in CallRec /\ c.old = {} /\ c.op # "stop" /\ c.at \in {"idle", "lock"}
      /\ (c.at = "lock" => c.gen \in Gens /\ c.op = "reload") /\ c.gen \in {0, server}
  <2>1. CASE server = 0
    BY <2>1, IdleFacts
  <2>2. CASE server # 0
    <3>1. server \in Gens
      BY <1>2, <2>2 DEF Gens
    <3> QED BY <1>2, <1>3, <2>2, <3>1 DEF CallRec
  <2> QED BY <2>1, <2>2
<1>5. c.gen <= Made
  <2>1. 0 <= Made /\ server <= Made
    BY <1>2, ServerAssumption DEF Made, Accounted, Unmade
  <2> QED BY <1>4, <2>1
<1> HIDE DEF c
<1>6. call' = [call EXCEPT ![k] = c]
  BY <1>1 DEF c
<1>7. conn' \in [Conns -> ConnRec] /\ \A j \in Conns : conn'[j].at # "none" => conn'[j].l \in Listener
  BY <1>1 DEF Accounted, Types
<1> QED BY <1>1, <1>2, <1>3, <1>4, <1>5, <1>6, <1>7, QuietCall

(* Cut changes no listener of a connection.                                *)
LEMMA CutTypes ==
  ASSUME Types, NEW ks
  PROVE  /\ Cut(ks) \in [Conns -> ConnRec]
         /\ \A j \in Conns : Cut(ks)[j].at # "none" => Cut(ks)[j].l \in Listener
<1>1. \A j \in Conns : conn[j] \in ConnRec /\ (conn[j].at # "none" => conn[j].l \in Listener)
  BY DEF Types
<1>2. ASSUME NEW j \in Conns
      PROVE  Cut(ks)[j] \in ConnRec /\ (Cut(ks)[j].at # "none" => Cut(ks)[j].l \in Listener)
  <2>1. Cut(ks)[j] = conn[j] \/ Cut(ks)[j] = [conn[j] EXCEPT !.up = FALSE]
    BY DEF Cut
  <2>2. [conn[j] EXCEPT !.up = FALSE] \in ConnRec /\ [conn[j] EXCEPT !.up = FALSE].l = conn[j].l
        /\ [conn[j] EXCEPT !.up = FALSE].at = conn[j].at
    BY <1>1 DEF ConnRec
  <2> QED BY <1>1, <2>1, <2>2
<1> QED BY <1>2 DEF Cut

(* There is a first listener to close.                                     *)
LEMMA FirstOf ==
  ASSUME NEW ls \in SUBSET Listener, ls # {}
  PROVE  First(ls) \in ls
<1>1. Order["plain"] = 0 /\ Order["dot"] = 1 /\ Order["doh"] = 2 /\ Order["doq"] = 3
  BY DEF Order
<1>2. \A l \in ls : l.proto \in {"plain", "dot", "doh", "doq"}
  BY DEF Listener, Protos, Encrypted
<1> HIDE DEF Order
<1>3. \E l \in ls : \A m \in ls : Order[l.proto] <= Order[m.proto]
  <2>1. CASE \E l \in ls : l.proto = "plain"
    BY <1>1, <1>2, <2>1
  <2>2. CASE (\E l \in ls : l.proto = "dot") /\ ~\E l \in ls : l.proto = "plain"
    BY <1>1, <1>2, <2>2
  <2>3. CASE (\E l \in ls : l.proto = "doh") /\ ~\E l \in ls : l.proto \in {"plain", "dot"}
    BY <1>1, <1>2, <2>3
  <2>4. CASE ~\E l \in ls : l.proto \in {"plain", "dot", "doh"}
    BY <1>1, <1>2, <2>4
  <2> QED BY <2>1, <2>2, <2>3, <2>4
<1> QED BY <1>3 DEF First

LEMMA CloseAccounted ==
  ASSUME Accounted, NEW k \in Callers, CloseListener(k)
  PROVE  Accounted'
<1> DEFINE l == First(call[k].old)
<1>1. /\ open' = open \ {l} /\ conn' = Cut(CutBy(l))
      /\ call' = [call EXCEPT ![k].at = "drain", ![k].old = @ \ {l}, ![k].cur = {l}]
      /\ UNCHANGED <<pmu, server, want, srv, left>> /\ call[k].at = "close" /\ call[k].old # {}
  BY DEF CloseListener
<1>2. call[k] \in CallRec /\ want \in Configs /\ call \in [Callers -> CallRec]
      /\ left \in [starts : 0..MaxStarts, calls : Nat, queries : Nat]
  BY DEF Accounted, Types
<1>3. l \in call[k].old /\ call[k].old \subseteq Listener
  BY <1>1, <1>2, FirstOf DEF CallRec
<1> HIDE DEF l
<1> DEFINE c == [call[k] EXCEPT !.at = "drain", !.old = call[k].old \ {l}, !.cur = {l}]
<1>4. call' = [call EXCEPT ![k] = c]
  BY <1>1, <1>2 DEF CallRec
<1>5. /\ c \in CallRec /\ c.at = "drain" /\ c.op = call[k].op /\ c.gen = call[k].gen
      /\ c.cfg = call[k].cfg /\ c.old = call[k].old \ {l}
  BY <1>2, <1>3 DEF CallRec
<1> HIDE DEF c
<1>6. /\ c.op \in {"stop", "reload"} /\ c.gen \in Gens /\ c.gen <= Made
      /\ \A m \in c.old : m.gen = c.gen
  BY <1>1, <1>5 DEF Accounted, Phases, Unmade, Slots
<1>7. Holds(k) <=> c.op = "reload"
  BY <1>1, <1>5 DEF Holds
<1>8. conn' \in [Conns -> ConnRec] /\ \A j \in Conns : conn'[j].at # "none" => conn'[j].l \in Listener
  BY <1>1, CutTypes DEF Accounted
<1>9. open' \subseteq open /\ \A m \in open' : m \in call[k].old => m \in c.old
  BY <1>1, <1>5
<1> QED BY <1>1, <1>2, <1>4, <1>5, <1>6, <1>7, <1>8, <1>9, QuietCall

LEMMA DrainAccounted ==
  ASSUME Accounted, NEW k \in Callers, Drain(k)
  PROVE  Accounted'
<1>1. /\ call[k].at = "drain" /\ call' = [call EXCEPT ![k].at = "close", ![k].cur = {}]
      /\ UNCHANGED <<pmu, server, want, srv, open, left>>
      /\ \E l : conn' = Cut(Of(l)) \/ conn' = conn
  BY DEF Drain
<1>2. call[k] \in CallRec /\ want \in Configs /\ call \in [Callers -> CallRec]
      /\ left \in [starts : 0..MaxStarts, calls : Nat, queries : Nat]
  BY DEF Accounted, Types
<1> DEFINE c == [call[k] EXCEPT !.at = "close", !.cur = {}]
<1>4. call' = [call EXCEPT ![k] = c]
  BY <1>1, <1>2 DEF CallRec
<1>5. /\ c \in CallRec /\ c.at = "close" /\ c.op = call[k].op /\ c.gen = call[k].gen
      /\ c.cfg = call[k].cfg /\ c.old = call[k].old
  BY <1>2 DEF CallRec
<1> HIDE DEF c
<1>6. /\ c.op \in {"stop", "reload"} /\ c.gen \in Gens /\ c.gen <= Made
      /\ \A m \in c.old : m.gen = c.gen
  BY <1>1, <1>5 DEF Accounted, Phases, Unmade, Slots
<1>7. Holds(k) <=> c.op = "reload"
  BY <1>1, <1>5 DEF Holds
<1>8. conn' \in [Conns -> ConnRec] /\ \A j \in Conns : conn'[j].at # "none" => conn'[j].l \in Listener
  BY <1>1, CutTypes DEF Accounted, Types
<1> QED BY <1>1, <1>2, <1>4, <1>5, <1>6, <1>7, <1>8, QuietCall

-----------------------------------------------------------------------------
(* Steps that change a server: one caller's record is c afterwards, and    *)
(* the server g is r.                                                      *)
CallTo(k, c)   == c \in CallRec /\ call' = [call EXCEPT ![k] = c]
ServerTo(g, r) == g \in Gens /\ g <= Made /\ r \in Server /\ srv' = [srv EXCEPT ![g] = r]
InPhase(c) ==
  /\ c.op = "stop" => c.at \in {"close", "drain"}
  /\ c.at \in {"close", "drain"} => c.op \in {"stop", "reload"}
  /\ c.at \in {"snapshot", "lock", "start"} => c.op = "reload"
  /\ c.at \in {"lock", "close", "drain", "start"} => c.gen \in Gens
  /\ c.old # {} => c.at \in {"close", "drain"}
  /\ c.gen <= Made /\ \A l \in c.old : l.gen = c.gen
OwnSlots(g, r) == \A l, m \in r.slot : l.gen = g /\ (l.proto = m.proto => l = m)
StopLocks == \A j \in Callers : call'[j].op = "stop" <=> pmu' = j
Rest ==
  /\ UNCHANGED <<want, conn>> /\ open' \subseteq Listener
  /\ left' \in [starts : 0..MaxStarts, calls : Nat, queries : Nat] /\ left'.starts = left.starts
  /\ pmu' \in Callers \cup {"free"} /\ server' \in {0, server}

LEMMA ServerStep ==
  ASSUME Accounted, NEW k \in Callers, NEW c, CallTo(k, c), NEW g, NEW r, ServerTo(g, r),
         Rest, StopLocks, InPhase(c), OwnSlots(g, r)
  PROVE  /\ Types' /\ Unmade' /\ Phases' /\ Slots'
         /\ call'[k] = c /\ \A j \in Callers \ {k} : call'[j] = call[j]
         /\ srv'[g] = r /\ \A h \in Gens \ {g} : srv'[h] = srv[h]
<1> USE DEF CallTo, ServerTo, Rest
<1>1. call' \in [Callers -> CallRec] /\ call'[k] = c /\ \A j \in Callers \ {k} : call'[j] = call[j]
  BY CallTypes DEF Accounted
<1>2. srv' \in [Gens -> Server] /\ srv'[g] = r /\ \A h \in Gens \ {g} : srv'[h] = srv[h]
  BY DEF Accounted, Types
<1>3. server' \in 0..MaxStarts
  BY ServerAssumption DEF Accounted, Types
<1>4. Types'
  BY <1>1, <1>2, <1>3 DEF Accounted, Types
<1>5. Unmade'
  <2>1. Made' = Made
    BY DEF Made
  <2>2. server \in 0..MaxStarts /\ server <= Made
    BY DEF Accounted, Types, Unmade
  <2>5. Made \in Nat
    BY ServerAssumption DEF Accounted, Types, Made
  <2>3. server' <= Made
    BY <2>2, <2>5
  <2>4. \A j \in Callers : call'[j].gen <= Made
    BY <1>1 DEF Accounted, Unmade, InPhase
  <2>6. \A h \in Gens : h > Made => srv'[h] = NoServer
    BY <1>2, <2>5 DEF Accounted, Unmade, Gens
  <2> QED BY <2>1, <2>3, <2>4, <2>6 DEF Unmade
<1>6. Phases'
  BY <1>1 DEF Accounted, Phases, InPhase, StopLocks
<1>7. Slots'
  BY <1>1, <1>2 DEF Accounted, Slots, InPhase, OwnSlots
<1> QED BY <1>1, <1>2, <1>4, <1>5, <1>6, <1>7

(* reloadMu stays with its holders, when the lock of server g is held      *)
(* afterwards just when caller k works on it.                              *)
LEMMA ReloadsKept ==
  ASSUME Types, Reloads, NEW k \in Callers, NEW g \in Gens,
         \A j \in Callers \ {k} : call'[j] = call[j],
         \A h \in Gens \ {g} : srv'[h] = srv[h],
         \A j \in Callers \ {k} : Holds(j) => call[j].gen \in Gens,
         Holds(k) => call[k].gen = g,
         \A j \in Callers \ {k} : Holds(j) /\ call[j].gen = g =>
           /\ srv'[g].reload = srv[g].reload /\ srv'[g].enc = srv[g].enc
           /\ srv'[g].slot \subseteq srv[g].slot,
         Holds(k)' => /\ call'[k].gen = g /\ srv'[g].reload = k /\ srv'[g].enc = call'[k].cfg
                      /\ \A l \in srv'[g].slot : l.proto \notin Encrypted,
         srv'[g].reload \in {srv[g].reload, k, "free"},
         srv'[g].reload = k => Holds(k)'
  PROVE  Reloads'
<1>1. ASSUME NEW j \in Callers \ {k}, Holds(j)'
      PROVE  /\ srv'[call'[j].gen].reload = j /\ srv'[call'[j].gen].enc = call'[j].cfg
             /\ \A l \in srv'[call'[j].gen].slot : l.proto \notin Encrypted
  <2>1. Holds(j) /\ call'[j] = call[j] /\ call[j].gen \in Gens
    BY <1>1 DEF Holds
  <2>2. /\ srv[call[j].gen].reload = j /\ srv[call[j].gen].enc = call[j].cfg
        /\ \A l \in srv[call[j].gen].slot : l.proto \notin Encrypted
    BY <2>1 DEF Reloads
  <2>3. CASE call[j].gen = g
    BY <2>1, <2>2, <2>3
  <2>4. CASE call[j].gen # g
    BY <2>1, <2>2, <2>4
  <2> QED BY <2>3, <2>4
<1>2. ASSUME NEW j \in Callers, Holds(j)'
      PROVE  /\ srv'[call'[j].gen].reload = j /\ srv'[call'[j].gen].enc = call'[j].cfg
             /\ \A l \in srv'[call'[j].gen].slot : l.proto \notin Encrypted
  <2>1. CASE j = k
    BY <1>2, <2>1
  <2> QED BY <1>1, <1>2, <2>1
<1>3. ASSUME NEW h \in Gens, srv'[h].reload # "free"
      PROVE  \E j \in Callers : srv'[h].reload = j /\ Holds(j)' /\ call'[j].gen = h
  <2>1. CASE h = g /\ srv'[g].reload = k
    BY <2>1
  <2>2. CASE ~(h = g /\ srv'[g].reload = k)
    <3>1. srv'[h].reload = srv[h].reload
      BY <1>3, <2>2
    <3>2. PICK j \in Callers : srv[h].reload = j /\ Holds(j) /\ call[j].gen = h
      BY <1>3, <3>1 DEF Reloads
    <3>3. j # k
      BY <2>2, <3>1, <3>2
    <3>4. Holds(j)' /\ call'[j].gen = h
      BY <3>2, <3>3 DEF Holds
    <3> QED BY <3>1, <3>2, <3>4
  <2> QED BY <2>1, <2>2
<1> QED BY <1>2, <1>3 DEF Reloads

LEMMA StopAccounted ==
  ASSUME Accounted, NEW k \in Callers, StopDNS(k)
  PROVE  Accounted'
<1> DEFINE c == [Idle EXCEPT !.op = "stop", !.at = "close", !.gen = server, !.old = srv[server].slot]
           r == [srv[server] EXCEPT !.closed = TRUE, !.started = FALSE, !.slot = {}]
<1>1. /\ pmu = "free" /\ server # 0 /\ call[k] = Idle /\ left.calls > 0 /\ pmu' = k
      /\ left' = [left EXCEPT !.calls = @ - 1] /\ call' = [call EXCEPT ![k] = c]
      /\ UNCHANGED <<server, want, open, conn>>
  BY DEF StopDNS, Free
<1>2. /\ server \in Gens /\ server <= Made /\ srv \in [Gens -> Server]
      /\ left \in [starts : 0..MaxStarts, calls : Nat, queries : Nat]
  BY <1>1, ServerAssumption DEF Accounted, Types, Unmade, Gens
<1>3. srv' = [srv EXCEPT ![server] = r]
  BY <1>2 DEF StopDNS, Server
<1>4. srv[server] \in Server /\ srv[server].slot \subseteq Listener
  BY <1>2 DEF Server
<1>5. /\ c \in CallRec /\ c.op = "stop" /\ c.at = "close" /\ c.gen = server
      /\ c.old = srv[server].slot
  <2>1. server \in 0..MaxStarts
    BY <1>2 DEF Gens
  <2> QED BY <1>4, <2>1, IdleFacts DEF CallRec
<1>6. r \in Server /\ r.slot = {} /\ r.reload = srv[server].reload /\ r.enc = srv[server].enc
  BY <1>4 DEF Server
<1>7. left' \in [starts : 0..MaxStarts, calls : Nat, queries : Nat] /\ left'.starts = left.starts
  <2>1. left.calls - 1 \in Nat /\ left' = [left EXCEPT !.calls = left.calls - 1]
    BY <1>1, <1>2
  <2> QED BY <1>2, <2>1
<1> HIDE DEF c, r
<1>8. StopLocks
  <2>1. \A j \in Callers : call[j].op # "stop"
    BY <1>1, ServerAssumption DEF Accounted, Phases
  <2>2. call'[k] = c /\ \A j \in Callers \ {k} : call'[j] = call[j]
    BY <1>1, <1>5, CallTypes DEF Accounted
  <2> QED BY <1>1, <1>5, <2>1, <2>2 DEF StopLocks
<1>9. /\ Types' /\ Unmade' /\ Phases' /\ Slots'
      /\ call'[k] = c /\ \A j \in Callers \ {k} : call'[j] = call[j]
      /\ srv'[server] = r /\ \A h \in Gens \ {server} : srv'[h] = srv[h]
  <2>1. \A l \in c.old : l.gen = c.gen
    BY <1>2, <1>5 DEF Accounted, Slots
  <2>2. InPhase(c)
    BY <1>2, <1>5, <2>1 DEF InPhase
  <2>3. OwnSlots(server, r)
    BY <1>6 DEF OwnSlots
  <2>4. Rest
    BY <1>1, <1>7 DEF Rest, Accounted, Types
  <2>5. CallTo(k, c) /\ ServerTo(server, r)
    BY <1>1, <1>2, <1>3, <1>5, <1>6 DEF CallTo, ServerTo
  <2> QED BY <1>8, <2>2, <2>3, <2>4, <2>5, ServerStep
<1>10. ~Holds(k) /\ ~Holds(k)' /\ call[k].old = {}
  BY <1>1, <1>5, <1>9, IdleFacts DEF Holds
<1>11. \A j \in Callers : Holds(j) => call[j].gen \in Gens
  BY DEF Holds, Accounted, Phases
<1>12. srv[server].reload # k
  BY <1>2, <1>10, ServerAssumption DEF Accounted, Reloads
<1>13. Reloads'
  BY <1>2, <1>6, <1>9, <1>10, <1>11, <1>12, ReloadsKept DEF Accounted
<1>14. RunningServes' /\ UpAfterStart'
  BY <1>1, ServerAssumption DEF RunningServes, UpAfterStart
<1>15. InSomeHand'
  <2> SUFFICES ASSUME NEW l \in open
               PROVE  l \in srv'[l.gen].slot \/ \E j \in Callers : l \in call'[j].old
    BY <1>1 DEF InSomeHand
  <2>1. l.gen \in Gens
    BY DEF Accounted, Types, Listener
  <2>2. CASE l \in srv[l.gen].slot
    BY <1>5, <1>9, <2>1, <2>2
  <2>3. CASE \E j \in Callers : l \in call[j].old
    BY <1>9, <1>10, <2>3
  <2> QED BY <2>2, <2>3 DEF Accounted, InSomeHand
<1> QED BY <1>9, <1>13, <1>14, <1>15 DEF Accounted

LEMMA StoppedAccounted ==
  ASSUME Accounted, NEW k \in Callers, Stopped(k)
  PROVE  Accounted'
<1>1. /\ call[k].op = "stop" /\ call[k].old = {} /\ server' = 0 /\ pmu' = "free"
      /\ call' = [call EXCEPT ![k] = Idle] /\ UNCHANGED <<want, srv, open, conn, left>>
  BY DEF Stopped
<1>2. call' \in [Callers -> CallRec] /\ call'[k] = Idle
      /\ \A j \in Callers \ {k} : call'[j] = call[j]
  BY <1>1, IdleFacts, CallTypes DEF Accounted
<1>3. Types'
  BY <1>1, <1>2, ServerAssumption DEF Accounted, Types
<1>4. Made' = Made /\ 0 <= Made
  BY <1>1, ServerAssumption DEF Made, Accounted, Types
<1>5. Unmade'
  BY <1>1, <1>2, <1>4, IdleFacts DEF Accounted, Unmade
<1>6. Phases'
  <2>1. pmu = k
    BY <1>1 DEF Accounted, Phases
  <2>2. \A j \in Callers : call'[j].op # "stop"
    BY <1>2, <2>1, IdleFacts DEF Accounted, Phases
  <2>3. \A j \in Callers : call'[j].op = "stop" <=> pmu' = j
    BY <1>1, <2>2, ServerAssumption
  <2> QED BY <1>2, <2>3, IdleFacts DEF Accounted, Phases
<1>7. Reloads'
  <2>2. ASSUME NEW j \in Callers, Holds(j)'
        PROVE  /\ srv'[call'[j].gen].reload = j /\ srv'[call'[j].gen].enc = call'[j].cfg
               /\ \A l \in srv'[call'[j].gen].slot : l.proto \notin Encrypted
    <3>1. Holds(j) /\ call'[j] = call[j] /\ srv' = srv
      BY <1>1, <1>2, <2>2, IdleFacts DEF Holds
    <3> QED BY <3>1 DEF Accounted, Reloads
  <2>3. ASSUME NEW g \in Gens, srv'[g].reload # "free"
        PROVE  \E j \in Callers : srv'[g].reload = j /\ Holds(j)' /\ call'[j].gen = g
    <3>1. PICK j \in Callers : srv[g].reload = j /\ Holds(j) /\ call[j].gen = g
      BY <1>1, <2>3 DEF Accounted, Reloads
    <3>2. Holds(j)' /\ call'[j].gen = g
      BY <1>1, <1>2, <3>1 DEF Holds
    <3> QED BY <1>1, <3>1, <3>2
  <2> QED BY <2>2, <2>3 DEF Reloads
<1>8. Slots' /\ InSomeHand'
  BY <1>1, <1>2, IdleFacts DEF Accounted, Slots, InSomeHand
<1>9. RunningServes' /\ UpAfterStart'
  BY <1>1 DEF RunningServes, UpAfterStart
<1> QED BY <1>3, <1>5, <1>6, <1>7, <1>8, <1>9 DEF Accounted

(* Nothing else moves in the steps of a reload.                            *)
LEMMA ReloadRest ==
  ASSUME Accounted, NEW k \in Callers, NEW c, CallTo(k, c), UNCHANGED <<pmu, server, want, conn, left>>,
         open' \subseteq Listener, c.op # "stop", call[k].op # "stop"
  PROVE  Rest /\ StopLocks
<1>1. Rest
  BY DEF Rest, Accounted, Types
<1>2. call'[k] = c /\ \A j \in Callers \ {k} : call'[j] = call[j]
  BY CallTypes DEF Accounted, CallTo
<1>3. StopLocks
  BY <1>2 DEF StopLocks, Accounted, Phases
<1> QED BY <1>1, <1>3

LEMMA ReloadAccounted ==
  ASSUME Accounted, NEW k \in Callers, ReloadEncrypted(k)
  PROVE  Accounted'
<1> DEFINE g == call[k].gen
           enc == {l \in srv[g].slot : l.proto \in Encrypted}
           c == [call[k] EXCEPT !.at = "close", !.old = enc]
           r == [srv[g] EXCEPT !.reload = k, !.slot = srv[g].slot \ enc, !.enc = call[k].cfg,
                          !.overtaken = (call[k].cfg # want)]
<1>1. call[k] \in CallRec /\ call \in [Callers -> CallRec] /\ srv \in [Gens -> Server]
  BY DEF Accounted, Types
<1>2. /\ call[k].at = "lock" /\ srv[g].reload = "free"
      /\ UNCHANGED <<pmu, server, want, open, conn, left>>
  BY DEF ReloadEncrypted, ReloadLocked
<1>3. call[k].op = "reload" /\ g \in Gens /\ call[k].old = {} /\ g <= Made
  BY <1>1, <1>2 DEF Accounted, Phases, Unmade
<1>4. srv[g] \in Server /\ srv[g].slot \subseteq Listener /\ enc \subseteq Listener
  BY <1>1, <1>3 DEF Server
<1>5. call' = [call EXCEPT ![k] = c] /\ srv' = [srv EXCEPT ![g] = r]
  BY <1>1, <1>3 DEF ReloadEncrypted, CallRec, Server
<1>6. \A l \in srv[g].slot \ enc : l.proto \notin Encrypted
  OBVIOUS
<1>7. \A l \in enc : l \in srv[g].slot
  OBVIOUS
<1> HIDE DEF enc
<1>8. c \in CallRec /\ c.op = "reload" /\ c.at = "close" /\ c.gen = g /\ c.old = enc /\ c.cfg = call[k].cfg
  BY <1>1, <1>3, <1>4 DEF CallRec
<1>9. /\ r \in Server /\ r.reload = k /\ r.slot = srv[g].slot \ enc /\ r.enc = call[k].cfg
      /\ r.started = srv[g].started /\ r.closed = srv[g].closed
  <2>1. call[k].cfg \in Configs /\ srv[g].slot \ enc \subseteq Listener
    BY <1>1, <1>4 DEF CallRec
  <2> QED BY <1>4, <2>1 DEF Server
<1> HIDE DEF c, r, g
<1>10. /\ Types' /\ Unmade' /\ Phases' /\ Slots'
       /\ call'[k] = c /\ \A j \in Callers \ {k} : call'[j] = call[j]
       /\ srv'[g] = r /\ \A h \in Gens \ {g} : srv'[h] = srv[h]
  <2>1. CallTo(k, c) /\ ServerTo(g, r)
    BY <1>3, <1>5, <1>8, <1>9 DEF CallTo, ServerTo
  <2>2. OwnSlots(g, r)
    BY <1>3, <1>9 DEF OwnSlots, Accounted, Slots
  <2>3. InPhase(c)
    BY <1>3, <1>7, <1>8 DEF InPhase, Accounted, Slots
  <2>4. open' \subseteq Listener
    BY <1>2 DEF Accounted, Types
  <2>5. Rest /\ StopLocks
    BY <1>2, <1>3, <1>8, <2>1, <2>4, ReloadRest
  <2> QED BY <2>1, <2>2, <2>3, <2>5, ServerStep
<1>11. \A j \in Callers : Holds(j) => call[j].gen \in Gens /\ call[j].gen # g
  BY <1>2, ServerAssumption DEF Holds, Accounted, Phases, Reloads
<1>12. Holds(k)' /\ call'[k].gen = g /\ ~Holds(k)
  BY <1>2, <1>8, <1>10 DEF Holds
<1>13. Reloads'
  BY <1>3, <1>6, <1>8, <1>9, <1>10, <1>11, <1>12, ReloadsKept DEF Accounted
<1>14. RunningServes'
  BY <1>2, <1>3, <1>9, <1>10, ServerAssumption
  DEF RunningServes, Accounted, Types, Serving, Gens
<1>15. UpAfterStart'
  <2>1. ASSUME server # 0, pmu = "free", srv'[server].reload = "free"
        PROVE  srv'[server] = srv[server] /\ srv[server].reload = "free"
    <3>1. server \in Gens
      BY <2>1, ServerAssumption DEF Accounted, Types, Gens
    <3> QED BY <1>9, <1>10, <2>1, <3>1, ServerAssumption
  <2> QED BY <1>2, <2>1 DEF Accounted, UpAfterStart, ReloadLocked
<1>16. InSomeHand'
  <2> SUFFICES ASSUME NEW l \in open
               PROVE  l \in srv'[l.gen].slot \/ \E j \in Callers : l \in call'[j].old
    BY <1>2 DEF InSomeHand
  <2>1. l.gen \in Gens
    BY DEF Accounted, Types, Listener
  <2>2. CASE l \in srv[l.gen].slot
    BY <1>8, <1>9, <1>10, <2>1, <2>2
  <2>3. CASE \E j \in Callers : l \in call[j].old
    BY <1>3, <1>10, <2>3
  <2> QED BY <2>2, <2>3 DEF Accounted, InSomeHand
<1> QED BY <1>10, <1>13, <1>14, <1>15, <1>16 DEF Accounted

LEMMA StillServingAccounted ==
  ASSUME Accounted, NEW k \in Callers, StillServing(k)
  PROVE  Accounted'
<1> DEFINE g == call[k].gen
<1>1. call[k] \in CallRec /\ call \in [Callers -> CallRec] /\ srv \in [Gens -> Server]
      /\ open \subseteq Listener
  BY DEF Accounted, Types
<1>2. /\ call[k].op = "reload" /\ call[k].at = "close" /\ call[k].old = {}
      /\ UNCHANGED <<pmu, server, want, open, conn, left>>
  BY DEF StillServing
<1>3. Holds(k) /\ g \in Gens /\ g <= Made
  BY <1>2 DEF Holds, Accounted, Phases, Unmade
<1>4. srv[g] \in Server /\ srv[g].reload = k /\ srv[g].enc = call[k].cfg
  BY <1>1, <1>3 DEF Accounted, Reloads
<1>5. CASE call[k].cfg = NoCfg \/ ~Serving(g)
  <2> DEFINE r == [srv[g] EXCEPT !.reload = "free"]
  <2>1. call' = [call EXCEPT ![k] = Idle] /\ srv' = [srv EXCEPT ![g] = r]
    BY <1>1, <1>3, <1>5 DEF StillServing, Server
  <2>2. /\ r \in Server /\ r.reload = "free" /\ r.slot = srv[g].slot /\ r.enc = srv[g].enc
        /\ r.started = srv[g].started /\ r.closed = srv[g].closed
    BY <1>4 DEF Server
  <2> HIDE DEF r, g
  <2>3. CallTo(k, Idle) /\ ServerTo(g, r)
    BY <1>3, <2>1, <2>2, IdleFacts DEF CallTo, ServerTo
  <2>4. OwnSlots(g, r)
    BY <1>3, <2>2 DEF OwnSlots, Accounted, Slots
  <2>5. 0 <= Made
    BY ServerAssumption DEF Accounted, Types, Made
  <2>6. InPhase(Idle)
    BY <2>5, IdleFacts DEF InPhase
  <2>7. Rest /\ StopLocks
    BY <1>1, <1>2, <2>3, IdleFacts, ReloadRest
  <2>8. /\ Types' /\ Unmade' /\ Phases' /\ Slots'
        /\ call'[k] = Idle /\ \A j \in Callers \ {k} : call'[j] = call[j]
        /\ srv'[g] = r /\ \A h \in Gens \ {g} : srv'[h] = srv[h]
    BY <2>3, <2>4, <2>6, <2>7, ServerStep
  <2>9. /\ \A j \in Callers : Holds(j) => call[j].gen \in Gens
        /\ \A j \in Callers \ {k} : Holds(j) => call[j].gen # g
    BY <1>4 DEF Holds, Accounted, Phases, Reloads
  <2>10. ~Holds(k)' /\ call[k].gen = g
    BY <2>8, IdleFacts DEF Holds, g
  <2>11. Reloads'
    BY <1>3, <2>2, <2>8, <2>9, <2>10, ServerAssumption, ReloadsKept DEF Accounted
  <2>12. RunningServes'
    BY <1>2, <1>3, <2>2, <2>8, ServerAssumption
    DEF RunningServes, Accounted, Types, Serving, Gens
  <2>13. UpAfterStart'
    <3>1. ASSUME server # 0, pmu = "free", srv'[server].reload = "free", NEW p \in srv'[server].enc.protos
          PROVE  srv'[server] = srv[server] /\ srv[server].reload = "free"
      <4>1. server \in Gens
        BY <3>1, ServerAssumption DEF Accounted, Types, Gens
      <4>2. CASE server = g
        <5>1. Serving(g)
          BY <3>1, <4>2 DEF Accounted, RunningServes
        <5>2. call[k].cfg = NoCfg
          BY <1>5, <5>1 DEF g
        <5>3. srv'[server].enc.protos = {}
          BY <1>4, <2>2, <2>8, <4>2, <5>2 DEF NoCfg
        <5> QED BY <3>1, <5>3
      <4> QED BY <2>8, <3>1, <4>1, <4>2
    <3> QED BY <1>2, <3>1 DEF Accounted, UpAfterStart, ReloadLocked
  <2>14. InSomeHand'
    <3> SUFFICES ASSUME NEW l \in open
                 PROVE  l \in srv'[l.gen].slot \/ \E j \in Callers : l \in call'[j].old
      BY <1>2 DEF InSomeHand
    <3>1. l.gen \in Gens
      BY <1>1 DEF Listener
    <3>2. CASE l \in srv[l.gen].slot
      BY <2>2, <2>8, <3>1, <3>2
    <3>3. CASE \E j \in Callers : l \in call[j].old
      BY <1>2, <2>8, <3>3
    <3> QED BY <3>2, <3>3 DEF Accounted, InSomeHand
  <2> QED BY <2>8, <2>11, <2>12, <2>13, <2>14 DEF Accounted
<1>6. CASE ~(call[k].cfg = NoCfg \/ ~Serving(g))
  <2> DEFINE c == [call[k] EXCEPT !.at = "start"]
  <2>1. call' = [call EXCEPT ![k] = c] /\ srv' = srv
    BY <1>1, <1>6 DEF StillServing, CallRec
  <2>2. /\ c \in CallRec /\ c.at = "start" /\ c.op = "reload" /\ c.gen = g /\ c.cfg = call[k].cfg
        /\ c.old = {}
    BY <1>1, <1>2 DEF CallRec
  <2> HIDE DEF c
  <2>3. /\ conn' \in [Conns -> ConnRec] /\ want' \in Configs
        /\ \A j \in Conns : conn'[j].at # "none" => conn'[j].l \in Listener
        /\ left' \in [starts : 0..MaxStarts, calls : Nat, queries : Nat]
    BY <1>2 DEF Accounted, Types
  <2> QED BY <1>2, <1>3, <2>1, <2>2, <2>3, QuietCall
<1> QED BY <1>5, <1>6

LEMMA RestartAccounted ==
  ASSUME Accounted, NEW k \in Callers, Restart(k)
  PROVE  Accounted'
<1> DEFINE g == call[k].gen
           cfg == call[k].cfg
           r0 == StartEncryptedListeners(g, cfg, srv[g])
           r == [r0 EXCEPT !.reload = "free"]
<1>1. /\ call[k] \in CallRec /\ call \in [Callers -> CallRec] /\ srv \in [Gens -> Server]
      /\ open \subseteq Listener /\ cfg \in Configs
  BY DEF Accounted, Types, CallRec
<1>2. /\ call[k].at = "start" /\ UNCHANGED <<pmu, server, want, conn, left>>
      /\ call' = [call EXCEPT ![k] = Idle] /\ open' = open \cup Started(g, cfg)
      /\ srv' = [srv EXCEPT ![g] = r]
  BY DEF Restart
<1>3. call[k].op = "reload" /\ g \in Gens /\ g <= Made /\ call[k].old = {} /\ Holds(k)
  BY <1>1, <1>2 DEF Holds, Accounted, Phases, Unmade
<1>4. /\ srv[g] \in Server /\ srv[g].reload = k /\ \A l \in srv[g].slot : l.proto \notin Encrypted
  BY <1>1, <1>3 DEF Accounted, Reloads
<1> HIDE DEF g, cfg, r0
<1>5. /\ Started(g, cfg) \subseteq Listener
      /\ \A l \in Started(g, cfg) : l.gen = g /\ l.proto \in Encrypted
      /\ \A l, m \in Started(g, cfg) : l.proto = m.proto => l = m
      /\ r0 \in Server /\ r0.enc = cfg
      /\ r0.started = srv[g].started /\ r0.closed = srv[g].closed
      /\ r0.slot = srv[g].slot \cup Started(g, cfg)
  <2>1. /\ Startable(cfg) \subseteq Encrypted /\ Started(g, cfg) \subseteq Listener
        /\ \A l \in Started(g, cfg) : l.gen = g /\ l.proto \in Startable(cfg)
        /\ \A l, m \in Started(g, cfg) : l.proto = m.proto => l = m
        /\ r0 \in Server /\ r0.enc = cfg
        /\ r0.started = srv[g].started /\ r0.closed = srv[g].closed
        /\ r0.slot = {l \in srv[g].slot : l.proto \notin Startable(cfg)} \cup Started(g, cfg)
    BY <1>1, <1>3, <1>4, StartedFacts DEF Accounted, r0
  <2> QED BY <1>4, <2>1
<1>6. /\ r \in Server /\ r.enc = r0.enc /\ r.reload = "free" /\ r.clash = r0.clash
      /\ r.started = srv[g].started /\ r.closed = srv[g].closed /\ r.slot = r0.slot
  BY <1>5 DEF Server
<1> HIDE DEF r
<1>7. \A j \in Callers : Holds(j) => call[j].gen \in Gens
  BY DEF Holds, Accounted, Phases
<1>8. \A j \in Callers \ {k} : Holds(j) => call[j].gen # g
  BY <1>4 DEF Accounted, Reloads
<1>9. /\ Types' /\ Unmade' /\ Phases' /\ Slots'
      /\ call'[k] = Idle /\ \A j \in Callers \ {k} : call'[j] = call[j]
      /\ srv'[g] = r /\ \A h \in Gens \ {g} : srv'[h] = srv[h]
  <2>1. CallTo(k, Idle) /\ ServerTo(g, r)
    BY <1>2, <1>3, <1>6, IdleFacts DEF CallTo, ServerTo, g, cfg
  <2>2. OwnSlots(g, r)
    BY <1>3, <1>4, <1>5, <1>6 DEF OwnSlots, Accounted, Slots
  <2>3. 0 <= Made
    BY ServerAssumption DEF Accounted, Types, Made
  <2>4. InPhase(Idle)
    BY <2>3, IdleFacts DEF InPhase
  <2>5. open' \subseteq Listener
    BY <1>1, <1>2, <1>5
  <2>6. Rest /\ StopLocks
    BY <1>2, <1>3, <2>1, <2>5, IdleFacts, ReloadRest
  <2> QED BY <2>1, <2>2, <2>4, <2>6, ServerStep
<1>10. ~Holds(k)' /\ call[k].gen = g
  BY <1>9, IdleFacts DEF Holds, g
<1>11. Reloads'
  BY <1>3, <1>6, <1>7, <1>8, <1>9, <1>10, ServerAssumption, ReloadsKept DEF Accounted
<1>12. RunningServes'
  BY <1>2, <1>3, <1>6, <1>9, ServerAssumption
  DEF RunningServes, Accounted, Types, Serving, Gens
<1>13. UpAfterStart'
  <2> SUFFICES ASSUME server # 0, pmu = "free", srv'[server].reload = "free",
                      NEW p \in srv'[server].enc.protos
               PROVE  \/ \E l \in srv'[server].slot : l.proto = p
                      \/ <<p, srv'[server].enc.port>> \in Busy
                      \/ p \in srv'[server].clash
    BY <1>2 DEF UpAfterStart, ReloadLocked
  <2>1. server \in Gens
    BY ServerAssumption DEF Accounted, Types, Gens
  <2>2. CASE server # g
    <3>1. srv'[server] = srv[server]
      BY <1>9, <2>1, <2>2
    <3> QED BY <3>1 DEF Accounted, UpAfterStart, ReloadLocked
  <2>3. CASE server = g
    (* Nobody has a listener of this server in hand: no stop runs, and a   *)
    (* reload would hold the lock that k had.                              *)
    <3>1. \A l \in open : l.gen = g => l \in srv[g].slot
      <4> SUFFICES ASSUME NEW l \in open, l.gen = g, NEW j \in Callers, l \in call[j].old
                   PROVE  FALSE
        BY DEF Accounted, InSomeHand
      <4>1. call[j].gen = g /\ call[j].at \in {"close", "drain"} /\ call[j].op \in {"stop", "reload"}
        BY DEF Accounted, Slots, Phases
      <4>2. call[j].op # "stop"
        BY ServerAssumption DEF Accounted, Phases
      <4>3. Holds(j) /\ j # k
        BY <1>3, <4>1, <4>2 DEF Holds
      <4> QED BY <1>8, <4>1, <4>3
    <3>2. p \in cfg.protos
      BY <1>5, <1>6, <1>9, <2>3
    <3>3. (\E l \in r0.slot : l.proto = p) \/ <<p, cfg.port>> \in Busy \/ p \in r0.clash
      BY <1>1, <1>3, <1>4, <3>1, <3>2, ListensAfterStart DEF r0, Accounted
    <3> QED BY <1>5, <1>6, <1>9, <2>3, <3>3
  <2> QED BY <2>2, <2>3
<1>14. InSomeHand'
  <2> SUFFICES ASSUME NEW l \in open'
               PROVE  l \in srv'[l.gen].slot \/ \E j \in Callers : l \in call'[j].old
    BY DEF InSomeHand
  <2>1. CASE l \in Started(g, cfg)
    BY <1>5, <1>6, <1>9, <2>1
  <2>2. CASE l \in open
    <3>1. l.gen \in Gens
      BY <1>1, <2>2 DEF Listener
    <3>2. CASE l \in srv[l.gen].slot
      BY <1>5, <1>6, <1>9, <3>1, <3>2
    <3>3. CASE \E j \in Callers : l \in call[j].old
      BY <1>3, <1>9, <3>3
    <3> QED BY <2>2, <3>2, <3>3 DEF Accounted, InSomeHand
  <2> QED BY <1>2, <2>1, <2>2 DEF g, cfg
<1> QED BY <1>9, <1>11, <1>12, <1>13, <1>14 DEF Accounted

LEMMA StartAccounted ==
  ASSUME Accounted, StartDNS
  PROVE  Accounted'
<1>1. /\ pmu = "free" /\ server = 0 /\ left.starts > 0
      /\ left' = [left EXCEPT !.starts = @ - 1] /\ UNCHANGED <<pmu, want, conn, call>>
  BY DEF StartDNS, Free
<1>2. /\ left \in [starts : 0..MaxStarts, calls : Nat, queries : Nat] /\ MaxStarts \in Nat
      /\ srv \in [Gens -> Server] /\ want \in Configs /\ open \subseteq Listener
  BY ServerAssumption DEF Accounted, Types
<1>3. /\ left' \in [starts : 0..MaxStarts, calls : Nat, queries : Nat]
      /\ Made \in Nat /\ Made + 1 \in Gens /\ Made' = Made + 1
  <2>1. left' = [left EXCEPT !.starts = left.starts - 1] /\ left.starts - 1 \in 0..MaxStarts
    BY <1>1, <1>2
  <2>2. left' \in [starts : 0..MaxStarts, calls : Nat, queries : Nat] /\ left'.starts = left.starts - 1
    BY <1>2, <2>1
  <2> QED BY <1>1, <1>2, <2>2 DEF Made, Gens
<1>4. \A k \in Callers : call'[k].gen <= Made'
  <2>1. \A k \in Callers : call[k].gen <= Made /\ call[k].gen \in 0..MaxStarts
    BY DEF Accounted, Unmade, Types, CallRec
  <2> QED BY <1>1, <1>2, <1>3, <2>1
<1>5. Phases'
  BY <1>1 DEF Accounted, Phases
<1> DEFINE g     == MaxStarts - left.starts + 1
           plain == [gen |-> g, proto |-> "plain", port |-> 53, round |-> 0, late |-> FALSE]
           s     == [NoServer EXCEPT !.started = TRUE, !.slot = {plain}]
           r     == StartEncryptedListeners(g, want, s)
<1>6. CASE UNCHANGED <<server, srv, open>>
  <2>1. Types'
    BY <1>1, <1>3, <1>6 DEF Accounted, Types
  <2>2. Unmade'
    <3>1. \A h \in Gens : h > Made' => h > Made
      BY <1>2, <1>3 DEF Gens
    <3>2. server' <= Made'
      BY <1>1, <1>3, <1>6
    <3> QED BY <1>4, <1>6, <3>1, <3>2 DEF Accounted, Unmade
  <2>3. Reloads' /\ Slots' /\ RunningServes' /\ InSomeHand' /\ UpAfterStart'
    BY <1>1, <1>6 DEF Accounted, Reloads, Holds, Slots, RunningServes, InSomeHand,
       UpAfterStart, Serving, ReloadLocked
  <2> QED BY <1>5, <2>1, <2>2, <2>3 DEF Accounted
<1>7. CASE /\ server' = g /\ srv' = [srv EXCEPT ![g] = r]
           /\ open' = open \cup {plain} \cup Started(g, want)
  <2>1. g = Made + 1 /\ g \in Gens
    BY <1>3 DEF Made
  <2>2. plain \in Listener /\ plain.gen = g /\ plain.proto = "plain"
    BY <2>1 DEF Listener, Protos
  <2> HIDE DEF g, plain
  <2>3. s \in Server /\ s.started = TRUE /\ s.closed = FALSE /\ s.slot = {plain} /\ s.reload = "free"
    <3>1. NoServer \in Server /\ NoServer.closed = FALSE /\ NoServer.reload = "free"
      BY ServerAssumption DEF NoServer, Server
    <3>2. {plain} \in SUBSET Listener
      BY <2>2
    <3> QED BY <3>1, <3>2 DEF Server
  <2> HIDE DEF s
  <2>4. /\ Started(g, want) \subseteq Listener
        /\ \A l \in Started(g, want) : l.gen = g /\ l.proto \in Encrypted
        /\ \A l, m \in Started(g, want) : l.proto = m.proto => l = m
        /\ r \in Server /\ r.enc = want /\ r.reload = "free"
        /\ r.started = TRUE /\ r.closed = FALSE
        /\ r.slot = {plain} \cup Started(g, want)
    <3>1. /\ Startable(want) \subseteq Encrypted /\ Started(g, want) \subseteq Listener
          /\ \A l \in Started(g, want) : l.gen = g /\ l.proto \in Startable(want)
          /\ \A l, m \in Started(g, want) : l.proto = m.proto => l = m
          /\ r \in Server /\ r.enc = want /\ r.reload = s.reload
          /\ r.started = s.started /\ r.closed = s.closed
          /\ r.slot = {l \in s.slot : l.proto \notin Startable(want)} \cup Started(g, want)
      BY <1>2, <2>1, <2>3, StartedFacts DEF Accounted
    <3>2. "plain" \notin Encrypted
      BY DEF Encrypted
    <3> QED BY <2>2, <2>3, <3>1, <3>2
  <2> HIDE DEF r
  <2>5. srv' \in [Gens -> Server] /\ srv'[g] = r /\ \A h \in Gens \ {g} : srv'[h] = srv[h]
    BY <1>2, <1>7, <2>1, <2>4
  <2>6. Types'
    <3>1. server' \in 0..MaxStarts
      BY <1>7, <2>1 DEF Gens
    <3>2. open' \subseteq Listener
      BY <1>2, <1>7, <2>2, <2>4
    <3> QED BY <1>1, <1>3, <2>5, <3>1, <3>2 DEF Accounted, Types
  <2>7. Unmade'
    <3>1. \A h \in Gens : h > Made' => h > Made /\ h # g
      BY <1>2, <1>3, <2>1 DEF Gens
    <3>2. server' <= Made'
      BY <1>3, <1>7, <2>1
    <3> QED BY <1>4, <2>5, <3>1, <3>2 DEF Accounted, Unmade
  (* Nobody works on the new server and none of its listeners is open yet. *)
  <2>8. \A k \in Callers : call[k].gen # g
    BY <1>1, <1>3, <1>4, <2>1 DEF Accounted, Unmade
  <2>9. srv[g] = NoServer
    BY <1>3, <2>1 DEF Accounted, Unmade
  <2>10. \A l \in open : l.gen # g
    BY <2>8, <2>9 DEF Accounted, InSomeHand, Slots, NoServer
  <2>11. Reloads'
    <3>1. ASSUME NEW j \in Callers, Holds(j)'
          PROVE  /\ srv'[call'[j].gen].reload = j /\ srv'[call'[j].gen].enc = call'[j].cfg
                 /\ \A l \in srv'[call'[j].gen].slot : l.proto \notin Encrypted
      <4>1. Holds(j) /\ call' = call
        BY <1>1, <3>1 DEF Holds
      <4>2. call[j].gen \in Gens \ {g}
        BY <2>8, <4>1 DEF Holds, Accounted, Phases
      <4> QED BY <2>5, <4>1, <4>2 DEF Accounted, Reloads
    <3>2. ASSUME NEW h \in Gens, srv'[h].reload # "free"
          PROVE  \E j \in Callers : srv'[h].reload = j /\ Holds(j)' /\ call'[j].gen = h
      <4>1. h # g /\ srv'[h] = srv[h]
        BY <2>4, <2>5, <3>2
      <4>2. PICK j \in Callers : srv[h].reload = j /\ Holds(j) /\ call[j].gen = h
        BY <3>2, <4>1 DEF Accounted, Reloads
      <4>3. Holds(j)' /\ call'[j].gen = h
        BY <1>1, <4>2 DEF Holds
      <4> QED BY <4>1, <4>2, <4>3
    <3> QED BY <3>1, <3>2 DEF Reloads
  <2>12. Slots'
    <3>1. \A l, m \in r.slot : l.gen = g /\ (l.proto = m.proto => l = m)
      BY <2>2, <2>4 DEF Encrypted
    <3> QED BY <1>1, <2>5, <3>1 DEF Accounted, Slots
  <2>13. RunningServes'
    BY <1>7, <2>4, <2>5 DEF RunningServes, Serving
  <2>14. InSomeHand'
    <3> SUFFICES ASSUME NEW l \in open'
                 PROVE  l \in srv'[l.gen].slot \/ \E j \in Callers : l \in call'[j].old
      BY DEF InSomeHand
    <3>1. CASE l \in {plain} \cup Started(g, want)
      BY <2>2, <2>4, <2>5, <3>1
    <3>2. CASE l \in open
      <4>1. l.gen \in Gens \ {g}
        BY <1>2, <2>10, <3>2 DEF Listener
      <4> QED BY <1>1, <2>5, <3>2, <4>1 DEF Accounted, InSomeHand
    <3> QED BY <1>7, <3>1, <3>2
  <2>15. UpAfterStart'
    <3> SUFFICES ASSUME NEW p \in want.protos
                 PROVE  (\E l \in r.slot : l.proto = p) \/ <<p, want.port>> \in Busy \/ p \in r.clash
      BY <1>7, <2>4, <2>5 DEF UpAfterStart
    <3> QED BY <1>2, <2>1, <2>3, <2>10, ListensAfterStart DEF r, Accounted
  <2> QED BY <1>5, <2>6, <2>7, <2>11, <2>12, <2>13, <2>14, <2>15 DEF Accounted
<1> QED BY <1>6, <1>7 DEF StartDNS

-----------------------------------------------------------------------------
(* The theorems.                                                           *)

LEMMA InitAccounted == Init => Accounted
<1> SUFFICES ASSUME Init PROVE Accounted
  OBVIOUS
<1>1. NoServer \in Server /\ NoServer.slot = {} /\ NoServer.reload = "free" /\ NoServer.started = FALSE
  BY ServerAssumption DEF NoServer, Server
<1>2. NoConn \in ConnRec /\ NoConn.at = "none"
  BY DEF NoConn, ConnRec
<1>3. left \in [starts : 0..MaxStarts, calls : Nat, queries : Nat] /\ Made = 0
  BY ServerAssumption DEF Init, Made
<1>4. Types
  BY <1>1, <1>2, <1>3, IdleFacts, ServerAssumption DEF Init, Types
<1>5. Unmade
  BY <1>3, IdleFacts DEF Init, Unmade
<1>6. Phases
  BY IdleFacts, ServerAssumption DEF Init, Phases
<1>7. Reloads
  BY <1>1, IdleFacts DEF Init, Reloads, Holds
<1>8. Slots /\ RunningServes /\ InSomeHand /\ UpAfterStart
  BY <1>1, IdleFacts DEF Init, Slots, RunningServes, InSomeHand, UpAfterStart
<1> QED BY <1>4, <1>5, <1>6, <1>7, <1>8 DEF Accounted

LEMMA NextAccounted == Accounted /\ [Next]_vars => Accounted'
<1> SUFFICES ASSUME Accounted, [Next]_vars PROVE Accounted'
  OBVIOUS
<1>1. CASE StartDNS
  BY <1>1, StartAccounted
<1>2. ASSUME NEW k \in Callers, StopDNS(k) \/ ConfigureEncryptedDNS(k) \/ Steps(k)
      PROVE  Accounted'
  BY <1>2, StopAccounted, ConfigureAccounted, CloseAccounted, DrainAccounted, StoppedAccounted,
     SnapshotAccounted, ReloadAccounted, StillServingAccounted, RestartAccounted DEF Steps
<1>3. ASSUME NEW k \in Conns,
             Accept(k) \/ Handshake(k) \/ Read(k) \/ HandleQuery(k) \/ EndConn(k)
      PROVE  Accounted'
  <2>1. /\ Types' /\ UNCHANGED <<pmu, server, want, srv, open, call>> /\ left'.starts = left.starts
    BY <1>3, ConnTypes DEF Accounted
  <2> QED BY <2>1, ConnsAccounted
<1>4. CASE UNCHANGED vars
  <2>1. UNCHANGED <<pmu, server, want, srv, open, call>> /\ left'.starts = left.starts
    BY <1>4 DEF vars
  <2>2. Types'
    BY <1>4 DEF vars, Accounted, Types
  <2> QED BY <2>1, <2>2, ConnsAccounted
<1> QED BY <1>1, <1>2, <1>3, <1>4 DEF Next

LEMMA AlwaysAccounted == Spec => []Accounted
<1> QED BY InitAccounted, NextAccounted, PTL DEF Spec

-----------------------------------------------------------------------------
(* What was asked for.  A stopped server's fields hold late listeners only *)
(* and one server runs at a time; encrypted listeners fit the server's     *)
(* copy of the configuration; and the running server's copy is the         *)
(* configuration of the service, or was overtaken, or a reload that will   *)
(* bring the configuration is still to take the lock.                      *)
Lates ==
  \A g \in Gens : /\ Serving(g) => g = server
                  /\ ~Serving(g) => \A l \in srv[g].slot : l.late
Fits ==
  \A g \in Gens : \A l \in srv[g].slot :
    l.proto \in Encrypted => l.proto \in srv[g].enc.protos /\ l.port = srv[g].enc.port

Pending(k) == /\ call[k].op = "reload"
              /\ \/ call[k].at = "snapshot"
                 \/ call[k].at = "lock" /\ call[k].gen = server /\ call[k].cfg = want
Follows ==
  server # 0 => \/ srv[server].enc = want \/ srv[server].overtaken
                \/ \E k \in Callers : Pending(k)

Asked == Lates /\ Fits /\ Follows

(* A server somebody works on was started once, and while a stop has p.mu  *)
(* the server no longer serves.                                            *)
Begun(g) == srv[g].started \/ srv[g].closed
Reals ==
  /\ server # 0 => Begun(server)
  /\ \A k \in Callers : call[k].gen # 0 => Begun(call[k].gen)
  /\ pmu # "free" /\ server # 0 => ~Serving(server)

LEMMA RealsNext ==
  ASSUME Accounted, Reals, [Next]_vars
  PROVE  Reals'
<1>1. /\ srv \in [Gens -> Server] /\ call \in [Callers -> CallRec] /\ server \in 0..MaxStarts
      /\ MaxStarts \in Nat
  BY ServerAssumption DEF Accounted, Types
<1>2. \A k \in Callers : call[k].gen \in 0..MaxStarts /\ call[k] \in CallRec
  BY <1>1 DEF CallRec
<1>3. \A g : g \in 0..MaxStarts /\ g # 0 => g \in Gens
  BY <1>1 DEF Gens
<1>4. ASSUME UNCHANGED <<pmu, server>>, \A g \in Gens : Begun(g) => Begun(g)',
             \A g \in Gens : Serving(g)' => Serving(g),
             \A k \in Callers : call'[k].gen \in {0, call[k].gen, server}
      PROVE  Reals'
  BY <1>1, <1>2, <1>3, <1>4 DEF Reals
<1>5. CASE StartDNS
  <2> DEFINE g     == MaxStarts - left.starts + 1
             plain == [gen |-> g, proto |-> "plain", port |-> 53, round |-> 0, late |-> FALSE]
             s     == [NoServer EXCEPT !.started = TRUE, !.slot = {plain}]
             r     == StartEncryptedListeners(g, want, s)
  <2>1. UNCHANGED <<pmu, call>> /\ pmu = "free" /\ left.starts \in 0..MaxStarts /\ left.starts > 0
    BY <1>5 DEF StartDNS, Free, Accounted, Types
  <2>2. g \in Gens
    BY <1>1, <2>1 DEF Gens
  <2>3. r.started = TRUE
    BY DEF StartEncryptedListeners, NoServer
  <2> HIDE DEF g, r
  <2>4. CASE UNCHANGED <<server, srv>>
    BY <1>4, <2>1, <2>4 DEF Begun, Serving
  <2>5. CASE server' = g /\ srv' = [srv EXCEPT ![g] = r]
    <3>1. srv'[g].started /\ \A h \in Gens : Begun(h) => Begun(h)'
      BY <1>1, <2>2, <2>3, <2>5 DEF Begun
    <3> QED BY <1>2, <1>3, <2>1, <2>5, <3>1 DEF Reals, Begun
  <2> QED BY <1>5, <2>4, <2>5 DEF StartDNS, g, r
<1>6. ASSUME NEW k \in Callers, StopDNS(k)
      PROVE  Reals'
  <2>1. /\ server # 0 /\ server' = server
        /\ srv' = [srv EXCEPT ![server].closed = TRUE, ![server].started = FALSE, ![server].slot = {}]
        /\ \A j \in Callers : call'[j].gen \in {call[j].gen, server}
    BY <1>1, <1>6 DEF StopDNS, Idle
  <2>2. srv'[server].closed /\ \A h \in Gens : Begun(h) => Begun(h)'
    BY <1>1, <1>3, <2>1 DEF Begun, Server
  <2> QED BY <1>2, <1>3, <2>1, <2>2 DEF Reals, Begun, Serving
<1>7. ASSUME NEW k \in Callers, Stopped(k)
      PROVE  Reals'
  <2>1. server' = 0 /\ srv' = srv /\ \A j \in Callers : call'[j].gen \in {call[j].gen, 0}
    BY <1>1, <1>7 DEF Stopped, Idle
  <2> QED BY <2>1 DEF Reals, Begun
<1>8. ASSUME NEW k \in Callers,
             \/ ConfigureEncryptedDNS(k) \/ CloseListener(k) \/ Drain(k) \/ ReloadDNSWithCurrentConfig(k)
      PROVE  Reals'
  <2>1. UNCHANGED <<pmu, server, srv>>
    BY <1>8 DEF ConfigureEncryptedDNS, CloseListener, Drain, ReloadDNSWithCurrentConfig
  <2>2. \A j \in Callers : call'[j].gen \in {0, call[j].gen, server}
    <3>1. CASE ConfigureEncryptedDNS(k)
      BY <1>1, <3>1 DEF ConfigureEncryptedDNS, Idle
    <3>2. CASE CloseListener(k)
      <4>1. call' = [call EXCEPT ![k] = call'[k]] /\ call'[k].gen = call[k].gen
        BY <1>1, <1>2, <3>2 DEF CloseListener, CallRec
      <4> QED BY <1>1, <4>1
    <3>3. CASE Drain(k)
      <4>1. call' = [call EXCEPT ![k].at = "close", ![k].cur = {}]
        BY <3>3 DEF Drain
      <4> QED BY <1>1, <1>2, <4>1 DEF CallRec
    <3>4. CASE ReloadDNSWithCurrentConfig(k)
      BY <1>1, <1>2, <3>4 DEF ReloadDNSWithCurrentConfig, Idle, CallRec
    <3> QED BY <1>8, <3>1, <3>2, <3>3, <3>4
  <2> QED BY <1>4, <2>1, <2>2 DEF Begun, Serving
<1>9. ASSUME NEW k \in Callers, ReloadEncrypted(k) \/ StillServing(k)
      PROVE  Reals'
  <2>3. call[k].at \in {"lock", "close"} /\ call[k] \in CallRec
    BY <1>2, <1>9 DEF ReloadEncrypted, StillServing
  <2>4. call[k].gen \in Gens /\ srv[call[k].gen] \in Server
    BY <1>1, <2>3 DEF Accounted, Phases
  <2>1. UNCHANGED <<pmu, server>> /\ \A j \in Callers : call'[j].gen \in {0, call[j].gen}
    <3>1. CASE ReloadEncrypted(k)
      BY <1>1, <2>3, <3>1 DEF ReloadEncrypted, CallRec
    <3>2. CASE StillServing(k)
      BY <1>1, <2>3, <3>2 DEF StillServing, Idle, CallRec
    <3> QED BY <1>9, <3>1, <3>2
  <2>2. \A h \in Gens : srv'[h].started = srv[h].started /\ srv'[h].closed = srv[h].closed
    <3>1. CASE ReloadEncrypted(k)
      BY <1>1, <2>4, <3>1 DEF ReloadEncrypted, Server
    <3>2. CASE StillServing(k)
      BY <1>1, <2>4, <3>2 DEF StillServing, Server
    <3> QED BY <1>9, <3>1, <3>2
  <2> QED BY <1>4, <2>1, <2>2 DEF Begun, Serving
<1>10. ASSUME NEW k \in Callers, Restart(k)
      PROVE  Reals'
  <2> DEFINE g == call[k].gen
             r0 == StartEncryptedListeners(g, call[k].cfg, srv[g])
             r == [r0 EXCEPT !.reload = "free"]
  <2>1. /\ UNCHANGED <<pmu, server>> /\ srv' = [srv EXCEPT ![g] = r]
        /\ \A j \in Callers : call'[j].gen \in {0, call[j].gen}
    BY <1>1, <1>2, <1>10 DEF Restart, Idle
  <2>2. call[k].at = "start" /\ call[k].cfg \in Configs
    BY <1>2, <1>10 DEF Restart, CallRec
  <2>3. g \in Gens /\ srv[g] \in Server
    BY <1>1, <2>2 DEF Accounted, Phases
  <2>4. r0 \in Server /\ r0.started = srv[g].started /\ r0.closed = srv[g].closed
    BY <2>2, <2>3, StartedFacts DEF Accounted
  <2> HIDE DEF r0, g
  <2>5. r.started = srv[g].started /\ r.closed = srv[g].closed
    BY <2>4 DEF Server
  <2> HIDE DEF r
  <2>6. \A h \in Gens : srv'[h].started = srv[h].started /\ srv'[h].closed = srv[h].closed
    BY <1>1, <2>1, <2>3, <2>5
  <2> QED BY <1>4, <2>1, <2>6 DEF Begun, Serving
<1>11. ASSUME NEW k \in Conns,
              Accept(k) \/ Handshake(k) \/ Read(k) \/ HandleQuery(k) \/ EndConn(k)
       PROVE  Reals'
  <2>1. UNCHANGED <<pmu, server, srv, call>>
    BY <1>11, ConnTypes DEF Accounted
  <2> QED BY <2>1 DEF Reals, Begun, Serving
<1>12. CASE UNCHANGED vars
  BY <1>12 DEF vars, Reals, Begun, Serving
<1> QED BY <1>5, <1>6, <1>7, <1>8, <1>9, <1>10, <1>11, <1>12 DEF Next, Steps

(* Steps that leave the servers alone.                                     *)
LEMMA AskedKept ==
  ASSUME Accounted, Asked, UNCHANGED <<srv, server, want>>,
         \A k \in Callers : Pending(k) => \/ Pending(k)'
                                          \/ server = 0
  PROVE  Asked'
BY DEF Asked, Lates, Fits, Follows, Serving

(* A step that changes the server g only, to r.                            *)
LEMMA AskedServer ==
  ASSUME Accounted, Asked, NEW g \in Gens, NEW r,
         srv'[g] = r, \A h \in Gens \ {g} : srv'[h] = srv[h],
         r.started /\ ~r.closed => g = server',
         server' = server \/ \A h \in Gens \ {g} : ~Serving(h),
         ~(r.started /\ ~r.closed) => \A l \in r.slot : l.late,
         \A l \in r.slot : l.proto \in Encrypted => l.proto \in r.enc.protos /\ l.port = r.enc.port
  PROVE  Lates' /\ Fits'
<1>1. ASSUME NEW h \in Gens, h # g
      PROVE  /\ Serving(h)' <=> Serving(h)
             /\ srv'[h].slot = srv[h].slot /\ srv'[h].enc = srv[h].enc
  BY <1>1 DEF Serving
<1>2. Lates'
  BY <1>1 DEF Lates, Asked, Serving
<1>3. Fits'
  BY <1>1 DEF Fits, Asked
<1> QED BY <1>2, <1>3

LEMMA StartAsked ==
  ASSUME Accounted, Asked, StartDNS
  PROVE  Asked'
<1> DEFINE g     == MaxStarts - left.starts + 1
           plain == [gen |-> g, proto |-> "plain", port |-> 53, round |-> 0, late |-> FALSE]
           s     == [NoServer EXCEPT !.started = TRUE, !.slot = {plain}]
           r     == StartEncryptedListeners(g, want, s)
<1>1. CASE UNCHANGED <<server, srv, open>>
  BY <1>1, AskedKept DEF StartDNS, Pending
<1>2. CASE server' = g /\ srv' = [srv EXCEPT ![g] = r]
  <2>1. /\ left.starts \in 0..MaxStarts /\ left.starts > 0 /\ MaxStarts \in Nat /\ want \in Configs
        /\ server = 0 /\ want' = want /\ srv \in [Gens -> Server]
    BY ServerAssumption DEF Accounted, Types, StartDNS
  <2>2. g \in Gens
    BY <2>1 DEF Gens
  <2>3. plain \in Listener /\ plain.gen = g /\ plain.proto = "plain"
    BY <2>2 DEF Listener, Protos
  <2> HIDE DEF g, plain
  <2>4. s \in Server /\ s.started = TRUE /\ s.closed = FALSE /\ s.slot = {plain}
    <3>1. NoServer \in Server /\ NoServer.closed = FALSE
      BY ServerAssumption DEF NoServer, Server
    <3> QED BY <2>3, <3>1 DEF Server
  <2> HIDE DEF s
  <2>5. /\ r.enc = want /\ r.started = TRUE /\ r.closed = FALSE
        /\ \A l \in Started(g, want) : l.proto \in Startable(want) /\ l.port = want.port
        /\ r.slot = {l \in s.slot : l.proto \notin Startable(want)} \cup Started(g, want)
    BY <2>1, <2>2, <2>4, StartedFacts DEF Accounted
  <2> HIDE DEF r
  <2>6. srv'[g] = r /\ \A h \in Gens \ {g} : srv'[h] = srv[h]
    BY <1>2, <2>1, <2>2
  <2>7. \A h \in Gens : ~Serving(h)
    BY <2>1 DEF Asked, Lates, Gens
  <2>8. \A l \in r.slot : l.proto \in Encrypted => l.proto \in r.enc.protos /\ l.port = r.enc.port
    <3>1. Startable(want) \subseteq want.protos /\ "plain" \notin Encrypted
      BY DEF Startable, Encrypted
    <3> QED BY <2>3, <2>4, <2>5, <3>1
  <2>9. Lates' /\ Fits'
    BY <1>2, <2>2, <2>5, <2>6, <2>7, <2>8, AskedServer
  <2>10. Follows'
    BY <1>2, <2>1, <2>5, <2>6 DEF Follows
  <2> QED BY <2>9, <2>10 DEF Asked
<1> QED BY <1>1, <1>2 DEF StartDNS

LEMMA StopAsked ==
  ASSUME Accounted, Asked, NEW k \in Callers, StopDNS(k)
  PROVE  Asked'
<1> DEFINE r == [srv[server] EXCEPT !.closed = TRUE, !.started = FALSE, !.slot = {}]
<1>1. /\ server # 0 /\ call[k] = Idle /\ UNCHANGED <<server, want>> /\ call \in [Callers -> CallRec]
      /\ srv \in [Gens -> Server]
  BY DEF StopDNS, Accounted, Types
<1>2. server \in Gens
  BY <1>1, ServerAssumption DEF Accounted, Types, Gens
<1>3. srv[server] \in Server
  BY <1>1, <1>2
<1>4. srv' = [srv EXCEPT ![server] = r]
  BY <1>1, <1>2 DEF StopDNS, Server
<1>5. /\ r.slot = {} /\ r.closed = TRUE /\ r.enc = srv[server].enc
      /\ r.overtaken = srv[server].overtaken
  BY <1>3 DEF Server
<1> HIDE DEF r
<1>6. srv'[server] = r /\ \A h \in Gens \ {server} : srv'[h] = srv[h]
  BY <1>1, <1>2, <1>4
<1>7. Lates' /\ Fits'
  BY <1>1, <1>2, <1>5, <1>6, AskedServer
<1>8. \A j \in Callers : Pending(j) => Pending(j)'
  <2>1. ~Pending(k)
    BY <1>1, IdleFacts DEF Pending
  <2>2. \A j \in Callers \ {k} : call'[j] = call[j]
    BY <1>1 DEF StopDNS
  <2> QED BY <1>1, <2>1, <2>2 DEF Pending
<1>9. Follows'
  BY <1>1, <1>5, <1>6, <1>8 DEF Follows, Asked
<1> QED BY <1>7, <1>9 DEF Asked

LEMMA StoppedAsked ==
  ASSUME Accounted, Reals, Asked, NEW k \in Callers, Stopped(k)
  PROVE  Asked'
<1>1. server' = 0 /\ srv' = srv /\ call[k].op = "stop"
  BY DEF Stopped
<1>2. \A g \in Gens : ~Serving(g)
  <2>1. pmu = k
    BY <1>1 DEF Accounted, Phases
  <2>2. server # 0 => ~Serving(server)
    BY <2>1, ServerAssumption DEF Reals
  <2> QED BY <2>2 DEF Asked, Lates, Gens
<1>3. Lates' /\ Fits' /\ Follows'
  BY <1>1, <1>2 DEF Asked, Lates, Fits, Follows, Serving
<1> QED BY <1>3 DEF Asked

LEMMA ReloadAsked ==
  ASSUME Accounted, Asked, NEW k \in Callers, ReloadEncrypted(k)
  PROVE  Asked'
<1> DEFINE g == call[k].gen
           enc == {l \in srv[g].slot : l.proto \in Encrypted}
           r == [srv[g] EXCEPT !.reload = k, !.slot = srv[g].slot \ enc, !.enc = call[k].cfg,
                               !.overtaken = (call[k].cfg # want)]
<1>1. /\ call[k] \in CallRec /\ call \in [Callers -> CallRec] /\ srv \in [Gens -> Server]
      /\ call[k].at = "lock" /\ UNCHANGED <<server, want>>
  BY DEF Accounted, Types, ReloadEncrypted
<1>2. g \in Gens /\ srv[g] \in Server
  BY <1>1 DEF Accounted, Phases
<1>3. srv' = [srv EXCEPT ![g] = r]
  BY <1>1, <1>2 DEF ReloadEncrypted, Server
<1>4. /\ r.slot = srv[g].slot \ enc /\ r.enc = call[k].cfg /\ r.closed = srv[g].closed
      /\ r.started = srv[g].started /\ r.overtaken = (call[k].cfg # want)
  BY <1>2 DEF Server
<1>5. \A l \in r.slot : l \in srv[g].slot /\ l.proto \notin Encrypted
  BY <1>4
<1>6. \A j \in Callers \ {k} : call'[j] = call[j]
  BY <1>1 DEF ReloadEncrypted
<1> HIDE DEF g, r, enc
<1>7. srv'[g] = r /\ \A h \in Gens \ {g} : srv'[h] = srv[h]
  BY <1>1, <1>2, <1>3
<1>8. Lates' /\ Fits'
  <2>1. (r.started /\ ~r.closed) <=> Serving(g)
    BY <1>4 DEF Serving
  <2>2. Serving(g) => g = server'
    BY <1>1, <1>2 DEF Asked, Lates
  <2>3. ~Serving(g) => \A l \in r.slot : l.late
    BY <1>2, <1>5 DEF Asked, Lates
  <2> QED BY <1>1, <1>2, <1>5, <1>7, <2>1, <2>2, <2>3, AskedServer
<1>9. Follows'
  <2>1. CASE server = g
    BY <1>1, <1>2, <1>4, <1>7, <2>1 DEF Follows
  <2>2. CASE server # g
    <3>1. ~Pending(k)
      BY <1>1, <2>2 DEF Pending, g
    <3>2. \A j \in Callers : Pending(j) => Pending(j)'
      BY <1>1, <1>6, <3>1 DEF Pending
    <3>3. server # 0 => srv'[server] = srv[server]
      BY <1>7, <2>2, ServerAssumption DEF Accounted, Types, Gens
    <3> QED BY <1>1, <3>2, <3>3 DEF Follows, Asked
  <2> QED BY <2>1, <2>2
<1> QED BY <1>8, <1>9 DEF Asked

LEMMA StillServingAsked ==
  ASSUME Accounted, Asked, NEW k \in Callers, StillServing(k)
  PROVE  Asked'
<1> DEFINE g == call[k].gen
<1>1. /\ call[k] \in CallRec /\ call \in [Callers -> CallRec] /\ srv \in [Gens -> Server]
      /\ call[k].at = "close" /\ UNCHANGED <<server, want>>
  BY DEF Accounted, Types, StillServing
<1>2. g \in Gens /\ srv[g] \in Server
  BY <1>1 DEF Accounted, Phases
<1>3. \A j \in Callers \ {k} : call'[j] = call[j]
  BY <1>1 DEF StillServing
<1>4. \A j \in Callers : Pending(j) => Pending(j)'
  BY <1>1, <1>3 DEF Pending
<1>5. CASE srv' = srv
  BY <1>1, <1>4, <1>5, AskedKept
<1>6. CASE srv' = [srv EXCEPT ![g].reload = "free"]
  <2> DEFINE r == [srv[g] EXCEPT !.reload = "free"]
  <2>1. srv'[g] = r /\ \A h \in Gens \ {g} : srv'[h] = srv[h]
    BY <1>1, <1>2, <1>6 DEF Server
  <2>2. /\ r.slot = srv[g].slot /\ r.enc = srv[g].enc /\ r.closed = srv[g].closed
        /\ r.started = srv[g].started /\ r.overtaken = srv[g].overtaken
    BY <1>2 DEF Server
  <2> HIDE DEF r, g
  <2>3. (r.started /\ ~r.closed) <=> Serving(g)
    BY <2>2 DEF Serving
  <2>4. Lates' /\ Fits'
    BY <1>1, <1>2, <2>1, <2>2, <2>3, AskedServer DEF Asked, Lates, Fits
  <2>5. server # 0 => srv'[server].enc = srv[server].enc /\ srv'[server].overtaken = srv[server].overtaken
    BY <2>1, <2>2, ServerAssumption DEF Accounted, Types, Gens
  <2> QED BY <1>1, <1>4, <2>4, <2>5 DEF Asked, Follows
<1> QED BY <1>5, <1>6 DEF StillServing

LEMMA RestartAsked ==
  ASSUME Accounted, Reals, Asked, NEW k \in Callers, Restart(k)
  PROVE  Asked'
<1> DEFINE g == call[k].gen
           cfg == call[k].cfg
           r0 == StartEncryptedListeners(g, cfg, srv[g])
           r == [r0 EXCEPT !.reload = "free"]
<1>1. /\ call[k] \in CallRec /\ call \in [Callers -> CallRec] /\ srv \in [Gens -> Server]
      /\ cfg \in Configs /\ call[k].at = "start" /\ UNCHANGED <<server, want>>
      /\ srv' = [srv EXCEPT ![g] = r]
  BY DEF Accounted, Types, CallRec, Restart
<1>2. g \in Gens /\ srv[g] \in Server /\ Holds(k)
  BY <1>1 DEF Accounted, Phases, Holds
<1>3. srv[g].enc = cfg /\ \A l \in srv[g].slot : l.proto \notin Encrypted
  BY <1>2 DEF Accounted, Reloads
<1>4. \A j \in Callers \ {k} : call'[j] = call[j]
  BY <1>1 DEF Restart
<1> HIDE DEF g, cfg, r0
<1>5. /\ \A l \in Started(g, cfg) : l.proto \in Startable(cfg) /\ l.port = cfg.port /\ l.late = srv[g].closed
      /\ r0 \in Server /\ r0.enc = cfg /\ r0.overtaken = srv[g].overtaken
      /\ r0.started = srv[g].started /\ r0.closed = srv[g].closed
      /\ r0.slot = {l \in srv[g].slot : l.proto \notin Startable(cfg)} \cup Started(g, cfg)
  BY <1>1, <1>2, StartedFacts DEF Accounted, r0
<1>6. /\ r.enc = cfg /\ r.overtaken = srv[g].overtaken
      /\ r.started = srv[g].started /\ r.closed = srv[g].closed /\ r.slot = r0.slot
  BY <1>5 DEF Server
<1> HIDE DEF r
<1>7. srv'[g] = r /\ \A h \in Gens \ {g} : srv'[h] = srv[h]
  BY <1>1, <1>2
<1>8. Lates' /\ Fits'
  <2>1. (r.started /\ ~r.closed) <=> Serving(g)
    BY <1>6 DEF Serving
  <2>2. Serving(g) => g = server'
    BY <1>1, <1>2 DEF Asked, Lates
  <2>3. ~Serving(g) => srv[g].closed
    BY <1>2 DEF Reals, Begun, Serving, g, Gens
  <2>4. ~Serving(g) => \A l \in r.slot : l.late
    <3> SUFFICES ASSUME ~Serving(g), NEW l \in r.slot PROVE l.late
      OBVIOUS
    <3>1. CASE l \in srv[g].slot
      BY <1>2, <3>1 DEF Asked, Lates
    <3>2. CASE l \in Started(g, cfg)
      BY <1>5, <2>3, <3>2
    <3> QED BY <1>5, <1>6, <3>1, <3>2
  <2>5. \A l \in r.slot : l.proto \in Encrypted => l.proto \in r.enc.protos /\ l.port = r.enc.port
    BY <1>3, <1>5, <1>6 DEF Startable
  <2> QED BY <1>1, <1>2, <1>7, <2>1, <2>2, <2>4, <2>5, AskedServer
<1>9. Follows'
  <2>1. \A j \in Callers : Pending(j) => Pending(j)'
    BY <1>1, <1>4 DEF Pending
  <2>2. server # 0 => srv'[server].enc = srv[server].enc /\ srv'[server].overtaken = srv[server].overtaken
    <3>1. server # 0 => server \in Gens
      BY ServerAssumption DEF Accounted, Types, Gens
    <3>2. CASE server = g
      BY <1>3, <1>6, <1>7, <3>2
    <3>3. CASE server # g
      BY <1>7, <3>1, <3>3
    <3> QED BY <3>2, <3>3
  <2> QED BY <1>1, <2>1, <2>2 DEF Asked, Follows
<1> QED BY <1>8, <1>9 DEF Asked

LEMMA CallsAsked ==
  ASSUME Accounted, Asked, NEW k \in Callers,
         \/ ConfigureEncryptedDNS(k) \/ CloseListener(k) \/ Drain(k) \/ ReloadDNSWithCurrentConfig(k)
  PROVE  Asked'
<1>1. UNCHANGED <<server, srv>> /\ call \in [Callers -> CallRec] /\ call[k] \in CallRec
  BY DEF ConfigureEncryptedDNS, CloseListener, Drain, ReloadDNSWithCurrentConfig, Accounted, Types
<1>2. \A j \in Callers \ {k} : call'[j] = call[j]
  BY <1>1 DEF ConfigureEncryptedDNS, CloseListener, Drain, ReloadDNSWithCurrentConfig
<1>3. CASE ConfigureEncryptedDNS(k)
  <2>1. Pending(k)'
    BY <1>1, <1>3 DEF ConfigureEncryptedDNS, Pending, Idle
  <2> QED BY <1>1, <2>1 DEF Asked, Lates, Fits, Follows, Serving
<1>4. CASE CloseListener(k) \/ Drain(k)
  <2>1. want' = want /\ call[k].at \in {"close", "drain"}
    BY <1>4 DEF CloseListener, Drain
  <2> QED BY <1>1, <1>2, <2>1, AskedKept DEF Pending
<1>5. CASE ReloadDNSWithCurrentConfig(k)
  <2>1. want' = want /\ call[k].at = "snapshot"
    BY <1>5 DEF ReloadDNSWithCurrentConfig
  <2>2. call[k].op = "reload"
    BY <2>1 DEF Accounted, Phases
  <2>3. server # 0 => Pending(k)'
    BY <1>1, <1>5, <2>1, <2>2 DEF ReloadDNSWithCurrentConfig, Pending, CallRec
  <2> QED BY <1>1, <1>2, <2>1, <2>3, AskedKept DEF Pending
<1> QED BY <1>3, <1>4, <1>5

LEMMA AlwaysAsked == Spec => [](Accounted /\ Reals /\ Asked)
<1>1. Init => Asked
  <2>1. NoServer.slot = {} /\ NoServer.started = FALSE
    BY DEF NoServer
  <2> QED BY <2>1 DEF Init, Asked, Lates, Fits, Follows, Serving
<1>3. Init => Reals
  BY IdleFacts DEF Init, Reals
<1>2. ASSUME Accounted, Reals, Asked, [Next]_vars PROVE Asked'
  <2>1. ASSUME NEW k \in Callers, StopDNS(k) \/ ConfigureEncryptedDNS(k) \/ Steps(k)
        PROVE  Asked'
    BY <1>2, <2>1, StopAsked, CallsAsked, StoppedAsked, ReloadAsked, StillServingAsked, RestartAsked
    DEF Steps
  <2>2. ASSUME NEW k \in Conns,
               Accept(k) \/ Handshake(k) \/ Read(k) \/ HandleQuery(k) \/ EndConn(k)
        PROVE  Asked'
    <3>1. UNCHANGED <<server, want, srv, call>>
      BY <1>2, <2>2, ConnTypes DEF Accounted
    <3> QED BY <1>2, <3>1, AskedKept DEF Pending
  <2>3. CASE UNCHANGED vars
    BY <1>2, <2>3, AskedKept DEF vars, Pending
  <2> QED BY <1>2, <2>1, <2>2, <2>3, StartAsked DEF Next
<1> QED BY <1>1, <1>2, <1>3, RealsNext, AlwaysAccounted, PTL DEF Spec

(* Whatever starts, stops, reloads, connections and queries interleave:    *)
(* every open socket is in a field of the server that runs or in the hands *)
(* of who closes it, or was opened by a reload that looked before a        *)
(* Shutdown and started after it; and once all changes are carried out the *)
(* encrypted listeners are those the service's configuration asks for,     *)
(* unless a port is taken or an older reload came after a newer one        *)
(* (ReloadEncrypted, server.go:72-101, and Server.Shutdown, server.go:398).*)
THEOREM SocketsAreAccountedFor == Spec => []ListenersAccounted
<1>1. Accounted => TypeOK
  <2> SUFFICES ASSUME Accounted PROVE TypeOK
    OBVIOUS
  <2>1. \A g \in Gens : srv[g] \in Server
    BY DEF Accounted, Types
  <2>2. \A k \in Conns : conn[k] \in ConnRec
    BY DEF Accounted, Types
  <2>3. \A k \in Callers : call[k] \in CallRec
    BY DEF Accounted, Types
  <2>4. \A g \in Gens :
          /\ srv[g].enc \in Configs /\ srv[g].reload \in Callers \cup {"free"}
          /\ srv[g].slot \subseteq Listener
          /\ \A l, m \in srv[g].slot : l.proto = m.proto => l = m
    BY <2>1 DEF Server, Accounted, Slots
  <2>5. \A k \in Conns : /\ conn[k].at \in {"none", "accepted", "serving", "query"}
                         /\ conn[k].at # "none" => conn[k].l \in Listener
    BY <2>2 DEF ConnRec, Accounted, Types
  <2>6. \A k \in Callers : call[k].at \in {"idle", "snapshot", "lock", "close", "drain", "start"}
    BY <2>3 DEF CallRec
  <2>7. {k \in Callers : call[k].op = "stop"} = {pmu} \ {"free"}
    BY ServerAssumption DEF Accounted, Types, Phases
  <2>8. \A g \in Gens : srv[g].reload # "free" => call[srv[g].reload].gen = g
    BY DEF Accounted, Reloads
  <2> QED BY <2>4, <2>5, <2>6, <2>7, <2>8 DEF TypeOK, Accounted, Types
<1>2. Accounted /\ Asked => NoLostListener
  <2> SUFFICES ASSUME Accounted, Asked, NEW l \in open, l \in srv[l.gen].slot, ~l.late
               PROVE  l.gen = server /\ Serving(server) /\ l \in srv[server].slot
    BY DEF NoLostListener, Accounted, InSomeHand
  <2>1. l.gen \in Gens
    BY DEF Accounted, Types, Listener
  <2> QED BY <2>1 DEF Asked, Lates
<1>3. Accounted /\ Asked => EnabledMeansListening
  <2> SUFFICES ASSUME Accounted, Asked, Settled, ~srv[server].overtaken
               PROVE  /\ \A p \in want.protos :
                           Listens(p) \/ <<p, want.port>> \in Busy \/ p \in srv[server].clash
                      /\ \A l \in srv[server].slot :
                           l.proto \in Encrypted => l.proto \in want.protos /\ Listens(l.proto)
    BY DEF EnabledMeansListening
  <2>1. server \in Gens
    BY ServerAssumption DEF Settled, Accounted, Types, Gens
  <2>2. \A k \in Callers : ~Pending(k)
    BY DEF Settled, Pending
  <2>3. srv[server].enc = want
    BY <2>1, <2>2 DEF Asked, Follows, Settled
  <2>4. srv[server].reload = "free"
    BY <2>1 DEF Settled, Accounted, Reloads, Holds
  <2>5. ASSUME NEW l \in srv[server].slot, l.proto \in Encrypted
        PROVE  l.proto \in want.protos /\ l.port = want.port
    BY <2>1, <2>3, <2>5 DEF Asked, Fits
  <2>6. ASSUME NEW p \in want.protos
        PROVE  Listens(p) \/ <<p, want.port>> \in Busy \/ p \in srv[server].clash
    <3>1. p \in Encrypted
      BY ServerAssumption DEF Accounted, Types
    <3>2. \/ \E l \in srv[server].slot : l.proto = p
          \/ <<p, want.port>> \in Busy \/ p \in srv[server].clash
      BY <2>3, <2>4 DEF Settled, Accounted, UpAfterStart, ReloadLocked
    <3> QED BY <2>5, <3>1, <3>2 DEF Listens
  <2>7. \A l \in srv[server].slot : l.proto \in Encrypted => l.proto \in want.protos /\ Listens(l.proto)
    BY <2>5 DEF Listens
  <2> QED BY <2>6, <2>7
<1> QED BY <1>1, <1>2, <1>3, AlwaysAsked, PTL DEF ListenersAccounted

(* A listener that was closed has no open DoT or DoQ connection left, also *)
(* when a handshake ends after the close: track looks under the lock that  *)
(* close takes (dotListener.track and close, doqListener.track and close). *)
THEOREM ClosedListenersAreEmpty == Spec => []ClosedListenerKeepsNoConn
<1>1. Init => ClosedListenerKeepsNoConn
  BY DEF Init, NoConn, ClosedListenerKeepsNoConn
<1>2. ASSUME Accounted, ClosedListenerKeepsNoConn, [Next]_vars PROVE ClosedListenerKeepsNoConn'
  <2>1. \A j \in Conns : conn[j] \in ConnRec
    BY <1>2 DEF Accounted, Types
  <2>2. conn \in [Conns -> ConnRec]
    BY <1>2 DEF Accounted, Types
  <2>3. CASE conn' = conn /\ open \subseteq open'
    BY <1>2, <2>3 DEF ClosedListenerKeepsNoConn
  <2>4. ASSUME NEW k \in Callers, CloseListener(k)
        PROVE  ClosedListenerKeepsNoConn'
    <3>1. PICK l : open' = open \ {l} /\ conn' = Cut(CutBy(l))
      BY <2>4 DEF CloseListener
    <3> SUFFICES ASSUME NEW j \in Conns, conn'[j].at \in {"serving", "query"},
                        conn'[j].l.proto \in {"dot", "doq"}, conn'[j].l \notin open'
                 PROVE  ~conn'[j].up
      BY DEF ClosedListenerKeepsNoConn
    <3>2. conn'[j] = IF j \in CutBy(l) THEN [conn[j] EXCEPT !.up = FALSE] ELSE conn[j]
      BY <3>1 DEF Cut
    <3>3. CASE j \in CutBy(l)
      BY <2>1, <3>2, <3>3 DEF ConnRec
    <3>4. CASE j \notin CutBy(l)
      <4>1. conn'[j] = conn[j]
        BY <3>2, <3>4
      <4>2. conn[j].l # l
        BY <3>4, <4>1 DEF CutBy, Of
      <4>3. conn[j].l \notin open
        BY <3>1, <4>1, <4>2
      <4> QED BY <1>2, <4>1, <4>3 DEF ClosedListenerKeepsNoConn
    <3> QED BY <3>3, <3>4
  <2>5. ASSUME NEW k \in Callers, Drain(k)
        PROVE  ClosedListenerKeepsNoConn'
    <3>1. open' = open /\ \E l : conn' = Cut(Of(l)) \/ conn' = conn
      BY <2>5 DEF Drain
    <3> SUFFICES ASSUME NEW j \in Conns, conn'[j].at \in {"serving", "query"},
                        conn'[j].l.proto \in {"dot", "doq"}, conn'[j].l \notin open'
                 PROVE  ~conn'[j].up
      BY DEF ClosedListenerKeepsNoConn
    <3>2. conn'[j] = [conn[j] EXCEPT !.up = FALSE] \/ conn'[j] = conn[j]
      BY <3>1 DEF Cut
    <3>3. CASE conn'[j] = [conn[j] EXCEPT !.up = FALSE]
      BY <2>1, <3>3 DEF ConnRec
    <3>4. CASE conn'[j] = conn[j]
      BY <1>2, <3>1, <3>4 DEF ClosedListenerKeepsNoConn
    <3> QED BY <3>2, <3>3, <3>4
  <2>6. ASSUME NEW k \in Conns,
               Accept(k) \/ Handshake(k) \/ Read(k) \/ HandleQuery(k) \/ EndConn(k)
        PROVE  ClosedListenerKeepsNoConn'
    <3>1. open' = open
      BY <2>6 DEF Accept, Handshake, Read, HandleQuery, EndConn
    <3>2. NoConn.at = "none"
      BY DEF NoConn
    <3>3. \/ conn' = conn
          \/ \E c : /\ conn' = [conn EXCEPT ![k] = c]
                    /\ \/ c.at \notin {"serving", "query"}
                       \/ c.l \in open
                       \/ conn[k].at \in {"serving", "query"} /\ c.l = conn[k].l /\ c.up = conn[k].up
      <4>1. CASE conn' = [conn EXCEPT ![k] = NoConn]
        BY <3>2, <4>1
      <4>2. CASE Accept(k)
        BY <4>2 DEF Accept
      <4>3. CASE Handshake(k)
        <5>1. CASE Track(k) /\ conn' = [conn EXCEPT ![k].at = "serving"]
          <6>1. conn' = [conn EXCEPT ![k] = [conn[k] EXCEPT !.at = "serving"]]
            BY <2>2, <5>1 DEF ConnRec
          <6>2. [conn[k] EXCEPT !.at = "serving"].l \in open
            BY <2>1, <5>1 DEF Track, ConnRec
          <6> QED BY <6>1, <6>2
        <5> QED BY <4>1, <4>3, <5>1 DEF Handshake
      <4>4. CASE Read(k)
        <5>1. conn[k].at = "serving"
          BY <4>4 DEF Read
        <5>2. PICK m \in Messages :
                LET v == Verdict(conn[k].l.proto, m)
                IN  conn' = CASE v = "close" -> [conn EXCEPT ![k] = NoConn]
                              [] v = "handle" /\ ~srv[conn[k].l.gen].closed ->
                                   [conn EXCEPT ![k].at = "query", ![k].msg = m]
                              [] OTHER -> conn
          BY <4>4 DEF Read
        <5>3. \/ conn' = [conn EXCEPT ![k] = NoConn] \/ conn' = conn
              \/ conn' = [conn EXCEPT ![k].at = "query", ![k].msg = m]
          BY <5>2
        <5>4. CASE conn' = [conn EXCEPT ![k].at = "query", ![k].msg = m]
          <6>1. conn' = [conn EXCEPT ![k] = [conn[k] EXCEPT !.at = "query", !.msg = m]]
            BY <2>2, <5>4 DEF ConnRec
          <6>2. [conn[k] EXCEPT !.at = "query", !.msg = m].l = conn[k].l
                /\ [conn[k] EXCEPT !.at = "query", !.msg = m].up = conn[k].up
            BY <2>1 DEF ConnRec
          <6> QED BY <5>1, <6>1, <6>2
        <5> QED BY <4>1, <5>3, <5>4
      <4>5. CASE HandleQuery(k)
        <5>1. conn[k].at = "query"
          BY <4>5 DEF HandleQuery
        <5>2. \/ conn' = [conn EXCEPT ![k] = NoConn]
              \/ conn' = [conn EXCEPT ![k] = [conn[k] EXCEPT !.at = "serving", !.msg = "none"]]
          BY <4>5, <2>2 DEF HandleQuery
        <5>3. [conn[k] EXCEPT !.at = "serving", !.msg = "none"].l = conn[k].l
              /\ [conn[k] EXCEPT !.at = "serving", !.msg = "none"].up = conn[k].up
          BY <2>1 DEF ConnRec
        <5> QED BY <4>1, <5>1, <5>2, <5>3
      <4> QED BY <2>6, <4>1, <4>2, <4>3, <4>4, <4>5 DEF EndConn
    <3>4. CASE conn' = conn
      BY <1>2, <3>1, <3>4 DEF ClosedListenerKeepsNoConn
    <3>5. ASSUME NEW c, conn' = [conn EXCEPT ![k] = c],
                 \/ c.at \notin {"serving", "query"}
                 \/ c.l \in open
                 \/ conn[k].at \in {"serving", "query"} /\ c.l = conn[k].l /\ c.up = conn[k].up
          PROVE  ClosedListenerKeepsNoConn'
      <4>1. conn'[k] = c /\ \A j \in Conns \ {k} : conn'[j] = conn[j]
        BY <2>2, <3>5
      <4> QED BY <1>2, <3>1, <3>5, <4>1 DEF ClosedListenerKeepsNoConn
    <3> QED BY <3>3, <3>4, <3>5
  <2>7. CASE StartDNS
    <3>1. conn' = conn /\ open \subseteq open'
      BY <2>7 DEF StartDNS
    <3> QED BY <2>3, <3>1
  <2>8. ASSUME NEW k \in Callers, StopDNS(k) \/ ConfigureEncryptedDNS(k) \/ Steps(k)
        PROVE  ClosedListenerKeepsNoConn'
    <3>1. \/ CloseListener(k) \/ Drain(k) \/ (conn' = conn /\ open \subseteq open')
      BY <2>8 DEF Steps, StopDNS, ConfigureEncryptedDNS, Stopped, ReloadDNSWithCurrentConfig,
         ReloadEncrypted, StillServing, Restart
    <3> QED BY <2>3, <2>4, <2>5, <3>1
  <2>9. CASE UNCHANGED vars
    BY <2>3, <2>9 DEF vars
  <2> QED BY <1>2, <2>6, <2>7, <2>8, <2>9 DEF Next
<1> QED BY <1>1, <1>2, AlwaysAccounted, PTL DEF Spec
=============================================================================
