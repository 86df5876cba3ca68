--------------------------- MODULE AndroidProofs ---------------------------
(***************************************************************************)
(* What the Android engine keeps for any number of calls, stops, queries,  *)
(* flows, providers and snapshots: nothing is left behind by an ended      *)
(* session, nothing is used after its release, what the rules refuse is    *)
(* not served, and every byte is counted once.  Each part has an inductive *)
(* invariant of its own; a step of one part changes no variable of another.*)
(***************************************************************************)
EXTENDS Android, FiniteSetTheorems, SequenceTheorems, TLAPS

-----------------------------------------------------------------------------
(* The flows of the tunnel.                                                *)

FlowRecord ==
  [pc: {"idle", "gate", "dial", "peek", "upstream", "cert", "handshake", "mint", "await", "issue",
        "minted", "failed", "reload", "request", "match", "relay", "end"},
   kind: {"udp", "tcp", "mitm"}, uid: {"app", None}, port: Flow!Ports,
   open: SUBSET {"up", "down"}, ok: BOOLEAN, held: SUBSET {"blocked", "ungranted", "dot"}]

FlowKeeps ==
  /\ flow \in [Flows -> FlowRecord]
  /\ mint \in Flows \cup {None} /\ emu \in Flows \cup {None}
  /\ Flow!TypeOK
  \* Rule sets are numbered in the order they are handed over.
  /\ requestRules \in [cur: Nat, old: SUBSET Nat] /\ freed \subseteq Nat
  /\ \A h \in requestRules.old \cup freed : h < requestRules.cur
  \* The CA handle is freed after it was taken, and nobody issues after that.
  /\ releasing \in {"no", "reset", "swapped", "done"}
  /\ releasing \in {"swapped", "done"} => ~caRef /\ readers = {}
  /\ caFreed => releasing = "done"
  \* What has been closed to a flow all along is closed to it now.
  /\ \A f \in Flows : flow[f].pc = "gate"
                        => flow[f].held \subseteq Flow!ClosedTo(flow[f].uid, flow[f].port)
  /\ Flow!GatesHold

-----------------------------------------------------------------------------
(* The DNS path.                                                           *)

(* The steps of a query before the policy was asked about its name.        *)
BeforePolicy == {"idle", "allowlist", "rewrite", "policy"}

DnsRecord ==
  {r \in [pc: {"idle", "allowlist", "rewrite", "policy", "lookup", "grant", "grantStale", "refresh",
               "join", "direct", "lead", "led", "wait", "shared", "inspect", "write", "done"},
          uid: Uids \cup {None}, name: Names \cup {None}, ans: Dns!Answers \cup {None},
          res: {"addr", "block", None}, held: SUBSET (UNION RuleSets), same: BOOLEAN] :
     r.pc \notin {"idle", "done"} => r.name \in Names}
CacheRecord == [st: {"none", "fresh", "stale"}, ans: Dns!Answers, busy: BOOLEAN]

DnsTyped ==
  /\ agent \in [Dns!Agents -> DnsRecord] /\ cache \in [Names -> CacheRecord]
  /\ flight \in [Names -> Dns!Agents \cup {None}]
  /\ rules \in RuleSets /\ filterOn \in BOOLEAN

(* What a query may still be answered with: nothing that was refused all   *)
(* along, be it the name, which the policy was asked about, or the target. *)
Screened(r) ==
  /\ r.res = "addr" => r.held = {}
  /\ r.pc \notin {"idle", "refresh", "done"} => r.held \subseteq Dns!InForce(rules, filterOn, r.name)
  /\ r.pc \notin BeforePolicy => \A x \in r.held : x = Target[r.name]

(* Whoever was given an address may connect to it.                         *)
Reachable(r) ==
  r.pc \in {"refresh", "done"} /\ r.res = "addr" /\ r.same =>
    \A s \in DOMAIN allow : r.name \in allow[s] => <<s, r.name>> \in grants

DnsKeeps ==
  /\ DnsTyped /\ Dns!TypeOK /\ Dns!GrantsFollowAllowlist
  /\ \A q \in Queries : Screened(agent[q]) /\ Reachable(agent[q])

-----------------------------------------------------------------------------
(* The telemetry.                                                          *)

LogTyped ==
  /\ log \in [q: Seq({"dns", "connection"}), running: BOOLEAN, starts: Nat, pushed: Nat, dropped: Nat,
              agent: [Telemetry!Agents -> [pc: {"none", "run", "drain"}, batch: 0..(BatchSize - 1),
                                            armed: BOOLEAN]]]
  /\ Len(log.q) <= LogDepth /\ log.dropped <= log.pushed

TrafficTyped ==
  traffic \in [seen: Nat, delta: Nat, reported: Nat, cb: BOOLEAN, pend: [Telemetry!Tickers -> Nat]]

TunTyped ==
  tun \in [out: 0..TunDepth, sent: Nat, pc: {"select", "write", "wait", "gone"},
           healthy: BOOLEAN, attempt: Nat,
           budget: 0..Attempts, up: BOOLEAN, flaps: Nat, halted: BOOLEAN]

PolicyTyped ==
  policy \in [cur: Handles \cup {None}, built: SUBSET Handles, freed: SUBSET Handles,
              released: SUBSET Handles, warm: SUBSET (SUBSET Handles), timer: SUBSET Handles,
              wait: SUBSET Handles,
              query: [Evaluations -> [pc: {"idle", "loaded", "checked", "inside"}, h: Handles \cup {None}]]]

(* A handle is built once, and released only after it was replaced.        *)
Replaced ==
  /\ policy.freed \cup policy.timer \subseteq policy.built
  /\ policy.wait \cup policy.released \subseteq policy.freed
  /\ policy.cur \in policy.built \cup {None}
  /\ policy.cur \notin policy.freed \cup policy.timer

TelemetryKeeps ==
  LogTyped /\ TrafficTyped /\ Telemetry!BytesOnce /\ TunTyped /\ PolicyTyped /\ Replaced

-----------------------------------------------------------------------------
(* The upstream resolver.                                                  *)

Ready == {"idle", "done", "failed"}

QueryRecord ==
  [pc: {"idle", "done", "failed", "seq", "init", "loop", "win", "lose"},
   s: 0..MaxSnaps, mode: {"single", "backup", "race", "smart"},
   order: Seq(Resolver!P), batch: Nat, inflight: SUBSET Resolver!P,
   buf: Resolver!P \cup {"none"}, tried: SUBSET Resolver!P, cancelled: BOOLEAN, budget: BOOLEAN]
AttemptRecord ==
  [pc: {"none", "start", "tcp", "io", "put", "sent", "released"}, pin: BOOLEAN, try: Nat, ok: BOOLEAN]
SnapRecord ==
  [active: Nat, retired: BOOLEAN, closed: BOOLEAN, idle: 0..MaxIdle, quic: BOOLEAN]

ResolverTyped ==
  /\ query \in [Lookups -> QueryRecord] /\ att \in [Lookups -> [Resolver!P -> AttemptRecord]]
  /\ snap \in [Resolver!Snaps -> SnapRecord]
  /\ cur \in 0..MaxSnaps /\ made \in 0..MaxSnaps /\ retiring \subseteq Resolver!Snaps

(* Who pins a snapshot: queries under way, and attempts launched by a race *)
(* that have not let go of it.                                             *)
Holding(a) == a.pin /\ (Resolver!Busy(a.pc) \/ a.pc = "sent")
QueryPins(s) == {q \in Lookups : query[q].s = s /\ query[q].pc \notin Ready}
AttemptPins(s) ==
  {qp \in Lookups \X Resolver!P : query[qp[1]].s = s /\ Holding(att[qp[1]][qp[2]])}

Pinned ==
  \A s \in Resolver!Snaps :
    /\ snap[s].active = Cardinality(QueryPins(s)) + Cardinality(AttemptPins(s))
    /\ snap[s].closed => snap[s].retired /\ snap[s].active = 0

(* Where a query is.                                                       *)
QueryPlace(r) ==
  /\ r.pc \notin Ready => r.s \in Resolver!Snaps
  /\ r.pc = "seq" => Resolver!Sequential(r.mode) /\ \A p, o \in r.inflight : p = o
  /\ r.pc \in {"init", "loop"} => ~Resolver!Sequential(r.mode) /\ IsInjective(r.order)
  /\ r.pc = "init" => r.batch > 0 \/ r.inflight # {} \/ r.order = <<>>
  /\ r.pc = "loop" => r.inflight # {} \/ r.order = <<>>

(* Nobody is left out: a provider is still to be asked, being asked, or    *)
(* tried, unless the snapshot was retired.                                 *)
Everyone(r) ==
  /\ r.pc \in {"seq", "init", "loop"} /\ r.mode # "single"
       => Range(r.order) \cup r.inflight \cup r.tried = Resolver!P \/ snap[r.s].retired
  /\ r.pc = "lose" /\ r.mode # "single" => r.tried = Resolver!P \/ r.budget \/ snap[r.s].retired
  /\ r.pc = "failed" /\ r.mode # "single" /\ r.s # 0
       => r.tried = Resolver!P \/ r.budget \/ snap[r.s].retired

(* A race pins its snapshot for every attempt, and launches each provider  *)
(* once; the other strategies ask one provider at a time, under the        *)
(* query's own pin.                                                        *)
AttemptPlace(r, a, p) ==
  /\ a.pc # "none" => r.s \in Resolver!Snaps /\ (a.pin <=> ~Resolver!Sequential(r.mode))
  /\ Resolver!Busy(a.pc) /\ ~a.pin => r.pc = "seq" /\ r.inflight = {p}
  /\ r.pc \in {"init", "loop"} /\ p \in Range(r.order) => a.pc = "none"

ResolverKeeps ==
  /\ ResolverTyped /\ Pinned
  /\ \A q \in Lookups : QueryPlace(query[q]) /\ Everyone(query[q])
  /\ \A q \in Lookups, p \in Resolver!P : AttemptPlace(query[q], att[q][p], p)

-----------------------------------------------------------------------------
(* The session.                                                            *)

(* The steps of a StartFull before its done channel is closed, and those   *)
(* of them in which it is published.                                       *)
Active == {"build", "publish", "failed", "start", "swapOn", "make", "wait"}
Published == {"start", "swapOn", "make", "wait"}
Leaving == {"swapOff", "chan", "halt", "clear"}
Standalone == {"idle", "olds", "bind", "install", "activate", "ended"}
Slot == Calls \cup {None}
Order == 1..Len(StartOrder)

EngineRecord ==
  [running: BOOLEAN, gen: Nat, stack: Slot, tun: Slot, done: Slot, res: Slot, srv: Slot]
CallRecord ==
  [pc: Active \cup Standalone \cup Leaving, gen: Nat, fd: {"none", "open", "closed"},
   writer: {"none", "on", "halted"}, stack: {"none", "new", "on", "off"},
   done: {"none", "open", "closed"}, res: {"none", "live", "down"},
   srv: {"none", "bound", "serving", "closed"}, old: Slot, oldRes: Slot, i: Order]
StopRecord ==
  {r \in [pc: {"idle", "shut", "close", "stack", "swapOff", "chan", "done"}, stack: Slot, done: Slot,
          res: Slot, srv: Slot, i: {0} \cup Order] :
     r.pc # "shut" => r.i \in Order}
TeleRecord == [running: BOOLEAN, chan: {"nil", "open", "closed"}]

Unstopped == {s \in Stops : stop[s].pc = "idle"}

EngineTyped ==
  /\ mode \in {"full", "standalone"} /\ dead \in BOOLEAN
  /\ eng \in EngineRecord /\ call \in [Calls -> CallRecord]
  /\ stop \in [Stops -> StopRecord] /\ tele \in [Engine!Telemetry -> TeleRecord]
  \* Every Stop is a call of its own.
  /\ eng.gen + Cardinality(Unstopped) <= Cardinality(Stops)

(* The engine e belongs to one StartFull of its generation; a session      *)
(* whose channel is closed is of an older one.                             *)
Owned(c, r, e) ==
  /\ e.done = c => e.running /\ r.gen = e.gen /\ r.pc \in Active
  /\ r.pc \in Active /\ r.gen = e.gen => e.done = c
  /\ e.tun = c => e.done = c /\ r.pc \in Published
  /\ r.gen <= e.gen
  /\ r.done = "closed" => r.gen < e.gen /\ r.pc # "idle"

(* What a StartFull holds on to at each of its steps.                      *)
Holds(c, r, e) ==
  /\ r.fd = "open" => r.pc = "publish" \/ (r.pc \in Published /\ e.tun = c)
  /\ r.writer = "on" => r.pc \in {"publish", "swapOff", "chan", "halt"} \cup Published
  /\ r.stack = "on" => r.pc \in {"swapOn", "make", "wait", "swapOff", "chan", "halt"}

CallPlace(c, r, e) ==
  /\ Owned(c, r, e) /\ Holds(c, r, e)
  /\ mode = "standalone" => r.pc \in Standalone
  /\ r.oldRes # None => r.pc = "olds"
  /\ r.pc = "wait" => r.i = 1

(* A Stop closes the channel of a session of an older generation.          *)
Ending == \A s \in Stops : \A c \in Calls :
            stop[s].done = c => call[c].gen < eng.gen /\ call[c].pc # "idle"

(* A start call at r will stop the telemetry goroutine x.                  *)
Covers(r, x) ==
  \/ r.pc = "swapOn"  /\ \E j \in Order : j < r.i /\ x = StartOrder[j]
  \/ r.pc = "make"    /\ \E j \in Order : j <= r.i /\ x = StartOrder[j]
  \/ r.pc = "wait"
  \/ r.pc = "swapOff" /\ \E j \in Order : j >= r.i /\ x = Engine!StopOrder[j]
  \/ r.pc = "chan"    /\ \E j \in Order : j > r.i /\ x = Engine!StopOrder[j]

Covered == \A x \in Engine!Telemetry : tele[x].running => \E c \in Calls : Covers(call[c], x)

(* A DNS server engine that does not run has no resolver.                  *)
Serving == mode = "standalone" /\ ~eng.running => eng.res = None

EngineKeeps ==
  /\ EngineTyped /\ Ending /\ Covered /\ Serving /\ Engine!NoOrphanResolver
  /\ \A c \in Calls : CallPlace(c, call[c], eng)

Inductive == EngineKeeps /\ TelemetryKeeps /\ ResolverKeeps /\ DnsKeeps /\ FlowKeeps

-----------------------------------------------------------------------------
(* The flows: proofs.                                                      *)

LEMMA FlowInit == Flow!Init => FlowKeeps
  <1> SUFFICES ASSUME Flow!Init PROVE FlowKeeps
    OBVIOUS
  <1>1. flow \in [Flows -> FlowRecord]
    BY DEF Flow!Init, FlowRecord, Flow!NoFlow, Flow!Ports
  <1>2. Flow!TypeOK /\ Flow!GatesHold
    BY DEF Flow!Init, Flow!TypeOK, Flow!NoFlow, Flow!GatesHold
  <1> QED
    BY <1>1, <1>2 DEF FlowKeeps, Flow!Init, Flow!NoFlow

LEMMA FlowUnchanged == FlowKeeps /\ UNCHANGED flowVars => FlowKeeps'
  BY DEF FlowKeeps, FlowRecord, flowVars, Flow!TypeOK, Flow!GatesHold, Flow!ClosedTo

(* A flow may pass from one step to another when it gives up neither the   *)
(* minting nor the lock of the request rules.                              *)
LEMMA FlowMoves ==
  ASSUME FlowKeeps, NEW f \in Flows, NEW r \in FlowRecord,
         flow' = [flow EXCEPT ![f] = r],
         UNCHANGED <<gate, caRef, caFreed, readers, releasing, mint, requestRules, freed, emu>>,
         flow[f].pc \notin {"mint", "issue", "minted", "match"}, r.pc # "issue",
         r.pc = "gate" => r.held \subseteq Flow!ClosedTo(r.uid, r.port),
         r.pc \notin {"idle", "gate", "end"} => r.held = {}
  PROVE  FlowKeeps'
  <1>1. /\ flow' \in [Flows -> FlowRecord]
        /\ \A g \in Flows : flow'[g] = IF g = f THEN r ELSE flow[g]
    BY DEF FlowKeeps
  <1>2. readers' = {g \in Flows : flow'[g].pc = "issue"}
    BY <1>1 DEF FlowKeeps, Flow!TypeOK
  <1>3. Flow!TypeOK'
    BY <1>1, <1>2, AndroidAssumption DEF AndroidAssumption, FlowKeeps, Flow!TypeOK
  <1>4. Flow!GatesHold'
    BY <1>1 DEF FlowKeeps, Flow!GatesHold
  <1>5. \A g \in Flows : flow'[g].pc = "gate"
                           => flow'[g].held \subseteq Flow!ClosedTo(flow[g].uid, flow[g].port)'
    BY <1>1 DEF FlowKeeps, Flow!ClosedTo
  <1> QED
    BY <1>1, <1>3, <1>4, <1>5 DEF FlowKeeps

LEMMA FlowOver == Flow!Over \in FlowRecord /\ Flow!Over.pc = "end"
  BY DEF Flow!Over, Flow!NoFlow, FlowRecord, Flow!Ports

(* A flow that passes the gates had none closed to it.                     *)
LEMMA FlowHandlers ==
  ASSUME FlowKeeps, NEW f \in Flows,
         Flow!UdpHandler(f) \/ Flow!PassthroughHandler(f) \/ Flow!MitmHandler(f)
  PROVE  FlowKeeps'
  <1>1. flow[f] \in FlowRecord /\ flow[f].pc = "gate"
    BY DEF FlowKeeps, Flow!UdpHandler, Flow!PassthroughHandler, Flow!MitmHandler, Flow!At
  <1>2. UNCHANGED <<gate, caRef, caFreed, readers, releasing, mint, requestRules, freed, emu>>
    BY DEF Flow!UdpHandler, Flow!PassthroughHandler, Flow!MitmHandler, Flow!env, Flow!cert,
       Flow!filter, Flow!req
  <1>3. CASE Flow!EndFlow(f)
    BY <1>1, <1>2, <1>3, FlowOver, FlowMoves DEF Flow!EndFlow
  <1>4. CASE ~Flow!EndFlow(f)
    <2>1. flow[f].held = {}
      <3>1. ~Flow!Blocked(f) /\ ~Flow!Ungranted(f) /\ ~Flow!Dot(f)
        BY <1>4 DEF Flow!UdpHandler, Flow!PassthroughHandler, Flow!MitmHandler
      <3>2. Flow!ClosedTo(flow[f].uid, flow[f].port) = {}
        BY <3>1, <1>1 DEF Flow!ClosedTo, Flow!Blocked, Flow!Ungranted, Flow!Dot
      <3> QED
        BY <3>2, <1>1 DEF FlowKeeps
    <2>2. PICK pc \in {"dial", "peek"} : Flow!Pass(f, pc)
      BY <1>4 DEF Flow!UdpHandler, Flow!PassthroughHandler, Flow!MitmHandler
    <2> DEFINE r == [flow[f] EXCEPT !.pc = pc, !.uid = None, !.port = "web"]
    <2>3. r \in FlowRecord /\ r.pc = pc /\ r.held = {}
      BY <1>1, <2>1 DEF FlowRecord, Flow!Ports
    <2>4. flow' = [flow EXCEPT ![f] = r]
      BY <2>2, <1>1 DEF Flow!Pass, FlowKeeps, FlowRecord
    <2> HIDE DEF r
    <2> QED
      BY <1>1, <1>2, <2>3, <2>4, FlowMoves
  <1> QED
    BY <1>3, <1>4

(* Two kinds of moves: to the next step, and to the end.                   *)
LEMMA FlowGoes ==
  ASSUME FlowKeeps, NEW f \in Flows,
         NEW pc \in {"dial", "upstream", "cert", "await", "mint", "handshake", "failed", "reload",
                     "request", "match", "relay"},
         flow[f].pc \notin {"idle", "gate", "end", "mint", "issue", "minted", "match"},
         Flow!Goto(f, pc),
         UNCHANGED <<gate, caRef, caFreed, readers, releasing, mint, requestRules, freed, emu>>
  PROVE  FlowKeeps'
  <1> DEFINE r == [flow[f] EXCEPT !.pc = pc]
  <1>1. flow[f] \in FlowRecord /\ flow[f].held = {}
    BY DEF FlowKeeps, Flow!GatesHold
  <1>2. r \in FlowRecord /\ r.pc = pc /\ r.held = {}
    BY <1>1 DEF FlowRecord
  <1>3. flow' = [flow EXCEPT ![f] = r]
    BY <1>1 DEF Flow!Goto, FlowKeeps, FlowRecord
  <1> HIDE DEF r
  <1> QED
    BY <1>2, <1>3, FlowMoves

LEMMA FlowEnds ==
  ASSUME FlowKeeps, NEW f \in Flows, flow[f].pc \notin {"mint", "issue", "minted", "match"},
         Flow!EndFlow(f),
         UNCHANGED <<gate, caRef, caFreed, readers, releasing, mint, requestRules, freed, emu>>
  PROVE  FlowKeeps'
  BY FlowOver, FlowMoves DEF Flow!EndFlow

LEMMA FlowSteps ==
  ASSUME FlowKeeps, NEW f \in Flows,
         \/ Flow!Peek(f) \/ Flow!Reload(f) \/ Flow!Handshake(f) \/ Flow!RecordFailure(f)
         \/ Flow!Upstream(f) \/ Flow!CloseOther(f)
  PROVE  FlowKeeps'
  <1>1. UNCHANGED <<gate, caRef, caFreed, readers, releasing, mint, requestRules, freed, emu>>
    BY DEF Flow!Peek, Flow!Reload, Flow!Handshake, Flow!RecordFailure, Flow!Upstream,
       Flow!CloseOther, Flow!env, Flow!cert, Flow!filter, Flow!req
  <1>2. flow[f].pc \in {"peek", "reload", "handshake", "failed", "upstream", "relay"}
    BY DEF Flow!Peek, Flow!Reload, Flow!Handshake, Flow!RecordFailure, Flow!Upstream,
       Flow!CloseOther, Flow!At
  <1>3. \/ Flow!EndFlow(f)
        \/ \E pc \in {"dial", "upstream", "cert", "handshake", "failed", "request"} : Flow!Goto(f, pc)
    BY DEF Flow!Peek, Flow!Reload, Flow!Handshake, Flow!RecordFailure, Flow!Upstream,
       Flow!CloseOther, Flow!Goto
  <1> QED
    BY <1>1, <1>2, <1>3, FlowGoes, FlowEnds

LEMMA FlowRelays ==
  ASSUME FlowKeeps, NEW f \in Flows,
         Flow!Dial(f) \/ \E d \in {"up", "down"} : Flow!DirectionEnds(f, d)
  PROVE  FlowKeeps'
  <1>1. UNCHANGED <<gate, caRef, caFreed, readers, releasing, mint, requestRules, freed, emu>>
    BY DEF Flow!Dial, Flow!DirectionEnds, Flow!env, Flow!cert, Flow!filter, Flow!req
  <1>2. flow[f] \in FlowRecord /\ flow[f].pc \in {"dial", "relay"} /\ flow[f].held = {}
    BY DEF Flow!Dial, Flow!DirectionEnds, Flow!At, FlowKeeps, Flow!GatesHold
  <1>3. CASE Flow!EndFlow(f)
    BY <1>1, <1>2, <1>3, FlowEnds
  <1>4. CASE ~Flow!EndFlow(f)
    <2>1. PICK r \in FlowRecord : r.pc = "relay" /\ r.held = {} /\ flow' = [flow EXCEPT ![f] = r]
      <3>1. CASE Flow!Dial(f)
        <4> DEFINE r == [flow[f] EXCEPT !.pc = "relay", !.open = {"up", "down"}]
        <4>1. r \in FlowRecord /\ r.pc = "relay" /\ r.held = {}
          BY <1>2 DEF FlowRecord
        <4>2. flow' = [flow EXCEPT ![f] = r]
          BY <3>1, <1>2, <1>4 DEF Flow!Dial, FlowKeeps, FlowRecord
        <4> QED
          BY <4>1, <4>2
      <3>2. ASSUME NEW d \in {"up", "down"}, Flow!DirectionEnds(f, d)
            PROVE  \E r \in FlowRecord :
                     r.pc = "relay" /\ r.held = {} /\ flow' = [flow EXCEPT ![f] = r]
        <4> DEFINE r == [flow[f] EXCEPT !.open = flow[f].open \ {d}]
        <4>1. r \in FlowRecord /\ r.pc = "relay" /\ r.held = {}
          BY <3>2, <1>2 DEF FlowRecord, Flow!DirectionEnds, Flow!At
        <4>2. flow' = [flow EXCEPT ![f] = r]
          BY <3>2, <1>2 DEF Flow!DirectionEnds, FlowKeeps, FlowRecord
        <4> QED
          BY <4>1, <4>2
      <3> QED
        BY <3>1, <3>2
    <2> QED
      BY <1>1, <1>2, <2>1, FlowMoves
  <1> QED
    BY <1>3, <1>4

LEMMA FlowOpens ==
  ASSUME FlowKeeps, NEW f \in Flows, NEW u \in {"app", None}, NEW p \in Flow!Ports,
         NEW k \in KindsOf[f], Flow!Open(f, k, u, p)
  PROVE  FlowKeeps'
  <1> DEFINE r == [Flow!NoFlow EXCEPT !.pc = "gate", !.kind = k, !.uid = u, !.port = p,
                                      !.held = Flow!ClosedTo(u, p)]
  <1>1. Flow!ClosedTo(u, p) \subseteq {"blocked", "ungranted", "dot"}
    BY DEF Flow!ClosedTo
  <1>2. k \in {"udp", "tcp", "mitm"}
    BY AndroidAssumption DEF AndroidAssumption
  <1>3. /\ r \in FlowRecord /\ r.pc = "gate" /\ r.uid = u /\ r.port = p
        /\ r.held = Flow!ClosedTo(u, p)
    BY <1>1, <1>2 DEF FlowRecord, Flow!NoFlow
  <1>4. flow' = [flow EXCEPT ![f] = r] /\ flow[f].pc = "idle"
    BY DEF Flow!Open, Flow!At
  <1>5. UNCHANGED <<gate, caRef, caFreed, readers, releasing, mint, requestRules, freed, emu>>
    BY DEF Flow!Open, Flow!env, Flow!cert, Flow!filter, Flow!req
  <1> HIDE DEF r
  <1> QED
    BY <1>3, <1>4, <1>5, FlowMoves

(* The minting of the host's certificate.                                  *)
LEMMA FlowCertificate ==
  ASSUME FlowKeeps, NEW f \in Flows, Flow!GetCertificate(f)
  PROVE  FlowKeeps'
  <1>1. UNCHANGED <<gate, caRef, caFreed, readers, releasing, requestRules, freed, emu>>
    BY DEF Flow!GetCertificate, Flow!env, Flow!filter, Flow!req
  <1>2. flow[f] \in FlowRecord /\ flow[f].pc = "cert" /\ flow[f].held = {}
    BY DEF Flow!GetCertificate, Flow!At, FlowKeeps, Flow!GatesHold
  <1>3. CASE UNCHANGED mint
    <2>1. \E pc \in {"handshake", "await", "mint"} : Flow!Goto(f, pc)
      BY DEF Flow!GetCertificate, Flow!Goto
    <2> QED
      BY <1>1, <1>2, <1>3, <2>1, FlowGoes
  <1>4. CASE mint' # mint
    <2>1. mint' = f /\ Flow!Goto(f, "mint")
      BY <1>4 DEF Flow!GetCertificate, Flow!Goto
    <2>2. /\ flow' \in [Flows -> FlowRecord]
          /\ \A g \in Flows : /\ flow'[g].pc = IF g = f THEN "mint" ELSE flow[g].pc
                              /\ flow'[g].held = flow[g].held /\ flow'[g].uid = flow[g].uid
                              /\ flow'[g].port = flow[g].port
      BY <1>2, <2>1 DEF Flow!Goto, FlowKeeps, FlowRecord
    <2>3. Flow!TypeOK'
      <3>1. mint' # None => flow'[mint'].pc \in {"mint", "issue", "minted"}
        BY <2>1, <2>2
      <3>2. readers' = {g \in Flows : flow'[g].pc = "issue"}
        BY <1>1, <1>2, <2>2 DEF FlowKeeps, Flow!TypeOK
      <3>3. emu' # None => flow'[emu'].pc = "match"
        BY <1>1, <1>2, <2>2 DEF FlowKeeps, Flow!TypeOK
      <3>4. requestRules'.cur \notin requestRules'.old \cup freed'
        BY <1>1 DEF FlowKeeps, Flow!TypeOK
      <3> QED
        BY <3>1, <3>2, <3>3, <3>4 DEF Flow!TypeOK
    <2> QED
      BY <1>1, <1>2, <2>1, <2>2, <2>3 DEF FlowKeeps, Flow!GatesHold, Flow!ClosedTo
  <1> QED
    BY <1>3, <1>4

LEMMA FlowMints ==
  ASSUME FlowKeeps, NEW f \in Flows, Flow!Mint(f) \/ Flow!Issue(f)
  PROVE  FlowKeeps'
  <1>1. UNCHANGED <<gate, caRef, caFreed, releasing, mint, requestRules, freed, emu>>
    BY DEF Flow!Mint, Flow!Issue, Flow!env, Flow!filter, Flow!req
  <1>2. flow[f] \in FlowRecord /\ flow[f].pc \in {"mint", "issue"} /\ flow[f].held = {}
    BY DEF Flow!Mint, Flow!Issue, Flow!At, FlowKeeps, Flow!GatesHold
  <1>3. /\ flow' \in [Flows -> FlowRecord] /\ flow'[f].pc \in {"issue", "minted"}
        /\ \A g \in Flows : /\ g # f => flow'[g].pc = flow[g].pc
                            /\ flow'[g].held = flow[g].held /\ flow'[g].uid = flow[g].uid
                            /\ flow'[g].port = flow[g].port
        /\ Flow!Issue(f) => flow'[f].pc = "minted"
    <2>1. CASE Flow!Mint(f)
      BY <1>2, <2>1 DEF Flow!Mint, Flow!Issue, Flow!At, Flow!Goto, FlowKeeps, FlowRecord
    <2>2. CASE Flow!Issue(f)
      <3>1. PICK ok \in BOOLEAN : flow' = [flow EXCEPT ![f].pc = "minted", ![f].ok = ok]
        BY <2>2 DEF Flow!Issue
      <3> DEFINE r == [flow[f] EXCEPT !.pc = "minted", !.ok = ok]
      <3>2. r \in FlowRecord /\ r.pc = "minted"
        BY <1>2, <3>1 DEF FlowRecord
      <3>3. r.held = flow[f].held /\ r.uid = flow[f].uid /\ r.port = flow[f].port
        BY <1>2 DEF FlowRecord
      <3>4. flow' = [flow EXCEPT ![f] = r]
        BY <3>1
      <3> HIDE DEF r
      <3> QED
        BY <3>2, <3>3, <3>4 DEF FlowKeeps
    <2> QED
      BY <2>1, <2>2
  <1>4. readers' = {g \in Flows : flow'[g].pc = "issue"}
    <2>0. readers = {g \in Flows : flow[g].pc = "issue"}
      BY DEF FlowKeeps, Flow!TypeOK
    <2>1. CASE Flow!Mint(f)
      <3>1. flow[f].pc = "mint" /\ flow'[f].pc = (IF caRef THEN "issue" ELSE "minted")
        BY <1>2, <2>1 DEF Flow!Mint, Flow!Goto, Flow!At, FlowKeeps, FlowRecord
      <3>2. readers' = IF caRef THEN readers \cup {f} ELSE readers
        BY <2>1 DEF Flow!Mint
      <3> QED
        BY <2>0, <3>1, <3>2, <1>3
    <2>2. CASE Flow!Issue(f)
      BY <1>2, <1>3, <2>2 DEF Flow!Issue, Flow!At, FlowKeeps, Flow!TypeOK
    <2> QED
      BY <2>1, <2>2
  <1>5. releasing \in {"swapped", "done"} => readers' = {}
    <2>1. CASE Flow!Mint(f)
      BY <2>1 DEF Flow!Mint, FlowKeeps
    <2>2. CASE Flow!Issue(f)
      BY <2>2 DEF Flow!Issue, FlowKeeps
    <2> QED
      BY <2>1, <2>2
  <1>6. Flow!TypeOK'
    BY <1>1, <1>2, <1>3, <1>4, AndroidAssumption DEF AndroidAssumption, FlowKeeps, Flow!TypeOK
  <1> QED
    BY <1>1, <1>2, <1>3, <1>5, <1>6 DEF FlowKeeps, Flow!GatesHold, Flow!ClosedTo

LEMMA FlowMintDone ==
  ASSUME FlowKeeps, NEW f \in Flows, Flow!MintDone(f)
  PROVE  FlowKeeps'
  <1>1. /\ UNCHANGED <<gate, caRef, caFreed, readers, releasing, requestRules, freed, emu>>
        /\ mint' = None
    BY DEF Flow!MintDone, Flow!env, Flow!filter, Flow!req
  <1>2. flow[f].pc = "minted"
    BY DEF Flow!MintDone, Flow!At
  <1>3. \A g \in Flows :
          /\ flow'[g] \in FlowRecord
          /\ flow'[g].held = flow[g].held /\ flow'[g].uid = flow[g].uid
          /\ flow'[g].port = flow[g].port
          /\ \/ flow'[g].pc = flow[g].pc /\ g # f
             \/ /\ flow'[g].pc \in {"handshake", "failed", "reload"}
                /\ flow[g].pc \in {"minted", "await"}
    <2> TAKE g \in Flows
    <2>0. flow[g] \in FlowRecord
      BY DEF FlowKeeps
    <2>1. CASE g = f
      <3>1. flow'[g] = [flow[g] EXCEPT !.pc = IF flow[f].ok THEN "handshake" ELSE "failed",
                                       !.ok = FALSE]
        BY <2>1 DEF Flow!MintDone
      <3> QED
        BY <2>0, <2>1, <3>1, <1>2 DEF FlowRecord
    <2>2. CASE g # f /\ Flow!At(g, "await")
      <3>1. flow'[g] = [flow[g] EXCEPT !.pc = "reload"]
        BY <2>2 DEF Flow!MintDone
      <3> QED
        BY <2>0, <2>2, <3>1 DEF FlowRecord, Flow!At
    <2>3. CASE g # f /\ ~Flow!At(g, "await")
      <3>1. flow'[g] = flow[g]
        BY <2>3 DEF Flow!MintDone
      <3> QED
        BY <2>0, <2>3, <3>1
    <2> QED
      BY <2>1, <2>2, <2>3
  <1>4. flow' \in [Flows -> FlowRecord]
    BY <1>3 DEF Flow!MintDone
  <1>5. readers' = {g \in Flows : flow'[g].pc = "issue"}
    BY <1>1, <1>2, <1>3 DEF FlowKeeps, Flow!TypeOK
  <1>6. emu' # None => flow'[emu'].pc = "match"
    BY <1>1, <1>2, <1>3, AndroidAssumption DEF AndroidAssumption, FlowKeeps, Flow!TypeOK
  <1>7. Flow!TypeOK'
    BY <1>1, <1>5, <1>6 DEF FlowKeeps, Flow!TypeOK
  <1> QED
    BY <1>1, <1>3, <1>4, <1>7 DEF FlowKeeps, Flow!GatesHold, Flow!ClosedTo

(* The requests of an intercepted connection.                              *)
LEMMA FlowRequests ==
  ASSUME FlowKeeps, NEW f \in Flows, Flow!ReadRequest(f) \/ Flow!Match(f)
  PROVE  FlowKeeps'
  <1>1. UNCHANGED <<gate, caRef, caFreed, readers, releasing, mint, requestRules, freed>>
    BY DEF Flow!ReadRequest, Flow!Match, Flow!env, Flow!cert, Flow!filter
  <1>2. flow[f] \in FlowRecord /\ flow[f].pc \in {"request", "match"} /\ flow[f].held = {}
    BY DEF Flow!ReadRequest, Flow!Match, Flow!At, FlowKeeps, Flow!GatesHold
  <1>3. /\ flow' \in [Flows -> FlowRecord] /\ flow'[f].pc \in {"request", "match", "end"}
        /\ flow'[f].held = {}
        /\ \A g \in Flows : g # f => flow'[g] = flow[g]
    <2>1. CASE Flow!EndFlow(f)
      BY <2>1, FlowOver DEF Flow!EndFlow, FlowKeeps, Flow!Over, Flow!NoFlow
    <2>2. CASE ~Flow!EndFlow(f)
      <3>1. \E pc \in {"request", "match"} : Flow!Goto(f, pc)
        BY <2>2 DEF Flow!ReadRequest, Flow!Match
      <3> QED
        BY <1>2, <3>1 DEF Flow!Goto, FlowKeeps, FlowRecord
    <2> QED
      BY <2>1, <2>2
  <1>4. emu' \in Flows \cup {None} /\ (emu' # None => flow'[emu'].pc = "match")
    <2>1. CASE Flow!ReadRequest(f)
      <3>1. CASE Flow!EndFlow(f) /\ UNCHANGED emu
        <4>1. emu # f
          BY <2>1, AndroidAssumption DEF Flow!ReadRequest, Flow!At, FlowKeeps, Flow!TypeOK, AndroidAssumption
        <4> QED
          BY <3>1, <4>1, <1>3 DEF FlowKeeps, Flow!TypeOK
      <3>2. CASE emu' = f /\ Flow!Goto(f, "match")
        BY <3>2, <1>2 DEF Flow!Goto, FlowKeeps, FlowRecord
      <3> QED
        BY <2>1, <3>1, <3>2 DEF Flow!ReadRequest
    <2>2. CASE Flow!Match(f)
      BY <2>2 DEF Flow!Match
    <2> QED
      BY <2>1, <2>2
  <1>5. readers' = {g \in Flows : flow'[g].pc = "issue"}
    BY <1>1, <1>2, <1>3 DEF FlowKeeps, Flow!TypeOK
  <1>6. Flow!TypeOK'
    BY <1>1, <1>2, <1>3, <1>4, <1>5, AndroidAssumption DEF AndroidAssumption, FlowKeeps, Flow!TypeOK
  <1> QED
    BY <1>1, <1>2, <1>3, <1>4, <1>6 DEF FlowKeeps, Flow!GatesHold, Flow!ClosedTo

(* The settings, between any two steps of a flow.                          *)
LEMMA FlowSettings ==
  ASSUME FlowKeeps,
         \/ Flow!SetFilterHttp3 \/ Flow!StopSession \/ Flow!ClearBlacklist \/ Flow!WindowPasses
         \/ Flow!CertAges \/ Flow!ReleaseReset \/ Flow!ReleaseSwap \/ Flow!ReleaseFree
  PROVE  FlowKeeps'
  <1>1. UNCHANGED <<gate, readers, mint, requestRules, freed, emu, flow>>
    BY DEF Flow!SetFilterHttp3, Flow!StopSession, Flow!ClearBlacklist, Flow!WindowPasses,
       Flow!CertAges, Flow!ReleaseReset, Flow!ReleaseSwap, Flow!ReleaseFree, Flow!env, Flow!cert,
       Flow!filter, Flow!req
  <1>2. /\ releasing' \in {"no", "reset", "swapped", "done"}
        /\ releasing' \in {"swapped", "done"} => ~caRef' /\ readers = {}
        /\ caFreed' => releasing' = "done"
    <2>1. CASE UNCHANGED <<releasing, caRef, caFreed>>
      BY <2>1 DEF FlowKeeps
    <2>2. CASE Flow!ReleaseReset
      BY <2>2 DEF Flow!ReleaseReset, FlowKeeps
    <2>3. CASE Flow!ReleaseSwap
      BY <2>3 DEF Flow!ReleaseSwap, FlowKeeps
    <2>4. CASE Flow!ReleaseFree
      BY <2>4 DEF Flow!ReleaseFree, FlowKeeps
    <2> QED
      BY <2>1, <2>2, <2>3, <2>4 DEF Flow!SetFilterHttp3, Flow!StopSession, Flow!ClearBlacklist,
         Flow!WindowPasses, Flow!CertAges, Flow!cert
  <1> QED
    BY <1>1, <1>2 DEF FlowKeeps, Flow!TypeOK, Flow!GatesHold, Flow!ClosedTo

LEMMA FlowGates ==
  ASSUME FlowKeeps, NEW g \in {"blocked", "ungranted", "dot"}, Flow!SetGate(g)
  PROVE  FlowKeeps'
  <1>1. UNCHANGED <<caRef, caFreed, readers, releasing, mint, requestRules, freed, emu>>
    BY DEF Flow!SetGate, Flow!cert, Flow!filter, Flow!req
  <1>2. \A f \in Flows :
          /\ flow'[f] = [flow[f] EXCEPT !.held = flow[f].held \cap gate']
          /\ flow[f] \in FlowRecord
    BY DEF Flow!SetGate, FlowKeeps
  <1>3. \A f \in Flows :
          /\ flow'[f] \in FlowRecord /\ flow'[f].pc = flow[f].pc /\ flow'[f].uid = flow[f].uid
          /\ flow'[f].port = flow[f].port /\ flow'[f].held = flow[f].held \cap gate'
    <2> TAKE f \in Flows
    <2> DEFINE h == flow[f].held \cap gate'
    <2>1. h \in SUBSET {"blocked", "ungranted", "dot"}
      BY <1>2 DEF FlowRecord
    <2>2. flow'[f] = [flow[f] EXCEPT !.held = h]
      BY <1>2
    <2> HIDE DEF h
    <2>3. /\ flow'[f] \in FlowRecord /\ flow'[f].pc = flow[f].pc /\ flow'[f].uid = flow[f].uid
          /\ flow'[f].port = flow[f].port /\ flow'[f].held = h
      BY <1>2, <2>1, <2>2 DEF FlowRecord
    <2> QED
      BY <2>3 DEF h
  <1>4. flow' \in [Flows -> FlowRecord]
    BY <1>3 DEF Flow!SetGate
  <1>5. Flow!TypeOK'
    BY <1>1, <1>3, AndroidAssumption DEF AndroidAssumption, FlowKeeps, Flow!TypeOK
  <1>6. \A f \in Flows : flow'[f].pc = "gate"
                           => flow'[f].held \subseteq Flow!ClosedTo(flow[f].uid, flow[f].port)'
    BY <1>3 DEF FlowKeeps, Flow!ClosedTo
  <1> QED
    BY <1>1, <1>3, <1>4, <1>5, <1>6 DEF FlowKeeps, Flow!GatesHold

(* The rule sets: the one in use is the youngest.                          *)
LEMMA FlowRules ==
  ASSUME FlowKeeps,
         Flow!SetRequestRules \/ \E h \in requestRules.old : Flow!ReleaseRules(h)
  PROVE  FlowKeeps'
  <1>1. UNCHANGED <<gate, caRef, caFreed, readers, releasing, mint, emu, flow>>
    BY DEF Flow!SetRequestRules, Flow!ReleaseRules, Flow!env, Flow!cert, Flow!filter
  <1>2. /\ requestRules' \in [cur: Nat, old: SUBSET Nat] /\ freed' \subseteq Nat
        /\ \A h \in requestRules'.old \cup freed' : h < requestRules'.cur
    <2> DEFINE c == requestRules.cur
               o == requestRules.old
    <2>0. /\ c \in Nat /\ o \subseteq Nat /\ freed \subseteq Nat
          /\ \A h \in o \cup freed : h < c
      BY DEF FlowKeeps
    <2>1. CASE Flow!SetRequestRules
      <3>1. /\ requestRules' = [cur |-> c + 1, old |-> o \cup {c}] /\ freed' = freed
        BY <2>1 DEF Flow!SetRequestRules
      <3> HIDE DEF c, o
      <3>2. \A h \in (o \cup {c}) \cup freed : h < c + 1
        BY <2>0
      <3>3. c + 1 \in Nat /\ o \cup {c} \in SUBSET Nat
        BY <2>0
      <3>4. requestRules' \in [cur: Nat, old: SUBSET Nat]
        BY <3>1, <3>3
      <3>5. requestRules'.cur = c + 1 /\ requestRules'.old = o \cup {c}
        BY <3>1
      <3>6. \A h \in requestRules'.old \cup freed' : h < requestRules'.cur
        BY <3>1, <3>2, <3>5
      <3>7. freed' \subseteq Nat
        BY <2>0, <3>1
      <3> QED
        BY <3>4, <3>6, <3>7
    <2>2. ASSUME NEW h \in requestRules.old, Flow!ReleaseRules(h)
          PROVE  /\ requestRules' \in [cur: Nat, old: SUBSET Nat] /\ freed' \subseteq Nat
                 /\ \A k \in requestRules'.old \cup freed' : k < requestRules'.cur
      BY <2>2 DEF Flow!ReleaseRules, FlowKeeps
    <2> QED
      BY <2>1, <2>2
  <1>3. Flow!TypeOK'
    <2>1. requestRules'.cur \notin requestRules'.old \cup freed'
      BY <1>2
    <2> QED
      BY <1>1, <2>1 DEF FlowKeeps, Flow!TypeOK
  <1> QED
    BY <1>1, <1>2, <1>3 DEF FlowKeeps, Flow!GatesHold, Flow!ClosedTo

LEMMA FlowNext ==
  ASSUME FlowKeeps, Flow!Next
  PROVE  FlowKeeps'
  BY FlowHandlers, FlowSteps, FlowRelays, FlowOpens, FlowCertificate, FlowMints, FlowMintDone,
     FlowRequests, FlowSettings, FlowGates, FlowRules
  DEF Flow!Next, Flow!Step

(* What the invariant gives.                                               *)
LEMMA FlowGives ==
  FlowKeeps => Flow!TypeOK /\ Flow!GatesHold /\ Flow!HandlesAlive
  BY DEF FlowKeeps, Flow!TypeOK, Flow!HandlesAlive, Flow!At
-----------------------------------------------------------------------------
(* The telemetry: proofs.                                                  *)

LEMMA Limits ==
  /\ LogDepth \in Nat /\ BatchSize \in Nat /\ BatchSize > 0 /\ TunDepth \in Nat
  /\ Attempts \in Nat /\ Attempts > 0 /\ MaxStarts \in Nat
  BY AndroidAssumption DEF AndroidAssumption

LEMMA TelemetryInit == Telemetry!Init => TelemetryKeeps
  <1> SUFFICES ASSUME Telemetry!Init PROVE TelemetryKeeps
    OBVIOUS
  <1> USE Limits DEF Telemetry!Init
  <1>1. LogTyped
    BY DEF LogTyped, Telemetry!NewLog, Telemetry!NoAgent
  <1>2. TrafficTyped /\ Telemetry!BytesOnce
    BY DEF TrafficTyped, Telemetry!NewTraffic, Telemetry!BytesOnce, Telemetry!Tickers
  <1>3. TunTyped
    BY DEF TunTyped, Telemetry!NewTun
  <1>4. PolicyTyped /\ Replaced
    BY DEF PolicyTyped, Replaced, Telemetry!NewPolicy, Telemetry!NoQuery
  <1> QED
    BY <1>1, <1>2, <1>3, <1>4 DEF TelemetryKeeps

LEMMA TelemetryUnchanged == TelemetryKeeps /\ UNCHANGED telemetryVars => TelemetryKeeps'
  BY DEF TelemetryKeeps, telemetryVars, LogTyped, TrafficTyped, Telemetry!BytesOnce, TunTyped,
     PolicyTyped, Replaced

(* What an agent of the log and the queue may become.                      *)
AgentRecord == [pc: {"none", "run", "drain"}, batch: 0..(BatchSize - 1), armed: BOOLEAN]

LEMMA LogMoves ==
  ASSUME LogTyped, NEW q \in Seq({"dns", "connection"}), Len(q) <= LogDepth,
         NEW a \in Telemetry!Agents, NEW r \in AgentRecord,
         log' = [log EXCEPT !.q = q, !.agent = [log.agent EXCEPT ![a] = r]]
  PROVE  LogTyped'
  <1>1. [log.agent EXCEPT ![a] = r] \in [Telemetry!Agents -> AgentRecord]
    BY DEF LogTyped, AgentRecord
  <1> QED
    BY <1>1 DEF LogTyped, AgentRecord

(* The queue never holds more than its depth, a batch never a whole one.   *)
LEMMA LogNext ==
  ASSUME LogTyped, Telemetry!LogNext
  PROVE  LogTyped'
  <1>1. ASSUME NEW kind \in {"dns", "connection"}, Telemetry!Push(kind)
        PROVE  LogTyped'
    <2> DEFINE shed == \/ kind = "connection" /\ Len(log.q) >= HighWater
                       \/ Len(log.q) = LogDepth
    <2>1. /\ log.pushed + 1 \in Nat
          /\ (IF shed THEN log.dropped + 1 ELSE log.dropped) \in Nat
          /\ (IF shed THEN log.dropped + 1 ELSE log.dropped) <= log.pushed + 1
      BY DEF LogTyped
    <2>2. /\ (IF shed THEN log.q ELSE Append(log.q, kind)) \in Seq({"dns", "connection"})
          /\ Len(IF shed THEN log.q ELSE Append(log.q, kind)) <= LogDepth
      <3>1. log.q \in Seq({"dns", "connection"}) /\ Len(log.q) \in Nat /\ Len(log.q) <= LogDepth
        BY DEF LogTyped
      <3>2. ~shed => Len(log.q) < LogDepth
        BY <3>1, Limits
      <3>3. /\ Append(log.q, kind) \in Seq({"dns", "connection"})
            /\ Len(Append(log.q, kind)) = Len(log.q) + 1
        BY <3>1
      <3> HIDE DEF shed
      <3> QED
        BY <3>1, <3>2, <3>3, Limits
    <2>3. log' = [log EXCEPT !.pushed = log.pushed + 1,
                    !.dropped = IF shed THEN log.dropped + 1 ELSE log.dropped,
                    !.q = IF shed THEN log.q ELSE Append(log.q, kind)]
      BY <1>1 DEF Telemetry!Push
    <2> HIDE DEF shed
    <2> QED
      BY <2>1, <2>2, <2>3 DEF LogTyped
  <1>2. CASE Telemetry!StartLog
    <2>1. log.starts + 1 \in Nat
      BY DEF LogTyped
    <2>2. [log.agent EXCEPT ![log.starts + 1].pc = "run"] \in [Telemetry!Agents -> AgentRecord]
      BY DEF LogTyped, AgentRecord
    <2>3. log' = [log EXCEPT !.running = TRUE, !.starts = log.starts + 1,
                    !.agent = [log.agent EXCEPT ![log.starts + 1].pc = "run"]]
      BY <1>2 DEF Telemetry!StartLog
    <2> QED
      BY <2>1, <2>2, <2>3 DEF LogTyped, AgentRecord
  <1>3. CASE Telemetry!StopLog
    BY <1>3 DEF LogTyped, Telemetry!StopLog
  <1>4. ASSUME NEW a \in Telemetry!Agents, Telemetry!LogStep(a)
        PROVE  LogTyped'
    <2>0. /\ log.q \in Seq({"dns", "connection"}) /\ Len(log.q) <= LogDepth
          /\ log.agent[a] \in AgentRecord
      BY DEF LogTyped, AgentRecord
    <2>1. log.q # <<>> => Tail(log.q) \in Seq({"dns", "connection"}) /\ Len(Tail(log.q)) <= LogDepth
      BY <2>0, Limits
    <2>2. (IF log.agent[a].batch + 1 >= BatchSize THEN 0 ELSE log.agent[a].batch + 1) \in 0..(BatchSize - 1)
      BY <2>0, Limits DEF AgentRecord
    <2>3. CASE Telemetry!Receive(a)
      <3> DEFINE b == IF log.agent[a].batch + 1 >= BatchSize THEN 0 ELSE log.agent[a].batch + 1
                 v == log.agent[a].armed \/ log.agent[a].batch + 1 < BatchSize
                 r == [log.agent[a] EXCEPT !.batch = b, !.armed = v]
      <3>1. b \in 0..(BatchSize - 1) /\ v \in BOOLEAN
        BY <2>2
      <3>3. log' = [log EXCEPT !.q = Tail(log.q), !.agent = [log.agent EXCEPT ![a] = r]]
        BY <2>3, Zenon DEF Telemetry!Receive
      <3>2. r \in AgentRecord
        <4> HIDE DEF b, v
        <4> QED
          BY <3>1, <2>0 DEF AgentRecord
      <3>4. log.q # <<>>
        BY <2>3 DEF Telemetry!Receive
      <3> HIDE DEF r, b, v
      <3> QED
        BY <3>2, <3>3, <3>4, <2>1, LogMoves
    <2>4. CASE Telemetry!Flush(a)
      <3> DEFINE r == [log.agent[a] EXCEPT !.batch = 0, !.armed = FALSE]
      <3>1. 0 \in 0..(BatchSize - 1)
        BY Limits
      <3>2. r \in AgentRecord
        BY <2>0, <3>1 DEF AgentRecord
      <3>3. log' = [log EXCEPT !.q = log.q, !.agent = [log.agent EXCEPT ![a] = r]]
        BY <2>4 DEF Telemetry!Flush, LogTyped
      <3> HIDE DEF r
      <3> QED
        BY <3>2, <3>3, <2>0, LogMoves
    <2>5. CASE Telemetry!Drain(a)
      <3> DEFINE r == [log.agent[a] EXCEPT !.pc = "drain"]
      <3>2. r \in AgentRecord
        BY <2>0 DEF AgentRecord
      <3>3. log' = [log EXCEPT !.q = log.q, !.agent = [log.agent EXCEPT ![a] = r]]
        BY <2>5 DEF Telemetry!Drain, LogTyped
      <3> HIDE DEF r
      <3> QED
        BY <3>2, <3>3, <2>0, LogMoves
    <2>6. CASE Telemetry!DrainStep(a) /\ log.q # <<>>
      <3> DEFINE b == IF log.agent[a].batch + 1 >= BatchSize THEN 0 ELSE log.agent[a].batch + 1
                 r == [log.agent[a] EXCEPT !.batch = b]
      <3>1. r \in AgentRecord
        BY <2>0, <2>2 DEF AgentRecord
      <3>2. log' = [log EXCEPT !.q = Tail(log.q), !.agent = [log.agent EXCEPT ![a] = r]]
        BY <2>6 DEF Telemetry!DrainStep
      <3> HIDE DEF r
      <3> QED
        BY <3>1, <3>2, <2>1, <2>6, LogMoves
    <2>7. CASE Telemetry!DrainStep(a) /\ log.q = <<>>
      <3>1. Telemetry!NoAgent \in AgentRecord
        BY Limits DEF Telemetry!NoAgent, AgentRecord
      <3>2. log' = [log EXCEPT !.q = log.q, !.agent = [log.agent EXCEPT ![a] = Telemetry!NoAgent]]
        BY <2>7 DEF Telemetry!DrainStep, LogTyped
      <3> QED
        BY <3>1, <3>2, <2>0, LogMoves
    <2> QED
      BY <1>4, <2>3, <2>4, <2>5, <2>6, <2>7 DEF Telemetry!LogStep
  <1> QED
    BY <1>1, <1>2, <1>3, <1>4 DEF Telemetry!LogNext

(* A tick moves the bytes that a report gives out; nothing else touches    *)
(* what was counted.                                                       *)
LEMMA TrafficNext ==
  ASSUME TrafficTyped, Telemetry!BytesOnce, Telemetry!TrafficNext
  PROVE  TrafficTyped' /\ Telemetry!BytesOnce'
  <1>0. /\ traffic.seen \in Nat /\ traffic.delta \in Nat /\ traffic.reported \in Nat
        /\ \A t \in Telemetry!Tickers : traffic.pend[t] \in Nat
    BY DEF TrafficTyped
  <1>1. CASE Telemetry!Record
    <2>1. traffic.seen + 1 \in Nat /\ traffic.delta + 1 \in Nat
      BY <1>0
    <2>2. TrafficTyped'
      BY <1>1, <2>1 DEF TrafficTyped, Telemetry!Record
    <2>3. /\ traffic'.seen = traffic.seen + 1 /\ traffic'.delta = traffic.delta + 1
          /\ traffic'.reported = traffic.reported /\ traffic'.pend = traffic.pend
      BY <1>1 DEF Telemetry!Record, TrafficTyped
    <2> QED
      BY <1>0, <2>2, <2>3 DEF Telemetry!BytesOnce, Telemetry!Tickers
  <1>2. CASE Telemetry!SetCallback
    <2>1. PICK v \in BOOLEAN : traffic' = [traffic EXCEPT !.cb = v]
      BY <1>2, Zenon DEF Telemetry!SetCallback
    <2> QED
      BY <2>1 DEF TrafficTyped, Telemetry!BytesOnce
  <1>3. ASSUME NEW t \in Telemetry!Tickers, Telemetry!Tick(t)
        PROVE  TrafficTyped' /\ Telemetry!BytesOnce'
    <2>1. [traffic.pend EXCEPT ![t] = traffic.delta] \in [Telemetry!Tickers -> Nat]
      BY <1>0 DEF TrafficTyped
    <2>2. traffic' = [traffic EXCEPT !.pend = [traffic.pend EXCEPT ![t] = traffic.delta], !.delta = 0]
      BY <1>3 DEF Telemetry!Tick
    <2>3. TrafficTyped'
      BY <2>1, <2>2 DEF TrafficTyped
    <2>4. /\ traffic'.seen = traffic.seen /\ traffic'.delta = 0 /\ traffic'.reported = traffic.reported
          /\ traffic'.pend[t] = traffic.delta /\ traffic.pend[t] = 0
          /\ \A u \in Telemetry!Tickers \ {t} : traffic'.pend[u] = traffic.pend[u]
      BY <1>3, <2>2 DEF Telemetry!Tick, TrafficTyped
    <2> QED
      BY <1>0, <2>3, <2>4 DEF Telemetry!BytesOnce, Telemetry!Tickers
  <1>4. ASSUME NEW t \in Telemetry!Tickers, Telemetry!Report(t)
        PROVE  TrafficTyped' /\ Telemetry!BytesOnce'
    <2>1. /\ [traffic.pend EXCEPT ![t] = 0] \in [Telemetry!Tickers -> Nat]
          /\ traffic.reported + traffic.pend[t] \in Nat
      BY <1>0 DEF TrafficTyped
    <2>2. traffic' = [traffic EXCEPT !.pend = [traffic.pend EXCEPT ![t] = 0],
                                     !.reported = traffic.reported + traffic.pend[t]]
      BY <1>4 DEF Telemetry!Report
    <2>3. TrafficTyped'
      BY <2>1, <2>2 DEF TrafficTyped
    <2>4. /\ traffic'.seen = traffic.seen /\ traffic'.delta = traffic.delta
          /\ traffic'.reported = traffic.reported + traffic.pend[t]
          /\ traffic'.pend[t] = 0
          /\ \A u \in Telemetry!Tickers \ {t} : traffic'.pend[u] = traffic.pend[u]
      BY <2>2 DEF TrafficTyped
    <2> QED
      BY <1>0, <2>3, <2>4 DEF Telemetry!BytesOnce, Telemetry!Tickers
  <1> QED
    BY <1>1, <1>2, <1>3, <1>4 DEF Telemetry!TrafficNext

LEMMA TunNext ==
  ASSUME TunTyped, Telemetry!TunNext
  PROVE  TunTyped'
  <1>1. CASE Telemetry!Enqueue
    <2>1. tun.sent + 1 \in Nat /\ Telemetry!Queued(tun.out) \in 0..TunDepth
      BY Limits DEF TunTyped, Telemetry!Queued
    <2> QED
      BY <1>1, <2>1 DEF Telemetry!Enqueue, TunTyped
  <1>2. CASE Telemetry!Take
    <2>1. tun.out - 1 \in 0..TunDepth /\ (IF tun.healthy THEN Attempts ELSE 1) \in 0..Attempts
      BY <1>2, Limits DEF Telemetry!Take, TunTyped
    <2> QED
      BY <1>2, <2>1 DEF Telemetry!Take, TunTyped
  <1>3. CASE Telemetry!WriteTun
    BY <1>3 DEF Telemetry!WriteTun, TunTyped
  <1>4. CASE Telemetry!Retry
    <2>1. tun.attempt + 1 \in Nat
      BY DEF TunTyped
    <2> QED
      BY <1>4, <2>1 DEF Telemetry!Retry, TunTyped
  <1>5. CASE Telemetry!WriterEnds \/ Telemetry!HaltTun
    BY <1>5 DEF Telemetry!WriterEnds, Telemetry!HaltTun, TunTyped
  <1>6. CASE Telemetry!Flap
    <2>1. (~tun.up) \in BOOLEAN
      OBVIOUS
    <2>2. (IF tun.up THEN tun.flaps + 1 ELSE tun.flaps) \in Nat
      BY DEF TunTyped
    <2>3. PICK v \in BOOLEAN, n \in Nat : tun' = [tun EXCEPT !.up = v, !.flaps = n]
      BY <1>6, <2>1, <2>2, Zenon DEF Telemetry!Flap
    <2> QED
      BY <2>3 DEF TunTyped
  <1> QED
    BY <1>1, <1>2, <1>3, <1>4, <1>5, <1>6 DEF Telemetry!TunNext, Telemetry!TunStep

(* A handle is never published twice, and freed only once replaced.        *)
LEMMA PolicyNext ==
  ASSUME PolicyTyped, Replaced, Telemetry!PolicyNext
  PROVE  PolicyTyped' /\ Replaced'
  <1>0. None \notin Handles
    BY AndroidAssumption DEF AndroidAssumption
  <1>1. CASE Telemetry!ClosePolicy
    <2>1. /\ policy' = [policy EXCEPT !.cur = None, !.freed = policy.freed \cup {policy.cur},
                                      !.wait = policy.wait \cup {policy.cur}]
          /\ policy.cur \in Handles
      BY <1>1 DEF Telemetry!ClosePolicy, PolicyTyped
    <2>2. policy.freed \cup {policy.cur} \in SUBSET Handles /\ policy.wait \cup {policy.cur} \in SUBSET Handles
      BY <2>1 DEF PolicyTyped
    <2>3. PolicyTyped'
      BY <2>1, <2>2 DEF PolicyTyped
    <2>4. /\ policy'.cur = None /\ policy'.freed = policy.freed \cup {policy.cur}
          /\ policy'.wait = policy.wait \cup {policy.cur} /\ policy'.timer = policy.timer
          /\ policy'.released = policy.released /\ policy'.built = policy.built
      BY <2>1 DEF PolicyTyped
    <2> QED
      BY <1>0, <2>1, <2>3, <2>4 DEF PolicyTyped, Replaced
  <1>2. ASSUME NEW h \in Handles, Telemetry!ApplySnapshot(h)
        PROVE  PolicyTyped' /\ Replaced'
    <2> DEFINE w == IF policy.cur = None THEN policy.warm ELSE policy.warm \cup {{h, policy.cur}}
               t == IF policy.cur = None THEN policy.timer ELSE policy.timer \cup {policy.cur}
    <2>1. policy' = [policy EXCEPT !.built = policy.built \cup {h}, !.cur = h, !.warm = w, !.timer = t]
      BY <1>2 DEF Telemetry!ApplySnapshot
    <2>2. /\ w \in SUBSET (SUBSET Handles) /\ t \in SUBSET Handles
          /\ policy.built \cup {h} \in SUBSET Handles
      BY DEF PolicyTyped
    <2>3. t \subseteq policy.timer \cup ({policy.cur} \ {None})
      OBVIOUS
    <2> HIDE DEF w, t
    <2>4. PolicyTyped'
      BY <2>1, <2>2 DEF PolicyTyped
    <2>5. /\ policy'.cur = h /\ policy'.freed = policy.freed
          /\ policy'.wait = policy.wait /\ policy'.timer = t
          /\ policy'.released = policy.released /\ policy'.built = policy.built \cup {h}
      BY <2>1 DEF PolicyTyped
    <2>6. h \notin policy.built
      BY <1>2 DEF Telemetry!ApplySnapshot
    <2> QED
      BY <1>0, <2>3, <2>4, <2>5, <2>6 DEF Replaced
  <1>3. ASSUME NEW h \in Handles, Telemetry!ReleaseTimer(h)
        PROVE  PolicyTyped' /\ Replaced'
    <2>1. policy' = [policy EXCEPT !.timer = policy.timer \ {h}, !.freed = policy.freed \cup {h},
                                   !.wait = policy.wait \cup {h}]
      BY <1>3 DEF Telemetry!ReleaseTimer
    <2>2. /\ policy.freed \cup {h} \in SUBSET Handles /\ policy.wait \cup {h} \in SUBSET Handles
          /\ policy.timer \ {h} \in SUBSET Handles
      BY DEF PolicyTyped
    <2>3. PolicyTyped'
      BY <2>1, <2>2 DEF PolicyTyped
    <2>4. /\ policy'.cur = policy.cur /\ policy'.freed = policy.freed \cup {h}
          /\ policy'.wait = policy.wait \cup {h} /\ policy'.timer = policy.timer \ {h}
          /\ policy'.released = policy.released /\ policy'.built = policy.built
      BY <2>1 DEF PolicyTyped
    <2> QED
      BY <1>3, <2>3, <2>4 DEF Replaced, Telemetry!ReleaseTimer
  <1>4. ASSUME NEW h \in Handles, Telemetry!Free(h)
        PROVE  PolicyTyped' /\ Replaced'
    <2>1. policy' = [policy EXCEPT !.wait = policy.wait \ {h}, !.released = policy.released \cup {h}]
      BY <1>4 DEF Telemetry!Free
    <2>2. policy.released \cup {h} \in SUBSET Handles /\ policy.wait \ {h} \in SUBSET Handles
      BY DEF PolicyTyped
    <2>3. PolicyTyped'
      BY <2>1, <2>2 DEF PolicyTyped
    <2>4. /\ policy'.cur = policy.cur /\ policy'.freed = policy.freed
          /\ policy'.wait = policy.wait \ {h} /\ policy'.timer = policy.timer
          /\ policy'.released = policy.released \cup {h} /\ policy'.built = policy.built
      BY <2>1 DEF PolicyTyped
    <2> QED
      BY <1>4, <2>3, <2>4 DEF Replaced, Telemetry!Free
  <1>5. ASSUME NEW w \in policy.warm, Telemetry!Prewarmed(w)
        PROVE  PolicyTyped' /\ Replaced'
    <2>1. policy.warm \ {w} \in SUBSET (SUBSET Handles)
      BY DEF PolicyTyped
    <2>2. policy' = [policy EXCEPT !.warm = policy.warm \ {w}]
      BY <1>5 DEF Telemetry!Prewarmed
    <2> QED
      BY <2>1, <2>2 DEF PolicyTyped, Replaced
  <1>6. ASSUME NEW q \in Evaluations, Telemetry!Evaluate(q)
        PROVE  PolicyTyped' /\ Replaced'
    <2>1. PICK r \in [pc: {"idle", "loaded", "checked", "inside"}, h: Handles \cup {None}] :
            policy' = [policy EXCEPT !.query = [policy.query EXCEPT ![q] = r]]
      <3>0. /\ policy.cur \in Handles \cup {None} /\ policy.query[q].h \in Handles \cup {None}
            /\ policy.query[q] \in [pc: {"idle", "loaded", "checked", "inside"}, h: Handles \cup {None}]
        BY DEF PolicyTyped
      <3>1. Telemetry!NoQuery \in [pc: {"idle", "loaded", "checked", "inside"}, h: Handles \cup {None}]
        BY DEF Telemetry!NoQuery
      <3> QED
        BY <1>6, <3>0, <3>1 DEF Telemetry!Evaluate
    <2>2. [policy.query EXCEPT ![q] = r]
            \in [Evaluations -> [pc: {"idle", "loaded", "checked", "inside"}, h: Handles \cup {None}]]
      BY DEF PolicyTyped
    <2> QED
      BY <2>1, <2>2 DEF PolicyTyped, Replaced
  <1> QED
    BY <1>1, <1>2, <1>3, <1>4, <1>5, <1>6 DEF Telemetry!PolicyNext

LEMMA TelemetryNext ==
  ASSUME TelemetryKeeps, Telemetry!Next
  PROVE  TelemetryKeeps'
  <1>1. UNCHANGED log => LogTyped'
    BY DEF LogTyped, TelemetryKeeps
  <1>2. UNCHANGED traffic => TrafficTyped' /\ Telemetry!BytesOnce'
    BY DEF TrafficTyped, Telemetry!BytesOnce, TelemetryKeeps
  <1>3. UNCHANGED tun => TunTyped'
    BY DEF TunTyped, TelemetryKeeps
  <1>4. UNCHANGED policy => PolicyTyped' /\ Replaced'
    BY DEF PolicyTyped, Replaced, TelemetryKeeps
  <1> QED
    BY <1>1, <1>2, <1>3, <1>4, LogNext, TrafficNext, TunNext, PolicyNext
    DEF TelemetryKeeps, Telemetry!Next

LEMMA TelemetryGives ==
  TelemetryKeeps => Telemetry!TypeOK /\ Telemetry!BytesOnce /\ Telemetry!PublishedIsLive
  BY DEF TelemetryKeeps, LogTyped, TunTyped, PolicyTyped, Replaced, Telemetry!TypeOK,
     Telemetry!PublishedIsLive
-----------------------------------------------------------------------------
(* The DNS path: proofs.                                                   *)

LEMMA DnsNone == None \notin Dns!Agents /\ None # "addr"
  BY AndroidAssumption DEF AndroidAssumption, Dns!Agents

LEMMA DnsIdle ==
  /\ Dns!Idle \in DnsRecord /\ Dns!Idle.pc = "idle" /\ Dns!Idle.res # "addr" /\ Dns!Idle.held = {}
  /\ [Dns!Idle EXCEPT !.pc = "done"] \in DnsRecord
  /\ [Dns!Idle EXCEPT !.pc = "done"].pc = "done"
  /\ [Dns!Idle EXCEPT !.pc = "done"].res # "addr" /\ [Dns!Idle EXCEPT !.pc = "done"].held = {}
  BY DnsNone DEF Dns!Idle, DnsRecord

LEMMA DnsInit == Dns!Init => DnsKeeps
  <1> SUFFICES ASSUME Dns!Init PROVE DnsKeeps
    OBVIOUS
  <1>1. DnsTyped
    BY DnsIdle DEF DnsTyped, Dns!Init, CacheRecord, Dns!NoEntry, Dns!Answers
  <1>2. \A q \in Queries : Screened(agent[q]) /\ Reachable(agent[q])
    BY DnsIdle DEF Dns!Init, Screened, Reachable, BeforePolicy, Dns!Agents
  <1>3. Dns!TypeOK /\ Dns!GrantsFollowAllowlist
    BY DEF Dns!Init, Dns!TypeOK, Dns!GrantsFollowAllowlist, Dns!NoEntry
  <1> QED
    BY <1>1, <1>2, <1>3 DEF DnsKeeps

LEMMA DnsUnchanged == DnsKeeps /\ UNCHANGED dnsVars => DnsKeeps'
  BY DEF DnsKeeps, dnsVars, DnsTyped, Dns!TypeOK, Dns!GrantsFollowAllowlist, Screened, Reachable,
     Dns!InForce

(* One agent moves, and leads no flight or goes on leading it.             *)
LEMMA DnsMoves ==
  ASSUME DnsKeeps, NEW a \in Dns!Agents, NEW r \in DnsRecord,
         agent' = [agent EXCEPT ![a] = r],
         cache' \in [Names -> CacheRecord], grants \subseteq grants', Dns!GrantsFollowAllowlist',
         UNCHANGED <<rules, filterOn, allow, flight>>,
         agent[a].pc \in {"lead", "led"} => r.pc \in {"lead", "led"} /\ r.name = agent[a].name,
         a \in Queries => Screened(r),
         a \in Queries /\ r.pc \in {"refresh", "done"} /\ r.res = "addr" /\ r.same =>
           \A s \in DOMAIN allow : r.name \in allow[s] => <<s, r.name>> \in grants'
  PROVE  DnsKeeps'
  <1>1. /\ agent' \in [Dns!Agents -> DnsRecord]
        /\ \A b \in Dns!Agents : agent'[b] = IF b = a THEN r ELSE agent[b]
    BY DEF DnsKeeps, DnsTyped
  <1>2. DnsTyped'
    BY <1>1 DEF DnsKeeps, DnsTyped
  <1>3. Dns!TypeOK'
    <2>1. \A n \in Names : cache'[n].st \in {"none", "fresh", "stale"}
      BY DEF CacheRecord
    <2>2. \A n \in Names : flight'[n] \in Dns!Agents \cup {None}
      BY DEF DnsKeeps, DnsTyped
    <2>3. \A n \in Names : flight'[n] # None => /\ agent'[flight'[n]].name = n
                                                /\ agent'[flight'[n]].pc \in {"lead", "led"}
      BY <1>1, <2>2 DEF DnsKeeps, Dns!TypeOK
    <2> QED
      BY <2>1, <2>2, <2>3 DEF Dns!TypeOK, Dns!Agents
  <1>4. \A q \in Queries : Screened(agent[q])'
    BY <1>1 DEF DnsKeeps, Screened, Dns!InForce, Dns!Agents
  <1>5. \A q \in Queries : Reachable(agent[q])'
    BY <1>1 DEF DnsKeeps, Reachable, Dns!Agents
  <1> QED
    BY <1>2, <1>3, <1>4, <1>5 DEF DnsKeeps

(* The moves that change neither the cache nor the grants.                 *)
LEMMA DnsEnds ==
  ASSUME DnsKeeps, NEW a \in Dns!Agents, Dns!End(a), agent[a].pc \notin {"lead", "led"},
         UNCHANGED <<Dns!settings, cache, flight, grants>>
  PROVE  DnsKeeps'
  <1>1. Screened([Dns!Idle EXCEPT !.pc = "done"])
    BY DnsIdle DEF Screened
  <1>2. cache' \in [Names -> CacheRecord] /\ Dns!GrantsFollowAllowlist'
    BY DEF DnsKeeps, DnsTyped, Dns!GrantsFollowAllowlist, Dns!settings
  <1>3. UNCHANGED <<rules, filterOn, allow, flight, grants>>
    BY DEF Dns!settings
  <1> DEFINE r == [Dns!Idle EXCEPT !.pc = "done"]
  <1>4. agent' = [agent EXCEPT ![a] = r] /\ r \in DnsRecord /\ r.res # "addr"
    BY DnsIdle DEF Dns!End
  <1> HIDE DEF r
  <1> QED
    BY <1>1, <1>2, <1>3, <1>4, DnsMoves DEF r

LEMMA DnsGoes ==
  ASSUME DnsKeeps, NEW a \in Dns!Agents, NEW r \in DnsRecord,
         agent' = [agent EXCEPT ![a] = r],
         UNCHANGED <<rules, filterOn, allow, flight, cache, grants>>,
         r.name = agent[a].name, r.held = agent[a].held, r.pc \notin {"refresh", "done", "idle"},
         agent[a].pc \notin {"idle", "refresh", "done"},
         agent[a].pc \in BeforePolicy => r.pc \in BeforePolicy,
         agent[a].pc \in {"lead", "led"} => r.pc \in {"lead", "led"},
         a \in Queries /\ r.res = "addr" => r.held = {}
  PROVE  DnsKeeps'
  <1>1. a \in Queries => Screened(r)
    BY DEF DnsKeeps, Screened
  <1>2. cache' \in [Names -> CacheRecord] /\ Dns!GrantsFollowAllowlist'
    BY DEF DnsKeeps, DnsTyped, Dns!GrantsFollowAllowlist
  <1> QED
    BY <1>1, <1>2, DnsMoves

LEMMA DnsAgent ==
  ASSUME DnsKeeps, NEW a \in Dns!Agents
  PROVE  agent[a] \in DnsRecord /\ agent = [b \in Dns!Agents |-> agent[b]]
  BY DEF DnsKeeps, DnsTyped

(* Past the policy, what is still held against a query is its target.      *)
LEMMA DnsTarget ==
  ASSUME DnsKeeps, NEW q \in Queries, agent[q].pc \notin BeforePolicy \cup {"refresh", "done"},
         ~Dns!ChainBlocked(agent[q].name)
  PROVE  agent[q].held = {}
  <1>1. \A x \in agent[q].held : x = Target[agent[q].name] /\ x \in rules
    BY DEF DnsKeeps, Screened, Dns!InForce, BeforePolicy
  <1>2. None \notin rules
    BY AndroidAssumption DEF AndroidAssumption, DnsKeeps, DnsTyped
  <1> QED
    BY <1>1, <1>2 DEF Dns!ChainBlocked, Dns!Blocks

(* A step to another step.                                                 *)
LEMMA DnsGoto ==
  ASSUME DnsKeeps, NEW a \in Dns!Agents,
         NEW pc \in {"allowlist", "rewrite", "policy", "lookup", "grant", "grantStale", "join",
                     "direct", "wait", "shared", "inspect", "write"},
         Dns!Goto(a, pc), UNCHANGED <<rules, filterOn, allow, flight, cache, grants>>,
         agent[a].pc \notin {"idle", "refresh", "done", "lead", "led"},
         agent[a].pc \in BeforePolicy => pc \in BeforePolicy
  PROVE  DnsKeeps'
  <1> DEFINE r == [agent[a] EXCEPT !.pc = pc]
  <1>1. agent[a] \in DnsRecord /\ agent' = [agent EXCEPT ![a] = r]
    BY DnsAgent DEF Dns!Goto
  <1>2. /\ r \in DnsRecord /\ r.pc = pc /\ r.name = agent[a].name /\ r.held = agent[a].held
        /\ r.res = agent[a].res
    BY <1>1 DEF DnsRecord
  <1>3. a \in Queries /\ agent[a].res = "addr" => agent[a].held = {}
    BY DEF DnsKeeps, Screened
  <1> HIDE DEF r
  <1> QED
    BY <1>1, <1>2, <1>3, DnsGoes

LEMMA DnsGates ==
  ASSUME DnsKeeps, NEW a \in Dns!Agents,
         Dns!CheckAllowlist(a) \/ Dns!CheckFirewall(a) \/ Dns!Rewrite(a)
  PROVE  DnsKeeps'
  <1>1. UNCHANGED <<Dns!settings, cache, flight, grants>>
    BY DEF Dns!CheckAllowlist, Dns!CheckFirewall, Dns!Rewrite
  <1>2. agent[a].pc \in {"allowlist", "rewrite"}
    BY DEF Dns!CheckAllowlist, Dns!CheckFirewall, Dns!Rewrite, Dns!At
  <1>3. UNCHANGED <<rules, filterOn, allow, flight, cache, grants>>
    BY <1>1 DEF Dns!settings
  <1>4. CASE Dns!End(a)
    BY <1>1, <1>2, <1>4, DnsEnds
  <1>5. CASE Dns!Goto(a, "policy")
    BY <1>2, <1>3, <1>5, DnsGoto DEF BeforePolicy
  <1>6. CASE agent' = [agent EXCEPT ![a].pc = "rewrite", ![a].uid = None]
    <2> DEFINE r == [agent[a] EXCEPT !.pc = "rewrite", !.uid = None]
    <2>1. agent[a] \in DnsRecord /\ agent' = [agent EXCEPT ![a] = r]
      BY <1>6, DnsAgent
    <2>2. /\ r \in DnsRecord /\ r.pc = "rewrite" /\ r.name = agent[a].name
          /\ r.held = agent[a].held /\ r.res = agent[a].res
      BY <1>2, <2>1 DEF DnsRecord
    <2>3. a \in Queries /\ agent[a].res = "addr" => agent[a].held = {}
      BY DEF DnsKeeps, Screened
    <2> HIDE DEF r
    <2> QED
      BY <1>2, <1>3, <2>1, <2>2, <2>3, DnsGoes DEF BeforePolicy
  <1> QED
    BY <1>4, <1>5, <1>6 DEF Dns!CheckAllowlist, Dns!CheckFirewall, Dns!Rewrite, Dns!StandaloneBlock

(* The policy is asked about the name: what is held after that is not the  *)
(* name.                                                                   *)
LEMMA DnsPolicy ==
  ASSUME DnsKeeps, NEW a \in Dns!Agents, Dns!CheckPolicy(a)
  PROVE  DnsKeeps'
  <1>1. UNCHANGED <<Dns!settings, cache, flight, grants>> /\ agent[a].pc = "policy"
    BY DEF Dns!CheckPolicy, Dns!At
  <1>2. CASE Dns!End(a)
    BY <1>1, <1>2, DnsEnds
  <1>3. CASE ~Dns!End(a)
    <2> DEFINE r == [agent[a] EXCEPT !.pc = "lookup"]
    <2>1. /\ agent[a] \in DnsRecord /\ agent' = [agent EXCEPT ![a] = r]
          /\ ~(filterOn /\ agent[a].name \in rules)
      BY <1>3, DnsAgent DEF Dns!CheckPolicy, Dns!Goto, Dns!StandaloneBlock, Dns!Blocks
    <2>2. /\ r \in DnsRecord /\ r.pc = "lookup" /\ r.name = agent[a].name
          /\ r.held = agent[a].held /\ r.res = agent[a].res
      BY <1>1, <2>1 DEF DnsRecord
    <2> HIDE DEF r
    <2>3. a \in Queries => Screened(r)
      BY <1>1, <2>1, <2>2 DEF DnsKeeps, Screened, Dns!InForce
    <2>4. cache' \in [Names -> CacheRecord] /\ Dns!GrantsFollowAllowlist'
      BY <1>1 DEF DnsKeeps, DnsTyped, Dns!GrantsFollowAllowlist, Dns!settings
    <2>5. UNCHANGED <<rules, filterOn, allow, flight, grants>>
      BY <1>1 DEF Dns!settings
    <2> QED
      BY <1>1, <2>1, <2>2, <2>3, <2>4, <2>5, DnsMoves
  <1> QED
    BY <1>2, <1>3

(* An answer: from the cache, or from the resolver.                        *)
LEMMA DnsAnswers ==
  ASSUME DnsKeeps, NEW a \in Dns!Agents,
         Dns!FreshHit(a) \/ Dns!StaleHit(a) \/ Dns!Inspect(a)
  PROVE  DnsKeeps'
  <1>1. UNCHANGED <<Dns!settings, cache, flight, grants>>
    BY DEF Dns!FreshHit, Dns!StaleHit, Dns!Inspect
  <1>2. agent[a].pc \in {"lookup", "inspect"}
    BY DEF Dns!FreshHit, Dns!StaleHit, Dns!Inspect, Dns!At
  <1>3. CASE Dns!End(a)
    BY <1>1, <1>2, <1>3, DnsEnds
  <1>4. CASE ~Dns!End(a)
    <2>1. \E pc \in {"grant", "grantStale", "write"}, res \in {"addr", "block"} :
            /\ Dns!Answer(a, pc, res)
            /\ res = "addr" => ~Dns!ChainBlocked(agent[a].name)
      <3>1. CASE Dns!FreshHit(a)
        BY <1>4, <3>1 DEF Dns!FreshHit, Dns!StandaloneBlock, Dns!Served
      <3>2. CASE Dns!StaleHit(a)
        BY <1>4, <3>2 DEF Dns!StaleHit, Dns!StandaloneBlock, Dns!Served
      <3>3. CASE Dns!Inspect(a)
        BY <1>4, <3>3 DEF Dns!Inspect, Dns!StandaloneBlock
      <3> QED
        BY <3>1, <3>2, <3>3
    <2>2. PICK pc \in {"grant", "grantStale", "write"}, res \in {"addr", "block"} :
            /\ Dns!Answer(a, pc, res)
            /\ res = "addr" => ~Dns!ChainBlocked(agent[a].name)
      BY <2>1
    <2> DEFINE r == [agent[a] EXCEPT !.pc = pc, !.res = res]
    <2>3. agent[a] \in DnsRecord /\ agent' = [agent EXCEPT ![a] = r]
      BY <2>2, DnsAgent DEF Dns!Answer
    <2>4. /\ r \in DnsRecord /\ r.pc = pc /\ r.name = agent[a].name /\ r.held = agent[a].held
          /\ r.res = res
      BY <1>2, <2>3 DEF DnsRecord
    <2>5. a \in Queries /\ res = "addr" => agent[a].held = {}
      BY <1>2, <2>2, DnsTarget DEF BeforePolicy
    <2> HIDE DEF r
    <2>6. UNCHANGED <<rules, filterOn, allow, flight, cache, grants>>
      BY <1>1 DEF Dns!settings
    <2> QED
      BY <1>2, <2>3, <2>4, <2>5, <2>6, DnsGoes DEF BeforePolicy
  <1> QED
    BY <1>3, <1>4

LEMMA DnsMiss ==
  ASSUME DnsKeeps, NEW a \in Dns!Agents, Dns!Miss(a)
  PROVE  DnsKeeps'
  <1>1. agent[a].pc = "lookup" /\ UNCHANGED <<rules, filterOn, allow, flight, cache, grants>>
    BY DEF Dns!Miss, Dns!At, Dns!settings
  <1>2. \E pc \in {"join", "direct"} : Dns!Goto(a, pc)
    BY DEF Dns!Miss
  <1> QED
    BY <1>1, <1>2, DnsGoto DEF BeforePolicy

(* Granting: every strict app whose list covers the name may connect.      *)
LEMMA DnsRemember ==
  ASSUME DnsKeeps, NEW a \in Dns!Agents, Dns!Remember(a), UNCHANGED allow
  PROVE  /\ grants \subseteq grants' /\ Dns!GrantsFollowAllowlist'
         /\ agent[a].res = "addr" =>
              \A s \in DOMAIN allow : agent[a].name \in allow[s] => <<s, agent[a].name>> \in grants'
  <1>1. \A g \in Dns!Granted(agent[a].name) : g[1] \in DOMAIN allow /\ g[2] \in allow[g[1]]
    BY DEF Dns!Granted
  <1>2. \A s \in DOMAIN allow : agent[a].name \in allow[s]
                                  => <<s, agent[a].name>> \in Dns!Granted(agent[a].name)
    BY DEF Dns!Granted
  <1>3. Dns!GrantsFollowAllowlist'
    BY <1>1 DEF Dns!Remember, DnsKeeps, Dns!GrantsFollowAllowlist
  <1> QED
    BY <1>2, <1>3 DEF Dns!Remember

(* What is kept of a query that is over.                                   *)
LEMMA DnsAfter ==
  ASSUME NEW r \in DnsRecord
  PROVE  /\ Dns!After(r) \in DnsRecord /\ Dns!After(r).pc = "done" /\ Dns!After(r).held = {}
         /\ Dns!After(r).res = "addr" => r.res = "addr" /\ Dns!After(r).name = r.name
         /\ Dns!After(r).res = "addr" => Dns!After(r).same = r.same
  <1>1. CASE r.res = "addr"
    <2>1. PICK same \in BOOLEAN, name \in Names \cup {None} : same = r.same /\ name = r.name
      BY DEF DnsRecord
    <2> DEFINE t == [Dns!Idle EXCEPT !.pc = "done", !.name = name, !.res = "addr", !.same = same]
    <2>2. Dns!After(r) = t
      BY <1>1, <2>1 DEF Dns!After
    <2>3. /\ t \in DnsRecord /\ t.pc = "done" /\ t.held = {} /\ t.name = name
          /\ t.same = same
      BY DEF Dns!Idle, DnsRecord
    <2> HIDE DEF t
    <2> QED
      BY <1>1, <2>1, <2>2, <2>3
  <1>2. CASE r.res # "addr"
    BY <1>2, DnsIdle DEF Dns!After
  <1> QED
    BY <1>1, <1>2

LEMMA DnsGrant ==
  ASSUME DnsKeeps, NEW a \in Dns!Agents,
         Dns!GrantHit(a) \/ Dns!GrantStale(a) \/ Dns!WriteMsg(a)
  PROVE  DnsKeeps'
  <1>1. /\ agent[a].pc \in {"grant", "grantStale", "write"} /\ Dns!Remember(a)
        /\ UNCHANGED <<rules, filterOn, allow, flight, cache>>
    BY DEF Dns!GrantHit, Dns!GrantStale, Dns!WriteMsg, Dns!At, Dns!settings
  <1>2. agent[a] \in DnsRecord /\ cache' \in [Names -> CacheRecord]
    BY <1>1 DEF DnsKeeps, DnsTyped
  <1>3. CASE Dns!Done(a)
    <2> DEFINE r == Dns!After(agent[a])
    <2>1. agent' = [agent EXCEPT ![a] = r]
      BY <1>3 DEF Dns!Done
    <2>2. Screened(r)
      BY <1>2, DnsAfter DEF Screened
    <2>3. /\ r \in DnsRecord
          /\ r.res = "addr" => agent[a].res = "addr" /\ r.name = agent[a].name
      BY <1>2, DnsAfter
    <2> HIDE DEF r
    <2> QED
      BY <1>1, <1>2, <2>1, <2>2, <2>3, DnsRemember, DnsMoves
  <1>4. CASE Dns!Goto(a, "refresh")
    <2> DEFINE r == [agent[a] EXCEPT !.pc = "refresh"]
    <2>1. agent' = [agent EXCEPT ![a] = r]
      BY <1>2, <1>4, DnsAgent DEF Dns!Goto
    <2>2. /\ r \in DnsRecord /\ r.pc = "refresh" /\ r.name = agent[a].name /\ r.held = agent[a].held
          /\ r.res = agent[a].res
      BY <1>1, <1>2 DEF DnsRecord
    <2> HIDE DEF r
    <2>3. a \in Queries => Screened(r)
      BY <1>1, <2>2 DEF DnsKeeps, Screened, BeforePolicy
    <2> QED
      BY <1>1, <1>2, <2>1, <2>2, <2>3, DnsRemember, DnsMoves
  <1> QED
    BY <1>3, <1>4 DEF Dns!GrantHit, Dns!GrantStale, Dns!WriteMsg

(* What a step that moves several agents has to show.                      *)
LEMMA DnsSeveral ==
  ASSUME DnsKeeps, agent' \in [Dns!Agents -> DnsRecord],
         cache' \in [Names -> CacheRecord], flight' \in [Names -> Dns!Agents \cup {None}],
         rules' \in RuleSets, filterOn' \in BOOLEAN, Dns!GrantsFollowAllowlist',
         \A n \in Names : flight'[n] # None => /\ agent'[flight'[n]].name = n
                                               /\ agent'[flight'[n]].pc \in {"lead", "led"},
         \A q \in Queries : Screened(agent[q])' /\ Reachable(agent[q])'
  PROVE  DnsKeeps'
  <1>1. DnsTyped'
    BY DEF DnsTyped
  <1>2. Dns!TypeOK'
    BY DEF CacheRecord, Dns!TypeOK, Dns!Agents
  <1> QED
    BY <1>1, <1>2 DEF DnsKeeps

(* A stale answer claims the one refresh of its entry.                     *)
LEMMA DnsRefresh ==
  ASSUME DnsKeeps, NEW a \in Dns!Agents, Dns!ClaimRefresh(a)
  PROVE  DnsKeeps'
  <1> DEFINE r == Dns!After(agent[a])
  <1>1. agent[a].pc = "refresh" /\ UNCHANGED <<rules, filterOn, allow, flight, grants>>
    BY DEF Dns!ClaimRefresh, Dns!At, Dns!settings
  <1>2. agent[a] \in DnsRecord /\ agent[a].name \in Names
    BY <1>1 DEF DnsKeeps, DnsTyped, DnsRecord
  <1>3. /\ r \in DnsRecord /\ Screened(r) /\ r.pc = "done"
        /\ r.res = "addr" /\ r.same => /\ agent[a].res = "addr" /\ agent[a].same
                                       /\ r.name = agent[a].name
    BY <1>2, DnsAfter DEF Screened
  <1>4. Dns!GrantsFollowAllowlist'
    BY <1>1 DEF DnsKeeps, Dns!GrantsFollowAllowlist
  <1>5. a \in Queries /\ r.res = "addr" /\ r.same =>
           \A s \in DOMAIN allow : r.name \in allow[s] => <<s, r.name>> \in grants'
    BY <1>1, <1>3 DEF DnsKeeps, Reachable
  <1>6. CASE UNCHANGED cache /\ Dns!Done(a)
    <2>1. agent' = [agent EXCEPT ![a] = r] /\ cache' \in [Names -> CacheRecord]
      BY <1>6 DEF Dns!Done, DnsKeeps, DnsTyped
    <2> HIDE DEF r
    <2> QED
      BY <1>1, <1>3, <1>4, <1>5, <2>1, DnsMoves
  <1>7. CASE ~(UNCHANGED cache /\ Dns!Done(a))
    <2> DEFINE t == [Dns!Idle EXCEPT !.pc = "join", !.name = agent[a].name]
    <2>1. PICK w \in Workers : /\ agent[w].pc = "idle"
                               /\ agent' = [agent EXCEPT ![a] = r, ![w] = t]
                               /\ cache' = [cache EXCEPT ![agent[a].name].busy = TRUE]
      BY <1>7 DEF Dns!ClaimRefresh, Dns!At
    <2>2. t \in DnsRecord /\ t.pc = "join"
      BY <1>2 DEF DnsRecord, Dns!Idle
    <2>3. cache' \in [Names -> CacheRecord]
      BY <1>2, <2>1 DEF CacheRecord, DnsKeeps, DnsTyped
    <2> HIDE DEF r, t
    <2>4. /\ agent' \in [Dns!Agents -> DnsRecord]
          /\ \A b \in Dns!Agents : agent'[b] = IF b = w THEN t ELSE IF b = a THEN r ELSE agent[b]
      BY <1>3, <2>1, <2>2 DEF DnsKeeps, DnsTyped, Dns!Agents
    <2>5. w \notin Queries /\ \A q \in Queries : q \in Dns!Agents
      BY AndroidAssumption DEF AndroidAssumption, Dns!Agents
    <2>6. \A q \in Queries : Screened(agent[q])' /\ Reachable(agent[q])'
      BY <1>1, <1>3, <1>5, <2>4, <2>5 DEF DnsKeeps, Screened, Reachable, Dns!InForce
    <2>7. \A n \in Names : flight'[n] # None => /\ agent'[flight'[n]].name = n
                                                /\ agent'[flight'[n]].pc \in {"lead", "led"}
      <3> SUFFICES ASSUME NEW n \in Names, flight[n] # None
                   PROVE  /\ agent'[flight[n]].name = n
                          /\ agent'[flight[n]].pc \in {"lead", "led"}
        BY <1>1
      <3>1. /\ flight[n] \in Dns!Agents /\ agent[flight[n]].name = n
            /\ agent[flight[n]].pc \in {"lead", "led"}
        BY DEF DnsKeeps, DnsTyped, Dns!TypeOK
      <3> QED
        BY <1>1, <2>1, <2>4, <3>1
    <2>8. rules' \in RuleSets /\ filterOn' \in BOOLEAN /\ flight' \in [Names -> Dns!Agents \cup {None}]
      BY <1>1 DEF DnsKeeps, DnsTyped
    <2> QED
      BY <1>4, <2>3, <2>4, <2>6, <2>7, <2>8, DnsSeveral
  <1> QED
    BY <1>6, <1>7

(* --- singleFlightMsg ---                                                 *)

(* An answer is at hand: it is looked at next.                             *)
LEMMA DnsTakes ==
  ASSUME DnsKeeps, NEW a \in Dns!Agents, NEW ans \in Dns!Answers \cup {None},
         agent' = [agent EXCEPT ![a].pc = "inspect", ![a].ans = ans],
         UNCHANGED <<rules, filterOn, allow, flight, cache, grants>>,
         agent[a].pc \in {"join", "shared", "direct"}
  PROVE  DnsKeeps'
  <1> DEFINE r == [agent[a] EXCEPT !.pc = "inspect", !.ans = ans]
  <1>1. agent[a] \in DnsRecord /\ agent' = [agent EXCEPT ![a] = r]
    BY DnsAgent
  <1>2. /\ r \in DnsRecord /\ r.pc = "inspect" /\ r.name = agent[a].name
        /\ r.held = agent[a].held /\ r.res = agent[a].res
    BY <1>1 DEF DnsRecord
  <1>3. a \in Queries /\ agent[a].res = "addr" => agent[a].held = {}
    BY DEF DnsKeeps, Screened
  <1> HIDE DEF r
  <1> QED
    BY <1>1, <1>2, <1>3, DnsGoes DEF BeforePolicy

(* Joining: the flight of a name has one leader.                           *)
LEMMA DnsJoin ==
  ASSUME DnsKeeps, NEW a \in Dns!Agents, Dns!Join(a)
  PROVE  DnsKeeps'
  <1> DEFINE n == agent[a].name
  <1>1. agent[a].pc = "join" /\ UNCHANGED <<rules, filterOn, allow, cache, grants>>
    BY DEF Dns!Join, Dns!At, Dns!settings
  <1>2. agent[a] \in DnsRecord /\ n \in Names
    BY <1>1 DEF DnsKeeps, DnsTyped, DnsRecord
  <1>3. cache[n].ans \in Dns!Answers
    BY <1>2 DEF DnsKeeps, DnsTyped, CacheRecord
  <1>4. CASE /\ agent' = [agent EXCEPT ![a].pc = "inspect", ![a].ans = cache[n].ans]
             /\ UNCHANGED flight
    BY <1>1, <1>3, <1>4, DnsTakes
  <1>5. CASE Dns!Goto(a, "wait") /\ UNCHANGED flight
    BY <1>1, <1>5, DnsGoto DEF BeforePolicy
  <1>6. CASE flight[n] = None /\ flight' = [flight EXCEPT ![n] = a] /\ Dns!Goto(a, "lead")
    <2> DEFINE r == [agent[a] EXCEPT !.pc = "lead"]
    <2>1. agent' = [agent EXCEPT ![a] = r]
      BY <1>2, <1>6, DnsAgent DEF Dns!Goto
    <2>2. /\ r \in DnsRecord /\ r.pc = "lead" /\ r.name = n /\ r.held = agent[a].held
          /\ r.res = agent[a].res
      BY <1>1, <1>2 DEF DnsRecord
    <2> HIDE DEF r
    <2>3. /\ agent' \in [Dns!Agents -> DnsRecord]
          /\ \A b \in Dns!Agents : agent'[b] = IF b = a THEN r ELSE agent[b]
      BY <2>1, <2>2 DEF DnsKeeps, DnsTyped
    <2>4. /\ flight' \in [Names -> Dns!Agents \cup {None}]
          /\ \A m \in Names : flight'[m] = IF m = n THEN a ELSE flight[m]
      BY <1>2, <1>6 DEF DnsKeeps, DnsTyped
    <2>5. \A m \in Names : flight'[m] # None => /\ agent'[flight'[m]].name = m
                                                /\ agent'[flight'[m]].pc \in {"lead", "led"}
      <3> SUFFICES ASSUME NEW m \in Names, m # n, flight[m] # None
                   PROVE  agent'[flight[m]].name = m /\ agent'[flight[m]].pc \in {"lead", "led"}
        BY <2>2, <2>3, <2>4
      <3>1. /\ flight[m] \in Dns!Agents /\ agent[flight[m]].name = m
            /\ agent[flight[m]].pc \in {"lead", "led"}
        BY DEF DnsKeeps, DnsTyped, Dns!TypeOK
      <3> QED
        BY <1>1, <2>3, <3>1
    <2>6. \A q \in Queries : Screened(agent[q])' /\ Reachable(agent[q])'
      BY <1>1, <2>2, <2>3 DEF DnsKeeps, Screened, Reachable, Dns!InForce, Dns!Agents, BeforePolicy
    <2>7. /\ rules' \in RuleSets /\ filterOn' \in BOOLEAN /\ cache' \in [Names -> CacheRecord]
          /\ Dns!GrantsFollowAllowlist'
      BY <1>1 DEF DnsKeeps, DnsTyped, Dns!GrantsFollowAllowlist
    <2> QED
      BY <2>3, <2>4, <2>5, <2>6, <2>7, DnsSeveral
  <1> QED
    BY <1>4, <1>5, <1>6 DEF Dns!Join

(* The leader stores what it got.                                          *)
LEMMA DnsResolve ==
  ASSUME DnsKeeps, NEW a \in Dns!Agents, Dns!Resolve(a)
  PROVE  DnsKeeps'
  <1>1. PICK ans \in Dns!Answers :
          /\ cache' = Dns!Put(agent[a].name, ans)
          /\ agent' = [agent EXCEPT ![a].pc = "led", ![a].ans = ans]
    BY DEF Dns!Resolve
  <1>2. agent[a].pc = "lead" /\ UNCHANGED <<rules, filterOn, allow, flight, grants>>
    BY DEF Dns!Resolve, Dns!At, Dns!settings
  <1> DEFINE r == [agent[a] EXCEPT !.pc = "led", !.ans = ans]
  <1>3. agent[a] \in DnsRecord /\ agent' = [agent EXCEPT ![a] = r]
    BY <1>1, DnsAgent
  <1>4. /\ r \in DnsRecord /\ r.pc = "led" /\ r.name = agent[a].name
        /\ r.held = agent[a].held /\ r.res = agent[a].res
    BY <1>2, <1>3 DEF DnsRecord
  <1> HIDE DEF r
  <1>5. a \in Queries => Screened(r)
    BY <1>2, <1>4 DEF DnsKeeps, Screened, BeforePolicy
  <1>6. cache' \in [Names -> CacheRecord]
    <2>1. [Dns!NoEntry EXCEPT !.st = "fresh", !.ans = ans] \in CacheRecord
      BY DEF Dns!NoEntry, CacheRecord, Dns!Answers
    <2> QED
      BY <1>1, <2>1 DEF Dns!Put, DnsKeeps, DnsTyped
  <1>7. Dns!GrantsFollowAllowlist'
    BY <1>2 DEF DnsKeeps, Dns!GrantsFollowAllowlist
  <1> QED
    BY <1>2, <1>3, <1>4, <1>5, <1>6, <1>7, DnsMoves

(* The leader ends the flight and its waiters go on.                       *)
LEMMA DnsFlightDone ==
  ASSUME DnsKeeps, NEW a \in Dns!Agents, Dns!FlightDone(a)
  PROVE  DnsKeeps'
  <1> DEFINE n == agent[a].name
             Freed(b) == b = a \/ (agent[b].pc = "wait" /\ agent[b].name = n)
  <1>1. /\ agent[a].pc = "led" /\ UNCHANGED <<rules, filterOn, allow, cache, grants>>
        /\ flight' = [flight EXCEPT ![n] = None]
    BY DEF Dns!FlightDone, Dns!At, Dns!settings
  <1>2. agent[a] \in DnsRecord /\ n \in Names /\ agent[a].ans \in Dns!Answers \cup {None}
    BY <1>1 DEF DnsKeeps, DnsTyped, DnsRecord
  <1>3. agent' = [b \in Dns!Agents |->
          IF Freed(b) THEN [agent[b] EXCEPT !.pc = IF b = a THEN "inspect" ELSE "shared",
                                            !.ans = agent[a].ans]
          ELSE agent[b]]
    BY DEF Dns!FlightDone, Dns!At
  <1>4. \A b \in Dns!Agents : agent[b] \in DnsRecord
    BY DEF DnsKeeps, DnsTyped
  <1>5. \A b \in Dns!Agents :
          /\ agent'[b] \in DnsRecord
          /\ Freed(b) => /\ agent[b].pc \in {"led", "wait"}
                         /\ agent'[b].pc \in {"inspect", "shared"} /\ agent'[b].name = agent[b].name
                         /\ agent'[b].held = agent[b].held /\ agent'[b].res = agent[b].res
          /\ ~Freed(b) => agent'[b] = agent[b]
    <2> TAKE b \in Dns!Agents
    <2>1. CASE Freed(b)
      <3> DEFINE pc == IF b = a THEN "inspect" ELSE "shared"
                 r == [agent[b] EXCEPT !.pc = pc, !.ans = agent[a].ans]
      <3>1. agent'[b] = r
        BY <1>3, <2>1
      <3>2. agent[b].pc \in {"led", "wait"}
        BY <1>1, <2>1
      <3>3. /\ r \in DnsRecord /\ r.pc \in {"inspect", "shared"} /\ r.name = agent[b].name
            /\ r.held = agent[b].held /\ r.res = agent[b].res
        BY <1>2, <1>4, <3>2 DEF DnsRecord
      <3> QED
        BY <2>1, <3>1, <3>2, <3>3
    <2>2. CASE ~Freed(b)
      BY <1>3, <1>4, <2>2
    <2> QED
      BY <2>1, <2>2
  <1>6. agent' \in [Dns!Agents -> DnsRecord]
    BY <1>3, <1>5
  <1>7. /\ flight' \in [Names -> Dns!Agents \cup {None}]
        /\ \A m \in Names : flight'[m] = IF m = n THEN None ELSE flight[m]
    BY <1>1, <1>2 DEF DnsKeeps, DnsTyped
  <1>8. \A m \in Names : flight'[m] # None => /\ agent'[flight'[m]].name = m
                                              /\ agent'[flight'[m]].pc \in {"lead", "led"}
    <2> SUFFICES ASSUME NEW m \in Names, m # n, flight[m] # None
                 PROVE  agent'[flight[m]].name = m /\ agent'[flight[m]].pc \in {"lead", "led"}
      BY <1>7
    <2>1. /\ flight[m] \in Dns!Agents /\ agent[flight[m]].name = m
          /\ agent[flight[m]].pc \in {"lead", "led"}
      BY DEF DnsKeeps, DnsTyped, Dns!TypeOK
    <2>2. ~Freed(flight[m])
      BY <2>1
    <2> QED
      BY <1>5, <2>1, <2>2
  <1>9. \A q \in Queries : Screened(agent[q])' /\ Reachable(agent[q])'
    <2> SUFFICES ASSUME NEW q \in Queries PROVE Screened(agent[q])' /\ Reachable(agent[q])'
      OBVIOUS
    <2>1. q \in Dns!Agents /\ Screened(agent[q]) /\ Reachable(agent[q])
      BY DEF Dns!Agents, DnsKeeps
    <2> HIDE DEF Freed
    <2>2. CASE Freed(q)
      BY <1>1, <1>5, <2>1, <2>2 DEF Screened, Reachable, Dns!InForce, BeforePolicy
    <2>3. CASE ~Freed(q)
      BY <1>1, <1>5, <2>1, <2>3 DEF Screened, Reachable, Dns!InForce
    <2> QED
      BY <2>2, <2>3
  <1>10. /\ rules' \in RuleSets /\ filterOn' \in BOOLEAN /\ cache' \in [Names -> CacheRecord]
         /\ Dns!GrantsFollowAllowlist'
    BY <1>1 DEF DnsKeeps, DnsTyped, Dns!GrantsFollowAllowlist
  <1> QED
    BY <1>6, <1>7, <1>8, <1>9, <1>10, DnsSeveral

LEMMA DnsReceives ==
  ASSUME DnsKeeps, NEW a \in Dns!Agents, Dns!Shared(a) \/ Dns!Direct(a)
  PROVE  DnsKeeps'
  <1> DEFINE n == agent[a].name
  <1>1. /\ agent[a].pc \in {"shared", "direct"}
        /\ UNCHANGED <<rules, filterOn, allow, flight, cache, grants>>
    BY DEF Dns!Shared, Dns!Direct, Dns!At, Dns!settings
  <1>2. n \in Names /\ agent[a].ans \in Dns!Answers \cup {None}
    BY <1>1 DEF DnsKeeps, DnsTyped, DnsRecord
  <1>3. cache[n].ans \in Dns!Answers
    BY <1>2 DEF DnsKeeps, DnsTyped, CacheRecord
  <1>4. \E ans \in Dns!Answers \cup {None} :
          agent' = [agent EXCEPT ![a].pc = "inspect", ![a].ans = ans]
    <2>1. CASE Dns!Shared(a)
      <3> DEFINE ans == IF agent[a].ans # "error" /\ Dns!Fresh(n) THEN cache[n].ans ELSE agent[a].ans
      <3>1. agent' = [agent EXCEPT ![a].pc = "inspect", ![a].ans = ans]
        BY <2>1, DnsAgent DEF Dns!Shared
      <3>2. ans \in Dns!Answers \cup {None}
        BY <1>2, <1>3
      <3> QED
        BY <3>1, <3>2
    <2>2. CASE Dns!Direct(a)
      BY <2>2 DEF Dns!Direct
    <2> QED
      BY <2>1, <2>2
  <1> QED
    BY <1>1, <1>4, DnsTakes

LEMMA DnsRefreshEnds ==
  ASSUME DnsKeeps, NEW a \in Dns!Agents, Dns!RefreshEnds(a)
  PROVE  DnsKeeps'
  <1>1. /\ agent[a].pc = "inspect" /\ UNCHANGED <<rules, filterOn, allow, flight, grants>>
        /\ agent' = [agent EXCEPT ![a] = Dns!Idle]
        /\ cache' = [cache EXCEPT ![agent[a].name].busy = FALSE]
    BY DEF Dns!RefreshEnds, Dns!At, Dns!settings
  <1>2. cache' \in [Names -> CacheRecord]
    BY <1>1 DEF DnsKeeps, DnsTyped, CacheRecord
  <1>3. Screened(Dns!Idle)
    BY DnsIdle DEF Screened, BeforePolicy
  <1>4. Dns!GrantsFollowAllowlist'
    BY <1>1 DEF DnsKeeps, Dns!GrantsFollowAllowlist
  <1> QED
    BY <1>1, <1>2, <1>3, <1>4, DnsIdle, DnsMoves

(* --- settings and clients ---                                            *)

LEMMA DnsAsk ==
  ASSUME DnsKeeps, NEW q \in Queries, NEW u \in Uids, NEW n \in Names, Dns!Ask(q, u, n)
  PROVE  DnsKeeps'
  <1> DEFINE held == Dns!InForce(rules, filterOn, n)
             r == [Dns!Idle EXCEPT !.pc = "allowlist", !.uid = u, !.name = n, !.held = held,
                                   !.same = TRUE]
  <1>1. /\ agent[q].pc = "idle" /\ UNCHANGED <<rules, filterOn, allow, flight, cache, grants>>
        /\ agent' = [agent EXCEPT ![q] = r]
    BY DEF Dns!Ask, Dns!At, Dns!settings
  <1>2. held \in SUBSET (UNION RuleSets)
    BY DEF Dns!InForce, DnsKeeps, DnsTyped
  <1> HIDE DEF held
  <1>3. /\ r \in DnsRecord /\ r.pc = "allowlist" /\ r.name = n /\ r.held = held /\ r.res # "addr"
    BY <1>2, DnsNone DEF DnsRecord, Dns!Idle
  <1> HIDE DEF r
  <1>4. Screened(r)
    BY <1>3 DEF Screened, BeforePolicy, held
  <1>5. cache' \in [Names -> CacheRecord] /\ Dns!GrantsFollowAllowlist' /\ q \in Dns!Agents
    BY <1>1 DEF DnsKeeps, DnsTyped, Dns!GrantsFollowAllowlist, Dns!Agents
  <1> QED
    BY <1>1, <1>3, <1>4, <1>5, DnsMoves

(* A new policy: what is held against a query is what was in force all     *)
(* along.                                                                  *)
LEMMA DnsHeld ==
  ASSUME DnsKeeps, NEW r \in RuleSets, NEW on \in BOOLEAN, agent' = Dns!Held(r, on),
         rules' = r, filterOn' = on, UNCHANGED <<allow, cache, flight, grants>>
  PROVE  DnsKeeps'
  <1>1. \A b \in Dns!Agents : agent[b] \in DnsRecord
    BY DEF DnsKeeps, DnsTyped
  <1>2. \A b \in Dns!Agents :
          /\ agent'[b] \in DnsRecord /\ agent'[b].pc = agent[b].pc /\ agent'[b].name = agent[b].name
          /\ agent'[b].res = agent[b].res /\ agent'[b].same = agent[b].same
          /\ agent'[b].held \subseteq agent[b].held
          /\ b \in Queries /\ Dns!Running(b)
               => agent'[b].held \subseteq Dns!InForce(r, on, agent[b].name)
    <2> TAKE b \in Dns!Agents
    <2>1. CASE b \in Queries /\ Dns!Running(b)
      <3> DEFINE h == agent[b].held \cap Dns!InForce(r, on, agent[b].name)
                 t == [agent[b] EXCEPT !.held = h]
      <3>1. agent'[b] = t
        BY <2>1 DEF Dns!Held
      <3>2. h \in SUBSET (UNION RuleSets) /\ h \subseteq agent[b].held
            /\ h \subseteq Dns!InForce(r, on, agent[b].name)
        BY <1>1 DEF DnsRecord
      <3> HIDE DEF h
      <3>3. /\ t \in DnsRecord /\ t.pc = agent[b].pc /\ t.name = agent[b].name
            /\ t.res = agent[b].res /\ t.same = agent[b].same /\ t.held = h
        BY <1>1, <3>2 DEF DnsRecord
      <3> QED
        BY <3>1, <3>2, <3>3
    <2>2. CASE ~(b \in Queries /\ Dns!Running(b))
      BY <1>1, <2>2 DEF Dns!Held
    <2> QED
      BY <2>1, <2>2
  <1>3. agent' \in [Dns!Agents -> DnsRecord]
    BY <1>2 DEF Dns!Held
  <1>4. \A n \in Names : flight'[n] # None => /\ agent'[flight'[n]].name = n
                                              /\ agent'[flight'[n]].pc \in {"lead", "led"}
    BY <1>2 DEF DnsKeeps, DnsTyped, Dns!TypeOK
  <1>5. \A q \in Queries : Screened(agent[q])'
    <2> SUFFICES ASSUME NEW q \in Queries PROVE Screened(agent[q])'
      OBVIOUS
    <2>1. Screened(agent[q]) /\ q \in Dns!Agents
      BY DEF DnsKeeps, Dns!Agents
    <2>2. agent'[q].res = "addr" => agent'[q].held = {}
      BY <1>2, <2>1 DEF Screened
    <2>3. agent'[q].pc \notin {"idle", "refresh", "done"}
            => agent'[q].held \subseteq Dns!InForce(rules', filterOn', agent'[q].name)
      BY <1>2, <2>1 DEF Dns!Running
    <2>4. agent'[q].pc \notin BeforePolicy => \A x \in agent'[q].held : x = Target[agent'[q].name]
      BY <1>2, <2>1 DEF Screened
    <2> QED
      BY <2>2, <2>3, <2>4 DEF Screened, Dns!InForce
  <1>6. \A q \in Queries : Reachable(agent[q])'
    BY <1>2 DEF DnsKeeps, Reachable, Dns!Agents
  <1>7. /\ cache' \in [Names -> CacheRecord] /\ Dns!GrantsFollowAllowlist'
        /\ flight' \in [Names -> Dns!Agents \cup {None}]
    BY DEF DnsKeeps, DnsTyped, Dns!GrantsFollowAllowlist
  <1> QED
    BY <1>3, <1>4, <1>5, <1>6, <1>7, DnsSeveral

(* The allowlist changes, or a grant runs out: an answer that relied on it *)
(* no longer counts.                                                       *)
LEMMA DnsRevokes ==
  ASSUME DnsKeeps, NEW B \in SUBSET Dns!Agents,
         agent' = [a \in Dns!Agents |-> IF a \in B THEN [agent[a] EXCEPT !.same = FALSE] ELSE agent[a]],
         UNCHANGED <<rules, filterOn, cache, flight>>, Dns!GrantsFollowAllowlist',
         \A q \in Queries \ B : Reachable(agent[q]) => Reachable(agent[q])'
  PROVE  DnsKeeps'
  <1>1. \A b \in Dns!Agents : agent[b] \in DnsRecord
    BY DEF DnsKeeps, DnsTyped
  <1>2. \A b \in Dns!Agents :
          /\ agent'[b] \in DnsRecord /\ agent'[b].pc = agent[b].pc /\ agent'[b].name = agent[b].name
          /\ agent'[b].res = agent[b].res /\ agent'[b].held = agent[b].held
          /\ b \in B => agent'[b].same = FALSE
    <2> TAKE b \in Dns!Agents
    <2>1. CASE b \in B
      <3> DEFINE t == [agent[b] EXCEPT !.same = FALSE]
      <3>1. agent'[b] = t
        BY <2>1
      <3>2. /\ t \in DnsRecord /\ t.pc = agent[b].pc /\ t.name = agent[b].name
            /\ t.res = agent[b].res /\ t.held = agent[b].held /\ t.same = FALSE
        BY <1>1 DEF DnsRecord
      <3> QED
        BY <3>1, <3>2
    <2>2. CASE b \notin B
      BY <1>1, <2>2
    <2> QED
      BY <2>1, <2>2
  <1>3. agent' \in [Dns!Agents -> DnsRecord]
    BY <1>2
  <1>4. \A n \in Names : flight'[n] # None => /\ agent'[flight'[n]].name = n
                                              /\ agent'[flight'[n]].pc \in {"lead", "led"}
    BY <1>2 DEF DnsKeeps, DnsTyped, Dns!TypeOK
  <1>5. \A q \in Queries : Screened(agent[q])'
    BY <1>2 DEF DnsKeeps, Screened, Dns!InForce, Dns!Agents
  <1>6. \A q \in Queries : Reachable(agent[q])'
    <2>1. \A q \in Queries \cap B : Reachable(agent[q])'
      BY <1>2 DEF Reachable
    <2> QED
      BY <2>1 DEF DnsKeeps
  <1>7. /\ cache' \in [Names -> CacheRecord] /\ flight' \in [Names -> Dns!Agents \cup {None}]
        /\ rules' \in RuleSets /\ filterOn' \in BOOLEAN
    BY DEF DnsKeeps, DnsTyped
  <1> QED
    BY <1>3, <1>4, <1>5, <1>6, <1>7, DnsSeveral

LEMMA DnsAllowlist ==
  ASSUME DnsKeeps, NEW w \in Allowlists, Dns!SetAppAllowlist(w)
  PROVE  DnsKeeps'
  <1>1. UNCHANGED <<rules, filterOn, cache, flight>> /\ Dns!GrantsFollowAllowlist'
    BY DEF Dns!SetAppAllowlist, Dns!GrantsFollowAllowlist
  <1>2. agent' = [a \in Dns!Agents |->
                    IF a \in Dns!Agents THEN [agent[a] EXCEPT !.same = FALSE] ELSE agent[a]]
    BY DEF Dns!SetAppAllowlist
  <1>3. \A q \in Queries \ Dns!Agents : Reachable(agent[q]) => Reachable(agent[q])'
    BY DEF Dns!Agents
  <1> QED
    BY <1>1, <1>2, <1>3, DnsRevokes

LEMMA DnsGrantExpires ==
  ASSUME DnsKeeps, NEW g \in grants, Dns!GrantExpires(g)
  PROVE  DnsKeeps'
  <1> DEFINE B == {a \in Dns!Agents : agent[a].pc \in {"refresh", "done"} /\ agent[a].name = g[2]}
  <1>1. UNCHANGED <<rules, filterOn, allow, cache, flight>> /\ grants' = grants \ {g}
    BY DEF Dns!GrantExpires, Dns!settings
  <1>2. Dns!GrantsFollowAllowlist'
    BY <1>1 DEF DnsKeeps, Dns!GrantsFollowAllowlist
  <1>3. agent' = [a \in Dns!Agents |-> IF a \in B THEN [agent[a] EXCEPT !.same = FALSE] ELSE agent[a]]
    BY DEF Dns!GrantExpires
  <1>4. ASSUME NEW q \in Queries \ B, Reachable(agent[q]) PROVE Reachable(agent[q])'
    <2>1. agent'[q] = agent[q] /\ q \in Dns!Agents
      BY <1>3 DEF Dns!Agents
    <2>2. agent[q].pc \in {"refresh", "done"} => agent[q].name # g[2]
      BY <2>1
    <2>3. \A s \in DOMAIN allow : agent[q].name # g[2] => <<s, agent[q].name>> # g
      OBVIOUS
    <2> QED
      BY <1>1, <1>4, <2>1, <2>2, <2>3 DEF Reachable
  <1> HIDE DEF B
  <1>5. B \subseteq Dns!Agents
    BY DEF B
  <1> QED
    BY <1>1, <1>2, <1>3, <1>4, <1>5, DnsRevokes

(* Settings a query reads once, and the cache itself.                      *)
LEMMA DnsCacheOnly ==
  ASSUME DnsKeeps, cache' \in [Names -> CacheRecord],
         UNCHANGED <<rules, filterOn, allow, flight, grants, agent>>
  PROVE  DnsKeeps'
  <1>1. DnsTyped'
    BY DEF DnsKeeps, DnsTyped
  <1>2. Dns!TypeOK'
    BY DEF DnsKeeps, Dns!TypeOK, CacheRecord
  <1>3. \A q \in Queries : Screened(agent[q])' /\ Reachable(agent[q])'
    BY DEF DnsKeeps, Screened, Reachable, Dns!InForce
  <1>4. Dns!GrantsFollowAllowlist'
    BY DEF DnsKeeps, Dns!GrantsFollowAllowlist
  <1> QED
    BY <1>1, <1>2, <1>3, <1>4 DEF DnsKeeps

LEMMA DnsCacheChanges ==
  ASSUME DnsKeeps,
         \/ \E n \in Names : Dns!Expire(n)
         \/ \E n \in Names, k \in {"none", "ip", "cname"} : Dns!SetRewriteRules(n, k)
         \/ Dns!UpdatePolicy \/ Dns!StoreFlags \/ Dns!ClearDNSCache
  PROVE  DnsKeeps'
  <1>1. Dns!NoEntry \in CacheRecord
    BY DEF Dns!NoEntry, CacheRecord, Dns!Answers
  <1>2. \A n \in Names : [cache[n] EXCEPT !.st = "stale"] \in CacheRecord
    BY DEF DnsKeeps, DnsTyped, CacheRecord
  <1>3. cache \in [Names -> CacheRecord]
    BY DEF DnsKeeps, DnsTyped
  <1>4. CASE \E n \in Names : Dns!Expire(n)
    <2>1. UNCHANGED <<rules, filterOn, allow, flight, grants, agent>>
      BY <1>4 DEF Dns!Expire, Dns!settings
    <2>2. cache' \in [Names -> CacheRecord]
      BY <1>1, <1>2, <1>3, <1>4 DEF Dns!Expire
    <2> QED
      BY <2>1, <2>2, DnsCacheOnly
  <1>5. CASE ~\E n \in Names : Dns!Expire(n)
    <2>1. UNCHANGED <<rules, filterOn, allow, flight, grants, agent>>
      BY <1>5 DEF Dns!SetRewriteRules, Dns!UpdatePolicy, Dns!StoreFlags, Dns!ClearDNSCache
    <2>2. cache' \in [Names -> CacheRecord]
      BY <1>1, <1>3, <1>5
         DEF Dns!SetRewriteRules, Dns!UpdatePolicy, Dns!StoreFlags, Dns!ClearDNSCache
    <2> QED
      BY <2>1, <2>2, DnsCacheOnly
  <1> QED
    BY <1>4, <1>5

LEMMA DnsNext == DnsKeeps /\ Dns!Next => DnsKeeps'
  <1> SUFFICES ASSUME DnsKeeps, Dns!Next PROVE DnsKeeps'
    OBVIOUS
  <1>1. ASSUME NEW a \in Dns!Agents, Dns!Step(a) PROVE DnsKeeps'
    BY <1>1, DnsGates, DnsPolicy, DnsAnswers, DnsMiss, DnsGrant, DnsRefresh, DnsJoin, DnsResolve,
       DnsFlightDone, DnsReceives, DnsRefreshEnds
       DEF Dns!Step
  <1>2. ASSUME NEW r \in RuleSets, Dns!ApplyRuleSnapshot(r) PROVE DnsKeeps'
    <2>1. /\ agent' = Dns!Held(r, filterOn) /\ rules' = r /\ filterOn' = filterOn
          /\ filterOn \in BOOLEAN /\ UNCHANGED <<allow, cache, flight, grants>>
      BY <1>2 DEF Dns!ApplyRuleSnapshot, DnsKeeps, DnsTyped
    <2> QED
      BY <2>1, DnsHeld
  <1>3. ASSUME Dns!SetFilterDNS PROVE DnsKeeps'
    <2>1. PICK on \in BOOLEAN : on = ~filterOn
      OBVIOUS
    <2>2. agent' = Dns!Held(rules, ~filterOn) /\ filterOn' = ~filterOn
      BY <1>3 DEF Dns!SetFilterDNS
    <2>3. agent' = Dns!Held(rules, on) /\ filterOn' = on
      BY <2>1, <2>2
    <2>4. rules \in RuleSets /\ rules' = rules /\ UNCHANGED <<allow, cache, flight, grants>>
      BY <1>3 DEF Dns!SetFilterDNS, DnsKeeps, DnsTyped
    <2> QED
      BY <2>3, <2>4, DnsHeld
  <1> QED
    BY <1>1, <1>2, <1>3, DnsAsk, DnsGrantExpires, DnsAllowlist, DnsCacheChanges DEF Dns!Next

LEMMA DnsGives ==
  DnsKeeps => /\ Dns!TypeOK /\ Dns!CloakedNeverServed /\ Dns!ResolvedMeansReachable
              /\ Dns!GrantsFollowAllowlist
  BY DEF DnsKeeps, Dns!CloakedNeverServed, Dns!ResolvedMeansReachable, Dns!At, Screened, Reachable
-----------------------------------------------------------------------------
(* The upstream resolver: proofs.                                          *)

LEMMA ResolverOperators ==
  /\ \A f : Resolver!Range(f) = Range(f)
  /\ \A S : Resolver!Cardinality(S) = Cardinality(S)
  /\ Resolver!P = {Provs[i] : i \in DOMAIN Provs}
  <1>1. \A f : Resolver!Range(f) = Range(f)
    BY DEF Resolver!Range, Range
  <1>2. \A S : Resolver!Cardinality(S) = Cardinality(S)
    BY DEF Resolver!Cardinality, Cardinality
  <1>3. Resolver!P = {Provs[i] : i \in DOMAIN Provs}
    BY DEF Resolver!P, Resolver!Range
  <1> QED
    BY <1>1, <1>2, <1>3

(* --- orders of providers ---                                             *)

LEMMA ProvsFacts ==
  /\ Provs \in Seq(Resolver!P) /\ Len(Provs) \in Nat \ {0} /\ IsInjective(Provs)
  /\ Resolver!P # {} /\ "none" \notin Resolver!P
  /\ Provs[1] \in Resolver!P /\ DOMAIN Provs = 1..Len(Provs)
  <1>1. /\ Provs \in Seq(STRING \ {"none"}) /\ Provs # <<>> /\ IsInjective(Provs)
    BY AndroidAssumption DEF AndroidAssumption
  <1>2. DOMAIN Provs = 1..Len(Provs) /\ Len(Provs) \in Nat \ {0}
    BY <1>1
  <1>3. \A i \in 1..Len(Provs) : Provs[i] \in Resolver!P /\ Provs[i] \in STRING \ {"none"}
    BY <1>1, <1>2, ResolverOperators
  <1>4. Provs \in [1..Len(Provs) -> Resolver!P]
    BY <1>1, <1>2, <1>3
  <1>5. Provs \in Seq(Resolver!P)
    BY <1>2, <1>4
  <1>6. "none" \notin Resolver!P
    BY <1>2, <1>3, ResolverOperators
  <1> QED
    BY <1>1, <1>2, <1>3, <1>5, <1>6

LEMMA ProvsCount ==
  IsFiniteSet(Resolver!P) /\ Cardinality(Resolver!P) = Len(Provs)
  <1> DEFINE n == Len(Provs)
  <1>1. n \in Nat \ {0} /\ DOMAIN Provs = 1..n /\ IsInjective(Provs) /\ Provs \in [1..n -> Resolver!P]
    BY ProvsFacts
  <1>2. Provs \in Bijection(1..n, Resolver!P)
    BY <1>1, ResolverOperators DEF Bijection, Injection, Surjection, IsInjective
  <1>3. IsFiniteSet(1..n) /\ Cardinality(1..n) = n
    BY <1>1, FS_Interval
  <1>4. ExistsBijection(1..n, Resolver!P)
    BY <1>2 DEF ExistsBijection
  <1> HIDE DEF n
  <1> QED
    BY <1>3, <1>4, FS_Bijection DEF n

(* A schedule that names everyone names everyone once.                     *)
LEMMA PermsFacts ==
  ASSUME NEW o \in Resolver!Perms
  PROVE  o \in Seq(Resolver!P) /\ Range(o) = Resolver!P /\ IsInjective(o)
  <1> DEFINE n == Len(Provs)
  <1>1. n \in Nat \ {0} /\ o \in [1..n -> Resolver!P] /\ Range(o) = Resolver!P
    BY ProvsFacts, ResolverOperators DEF Resolver!Perms
  <1>2. o \in Seq(Resolver!P)
    BY <1>1
  <1>3. IsFiniteSet(1..n) /\ Cardinality(1..n) = n
    BY <1>1, FS_Interval
  <1>4. o \in Surjection(1..n, Resolver!P)
    BY <1>1 DEF Surjection, Range
  <1>5. Cardinality(1..n) = Cardinality(Resolver!P)
    BY <1>3, ProvsCount
  <1> HIDE DEF n
  <1>6. o \in Injection(1..n, Resolver!P)
    BY <1>3, <1>4, <1>5, FS_SurjSameCardinalityImpliesInj
  <1> QED
    BY <1>1, <1>2, <1>6 DEF Injection, IsInjective

LEMMA OrderPops ==
  ASSUME NEW S, NEW o \in Seq(S), o # <<>>
  PROVE  /\ Head(o) \in S /\ Tail(o) \in Seq(S) /\ Range(o) = {Head(o)} \cup Range(Tail(o))
         /\ IsInjective(o) => IsInjective(Tail(o)) /\ Head(o) \notin Range(Tail(o))
  <1>1. /\ Head(o) \in S /\ Tail(o) \in Seq(S) /\ Len(Tail(o)) = Len(o) - 1
        /\ \A i \in 1..Len(Tail(o)) : Tail(o)[i] = o[i + 1]
    BY HeadTailProperties
  <1>2. /\ Len(o) \in Nat \ {0} /\ DOMAIN o = 1..Len(o) /\ DOMAIN Tail(o) = 1..(Len(o) - 1)
        /\ Head(o) = o[1]
    BY <1>1
  <1>3. \A i \in 1..Len(o) : i = 1 \/ (i - 1 \in 1..(Len(o) - 1) /\ (i - 1) + 1 = i)
    BY <1>2
  <1>4. \A i \in 1..(Len(o) - 1) : i + 1 \in 1..Len(o) /\ i + 1 # 1
    BY <1>2
  <1>5. \A i \in 1..(Len(o) - 1) : Tail(o)[i] = o[i + 1]
    BY <1>1
  <1>6. ASSUME NEW i \in 1..Len(o) PROVE o[i] = Head(o) \/ o[i] \in Range(Tail(o))
    <2>1. CASE i = 1
      BY <1>2, <2>1
    <2>2. CASE i # 1
      <3> DEFINE k == i - 1
      <3>1. k \in 1..(Len(o) - 1) /\ k + 1 = i
        BY <1>3, <2>2
      <3>2. Tail(o)[k] = o[i]
        BY <1>5, <3>1
      <3>3. k \in DOMAIN Tail(o)
        BY <1>2, <3>1
      <3> HIDE DEF k
      <3> QED
        BY <3>2, <3>3 DEF Range
    <2> QED
      BY <2>1, <2>2
  <1>7. \A i \in 1..(Len(o) - 1) : Tail(o)[i] \in Range(o)
    BY <1>2, <1>4, <1>5 DEF Range
  <1>8. Head(o) \in Range(o)
    BY <1>2 DEF Range
  <1>9. Range(o) = {Head(o)} \cup Range(Tail(o))
    BY <1>2, <1>6, <1>7, <1>8 DEF Range
  <1>10. ASSUME IsInjective(o) PROVE IsInjective(Tail(o)) /\ Head(o) \notin Range(Tail(o))
    <2>1. \A i, j \in 1..(Len(o) - 1) : Tail(o)[i] = Tail(o)[j] => i + 1 = j + 1
      BY <1>2, <1>4, <1>5, <1>10 DEF IsInjective
    <2>2. \A i \in 1..(Len(o) - 1) : Tail(o)[i] # o[1]
      BY <1>2, <1>4, <1>5, <1>10 DEF IsInjective
    <2>3. \A i, j \in 1..(Len(o) - 1) : i + 1 = j + 1 => i = j
      OBVIOUS
    <2> QED
      BY <1>2, <2>1, <2>2, <2>3 DEF IsInjective, Range
  <1> QED
    BY <1>1, <1>9, <1>10

LEMMA EmptyOrder == Range(<<>>) = {} /\ IsInjective(<<>>)
  BY DEF Range, IsInjective

(* --- pins ---                                                            *)

LEMMA PinsFinite ==
  ASSUME NEW s
  PROVE  /\ IsFiniteSet(QueryPins(s)) /\ IsFiniteSet(AttemptPins(s))
         /\ Cardinality(QueryPins(s)) \in Nat /\ Cardinality(AttemptPins(s)) \in Nat
  <1>1. IsFiniteSet(Lookups)
    BY AndroidAssumption DEF AndroidAssumption
  <1>2. IsFiniteSet(Lookups \X Resolver!P)
    BY <1>1, ProvsCount, FS_Product
  <1>3. QueryPins(s) \in SUBSET Lookups /\ AttemptPins(s) \in SUBSET (Lookups \X Resolver!P)
    BY DEF QueryPins, AttemptPins
  <1>4. IsFiniteSet(QueryPins(s)) /\ IsFiniteSet(AttemptPins(s))
    BY <1>1, <1>2, <1>3, FS_Subset
  <1> QED
    BY <1>4, FS_CardinalityType

(* An attempt on the network pins its snapshot, itself or by its query.    *)
LEMMA PinnedInUse ==
  ASSUME ResolverKeeps, NEW q \in Lookups, NEW p \in Resolver!P, Resolver!Busy(att[q][p].pc)
  PROVE  query[q].s \in Resolver!Snaps /\ snap[query[q].s].active > 0 /\ ~snap[query[q].s].closed
  <1> DEFINE s == query[q].s
  <1>1. s \in Resolver!Snaps
    BY DEF ResolverKeeps, AttemptPlace, Resolver!Busy
  <1>2. QueryPins(s) # {} \/ AttemptPins(s) # {}
    <2>1. CASE att[q][p].pin
      <3>1. <<q, p>> \in AttemptPins(s)
        BY <2>1 DEF AttemptPins, Holding
      <3> QED
        BY <3>1
    <2>2. CASE ~att[q][p].pin
      <3>1. q \in QueryPins(s)
        BY <2>2 DEF QueryPins, ResolverKeeps, AttemptPlace, Ready
      <3> QED
        BY <3>1
    <2> QED
      BY <2>1, <2>2
  <1>3. Cardinality(QueryPins(s)) # 0 \/ Cardinality(AttemptPins(s)) # 0
    BY <1>2, PinsFinite, FS_EmptySet
  <1>4. snap[s].active > 0
    BY <1>1, <1>3, PinsFinite DEF ResolverKeeps, Pinned
  <1> QED
    BY <1>1, <1>4 DEF ResolverKeeps, Pinned

LEMMA ResolverGives ==
  ResolverKeeps => Resolver!TypeOK /\ Resolver!InUseNotClosed /\ Resolver!FailedMeansAllTried
  <1> SUFFICES ASSUME ResolverKeeps
               PROVE  Resolver!TypeOK /\ Resolver!InUseNotClosed /\ Resolver!FailedMeansAllTried
    OBVIOUS
  <1>1. \A s \in Resolver!Snaps : snap[s].idle \in 0..MaxIdle
    BY DEF ResolverKeeps, ResolverTyped, SnapRecord
  <1>2. \A s \in Resolver!Snaps : snap[s].active = Cardinality(QueryPins(s)) + Cardinality(AttemptPins(s))
    BY DEF ResolverKeeps, Pinned
  <1>3. Resolver!TypeOK
    BY <1>1, <1>2, ResolverOperators
       DEF Resolver!TypeOK, QueryPins, AttemptPins, Ready, Holding
  <1>4. Resolver!InUseNotClosed
    BY PinnedInUse DEF Resolver!InUseNotClosed
  <1>5. Resolver!FailedMeansAllTried
    BY DEF ResolverKeeps, Everyone, Resolver!FailedMeansAllTried
  <1> QED
    BY <1>3, <1>4, <1>5

LEMMA ResolverUnchanged == ResolverKeeps /\ UNCHANGED resolverVars => ResolverKeeps'
  <1> SUFFICES ASSUME ResolverKeeps, UNCHANGED resolverVars PROVE ResolverKeeps'
    OBVIOUS
  <1>1. UNCHANGED <<cur, made, snap, retiring, query, att>>
    BY DEF resolverVars
  <1>2. \A s : QueryPins(s)' = QueryPins(s) /\ AttemptPins(s)' = AttemptPins(s)
    BY <1>1 DEF QueryPins, AttemptPins
  <1>3. Pinned'
    BY <1>1, <1>2 DEF ResolverKeeps, Pinned
  <1> QED
    BY <1>1, <1>3 DEF ResolverKeeps, ResolverTyped, Everyone

LEMMA ResolverInit == Resolver!Init => ResolverKeeps
  <1> SUFFICES ASSUME Resolver!Init PROVE ResolverKeeps
    OBVIOUS
  <1>1. Resolver!NoQuery \in QueryRecord /\ Resolver!NoAtt \in AttemptRecord
    <2>1. MaxSnaps \in Nat /\ <<>> \in Seq(Resolver!P)
      BY AndroidAssumption DEF AndroidAssumption
    <2> QED
      BY <2>1 DEF Resolver!NoQuery, Resolver!NoAtt, QueryRecord, AttemptRecord, Resolver!NoProv
  <1>2. Resolver!NoSnap \in SnapRecord
    <2>1. MaxIdle \in Nat
      BY AndroidAssumption DEF AndroidAssumption
    <2> QED
      BY <2>1 DEF Resolver!NoSnap, SnapRecord
  <1>3. ResolverTyped
    <2>1. MaxSnaps \in Nat
      BY AndroidAssumption DEF AndroidAssumption
    <2> QED
      BY <1>1, <1>2, <2>1 DEF Resolver!Init, ResolverTyped
  <1>4. \A s : QueryPins(s) = {} /\ AttemptPins(s) = {}
    BY DEF QueryPins, AttemptPins, Resolver!Init, Resolver!NoQuery, Resolver!NoAtt, Ready, Holding
  <1>5. Pinned
    <2>1. \A s : Cardinality(QueryPins(s)) = 0 /\ Cardinality(AttemptPins(s)) = 0
      BY <1>4, FS_EmptySet
    <2>2. \A s \in Resolver!Snaps : snap[s].active = 0 /\ ~snap[s].closed
      BY DEF Resolver!Init, Resolver!NoSnap
    <2> QED
      BY <2>1, <2>2 DEF Pinned
  <1>6. \A q \in Lookups : QueryPlace(query[q]) /\ Everyone(query[q])
    BY DEF Resolver!Init, Resolver!NoQuery, QueryPlace, Everyone, Ready
  <1>7. \A q \in Lookups, p \in Resolver!P : AttemptPlace(query[q], att[q][p], p)
    BY DEF Resolver!Init, Resolver!NoQuery, Resolver!NoAtt, AttemptPlace, Resolver!Busy
  <1> QED
    BY <1>3, <1>5, <1>6, <1>7 DEF ResolverKeeps

(* --- steps of one query ---                                              *)

(* One query and its attempts change: what it pinned, and what it pins.    *)
LEMMA PinsMove ==
  ASSUME ResolverKeeps, NEW q \in Lookups, NEW r \in QueryRecord,
         NEW row \in [Resolver!P -> AttemptRecord],
         query' = [query EXCEPT ![q] = r], att' = [att EXCEPT ![q] = row],
         NEW s
  PROVE  /\ \A k \in Lookups : k \in QueryPins(s)' <=>
              IF k = q THEN r.s = s /\ r.pc \notin Ready ELSE k \in QueryPins(s)
         /\ \A k \in Lookups, p \in Resolver!P : <<k, p>> \in AttemptPins(s)' <=>
              IF k = q THEN r.s = s /\ Holding(row[p]) ELSE <<k, p>> \in AttemptPins(s)
  <1>1. \A k \in Lookups : /\ query'[k] = IF k = q THEN r ELSE query[k]
                           /\ att'[k] = IF k = q THEN row ELSE att[k]
    BY DEF ResolverKeeps, ResolverTyped
  <1>2. \A k \in Lookups : k \in QueryPins(s)' <=> query'[k].s = s /\ query'[k].pc \notin Ready
    BY DEF QueryPins
  <1>3. \A k \in Lookups : k \in QueryPins(s) <=> query[k].s = s /\ query[k].pc \notin Ready
    BY DEF QueryPins
  <1>4. \A k \in Lookups, p \in Resolver!P :
          <<k, p>> \in AttemptPins(s)' <=> query'[k].s = s /\ Holding(att'[k][p])
    BY DEF AttemptPins, Holding
  <1>5. \A k \in Lookups, p \in Resolver!P :
          <<k, p>> \in AttemptPins(s) <=> query[k].s = s /\ Holding(att[k][p])
    BY DEF AttemptPins, Holding
  <1> QED
    BY <1>1, <1>2, <1>3, <1>4, <1>5

LEMMA PinSets ==
  ASSUME NEW s
  PROVE  /\ QueryPins(s) \subseteq Lookups /\ QueryPins(s)' \subseteq Lookups
         /\ AttemptPins(s) \subseteq Lookups \X Resolver!P
         /\ AttemptPins(s)' \subseteq Lookups \X Resolver!P
  BY DEF QueryPins, AttemptPins

(* Of the attempts of q, only the one at p may start or stop pinning s.    *)
OthersStay(q, p, r, row, s) ==
  \A o \in Resolver!P \ {p} :
    (r.s = s /\ Holding(row[o])) <=> (query[q].s = s /\ Holding(att[q][o]))

(* The pins of a query, before and after.                                  *)
LEMMA QueryPinsMove ==
  ASSUME ResolverKeeps, NEW q \in Lookups, NEW r \in QueryRecord,
         NEW row \in [Resolver!P -> AttemptRecord],
         query' = [query EXCEPT ![q] = r], att' = [att EXCEPT ![q] = row], NEW s
  PROVE  /\ (query[q].s = s /\ query[q].pc \notin Ready) /\ ~(r.s = s /\ r.pc \notin Ready)
              => Cardinality(QueryPins(s)') = Cardinality(QueryPins(s)) - 1
         /\ (r.s = s /\ r.pc \notin Ready) /\ ~(query[q].s = s /\ query[q].pc \notin Ready)
              => Cardinality(QueryPins(s)') = Cardinality(QueryPins(s)) + 1
         /\ ((r.s = s /\ r.pc \notin Ready) <=> (query[q].s = s /\ query[q].pc \notin Ready))
              => Cardinality(QueryPins(s)') = Cardinality(QueryPins(s))
  <1> DEFINE before == query[q].s = s /\ query[q].pc \notin Ready
             after  == r.s = s /\ r.pc \notin Ready
             S == QueryPins(s)
             T == QueryPins(s)'
  <1>1. q \in S <=> before
    BY DEF QueryPins
  <1>2. /\ \A k \in Lookups : k \in T <=> IF k = q THEN after ELSE k \in S
        /\ S \subseteq Lookups /\ T \subseteq Lookups /\ IsFiniteSet(S)
    BY PinsMove, PinSets, PinsFinite
  <1> HIDE DEF before, after, S, T
  <1>3. /\ before /\ ~after => T = S \ {q}
        /\ after /\ ~before => T = S \cup {q}
        /\ (before <=> after) => T = S
    BY <1>1, <1>2
  <1>4. /\ before /\ ~after => Cardinality(T) = Cardinality(S) - 1
        /\ after /\ ~before => Cardinality(T) = Cardinality(S) + 1
        /\ (after <=> before) => Cardinality(T) = Cardinality(S)
    BY <1>1, <1>2, <1>3, FS_AddElement, FS_RemoveElement
  <1> QED
    BY <1>4 DEF before, after, S, T

(* The pin of an attempt, before and after.                                *)
LEMMA AttemptPinsMove ==
  ASSUME ResolverKeeps, NEW q \in Lookups, NEW r \in QueryRecord,
         NEW row \in [Resolver!P -> AttemptRecord],
         query' = [query EXCEPT ![q] = r], att' = [att EXCEPT ![q] = row], NEW s,
         NEW p \in Resolver!P,
         OthersStay(q, p, r, row, s)
  PROVE  /\ (query[q].s = s /\ Holding(att[q][p])) /\ ~(r.s = s /\ Holding(row[p]))
              => Cardinality(AttemptPins(s)') = Cardinality(AttemptPins(s)) - 1
         /\ (r.s = s /\ Holding(row[p])) /\ ~(query[q].s = s /\ Holding(att[q][p]))
              => Cardinality(AttemptPins(s)') = Cardinality(AttemptPins(s)) + 1
  <1> DEFINE before == query[q].s = s /\ Holding(att[q][p])
             after  == r.s = s /\ Holding(row[p])
             S == AttemptPins(s)
             T == AttemptPins(s)'
             x == <<q, p>>
  <1>1. \A o \in Resolver!P : <<q, o>> \in S <=> query[q].s = s /\ Holding(att[q][o])
    BY DEF AttemptPins, Holding
  <1>2. /\ \A k \in Lookups, o \in Resolver!P :
             <<k, o>> \in T <=> IF k = q THEN r.s = s /\ Holding(row[o]) ELSE <<k, o>> \in S
        /\ S \subseteq Lookups \X Resolver!P /\ T \subseteq Lookups \X Resolver!P /\ IsFiniteSet(S)
    BY PinsMove, PinSets, PinsFinite
  <1> HIDE DEF S, T
  <1>3. \A k \in Lookups, o \in Resolver!P :
          <<k, o>> \in T <=> IF <<k, o>> = x THEN after ELSE <<k, o>> \in S
    BY <1>1, <1>2 DEF OthersStay
  <1>4. x \in S <=> before
    BY <1>1
  <1>5. x \in Lookups \X Resolver!P /\ (x \in T <=> after)
    BY <1>3
  <1> HIDE DEF before, after, x
  <1>6. \A y \in Lookups \X Resolver!P : y \in T <=> IF y = x THEN after ELSE y \in S
    BY <1>3
  <1>7. /\ before /\ ~after => T = S \ {x}
        /\ after /\ ~before => T = S \cup {x}
        /\ (before <=> after) => T = S
    BY <1>2, <1>4, <1>5, <1>6
  <1>8. /\ before /\ ~after => Cardinality(T) = Cardinality(S) - 1
        /\ after /\ ~before => Cardinality(T) = Cardinality(S) + 1
        /\ (after <=> before) => Cardinality(T) = Cardinality(S)
    BY <1>2, <1>4, <1>7, FS_AddElement, FS_RemoveElement
  <1> QED
    BY <1>8 DEF before, after, S, T, x

LEMMA AttemptPinTaken ==
  ASSUME ResolverKeeps, NEW q \in Lookups, NEW r \in QueryRecord,
         NEW row \in [Resolver!P -> AttemptRecord],
         query' = [query EXCEPT ![q] = r], att' = [att EXCEPT ![q] = row], NEW s,
         NEW p \in Resolver!P, OthersStay(q, p, r, row, s),
         r.s = s /\ Holding(row[p]), ~(query[q].s = s /\ Holding(att[q][p]))
  PROVE  Cardinality(AttemptPins(s)') = Cardinality(AttemptPins(s)) + 1
  BY AttemptPinsMove

LEMMA AttemptPinGiven ==
  ASSUME ResolverKeeps, NEW q \in Lookups, NEW r \in QueryRecord,
         NEW row \in [Resolver!P -> AttemptRecord],
         query' = [query EXCEPT ![q] = r], att' = [att EXCEPT ![q] = row], NEW s,
         NEW p \in Resolver!P, OthersStay(q, p, r, row, s),
         query[q].s = s /\ Holding(att[q][p]), ~(r.s = s /\ Holding(row[p]))
  PROVE  Cardinality(AttemptPins(s)') = Cardinality(AttemptPins(s)) - 1
  BY AttemptPinsMove

(* ... and attempts that pin what they pinned.                             *)
LEMMA AttemptPinsStay ==
  ASSUME ResolverKeeps, NEW q \in Lookups, NEW r \in QueryRecord,
         NEW row \in [Resolver!P -> AttemptRecord],
         query' = [query EXCEPT ![q] = r], att' = [att EXCEPT ![q] = row], NEW s,
         NEW p \in Resolver!P, OthersStay(q, p, r, row, s),
         (r.s = s /\ Holding(row[p])) <=> (query[q].s = s /\ Holding(att[q][p]))
  PROVE  AttemptPins(s)' = AttemptPins(s)
  <1> DEFINE S == AttemptPins(s)
             T == AttemptPins(s)'
  <1>1. \A o \in Resolver!P : <<q, o>> \in S <=> query[q].s = s /\ Holding(att[q][o])
    BY DEF AttemptPins, Holding
  <1>2. /\ \A k \in Lookups, o \in Resolver!P :
             <<k, o>> \in T <=> IF k = q THEN r.s = s /\ Holding(row[o]) ELSE <<k, o>> \in S
        /\ S \subseteq Lookups \X Resolver!P /\ T \subseteq Lookups \X Resolver!P
    BY PinsMove, PinSets
  <1> HIDE DEF S, T
  <1>3. \A k \in Lookups, o \in Resolver!P : <<k, o>> \in T <=> <<k, o>> \in S
    BY <1>1, <1>2 DEF OthersStay
  <1>4. \A x \in S : x \in T
    BY <1>2, <1>3
  <1>5. \A x \in T : x \in S
    BY <1>2, <1>3
  <1>6. S = T
    BY <1>4, <1>5
  <1> QED
    BY <1>6 DEF S, T

(* One query and its attempts move.                                        *)
LEMMA ResolverMoves ==
  ASSUME ResolverKeeps, NEW q \in Lookups, NEW r \in QueryRecord,
         NEW row \in [Resolver!P -> AttemptRecord],
         query' = [query EXCEPT ![q] = r], att' = [att EXCEPT ![q] = row],
         UNCHANGED <<cur, made, retiring>>, snap' \in [Resolver!Snaps -> SnapRecord],
         \A s \in Resolver!Snaps : snap'[s].retired = snap[s].retired,
         \A s \in Resolver!Snaps :
           /\ snap'[s].active = Cardinality(QueryPins(s)') + Cardinality(AttemptPins(s)')
           /\ snap'[s].closed => snap'[s].retired /\ snap'[s].active = 0,
         QueryPlace(r), Everyone(r), \A p \in Resolver!P : AttemptPlace(r, row[p], p)
  PROVE  ResolverKeeps'
  <1>1. \A k \in Lookups : /\ query'[k] = IF k = q THEN r ELSE query[k]
                           /\ att'[k] = IF k = q THEN row ELSE att[k]
    BY DEF ResolverKeeps, ResolverTyped
  <1>2. ResolverTyped'
    BY <1>1 DEF ResolverKeeps, ResolverTyped
  <1>3. Pinned'
    BY DEF Pinned
  <1>4. \A k \in Lookups : QueryPlace(query'[k]) /\ Everyone(query'[k]) /\ query'[k] \in QueryRecord
    BY <1>1 DEF ResolverKeeps, ResolverTyped
  <1>5. ASSUME NEW k \in Lookups PROVE Everyone(query[k])'
    <2>1. query'[k].s # 0 => query'[k].s \in Resolver!Snaps
      <3>1. query'[k].s \in 0..MaxSnaps /\ MaxSnaps \in Nat
        BY <1>4, AndroidAssumption DEF QueryRecord, AndroidAssumption
      <3> QED
        BY <3>1 DEF Resolver!Snaps
    <2>2. query'[k].pc \notin Ready => query'[k].s \in Resolver!Snaps
      BY <1>4 DEF QueryPlace
    <2> QED
      BY <1>4, <2>1, <2>2 DEF Everyone, Ready
  <1>6. \A k \in Lookups, p \in Resolver!P : AttemptPlace(query'[k], att'[k][p], p)
    BY <1>1 DEF ResolverKeeps
  <1> QED
    BY <1>2, <1>3, <1>4, <1>5, <1>6 DEF ResolverKeeps

(* ... without a pin taken or given back.                                  *)
LEMMA ResolverSteps ==
  ASSUME ResolverKeeps, NEW q \in Lookups, NEW r \in QueryRecord,
         NEW row \in [Resolver!P -> AttemptRecord],
         query' = [query EXCEPT ![q] = r], att' = [att EXCEPT ![q] = row],
         UNCHANGED <<cur, made, retiring>>, snap' \in [Resolver!Snaps -> SnapRecord],
         \A s \in Resolver!Snaps : /\ snap'[s].active = snap[s].active
                                   /\ snap'[s].retired = snap[s].retired
                                   /\ snap'[s].closed = snap[s].closed,
         r.s = query[q].s, r.pc \in Ready <=> query[q].pc \in Ready,
         \A p \in Resolver!P : Holding(row[p]) <=> Holding(att[q][p]),
         QueryPlace(r), Everyone(r), \A p \in Resolver!P : AttemptPlace(r, row[p], p)
  PROVE  ResolverKeeps'
  <1>1. ASSUME NEW s \in Resolver!Snaps
        PROVE  /\ snap'[s].active = Cardinality(QueryPins(s)') + Cardinality(AttemptPins(s)')
               /\ snap'[s].closed => snap'[s].retired /\ snap'[s].active = 0
    <2>1. (r.s = s /\ r.pc \notin Ready) <=> (query[q].s = s /\ query[q].pc \notin Ready)
      OBVIOUS
    <2>2. Cardinality(QueryPins(s)') = Cardinality(QueryPins(s))
      BY <2>1, QueryPinsMove
    <2>3. PICK p \in Resolver!P : TRUE
      BY ProvsFacts
    <2>4. AttemptPins(s)' = AttemptPins(s)
      <3>1. OthersStay(q, p, r, row, s)
        BY DEF OthersStay
      <3>2. (r.s = s /\ Holding(row[p])) <=> (query[q].s = s /\ Holding(att[q][p]))
        BY <2>3
      <3> QED
        BY <2>3, <3>1, <3>2, AttemptPinsStay
    <2> QED
      BY <2>2, <2>4 DEF ResolverKeeps, Pinned
  <1> QED
    BY <1>1, ResolverMoves

(* ... and at most one attempt of it changes.                              *)
LEMMA ResolverOne ==
  ASSUME ResolverKeeps, NEW q \in Lookups, NEW r \in QueryRecord, NEW p \in Resolver!P,
         NEW a \in AttemptRecord,
         query' = [query EXCEPT ![q] = r], att' = [att EXCEPT ![q][p] = a],
         UNCHANGED <<cur, made, retiring>>, snap' \in [Resolver!Snaps -> SnapRecord],
         \A s \in Resolver!Snaps : /\ snap'[s].active = snap[s].active
                                   /\ snap'[s].retired = snap[s].retired
                                   /\ snap'[s].closed = snap[s].closed,
         r.s = query[q].s, r.pc \in Ready <=> query[q].pc \in Ready,
         Holding(a) <=> Holding(att[q][p]),
         QueryPlace(r), Everyone(r), AttemptPlace(r, a, p),
         \A o \in Resolver!P \ {p} : AttemptPlace(r, att[q][o], o)
  PROVE  ResolverKeeps'
  <1> DEFINE row == [att[q] EXCEPT ![p] = a]
  <1>1. att \in [Lookups -> [Resolver!P -> AttemptRecord]]
    BY DEF ResolverKeeps, ResolverTyped
  <1>2. /\ row \in [Resolver!P -> AttemptRecord]
        /\ \A o \in Resolver!P : row[o] = IF o = p THEN a ELSE att[q][o]
    BY <1>1
  <1>3. att' = [att EXCEPT ![q] = row]
    BY <1>1
  <1> HIDE DEF row
  <1>4. \A o \in Resolver!P : Holding(row[o]) <=> Holding(att[q][o])
    BY <1>2
  <1>5. \A o \in Resolver!P : AttemptPlace(r, row[o], o)
    BY <1>2
  <1> QED
    BY <1>2, <1>3, <1>4, <1>5, ResolverSteps

(* A query goes to its next step without asking anyone.                    *)
LEMMA QueryGoes ==
  ASSUME ResolverKeeps, NEW q \in Lookups, NEW r \in QueryRecord,
         query' = [query EXCEPT ![q] = r], UNCHANGED <<cur, made, snap, retiring, att>>,
         r.s = query[q].s, r.mode = query[q].mode, r.order = query[q].order,
         r.inflight = query[q].inflight, r.tried = query[q].tried,
         query[q].budget => r.budget, query[q].pc \notin Ready,
         r.pc \in {"seq", "loop", "win", "lose"},
         r.pc = "seq" => query[q].pc = "seq",
         r.pc = "loop" => query[q].pc = "init" /\ r.inflight # {},
         query[q].pc = "seq" /\ r.pc # "seq" => r.inflight = {},
         r.pc = "lose" => /\ query[q].pc \in {"seq", "init", "loop"} /\ r.inflight = {}
                          /\ r.order = <<>> \/ r.budget
  PROVE  ResolverKeeps'
  <1>1. /\ att[q] \in [Resolver!P -> AttemptRecord] /\ att' = [att EXCEPT ![q] = att[q]]
        /\ snap' \in [Resolver!Snaps -> SnapRecord]
    BY DEF ResolverKeeps, ResolverTyped
  <1>2. QueryPlace(r)
    BY DEF ResolverKeeps, QueryPlace, Ready
  <1>3. Everyone(r)
    BY EmptyOrder DEF ResolverKeeps, Everyone
  <1>4. \A p \in Resolver!P : AttemptPlace(r, att[q][p], p)
    BY DEF ResolverKeeps, AttemptPlace
  <1>5. r.pc \in Ready <=> query[q].pc \in Ready
    BY DEF Ready
  <1> QED
    BY <1>1, <1>2, <1>3, <1>4, <1>5, ResolverSteps

LEMMA QueryMoves ==
  ASSUME ResolverKeeps, NEW q \in Lookups,
         \/ Resolver!BudgetSpent(q) \/ Resolver!SeqExhausted(q) \/ Resolver!Decided(q)
         \/ Resolver!GraceOver(q) \/ Resolver!Exhausted(q)
  PROVE  ResolverKeeps'
  <1> DEFINE w == query[q]
  <1>1. w \in QueryRecord /\ query \in [Lookups -> QueryRecord]
    BY DEF ResolverKeeps, ResolverTyped
  <1>2. UNCHANGED <<cur, made, snap, retiring, att>>
    BY DEF Resolver!BudgetSpent, Resolver!SeqExhausted, Resolver!Decided, Resolver!GraceOver,
           Resolver!Exhausted
  <1>3. CASE Resolver!BudgetSpent(q)
    <2> DEFINE r == [w EXCEPT !.budget = TRUE]
    <2>1. query' = [query EXCEPT ![q] = r] /\ w.pc = "seq"
      BY <1>1, <1>3 DEF Resolver!BudgetSpent
    <2>2. /\ r \in QueryRecord /\ r.s = w.s /\ r.mode = w.mode /\ r.order = w.order
          /\ r.inflight = w.inflight /\ r.tried = w.tried /\ r.budget /\ r.pc = w.pc
      BY <1>1 DEF QueryRecord
    <2> HIDE DEF r
    <2> QED
      BY <1>2, <2>1, <2>2, QueryGoes DEF Ready
  <1>4. CASE Resolver!SeqExhausted(q) \/ Resolver!Exhausted(q)
    <2> DEFINE r == [w EXCEPT !.pc = "lose"]
    <2>1. /\ query' = [query EXCEPT ![q] = r] /\ w.pc \in {"seq", "loop"} /\ w.inflight = {}
          /\ w.order = <<>> \/ w.budget \/ w.pc = "loop"
      BY <1>1, <1>4 DEF Resolver!SeqExhausted, Resolver!Exhausted
    <2>2. /\ r \in QueryRecord /\ r.s = w.s /\ r.mode = w.mode /\ r.order = w.order
          /\ r.inflight = w.inflight /\ r.tried = w.tried /\ r.budget = w.budget /\ r.pc = "lose"
      BY <1>1 DEF QueryRecord
    <2>3. w.pc = "loop" => w.order = <<>>
      BY <2>1 DEF ResolverKeeps, QueryPlace
    <2> HIDE DEF r
    <2> QED
      BY <1>2, <2>1, <2>2, <2>3, QueryGoes DEF Ready
  <1>5. CASE Resolver!Decided(q) \/ Resolver!GraceOver(q)
    <2> DEFINE r == [w EXCEPT !.pc = "win", !.cancelled = TRUE]
    <2>1. query' = [query EXCEPT ![q] = r] /\ w.pc = "loop"
      BY <1>1, <1>5 DEF Resolver!Decided, Resolver!GraceOver, Resolver!PlainWins
    <2>2. /\ r \in QueryRecord /\ r.s = w.s /\ r.mode = w.mode /\ r.order = w.order
          /\ r.inflight = w.inflight /\ r.tried = w.tried /\ r.budget = w.budget /\ r.pc = "win"
      BY <1>1 DEF QueryRecord
    <2> HIDE DEF r
    <2> QED
      BY <1>2, <2>1, <2>2, QueryGoes DEF Ready
  <1> QED
    BY <1>3, <1>4, <1>5

(* --- sequential strategies ---                                           *)

LEMMA NoAttFacts ==
  /\ [Resolver!NoAtt EXCEPT !.pc = "start"] \in AttemptRecord
  /\ [Resolver!NoAtt EXCEPT !.pc = "start"].pc = "start"
  /\ ~[Resolver!NoAtt EXCEPT !.pc = "start"].pin
  /\ [Resolver!NoAtt EXCEPT !.pc = "start", !.pin = TRUE] \in AttemptRecord
  /\ [Resolver!NoAtt EXCEPT !.pc = "start", !.pin = TRUE].pc = "start"
  /\ [Resolver!NoAtt EXCEPT !.pc = "start", !.pin = TRUE].pin
  /\ Resolver!NoAtt \in AttemptRecord /\ Resolver!NoAtt.pc = "none" /\ ~Holding(Resolver!NoAtt)
  BY DEF Resolver!NoAtt, AttemptRecord, Holding

LEMMA QueryAsks ==
  ASSUME ResolverKeeps, NEW q \in Lookups, Resolver!AskNext(q)
  PROVE  ResolverKeeps'
  <1> DEFINE w == query[q]
             p == Head(w.order)
             a == [Resolver!NoAtt EXCEPT !.pc = "start"]
             r == [w EXCEPT !.inflight = {p}, !.order = Tail(@)]
  <1>1. w \in QueryRecord /\ query \in [Lookups -> QueryRecord]
    BY DEF ResolverKeeps, ResolverTyped
  <1>2. /\ w.pc = "seq" /\ w.inflight = {} /\ w.order # <<>> /\ UNCHANGED <<cur, made, snap, retiring>>
        /\ query' = [query EXCEPT ![q] = r] /\ att' = [att EXCEPT ![q][p] = a]
    BY <1>1 DEF Resolver!AskNext, Resolver!First
  <1>3. p \in Resolver!P /\ Tail(w.order) \in Seq(Resolver!P) /\ Range(w.order) = {p} \cup Range(Tail(w.order))
    <2>1. w.order \in Seq(Resolver!P)
      BY <1>1 DEF QueryRecord
    <2> QED
      BY <1>2, <2>1, OrderPops
  <1>4. a \in AttemptRecord /\ a.pc = "start" /\ ~a.pin
    BY NoAttFacts
  <1> HIDE DEF p, a
  <1>5. /\ r \in QueryRecord /\ r.s = w.s /\ r.mode = w.mode /\ r.order = Tail(w.order)
        /\ r.inflight = {p} /\ r.tried = w.tried /\ r.pc = "seq"
    BY <1>1, <1>2, <1>3 DEF QueryRecord
  <1> HIDE DEF r
  <1>6. QueryPlace(w) /\ Everyone(w) /\ \A o \in Resolver!P : AttemptPlace(w, att[q][o], o)
    BY DEF ResolverKeeps
  <1>7. QueryPlace(r)
    BY <1>2, <1>5, <1>6 DEF QueryPlace, Ready
  <1>8. Everyone(r)
    BY <1>2, <1>3, <1>5, <1>6 DEF Everyone
  <1>9. Resolver!Sequential(w.mode) /\ w.s \in Resolver!Snaps
    BY <1>2, <1>6 DEF QueryPlace, Ready
  <1>10. AttemptPlace(r, a, p)
    BY <1>4, <1>5, <1>9 DEF AttemptPlace
  <1>11. \A o \in Resolver!P \ {p} : AttemptPlace(r, att[q][o], o)
    BY <1>2, <1>5, <1>6 DEF AttemptPlace
  <1>12. ~Holding(a) /\ ~Holding(att[q][p])
    <2>1. ~Holding(a)
      BY <1>4 DEF Holding
    <2>2. att[q][p].pc = "none" \/ ~att[q][p].pin
      BY <1>3, <1>6, <1>9 DEF AttemptPlace
    <2> QED
      BY <2>1, <2>2 DEF Holding, Resolver!Busy
  <1>13. snap' \in [Resolver!Snaps -> SnapRecord] /\ snap' = snap
    BY <1>2 DEF ResolverKeeps, ResolverTyped
  <1>14. r.pc \in Ready <=> w.pc \in Ready
    BY <1>2, <1>5
  <1> QED
    BY <1>2, <1>3, <1>4, <1>5, <1>7, <1>8, <1>10, <1>11, <1>12, <1>13, <1>14, ResolverOne

LEMMA QueryReceives ==
  ASSUME ResolverKeeps, NEW q \in Lookups, NEW p \in Resolver!P, Resolver!SeqResult(q, p)
  PROVE  ResolverKeeps'
  <1> DEFINE w == query[q]
             a == [att[q][p] EXCEPT !.pc = "released"]
             pc == IF att[q][p].ok THEN "win" ELSE "seq"
             r == [w EXCEPT !.inflight = {}, !.tried = @ \cup {p}, !.pc = pc]
  <1>1. /\ w \in QueryRecord /\ query \in [Lookups -> QueryRecord]
        /\ att[q][p] \in AttemptRecord /\ att \in [Lookups -> [Resolver!P -> AttemptRecord]]
    BY DEF ResolverKeeps, ResolverTyped
  <1>2. /\ w.pc = "seq" /\ p \in w.inflight /\ att[q][p].pc = "sent"
        /\ UNCHANGED <<cur, made, snap, retiring>>
        /\ query' = [query EXCEPT ![q] = r] /\ att' = [att EXCEPT ![q][p] = a]
    BY <1>1 DEF Resolver!SeqResult
  <1>3. a \in AttemptRecord /\ a.pc = "released" /\ a.pin = att[q][p].pin
    BY <1>1 DEF AttemptRecord
  <1>4. pc \in {"win", "seq"}
    OBVIOUS
  <1> HIDE DEF a, pc
  <1>5. /\ r \in QueryRecord /\ r.s = w.s /\ r.mode = w.mode /\ r.order = w.order
        /\ r.inflight = {} /\ r.tried = w.tried \cup {p} /\ r.pc = pc
    BY <1>1, <1>2, <1>4 DEF QueryRecord
  <1> HIDE DEF r
  <1>6. QueryPlace(w) /\ Everyone(w) /\ \A o \in Resolver!P : AttemptPlace(w, att[q][o], o)
    BY DEF ResolverKeeps
  <1>7. w.inflight = {p} /\ Resolver!Sequential(w.mode) /\ w.s \in Resolver!Snaps
    BY <1>2, <1>6 DEF QueryPlace, Ready
  <1>8. QueryPlace(r)
    BY <1>4, <1>5, <1>7 DEF QueryPlace, Ready
  <1>9. Everyone(r)
    BY <1>2, <1>4, <1>5, <1>6, <1>7 DEF Everyone
  <1>10. AttemptPlace(r, a, p)
    BY <1>2, <1>3, <1>4, <1>5, <1>6, <1>7 DEF AttemptPlace, Resolver!Busy
  <1>11. \A o \in Resolver!P \ {p} : AttemptPlace(r, att[q][o], o)
    BY <1>2, <1>4, <1>5, <1>6, <1>7 DEF AttemptPlace
  <1>12. ~Holding(a) /\ ~Holding(att[q][p])
    BY <1>2, <1>3, <1>6, <1>7 DEF Holding, AttemptPlace, Resolver!Busy
  <1>13. snap' \in [Resolver!Snaps -> SnapRecord] /\ snap' = snap
    BY <1>2 DEF ResolverKeeps, ResolverTyped
  <1>14. r.pc \in Ready <=> w.pc \in Ready
    BY <1>2, <1>4, <1>5 DEF Ready
  <1> QED
    BY <1>2, <1>3, <1>5, <1>8, <1>9, <1>10, <1>11, <1>12, <1>13, <1>14, ResolverOne

(* --- one attempt ---                                                     *)

LEMMA AttemptGoes ==
  ASSUME ResolverKeeps, NEW q \in Lookups, NEW p \in Resolver!P, NEW a \in AttemptRecord,
         Resolver!Step(q, p, a), Resolver!Busy(att[q][p].pc), a.pin = att[q][p].pin,
         a.pc \in {"start", "tcp", "io", "put", "sent"},
         snap' \in [Resolver!Snaps -> SnapRecord],
         \A s \in Resolver!Snaps : /\ snap'[s].active = snap[s].active
                                   /\ snap'[s].retired = snap[s].retired
                                   /\ snap'[s].closed = snap[s].closed
  PROVE  ResolverKeeps'
  <1>1. /\ query[q] \in QueryRecord /\ query' = [query EXCEPT ![q] = query[q]]
        /\ att' = [att EXCEPT ![q][p] = a] /\ UNCHANGED <<cur, made, retiring>>
    BY DEF ResolverKeeps, ResolverTyped, Resolver!Step
  <1>2. /\ QueryPlace(query[q]) /\ Everyone(query[q])
        /\ \A o \in Resolver!P : AttemptPlace(query[q], att[q][o], o)
    BY DEF ResolverKeeps
  <1>3. Holding(a) <=> Holding(att[q][p])
    BY DEF Holding, Resolver!Busy
  <1>4. AttemptPlace(query[q], a, p)
    BY <1>2 DEF AttemptPlace, Resolver!Busy
  <1> QED
    BY <1>1, <1>2, <1>3, <1>4, ResolverOne

(* What an attempt sends.                                                  *)
LEMMA SentFacts ==
  ASSUME ResolverKeeps, NEW q \in Lookups, NEW p \in Resolver!P, NEW ok \in BOOLEAN
  PROVE  /\ Resolver!Sent(q, p, ok) \in AttemptRecord /\ Resolver!Sent(q, p, ok).pc = "sent"
         /\ Resolver!Sent(q, p, ok).pin = att[q][p].pin
  <1>1. att[q][p] \in AttemptRecord
    BY DEF ResolverKeeps, ResolverTyped
  <1> QED
    BY <1>1 DEF AttemptRecord, Resolver!Sent, Resolver!A

LEMMA AttemptAnswered ==
  ASSUME ResolverKeeps, NEW q \in Lookups, NEW p \in Resolver!P, Resolver!Busy(att[q][p].pc),
         Resolver!Answered(q, p) \/ Resolver!GiveUp(q, p)
  PROVE  ResolverKeeps'
  <1>1. UNCHANGED snap /\ \E ok \in BOOLEAN : Resolver!Step(q, p, Resolver!Sent(q, p, ok))
    BY DEF Resolver!Answered, Resolver!GiveUp
  <1>2. snap' \in [Resolver!Snaps -> SnapRecord]
    BY <1>1 DEF ResolverKeeps, ResolverTyped
  <1> QED
    BY <1>1, <1>2, SentFacts, AttemptGoes

LEMMA AttemptTries ==
  ASSUME ResolverKeeps, NEW q \in Lookups, NEW p \in Resolver!P, Resolver!Busy(att[q][p].pc),
         NEW pc \in {"start", "tcp", "io", "put"}, NEW try \in Nat,
         Resolver!Step(q, p, [att[q][p] EXCEPT !.pc = pc, !.try = try]),
         snap' \in [Resolver!Snaps -> SnapRecord],
         \A s \in Resolver!Snaps : /\ snap'[s].active = snap[s].active
                                   /\ snap'[s].retired = snap[s].retired
                                   /\ snap'[s].closed = snap[s].closed
  PROVE  ResolverKeeps'
  <1> DEFINE a == [att[q][p] EXCEPT !.pc = pc, !.try = try]
  <1>1. att[q][p] \in AttemptRecord
    BY DEF ResolverKeeps, ResolverTyped
  <1>2. a \in AttemptRecord /\ a.pc = pc /\ a.pin = att[q][p].pin
    BY <1>1 DEF AttemptRecord
  <1> HIDE DEF a
  <1>3. Resolver!Step(q, p, a)
    BY DEF a
  <1> QED
    BY <1>2, <1>3, AttemptGoes

(* An attempt's record, whichever of its two fields is written.            *)
LEMMA AttemptFields ==
  ASSUME NEW a \in AttemptRecord
  PROVE  /\ \A pc : [a EXCEPT !.pc = pc] = [a EXCEPT !.pc = pc, !.try = a.try]
         /\ \A try : [a EXCEPT !.try = try] = [a EXCEPT !.pc = a.pc, !.try = try]
  BY DEF AttemptRecord

LEMMA AttemptSends ==
  ASSUME ResolverKeeps, NEW q \in Lookups, NEW p \in Resolver!P,
         \/ Resolver!GiveUp(q, p) \/ Resolver!QueryPlain(q, p) \/ Resolver!QueryDoH(q, p)
         \/ Resolver!QueryDoT(q, p)
  PROVE  ResolverKeeps'
  <1> DEFINE a == att[q][p]
  <1>1. Resolver!Busy(a.pc)
    BY DEF Resolver!GiveUp, Resolver!QueryPlain, Resolver!QueryDoH, Resolver!QueryDoT, Resolver!Busy,
           Resolver!A
  <1>2. CASE Resolver!Answered(q, p) \/ Resolver!GiveUp(q, p)
    BY <1>1, <1>2, AttemptAnswered
  <1>3. CASE ~(Resolver!Answered(q, p) \/ Resolver!GiveUp(q, p))
    <2>1. UNCHANGED snap
      BY <1>3 DEF Resolver!QueryPlain, Resolver!QueryDoH, Resolver!QueryDoT
    <2>2. snap' \in [Resolver!Snaps -> SnapRecord]
      BY <2>1 DEF ResolverKeeps, ResolverTyped
    <2>3. a.pc \in {"start", "io"}
      BY <1>3 DEF Resolver!QueryPlain, Resolver!QueryDoH, Resolver!QueryDoT, Resolver!A
    <2>4. \/ Resolver!Step(q, p, [a EXCEPT !.try = a.try + 1])
          \/ Resolver!Step(q, p, [a EXCEPT !.try = 1])
          \/ \E pc \in {"tcp", "put"} : Resolver!Step(q, p, [a EXCEPT !.pc = pc])
      BY <1>3 DEF Resolver!QueryPlain, Resolver!QueryDoH, Resolver!QueryDoT, Resolver!A
    <2>5. a \in AttemptRecord
      BY DEF ResolverKeeps, ResolverTyped
    <2>6. a.try \in Nat /\ a.try + 1 \in Nat
      BY <2>5 DEF AttemptRecord
    <2>7. ASSUME NEW try \in Nat, Resolver!Step(q, p, [a EXCEPT !.try = try]) PROVE ResolverKeeps'
      <3>1. [a EXCEPT !.try = try] = [a EXCEPT !.pc = a.pc, !.try = try]
        BY <2>5, AttemptFields
      <3>2. Resolver!Step(q, p, [a EXCEPT !.pc = a.pc, !.try = try])
        BY <2>7, <3>1
      <3> QED
        BY <1>1, <2>1, <2>2, <2>3, <3>2, AttemptTries
    <2>8. ASSUME NEW pc \in {"tcp", "put"}, Resolver!Step(q, p, [a EXCEPT !.pc = pc])
          PROVE  ResolverKeeps'
      <3>1. [a EXCEPT !.pc = pc] = [a EXCEPT !.pc = pc, !.try = a.try]
        BY <2>5, AttemptFields
      <3>2. Resolver!Step(q, p, [a EXCEPT !.pc = pc, !.try = a.try])
        BY <2>8, <3>1
      <3> QED
        BY <1>1, <2>1, <2>2, <2>6, <3>2, AttemptTries
    <2> QED
      BY <2>4, <2>6, <2>7, <2>8
  <1> QED
    BY <1>2, <1>3

(* A connection is taken from the pool or put back, or the shared one is   *)
(* dialled or dropped.                                                     *)
LEMMA SnapFields ==
  ASSUME ResolverKeeps, NEW s \in Resolver!Snaps, NEW idle \in 0..MaxIdle, NEW quics \in BOOLEAN,
         snap' = [snap EXCEPT ![s] = [@ EXCEPT !.idle = idle, !.quic = quics]]
  PROVE  /\ snap' \in [Resolver!Snaps -> SnapRecord]
         /\ \A t \in Resolver!Snaps : /\ snap'[t].active = snap[t].active
                                      /\ snap'[t].retired = snap[t].retired
                                      /\ snap'[t].closed = snap[t].closed
  <1> DEFINE r == [snap[s] EXCEPT !.idle = idle, !.quic = quics]
  <1>1. snap \in [Resolver!Snaps -> SnapRecord]
    BY DEF ResolverKeeps, ResolverTyped
  <1>2. /\ r \in SnapRecord /\ r.active = snap[s].active /\ r.retired = snap[s].retired
        /\ r.closed = snap[s].closed
    BY <1>1 DEF SnapRecord
  <1>3. snap' = [snap EXCEPT ![s] = r]
    BY <1>1
  <1> HIDE DEF r
  <1> QED
    BY <1>1, <1>2, <1>3

LEMMA SnapKept ==
  ASSUME ResolverKeeps, UNCHANGED snap
  PROVE  /\ snap' \in [Resolver!Snaps -> SnapRecord]
         /\ \A t \in Resolver!Snaps : /\ snap'[t].active = snap[t].active
                                      /\ snap'[t].retired = snap[t].retired
                                      /\ snap'[t].closed = snap[t].closed
  BY DEF ResolverKeeps, ResolverTyped

LEMMA SnapIdle ==
  ASSUME ResolverKeeps, NEW s \in Resolver!Snaps, NEW idle \in 0..MaxIdle,
         snap' = [snap EXCEPT ![s].idle = idle]
  PROVE  /\ snap' \in [Resolver!Snaps -> SnapRecord]
         /\ \A t \in Resolver!Snaps : /\ snap'[t].active = snap[t].active
                                      /\ snap'[t].retired = snap[t].retired
                                      /\ snap'[t].closed = snap[t].closed
  <1>1. snap \in [Resolver!Snaps -> SnapRecord] /\ snap[s] \in SnapRecord
    BY DEF ResolverKeeps, ResolverTyped
  <1>2. PICK b \in BOOLEAN : b = snap[s].quic
    BY <1>1 DEF SnapRecord
  <1>3. [snap[s] EXCEPT !.idle = idle] = [snap[s] EXCEPT !.idle = idle, !.quic = b]
    BY <1>1, <1>2 DEF SnapRecord
  <1>4. snap' = [snap EXCEPT ![s] = [@ EXCEPT !.idle = idle, !.quic = b]]
    BY <1>1, <1>3
  <1> QED
    BY <1>4, SnapFields

LEMMA SnapQuic ==
  ASSUME ResolverKeeps, NEW s \in Resolver!Snaps, NEW b \in BOOLEAN,
         snap' = [snap EXCEPT ![s].quic = b]
  PROVE  /\ snap' \in [Resolver!Snaps -> SnapRecord]
         /\ \A t \in Resolver!Snaps : /\ snap'[t].active = snap[t].active
                                      /\ snap'[t].retired = snap[t].retired
                                      /\ snap'[t].closed = snap[t].closed
  <1>1. snap \in [Resolver!Snaps -> SnapRecord] /\ snap[s] \in SnapRecord
    BY DEF ResolverKeeps, ResolverTyped
  <1>2. snap[s].idle \in 0..MaxIdle
    BY <1>1 DEF SnapRecord
  <1>3. [snap[s] EXCEPT !.quic = b] = [snap[s] EXCEPT !.idle = snap[s].idle, !.quic = b]
    BY <1>1 DEF SnapRecord
  <1>4. snap' = [snap EXCEPT ![s] = [@ EXCEPT !.idle = snap[s].idle, !.quic = b]]
    BY <1>1, <1>3
  <1> QED
    BY <1>2, <1>4, SnapFields

(* DoT and DoQ.                                                            *)
LEMMA AttemptConnects ==
  ASSUME ResolverKeeps, NEW q \in Lookups, NEW p \in Resolver!P,
         Resolver!DialDoT(q, p) \/ Resolver!PutDoT(q, p) \/ Resolver!QueryDoQ(q, p)
  PROVE  ResolverKeeps'
  <1> DEFINE a == att[q][p]
             s == query[q].s
  <1>1. Resolver!Busy(a.pc)
    BY DEF Resolver!DialDoT, Resolver!PutDoT, Resolver!QueryDoQ, Resolver!Busy, Resolver!A
  <1>2. s \in Resolver!Snaps /\ a \in AttemptRecord
    BY <1>1, PinnedInUse DEF ResolverKeeps, ResolverTyped
  <1>3. snap[s].idle \in 0..MaxIdle /\ MaxIdle \in Nat
    BY <1>2, AndroidAssumption DEF ResolverKeeps, ResolverTyped, SnapRecord, AndroidAssumption
  <1>4. CASE Resolver!DialDoT(q, p)
    <2>1. \E try \in {0, 1} : Resolver!Step(q, p, [a EXCEPT !.pc = "io", !.try = try])
      BY <1>4 DEF Resolver!DialDoT, Resolver!A
    <2>2. \/ UNCHANGED snap
          \/ snap[s].idle > 0 /\ snap' = [snap EXCEPT ![s].idle = snap[s].idle - 1]
      BY <1>4 DEF Resolver!DialDoT, Resolver!S
    <2>3. snap[s].idle > 0 => snap[s].idle - 1 \in 0..MaxIdle
      BY <1>3
    <2>4. /\ snap' \in [Resolver!Snaps -> SnapRecord]
          /\ \A t \in Resolver!Snaps : /\ snap'[t].active = snap[t].active
                                       /\ snap'[t].retired = snap[t].retired
                                       /\ snap'[t].closed = snap[t].closed
      BY <1>2, <2>2, <2>3, SnapKept, SnapIdle
    <2> QED
      BY <1>1, <2>1, <2>4, AttemptTries
  <1>5. CASE Resolver!PutDoT(q, p)
    <2>1. PICK ok \in BOOLEAN : Resolver!Step(q, p, Resolver!Sent(q, p, ok))
      BY <1>5 DEF Resolver!PutDoT
    <2>2. \/ UNCHANGED snap
          \/ ~(snap[s].idle >= MaxIdle) /\ snap' = [snap EXCEPT ![s].idle = snap[s].idle + 1]
      BY <1>5 DEF Resolver!PutDoT, Resolver!S
    <2>3. ~(snap[s].idle >= MaxIdle) => snap[s].idle + 1 \in 0..MaxIdle
      BY <1>3
    <2>4. /\ snap' \in [Resolver!Snaps -> SnapRecord]
          /\ \A t \in Resolver!Snaps : /\ snap'[t].active = snap[t].active
                                       /\ snap'[t].retired = snap[t].retired
                                       /\ snap'[t].closed = snap[t].closed
      BY <1>2, <2>2, <2>3, SnapKept, SnapIdle
    <2> QED
      BY <1>1, <2>1, <2>4, SentFacts, AttemptGoes
  <1>6. CASE Resolver!QueryDoQ(q, p)
    <2>1. CASE Resolver!Answered(q, p)
      BY <1>1, <2>1, AttemptAnswered
    <2>2. CASE ~Resolver!Answered(q, p)
      <3>1. \/ /\ Resolver!Step(q, p, [a EXCEPT !.pc = "io"])
               /\ snap' = [snap EXCEPT ![s].quic = TRUE]
            \/ /\ Resolver!Step(q, p, [a EXCEPT !.pc = "start", !.try = 1])
               /\ snap' = [snap EXCEPT ![s].quic = FALSE]
        BY <1>6, <2>2 DEF Resolver!QueryDoQ, Resolver!A, Resolver!S
      <3>2. /\ snap' \in [Resolver!Snaps -> SnapRecord]
            /\ \A t \in Resolver!Snaps : /\ snap'[t].active = snap[t].active
                                         /\ snap'[t].retired = snap[t].retired
                                         /\ snap'[t].closed = snap[t].closed
        BY <1>2, <3>1, SnapQuic
      <3>3. [a EXCEPT !.pc = "io"] = [a EXCEPT !.pc = "io", !.try = a.try] /\ a.try \in Nat
        BY <1>2 DEF AttemptRecord
      <3>4. CASE Resolver!Step(q, p, [a EXCEPT !.pc = "io"])
        <4>1. Resolver!Step(q, p, [a EXCEPT !.pc = "io", !.try = a.try])
          BY <3>3, <3>4
        <4> QED
          BY <1>1, <3>2, <3>3, <4>1, AttemptTries
      <3>5. CASE Resolver!Step(q, p, [a EXCEPT !.pc = "start", !.try = 1])
        BY <1>1, <3>2, <3>5, AttemptTries
      <3> QED
        BY <3>1, <3>4, <3>5
    <2> QED
      BY <2>1, <2>2
  <1> QED
    BY <1>4, <1>5, <1>6

(* --- pins given back ---                                                 *)

(* The last pin of a retired snapshot closes it, and no earlier one.       *)
LEMMA SnapReleased ==
  ASSUME ResolverKeeps, NEW s \in Resolver!Snaps, snap[s].active > 0, snap' = Resolver!Released(s)
  PROVE  /\ snap' \in [Resolver!Snaps -> SnapRecord]
         /\ \A t \in Resolver!Snaps : snap'[t].retired = snap[t].retired
         /\ \A t \in Resolver!Snaps \ {s} : snap'[t] = snap[t]
         /\ snap'[s].active = snap[s].active - 1
         /\ snap'[s].closed => snap'[s].retired /\ snap'[s].active = 0
  <1>1. snap \in [Resolver!Snaps -> SnapRecord] /\ snap[s] \in SnapRecord /\ ~snap[s].closed
    BY DEF ResolverKeeps, ResolverTyped, Pinned
  <1>2. snap[s].active - 1 \in Nat
    BY <1>1 DEF SnapRecord
  <1> DEFINE r == [snap[s] EXCEPT !.active = @ - 1]
             t == IF r.retired /\ r.active = 0 /\ ~r.closed THEN Resolver!CloseProviders(r) ELSE r
  <1>3. /\ r \in SnapRecord /\ r.active = snap[s].active - 1 /\ r.retired = snap[s].retired
        /\ r.closed = snap[s].closed
    BY <1>1, <1>2 DEF SnapRecord
  <1>4. snap' = [snap EXCEPT ![s] = t]
    BY DEF Resolver!Released
  <1> HIDE DEF r
  <1>5. /\ Resolver!CloseProviders(r) \in SnapRecord
        /\ Resolver!CloseProviders(r).active = r.active
        /\ Resolver!CloseProviders(r).retired = r.retired
    <2>1. 0 \in 0..MaxIdle
      BY AndroidAssumption DEF AndroidAssumption
    <2> QED
      BY <1>3, <2>1 DEF SnapRecord, Resolver!CloseProviders
  <1>6. /\ t \in SnapRecord /\ t.active = snap[s].active - 1 /\ t.retired = snap[s].retired
        /\ t.closed => t.retired /\ t.active = 0
    <2>1. CASE r.retired /\ r.active = 0 /\ ~r.closed
      BY <1>3, <1>5, <2>1
    <2>2. CASE ~(r.retired /\ r.active = 0 /\ ~r.closed)
      BY <1>1, <1>3, <2>2
    <2> QED
      BY <2>1, <2>2
  <1> HIDE DEF t
  <1> QED
    BY <1>1, <1>4, <1>6

(* Who pins a snapshot keeps it counted.                                   *)
LEMMA PinnedActive ==
  ASSUME ResolverKeeps, NEW q \in Lookups,
         query[q].pc \notin Ready \/ \E p \in Resolver!P : Holding(att[q][p])
  PROVE  query[q].s \in Resolver!Snaps /\ snap[query[q].s].active > 0
  <1> DEFINE s == query[q].s
  <1>1. s \in Resolver!Snaps
    BY DEF ResolverKeeps, QueryPlace, AttemptPlace, Holding, Resolver!Busy
  <1>2. QueryPins(s) # {} \/ AttemptPins(s) # {}
    <2>1. CASE query[q].pc \notin Ready
      <3>1. q \in QueryPins(s)
        BY <2>1 DEF QueryPins
      <3> QED
        BY <3>1
    <2>2. ASSUME NEW p \in Resolver!P, Holding(att[q][p]) PROVE AttemptPins(s) # {}
      <3>1. <<q, p>> \in AttemptPins(s)
        BY <2>2 DEF AttemptPins, Holding
      <3> QED
        BY <3>1
    <2> QED
      BY <2>1, <2>2
  <1>3. Cardinality(QueryPins(s)) # 0 \/ Cardinality(AttemptPins(s)) # 0
    BY <1>2, PinsFinite, FS_EmptySet
  <1> QED
    BY <1>1, <1>3, PinsFinite DEF ResolverKeeps, Pinned

LEMMA QueryReturns ==
  ASSUME ResolverKeeps, NEW q \in Lookups, Resolver!Return(q)
  PROVE  ResolverKeeps'
  <1> DEFINE w == query[q]
             pc == IF w.pc = "win" THEN "done" ELSE "failed"
             r == [w EXCEPT !.cancelled = TRUE, !.pc = pc]
             row == att[q]
  <1>1. /\ w \in QueryRecord /\ query \in [Lookups -> QueryRecord]
        /\ row \in [Resolver!P -> AttemptRecord] /\ att \in [Lookups -> [Resolver!P -> AttemptRecord]]
    BY DEF ResolverKeeps, ResolverTyped
  <1>2. /\ w.pc \in {"win", "lose"} /\ UNCHANGED <<cur, made, retiring, att>>
        /\ snap' = Resolver!Released(w.s) /\ query' = [query EXCEPT ![q] = r]
        /\ att' = [att EXCEPT ![q] = row]
    BY <1>1 DEF Resolver!Return
  <1>3. pc \in {"done", "failed"} /\ (pc = "failed" <=> w.pc = "lose")
    BY <1>2
  <1> HIDE DEF pc
  <1>4. /\ r \in QueryRecord /\ r.s = w.s /\ r.mode = w.mode /\ r.order = w.order
        /\ r.inflight = w.inflight /\ r.tried = w.tried /\ r.pc = pc /\ r.budget = w.budget
    BY <1>1, <1>3 DEF QueryRecord
  <1> HIDE DEF r
  <1>5. QueryPlace(w) /\ Everyone(w) /\ \A o \in Resolver!P : AttemptPlace(w, att[q][o], o)
    BY DEF ResolverKeeps
  <1>6. QueryPlace(r)
    BY <1>3, <1>4 DEF QueryPlace, Ready
  <1>7. Everyone(r)
    BY <1>3, <1>4, <1>5 DEF Everyone
  <1>8. \A o \in Resolver!P : AttemptPlace(r, row[o], o)
    BY <1>2, <1>3, <1>4, <1>5 DEF AttemptPlace
  <1>9. w.s \in Resolver!Snaps /\ snap[w.s].active > 0
    BY <1>2, PinnedActive DEF Ready
  <1>10. ASSUME NEW s \in Resolver!Snaps
         PROVE  /\ snap'[s].active = Cardinality(QueryPins(s)') + Cardinality(AttemptPins(s)')
                /\ snap'[s].closed => snap'[s].retired /\ snap'[s].active = 0
    <2>1. PICK p \in Resolver!P : TRUE
      BY ProvsFacts
    <2>2. AttemptPins(s)' = AttemptPins(s)
      <3>1. OthersStay(q, p, r, row, s)
        BY <1>4 DEF OthersStay
      <3>2. (r.s = s /\ Holding(row[p])) <=> (query[q].s = s /\ Holding(att[q][p]))
        BY <1>4
      <3> HIDE DEF row
      <3> QED
        BY <1>1, <1>2, <1>4, <2>1, <3>1, <3>2, AttemptPinsStay
    <2>3. r.pc \in Ready /\ w.pc \notin Ready
      BY <1>2, <1>3, <1>4 DEF Ready
    <2>4. CASE s = w.s
      <3>1. (query[q].s = s /\ query[q].pc \notin Ready) /\ ~(r.s = s /\ r.pc \notin Ready)
        BY <2>3, <2>4
      <3>2. Cardinality(QueryPins(s)') = Cardinality(QueryPins(s)) - 1
        <4> HIDE DEF row
        <4> QED
          BY <1>1, <1>2, <1>4, <3>1, QueryPinsMove
      <3>3. /\ snap'[s].active = snap[s].active - 1
            /\ snap'[s].closed => snap'[s].retired /\ snap'[s].active = 0
        BY <1>2, <1>9, <2>4, SnapReleased
      <3> QED
        BY <2>2, <3>2, <3>3, PinsFinite DEF ResolverKeeps, Pinned
    <2>5. CASE s # w.s
      <3>1. (r.s = s /\ r.pc \notin Ready) <=> (query[q].s = s /\ query[q].pc \notin Ready)
        BY <1>4, <2>5
      <3>2. Cardinality(QueryPins(s)') = Cardinality(QueryPins(s))
        <4> HIDE DEF row
        <4> QED
          BY <1>1, <1>2, <1>4, <3>1, QueryPinsMove
      <3>3. snap'[s] = snap[s]
        BY <1>2, <1>9, <2>5, SnapReleased
      <3> QED
        BY <2>2, <3>2, <3>3 DEF ResolverKeeps, Pinned
    <2> QED
      BY <2>4, <2>5
  <1>11. /\ snap' \in [Resolver!Snaps -> SnapRecord]
         /\ \A s \in Resolver!Snaps : snap'[s].retired = snap[s].retired
    BY <1>2, <1>9, SnapReleased
  <1> HIDE DEF row
  <1> QED
    BY <1>1, <1>2, <1>4, <1>6, <1>7, <1>8, <1>10, <1>11, ResolverMoves

LEMMA AttemptReturns ==
  ASSUME ResolverKeeps, NEW q \in Lookups, NEW p \in Resolver!P, Resolver!AttemptEnds(q, p)
  PROVE  ResolverKeeps'
  <1> DEFINE r == query[q]
             a == [att[q][p] EXCEPT !.pc = "released"]
             row == [att[q] EXCEPT ![p] = a]
  <1>1. /\ r \in QueryRecord /\ query \in [Lookups -> QueryRecord] /\ att[q][p] \in AttemptRecord
        /\ att \in [Lookups -> [Resolver!P -> AttemptRecord]]
    BY DEF ResolverKeeps, ResolverTyped
  <1>2. QueryPlace(r) /\ Everyone(r) /\ \A o \in Resolver!P : AttemptPlace(r, att[q][o], o)
    BY DEF ResolverKeeps
  <1>3. att[q][p].pc = "sent" /\ ~Resolver!Sequential(r.mode)
    BY DEF Resolver!AttemptEnds, Resolver!A
  <1>4. att[q][p].pin
    BY <1>2, <1>3 DEF AttemptPlace
  <1>5. a \in AttemptRecord /\ a.pc = "released" /\ a.pin = att[q][p].pin
    BY <1>1 DEF AttemptRecord
  <1>6. att' = [att EXCEPT ![q] = row]
    BY <1>1 DEF Resolver!AttemptEnds
  <1> HIDE DEF a
  <1>7. /\ row \in [Resolver!P -> AttemptRecord]
        /\ \A o \in Resolver!P : row[o] = IF o = p THEN a ELSE att[q][o]
    BY <1>1, <1>5
  <1>8. /\ UNCHANGED <<cur, made, retiring>> /\ query' = [query EXCEPT ![q] = r]
        /\ snap' = Resolver!Released(r.s)
    BY <1>1, <1>4 DEF Resolver!AttemptEnds, Resolver!A, Resolver!S
  <1> HIDE DEF row
  <1>9. Holding(att[q][p]) /\ ~Holding(row[p])
    BY <1>3, <1>4, <1>5, <1>7 DEF Holding, Resolver!Busy
  <1>10. \A o \in Resolver!P : AttemptPlace(r, row[o], o)
    <2>1. AttemptPlace(r, a, p)
      BY <1>2, <1>3, <1>5 DEF AttemptPlace, Resolver!Busy
    <2> QED
      BY <1>2, <1>7, <2>1
  <1>11. r.s \in Resolver!Snaps /\ snap[r.s].active > 0
    BY <1>9, PinnedActive
  <1> HIDE DEF r
  <1>12. r = query[q]
    BY DEF r
  <1>13. ASSUME NEW s \in Resolver!Snaps
         PROVE  /\ snap'[s].active = Cardinality(QueryPins(s)') + Cardinality(AttemptPins(s)')
                /\ snap'[s].closed => snap'[s].retired /\ snap'[s].active = 0
    <2>1. Cardinality(QueryPins(s)') = Cardinality(QueryPins(s))
      <3>1. (r.s = s /\ r.pc \notin Ready) <=> (query[q].s = s /\ query[q].pc \notin Ready)
        BY <1>12
      <3> QED
        BY <1>1, <1>6, <1>7, <1>8, <3>1, QueryPinsMove
    <2>2. OthersStay(q, p, r, row, s)
      BY <1>7, <1>12 DEF OthersStay
    <2>3. CASE s = r.s
      <3>1. (query[q].s = s /\ Holding(att[q][p])) /\ ~(r.s = s /\ Holding(row[p]))
        BY <1>9, <1>12, <2>3
      <3>2. Cardinality(AttemptPins(s)') = Cardinality(AttemptPins(s)) - 1
        BY <1>1, <1>6, <1>7, <1>8, <2>2, <3>1, AttemptPinGiven
      <3>3. /\ snap'[s].active = snap[s].active - 1
            /\ snap'[s].closed => snap'[s].retired /\ snap'[s].active = 0
        BY <1>8, <1>11, <2>3, SnapReleased
      <3> QED
        BY <2>1, <3>2, <3>3, PinsFinite DEF ResolverKeeps, Pinned
    <2>4. CASE s # r.s
      <3>1. (r.s = s /\ Holding(row[p])) <=> (query[q].s = s /\ Holding(att[q][p]))
        BY <1>12, <2>4
      <3>2. AttemptPins(s)' = AttemptPins(s)
        BY <1>1, <1>6, <1>7, <1>8, <2>2, <3>1, AttemptPinsStay
      <3>3. snap'[s] = snap[s]
        BY <1>8, <1>11, <2>4, SnapReleased
      <3> QED
        BY <2>1, <3>2, <3>3 DEF ResolverKeeps, Pinned
    <2> QED
      BY <2>3, <2>4
  <1>14. /\ snap' \in [Resolver!Snaps -> SnapRecord]
         /\ \A s \in Resolver!Snaps : snap'[s].retired = snap[s].retired
    BY <1>8, <1>11, SnapReleased
  <1> QED
    BY <1>1, <1>2, <1>6, <1>7, <1>8, <1>10, <1>13, <1>14, ResolverMoves

(* --- pins taken ---                                                      *)

LEMMA SnapAcquired ==
  ASSUME ResolverKeeps, NEW s \in Resolver!Snaps, ~snap[s].retired, snap' = Resolver!Acquire(s)
  PROVE  /\ snap' \in [Resolver!Snaps -> SnapRecord]
         /\ \A t \in Resolver!Snaps : snap'[t].retired = snap[t].retired
         /\ \A t \in Resolver!Snaps \ {s} : snap'[t] = snap[t]
         /\ snap'[s].active = snap[s].active + 1 /\ ~snap'[s].closed
  <1>1. snap \in [Resolver!Snaps -> SnapRecord] /\ snap[s] \in SnapRecord /\ ~snap[s].closed
    BY DEF ResolverKeeps, ResolverTyped, Pinned
  <1>2. snap[s].active + 1 \in Nat
    BY <1>1 DEF SnapRecord
  <1> DEFINE r == [snap[s] EXCEPT !.active = @ + 1]
  <1>3. /\ r \in SnapRecord /\ r.active = snap[s].active + 1 /\ r.retired = snap[s].retired
        /\ r.closed = snap[s].closed
    BY <1>1, <1>2 DEF SnapRecord
  <1>4. snap' = [snap EXCEPT ![s] = r]
    BY <1>1 DEF Resolver!Acquire
  <1> HIDE DEF r
  <1> QED
    BY <1>1, <1>3, <1>4

(* launchOne: the next candidate is started and pins the snapshot, or all  *)
(* that are left are skipped.                                              *)
LEMMA QueryLaunches ==
  ASSUME ResolverKeeps, NEW q \in Lookups, NEW v \in QueryRecord, Resolver!LaunchOne(q, v),
         UNCHANGED <<cur, made, retiring>>, query[q].pc \in {"init", "loop"},
         v.pc = query[q].pc, v.s = query[q].s, v.mode = query[q].mode, v.order = query[q].order,
         v.inflight \cup v.tried = query[q].inflight \cup query[q].tried
  PROVE  ResolverKeeps'
  <1> DEFINE w == query[q]
  <1>1. /\ w \in QueryRecord /\ query \in [Lookups -> QueryRecord] /\ w.order \in Seq(Resolver!P)
        /\ att[q] \in [Resolver!P -> AttemptRecord] /\ att \in [Lookups -> [Resolver!P -> AttemptRecord]]
    BY DEF ResolverKeeps, ResolverTyped, QueryRecord
  <1>2. QueryPlace(w) /\ Everyone(w) /\ \A o \in Resolver!P : AttemptPlace(w, att[q][o], o)
    BY DEF ResolverKeeps
  <1>3. w.s \in Resolver!Snaps /\ ~Resolver!Sequential(w.mode) /\ IsInjective(w.order)
    BY <1>2 DEF QueryPlace, Ready
  <1>4. CASE ~Resolver!CanLaunch(q, v)
    <2> DEFINE r == [v EXCEPT !.order = <<>>]
    <2>1. query' = [query EXCEPT ![q] = r] /\ UNCHANGED <<att, snap>>
      BY <1>4 DEF Resolver!LaunchOne
    <2>2. w.order = <<>> \/ snap[w.s].retired
      BY <1>4 DEF Resolver!CanLaunch
    <2>3. <<>> \in Seq(Resolver!P)
      OBVIOUS
    <2>4. /\ r \in QueryRecord /\ r.s = w.s /\ r.mode = w.mode /\ r.order = <<>> /\ r.pc = w.pc
          /\ r.inflight = v.inflight /\ r.tried = v.tried
      BY <2>3 DEF QueryRecord
    <2> HIDE DEF r
    <2>5. QueryPlace(r)
      BY <1>3, <2>4, EmptyOrder DEF QueryPlace
    <2>6. Everyone(r)
      BY <1>2, <2>2, <2>4, EmptyOrder DEF Everyone
    <2>7. \A o \in Resolver!P : AttemptPlace(r, att[q][o], o)
      BY <1>2, <2>4, EmptyOrder DEF AttemptPlace
    <2>8. att' = [att EXCEPT ![q] = att[q]] /\ (r.pc \in Ready <=> w.pc \in Ready)
      BY <1>1, <2>1, <2>4
    <2> QED
      BY <1>1, <2>1, <2>4, <2>5, <2>6, <2>7, <2>8, SnapKept, ResolverSteps
  <1>5. CASE Resolver!CanLaunch(q, v)
    <2> DEFINE p == Head(w.order)
               a == [Resolver!NoAtt EXCEPT !.pc = "start", !.pin = TRUE]
               row == [att[q] EXCEPT ![p] = a]
               r == [v EXCEPT !.order = Tail(@), !.inflight = @ \cup {p}]
    <2>1. w.order # <<>> /\ ~snap[w.s].retired
      BY <1>5 DEF Resolver!CanLaunch
    <2>2. /\ query' = [query EXCEPT ![q] = r] /\ att' = [att EXCEPT ![q] = row]
          /\ snap' = Resolver!Acquire(w.s)
      BY <1>1, <1>5 DEF Resolver!LaunchOne
    <2>3. /\ p \in Resolver!P /\ Tail(w.order) \in Seq(Resolver!P)
          /\ Range(w.order) = {p} \cup Range(Tail(w.order))
          /\ IsInjective(Tail(w.order)) /\ p \notin Range(Tail(w.order))
      BY <1>1, <1>3, <2>1, OrderPops
    <2>4. a \in AttemptRecord /\ a.pc = "start" /\ a.pin
      BY NoAttFacts
    <2> HIDE DEF p, a
    <2>5. /\ row \in [Resolver!P -> AttemptRecord]
          /\ \A o \in Resolver!P : row[o] = IF o = p THEN a ELSE att[q][o]
      BY <1>1, <2>3, <2>4
    <2>6. v.inflight \cup {p} \in SUBSET Resolver!P /\ v.order = w.order
      BY <2>3 DEF QueryRecord
    <2>7. /\ r \in QueryRecord /\ r.s = w.s /\ r.mode = w.mode /\ r.order = Tail(w.order)
          /\ r.pc = w.pc /\ r.inflight = v.inflight \cup {p} /\ r.tried = v.tried
      BY <2>3, <2>6 DEF QueryRecord
    <2> HIDE DEF r, row
    <2>8. QueryPlace(r)
      BY <1>3, <2>3, <2>7 DEF QueryPlace
    <2>9. Everyone(r)
      <3>1. Range(r.order) \cup r.inflight \cup r.tried = Range(w.order) \cup w.inflight \cup w.tried
        BY <2>3, <2>7
      <3> QED
        BY <1>2, <2>7, <3>1 DEF Everyone
    <2>10. \A o \in Resolver!P : AttemptPlace(r, row[o], o)
      <3>1. AttemptPlace(r, a, p)
        BY <1>3, <2>3, <2>4, <2>7 DEF AttemptPlace
      <3>2. \A o \in Resolver!P \ {p} : AttemptPlace(r, att[q][o], o)
        BY <1>2, <2>3, <2>7 DEF AttemptPlace
      <3> QED
        BY <2>5, <3>1, <3>2
    <2>11. ~Holding(att[q][p]) /\ Holding(row[p])
      <3>1. att[q][p].pc = "none"
        BY <1>2, <2>3 DEF AttemptPlace
      <3> QED
        BY <2>3, <2>4, <2>5, <3>1 DEF Holding, Resolver!Busy
    <2>12. ASSUME NEW s \in Resolver!Snaps
           PROVE  /\ snap'[s].active = Cardinality(QueryPins(s)') + Cardinality(AttemptPins(s)')
                  /\ snap'[s].closed => snap'[s].retired /\ snap'[s].active = 0
      <3>1. Cardinality(QueryPins(s)') = Cardinality(QueryPins(s))
        <4>1. (r.s = s /\ r.pc \notin Ready) <=> (query[q].s = s /\ query[q].pc \notin Ready)
          BY <2>7
        <4> QED
          BY <2>2, <2>5, <2>7, <4>1, QueryPinsMove
      <3>2. OthersStay(q, p, r, row, s)
        BY <2>5, <2>7 DEF OthersStay
      <3>3. CASE s = w.s
        <4>1. (r.s = s /\ Holding(row[p])) /\ ~(query[q].s = s /\ Holding(att[q][p]))
          BY <2>7, <2>11, <3>3
        <4>2. Cardinality(AttemptPins(s)') = Cardinality(AttemptPins(s)) + 1
          BY <2>2, <2>3, <2>5, <2>7, <3>2, <4>1, AttemptPinTaken
        <4>3. snap'[s].active = snap[s].active + 1 /\ ~snap'[s].closed
          BY <1>3, <2>1, <2>2, <3>3, SnapAcquired
        <4> QED
          BY <3>1, <4>2, <4>3, PinsFinite DEF ResolverKeeps, Pinned
      <3>4. CASE s # w.s
        <4>1. (r.s = s /\ Holding(row[p])) <=> (query[q].s = s /\ Holding(att[q][p]))
          BY <2>7, <3>4
        <4>2. AttemptPins(s)' = AttemptPins(s)
          BY <2>2, <2>3, <2>5, <2>7, <3>2, <4>1, AttemptPinsStay
        <4>3. snap'[s] = snap[s]
          BY <1>3, <2>1, <2>2, <3>4, SnapAcquired
        <4> QED
          BY <3>1, <4>2, <4>3 DEF ResolverKeeps, Pinned
      <3> QED
        BY <3>3, <3>4
    <2>13. /\ snap' \in [Resolver!Snaps -> SnapRecord]
           /\ \A s \in Resolver!Snaps : snap'[s].retired = snap[s].retired
      BY <1>3, <2>1, <2>2, SnapAcquired
    <2> QED
      BY <2>2, <2>5, <2>7, <2>8, <2>9, <2>10, <2>12, <2>13, ResolverMoves
  <1> QED
    BY <1>4, <1>5

(* --- executeSchedulePlan ---                                             *)

LEMMA QueryLaunchesBatch ==
  ASSUME ResolverKeeps, NEW q \in Lookups, Resolver!LaunchBatch(q)
  PROVE  ResolverKeeps'
  <1> DEFINE w == query[q]
  <1>1. w \in QueryRecord /\ query \in [Lookups -> QueryRecord] /\ w.batch \in Nat
    BY DEF ResolverKeeps, ResolverTyped, QueryRecord
  <1>2. w.pc = "init" /\ UNCHANGED <<cur, made, retiring>>
    BY DEF Resolver!LaunchBatch
  <1>3. CASE w.batch > 0 /\ w.order # <<>>
    <2> DEFINE v == [w EXCEPT !.batch = @ - 1]
    <2>1. w.batch - 1 \in Nat
      BY <1>1, <1>3
    <2>2. /\ v \in QueryRecord /\ v.pc = w.pc /\ v.s = w.s /\ v.mode = w.mode /\ v.order = w.order
          /\ v.inflight = w.inflight /\ v.tried = w.tried
      BY <1>1, <2>1 DEF QueryRecord
    <2>3. Resolver!LaunchOne(q, v)
      BY <1>3 DEF Resolver!LaunchBatch
    <2> HIDE DEF v
    <2>4. v.inflight \cup v.tried = query[q].inflight \cup query[q].tried
      BY <2>2
    <2> QED
      BY <1>2, <2>2, <2>3, <2>4, QueryLaunches
  <1>4. CASE ~(w.batch > 0 /\ w.order # <<>>)
    <2> DEFINE pc == IF w.inflight = {} THEN "lose" ELSE "loop"
               r == [w EXCEPT !.pc = pc]
    <2>1. query' = [query EXCEPT ![q] = r] /\ UNCHANGED <<cur, made, snap, retiring, att>>
      BY <1>1, <1>4 DEF Resolver!LaunchBatch
    <2>2. pc \in {"lose", "loop"} /\ (pc = "lose" <=> w.inflight = {})
      OBVIOUS
    <2> HIDE DEF pc
    <2>3. /\ r \in QueryRecord /\ r.s = w.s /\ r.mode = w.mode /\ r.order = w.order
          /\ r.inflight = w.inflight /\ r.tried = w.tried /\ r.budget = w.budget /\ r.pc = pc
      BY <1>1, <2>2 DEF QueryRecord
    <2> HIDE DEF r
    <2>4. w.inflight = {} => w.order = <<>>
      BY <1>2, <1>4 DEF ResolverKeeps, QueryPlace
    <2>5. /\ r.pc \in {"seq", "loop", "win", "lose"} /\ (r.pc = "seq" => query[q].pc = "seq")
          /\ r.pc = "loop" => query[q].pc = "init" /\ r.inflight # {}
          /\ query[q].pc = "seq" /\ r.pc # "seq" => r.inflight = {}
          /\ r.pc = "lose" => /\ query[q].pc \in {"seq", "init", "loop"} /\ r.inflight = {}
                              /\ r.order = <<>> \/ r.budget
          /\ query[q].pc \notin Ready /\ (query[q].budget => r.budget)
      BY <1>2, <2>2, <2>3, <2>4 DEF Ready
    <2> QED
      BY <2>1, <2>3, <2>5, QueryGoes
  <1> QED
    BY <1>3, <1>4

LEMMA QueryHedges ==
  ASSUME ResolverKeeps, NEW q \in Lookups, Resolver!HedgeTimer(q)
  PROVE  ResolverKeeps'
  <1>1. query[q] \in QueryRecord
    BY DEF ResolverKeeps, ResolverTyped
  <1> QED
    BY <1>1, QueryLaunches DEF Resolver!HedgeTimer

LEMMA QueryHears ==
  ASSUME ResolverKeeps, NEW q \in Lookups, NEW p \in Resolver!P, Resolver!Result(q, p)
  PROVE  ResolverKeeps'
  <1> DEFINE w == query[q]
             v == [w EXCEPT !.inflight = @ \ {p}, !.tried = @ \cup {p}]
  <1>1. w \in QueryRecord /\ query \in [Lookups -> QueryRecord]
    BY DEF ResolverKeeps, ResolverTyped
  <1>2. w.pc = "loop" /\ p \in w.inflight /\ UNCHANGED <<cur, made, retiring>>
    BY DEF Resolver!Result
  <1>3. w.inflight \ {p} \in SUBSET Resolver!P /\ w.tried \cup {p} \in SUBSET Resolver!P
    BY <1>1 DEF QueryRecord
  <1>4. /\ v \in QueryRecord /\ v.pc = w.pc /\ v.s = w.s /\ v.mode = w.mode /\ v.order = w.order
        /\ v.inflight = w.inflight \ {p} /\ v.tried = w.tried \cup {p} /\ v.buf = w.buf
    BY <1>1, <1>3 DEF QueryRecord
  <1>5. \/ /\ UNCHANGED <<att, snap>>
           /\ \/ /\ v.inflight # {}
                 /\ query' = [query EXCEPT ![q] = [v EXCEPT !.buf = IF @ = "none" THEN p ELSE @]]
              \/ query' = [query EXCEPT ![q] = [v EXCEPT !.pc = "win", !.cancelled = TRUE]]
              \/ v.order = <<>> /\ query' = [query EXCEPT ![q] = v]
        \/ Resolver!LaunchOne(q, v)
    BY <1>4 DEF Resolver!Result, Resolver!Advances, Resolver!NoProv
  <1> HIDE DEF v
  <1>6. v.inflight \cup v.tried = w.inflight \cup w.tried
    BY <1>2, <1>4
  <1>7. CASE Resolver!LaunchOne(q, v)
    BY <1>2, <1>4, <1>6, <1>7, QueryLaunches
  <1>8. ASSUME NEW r \in QueryRecord, query' = [query EXCEPT ![q] = r], UNCHANGED <<att, snap>>,
               r.s = w.s, r.mode = w.mode, r.order = w.order, r.inflight = v.inflight,
               r.tried = v.tried, r.pc \in {"loop", "win"},
               r.pc = "loop" => r.inflight # {} \/ r.order = <<>>
        PROVE  ResolverKeeps'
    <2>1. QueryPlace(w) /\ Everyone(w) /\ \A o \in Resolver!P : AttemptPlace(w, att[q][o], o)
      BY DEF ResolverKeeps
    <2>2. QueryPlace(r)
      BY <1>2, <1>8, <2>1 DEF QueryPlace, Ready
    <2>3. Range(r.order) \cup r.inflight \cup r.tried = Range(w.order) \cup w.inflight \cup w.tried
      BY <1>6, <1>8
    <2>4. Everyone(r)
      BY <1>2, <1>8, <2>1, <2>3 DEF Everyone
    <2>5. \A o \in Resolver!P : AttemptPlace(r, att[q][o], o)
      BY <1>2, <1>8, <2>1 DEF AttemptPlace
    <2>6. /\ att[q] \in [Resolver!P -> AttemptRecord] /\ att' = [att EXCEPT ![q] = att[q]]
          /\ (r.pc \in Ready <=> query[q].pc \in Ready)
      BY <1>2, <1>8 DEF ResolverKeeps, ResolverTyped, Ready
    <2>7. \A o \in Resolver!P : Holding(att[q][o]) <=> Holding(att[q][o])
      OBVIOUS
    <2> QED
      BY <1>2, <1>8, <2>2, <2>4, <2>5, <2>6, <2>7, SnapKept, ResolverSteps
  <1>9. CASE UNCHANGED <<att, snap>> /\ v.inflight # {} /\
             query' = [query EXCEPT ![q] = [v EXCEPT !.buf = IF @ = "none" THEN p ELSE @]]
    <2> DEFINE buf == IF v.buf = "none" THEN p ELSE v.buf
               r == [v EXCEPT !.buf = buf]
    <2>1. buf \in Resolver!P \cup {"none"}
      BY <1>4 DEF QueryRecord
    <2>2. query' = [query EXCEPT ![q] = r]
      BY <1>4, <1>9 DEF QueryRecord
    <2> HIDE DEF buf
    <2>3. /\ r \in QueryRecord /\ r.pc = v.pc /\ r.s = v.s /\ r.mode = v.mode /\ r.order = v.order
          /\ r.inflight = v.inflight /\ r.tried = v.tried
      BY <1>4, <2>1 DEF QueryRecord
    <2> HIDE DEF r
    <2> QED
      BY <1>2, <1>4, <1>8, <1>9, <2>2, <2>3
  <1>10. CASE UNCHANGED <<att, snap>> /\
              query' = [query EXCEPT ![q] = [v EXCEPT !.pc = "win", !.cancelled = TRUE]]
    <2> DEFINE r == [v EXCEPT !.pc = "win", !.cancelled = TRUE]
    <2>1. query' = [query EXCEPT ![q] = r]
      BY <1>10
    <2>2. /\ r \in QueryRecord /\ r.pc = "win" /\ r.s = v.s /\ r.mode = v.mode /\ r.order = v.order
          /\ r.inflight = v.inflight /\ r.tried = v.tried
      BY <1>4 DEF QueryRecord
    <2> HIDE DEF r
    <2> QED
      BY <1>4, <1>8, <1>10, <2>1, <2>2
  <1>11. CASE UNCHANGED <<att, snap>> /\ v.order = <<>> /\ query' = [query EXCEPT ![q] = v]
    BY <1>2, <1>4, <1>8, <1>11
  <1> QED
    BY <1>5, <1>7, <1>9, <1>10, <1>11

(* --- starting a query ---                                                *)

LEMMA PlansFacts ==
  ASSUME NEW kind \in {"single", "backup", "race", "smart"}, NEW plan \in Resolver!Plans(kind)
  PROVE  /\ plan.order \in Seq(Resolver!P) /\ plan.batch \in Nat \ {0}
         /\ kind # "single" => Range(plan.order) = Resolver!P /\ IsInjective(plan.order)
  <1>1. CASE kind = "single"
    <2>1. plan = Resolver!SinglePlan
      BY <1>1 DEF Resolver!Plans
    <2>2. plan.order = <<Provs[1]>> /\ plan.batch = 1
      BY <2>1 DEF Resolver!SinglePlan
    <2> QED
      BY <1>1, <2>2, ProvsFacts
  <1>2. CASE kind # "single"
    <2>1. \/ \E o \in Resolver!Perms : plan = [order |-> o, batch |-> 1]
          \/ plan = [order |-> Provs, batch |-> Len(Provs)]
      BY <1>2 DEF Resolver!Plans, Resolver!RacePlans, Resolver!BackupOrders
    <2>2. ASSUME NEW o \in Resolver!Perms, plan = [order |-> o, batch |-> 1]
          PROVE  /\ plan.order \in Seq(Resolver!P) /\ plan.batch \in Nat \ {0}
                 /\ Range(plan.order) = Resolver!P /\ IsInjective(plan.order)
      <3>1. plan.order = o /\ plan.batch = 1
        BY <2>2
      <3> QED
        BY <3>1, PermsFacts
    <2>3. CASE plan = [order |-> Provs, batch |-> Len(Provs)]
      <3>1. plan.order = Provs /\ plan.batch = Len(Provs)
        BY <2>3
      <3>2. Range(Provs) = Resolver!P
        BY ResolverOperators DEF Resolver!P
      <3> QED
        BY <3>1, <3>2, ProvsFacts
    <2> QED
      BY <2>1, <2>2, <2>3
  <1> QED
    BY <1>1, <1>2

LEMMA QueryBegins ==
  ASSUME ResolverKeeps, NEW q \in Lookups, NEW kind \in {"single", "backup", "race", "smart"},
         Resolver!Begin(q, kind)
  PROVE  ResolverKeeps'
  <1> DEFINE w == query[q]
             row == [p \in Resolver!P |-> Resolver!NoAtt]
  <1>1. w \in QueryRecord /\ query \in [Lookups -> QueryRecord] /\ cur \in 0..MaxSnaps
    BY DEF ResolverKeeps, ResolverTyped
  <1>2. /\ w.pc \in Ready /\ UNCHANGED <<cur, made, retiring>> /\ att' = [att EXCEPT ![q] = row]
        /\ \A p \in Resolver!P : att[q][p].pc \in {"none", "released"}
    BY DEF Resolver!Begin, Ready
  <1>3. /\ row \in [Resolver!P -> AttemptRecord]
        /\ \A p \in Resolver!P : row[p] = Resolver!NoAtt /\ row[p].pc = "none" /\ ~Holding(row[p])
    BY NoAttFacts
  <1> HIDE DEF row
  <1>4. \A p \in Resolver!P : ~Holding(att[q][p])
    BY <1>2 DEF Holding, Resolver!Busy
  <1>5. \A r : \A p \in Resolver!P : AttemptPlace(r, row[p], p)
    BY <1>3 DEF AttemptPlace, Resolver!Busy
  <1>6. MaxSnaps \in Nat /\ Resolver!Snaps = 1..MaxSnaps /\ <<>> \in Seq(Resolver!P)
    BY AndroidAssumption DEF AndroidAssumption, Resolver!Snaps
  <1>7. Resolver!NoQuery \in QueryRecord
    BY <1>6 DEF Resolver!NoQuery, QueryRecord, Resolver!NoProv
  <1>8. ASSUME NEW r \in QueryRecord, query' = [query EXCEPT ![q] = r], NEW s
        PROVE  AttemptPins(s)' = AttemptPins(s)
    <2>1. PICK p \in Resolver!P : TRUE
      BY ProvsFacts
    <2>2. OthersStay(q, p, r, row, s)
      BY <1>3, <1>4 DEF OthersStay
    <2>3. (r.s = s /\ Holding(row[p])) <=> (query[q].s = s /\ Holding(att[q][p]))
      BY <1>3, <1>4, <2>1
    <2> QED
      BY <1>2, <1>3, <1>8, <2>1, <2>2, <2>3, AttemptPinsStay
  <1>9. CASE cur # 0 /\ ~snap[cur].retired
    <2>1. PICK plan \in Resolver!Plans(kind) :
            query' = [query EXCEPT ![q] = [Resolver!NoQuery EXCEPT !.s = cur,
                   !.mode = kind, !.order = plan.order, !.batch = plan.batch,
                   !.pc = IF Resolver!Sequential(kind) THEN "seq" ELSE "init"]]
      BY <1>9 DEF Resolver!Begin
    <2> DEFINE pc == IF Resolver!Sequential(kind) THEN "seq" ELSE "init"
               r == [Resolver!NoQuery EXCEPT !.s = cur, !.mode = kind, !.order = plan.order,
                                             !.batch = plan.batch, !.pc = pc]
    <2>2. query' = [query EXCEPT ![q] = r]
      BY <2>1
    <2>3. /\ plan.order \in Seq(Resolver!P) /\ plan.batch \in Nat \ {0}
          /\ kind # "single" => Range(plan.order) = Resolver!P /\ IsInjective(plan.order)
      BY PlansFacts
    <2>4. pc \in {"seq", "init"} /\ (pc = "seq" <=> Resolver!Sequential(kind))
      OBVIOUS
    <2> HIDE DEF pc
    <2>5. /\ r \in QueryRecord /\ r.s = cur /\ r.mode = kind /\ r.order = plan.order
          /\ r.batch = plan.batch /\ r.pc = pc /\ r.inflight = {} /\ r.tried = {}
      BY <1>1, <1>6, <1>7, <2>3, <2>4 DEF QueryRecord, Resolver!NoQuery
    <2> HIDE DEF r
    <2>6. cur \in Resolver!Snaps /\ snap' = Resolver!Acquire(cur)
      <3>1. cur \in Resolver!Snaps
        BY <1>1, <1>6, <1>9
      <3>2. snap' = Resolver!Acquire(cur)
        BY <1>9 DEF Resolver!Begin
      <3> QED
        BY <3>1, <3>2
    <2>7. QueryPlace(r)
      <3>1. ~Resolver!Sequential(kind) => kind # "single"
        BY DEF Resolver!Sequential
      <3>2. r.batch > 0
        BY <2>3, <2>5
      <3> QED
        BY <2>3, <2>4, <2>5, <2>6, <3>1, <3>2 DEF QueryPlace
    <2>8. Everyone(r)
      BY <2>3, <2>4, <2>5 DEF Everyone
    <2>9. ASSUME NEW s \in Resolver!Snaps
          PROVE  /\ snap'[s].active = Cardinality(QueryPins(s)') + Cardinality(AttemptPins(s)')
                 /\ snap'[s].closed => snap'[s].retired /\ snap'[s].active = 0
      <3>1. AttemptPins(s)' = AttemptPins(s)
        BY <1>8, <2>2, <2>5
      <3>2. r.pc \notin Ready
        BY <2>4, <2>5 DEF Ready
      <3>3. CASE s = cur
        <4>1. (r.s = s /\ r.pc \notin Ready) /\ ~(query[q].s = s /\ query[q].pc \notin Ready)
          BY <1>2, <2>5, <3>2, <3>3
        <4>2. Cardinality(QueryPins(s)') = Cardinality(QueryPins(s)) + 1
          BY <1>2, <1>3, <2>2, <2>5, <4>1, QueryPinsMove
        <4>3. snap'[s].active = snap[s].active + 1 /\ ~snap'[s].closed
          BY <1>9, <2>6, <3>3, SnapAcquired
        <4> QED
          BY <3>1, <4>2, <4>3, PinsFinite DEF ResolverKeeps, Pinned
      <3>4. CASE s # cur
        <4>1. (r.s = s /\ r.pc \notin Ready) <=> (query[q].s = s /\ query[q].pc \notin Ready)
          BY <1>2, <2>5, <3>4
        <4>2. Cardinality(QueryPins(s)') = Cardinality(QueryPins(s))
          BY <1>2, <1>3, <2>2, <2>5, <4>1, QueryPinsMove
        <4>3. snap'[s] = snap[s]
          BY <1>9, <2>6, <3>4, SnapAcquired
        <4> QED
          BY <3>1, <4>2, <4>3 DEF ResolverKeeps, Pinned
      <3> QED
        BY <3>3, <3>4
    <2>10. /\ snap' \in [Resolver!Snaps -> SnapRecord]
           /\ \A s \in Resolver!Snaps : snap'[s].retired = snap[s].retired
      BY <1>9, <2>6, SnapAcquired
    <2>11. \A p \in Resolver!P : AttemptPlace(r, row[p], p)
      BY <1>5
    <2> QED
      BY <1>2, <1>3, <2>2, <2>5, <2>7, <2>8, <2>9, <2>10, <2>11, ResolverMoves
  <1>10. CASE ~(cur # 0 /\ ~snap[cur].retired)
    <2> DEFINE r == [Resolver!NoQuery EXCEPT !.pc = "failed"]
    <2>1. query' = [query EXCEPT ![q] = r] /\ UNCHANGED snap
      BY <1>10 DEF Resolver!Begin
    <2>2. r \in QueryRecord /\ r.s = 0 /\ r.pc = "failed" /\ r.mode = "single"
      BY <1>7 DEF QueryRecord, Resolver!NoQuery
    <2> HIDE DEF r
    <2>3. QueryPlace(r) /\ Everyone(r)
      BY <2>2 DEF QueryPlace, Everyone, Ready
    <2>4. ASSUME NEW s \in Resolver!Snaps
          PROVE  /\ snap'[s].active = Cardinality(QueryPins(s)') + Cardinality(AttemptPins(s)')
                 /\ snap'[s].closed => snap'[s].retired /\ snap'[s].active = 0
      <3>1. AttemptPins(s)' = AttemptPins(s)
        BY <1>8, <2>1, <2>2
      <3>2. (r.s = s /\ r.pc \notin Ready) <=> (query[q].s = s /\ query[q].pc \notin Ready)
        BY <1>2, <2>2 DEF Ready
      <3>3. Cardinality(QueryPins(s)') = Cardinality(QueryPins(s))
        BY <1>2, <1>3, <2>1, <2>2, <3>2, QueryPinsMove
      <3> QED
        BY <2>1, <3>1, <3>3 DEF ResolverKeeps, Pinned
    <2>5. \A p \in Resolver!P : AttemptPlace(r, row[p], p)
      BY <1>5
    <2> QED
      BY <1>2, <1>3, <2>1, <2>2, <2>3, <2>4, <2>5, SnapKept, ResolverMoves
  <1> QED
    BY <1>9, <1>10

(* --- snapshots ---                                                       *)

LEMMA Configures ==
  ASSUME ResolverKeeps, Resolver!ConfigureProviders \/ Resolver!Shutdown
  PROVE  ResolverKeeps'
  <1>1. UNCHANGED <<snap, query, att>>
    BY DEF Resolver!ConfigureProviders, Resolver!Shutdown
  <1>2. \A s : QueryPins(s)' = QueryPins(s) /\ AttemptPins(s)' = AttemptPins(s)
    BY <1>1 DEF QueryPins, AttemptPins
  <1>3. Pinned'
    BY <1>1, <1>2 DEF ResolverKeeps, Pinned
  <1>4. MaxSnaps \in Nat /\ Resolver!Snaps = 1..MaxSnaps
    BY AndroidAssumption DEF AndroidAssumption, Resolver!Snaps
  <1>5. cur \in 0..MaxSnaps /\ made \in 0..MaxSnaps /\ retiring \subseteq Resolver!Snaps
    BY DEF ResolverKeeps, ResolverTyped
  <1>6. cur' \in 0..MaxSnaps /\ made' \in 0..MaxSnaps
    BY <1>4, <1>5 DEF Resolver!ConfigureProviders, Resolver!Shutdown
  <1>7. cur # 0 => cur \in Resolver!Snaps
    BY <1>4, <1>5
  <1>8. retiring' \subseteq Resolver!Snaps
    BY <1>5, <1>7 DEF Resolver!ConfigureProviders, Resolver!Shutdown
  <1> QED
    BY <1>1, <1>3, <1>6, <1>8 DEF ResolverKeeps, ResolverTyped, Everyone

LEMMA Retires ==
  ASSUME ResolverKeeps, NEW s \in Resolver!Snaps, Resolver!Retire(s)
  PROVE  ResolverKeeps'
  <1> DEFINE r == [snap[s] EXCEPT !.retired = TRUE]
             c == IF r.active = 0 /\ ~r.closed THEN Resolver!CloseProviders(r) ELSE r
  <1>1. snap \in [Resolver!Snaps -> SnapRecord] /\ snap[s] \in SnapRecord
    BY DEF ResolverKeeps, ResolverTyped
  <1>2. /\ snap' = [snap EXCEPT ![s] = c] /\ UNCHANGED <<cur, made, query, att>>
        /\ retiring' = retiring \ {s}
    BY DEF Resolver!Retire
  <1>3. r \in SnapRecord /\ r.retired /\ r.active = snap[s].active /\ r.closed = snap[s].closed
    BY <1>1 DEF SnapRecord
  <1> HIDE DEF r
  <1>4. 0 \in 0..MaxIdle
    BY AndroidAssumption DEF AndroidAssumption
  <1>5. /\ c \in SnapRecord /\ c.retired /\ c.active = r.active
        /\ c.closed => r.closed \/ r.active = 0
    BY <1>3, <1>4 DEF SnapRecord, Resolver!CloseProviders
  <1> HIDE DEF c
  <1>6. snap' \in [Resolver!Snaps -> SnapRecord] /\ \A t \in Resolver!Snaps : snap'[t] = IF t = s THEN c ELSE snap[t]
    BY <1>1, <1>2, <1>5
  <1>7. \A t \in Resolver!Snaps : snap[t].retired => snap'[t].retired
    BY <1>5, <1>6
  <1>8. \A t : QueryPins(t)' = QueryPins(t) /\ AttemptPins(t)' = AttemptPins(t)
    BY <1>2 DEF QueryPins, AttemptPins
  <1>9. ASSUME NEW t \in Resolver!Snaps
        PROVE  /\ snap'[t].active = Cardinality(QueryPins(t)) + Cardinality(AttemptPins(t))
               /\ snap'[t].closed => snap'[t].retired /\ snap'[t].active = 0
    <2>1. /\ snap[t].active = Cardinality(QueryPins(t)) + Cardinality(AttemptPins(t))
          /\ snap[t].closed => snap[t].retired /\ snap[t].active = 0
      BY DEF ResolverKeeps, Pinned
    <2>2. CASE t = s
      BY <1>3, <1>5, <1>6, <2>1, <2>2
    <2>3. CASE t # s
      BY <1>6, <2>1, <2>3
    <2> QED
      BY <2>2, <2>3
  <1>10. Pinned'
    BY <1>8, <1>9 DEF Pinned
  <1>11. ASSUME NEW q \in Lookups PROVE Everyone(query[q])'
    <2>1. Everyone(query[q]) /\ QueryPlace(query[q]) /\ query[q] \in QueryRecord
      BY DEF ResolverKeeps, ResolverTyped
    <2>2. query[q].s # 0 => query[q].s \in Resolver!Snaps
      <3>1. query[q].s \in 0..MaxSnaps /\ MaxSnaps \in Nat
        BY <2>1, AndroidAssumption DEF QueryRecord, AndroidAssumption
      <3> QED
        BY <3>1 DEF Resolver!Snaps
    <2>3. query[q].pc \notin Ready => query[q].s \in Resolver!Snaps
      BY <2>1 DEF QueryPlace
    <2> QED
      BY <1>2, <1>7, <2>1, <2>2, <2>3 DEF Everyone, Ready
  <1>12. ResolverTyped'
    BY <1>2, <1>6 DEF ResolverKeeps, ResolverTyped
  <1> QED
    BY <1>2, <1>10, <1>11, <1>12 DEF ResolverKeeps

LEMMA ResolverNext == ResolverKeeps /\ Resolver!Next => ResolverKeeps'
  <1> SUFFICES ASSUME ResolverKeeps, Resolver!Next PROVE ResolverKeeps'
    OBVIOUS
  <1>1. CASE \/ Resolver!ConfigureProviders \/ Resolver!Shutdown
             \/ \E s \in Resolver!Snaps : Resolver!Retire(s)
    BY <1>1, Configures, Retires
  <1>2. ASSUME NEW q \in Lookups, NEW kind \in {"single", "backup", "race", "smart"},
               Resolver!Begin(q, kind)
        PROVE  ResolverKeeps'
    BY <1>2, QueryBegins
  <1>3. ASSUME NEW q \in Lookups, Resolver!QueryStep(q) PROVE ResolverKeeps'
    <2>1. CASE \/ Resolver!BudgetSpent(q) \/ Resolver!SeqExhausted(q) \/ Resolver!Decided(q)
               \/ Resolver!GraceOver(q) \/ Resolver!Exhausted(q)
      BY <2>1, QueryMoves
    <2>2. CASE Resolver!AskNext(q)
      BY <2>2, QueryAsks
    <2>3. CASE Resolver!LaunchBatch(q)
      BY <2>3, QueryLaunchesBatch
    <2>4. CASE Resolver!HedgeTimer(q)
      BY <2>4, QueryHedges
    <2>5. CASE Resolver!Return(q)
      BY <2>5, QueryReturns
    <2>6. ASSUME NEW p \in Resolver!P, Resolver!SeqResult(q, p) PROVE ResolverKeeps'
      BY <2>6, QueryReceives
    <2>7. ASSUME NEW p \in Resolver!P, Resolver!Result(q, p) PROVE ResolverKeeps'
      BY <2>7, QueryHears
    <2> QED
      BY <1>3, <2>1, <2>2, <2>3, <2>4, <2>5, <2>6, <2>7 DEF Resolver!QueryStep
  <1>4. ASSUME NEW q \in Lookups, NEW p \in Resolver!P, Resolver!Attempt(q, p) PROVE ResolverKeeps'
    <2>1. CASE \/ Resolver!GiveUp(q, p) \/ Resolver!QueryPlain(q, p) \/ Resolver!QueryDoH(q, p)
               \/ Resolver!QueryDoT(q, p)
      BY <2>1, AttemptSends
    <2>2. CASE Resolver!DialDoT(q, p) \/ Resolver!PutDoT(q, p) \/ Resolver!QueryDoQ(q, p)
      BY <2>2, AttemptConnects
    <2>3. CASE Resolver!AttemptEnds(q, p)
      BY <2>3, AttemptReturns
    <2> QED
      BY <1>4, <2>1, <2>2, <2>3 DEF Resolver!Attempt
  <1> QED
    BY <1>1, <1>2, <1>3, <1>4 DEF Resolver!Next

-----------------------------------------------------------------------------
(* The session: proofs.                                                    *)

LEMMA EngineOperators ==
  /\ \A S : Engine!Cardinality(S) = Cardinality(S)
  /\ Engine!Telemetry = {StartOrder[i] : i \in DOMAIN StartOrder}
  /\ Engine!StopOrder = [i \in 1..Len(StartOrder) |-> StartOrder[(Len(StartOrder) - i) + 1]]
  <1>1. \A S : Engine!Cardinality(S) = Cardinality(S)
    BY DEF Engine!Cardinality, Cardinality
  <1>2. Engine!Telemetry = {StartOrder[i] : i \in DOMAIN StartOrder}
    BY DEF Engine!Telemetry, Engine!Range
  <1>3. Engine!StopOrder = [i \in 1..Len(StartOrder) |-> StartOrder[(Len(StartOrder) - i) + 1]]
    BY DEF Engine!StopOrder, Engine!Reverse
  <1> QED
    BY <1>1, <1>2, <1>3

(* The goroutines are stopped in the opposite order, all of them.          *)
LEMMA OrderFacts ==
  /\ 1 \in Order /\ Len(StartOrder) \in Nat
  /\ \A i \in Order : i \in Nat /\ StartOrder[i] \in Engine!Telemetry /\ Engine!StopOrder[i] \in Engine!Telemetry
  /\ \A x \in Engine!Telemetry : \E j \in Order : x = Engine!StopOrder[j]
  /\ \A i \in Order : i < Len(StartOrder) => i + 1 \in Order
  <1> DEFINE n == Len(StartOrder)
  <1>1. n \in Nat \ {0} /\ DOMAIN StartOrder = 1..n
    BY AndroidAssumption DEF AndroidAssumption
  <1> HIDE DEF n
  <1>2. \A i \in 1..n : (n - i) + 1 \in 1..n /\ (n - ((n - i) + 1)) + 1 = i
    BY <1>1
  <1>3. Order = 1..n
    BY DEF Order, n
  <1>4. Engine!Telemetry = {StartOrder[i] : i \in 1..n}
    BY <1>1, EngineOperators
  <1>5. \A i \in 1..n : Engine!StopOrder[i] = StartOrder[(n - i) + 1]
    BY EngineOperators DEF n
  <1>6. \A i \in 1..n : StartOrder[i] = Engine!StopOrder[(n - i) + 1]
    BY <1>2, <1>5
  <1>7. \A i \in 1..n : StartOrder[i] \in Engine!Telemetry /\ Engine!StopOrder[i] \in Engine!Telemetry
    BY <1>2, <1>4, <1>5
  <1>8. \A x \in Engine!Telemetry : \E j \in 1..n : x = Engine!StopOrder[j]
    BY <1>2, <1>4, <1>6
  <1>9. 1 \in 1..n /\ \A i \in 1..n : i \in Nat /\ (i < n => i + 1 \in 1..n)
    BY <1>1
  <1> QED
    BY <1>1, <1>3, <1>7, <1>8, <1>9 DEF n

LEMMA UnstoppedFinite ==
  /\ IsFiniteSet(Unstopped) /\ Cardinality(Unstopped) \in Nat
  /\ IsFiniteSet(Stops) /\ Cardinality(Stops) \in Nat
  <1>1. IsFiniteSet(Stops) /\ Unstopped \in SUBSET Stops
    BY AndroidAssumption DEF AndroidAssumption, Unstopped
  <1> QED
    BY <1>1, FS_Subset, FS_CardinalityType

LEMMA NoneIsNobody == None \notin Calls
  BY AndroidAssumption DEF AndroidAssumption

LEMMA EngineGives ==
  EngineKeeps => Engine!TypeOK /\ Engine!NothingLeftBehind /\ Engine!NoOrphanResolver
  <1> SUFFICES ASSUME EngineKeeps
               PROVE  Engine!TypeOK /\ Engine!NothingLeftBehind /\ Engine!NoOrphanResolver
    OBVIOUS
  <1>1. eng \in EngineRecord /\ call \in [Calls -> CallRecord] /\ tele \in [Engine!Telemetry -> TeleRecord]
    BY DEF EngineKeeps, EngineTyped
  <1>2. eng.gen \in 0..Cardinality(Stops)
    <2>1. eng.gen \in Nat /\ eng.gen + Cardinality(Unstopped) <= Cardinality(Stops)
      BY <1>1 DEF EngineKeeps, EngineTyped, EngineRecord
    <2> QED
      BY <2>1, UnstoppedFinite
  <1>3. eng \in [running: BOOLEAN, gen: 0..Cardinality(Stops),
              stack: Calls \cup {None}, tun: Calls \cup {None},
              done: Calls \cup {None}, res: Calls \cup {None},
              srv: Calls \cup {None}]
    BY <1>1, <1>2 DEF EngineRecord, Slot
  <1>4. \A c \in Calls : call[c] \in CallRecord
    BY <1>1
  <1>5. \A x \in Engine!Telemetry : tele[x].chan \in {"nil", "open", "closed"}
    BY <1>1 DEF TeleRecord
  <1>6. mode \in {"full", "standalone"} /\ dead \in BOOLEAN
    BY DEF EngineKeeps, EngineTyped
  <1>7. Engine!TypeOK
    BY <1>3, <1>4, <1>5, <1>6, EngineOperators DEF Engine!TypeOK, CallRecord
  <1>8. \A c \in Calls : call[c].pc = "ended" =>
          call[c].stack # "on" /\ call[c].writer # "on" /\ call[c].fd # "open"
    BY DEF EngineKeeps, CallPlace, Holds, Published
  <1>9. ASSUME \A c \in Calls : Engine!Quiet(call[c].pc)
        PROVE  \A x \in Engine!Telemetry : ~tele[x].running
    BY <1>9 DEF EngineKeeps, Covered, Covers, Engine!Quiet
  <1> QED
    BY <1>7, <1>8, <1>9 DEF Engine!NothingLeftBehind, EngineKeeps

LEMMA EngineUnchanged == EngineKeeps /\ UNCHANGED engineVars => EngineKeeps'
  BY DEF EngineKeeps, engineVars, EngineTyped, Unstopped, Ending, Covered, Serving,
         Engine!NoOrphanResolver, CallPlace

LEMMA EngineInit == Engine!Init => EngineKeeps
  <1> SUFFICES ASSUME Engine!Init PROVE EngineKeeps
    OBVIOUS
  <1> USE DEF Engine!Init
  <1>1. Engine!NoCall \in CallRecord
    BY OrderFacts DEF Engine!NoCall, CallRecord, Slot, Standalone
  <1>2. Engine!NoStop \in StopRecord
    BY OrderFacts DEF Engine!NoStop, StopRecord, Slot
  <1>3. eng \in EngineRecord /\ eng.gen = 0 /\ ~eng.running /\ eng.done = None /\ eng.tun = None /\ eng.res = None
    BY DEF Engine!NewEngine, EngineRecord, Slot
  <1>4. /\ tele \in [Engine!Telemetry -> TeleRecord]
        /\ \A x \in Engine!Telemetry : ~tele[x].running
    BY DEF TeleRecord
  <1>5. /\ call \in [Calls -> CallRecord] /\ stop \in [Stops -> StopRecord]
        /\ \A s \in Stops : stop[s].pc = "idle" /\ stop[s].done = None
    BY <1>1, <1>2 DEF Engine!NoStop
  <1>6. Unstopped = Stops
    BY <1>5 DEF Unstopped
  <1>7. eng.gen + Cardinality(Unstopped) <= Cardinality(Stops)
    BY <1>3, <1>6, UnstoppedFinite
  <1>8. EngineTyped
    BY <1>3, <1>4, <1>5, <1>7 DEF EngineTyped
  <1>9. Ending /\ Covered /\ Serving
    BY <1>3, <1>4, <1>5, NoneIsNobody DEF Ending, Covered, Serving
  <1>10. \A c \in Calls : /\ call[c].pc = "idle" /\ call[c].gen = 0 /\ call[c].done = "none" /\ call[c].fd = "none"
                          /\ call[c].writer = "none" /\ call[c].stack = "none" /\ call[c].oldRes = None
                          /\ call[c].res = "none"
    BY DEF Engine!NoCall
  <1>11. \A c \in Calls : CallPlace(c, call[c], eng)
    BY <1>3, <1>10, NoneIsNobody DEF CallPlace, Owned, Holds, Active, Standalone
  <1>12. Engine!NoOrphanResolver
    BY <1>10 DEF Engine!NoOrphanResolver
  <1> QED
    BY <1>8, <1>9, <1>11, <1>12 DEF EngineKeeps

(* --- steps of one start call ---                                         *)

LEMMA EngineMoves ==
  ASSUME EngineKeeps, NEW c \in Calls, NEW r \in CallRecord, NEW e \in EngineRecord,
         eng' = e, call' = [call EXCEPT ![c] = r], UNCHANGED <<mode, stop>>, dead' \in BOOLEAN,
         tele' \in [Engine!Telemetry -> TeleRecord], e.gen = eng.gen,
         CallPlace(c, r, e), \A d \in Calls \ {c} : CallPlace(d, call[d], e),
         r.gen = call[c].gen \/ call[c].pc = "idle", r.pc # "idle",
         mode = "standalone" /\ ~e.running => e.res = None,
         mode = "standalone" => Engine!NoOrphanResolver',
         \A x \in Engine!Telemetry : tele'[x].running =>
           Covers(r, x) \/ \E d \in Calls \ {c} : Covers(call[d], x)
  PROVE  EngineKeeps'
  <1>1. \A d \in Calls : call'[d] = IF d = c THEN r ELSE call[d]
    BY DEF EngineKeeps, EngineTyped
  <1>2. EngineTyped'
    <2>1. call' \in [Calls -> CallRecord] /\ stop' \in [Stops -> StopRecord] /\ mode' \in {"full", "standalone"}
      BY DEF EngineKeeps, EngineTyped
    <2>2. Unstopped' = Unstopped
      BY DEF Unstopped
    <2>3. eng'.gen + Cardinality(Unstopped') <= Cardinality(Stops)
      BY <2>2 DEF EngineKeeps, EngineTyped
    <2> QED
      BY <2>1, <2>3 DEF EngineTyped
  <1>3. Ending'
    BY <1>1 DEF EngineKeeps, Ending
  <1>4. Covered'
    <2>1. \A x \in Engine!Telemetry : tele'[x].running => \E d \in Calls : Covers(call'[d], x)
      BY <1>1
    <2> QED
      BY <2>1 DEF Covered
  <1>5. Serving' /\ Engine!NoOrphanResolver'
    BY DEF Serving, Engine!NoOrphanResolver
  <1>6. \A d \in Calls : CallPlace(d, call'[d], eng')
    BY <1>1
  <1>7. \A d \in Calls : CallPlace(d, call[d], eng)'
    BY <1>6 DEF CallPlace
  <1> QED
    BY <1>2, <1>3, <1>4, <1>5, <1>7 DEF EngineKeeps

(* ... that hands no resolver over and leaves the telemetry alone.         *)
LEMMA EngineSteps ==
  ASSUME EngineKeeps, NEW c \in Calls, NEW r \in CallRecord, NEW e \in EngineRecord,
         eng' = e, call' = [call EXCEPT ![c] = r], UNCHANGED <<mode, stop, tele, dead>>,
         e.gen = eng.gen,
         CallPlace(c, r, e), \A d \in Calls \ {c} : CallPlace(d, call[d], e),
         r.gen = call[c].gen \/ call[c].pc = "idle", r.pc # "idle",
         mode = "standalone" => /\ e.running = eng.running /\ e.res = eng.res
                                /\ r.res = call[c].res /\ r.oldRes = call[c].oldRes,
         \A x \in Engine!Telemetry : Covers(call[c], x) => Covers(r, x)
  PROVE  EngineKeeps'
  <1>1. dead' \in BOOLEAN /\ tele' \in [Engine!Telemetry -> TeleRecord]
    BY DEF EngineKeeps, EngineTyped
  <1>2. \A d \in Calls : call'[d] = IF d = c THEN r ELSE call[d]
    BY DEF EngineKeeps, EngineTyped
  <1>3. mode = "standalone" => Engine!NoOrphanResolver'
    <2> SUFFICES ASSUME mode = "standalone", NEW d \in Calls, call'[d].res = "live"
                 PROVE  \/ eng'.res = d \/ \E k \in Calls : call'[k].oldRes = d
                        \/ \E s \in Stops : stop'[s].res = d /\ stop'[s].pc = "shut"
      BY DEF Engine!NoOrphanResolver
    <2>1. \A k \in Calls : call'[k].res = call[k].res /\ call'[k].oldRes = call[k].oldRes
      BY <1>2
    <2>2. \/ eng.res = d \/ \E k \in Calls : call[k].oldRes = d
          \/ \E s \in Stops : stop[s].res = d /\ stop[s].pc = "shut"
      BY <2>1 DEF EngineKeeps, Engine!NoOrphanResolver
    <2> QED
      BY <2>1, <2>2
  <1>4. mode = "standalone" /\ ~e.running => e.res = None
    BY DEF EngineKeeps, Serving
  <1>5. \A x \in Engine!Telemetry : tele'[x].running =>
           Covers(r, x) \/ \E d \in Calls \ {c} : Covers(call[d], x)
    BY DEF EngineKeeps, Covered
  <1> QED
    BY <1>1, <1>3, <1>4, <1>5, EngineMoves

LEMMA CallFacts ==
  ASSUME EngineKeeps, NEW c \in Calls
  PROVE  /\ call[c] \in CallRecord /\ call \in [Calls -> CallRecord] /\ eng \in EngineRecord
         /\ \A d \in Calls : CallPlace(d, call[d], eng)
  BY DEF EngineKeeps, EngineTyped

(* A StartFull takes a step of its own.                                    *)
LEMMA EngineGoes ==
  ASSUME EngineKeeps, NEW c \in Calls, NEW r \in CallRecord,
         call' = [call EXCEPT ![c] = r], UNCHANGED <<mode, eng, stop, tele, dead>>,
         CallPlace(c, r, eng), r.gen = call[c].gen, r.pc # "idle",
         r.res = call[c].res, r.oldRes = call[c].oldRes,
         \A x \in Engine!Telemetry : Covers(call[c], x) => Covers(r, x)
  PROVE  EngineKeeps'
  <1>1. eng \in EngineRecord /\ eng' = eng /\ \A d \in Calls \ {c} : CallPlace(d, call[d], eng)
    BY CallFacts
  <1> QED
    BY <1>1, EngineSteps

(* --- StartFull ---                                                       *)

LEMMA StartsFull ==
  ASSUME EngineKeeps, NEW c \in Calls, Engine!StartFull(c)
  PROVE  EngineKeeps'
  <1> DEFINE w == call[c]
  <1>1. /\ w \in CallRecord /\ call \in [Calls -> CallRecord] /\ eng \in EngineRecord
        /\ \A d \in Calls : CallPlace(d, call[d], eng)
    BY CallFacts
  <1>2. mode = "full" /\ w.pc = "idle" /\ UNCHANGED <<mode, stop, tele, dead>>
    BY DEF Engine!StartFull, Engine!At
  <1>3. \A x \in Engine!Telemetry : ~Covers(w, x)
    BY <1>2 DEF Covers
  <1>4. CallPlace(c, w, eng)
    BY <1>1
  <1>5. CASE eng.running
    <2> DEFINE r == [w EXCEPT !.pc = "ended"]
    <2>1. call' = [call EXCEPT ![c] = r] /\ UNCHANGED eng
      BY <1>1, <1>5 DEF Engine!StartFull, Engine!Goto
    <2>2. /\ r \in CallRecord /\ r.pc = "ended" /\ r.gen = w.gen /\ r.fd = w.fd /\ r.writer = w.writer
          /\ r.stack = w.stack /\ r.done = w.done /\ r.res = w.res /\ r.oldRes = w.oldRes
      BY <1>1 DEF CallRecord, Standalone
    <2> HIDE DEF r
    <2>3. CallPlace(c, r, eng)
      BY <1>2, <1>4, <2>2 DEF CallPlace, Owned, Holds, Active, Published
    <2> QED
      BY <1>2, <1>3, <2>1, <2>2, <2>3, EngineGoes
  <1>6. CASE ~eng.running
    <2> DEFINE r == [w EXCEPT !.pc = "build", !.gen = eng.gen, !.done = "open", !.res = "live"]
               e == [eng EXCEPT !.running = TRUE, !.done = c, !.res = c]
    <2>1. call' = [call EXCEPT ![c] = r] /\ eng' = e
      BY <1>1, <1>6 DEF Engine!StartFull
    <2>2. eng.gen \in Nat
      BY <1>1 DEF EngineRecord
    <2>3. /\ r \in CallRecord /\ r.pc = "build" /\ r.gen = eng.gen /\ r.fd = w.fd /\ r.writer = w.writer
          /\ r.stack = w.stack /\ r.done = "open" /\ r.oldRes = w.oldRes
      BY <1>1, <2>2 DEF CallRecord, Active
    <2>4. /\ e \in EngineRecord /\ e.running = TRUE /\ e.done = c /\ e.tun = eng.tun /\ e.gen = eng.gen
      BY <1>1 DEF EngineRecord, Slot
    <2> HIDE DEF r, e
    <2>5. \A d \in Calls : eng.done # d /\ eng.tun # d
      BY <1>1, <1>6 DEF CallPlace, Owned
    <2>6. CallPlace(c, r, e)
      BY <1>2, <1>4, <2>2, <2>3, <2>4, <2>5 DEF CallPlace, Owned, Holds, Active, Published
    <2>7. \A d \in Calls \ {c} : CallPlace(d, call[d], e)
      BY <1>1, <2>4, <2>5 DEF CallPlace, Owned, Holds
    <2> QED
      BY <1>2, <1>3, <2>1, <2>3, <2>4, <2>6, <2>7, EngineSteps
  <1> QED
    BY <1>5, <1>6

LEMMA Fails ==
  ASSUME EngineKeeps, NEW c \in Calls, Engine!Fail(c)
  PROVE  EngineKeeps'
  <1> DEFINE w == call[c]
             r == [w EXCEPT !.pc = "ended"]
             e == IF Engine!StillCurrent(c) THEN [eng EXCEPT !.running = FALSE, !.done = None] ELSE eng
  <1>1. /\ w \in CallRecord /\ call \in [Calls -> CallRecord] /\ eng \in EngineRecord
        /\ \A d \in Calls : CallPlace(d, call[d], eng)
    BY CallFacts
  <1>2. /\ w.pc = "failed" /\ UNCHANGED <<mode, stop, tele, dead>>
        /\ call' = [call EXCEPT ![c] = r] /\ eng' = e
    BY <1>1 DEF Engine!Fail, Engine!At, Engine!Goto
  <1>3. /\ r \in CallRecord /\ r.pc = "ended" /\ r.gen = w.gen /\ r.fd = w.fd /\ r.writer = w.writer
        /\ r.stack = w.stack /\ r.done = w.done /\ r.res = w.res /\ r.oldRes = w.oldRes
    BY <1>1 DEF CallRecord, Standalone
  <1> HIDE DEF r
  <1>4. /\ e \in EngineRecord /\ e.tun = eng.tun /\ e.gen = eng.gen /\ e.res = eng.res
        /\ \/ eng.gen = w.gen /\ e.done = None
           \/ ~(eng.running /\ eng.gen = w.gen) /\ e.done = eng.done /\ e.running = eng.running
    BY <1>1 DEF EngineRecord, Slot, Engine!StillCurrent
  <1> HIDE DEF e
  <1>5. mode # "standalone" /\ \A x \in Engine!Telemetry : ~Covers(w, x)
    BY <1>1, <1>2 DEF CallPlace, Standalone, Covers
  <1>6. CallPlace(c, r, e)
    <2>1. CallPlace(c, w, eng)
      BY <1>1
    <2>2. eng.tun # c /\ e.done # c
      BY <1>2, <1>4, <2>1, NoneIsNobody DEF CallPlace, Owned, Published
    <2> QED
      BY <1>2, <1>3, <1>4, <1>5, <2>1, <2>2 DEF CallPlace, Owned, Holds, Active, Published
  <1>7. ASSUME NEW d \in Calls \ {c} PROVE CallPlace(d, call[d], e)
    <2>1. CallPlace(c, w, eng) /\ CallPlace(d, call[d], eng)
      BY <1>1
    <2>2. CASE eng.gen = w.gen /\ e.done = None
      <3>1. eng.done = c
        BY <1>2, <2>1, <2>2 DEF CallPlace, Owned, Active
      <3>2. eng.done # d /\ eng.tun # d
        BY <2>1, <3>1 DEF CallPlace, Owned
      <3> QED
        BY <1>4, <2>1, <2>2, <3>2, NoneIsNobody DEF CallPlace, Owned, Holds
    <2>3. CASE e.done = eng.done /\ e.running = eng.running
      BY <1>4, <2>1, <2>3 DEF CallPlace, Owned, Holds
    <2> QED
      BY <1>4, <2>2, <2>3
  <1> QED
    BY <1>2, <1>3, <1>4, <1>5, <1>6, <1>7, EngineSteps

LEMMA Builds ==
  ASSUME EngineKeeps, NEW c \in Calls, Engine!Build(c)
  PROVE  EngineKeeps'
  <1> DEFINE w == call[c]
  <1>1. /\ w \in CallRecord /\ call \in [Calls -> CallRecord] /\ CallPlace(c, w, eng)
    BY CallFacts
  <1>2. w.pc = "build" /\ UNCHANGED <<mode, eng, stop, tele, dead>>
    BY DEF Engine!Build, Engine!At
  <1>3. \A x \in Engine!Telemetry : ~Covers(w, x)
    BY <1>2 DEF Covers
  <1>4. CASE Engine!Goto(c, "failed")
    <2> DEFINE r == [w EXCEPT !.pc = "failed"]
    <2>1. call' = [call EXCEPT ![c] = r]
      BY <1>1, <1>4 DEF Engine!Goto
    <2>2. /\ r \in CallRecord /\ r.pc = "failed" /\ r.gen = w.gen /\ r.fd = w.fd /\ r.writer = w.writer
          /\ r.stack = w.stack /\ r.done = w.done /\ r.res = w.res /\ r.oldRes = w.oldRes
      BY <1>1 DEF CallRecord, Active
    <2> HIDE DEF r
    <2>3. CallPlace(c, r, eng)
      BY <1>1, <1>2, <2>2 DEF CallPlace, Owned, Holds, Active, Published, Standalone
    <2> QED
      BY <1>2, <1>3, <2>1, <2>2, <2>3, EngineGoes
  <1>5. CASE call' = [call EXCEPT ![c].pc = "publish", ![c].fd = "open", ![c].stack = "new", ![c].writer = "on"]
    <2> DEFINE r == [w EXCEPT !.pc = "publish", !.fd = "open", !.stack = "new", !.writer = "on"]
    <2>1. call' = [call EXCEPT ![c] = r]
      BY <1>1, <1>5
    <2>2. /\ r \in CallRecord /\ r.pc = "publish" /\ r.gen = w.gen
          /\ r.stack = "new" /\ r.done = w.done /\ r.res = w.res /\ r.oldRes = w.oldRes
      BY <1>1 DEF CallRecord, Active
    <2> HIDE DEF r
    <2>3. CallPlace(c, r, eng)
      BY <1>1, <1>2, <2>2 DEF CallPlace, Owned, Holds, Active, Published, Standalone
    <2> QED
      BY <1>2, <1>3, <2>1, <2>2, <2>3, EngineGoes
  <1> QED
    BY <1>4, <1>5 DEF Engine!Build

LEMMA Publishes ==
  ASSUME EngineKeeps, NEW c \in Calls, Engine!Publish(c)
  PROVE  EngineKeeps'
  <1> DEFINE w == call[c]
  <1>1. /\ w \in CallRecord /\ call \in [Calls -> CallRecord] /\ eng \in EngineRecord
        /\ \A d \in Calls : CallPlace(d, call[d], eng)
    BY CallFacts
  <1>2. w.pc = "publish" /\ UNCHANGED <<mode, stop, tele, dead>>
    BY DEF Engine!Publish, Engine!At
  <1>3. \A x \in Engine!Telemetry : ~Covers(w, x)
    BY <1>2 DEF Covers
  <1>4. CallPlace(c, w, eng)
    BY <1>1
  <1>5. CASE Engine!StillCurrent(c)
    <2> DEFINE r == [w EXCEPT !.pc = "start"]
               e == [eng EXCEPT !.tun = c, !.stack = c]
    <2>1. call' = [call EXCEPT ![c] = r] /\ eng' = e
      BY <1>1, <1>5 DEF Engine!Publish, Engine!Goto
    <2>2. /\ r \in CallRecord /\ r.pc = "start" /\ r.gen = w.gen /\ r.fd = w.fd /\ r.writer = w.writer
          /\ r.stack = w.stack /\ r.done = w.done /\ r.res = w.res /\ r.oldRes = w.oldRes
      BY <1>1 DEF CallRecord, Active
    <2>3. /\ e \in EngineRecord /\ e.running = eng.running /\ e.done = eng.done /\ e.tun = c
          /\ e.gen = eng.gen /\ e.res = eng.res
      BY <1>1 DEF EngineRecord, Slot
    <2> HIDE DEF r, e
    <2>4. eng.done = c
      BY <1>2, <1>4, <1>5 DEF CallPlace, Owned, Engine!StillCurrent, Active
    <2>5. CallPlace(c, r, e)
      BY <1>2, <1>4, <2>2, <2>3, <2>4 DEF CallPlace, Owned, Holds, Active, Published, Standalone
    <2>6. ASSUME NEW d \in Calls \ {c} PROVE CallPlace(d, call[d], e)
      <3>1. CallPlace(d, call[d], eng)
        BY <1>1
      <3>2. eng.tun # d
        BY <2>4, <3>1 DEF CallPlace, Owned
      <3> QED
        BY <2>3, <3>1, <3>2 DEF CallPlace, Owned, Holds
    <2> QED
      BY <1>2, <1>3, <2>1, <2>2, <2>3, <2>5, <2>6, EngineSteps
  <1>6. CASE ~Engine!StillCurrent(c)
    <2> DEFINE r == [w EXCEPT !.pc = "ended", !.writer = "halted", !.fd = "closed"]
    <2>1. call' = [call EXCEPT ![c] = r] /\ UNCHANGED eng
      BY <1>1, <1>6 DEF Engine!Publish
    <2>2. /\ r \in CallRecord /\ r.pc = "ended" /\ r.gen = w.gen /\ r.fd = "closed" /\ r.writer = "halted"
          /\ r.stack = w.stack /\ r.done = w.done /\ r.res = w.res /\ r.oldRes = w.oldRes
      BY <1>1 DEF CallRecord, Standalone
    <2> HIDE DEF r
    <2>3. eng.done # c
      BY <1>4, <1>6 DEF CallPlace, Owned, Engine!StillCurrent
    <2>4. CallPlace(c, r, eng)
      BY <1>2, <1>4, <2>2, <2>3 DEF CallPlace, Owned, Holds, Active, Standalone
    <2> QED
      BY <1>2, <1>3, <2>1, <2>2, <2>4, EngineGoes
  <1> QED
    BY <1>5, <1>6

(* The slots of a session are emptied, those of another left alone.        *)
LEMMA SlotsCleared ==
  ASSUME EngineKeeps, NEW c \in Calls
  PROVE  /\ Engine!ClearSlots(c) \in EngineRecord
         /\ Engine!ClearSlots(c).running = eng.running /\ Engine!ClearSlots(c).done = eng.done
         /\ Engine!ClearSlots(c).gen = eng.gen /\ Engine!ClearSlots(c).res = eng.res
         /\ Engine!ClearSlots(c).tun # c
         /\ \A d \in Calls \ {c} : CallPlace(d, call[d], Engine!ClearSlots(c))
  <1> DEFINE e == Engine!ClearSlots(c)
             stack == IF eng.stack = c THEN None ELSE eng.stack
             tunnel == IF eng.tun = c THEN None ELSE eng.tun
  <1>1. eng \in EngineRecord /\ \A d \in Calls : CallPlace(d, call[d], eng)
    BY CallFacts
  <1>2. e = [eng EXCEPT !.stack = stack, !.tun = tunnel]
    BY <1>1 DEF Engine!ClearSlots, EngineRecord
  <1>3. /\ stack \in Slot /\ tunnel \in Slot /\ tunnel # c
        /\ \A d \in Calls \ {c} : tunnel = d <=> eng.tun = d
    BY <1>1, NoneIsNobody DEF EngineRecord, Slot
  <1> HIDE DEF stack, tunnel, e
  <1>4. /\ e \in EngineRecord /\ e.running = eng.running /\ e.done = eng.done /\ e.gen = eng.gen
        /\ e.res = eng.res /\ e.tun = tunnel
    BY <1>1, <1>2, <1>3 DEF EngineRecord
  <1>5. \A d \in Calls \ {c} : CallPlace(d, call[d], e)
    BY <1>1, <1>3, <1>4 DEF CallPlace, Owned, Holds
  <1> QED
    BY <1>3, <1>4, <1>5 DEF e

LEMMA StartsStack ==
  ASSUME EngineKeeps, NEW c \in Calls, Engine!StartStack(c)
  PROVE  EngineKeeps'
  <1> DEFINE w == call[c]
             e == Engine!ClearSlots(c)
  <1>1. /\ w \in CallRecord /\ call \in [Calls -> CallRecord] /\ CallPlace(c, w, eng)
    BY CallFacts
  <1>2. w.pc = "start" /\ UNCHANGED <<mode, stop, tele, dead>>
    BY DEF Engine!StartStack, Engine!At
  <1>3. \A x \in Engine!Telemetry : ~Covers(w, x)
    BY <1>2 DEF Covers
  <1>4. CASE call' = [call EXCEPT ![c].pc = "swapOn", ![c].stack = "on"] /\ UNCHANGED eng
    <2> DEFINE r == [w EXCEPT !.pc = "swapOn", !.stack = "on"]
    <2>1. call' = [call EXCEPT ![c] = r]
      BY <1>1, <1>4
    <2>2. /\ r \in CallRecord /\ r.pc = "swapOn" /\ r.gen = w.gen /\ r.fd = w.fd
          /\ r.done = w.done /\ r.res = w.res /\ r.oldRes = w.oldRes
      BY <1>1 DEF CallRecord, Active
    <2> HIDE DEF r
    <2>3. CallPlace(c, r, eng)
      BY <1>1, <1>2, <2>2 DEF CallPlace, Owned, Holds, Active, Published, Standalone
    <2> QED
      BY <1>2, <1>3, <1>4, <2>1, <2>2, <2>3, EngineGoes
  <1>5. CASE /\ call' = [call EXCEPT ![c].pc = "failed", ![c].writer = "halted", ![c].fd = "closed"]
             /\ eng' = e
    <2> DEFINE r == [w EXCEPT !.pc = "failed", !.writer = "halted", !.fd = "closed"]
    <2>1. call' = [call EXCEPT ![c] = r]
      BY <1>1, <1>5
    <2>2. /\ r \in CallRecord /\ r.pc = "failed" /\ r.gen = w.gen /\ r.fd = "closed" /\ r.writer = "halted"
          /\ r.stack = w.stack /\ r.done = w.done /\ r.res = w.res /\ r.oldRes = w.oldRes
      BY <1>1 DEF CallRecord, Active
    <2>3. /\ e \in EngineRecord /\ e.running = eng.running /\ e.done = eng.done /\ e.gen = eng.gen
          /\ e.res = eng.res /\ e.tun # c /\ \A d \in Calls \ {c} : CallPlace(d, call[d], e)
      BY SlotsCleared
    <2> HIDE DEF r, e
    <2>4. CallPlace(c, r, e)
      BY <1>1, <1>2, <2>2, <2>3 DEF CallPlace, Owned, Holds, Active, Published, Standalone
    <2> QED
      BY <1>2, <1>3, <1>5, <2>1, <2>2, <2>3, <2>4, EngineSteps
  <1> QED
    BY <1>4, <1>5 DEF Engine!StartStack

LEMMA Waits ==
  ASSUME EngineKeeps, NEW c \in Calls, Engine!Wait(c)
  PROVE  EngineKeeps'
  <1> DEFINE w == call[c]
             r == [w EXCEPT !.pc = "swapOff"]
  <1>1. /\ w \in CallRecord /\ call \in [Calls -> CallRecord] /\ CallPlace(c, w, eng)
        /\ eng \in EngineRecord
    BY CallFacts
  <1>2. /\ w.pc = "wait" /\ w.done = "closed" /\ UNCHANGED <<mode, eng, stop, tele, dead>>
        /\ call' = [call EXCEPT ![c] = r]
    BY <1>1 DEF Engine!Wait, Engine!At, Engine!Goto
  <1>3. /\ r \in CallRecord /\ r.pc = "swapOff" /\ r.gen = w.gen /\ r.fd = w.fd /\ r.writer = w.writer
        /\ r.stack = w.stack /\ r.done = w.done /\ r.res = w.res /\ r.oldRes = w.oldRes /\ r.i = w.i
    BY <1>1 DEF CallRecord, Leaving
  <1> HIDE DEF r
  <1>4. w.i = 1 /\ eng.done # c /\ eng.tun # c /\ w.fd # "open" /\ mode # "standalone"
    <2>1. w.gen \in Nat /\ eng.gen \in Nat
      BY <1>1 DEF CallRecord, EngineRecord
    <2> QED
      BY <1>1, <1>2, <2>1 DEF CallPlace, Owned, Holds, Standalone
  <1>5. CallPlace(c, r, eng)
    BY <1>1, <1>2, <1>3, <1>4 DEF CallPlace, Owned, Holds, Active
  <1>6. \A j \in Order : j >= 1
    BY OrderFacts DEF Order
  <1>7. \A x \in Engine!Telemetry : Covers(r, x)
    BY <1>3, <1>4, <1>6, OrderFacts DEF Covers
  <1> QED
    BY <1>2, <1>3, <1>5, <1>7, EngineGoes

LEMMA Halts ==
  ASSUME EngineKeeps, NEW c \in Calls, Engine!Halt(c)
  PROVE  EngineKeeps'
  <1> DEFINE w == call[c]
             stack == Engine!StackStop(w.stack)
             r == [w EXCEPT !.pc = "clear", !.writer = "halted", !.stack = stack]
  <1>1. /\ w \in CallRecord /\ call \in [Calls -> CallRecord] /\ CallPlace(c, w, eng)
    BY CallFacts
  <1>2. /\ w.pc = "halt" /\ UNCHANGED <<mode, eng, stop, tele, dead>>
        /\ call' = [call EXCEPT ![c] = r]
    BY <1>1 DEF Engine!Halt, Engine!At
  <1>3. stack \in {"none", "new", "off"}
    BY <1>1 DEF Engine!StackStop, CallRecord
  <1> HIDE DEF stack
  <1>4. /\ r \in CallRecord /\ r.pc = "clear" /\ r.gen = w.gen /\ r.fd = w.fd /\ r.writer = "halted"
        /\ r.stack = stack /\ r.done = w.done /\ r.res = w.res /\ r.oldRes = w.oldRes
    BY <1>1, <1>3 DEF CallRecord, Leaving
  <1> HIDE DEF r
  <1>5. CallPlace(c, r, eng)
    BY <1>1, <1>2, <1>3, <1>4 DEF CallPlace, Owned, Holds, Active, Standalone, Published
  <1>6. \A x \in Engine!Telemetry : ~Covers(w, x)
    BY <1>2 DEF Covers
  <1> QED
    BY <1>2, <1>4, <1>5, <1>6, EngineGoes

LEMMA Clears ==
  ASSUME EngineKeeps, NEW c \in Calls, Engine!Clear(c)
  PROVE  EngineKeeps'
  <1> DEFINE w == call[c]
             r == [w EXCEPT !.pc = "ended"]
             e == Engine!ClearSlots(c)
  <1>1. /\ w \in CallRecord /\ call \in [Calls -> CallRecord] /\ CallPlace(c, w, eng)
    BY CallFacts
  <1>2. /\ w.pc = "clear" /\ UNCHANGED <<mode, stop, tele, dead>> /\ eng' = e
        /\ call' = [call EXCEPT ![c] = r]
    BY <1>1 DEF Engine!Clear, Engine!At, Engine!Goto
  <1>3. /\ r \in CallRecord /\ r.pc = "ended" /\ r.gen = w.gen /\ r.fd = w.fd /\ r.writer = w.writer
        /\ r.stack = w.stack /\ r.done = w.done /\ r.res = w.res /\ r.oldRes = w.oldRes
    BY <1>1 DEF CallRecord, Standalone
  <1>4. /\ e \in EngineRecord /\ e.running = eng.running /\ e.done = eng.done /\ e.gen = eng.gen
        /\ e.res = eng.res /\ e.tun # c /\ \A d \in Calls \ {c} : CallPlace(d, call[d], e)
    BY SlotsCleared
  <1> HIDE DEF r, e
  <1>5. CallPlace(c, r, e)
    BY <1>1, <1>2, <1>3, <1>4 DEF CallPlace, Owned, Holds, Active, Published, Standalone
  <1>6. \A x \in Engine!Telemetry : ~Covers(w, x)
    BY <1>2 DEF Covers
  <1> QED
    BY <1>2, <1>3, <1>4, <1>5, <1>6, EngineSteps

(* --- telemetry ---                                                       *)

(* A session goes on with its telemetry: nothing but its place moves.      *)
SameButPlace(r, w) ==
  /\ r.gen = w.gen /\ r.fd = w.fd /\ r.writer = w.writer /\ r.stack = w.stack
  /\ r.done = w.done /\ r.res = w.res /\ r.oldRes = w.oldRes

LEMMA TeleMoves ==
  ASSUME EngineKeeps, NEW c \in Calls, NEW r \in CallRecord, SameButPlace(r, call[c]),
         \/ call[c].pc \in {"swapOn", "make"} /\ r.pc \in {"swapOn", "make", "wait"}
         \/ call[c].pc \in {"swapOff", "chan"} /\ r.pc \in {"swapOff", "chan", "halt"},
         r.pc = "wait" => r.i = 1,
         call' = [call EXCEPT ![c] = r],
         UNCHANGED <<mode, eng, stop>>, dead' \in BOOLEAN, tele' \in [Engine!Telemetry -> TeleRecord],
         \A x \in Engine!Telemetry : tele'[x].running =>
           Covers(r, x) \/ \E d \in Calls \ {c} : Covers(call[d], x)
  PROVE  EngineKeeps'
  <1>1. /\ call[c] \in CallRecord /\ eng \in EngineRecord
        /\ \A d \in Calls : CallPlace(d, call[d], eng)
    BY CallFacts
  <1>2. CallPlace(c, call[c], eng) /\ mode # "standalone"
    BY <1>1 DEF CallPlace, Standalone
  <1>3. CallPlace(c, r, eng)
    BY <1>2 DEF CallPlace, Owned, Holds, Active, Published, SameButPlace
  <1>4. \A d \in Calls \ {c} : CallPlace(d, call[d], eng)
    BY <1>1
  <1>5. r.gen = call[c].gen /\ r.pc # "idle" /\ eng' = eng
    BY DEF SameButPlace
  <1> QED
    BY <1>1, <1>2, <1>3, <1>4, <1>5, EngineMoves

LEMMA PlaceMoves ==
  ASSUME NEW w \in CallRecord, NEW pc \in {"swapOn", "make", "wait", "swapOff", "chan", "halt"},
         NEW i \in Order
  PROVE  /\ [w EXCEPT !.pc = pc, !.i = i] \in CallRecord
         /\ [w EXCEPT !.pc = pc, !.i = i].pc = pc /\ [w EXCEPT !.pc = pc, !.i = i].i = i
         /\ SameButPlace([w EXCEPT !.pc = pc, !.i = i], w)
  <1>1. pc \in Active \cup Standalone \cup Leaving
    BY DEF Active, Leaving
  <1> QED
    BY <1>1 DEF CallRecord, SameButPlace

LEMMA TeleFields ==
  ASSUME tele \in [Engine!Telemetry -> TeleRecord], NEW x \in Engine!Telemetry,
         \/ Engine!SwapOn(x) \/ Engine!MakeChan(x) \/ Engine!SwapOff(x)
         \/ tele' = [tele EXCEPT ![x].chan = "closed"]
  PROVE  /\ tele' \in [Engine!Telemetry -> TeleRecord]
         /\ \A y \in Engine!Telemetry \ {x} : tele'[y].running = tele[y].running
         /\ Engine!SwapOff(x) => ~tele'[x].running
         /\ ~(Engine!SwapOn(x) \/ Engine!SwapOff(x)) => tele'[x].running = tele[x].running
  <1> DEFINE o == tele[x]
  <1>1. o \in TeleRecord
    OBVIOUS
  <1>2. /\ [o EXCEPT !.running = TRUE] \in TeleRecord
        /\ [o EXCEPT !.running = FALSE] \in TeleRecord /\ ~[o EXCEPT !.running = FALSE].running
        /\ [o EXCEPT !.chan = "open"] \in TeleRecord /\ [o EXCEPT !.chan = "open"].running = o.running
        /\ [o EXCEPT !.chan = "closed"] \in TeleRecord /\ [o EXCEPT !.chan = "closed"].running = o.running
    BY <1>1 DEF TeleRecord
  <1>3. CASE Engine!SwapOn(x)
    <2>1. tele' = [tele EXCEPT ![x] = [o EXCEPT !.running = TRUE]]
      BY <1>3 DEF Engine!SwapOn
    <2>2. ~Engine!SwapOff(x)
      <3>1. tele'[x].running
        BY <1>1, <2>1 DEF TeleRecord
      <3> QED
        BY <1>2, <3>1 DEF Engine!SwapOff
    <2> QED
      BY <1>2, <1>3, <2>1, <2>2
  <1>4. CASE Engine!SwapOff(x)
    <2>1. tele' = [tele EXCEPT ![x] = [o EXCEPT !.running = FALSE]]
      BY <1>4 DEF Engine!SwapOff
    <2> QED
      BY <1>2, <1>4, <2>1
  <1>5. CASE Engine!MakeChan(x) /\ ~Engine!SwapOff(x)
    <2>1. tele' = [tele EXCEPT ![x] = [o EXCEPT !.chan = "open"]]
      BY <1>5 DEF Engine!MakeChan
    <2> QED
      BY <1>2, <1>5, <2>1
  <1>6. CASE tele' = [tele EXCEPT ![x].chan = "closed"] /\ ~Engine!SwapOff(x)
    <2>1. tele' = [tele EXCEPT ![x] = [o EXCEPT !.chan = "closed"]]
      BY <1>6
    <2> QED
      BY <1>2, <1>6, <2>1
  <1> QED
    BY <1>3, <1>4, <1>5, <1>6

(* Closing a channel does not start anything, whether it panics or not.    *)
LEMMA ChanCloses ==
  ASSUME EngineKeeps, NEW x \in Engine!Telemetry, Engine!CloseChan(x)
  PROVE  /\ tele' \in [Engine!Telemetry -> TeleRecord] /\ dead' \in BOOLEAN
         /\ \A y \in Engine!Telemetry : tele'[y].running => tele[y].running
  <1>1. tele \in [Engine!Telemetry -> TeleRecord] /\ dead \in BOOLEAN
    BY DEF EngineKeeps, EngineTyped
  <1>2. CASE tele[x].chan = "open"
    <2>1. tele' = [tele EXCEPT ![x].chan = "closed"] /\ UNCHANGED dead
      BY <1>2 DEF Engine!CloseChan
    <2>2. tele'[x].running => tele[x].running
      <3>1. tele'[x] = [tele[x] EXCEPT !.chan = "closed"]
        BY <1>1, <2>1
      <3>2. tele[x] \in TeleRecord
        BY <1>1
      <3> QED
        BY <3>1, <3>2 DEF TeleRecord
    <2> QED
      BY <1>1, <2>1, <2>2, TeleFields
  <1>3. CASE tele[x].chan # "open"
    BY <1>1, <1>3 DEF Engine!CloseChan
  <1> QED
    BY <1>2, <1>3

LEMMA StartsTele ==
  ASSUME EngineKeeps, NEW c \in Calls, Engine!StartTele(c)
  PROVE  EngineKeeps'
  <1> DEFINE w == call[c]
             i == w.i
             x == StartOrder[i]
             n == Len(StartOrder)
             next == IF i < n THEN [w EXCEPT !.pc = "swapOn", !.i = @ + 1]
                     ELSE [w EXCEPT !.pc = "wait", !.i = 1]
             Others(y) == \E d \in Calls \ {c} : Covers(call[d], y)
  <1>1. /\ w \in CallRecord /\ call \in [Calls -> CallRecord] /\ CallPlace(c, w, eng)
        /\ tele \in [Engine!Telemetry -> TeleRecord] /\ dead \in BOOLEAN
    BY CallFacts DEF EngineKeeps, EngineTyped
  <1>2. i \in Order /\ x \in Engine!Telemetry /\ n \in Nat /\ i \in Nat
    BY <1>1, OrderFacts DEF CallRecord
  <1>3. UNCHANGED <<mode, eng, stop, dead>> /\ dead' \in BOOLEAN
    BY <1>1 DEF Engine!StartTele
  <1>4. \A y \in Engine!Telemetry : tele[y].running => Covers(w, y) \/ Others(y)
    BY DEF EngineKeeps, Covered
  <1>5. \/ /\ w.pc = "swapOn" /\ tele[x].running /\ call' = [call EXCEPT ![c] = next] /\ UNCHANGED tele
        \/ /\ w.pc = "swapOn" /\ Engine!SwapOn(x) /\ call' = [call EXCEPT ![c].pc = "make"]
        \/ /\ w.pc = "make" /\ Engine!MakeChan(x) /\ call' = [call EXCEPT ![c] = next]
    BY DEF Engine!StartTele, Engine!At, Engine!Goto
  <1>6. /\ w.pc = "swapOn" => \A y : Covers(w, y) <=> \E j \in Order : j < i /\ y = StartOrder[j]
        /\ w.pc = "make"   => \A y : Covers(w, y) <=> \E j \in Order : j <= i /\ y = StartOrder[j]
    BY DEF Covers
  <1>7. ASSUME w.pc \in {"swapOn", "make"}, call' = [call EXCEPT ![c] = next],
               tele' \in [Engine!Telemetry -> TeleRecord],
               \A y \in Engine!Telemetry : tele'[y].running =>
                 (\E j \in Order : j <= i /\ y = StartOrder[j]) \/ Others(y)
        PROVE  EngineKeeps'
    <2>1. CASE i < n
      <3> DEFINE k == i + 1
                 r == [w EXCEPT !.pc = "swapOn", !.i = k]
      <3>1. k \in Order /\ \A j \in Order : j <= i => j < k
        BY <1>2, <2>1, OrderFacts
      <3>2. call' = [call EXCEPT ![c] = r]
        BY <1>1, <1>7, <2>1 DEF CallRecord
      <3> HIDE DEF k
      <3>3. r \in CallRecord /\ r.pc = "swapOn" /\ r.i = k /\ SameButPlace(r, w)
        BY <1>1, <3>1, PlaceMoves
      <3> HIDE DEF r
      <3>4. \A y \in Engine!Telemetry : tele'[y].running =>
              Covers(r, y) \/ \E d \in Calls \ {c} : Covers(call[d], y)
        BY <1>7, <3>1, <3>3 DEF Covers
      <3> QED
        BY <1>3, <1>7, <3>2, <3>3, <3>4, TeleMoves
    <2>2. CASE ~(i < n)
      <3> DEFINE r == [w EXCEPT !.pc = "wait", !.i = 1]
      <3>1. call' = [call EXCEPT ![c] = r]
        BY <1>1, <1>7, <2>2
      <3>2. r \in CallRecord /\ r.pc = "wait" /\ r.i = 1 /\ SameButPlace(r, w)
        <4> DEFINE one == 1
        <4>1. one \in Order
          BY OrderFacts
        <4> HIDE DEF w, one
        <4>2. [w EXCEPT !.pc = "wait", !.i = one] \in CallRecord
          BY <1>1, <4>1, PlaceMoves
        <4>3. /\ [w EXCEPT !.pc = "wait", !.i = one].pc = "wait"
              /\ [w EXCEPT !.pc = "wait", !.i = one].i = one
              /\ SameButPlace([w EXCEPT !.pc = "wait", !.i = one], w)
          BY <1>1, <4>1, PlaceMoves
        <4> QED
          BY <4>2, <4>3 DEF one
      <3> HIDE DEF r
      <3>3. \A y \in Engine!Telemetry : tele'[y].running =>
              Covers(r, y) \/ \E d \in Calls \ {c} : Covers(call[d], y)
        BY <3>2 DEF Covers
      <3> QED
        BY <1>3, <1>7, <3>1, <3>2, <3>3, TeleMoves
    <2> QED
      BY <2>1, <2>2
  <1>8. CASE w.pc = "swapOn" /\ tele[x].running /\ call' = [call EXCEPT ![c] = next] /\ UNCHANGED tele
    <2>1. \A j \in Order : j < i => j <= i
      BY <1>2, OrderFacts
    <2>2. \A y \in Engine!Telemetry : tele'[y].running =>
            (\E j \in Order : j <= i /\ y = StartOrder[j]) \/ Others(y)
      BY <1>4, <1>6, <1>8, <2>1
    <2> QED
      BY <1>1, <1>7, <1>8, <2>2
  <1>9. CASE w.pc = "make" /\ Engine!MakeChan(x) /\ call' = [call EXCEPT ![c] = next]
    <2>1. /\ tele' \in [Engine!Telemetry -> TeleRecord]
          /\ \A y \in Engine!Telemetry \ {x} : tele'[y].running = tele[y].running
      BY <1>1, <1>2, <1>9, TeleFields
    <2>2. i <= i
      BY <1>2
    <2>3. \A y \in Engine!Telemetry : tele'[y].running =>
            (\E j \in Order : j <= i /\ y = StartOrder[j]) \/ Others(y)
      BY <1>2, <1>4, <1>6, <1>9, <2>1, <2>2
    <2> QED
      BY <1>7, <1>9, <2>1, <2>3
  <1>10. CASE w.pc = "swapOn" /\ Engine!SwapOn(x) /\ call' = [call EXCEPT ![c].pc = "make"]
    <2>1. /\ tele' \in [Engine!Telemetry -> TeleRecord]
          /\ \A y \in Engine!Telemetry \ {x} : tele'[y].running = tele[y].running
      BY <1>1, <1>2, <1>10, TeleFields
    <2>2. i <= i /\ \A j \in Order : j < i => j <= i
      BY <1>2, OrderFacts
    <2>3. \A y \in Engine!Telemetry : tele'[y].running =>
            (\E j \in Order : j <= i /\ y = StartOrder[j]) \/ Others(y)
      BY <1>2, <1>4, <1>6, <1>10, <2>1, <2>2
    <2> DEFINE r == [w EXCEPT !.pc = "make", !.i = i]
    <2>4. call' = [call EXCEPT ![c] = r]
      BY <1>1, <1>10 DEF CallRecord
    <2>5. r \in CallRecord /\ r.pc = "make" /\ r.i = i /\ SameButPlace(r, w)
      <3> HIDE DEF i, w
      <3> QED
        BY <1>1, <1>2, PlaceMoves
    <2> HIDE DEF r
    <2>6. \A y \in Engine!Telemetry : tele'[y].running =>
            Covers(r, y) \/ \E d \in Calls \ {c} : Covers(call[d], y)
      BY <2>3, <2>5 DEF Covers
    <2> QED
      BY <1>3, <1>10, <2>1, <2>4, <2>5, <2>6, TeleMoves
  <1> QED
    BY <1>5, <1>8, <1>9, <1>10

LEMMA StopsOwnTele ==
  ASSUME EngineKeeps, NEW c \in Calls, Engine!TailTele(c)
  PROVE  EngineKeeps'
  <1> DEFINE w == call[c]
             i == w.i
             x == Engine!StopOrder[i]
             n == Len(StartOrder)
             next == IF i < n THEN [w EXCEPT !.pc = "swapOff", !.i = @ + 1]
                     ELSE [w EXCEPT !.pc = "halt", !.i = 1]
             Others(y) == \E d \in Calls \ {c} : Covers(call[d], y)
  <1>1. /\ w \in CallRecord /\ call \in [Calls -> CallRecord] /\ CallPlace(c, w, eng)
        /\ tele \in [Engine!Telemetry -> TeleRecord] /\ dead \in BOOLEAN
    BY CallFacts DEF EngineKeeps, EngineTyped
  <1>2. i \in Order /\ x \in Engine!Telemetry /\ n \in Nat /\ i \in Nat
    BY <1>1, OrderFacts DEF CallRecord
  <1>3. UNCHANGED <<mode, eng, stop>>
    BY DEF Engine!TailTele
  <1>4. \A y \in Engine!Telemetry : tele[y].running => Covers(w, y) \/ Others(y)
    BY DEF EngineKeeps, Covered
  <1>5. \/ /\ w.pc = "swapOff" /\ ~tele[x].running /\ call' = [call EXCEPT ![c] = next] /\ UNCHANGED <<tele, dead>>
        \/ /\ w.pc = "swapOff" /\ Engine!SwapOff(x) /\ call' = [call EXCEPT ![c].pc = "chan"] /\ UNCHANGED dead
        \/ /\ w.pc = "chan" /\ Engine!CloseChan(x) /\ call' = [call EXCEPT ![c] = next]
    BY DEF Engine!TailTele, Engine!At, Engine!Goto
  <1>6. /\ w.pc = "swapOff" => \A y : Covers(w, y) <=> \E j \in Order : j >= i /\ y = Engine!StopOrder[j]
        /\ w.pc = "chan"   => \A y : Covers(w, y) <=> \E j \in Order : j > i /\ y = Engine!StopOrder[j]
    BY DEF Covers
  <1>7. \A j \in Order : j >= i => j > i \/ j = i
    BY <1>2, OrderFacts
  <1>8. ASSUME w.pc \in {"swapOff", "chan"}, call' = [call EXCEPT ![c] = next],
               tele' \in [Engine!Telemetry -> TeleRecord], dead' \in BOOLEAN,
               \A y \in Engine!Telemetry : tele'[y].running =>
                 (\E j \in Order : j > i /\ y = Engine!StopOrder[j]) \/ Others(y)
        PROVE  EngineKeeps'
    <2>1. CASE i < n
      <3> DEFINE k == i + 1
                 r == [w EXCEPT !.pc = "swapOff", !.i = k]
      <3>1. k \in Order /\ \A j \in Order : j > i => j >= k
        BY <1>2, <2>1, OrderFacts
      <3>2. call' = [call EXCEPT ![c] = r]
        BY <1>1, <1>8, <2>1 DEF CallRecord
      <3> HIDE DEF k
      <3>3. r \in CallRecord /\ r.pc = "swapOff" /\ r.i = k /\ SameButPlace(r, w)
        BY <1>1, <3>1, PlaceMoves
      <3> HIDE DEF r
      <3>4. \A y \in Engine!Telemetry : tele'[y].running =>
              Covers(r, y) \/ \E d \in Calls \ {c} : Covers(call[d], y)
        BY <1>8, <3>1, <3>3 DEF Covers
      <3> QED
        BY <1>3, <1>8, <3>2, <3>3, <3>4, TeleMoves
    <2>2. CASE ~(i < n)
      <3> DEFINE r == [w EXCEPT !.pc = "halt", !.i = 1]
      <3>1. call' = [call EXCEPT ![c] = r]
        BY <1>1, <1>8, <2>2
      <3>2. r \in CallRecord /\ r.pc = "halt" /\ r.i = 1 /\ SameButPlace(r, w)
        <4> DEFINE one == 1
        <4>1. one \in Order
          BY OrderFacts
        <4> HIDE DEF w, one
        <4>2. [w EXCEPT !.pc = "halt", !.i = one] \in CallRecord
          BY <1>1, <4>1, PlaceMoves
        <4>3. /\ [w EXCEPT !.pc = "halt", !.i = one].pc = "halt"
              /\ [w EXCEPT !.pc = "halt", !.i = one].i = one
              /\ SameButPlace([w EXCEPT !.pc = "halt", !.i = one], w)
          BY <1>1, <4>1, PlaceMoves
        <4> QED
          BY <4>2, <4>3 DEF one
      <3> HIDE DEF r
      <3>3. \A y \in Engine!Telemetry : tele'[y].running =>
              Covers(r, y) \/ \E d \in Calls \ {c} : Covers(call[d], y)
        <4>1. \A j \in Order : ~(j > i)
          BY <1>2, <2>2 DEF Order
        <4> QED
          BY <1>8, <4>1
      <3> QED
        BY <1>3, <1>8, <3>1, <3>2, <3>3, TeleMoves
    <2> QED
      BY <2>1, <2>2
  <1>9. CASE w.pc = "swapOff" /\ ~tele[x].running /\ call' = [call EXCEPT ![c] = next] /\ UNCHANGED <<tele, dead>>
    <2>1. \A y \in Engine!Telemetry : tele'[y].running =>
            (\E j \in Order : j > i /\ y = Engine!StopOrder[j]) \/ Others(y)
      BY <1>4, <1>6, <1>7, <1>9
    <2> QED
      BY <1>1, <1>8, <1>9, <2>1
  <1>10. CASE w.pc = "chan" /\ Engine!CloseChan(x) /\ call' = [call EXCEPT ![c] = next]
    <2>1. /\ tele' \in [Engine!Telemetry -> TeleRecord] /\ dead' \in BOOLEAN
          /\ \A y \in Engine!Telemetry : tele'[y].running => tele[y].running
      BY <1>2, <1>10, ChanCloses
    <2>2. \A y \in Engine!Telemetry : tele'[y].running =>
            (\E j \in Order : j > i /\ y = Engine!StopOrder[j]) \/ Others(y)
      BY <1>4, <1>6, <1>10, <2>1
    <2> QED
      BY <1>8, <1>10, <2>1, <2>2
  <1>11. CASE w.pc = "swapOff" /\ Engine!SwapOff(x) /\ call' = [call EXCEPT ![c].pc = "chan"] /\ UNCHANGED dead
    <2>1. /\ tele' \in [Engine!Telemetry -> TeleRecord] /\ ~tele'[x].running
          /\ \A y \in Engine!Telemetry \ {x} : tele'[y].running = tele[y].running
      BY <1>1, <1>2, <1>11, TeleFields
    <2>2. \A y \in Engine!Telemetry : tele'[y].running =>
            (\E j \in Order : j > i /\ y = Engine!StopOrder[j]) \/ Others(y)
      BY <1>4, <1>6, <1>7, <1>11, <2>1
    <2>3. dead' \in BOOLEAN
      BY <1>1, <1>11
    <2> DEFINE r == [w EXCEPT !.pc = "chan", !.i = i]
    <2>4. call' = [call EXCEPT ![c] = r]
      BY <1>1, <1>11 DEF CallRecord
    <2>5. r \in CallRecord /\ r.pc = "chan" /\ r.i = i /\ SameButPlace(r, w)
      <3> HIDE DEF i, w
      <3> QED
        BY <1>1, <1>2, PlaceMoves
    <2> HIDE DEF r
    <2>6. \A y \in Engine!Telemetry : tele'[y].running =>
            Covers(r, y) \/ \E d \in Calls \ {c} : Covers(call[d], y)
      BY <2>2, <2>5 DEF Covers
    <2> QED
      BY <1>3, <1>11, <2>1, <2>3, <2>4, <2>5, <2>6, TeleMoves
  <1> QED
    BY <1>5, <1>9, <1>10, <1>11

(* --- the standalone DNS listener ---                                     *)

LEMMA Binds ==
  ASSUME EngineKeeps, NEW c \in Calls, Engine!Bind(c) \/ Engine!Activate(c)
  PROVE  EngineKeeps'
  <1> DEFINE w == call[c]
  <1>1. /\ w \in CallRecord /\ call \in [Calls -> CallRecord] /\ CallPlace(c, w, eng)
    BY CallFacts
  <1>2. w.pc \in {"bind", "activate"} /\ UNCHANGED <<mode, eng, stop, tele, dead>>
    BY DEF Engine!Bind, Engine!Activate, Engine!At
  <1>3. PICK pc \in {"install", "ended"}, srv \in {"none", "bound", "serving", "closed"} :
          call' = [call EXCEPT ![c] = [w EXCEPT !.pc = pc, !.srv = srv]]
    <2>1. w.srv \in {"none", "bound", "serving", "closed"} /\ [w EXCEPT !.pc = "ended"] = [w EXCEPT !.pc = "ended", !.srv = w.srv]
      BY <1>1 DEF CallRecord
    <2>2. CASE call' = [call EXCEPT ![c].pc = "ended"]
      <3>1. call' = [call EXCEPT ![c] = [w EXCEPT !.pc = "ended", !.srv = w.srv]]
        BY <1>1, <2>1, <2>2
      <3> QED
        BY <2>1, <3>1
    <2>3. CASE call' = [call EXCEPT ![c].pc = "install", ![c].srv = "bound"]
      <3>1. call' = [call EXCEPT ![c] = [w EXCEPT !.pc = "install", !.srv = "bound"]]
        BY <1>1, <2>3
      <3> QED
        BY <3>1
    <2>4. CASE call' = [call EXCEPT ![c].pc = "ended", ![c].srv = "serving"]
      <3>1. call' = [call EXCEPT ![c] = [w EXCEPT !.pc = "ended", !.srv = "serving"]]
        BY <1>1, <2>4
      <3> QED
        BY <3>1
    <2> QED
      BY <2>2, <2>3, <2>4 DEF Engine!Bind, Engine!Activate, Engine!Goto
  <1> DEFINE r == [w EXCEPT !.pc = pc, !.srv = srv]
  <1>4. /\ r \in CallRecord /\ r.pc = pc /\ r.gen = w.gen /\ r.fd = w.fd /\ r.writer = w.writer
        /\ r.stack = w.stack /\ r.done = w.done /\ r.res = w.res /\ r.oldRes = w.oldRes
    BY <1>1, <1>3 DEF CallRecord, Standalone
  <1>5. call' = [call EXCEPT ![c] = r]
    BY <1>3
  <1> HIDE DEF r
  <1>6. CallPlace(c, r, eng)
    BY <1>1, <1>2, <1>3, <1>4 DEF CallPlace, Owned, Holds, Active, Published, Standalone
  <1>7. \A x \in Engine!Telemetry : ~Covers(w, x)
    BY <1>2 DEF Covers
  <1>8. r.pc # "idle"
    BY <1>3, <1>4
  <1> QED
    BY <1>2, <1>4, <1>5, <1>6, <1>7, <1>8, EngineGoes

LEMMA Installs ==
  ASSUME EngineKeeps, NEW c \in Calls, Engine!Install(c)
  PROVE  EngineKeeps'
  <1> DEFINE w == call[c]
             r == [w EXCEPT !.pc = "activate"]
             e == [eng EXCEPT !.srv = c]
  <1>1. /\ w \in CallRecord /\ call \in [Calls -> CallRecord] /\ eng \in EngineRecord
        /\ \A d \in Calls : CallPlace(d, call[d], eng)
    BY CallFacts
  <1>2. /\ w.pc = "install" /\ UNCHANGED <<mode, stop, tele, dead>> /\ eng' = e
        /\ call' = [call EXCEPT ![c] = r]
    BY <1>1 DEF Engine!Install, Engine!At, Engine!Goto
  <1>3. /\ r \in CallRecord /\ r.pc = "activate" /\ r.gen = w.gen /\ r.fd = w.fd /\ r.writer = w.writer
        /\ r.stack = w.stack /\ r.done = w.done /\ r.res = w.res /\ r.oldRes = w.oldRes
    BY <1>1 DEF CallRecord, Standalone
  <1>4. /\ e \in EngineRecord /\ e.running = eng.running /\ e.done = eng.done /\ e.tun = eng.tun
        /\ e.gen = eng.gen /\ e.res = eng.res
    BY <1>1 DEF EngineRecord, Slot
  <1> HIDE DEF r, e
  <1>5. \A d \in Calls \ {c} : CallPlace(d, call[d], e)
    BY <1>1, <1>4 DEF CallPlace, Owned, Holds
  <1>6. CallPlace(c, r, e)
    <2>1. CallPlace(c, w, eng)
      BY <1>1
    <2> QED
      BY <1>2, <1>3, <1>4, <2>1 DEF CallPlace, Owned, Holds, Active, Published, Standalone
  <1>7. \A x \in Engine!Telemetry : ~Covers(w, x)
    BY <1>2 DEF Covers
  <1> QED
    BY <1>2, <1>3, <1>4, <1>5, <1>6, <1>7, EngineSteps

LEMMA StartsStandalone ==
  ASSUME EngineKeeps, NEW c \in Calls, Engine!StartStandalone(c)
  PROVE  EngineKeeps'
  <1> DEFINE w == call[c]
             old == IF eng.running THEN eng.srv ELSE None
             oldRes == IF eng.running THEN eng.res ELSE None
             srv == IF eng.running THEN None ELSE eng.srv
             r == [w EXCEPT !.pc = "olds", !.res = "live", !.old = old, !.oldRes = oldRes]
             e == [eng EXCEPT !.running = TRUE, !.res = c, !.srv = srv]
  <1>1. /\ w \in CallRecord /\ call \in [Calls -> CallRecord] /\ eng \in EngineRecord
        /\ \A d \in Calls : CallPlace(d, call[d], eng)
    BY CallFacts
  <1>2. mode = "standalone" /\ w.pc = "idle" /\ UNCHANGED <<mode, stop, tele, dead>>
    BY DEF Engine!StartStandalone, Engine!At
  <1>3. call' = [call EXCEPT ![c] = r] /\ eng' = e
    BY <1>1 DEF Engine!StartStandalone, EngineRecord
  <1>4. old \in Slot /\ oldRes \in Slot /\ srv \in Slot
    BY <1>1 DEF EngineRecord, Slot
  <1>5. eng.running => oldRes = eng.res
    OBVIOUS
  <1> HIDE DEF old, oldRes, srv
  <1>6. /\ r \in CallRecord /\ r.pc = "olds" /\ r.gen = w.gen /\ r.fd = w.fd /\ r.writer = w.writer
        /\ r.stack = w.stack /\ r.done = w.done /\ r.oldRes = oldRes
    BY <1>1, <1>4 DEF CallRecord, Standalone
  <1>7. /\ e \in EngineRecord /\ e.running /\ e.done = eng.done /\ e.tun = eng.tun
        /\ e.gen = eng.gen /\ e.res = c
    BY <1>1, <1>4 DEF EngineRecord, Slot
  <1> HIDE DEF r, e
  <1>8. \A d \in Calls \ {c} : CallPlace(d, call[d], e)
    BY <1>1, <1>7 DEF CallPlace, Owned, Holds
  <1>9. CallPlace(c, w, eng)
    BY <1>1
  <1>10. CallPlace(c, r, e)
    BY <1>2, <1>6, <1>7, <1>9 DEF CallPlace, Owned, Holds, Active, Published, Standalone
  <1>11. \A d \in Calls : call'[d] = IF d = c THEN r ELSE call[d]
    BY <1>1, <1>3
  <1>12. Engine!NoOrphanResolver'
    <2> SUFFICES ASSUME NEW d \in Calls, call'[d].res = "live"
                 PROVE  \/ eng'.res = d \/ \E k \in Calls : call'[k].oldRes = d
                        \/ \E s \in Stops : stop'[s].res = d /\ stop'[s].pc = "shut"
      BY DEF Engine!NoOrphanResolver
    <2>1. CASE d = c
      BY <1>3, <1>7, <2>1
    <2>2. CASE d # c
      <3>1. \/ eng.res = d \/ \E k \in Calls : call[k].oldRes = d
            \/ \E s \in Stops : stop[s].res = d /\ stop[s].pc = "shut"
        BY <1>2, <1>11, <2>2 DEF EngineKeeps, Engine!NoOrphanResolver
      <3>2. eng.res = d => eng.running
        BY <1>2, NoneIsNobody DEF EngineKeeps, Serving
      <3>3. eng.res = d => call'[c].oldRes = d
        BY <1>5, <1>6, <1>11, <3>2
      <3>4. w.oldRes = None
        BY <1>2, <1>9 DEF CallPlace
      <3>5. \A k \in Calls : call[k].oldRes = d => call'[k].oldRes = d
        BY <1>11, <3>4, NoneIsNobody
      <3> QED
        BY <1>2, <3>1, <3>3, <3>5
    <2> QED
      BY <2>1, <2>2
  <1>13. \A x \in Engine!Telemetry : tele'[x].running =>
           Covers(r, x) \/ \E d \in Calls \ {c} : Covers(call[d], x)
    <2>1. \A x \in Engine!Telemetry : ~Covers(w, x)
      BY <1>2 DEF Covers
    <2> QED
      BY <1>2, <2>1 DEF EngineKeeps, Covered
  <1>14. dead' \in BOOLEAN /\ tele' \in [Engine!Telemetry -> TeleRecord]
    BY <1>2 DEF EngineKeeps, EngineTyped
  <1> QED
    BY <1>2, <1>3, <1>6, <1>7, <1>8, <1>10, <1>12, <1>13, <1>14, EngineMoves

(* --- what a step takes from other calls ---                              *)

(* A call stays where it is and holds no more than before.                 *)
Yields(r, w) ==
  /\ r.pc = w.pc /\ r.gen = w.gen /\ r.i = w.i /\ r.oldRes = w.oldRes
  /\ r.fd = "open" => w.fd = "open"
  /\ r.writer = "on" => w.writer = "on"
  /\ r.stack = "on" => w.stack = "on"
  /\ r.done = "closed" => w.done = "closed"

LEMMA YieldsPlace ==
  ASSUME NEW c, NEW r, NEW w, NEW e, CallPlace(c, w, e), Yields(r, w)
  PROVE  CallPlace(c, r, e)
  BY DEF CallPlace, Yields, Owned, Holds

LEMMA YieldsSame == ASSUME NEW w PROVE Yields(w, w)
  BY DEF Yields

LEMMA ShutsDown ==
  ASSUME EngineKeeps, NEW srv, NEW res
  PROVE  /\ Engine!Shutdown(call, srv, res) \in [Calls -> CallRecord]
         /\ \A c \in Calls : Yields(Engine!Shutdown(call, srv, res)[c], call[c])
         /\ \A c \in Calls : Engine!Shutdown(call, srv, res)[c].res =
                               IF c = res THEN "down" ELSE call[c].res
  <1> DEFINE f == Engine!Shutdown(call, srv, res)
             S(c) == IF c = srv /\ call[c].srv = "serving" THEN "closed" ELSE call[c].srv
             R(c) == IF c = res THEN "down" ELSE call[c].res
  <1>1. f = [c \in Calls |-> [call[c] EXCEPT !.srv = S(c), !.res = R(c)]]
    <2>1. \A c \in Calls : call[c] \in CallRecord
      BY CallFacts
    <2> QED
      BY <2>1 DEF Engine!Shutdown, CallRecord
  <1>2. ASSUME NEW c \in Calls
        PROVE  f[c] \in CallRecord /\ Yields(f[c], call[c]) /\ f[c].res = R(c)
    <2> DEFINE w == call[c]
               x == S(c)
               y == R(c)
               r == [w EXCEPT !.srv = x, !.res = y]
    <2>1. w \in CallRecord
      BY CallFacts
    <2>2. x \in {"none", "bound", "serving", "closed"} /\ y \in {"none", "live", "down"}
      BY <2>1 DEF CallRecord
    <2>3. f[c] = r
      BY <1>1
    <2> HIDE DEF S, R, f, x, y, w
    <2>4. r \in CallRecord
      BY <2>1, <2>2 DEF CallRecord
    <2>5. Yields(r, w) /\ r.res = y
      BY <2>1 DEF CallRecord, Yields
    <2> HIDE DEF r
    <2> QED
      BY <2>3, <2>4, <2>5 DEF w, y
  <1>3. f \in [Calls -> CallRecord]
    BY <1>1, <1>2
  <1> QED
    BY <1>2, <1>3

LEMMA FdCloses ==
  ASSUME EngineKeeps
  PROVE  /\ Engine!CloseFd(call, eng.tun) \in [Calls -> CallRecord]
         /\ \A c \in Calls : /\ Yields(Engine!CloseFd(call, eng.tun)[c], call[c])
                             /\ Engine!CloseFd(call, eng.tun)[c].res = call[c].res
                             /\ c = eng.tun => Engine!CloseFd(call, eng.tun)[c].fd = "closed"
  <1> DEFINE f == Engine!CloseFd(call, eng.tun)
             t == eng.tun
             r == [call[t] EXCEPT !.fd = "closed"]
  <1>1. call \in [Calls -> CallRecord] /\ t \in Slot
    BY DEF EngineKeeps, EngineTyped, EngineRecord
  <1>2. CASE t = None
    BY <1>1, <1>2, YieldsSame, NoneIsNobody DEF Engine!CloseFd
  <1>3. CASE t # None
    <2>1. t \in Calls /\ call[t] \in CallRecord
      BY <1>1, <1>3 DEF Slot
    <2>2. f = [call EXCEPT ![t] = r]
      BY <1>1, <1>3, <2>1 DEF Engine!CloseFd
    <2>3. r \in CallRecord /\ Yields(r, call[t]) /\ r.res = call[t].res /\ r.fd = "closed"
      BY <2>1 DEF CallRecord, Yields
    <2> HIDE DEF f, r, t
    <2>4. f \in [Calls -> CallRecord] /\ \A c \in Calls : f[c] = IF c = t THEN r ELSE call[c]
      BY <1>1, <2>1, <2>2, <2>3
    <2>5. \A c \in Calls : Yields(f[c], call[c]) /\ f[c].res = call[c].res /\ (c = t => f[c].fd = "closed")
      BY <2>3, <2>4, YieldsSame
    <2> QED
      BY <2>4, <2>5 DEF f, t
  <1> QED
    BY <1>2, <1>3

(* The calls keep their places.                                            *)
LEMMA EngineYields ==
  ASSUME EngineKeeps, eng' \in EngineRecord, call' \in [Calls -> CallRecord],
         stop' \in [Stops -> StopRecord], UNCHANGED mode, dead' \in BOOLEAN,
         tele' \in [Engine!Telemetry -> TeleRecord],
         \A x \in Engine!Telemetry : tele'[x].running => tele[x].running,
         \A c \in Calls : call'[c].pc = call[c].pc /\ call'[c].i = call[c].i,
         eng'.gen + Cardinality(Unstopped') <= Cardinality(Stops),
         \A c \in Calls : CallPlace(c, call'[c], eng'),
         Ending', Serving', Engine!NoOrphanResolver'
  PROVE  EngineKeeps'
  <1>1. EngineTyped'
    BY DEF EngineKeeps, EngineTyped
  <1>2. \A c \in Calls, x \in Engine!Telemetry : Covers(call[c], x) => Covers(call'[c], x)
    BY DEF Covers
  <1>3. \A x \in Engine!Telemetry : tele'[x].running => \E c \in Calls : Covers(call'[c], x)
    BY <1>2 DEF EngineKeeps, Covered
  <1>4. Covered'
    BY <1>3 DEF Covered
  <1>5. \A c \in Calls : CallPlace(c, call[c], eng)'
    BY DEF CallPlace
  <1> QED
    BY <1>1, <1>4, <1>5 DEF EngineKeeps

LEMMA OldsShutDown ==
  ASSUME EngineKeeps, NEW c \in Calls, Engine!ShutdownOlds(c)
  PROVE  EngineKeeps'
  <1> DEFINE w == call[c]
             f == Engine!Shutdown(call, w.old, w.oldRes)
             r == [f[c] EXCEPT !.pc = "bind", !.old = None, !.oldRes = None]
  <1>1. /\ w \in CallRecord /\ call \in [Calls -> CallRecord] /\ eng \in EngineRecord
        /\ \A d \in Calls : CallPlace(d, call[d], eng)
    BY CallFacts
  <1>2. f \in [Calls -> CallRecord] /\ f[c] \in CallRecord /\ \A d \in Calls : Yields(f[d], call[d])
    BY ShutsDown
  <1>3. \A d \in Calls : f[d].res = IF d = w.oldRes THEN "down" ELSE call[d].res
    BY ShutsDown
  <1> HIDE DEF f
  <1>4. w.pc = "olds" /\ UNCHANGED <<mode, eng, stop, tele, dead>> /\ call' = [f EXCEPT ![c] = r]
    BY <1>2 DEF Engine!ShutdownOlds, Engine!At, f
  <1>5. /\ r \in CallRecord /\ r.pc = "bind" /\ r.gen = f[c].gen /\ r.fd = f[c].fd /\ r.writer = f[c].writer
        /\ r.stack = f[c].stack /\ r.done = f[c].done /\ r.oldRes = None /\ r.res = f[c].res
    BY <1>2 DEF CallRecord, Standalone, Slot
  <1> HIDE DEF r
  <1>6. call' \in [Calls -> CallRecord] /\ \A d \in Calls : call'[d] = IF d = c THEN r ELSE f[d]
    BY <1>2, <1>4, <1>5
  <1>7. CallPlace(c, f[c], eng) /\ f[c].pc = "olds"
    <2>1. f[c].pc = "olds"
      BY <1>2, <1>4 DEF Yields
    <2> QED
      BY <1>1, <1>2, <2>1, YieldsPlace
  <1>8. CallPlace(c, r, eng)
    BY <1>5, <1>7 DEF CallPlace, Owned, Holds, Active, Published, Standalone
  <1>9. \A d \in Calls : CallPlace(d, f[d], eng)
    BY <1>1, <1>2, YieldsPlace
  <1>10. \A d \in Calls : CallPlace(d, call'[d], eng')
    BY <1>4, <1>6, <1>8, <1>9
  <1>11. Engine!NoOrphanResolver'
    <2> SUFFICES ASSUME mode = "standalone", NEW d \in Calls, call'[d].res = "live"
                 PROVE  \/ eng'.res = d \/ \E k \in Calls : call'[k].oldRes = d
                        \/ \E s \in Stops : stop'[s].res = d /\ stop'[s].pc = "shut"
      BY <1>4 DEF Engine!NoOrphanResolver
    <2>1. f[d].res = "live"
      BY <1>5, <1>6
    <2>2. d # w.oldRes /\ call[d].res = "live"
      BY <1>3, <2>1
    <2>3. \/ eng.res = d \/ \E k \in Calls : call[k].oldRes = d
          \/ \E s \in Stops : stop[s].res = d /\ stop[s].pc = "shut"
      BY <2>2 DEF EngineKeeps, Engine!NoOrphanResolver
    <2>4. \A k \in Calls : call[k].oldRes = d => call'[k].oldRes = d
      BY <1>2, <1>6, <2>2 DEF Yields
    <2> QED
      BY <1>4, <2>3, <2>4
  <1>12. Ending'
    <2>1. \A d \in Calls : call'[d].gen = call[d].gen /\ (call[d].pc # "idle" => call'[d].pc # "idle")
      BY <1>2, <1>5, <1>6 DEF Yields
    <2> QED
      BY <1>4, <2>1 DEF EngineKeeps, Ending
  <1>13. Covered'
    <2>1. \A d \in Calls, x \in Engine!Telemetry : Covers(call[d], x) => d # c /\ Covers(f[d], x)
      BY <1>2, <1>4 DEF Covers, Yields
    <2>2. \A x \in Engine!Telemetry : tele'[x].running => \E d \in Calls : Covers(call'[d], x)
      BY <1>4, <1>6, <2>1 DEF EngineKeeps, Covered
    <2> QED
      BY <2>2 DEF Covered
  <1>14. EngineTyped' /\ Serving'
    BY <1>4, <1>6 DEF EngineKeeps, EngineTyped, Serving, Unstopped
  <1>15. \A d \in Calls : CallPlace(d, call[d], eng)'
    BY <1>4, <1>10 DEF CallPlace
  <1> QED
    BY <1>11, <1>12, <1>13, <1>14, <1>15 DEF EngineKeeps

(* --- Stop ---                                                            *)

LEMMA StopFacts ==
  ASSUME EngineKeeps, NEW s \in Stops
  PROVE  /\ stop[s] \in StopRecord /\ stop \in [Stops -> StopRecord] /\ eng \in EngineRecord
         /\ call \in [Calls -> CallRecord] /\ \A c \in Calls : CallPlace(c, call[c], eng)
         /\ tele \in [Engine!Telemetry -> TeleRecord] /\ dead \in BOOLEAN
  BY DEF EngineKeeps, EngineTyped

(* One Stop moves on.                                                      *)
LEMMA StopMoves ==
  ASSUME EngineKeeps, NEW s \in Stops, NEW t \in StopRecord, stop' = [stop EXCEPT ![s] = t]
  PROVE  stop' \in [Stops -> StopRecord] /\ \A k \in Stops : stop'[k] = IF k = s THEN t ELSE stop[k]
  BY StopFacts

LEMMA StopUnderWay ==
  ASSUME EngineKeeps, NEW s \in Stops, NEW t \in StopRecord, stop' = [stop EXCEPT ![s] = t],
         stop[s].pc # "idle", t.pc # "idle", eng'.gen = eng.gen
  PROVE  eng'.gen + Cardinality(Unstopped') <= Cardinality(Stops)
  <1>1. \A k \in Stops : stop'[k].pc = "idle" <=> stop[k].pc = "idle"
    BY StopMoves
  <1>2. Unstopped' = Unstopped
    BY <1>1 DEF Unstopped
  <1> QED
    BY <1>2 DEF EngineKeeps, EngineTyped

(* Every Stop raises the generation once.                                  *)
LEMMA StopBegins ==
  ASSUME EngineKeeps, NEW s \in Stops, NEW t \in StopRecord, stop' = [stop EXCEPT ![s] = t],
         stop[s].pc = "idle", t.pc # "idle", eng'.gen = eng.gen \/ eng'.gen = eng.gen + 1
  PROVE  eng'.gen + Cardinality(Unstopped') <= Cardinality(Stops)
  <1> DEFINE S == Unstopped
             T == Unstopped'
             n == Cardinality(Stops)
  <1>1. \A k \in Stops : k \in T <=> k \in S /\ k # s
    BY StopMoves DEF Unstopped
  <1>2. S \subseteq Stops /\ T \subseteq Stops /\ s \in S
    BY DEF Unstopped
  <1>3. IsFiniteSet(S) /\ Cardinality(S) \in Nat /\ n \in Nat
    BY UnstoppedFinite
  <1>4. eng.gen \in Nat /\ eng.gen + Cardinality(S) <= n
    BY DEF EngineKeeps, EngineTyped, EngineRecord
  <1> HIDE DEF S, T, n
  <1>5. T = S \ {s}
    BY <1>1, <1>2
  <1>6. Cardinality(T) = Cardinality(S) - 1
    BY <1>2, <1>3, <1>5, FS_RemoveElement
  <1>7. eng'.gen + Cardinality(T) <= n
    BY <1>3, <1>4, <1>6
  <1> QED
    BY <1>7 DEF T, n

LEMMA SlotFacts ==
  ASSUME EngineKeeps
  PROVE  /\ eng.gen \in Nat /\ eng.gen + 1 \in Nat /\ eng.stack \in Slot /\ eng.done \in Slot
         /\ eng.res \in Slot /\ eng.srv \in Slot /\ eng.tun \in Slot
  BY DEF EngineKeeps, EngineTyped, EngineRecord

LEMMA Stopped ==
  ASSUME EngineKeeps, NEW s \in Stops, Engine!Stop(s)
  PROVE  EngineKeeps'
  <1> DEFINE e == [Engine!NewEngine EXCEPT !.gen = eng.gen + 1]
             t == [pc |-> "shut", stack |-> eng.stack, done |-> eng.done, res |-> eng.res,
                   srv |-> eng.srv, i |-> 1]
             f == Engine!CloseFd(call, eng.tun)
  <1>1. /\ stop[s].pc = "idle" /\ UNCHANGED <<mode, tele, dead>> /\ eng' = e /\ call' = f
        /\ stop' = [stop EXCEPT ![s] = t]
    BY DEF Engine!Stop, Engine!StopAt
  <1>2. /\ e \in EngineRecord /\ e.gen = eng.gen + 1 /\ ~e.running /\ e.done = None /\ e.tun = None
        /\ e.res = None
    BY SlotFacts DEF EngineRecord, Engine!NewEngine, Slot
  <1>3. t \in StopRecord /\ t.pc = "shut" /\ t.done = eng.done /\ t.res = eng.res
    BY SlotFacts, OrderFacts DEF StopRecord
  <1>4. /\ f \in [Calls -> CallRecord]
        /\ \A c \in Calls : /\ Yields(f[c], call[c]) /\ f[c].res = call[c].res
                            /\ c = eng.tun => f[c].fd = "closed"
    BY FdCloses
  <1> HIDE DEF e, t, f
  <1>5. /\ stop' \in [Stops -> StopRecord]
        /\ \A k \in Stops : stop'[k] = IF k = s THEN t ELSE stop[k]
    BY <1>1, <1>3, StopMoves
  <1>6. eng'.gen + Cardinality(Unstopped') <= Cardinality(Stops)
    BY <1>1, <1>2, <1>3, StopBegins
  <1>7. \A c \in Calls : /\ call'[c].pc = call[c].pc /\ call'[c].i = call[c].i /\ call'[c].gen = call[c].gen
                         /\ call'[c].oldRes = call[c].oldRes
    BY <1>1, <1>4 DEF Yields
  <1>8. ASSUME NEW c \in Calls PROVE CallPlace(c, call'[c], eng')
    <2> DEFINE w == call[c]
               r == f[c]
    <2>1. w \in CallRecord /\ CallPlace(c, w, eng)
      BY CallFacts
    <2>2. Yields(r, w) /\ (c = eng.tun => r.fd = "closed")
      BY <1>4
    <2>3. w.gen \in Nat /\ eng.gen \in Nat
      BY <2>1, SlotFacts DEF CallRecord
    <2>4. c # None
      BY NoneIsNobody
    <2>5. w.gen <= eng.gen
      BY <2>1 DEF CallPlace, Owned
    <2> HIDE DEF w, r
    <2>6. w.gen < e.gen /\ w.gen # e.gen /\ w.gen <= e.gen
      BY <1>2, <2>3, <2>5
    <2>7. CallPlace(c, r, e)
      BY <1>2, <2>1, <2>2, <2>4, <2>6 DEF CallPlace, Owned, Holds, Yields
    <2> QED
      BY <1>1, <2>7 DEF r
  <1>9. Ending'
    <2> SUFFICES ASSUME NEW k \in Stops, NEW c \in Calls, stop'[k].done = c
                 PROVE  call'[c].gen < eng'.gen /\ call'[c].pc # "idle"
      BY DEF Ending
    <2>1. call[c].gen \in Nat /\ eng.gen \in Nat /\ eng'.gen = eng.gen + 1
      BY <1>1, <1>2, CallFacts, SlotFacts DEF CallRecord
    <2>2. call[c].gen <= eng.gen /\ call[c].pc # "idle"
      <3>1. CASE k = s
        <4>1. eng.done = c /\ CallPlace(c, call[c], eng)
          BY <1>3, <1>5, <3>1, CallFacts
        <4> QED
          BY <4>1 DEF CallPlace, Owned, Active
      <3>2. CASE k # s
        <4>1. stop[k].done = c
          BY <1>5, <3>2
        <4> QED
          BY <2>1, <4>1 DEF EngineKeeps, Ending
      <3> QED
        BY <3>1, <3>2
    <2> QED
      BY <1>7, <2>1, <2>2
  <1>10. Serving'
    BY <1>1, <1>2 DEF Serving
  <1>11. Engine!NoOrphanResolver'
    <2> SUFFICES ASSUME mode = "standalone", NEW d \in Calls, call'[d].res = "live"
                 PROVE  \/ eng'.res = d \/ \E k \in Calls : call'[k].oldRes = d
                        \/ \E k \in Stops : stop'[k].res = d /\ stop'[k].pc = "shut"
      BY <1>1 DEF Engine!NoOrphanResolver
    <2>1. \/ eng.res = d \/ \E k \in Calls : call[k].oldRes = d
          \/ \E k \in Stops : stop[k].res = d /\ stop[k].pc = "shut"
      BY <1>1, <1>4 DEF EngineKeeps, Engine!NoOrphanResolver
    <2>2. eng.res = d => stop'[s].res = d /\ stop'[s].pc = "shut"
      BY <1>3, <1>5
    <2>3. \A k \in Stops : stop[k].pc = "shut" => stop'[k] = stop[k]
      BY <1>1, <1>5
    <2> QED
      BY <1>7, <2>1, <2>2, <2>3
  <1>12. /\ dead' \in BOOLEAN /\ tele' \in [Engine!Telemetry -> TeleRecord]
         /\ \A x \in Engine!Telemetry : tele'[x].running => tele[x].running
    BY <1>1 DEF EngineKeeps, EngineTyped
  <1> QED
    BY <1>1, <1>2, <1>4, <1>5, <1>6, <1>7, <1>8, <1>9, <1>10, <1>11, <1>12, EngineYields

LEMMA StoppedStandalone ==
  ASSUME EngineKeeps, NEW s \in Stops, Engine!StopStandalone(s)
  PROVE  EngineKeeps'
  <1> DEFINE e == [eng EXCEPT !.running = FALSE, !.srv = None, !.res = None]
             t == [Engine!NoStop EXCEPT !.pc = "shut", !.res = eng.res, !.srv = eng.srv, !.i = 0]
  <1>1. /\ mode = "standalone" /\ stop[s].pc = "idle" /\ UNCHANGED <<mode, call, tele, dead>>
        /\ eng' = e /\ stop' = [stop EXCEPT ![s] = t]
    BY DEF Engine!StopStandalone, Engine!StopAt
  <1>2. eng \in EngineRecord /\ call \in [Calls -> CallRecord] /\ \A c \in Calls : CallPlace(c, call[c], eng)
    BY StopFacts
  <1>3. /\ e \in EngineRecord /\ e.gen = eng.gen /\ e.done = eng.done /\ e.tun = eng.tun /\ e.res = None
    BY <1>2 DEF EngineRecord, Slot
  <1>4. t \in StopRecord /\ t.pc = "shut" /\ t.done = None /\ t.res = eng.res
    BY SlotFacts DEF StopRecord, Engine!NoStop, Slot
  <1> HIDE DEF e, t
  <1>5. /\ stop' \in [Stops -> StopRecord]
        /\ \A k \in Stops : stop'[k] = IF k = s THEN t ELSE stop[k]
    BY <1>1, <1>4, StopMoves
  <1>6. eng'.gen + Cardinality(Unstopped') <= Cardinality(Stops)
    BY <1>1, <1>3, <1>4, StopBegins
  <1>7. \A c \in Calls : CallPlace(c, call'[c], eng')
    <2>1. \A c \in Calls : eng.done # c
      BY <1>1, <1>2 DEF CallPlace, Owned, Active, Standalone
    <2>2. \A c \in Calls : CallPlace(c, call[c], e)
      BY <1>2, <1>3, <2>1 DEF CallPlace, Owned, Holds
    <2> QED
      BY <1>1, <2>2
  <1>8. Ending'
    BY <1>1, <1>3, <1>4, <1>5, NoneIsNobody DEF EngineKeeps, Ending
  <1>9. Serving'
    BY <1>1, <1>3 DEF Serving
  <1>10. Engine!NoOrphanResolver'
    <2> SUFFICES ASSUME NEW d \in Calls, call'[d].res = "live"
                 PROVE  \/ eng'.res = d \/ \E k \in Calls : call'[k].oldRes = d
                        \/ \E k \in Stops : stop'[k].res = d /\ stop'[k].pc = "shut"
      BY <1>1 DEF Engine!NoOrphanResolver
    <2>1. \/ eng.res = d \/ \E k \in Calls : call[k].oldRes = d
          \/ \E k \in Stops : stop[k].res = d /\ stop[k].pc = "shut"
      BY <1>1 DEF EngineKeeps, Engine!NoOrphanResolver
    <2>2. eng.res = d => stop'[s].res = d /\ stop'[s].pc = "shut"
      BY <1>4, <1>5
    <2>3. \A k \in Stops : stop[k].pc = "shut" => stop'[k] = stop[k]
      BY <1>1, <1>5
    <2> QED
      BY <1>1, <2>1, <2>2, <2>3
  <1>11. /\ dead' \in BOOLEAN /\ tele' \in [Engine!Telemetry -> TeleRecord]
         /\ \A x \in Engine!Telemetry : tele'[x].running => tele[x].running
    BY <1>1 DEF EngineKeeps, EngineTyped
  <1>12. call' \in [Calls -> CallRecord] /\ \A c \in Calls : call'[c].pc = call[c].pc /\ call'[c].i = call[c].i
    BY <1>1, <1>2
  <1> QED
    BY <1>1, <1>3, <1>5, <1>6, <1>7, <1>8, <1>9, <1>10, <1>11, <1>12, EngineYields

(* A Stop under way leaves the engine to whoever has it by now.            *)
LEMMA StopYields ==
  ASSUME EngineKeeps, NEW s \in Stops, NEW t \in StopRecord, stop' = [stop EXCEPT ![s] = t],
         stop[s].pc # "idle", t.pc # "idle", t.done = None \/ t.done = stop[s].done,
         stop[s].pc = "shut" => t.pc # "shut",
         UNCHANGED <<mode, eng>>, call' \in [Calls -> CallRecord], dead' \in BOOLEAN,
         tele' \in [Engine!Telemetry -> TeleRecord],
         \A x \in Engine!Telemetry : tele'[x].running => tele[x].running,
         \A c \in Calls : /\ call'[c].pc = call[c].pc /\ call'[c].i = call[c].i
                          /\ call'[c].gen = call[c].gen /\ call'[c].oldRes = call[c].oldRes,
         \A c \in Calls : call'[c].res = "live" => call[c].res = "live",
         stop[s].pc = "shut" => \A c \in Calls : stop[s].res = c => call'[c].res # "live",
         \A c \in Calls : CallPlace(c, call'[c], eng)
  PROVE  EngineKeeps'
  <1>1. /\ stop' \in [Stops -> StopRecord]
        /\ \A k \in Stops : stop'[k] = IF k = s THEN t ELSE stop[k]
    BY StopMoves
  <1>2. eng'.gen + Cardinality(Unstopped') <= Cardinality(Stops)
    BY StopUnderWay
  <1>3. eng' \in EngineRecord /\ \A c \in Calls : CallPlace(c, call'[c], eng')
    BY DEF EngineKeeps, EngineTyped
  <1>4. Ending'
    <2>1. \A k \in Stops : stop'[k].done = None \/ stop'[k].done = stop[k].done
      BY <1>1
    <2> QED
      BY <2>1, NoneIsNobody DEF EngineKeeps, Ending
  <1>5. Serving'
    BY DEF EngineKeeps, Serving
  <1>6. Engine!NoOrphanResolver'
    <2> SUFFICES ASSUME mode = "standalone", NEW d \in Calls, call'[d].res = "live"
                 PROVE  \/ eng'.res = d \/ \E k \in Calls : call'[k].oldRes = d
                        \/ \E k \in Stops : stop'[k].res = d /\ stop'[k].pc = "shut"
      BY DEF Engine!NoOrphanResolver
    <2>1. \/ eng.res = d \/ \E k \in Calls : call[k].oldRes = d
          \/ \E k \in Stops : stop[k].res = d /\ stop[k].pc = "shut"
      BY DEF EngineKeeps, Engine!NoOrphanResolver
    <2>2. \A k \in Stops : stop[k].res = d /\ stop[k].pc = "shut" => k # s
      OBVIOUS
    <2> QED
      BY <1>1, <2>1, <2>2
  <1>7. \A c \in Calls : call'[c].pc = call[c].pc /\ call'[c].i = call[c].i
    OBVIOUS
  <1> QED
    BY <1>1, <1>2, <1>3, <1>4, <1>5, <1>6, <1>7, EngineYields

LEMMA StopShutsDown ==
  ASSUME EngineKeeps, NEW s \in Stops, Engine!StopShutdown(s)
  PROVE  EngineKeeps'
  <1> DEFINE p == stop[s]
             f == Engine!Shutdown(call, p.srv, p.res)
             t == IF p.i = 0 THEN [Engine!NoStop EXCEPT !.pc = "done"]
                  ELSE [p EXCEPT !.pc = "close", !.srv = None, !.res = None]
  <1>1. p \in StopRecord /\ stop \in [Stops -> StopRecord]
    BY StopFacts
  <1>2. /\ p.pc = "shut" /\ UNCHANGED <<mode, eng, tele, dead>> /\ call' = f
        /\ stop' = [stop EXCEPT ![s] = t]
    BY <1>1 DEF Engine!StopShutdown, Engine!StopAt
  <1>3. t \in StopRecord /\ t.pc \in {"close", "done"} /\ (t.done = None \/ t.done = p.done)
    <2>1. CASE p.i = 0
      BY <2>1, OrderFacts DEF StopRecord, Engine!NoStop, Slot
    <2>2. CASE p.i # 0
      <3> DEFINE u == [p EXCEPT !.pc = "close", !.srv = None, !.res = None]
      <3>1. p.i \in Order
        BY <1>1, <2>2 DEF StopRecord
      <3>2. u \in StopRecord /\ u.pc = "close" /\ u.done = p.done
        BY <1>1, <3>1 DEF StopRecord, Slot
      <3> QED
        BY <2>2, <3>2
    <2> QED
      BY <2>1, <2>2
  <1>4. f \in [Calls -> CallRecord] /\ \A c \in Calls : Yields(f[c], call[c])
    BY ShutsDown
  <1>5. \A c \in Calls : f[c].res = IF c = p.res THEN "down" ELSE call[c].res
    BY ShutsDown
  <1>6. \A c \in Calls : CallPlace(c, call[c], eng)
    BY StopFacts
  <1> HIDE DEF f, t
  <1>7. \A c \in Calls : CallPlace(c, call'[c], eng)
    BY <1>2, <1>4, <1>6, YieldsPlace
  <1>8. \A c \in Calls : /\ call'[c].pc = call[c].pc /\ call'[c].i = call[c].i
                         /\ call'[c].gen = call[c].gen /\ call'[c].oldRes = call[c].oldRes
    BY <1>2, <1>4 DEF Yields
  <1>9. /\ \A c \in Calls : call'[c].res = "live" => call[c].res = "live"
        /\ stop[s].pc = "shut" => \A c \in Calls : stop[s].res = c => call'[c].res # "live"
    BY <1>2, <1>5
  <1>10. /\ dead' \in BOOLEAN /\ tele' \in [Engine!Telemetry -> TeleRecord]
         /\ \A x \in Engine!Telemetry : tele'[x].running => tele[x].running
    BY <1>2, StopFacts
  <1>11. call' \in [Calls -> CallRecord] /\ t.pc # "idle" /\ t.pc # "shut"
    BY <1>2, <1>3, <1>4
  <1> QED
    BY <1>2, <1>3, <1>7, <1>8, <1>9, <1>10, <1>11, StopYields

LEMMA StopCloses ==
  ASSUME EngineKeeps, NEW s \in Stops, Engine!StopClose(s)
  PROVE  EngineKeeps'
  <1> DEFINE p == stop[s]
             c == p.done
             t == [p EXCEPT !.pc = "stack", !.done = None]
             r == [call[c] EXCEPT !.done = "closed"]
  <1>1. /\ p \in StopRecord /\ stop \in [Stops -> StopRecord] /\ call \in [Calls -> CallRecord]
        /\ \A d \in Calls : CallPlace(d, call[d], eng)
    BY StopFacts
  <1>2. /\ p.pc = "close" /\ UNCHANGED <<mode, eng, tele>> /\ stop' = [stop EXCEPT ![s] = t]
        /\ \/ UNCHANGED call
           \/ c # None /\ call' = [call EXCEPT ![c] = r]
        /\ dead' \in BOOLEAN
    <2>1. dead \in BOOLEAN
      BY StopFacts
    <2> QED
      BY <1>1, <2>1 DEF Engine!StopClose, Engine!StopAt
  <1>3. t \in StopRecord /\ t.pc = "stack" /\ t.done = None
    <2>1. p.i \in Order
      BY <1>1, <1>2 DEF StopRecord
    <2> QED
      BY <1>1, <2>1 DEF StopRecord, Slot
  <1>4. /\ tele' \in [Engine!Telemetry -> TeleRecord]
        /\ \A x \in Engine!Telemetry : tele'[x].running => tele[x].running
    BY <1>2, StopFacts
  <1> HIDE DEF t
  <1>5. ASSUME NEW f \in [Calls -> CallRecord], call' = f,
               \A d \in Calls : /\ f[d].pc = call[d].pc /\ f[d].i = call[d].i /\ f[d].gen = call[d].gen
                                /\ f[d].oldRes = call[d].oldRes /\ f[d].res = call[d].res,
               \A d \in Calls : CallPlace(d, f[d], eng)
        PROVE  EngineKeeps'
    <2>1. /\ \A d \in Calls : /\ call'[d].pc = call[d].pc /\ call'[d].i = call[d].i
                              /\ call'[d].gen = call[d].gen /\ call'[d].oldRes = call[d].oldRes
          /\ \A d \in Calls : call'[d].res = "live" => call[d].res = "live"
          /\ \A d \in Calls : CallPlace(d, call'[d], eng)
          /\ call' \in [Calls -> CallRecord] /\ stop[s].pc # "idle" /\ stop[s].pc # "shut"
          /\ t.pc # "idle"
      BY <1>2, <1>3, <1>5
    <2> QED
      BY <1>2, <1>3, <1>4, <2>1, StopYields
  <1>6. CASE UNCHANGED call
    BY <1>1, <1>5, <1>6
  <1>7. CASE c # None /\ call' = [call EXCEPT ![c] = r]
    <2>1. c \in Calls /\ call[c] \in CallRecord
      BY <1>1, <1>7 DEF StopRecord, Slot
    <2>2. /\ r \in CallRecord /\ r.pc = call[c].pc /\ r.i = call[c].i /\ r.gen = call[c].gen
          /\ r.oldRes = call[c].oldRes /\ r.res = call[c].res /\ r.fd = call[c].fd
          /\ r.writer = call[c].writer /\ r.stack = call[c].stack
      BY <2>1 DEF CallRecord
    <2> DEFINE f == [call EXCEPT ![c] = r]
    <2> HIDE DEF r
    <2>3. f \in [Calls -> CallRecord] /\ \A d \in Calls : f[d] = IF d = c THEN r ELSE call[d]
      BY <1>1, <2>1, <2>2
    <2>4. call' = f
      BY <1>7
    <2> HIDE DEF f
    <2>5. call[c].gen < eng.gen /\ call[c].pc # "idle"
      BY <2>1 DEF EngineKeeps, Ending
    <2>6. CallPlace(c, r, eng)
      <3>1. CallPlace(c, call[c], eng)
        BY <1>1, <2>1
      <3> QED
        BY <2>2, <2>5, <3>1 DEF CallPlace, Owned, Holds
    <2>7. \A d \in Calls : CallPlace(d, f[d], eng)
      BY <1>1, <2>3, <2>6
    <2>8. \A d \in Calls : /\ f[d].pc = call[d].pc /\ f[d].i = call[d].i /\ f[d].gen = call[d].gen
                           /\ f[d].oldRes = call[d].oldRes /\ f[d].res = call[d].res
      BY <2>2, <2>3
    <2> QED
      BY <1>5, <2>3, <2>4, <2>7, <2>8
  <1> QED
    BY <1>2, <1>6, <1>7

LEMMA StopStops ==
  ASSUME EngineKeeps, NEW s \in Stops, Engine!StopStack(s)
  PROVE  EngineKeeps'
  <1> DEFINE p == stop[s]
             c == p.stack
             t == [p EXCEPT !.pc = "swapOff", !.stack = None]
             halted == Engine!StackStop(call[c].stack)
             r == [call[c] EXCEPT !.stack = halted]
  <1>1. /\ p \in StopRecord /\ stop \in [Stops -> StopRecord] /\ call \in [Calls -> CallRecord]
        /\ \A d \in Calls : CallPlace(d, call[d], eng)
    BY StopFacts
  <1>2. /\ p.pc = "stack" /\ UNCHANGED <<mode, eng, tele, dead>> /\ stop' = [stop EXCEPT ![s] = t]
        /\ \/ UNCHANGED call
           \/ c # None /\ call' = [call EXCEPT ![c] = r]
    BY <1>1 DEF Engine!StopStack, Engine!StopAt
  <1>3. t \in StopRecord /\ t.pc = "swapOff" /\ t.done = p.done
    <2>1. p.i \in Order
      BY <1>1, <1>2 DEF StopRecord
    <2> QED
      BY <1>1, <2>1 DEF StopRecord, Slot
  <1>4. /\ tele' \in [Engine!Telemetry -> TeleRecord] /\ dead' \in BOOLEAN
        /\ \A x \in Engine!Telemetry : tele'[x].running => tele[x].running
    BY <1>2, StopFacts
  <1> HIDE DEF t
  <1>5. ASSUME NEW f \in [Calls -> CallRecord], call' = f,
               \A d \in Calls : Yields(f[d], call[d]) /\ f[d].res = call[d].res
        PROVE  EngineKeeps'
    <2>1. \A d \in Calls : CallPlace(d, call'[d], eng)
      BY <1>1, <1>5, YieldsPlace
    <2>2. /\ \A d \in Calls : /\ call'[d].pc = call[d].pc /\ call'[d].i = call[d].i
                              /\ call'[d].gen = call[d].gen /\ call'[d].oldRes = call[d].oldRes
          /\ \A d \in Calls : call'[d].res = "live" => call[d].res = "live"
          /\ call' \in [Calls -> CallRecord] /\ stop[s].pc # "idle" /\ stop[s].pc # "shut"
          /\ t.pc # "idle"
      BY <1>2, <1>3, <1>5 DEF Yields
    <2> QED
      BY <1>2, <1>3, <1>4, <2>1, <2>2, StopYields
  <1>6. CASE UNCHANGED call
    BY <1>1, <1>5, <1>6, YieldsSame
  <1>7. CASE c # None /\ call' = [call EXCEPT ![c] = r]
    <2>1. c \in Calls /\ call[c] \in CallRecord
      BY <1>1, <1>7 DEF StopRecord, Slot
    <2>2. halted \in {"none", "new", "off"}
      BY <2>1 DEF Engine!StackStop, CallRecord
    <2> HIDE DEF halted
    <2>3. r \in CallRecord /\ Yields(r, call[c]) /\ r.res = call[c].res
      BY <2>1, <2>2 DEF CallRecord, Yields
    <2> DEFINE f == [call EXCEPT ![c] = r]
    <2> HIDE DEF r
    <2>4. f \in [Calls -> CallRecord] /\ \A d \in Calls : f[d] = IF d = c THEN r ELSE call[d]
      BY <1>1, <2>1, <2>3
    <2>5. call' = f
      BY <1>7
    <2> HIDE DEF f
    <2>6. \A d \in Calls : Yields(f[d], call[d]) /\ f[d].res = call[d].res
      BY <2>3, <2>4, YieldsSame
    <2> QED
      BY <1>5, <2>4, <2>5, <2>6
  <1> QED
    BY <1>2, <1>6, <1>7

LEMMA StopStopsTele ==
  ASSUME EngineKeeps, NEW s \in Stops, Engine!StopTele(s)
  PROVE  EngineKeeps'
  <1> DEFINE p == stop[s]
             i == p.i
             x == Engine!StopOrder[i]
             next == IF i < Len(StartOrder) THEN [p EXCEPT !.pc = "swapOff", !.i = @ + 1]
                     ELSE [Engine!NoStop EXCEPT !.pc = "done"]
  <1>1. /\ p \in StopRecord /\ stop \in [Stops -> StopRecord] /\ call \in [Calls -> CallRecord]
        /\ \A d \in Calls : CallPlace(d, call[d], eng)
        /\ tele \in [Engine!Telemetry -> TeleRecord] /\ dead \in BOOLEAN
    BY StopFacts
  <1>2. p.pc \in {"swapOff", "chan"} /\ UNCHANGED <<mode, eng, call>>
    BY DEF Engine!StopTele, Engine!StopAt
  <1>3. \/ /\ stop' = [stop EXCEPT ![s] = next] /\ UNCHANGED <<tele, dead>>
        \/ /\ tele[x].running /\ Engine!SwapOff(x)
           /\ stop' = [stop EXCEPT ![s] = [p EXCEPT !.pc = "chan"]] /\ UNCHANGED dead
        \/ /\ Engine!CloseChan(x) /\ stop' = [stop EXCEPT ![s] = next]
    BY <1>1 DEF Engine!StopTele, Engine!StopGoto
  <1>4. ASSUME NEW t \in StopRecord, stop' = [stop EXCEPT ![s] = t], t.pc \notin {"idle", "shut"},
               t.done = None \/ t.done = p.done, dead' \in BOOLEAN,
               tele' \in [Engine!Telemetry -> TeleRecord],
               \A y \in Engine!Telemetry : tele'[y].running => tele[y].running
        PROVE  EngineKeeps'
    <2>1. /\ \A d \in Calls : /\ call'[d].pc = call[d].pc /\ call'[d].i = call[d].i
                              /\ call'[d].gen = call[d].gen /\ call'[d].oldRes = call[d].oldRes
          /\ \A d \in Calls : call'[d].res = "live" => call[d].res = "live"
          /\ \A d \in Calls : CallPlace(d, call'[d], eng)
          /\ call' \in [Calls -> CallRecord] /\ stop[s].pc # "idle" /\ stop[s].pc # "shut"
          /\ t.pc # "idle"
      BY <1>1, <1>2, <1>4
    <2> QED
      BY <1>2, <1>4, <2>1, StopYields
  <1>5. i \in Order /\ x \in Engine!Telemetry
    BY <1>1, <1>2, OrderFacts DEF StopRecord
  <1>6. next \in StopRecord /\ next.pc \in {"swapOff", "done"} /\ (next.done = None \/ next.done = p.done)
    <2>1. CASE i < Len(StartOrder)
      <3> DEFINE k == i + 1
                 t == [p EXCEPT !.pc = "swapOff", !.i = k]
      <3>1. k \in Order
        BY <1>5, <2>1, OrderFacts
      <3>2. next = t
        BY <1>1, <2>1 DEF StopRecord
      <3> HIDE DEF k, next
      <3>3. t \in StopRecord /\ t.pc = "swapOff" /\ t.done = p.done
        BY <1>1, <3>1 DEF StopRecord
      <3> QED
        BY <3>2, <3>3
    <2>2. CASE ~(i < Len(StartOrder))
      <3>1. next = [Engine!NoStop EXCEPT !.pc = "done"]
        BY <2>2
      <3> HIDE DEF next
      <3> QED
        BY <3>1, OrderFacts DEF StopRecord, Engine!NoStop, Slot
    <2> QED
      BY <2>1, <2>2
  <1> HIDE DEF next
  <1>7. CASE stop' = [stop EXCEPT ![s] = next] /\ UNCHANGED <<tele, dead>>
    BY <1>1, <1>4, <1>6, <1>7
  <1>8. ASSUME Engine!SwapOff(x), UNCHANGED dead,
               stop' = [stop EXCEPT ![s] = [p EXCEPT !.pc = "chan"]]
        PROVE  EngineKeeps'
    <2> DEFINE t == [p EXCEPT !.pc = "chan"]
    <2>1. t \in StopRecord /\ t.pc = "chan" /\ t.done = p.done
      BY <1>1, <1>5 DEF StopRecord
    <2>2. /\ tele' \in [Engine!Telemetry -> TeleRecord] /\ ~tele'[x].running
          /\ \A y \in Engine!Telemetry \ {x} : tele'[y].running = tele[y].running
      BY <1>1, <1>5, <1>8, TeleFields
    <2>3. \A y \in Engine!Telemetry : tele'[y].running => tele[y].running
      BY <2>2
    <2>4. stop' = [stop EXCEPT ![s] = t]
      BY <1>8
    <2> HIDE DEF t
    <2> QED
      BY <1>1, <1>4, <1>8, <2>1, <2>2, <2>3, <2>4
  <1>9. ASSUME Engine!CloseChan(x), stop' = [stop EXCEPT ![s] = next]
        PROVE  EngineKeeps'
    <2>1. /\ tele' \in [Engine!Telemetry -> TeleRecord] /\ dead' \in BOOLEAN
          /\ \A y \in Engine!Telemetry : tele'[y].running => tele[y].running
      BY <1>5, <1>9, ChanCloses
    <2> QED
      BY <1>4, <1>6, <1>9, <2>1
  <1> QED
    BY <1>3, <1>5, <1>7, <1>8, <1>9

LEMMA ReleasesTun ==
  ASSUME EngineKeeps, Engine!ReleaseTun
  PROVE  EngineKeeps'
  <1> DEFINE e == [eng EXCEPT !.tun = None]
             f == Engine!CloseFd(call, eng.tun)
  <1>1. UNCHANGED <<mode, stop, tele, dead>> /\ eng' = e /\ call' = f
    BY DEF Engine!ReleaseTun
  <1>2. eng \in EngineRecord /\ \A c \in Calls : CallPlace(c, call[c], eng)
    BY DEF EngineKeeps, EngineTyped
  <1>3. /\ e \in EngineRecord /\ e.gen = eng.gen /\ e.running = eng.running /\ e.done = eng.done
        /\ e.tun = None /\ e.res = eng.res
    BY <1>2 DEF EngineRecord, Slot
  <1>4. /\ f \in [Calls -> CallRecord]
        /\ \A c \in Calls : /\ Yields(f[c], call[c]) /\ f[c].res = call[c].res
                            /\ c = eng.tun => f[c].fd = "closed"
    BY FdCloses
  <1> HIDE DEF e, f
  <1>5. ASSUME NEW c \in Calls PROVE CallPlace(c, call'[c], eng')
    <2> DEFINE w == call[c]
               r == f[c]
    <2>1. CallPlace(c, w, eng) /\ Yields(r, w) /\ (c = eng.tun => r.fd = "closed") /\ c # None
      BY <1>2, <1>4, NoneIsNobody
    <2> HIDE DEF w, r
    <2>2. CallPlace(c, r, e)
      BY <1>3, <2>1 DEF CallPlace, Owned, Holds, Yields
    <2> QED
      BY <1>1, <2>2 DEF r
  <1>6. \A c \in Calls : /\ call'[c].pc = call[c].pc /\ call'[c].i = call[c].i /\ call'[c].gen = call[c].gen
                         /\ call'[c].oldRes = call[c].oldRes /\ call'[c].res = call[c].res
    BY <1>1, <1>4 DEF Yields
  <1>7. Ending' /\ Serving'
    BY <1>1, <1>3, <1>6 DEF EngineKeeps, Ending, Serving
  <1>8. Engine!NoOrphanResolver'
    BY <1>1, <1>3, <1>6 DEF EngineKeeps, Engine!NoOrphanResolver
  <1>9. eng'.gen + Cardinality(Unstopped') <= Cardinality(Stops)
    BY <1>1, <1>3 DEF EngineKeeps, EngineTyped, Unstopped
  <1>10. /\ dead' \in BOOLEAN /\ tele' \in [Engine!Telemetry -> TeleRecord] /\ stop' \in [Stops -> StopRecord]
         /\ \A x \in Engine!Telemetry : tele'[x].running => tele[x].running
    BY <1>1 DEF EngineKeeps, EngineTyped
  <1>11. eng' \in EngineRecord /\ call' \in [Calls -> CallRecord] /\ mode' = mode
    BY <1>1, <1>3, <1>4
  <1> QED
    BY <1>5, <1>6, <1>7, <1>8, <1>9, <1>10, <1>11, EngineYields

LEMMA EngineNext == EngineKeeps /\ Engine!Next => EngineKeeps'
  <1> SUFFICES ASSUME EngineKeeps, Engine!Next PROVE EngineKeeps'
    OBVIOUS
  <1>1. ASSUME NEW c \in Calls, Engine!StartFull(c) \/ Engine!StartStandalone(c) PROVE EngineKeeps'
    BY <1>1, StartsFull, StartsStandalone
  <1>2. ASSUME NEW c \in Calls, Engine!CallStep(c) PROVE EngineKeeps'
    <2>1. CASE Engine!Fail(c) \/ Engine!Build(c) \/ Engine!Publish(c) \/ Engine!StartStack(c)
      BY <2>1, Fails, Builds, Publishes, StartsStack
    <2>2. CASE Engine!StartTele(c) \/ Engine!Wait(c) \/ Engine!TailTele(c)
      BY <2>2, StartsTele, Waits, StopsOwnTele
    <2>3. CASE Engine!Halt(c) \/ Engine!Clear(c)
      BY <2>3, Halts, Clears
    <2>4. CASE Engine!ShutdownOlds(c) \/ Engine!Install(c)
      BY <2>4, OldsShutDown, Installs
    <2>5. CASE Engine!Bind(c) \/ Engine!Activate(c)
      BY <2>5, Binds
    <2> QED
      BY <1>2, <2>1, <2>2, <2>3, <2>4, <2>5 DEF Engine!CallStep
  <1>3. ASSUME NEW s \in Stops, Engine!Stop(s) \/ Engine!StopStandalone(s) PROVE EngineKeeps'
    BY <1>3, Stopped, StoppedStandalone
  <1>4. ASSUME NEW s \in Stops, Engine!StopStep(s) PROVE EngineKeeps'
    BY <1>4, StopShutsDown, StopCloses, StopStops, StopStopsTele DEF Engine!StopStep
  <1> QED
    BY <1>1, <1>2, <1>3, <1>4, ReleasesTun DEF Engine!Next

-----------------------------------------------------------------------------
(* The engine as a whole.                                                  *)

LEMMA AndroidInit == Init => Inductive
  BY EngineInit, TelemetryInit, ResolverInit, DnsInit, FlowInit DEF Init, Inductive

LEMMA AndroidNext == Inductive /\ [Next]_vars => Inductive'
  <1> SUFFICES ASSUME Inductive, [Next]_vars PROVE Inductive'
    OBVIOUS
  <1>1. Engine!Next \/ UNCHANGED engineVars
    BY DEF Next, vars
  <1>2. Telemetry!Next \/ UNCHANGED telemetryVars
    BY DEF Next, vars
  <1>3. Resolver!Next \/ UNCHANGED resolverVars
    BY DEF Next, vars
  <1>4. Dns!Next \/ UNCHANGED dnsVars
    BY DEF Next, vars
  <1>5. Flow!Next \/ UNCHANGED flowVars
    BY DEF Next, vars
  <1>6. EngineKeeps'
    BY <1>1, EngineNext, EngineUnchanged DEF Inductive
  <1>7. TelemetryKeeps'
    BY <1>2, TelemetryNext, TelemetryUnchanged DEF Inductive
  <1>8. ResolverKeeps'
    BY <1>3, ResolverNext, ResolverUnchanged DEF Inductive
  <1>9. DnsKeeps'
    BY <1>4, DnsNext, DnsUnchanged DEF Inductive
  <1>10. FlowKeeps'
    BY <1>5, FlowNext, FlowUnchanged DEF Inductive
  <1> QED
    BY <1>6, <1>7, <1>8, <1>9, <1>10 DEF Inductive

LEMMA AndroidInvariant == Spec => []Inductive
  BY AndroidInit, AndroidNext, PTL DEF Spec

(* However Stop, ReleaseTun and a second start interleave with a session's *)
(* setup, a StartFull that returned owns no stack, no tunnel writer and no *)
(* descriptor, an engine at rest runs no telemetry goroutine, and every    *)
(* live resolver of a DNS server engine is in somebody's hands             *)
(* (engine.go, engine_full_tunnel.go, engine_standalone.go).               *)
THEOREM SessionsEndClean == Spec => []SessionIsClean
  <1>1. Inductive => SessionIsClean
    BY EngineGives DEF Inductive, SessionIsClean
  <1> QED
    BY <1>1, AndroidInvariant, PTL

(* Snapshots and handles outlive their users: no attempt runs through a    *)
(* closed snapshot, however the configuration was rotated under it, no     *)
(* flow uses a certificate authority or a rule set that was freed, and a   *)
(* query fails only when every provider was tried (resolver_snapshot.go,   *)
(* resolver_strategy.go, mitm_cert_manager.go, engine_request_filter.go).  *)
THEOREM HandlesOutliveUse == Spec => []NoUseAfterClose
  <1>1. Inductive => NoUseAfterClose
    BY ResolverGives, FlowGives DEF Inductive, NoUseAfterClose
  <1> QED
    BY <1>1, AndroidInvariant, PTL

(* A name the rules refused all along is never answered with an address,   *)
(* from the cache neither, an address served is one the app may connect    *)
(* to, grants follow the allowlist, and the gates of the tunnel hold for   *)
(* every flow (engine_response_chain.go, dns_cache.go,                     *)
(* engine_app_allowlist.go, tcp_stack_handlers.go).                        *)
THEOREM FilterNeverLeaks == Spec => []FilteringHolds
  <1>1. Inductive => FilteringHolds
    BY DnsGives, FlowGives DEF Inductive, FilteringHolds
  <1> QED
    BY <1>1, AndroidInvariant, PTL

(* Every byte counted is reported once, pending or delivered, whoever      *)
(* ticks; the policy handle in use is one that was built and not freed;    *)
(* pins of a snapshot are exactly the queries and attempts that hold it    *)
(* (traffic_tracker.go, policy_engine.go, resolver_snapshot.go).           *)
THEOREM CountsAreExact == Spec => []TrafficIsExact
  <1>1. Inductive => TrafficIsExact
    BY TelemetryGives, ResolverGives DEF Inductive, TrafficIsExact
  <1> QED
    BY <1>1, AndroidInvariant, PTL

=============================================================================
