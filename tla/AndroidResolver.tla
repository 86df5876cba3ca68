-------------------------- MODULE AndroidResolver --------------------------
(***************************************************************************)
(* The upstream resolver of the Android engine: provider snapshots that    *)
(* are swapped while queries run, the four strategies (single, primary and *)
(* backup, parallel race, smart prediction), and what one attempt does on  *)
(* each transport.                                                         *)
(*                                                                         *)
(* A query and every attempt it launches pin the snapshot; a retired       *)
(* snapshot closes its providers with the last pin.  Scores, timeouts and  *)
(* circuit breakers live in a native library: an order of providers is any *)
(* permutation, a timer may fire at any moment.                            *)
(***************************************************************************)
EXTENDS Naturals, FiniteSets, SequencesExt

CONSTANTS Provs,       \* providers of a snapshot, in configured order (a Seq)
          Queries,
          MaxSnaps,    \* bound: configurations applied
          MaxIdle,     \* dotMaxIdleConnsPerHost
          Protos       \* choices of [provider -> protocol]

VARIABLES proto,       \* the protocol of each provider
          cur,         \* r.providerSnapshot (0: none)
          made,        \* snapshots built so far
          snap,        \* reference counts and connections of each snapshot
          retiring,    \* swapped-out snapshots whose retire() is to come
          shut,        \* r.closed
          query,       \* the state of each query
          att          \* the attempts of each query

vars == <<proto, cur, made, snap, retiring, shut, query, att>>

P == Range(Provs)
Snaps == 1..MaxSnaps
NoProv == "none"

NoSnap == [active |-> 0, retired |-> FALSE, closed |-> FALSE, idle |-> 0,
           quic |-> FALSE]
NoAtt == [pc |-> "none", pin |-> FALSE, try |-> 0, ok |-> FALSE]
NoQuery == [pc |-> "idle", s |-> 0, mode |-> "single", order |-> <<>>,
            batch |-> 0, inflight |-> {}, buf |-> NoProv, tried |-> {},
            cancelled |-> FALSE, budget |-> FALSE]

Init ==
  /\ proto \in Protos
  /\ cur = 0 /\ made = 0 /\ retiring = {} /\ shut = FALSE
  /\ snap = [s \in Snaps |-> NoSnap]
  /\ query = [q \in Queries |-> NoQuery]
  /\ att = [q \in Queries |-> [p \in P |-> NoAtt]]

Busy(pc) == pc \notin {"none", "sent", "released"}

TypeOK ==
  /\ \A s \in Snaps : snap[s].idle \in 0..MaxIdle
  /\ \A s \in Snaps : snap[s].active =
       Cardinality({q \in Queries : query[q].s = s
                      /\ query[q].pc \notin {"idle", "done", "failed"}})
       + Cardinality({qp \in Queries \X P :
            /\ query[qp[1]].s = s /\ att[qp[1]][qp[2]].pin
            /\ (Busy(att[qp[1]][qp[2]].pc) \/ att[qp[1]][qp[2]].pc = "sent")})

(* --- snapshots ---                                                       *)

\* acquire: refused once the snapshot is retired.
Acquire(s) == [snap EXCEPT ![s].active = @ + 1]

CloseProviders(r) == [r EXCEPT !.closed = TRUE, !.idle = 0, !.quic = FALSE]

\* Only retire() closes: a pin that outlives it is forgotten.
MutReleased(s) == [snap EXCEPT ![s].active = @ - 1]

\* release: the last pin of a retired snapshot closes its providers.
Released(s) ==
  LET r == [snap[s] EXCEPT !.active = @ - 1]
  IN  [snap EXCEPT ![s] = IF r.retired /\ r.active = 0 /\ ~r.closed
                          THEN CloseProviders(r) ELSE r]

\* ConfigureProviders: the new snapshot is swapped in under the lock ...
ConfigureProviders ==
  /\ made < MaxSnaps
  /\ made' = made + 1 /\ cur' = made + 1
  /\ retiring' = IF cur = 0 THEN retiring ELSE retiring \cup {cur}
  /\ UNCHANGED <<proto, snap, shut, query, att>>

\* ... and the old one is retired after it.
Retire(s) ==
  /\ s \in retiring
  /\ retiring' = retiring \ {s}
  /\ LET r == [snap[s] EXCEPT !.retired = TRUE]
     IN  snap' = [snap EXCEPT ![s] = IF r.active = 0 /\ ~r.closed
                                     THEN CloseProviders(r) ELSE r]
  /\ UNCHANGED <<proto, cur, made, shut, query, att>>

Shutdown ==
  /\ ~shut /\ shut' = TRUE /\ cur' = 0
  /\ retiring' = IF cur = 0 THEN retiring ELSE retiring \cup {cur}
  /\ UNCHANGED <<proto, made, snap, query, att>>

(* --- starting a query ---                                                *)

Perms == {o \in [1..Len(Provs) -> P] : Range(o) = P}

\* primary_backup: in configured order, but the providers whose circuit is
\* open come last.
BackupOrders ==
  LET place(p) == CHOOSE i \in DOMAIN Provs : Provs[i] = p
  IN  {o \in Perms : \E open \in SUBSET P : \A i, j \in DOMAIN o : i < j =>
         IF o[i] \in open <=> o[j] \in open THEN place(o[i]) < place(o[j])
         ELSE o[j] \in open}

\* resolveSingle asks the first provider and nothing else.
SinglePlan == [order |-> <<Provs[1]>>, batch |-> 1]

\* resolveParallelRace asks every provider at once, or the best few of them.
RacePlans == {[order |-> Provs, batch |-> Len(Provs)]}
               \cup {[order |-> o, batch |-> 1] : o \in Perms}

\* resolveConfigured: what each strategy tries, in which order, and how
\* many at once.
Plans(mode) ==
  CASE mode = "single" -> {SinglePlan}
    [] mode = "backup" -> {[order |-> o, batch |-> 1] : o \in BackupOrders}
    [] mode = "race"   -> RacePlans
    [] mode = "smart"  -> {[order |-> o, batch |-> 1] : o \in Perms}

Sequential(mode) == mode \in {"single", "backup"}

\* resolveMsgContext: the snapshot is read and pinned under r.mu; without
\* one the legacy servers are asked, which the app never sets next to
\* providers.
Begin(q, mode) ==
  /\ query[q].pc \in {"idle", "done", "failed"}
  /\ \A p \in P : att[q][p].pc \in {"none", "released"}
  /\ att' = [att EXCEPT ![q] = [p \in P |-> NoAtt]]
  /\ IF cur # 0 /\ ~snap[cur].retired
     THEN /\ snap' = Acquire(cur)
          /\ \E plan \in Plans(mode) :
               query' = [query EXCEPT ![q] = [NoQuery EXCEPT !.s = cur,
                   !.mode = mode, !.order = plan.order, !.batch = plan.batch,
                   !.pc = IF Sequential(mode) THEN "seq" ELSE "init"]]
     ELSE /\ query' = [query EXCEPT ![q] = [NoQuery EXCEPT !.pc = "failed"]]
          /\ UNCHANGED snap
  /\ UNCHANGED <<proto, cur, made, retiring, shut>>

First(q) == Head(query[q].order)

(* --- sequential strategies ---                                           *)

\* The next provider is asked on the query's own goroutine.
AskNext(q) ==
  /\ query[q].pc = "seq" /\ query[q].inflight = {} /\ query[q].order # <<>>
  /\ ~query[q].budget
  /\ query' = [query EXCEPT ![q].inflight = {First(q)},
                            ![q].order = Tail(@)]
  /\ att' = [att EXCEPT ![q][First(q)] = [NoAtt EXCEPT !.pc = "start"]]
  /\ UNCHANGED <<proto, cur, made, snap, retiring, shut>>

\* The budget of the whole query runs out between two attempts.
BudgetSpent(q) ==
  /\ query[q].pc = "seq" /\ query[q].mode = "backup" /\ ~query[q].budget
  /\ query[q].tried # {} /\ query[q].inflight = {}
  /\ query' = [query EXCEPT ![q].budget = TRUE]
  /\ UNCHANGED <<proto, cur, made, snap, retiring, shut, att>>

SeqResult(q, p) ==
  /\ query[q].pc = "seq" /\ p \in query[q].inflight
  /\ att[q][p].pc = "sent"
  /\ query' = [query EXCEPT ![q].inflight = {}, ![q].tried = @ \cup {p},
                 ![q].pc = IF att[q][p].ok THEN "win" ELSE @]
  /\ att' = [att EXCEPT ![q][p].pc = "released"]
  /\ UNCHANGED <<proto, cur, made, snap, retiring, shut>>

SeqExhausted(q) ==
  /\ query[q].pc = "seq" /\ query[q].inflight = {}
  /\ query[q].order = <<>> \/ query[q].budget
  /\ query' = [query EXCEPT ![q].pc = "lose"]
  /\ UNCHANGED <<proto, cur, made, snap, retiring, shut, att>>

(* --- executeSchedulePlan ---                                             *)

\* launchOne: pin the snapshot and start the next candidate; on a retired
\* snapshot every remaining candidate is skipped.
CanLaunch(q, r) == r.order # <<>> /\ ~snap[r.s].retired
\* Attempts rely on the query's pin alone.
MutLaunchOne(q, r) ==
  LET p == Head(r.order)
  IN  IF CanLaunch(q, r)
      THEN /\ query' = [query EXCEPT ![q] = [r EXCEPT !.order = Tail(@),
                          !.inflight = @ \cup {p}]]
           /\ att' = [att EXCEPT ![q][p] = [NoAtt EXCEPT !.pc = "start"]]
           /\ UNCHANGED snap
      ELSE /\ query' = [query EXCEPT ![q] = [r EXCEPT !.order = <<>>]]
           /\ UNCHANGED <<att, snap>>

LaunchOne(q, r) ==
  LET p == Head(r.order)
  IN  IF CanLaunch(q, r)
      THEN /\ query' = [query EXCEPT ![q] = [r EXCEPT !.order = Tail(@),
                          !.inflight = @ \cup {p}]]
           /\ att' = [att EXCEPT ![q][p] =
                        [NoAtt EXCEPT !.pc = "start", !.pin = TRUE]]
           /\ snap' = Acquire(r.s)
      ELSE /\ query' = [query EXCEPT ![q] = [r EXCEPT !.order = <<>>]]
           /\ UNCHANGED <<att, snap>>

\* The initial batch; with nothing launched the query fails.
LaunchBatch(q) ==
  /\ query[q].pc = "init"
  /\ IF query[q].batch > 0 /\ query[q].order # <<>>
     THEN LaunchOne(q, [query[q] EXCEPT !.batch = @ - 1])
     ELSE /\ query' = [query EXCEPT ![q].pc =
                         IF query[q].inflight = {} THEN "lose" ELSE "loop"]
          /\ UNCHANGED <<att, snap>>
  /\ UNCHANGED <<proto, cur, made, retiring, shut>>

Encrypted(p) == proto[p] # "plain"
Prefers(q) == /\ query[q].mode = "race"
              /\ \E p \in P : Encrypted(p) /\ \E r \in P : ~Encrypted(r)

\* The head of the loop: a buffered plain answer wins as soon as no
\* encrypted attempt is left.
PlainWins(q) ==
  /\ query[q].pc = "loop" /\ query[q].buf # NoProv
  /\ ~\E p \in query[q].inflight : Encrypted(p)

Decided(q) ==
  /\ PlainWins(q)
  /\ query' = [query EXCEPT ![q].pc = "win", ![q].cancelled = TRUE]
  /\ UNCHANGED <<proto, cur, made, snap, retiring, shut, att>>

\* The preference window of the encrypted providers is over.
GraceOver(q) ==
  /\ query[q].pc = "loop" /\ query[q].buf # NoProv /\ ~PlainWins(q)
  /\ query' = [query EXCEPT ![q].pc = "win", ![q].cancelled = TRUE]
  /\ UNCHANGED <<proto, cur, made, snap, retiring, shut, att>>

\* smart prediction launches another candidate when the tail latency of
\* the last one has passed.
HedgeTimer(q) ==
  /\ query[q].pc = "loop" /\ query[q].mode = "smart"
  /\ query[q].inflight # {} /\ query[q].order # <<>>
  /\ LaunchOne(q, query[q])
  /\ UNCHANGED <<proto, cur, made, retiring, shut>>

\* Only smart prediction does.
MutAdvances(q) == query[q].mode = "smart"

\* A capped race and smart prediction replace a failed attempt.
Advances(q) == query[q].mode = "smart" \/ query[q].order # <<>>

\* A result is read from the channel.
Result(q, p) ==
  /\ query[q].pc = "loop" /\ p \in query[q].inflight /\ ~PlainWins(q)
  /\ att[q][p].pc \in {"sent", "released"}
  /\ LET r == [query[q] EXCEPT !.inflight = @ \ {p}, !.tried = @ \cup {p}]
         hold == /\ Prefers(q) /\ ~Encrypted(p)
                 /\ \E o \in r.inflight : Encrypted(o)
     IN  IF att[q][p].ok
         THEN /\ query' = [query EXCEPT ![q] =
                   IF hold THEN [r EXCEPT !.buf = IF @ = NoProv THEN p ELSE @]
                   ELSE [r EXCEPT !.pc = "win", !.cancelled = TRUE]]
              /\ UNCHANGED <<att, snap>>
         ELSE IF Advances(q) THEN LaunchOne(q, r)
         ELSE query' = [query EXCEPT ![q] = r] /\ UNCHANGED <<att, snap>>
  /\ UNCHANGED <<proto, cur, made, retiring, shut>>

Exhausted(q) ==
  /\ query[q].pc = "loop" /\ query[q].inflight = {} /\ query[q].buf = NoProv
  /\ query' = [query EXCEPT ![q].pc = "lose"]
  /\ UNCHANGED <<proto, cur, made, snap, retiring, shut, att>>

\* The deferred cancel and the query's own release.
Return(q) ==
  /\ query[q].pc \in {"win", "lose"}
  /\ query' = [query EXCEPT ![q].cancelled = TRUE,
                 ![q].pc = IF @ = "win" THEN "done" ELSE "failed"]
  /\ snap' = Released(query[q].s)
  /\ UNCHANGED <<proto, cur, made, retiring, shut, att>>

(* --- one attempt ---                                                     *)

Step(q, p, a) == /\ att' = [att EXCEPT ![q][p] = a]
                 /\ UNCHANGED <<proto, cur, made, retiring, shut, query>>
A(q, p) == att[q][p]
Sent(q, p, ok) == [A(q, p) EXCEPT !.pc = "sent", !.ok = ok, !.try = 0]
S(q) == query[q].s

\* An answer counts if it matches the query and its code is NOERROR or
\* NXDOMAIN (validateDNSResponseParsed); either may be the case.
Answered(q, p) == \E ok \in BOOLEAN : Step(q, p, Sent(q, p, ok))
                  /\ UNCHANGED snap

\* The context ends: a deadline, a connect error, or another provider won.
GiveUp(q, p) ==
  /\ Busy(A(q, p).pc)
  /\ Step(q, p, Sent(q, p, FALSE)) /\ UNCHANGED snap

\* queryPlain: a UDP answer, a resend (twice at most), or the TCP retry of
\* a truncated answer, which is kept if TCP fails too.
QueryPlain(q, p) ==
  /\ proto[p] = "plain"
  /\ \/ A(q, p).pc = "start" /\ Answered(q, p)
     \/ /\ A(q, p).pc = "start" /\ A(q, p).try < 2
        /\ Step(q, p, [A(q, p) EXCEPT !.try = @ + 1]) /\ UNCHANGED snap
     \/ /\ A(q, p).pc = "start"
        /\ Step(q, p, [A(q, p) EXCEPT !.pc = "tcp"]) /\ UNCHANGED snap
     \/ A(q, p).pc = "tcp" /\ Answered(q, p)

\* queryDoH: one retry after an EOF.
QueryDoH(q, p) ==
  /\ proto[p] = "doh" /\ A(q, p).pc = "start"
  /\ \/ Answered(q, p)
     \/ /\ A(q, p).try = 0
        /\ Step(q, p, [A(q, p) EXCEPT !.try = 1]) /\ UNCHANGED snap

\* popIdleDoTConn or a fresh dial.
DialDoT(q, p) ==
  /\ proto[p] = "dot" /\ A(q, p).pc = "start"
  /\ IF snap[S(q)].idle > 0 /\ ~snap[S(q)].closed
     THEN /\ snap' = [snap EXCEPT ![S(q)].idle = @ - 1]
          /\ Step(q, p, [A(q, p) EXCEPT !.pc = "io", !.try = 0])
     ELSE Step(q, p, [A(q, p) EXCEPT !.pc = "io", !.try = 1]) /\ UNCHANGED snap

\* A pooled connection that fails is replaced by a fresh one (try = 1).
QueryDoT(q, p) ==
  /\ proto[p] = "dot" /\ A(q, p).pc = "io"
  /\ \/ Step(q, p, [A(q, p) EXCEPT !.pc = "put"]) /\ UNCHANGED snap
     \/ /\ A(q, p).try = 0 /\ ~query[q].cancelled
        /\ Step(q, p, [A(q, p) EXCEPT !.try = 1]) /\ UNCHANGED snap

\* putIdleDoTConn: kept if the resolver is open and there is room.
PutDoT(q, p) ==
  /\ proto[p] = "dot" /\ A(q, p).pc = "put"
  /\ snap' = IF snap[S(q)].closed \/ snap[S(q)].idle >= MaxIdle THEN snap
             ELSE [snap EXCEPT ![S(q)].idle = @ + 1]
  /\ \E ok \in BOOLEAN : Step(q, p, Sent(q, p, ok))

\* queryDoQ: the shared connection is reused or dialled; a stream that
\* cannot be opened resets it and is tried once more.
QueryDoQ(q, p) ==
  /\ proto[p] = "doq" /\ A(q, p).pc \in {"start", "io"}
  /\ \/ /\ A(q, p).pc = "start"
        /\ snap' = [snap EXCEPT ![S(q)].quic = TRUE]
        /\ Step(q, p, [A(q, p) EXCEPT !.pc = "io"])
     \/ /\ A(q, p).pc = "io" /\ Answered(q, p)
     \/ /\ A(q, p).pc = "io" /\ A(q, p).try = 0 /\ ~query[q].cancelled
        /\ snap' = [snap EXCEPT ![S(q)].quic = FALSE]
        /\ Step(q, p, [A(q, p) EXCEPT !.pc = "start", !.try = 1])

\* The goroutine's deferred release, after its result is in the channel.
AttemptEnds(q, p) ==
  /\ A(q, p).pc = "sent" /\ ~Sequential(query[q].mode)
  /\ att' = [att EXCEPT ![q][p].pc = "released"]
  /\ snap' = IF A(q, p).pin THEN Released(S(q)) ELSE snap
  /\ UNCHANGED <<proto, cur, made, retiring, shut, query>>

Attempt(q, p) ==
  \/ GiveUp(q, p) \/ QueryPlain(q, p) \/ QueryDoH(q, p) \/ DialDoT(q, p)
  \/ QueryDoT(q, p) \/ PutDoT(q, p) \/ QueryDoQ(q, p) \/ AttemptEnds(q, p)

QueryStep(q) ==
  \/ AskNext(q) \/ BudgetSpent(q) \/ SeqExhausted(q) \/ LaunchBatch(q)
  \/ Decided(q) \/ GraceOver(q) \/ HedgeTimer(q) \/ Exhausted(q) \/ Return(q)
  \/ \E p \in P : SeqResult(q, p) \/ Result(q, p)

Next ==
  \/ ConfigureProviders \/ Shutdown \/ \E s \in Snaps : Retire(s)
  \/ \E q \in Queries :
       \/ \E mode \in {"single", "backup", "race", "smart"} : Begin(q, mode)
       \/ QueryStep(q)
       \/ \E p \in P : Attempt(q, p)

\* Goroutines run, and every network call has a deadline.
Fairness ==
  /\ WF_vars(\E s \in Snaps : Retire(s))
  /\ \A q \in Queries : WF_vars(QueryStep(q))
  /\ \A q \in Queries, p \in P : WF_vars(Attempt(q, p))

Spec == Init /\ [][Next]_vars /\ Fairness

(* --- properties ---                                                      *)

\* Rotation is graceful: while any attempt, a loser still running after its
\* query returned included, is on the network through a snapshot, that
\* snapshot's resolvers are open (resolver_snapshot.go:3-5).
InUseNotClosed ==
  \A q \in Queries, p \in P :
    Busy(att[q][p].pc) => ~snap[query[q].s].closed

\* Every retired snapshot closes its resolvers in the end: neither the
\* queries nor their losers keep it for ever.
RetiredCloses == \A s \in Snaps : []<>(snap[s].retired => snap[s].closed)

\* A query fails only after every provider was tried, unless the user
\* chose a single one, the budget ran out, or the configuration was
\* replaced under it.
FailedMeansAllTried ==
  \A q \in Queries :
    (query[q].pc = "failed" /\ query[q].s # 0 /\ query[q].mode # "single")
    => query[q].tried = P \/ query[q].budget \/ snap[query[q].s].retired
============================================================================
