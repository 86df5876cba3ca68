------------------------------ MODULE Resolver ------------------------------
(***************************************************************************)
(* The upstream resolver of the desktop service (internal/core/resolver*.go,*)
(* scheduler*.go, conditional_router.go): the schedulers over the          *)
(* configured providers, the fallback chain, the upstreams of client       *)
(* groups, the conditional routes, and the connection pools of DoT and DoQ,*)
(* while queries run, callers give up and the configuration is replaced.   *)
(*                                                                         *)
(* A provider is named by its server.  Configure makes new provider        *)
(* objects; a query keeps those it started with.  Addresses, messages and  *)
(* certificates are left out, except what an answer is worth and which     *)
(* table of pins a connection was verified with.  ConfigureUpstream,       *)
(* ConfigurePrivacy and ConfigureClientGroups hold p.mu, so one changes    *)
(* the configuration at a time.                                            *)
(***************************************************************************)
EXTENDS Naturals, FiniteSets, Sequences, SequencesExt

CONSTANTS
  MaxQueries,    \* bound on the queries
  MaxActive,     \* bound on the queries that run at a time
  Names,         \* providers, by server
  Proto,         \* their protocols
  Latency,       \* their mean answer times, in units of 100 ms
  Weight,        \* their weights
  Configs,       \* the resolver configurations Configure is called with
  GroupConfigs,  \* the group configurations: group |-> names of upstreams
  Groups,        \* client groups
  Domains,       \* the names asked for, as label sequences from the left
  MaxConfigures, \* bound on configuration changes
  MaxIdle        \* dotMaxIdleConnsPerHost, doqMaxIdleConnsPerHost

Queries == 1 .. MaxQueries
Pooled  == {n \in Names : Proto[n] \in {"dot", "doq"}}
Https   == {n \in Names : Proto[n] \in {"doh", "doh3"}}
Modes   == {"single", "primary_backup", "parallel_race", "smart_prediction"}

(* What a provider answers: with data, NXDOMAIN, SERVFAIL, or with a       *)
(* message for another question; and how asking can fail.                  *)
Replies == {"ok", "nx", "servfail", "mismatch"}
Over    == {"canceled", "deadline"}
Errors  == {"transport", "rcode"} \cup Over

ASSUME ResolverAssumption ==
  /\ MaxQueries \in Nat /\ MaxActive \in Nat /\ MaxConfigures \in Nat /\ MaxIdle \in Nat /\ Latency \in [Names -> Nat]
  /\ Weight \in [Names -> Nat \ {0}]
  /\ \A c \in Configs : /\ c.mode \in Modes /\ c.onError \in BOOLEAN
                        /\ c.stamps \subseteq Names /\ c.onRcode \subseteq {"nx", "servfail"}
                        /\ c.main \in Seq(Names) /\ c.fallback \in Seq(Names)
                        /\ \A d \in DOMAIN c.routes : d \in Seq(STRING) /\ d # <<>> /\ c.routes[d] \in Names
  /\ Domains \subseteq Seq(STRING)
  /\ \A gc \in GroupConfigs : DOMAIN gc \subseteq Groups /\ \A g \in DOMAIN gc : gc[g] \in Seq(Names)

VARIABLES
  cfg,     \* mode, providers, fallbackProviders and policies in force
  group,   \* groupUpstreams
  routes,  \* the routes of the conditional router
  stats,   \* ProviderStats per provider: the object and failureCount
  pool,    \* the idle connections per server, newest last
  closed,  \* "no", then "closing" once closed is set and "yes" once drained
  query,   \* the queries
  work,    \* the exchanges that run
  admin,   \* the configuration call that runs, and how many are left
  sick     \* history: providers that answered badly, not at all or too late last time

vars == <<cfg, group, routes, stats, pool, closed, query, work, admin, sick>>

NoPlan == [fallback |-> <<>>, onRcode |-> {}, onError |-> TRUE, mode |-> "single", gen |-> 0]
Idle   == [at |-> "idle", via |-> "none", phase |-> "main", rest |-> <<>>, race |-> FALSE,
           plan |-> NoPlan, ctx |-> "no", mctx |-> "no", asked |-> {}, allowed |-> {}]

-----------------------------------------------------------------------------
(* Building the providers.                                                 *)
(* A provider given by a stamp loses its ID when it is expanded, so it     *)
(* inherits no statistics and no group can name it.                        *)
HasId(c, n) == n \notin c.stamps

(* A configuration with no provider, or a provider with an unknown         *)
(* protocol or an address that does not parse, is refused.                 *)
Valid(c) == c.valid /\ c.main # <<>>

Listed(c) == Range(c.main) \cup Range(c.fallback)

(* The statistics object of a provider survives a change of configuration  *)
(* while its ID stays in one of the chains.                                *)
StatsOf(c, g, old, n) ==
  IF HasId(c, n) /\ HasId(old, n) /\ n \in Listed(old) THEN stats[n].obj ELSE g

BuildProviderSet(c, g, old, names) ==
  [k \in 1 .. Len(names) |-> [name |-> names[k], gen |-> g, st |-> StatsOf(c, g, old, names[k])]]

(* byID: of two providers with one ID the later.                           *)
ByID(c, n) == c.up[CHOOSE i \in DOMAIN c.main : /\ c.main[i] = n
                                                /\ \A j \in DOMAIN c.main : c.main[j] = n => j <= i]

(* The positions of the IDs of a list that count: the first of each, when  *)
(* a provider of the main chain has it; and the k-th of some positions.    *)
Bound(c, ids) == {i \in DOMAIN ids : /\ ids[i] \in Range(c.main) /\ HasId(c, ids[i])
                                     /\ \A j \in 1 .. (i - 1) : ids[j] # ids[i]}
Kth(I, k)     == CHOOSE i \in I : Cardinality({j \in I : j < i}) = k - 1

(* applyGroupUpstreamsLocked: a group with no upstream left is dropped, and *)
(* the default group is reserved.                                          *)
Bind(c, gc) ==
  [g \in {g \in DOMAIN gc \ {"default"} : Bound(c, gc[g]) # {}} |->
     [k \in 1 .. Cardinality(Bound(c, gc[g])) |-> ByID(c, gc[g][Kth(Bound(c, gc[g]), k)])]]

Unbound(gs) == [g \in DOMAIN gs |-> [k \in 1 .. Len(gs[g]) |-> gs[g][k].name]]

(* Conditional routes are providers of their own.                          *)
RouteProvider(c, g, d) == [name |-> c.routes[d], gen |-> g, st |-> 0]
RouteProviders(c, g)   == [d \in DOMAIN c.routes |-> RouteProvider(c, g, d)]

Installed(c, g, old) ==
  [mode |-> c.mode, main |-> c.main, fallback |-> c.fallback, stamps |-> c.stamps,
   onRcode |-> c.onRcode, onError |-> c.onError, gen |-> g, routes |-> c.routes,
   up |-> BuildProviderSet(c, g, old, c.main),
   fb |-> BuildProviderSet(c, g, old, c.fallback)]

NoConfig == [main |-> <<>>, fallback |-> <<>>, stamps |-> {}]

Init ==
  /\ stats = [n \in Names |-> [obj |-> 1, fails |-> 0]]
  /\ \E c \in Configs, gc \in GroupConfigs :
       /\ Valid(c)
       /\ cfg = Installed(c, 1, NoConfig) /\ group = Bind(cfg, gc)
       /\ routes = RouteProviders(c, 1)
       /\ admin = [at |-> "idle", groups |-> gc, left |-> MaxConfigures]
  /\ pool = [n \in Pooled |-> <<>>] /\ closed = "no"
  /\ query = [q \in Queries |-> Idle] /\ work = {} /\ sick = {}

-----------------------------------------------------------------------------
(* Configure.                                                              *)
(* Mutant: the group table keeps the provider objects it had.              *)
MutRebind(c) == group

(* The objects are new, so the groups are bound again by their IDs.        *)
Rebind(c) == Bind(c, Unbound(group))

(* One configuration call: everything but the new routes, under r.mu and   *)
(* the locks of the pools; both pools drop their idle connections and      *)
(* ClearRoutes forgets the old routes.  An invalid configuration changes   *)
(* nothing.                                                                *)
Configure ==
  /\ admin.at = "idle" /\ admin.left > 0
  /\ \E c \in Configs :
       IF Valid(c)
         THEN LET new == Installed(c, cfg.gen + 1, cfg)
              IN  /\ cfg' = new /\ group' = Rebind(new)
                  /\ stats' = [n \in Names |->
                                 IF n \in Listed(c) /\ StatsOf(c, new.gen, cfg, n) = new.gen
                                   THEN [obj |-> new.gen, fails |-> 0] ELSE stats[n]]
                  /\ sick' = {n \in sick : stats'[n].obj = stats[n].obj}
                  /\ pool' = [n \in Pooled |-> <<>>]
                  /\ routes' = << >>
                  /\ admin' = [admin EXCEPT !.at = "routes", !.left = @ - 1]
         ELSE UNCHANGED <<cfg, group, stats, sick, pool, routes, admin>>
  /\ UNCHANGED <<closed, query, work>>

(* ... the routes one after the other, each under cr.mu: queries look them  *)
(* up without r.mu and find those that are there.                          *)
SetRoute ==
  /\ admin.at = "routes"
  /\ \E d \in DOMAIN cfg.routes \ DOMAIN routes :
       routes' = [e \in DOMAIN routes \cup {d} |-> RouteProvider(cfg, cfg.gen, e)]
  /\ UNCHANGED <<cfg, group, stats, pool, closed, query, work, admin, sick>>

RoutesDone ==
  /\ admin.at = "routes" /\ DOMAIN cfg.routes \subseteq DOMAIN routes
  /\ admin' = [admin EXCEPT !.at = "groups"]
  /\ UNCHANGED <<cfg, group, routes, stats, pool, closed, query, work, sick>>

ConfigureRoutes == SetRoute \/ RoutesDone

(* Mutant: ConfigureUpstream does not bind the configured groups again.    *)
MutConfigureGroups ==
  /\ admin.at = "groups"
  /\ admin' = [admin EXCEPT !.at = "idle"]
  /\ UNCHANGED <<cfg, group, routes, stats, pool, closed, query, work, sick>>

(* ... and the group configuration of the service again, with the          *)
(* upstreams the table had dropped.                                        *)
ConfigureGroups ==
  /\ admin.at = "groups"
  /\ group' = Bind(cfg, admin.groups)
  /\ admin' = [admin EXCEPT !.at = "idle"]
  /\ UNCHANGED <<cfg, routes, stats, pool, closed, query, work, sick>>

SetGroupUpstreams ==
  /\ admin.at = "idle"
  /\ \E gc \in GroupConfigs :
       /\ group' = Bind(cfg, gc)
       /\ admin' = [admin EXCEPT !.groups = gc]
  /\ UNCHANGED <<cfg, routes, stats, pool, closed, query, work, sick>>

(* Shutdown: each pool marks itself closed, then drops what is idle.       *)
Shutdown ==
  /\ admin.at = "idle" /\ admin.left > 0 /\ closed = "no"
  /\ closed' = "closing" /\ admin' = [admin EXCEPT !.left = @ - 1]
  /\ UNCHANGED <<cfg, group, routes, stats, pool, query, work, sick>>

Drain ==
  /\ closed = "closing"
  /\ closed' = "yes" /\ pool' = [n \in Pooled |-> <<>>]
  /\ UNCHANGED <<cfg, group, routes, stats, query, work, admin, sick>>

-----------------------------------------------------------------------------
(* Scheduling.                                                             *)
Locked == admin.at = "routes"    \* Configure holds r.mu

(* Score: the latency and 100 ms per failure, five seconds at most and     *)
(* half of it once the last failure is 30 s old, in units of 50 ms.        *)
Fails(p)       == IF stats[p.name].obj = p.st THEN stats[p.name].fails ELSE 0
Least(a, b)    == IF a < b THEN a ELSE b
Score(p, aged) == 2 * Latency[p.name] + (IF p.name \in aged THEN 1 ELSE 2) * Least(Fails(p), 50)

(* Smart prediction: a stable sort by score over weight, in units of 50 us. *)
WeightedScore(p, aged) == (1000 * Score(p, aged)) \div Weight[p.name]

SmartOrder(ps, aged) ==
  LET before(i, j) == \/ WeightedScore(ps[i], aged) < WeightedScore(ps[j], aged)
                      \/ WeightedScore(ps[i], aged) = WeightedScore(ps[j], aged) /\ i < j
  IN  [k \in 1 .. Len(ps) |->
         ps[CHOOSE i \in 1 .. Len(ps) :
              Cardinality({j \in 1 .. Len(ps) : before(j, i)}) = k - 1]]

(* The providers in the order Resolve takes them.                          *)
Ordered(mode, ps, aged) ==
  CASE mode = "single"           -> SubSeq(ps, 1, 1)
    [] mode = "smart_prediction" -> SmartOrder(ps, aged)
    [] OTHER                     -> ps

Exchange(q, phase, p) ==
  [q |-> q, phase |-> phase, p |-> p, at |-> "start", conn |-> 0, over |-> "no", ans |-> "none"]

(* Scheduler.Resolve over a chain: all of a race at once, else the first.  *)
Chained(x, phase, mode, ps, aged) ==
  LET order == Ordered(mode, ps, aged)
      race  == mode = "parallel_race" /\ Len(ps) > 1
  IN  [x EXCEPT !.at = "run", !.phase = phase, !.race = race,
                !.rest = IF race THEN <<>> ELSE Tail(order),
                !.asked = @ \cup (IF race THEN Range(ps) ELSE {Head(order)})]

Firsts(q, phase, mode, ps, aged) ==
  {Exchange(q, phase, p) : p \in IF mode = "parallel_race" /\ Len(ps) > 1 THEN Range(ps)
                                 ELSE {Head(Ordered(mode, ps, aged))}}

(* Which choices of aged failures matter.                                  *)
Aged(mode, ps) == IF mode = "smart_prediction" THEN SUBSET {p.name : p \in Range(ps)} ELSE {{}}

Ended == {"answered", "failed", "over"}

(* The upstream route middleware: a group with upstreams of its own asks   *)
(* only those, every other query takes the default path.  What is known of *)
(* the queries that have ended is forgotten.                               *)
NewQuery(q) ==
  /\ query[q].at = "idle" /\ \A p \in 1 .. (q - 1) : query[p].at # "idle"
  /\ Cardinality({p \in 1 .. (q - 1) : query[p].at \notin Ended}) < MaxActive
  /\ \E at \in {"match", "chain"}, g \in {"default"} \cup DOMAIN group :
       /\ at = "match" <=> g = "default"
       /\ at = "chain" => ~Locked
       /\ query' = [p \in Queries |->
                      IF p = q THEN [Idle EXCEPT !.at = at, !.via = g]
                      ELSE IF query[p].at \in Ended THEN [Idle EXCEPT !.at = "over"]
                      ELSE query[p]]
  /\ UNCHANGED <<cfg, group, routes, stats, pool, closed, work, admin, sick>>

(* ExchangeForGroup.                                                       *)
GroupChain(q) ==
  /\ query[q].at = "chain" /\ ~Locked
  /\ LET g == query[q].via
     IN  IF g \notin DOMAIN group
           THEN query' = [query EXCEPT ![q].at = "failed"] /\ UNCHANGED work
           ELSE \E aged \in Aged(cfg.mode, group[g]) :
                  /\ query' = [query EXCEPT ![q] =
                       Chained([@ EXCEPT !.plan.mode = cfg.mode, !.plan.gen = cfg.gen,
                                         !.allowed = Range(group[g])],
                               "group", cfg.mode, group[g], aged)]
                  /\ work' = work \cup Firsts(q, "group", cfg.mode, group[g], aged)
  /\ UNCHANGED <<cfg, group, routes, stats, pool, closed, admin, sick>>

(* MatchRoute: the route of the longest suffix of the name.                *)
(* Mutant: the first suffix found from the right.                          *)
MutMatching(d) == {k \in 1 .. Len(d) : SubSeq(d, k, Len(d)) \in DOMAIN routes /\
                     \A j \in (k + 1) .. Len(d) : SubSeq(d, j, Len(d)) \notin DOMAIN routes}

Matching(d) == {k \in 1 .. Len(d) : SubSeq(d, k, Len(d)) \in DOMAIN routes /\
                  \A j \in 1 .. (k - 1) : SubSeq(d, j, Len(d)) \notin DOMAIN routes}

(* History: the configured routes a query for d may take, the longest      *)
(* suffix of d.  While they are being set any suffix will do, or none.     *)
SuffixRoutes(d) == {e \in DOMAIN cfg.routes : IsSuffix(e, d)}
Due(d)          == {RouteProvider(cfg, cfg.gen, e) : e \in
                  {e \in SuffixRoutes(d) : Locked \/ \A f \in SuffixRoutes(d) : Len(f) <= Len(e)}}

MatchRoute(q) ==
  /\ query[q].at = "match"
  /\ \E d \in Domains :
       IF Matching(d) = {}
         THEN /\ query' = [query EXCEPT ![q].at = "plan",
                                        ![q].allowed = IF Locked THEN {} ELSE Due(d)]
              /\ UNCHANGED work
         ELSE LET k == CHOOSE k \in Matching(d) : TRUE
                  p == routes[SubSeq(d, k, Len(d))]
              IN  /\ query' = [query EXCEPT ![q].at = "run", ![q].via = "route", ![q].phase = "route",
                                            ![q].plan.gen = p.gen, ![q].asked = {p},
                                            ![q].allowed = Due(d)]
                  /\ work' = work \cup {Exchange(q, "route", p)}
  /\ UNCHANGED <<cfg, group, routes, stats, pool, closed, admin, sick>>

(* History: the two chains, unless a configured route was missed.          *)
DefaultPath(missed) == IF missed = {} THEN Range(cfg.up) \cup Range(cfg.fb) ELSE missed

(* fallbackPlan, read once under r.mu.                                     *)
Plan(q) ==
  /\ query[q].at = "plan" /\ ~Locked
  /\ \E aged \in Aged(cfg.mode, cfg.up) :
       /\ query' = [query EXCEPT ![q] =
            Chained([@ EXCEPT !.via = "default",
                              !.allowed = DefaultPath(query[q].allowed),
                              !.plan = [fallback |-> cfg.fb, onRcode |-> cfg.onRcode, gen |-> cfg.gen,
                                        onError |-> cfg.onError, mode |-> cfg.mode]],
                    "main", cfg.mode, cfg.up, aged)]
       /\ work' = work \cup Firsts(q, "main", cfg.mode, cfg.up, aged)
  /\ UNCHANGED <<cfg, group, routes, stats, pool, closed, admin, sick>>

-----------------------------------------------------------------------------
(* The end of a chain with result r.                                       *)
(* Mutant: the fallback asks whether the main chain's context is done.     *)
MutCallerDone(x) == x.mctx # "no"

CallerDone(x) == x.ctx # "no"

RcodeMatches(x, r) ==
  \/ r = "rcode" /\ "servfail" \in x.plan.onRcode
  \/ r = "nx" /\ "nx" \in x.plan.onRcode

NeedsFallback(x, r) ==
  /\ x.phase = "main" /\ x.plan.fallback # <<>> /\ ~CallerDone(x)
  /\ \/ RcodeMatches(x, r)
     \/ r \in Errors \ {"rcode"} /\ x.plan.onError

(* The deferred cancel: whoever still runs for that chain is cancelled.    *)
Cancelled(q, phase, ws) ==
  {IF w.q = q /\ w.phase = phase /\ w.over = "no" THEN [w EXCEPT !.over = "canceled"] ELSE w : w \in ws}

Failed(x, r) == [Idle EXCEPT !.at = "failed", !.via = x.via, !.asked = x.asked, !.allowed = x.allowed,
                             !.plan = x.plan, !.ctx = x.ctx, !.phase = x.phase]

Answered(x)  == [Failed(x, "ok") EXCEPT !.at = "answered"]

(* resolveWithFallback after a chain: pass the result on, or start the     *)
(* fallback chain under the caller's own context.                          *)
EndChain(q, x, r, ws) ==
  LET rest == Cancelled(q, x.phase, ws)
  IN  IF NeedsFallback(x, r)
        THEN \E aged \in Aged(x.plan.mode, x.plan.fallback) :
               /\ query' = [query EXCEPT ![q] = Chained([x EXCEPT !.mctx = x.ctx], "fallback",
                                                        x.plan.mode, x.plan.fallback, aged)]
               /\ work' = rest \cup Firsts(q, "fallback", x.plan.mode, x.plan.fallback, aged)
        ELSE /\ query' = [query EXCEPT ![q] = IF r \in Errors THEN Failed(x, r) ELSE Answered(x)]
             /\ work' = rest

(* Mutant: the race waits for one more result than it has providers.       *)
MutRaceLost(mine) == FALSE

(* The last provider of a race.                                            *)
RaceLost(mine) == mine = {}

(* One provider is done: the first answer ends the chain; after a failure  *)
(* the next provider is asked, unless the context is over, and a race ends *)
(* with its last provider.                                                 *)
Deliver(w, r) ==
  LET x    == query[w.q]
      ws   == work \ {w}
      mine == {v \in ws : v.q = w.q /\ v.phase = w.phase}
  IN  IF x.at # "run" \/ x.phase # w.phase \/ (r \in Errors /\ x.race /\ ~RaceLost(mine))
        THEN work' = ws /\ UNCHANGED query
      ELSE IF r \notin Errors \/ x.race \/ x.rest = <<>>
        THEN EndChain(w.q, x, r, ws)
      ELSE IF x.mctx # "no" THEN EndChain(w.q, x, x.mctx, ws)
      ELSE /\ query' = [query EXCEPT ![w.q].rest = Tail(x.rest), ![w.q].asked = @ \cup {Head(x.rest)}]
           /\ work' = ws \cup {Exchange(w.q, w.phase, Head(x.rest))}

(* The parent of a race returns as soon as its context is over.            *)
RaceOver(q) ==
  LET x == query[q]
  IN  /\ x.at = "run" /\ x.race /\ x.mctx # "no"
      /\ EndChain(q, x, x.mctx, work)
      /\ UNCHANGED <<cfg, group, routes, stats, pool, closed, admin, sick>>

-----------------------------------------------------------------------------
(* Contexts.                                                               *)
MarkOver(q, phases, why) ==
  work' = {IF w.q = q /\ w.phase \in phases /\ w.over = "no" THEN [w EXCEPT !.over = why] ELSE w : w \in work}

(* The caller goes away or its own time is up.                             *)
CallerGone(q) ==
  /\ query[q].at = "run" /\ query[q].ctx = "no"
  /\ \E why \in Over :
       /\ query' = [query EXCEPT ![q].ctx = why, ![q].mctx = IF @ = "no" THEN why ELSE @]
       /\ MarkOver(q, {"main", "fallback", "group", "route"}, why)
  /\ UNCHANGED <<cfg, group, routes, stats, pool, closed, admin, sick>>

(* The main chain's own time limit, set when there is a fallback chain.    *)
MainTimeout(q) ==
  /\ query[q].at = "run" /\ query[q].phase = "main" /\ query[q].mctx = "no"
  /\ query[q].plan.fallback # <<>>
  /\ query' = [query EXCEPT ![q].mctx = "deadline"]
  /\ MarkOver(q, {"main"}, "deadline")
  /\ UNCHANGED <<cfg, group, routes, stats, pool, closed, admin, sick>>

-----------------------------------------------------------------------------
(* queryWithValidation: the outcome o of an exchange, counted and passed   *)
(* on.  A cancelled exchange says nothing about the provider.              *)
Result(o) == CASE o = "servfail" -> "rcode" [] o = "mismatch" -> "transport" [] OTHER -> o

(* Mutant: a cancelled exchange counts as a failure.                       *)
MutBlames(o) == Result(o) \in Errors

Blames(o) == Result(o) \in Errors \ {"canceled"}

QueryWithValidation(w, o) ==
  /\ stats' = IF stats[w.p.name].obj # w.p.st THEN stats
              ELSE [stats EXCEPT ![w.p.name].fails =
                      IF Blames(o) THEN @ + 1 ELSE IF Result(o) \in Errors THEN @ ELSE 0]
  /\ sick' = IF stats[w.p.name].obj # w.p.st \/ o = "canceled" THEN sick
             ELSE IF Result(o) \in Errors THEN sick \cup {w.p.name} ELSE sick \ {w.p.name}
  /\ Deliver(w, Result(o))
  /\ UNCHANGED <<cfg, group, routes, closed, admin>>

Goes(w, to) == /\ work' = (work \ {w}) \cup {to}
               /\ UNCHANGED <<cfg, group, routes, stats, pool, closed, query, admin, sick>>

(* PlainResolver (UDP sent twice, then TCP when that fails or is cut       *)
(* short): the retries share no state, so an exchange is one step.  An     *)
(* answer that is there is taken even if the context is over.              *)
PlainExchange(w) ==
  /\ w \in work /\ Proto[w.p.name] = "plain"
  /\ UNCHANGED pool
  /\ \E o \in Replies \cup (IF w.over = "no" THEN {"transport"} ELSE {w.over}) : QueryWithValidation(w, o)

HasClient(n) == Proto[n] = "doh" \/ closed = "no"

(* DoH and DoH3 (posted again when the connection had been idle too long); *)
(* a closed DoH3 resolver has no client.                                   *)
DohExchange(w) ==
  /\ w \in work /\ w.p.name \in Https
  /\ UNCHANGED pool
  /\ \/ \E o \in Replies : HasClient(w.p.name) /\ QueryWithValidation(w, o)
     \/ QueryWithValidation(w, IF w.over = "no" THEN "transport" ELSE w.over)

-----------------------------------------------------------------------------
(* DoT and DoQ.                                                            *)
(* popIdleConn: the newest idle connection that is still alive; the dead   *)
(* ones above it are closed.                                               *)
PopIdleConn(w) ==
  /\ w \in work /\ w.p.name \in Pooled /\ w.at = "start"
  /\ IF closed # "no" THEN UNCHANGED pool /\ QueryWithValidation(w, "transport")
     ELSE \E k \in 0 .. Len(pool[w.p.name]) :
            /\ pool' = [pool EXCEPT ![w.p.name] = SubSeq(@, 1, k - 1)]
            /\ work' = (work \ {w}) \cup
                 {IF k = 0 THEN [w EXCEPT !.at = "dial"]
                  ELSE [w EXCEPT !.at = "probe", !.conn = pool[w.p.name][k]]}
            /\ UNCHANGED <<cfg, group, routes, stats, closed, query, admin, sick>>

(* A query on a connection: an answer, which goes to putIdleConn, or a     *)
(* failure, after which a reused connection is replaced by a new one.      *)
Execute(w) ==
  /\ w \in work /\ w.at \in {"probe", "exec"}
  /\ \/ w.over = "no" /\ \E o \in Replies : Goes(w, [w EXCEPT !.at = "put", !.ans = o])
     \/ w.over = "no" /\ w.at = "probe" /\ Goes(w, [w EXCEPT !.at = "dial", !.conn = 0])
     \/ w.over = "no" /\ w.at = "exec" /\ UNCHANGED pool /\ QueryWithValidation(w, "transport")
     \/ w.over # "no" /\ UNCHANGED pool /\ QueryWithValidation(w, w.over)

(* dialFreshConn: verified with the table of pins there is now.            *)
DialFreshConn(w) ==
  /\ w \in work /\ w.at = "dial"
  /\ \/ w.over = "no" /\ Goes(w, [w EXCEPT !.at = "exec", !.conn = cfg.gen])
     \/ w.over = "no" /\ UNCHANGED pool /\ QueryWithValidation(w, "transport")
     \/ w.over # "no" /\ UNCHANGED pool /\ QueryWithValidation(w, w.over)

(* Mutant: closed is not looked at again under the lock.                   *)
MutKept(w) == Len(pool[w.p.name]) < MaxIdle

(* Mutant: no limit on idle connections.                                   *)
MutKeptAll(w) == closed = "no"

(* The pool takes a connection back unless it is closed or full.           *)
Kept(w) == closed = "no" /\ Len(pool[w.p.name]) < MaxIdle

PutIdleConn(w) ==
  /\ w \in work /\ w.at = "put"
  /\ pool' = IF Kept(w) THEN [pool EXCEPT ![w.p.name] = Append(@, w.conn)] ELSE pool
  /\ QueryWithValidation(w, w.ans)

-----------------------------------------------------------------------------
Step(w) == PlainExchange(w) \/ DohExchange(w) \/ PopIdleConn(w) \/ Execute(w) \/ DialFreshConn(w) \/ PutIdleConn(w)

Begin(q) == GroupChain(q) \/ MatchRoute(q) \/ Plan(q)

Next ==
  \/ Configure \/ ConfigureRoutes \/ ConfigureGroups \/ SetGroupUpstreams \/ Shutdown \/ Drain
  \/ \E q \in Queries : NewQuery(q) \/ Begin(q) \/ RaceOver(q) \/ CallerGone(q) \/ MainTimeout(q)
  \/ \E w \in work : Step(w)

Spec == Init /\ [][Next]_vars

(* Every exchange has a deadline (connect, query and HTTP timeouts), the   *)
(* goroutines are scheduled, and a configuration call runs to its end.     *)
FairSpec == /\ Spec
            /\ WF_vars(ConfigureRoutes) /\ WF_vars(ConfigureGroups)
            /\ \A q \in Queries : WF_vars(Begin(q)) /\ WF_vars(\E w \in work : w.q = q /\ Step(w))

-----------------------------------------------------------------------------
(* The properties.                                                         *)
Provider == [name : Names, gen : 1 .. MaxConfigures + 1, st : 0 .. MaxConfigures + 1]

TypeOK ==
  /\ cfg.gen \in 1 .. MaxConfigures + 1
  /\ \A k \in DOMAIN cfg.up : cfg.up[k] \in Provider
  /\ \A g \in DOMAIN group : g \in Groups /\ group[g] # <<>>
  /\ \A n \in Names : stats[n].obj \in 1 .. cfg.gen /\ stats[n].fails \in Nat
  /\ \A n \in Pooled : Len(pool[n]) <= MaxIdle
  /\ closed \in {"no", "closing", "yes"} /\ sick \subseteq Names
  /\ \A q \in Queries : query[q].at \in {"idle", "match", "chain", "plan", "run"} \cup Ended
  /\ \A w \in work : w.p \in Provider /\ w.over \in {"no"} \cup Over /\ w.ans \in Replies \cup {"none"}

(* A query asks only the providers its path allows: those of its group     *)
(* (never the fallback chain, resolver_groups.go:100), the configured route *)
(* of the longest suffix of its name, or the two chains when no configured  *)
(* route has a suffix of it; and all of one configuration.  Between         *)
(* ClearRoutes and the last SetRoute (resolver.go:270-303) a query may take *)
(* the route of a shorter suffix, or none: the router is not under r.mu.    *)
OnItsPath == \A q \in Queries : /\ query[q].asked \subseteq query[q].allowed
                                /\ \A p \in query[q].asked : p.gen = query[q].plan.gen

(* A query fails for its caller only after the fallback chain was asked,   *)
(* when one is configured for every failure and the caller still waits     *)
(* (scheduler_fallback.go:66: also after the main chain's own time limit). *)
FailsOnlyAfterFallback ==
  \A q \in Queries :
    query[q].at = "failed" /\ query[q].via = "default" /\ query[q].ctx = "no" /\
    query[q].plan.fallback # <<>> /\ query[q].plan.onError /\ "servfail" \in query[q].plan.onRcode
      => query[q].asked \cap Range(query[q].plan.fallback) # {}

(* Between two configuration calls every group is bound to the providers   *)
(* in force, and to all of those it is configured with                     *)
(* (resolver.go:221, controller.go:107).                                   *)
GroupsFollowConfig ==
  /\ \A g \in DOMAIN group : Range(group[g]) \subseteq Range(cfg.up)
  /\ admin.at = "idle" => group = Bind(cfg, admin.groups)

(* A closed pool holds no connection.                                      *)
ClosedPoolIsEmpty == closed = "yes" => \A n \in Pooled : pool[n] = <<>>

(* Only a provider that failed is counted as failing: one that lost a race *)
(* or whose caller went away keeps its rank.                               *)
OnlyTheSickAreBlamed == \A n \in Names : closed = "no" /\ stats[n].fails > 0 => n \in sick

(* Where a query goes is decided by its group, its name and the            *)
(* configuration; the providers it asks are of one configuration also when *)
(* another is installed meanwhile, but a route that is not set yet is      *)
(* missed.                                                                 *)
PathsHold == TypeOK /\ OnItsPath /\ GroupsFollowConfig

(* Failures are charged where they belong: to a query only when all that   *)
(* was promised has been tried, to a provider only when it failed, and to  *)
(* no connection that outlives its pool.                                   *)
FailuresAreFair == FailsOnlyAfterFallback /\ OnlyTheSickAreBlamed /\ ClosedPoolIsEmpty

(* Every query comes to an end: there is always a time when none runs.     *)
EveryQueryEnds == []<>(\A q \in Queries : query[q].at \in Ended \cup {"idle"})
=============================================================================
