----------------------------- MODULE AndroidDns -----------------------------
(***************************************************************************)
(* One DNS query through the Android engine: serveDNS and its gates, the   *)
(* answer cache with its single flight and stale refresh, the check of the *)
(* whole CNAME chain against the policy, and the address grants that let a *)
(* strictly allowlisted app connect to what it has resolved.               *)
(*                                                                         *)
(* Settings may change between any two steps of a query.  A domain is a    *)
(* name with one chain target and one address; upstream answers with the   *)
(* address, with a blocked (null) address, or not at all.                  *)
(***************************************************************************)
EXTENDS Naturals, FiniteSets

CONSTANTS Names,       \* names asked for
          Target,      \* [Names -> the CNAME target of its answer, or None]
          Uids,        \* owners of queries; those in DOMAIN allow are strict
          Queries,     \* client queries
          Workers,     \* bound: background refreshes at a time
          RuleSets,    \* policies that may be published
          Allowlists,  \* [strict uid -> allowed names] that may be set
          MaxEdits,    \* bound: changes of settings
          None

VARIABLES rules,       \* the published policy
          filterOn,    \* e.filterDNS
          rewrite,     \* [name -> "none", "ip", "cname"]
          allow,       \* e.appAllowlist: [strict uid -> allowed names]
          kernelOn,    \* the policy inside the cache container
          flagOn,      \* dnsCache.flags, its mirror on the Go side
          cache,       \* [name -> entry]
          flight,      \* [name -> the agent that leads its single flight]
          grants,      \* <<uid, name>>: uid may connect to name's address
          agent,       \* queries and background refreshes
          edits

vars == <<rules, filterOn, rewrite, allow, kernelOn, flagOn, cache, flight,
          grants, agent, edits>>
settings == <<rules, filterOn, rewrite, allow, kernelOn, flagOn, edits>>

Agents == Queries \cup Workers

NoEntry == [st |-> "none", ans |-> "addr", busy |-> FALSE]
\* held and same are history: what was blocked during the whole query, and
\* whether the allowlist stayed as it was.
Idle == [pc |-> "idle", uid |-> None, name |-> None, ans |-> None,
         res |-> None, held |-> {}, same |-> FALSE]

Init ==
  /\ rules \in RuleSets /\ filterOn = TRUE
  /\ rewrite = [n \in Names |-> "none"]
  /\ allow \in Allowlists
  /\ kernelOn = TRUE /\ flagOn = TRUE
  /\ cache = [n \in Names |-> NoEntry]
  /\ flight = [n \in Names |-> None]
  /\ grants = {} /\ edits = 0
  /\ agent = [a \in Agents |-> Idle]

TypeOK ==
  /\ \A n \in Names : cache[n].st \in {"none", "fresh", "stale"}
  /\ \A n \in Names : flight[n] \in Agents \cup {None}
  /\ \A n \in Names : flight[n] # None =>
       /\ agent[flight[n]].name = n
       /\ agent[flight[n]].pc \in {"lead", "led"}

At(a, pc) == agent[a].pc = pc
Goto(a, pc) == agent' = [agent EXCEPT ![a].pc = pc]

(* --- settings ---                                                        *)

Edit == edits < MaxEdits /\ edits' = edits + 1
Running(a) == agent[a].pc \notin {"idle", "refresh", "done"}

\* What a query for n must not be answered with: the filter switch covers
\* the name, not the chain.
InForce(r, on, n) == (r \cap {Target[n]}) \cup (IF on THEN r \cap {n} ELSE {})

Held(r, on) ==
  [a \in Agents |-> IF a \in Queries /\ Running(a)
     THEN [agent[a] EXCEPT !.held = @ \cap InForce(r, on, agent[a].name)]
     ELSE agent[a]]


\* ApplyRuleSnapshot publishes a whole policy at once.
ApplyRuleSnapshot(r) ==
  /\ Edit /\ r # rules /\ rules' = r
  /\ agent' = Held(r, filterOn)
  /\ UNCHANGED <<filterOn, rewrite, allow, kernelOn, flagOn, cache, flight,
                 grants>>

SetFilterDNS ==
  /\ Edit /\ filterOn' = ~filterOn
  /\ agent' = Held(rules, ~filterOn)
  /\ UNCHANGED <<rules, rewrite, allow, kernelOn, flagOn, cache, flight,
                 grants>>

SetRewriteRules(n, kind) ==
  /\ Edit /\ rewrite[n] # kind /\ rewrite' = [rewrite EXCEPT ![n] = kind]
  /\ UNCHANGED <<rules, filterOn, allow, kernelOn, flagOn, cache, flight,
                 grants, agent>>

\* A new allowlist that keeps the grants of the apps it still restricts.
MutSetAppAllowlist(w) ==
  /\ Edit /\ w # allow /\ allow' = w
  /\ grants' = {g \in grants : g[1] \in DOMAIN w}
  /\ agent' = [a \in Agents |-> [agent[a] EXCEPT !.same = FALSE]]
  /\ UNCHANGED <<rules, filterOn, rewrite, kernelOn, flagOn, cache, flight>>

\* SetAppAllowlist: the kernel drops every grant with the old lists.
SetAppAllowlist(w) ==
  /\ Edit /\ w # allow /\ allow' = w
  /\ grants' = {}
  /\ agent' = [a \in Agents |-> [agent[a] EXCEPT !.same = FALSE]]
  /\ UNCHANGED <<rules, filterOn, rewrite, kernelOn, flagOn, cache, flight>>

\* updatePolicy: the container first (switched off, it forgets every entry) ...
UpdatePolicy ==
  /\ Edit /\ kernelOn = flagOn /\ kernelOn' = ~kernelOn
  /\ cache' = IF kernelOn THEN [n \in Names |-> NoEntry] ELSE cache
  /\ UNCHANGED <<rules, filterOn, rewrite, allow, flagOn, flight, grants,
                 agent>>

\* ... then the flags the query path reads.
StoreFlags ==
  /\ flagOn # kernelOn /\ flagOn' = kernelOn
  /\ UNCHANGED <<rules, filterOn, rewrite, allow, kernelOn, cache, flight,
                 grants, agent, edits>>

ClearDNSCache ==
  /\ Edit /\ cache' = [n \in Names |-> NoEntry]
  /\ UNCHANGED <<rules, filterOn, rewrite, allow, kernelOn, flagOn, flight,
                 grants, agent>>

\* The deadline of an entry passes; a stale one is swept.
Expire(n) ==
  /\ cache[n].st # "none"
  /\ cache' = [cache EXCEPT ![n] = IF @.st = "fresh"
                 THEN [@ EXCEPT !.st = "stale"] ELSE NoEntry]
  /\ UNCHANGED <<settings, flight, grants, agent>>

\* The TTL of a grant runs out.
GrantExpires(g) ==
  /\ grants' = grants \ {g}
  /\ agent' = [a \in Agents |->
       IF agent[a].pc \in {"refresh", "done"} /\ agent[a].name = g[2]
       THEN [agent[a] EXCEPT !.same = FALSE] ELSE agent[a]]
  /\ UNCHANGED <<settings, cache, flight>>

(* --- the gates of serveDNS ---                                           *)

Ask(q, u, n) ==
  /\ q \in Queries /\ At(q, "idle")
  /\ agent' = [agent EXCEPT ![q] =
       [Idle EXCEPT !.pc = "allowlist", !.uid = u, !.name = n,
                    !.held = InForce(rules, filterOn, n), !.same = TRUE]]
  /\ UNCHANGED <<settings, cache, flight, grants>>

\* What the client gets: only an address has consequences here, and only the
\* two history fields that judge it are kept once the query is over.
Answer(a, pc, res) == agent' = [agent EXCEPT ![a].pc = pc, ![a].res = res]
After(r) == IF r.res = "addr"
            THEN [Idle EXCEPT !.pc = "done", !.name = r.name, !.res = "addr",
                              !.same = r.same]
            ELSE [Idle EXCEPT !.pc = "done"]
Done(a) == agent' = [agent EXCEPT ![a] = After(@)]
End(a) == agent' = [agent EXCEPT ![a] = [Idle EXCEPT !.pc = "done"]]

DomainAllowed(u, n) == u \notin DOMAIN allow \/ n \in allow[u]

\* standaloneBlock: the configured null answer, NXDOMAIN or REFUSED.
StandaloneBlock(q) == End(q)

CheckAllowlist(q) ==
  /\ At(q, "allowlist")
  /\ IF DomainAllowed(agent[q].uid, agent[q].name)
     THEN agent' = [agent EXCEPT ![q].pc = "rewrite", ![q].uid = None]
     ELSE StandaloneBlock(q)
  /\ UNCHANGED <<settings, cache, flight, grants>>

\* The owner of the query is looked up, and the app's firewall asked.
CheckFirewall(q) ==
  /\ At(q, "rewrite") /\ StandaloneBlock(q)
  /\ UNCHANGED <<settings, cache, flight, grants>>

\* A rewrite to an address answers at once; one to a name resolves that name,
\* and is skipped when it does not resolve.
Rewrite(q) ==
  /\ At(q, "rewrite")
  /\ \/ rewrite[agent[q].name] # "ip" /\ Goto(q, "policy")
     \/ rewrite[agent[q].name] # "none" /\ End(q)
  /\ UNCHANGED <<settings, cache, flight, grants>>

Blocks(n) == n \in rules

CheckPolicy(q) ==
  /\ At(q, "policy")
  /\ IF filterOn /\ Blocks(agent[q].name)
     THEN StandaloneBlock(q) ELSE Goto(q, "lookup")
  /\ UNCHANGED <<settings, cache, flight, grants>>

(* --- standaloneForward ---                                               *)

\* checkResponseChain: the policy is asked about the CNAME target too.
ChainBlocked(n) == Target[n] # None /\ Blocks(Target[n])

\* A blocked (null) answer carries no chain and gets no grant.
Served(ans) == IF ans = "addr" THEN "addr" ELSE "block"

Fresh(n) == kernelOn /\ cache[n].st = "fresh"
Stale(n) == kernelOn /\ cache[n].st = "stale"

\* The chain was checked when the entry was stored.
MutFreshHit(q) ==
  LET n == agent[q].name IN
  /\ At(q, "lookup") /\ flagOn /\ Fresh(n)
  /\ Answer(q, "grant", Served(cache[n].ans))
  /\ UNCHANGED <<settings, cache, flight, grants>>

\* A fresh hit: the chain is checked against today's rules, then the stored
\* bytes are written.
FreshHit(q) ==
  LET n == agent[q].name IN
  /\ At(q, "lookup") /\ flagOn /\ Fresh(n)
  /\ IF cache[n].ans = "addr" /\ ChainBlocked(n)
     THEN StandaloneBlock(q)
     ELSE Answer(q, "grant", Served(cache[n].ans))
  /\ UNCHANGED <<settings, cache, flight, grants>>

StaleHit(q) ==
  LET n == agent[q].name IN
  /\ At(q, "lookup") /\ flagOn /\ Stale(n)
  /\ IF cache[n].ans = "addr" /\ ChainBlocked(n)
     THEN StandaloneBlock(q)
     ELSE Answer(q, "grantStale", Served(cache[n].ans))
  /\ UNCHANGED <<settings, cache, flight, grants>>

Miss(q) ==
  /\ At(q, "lookup")
  /\ ~(flagOn /\ (Fresh(agent[q].name) \/ Stale(agent[q].name)))
  /\ Goto(q, IF flagOn THEN "join" ELSE "direct")
  /\ UNCHANGED <<settings, cache, flight, grants>>

\* remember: every strict app whose list covers the question is granted the
\* address, because Android's resolver asks on behalf of the apps.
Granted(n) == {<<s, n>> : s \in {s \in DOMAIN allow : n \in allow[s]}}

Remember(a) == grants' = IF agent[a].res = "addr"
                         THEN grants \cup Granted(agent[a].name)
                         ELSE grants

\* rememberAppAllowlistWire, after the cached bytes were written.
GrantHit(q) ==
  /\ At(q, "grant") /\ Remember(q) /\ Done(q)
  /\ UNCHANGED <<settings, cache, flight>>

\* The refresh is claimed, the grant forgotten.
MutGrantStale(q) ==
  /\ At(q, "grantStale") /\ Goto(q, "refresh")
  /\ UNCHANGED <<settings, cache, flight, grants>>

GrantStale(q) ==
  /\ At(q, "grantStale") /\ Remember(q) /\ Goto(q, "refresh")
  /\ UNCHANGED <<settings, cache, flight>>

\* After a stale answer the entry's one refresh is claimed.
ClaimRefresh(q) ==
  LET n == agent[q].name
      claim == cache[n].st # "none" /\ ~cache[n].busy
  IN  /\ At(q, "refresh")
      /\ \/ ~claim /\ UNCHANGED cache /\ Done(q)
         \/ /\ claim /\ cache' = [cache EXCEPT ![n].busy = TRUE]
            /\ \E w \in Workers :
                 /\ At(w, "idle")
                 /\ agent' = [agent EXCEPT
                      ![q] = After(@),
                      ![w] = [Idle EXCEPT !.pc = "join", !.name = n]]
      /\ UNCHANGED <<settings, flight, grants>>

(* --- singleFlightMsg ---                                                 *)

\* Looks once more, then leads the flight or waits for its leader.
Join(a) ==
  LET n == agent[a].name IN
  /\ At(a, "join")
  /\ \/ /\ Fresh(n)
        /\ agent' = [agent EXCEPT ![a].pc = "inspect", ![a].ans = cache[n].ans]
        /\ UNCHANGED flight
     \/ /\ ~Fresh(n) /\ flight[n] = None
        /\ flight' = [flight EXCEPT ![n] = a] /\ Goto(a, "lead")
     \/ /\ ~Fresh(n) /\ flight[n] # None
        /\ Goto(a, "wait") /\ UNCHANGED flight
  /\ UNCHANGED <<settings, cache, grants>>

Answers == {"addr", "null", "error"}

Put(n, ans) == IF ans # "error" /\ kernelOn
               THEN [cache EXCEPT ![n] = [NoEntry EXCEPT !.st = "fresh",
                                                         !.ans = ans]]
               ELSE cache

\* The leader asks upstream and stores what it got (a panic is an error).
Resolve(a) ==
  /\ At(a, "lead")
  /\ \E ans \in Answers :
       /\ cache' = Put(agent[a].name, ans)
       /\ agent' = [agent EXCEPT ![a].pc = "led", ![a].ans = ans]
  /\ UNCHANGED <<settings, flight, grants>>

\* The failed flight keeps its waiters.
MutFlightDone(a) ==
  LET n == agent[a].name
      go == agent[a].ans # "error"
  IN  /\ At(a, "led")
      /\ flight' = [flight EXCEPT ![n] = None]
      /\ agent' = [b \in Agents |->
           IF b = a \/ (go /\ At(b, "wait") /\ agent[b].name = n)
           THEN [agent[b] EXCEPT !.pc = IF b = a THEN "inspect" ELSE "shared",
                                 !.ans = agent[a].ans]
           ELSE agent[b]]
      /\ UNCHANGED <<settings, cache, grants>>

\* The call is removed and its waiters released.
FlightDone(a) ==
  LET n == agent[a].name IN
  /\ At(a, "led")
  /\ flight' = [flight EXCEPT ![n] = None]
  /\ agent' = [b \in Agents |->
       IF b = a \/ (At(b, "wait") /\ agent[b].name = n)
       THEN [agent[b] EXCEPT !.pc = IF b = a THEN "inspect" ELSE "shared",
                             !.ans = agent[a].ans]
       ELSE agent[b]]
  /\ UNCHANGED <<settings, cache, grants>>

\* A waiter prefers the stored entry to the leader's bytes.
Shared(a) ==
  LET n == agent[a].name IN
  /\ At(a, "shared")
  /\ agent' = [agent EXCEPT ![a].pc = "inspect",
       ![a].ans = IF @ # "error" /\ Fresh(n) THEN cache[n].ans ELSE @]
  /\ UNCHANGED <<settings, cache, flight, grants>>

\* Without a cache the resolver is asked directly.
Direct(q) ==
  /\ At(q, "direct")
  /\ \E ans \in Answers :
       agent' = [agent EXCEPT ![q].pc = "inspect", ![q].ans = ans]
  /\ UNCHANGED <<settings, cache, flight, grants>>

\* The claim stays with the entry.
MutRefreshEnds(w) ==
  /\ w \in Workers /\ At(w, "inspect")
  /\ agent' = [agent EXCEPT ![w] = Idle]
  /\ UNCHANGED <<settings, cache, flight, grants>>

\* endStaleRefresh: whatever became of it, the claim is given back.
RefreshEnds(w) ==
  /\ w \in Workers /\ At(w, "inspect")
  /\ agent' = [agent EXCEPT ![w] = Idle]
  /\ cache' = [cache EXCEPT ![agent[w].name].busy = FALSE]
  /\ UNCHANGED <<settings, flight, grants>>

\* The answer is looked at: SERVFAIL, an upstream block passed on, a chain
\* that hits a rule, or an address.
Inspect(q) ==
  /\ q \in Queries /\ At(q, "inspect")
  /\ CASE agent[q].ans = "error" -> End(q)
       [] agent[q].ans = "null"  -> End(q)
       [] OTHER -> IF ChainBlocked(agent[q].name) THEN StandaloneBlock(q)
                   ELSE Answer(q, "write", "addr")
  /\ UNCHANGED <<settings, cache, flight, grants>>

\* The grant precedes the answer on this path.
WriteMsg(q) ==
  /\ At(q, "write") /\ Remember(q) /\ Done(q)
  /\ UNCHANGED <<settings, cache, flight>>

Step(a) ==
  \/ CheckAllowlist(a) \/ CheckFirewall(a) \/ Rewrite(a) \/ CheckPolicy(a)
  \/ FreshHit(a) \/ StaleHit(a) \/ Miss(a) \/ GrantHit(a) \/ GrantStale(a)
  \/ ClaimRefresh(a)
  \/ Join(a) \/ Resolve(a) \/ FlightDone(a) \/ Shared(a) \/ Direct(a)
  \/ RefreshEnds(a) \/ Inspect(a) \/ WriteMsg(a)

Next ==
  \/ \E a \in Agents : Step(a)
  \/ \E q \in Queries, u \in Uids, n \in Names : Ask(q, u, n)
  \/ \E n \in Names : Expire(n)
  \/ \E g \in grants : GrantExpires(g)
  \/ \E r \in RuleSets : ApplyRuleSnapshot(r)
  \/ \E n \in Names, k \in {"none", "ip", "cname"} : SetRewriteRules(n, k)
  \/ \E w \in Allowlists : SetAppAllowlist(w)
  \/ SetFilterDNS \/ UpdatePolicy \/ StoreFlags \/ ClearDNSCache

\* The goroutine of a query and of a refresh runs on; upstream exchanges end
\* (each has a timeout).
Fairness == \A a \in Agents : WF_vars(Step(a))

Spec == Init /\ [][Next]_vars /\ Fairness

(* --- properties ---                                                      *)

\* engine_response_chain.go: a name is not trusted because it passed the
\* rules itself.  No query is answered with an address whose CNAME target was
\* blocked by the policy throughout the query, also not from an entry that
\* was cached before the rule existed.
CloakedNeverServed ==
  \A q \in Queries : agent[q].res = "addr" =>
    agent[q].held = {}

\* rememberAppAllowlistWire exists because apps resolved from the cache and
\* then had every connection refused: once a query is answered with an
\* address, every strict app whose list covers the name may connect to it,
\* until the TTL or the allowlist says otherwise, whoever asked.
ResolvedMeansReachable ==
  \A q \in Queries : At(q, "done") /\ agent[q].res = "addr" /\ agent[q].same =>
    \A s \in DOMAIN allow : agent[q].name \in allow[s] =>
                              <<s, agent[q].name>> \in grants

\* A strict app only ever holds grants for names of the list now in force,
\* although queries admitted under an older list are still being answered.
GrantsFollowAllowlist ==
  \A g \in grants : g[1] \in DOMAIN allow /\ g[2] \in allow[g[1]]

\* Every query is answered and every refresh ends and gives back its claim,
\* whether its flight's leader got an answer, an error or a panic.
QueriesEnd ==
  /\ \A a \in Agents : []<>~Running(a)
  /\ \A n \in Names : []<>(~cache[n].busy)
=============================================================================
